------------------------- MODULE PipelineRunProofs -------------------------
(***************************************************************************)
(* Proofs about PipelineRun, for every pipeline: type correctness, jobs    *)
(* that are all put in a final state, stages that start after successful   *)
(* ones, what a signal stops, the exit code 2.  For the pipelines whose    *)
(* stages are contiguous (Ordered): which job is the last of its           *)
(* definition, and the job that previous_job_id names.                     *)
(***************************************************************************)
EXTENDS PipelineRun, TLAPS, WellFoundedInduction

Typed == TypeOK /\ Pointers

\* Definitions are numbered from 1, and there is one.
LEMMA DefsFacts == Defs \subseteq Nat \ {0} /\ 1 \in Defs
BY PipelineAssumption DEF Defs

-----------------------------------------------------------------------------
(* What a step does to the jobs.                                           *)

\* The status of job c changes, if it exists.
OnlyStatus(c) ==
  /\ jobs' \in Seq(JobRecord)
  /\ DOMAIN jobs' = DOMAIN jobs
  /\ \A j \in DOMAIN jobs : /\ jobs'[j].by = jobs[j].by
                            /\ jobs'[j].prev = jobs[j].prev
                            /\ jobs'[j].told = jobs[j].told
                            /\ jobs'[j].ok = jobs[j].ok
                            /\ j # c => jobs'[j].status = jobs[j].status

\* A jobstate changes a status and nothing else.
LEMMA StatusSet ==
  ASSUME jobs \in Seq(JobRecord), NEW c, NEW s \in Status,
         jobs' = [jobs EXCEPT ![c].status = s]
  PROVE  OnlyStatus(c) /\ (c \in DOMAIN jobs => jobs'[c].status = s)
<1>1. \A j \in DOMAIN jobs : jobs[j] \in JobRecord
  OBVIOUS
<1>2. \A x \in JobRecord : /\ [x EXCEPT !.status = s] \in JobRecord
                           /\ [x EXCEPT !.status = s].by = x.by
                           /\ [x EXCEPT !.status = s].prev = x.prev
                           /\ [x EXCEPT !.status = s].told = x.told
                           /\ [x EXCEPT !.status = s].ok = x.ok
                           /\ [x EXCEPT !.status = s].status = s
  BY DEF JobRecord
<1>3. DOMAIN jobs' = DOMAIN jobs
  OBVIOUS
<1>4. \A j \in DOMAIN jobs :
        jobs'[j] = IF j = c THEN [jobs[j] EXCEPT !.status = s] ELSE jobs[j]
  OBVIOUS
<1>5. \A j \in DOMAIN jobs : jobs'[j] \in JobRecord
  BY <1>1, <1>2, <1>4
<1>6. jobs' \in Seq(JobRecord)
  <2>1. DOMAIN jobs = 1..Len(jobs) /\ Len(jobs) \in Nat
    OBVIOUS
  <2>2. jobs' \in [1..Len(jobs) -> JobRecord]
    BY <1>3, <1>5, <2>1
  <2> QED BY <2>1, <2>2
<1> QED BY <1>1, <1>2, <1>3, <1>4, <1>6 DEF OnlyStatus

\* A job created is the last one, and the others stay as they are.
LEMMA Appended ==
  ASSUME jobs \in Seq(JobRecord), NEW x \in JobRecord, jobs' = Append(jobs, x)
  PROVE  /\ jobs' \in Seq(JobRecord)
         /\ Len(jobs) + 1 \in Nat \ {0}
         /\ Len(jobs) + 1 \notin DOMAIN jobs
         /\ DOMAIN jobs' = DOMAIN jobs \cup {Len(jobs) + 1}
         /\ \A j \in DOMAIN jobs : jobs'[j] = jobs[j]
         /\ jobs'[Len(jobs) + 1] = x
OBVIOUS

\* update_job_info changes what is told of job c and its result.
LEMMA JobReported ==
  ASSUME jobs \in Seq(JobRecord), NEW c \in DOMAIN jobs, NEW ok \in BOOLEAN,
         jobs' = [jobs EXCEPT ![c] = Reported(@, ok)]
  PROVE  /\ jobs' \in Seq(JobRecord)
         /\ DOMAIN jobs' = DOMAIN jobs
         /\ \A j \in DOMAIN jobs : /\ jobs'[j].by = jobs[j].by
                                   /\ jobs'[j].prev = jobs[j].prev
                                   /\ jobs'[j].status = jobs[j].status
                                   /\ j # c => jobs'[j] = jobs[j]
         /\ jobs'[c].told = (jobs[c].status = "error")
         /\ jobs'[c].ok = ok
<1>1. jobs[c] \in JobRecord
  OBVIOUS
<1>2. Reported(jobs[c], ok) \in JobRecord
  BY <1>1 DEF JobRecord, Reported
<1>3. /\ Reported(jobs[c], ok).by = jobs[c].by
      /\ Reported(jobs[c], ok).prev = jobs[c].prev
      /\ Reported(jobs[c], ok).status = jobs[c].status
      /\ Reported(jobs[c], ok).told = (jobs[c].status = "error")
      /\ Reported(jobs[c], ok).ok = ok
  BY DEF Reported
<1>4. jobs' = [jobs EXCEPT ![c] = Reported(jobs[c], ok)]
  OBVIOUS
<1> QED BY <1>2, <1>3, <1>4

-----------------------------------------------------------------------------
(* Type correctness.                                                       *)

USE DEF serverVars, defVars, loopVars, jobVars, vars

\* The initial states.
LEMMA TypedInit == Init => Typed
<1>1. <<>> \in Seq(JobRecord)
  OBVIOUS
<1>2. Init => /\ jobs \in Seq(JobRecord)
              /\ info \in [Defs -> Nat \cup {-1}]
              /\ failed \in [Defs -> Nat]
              /\ tmp \in [Defs -> {"meta", "made", "removed", "left"}]
  BY <1>1 DEF Init
<1>3. Init => /\ orphans \in SUBSET Defs /\ refused \in SUBSET Nat
              /\ stage \in Defs /\ at \in Defs \cup {0}
              /\ attempt \in {1, 2}
  BY DefsFacts DEF Init
<1>4. Init => /\ opened \in BOOLEAN /\ rc \in BOOLEAN /\ errors \in BOOLEAN
              /\ pc = "loop" /\ exit = "no" /\ signal = 0
  BY Zenon DEF Init
<1>5. Init => link \in Nat /\ first \in Nat /\ second \in Nat
  BY SMT DEF Init
<1>6. Init => TypeOK
  BY <1>2, <1>3, <1>4, <1>5 DEF TypeOK
<1> QED BY <1>6 DEF Init, Typed, Pointers, Playing

\* The steps that leave the jobs alone, info and failed included.
Quiet ==
  \/ NextJobdef \/ FindPrevious \/ PreviousIsNone \/ OpenPipeline \/ Raise
  \/ CreateLost \/ Create \/ NoDataDir \/ Launch \/ InventoryFails
  \/ PlaybookEnds \/ Succeed \/ GiveUp \/ CloseRefused \/ NextStage \/ Done
  \/ StopOnErrors \/ Signal \/ UNCHANGED vars

\* Steps that leave jobs, info and failed alone.
LEMMA QuietTyped ==
  ASSUME Typed, Quiet
  PROVE  Typed'
<1>j. jobs' = jobs /\ info' = info /\ failed' = failed
  BY DEF Quiet, NextJobdef, FindPrevious, PreviousIsNone, OpenPipeline, Raise,
    CreateLost, Create, NoDataDir, Launch, InventoryFails, PlaybookEnds,
    Succeed, GiveUp, CloseRefused, NextStage, Done, StopOnErrors, Signal
<1>t. /\ TypeOK
      /\ pc \in {"create", "get"} => at # 0
      /\ TypeOK => /\ jobs' \in Seq(JobRecord)
                   /\ info' \in [Defs -> Nat \cup {-1}]
                   /\ failed' \in [Defs -> Nat]
  BY <1>j DEF TypeOK, Typed, Pointers
<1>1. CASE NextJobdef
  <2>1. TypeOK' BY <1>1, <1>t DEF NextJobdef, Goto, Follows, Members, TypeOK
  <2>2. at' # 0 BY <1>1, DefsFacts DEF NextJobdef, Follows, Members
  <2> QED BY <1>1, <1>j, <2>1, <2>2
        DEF NextJobdef, Goto, Typed, Pointers, Playing
<1>2. CASE FindPrevious
  <2>1. link' \in Nat
    BY <1>2, <1>t DEF FindPrevious, Tried, Lookup, IsLast, TypeOK
  <2>2. pc' \in {"create", "pipeline"} BY <1>2 DEF FindPrevious
  <2>3. TypeOK' BY <1>2, <1>t, <2>1, <2>2 DEF FindPrevious, TypeOK
  <2> QED BY <1>2, <1>j, <2>3 DEF FindPrevious, Typed, Pointers, Playing
<1>3. CASE PreviousIsNone \/ Raise \/ NoDataDir
  <2>1. TypeOK' BY <1>3, <1>t DEF PreviousIsNone, Raise, NoDataDir, Abandon,
                                  Leave, TypeOK
  <2> QED BY <1>3, <1>j, <2>1
        DEF PreviousIsNone, Raise, NoDataDir, Leave, Typed, Pointers, Playing
<1>4. CASE OpenPipeline \/ Create \/ CreateLost
  <2>1. TypeOK' BY <1>4, <1>t DEF OpenPipeline, Create, CreateLost, Abandon,
                                  Goto, TypeOK
  <2> QED BY <1>4, <1>j, <2>1 DEF OpenPipeline, Create, CreateLost, Goto,
                                  Typed, Pointers, Playing
<1>5. CASE Launch \/ InventoryFails
  <2>1. tmp' \in [Defs -> {"meta", "made", "removed", "left"}]
    BY <1>5, <1>t DEF Launch, InventoryFails, Remains, TypeOK
  <2>2. TypeOK'
    BY <1>5, <1>t, <2>1 DEF Launch, InventoryFails, Goto, TypeOK
  <2> QED BY <1>5, <1>j, <2>2
        DEF Launch, InventoryFails, Goto, Typed, Pointers, Playing, Current
<1>6. CASE PlaybookEnds \/ Succeed \/ GiveUp
  <2>1. TypeOK' BY <1>6, <1>t DEF PlaybookEnds, Succeed, GiveUp, Goto, TypeOK
  <2> QED BY <1>6, <1>j, <2>1 DEF PlaybookEnds, Succeed, GiveUp, Goto,
                                  Typed, Pointers, Playing, Current
<1>7. CASE CloseRefused
  <2>1. Target \in Nat BY <1>t DEF Target, TypeOK
  <2>2. /\ first' \in Nat /\ second' \in Nat
        /\ pc' \in {"loop", "close"}
    BY <1>7, <1>t DEF CloseRefused, Closed, TypeOK
  <2>3. TypeOK' BY <1>7, <1>t, <2>1, <2>2 DEF CloseRefused, TypeOK
  <2> QED BY <1>7, <1>j, <2>3
        DEF CloseRefused, Closed, Typed, Pointers, Playing
<1>8. CASE NextStage
  <2>1. TypeOK' BY <1>8, <1>t DEF NextStage, Follows, Stages, TypeOK
  <2> QED BY <1>8, <1>j, <2>1 DEF NextStage, Typed, Pointers, Playing
<1>9. CASE Done \/ StopOnErrors
  <2>1. /\ pc' = "over"
        /\ exit' \in {"success", "failure", "error", "signal"}
    BY <1>9 DEF Done, StopOnErrors, Leave
  <2>2. TypeOK' BY <1>9, <1>t, <2>1 DEF Done, StopOnErrors, TypeOK
  <2> QED BY <1>9, <1>j, <2>1, <2>2
        DEF Done, StopOnErrors, Typed, Pointers, Playing
<1>10. CASE Signal \/ UNCHANGED vars
  <2>1. TypeOK'
    <3>1. CASE Signal BY <3>1, <1>t DEF Signal, TypeOK
    <3>2. CASE UNCHANGED vars BY <3>2, <1>t DEF TypeOK
    <3> QED BY <1>10, <3>1, <3>2
  <2> QED BY <1>10, <1>j, <2>1
        DEF Signal, Typed, Pointers, Playing, Current
<1> QED BY <1>1, <1>2, <1>3, <1>4, <1>5, <1>6, <1>7, <1>8, <1>9, <1>10
      DEF Quiet

\* schedule_job returns None.
LEMMA NotScheduledTyped ==
  ASSUME Typed, ScheduleFails \/ ScheduleForgets
  PROVE  Typed'
<1>p. at \in Defs /\ exit = "no"
  BY DEF Typed, Pointers, TypeOK, ScheduleFails, ScheduleForgets
<1>1. NotScheduled /\ orphans' \in SUBSET Defs
  BY <1>p DEF ScheduleFails, ScheduleForgets, Abandon, Typed, TypeOK
<1>2. info' \in [Defs -> Nat \cup {-1}]
  BY <1>1 DEF NotScheduled, Typed, TypeOK
<1>3. \A i \in Defs : info'[i] = IF i = at THEN 0 ELSE info[i]
  BY <1>1 DEF NotScheduled, Typed, TypeOK
<1>4. pc' \in {"loop", "close"} /\ exit' = "no" /\ at' # 0
  BY <1>1, <1>p, DefsFacts DEF NotScheduled
<1>5. jobs' = jobs /\ failed' = failed
  BY <1>1 DEF NotScheduled
<1>6. TypeOK'
  BY <1>1, <1>2, <1>4, <1>5 DEF NotScheduled, Typed, TypeOK
<1>7. Pointers'
  BY <1>3, <1>4, <1>5 DEF Typed, Pointers, Playing
<1> QED BY <1>6, <1>7 DEF Typed

\* schedule_job returns a job.
LEMMA ScheduledTyped ==
  ASSUME Typed, Scheduled
  PROVE  Typed'
<1> DEFINE x == [by |-> at, prev |-> link, status |-> "new", told |-> FALSE,
                 ok |-> FALSE]
<1>p. /\ at \in Defs /\ exit = "no" /\ jobs \in Seq(JobRecord)
      /\ info \in [Defs -> Nat \cup {-1}]
  BY DEF Typed, Pointers, TypeOK, Scheduled, Goto
<1>1. x \in JobRecord /\ x.by = at
  BY <1>p DEF Typed, TypeOK, JobRecord, Status
<1>2. jobs' = Append(jobs, x)
  BY DEF Scheduled
<1> HIDE DEF x
<1>3. /\ jobs' \in Seq(JobRecord)
      /\ DOMAIN jobs' = DOMAIN jobs \cup {Len(jobs) + 1}
      /\ jobs'[Len(jobs) + 1] = x
      /\ Len(jobs) + 1 \in Nat \ {0}
  BY <1>1, <1>2, <1>p, Appended
<1>4. /\ info' \in [Defs -> Nat \cup {-1}]
      /\ \A i \in Defs : info'[i] = IF i = at THEN Len(jobs) + 1 ELSE info[i]
  BY <1>p, <1>3 DEF Scheduled
<1>5. first' \in Nat /\ second' \in Nat
  BY <1>3 DEF Scheduled, Typed, TypeOK
<1>6. pc' = "run" /\ exit' = "no" /\ at' = at /\ failed' = failed
  BY <1>p DEF Scheduled, Goto
<1>7. TypeOK'
  BY <1>3, <1>4, <1>5, <1>6 DEF Scheduled, Typed, TypeOK
<1>8. at' # 0 /\ info'[at] = Len(jobs) + 1
  BY <1>4, <1>6, <1>p, DefsFacts
<1>9. Pointers'
  <2>1. \A i \in Defs : /\ info'[i] > 0 => info'[i] \in DOMAIN jobs'
                        /\ failed'[i] > 0 => failed'[i] \in DOMAIN jobs'
    BY <1>3, <1>4, <1>6 DEF Typed, Pointers
  <2> QED BY <1>1, <1>3, <1>6, <1>8, <2>1 DEF Pointers, Playing, Current
<1> QED BY <1>7, <1>9 DEF Typed

\* Callback and Close.
LEMMA StatusTyped ==
  ASSUME Typed, NEW c, OnlyStatus(c), pc' \in {pc, "loop"}, pc # "over",
         first' \in Nat, second' \in Nat,
         UNCHANGED <<orphans, refused, defVars, opened, loopVars, attempt,
                     link, rc, exit, signal>>
  PROVE  Typed'
<1>1. TypeOK'
  BY DEF OnlyStatus, Typed, TypeOK
<1>2. Pointers'
  BY DEF OnlyStatus, Typed, Pointers, Playing, Current
<1> QED BY <1>1, <1>2 DEF Typed

\* What set_job_to_final_state sends is a status.
LEMMA FinalStateStatus == FinalState(jobs[Target].status) \in Status
BY DEF FinalState, Status, Final, Product

\* The end of run_jobdef.
LEMMA ReportTyped ==
  ASSUME Typed, Report
  PROVE  Typed'
<1>p. /\ Current \in DOMAIN jobs /\ jobs[Current].by = at
      /\ jobs \in Seq(JobRecord)
      /\ pc = "report" /\ exit = "no" /\ at # 0
  BY DEF Report, Goto, Typed, TypeOK, Pointers, Playing
<1>1. (rc /\ signal = 0) \in BOOLEAN
  OBVIOUS
<1>2. jobs' = [jobs EXCEPT ![Current] = Reported(@, rc /\ signal = 0)]
  BY DEF Report
<1>3. /\ jobs' \in Seq(JobRecord)
      /\ DOMAIN jobs' = DOMAIN jobs
      /\ \A j \in DOMAIN jobs : jobs'[j].by = jobs[j].by
  BY <1>p, <1>1, <1>2, JobReported
<1>4. tmp' \in [Defs -> {"meta", "made", "removed", "left"}]
  BY DEF Report, Remains, Typed, TypeOK
<1>5. TypeOK'
  BY <1>3, <1>4 DEF Report, Goto, Typed, TypeOK
<1>6. Pointers'
  BY <1>3, <1>p DEF Report, Goto, Typed, Pointers, Playing, Current
<1> QED BY <1>5, <1>6 DEF Typed

\* A failed job is replaced by its fallback.
LEMMA FallBackTyped ==
  ASSUME Typed, FallBack
  PROVE  Typed'
<1>p. /\ Current \in DOMAIN jobs /\ jobs \in Seq(JobRecord)
      /\ pc = "judge" /\ exit = "no" /\ at # 0
      /\ failed \in [Defs -> Nat]
  BY DEF FallBack, Goto, Typed, TypeOK, Pointers, Playing
<1>1. Current \in Nat
  BY <1>p
<1>2. /\ failed' \in [Defs -> Nat]
      /\ \A i \in Defs : failed'[i] = IF i = at THEN Current ELSE failed[i]
  BY <1>p, <1>1 DEF FallBack
<1>3. TypeOK'
  BY <1>2 DEF FallBack, Goto, Typed, TypeOK
<1>4. Pointers'
  BY <1>2, <1>p DEF FallBack, Goto, Typed, Pointers, Playing
<1> QED BY <1>3, <1>4 DEF Typed

\* Every step.
LEMMA TypedStep ==
  ASSUME Typed, [Next]_vars
  PROVE  Typed'
<1>1. CASE Quiet BY <1>1, QuietTyped
<1>2. CASE ScheduleFails \/ ScheduleForgets BY <1>2, NotScheduledTyped
<1>3. CASE Scheduled BY <1>3, ScheduledTyped
<1>4. CASE Callback
  <2>1. PICK s \in Status : jobs' = [jobs EXCEPT ![Current].status = s]
    BY <1>4 DEF Callback
  <2>2. OnlyStatus(Current)
    BY <2>1, StatusSet DEF Typed, TypeOK
  <2> QED BY <2>2, <1>4, StatusTyped DEF Callback, Typed, TypeOK
<1>5. CASE Close
  <2>1. OnlyStatus(Target)
    BY <1>5, StatusSet, FinalStateStatus DEF Close, Typed, TypeOK
  <2>2. first' \in Nat /\ second' \in Nat /\ pc' \in {pc, "loop"}
    BY <1>5 DEF Close, Closed, Typed, TypeOK
  <2> QED BY <2>1, <2>2, <1>5, StatusTyped DEF Close
<1>6. CASE Report BY <1>6, ReportTyped
<1>7. CASE FallBack BY <1>7, FallBackTyped
<1> QED BY <1>1, <1>2, <1>3, <1>4, <1>5, <1>6, <1>7
      DEF Next, Step, ScheduleStep, RunStep, StageStep, Quiet

\* Typed is an invariant.
LEMMA PipelineTyped == Spec => []Typed
BY TypedInit, TypedStep, PTL DEF Spec

\* Type correctness of every reachable state, for every pipeline.
THEOREM PipelineTypeCorrect == Spec => []TypeOK
BY PipelineTyped, PTL DEF Typed

-----------------------------------------------------------------------------
(* Every job is put in a final state.                                      *)

\* Four actions touch the jobs.
LEMMA OtherJobs ==
  ASSUME [Next]_vars, ~Scheduled, ~Callback, ~Close, ~Report
  PROVE  jobs' = jobs
BY DEF Next, Step, ScheduleStep, RunStep, StageStep, NextJobdef, FindPrevious,
  PreviousIsNone, OpenPipeline, Raise, CreateLost, Create, NoDataDir, Launch,
  InventoryFails, PlaybookEnds, Succeed, FallBack, GiveUp, CloseRefused,
  NextStage, Done, StopOnErrors, Signal, ScheduleFails, ScheduleForgets,
  NotScheduled

\* The steps that close no job and create none.
Away ==
  \/ NextJobdef \/ FindPrevious \/ PreviousIsNone \/ OpenPipeline \/ Raise
  \/ CreateLost \/ Create \/ NoDataDir \/ Launch \/ InventoryFails
  \/ PlaybookEnds \/ Succeed \/ FallBack \/ GiveUp \/ NextStage \/ Done
  \/ StopOnErrors \/ Signal \/ ScheduleFails \/ ScheduleForgets
  \/ UNCHANGED vars

\* Steps that close no job and create none keep track of open jobs.
LEMMA AwayUnclosed ==
  ASSUME Typed, Unclosed, Away
  PROVE  Unclosed'
<1>1. UNCHANGED <<jobs, first, second, refused>>
  BY DEF Away, NextJobdef, FindPrevious, PreviousIsNone, OpenPipeline, Raise,
    CreateLost, Create, NoDataDir, Launch, InventoryFails, PlaybookEnds,
    Succeed, FallBack, GiveUp, NextStage, Done, StopOnErrors, Signal,
    ScheduleFails, ScheduleForgets, NotScheduled
<1>2. /\ pc = "over" <=> exit # "no"
      /\ exit = "raised" => pc = "over"
      /\ attempt \in {1, 2}
  BY DEF Typed, Pointers, TypeOK
<1>3. \A j : Open(j)' <=> Open(j)
  BY <1>1 DEF Open
<1>4. exit = "raised" => exit' = "raised"
  BY <1>2 DEF Away, NextJobdef, FindPrevious, PreviousIsNone, OpenPipeline,
    Raise, CreateLost, Create, NoDataDir, Launch, InventoryFails, Leave,
    PlaybookEnds, Succeed, FallBack, GiveUp, NextStage, Done, StopOnErrors,
    Signal, ScheduleFails, ScheduleForgets, NotScheduled
<1>5. CASE NextJobdef \/ NextStage
  BY <1>1, <1>2, <1>3, <1>5
    DEF NextJobdef, NextStage, Goto, Unclosed, Playing, Returned
<1>6. CASE FindPrevious \/ OpenPipeline
  <2>1. /\ pc \in {"start", "pipeline"} /\ pc' \in {"pipeline", "create"}
        /\ exit' = exit /\ attempt' = attempt
    BY <1>6 DEF FindPrevious, OpenPipeline, Goto
  <2> QED BY <1>1, <1>2, <1>3, <2>1 DEF Unclosed, Playing, Returned
<1>7. CASE Signal \/ UNCHANGED vars
  BY <1>1, <1>3, <1>7 DEF Signal, Unclosed
<1>8. CASE PreviousIsNone \/ Raise \/ NoDataDir
  BY <1>1, <1>2, <1>3, <1>8
    DEF PreviousIsNone, Raise, NoDataDir, Leave, Unclosed, Playing, Returned
<1>9. CASE Done \/ StopOnErrors
  BY <1>1, <1>2, <1>3, <1>4, <1>9
    DEF Done, StopOnErrors, Leave, Unclosed, Playing
<1>11. CASE CreateLost \/ Create
  BY <1>1, <1>2, <1>3, <1>11
    DEF CreateLost, Create, Goto, Unclosed, Playing, Returned
<1>10. CASE ScheduleFails \/ ScheduleForgets
  <2>1. /\ pc \in {"create", "get"} /\ exit' = exit /\ attempt' = attempt
        /\ \/ attempt = 1 /\ pc' = "loop"
           \/ attempt # 1 /\ pc' = "close"
    BY <1>10 DEF ScheduleFails, ScheduleForgets, NotScheduled
  <2> QED BY <1>1, <1>2, <1>3, <2>1 DEF Unclosed, Playing, Returned
<1>12. CASE Launch \/ InventoryFails \/ PlaybookEnds \/ Succeed \/ GiveUp
  BY <1>1, <1>2, <1>3, <1>12
    DEF Launch, InventoryFails, PlaybookEnds, Succeed, GiveUp, Goto, Unclosed,
    Playing, Returned
<1>13. CASE FallBack
  BY <1>1, <1>2, <1>3, <1>13
    DEF FallBack, MayFallBack, Goto, Unclosed, Playing, Returned
<1> QED BY <1>5, <1>8, <1>9, <1>11, <1>12, <1>13, <1>10, <1>6,
      <1>7 DEF Away

\* set_job_to_final_state closes its job, or is refused.
LEMMA CloseUnclosed ==
  ASSUME Typed, Unclosed, Close \/ CloseRefused
  PROVE  Unclosed'
<1>p. /\ jobs \in Seq(JobRecord) /\ pc = "close" /\ exit = "no"
      /\ exit' = "no" /\ attempt' = attempt
      /\ first # 0
      /\ 0 \notin DOMAIN jobs
  BY DEF Close, CloseRefused, Typed, TypeOK, Pointers, Unclosed
<1>c. /\ Closed
      /\ \/ second # 0 /\ Target = second /\ second' = 0 /\ first' = first
            /\ pc' = "close"
         \/ second = 0 /\ Target = first /\ first' = 0 /\ second' = 0
            /\ pc' = "loop"
  BY <1>p DEF Close, CloseRefused, Closed, Target
<1>t. Target \in DOMAIN jobs
  BY <1>p, <1>c DEF Unclosed
<1>1. /\ DOMAIN jobs' = DOMAIN jobs
      /\ \A j \in DOMAIN jobs :
           Open(j)' => Open(j) /\ (j # Target \/ j \in refused')
      /\ refused \subseteq refused'
  <2>1. CASE Close
    <3>1. /\ OnlyStatus(Target)
          /\ jobs'[Target].status = FinalState(jobs[Target].status)
      BY <2>1, <1>p, <1>t, StatusSet, FinalStateStatus DEF Close
    <3>2. FinalState(jobs[Target].status) \in Final
      BY DEF FinalState, Final
    <3> QED BY <2>1, <3>1, <3>2 DEF OnlyStatus, Open, Close
  <2>2. CASE CloseRefused
    BY <2>2 DEF CloseRefused, Open
  <2> QED BY <2>1, <2>2
<1>2. \A j \in DOMAIN jobs' :
        Open(j)' => j \in {first', second'} \cup refused'
  BY <1>1, <1>c, <1>p, <1>t DEF Unclosed
<1> QED BY <1>1, <1>2, <1>c, <1>p DEF Unclosed, Playing, Returned

\* Every step.
LEMMA UnclosedStep ==
  ASSUME Typed, Unclosed, [Next]_vars
  PROVE  Unclosed'
<1>1. CASE Away BY <1>1, AwayUnclosed
<1>2. CASE Close \/ CloseRefused BY <1>2, CloseUnclosed
<1>3. CASE Scheduled
  <2>p. jobs \in Seq(JobRecord) /\ pc = "get" /\ exit = "no"
        /\ attempt \in {1, 2} /\ at \in Defs /\ link \in Nat
    BY <1>3 DEF Scheduled, Goto, Typed, TypeOK, Pointers
  <2>1. PICK x \in JobRecord : jobs' = Append(jobs, x)
    BY <1>3, <2>p DEF Scheduled, JobRecord, Status
  <2> DEFINE n == Len(jobs) + 1
  <2>2. /\ DOMAIN jobs' = DOMAIN jobs \cup {n} /\ n # 0
        /\ \A j \in DOMAIN jobs : jobs'[j] = jobs[j]
    BY <2>1, <2>p, Appended
  <2>3. /\ attempt' = attempt /\ refused' = refused /\ pc' = "run"
        /\ exit' = "no"
        /\ \/ attempt = 1 /\ first' = n /\ second' = second
           \/ attempt = 2 /\ second' = n /\ first' = first
    BY <1>3, <2>p DEF Scheduled, Goto
  <2> HIDE DEF n
  <2>4. \A j \in DOMAIN jobs' :
          Open(j)' => j \in {first', second'} \cup refused'
    BY <2>2, <2>3, <2>p DEF Unclosed, Open
  <2> QED BY <2>2, <2>3, <2>4, <2>p DEF Unclosed, Playing, Returned
<1>4. CASE Callback
  <2>1. PICK s \in Status : jobs' = [jobs EXCEPT ![Current].status = s]
    BY <1>4 DEF Callback
  <2>2. OnlyStatus(Current) /\ Open(Current)
    BY <2>1, <1>4, StatusSet DEF Callback, Open, Typed, TypeOK
  <2>3. \A j \in DOMAIN jobs : Open(j)' => Open(j)
    BY <2>2 DEF OnlyStatus, Open
  <2> QED BY <2>2, <2>3, <1>4 DEF OnlyStatus, Callback, Unclosed
<1>5. CASE Report
  <2>1. /\ DOMAIN jobs' = DOMAIN jobs
        /\ \A j \in DOMAIN jobs : jobs'[j].status = jobs[j].status
    <3>1. Current \in DOMAIN jobs /\ jobs \in Seq(JobRecord)
      BY <1>5 DEF Report, Goto, Typed, TypeOK, Pointers, Playing
    <3>2. (rc /\ signal = 0) \in BOOLEAN
      OBVIOUS
    <3> QED BY <1>5, <3>1, <3>2, JobReported DEF Report
  <2>2. \A j \in DOMAIN jobs : Open(j)' => Open(j)
    BY <2>1 DEF Open
  <2> QED BY <2>1, <2>2, <1>5 DEF Report, Goto, Unclosed, Playing, Returned
<1> QED BY <1>1, <1>2, <1>3, <1>4, <1>5
      DEF Next, Step, ScheduleStep, RunStep, StageStep, Away

\* When the program returns, all the jobs it has scheduled are in a final
\* state, but for those that the server refused to close.
THEOREM AllClosedCorrect == Spec => []AllClosed
<1>1. Init => Unclosed
  BY DEF Init, Unclosed, Playing, Returned
<1>2. Typed /\ Unclosed => AllClosed
  <2>1. Typed => 0 \notin DOMAIN jobs
    BY DEF Typed, TypeOK
  <2> QED BY <2>1 DEF Unclosed, AllClosed, Returned, Open
<1> QED BY <1>1, <1>2, PipelineTyped, UnclosedStep, PTL DEF Spec

-----------------------------------------------------------------------------
(* A stage follows stages that have succeeded.                             *)

\* Every step: a job created has no result, only Report gives one.
LEMMA UndecidedStep ==
  ASSUME Typed, Undecided, [Next]_vars
  PROVE  Undecided'
<1>1. CASE Scheduled
  <2> DEFINE x == [by |-> at, prev |-> link, status |-> "new",
                   told |-> FALSE, ok |-> FALSE]
  <2>1. /\ x \in JobRecord /\ ~x.ok /\ jobs \in Seq(JobRecord)
        /\ jobs' = Append(jobs, x)
    BY <1>1 DEF Scheduled, Goto, Typed, TypeOK, Pointers, JobRecord, Status
  <2> HIDE DEF x
  <2>2. jobs'[Len(jobs) + 1] = x /\ Len(jobs) + 1 \in Nat
    BY <2>1, Appended
  <2>3. info'[at'] = Len(jobs) + 1
    BY <1>1, <2>2 DEF Scheduled, Goto, Typed, TypeOK, Pointers
  <2> QED BY <2>1, <2>2, <2>3 DEF Undecided, Current
<1>2. CASE Callback
  <2>1. PICK s \in Status : jobs' = [jobs EXCEPT ![Current].status = s]
    BY <1>2 DEF Callback
  <2>2. OnlyStatus(Current) /\ Current \in DOMAIN jobs
    BY <2>1, <1>2, StatusSet DEF Callback, Typed, TypeOK, Pointers, Playing
  <2>3. Current' = Current
    BY <1>2 DEF Callback, Current
  <2> QED BY <2>2, <2>3, <1>2 DEF OnlyStatus, Undecided, Callback
<1>3. CASE pc' \notin {"run", "playing", "report"}
  BY <1>3 DEF Undecided
<1>4. CASE Launch \/ PlaybookEnds \/ Signal \/ UNCHANGED vars
  <2>1. jobs' = jobs /\ Current' = Current
    BY <1>4 DEF Launch, PlaybookEnds, Signal, Current
  <2>2. pc' \in {"run", "playing", "report"}
          => pc \in {"run", "playing", "report"}
    BY <1>4 DEF Launch, PlaybookEnds, Signal, Goto
  <2> QED BY <2>1, <2>2 DEF Undecided
<1>5. ASSUME Next, ~Scheduled, ~Callback, ~Launch, ~PlaybookEnds, ~Signal
      PROVE  pc' \notin {"run", "playing", "report"}
  BY <1>5 DEF Next, Step, ScheduleStep, RunStep, StageStep, NextJobdef,
    FindPrevious, PreviousIsNone, OpenPipeline, Raise, CreateLost, Create,
    NoDataDir, Leave, InventoryFails, Succeed, FallBack, GiveUp, Close, Closed,
    CloseRefused, NextStage, Done, StopOnErrors, ScheduleFails,
    ScheduleForgets, NotScheduled, Report, Goto
<1> QED BY <1>1, <1>2, <1>3, <1>4, <1>5

\* A success is never taken back.
LEMMA WonStable ==
  ASSUME Typed, Undecided, [Next]_vars, NEW i \in Defs, Won(i)
  PROVE  Won(i)'
<1>1. PICK j \in DOMAIN jobs : jobs[j].by = i /\ jobs[j].ok
  BY DEF Won
<1>p. jobs \in Seq(JobRecord)
  BY DEF Typed, TypeOK
<1>2. SUFFICES j \in DOMAIN jobs' /\ jobs'[j].by = i /\ jobs'[j].ok
  BY DEF Won
<1>3. CASE Scheduled
  <2>1. PICK x \in JobRecord : jobs' = Append(jobs, x)
    BY <1>3 DEF Scheduled, Goto, Typed, TypeOK, Pointers, JobRecord, Status
  <2> QED BY <1>1, <1>p, <2>1, Appended
<1>4. CASE Callback
  <2>1. PICK s \in Status : jobs' = [jobs EXCEPT ![Current].status = s]
    BY <1>4 DEF Callback
  <2> QED BY <1>1, <1>p, <2>1, StatusSet DEF OnlyStatus
<1>5. CASE Close
  BY <1>1, <1>5, <1>p, StatusSet, FinalStateStatus DEF Close, OnlyStatus
<1>6. CASE Report
  <2>1. Current \in DOMAIN jobs /\ ~jobs[Current].ok
    BY <1>6 DEF Report, Goto, Typed, Pointers, Playing, Undecided
  <2>2. (rc /\ signal = 0) \in BOOLEAN
    OBVIOUS
  <2> QED BY <1>1, <1>6, <1>p, <2>1, <2>2, JobReported DEF Report
<1> QED BY <1>1, <1>3, <1>4, <1>5, <1>6, OtherJobs

\* The steps that stay behind the current definition: it is reached, or left.
LEMMA LoopStep ==
  ASSUME Typed, [Next]_vars, ~NextJobdef, ~NextStage, ~Done
  PROVE  /\ stage' = stage /\ at' = at
         /\ errors => errors'
         /\ exit' = "success" => exit = "success"
         /\ pc' \in {"loop", "close"} /\ ~errors' =>
              \/ pc \in {"loop", "close"}
              \/ Succeed
<1>1. CASE ScheduleStep
  BY <1>1 DEF ScheduleStep, ScheduleFails, ScheduleForgets, NotScheduled,
    CreateLost, Create, NoDataDir, Leave, Scheduled, Goto, Abandon
<1>2. CASE RunStep
  BY <1>2 DEF RunStep, Launch, InventoryFails, PlaybookEnds, Report, Goto
<1>3. CASE FindPrevious \/ PreviousIsNone \/ OpenPipeline \/ Raise \/ Succeed
           \/ FallBack \/ GiveUp
  BY <1>3 DEF FindPrevious, PreviousIsNone, OpenPipeline, Raise, Leave,
    Succeed, FallBack, GiveUp, Goto
<1>4. CASE Close \/ CloseRefused
  BY <1>4 DEF Close, CloseRefused
<1>5. CASE StopOnErrors
  BY <1>5 DEF StopOnErrors, Leave
<1>6. CASE Callback \/ Signal \/ UNCHANGED vars
  BY <1>6 DEF Callback, Signal
<1> QED BY <1>1, <1>2, <1>3, <1>4, <1>5, <1>6 DEF Next, Step, StageStep

\* Every step; NextStage and Done only leave a stage that is won.
LEMMA ProgressStep ==
  ASSUME Typed, Undecided, Progress, [Next]_vars
  PROVE  Progress'
<1>d. Defs \subseteq Nat \ {0} /\ stage \in Defs /\ at \in Defs \cup {0}
  BY DefsFacts DEF Typed, TypeOK
<1>m. /\ Stages \subseteq Defs
      /\ \A s : Members(s) \subseteq Defs
  BY DEF Stages, Members
<1>n. /\ at \in Nat
      /\ \A s : \A i \in Members(s) : i \in Nat \ {0}
  <2>1. at \in Nat
    BY <1>d
  <2>2. ASSUME NEW s, NEW i \in Members(s) PROVE i \in Nat \ {0}
    <3>1. i \in Defs BY <1>m
    <3> QED BY <1>d, <3>1
  <2> QED BY <2>1, <2>2
<1>w. \A i \in Defs : Won(i) => Won(i)'
  BY WonStable
<1>1. CASE NextJobdef
  <2>1. PICK i \in Members(stage) :
          /\ at < i /\ at' = i
          /\ \A k \in Members(stage) : at < k => i <= k
    BY <1>1 DEF NextJobdef, Follows
  <2>2. /\ stage' = stage /\ errors' = errors /\ exit' = exit
        /\ pc = "loop" /\ pc' = "start"
    BY <1>1 DEF NextJobdef, Goto
  <2>3. ASSUME NEW k \in Members(stage), Behind(k)'
        PROVE  Behind(k)
    <3>1. k \in Nat /\ i \in Nat /\ at \in Nat
      BY <1>n
    <3>2. k < i
      BY <2>1, <2>2, <2>3 DEF Behind
    <3>3. k <= at
      BY <2>1, <3>1, <3>2
    <3> QED BY <2>2, <3>1, <3>3 DEF Behind
  <2> QED BY <2>2, <2>3, <1>m, <1>w DEF Progress
<1>2. CASE NextStage
  <2>1. PICK s \in Stages : /\ stage < s /\ stage' = s
                            /\ \A t \in Stages : stage < t => s <= t
    BY <1>2 DEF NextStage, Follows
  <2>2. /\ ~errors /\ pc = "loop" /\ at' = 0 /\ exit' = exit
        /\ \A i \in Members(stage) : i <= at
    BY <1>2 DEF NextStage, Exhausted
  <2>3. \A i \in Members(stage) : Won(i)
    <3>1. ASSUME NEW i \in Members(stage) PROVE Behind(i)
      <4>1. i \in Nat /\ at \in Nat /\ i <= at
        BY <2>2, <1>n
      <4> QED BY <2>2, <4>1 DEF Behind
    <3> QED BY <2>2, <3>1 DEF Progress
  <2>4. \A t \in Stages : t < s => t <= stage
    BY <2>1, <1>d, <1>m
  <2>5. \A t \in Stages : t < s => \A i \in Members(t) : Won(i)
    <3>1. \A t \in Stages : t < s => t < stage \/ t = stage
      BY <2>4, <1>d, <1>m
    <3> QED BY <3>1, <2>3 DEF Progress
  <2>6. ASSUME NEW i \in Members(stage') PROVE ~Behind(i)'
    <3>1. i \in Nat \ {0}
      BY <1>n
    <3> QED BY <2>2, <3>1 DEF Behind
  <2> QED BY <2>1, <2>2, <2>5, <2>6, <1>m, <1>w DEF Progress
<1>3. CASE Done
  <2>1. /\ ~errors /\ pc = "loop" /\ stage' = stage /\ errors' = errors
        /\ at' = at /\ pc' = "over"
        /\ \A i \in Members(stage) : i <= at
        /\ \A s \in Stages : s <= stage
    BY <1>3 DEF Done, Exhausted, Leave
  <2>2. \A i \in Members(stage) : Won(i)
    <3>1. ASSUME NEW i \in Members(stage) PROVE Behind(i)
      <4>1. i \in Nat /\ at \in Nat /\ i <= at
        BY <2>1, <1>n
      <4> QED BY <2>1, <4>1 DEF Behind
    <3> QED BY <2>1, <3>1 DEF Progress
  <2>3. \A s \in Stages : \A i \in Members(s) : Won(i)
    <3>1. \A s \in Stages : s < stage \/ s = stage
      BY <2>1, <1>d, <1>m
    <3> QED BY <3>1, <2>2 DEF Progress
  <2> QED BY <2>1, <2>2, <2>3, <1>m, <1>w DEF Progress
<1>4. ASSUME ~NextJobdef, ~NextStage, ~Done
      PROVE  Progress'
  <2>1. /\ stage' = stage /\ at' = at
        /\ errors => errors'
        /\ exit' = "success" => exit = "success"
        /\ pc' \in {"loop", "close"} /\ ~errors' =>
             pc \in {"loop", "close"} \/ Succeed
    BY <1>4, LoopStep
  <2>2. Succeed => Won(at)
    BY DEF Succeed, Goto, Won, Typed, Pointers, Playing
  <2>3. ~errors' => \A i \in Members(stage) : Behind(i)' => Behind(i) \/ Won(i)
    BY <2>1, <2>2 DEF Behind
  <2>4. ~errors' => \A i \in Members(stage) : Behind(i)' => Won(i)
    BY <2>1, <2>3 DEF Progress
  <2>5. \A s \in Stages : s < stage' => \A i \in Members(s) : Won(i)'
    BY <2>1, <1>m, <1>w DEF Progress
  <2>6. exit' = "success" => \A s \in Stages : \A i \in Members(s) : Won(i)'
    BY <2>1, <1>m, <1>w DEF Progress
  <2> QED BY <2>1, <2>4, <2>5, <2>6, <1>m, <1>w DEF Progress
<1> QED BY <1>1, <1>2, <1>3, <1>4

\* The initial states.
LEMMA ProgressInit == Init => Undecided /\ Progress
<1>1. Init => stage \in Stages /\ \A s \in Stages : ~(s < stage)
  BY DefsFacts DEF Init, Stages
<1>2. Init => \A i \in Members(stage) : ~Behind(i)
  BY DefsFacts DEF Init, Members, Behind
<1> QED BY <1>1, <1>2 DEF Init, Undecided, Progress

\* Progress is an invariant.
LEMMA ProgressInvariant == Spec => [](Typed /\ Undecided /\ Progress)
BY ProgressInit, ProgressStep, UndecidedStep, PipelineTyped, PTL DEF Spec

\* A stage starts, and the program exits with 0, only after a successful run
\* of every definition of all the stages before.
THEOREM StagesSucceededCorrect == Spec => []StagesSucceeded
<1>1. Progress => StagesSucceeded
  BY DEF Progress, StagesSucceeded
<1> QED BY <1>1, ProgressInvariant, PTL

-----------------------------------------------------------------------------
(* What a signal stops.                                                    *)

\* The program is not about to leave a stage that began after the signal.
LEMMA LateStays ==
  ASSUME Typed, Progress, Late, signal # 0, signal < stage
  PROVE  ~NextStage /\ ~Done
<1>1. stage \in Members(stage) /\ stage \in Nat \ {0}
  BY DefsFacts DEF Typed, TypeOK, Members, Matches
<1>2. SUFFICES ASSUME pc = "loop", ~errors, \A i \in Members(stage) : i <= at
               PROVE  FALSE
  BY DEF NextStage, Done, Exhausted
<1>3. at = 0
  BY <1>2 DEF Late
<1> QED BY <1>1, <1>2, <1>3

\* Only the handler writes the signal.
LEMMA SignalConstant ==
  ASSUME [Next]_vars, ~Signal
  PROVE  signal' = signal
BY DEF Next, Step, ScheduleStep, RunStep, StageStep, NextJobdef, FindPrevious,
  PreviousIsNone, OpenPipeline, Raise, CreateLost, Create, NoDataDir, Launch,
  InventoryFails, PlaybookEnds, Succeed, FallBack, GiveUp, Close, CloseRefused,
  NextStage, Done, StopOnErrors, ScheduleFails, ScheduleForgets, NotScheduled,
  Scheduled, Callback, Report

\* Every step; no run succeeds once a signal was caught.
LEMMA LateStep ==
  ASSUME Typed, Undecided, Progress, Late, Undecided', [Next]_vars
  PROVE  Late'
<1>t. Typed'
  BY TypedStep
<1>d. signal \in Defs \cup {0} /\ stage \in Defs /\ stage' \in Defs
  BY <1>t DEF Typed, TypeOK
<1>n. signal \in Nat /\ stage \in Nat /\ stage' \in Nat
  BY <1>d, DefsFacts
<1>1. CASE Signal
  BY <1>1, <1>n DEF Signal, Late
<1>2. CASE NextStage
  <2>1. stage < stage' /\ at' = 0 /\ pc' = "loop" /\ signal' = signal
    BY <1>2 DEF NextStage, Follows
  <2> QED BY <2>1, <1>n DEF Late, Playing
<1>3. CASE NextJobdef
  <2>1. stage' = stage /\ pc' = "start" /\ signal' = signal
    BY <1>3 DEF NextJobdef, Goto
  <2> QED BY <2>1, <1>n DEF Late, Playing
<1>4. CASE Done
  <2>1. stage' = stage /\ pc' = "over" /\ signal' = signal
    BY <1>4 DEF Done, Leave
  <2> QED BY <2>1, <1>n DEF Late, Playing
<1>5. ASSUME ~NextJobdef, ~NextStage, ~Done, ~Signal
      PROVE  Late'
  <2>1. /\ stage' = stage /\ at' = at
        /\ errors => errors'
        /\ pc' \in {"loop", "close"} /\ ~errors' =>
             pc \in {"loop", "close"} \/ Succeed
        /\ signal' = signal
    BY <1>5, LoopStep, SignalConstant
  <2>2. SUFFICES ASSUME signal # 0, signal < stage
                 PROVE  /\ errors' \/ at' = 0 \/ pc' \notin {"loop", "close"}
                        /\ pc' \in Playing => ~jobs'[Current'].ok
    BY <2>1 DEF Late
  <2>3. ~Succeed
    BY <2>2 DEF Succeed, Goto, Late, Playing
  <2>4. errors' \/ at' = 0 \/ pc' \notin {"loop", "close"}
    BY <2>1, <2>2, <2>3 DEF Late
  <2>5. CASE pc' # "judge"
    BY <2>4, <2>5 DEF Undecided, Playing
  <2>6. CASE pc' = "judge"
    <3>1. CASE InventoryFails
      <4>1. /\ jobs' = jobs /\ Current' = Current
            /\ pc \in {"run", "playing", "report"}
        BY <3>1 DEF InventoryFails, Goto, Current
      <4> QED BY <2>4, <4>1 DEF Undecided
    <3>2. CASE Report
      <4>1. /\ Current \in DOMAIN jobs /\ jobs \in Seq(JobRecord)
            /\ Current' = Current
        BY <3>2 DEF Report, Goto, Typed, TypeOK, Pointers, Playing, Current
      <4>2. jobs' = [jobs EXCEPT ![Current] = Reported(@, FALSE)]
        BY <3>2, <2>2 DEF Report
      <4> QED BY <2>4, <4>1, <4>2, JobReported
    <3>3. CASE Callback \/ UNCHANGED vars
      <4>1. pc = "judge" /\ UNCHANGED vars
        BY <2>6, <3>3 DEF Callback
      <4> QED BY <2>2, <2>4, <4>1 DEF Late, Playing, Current
    <3>4. ASSUME Next, ~InventoryFails, ~Report, ~Callback
          PROVE  pc' # "judge"
      BY <1>5, <3>4 DEF Next, Step, ScheduleStep, RunStep, StageStep,
        FindPrevious, PreviousIsNone, OpenPipeline, Raise, CreateLost, Create,
        NoDataDir, Leave, Launch, PlaybookEnds, Succeed, FallBack, GiveUp,
        Close, Closed, CloseRefused, StopOnErrors, ScheduleFails,
        ScheduleForgets, NotScheduled, Scheduled, Goto
    <3> QED BY <2>6, <3>1, <3>2, <3>3, <3>4
  <2> QED BY <2>5, <2>6
<1> QED BY <1>1, <1>2, <1>3, <1>4, <1>5

\* Every step; NextStage is the one that could pass the signal.
LEMMA SignalStopsStep ==
  ASSUME Typed, Progress, Late, SignalStops, [Next]_vars
  PROVE  SignalStops'
<1>d. /\ signal \in Defs \cup {0} /\ stage \in Defs
      /\ Stages \subseteq Defs
  BY DEF Typed, TypeOK, Stages
<1>n. /\ signal \in Nat /\ stage \in Nat /\ signal <= stage
      /\ Stages \subseteq Nat
  BY <1>d, DefsFacts DEF Late
<1>1. CASE Signal
  <2>1. signal' = stage /\ stage' = stage /\ exit' = exit /\ exit = "no"
    BY <1>1 DEF Signal, Typed, Pointers
  <2> QED BY <2>1, <1>n DEF SignalStops
<1>2. CASE NextStage
  <2>1. /\ stage' \in Stages /\ \A s \in Stages : stage < s => stage' <= s
        /\ signal' = signal /\ exit' = exit /\ exit = "no"
    BY <1>2 DEF NextStage, Follows, Typed, Pointers
  <2>2. signal = 0 \/ signal = stage
    BY <1>2, <1>n, LateStays
  <2> QED BY <2>1, <2>2 DEF SignalStops
<1>3. CASE Done
  <2>1. /\ signal' = signal /\ stage' = stage
        /\ \A s \in Stages : s <= stage
    BY <1>3 DEF Done, Exhausted
  <2>2. signal = 0 \/ signal = stage
    BY <1>3, <1>n, LateStays
  <2>3. \A s \in Stages : ~(stage < s)
    BY <2>1, <1>n
  <2> QED BY <2>1, <2>2, <2>3 DEF SignalStops
<1>4. CASE NextJobdef
  BY <1>4 DEF NextJobdef, SignalStops
<1>5. CASE ~NextJobdef /\ ~NextStage /\ ~Done /\ ~Signal
  BY <1>5, LoopStep, SignalConstant DEF SignalStops
<1> QED BY <1>1, <1>2, <1>3, <1>4, <1>5

\* After a signal at most one more stage starts, and the program does not
\* exit with 0 when a stage was still to come.
THEOREM SignalStopsCorrect == Spec => []SignalStops
<1>1. Init => Late /\ SignalStops
  BY DefsFacts DEF Init, Late, SignalStops
<1>2. /\ Typed /\ Undecided /\ Progress /\ Late /\ SignalStops /\ [Next]_vars
      /\ (Typed /\ Undecided /\ Progress)'
      => (Late /\ SignalStops)'
  BY LateStep, SignalStopsStep
<1> QED BY <1>1, <1>2, ProgressInvariant, PTL DEF Spec

-----------------------------------------------------------------------------
(* The exit code 2.                                                        *)

\* Every step; a job in error is final on the server.
LEMMA ToldStep ==
  ASSUME Typed, Told, [Next]_vars
  PROVE  Told'
<1>p. jobs \in Seq(JobRecord)
  BY DEF Typed, TypeOK
<1>1. CASE Scheduled
  <2> DEFINE x == [by |-> at, prev |-> link, status |-> "new",
                   told |-> FALSE, ok |-> FALSE]
  <2>1. x \in JobRecord /\ ~x.told /\ jobs' = Append(jobs, x)
    BY <1>1 DEF Scheduled, Goto, Typed, TypeOK, Pointers, JobRecord, Status
  <2> HIDE DEF x
  <2>2. /\ DOMAIN jobs' = DOMAIN jobs \cup {Len(jobs) + 1}
        /\ \A j \in DOMAIN jobs : jobs'[j] = jobs[j]
        /\ jobs'[Len(jobs) + 1] = x
    BY <2>1, <1>p, Appended
  <2> QED BY <2>1, <2>2 DEF Told
<1>2. CASE Callback
  <2>1. PICK s \in Status : jobs' = [jobs EXCEPT ![Current].status = s]
    BY <1>2 DEF Callback
  <2>2. OnlyStatus(Current) /\ jobs[Current].status # "error"
    BY <2>1, <1>2, <1>p, StatusSet DEF Callback, Final
  <2> QED BY <2>2 DEF OnlyStatus, Told
<1>3. CASE Close
  <2>1. /\ OnlyStatus(Target)
        /\ Target \in DOMAIN jobs =>
             jobs'[Target].status = FinalState(jobs[Target].status)
    BY <1>3, <1>p, StatusSet, FinalStateStatus DEF Close
  <2>2. FinalState("error") = "error"
    BY DEF FinalState, Final
  <2> QED BY <2>1, <2>2 DEF OnlyStatus, Told
<1>4. CASE Report
  <2>1. Current \in DOMAIN jobs
    BY <1>4 DEF Report, Goto, Typed, Pointers, Playing
  <2>2. (rc /\ signal = 0) \in BOOLEAN
    OBVIOUS
  <2>3. /\ DOMAIN jobs' = DOMAIN jobs
        /\ \A j \in DOMAIN jobs : /\ jobs'[j].status = jobs[j].status
                                  /\ j # Current => jobs'[j] = jobs[j]
        /\ jobs'[Current].told = (jobs[Current].status = "error")
    BY <1>4, <1>p, <2>1, <2>2, JobReported DEF Report
  <2> QED BY <2>1, <2>3 DEF Told
<1> QED BY <1>1, <1>2, <1>3, <1>4, OtherJobs DEF Told

\* Every step; StopOnErrors computes the exit code.
LEMMA ErrorIsTrueStep ==
  ASSUME Typed, Told, ErrorIsTrue, [Next]_vars
  PROVE  ErrorIsTrue'
<1>1. CASE StopOnErrors
  <2>1. SUFFICES ASSUME exit' = "error"
                 PROVE  \E j \in DOMAIN jobs : jobs[j].status = "error"
    BY <1>1 DEF StopOnErrors, ErrorIsTrue
  <2>2. PICK i \in Members(stage) : Latest(i) > 0 /\ jobs[Latest(i)].told
    BY <1>1, <2>1 DEF StopOnErrors, Leave, InError
  <2>3. Latest(i) \in DOMAIN jobs
    BY <2>2 DEF Latest, Members, Typed, Pointers
  <2> QED BY <2>2, <2>3 DEF Told
<1>2. CASE pc = "over"
  BY <1>2 DEF ErrorIsTrue, Next, Step, ScheduleStep, RunStep, StageStep,
    NextJobdef, FindPrevious, PreviousIsNone, OpenPipeline, Raise, CreateLost,
    Create, NoDataDir, Launch, InventoryFails, PlaybookEnds, Succeed, FallBack,
    GiveUp, Close, CloseRefused, NextStage, Done, StopOnErrors, ScheduleFails,
    ScheduleForgets, Scheduled, Callback, Report, Signal, Goto
<1>3. CASE pc # "over" /\ ~StopOnErrors
  <2>1. exit = "no"
    BY <1>3 DEF Typed, Pointers
  <2>2. exit' # "error"
    BY <2>1, <1>3 DEF Next, Step, ScheduleStep, RunStep, StageStep,
      NextJobdef, FindPrevious, PreviousIsNone, OpenPipeline, Raise,
      CreateLost, Create, NoDataDir, Launch, InventoryFails, PlaybookEnds,
      Succeed, FallBack, GiveUp, Close, CloseRefused, NextStage, Done, Leave,
      ScheduleFails, ScheduleForgets, NotScheduled, Scheduled, Callback,
      Report, Signal
  <2> QED BY <2>2 DEF ErrorIsTrue
<1> QED BY <1>1, <1>2, <1>3

\* The exit code 2 is only used when a job is in error on the server.
THEOREM ErrorIsTrueCorrect == Spec => []ErrorIsTrue
<1>1. Init => Told /\ ErrorIsTrue
  BY DEF Init, Told, ErrorIsTrue
<1> QED BY <1>1, PipelineTyped, ToldStep, ErrorIsTrueStep, PTL DEF Spec

-----------------------------------------------------------------------------
(* Least elements: the theorems of the library that have an operator as a  *)
(* parameter are out of reach, WFMin is about sets.                        *)

Smaller == {p \in Nat \X Nat : p[1] < p[2]}

\* No sequence of naturals descends for ever.
LEMMA SmallerWellFounded == IsWellFoundedOn(Smaller, Nat)
<1>1. IsWellFoundedOn({p \in Nat \X Nat : p[1] < p[2]}, Nat)
  BY NatLessThanWellFounded, Zenon DEF OpToRel
<1> QED BY <1>1 DEF Smaller

\* A set of naturals has a least element.
LEMMA Least ==
  ASSUME NEW S \in SUBSET Nat, S # {}
  PROVE  \E n \in S : \A m \in S : n <= m
<1>1. PICK n \in S : \A m \in S : <<m, n>> \notin Smaller
  BY SmallerWellFounded, WFMin
<1>2. \A m \in S : ~(m < n)
  BY <1>1 DEF Smaller
<1> QED BY <1>2

-----------------------------------------------------------------------------
(* The order of a pipeline.                                                *)

\* Every definition belongs to a stage.
LEMMA StageOf ==
  ASSUME NEW k \in Defs
  PROVE  \E s \in Stages : Stage(s) = Stage(k) /\ k \in Members(s)
<1> DEFINE S == {m \in Defs : Stage(m) = Stage(k)}
<1>1. S \in SUBSET Nat /\ S # {}
  BY DefsFacts
<1>2. PICK s \in S : \A m \in S : s <= m
  BY <1>1, Least
<1>3. \A m \in Defs : m < s => Stage(m) # Stage(s)
  BY <1>1, <1>2
<1> QED BY <1>2, <1>3 DEF Stages, Members, Matches

\* A definition belongs to one stage, the one it names.
LEMMA OneStage ==
  ASSUME Ordered, NEW i, NEW s \in Stages, i \in Members(s)
  PROVE  /\ Stage(i) = Stage(s)
         /\ \A t \in Stages : i \in Members(t) => t = s
<1>1. i \in Nat /\ i \in Defs /\ Stages \subseteq Nat
  BY DefsFacts DEF Members, Stages
<1>2. ASSUME NEW t \in Stages, i \in Members(t) PROVE t = s
  BY <1>1, <1>2 DEF Ordered
<1>3. PICK t \in Stages : Stage(t) = Stage(i) /\ i \in Members(t)
  BY <1>1, StageOf
<1> QED BY <1>2, <1>3

\* The stages before come before in the pipeline too.
LEMMA BeforeFacts ==
  ASSUME Ordered, stage \in Stages, at # 0 => at \in Members(stage),
         NEW i, Before(i)
  PROVE  i \notin Members(stage) /\ i # at /\ (at # 0 => i < at)
<1>1. PICK s \in Stages : s < stage /\ i \in Members(s)
  BY DEF Before
<1>2. \A k \in Members(stage) : i < k
  BY <1>1 DEF Ordered
<1>3. i \in Nat \ {0}
  BY <1>1, DefsFacts DEF Members
<1> QED BY <1>2, <1>3

-----------------------------------------------------------------------------
(* What a step does to the jobs and to job_info.                           *)

\* The definition and the previous job of a job never change; its result only
\* at the end of its run.
LEMMA Lineage ==
  ASSUME Typed, [Next]_vars, ~Scheduled
  PROVE  /\ DOMAIN jobs' = DOMAIN jobs /\ Len(jobs') = Len(jobs)
         /\ \A j \in DOMAIN jobs :
              /\ jobs'[j].by = jobs[j].by
              /\ jobs'[j].prev = jobs[j].prev
              /\ jobs'[j].ok = jobs[j].ok \/ (Report /\ j = Current)
<1>p. jobs \in Seq(JobRecord)
  BY DEF Typed, TypeOK
<1>t. jobs' \in Seq(JobRecord)
  BY TypedStep DEF Typed, TypeOK
<1>1. SUFFICES
        /\ DOMAIN jobs' = DOMAIN jobs
        /\ \A j \in DOMAIN jobs :
             /\ jobs'[j].by = jobs[j].by
             /\ jobs'[j].prev = jobs[j].prev
             /\ jobs'[j].ok = jobs[j].ok \/ (Report /\ j = Current)
  BY <1>p, <1>t
<1>2. CASE Callback
  <2>1. PICK s \in Status : jobs' = [jobs EXCEPT ![Current].status = s]
    BY <1>2 DEF Callback
  <2> QED BY <2>1, <1>p, StatusSet DEF OnlyStatus
<1>3. CASE Close
  BY <1>3, <1>p, StatusSet, FinalStateStatus DEF Close, OnlyStatus
<1>4. CASE Report
  <2>1. Current \in DOMAIN jobs
    BY <1>4 DEF Report, Goto, Typed, Pointers, Playing
  <2>2. (rc /\ signal = 0) \in BOOLEAN
    OBVIOUS
  <2>3. jobs' = [jobs EXCEPT ![Current] = Reported(@, rc /\ signal = 0)]
    BY <1>4 DEF Report
  <2>4. /\ DOMAIN jobs' = DOMAIN jobs
        /\ \A j \in DOMAIN jobs : /\ jobs'[j].by = jobs[j].by
                                  /\ jobs'[j].prev = jobs[j].prev
                                  /\ j # Current => jobs'[j] = jobs[j]
    BY <1>p, <2>1, <2>2, <2>3, JobReported
  <2> QED BY <1>4, <2>4
<1> QED BY <1>2, <1>3, <1>4, OtherJobs

\* The job that Scheduled appends.
LEMMA ScheduledJob ==
  ASSUME Typed, Scheduled
  PROVE  /\ Len(jobs) \in Nat /\ DOMAIN jobs = 1..Len(jobs)
         /\ Len(jobs') = Len(jobs) + 1
         /\ DOMAIN jobs' = 1..(Len(jobs) + 1)
         /\ \A j \in DOMAIN jobs : jobs'[j] = jobs[j]
         /\ jobs'[Len(jobs) + 1].by = at
         /\ jobs'[Len(jobs) + 1].prev = link
         /\ at \in Defs
         /\ \A i \in Defs : info'[i] = IF i = at THEN Len(jobs) + 1
                                                 ELSE info[i]
<1> DEFINE x == [by |-> at, prev |-> link, status |-> "new", told |-> FALSE,
                 ok |-> FALSE]
<1>p. at \in Defs /\ jobs \in Seq(JobRecord) /\ info \in [Defs -> Nat \cup {-1}]
  BY DEF Typed, Pointers, TypeOK, Scheduled, Goto
<1>1. /\ x \in JobRecord /\ x.by = at /\ x.prev = link
      /\ jobs' = Append(jobs, x)
  BY <1>p DEF Typed, TypeOK, JobRecord, Status, Scheduled
<1> HIDE DEF x
<1>2. \A i \in Defs : info'[i] = IF i = at THEN Len(jobs) + 1 ELSE info[i]
  BY <1>p DEF Scheduled
<1> QED BY <1>p, <1>1, <1>2

\* job_info is written when a job is scheduled, or is not.
LEMMA InfoKept ==
  ASSUME [Next]_vars, ~Scheduled, ~ScheduleFails, ~ScheduleForgets
  PROVE  info' = info
BY DEF Next, Step, ScheduleStep, RunStep, StageStep, NextJobdef, FindPrevious,
  PreviousIsNone, OpenPipeline, Raise, CreateLost, Create, NoDataDir, Launch,
  InventoryFails, PlaybookEnds, Report, Succeed, FallBack, GiveUp, Close,
  CloseRefused, NextStage, Done, StopOnErrors, Signal, Callback

\* The definition is known not to have a job.
LEMMA InfoNone ==
  ASSUME Typed, ScheduleFails \/ ScheduleForgets
  PROVE  /\ at \in Defs /\ pc \in {"create", "get"}
         /\ pc' \in {"loop", "close"}
         /\ stage' = stage /\ at' = at /\ errors'
         /\ \A i \in Defs : info'[i] = IF i = at THEN 0 ELSE info[i]
BY DEF ScheduleFails, ScheduleForgets, NotScheduled, Typed, TypeOK, Pointers

-----------------------------------------------------------------------------
(* Whose turn it is.                                                       *)

\* The steps that keep the current definition and all job_infos.
LEMMA SameTurn ==
  ASSUME Typed, [Next]_vars, ~NextJobdef, ~NextStage, ~Scheduled,
         ~ScheduleFails, ~ScheduleForgets
  PROVE  /\ stage' = stage /\ at' = at /\ info' = info
         /\ NotYet' => NotYet
<1>1. stage' = stage /\ at' = at
  BY LoopStep DEF Done
<1>2. NotYet' => NotYet
  BY DEF Next, Step, ScheduleStep, RunStep, StageStep, FindPrevious,
    PreviousIsNone, OpenPipeline, Raise, CreateLost, Create, NoDataDir, Launch,
    InventoryFails, PlaybookEnds, Report, Succeed, FallBack, GiveUp, Close,
    Closed, CloseRefused, Done, StopOnErrors, Signal, Callback, Goto, Leave,
    NotYet
<1> QED BY <1>1, <1>2, InfoKept

\* Every step: NextJobdef turns to a definition without a job_info.
LEMMA TurnStep ==
  ASSUME Ordered, Typed, Progress, Turn, [Next]_vars
  PROVE  Turn'
<1>d. /\ stage \in Stages /\ stage \in Nat /\ at \in Nat
      /\ \A s \in Stages : s \in Nat
      /\ \A i \in Defs : i \in Nat \ {0}
      /\ \A i \in Members(stage) : i \in Defs
  <2>1. stage \in Stages /\ at \in Defs \cup {0}
    BY DEF Typed, TypeOK, Progress
  <2>2. \A i \in Members(stage) : i \in Defs
    BY DEF Members
  <2>3. \A s \in Stages : s \in Defs
    BY DEF Stages
  <2>4. \A i \in Defs : i \in Nat \ {0}
    BY DefsFacts
  <2> QED BY <2>1, <2>2, <2>3, <2>4
<1>1. CASE NextJobdef
  <2>1. PICK i \in Members(stage) : at < i /\ at' = i
    BY <1>1 DEF NextJobdef, Follows
  <2>2. pc' = "start" /\ stage' = stage /\ info' = info
    BY <1>1 DEF NextJobdef, Goto
  <2>3. info[i] = -1
    <3>1. ~Before(i)
      BY <1>d, BeforeFacts DEF Turn
    <3>2. i \in Defs /\ i \in Nat /\ ~(i <= at)
      BY <1>d, <2>1
    <3> QED BY <3>1, <3>2 DEF Turn
  <2>4. \A k \in Defs : info[k] # -1 =>
          Before(k) \/ (k \in Members(stage) /\ k <= i)
    <3>1. ASSUME NEW k \in Defs, k <= at PROVE k <= i
      BY <1>d, <2>1, <3>1
    <3> QED BY <3>1 DEF Turn
  <2> QED BY <2>1, <2>2, <2>3, <2>4 DEF Turn, Before
<1>2. CASE NextStage
  <2>1. /\ stage < stage' /\ at' = 0 /\ info' = info /\ pc' = "loop"
        /\ stage' \in Stages
    BY <1>2 DEF NextStage, Follows
  <2>2. \A k \in Defs : info[k] # -1 => Before(k)'
    <3>1. ASSUME NEW k \in Defs, info[k] # -1
          PROVE  \E s \in Stages : s < stage' /\ k \in Members(s)
      <4>1. CASE Before(k)
        BY <1>d, <2>1, <4>1 DEF Before
      <4>2. CASE k \in Members(stage)
        BY <1>d, <2>1, <4>2
      <4> QED BY <3>1, <4>1, <4>2 DEF Turn
    <3> QED BY <3>1 DEF Before
  <2> QED BY <2>1, <2>2 DEF Turn, NotYet
<1>3. CASE Scheduled
  <2>1. /\ pc' = "run" /\ stage' = stage /\ at' = at /\ at # 0
        /\ \A i \in Defs : i # at => info'[i] = info[i]
    BY <1>3, ScheduledJob DEF Scheduled, Goto, Typed, Pointers
  <2> QED BY <1>d, <2>1 DEF Turn, NotYet, Before
<1>4. CASE ScheduleFails \/ ScheduleForgets
  <2>1. /\ pc' \in {"loop", "close"} /\ stage' = stage /\ at' = at
        /\ \A i \in Defs : i # at => info'[i] = info[i]
        /\ at \in Defs
    BY <1>4, InfoNone
  <2> QED BY <1>d, <2>1 DEF Turn, NotYet, Before
<1> QED BY <1>1, <1>2, <1>3, <1>4, SameTurn DEF Turn, Before

-----------------------------------------------------------------------------
(* The last job of a definition.                                           *)

\* A definition that has had its turn is not behind the current one.
LEMMA TurnBound ==
  ASSUME Ordered, Typed, Progress, Turn, at # 0, NEW i \in Defs,
         info[i] # -1
  PROVE  i <= at
<1>1. i \in Nat /\ at \in Nat
  BY DefsFacts DEF Typed, TypeOK
<1> QED BY <1>1, BeforeFacts DEF Turn, Progress

\* Every step: a new job is that of the current definition, which no job of
\* a later definition precedes.
LEMMA LastsStep ==
  ASSUME Ordered, Typed, Progress, Turn, Lasts, [Next]_vars
  PROVE  Lasts'
<1>d. /\ jobs \in Seq(JobRecord) /\ DOMAIN jobs = 1..Len(jobs)
      /\ Len(jobs) \in Nat
      /\ \A j \in DOMAIN jobs : jobs[j].by \in Defs
      /\ \A i \in Defs : i \in Nat \ {0} /\ info[i] \in Nat \cup {-1}
  <2>1. jobs \in Seq(JobRecord)
    BY DEF Typed, TypeOK
  <2>2. DOMAIN jobs = 1..Len(jobs) /\ Len(jobs) \in Nat
    BY <2>1
  <2>3. \A j \in DOMAIN jobs : jobs[j] \in JobRecord
    BY <2>1
  <2>4. \A x \in JobRecord : x.by \in Defs
    BY DEF JobRecord
  <2>5. \A i \in Defs : i \in Nat \ {0}
    BY DefsFacts
  <2>6. \A i \in Defs : info[i] \in Nat \cup {-1}
    BY DEF Typed, TypeOK
  <2> QED BY <2>1, <2>2, <2>3, <2>4, <2>5, <2>6
<1>b. \A i \in Defs : info[i] > 0 => info[i] \in DOMAIN jobs
  BY DEF Typed, Pointers
<1>1. CASE Scheduled
  <2> DEFINE n == Len(jobs) + 1
  <2>1. /\ Len(jobs') = n /\ DOMAIN jobs' = 1..n
        /\ \A j \in DOMAIN jobs : jobs'[j] = jobs[j]
        /\ jobs'[n].by = at
        /\ at \in Defs
        /\ \A i \in Defs : info'[i] = IF i = at THEN n ELSE info[i]
    BY <1>1, ScheduledJob
  <2>2. n \in Nat \ {0} /\ n \notin DOMAIN jobs /\ at # 0
    BY <1>d, <2>1
  <2>3. \A j \in 1..n : j \in DOMAIN jobs \/ j = n
    BY <1>d
  <2>4. \A j \in DOMAIN jobs : j < n
    BY <1>d
  <2> HIDE DEF n
  <2>5. ASSUME NEW i \in Defs, info'[i] > 0 PROVE jobs'[info'[i]].by = i
    BY <1>b, <2>1, <2>5 DEF Lasts
  <2>6. ASSUME NEW j \in 1..n
        PROVE  /\ jobs'[j].by \in Defs
               /\ info'[jobs'[j].by] # -1
               /\ info'[jobs'[j].by] > 0 => j <= info'[jobs'[j].by]
    <3>1. CASE j = n
      BY <2>1, <2>2, <3>1
    <3>2. CASE j \in DOMAIN jobs
      <4>1. jobs'[j] = jobs[j] /\ jobs[j].by \in Defs /\ j < n /\ j \in Nat
        BY <1>d, <2>1, <2>4, <3>2
      <4> QED BY <2>1, <2>2, <3>2, <4>1 DEF Lasts
    <3> QED BY <2>3, <3>1, <3>2
  <2>7. ASSUME NEW j \in 1..n, NEW k \in 1..n, j <= k
        PROVE  jobs'[j].by <= jobs'[k].by
    <3>1. CASE j \in DOMAIN jobs /\ k \in DOMAIN jobs
      BY <2>1, <2>7, <3>1 DEF Lasts
    <3>2. CASE j \in DOMAIN jobs /\ k = n
      <4>1. jobs[j].by <= at
        BY <1>d, <2>2, <3>2, TurnBound DEF Lasts
      <4> QED BY <2>1, <3>2, <4>1
    <3>3. CASE j = n
      <4>1. k = n
        BY <2>2, <2>7, <3>3
      <4> QED BY <1>d, <2>1, <3>3, <4>1
    <3> QED BY <2>3, <3>1, <3>2, <3>3
  <2> QED BY <2>1, <2>5, <2>6, <2>7 DEF Lasts
<1>2. CASE ~Scheduled
  <2>1. /\ DOMAIN jobs' = DOMAIN jobs
        /\ \A j \in DOMAIN jobs : jobs'[j].by = jobs[j].by
    BY <1>2, Lineage
  <2>2. CASE ScheduleFails \/ ScheduleForgets
    <3>1. \A i \in Defs : info'[i] = IF i = at THEN 0 ELSE info[i]
      BY <2>2, InfoNone
    <3>2. \A i \in Defs : info'[i] > 0 => jobs'[info'[i]].by = i
      BY <1>b, <2>1, <3>1 DEF Lasts
    <3>3. \A j \in DOMAIN jobs :
            /\ info'[jobs[j].by] # -1
            /\ info'[jobs[j].by] > 0 => j <= info'[jobs[j].by]
      <4>1. ASSUME NEW j \in DOMAIN jobs, NEW i \in Defs, i = jobs[j].by
            PROVE  info'[i] # -1 /\ (info'[i] > 0 => j <= info'[i])
        BY <3>1, <4>1 DEF Lasts
      <4> QED BY <1>d, <4>1
    <3> QED BY <2>1, <3>2, <3>3 DEF Lasts
  <2>3. CASE info' = info
    <3>1. \A i \in Defs : info[i] > 0 => jobs'[info[i]].by = i
      BY <1>b, <2>1 DEF Lasts
    <3> QED BY <2>1, <2>3, <3>1 DEF Lasts
  <2> QED BY <1>2, <2>2, <2>3, InfoKept
<1> QED BY <1>1, <1>2

-----------------------------------------------------------------------------
(* Definitions that are done with.                                         *)

\* Only the current definition, while it runs, can lose a success.
LEMMA WonLastStable ==
  ASSUME Typed, Lasts, [Next]_vars, NEW i \in Defs, WonLast(i),
         i # at \/ pc \in {"loop", "close"}
  PROVE  WonLast(i)'
<1>1. info[i] > 0 /\ info[i] \in DOMAIN jobs /\ jobs[info[i]].ok
      /\ jobs[info[i]].by = i
  BY DEF WonLast, Lasts, Typed, Pointers
<1>2. CASE Scheduled
  <2>1. i # at
    BY <1>2 DEF Scheduled, Goto
  <2> QED BY <1>1, <1>2, <2>1, ScheduledJob DEF WonLast
<1>3. CASE ~Scheduled
  <2>1. info'[i] = info[i]
    <3>1. CASE ScheduleFails \/ ScheduleForgets
      BY <3>1, InfoNone
    <3> QED BY <1>3, <3>1, InfoKept
  <2>2. Report => info[i] # Current
    <3>1. Report => pc = "report" /\ jobs[Current].by = at
      BY DEF Report, Goto, Typed, Pointers, Playing
    <3> QED BY <1>1, <3>1
  <2>3. jobs'[info[i]].ok = jobs[info[i]].ok
    BY <1>1, <1>3, <2>2, Lineage
  <2> QED BY <1>1, <2>1, <2>3 DEF WonLast
<1> QED BY <1>2, <1>3

\* Every step but NextStage, which alone adds to the stages before.
LEMMA BeforeWon ==
  ASSUME Ordered, Typed, Progress, Turn, Lasts, Winners, [Next]_vars,
         NEW i \in Defs, Before(i)
  PROVE  WonLast(i)'
<1>1. i # at
  BY BeforeFacts DEF Turn, Progress
<1> QED BY <1>1, WonLastStable DEF Winners

\* Every step: a definition is left behind when it has succeeded, or errors
\* are counted.
LEMMA WinnersStep ==
  ASSUME Ordered, Typed, Progress, Turn, Lasts, Winners, [Next]_vars
  PROVE  Winners'
<1>d. /\ stage \in Stages /\ stage \in Nat /\ at \in Nat
      /\ \A s \in Stages : s \in Nat
      /\ \A i \in Defs : i \in Nat \ {0}
      /\ \A s \in Stages : \A i \in Members(s) : i \in Defs
  <2>1. stage \in Stages /\ at \in Defs \cup {0}
    BY DEF Typed, TypeOK, Progress
  <2>2. \A s \in Stages : \A i \in Members(s) : i \in Defs
    BY DEF Members
  <2>3. \A s \in Stages : s \in Defs
    BY DEF Stages
  <2>4. \A i \in Defs : i \in Nat \ {0}
    BY DefsFacts
  <2> QED BY <2>1, <2>2, <2>3, <2>4
<1>b. \A i \in Defs : Before(i) => WonLast(i)'
  BY BeforeWon
<1>1. CASE NextStage
  <2>1. PICK s \in Stages : /\ stage < s /\ stage' = s
                            /\ \A t \in Stages : stage < t => s <= t
    BY <1>1 DEF NextStage, Follows
  <2>2. /\ ~errors /\ pc = "loop" /\ at' = 0
        /\ \A i \in Members(stage) : i <= at
    BY <1>1 DEF NextStage, Exhausted
  <2>3. ASSUME NEW i \in Members(stage) PROVE WonLast(i)'
    <3>1. Behind(i) /\ i \in Defs
      BY <1>d, <2>2, <2>3 DEF Behind
    <3> QED BY <2>2, <3>1, WonLastStable DEF Winners
  <2>4. ASSUME NEW i \in Defs, Before(i)' PROVE Before(i) \/ i \in Members(stage)
    <3>1. PICK t \in Stages : t < s /\ i \in Members(t)
      BY <2>1, <2>4 DEF Before
    <3>2. t < stage \/ t = stage
      BY <1>d, <2>1, <3>1
    <3> QED BY <3>1, <3>2 DEF Before
  <2>5. ASSUME NEW i \in Members(stage') PROVE ~Behind(i)'
    <3>1. i \in Nat \ {0}
      BY <1>d, <2>1
    <3> QED BY <2>2, <3>1 DEF Behind
  <2> QED BY <1>b, <2>3, <2>4, <2>5 DEF Winners
<1>2. CASE NextJobdef
  <2>1. PICK i \in Members(stage) :
          /\ at < i /\ at' = i
          /\ \A k \in Members(stage) : at < k => i <= k
    BY <1>2 DEF NextJobdef, Follows
  <2>2. stage' = stage /\ errors' = errors /\ pc = "loop" /\ pc' = "start"
    BY <1>2 DEF NextJobdef, Goto
  <2>3. ASSUME NEW k \in Members(stage), Behind(k)' PROVE Behind(k) /\ k \in Defs
    <3>1. k \in Nat /\ i \in Nat /\ k \in Defs
      BY <1>d
    <3>2. k < i
      BY <2>1, <2>2, <2>3 DEF Behind
    <3>3. k <= at
      BY <1>d, <2>1, <3>1, <3>2
    <3> QED BY <1>d, <2>2, <3>1, <3>3 DEF Behind
  <2>4. \A k \in Members(stage) : Behind(k)' /\ ~errors => WonLast(k)'
    BY <2>2, <2>3, WonLastStable DEF Winners
  <2> QED BY <1>b, <2>2, <2>4 DEF Winners, Before
<1>3. CASE ~NextJobdef /\ ~NextStage
  <2>1. /\ stage' = stage /\ at' = at
        /\ errors => errors'
        /\ pc' \in {"loop", "close"} /\ ~errors' =>
             pc \in {"loop", "close"} \/ Succeed
    <3>1. CASE Done
      BY <3>1 DEF Done, Leave
    <3> QED BY <1>3, <3>1, LoopStep
  <2>2. ASSUME NEW k \in Members(stage), Behind(k)', ~errors'
        PROVE  WonLast(k)'
    <3>1. k \in Defs
      BY <1>d
    <3>2. CASE k # at \/ pc \in {"loop", "close"}
      <4>1. Behind(k)
        BY <2>1, <2>2, <3>2 DEF Behind
      <4> QED BY <2>1, <2>2, <3>1, <3>2, <4>1, WonLastStable DEF Winners
    <3>3. CASE k = at /\ pc \notin {"loop", "close"}
      <4>1. Succeed
        BY <1>d, <2>1, <2>2, <3>3 DEF Behind
      <4>2. /\ Current \in DOMAIN jobs /\ jobs[Current].ok
            /\ jobs' = jobs /\ info' = info
            /\ jobs \in Seq(JobRecord)
        BY <4>1 DEF Succeed, Goto, Typed, TypeOK, Pointers, Playing
      <4> QED BY <3>3, <4>2 DEF WonLast, Current
    <3> QED BY <3>2, <3>3
  <2> QED BY <1>b, <2>1, <2>2 DEF Winners, Before
<1> QED BY <1>1, <1>2, <1>3

-----------------------------------------------------------------------------
(* The job at work.                                                        *)

\* Every step: only Scheduled adds a job.
LEMMA NewestStep ==
  ASSUME Typed, Unclosed, Newest, [Next]_vars
  PROVE  Newest'
<1>p. /\ jobs \in Seq(JobRecord) /\ DOMAIN jobs = 1..Len(jobs)
      /\ Len(jobs) \in Nat
      /\ attempt \in {1, 2}
  BY DEF Typed, TypeOK
<1>1. CASE Scheduled
  <2>1. /\ pc' = "run" /\ at' = at /\ at \in Defs /\ attempt' = attempt
        /\ Len(jobs') = Len(jobs) + 1
        /\ info'[at] = Len(jobs) + 1
        /\ attempt = 1 => first' = Len(jobs) + 1
    BY <1>1, ScheduledJob DEF Scheduled, Goto
  <2> QED BY <2>1 DEF Newest, Current
<1>2. CASE FallBack
  <2>1. /\ pc = "judge" /\ pc' = "create" /\ attempt = 1 /\ link' = first
        /\ jobs' = jobs /\ at' = at /\ ~jobs[Current].ok
    BY <1>2 DEF FallBack, MayFallBack, Goto
  <2>2. Current \in DOMAIN jobs /\ jobs[Current].by = at
    BY <2>1 DEF Typed, Pointers, Playing
  <2>3. Current = Len(jobs) /\ first = Len(jobs)
    BY <2>1 DEF Newest, Playing
  <2> QED BY <1>p, <2>1, <2>2, <2>3 DEF Newest, Playing
<1>3. CASE Launch \/ InventoryFails \/ PlaybookEnds \/ Report \/ Callback
  <2>1. /\ pc \in Playing /\ info' = info /\ at' = at /\ attempt' = attempt
        /\ first' = first
        /\ pc' \in {"playing", "report", "judge"}
    BY <1>3 DEF Launch, InventoryFails, PlaybookEnds, Report, Callback, Goto,
      Playing
  <2>2. ~Scheduled
    BY <2>1 DEF Scheduled, Goto, Playing
  <2>3. Len(jobs') = Len(jobs)
    BY <2>2, Lineage
  <2> QED BY <2>1, <2>3 DEF Newest, Current
<1>4. CASE Create \/ CreateLost
  <2>1. /\ pc \in {"create", "get"} /\ pc' \in {"create", "get"}
        /\ UNCHANGED <<jobs, attempt, link, at>>
    BY <1>4 DEF Create, CreateLost, Goto
  <2> QED BY <2>1 DEF Newest, Playing
<1>5. CASE Signal \/ UNCHANGED vars
  <2>1. UNCHANGED <<jobs, attempt, link, at, info, first, pc>>
    BY <1>5 DEF Signal
  <2> QED BY <2>1 DEF Newest, Current
<1>6. ASSUME Next, ~Scheduled, ~FallBack, ~Launch, ~InventoryFails,
             ~PlaybookEnds, ~Report, ~Callback, ~Create, ~CreateLost, ~Signal
      PROVE  /\ pc' \notin Playing
             /\ pc' \in {"create", "get"} => attempt' = 1
  <2>1. CASE FindPrevious \/ OpenPipeline
    <3>1. /\ pc \in {"start", "pipeline"} /\ pc' \in {"pipeline", "create"}
          /\ attempt' = attempt
      BY <2>1 DEF FindPrevious, OpenPipeline, Goto
    <3> QED BY <3>1 DEF Unclosed, Playing
  <2>2. CASE ~FindPrevious /\ ~OpenPipeline
    BY <1>6, <2>2 DEF Next, Step, ScheduleStep, RunStep, StageStep, NextJobdef,
      PreviousIsNone, Raise, NoDataDir, Succeed, GiveUp, Close, Closed,
      CloseRefused, NextStage, Done, StopOnErrors, ScheduleFails,
      ScheduleForgets, NotScheduled, Goto, Leave, Playing
  <2> QED BY <2>1, <2>2
<1>7. CASE pc' \notin Playing /\ (pc' \in {"create", "get"} => attempt' = 1)
  BY <1>7 DEF Newest, Playing
<1> QED BY <1>1, <1>2, <1>3, <1>4, <1>5, <1>6, <1>7

\* The job of the last definition of S that has a job_info is the last job
\* that S has run, and has succeeded if its stage is over.
LEMMA LastRun ==
  ASSUME Ordered, Typed, Progress, Turn, Lasts, Winners, at # 0,
         NEW S \in SUBSET Defs, NEW k,
         IsLast({d \in S : info[d] # -1}, k), info[k] # 0
  PROVE  /\ k \in S /\ info[k] \in DOMAIN jobs /\ jobs[info[k]].by = k
         /\ \A q \in DOMAIN jobs : info[k] < q => jobs[q].by \notin S
         /\ jobs[info[k]].ok \/ Stage(k) = Stage(at)
<1>d. /\ DOMAIN jobs = 1..Len(jobs)
      /\ Len(jobs) \in Nat
      /\ \A i \in Defs : i \in Nat /\ info[i] \in Nat \cup {-1}
      /\ stage \in Stages
  <2>1. jobs \in Seq(JobRecord)
    BY DEF Typed, TypeOK
  <2>2. \A i \in Defs : i \in Nat
    BY DefsFacts
  <2> QED BY <2>1, <2>2 DEF Typed, TypeOK, Progress
<1>1. /\ k \in S /\ k \in Defs /\ k \in Nat /\ info[k] # -1
      /\ \A m \in S : info[m] # -1 => m <= k
  BY <1>d DEF IsLast
<1>2. info[k] > 0 /\ info[k] \in DOMAIN jobs /\ jobs[info[k]].by = k
  BY <1>d, <1>1 DEF Typed, Pointers, Lasts
<1>3. ASSUME NEW q \in DOMAIN jobs, info[k] < q, jobs[q].by \in S
      PROVE  FALSE
  <2>1. PICK m \in S : m = jobs[q].by
    BY <1>3
  <2>2. info[m] # -1
    BY <2>1 DEF Lasts
  <2>3. m \in Nat /\ m <= k
    BY <1>d, <1>1, <2>2
  <2>4. jobs[info[k]].by <= jobs[q].by
    BY <1>d, <1>2, <1>3 DEF Lasts
  <2>5. m = k
    BY <1>1, <1>2, <2>1, <2>3, <2>4
  <2>6. q <= info[k]
    BY <1>2, <2>1, <2>5 DEF Lasts
  <2> QED BY <1>d, <1>2, <1>3, <2>6
<1>4. jobs[info[k]].ok \/ Stage(k) = Stage(at)
  <2>1. CASE Before(k)
    BY <1>1, <2>1 DEF Winners, WonLast
  <2>2. CASE k \in Members(stage)
    <3>1. at \in Members(stage)
      BY <1>d DEF Turn
    <3>2. Stage(k) = Stage(stage) /\ Stage(at) = Stage(stage)
      BY <1>d, <2>2, <3>1, OneStage
    <3> QED BY <3>2
  <2> QED BY <1>1, <2>1, <2>2 DEF Turn
<1> QED BY <1>1, <1>2, <1>3, <1>4

\* What previous_job_id is given.
LEMMA FindLinks ==
  ASSUME Ordered, Typed, Progress, Turn, Lasts, Winners, FindPrevious
  PROVE  /\ link' \in 0..Len(jobs)
         /\ \A q \in (link' + 1)..Len(jobs) : jobs[q].by \notin Lookup(at)
         /\ link' # 0 =>
              /\ jobs[link'].by \in Lookup(at)
              /\ jobs[link'].ok \/ Stage(jobs[link'].by) = Stage(at)
<1>d. /\ DOMAIN jobs = 1..Len(jobs)
      /\ Len(jobs) \in Nat
      /\ at # 0
  <2>1. jobs \in Seq(JobRecord)
    BY DEF Typed, TypeOK
  <2> QED BY <2>1 DEF Typed, Pointers, FindPrevious
<1>1. CASE Tried(at) = {} /\ link' = 0
  <2>1. \A q \in DOMAIN jobs :
          jobs[q].by \in Lookup(at) => jobs[q].by \in Tried(at)
    BY DEF Lasts, Tried
  <2> QED BY <1>d, <1>1, <2>1
<1>2. ASSUME NEW k \in Tried(at), IsLast(Tried(at), k), info[k] # 0,
             link' = info[k]
      PROVE  /\ link' \in 0..Len(jobs)
             /\ \A q \in (link' + 1)..Len(jobs) : jobs[q].by \notin Lookup(at)
             /\ jobs[link'].by \in Lookup(at)
             /\ jobs[link'].ok \/ Stage(jobs[link'].by) = Stage(at)
  <2>1. Lookup(at) \in SUBSET Defs
    BY DEF Lookup
  <2>2. IsLast({d \in Lookup(at) : info[d] # -1}, k)
    BY <1>2 DEF Tried
  <2>3. /\ k \in Lookup(at) /\ info[k] \in DOMAIN jobs
        /\ jobs[info[k]].by = k
        /\ \A q \in DOMAIN jobs : info[k] < q => jobs[q].by \notin Lookup(at)
        /\ jobs[info[k]].ok \/ Stage(k) = Stage(at)
    BY <1>d, <1>2, <2>1, <2>2, LastRun
  <2> QED BY <1>d, <1>2, <2>3
<1> QED BY <1>1, <1>2 DEF FindPrevious

\* Every step: the link found stays the last until the job is created.
LEMMA LinkedStep ==
  ASSUME Ordered, Typed, Progress, Turn, Lasts, Winners, Linked, [Next]_vars
  PROVE  Linked'
<1>1. CASE FindPrevious
  <2>1. jobs' = jobs /\ at' = at
    BY <1>1 DEF FindPrevious
  <2>2. jobs \in Seq(JobRecord)
    BY DEF Typed, TypeOK
  <2> QED BY <1>1, <2>1, <2>2, FindLinks DEF Linked
<1>2. CASE OpenPipeline \/ Create \/ CreateLost \/ Signal \/ UNCHANGED vars
  <2>1. /\ UNCHANGED <<jobs, attempt, link, at>>
        /\ pc' \in {"pipeline", "create", "get"}
             => pc \in {"pipeline", "create", "get"}
    BY <1>2 DEF OpenPipeline, Create, CreateLost, Signal, Goto
  <2> QED BY <2>1 DEF Linked
<1>3. ASSUME Next, ~FindPrevious, ~OpenPipeline, ~Create, ~CreateLost, ~Signal
      PROVE  pc' \in {"pipeline", "create", "get"} => attempt' = 2
  BY <1>3 DEF Next, Step, ScheduleStep, RunStep, StageStep, NextJobdef,
    PreviousIsNone, Raise, NoDataDir, Launch, InventoryFails, PlaybookEnds,
    Report, Succeed, FallBack, GiveUp, Close, Closed, CloseRefused, NextStage,
    Done, StopOnErrors, ScheduleFails, ScheduleForgets, NotScheduled,
    Scheduled, Callback, Goto, Leave
<1> QED BY <1>1, <1>2, <1>3 DEF Linked

-----------------------------------------------------------------------------
(* The inductive invariant, and the previous job.                          *)

\* The initial states.
LEMMA FollowingInit == Init => Following
<1>1. Init => /\ jobs = <<>> /\ DOMAIN jobs = {}
              /\ \A i \in Defs : info[i] = -1
  BY DEF Init
<1>2. Init => \A i \in Defs : ~Before(i)
  BY DefsFacts DEF Init, Before, Stages
<1>3. Init => \A i \in Members(stage) : ~Behind(i)
  BY DefsFacts DEF Init, Members, Behind
<1>4. Init => at = 0 /\ pc = "loop"
  BY DEF Init
<1> QED BY <1>1, <1>2, <1>3, <1>4 DEF Following, Turn, NotYet, Lasts, Winners,
      Newest, Linked, Playing

\* Every step.
LEMMA FollowingStep ==
  ASSUME Ordered, Typed, Unclosed, Progress, Following, [Next]_vars
  PROVE  Following'
BY TurnStep, LastsStep, WinnersStep, NewestStep, LinkedStep DEF Following

\* The conjunction of the invariants that the proofs rest on holds in every
\* reachable state: what the run of the pipeline checks on two stages.
THEOREM PipelineInductive == Spec => []Inductive
<1>1. Init => Typed /\ Inductive
  <2>1. Init => Unclosed /\ Late /\ Told
    BY DefsFacts DEF Init, Unclosed, Playing, Returned, Late, Told
  <2> QED BY <2>1, TypedInit, ProgressInit, FollowingInit
        DEF Inductive, Typed
<1>2. Typed /\ Inductive /\ [Next]_vars => (Typed /\ Inductive)'
  <2> SUFFICES ASSUME Typed, Inductive, [Next]_vars
               PROVE  (Typed /\ Inductive)'
    OBVIOUS
  <2>1. /\ Unclosed /\ Undecided /\ Progress /\ Late /\ Told
        /\ Ordered => Following
    BY DEF Inductive
  <2>2. Typed'
    BY TypedStep
  <2>3. Unclosed' /\ Undecided' /\ Progress' /\ Told'
    BY <2>1, UnclosedStep, UndecidedStep, ProgressStep, ToldStep
  <2>4. Late'
    BY <2>1, <2>3, LateStep
  <2>5. Ordered => Following'
    BY <2>1, FollowingStep
  <2> QED BY <2>2, <2>3, <2>4, <2>5 DEF Inductive, Typed
<1> QED BY <1>1, <1>2, PTL DEF Spec

\* Every step: Scheduled writes the link, and Report the result of the last
\* job, which precedes no other.
LEMMA PreviousIsLastStep ==
  ASSUME Ordered, Typed, Following, PreviousIsLast, [Next]_vars
  PROVE  PreviousIsLast'
<1>d. /\ jobs \in Seq(JobRecord) /\ DOMAIN jobs = 1..Len(jobs)
      /\ Len(jobs) \in Nat /\ link \in Nat /\ attempt \in {1, 2}
      /\ \A j \in DOMAIN jobs : jobs[j].prev \in Nat
  <2>1. jobs \in Seq(JobRecord)
    BY DEF Typed, TypeOK
  <2>2. \A j \in DOMAIN jobs : jobs[j] \in JobRecord
    BY <2>1
  <2>3. \A x \in JobRecord : x.prev \in Nat
    BY DEF JobRecord
  <2> QED BY <2>1, <2>2, <2>3 DEF Typed, TypeOK
<1>1. CASE Scheduled
  <2> DEFINE n == Len(jobs) + 1
  <2>1. /\ DOMAIN jobs' = 1..n
        /\ \A j \in DOMAIN jobs : jobs'[j] = jobs[j]
        /\ jobs'[n].by = at /\ jobs'[n].prev = link
    BY <1>1, ScheduledJob
  <2>2. /\ link <= Len(jobs)
        /\ \A q \in (link + 1)..Len(jobs) : jobs[q].by \notin Lookup(at)
        /\ link # 0 =>
             \/ jobs[link].by = at /\ ~jobs[link].ok
             \/ /\ jobs[link].by \in Lookup(at)
                /\ jobs[link].ok \/ Stage(jobs[link].by) = Stage(at)
    <3>1. pc = "get"
      BY <1>1 DEF Scheduled, Goto
    <3>2. CASE attempt = 1
      BY <3>1, <3>2 DEF Following, Linked
    <3>3. CASE attempt = 2
      <4>1. /\ link = Len(jobs)
            /\ jobs[link].by = at /\ ~jobs[link].ok
        BY <3>1, <3>3 DEF Following, Newest
      <4>2. (link + 1)..Len(jobs) = {}
        BY <1>d, <4>1
      <4> QED BY <1>d, <4>1, <4>2
    <3> QED BY <1>d, <3>2, <3>3
  <2>3. ASSUME NEW j \in 1..n, NEW p, p = jobs'[j].prev
        PROVE  /\ p < j
               /\ \A q \in (p + 1)..(j - 1) :
                    jobs'[q].by \notin Lookup(jobs'[j].by)
               /\ p # 0 =>
                    \/ jobs'[p].by = jobs'[j].by /\ ~jobs'[p].ok
                    \/ /\ jobs'[p].by \in Lookup(jobs'[j].by)
                       /\ \/ jobs'[p].ok
                          \/ Stage(jobs'[p].by) = Stage(jobs'[j].by)
    <3>1. CASE j = n
      <4>1. p = link /\ jobs'[j].by = at
        BY <2>1, <2>3, <3>1
      <4>2. \A q \in (link + 1)..Len(jobs) : q \in DOMAIN jobs
        BY <1>d
      <4>3. link # 0 => link \in DOMAIN jobs
        BY <1>d, <2>2
      <4> QED BY <1>d, <2>1, <2>2, <3>1, <4>1, <4>2, <4>3
    <3>2. CASE j \in DOMAIN jobs
      <4>1. p = jobs[j].prev /\ jobs'[j].by = jobs[j].by
        BY <2>1, <2>3, <3>2
      <4>2. p \in Nat /\ p < j
        BY <1>d, <3>2, <4>1 DEF PreviousIsLast
      <4>3. \A q \in (p + 1)..(j - 1) : q \in DOMAIN jobs
        BY <1>d, <3>2, <4>2
      <4>4. p # 0 => p \in DOMAIN jobs
        BY <1>d, <3>2, <4>2
      <4> QED BY <2>1, <3>2, <4>1, <4>2, <4>3, <4>4 DEF PreviousIsLast
    <3> QED BY <1>d, <3>1, <3>2
  <2> HIDE DEF n
  <2> QED BY <2>1, <2>3 DEF PreviousIsLast
<1>2. CASE ~Scheduled
  <2>1. /\ DOMAIN jobs' = DOMAIN jobs
        /\ \A j \in DOMAIN jobs :
             /\ jobs'[j].by = jobs[j].by
             /\ jobs'[j].prev = jobs[j].prev
             /\ jobs'[j].ok = jobs[j].ok \/ (Report /\ j = Current)
    BY <1>2, Lineage
  <2>2. Report => Current = Len(jobs)
    BY DEF Report, Goto, Following, Newest, Playing
  <2>3. ASSUME NEW j \in DOMAIN jobs, NEW p, p = jobs'[j].prev
        PROVE  /\ p < j
               /\ \A q \in (p + 1)..(j - 1) :
                    jobs'[q].by \notin Lookup(jobs'[j].by)
               /\ p # 0 =>
                    \/ jobs'[p].by = jobs'[j].by /\ ~jobs'[p].ok
                    \/ /\ jobs'[p].by \in Lookup(jobs'[j].by)
                       /\ \/ jobs'[p].ok
                          \/ Stage(jobs'[p].by) = Stage(jobs'[j].by)
    <3>1. p = jobs[j].prev /\ jobs'[j].by = jobs[j].by
      BY <2>1, <2>3
    <3>2. p \in Nat /\ p < j
      BY <1>d, <3>1 DEF PreviousIsLast
    <3>3. \A q \in (p + 1)..(j - 1) : q \in DOMAIN jobs
      BY <1>d, <3>2
    <3>4. p # 0 => p \in DOMAIN jobs /\ p # Len(jobs)
      <4>1. j \in 1..Len(jobs)
        BY <1>d
      <4>2. Len(jobs) \in Nat
        BY <1>d
      <4>3. p # 0 => p \in 1..Len(jobs) /\ p # Len(jobs)
        BY <3>2, <4>1, <4>2
      <4> QED BY <1>d, <4>3
    <3>5. p # 0 => jobs'[p].ok = jobs[p].ok
      BY <2>1, <2>2, <3>4
    <3> QED BY <2>1, <3>1, <3>2, <3>3, <3>4, <3>5 DEF PreviousIsLast
  <2> QED BY <2>1, <2>3 DEF PreviousIsLast
<1> QED BY <1>1, <1>2

\* previous_job_id is the last job that the definitions of prev_stages have
\* run, one that succeeded unless it belongs to the same stage, and that of a
\* fallback is the job it replaces: for every pipeline whose stages are
\* contiguous and have names that no other stage has in a definition.
THEOREM PreviousIsLastCorrect == Ordered => (Spec => []PreviousIsLast)
<1> SUFFICES ASSUME Ordered
             PROVE  Spec => []PreviousIsLast
  OBVIOUS
<1>1. Init => PreviousIsLast
  BY DEF Init, PreviousIsLast
<1>2. Typed /\ Inductive /\ PreviousIsLast /\ [Next]_vars => PreviousIsLast'
  BY PreviousIsLastStep DEF Inductive
<1> QED BY <1>1, <1>2, PipelineTyped, PipelineInductive, PTL DEF Spec
=============================================================================
