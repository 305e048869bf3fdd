---------------------------- MODULE PipelineRun ----------------------------
(***************************************************************************)
(* dci-pipeline: one process that runs the job definitions of a pipeline   *)
(* stage after stage.  For each of them it creates a job on the control    *)
(* server, runs a playbook, whose callback moves the job through its       *)
(* states, falls back on other components when it fails, and puts the job  *)
(* in a final state.  Users send signals; the server refuses calls, or     *)
(* answers a 5xx after having done the work, in which case dci() calls it  *)
(* again.                                                                  *)
(*                                                                         *)
(* A step is a call to the server or a decision of the program.  Only the  *)
(* signal and the callback run next to it.                                 *)
(***************************************************************************)
EXTENDS Integers, Sequences, FiniteSets

CONSTANTS
  Pipeline, \* the job definitions, in the order of the pipeline files
  MaxLost   \* bound on the definitions whose creation is answered by a 5xx

\* prev holds the prev_stages.  fallback is TRUE with fallback_last_success
\* and components that are not all fixed; own_env with ansible_envvars, the
\* dictionary that every copy of the definition shares.
ASSUME PipelineAssumption ==
  /\ Pipeline \in Seq([name : STRING, stage : STRING, prev : SUBSET STRING,
                       fallback : BOOLEAN, own_env : BOOLEAN])
  /\ Pipeline # <<>>
  /\ MaxLost \in Nat

Defs == DOMAIN Pipeline

VARIABLES
  jobs,    \* the jobs scheduled, on the server, in that order
  orphans, \* definitions with a job on the server the program does not know
  info,    \* per definition, the id of job_info, 0 for None, -1 when absent
  failed,  \* per definition, the id of failed_job_info or 0
  tmp,     \* per definition, the JUNIT_OUTPUT_DIR of its environment
  opened,  \* "pipeline_id" in options
  stage,   \* the current stage, named by its first definition
  at,      \* the current definition, 0 before the first of the stage
  attempt, \* 1, or 2 for the fallback
  link,    \* previous_job_id
  first, second, \* _job_id and _job_id_2, 0 when there is none
  rc,      \* the playbook has succeeded
  errors,  \* errors # 0
  pc, exit,
  signal,  \* the stage when the first signal was caught, 0 before
  refused  \* jobs whose final state the server refused to read or to set

serverVars == <<jobs, orphans, refused>>
defVars    == <<info, failed, tmp>>
loopVars   == <<stage, at, errors>>
jobVars    == <<attempt, link, first, second, rc>>
vars == <<serverVars, defVars, opened, loopVars, jobVars, pc, exit, signal>>

Final == {"success", "failure", "error", "killed"}
Product == {"running"}

\* new stands for pre-run and post-run too: the code does not tell them apart.
Status == {"new", "running"} \cup Final

\* status: the last jobstate on the server.  told: the last one in job_info is
\* "error".  ok: run_jobdef returned True.
JobRecord == [by : Defs, prev : Nat, status : Status, told : BOOLEAN,
              ok : BOOLEAN]

TypeOK ==
  /\ jobs \in Seq(JobRecord)
  /\ orphans \in SUBSET Defs
  /\ info \in [Defs -> Nat \cup {-1}]
  /\ failed \in [Defs -> Nat]
  /\ tmp \in [Defs -> {"meta", "made", "removed", "left"}]
  /\ opened \in BOOLEAN
  /\ stage \in Defs
  /\ at \in Defs \cup {0}
  /\ attempt \in {1, 2}
  /\ link \in Nat /\ first \in Nat /\ second \in Nat
  /\ rc \in BOOLEAN /\ errors \in BOOLEAN
  /\ pc \in {"loop", "start", "pipeline", "create", "get", "run", "playing",
             "report", "judge", "close", "over"}
  /\ exit \in {"no", "success", "failure", "error", "signal", "raised"}
  /\ signal \in Defs \cup {0}
  /\ refused \in SUBSET Nat

-----------------------------------------------------------------------------
(* Looking definitions up.                                                 *)

Stage(i) == Pipeline[i].stage

\* A definition answers to its name and to its stage.
Matches(l, i) == Pipeline[i].name = l \/ Stage(i) = l

\* get_stages_of_jobdefs: a stage is where its name first appears.
Stages == {i \in Defs : \A k \in Defs : k < i => Stage(k) # Stage(i)}
Members(s) == {i \in Defs : Matches(Stage(s), i)}
Lookup(i) == {k \in Defs : \E l \in Pipeline[i].prev : Matches(l, k)}

\* k follows i in S, and nothing of S follows i.
Follows(S, i, k) == k \in S /\ i < k /\ \A m \in S : i < m => k <= m
Exhausted(S, i) == \A m \in S : m <= i

Init ==
  /\ jobs = <<>> /\ orphans = {} /\ refused = {}
  /\ info = [i \in Defs |-> -1]
  /\ failed = [i \in Defs |-> 0]
  /\ tmp = [i \in Defs |-> "meta"]
  /\ opened \in BOOLEAN
  /\ stage = 1 /\ at = 0 /\ errors = FALSE
  /\ attempt = 1 /\ link = 0 /\ first = 0 /\ second = 0 /\ rc = FALSE
  /\ pc = "loop" /\ exit = "no" /\ signal = 0

Goto(from, to) == pc = from /\ pc' = to
Leave(code) == pc' = "over" /\ exit' = code

-----------------------------------------------------------------------------
(* run_stage: the previous job and the pipeline.                           *)

NextJobdef ==
  /\ Goto("loop", "start")
  /\ \E i \in Defs : Follows(Members(stage), at, i) /\ at' = i
  /\ attempt' = 1
  /\ UNCHANGED <<serverVars, defVars, opened, stage, errors, link, first,
                 second, rc, exit, signal>>

\* Mutant of IsLast: the first of the definitions, not the last.
IsFirst(S, k) == k \in S /\ \A m \in S : k <= m

\* prev_job_defs[-1].
IsLast(S, k) == k \in S /\ \A m \in S : m <= k

\* The definitions of prev_stages that hold a job_info, be it None.
Tried(i) == {k \in Lookup(i) : info[k] # -1}

FindPrevious ==
  /\ pc = "start"
  /\ \/ Tried(at) = {} /\ link' = 0
     \/ \E k \in Tried(at) : IsLast(Tried(at), k) /\ info[k] # 0
                             /\ link' = info[k]
  /\ IF opened THEN pc' = "create" ELSE pc' = "pipeline"
  /\ UNCHANGED <<serverVars, defVars, opened, loopVars, attempt, first,
                 second, rc, exit, signal>>

\* The last of them could not be scheduled: None["job"].
PreviousIsNone ==
  /\ pc = "start"
  /\ \E k \in Tried(at) : IsLast(Tried(at), k) /\ info[k] = 0
  /\ Leave("raised")
  /\ UNCHANGED <<serverVars, defVars, opened, loopVars, jobVars, signal>>

OpenPipeline ==
  /\ Goto("pipeline", "create")
  /\ opened' = TRUE
  /\ UNCHANGED <<serverVars, defVars, loopVars, jobVars, exit, signal>>

\* The exceptions nobody catches: the credentials cannot be read, the server
\* refuses the pipeline (options["pipeline_id"] is a KeyError), a component
\* has no type, the inventory does not exist, or the server refuses to give the
\* job back after the playbook.
Raise ==
  /\ pc \in {"start", "pipeline", "create", "run", "report"}
  /\ Leave("raised")
  /\ UNCHANGED <<serverVars, defVars, opened, loopVars, jobVars, signal>>

-----------------------------------------------------------------------------
(* schedule_job.                                                           *)

\* Mutants of NotScheduled: continue in a fallback too, and try again.
NotScheduledSkips ==
  /\ info' = [info EXCEPT ![at] = 0]
  /\ errors' = TRUE
  /\ pc' = "loop"
  /\ UNCHANGED <<jobs, refused, failed, tmp, opened, stage, at, jobVars, exit,
                 signal>>

NotScheduledRetries ==
  /\ info' = [info EXCEPT ![at] = 0]
  /\ pc' = "create"
  /\ UNCHANGED <<jobs, refused, failed, tmp, opened, loopVars, jobVars, exit,
                 signal>>

\* schedule_job returns None: the loop goes on with the next definition or,
\* for a fallback, with the final state of the first job.
NotScheduled ==
  /\ info' = [info EXCEPT ![at] = 0]
  /\ errors' = TRUE
  /\ IF attempt = 1 THEN pc' = "loop" ELSE pc' = "close"
  /\ UNCHANGED <<jobs, refused, failed, tmp, opened, stage, at, jobVars, exit,
                 signal>>

\* No such topic, a component is missing, the fallback has found no other
\* component, or the creation is refused.
ScheduleFails ==
  /\ pc = "create"
  /\ NotScheduled
  /\ UNCHANGED orphans

\* A job stays on the server in the state it was created in.
Abandon == orphans' = orphans \cup {at}

\* The job is created, the answer is a 5xx and dci() calls again.
CreateLost ==
  /\ pc = "create"
  /\ Cardinality(orphans) < MaxLost
  /\ Abandon
  /\ UNCHANGED <<jobs, refused, defVars, opened, loopVars, jobVars, pc, exit,
                 signal>>

Create ==
  /\ Goto("create", "get")
  /\ UNCHANGED <<serverVars, defVars, opened, loopVars, jobVars, exit, signal>>

\* The server does not give the new job, or gives other components.
ScheduleForgets ==
  /\ pc = "get"
  /\ NotScheduled
  /\ Abandon

NoDataDir ==
  /\ pc = "get"
  /\ Leave("raised")
  /\ Abandon
  /\ UNCHANGED <<jobs, refused, defVars, opened, loopVars, jobVars, signal>>

Scheduled ==
  /\ Goto("get", "run")
  /\ jobs' = Append(jobs, [by |-> at, prev |-> link, status |-> "new",
                           told |-> FALSE, ok |-> FALSE])
  /\ info' = [info EXCEPT ![at] = Len(jobs) + 1]
  /\ IF attempt = 1 THEN first' = Len(jobs) + 1 /\ UNCHANGED second
                    ELSE second' = Len(jobs) + 1 /\ UNCHANGED first
  /\ UNCHANGED <<orphans, refused, failed, tmp, opened, loopVars, attempt,
                 link, rc, exit, signal>>

-----------------------------------------------------------------------------
(* run_jobdef.                                                             *)

\* pre_process_jobdef makes the directories of the variables that hold
\* "/@tmpdir" and writes their paths in the environment.
Launch ==
  /\ Goto("run", "playing")
  /\ tmp' = [tmp EXCEPT ![at] = IF tmp[at] = "meta" THEN "made" ELSE tmp[at]]
  /\ UNCHANGED <<serverVars, info, failed, opened, loopVars, jobVars,
                 exit, signal>>

Current == info[at]

\* The callback of the playbook: what is final stays so.
Callback ==
  /\ pc = "playing"
  /\ jobs[Current].status \notin Final
  /\ \E s \in Status \ {"killed"} :
       jobs' = [jobs EXCEPT ![Current].status = s]
  /\ UNCHANGED <<orphans, refused, defVars, opened, loopVars, jobVars, pc,
                 exit, signal>>

\* What stays in the environment of a definition after a run, if it is its
\* own: the path of the directory the run has made, or of an earlier one.
Remains(became) == IF ~Pipeline[at].own_env THEN "meta"
                   ELSE IF tmp[at] = "made" THEN became ELSE tmp[at]

\* The inventory playbook fails or is cancelled: run_jobdef returns at once.
InventoryFails ==
  /\ Goto("playing", "judge")
  /\ tmp' = [tmp EXCEPT ![at] = Remains("left")]
  /\ UNCHANGED <<serverVars, info, failed, opened, loopVars, jobVars,
                 exit, signal>>

PlaybookEnds ==
  /\ Goto("playing", "report")
  /\ rc' \in BOOLEAN
  /\ UNCHANGED <<serverVars, defVars, opened, loopVars, attempt, link, first,
                 second, exit, signal>>

\* A job of which update_job_info has read the state, with its result.
Reported(x, ok) == [by |-> x.by, prev |-> x.prev, status |-> x.status,
                    told |-> x.status = "error", ok |-> ok]

\* Mutant of Report: the result of the playbook whatever was caught.
ReportUncancelled ==
  /\ Goto("report", "judge")
  /\ tmp' = [tmp EXCEPT ![at] = "meta"]
  /\ jobs' = [jobs EXCEPT ![Current] = Reported(@, rc)]
  /\ rc' = FALSE
  /\ UNCHANGED <<orphans, refused, info, failed, opened, loopVars, attempt,
                 link, first, second, exit, signal>>

\* post_process_jobdef removes what this run has made, update_job_info reads the job
\* again, and the result is that of the playbook unless a signal was caught.
Report ==
  /\ Goto("report", "judge")
  /\ tmp' = [tmp EXCEPT ![at] = Remains("removed")]
  /\ jobs' = [jobs EXCEPT ![Current] = Reported(@, rc /\ signal = 0)]
  /\ rc' = FALSE
  /\ UNCHANGED <<orphans, refused, info, failed, opened, loopVars, attempt,
                 link, first, second, exit, signal>>

-----------------------------------------------------------------------------
(* run_stage: fallback and final states.                                   *)

MayFallBack == attempt = 1 /\ Pipeline[at].fallback /\ signal = 0

Succeed ==
  /\ Goto("judge", "close")
  /\ jobs[Current].ok
  /\ UNCHANGED <<serverVars, defVars, opened, loopVars, jobVars, exit, signal>>

\* Mutant of FallBack: run again as a first job, over and over.
FallBackAgain ==
  /\ Goto("judge", "create")
  /\ ~jobs[Current].ok
  /\ MayFallBack
  /\ failed' = [failed EXCEPT ![at] = Current]
  /\ link' = first
  /\ UNCHANGED <<serverVars, info, tmp, opened, loopVars, attempt, first,
                 second, rc, exit, signal>>

FallBack ==
  /\ Goto("judge", "create")
  /\ ~jobs[Current].ok
  /\ MayFallBack
  /\ failed' = [failed EXCEPT ![at] = Current]
  /\ attempt' = 2
  /\ link' = first
  /\ UNCHANGED <<serverVars, info, tmp, opened, loopVars, first, second,
                 rc, exit, signal>>

\* Mutant of GiveUp: the error is not counted.
GiveUpSilently ==
  /\ Goto("judge", "close")
  /\ ~jobs[Current].ok
  /\ ~MayFallBack
  /\ UNCHANGED <<serverVars, defVars, opened, loopVars, jobVars, exit, signal>>

GiveUp ==
  /\ Goto("judge", "close")
  /\ ~jobs[Current].ok
  /\ ~MayFallBack
  /\ errors' = TRUE
  /\ UNCHANGED <<serverVars, defVars, opened, stage, at, jobVars, exit,
                 signal>>

\* set_job_to_final_state, of the job of the fallback and then of the first.
Target == IF second # 0 THEN second ELSE first

Closed ==
  IF second # 0 THEN second' = 0 /\ UNCHANGED <<first, pc>>
                ELSE first' = 0 /\ pc' = "loop" /\ UNCHANGED second

\* Mutant of FinalState: the status of ansible_runner, not of the server.
FinalStateOfRunner(s) == IF s \in Final THEN s
                         ELSE IF signal # 0 THEN "canceled"
                         ELSE IF s \in Product THEN "failure"
                         ELSE "error"

FinalState(s) == IF s \in Final THEN s
                 ELSE IF signal # 0 THEN "killed"
                 ELSE IF s \in Product THEN "failure"
                 ELSE "error"

Close ==
  /\ pc = "close"
  /\ jobs' = [jobs EXCEPT ![Target].status = FinalState(jobs[Target].status)]
  /\ Closed
  /\ UNCHANGED <<orphans, refused, defVars, opened, loopVars, attempt, link,
                 rc, exit, signal>>

CloseRefused ==
  /\ pc = "close"
  /\ jobs[Target].status \notin Final
  /\ refused' = refused \cup {Target}
  /\ Closed
  /\ UNCHANGED <<jobs, orphans, defVars, opened, loopVars, attempt, link,
                 rc, exit, signal>>

-----------------------------------------------------------------------------
(* main: from stage to stage, and the exit code.                           *)

NextStage ==
  /\ pc = "loop"
  /\ Exhausted(Members(stage), at)
  /\ ~errors
  /\ \E s \in Defs : Follows(Stages, stage, s) /\ stage' = s
  /\ at' = 0
  /\ UNCHANGED <<serverVars, defVars, opened, errors, jobVars, pc, exit,
                 signal>>

Done ==
  /\ pc = "loop"
  /\ Exhausted(Members(stage), at)
  /\ ~errors
  /\ Exhausted(Stages, stage)
  /\ Leave("success")
  /\ UNCHANGED <<serverVars, defVars, opened, loopVars, jobVars, signal>>

\* The job_info of i, or else its failed_job_info.
Latest(i) == IF info[i] > 0 THEN info[i] ELSE failed[i]

\* Mutant of InError: a definition without a job counts as an error.
InErrorOrNone(i) == Latest(i) > 0 => jobs[Latest(i)].told

\* Its last jobstate, as update_job_info read it: before
\* set_job_to_final_state.
InError(i) == Latest(i) > 0 /\ jobs[Latest(i)].told

StopOnErrors ==
  /\ pc = "loop"
  /\ Exhausted(Members(stage), at)
  /\ errors
  /\ IF signal # 0 THEN Leave("signal")
     ELSE IF \E i \in Members(stage) : InError(i)
       THEN Leave("error") ELSE Leave("failure")
  /\ UNCHANGED <<serverVars, defVars, opened, loopVars, jobVars, signal>>

\* SIGTERM or SIGINT: the handler only records it.
Signal ==
  /\ pc # "over" /\ signal = 0
  /\ signal' = stage
  /\ UNCHANGED <<serverVars, defVars, opened, loopVars, jobVars, pc, exit>>

-----------------------------------------------------------------------------
ScheduleStep == \/ ScheduleFails \/ CreateLost \/ Create \/ ScheduleForgets
                \/ NoDataDir \/ Scheduled

RunStep == Launch \/ InventoryFails \/ PlaybookEnds \/ Report

StageStep ==
  \/ NextJobdef \/ FindPrevious \/ PreviousIsNone \/ OpenPipeline \/ Raise
  \/ Succeed \/ FallBack \/ GiveUp \/ Close \/ CloseRefused
  \/ NextStage \/ Done \/ StopOnErrors

Step == ScheduleStep \/ RunStep \/ StageStep

Next == Step \/ Callback \/ Signal

Spec == Init /\ [][Next]_vars

\* The program goes on: the server answers in the end, and playbooks end.
FairSpec == Spec /\ WF_vars(Step)

-----------------------------------------------------------------------------
(* Properties.                                                             *)

Returned == {"success", "failure", "error", "signal"}

\* When the program returns, every job it has scheduled is in a final state,
\* fallbacks and the jobs they replace included, unless the server refused
\* that very call: set_job_to_final_state is reached on every path of run_stage
\* that does not raise.
AllClosed ==
  exit \in Returned =>
    \A j \in DOMAIN jobs :
      j \notin refused => jobs[j].status \in Final

\* A stage starts, and the program exits with 0, only after every definition
\* of all the stages before has had a run that succeeded, be it on the
\* components of its fallback.
Won(i) == \E j \in DOMAIN jobs : jobs[j].by = i /\ jobs[j].ok

StagesSucceeded ==
  \A s \in Stages : s < stage \/ exit = "success" =>
    \A i \in Members(s) : Won(i)

\* previous_job_id is the last job the definitions of prev_stages have run
\* ("Get the last jobdef that has been run"), and one that succeeded unless
\* it belongs to the same stage; that of a fallback is the job it replaces.
PreviousIsLast ==
  \A j \in DOMAIN jobs :
    LET p == jobs[j].prev IN
    /\ p < j
    /\ \A q \in (p + 1)..(j - 1) : jobs[q].by \notin Lookup(jobs[j].by)
    /\ p # 0 =>
         \/ jobs[p].by = jobs[j].by /\ ~jobs[p].ok
         \/ /\ jobs[p].by \in Lookup(jobs[j].by)
            /\ jobs[p].ok \/ Stage(jobs[p].by) = Stage(jobs[j].by)

\* After a signal at most one more stage starts, and it does not succeed: the
\* signal is only looked at by the run of a playbook, and no run succeeds once
\* it was caught.
SignalStops ==
  signal # 0 =>
    \A s \in Stages : signal < s => stage <= s /\ exit # "success"

\* The exit code 2 is kept for pipelines that leave a job in error on the
\* server, although it is computed from the states read before the jobs were
\* put in their final state.
ErrorIsTrue ==
  exit = "error" => \E j \in DOMAIN jobs : jobs[j].status = "error"

\* The program ends, whatever is refused or signalled: in particular a
\* fallback that fails does not fall back again.
Terminates == <>(pc = "over")

-----------------------------------------------------------------------------
(* What the invariants above rest on: the inductive invariant.             *)

\* While a job is played it is the job_info of the current definition.
Playing == {"run", "playing", "report", "judge"}

Pointers ==
  /\ pc \in {"loop", "over"} \/ at # 0
  /\ pc = "over" <=> exit # "no"
  /\ pc \in Playing => Current \in DOMAIN jobs /\ jobs[Current].by = at
  /\ \A i \in Defs : /\ info[i] > 0 => info[i] \in DOMAIN jobs
                     /\ failed[i] > 0 => failed[i] \in DOMAIN jobs

\* The jobs whose state is not final are those of the current definition, or
\* the server has refused to close them, or the program has raised.
Open(j) == jobs[j].status \notin Final

Unclosed ==
  /\ exit = "raised" \/
       \A j \in DOMAIN jobs : Open(j) => j \in {first, second} \cup refused
  /\ {first, second} \subseteq DOMAIN jobs \cup {0}
  /\ pc \in {"loop", "start", "pipeline"} \/ exit \in Returned =>
       first = 0 /\ second = 0
  /\ pc \in {"start", "pipeline"} => attempt = 1
  /\ pc \in {"create", "get"} => second = 0 /\ (attempt = 1 <=> first = 0)
  /\ pc \in Playing => first # 0 /\ (attempt = 1 => second = 0)
  /\ pc = "close" => first # 0

\* The result of a job is not known before its playbook is over.
Undecided == pc \in {"run", "playing", "report"} => ~jobs[Current].ok

\* The definitions of the current stage that are behind.
Behind(i) == i < at \/ (i = at /\ pc \in {"loop", "close"})

Progress ==
  /\ stage \in Stages
  /\ \A s \in Stages : s < stage => \A i \in Members(s) : Won(i)
  /\ errors \/ \A i \in Members(stage) : Behind(i) => Won(i)
  /\ exit = "success" => \A s \in Stages : \A i \in Members(s) : Won(i)

\* In a stage that began after the signal, the first definition fails.
Late ==
  /\ signal <= stage
  /\ signal # 0 /\ signal < stage =>
       /\ errors \/ at = 0 \/ pc \notin {"loop", "close"}
       /\ pc \in Playing => ~jobs[Current].ok

\* What is in error stays so.
Told == \A j \in DOMAIN jobs : jobs[j].told => jobs[j].status = "error"

\* The stages are contiguous, and no definition has the name of another stage:
\* definitions are then run once each, in the order of the pipeline.
Ordered ==
  \A s, t \in Stages : s < t => \A i \in Members(s), k \in Members(t) : i < k

\* The definitions of the stages before this one.
Before(i) == \E s \in Stages : s < stage /\ i \in Members(s)

\* The current definition has not been scheduled yet.
NotYet == pc \in {"start", "pipeline"}
            \/ (pc \in {"create", "get"} /\ attempt = 1)

\* Whose turn it is, and who has had one.
Turn ==
  /\ at # 0 => at \in Members(stage)
  /\ NotYet => info[at] = -1
  /\ \A i \in Defs : info[i] # -1 =>
       Before(i) \/ (i \in Members(stage) /\ i <= at)

\* Jobs follow the order of the pipeline, and job_info is the last of its
\* definition.
Lasts ==
  /\ \A i \in Defs : info[i] > 0 => jobs[info[i]].by = i
  /\ \A j \in DOMAIN jobs :
       /\ info[jobs[j].by] # -1
       /\ info[jobs[j].by] > 0 => j <= info[jobs[j].by]
       /\ \A k \in DOMAIN jobs : j <= k => jobs[j].by <= jobs[k].by

\* The last job of a definition that is done with has succeeded.
WonLast(i) == info[i] > 0 /\ jobs[info[i]].ok

Winners ==
  /\ \A i \in Defs : Before(i) => WonLast(i)
  /\ errors \/ \A i \in Members(stage) : Behind(i) => WonLast(i)

\* The job at work is the last of the server, and a fallback follows the job it
\* replaces.
Newest ==
  /\ pc \in Playing =>
       Current = Len(jobs) /\ (attempt = 1 => first = Len(jobs))
  /\ pc \in {"create", "get"} /\ attempt = 2 =>
       /\ link = Len(jobs) /\ link # 0
       /\ jobs[link].by = at /\ ~jobs[link].ok

\* What previous_job_id is until the job is created.
Linked ==
  pc \in {"pipeline", "create", "get"} /\ attempt = 1 =>
    /\ link <= Len(jobs)
    /\ \A q \in (link + 1)..Len(jobs) : jobs[q].by \notin Lookup(at)
    /\ link # 0 =>
         /\ jobs[link].by \in Lookup(at)
         /\ jobs[link].ok \/ Stage(jobs[link].by) = Stage(at)

Following == Turn /\ Lasts /\ Winners /\ Newest /\ Linked

Inductive == /\ Pointers /\ Unclosed /\ Undecided /\ Progress /\ Late /\ Told
             /\ Ordered => Following
=============================================================================
