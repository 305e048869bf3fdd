--------------------------- MODULE JobFilesProofs ---------------------------
(***************************************************************************)
(* Proofs about JobFiles, for every pipeline whose stages are contiguous:  *)
(* where the inputs of a job come from, which workspace the variables of a *)
(* playbook name, which junit files are lost.                              *)
(***************************************************************************)
EXTENDS JobFiles, PipelineRunProofs

USE DEF serverVars, defVars, loopVars, jobVars, vars, fileVars

FilesStep == [FilesNext]_<<vars, fileVars>>

\* What holds of PipelineRun.
Base == Typed /\ Inductive /\ PreviousIsLast

-----------------------------------------------------------------------------
(* Every behaviour is one of PipelineRun.                                  *)

\* A step of a playbook that writes a file is a stutter of PipelineRun.
LEMMA StepOfRun ==
  ASSUME FilesStep
  PROVE  [Next]_vars
<1>1. ScheduledWithFiles => Scheduled
  BY DEF ScheduledWithFiles
<1>2. LaunchReady => Launch
  BY DEF LaunchReady
<1>3. WriteOutput => UNCHANGED vars
  BY DEF WriteOutput
<1>4. /\ ReportWithJunit => Report
      /\ InventoryFailsWithJunit => InventoryFails
  BY DEF ReportWithJunit, InventoryFailsWithJunit
<1>5. SucceedWithTag => Succeed
  BY DEF SucceedWithTag
<1>6. OtherStep => Next
  BY DEF OtherStep, CallbackReports, Next, Step, ScheduleStep, RunStep,
    StageStep
<1> QED BY <1>1, <1>2, <1>3, <1>4, <1>5, <1>6
      DEF FilesStep, FilesNext, Next, Step, ScheduleStep, RunStep, StageStep

\* JobFiles only adds to PipelineRun.
THEOREM FilesImplementRun == FilesSpec => Spec
<1>1. FilesInit => Init
  BY DEF FilesInit
<1>2. [FilesNext]_<<vars, fileVars>> => [Next]_vars
  BY StepOfRun DEF FilesStep
<1> QED BY <1>1, <1>2, PTL DEF FilesSpec, Spec

\* What is proved of PipelineRun holds of every behaviour of JobFiles.
LEMMA BaseInvariant == Ordered => (FilesSpec => []Base)
BY FilesImplementRun, PipelineTyped, PipelineInductive, PreviousIsLastCorrect,
   PTL DEF Base

\* The parts of Base that the proofs use.
LEMMA BaseFacts ==
  ASSUME Ordered, Base
  PROVE  /\ Typed /\ Undecided /\ Progress
         /\ Turn /\ Lasts /\ Winners /\ Newest /\ Linked
         /\ PreviousIsLast
BY DEF Base, Inductive, Following

\* The last element of a sequence to which it has been appended.
LEMMA LastAppended ==
  ASSUME NEW S, NEW s \in Seq(S), NEW x \in S
  PROVE  Append(s, x)[Len(s) + 1] = x
OBVIOUS

\* What the steps do to the files.
LEMMA FilesKept ==
  ASSUME FilesStep
  PROVE  \/ ScheduledWithFiles
         \/ InventoryFailsWithJunit
         \/ ReportWithJunit
         \/ SucceedWithTag
         \/ WriteOutput
         \/ /\ UNCHANGED fileVars
            /\ ~Scheduled /\ ~Report /\ [Next]_vars
<1>1. UNCHANGED <<vars, fileVars>> => UNCHANGED fileVars /\ UNCHANGED vars
  OBVIOUS
<1>2. UNCHANGED vars => ~Scheduled /\ ~Report
  BY DEF Scheduled, Report, Goto
<1>3. Launch => ~Scheduled /\ ~Report
  BY DEF Launch, Scheduled, Report, Goto
<1>4. ASSUME OtherStep PROVE ~Scheduled /\ ~Report
  <2>1. pc = "get" => pc' # "run"
    BY <1>4 DEF OtherStep, ScheduleFails, Create, ScheduleForgets, NoDataDir,
      CallbackReports, Callback, PlaybookEnds, NextJobdef, FindPrevious, PreviousIsNone,
      OpenPipeline, Raise, FallBack, GiveUp, Close, NextStage, Done,
      StopOnErrors, Signal, Goto, NotScheduled, Leave
  <2>2. pc = "report" => pc' # "judge"
    BY <1>4 DEF OtherStep, ScheduleFails, Create, ScheduleForgets, NoDataDir,
      CallbackReports, Callback, PlaybookEnds, NextJobdef, FindPrevious, PreviousIsNone,
      OpenPipeline, Raise, FallBack, GiveUp, Close, NextStage, Done,
      StopOnErrors, Signal, Goto, NotScheduled, Leave
  <2> QED BY <2>1, <2>2 DEF Scheduled, Report, Goto
<1>5. OtherStep => UNCHANGED fileVars
  BY DEF OtherStep
<1>6. LaunchReady => Launch /\ UNCHANGED fileVars
  BY DEF LaunchReady
<1> QED BY <1>1, <1>2, <1>3, <1>4, <1>5, <1>6, StepOfRun
      DEF FilesStep, FilesNext

-----------------------------------------------------------------------------
(* The provider of an input.                                               *)

\* A bounded set of naturals has a greatest element.
LEMMA Greatest ==
  ASSUME NEW S \in SUBSET Nat, S # {}, NEW b \in Nat, \A m \in S : m <= b
  PROVE  \E k \in S : \A m \in S : m <= k
<1> DEFINE U == {u \in Nat : \A m \in S : m <= u}
<1>1. b \in U
  OBVIOUS
<1>2. U \in SUBSET Nat /\ U # {}
  BY <1>1
<1>3. PICK u \in U : \A w \in U : u <= w
  BY <1>2, Least
<1>4. PICK s \in S : TRUE
  OBVIOUS
<1>5. CASE u \in S
  BY <1>3, <1>5
<1>6. CASE u \notin S
  <2>1. \A m \in S : m \in Nat /\ m <= u - 1
    BY <1>3, <1>6
  <2>2. u - 1 \in Nat
    BY <1>3, <1>4, <2>1
  <2>3. u - 1 \in U
    BY <2>1, <2>2
  <2> QED BY <1>3, <2>2, <2>3
<1> QED BY <1>5, <1>6

\* The type of an exchange.
LEMMA ExchangeFacts ==
  ASSUME NEW i \in Defs
  PROVE  /\ \A n \in DOMAIN Exchange[i].inputs :
              Key(i, n) \in STRING /\ Variable(i, n) \in STRING
         /\ \A o \in Exchange[i].outputs :
              /\ o[1] \in STRING /\ o[2] \in STRING /\ o = <<o[1], o[2]>>
              /\ \A p \in Exchange[i].outputs : o[1] = p[1] => o = p
         /\ \A m, n \in DOMAIN Exchange[i].inputs :
              Key(i, m) = Key(i, n) => m = n
<1>1. /\ Exchange[i].inputs \in Seq(STRING \X STRING)
      /\ Exchange[i].outputs \in SUBSET (STRING \X STRING)
  BY ExchangeAssumption
<1>2. \A n \in DOMAIN Exchange[i].inputs :
        Exchange[i].inputs[n] \in STRING \X STRING
  BY <1>1
<1>3. \A n \in DOMAIN Exchange[i].inputs :
        Key(i, n) \in STRING /\ Variable(i, n) \in STRING
  BY <1>2 DEF Key, Variable
<1>4. \A o \in Exchange[i].outputs :
        o[1] \in STRING /\ o[2] \in STRING /\ o = <<o[1], o[2]>>
  BY <1>1
<1>5. \A o, p \in Exchange[i].outputs : o[1] = p[1] => o = p
  BY ExchangeAssumption
<1>6. \A m, n \in DOMAIN Exchange[i].inputs : Key(i, m) = Key(i, n) => m = n
  BY ExchangeAssumption DEF Key
<1> QED BY <1>3, <1>4, <1>5, <1>6

\* An input that is found has a provider, and its source is what the provider
\* writes for its key.
LEMMA SourceFacts ==
  ASSUME NEW i \in Defs, NEW n \in Found(i)
  PROVE  \E k \in Defs : \E o \in Exchange[k].outputs :
           /\ Provider(i, Key(i, n), k)
           /\ o[1] = Key(i, n) /\ o = <<Key(i, n), o[2]>> /\ o[2] \in STRING
           /\ Source(i, n) = <<info[k], o[2]>>
<1> DEFINE key == Key(i, n)
<1>1. Offers(i, key) # {} /\ Offers(i, key) \subseteq Defs
  BY DEF Found, Offers, PrevJobdefs, Lookup
<1>2. \E d \in Defs : Provider(i, key, d)
  <2>1. /\ Defs = 1..Len(Pipeline) /\ Len(Pipeline) \in Nat
        /\ Defs \subseteq Nat
    BY PipelineAssumption DEF Defs
  <2>2. /\ Offers(i, key) \in SUBSET Nat
        /\ \A m \in Offers(i, key) : m <= Len(Pipeline)
    BY <1>1, <2>1
  <2>3. \E d \in Offers(i, key) : \A m \in Offers(i, key) : m <= d
    BY <1>1, <2>1, <2>2, Greatest
  <2> QED BY <1>1, <2>3 DEF Provider, IsLast
<1> DEFINE k == CHOOSE d \in Defs : Provider(i, key, d)
           o == CHOOSE o \in Exchange[k].outputs : o[1] = key
<1>3. k \in Defs /\ Provider(i, key, k)
  BY <1>2
<1>4. Source(i, n) = <<info[k], o[2]>>
  BY DEF Source
<1> HIDE DEF k
<1>5. \E x \in Exchange[k].outputs : x[1] = key
  BY <1>3 DEF Provider, IsLast, Offers
<1>6. o \in Exchange[k].outputs /\ o[1] = key
  BY <1>5
<1> HIDE DEF o
<1>7. o = <<key, o[2]>> /\ o[2] \in STRING
  BY <1>3, <1>6, ExchangeFacts
<1> QED BY <1>3, <1>4, <1>6, <1>7

-----------------------------------------------------------------------------
(* Type correctness.                                                       *)

\* The source of an input is a file of a job, unless the program raises.
LEMMA SourceType ==
  ASSUME Typed, NEW i \in Defs, NEW n \in Found(i)
  PROVE  /\ Source(i, n) \in Nat \X STRING
         /\ Source(i, n)[1] \in 0..Len(jobs)
<1>1. PICK k \in Defs : \E o \in Exchange[k].outputs :
        /\ Provider(i, Key(i, n), k)
        /\ o[2] \in STRING /\ Source(i, n) = <<info[k], o[2]>>
  BY SourceFacts
<1>2. info[k] \in Nat \cup {-1} /\ info[k] # -1
  BY <1>1 DEF Provider, IsLast, Offers, Typed, TypeOK
<1>3. /\ DOMAIN jobs = 1..Len(jobs) /\ Len(jobs) \in Nat
  BY DEF Typed, TypeOK
<1>4. info[k] > 0 => info[k] \in DOMAIN jobs
  BY DEF Typed, Pointers
<1> QED BY <1>1, <1>2, <1>3, <1>4

\* The directory and the variables that create_inputs makes.
LEMMA CreateInputsType ==
  ASSUME Typed, FilesTypeOK, NEW i \in Defs
  PROVE  /\ InputsDir(i) \in SUBSET (STRING \X Nat)
         /\ \A e \in InputsDir(i) : e[2] < Len(jobs) + 1
         /\ InputsPaths(i, NewJob) \in SUBSET (STRING \X Nat \X STRING)
<1>1. Len(jobs) \in Nat /\ NewJob \in Nat
  BY DEF Typed, TypeOK, NewJob
<1>2. Copied(i) \subseteq Found(i) /\ Found(i) \subseteq DOMAIN Exchange[i].inputs
  BY DEF Copied, Found
<1>3. ASSUME NEW e \in InputsDir(i)
      PROVE  e \in STRING \X Nat /\ e[2] < Len(jobs) + 1
  <2>1. PICK n \in Found(i) :
          e = <<Source(i, n)[2], IF n \in Copied(i) THEN Source(i, n)[1] ELSE 0>>
    BY DEF InputsDir
  <2>2. /\ Source(i, n)[2] \in STRING /\ Source(i, n)[1] \in Nat
        /\ Source(i, n)[1] < Len(jobs) + 1
    BY <1>1, SourceType
  <2> QED BY <1>1, <2>1, <2>2
<1>4. ASSUME NEW v \in InputsPaths(i, NewJob)
      PROVE  v \in STRING \X Nat \X STRING
  <2>1. CASE v \in extravars[i]
    BY <2>1 DEF FilesTypeOK
  <2>2. CASE \E n \in Copied(i) : v = <<Variable(i, n), NewJob, Source(i, n)[2]>>
    <3>1. PICK n \in Copied(i) : v = <<Variable(i, n), NewJob, Source(i, n)[2]>>
      BY <2>2
    <3>2. Source(i, n)[2] \in STRING /\ Variable(i, n) \in STRING
      BY <1>2, SourceType, ExchangeFacts
    <3> QED BY <1>1, <3>1, <3>2
  <2> QED BY <2>1, <2>2 DEF InputsPaths
<1> QED BY <1>3, <1>4

\* What create_inputs and compute_tags hand over to the job just scheduled.
LEMMA HandedOver ==
  ASSUME Typed, FilesTypeOK, ScheduledWithFiles
  PROVE  /\ at \in Defs /\ Len(jobs) \in Nat
         /\ \E dir \in SUBSET (STRING \X Nat), marks \in SUBSET Marks :
              /\ inputs' = Append(inputs, dir)
              /\ dir = IF Unready(at) THEN {} ELSE InputsDir(at)
              /\ tags' = Append(tags, marks)
              /\ attempt = 2 => <<"fallback", "">> \in marks
         /\ \A i \in Defs : extravars'[i] = IF i = at /\ ~Unready(at)
                                              THEN InputsPaths(at, NewJob)
                                              ELSE extravars[i]
         /\ extravars' \in [Defs -> SUBSET (STRING \X Nat \X STRING)]
<1>1. at \in Defs /\ Len(jobs) \in Nat
  BY DEF ScheduledWithFiles, Scheduled, Goto, Typed, TypeOK, Pointers
<1>3. Tags \in SUBSET Marks /\ (attempt = 2 => <<"fallback", "">> \in Tags)
  BY <1>1 DEF Tags, Marks
<1>4. \E marks \in SUBSET Marks :
        /\ tags' = Append(tags, marks)
        /\ attempt = 2 => <<"fallback", "">> \in marks
  <2>1. CASE Unready(at) /\ attempt = 1
    <3>1. tags' = Append(tags, {})
      BY <2>1 DEF ScheduledWithFiles, HandOver
    <3>2. {} \in SUBSET Marks /\ ~(attempt = 2)
      BY <2>1
    <3> QED BY <3>1, <3>2, Zenon
  <2>2. CASE ~(Unready(at) /\ attempt = 1)
    <3>1. tags' = Append(tags, Tags)
      BY <2>2 DEF ScheduledWithFiles, HandOver
    <3> QED BY <1>3, <3>1
  <2> QED BY <2>1, <2>2
<1>5. /\ extravars \in [Defs -> SUBSET (STRING \X Nat \X STRING)]
      /\ InputsDir(at) \in SUBSET (STRING \X Nat)
      /\ InputsPaths(at, NewJob) \in SUBSET (STRING \X Nat \X STRING)
  BY <1>1, CreateInputsType DEF FilesTypeOK
<1>6. \E dir \in SUBSET (STRING \X Nat) :
        /\ inputs' = Append(inputs, dir)
        /\ dir = IF Unready(at) THEN {} ELSE InputsDir(at)
  <2>1. inputs' = Append(inputs, IF Unready(at) THEN {} ELSE InputsDir(at))
    BY DEF ScheduledWithFiles, HandOver, CreateInputs
  <2> QED BY <1>5, <2>1
<1>7. \/ Unready(at) /\ extravars' = extravars
      \/ ~Unready(at) /\ extravars' = [extravars EXCEPT ![at] = InputsPaths(at, NewJob)]
  BY DEF ScheduledWithFiles, HandOver, CreateInputs
<1> QED BY <1>1, <1>4, <1>5, <1>6, <1>7

\* The number of jobs.
LEMMA JobCount ==
  ASSUME Typed, FilesStep
  PROVE  /\ Len(jobs) \in Nat /\ DOMAIN jobs = 1..Len(jobs)
         /\ ~Scheduled => Len(jobs') = Len(jobs) /\ DOMAIN jobs' = DOMAIN jobs
         /\ Scheduled => /\ Len(jobs') = Len(jobs) + 1
                         /\ DOMAIN jobs' = 1..(Len(jobs) + 1)
<1>1. jobs \in Seq(JobRecord)
  BY DEF Typed, TypeOK
<1> QED BY <1>1, StepOfRun, Lineage, ScheduledJob

\* Every step keeps the types.
LEMMA FilesTypeStep ==
  ASSUME Typed, FilesTypeOK, FilesStep
  PROVE  FilesTypeOK'
<1>n. /\ Len(jobs) \in Nat /\ DOMAIN jobs = 1..Len(jobs)
      /\ ~Scheduled => Len(jobs') = Len(jobs) /\ DOMAIN jobs' = DOMAIN jobs
      /\ Scheduled => /\ Len(jobs') = Len(jobs) + 1
                      /\ DOMAIN jobs' = 1..(Len(jobs) + 1)
  BY JobCount
<1>p. pc \in Playing => Current \in DOMAIN jobs /\ Current \in Nat
  BY <1>n DEF Typed, Pointers
<1>1. CASE ScheduledWithFiles
  <2>1. PICK dir \in SUBSET (STRING \X Nat), marks \in SUBSET Marks :
          /\ inputs' = Append(inputs, dir)
          /\ dir = IF Unready(at) THEN {} ELSE InputsDir(at)
          /\ tags' = Append(tags, marks)
    BY <1>1, HandedOver
  <2>2. extravars' \in [Defs -> SUBSET (STRING \X Nat \X STRING)] /\ at \in Defs
    BY <1>1, HandedOver
  <2>3. \A e \in dir : e[2] < Len(jobs) + 1
    BY <2>1, <2>2, CreateInputsType
  <2>4. /\ inputs' \in Seq(SUBSET (STRING \X Nat)) /\ Len(inputs') = Len(jobs')
        /\ \A j \in DOMAIN inputs' : j \in DOMAIN inputs \/ j = Len(jobs) + 1
        /\ \A j \in DOMAIN inputs : inputs'[j] = inputs[j]
        /\ inputs'[Len(jobs) + 1] = dir
    BY <1>1, <1>n, <2>1 DEF FilesTypeOK, ScheduledWithFiles
  <2>5. \A j \in DOMAIN inputs' : \A e \in inputs'[j] : e[2] < j
    <3>1. \A e \in inputs'[Len(jobs) + 1] : e[2] < Len(jobs) + 1
      BY <2>3, <2>4
    <3> QED BY <2>4, <3>1 DEF FilesTypeOK
  <2>6. /\ tags' \in Seq(SUBSET Marks) /\ Len(tags') = Len(jobs')
        /\ junit' \in Seq(Fates)
        /\ Len(junit') = Len(jobs')
    <3>1. "none" \in Fates BY DEF Fates
    <3> QED BY <1>1, <1>n, <2>1, <3>1 DEF FilesTypeOK, ScheduledWithFiles
  <2>7. promoted' \in SUBSET DOMAIN jobs' /\ outputs' = outputs
    BY <1>1, <1>n DEF FilesTypeOK, ScheduledWithFiles
  <2> QED BY <2>2, <2>4, <2>5, <2>6, <2>7 DEF FilesTypeOK
<1>2. CASE ReportWithJunit \/ InventoryFailsWithJunit
  <2>1. /\ ~Scheduled /\ pc \in Playing
        /\ UNCHANGED <<outputs, inputs, extravars, tags, promoted>>
    BY <1>2 DEF ReportWithJunit, Report, InventoryFailsWithJunit,
      InventoryFails, Scheduled, Goto, Playing
  <2>2. /\ junit' \in Seq(Fates)
        /\ Len(junit') = Len(junit)
    <3> DEFINE S == Fates
    <3>2. \E s \in S : junit' = [junit EXCEPT ![Current] = s]
      BY <1>2 DEF ReportWithJunit, InventoryFailsWithJunit, UploadJunit,
        Results, Fates
    <3>3. junit \in Seq(S)
      BY DEF FilesTypeOK
    <3> HIDE DEF S
    <3>4. /\ junit' \in [1..Len(junit) -> S]
          /\ DOMAIN junit' = DOMAIN junit
          /\ Len(junit) \in Nat
      <4>1. PICK s \in S : junit' = [junit EXCEPT ![Current] = s]
        BY <3>2
      <4>2. /\ DOMAIN junit = 1..Len(junit) /\ Len(junit) \in Nat
            /\ \A j \in DOMAIN junit : junit[j] \in S
        BY <3>3
      <4>3. /\ DOMAIN junit' = DOMAIN junit
            /\ \A j \in DOMAIN junit :
                 junit'[j] = IF j = Current THEN s ELSE junit[j]
        BY <4>1
      <4> QED BY <4>1, <4>2, <4>3
    <3>5. junit' \in Seq(S) /\ Len(junit') = Len(junit)
      BY <3>4
    <3> QED BY <3>5 DEF S
  <2> QED BY <1>n, <2>1, <2>2 DEF FilesTypeOK
<1>3. CASE SucceedWithTag
  <2>1. /\ Succeed /\ ~Scheduled /\ pc \in Playing
        /\ UNCHANGED <<outputs, inputs, extravars, tags, junit>>
    BY <1>3 DEF SucceedWithTag, Succeed, Scheduled, Goto, Playing
  <2>2. promoted' \subseteq promoted \cup {Current}
    BY <1>3 DEF SucceedWithTag, SetSuccessTag
  <2> QED BY <1>n, <1>p, <2>1, <2>2 DEF FilesTypeOK
<1>4. CASE WriteOutput
  <2>1. /\ pc \in Playing /\ ~Scheduled
        /\ UNCHANGED <<vars, inputs, extravars, tags, promoted, junit>>
    BY <1>4 DEF WriteOutput, Playing, Scheduled, Goto
  <2>2. PICK o \in Exchange[at].outputs :
          outputs' = outputs \cup {<<Current, o[2]>>}
    BY <1>4 DEF WriteOutput
  <2>3. at \in Defs
    BY <1>4 DEF WriteOutput, Typed, TypeOK, Pointers
  <2>4. o[2] \in STRING
    BY <2>3, ExchangeFacts
  <2> QED BY <1>n, <1>p, <2>1, <2>2, <2>4 DEF FilesTypeOK
<1>5. CASE UNCHANGED fileVars /\ ~Scheduled
  BY <1>n, <1>5 DEF FilesTypeOK
<1> QED BY <1>1, <1>2, <1>3, <1>4, <1>5, FilesKept

\* Type correctness of every reachable state, for every pipeline.
THEOREM FilesTypeCorrect == FilesSpec => [](TypeOK /\ FilesTypeOK)
<1>1. FilesInit => FilesTypeOK
  <2>1. <<>> \in Seq(SUBSET (STRING \X Nat)) /\ <<>> \in Seq(SUBSET Marks)
        /\ <<>> \in Seq(Fates)
    OBVIOUS
  <2> QED BY <2>1 DEF FilesInit, Init, FilesTypeOK
<1>2. Typed /\ FilesTypeOK /\ [FilesNext]_<<vars, fileVars>> => FilesTypeOK'
  BY FilesTypeStep DEF FilesStep
<1> QED BY <1>1, <1>2, FilesImplementRun, PipelineTyped, PTL
      DEF FilesSpec, Typed

-----------------------------------------------------------------------------
(* The junit directories.                                                  *)

\* A step only touches the job_info of the current definition, and none is
\* ever taken back.
LEMMA InfoMoves ==
  ASSUME Typed, [Next]_vars, NEW k \in Defs
  PROVE  /\ k # at => info'[k] = info[k]
         /\ info'[k] = -1 => info[k] = -1
<1>1. CASE Scheduled
  <2>1. info'[k] = IF k = at THEN Len(jobs) + 1 ELSE info[k]
    BY <1>1, ScheduledJob
  <2>2. Len(jobs) \in Nat
    BY DEF Typed, TypeOK
  <2> QED BY <2>1, <2>2
<1>2. CASE ScheduleFails \/ ScheduleForgets
  <2>1. info'[k] = IF k = at THEN 0 ELSE info[k]
    BY <1>2, InfoNone
  <2> QED BY <2>1
<1> QED BY <1>1, <1>2, InfoKept

\* The environment of a definition changes while it runs.
LEMMA TmpMoves ==
  ASSUME Typed, [Next]_vars, NEW k \in Defs
  PROVE  \/ tmp'[k] = tmp[k]
         \/ /\ k = at /\ pc \in Playing /\ info' = info /\ info[at] # -1
            /\ tmp'[k] \in Earlier => tmp[k] \in Earlier \/ Pipeline[k].own_env
<1>1. CASE Launch \/ InventoryFails \/ Report
  <2>1. /\ info' = info /\ pc \in Playing
        /\ \/ tmp' = [tmp EXCEPT ![at] = IF tmp[at] = "meta" THEN "made" ELSE tmp[at]]
           \/ tmp' = [tmp EXCEPT ![at] = Remains("left")]
           \/ tmp' = [tmp EXCEPT ![at] = Remains("removed")]
    BY <1>1 DEF Launch, InventoryFails, Report, Goto, Playing
  <2>2. /\ tmp \in [Defs -> {"meta", "made", "removed", "left"}]
        /\ info[at] # -1
    BY <2>1 DEF Typed, TypeOK, Pointers, Current
  <2> QED BY <2>1, <2>2 DEF Remains, Earlier
<1>2. CASE ~Launch /\ ~InventoryFails /\ ~Report
  BY <1>2 DEF Next, Step, ScheduleStep, RunStep, StageStep, NextJobdef,
    FindPrevious, PreviousIsNone, OpenPipeline, Raise, CreateLost, Create,
    NoDataDir, PlaybookEnds, Succeed, FallBack, GiveUp, Close, CloseRefused,
    NextStage, Done, StopOnErrors, Signal, Callback, ScheduleFails,
    ScheduleForgets, NotScheduled, Scheduled
<1> QED BY <1>1, <1>2

\* While a job is at work nothing else is.
LEMMA RunKept ==
  ASSUME [Next]_vars, ~Scheduled, pc' \in Playing
  PROVE  /\ pc \in Playing /\ at' = at /\ info' = info /\ attempt' = attempt
         /\ Current' = Current
         /\ pc' = "run" => pc = "run" /\ tmp' = tmp
         /\ pc' = "playing" => Launch \/ pc = "playing"
         /\ pc' \in {"playing", "report"} =>
              Launch \/ (pc \in {"playing", "report"} /\ tmp' = tmp)
<1>1. CASE Launch \/ InventoryFails \/ PlaybookEnds \/ Report \/ Callback
           \/ Signal \/ UNCHANGED vars
  BY <1>1 DEF Launch, InventoryFails, PlaybookEnds, Report, Callback, Signal,
    Goto, Playing, Current
<1>2. ASSUME ~Launch, ~InventoryFails, ~PlaybookEnds, ~Report, ~Callback,
             ~Signal, Next
      PROVE  FALSE
  BY <1>2 DEF Next, Step, ScheduleStep, RunStep, StageStep, NextJobdef,
    FindPrevious, PreviousIsNone, OpenPipeline, Raise, CreateLost, Create,
    NoDataDir, Succeed, FallBack, GiveUp, Close, Closed, CloseRefused,
    NextStage, Done, StopOnErrors, ScheduleFails, ScheduleForgets,
    NotScheduled, Goto, Leave, Playing
<1> QED BY <1>1, <1>2

\* A definition without a job_info has not run, and variables are only set by
\* the steps that give one.
LEMMA UntouchedStep ==
  ASSUME Typed, FilesTypeOK, Untouched, FilesStep
  PROVE  Untouched'
<1>1. ASSUME NEW i \in Defs, info'[i] = -1
      PROVE  extravars'[i] = {} /\ tmp'[i] \notin Earlier
  <2>1. info[i] = -1
    BY <1>1, InfoMoves, StepOfRun
  <2>2. tmp'[i] = tmp[i]
    BY <2>1, TmpMoves, StepOfRun
  <2>3. extravars'[i] = extravars[i]
    <3>1. CASE ScheduledWithFiles
      <4>1. info'[i] = IF i = at THEN Len(jobs) + 1 ELSE info[i]
        BY <3>1, ScheduledJob DEF ScheduledWithFiles
      <4>2. Len(jobs) \in Nat
        BY DEF Typed, TypeOK
      <4>3. i # at
        BY <1>1, <4>1, <4>2
      <4> QED BY <3>1, <4>3, HandedOver
    <3> QED BY <3>1, FilesKept
          DEF InventoryFailsWithJunit, ReportWithJunit, SucceedWithTag,
            WriteOutput
  <2> QED BY <2>1, <2>2, <2>3 DEF Untouched
<1>2. ASSUME NEW i \in Defs, tmp'[i] \in Earlier
      PROVE  Pipeline[i].own_env
  BY <1>2, TmpMoves, StepOfRun DEF Untouched
<1> QED BY <1>1, <1>2 DEF Untouched

\* pre_process_jobdef makes the directory anew unless an earlier job of the
\* definition has had it removed: the current job is then that of a fallback.
LEMMA OwnJunitDirStep ==
  ASSUME Ordered, Base, FilesTypeOK, Untouched, OwnJunitDir, FilesStep
  PROVE  OwnJunitDir'
<1>b. Typed /\ Turn /\ Newest
  BY BaseFacts
<1>1. CASE ScheduledWithFiles
  <2>1. /\ Scheduled /\ pc = "get" /\ pc' = "run" /\ at' = at /\ tmp' = tmp
        /\ attempt' = attempt /\ at \in Defs
    BY <1>1, <1>b, ScheduledJob DEF ScheduledWithFiles, Scheduled, Goto
  <2>2. attempt = 1 => tmp[at] \notin Earlier
    BY <2>1, <1>b DEF Turn, NotYet, Untouched
  <2>3. attempt = 2 => <<"fallback", "">> \in tags'[Current']
    <3>1. PICK marks \in SUBSET Marks :
            /\ tags' = Append(tags, marks)
            /\ attempt = 2 => <<"fallback", "">> \in marks
      BY <1>1, <1>b, HandedOver
    <3>2. Current' = Len(jobs) + 1
      BY <2>1, <1>b, ScheduledJob DEF Current
    <3>3. tags'[Len(jobs) + 1] = marks
      <4>1. tags \in Seq(SUBSET Marks) /\ Len(tags) = Len(jobs)
        BY DEF FilesTypeOK
      <4>2. tags'[Len(tags) + 1] = marks
        BY <3>1, <4>1, LastAppended
      <4> QED BY <4>1, <4>2
    <3> QED BY <3>1, <3>2, <3>3
  <2> QED BY <2>1, <2>2, <2>3 DEF OwnJunitDir, Playing
<1>2. CASE ~ScheduledWithFiles /\ pc' \in Playing
  <2>1. ~Scheduled /\ tags' = tags
    <3>1. CASE UNCHANGED fileVars /\ ~Scheduled
      BY <3>1
    <3>2. CASE InventoryFailsWithJunit \/ ReportWithJunit
               \/ SucceedWithTag \/ WriteOutput
      BY <3>2 DEF InventoryFailsWithJunit, InventoryFails, ReportWithJunit,
        SucceedWithTag, WriteOutput, Report,
        Succeed, Scheduled, Goto
    <3> QED BY <1>2, <3>1, <3>2, FilesKept
  <2>2. /\ pc \in Playing /\ at' = at /\ info' = info /\ attempt' = attempt
        /\ Current' = Current
        /\ pc' = "run" => pc = "run" /\ tmp' = tmp
        /\ pc' \in {"playing", "report"} =>
             Launch \/ (pc \in {"playing", "report"} /\ tmp' = tmp)
    BY <1>2, <2>1, RunKept, StepOfRun
  <2>3. Launch => /\ pc = "run"
                  /\ tmp'[at] = IF tmp[at] = "meta" THEN "made" ELSE tmp[at]
    BY <1>b, <2>2 DEF Launch, Goto, Typed, TypeOK, Pointers, Playing
  <2>4. pc' \in {"playing", "report"} => tmp'[at] # "meta"
    BY <2>2, <2>3 DEF OwnJunitDir
  <2>5. pc' \in {"run", "playing", "report"} /\ attempt = 1
          => tmp'[at] \notin Earlier
    BY <2>2, <2>3 DEF OwnJunitDir, Earlier
  <2>6. attempt = 2 => <<"fallback", "">> \in tags[Current]
    BY <2>2 DEF OwnJunitDir
  <2> QED BY <2>1, <2>2, <2>4, <2>5, <2>6 DEF OwnJunitDir
<1>3. CASE pc' \notin Playing
  BY <1>3 DEF OwnJunitDir, Playing
<1> QED BY <1>1, <1>2, <1>3

\* The playbook of a job is only reported with its junit files.
LEMMA ReportIsJunit ==
  ASSUME FilesStep, Report
  PROVE  ReportWithJunit \/ UNCHANGED <<vars, fileVars>>
BY FilesKept DEF Report, ScheduledWithFiles, Scheduled, SucceedWithTag,
  Succeed, WriteOutput, InventoryFailsWithJunit, InventoryFails, Goto

\* A job is reported with the directory that OwnJunitDir tells of, and its tags
\* stay.
LEMMA JunitKeptStep ==
  ASSUME Typed, Undecided, FilesTypeOK, Untouched, OwnJunitDir, JunitKept,
         FilesStep
  PROVE  JunitKept'
<1>n. /\ Len(jobs) \in Nat /\ DOMAIN jobs = 1..Len(jobs)
      /\ DOMAIN junit = 1..Len(jobs) /\ DOMAIN tags = 1..Len(jobs)
  BY JobCount DEF FilesTypeOK
<1>1. CASE ScheduledWithFiles
  <2>1. PICK marks \in SUBSET Marks : tags' = Append(tags, marks)
    BY <1>1, HandedOver
  <2>2. /\ \A j \in 1..Len(jobs) : /\ junit'[j] = junit[j]
                                   /\ tags'[j] = tags[j]
        /\ junit'[Len(jobs) + 1] = "none"
        /\ DOMAIN junit' = 1..(Len(jobs) + 1)
    BY <1>1, <2>1 DEF FilesTypeOK, ScheduledWithFiles
  <2>3. \A j \in 1..Len(jobs) : jobs'[j] = jobs[j]
    BY <1>1, <1>n, ScheduledJob DEF ScheduledWithFiles
  <2>4. \A j \in DOMAIN junit' : j \in 1..Len(jobs) \/ j = Len(jobs) + 1
    BY <1>n, <2>2
  <2> QED BY <1>n, <2>2, <2>3, <2>4 DEF JunitKept
<1>2. CASE ~ScheduledWithFiles
  <2>1. /\ ~Scheduled /\ tags' = tags
        /\ junit' = junit \/ ReportWithJunit \/ InventoryFailsWithJunit
    <3>1. CASE UNCHANGED fileVars /\ ~Scheduled
      BY <3>1
    <3>2. CASE InventoryFailsWithJunit \/ ReportWithJunit
               \/ SucceedWithTag \/ WriteOutput
      BY <3>2 DEF InventoryFailsWithJunit, InventoryFails, ReportWithJunit,
        SucceedWithTag, WriteOutput, Report,
        Succeed, Scheduled, Goto
    <3> QED BY <1>2, <3>1, <3>2, FilesKept
  <2>2. \A j \in DOMAIN jobs :
          /\ jobs'[j].by = jobs[j].by
          /\ jobs'[j].ok = jobs[j].ok \/ (Report /\ j = Current)
    BY <2>1, StepOfRun, Lineage
  <2>3. CASE junit' = junit /\ ~Report
    BY <1>n, <2>1, <2>2, <2>3 DEF JunitKept
  <2>r. Report => ReportWithJunit \/ UNCHANGED <<vars, fileVars>>
    BY ReportIsJunit
  <2>u. CASE UNCHANGED <<vars, fileVars>>
    BY <2>u DEF JunitKept
  <2>5. CASE InventoryFailsWithJunit
    <3>1. /\ pc = "playing" /\ Current \in DOMAIN jobs /\ jobs' = jobs
          /\ ~jobs[Current].ok
      BY <2>5 DEF InventoryFailsWithJunit, InventoryFails, Goto, Typed,
        Pointers, Playing, Undecided
    <3>2. junit' = [junit EXCEPT ![Current] = "left"]
      BY <2>5 DEF InventoryFailsWithJunit, Results
    <3>3. /\ DOMAIN junit' = DOMAIN junit
          /\ \A j \in DOMAIN junit : j # Current => junit'[j] = junit[j]
          /\ junit'[Current] = "left"
      BY <1>n, <3>1, <3>2
    <3> QED BY <1>n, <2>1, <3>1, <3>3 DEF JunitKept
  <2>4. CASE ReportWithJunit
    <3>1. /\ pc = "report" /\ Current \in DOMAIN jobs
          /\ jobs[Current].by = at /\ at \in Defs /\ attempt \in {1, 2}
      BY <2>4 DEF ReportWithJunit, Report, Goto, Typed, TypeOK, Pointers,
        Playing
    <3>2. PICK s \in {"uploaded", "refused", "lost"} :
            /\ junit' = [junit EXCEPT ![Current] = s]
            /\ s = "lost" => tmp[at] # "made"
      BY <2>4 DEF ReportWithJunit, UploadJunit, Results
    <3>3. /\ DOMAIN junit' = DOMAIN junit
          /\ \A j \in DOMAIN junit : j # Current => junit'[j] = junit[j]
          /\ junit'[Current] = s
      BY <1>n, <3>1, <3>2
    <3>4. tmp[at] # "made" => tmp[at] \in Earlier
      BY <3>1 DEF OwnJunitDir, Typed, TypeOK, Earlier
    <3>5. junit'[Current] = "lost" =>
            Pipeline[at].own_env /\ <<"fallback", "">> \in tags[Current]
      BY <3>1, <3>2, <3>3, <3>4 DEF OwnJunitDir, Untouched, Playing
    <3>6. junit'[Current] # "left" BY <3>2, <3>3
    <3>7. ASSUME NEW j \in DOMAIN junit
          PROVE  /\ junit'[j] = "lost" => /\ Pipeline[jobs'[j].by].own_env
                                          /\ <<"fallback", "">> \in tags'[j]
                 /\ junit'[j] = "left" => ~jobs'[j].ok
      <4>1. CASE j = Current BY <4>1, <2>1, <2>2, <3>1, <3>5, <3>6
      <4>2. CASE j # Current
        BY <4>2, <1>n, <2>1, <2>2, <3>3 DEF JunitKept
      <4> QED BY <4>1, <4>2
    <3> QED BY <3>3, <3>7 DEF JunitKept
  <2> QED BY <2>1, <2>3, <2>4, <2>5, <2>r, <2>u
<1> QED BY <1>1, <1>2

\* The initial states.
LEMMA FilesInitFacts ==
  ASSUME FilesInit
  PROVE  /\ FilesTypeOK /\ Untouched /\ OwnJunitDir /\ JunitKept
         /\ InputsFromLast /\ Rebindable /\ Workspace
<1>1. <<>> \in Seq(SUBSET (STRING \X Nat)) /\ <<>> \in Seq(SUBSET Marks)
      /\ <<>> \in Seq(Fates)
  OBVIOUS
<1>2. FilesTypeOK
  BY <1>1 DEF FilesInit, Init, FilesTypeOK
<1>3. Untouched
  BY DEF FilesInit, Init, Untouched, Earlier
<1> QED BY <1>2, <1>3 DEF FilesInit, Init, OwnJunitDir, JunitKept,
      InputsFromLast, Rebindable, Workspace, Playing

\* The invariants that the theorems below rest on.
LEMMA FilesTyped ==
  Ordered => (FilesSpec => [](Base /\ FilesTypeOK /\ Untouched /\ OwnJunitDir))
<1> SUFFICES ASSUME Ordered
             PROVE  FilesSpec => [](Base /\ FilesTypeOK /\ Untouched
                                      /\ OwnJunitDir)
  OBVIOUS
<1>1. FilesInit => FilesTypeOK /\ Untouched /\ OwnJunitDir
  BY FilesInitFacts
<1>2. /\ Base /\ FilesTypeOK /\ Untouched /\ OwnJunitDir
      /\ [FilesNext]_<<vars, fileVars>>
      => (FilesTypeOK /\ Untouched /\ OwnJunitDir)'
  BY FilesTypeStep, UntouchedStep, OwnJunitDirStep DEF FilesStep, Base
<1> QED BY <1>1, <1>2, BaseInvariant, PTL DEF FilesSpec

\* The junit files of a job whose playbook has ended are given to the server,
\* but for a fallback with its own environment, and those that a run leaves
\* behind are of a job that is not a success.
THEOREM JunitKeptCorrect == Ordered => (FilesSpec => []JunitKept)
<1> SUFFICES ASSUME Ordered
             PROVE  FilesSpec => []JunitKept
  OBVIOUS
<1>1. FilesInit => JunitKept
  BY FilesInitFacts
<1>2. /\ Base /\ FilesTypeOK /\ Untouched /\ OwnJunitDir /\ JunitKept
      /\ [FilesNext]_<<vars, fileVars>>
      => JunitKept'
  BY JunitKeptStep, BaseFacts DEF FilesStep
<1> QED BY <1>1, <1>2, FilesTyped, PTL DEF FilesSpec

-----------------------------------------------------------------------------
(* Where inputs come from.                                                 *)

\* The source of an input, for the job that is about to be created.
LEMMA SourceIsLast ==
  ASSUME Ordered, Base, at # 0, NEW n \in Found(at), Source(at, n)[1] # 0
  PROVE  LET p == Source(at, n)[1] IN
         /\ p \in DOMAIN jobs /\ jobs[p].by \in Lookup(at)
         /\ <<Key(at, n), Source(at, n)[2]>> \in Exchange[jobs[p].by].outputs
         /\ \A q \in DOMAIN jobs : p < q /\ jobs[q].by \in Lookup(at) \ {at}
                                     => ~Promises(q, Key(at, n))
         /\ jobs[p].ok \/ Stage(jobs[p].by) = Stage(at)
<1> DEFINE key == Key(at, n)
           S == {d \in PrevJobdefs(at) : \E o \in Exchange[d].outputs : o[1] = key}
<1>b. Typed /\ Progress /\ Turn /\ Lasts /\ Winners
  BY BaseFacts
<1>a. at \in Defs
  BY <1>b DEF Typed, TypeOK
<1>1. PICK k \in Defs : \E o \in Exchange[k].outputs :
        /\ Provider(at, key, k)
        /\ o = <<key, o[2]>> /\ Source(at, n) = <<info[k], o[2]>>
  BY <1>a, SourceFacts
<1>2. PICK o \in Exchange[k].outputs :
        /\ Provider(at, key, k)
        /\ o = <<key, o[2]>> /\ Source(at, n) = <<info[k], o[2]>>
  BY <1>1
<1>3. Source(at, n)[1] = info[k] /\ Source(at, n)[2] = o[2] /\ info[k] # 0
  BY <1>2
<1>4. S \in SUBSET Defs
  BY DEF PrevJobdefs, Lookup
<1>5. IsLast({d \in S : info[d] # -1}, k)
  <2>1. \A d : d \in Offers(at, key) <=> d \in {e \in S : info[e] # -1}
    BY DEF Offers
  <2> QED BY <1>2, <2>1 DEF Provider, IsLast
<1> HIDE DEF S
<1>6. /\ k \in S /\ info[k] \in DOMAIN jobs /\ jobs[info[k]].by = k
      /\ \A q \in DOMAIN jobs : info[k] < q => jobs[q].by \notin S
      /\ jobs[info[k]].ok \/ Stage(k) = Stage(at)
  BY <1>b, <1>3, <1>4, <1>5, LastRun
<1>7. k \in Lookup(at)
  BY <1>6 DEF S, PrevJobdefs
<1>8. ASSUME NEW q \in DOMAIN jobs, jobs[q].by \in Lookup(at) \ {at},
             Promises(q, key)
      PROVE  jobs[q].by \in S
  <2>1. PICK i \in Defs : i = jobs[q].by
    BY <1>8 DEF Lookup
  <2>2. info[i] # -1
    BY <1>b, <2>1 DEF Lasts
  <2>3. i <= at /\ i \in Nat /\ at \in Nat
    BY <1>a, <1>b, <2>2, TurnBound, DefsFacts
  <2>4. i \in PrevJobdefs(at)
    BY <1>8, <2>1, <2>3 DEF PrevJobdefs
  <2> QED BY <1>8, <2>1, <2>4 DEF S, Promises
<1>9. <<key, o[2]>> \in Exchange[k].outputs
  BY <1>2
<1> QED BY <1>3, <1>6, <1>7, <1>8, <1>9

\* Later jobs change nothing of where an input comes from.
LEMMA FromLastKept ==
  ASSUME NEW j \in Nat, NEW e, e[2] \in Nat, e[2] # 0, e[2] < j,
         FromLast(j, e),
         \A q \in 1..j : jobs'[q].by = jobs[q].by,
         jobs'[e[2]].ok = jobs[e[2]].ok
  PROVE  FromLast(j, e)'
<1>1. e[2] \in 1..j /\ j \in 1..j
  OBVIOUS
<1>2. \A q \in (e[2] + 1)..(j - 1) : q \in 1..j
  OBVIOUS
<1>3. \A q \in (e[2] + 1)..(j - 1) : \A key :
        Promises(q, key)' <=> Promises(q, key)
  BY <1>2 DEF Promises
<1> QED BY <1>1, <1>2, <1>3 DEF FromLast, Key

\* The inputs of a new job are as SourceIsLast says, and later jobs come after
\* it.
LEMMA InputsFromLastStep ==
  ASSUME Ordered, Base, FilesTypeOK, InputsFromLast, FilesStep
  PROVE  InputsFromLast'
<1>b. Typed /\ Newest
  BY BaseFacts
<1>n. /\ Len(jobs) \in Nat /\ DOMAIN jobs = 1..Len(jobs)
      /\ DOMAIN inputs = 1..Len(jobs)
  BY <1>b, JobCount DEF FilesTypeOK
<1>e. \A j \in DOMAIN inputs : \A e \in inputs[j] : e[2] \in Nat /\ e[2] < j
  <2>1. inputs \in Seq(SUBSET (STRING \X Nat))
    BY DEF FilesTypeOK
  <2>2. \A j \in DOMAIN inputs : inputs[j] \in SUBSET (STRING \X Nat)
    BY <2>1
  <2> QED BY <2>2 DEF FilesTypeOK
<1>o. ASSUME \A q \in DOMAIN jobs :
               /\ jobs'[q].by = jobs[q].by
               /\ jobs'[q].ok = jobs[q].ok \/ q = Len(jobs)
      PROVE  \A j \in DOMAIN inputs : \A e \in inputs[j] :
               e[2] # 0 => FromLast(j, e)'
  <2>1. SUFFICES ASSUME NEW j \in DOMAIN inputs, NEW e \in inputs[j], e[2] # 0
                 PROVE  FromLast(j, e)'
    OBVIOUS
  <2>2. j \in Nat /\ e[2] \in Nat /\ e[2] < j /\ j <= Len(jobs)
    BY <1>n, <1>e
  <2>3. \A q \in 1..j : jobs'[q].by = jobs[q].by
    BY <1>n, <1>o, <2>2
  <2>4. jobs'[e[2]].ok = jobs[e[2]].ok
    BY <1>n, <1>o, <2>1, <2>2
  <2>5. FromLast(j, e)
    BY <2>1 DEF InputsFromLast
  <2> QED BY <2>1, <2>2, <2>3, <2>4, <2>5, FromLastKept
<1>1. CASE ScheduledWithFiles
  <2>1. /\ Scheduled /\ at # 0 /\ at \in Defs
    BY <1>1, <1>b DEF ScheduledWithFiles, Scheduled, Goto, Typed, TypeOK,
      Pointers
  <2>n. PICK new \in Nat : new = Len(jobs) + 1
    BY <1>b DEF Typed, TypeOK
  <2>2. /\ \A j \in DOMAIN jobs : jobs'[j] = jobs[j]
        /\ jobs'[new].by = at
    BY <1>b, <2>1, <2>n, ScheduledJob
  <2>3. PICK dir \in SUBSET (STRING \X Nat) :
          /\ inputs' = Append(inputs, dir)
          /\ dir = IF Unready(at) THEN {} ELSE InputsDir(at)
    BY <1>1, <1>b, HandedOver
  <2>4. /\ \A j \in DOMAIN inputs' : j \in DOMAIN inputs \/ j = new
        /\ \A j \in DOMAIN inputs : inputs'[j] = inputs[j]
        /\ inputs'[new] = dir
    BY <2>3, <2>n DEF FilesTypeOK
  <2>5. ASSUME NEW e \in dir, e[2] # 0 PROVE FromLast(new, e)'
    <3>1. e \in InputsDir(at)
      BY <2>3, <2>5
    <3>2. PICK n \in Found(at) :
            e = <<Source(at, n)[2],
                  IF n \in Copied(at) THEN Source(at, n)[1] ELSE 0>>
      BY <3>1 DEF InputsDir
    <3>3. e[1] = Source(at, n)[2] /\ e[2] = Source(at, n)[1]
      BY <2>5, <3>2
    <3>4. /\ e[2] \in DOMAIN jobs /\ jobs[e[2]].by \in Lookup(at)
          /\ <<Key(at, n), e[1]>> \in Exchange[jobs[e[2]].by].outputs
          /\ \A q \in DOMAIN jobs :
               e[2] < q /\ jobs[q].by \in Lookup(at) \ {at}
                 => ~Promises(q, Key(at, n))
          /\ jobs[e[2]].ok \/ Stage(jobs[e[2]].by) = Stage(at)
      BY <2>1, <2>5, <3>3, SourceIsLast
    <3>k. PICK key : key = Key(at, n)
      OBVIOUS
    <3>5. \A q \in (e[2] + 1)..(new - 1) : q \in DOMAIN jobs /\ e[2] < q
      BY <1>n, <2>n, <3>4
    <3>6. \A q \in DOMAIN jobs : Promises(q, key)' <=> Promises(q, key)
      BY <2>2 DEF Promises
    <3>7. /\ n \in DOMAIN Exchange[at].inputs
          /\ key = Exchange[at].inputs[n][1]
      BY <3>k DEF Found, Key
    <3>8. \A q \in (e[2] + 1)..(new - 1) :
            jobs'[q].by \in Lookup(at) \ {at} => ~Promises(q, key)'
      BY <2>2, <3>4, <3>5, <3>6, <3>k
    <3>9. jobs'[e[2]] = jobs[e[2]] /\ <<key, e[1]>> \in
            Exchange[jobs[e[2]].by].outputs
      BY <2>2, <3>4, <3>k
    <3>10. PICK i \in Defs : i = at
      BY <2>1
    <3> QED BY <2>2, <3>4, <3>7, <3>8, <3>9, <3>10 DEF FromLast, Key
  <2>6. \A j \in DOMAIN inputs : \A e \in inputs[j] :
          e[2] # 0 => FromLast(j, e)'
    BY <1>o, <2>2
  <2> QED BY <2>4, <2>5, <2>6 DEF InputsFromLast
<1>2. CASE ~ScheduledWithFiles
  <2>1. ~Scheduled /\ inputs' = inputs
    <3>1. CASE UNCHANGED fileVars /\ ~Scheduled
      BY <3>1
    <3>2. CASE InventoryFailsWithJunit \/ ReportWithJunit
               \/ SucceedWithTag \/ WriteOutput
      BY <3>2 DEF InventoryFailsWithJunit, InventoryFails, ReportWithJunit,
        SucceedWithTag, WriteOutput, Report,
        Succeed, Scheduled, Goto
    <3> QED BY <1>2, <3>1, <3>2, FilesKept
  <2>2. Report => Current = Len(jobs)
    BY <1>b DEF Report, Goto, Newest, Playing
  <2>3. \A q \in DOMAIN jobs :
          /\ jobs'[q].by = jobs[q].by
          /\ jobs'[q].ok = jobs[q].ok \/ q = Len(jobs)
    BY <1>b, <2>1, <2>2, StepOfRun, Lineage
  <2> QED BY <1>o, <2>1, <2>3 DEF InputsFromLast
<1> QED BY <1>1, <1>2

\* A file in the inputs of a job is what the last job of prev_stages that was
\* to write such an output has written, never that of a job that a fallback has
\* replaced, and of one that succeeded unless it is of the same stage.
THEOREM InputsFromLastCorrect == Ordered => (FilesSpec => []InputsFromLast)
<1> SUFFICES ASSUME Ordered
             PROVE  FilesSpec => []InputsFromLast
  OBVIOUS
<1>1. FilesInit => InputsFromLast
  BY FilesInitFacts
<1>2. Base /\ FilesTypeOK /\ InputsFromLast /\ [FilesNext]_<<vars, fileVars>>
      => InputsFromLast'
  BY InputsFromLastStep DEF FilesStep
<1> QED BY <1>1, <1>2, FilesTyped, PTL DEF FilesSpec

-----------------------------------------------------------------------------
(* The workspace of a playbook.                                            *)

\* The provider of an input, and the file it writes.
TheLast(S) == CHOOSE d \in Defs : IsLast(S, d)
FileOf(k, key) == (CHOOSE o \in Exchange[k].outputs : o[1] = key)[2]

\* No definition is among those that create_inputs looks at for it, so what it
\* becomes does not matter.
LEMMA OffersKept ==
  ASSUME NEW i \in Defs, \A k \in Defs : k # i => info'[k] = info[k],
         NEW key
  PROVE  Offers(i, key)' = Offers(i, key)
<1>1. \A k \in PrevJobdefs(i) : k \in Defs /\ k # i
  BY DefsFacts DEF PrevJobdefs, Lookup
<1> QED BY <1>1 DEF Offers, PrevJobdefs, Lookup

\* What create_inputs would do for a definition only changes with the job_info
\* of others, and with the files they write.
LEMMA SourcesKept ==
  ASSUME NEW i \in Defs, \A k \in Defs : k # i => info'[k] = info[k],
         outputs \subseteq outputs'
  PROVE  /\ Unready(i)' <=> Unready(i)
         /\ Copied(i) \subseteq Copied(i)'
<1>1. \A key : Offers(i, key)' = Offers(i, key)
  BY OffersKept
<1>2. \A key : \A k \in Offers(i, key) : info'[k] = info[k]
  BY DefsFacts DEF Offers, PrevJobdefs, Lookup
<1>3. Unready(i)' <=> Unready(i)
  BY <1>1, <1>2 DEF Unready, Provider, IsLast, Key
<1>4. Found(i)' = Found(i)
  BY <1>1 DEF Found, Key
<1>5. ASSUME NEW n \in Found(i)
      PROVE  Source(i, n)' = Source(i, n)
  <2> DEFINE k == TheLast(Offers(i, Key(i, n)))
  <2>1. Source(i, n) = <<info[k], FileOf(k, Key(i, n))>>
    BY DEF Source, Provider, TheLast, FileOf
  <2>2. Source(i, n)' = <<info'[TheLast(Offers(i, Key(i, n))')],
                          FileOf(TheLast(Offers(i, Key(i, n))'), Key(i, n))>>
    BY DEF Source, Provider, TheLast, FileOf, Key
  <2>3. Offers(i, Key(i, n))' = Offers(i, Key(i, n))
    BY <1>1 DEF Key
  <2>4. k \in Offers(i, Key(i, n))
    <3>1. PICK d \in Defs : Provider(i, Key(i, n), d)
      BY SourceFacts
    <3>2. IsLast(Offers(i, Key(i, n)), k)
      BY <3>1 DEF TheLast, Provider
    <3> QED BY <3>2 DEF IsLast
  <2> QED BY <1>2, <2>1, <2>2, <2>3, <2>4
<1> QED BY <1>3, <1>4, <1>5 DEF Copied

\* What the steps of JobFiles leave alone.
LEMMA OutputsGrow ==
  ASSUME FilesStep
  PROVE  /\ outputs \subseteq outputs'
         /\ ~ScheduledWithFiles => UNCHANGED <<inputs, extravars>>
BY FilesKept DEF ScheduledWithFiles, InventoryFailsWithJunit,
   ReportWithJunit, SucceedWithTag, WriteOutput

\* A definition gets its turn once: it has no variables yet.
LEMMA RebindableStep ==
  ASSUME Ordered, Base, FilesTypeOK, Untouched, Rebindable, FilesStep
  PROVE  Rebindable'
<1>b. Typed /\ Progress /\ Turn
  BY BaseFacts
<1>1. CASE NextJobdef
  <2>1. Turn' /\ Untouched'
    BY <1>b, StepOfRun, TurnStep, UntouchedStep
  <2>2. at' \in Defs /\ pc' = "start"
    BY <1>1 DEF NextJobdef, Follows, Members, Goto
  <2>3. info'[at'] = -1
    BY <2>1, <2>2 DEF Turn, NotYet
  <2>4. extravars'[at'] = {}
    BY <2>1, <2>2, <2>3 DEF Untouched
  <2> QED BY <2>4 DEF Rebindable
<1>2. CASE NextStage
  BY <1>2 DEF NextStage, Rebindable
<1>a. ~NextJobdef /\ ~NextStage => at' = at
  BY <1>b, StepOfRun, LoopStep DEF Done
<1>3. CASE ~NextJobdef /\ ~NextStage /\ at # 0
  <2>1. at' = at
    BY <1>3, <1>a
  <2>2. PICK i \in Defs : i = at
    BY <1>3, <1>b DEF Typed, TypeOK
  <2>3. Copied(i) \subseteq Copied(i)'
    BY <1>b, <2>2, StepOfRun, InfoMoves, OutputsGrow, SourcesKept
  <2>4. \A v \in extravars[i] : \E n \in Copied(i) : Variable(i, n) = v[1]
    BY <1>3, <2>2 DEF Rebindable
  <2>5. \A v \in extravars'[i] : \E n \in Copied(i) : Variable(i, n) = v[1]
    <3>1. CASE extravars'[i] = extravars[i]
      BY <2>4, <3>1
    <3>2. CASE ScheduledWithFiles /\ extravars'[i] = InputsPaths(i, NewJob)
      BY <2>4, <3>2 DEF InputsPaths
    <3> QED BY <1>b, <2>2, <3>1, <3>2, HandedOver, OutputsGrow
  <2> QED BY <2>1, <2>2, <2>3, <2>5 DEF Rebindable, Variable
<1>4. CASE ~NextJobdef /\ ~NextStage /\ at = 0
  BY <1>4, <1>a DEF Rebindable
<1> QED BY <1>1, <1>2, <1>3, <1>4

\* No input of a job that is scheduled replaces another, so each variable
\* names a file that is there.
LEMMA PathsOfDir ==
  ASSUME NamesApart, NEW i \in Defs, ~Unready(i), NEW n \in Copied(i)
  PROVE  /\ <<Source(i, n)[2], Source(i, n)[1]>> \in InputsDir(i)
         /\ Source(i, n)[1] # 0
<1>1. /\ n \in Found(i) /\ Found(i) \subseteq DOMAIN Exchange[i].inputs
  BY DEF Copied, Found
<1>2. PICK k \in Defs : \E o \in Exchange[k].outputs :
        /\ Provider(i, Key(i, n), k)
        /\ o[1] = Key(i, n) /\ Source(i, n) = <<info[k], o[2]>>
  BY <1>1, SourceFacts
<1>3. PICK o \in Exchange[k].outputs :
        /\ Provider(i, Key(i, n), k)
        /\ o[1] = Key(i, n) /\ Source(i, n) = <<info[k], o[2]>>
  BY <1>2
<1>4. Source(i, n)[1] # 0
  BY <1>1, <1>3 DEF Unready
<1>5. ASSUME NEW l \in Found(i), Source(i, l)[2] = Source(i, n)[2]
      PROVE  l = n
  <2>1. PICK h \in Defs : \E p \in Exchange[h].outputs :
          /\ Provider(i, Key(i, l), h)
          /\ p[1] = Key(i, l) /\ Source(i, l) = <<info[h], p[2]>>
    BY SourceFacts
  <2>2. PICK p \in Exchange[h].outputs :
          p[1] = Key(i, l) /\ Source(i, l) = <<info[h], p[2]>>
    BY <2>1
  <2>3. p[2] = o[2]
    BY <1>3, <1>5, <2>2
  <2>4. p[1] = o[1]
    BY <2>3 DEF NamesApart
  <2>5. Key(i, l) = Key(i, n)
    BY <1>3, <2>2, <2>4
  <2> QED BY <1>1, <2>5, ExchangeFacts
<1>6. Exchange[i].inputs \in Seq(STRING \X STRING)
  BY ExchangeAssumption
<1>7. \A l \in Found(i) : n < l => Source(i, l)[2] # Source(i, n)[2]
  <2>1. n \in Nat
    BY <1>1, <1>6
  <2> QED BY <1>5, <2>1
<1> QED BY <1>1, <1>4, <1>7 DEF InputsDir

\* The program has raised before it runs a job with an input that is not ready.
LEMMA LaunchIsReady ==
  ASSUME FilesStep, Launch
  PROVE  ~Unready(at)
<1>1. /\ ~ScheduledWithFiles /\ ~ReportWithJunit /\ ~SucceedWithTag
      /\ ~WriteOutput /\ ~InventoryFailsWithJunit
  BY DEF Launch, InventoryFailsWithJunit, InventoryFails, ScheduledWithFiles, Scheduled, ReportWithJunit, Report,
    SucceedWithTag, Succeed, WriteOutput, Goto
<1>2. ~OtherStep
  BY DEF Launch, OtherStep, ScheduleFails, Create, ScheduleForgets, NoDataDir,
    CallbackReports, Callback, PlaybookEnds, NextJobdef, FindPrevious, PreviousIsNone,
    OpenPipeline, Raise, FallBack, GiveUp, Close, NextStage, Done,
    StopOnErrors, Signal, Goto, NotScheduled, Leave
<1>3. pc' # pc
  BY DEF Launch, Goto
<1> QED BY <1>1, <1>2, <1>3 DEF FilesStep, FilesNext, LaunchReady

\* A job finds its variables as create_inputs leaves them: none that an
\* earlier job of the definition has set, for Rebindable, and each the path of
\* a file of its inputs, which nothing changes until the playbook has run.
LEMMA WorkspaceStep ==
  ASSUME Ordered, NamesApart, Base, FilesTypeOK, Rebindable, Workspace,
         FilesStep
  PROVE  Workspace'
<1>b. Typed
  BY BaseFacts
<1>1. CASE ScheduledWithFiles
  <2>1. Scheduled /\ pc' = "run" /\ at' = at /\ outputs' = outputs
    BY <1>1 DEF ScheduledWithFiles, Scheduled, Goto
  <2>2. PICK i \in Defs : i = at
    BY <1>1, <1>b, HandedOver
  <2>n. PICK new \in Nat : new = Len(jobs) + 1 /\ new = NewJob
    BY <1>b DEF Typed, TypeOK, NewJob
  <2>3. PICK dir \in SUBSET (STRING \X Nat) :
          /\ inputs' = Append(inputs, dir)
          /\ dir = IF Unready(i) THEN {} ELSE InputsDir(i)
    BY <1>1, <1>b, <2>2, HandedOver
  <2>4. inputs'[new] = dir
    <3>1. inputs \in Seq(SUBSET (STRING \X Nat)) /\ Len(inputs) = Len(jobs)
      BY DEF FilesTypeOK
    <3> QED BY <2>n, <2>3, <3>1, LastAppended
  <2>5. Current' = new
    BY <1>b, <2>1, <2>2, <2>n, ScheduledJob DEF Current
  <2>6. Unready(i)' <=> Unready(i)
    BY <1>b, <2>2, StepOfRun, InfoMoves, OutputsGrow, SourcesKept
  <2>7. ASSUME ~Unready(i), NEW v \in extravars'[i]
        PROVE  v[2] = new /\ \E e \in inputs'[new] : e[1] = v[3] /\ e[2] # 0
    <3>1. extravars'[i] = InputsPaths(i, new)
      BY <1>1, <1>b, <2>2, <2>n, <2>7, HandedOver
    <3>2. ~(v \in extravars[i] /\ \A n \in Copied(i) : Variable(i, n) # v[1])
      BY <2>2, DefsFacts DEF Rebindable
    <3>3. PICK n \in Copied(i) : v = <<Variable(i, n), new, Source(i, n)[2]>>
      BY <2>7, <3>1, <3>2 DEF InputsPaths
    <3>4. /\ <<Source(i, n)[2], Source(i, n)[1]>> \in InputsDir(i)
          /\ Source(i, n)[1] # 0
      BY <2>7, PathsOfDir
    <3>5. v[2] = new /\ v[3] = Source(i, n)[2]
      BY <3>3
    <3>6. inputs'[new] = InputsDir(i)
      BY <2>3, <2>4, <2>7
    <3>7. PICK e \in inputs'[new] : e[1] = Source(i, n)[2] /\ e[2] # 0
      BY <3>4, <3>6
    <3> QED BY <3>5, <3>7
  <2> QED BY <2>1, <2>2, <2>5, <2>6, <2>7 DEF Workspace
<1>2. CASE ~ScheduledWithFiles /\ pc' \in {"run", "playing"}
  <2>1. UNCHANGED <<inputs, extravars>> /\ ~Scheduled
    <3>1. (InventoryFailsWithJunit \/ ReportWithJunit \/ SucceedWithTag
             \/ WriteOutput) => ~Scheduled
      BY DEF InventoryFailsWithJunit, InventoryFails, ReportWithJunit,
        SucceedWithTag, WriteOutput, Report, Succeed, Scheduled, Goto
    <3> QED BY <1>2, <3>1, FilesKept, OutputsGrow
  <2>2. /\ at' = at /\ info' = info /\ Current' = Current
        /\ pc' = "run" => pc = "run"
        /\ pc' = "playing" => Launch \/ pc = "playing"
    BY <1>2, <2>1, StepOfRun, RunKept DEF Playing
  <2>3. pc \in {"run", "playing"}
    BY <1>2, <2>2 DEF Launch, Goto
  <2>4. PICK i \in Defs : i = at
    BY <1>b, <2>3 DEF Typed, TypeOK, Pointers
  <2>5. Unready(i)' <=> Unready(i)
    BY <2>2, OutputsGrow, SourcesKept
  <2>6. pc' = "playing" => ~Unready(i)
    BY <2>2, <2>4, LaunchIsReady DEF Workspace
  <2>7. ~Unready(i) =>
          \A v \in extravars[i] :
            v[2] = Current /\ \E e \in inputs[Current] : e[1] = v[3] /\ e[2] # 0
    BY <2>3, <2>4 DEF Workspace
  <2> QED BY <2>1, <2>2, <2>4, <2>5, <2>6, <2>7 DEF Workspace
<1>3. CASE pc' \notin {"run", "playing"}
  BY <1>3 DEF Workspace
<1> QED BY <1>1, <1>2, <1>3

\* While a playbook runs, the paths its variables hold are those of its own
\* inputs directory, filled with what another job has written, when no two
\* inputs are copied to the same file.
THEOREM OwnWorkspaceCorrect ==
  Ordered /\ NamesApart => (FilesSpec => []OwnWorkspace)
<1> SUFFICES ASSUME Ordered, NamesApart
             PROVE  FilesSpec => []OwnWorkspace
  OBVIOUS
<1>1. FilesInit => Rebindable /\ Workspace
  BY FilesInitFacts
<1>2. /\ Base /\ FilesTypeOK /\ Untouched /\ Rebindable /\ Workspace
      /\ [FilesNext]_<<vars, fileVars>>
      => (Rebindable /\ Workspace)'
  BY RebindableStep, WorkspaceStep DEF FilesStep
<1>3. Workspace => OwnWorkspace
  BY DEF Workspace, OwnWorkspace
<1> QED BY <1>1, <1>2, <1>3, FilesTyped, PTL DEF FilesSpec
=============================================================================
