------------------------------ MODULE JobFiles ------------------------------
(***************************************************************************)
(* What the jobs of dci-pipeline hand on to each other and leave behind:   *)
(* the output files of a job copied into the inputs of later ones, the     *)
(* tags of jobs and components, the junit files.  Composes with            *)
(* PipelineRun: every step here is one of PipelineRun or of a playbook     *)
(* that writes a file.                                                     *)
(***************************************************************************)
EXTENDS PipelineRun

CONSTANTS
  Exchange, \* per definition, its inputs, outputs and success_tag
  Reporting \* per definition, bound on the jobstates its playbook reports

\* inputs: in order, a key and the variable that gets the path of the copy;
\* outputs: the files, a set of pairs <<key, file name>>.  Both are
\* dictionaries: a key is there once.
ASSUME ExchangeAssumption ==
  /\ Exchange \in [Defs -> [inputs : Seq(STRING \X STRING),
                            outputs : SUBSET (STRING \X STRING),
                            success_tag : BOOLEAN]]
  /\ \A i \in Defs :
       /\ \A m, n \in DOMAIN Exchange[i].inputs :
            Exchange[i].inputs[m][1] = Exchange[i].inputs[n][1] => m = n
       /\ \A o, p \in Exchange[i].outputs : o[1] = p[1] => o = p

VARIABLES
  outputs,   \* the <<job, file name>> that playbooks have written
  inputs,    \* per job, its inputs directory: pairs <<file name, the job it
             \* comes from>>, 0 for the empty file of a copy that failed
  extravars, \* per definition, triples <<variable, job, file name>>: the
             \* paths create_inputs has put in ansible_extravars
  tags,      \* per job, the tags added to it
  promoted,  \* jobs whose components have been given the success_tag
  junit      \* per job, what became of its junit files: "none" yet, "uploaded",
             \* "refused" by the server, "left" by a run that ended before, or
             \* "lost" in a directory that nobody looks at

fileVars == <<outputs, inputs, extravars, tags, promoted, junit>>

FilesInit ==
  /\ Init
  /\ outputs = {} /\ promoted = {}
  /\ inputs = <<>> /\ tags = <<>> /\ junit = <<>>
  /\ extravars = [i \in Defs |-> {}]

-----------------------------------------------------------------------------
(* create_inputs.                                                          *)

\* get_prev_jobdefs: those before i only, when i is among its own prev_stages.
PrevJobdefs(i) == IF i \in Lookup(i) THEN {k \in Lookup(i) : k < i}
                                     ELSE Lookup(i)

\* The definitions that have a job_info, be it None, and such an output.
Offers(i, key) ==
  {k \in PrevJobdefs(i) : info[k] # -1 /\
                          \E o \in Exchange[k].outputs : o[1] = key}

\* Mutant of Provider: the first that offers it.
ProviderFirst(i, key, k) == IsFirst(Offers(i, key), k)

\* lookup_jobdef_by_outputs, in the reverse of the order of the pipeline.
Provider(i, key, k) == IsLast(Offers(i, key), k)

\* Per input, its key and the variable that gets its path.
Key(i, n) == Exchange[i].inputs[n][1]
Variable(i, n) == Exchange[i].inputs[n][2]

\* None["outputs"]: the job it would come from could not be scheduled.
Unready(i) ==
  \E n \in DOMAIN Exchange[i].inputs, k \in Defs :
    Provider(i, Key(i, n), k) /\ info[k] = 0

\* The inputs that some job offers, and the job and the file to copy.
Found(i) == {n \in DOMAIN Exchange[i].inputs : Offers(i, Key(i, n)) # {}}

Source(i, n) ==
  LET k == CHOOSE d \in Defs : Provider(i, Key(i, n), d)
  IN <<info[k], (CHOOSE o \in Exchange[k].outputs : o[1] = Key(i, n))[2]>>

Copied(i) == {n \in Found(i) : Source(i, n) \in outputs}

\* The copy has the base name of its source, and is opened before the source
\* is: one that does not exist leaves an empty file, and the variable as it
\* was.  A later input replaces the file and the variable of an earlier one.
InputsDir(i) ==
  {<<Source(i, n)[2], IF n \in Copied(i) THEN Source(i, n)[1] ELSE 0>> :
     n \in {m \in Found(i) : \A l \in Found(i) :
              m < l => Source(i, l)[2] # Source(i, m)[2]}}

InputsPaths(i, j) ==
  {e \in extravars[i] : \A n \in Copied(i) : Variable(i, n) # e[1]} \cup
  {<<Variable(i, n), j, Source(i, n)[2]>> :
     n \in {m \in Copied(i) : \A l \in Copied(i) :
              m < l => Variable(i, l) # Variable(i, m)}}

-----------------------------------------------------------------------------
(* The steps of PipelineRun that have to do with files and tags.           *)

NewJob == Len(jobs) + 1

CreateInputs ==
  /\ inputs' = Append(inputs, InputsDir(at))
  /\ extravars' = [extravars EXCEPT ![at] = InputsPaths(at, NewJob)]

Tags == {<<"stage", Stage(at)>>}
          \cup IF attempt = 2 THEN {<<"fallback", "">>} ELSE {}

\* Mutant of HandOver: the fallback has the inputs of the first job.
HandOverOnce ==
  /\ tags' = Append(tags, Tags)
  /\ IF Unready(at) \/ attempt = 2
       THEN inputs' = Append(inputs, {}) /\ UNCHANGED extravars
       ELSE CreateInputs

\* The first job gets its tags after its inputs, that of the fallback before.
\* What is copied before a TypeError is never used.
HandOver ==
  /\ tags' = Append(tags, IF Unready(at) /\ attempt = 1 THEN {} ELSE Tags)
  /\ IF Unready(at)
       THEN inputs' = Append(inputs, {}) /\ UNCHANGED extravars
       ELSE CreateInputs

ScheduledWithFiles ==
  /\ Scheduled
  /\ HandOver
  /\ junit' = Append(junit, "none")
  /\ UNCHANGED <<outputs, promoted>>

\* With an input that is not ready the program has raised.
LaunchReady == Launch /\ ~Unready(at) /\ UNCHANGED fileVars

\* The playbook writes a file of job_info.outputs.
WriteOutput ==
  /\ pc = "playing"
  /\ \E o \in Exchange[at].outputs :
       /\ <<Current, o[2]>> \notin outputs
       /\ outputs' = outputs \cup {<<Current, o[2]>>}
  /\ UNCHANGED <<vars, inputs, extravars, tags, promoted, junit>>

Results(became) == junit' = [junit EXCEPT ![Current] = became]

\* Mutant of UploadJunit: files are only uploaded when the playbook succeeds.
UploadJunitOfSuccess ==
  \/ tmp[at] = "made" /\ rc /\ \E s \in {"uploaded", "refused"} : Results(s)
  \/ ~(tmp[at] = "made" /\ rc) /\ Results("lost")

\* upload_junit_files_from_dir, for a directory this run has made.  Nobody
\* looks at the answer of the server, and the directory is removed.
UploadJunit ==
  \/ tmp[at] = "made" /\ \E s \in {"uploaded", "refused"} : Results(s)
  \/ tmp[at] # "made" /\ Results("lost")

\* run_jobdef returns before post_process_jobdef.
InventoryFailsWithJunit ==
  /\ InventoryFails
  /\ Results("left")
  /\ UNCHANGED <<outputs, inputs, extravars, tags, promoted>>

ReportWithJunit ==
  /\ Report
  /\ UploadJunit
  /\ UNCHANGED <<outputs, inputs, extravars, tags, promoted>>

\* set_success_tag, of which the server may refuse a call.
SetSuccessTag ==
  promoted' \in {promoted, IF Exchange[at].success_tag
                             THEN promoted \cup {Current} ELSE promoted}

SucceedWithTag ==
  /\ Succeed
  /\ SetSuccessTag
  /\ UNCHANGED <<outputs, inputs, extravars, tags, junit>>

CallbackReports ==
  /\ Callback
  /\ jobs'[Current].status \in Reporting[at]

\* The steps of PipelineRun that do nothing else.  The closing calls that are
\* refused and the creations whose answer is lost are left to PipelineRun:
\* nothing reads them here.
OtherStep ==
  /\ \/ ScheduleFails \/ Create \/ ScheduleForgets \/ NoDataDir
     \/ CallbackReports \/ PlaybookEnds
     \/ NextJobdef \/ FindPrevious \/ PreviousIsNone \/ OpenPipeline
     \/ Raise \/ FallBack \/ GiveUp \/ Close \/ NextStage \/ Done
     \/ StopOnErrors \/ Signal
  /\ UNCHANGED fileVars

FilesNext ==
  \/ ScheduledWithFiles \/ LaunchReady \/ WriteOutput
  \/ InventoryFailsWithJunit \/ ReportWithJunit
  \/ SucceedWithTag \/ OtherStep

FilesSpec == FilesInit /\ [][FilesNext]_<<vars, fileVars>>

-----------------------------------------------------------------------------
(* Properties.                                                             *)

\* A file in the inputs of a job is what the last job of prev_stages that was
\* to write such an output has written: never that of a job that a fallback has
\* replaced, and of one that succeeded unless it is of the same stage.
Promises(q, key) == \E o \in Exchange[jobs[q].by].outputs : o[1] = key

FromLast(j, e) ==
  LET i == jobs[j].by IN
  /\ jobs[e[2]].by \in Lookup(i)
  /\ \E n \in DOMAIN Exchange[i].inputs :
       /\ <<Key(i, n), e[1]>> \in Exchange[jobs[e[2]].by].outputs
       /\ \A q \in (e[2] + 1)..(j - 1) :
            jobs[q].by \in Lookup(i) \ {i} => ~Promises(q, Key(i, n))
  /\ jobs[e[2]].ok \/ Stage(jobs[e[2]].by) = Stage(i)

InputsFromLast ==
  \A j \in DOMAIN inputs : \A e \in inputs[j] : e[2] # 0 => FromLast(j, e)

\* While a playbook runs, the paths its variables hold are those of its own
\* inputs directory, filled with what another job has written: the playbook
\* of a fallback does not read the workspace of the job that failed.
OwnWorkspace ==
  pc = "playing" =>
    \A v \in extravars[at] :
      v[2] = Current /\ \E e \in inputs[Current] : e[1] = v[3] /\ e[2] # 0

\* The results of a job whose playbook has ended go to the server, whatever
\* the playbook has returned, unless it is a fallback with its own environment
\* (whose directory is that of the first run), and those of a job that counts
\* as a success are never left behind by a run that ended before.  The server
\* may refuse them: the answer is not looked at.
JunitKept ==
  \A j \in DOMAIN junit :
    /\ junit[j] = "lost" => /\ Pipeline[jobs[j].by].own_env
                            /\ <<"fallback", "">> \in tags[j]
    /\ junit[j] = "left" => ~jobs[j].ok

-----------------------------------------------------------------------------
(* What the invariants above rest on.                                      *)

Fates == {"none", "uploaded", "refused", "left", "lost"}
Marks == {<<"stage", Stage(i)>> : i \in Defs} \cup {<<"fallback", "">>}

\* A file of an inputs directory comes from an earlier job.
FilesTypeOK ==
  /\ outputs \in SUBSET (Nat \X STRING)
  /\ inputs \in Seq(SUBSET (STRING \X Nat)) /\ Len(inputs) = Len(jobs)
  /\ \A j \in DOMAIN inputs : \A e \in inputs[j] : e[2] < j
  /\ extravars \in [Defs -> SUBSET (STRING \X Nat \X STRING)]
  /\ tags \in Seq(SUBSET Marks) /\ Len(tags) = Len(jobs)
  /\ promoted \in SUBSET DOMAIN jobs
  /\ junit \in Seq(Fates) /\ Len(junit) = Len(jobs)

\* What a definition that has not had its turn has not touched; the directory
\* of an earlier run is only kept by an environment of its own.
Earlier == {"removed", "left"}

Untouched ==
  \A i \in Defs :
    /\ info[i] = -1 => extravars[i] = {} /\ tmp[i] \notin Earlier
    /\ tmp[i] \in Earlier => Pipeline[i].own_env

\* The junit directory of the current run: made for it, unless it is that of a
\* fallback, which is tagged.
OwnJunitDir ==
  /\ pc \in {"playing", "report"} => tmp[at] # "meta"
  /\ pc \in {"run", "playing", "report"} /\ attempt = 1 =>
       tmp[at] \notin Earlier
  /\ pc \in Playing /\ attempt = 2 => <<"fallback", "">> \in tags[Current]

\* What an earlier run of the current definition has put in its variables is
\* of an input that can still be copied.
Rebindable ==
  at # 0 => \A v \in extravars[at] :
              \E n \in Copied(at) : Variable(at, n) = v[1]

\* From the creation of a job on, unless the program is about to raise.
Workspace ==
  /\ pc = "playing" => ~Unready(at)
  /\ pc \in {"run", "playing"} /\ ~Unready(at) =>
       \A v \in extravars[at] :
         v[2] = Current /\ \E e \in inputs[Current] : e[1] = v[3] /\ e[2] # 0

\* A file name is that of one key: no input of a job replaces another.
NamesApart ==
  \A i, k \in Defs : \A o \in Exchange[i].outputs, p \in Exchange[k].outputs :
    o[2] = p[2] => o[1] = p[1]
=============================================================================
