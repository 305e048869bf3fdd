---------------------------- MODULE PipelineTools ----------------------------
(***************************************************************************)
(* Whole pipelines, one after the other, with what the control server      *)
(* keeps of them, and the two tools that read it: dci-rebuild-pipeline     *)
(* writes a pipeline file from the jobs of a pipeline, dci-diff-pipeline   *)
(* compares the components of two.  Components are published meanwhile.    *)
(***************************************************************************)
EXTENDS PipelineStart

CONSTANTS
  MaxPipelines, \* bound of the pipelines that are run
  LastDay       \* bound of the days

VARIABLES
  turn,   \* how many definitions of the run order have been taken
  errors, \* a job of the stage has failed or could not be scheduled
  server  \* per pipeline, its jobs in the order of their creation: the
          \* definition saved in data.pipeline and the components

toolVars == <<turn, errors, server>>

-----------------------------------------------------------------------------
(* main and run_stage: the definitions in the order they are run, each with *)
(* the first definition of its stage.                                      *)

Firsts(defs) ==
  {i \in DOMAIN defs : \A k \in 1..(i - 1) : StageOf(defs[k]) # StageOf(defs[i])}
RunOrder ==
  SetToSortSeq({<<f, i>> \in Firsts(pipeline) \X DOMAIN pipeline :
                  i \in Answers(StageOf(pipeline[f]), pipeline)},
               LAMBDA s, t : s[1] < t[1] \/ (s[1] = t[1] /\ s[2] < t[2]))

Between == pc = "ready"
EndOfStage ==
  /\ turn \in 1..(Len(RunOrder) - 1)
  /\ RunOrder[turn + 1][1] # RunOrder[turn][1]

NextJobdef ==
  /\ Between /\ turn < Len(RunOrder)
  /\ errors => ~EndOfStage
  /\ Schedule(RunOrder[turn + 1][2])
  /\ turn' = turn + 1
  /\ UNCHANGED <<configVars, errors, server>>

\* The job is created with its definition and its components.
JobScheduled ==
  /\ Scheduled
  /\ server' = [server EXCEPT ![Len(server)] =
                  Append(@, [def |-> pipeline[job], comps |-> ToSet(chosen)])]
  /\ UNCHANGED <<configVars, turn, errors>>

\* What schedule_job has in its locals ends with it.
JobOver(failed) ==
  /\ pc' = "ready" /\ errors' = (errors \/ failed)
  /\ job' = 0 /\ tags' = {} /\ at' = 1 /\ tag' = 1
  /\ chosen' = <<>> /\ prev' = <<>>
  /\ UNCHANGED <<configVars, refused, today, turn, server>>

JobSucceeds == pc = "scheduled" /\ JobOver(FALSE)
JobFails == pc = "scheduled" /\ ~MayFallBack /\ JobOver(TRUE)
JobMissing == pc = "unscheduled" /\ JobOver(TRUE)

PipelineEnds ==
  /\ Between
  /\ turn = Len(RunOrder) \/ (errors /\ EndOfStage)
  /\ pc' = "ended"
  /\ UNCHANGED <<configVars, selectionVars, toolVars>>

-----------------------------------------------------------------------------
(* dci-rebuild-pipeline.                                                   *)

\* Mutant of Pinned: the type alone.
PinnedByType(c) == Text(c.type)

\* get_stage_components: the name of the component, not its version.
Pinned(c) == Versioned(c.type, c.name)

\* save_pipeline, with the definitions in the order of created_at.  The
\* components are in an order of the server.
RebuiltFile(jobs) ==
  [arg |-> "file",
   defs |-> [n \in DOMAIN jobs |->
     ("components" :> List([i \in 1..Cardinality(jobs[n].comps) |->
                              Pinned(SetToSeq(jobs[n].comps)[i])]))
     @@ jobs[n].def]]

\* A new dci-pipeline, once the last one has ended.
StartAgain(command) ==
  /\ pc = "ended" /\ Len(server) < MaxPipelines
  /\ argv' = command /\ args' = command
  /\ files' = <<>> /\ lst' = <<>> /\ pipeline' = <<>> /\ idx' = 0
  /\ opt' = ("name" :> Str(Text("pipeline")))
  /\ pc' = "args" /\ refused' = FALSE
  /\ turn' = 0 /\ errors' = FALSE
  /\ server' = Append(server, <<>>)
  /\ UNCHANGED <<exit, job, tags, at, tag, chosen, prev, today>>

\* A pipeline without jobs has no job to name it.
Rebuild ==
  /\ Last(server) # <<>>
  /\ StartAgain(<<RebuiltFile(Last(server))>>)

RunAgain == StartAgain(argv)

NewDay ==
  /\ today < LastDay /\ today' = today + 1
  /\ pc \in {"ready", "select", "scheduled", "ended"}
  /\ UNCHANGED <<configVars, pc, job, tags, at, tag, chosen, prev, refused,
                 toolVars>>

-----------------------------------------------------------------------------
(* dci-diff-pipeline.                                                      *)

\* get_component_info: a package or a repository is named by the first word.
get_component_info(c) ==
  IF c.type \in {"rpm", "git"} THEN c.words ELSE <<c.type, c.name>>
Infos(j) == {get_component_info(c) : c \in j.comps}
Names(j) == {info[1] : info \in Infos(j)}
NameIn(j, key) == (CHOOSE info \in Infos(j) : info[1] = key)[2]

Comparable(p, q) ==
  /\ Len(p) = Len(q)
  /\ {StageOf(p[i].def) : i \in DOMAIN p} = {StageOf(q[i].def) : i \in DOMAIN q}

\* Mutant of Lines: only what both have.
LinesInBoth(j1, j2) ==
  {key \in Names(j1) \cap Names(j2) : NameIn(j1, key) # NameIn(j2, key)}

\* The keys of the lines printed for a pair of jobs.
Lines(j1, j2) ==
  {key \in Names(j1) \cap Names(j2) : NameIn(j1, key) # NameIn(j2, key)}
    \cup (Names(j1) \ Names(j2)) \cup (Names(j2) \ Names(j1))

-----------------------------------------------------------------------------

ToolsInit ==
  /\ Init
  /\ turn = 0 /\ errors = FALSE /\ server = << <<>> >>

ToolsNext ==
  \/ ConfigStep /\ UNCHANGED <<selectionVars, toolVars>>
  \/ /\ \/ AskComponent \/ Refuse \/ AskPriority \/ RefusePriority
        \/ NotScheduled \/ FallBack
     /\ UNCHANGED <<configVars, toolVars>>
  \/ NextJobdef \/ JobScheduled \/ JobSucceeds \/ JobFails \/ JobMissing
  \/ PipelineEnds \/ Rebuild \/ RunAgain \/ NewDay

toolsVars == <<vars, toolVars>>
ToolsSpec == ToolsInit /\ [][ToolsNext]_toolsVars

-----------------------------------------------------------------------------
(* Properties.                                                             *)

\* The jobs of one definition: consecutive jobs of the same name, the second
\* of which is a fallback.
SameName(p, i, k) == NameOf(p[i].def) = NameOf(p[k].def)
Groups(p) ==
  {<<a, b>> \in (DOMAIN p) \X (DOMAIN p) :
     /\ a <= b /\ \A i \in a..b : SameName(p, a, i)
     /\ a > 1 => ~SameName(p, a - 1, a)
     /\ b < Len(p) => ~SameName(p, b, b + 1)}
FellBack(g) == g[1] < g[2]

IsRebuilt(n) == n > 1 /\ argv = <<RebuiltFile(server[n - 1])>>
Now == Len(server)

\* A rebuilt pipeline runs with the components of the original, whatever has
\* been published since: each of its jobs has those of the job of the same
\* name, and none of them is scheduled twice.  Only a refused call, a component
\* that is not active any more or one whose name is not its version leaves a
\* job unscheduled.  Nothing is said of the components of a definition that
\* fell back, whose jobs are rebuilt as one.
RebuiltPins ==
  IsRebuilt(Now) =>
    LET old == server[Now - 1]
        new == server[Now]
    IN /\ \A n \in DOMAIN new : \E g \in Groups(old) :
            /\ NameOf(new[n].def) = NameOf(old[g[1]].def)
            /\ FellBack(g) \/ new[n].comps = old[g[1]].comps
       /\ Len(new) <= Cardinality(Groups(old))
       /\ pc = "unscheduled" =>
            \/ refused
            \/ \E g \in Groups(old) : FellBack(g) /\ \A i \in g[1]..g[2] :
                 NameOf(old[i].def) = NameOf(pipeline[job])
            \/ \E n \in DOMAIN old : \E c \in old[n].comps :
                 ~c.active \/ c.name # c.version

\* Of two pipelines of the same structure, the diff has a line for a pair of
\* jobs if and only if their components differ; nothing differs between a
\* pipeline without fallback and the one rebuilt from it.
DiffTells ==
  pc = "ended" /\ Now > 1 /\ Comparable(server[Now - 1], server[Now]) =>
    LET old == server[Now - 1]
        new == server[Now]
        all == [i \in DOMAIN old |-> Lines(old[i], new[i])]
    IN /\ \A i \in DOMAIN old :
            /\ Cardinality(Names(old[i])) = Cardinality(old[i].comps)
            /\ Cardinality(Names(new[i])) = Cardinality(new[i].comps)
            => (all[i] = {} <=> old[i].comps = new[i].comps)
       /\ IsRebuilt(Now) /\ Len(old) = Cardinality(Groups(old)) =>
            \A i \in DOMAIN old : all[i] = {}
=============================================================================
