----------------------- MODULE DciQueueServiceProofs -----------------------
(***************************************************************************)
(* Proof that DciQueue implements PoolService: what the directory tree and *)
(* the process table show is the service, step by step.                    *)
(***************************************************************************)
EXTENDS DciQueueService, DciQueueLeaseProofs

USE ConstantsAssumption, SubsAssumption, RequestsAssumption
USE DEF Step, PoolOf, Scheduling, Launching, treeVars, dirVars, seqVars,
        localVars, userVars

-----------------------------------------------------------------------------
(* The abstract variables, from the concrete ones.                         *)

\* What a step shows of the resources that are leased.
SameLeases ==
  /\ avail' = avail /\ held' = held
  /\ \A c \in Jobs : GivenTo(c)' = GivenTo(c)

SameRuns == \A c \in Jobs : child'[c].sub = child[c].sub

\* The state of the jobs but c.
OthersSame(c) == \A d \in Jobs : d # c => StateOf(d)' = StateOf(d)

\* The leases are what these files and processes show.
LEMMA NoLease == SameLeases => UNCHANGED Service!leaseVars
BY DEF SameLeases, Service!leaseVars

\* So is the submission that each command runs.
LEMMA NoRun == SameRuns => UNCHANGED [c \in Jobs |-> child[c].sub]
BY DEF SameRuns

\* A step that moves no job.
LEMMA NoMove ==
  (\A c \in Jobs : StateOf(c)' = StateOf(c))
    => UNCHANGED [c \in Jobs |-> StateOf(c)]
OBVIOUS

\* A step that moves one job.
LEMMA OneMove ==
  ASSUME NEW c \in Jobs, NEW from, NEW to, StateOf(c) \in from,
         StateOf(c)' = to, OthersSame(c)
  PROVE  Service!Move(c, from, to)
BY DEF Service!Move, OthersSame

\* Files and processes that say the same as before.
LEMMA SameState ==
  ASSUME Typed, Typed', NEW c \in Jobs,
         next'[c[1]] = next[c[1]],
         queue'[c] = None <=> queue[c] = None,
         child'[c].st \in Alive <=> child[c].st \in Alive,
         child'[c].st = "gone" <=> child[c].st = "gone",
         \/ child[c].st # "none"
         \/ exec'[c] = None <=> exec[c] = None
  PROVE  StateOf(c)' = StateOf(c)
<1>1. child[c].st \in {"none", "running", "zombie", "gone"}
  BY DEF Typed, TypeOK, Child
<1>2. /\ (next'[c[1]] <= c[2]) <=> (next[c[1]] <= c[2])
      /\ (queue'[c] # None) <=> (queue[c] # None)
      /\ \/ child[c].st # "none"
         \/ (exec'[c] # None) <=> (exec[c] # None)
  OBVIOUS
<1> QED BY <1>1, <1>2 DEF StateOf, Alive

\* A step that starts and ends no command and moves no resource.
LEMMA SameChild ==
  ASSUME child' = child, avail' = avail, held' = held
  PROVE  SameLeases /\ SameRuns
BY DEF SameLeases, SameRuns, GivenTo

\* The state of a job that was consumed.
LEMMA Started ==
  ASSUME Typed, IdsOK, NEW c \in Jobs,
         exec[c] # None \/ child[c].st # "none"
  PROVE  /\ ~(next[c[1]] <= c[2]) /\ queue[c] = None
         /\ StateOf(c) = IF child[c].st \in Alive THEN "running"
                         ELSE IF child[c].st = "gone" THEN "ended"
                         ELSE "taken"
<1>1. ~(next[c[1]] <= c[2]) BY DEF IdsOK, Untouched
<1>2. queue[c] = None BY DEF IdsOK, QueuedIsFresh
<1>3. child[c].st \in {"none", "running", "zombie", "gone"}
  BY DEF Typed, TypeOK, Child
<1> QED BY <1>1, <1>2, <1>3 DEF StateOf, Alive

\* The state of a job that was not.
LEMMA NotStarted ==
  ASSUME NEW c \in Jobs, exec[c] = None, child[c].st = "none"
  PROVE  StateOf(c) = IF next[c[1]] <= c[2] THEN "absent"
                      ELSE IF queue[c] # None THEN "queued" ELSE "dropped"
BY DEF StateOf, Alive

-----------------------------------------------------------------------------
(* Steps of the queue.                                                     *)

\* A submission exists once .seq counts it: it is queued, or an unschedule
\* that takes no lock was faster.
LEMMA BumpNextServes ==
  ASSUME Typed, Typed', IdsOK, NEW r \in Procs, BumpNext(r),
         NEW c \in Jobs, c = Job(r)
  PROVE  Service!Submit(c)
<1>p. TypeOK /\ ProcOK(r) BY DEF Typed, LocalsOK
<1>1. /\ PoolOf(r) \in Pools /\ cur[r].idx = next[PoolOf(r)]
      /\ next' = [next EXCEPT ![PoolOf(r)] = next[PoolOf(r)] + 1]
      /\ UNCHANGED <<queue, exec, child>>
  BY BumpNextEffect
<1>2. /\ c[1] = PoolOf(r) /\ c[2] = next[c[1]] /\ next[c[1]] \in Nat
      /\ next'[c[1]] = next[c[1]] + 1
  BY <1>1, <1>p DEF TypeOK, Job
<1>3. exec[c] = None /\ child[c].st = "none"
  BY <1>2 DEF IdsOK, Untouched
<1>4. StateOf(c) = "absent" BY <1>2, <1>3, NotStarted
<1>5. StateOf(c)' = IF queue[c] # None THEN "queued" ELSE "dropped"
  BY <1>1, <1>2, <1>3 DEF StateOf, Alive
<1>6. OthersSame(c)
  <2> SUFFICES ASSUME NEW d \in Jobs, d # c PROVE StateOf(d)' = StateOf(d)
    BY DEF OthersSame
  <2>1. d[1] = c[1] => d[2] # c[2] BY DEF Jobs
  <2>2. d[1] \in Pools /\ d[2] \in Nat BY DEF Jobs, Ids
  <2>3. (next'[d[1]] <= d[2]) <=> (next[d[1]] <= d[2])
    BY <1>1, <1>2, <1>p, <2>1, <2>2 DEF TypeOK
  <2> QED BY <1>1, <2>3 DEF StateOf
<1>7. SameLeases /\ SameRuns
  BY <1>1, SameChild DEF BumpNext, ScheduleEnd
<1>8. \/ Service!Move(c, {"absent"}, "queued")
      \/ Service!Move(c, {"absent"}, "dropped")
  BY <1>4, <1>5, <1>6, OneMove
<1> QED BY <1>7, <1>8, NoLease, NoRun DEF Service!Submit

\* A queue file at next is no job yet.
LEMMA WriteQueueFileServes ==
  ASSUME Typed, Typed', IdsOK, NEW r \in Procs, WriteQueueFile(r)
  PROVE  \A c \in Jobs : StateOf(c)' = StateOf(c)
<1>1. /\ Job(r) \in Jobs /\ Job(r) = <<PoolOf(r), next[PoolOf(r)]>>
      /\ queue' = [queue EXCEPT ![Job(r)] = cur[r].data]
      /\ UNCHANGED <<next, exec, child>>
  BY WriteQueueFileEffect
<1> SUFFICES ASSUME NEW c \in Jobs PROVE StateOf(c)' = StateOf(c)
  OBVIOUS
<1>2. CASE c = Job(r)
  <2>1. next[c[1]] <= c[2] BY <1>1, <1>2 DEF Typed, TypeOK, Jobs, Ids
  <2> QED BY <1>1, <2>1 DEF StateOf
<1>3. CASE c # Job(r)
  BY <1>1, <1>3, SameState DEF Typed, TypeOK
<1> QED BY <1>2, <1>3

\* unschedule drops a queued job.
LEMMA UnscheduleQueuedServes ==
  ASSUME Typed, Typed', IdsOK, NEW c \in Jobs, UnscheduleQueued(c)
  PROVE  Service!Drop(c) \/ \A d \in Jobs : StateOf(d)' = StateOf(d)
<1>p. TypeOK BY DEF Typed
<1>1. /\ queue[c] # None /\ queue'[c] = None
      /\ \A d \in Jobs : d # c => queue'[d] = queue[d]
      /\ UNCHANGED <<next, exec, child, avail, held>>
  BY <1>p DEF UnscheduleQueued, TypeOK, procVars
<1>2. exec[c] = None /\ child[c].st = "none"
  BY <1>1 DEF IdsOK, QueuedIsFresh
<1>3. OthersSame(c) BY <1>1, SameState DEF OthersSame
<1>4. CASE next[c[1]] <= c[2]
  <2>1. StateOf(c)' = StateOf(c) BY <1>1, <1>4 DEF StateOf
  <2> QED BY <1>3, <2>1 DEF OthersSame
<1>5. CASE ~(next[c[1]] <= c[2])
  <2>1. StateOf(c) = "queued" BY <1>1, <1>2, <1>5, NotStarted
  <2>2. StateOf(c)' = "dropped" BY <1>1, <1>2, <1>5 DEF StateOf, Alive
  <2>3. Service!Move(c, {"queued", "taken"}, "dropped")
    BY <1>3, <2>1, <2>2, OneMove
  <2> QED BY <1>1, <2>3, SameChild, NoLease, NoRun DEF Service!Drop
<1> QED BY <1>4, <1>5

\* The renaming of a queue file takes the job.
LEMMA GetRenameServes ==
  ASSUME Typed, Typed', IdsOK, Owned', NEW r \in Procs, GetRename(r),
         NEW c \in Jobs, c = Job(r)
  PROVE  Service!Take(c)
<1>p. TypeOK /\ ProcOK(r) BY DEF Typed, LocalsOK
<1>1. /\ queue[c] # None /\ queue'[c] = None
      /\ \A d \in Jobs : d # c => queue'[d] = queue[d] /\ exec'[d] = exec[d]
      /\ UNCHANGED <<next, child, avail, held, inv, cur>>
  BY <1>p DEF GetRename, TypeOK
<1>2. exec[c] = None /\ child[c].st = "none"
  BY <1>1 DEF IdsOK, QueuedIsFresh
<1>3. ~(next[c[1]] <= c[2])
  <2>1. cur[r].idx < next[PoolOf(r)] BY DEF GetRename, IdsOK, Consumed
  <2>2. c[1] = PoolOf(r) /\ c[2] = cur[r].idx /\ next[c[1]] \in Nat
    BY <1>p DEF Job, Jobs, TypeOK
  <2> QED BY <2>1, <2>2 DEF Jobs, Ids
<1>4. exec'[c] # None
  <2>1. pc'[r] \in {"advance", "book"} /\ cur[r].idx # 0
    BY <1>p DEF GetRename, ProcOK, TypeOK
  <2>2. Owns(r)' BY <1>1, <2>1 DEF Owns, Holding
  <2>3. Job(r)' = c BY <1>1 DEF Job
  <2> QED BY <2>2, <2>3 DEF Owned
<1>5. OthersSame(c) BY <1>1, SameState DEF OthersSame
<1>6. StateOf(c) = "queued" BY <1>1, <1>2, <1>3, NotStarted
<1>7. StateOf(c)' = "taken"
  BY <1>1, <1>2, <1>3, <1>4 DEF StateOf, Alive
<1>8. Service!Move(c, {"queued"}, "taken") BY <1>5, <1>6, <1>7, OneMove
<1> QED BY <1>1, <1>8, SameChild, NoLease, NoRun DEF Service!Take

\* The .exec file of a consumed job may change, the job is as far as it was.
LEMMA WritesServe ==
  ASSUME Typed, Typed', IdsOK, Owned, Owned', NEW r \in Procs,
         WriteExec(r) \/ WritePid(r) \/ CommandOver(r)
  PROVE  \A c \in Jobs : StateOf(c)' = StateOf(c)
<1> SUFFICES ASSUME NEW c \in Jobs PROVE StateOf(c)' = StateOf(c)
  OBVIOUS
<1>p. TypeOK /\ ProcOK(r) BY DEF Typed, LocalsOK
<1>1. UNCHANGED <<next, queue, child>>
  BY DEF WriteExec, WritePid, CommandOver, Dump, RemoveExec
<1>2. CASE c # Job(r)
  <2>1. exec'[c] = exec[c]
    BY <1>2, <1>p DEF WriteExec, WritePid, CommandOver, Dump, RemoveExec,
      TypeOK
  <2> QED BY <1>1, <2>1, SameState
<1>3. CASE c = Job(r) /\ WriteExec(r)
  <2>1. Owns(r) BY <1>3 DEF WriteExec, Owns, Holding
  <2>2. pc'[r] = "popen" /\ cur' = cur /\ inv' = inv
    BY <1>3, <1>p DEF WriteExec, Dump, TypeOK
  <2>3. Owns(r)' /\ Job(r)' = c
    BY <1>3, <2>1, <2>2 DEF Owns, Holding, Job
  <2>4. exec[c] # None /\ exec'[c] # None BY <1>3, <2>1, <2>3 DEF Owned
  <2> QED BY <1>1, <2>4, SameState
<1>4. CASE c = Job(r) /\ (WritePid(r) \/ CommandOver(r))
  <2>1. child[c].st # "none" BY <1>4 DEF WritePid, CommandOver, Owned
  <2> QED BY <1>1, <2>1, SameState
<1> QED BY <1>2, <1>3, <1>4

\* unschedule removes the .exec file of a command that is gone.
LEMMA UnscheduleKilledServes ==
  ASSUME Typed, Typed', NEW c \in Jobs, UnscheduleKilled(c)
  PROVE  \A d \in Jobs : StateOf(d)' = StateOf(d)
<1>1. /\ UNCHANGED <<next, queue, child>> /\ child[c].st = "gone"
      /\ \A d \in Jobs : d # c => exec'[d] = exec[d]
  BY DEF UnscheduleKilled, Typed, TypeOK
<1> SUFFICES ASSUME NEW d \in Jobs PROVE StateOf(d)' = StateOf(d)
  OBVIOUS
<1>2. child[d].st # "none" \/ exec'[d] = exec[d] BY <1>1
<1> QED BY <1>1, <1>2, SameState

-----------------------------------------------------------------------------
(* Steps of the commands.                                                  *)

\* The service counts as its users do.
LEMMA ServiceCounts ==
  ASSUME NEW S PROVE Service!Cardinality(S) = Cardinality(S)
BY DEF Service!Cardinality, Cardinality

\* What the loop has booked fits the submission.
LEMMA BookedFits ==
  ASSUME Typed, NEW r \in Procs, ProcEquipped(r), pc[r] = "popen",
         NEW c \in Jobs, c[1] = PoolOf(r)
  PROVE  Service!Fits(c, cur[r].data, held[r])
<1>1. ASSUME NEW q \in Pools
      PROVE  Service!Cardinality({t \in held[r] : t[1] = q}) =
               Service!Asked(c, cur[r].data, q)
  <2>1. Cardinality(FromPool(held[r], q)) =
          Cardinality({k \in DOMAIN cur[r].data.extra :
                         cur[r].data.extra[k] = q})
            + IF q = c[1] THEN 1 ELSE 0
    BY LoopOver
  <2>2. Service!Cardinality({t \in held[r] : t[1] = q}) =
          Cardinality(FromPool(held[r], q))
    BY ServiceCounts, Zenon DEF FromPool
  <2>3. Service!Asked(c, cur[r].data, q) =
          Cardinality({k \in DOMAIN cur[r].data.extra :
                         cur[r].data.extra[k] = q})
            + IF q = c[1] THEN 1 ELSE 0
    BY ServiceCounts, Zenon DEF Service!Asked
  <2> QED BY <2>1, <2>2, <2>3, Zenon
<1> QED BY <1>1, Zenon DEF Service!Fits

\* A command starts on what its submission asks for.
LEMMA PopenServes ==
  ASSUME Typed, Typed', IdsOK, Equipped, Owned, NEW r \in Procs, Popen(r),
         NEW c \in Jobs, c = Job(r), NEW s \in Queueable, s = cur[r].data
  PROVE  Service!Start(r, c, s)
<1>p. TypeOK /\ ProcOK(r) BY DEF Typed, LocalsOK
<1>1. Owns(r) BY <1>p DEF Popen, ProcOK, Owns, Holding
<1>2. exec[c] # None /\ child[c].st = "none" BY <1>1 DEF Owned
<1>3. /\ child'[c] = [st |-> "running", by |-> r, sub |-> cur[r].data,
                      uses |-> held[r]]
      /\ \A d \in Jobs : d # c => child'[d] = child[d]
      /\ held' = [held EXCEPT ![r] = {}]
      /\ UNCHANGED <<next, queue, exec, avail>>
  BY <1>p DEF Popen, TypeOK
<1>4. StateOf(c) = "taken" BY <1>2, Started DEF Alive
<1>5. StateOf(c)' = "running"
  <2>1. ~(next[c[1]] <= c[2]) /\ queue[c] = None BY <1>2, Started
  <2> QED BY <1>3, <2>1 DEF StateOf, Alive
<1>6. OthersSame(c) BY <1>3, SameState DEF OthersSame
<1>7. Service!Move(c, {"taken"}, "running") BY <1>4, <1>5, <1>6, OneMove
<1>8. Service!Fits(c, cur[r].data, held[r])
  BY BookedFits DEF Equipped, Popen, Job
<1>9. [d \in Jobs |-> child[d].sub]' =
        [[d \in Jobs |-> child[d].sub] EXCEPT ![c] = cur[r].data]
  <2>1. /\ child'[c].sub = cur[r].data
        /\ \A d \in Jobs : d # c => child'[d].sub = child[d].sub
    BY <1>3
  <2> QED BY <2>1
<1>10. [d \in Jobs |-> GivenTo(d)]' =
         [[d \in Jobs |-> GivenTo(d)] EXCEPT ![c] = held[r]]
  <2>1. /\ GivenTo(c)' = held[r]
        /\ \A d \in Jobs : d # c => GivenTo(d)' = GivenTo(d)
    BY <1>3 DEF GivenTo, Alive
  <2> QED BY <2>1
<1> QED BY <1>3, <1>7, <1>8, <1>9, <1>10 DEF Service!Start

\* A job whose command could not be started is dropped.
LEMMA DropExecServes ==
  ASSUME Typed, Typed', IdsOK, Owned, NEW r \in Procs, DropExec(r),
         NEW c \in Jobs, c = Job(r)
  PROVE  Service!Drop(c)
<1>p. TypeOK /\ ProcOK(r) BY DEF Typed, LocalsOK
<1>1. Owns(r) BY <1>p DEF DropExec, ProcOK, Owns, Holding
<1>2. exec[c] # None /\ child[c].st = "none" BY <1>1 DEF Owned
<1>3. /\ exec'[c] = None /\ \A d \in Jobs : d # c => exec'[d] = exec[d]
      /\ UNCHANGED <<next, queue, child, avail, held>>
  BY <1>p DEF DropExec, RemoveExec, TypeOK
<1>4. StateOf(c) = "taken" BY <1>2, Started DEF Alive
<1>5. StateOf(c)' = "dropped"
  <2>1. ~(next[c[1]] <= c[2]) /\ queue[c] = None BY <1>2, Started
  <2> QED BY <1>2, <1>3, <2>1 DEF StateOf, Alive
<1>6. OthersSame(c) BY <1>3, SameState DEF OthersSame
<1>7. Service!Move(c, {"queued", "taken"}, "dropped")
  BY <1>4, <1>5, <1>6, OneMove
<1> QED BY <1>3, <1>7, SameChild, NoLease, NoRun DEF Service!Drop

\* A runner takes back what the command it has waited for was given.
LEMMA ReapServes ==
  ASSUME Typed, Typed', IdsOK, Equipped, NEW r \in Procs, Reap(r)
  PROVE  \E c \in Jobs : Service!End(r, c)
<1>p. TypeOK BY DEF Typed
<1>1. PICK c \in Commands(r) :
        /\ child[c].st = "zombie"
        /\ child' = [child EXCEPT ![c] = [child[c] EXCEPT !.st = "gone",
                                                          !.by = None]]
        /\ held' = [held EXCEPT ![r] = child[c].uses]
  BY DEF Reap
<1>2. c \in Jobs /\ child[c] \in Child BY <1>p DEF Commands, TypeOK
<1>3. /\ child'[c].st = "gone" /\ child'[c].sub = child[c].sub
      /\ \A d \in Jobs : d # c => child'[d] = child[d]
      /\ UNCHANGED <<next, queue, exec, avail>>
  BY <1>1, <1>2, <1>p DEF Reap, TypeOK, Child
<1>4. StateOf(c) = "running" BY <1>1, <1>2, Started DEF Alive
<1>5. StateOf(c)' = "ended"
  <2>1. ~(next[c[1]] <= c[2]) /\ queue[c] = None BY <1>1, <1>2, Started
  <2> QED BY <1>3, <2>1 DEF StateOf, Alive
<1>6. OthersSame(c) BY <1>3, SameState DEF OthersSame
<1>7. Service!Move(c, {"running"}, "ended") BY <1>2, <1>4, <1>5, <1>6, OneMove
<1>8. held[r] = {} BY DEF Reap, Equipped, ProcEquipped, EmptyHanded
<1>9. SameRuns BY <1>3 DEF SameRuns
<1>10. /\ GivenTo(c) = child[c].uses /\ GivenTo(c)' = {}
       /\ \A d \in Jobs : d # c => GivenTo(d)' = GivenTo(d)
  BY <1>1, <1>3 DEF GivenTo, Alive
<1>11. [d \in Jobs |-> GivenTo(d)]' =
         [[d \in Jobs |-> GivenTo(d)] EXCEPT ![c] = {}]
  BY <1>2, <1>10
<1>12. held' = [held EXCEPT ![r] = [d \in Jobs |-> GivenTo(d)][c]]
  BY <1>1, <1>2, <1>10
<1>13. Service!End(r, c)
  BY <1>3, <1>7, <1>8, <1>9, <1>11, <1>12, NoRun DEF Service!End
<1> QED BY <1>2, <1>13

\* Every step that ends commands without waiting for them.
LEMMA OrphanedStep ==
  ASSUME Typed, Typed', IdsOK, NEW C, C \in SUBSET Service!Running,
         \A c \in C : child'[c].st = "gone",
         \A c \in Jobs \ C :
           /\ (child'[c].st \in Alive) <=> (child[c].st \in Alive)
           /\ (child'[c].st = "gone") <=> (child[c].st = "gone")
           /\ child'[c].uses = child[c].uses,
         \A c \in Jobs : child'[c].sub = child[c].sub,
         UNCHANGED <<next, queue, exec, avail>>
  PROVE  Service!Orphaned(C)
<1>1. \A c \in C : /\ c \in Jobs /\ StateOf(c) = "running"
                   /\ StateOf(c)' = "ended" /\ GivenTo(c)' = {}
  <2> SUFFICES ASSUME NEW c \in C
               PROVE  /\ c \in Jobs /\ StateOf(c) = "running"
                      /\ StateOf(c)' = "ended" /\ GivenTo(c)' = {}
    OBVIOUS
  <2>1. c \in Jobs /\ StateOf(c) = "running" BY DEF Service!Running
  <2>2. ~(next[c[1]] <= c[2]) /\ queue[c] = None
    BY <2>1 DEF StateOf
  <2>3. child'[c].st = "gone" OBVIOUS
  <2> QED BY <2>1, <2>2, <2>3 DEF StateOf, GivenTo, Alive
<1>2. \A c \in Jobs \ C : StateOf(c)' = StateOf(c) /\ GivenTo(c)' = GivenTo(c)
  <2> SUFFICES ASSUME NEW c \in Jobs, c \notin C
               PROVE  StateOf(c)' = StateOf(c) /\ GivenTo(c)' = GivenTo(c)
    OBVIOUS
  <2>1. StateOf(c)' = StateOf(c) BY SameState
  <2>2. GivenTo(c)' = GivenTo(c) BY DEF GivenTo
  <2> QED BY <2>1, <2>2
<1>3. [c \in Jobs |-> StateOf(c)]' =
        [c \in Jobs |-> IF c \in C THEN "ended"
                        ELSE [d \in Jobs |-> StateOf(d)][c]]
  BY <1>1, <1>2
<1>4. [c \in Jobs |-> GivenTo(c)]' =
        [c \in Jobs |-> IF c \in C THEN {}
                        ELSE [d \in Jobs |-> GivenTo(d)][c]]
  BY <1>1, <1>2
<1>5. SameRuns BY DEF SameRuns
<1> QED BY <1>3, <1>4, <1>5, NoRun DEF Service!Orphaned

\* A command without a parent ends: what it was given is lost.
LEMMA ChildExitServes ==
  ASSUME Typed, Typed', IdsOK, NEW c \in Jobs, ChildExit(c)
  PROVE  \/ Service!Lose(c)
         \/ /\ SameLeases /\ SameRuns
            /\ \A d \in Jobs : StateOf(d)' = StateOf(d)
<1>1. /\ child[c].st = "running"
      /\ child'[c].st = IF child[c].by = None THEN "gone" ELSE "zombie"
      /\ child'[c].uses = child[c].uses /\ child'[c].sub = child[c].sub
      /\ \A d \in Jobs : d # c => child'[d] = child[d]
      /\ UNCHANGED <<next, queue, exec, avail, held>>
  BY DEF ChildExit, procVars, Typed, TypeOK, Child
<1>2. CASE child[c].by = None
  <2>1. StateOf(c) = "running" BY <1>1, Started DEF Alive
  <2>2. c \in Service!Running BY <2>1 DEF Service!Running
  <2>3. Service!Orphaned({c})
    <3> DEFINE C == {c}
    <3>1. /\ C \in SUBSET Service!Running
          /\ \A d \in C : child'[d].st = "gone"
          /\ \A d \in Jobs \ C : child'[d] = child[d]
      BY <1>1, <1>2, <2>2
    <3>2. \A d \in Jobs : child'[d].sub = child[d].sub BY <1>1
    <3> HIDE DEF C
    <3>3. Service!Orphaned(C) BY <1>1, <3>1, <3>2, OrphanedStep
    <3> QED BY <3>3 DEF C
  <2> QED BY <1>1, <2>2, <2>3 DEF Service!Lose
<1>3. CASE child[c].by # None
  <2>1. SameLeases /\ SameRuns
    BY <1>1, <1>3 DEF SameLeases, SameRuns, GivenTo, Alive
  <2>2. ASSUME NEW d \in Jobs PROVE StateOf(d)' = StateOf(d)
    BY <1>1, <1>3, SameState DEF Alive
  <2> QED BY <2>1, <2>2
<1> QED BY <1>2, <1>3

\* The end of a process: it vanishes with what it carries and with the
\* commands that have ended unattended.
LEMMA ExitServes ==
  ASSUME Typed, Typed', IdsOK, NEW r \in Procs, Exit(r)
  PROVE  \E C \in SUBSET Service!Running : Service!Vanish(r, C)
<1> DEFINE C == {c \in Jobs : child[c].by = r /\ child[c].st = "zombie"}
<1>1. ASSUME NEW c \in Jobs
      PROVE  /\ child[c] \in Child
             /\ child'[c] = IF child[c].by = r THEN Orphan(child[c])
                                              ELSE child[c]
  BY DEF Exit, Typed, TypeOK
<1>2. C \in SUBSET Service!Running
  <2> SUFFICES ASSUME NEW c \in Jobs, child[c].st = "zombie"
               PROVE  StateOf(c) = "running"
    BY DEF Service!Running
  <2> QED BY Started DEF Alive
<1>3. \A c \in C : child'[c].st = "gone"
  BY <1>1 DEF Orphan, Child
<1>4. \A c \in Jobs \ C :
        /\ (child'[c].st \in Alive) <=> (child[c].st \in Alive)
        /\ (child'[c].st = "gone") <=> (child[c].st = "gone")
        /\ child'[c].uses = child[c].uses
  BY <1>1 DEF Orphan, Child
<1>5. \A c \in Jobs : child'[c].sub = child[c].sub
  BY <1>1 DEF Orphan, Child
<1>6. UNCHANGED <<next, queue, exec, avail>> BY DEF Exit
<1>7. held' = [held EXCEPT ![r] = {}] BY DEF Exit
<1> HIDE DEF C
<1>8. Service!Orphaned(C)
  BY <1>2, <1>3, <1>4, <1>5, <1>6, OrphanedStep
<1> QED BY <1>2, <1>7, <1>8 DEF Service!Vanish

-----------------------------------------------------------------------------
(* Steps that move a resource, and the others.                             *)

Free == {t \in Tokens : t[2] \in avail[t[1]]}

\* Jobs, commands and what these were given are left alone.
SameJobs == UNCHANGED <<next, queue, exec, child>>

\* Such a step shows no job moving.
LEMMA SameJobsServe ==
  SameJobs => UNCHANGED <<[c \in Jobs |-> StateOf(c)],
                          [c \in Jobs |-> child[c].sub],
                          [c \in Jobs |-> GivenTo(c)]>>
BY DEF SameJobs, StateOf, GivenTo

\* A resource is out of the pool once its symlink is removed.
LEMMA FreeLess ==
  ASSUME TypeOK, NEW q \in Pools, NEW x \in Resources,
         avail' = [avail EXCEPT ![q] = avail[q] \ {x}]
  PROVE  Free' = Free \ {<<q, x>>}
<1>1. \A p \in Pools : avail'[p] = IF p = q THEN avail[q] \ {x} ELSE avail[p]
  BY DEF TypeOK
<1>2. \A t \in Tokens : t[2] \in avail'[t[1]] <=>
                          t[2] \in avail[t[1]] /\ t # <<q, x>>
  BY <1>1 DEF Tokens
<1> QED BY <1>2 DEF Free

\* The symlink that a booking removes is a lease.
LEMMA BookTakeServes ==
  ASSUME Typed, NEW r \in Procs, BookTake(r)
  PROVE  \E t \in Tokens : Service!Lease(r, t)
<1>p. TypeOK /\ ProcOK(r) BY DEF Typed, LocalsOK
<1>1. PICK x \in book[r].listing \cap avail[Target(r)] :
        /\ avail' = [avail EXCEPT ![Target(r)] = avail[Target(r)] \ {x}]
        /\ held' = [held EXCEPT ![r] = held[r] \cup {<<Target(r), x>>}]
  BY DEF BookTake
<1>2. Target(r) \in Pools
  <2>1. /\ pc[r] = "try" /\ cur[r] \in Current /\ book[r] \in Booking
        /\ PoolOf(r) \in Pools /\ cur[r].data \in Queueable
        /\ book[r].k <= Extras(r)
    BY <1>p DEF BookTake, ProcOK, TypeOK, Extras
  <2> QED BY <2>1, TargetType
<1>3. x \in Resources BY <1>1, <1>2, <1>p DEF TypeOK
<1>4. PICK t \in Tokens : t = <<Target(r), x>>
  BY <1>2, <1>3 DEF Tokens
<1>5. t \in Free BY <1>1, <1>4 DEF Free
<1>6. Free' = Free \ {t} BY <1>1, <1>2, <1>3, <1>4, <1>p, FreeLess
<1>7. SameJobs BY DEF BookTake, SameJobs
<1>8. held' = [held EXCEPT ![r] = held[r] \cup {t}] BY <1>1, <1>4
<1>9. Service!Lease(r, t)
  BY <1>5, <1>6, <1>7, <1>8, SameJobsServe DEF Service!Lease, Free
<1> QED BY <1>9

\* The symlink comes back, unless the resource has left the pool.
LEMMA FreeServes ==
  ASSUME Typed, Freeing, NEW r \in Procs, FreeLink(r) \/ FreeRemoved(r)
  PROVE  \E t \in Tokens : Service!GiveBack(r, t)
<1>p. TypeOK /\ ProcOK(r) BY DEF Typed, LocalsOK
<1>1. SameJobs BY DEF FreeLink, FreeRemoved, SameJobs
<1>2. CASE FreeLink(r)
  <2>0. book[r].tok \in Tokens /\ book[r].tok \in held[r]
    BY <1>2, <1>p DEF FreeLink, Freeing, TypeOK, ProcOK
  <2> PICK t \in Tokens : t = book[r].tok BY <2>0
  <2>1. t \in held[r] /\ t[1] \in Pools /\ t[2] \in Resources
        /\ t = <<t[1], t[2]>>
    BY <2>0 DEF Tokens
  <2>2. /\ avail' = [avail EXCEPT ![t[1]] = avail[t[1]] \cup {t[2]}]
        /\ held' = [held EXCEPT ![r] = held[r] \ {t}]
    BY <1>2 DEF FreeLink, Freed
  <2>3. \A u \in Tokens : u[2] \in avail'[u[1]] <=>
                            u[2] \in avail[u[1]] \/ u = t
    <3>1. \A p \in Pools : avail'[p] = IF p = t[1] THEN avail[p] \cup {t[2]}
                                                   ELSE avail[p]
      BY <2>1, <2>2, <1>p DEF TypeOK
    <3>2. ASSUME NEW u \in Tokens
          PROVE  u[2] \in avail'[u[1]] <=> u[2] \in avail[u[1]] \/ u = t
      <4>1. u[1] \in Pools /\ u = <<u[1], u[2]>> BY DEF Tokens
      <4>2. u = t <=> u[1] = t[1] /\ u[2] = t[2] BY <2>1, <4>1
      <4>3. avail'[u[1]] = IF u[1] = t[1] THEN avail[u[1]] \cup {t[2]}
                                          ELSE avail[u[1]]
        BY <3>1, <4>1
      <4>4. u[2] \in avail'[u[1]] <=>
              u[2] \in avail[u[1]] \/ (u[1] = t[1] /\ u[2] = t[2])
        BY <4>3
      <4> QED BY <4>2, <4>4, Zenon
    <3> QED BY <3>2
  <2>4. Free' = Free \cup {t} BY <2>1, <2>3 DEF Free
  <2>5. Service!GiveBack(r, t)
    BY <1>1, <2>1, <2>2, <2>4, SameJobsServe DEF Service!GiveBack, Free
  <2> QED BY <2>5
<1>3. CASE FreeRemoved(r)
  <2>1. PICK t \in held[r] : held' = [held EXCEPT ![r] = held[r] \ {t}]
    BY <1>3 DEF FreeRemoved
  <2>2. t \in Tokens BY <1>p DEF TypeOK
  <2>3. Free' = Free BY <1>3 DEF FreeRemoved, Free
  <2>4. Service!GiveBack(r, t)
    BY <1>1, <2>1, <2>3, SameJobsServe DEF Service!GiveBack, Free
  <2> QED BY <2>2, <2>4
<1> QED BY <1>2, <1>3

\* remove-resource retires the resource, if nobody has booked it.
LEMMA RemoveLinkServes ==
  ASSUME Typed, NEW x \in Removals, RemoveLink(x)
  PROVE  (\E t \in Tokens : Service!Retire(t)) \/ UNCHANGED Service!serviceVars
<1>p. TypeOK BY DEF Typed
<1> DEFINE t == <<x.pool, x.res>>
<1>1. x.pool \in Pools /\ x.res \in Resources /\ t \in Tokens
  BY ConstantsAssumption DEF Tokens
<1>2. SameJobs /\ held' = held BY DEF RemoveLink, SameJobs, procVars
<1>3. Free' = Free \ {t} BY <1>1, <1>p, FreeLess DEF RemoveLink
<1>4. CASE t \in Free
  <2>1. Service!Retire(t)
    BY <1>2, <1>3, <1>4, SameJobsServe DEF Service!Retire, Free
  <2> QED BY <1>1, <2>1
<1>5. CASE t \notin Free
  <2>1. Free' = Free BY <1>3, <1>5
  <2> QED BY <1>2, <2>1, SameJobsServe
        DEF Free, Service!serviceVars, Service!leaseVars
<1> QED BY <1>4, <1>5

\* The service does not see the rest.
LEMMA Unseen ==
  ASSUME SameJobs, avail' = avail, held' = held
  PROVE  UNCHANGED Service!serviceVars
<1>1. Free' = Free BY DEF Free
<1> QED BY <1>1, SameJobsServe DEF Free, Service!serviceVars, Service!leaseVars

\* Nor does it see a change of files that leaves every job where it is.
LEMMA UnseenStates ==
  ASSUME \A c \in Jobs : StateOf(c)' = StateOf(c), SameLeases, SameRuns
  PROVE  UNCHANGED Service!serviceVars
BY NoMove, NoRun, NoLease DEF Service!serviceVars

-----------------------------------------------------------------------------
(* Every step is a step of the service, or none.                           *)

ServiceStep == Service!ServiceNext \/ UNCHANGED Service!serviceVars

\* A process that ends vanishes from the service.
LEMMA ExitIsStep ==
  ASSUME Typed, Typed', IdsOK, NEW r \in Procs, Exit(r)
  PROVE  ServiceStep
BY ExitServes DEF ServiceStep, Service!ServiceNext

\* The steps of schedule submit a job, at most.
LEMMA ScheduleServes ==
  ASSUME Typed, Typed', IdsOK, NEW r \in Procs, ScheduleStep(r)
  PROVE  ServiceStep
<1>1. CASE ScheduleDuplicate(r) \/ ScheduleAccepted(r) \/ BlockAgain(r)
  <2>1. SameJobs /\ avail' = avail /\ held' = held
    BY <1>1 DEF ScheduleDuplicate, ScheduleEnd, ScheduleAccepted, BlockAgain,
      SameJobs
  <2> QED BY <2>1, Unseen DEF ServiceStep
<1>2. CASE ScheduleUnknownPool(r) \/ BlockReturn(r)
  BY <1>2, ExitIsStep DEF ScheduleUnknownPool, BlockReturn
<1>3. CASE WriteQueueFile(r)
  <2>1. child' = child /\ avail' = avail /\ held' = held
    BY <1>3 DEF WriteQueueFile
  <2> QED BY <1>3, <2>1, SameChild, WriteQueueFileServes, UnseenStates
        DEF ServiceStep
<1>4. CASE BumpNext(r)
  <2>1. PICK c \in Jobs : c = Job(r)
    BY <1>4, JobType DEF BumpNext, Typed, LocalsOK, ProcOK
  <2>2. Service!Submit(c) BY <1>4, <2>1, BumpNextServes
  <2> QED BY <2>2 DEF ServiceStep, Service!ServiceNext
<1> QED BY <1>1, <1>2, <1>3, <1>4 DEF ScheduleStep

\* The steps up to the consumption of a job lease a resource or take the job.
LEMMA BookServes ==
  ASSUME Typed, Typed', IdsOK, Owned', NEW r \in Procs, BookStep(r)
  PROVE  ServiceStep
<1>1. CASE \/ Peek(r) \/ ReadData(r) \/ CheckExtra(r) \/ SkipJob(r)
           \/ CheckDone(r) \/ BookList(r) \/ BookMissed(r) \/ BookFailed(r)
           \/ GetLock(r) \/ GetNothing(r)
  <2>1. SameJobs /\ avail' = avail /\ held' = held
    BY <1>1 DEF Peek, ReadData, CheckExtra, SkipJob, CheckDone, BookList,
      BookMissed, BookFailed, GetLock, GetNothing, SameJobs
  <2> QED BY <2>1, Unseen DEF ServiceStep
<1>2. CASE ReadMissing(r) \/ GetMissing(r)
  BY <1>2, ExitIsStep DEF ReadMissing, GetMissing
<1>3. CASE BookTake(r)
  BY <1>3, BookTakeServes
     DEF ServiceStep, Service!ServiceNext, Service!Tokens, Tokens
<1>4. CASE GetRename(r)
  <2>1. PICK c \in Jobs : c = Job(r)
    BY <1>4, JobType DEF GetRename, Typed, LocalsOK, ProcOK
  <2>2. Service!Take(c) BY <1>4, <2>1, GetRenameServes
  <2> QED BY <2>2 DEF ServiceStep, Service!ServiceNext
<1>5. CASE GetAdvance(r)
  <2>1. SameJobs BY <1>5, GetAdvanceEffect DEF SameJobs
  <2>2. avail' = avail /\ held' = held BY <1>5 DEF GetAdvance
  <2> QED BY <2>1, <2>2, Unseen DEF ServiceStep
<1> QED BY <1>1, <1>2, <1>3, <1>4, <1>5 DEF BookStep

\* The steps that launch a job start its command, at most.
LEMMA LaunchServes ==
  ASSUME Typed, Typed', IdsOK, Equipped, Owned, Owned', NEW r \in Procs,
         LaunchStep(r)
  PROVE  ServiceStep
<1>1. CASE BookDone(r) \/ RemoveBooked(r) \/ PopenFailed(r)
  <2>1. SameJobs /\ avail' = avail /\ held' = held
    BY <1>1 DEF BookDone, RemoveBooked, PopenFailed, SameJobs
  <2> QED BY <2>1, Unseen DEF ServiceStep
<1>2. CASE WriteNowhere(r) BY <1>2, ExitIsStep DEF WriteNowhere
<1>3. CASE WriteExec(r) \/ WritePid(r)
  <2>1. child' = child /\ avail' = avail /\ held' = held
    BY <1>3 DEF WriteExec, WritePid, Dump
  <2>2. SameLeases /\ SameRuns BY <2>1, SameChild
  <2>3. \A c \in Jobs : StateOf(c)' = StateOf(c) BY <1>3, WritesServe
  <2> QED BY <2>2, <2>3, UnseenStates DEF ServiceStep
<1>4. CASE Popen(r)
  <2>1. PICK c \in Jobs : c = Job(r)
    BY <1>4, JobType DEF Popen, Typed, LocalsOK, ProcOK
  <2>2. PICK s \in Queueable : s = cur[r].data
    BY <1>4 DEF Popen, Typed, LocalsOK, ProcOK
  <2>3. Service!Start(r, c, s) BY <1>4, <2>1, <2>2, PopenServes
  <2> QED BY <2>3 DEF ServiceStep, Service!ServiceNext
<1> QED BY <1>1, <1>2, <1>3, <1>4 DEF LaunchStep

\* The steps that wait for commands end them and give resources back.
LEMMA WaitServes ==
  ASSUME Typed, Typed', IdsOK, Freeing, Equipped, Owned, Owned',
         NEW r \in Procs, WaitStep(r)
  PROVE  ServiceStep
<1>1. CASE FreeCheck(r) \/ FreeDone(r) \/ BlockedRunDone(r)
  <2>1. SameJobs /\ avail' = avail /\ held' = held
    BY <1>1 DEF FreeCheck, FreeDone, BlockedRunDone, SameJobs
  <2> QED BY <2>1, Unseen DEF ServiceStep
<1>2. CASE FreeExists(r) \/ RunDone(r)
  BY <1>2, ExitIsStep DEF FreeExists, RunDone
<1>3. CASE FreeLink(r) \/ FreeRemoved(r)
  BY <1>3, FreeServes
     DEF ServiceStep, Service!ServiceNext, Service!Tokens, Tokens
<1>4. CASE DropExec(r)
  <2>1. PICK c \in Jobs : c = Job(r)
    BY <1>4, JobType DEF DropExec, Typed, LocalsOK, ProcOK
  <2>2. Service!Drop(c) BY <1>4, <2>1, DropExecServes
  <2> QED BY <2>2 DEF ServiceStep, Service!ServiceNext
<1>5. CASE CommandOver(r)
  <2>1. child' = child /\ avail' = avail /\ held' = held
    BY <1>5 DEF CommandOver, RemoveExec
  <2>2. SameLeases /\ SameRuns BY <2>1, SameChild
  <2>3. \A c \in Jobs : StateOf(c)' = StateOf(c) BY <1>5, WritesServe
  <2> QED BY <2>2, <2>3, UnseenStates DEF ServiceStep
<1>6. CASE Reap(r)
  BY <1>6, ReapServes DEF ServiceStep, Service!ServiceNext
<1>7. FreeSymlink(r) => FreeExists(r) \/ FreeLink(r) BY DEF FreeSymlink
<1> QED BY <1>1, <1>2, <1>3, <1>4, <1>5, <1>6, <1>7 DEF WaitStep

\* A step of a user, of a command or of the kernel.
LEMMA OtherServes ==
  ASSUME Typed, Typed', IdsOK,
         \/ \E r \in Procs, p \in RunPools : StartRun(r, p)
         \/ \E r \in Procs, q \in Requests : ScheduleLock(r, q)
         \/ \E c \in Jobs : ChildExit(c)
         \/ \E c \in Cancels : Unschedule(c)
         \/ \E x \in Removals : RemoveLink(x) \/ RemoveResource(x)
         \/ \E r \in Mortal : Die(r)
  PROVE  ServiceStep
<1>1. ASSUME NEW r \in Procs,
             \/ \E p \in RunPools : StartRun(r, p)
             \/ \E q \in Requests : ScheduleLock(r, q)
      PROVE  ServiceStep
  <2>1. SameJobs /\ avail' = avail /\ held' = held
    BY <1>1 DEF StartRun, ScheduleLock, SameJobs
  <2> QED BY <2>1, Unseen DEF ServiceStep
<1>2. ASSUME NEW c \in Jobs, ChildExit(c) PROVE ServiceStep
  <2>1. \/ Service!Lose(c)
        \/ SameLeases /\ SameRuns /\ \A d \in Jobs : StateOf(d)' = StateOf(d)
    BY <1>2, ChildExitServes
  <2> QED BY <2>1, UnseenStates DEF ServiceStep, Service!ServiceNext
<1>3. ASSUME NEW c \in Jobs, Unschedule(c) PROVE ServiceStep
  <2>1. child' = child /\ avail' = avail /\ held' = held
    BY <1>3 DEF Unschedule, UnscheduleQueued, UnscheduleKill,
      UnscheduleKilled, UnscheduleTimeout, procVars
  <2>2. SameLeases /\ SameRuns BY <2>1, SameChild
  <2>3. CASE UnscheduleQueued(c)
    BY <2>2, <2>3, UnscheduleQueuedServes, UnseenStates
       DEF ServiceStep, Service!ServiceNext
  <2>4. CASE UnscheduleKilled(c)
    BY <2>2, <2>4, UnscheduleKilledServes, UnseenStates DEF ServiceStep
  <2>5. CASE UnscheduleKill(c) \/ UnscheduleTimeout(c)
    <3>1. SameJobs
      BY <2>5 DEF UnscheduleKill, UnscheduleTimeout, SameJobs
    <3> QED BY <2>1, <3>1, Unseen DEF ServiceStep
  <2> QED BY <1>3, <2>3, <2>4, <2>5 DEF Unschedule
<1>4. ASSUME NEW x \in Removals, RemoveLink(x) \/ RemoveResource(x)
      PROVE  ServiceStep
  <2>1. CASE RemoveLink(x)
    BY <2>1, RemoveLinkServes
       DEF ServiceStep, Service!ServiceNext, Service!Tokens, Tokens
  <2>2. CASE RemoveResource(x)
    <3>1. SameJobs /\ avail' = avail /\ held' = held
      BY <2>2 DEF RemoveResource, SameJobs, procVars
    <3> QED BY <3>1, Unseen DEF ServiceStep
  <2> QED BY <1>4, <2>1, <2>2
<1>5. ASSUME NEW r \in Procs, Die(r) PROVE ServiceStep
  BY <1>5, ExitIsStep DEF Die
<1>6. Cancels \subseteq Jobs /\ Mortal \subseteq Procs
  BY ConstantsAssumption
<1> QED BY <1>1, <1>2, <1>3, <1>4, <1>5, <1>6

\* The refinement, step by step.
LEMMA NextServes ==
  Typed /\ Typed' /\ Inductive /\ Inductive' /\ [Next]_vars
    => [Service!ServiceNext]_(Service!serviceVars)
<1> SUFFICES ASSUME Typed, Typed', Inductive, Inductive', [Next]_vars
             PROVE  ServiceStep
  BY DEF ServiceStep
<1>p. IdsOK /\ Freeing /\ Equipped /\ Owned /\ Owned' BY DEF Inductive
<1>1. ASSUME NEW r \in Procs, ProcStep(r) PROVE ServiceStep
  BY <1>1, <1>p, ScheduleServes, BookServes, LaunchServes, WaitServes
     DEF ProcStep
<1>2. CASE UNCHANGED vars
  <2>1. SameJobs /\ avail' = avail /\ held' = held
    BY <1>2 DEF vars, SameJobs, procVars
  <2> QED BY <2>1, Unseen DEF ServiceStep
<1> QED BY <1>1, <1>2, <1>p, OtherServes DEF Next

\* At the start nothing is queued and every resource is free.
LEMMA InitServes == Init => Service!ServiceInit
<1> SUFFICES ASSUME Init PROVE Service!ServiceInit
  OBVIOUS
<1>1. ASSUME NEW c \in Jobs
      PROVE  StateOf(c) = "absent" /\ child[c].sub = None /\ GivenTo(c) = {}
  <2>1. next[c[1]] = 1 /\ 1 <= c[2] BY DEF Init, Jobs, Ids
  <2>2. child[c] = NoChild BY DEF Init
  <2> QED BY <2>1, <2>2 DEF StateOf, GivenTo, NoChild, Alive
<1>2. {t \in Tokens : t[2] \in avail[t[1]]} =
        {t \in Service!Tokens : t[2] \in Stock[t[1]]}
  BY DEF Init, Tokens, Service!Tokens
<1>3. held = [r \in Procs |-> {}] BY DEF Init
<1> QED BY <1>1, <1>2, <1>3 DEF Service!ServiceInit

\* dci-queue implements the service that PoolService describes: whatever the
\* interleaving, the kills and the users do, each resource is leased to one
\* holder at a time, and each submission is started once at most, on exactly
\* the resources it asks for, which are taken back once its command is over.
THEOREM ServiceImplemented == Spec => ImplementsService
<1>1. Spec => [](Typed /\ Inductive)
  BY InitTyped, NextTyped, InductiveCorrect, PTL DEF Spec
<1> QED BY <1>1, InitServes, NextServes, PTL
        DEF Spec, ImplementsService, Service!ServiceSpec
=============================================================================
