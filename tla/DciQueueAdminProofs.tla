------------------------ MODULE DciQueueAdminProofs ------------------------
(***************************************************************************)
(* Proofs about DciQueueAdmin: what add-resource, clean and the reboots of *)
(* the host leave true of a queue.                                         *)
(*                                                                         *)
(* Exclusive holds only until a mishap: add-resource and clean make a      *)
(* resource available that is still booked.  What is proved here therefore *)
(* rests on the steps of DciQueueProofs and DciQueueLeaseProofs that do    *)
(* without it.                                                             *)
(***************************************************************************)
EXTENDS DciQueueLeaseProofs, DciQueueAdmin

USE ConstantsAssumption, SubsAssumption, RequestsAssumption, AdminAssumption
USE DEF Step, PoolOf, Scheduling, Launching, treeVars, dirVars, seqVars,
        localVars, userVars, addVars, cleanVars

-----------------------------------------------------------------------------
(* What maintenance does to the tree.                                      *)

\* Resources come and go, and .exec files of commands that have ended go.
Sweep ==
  /\ UNCHANGED <<seqVars, queue, lock, child, procVars, userVars>>
  /\ \A c \in Jobs :
       \/ exec'[c] = exec[c]
       \/ exec'[c] = None /\ child[c].st = "gone"

\* add-resource writes no .exec file.
LEMMA AddSweeps ==
  ASSUME AdminTypeOK, NEW t \in Additions, AddResource(t)
  PROVE  AdminTypeOK' /\ (UNCHANGED vars \/ Sweep)
<1> DEFINE points == {"no", "scan", "look", "symlink", "reason"}
<1>p. /\ TypeOK /\ t[1] \in Pools /\ t[2] \in Resources
      /\ adding \in [Additions -> points]
      /\ todo \in [Additions -> SUBSET Ids]
  BY DEF AdminTypeOK, Tokens
<1>1. \E x \in points : adding' = [adding EXCEPT ![t] = x]
  BY DEF AddResource, AddCreate, AddList, AddLook, AddCheckLink,
    AddLink, AddReason, AddStep
<1>2. adding' \in [Additions -> points]
  BY <1>1, <1>p
<1>3. /\ UNCHANGED <<cleanVars, reboots>>
      /\ mishap' \in {"none", "shared", "unrecorded"}
  BY DEF AddResource, AddCreate, AddList, AddLook, AddCheckLink,
    AddLink, AddReason, Shared, AdminTypeOK
<1>4. todo' \in [Additions -> SUBSET Ids]
  <2>1. ASSUME NEW S \in SUBSET Ids, todo' = [todo EXCEPT ![t] = S]
        PROVE  todo' \in [Additions -> SUBSET Ids]
    BY <2>1, <1>p
  <2>2. CASE AddList(t) BY <2>1, <2>2 DEF AddList, ExecFiles
  <2>3. CASE AddLook(t)
    <3>1. \A i : todo[t] \ {i} \in SUBSET Ids BY <1>p
    <3> QED BY <2>1, <2>3, <3>1 DEF AddLook
  <2>4. CASE AddCreate(t) \/ AddCheckLink(t) \/ AddLink(t)
             \/ AddReason(t)
    BY <2>4, <1>p DEF AddCreate, AddCheckLink, AddLink, AddReason
  <2> QED BY <2>2, <2>3, <2>4 DEF AddResource
<1>5. CASE AddList(t) \/ AddLook(t) \/ AddCheckLink(t)
  <2>1. UNCHANGED vars
    BY <1>5 DEF AddList, AddLook, AddCheckLink
  <2>2. TypeOK' BY <2>1, <1>p DEF TypeOK, vars, procVars
  <2> QED BY <1>2, <1>3, <1>4, <2>1, <2>2 DEF AdminTypeOK
<1>6. CASE AddCreate(t) \/ AddLink(t) \/ AddReason(t)
  <2>1. UNCHANGED <<seqVars, queue, exec, lock, child, procVars, userVars>>
    BY <1>6 DEF AddCreate, AddLink, AddReason
  <2>2. /\ pool' \in [Pools -> SUBSET Resources]
        /\ avail' \in [Pools -> SUBSET Resources]
        /\ reason' \in [Pools -> SUBSET Resources]
    <3>1. CASE AddCreate(t) BY <3>1, <1>p DEF AddCreate, TypeOK
    <3>2. CASE AddLink(t) BY <3>2, <1>p DEF AddLink, TypeOK
    <3>3. CASE AddReason(t) BY <3>3, <1>p DEF AddReason, TypeOK
    <3> QED BY <1>6, <3>1, <3>2, <3>3
  <2>3. TypeOK' BY <2>1, <2>2, <1>p DEF TypeOK, procVars
  <2> QED BY <1>2, <1>3, <1>4, <2>1, <2>3 DEF AdminTypeOK, Sweep
<1> QED BY <1>5, <1>6 DEF AddResource

\* clean removes the .exec file of a command that has ended.
LEMMA CleanSweeps ==
  ASSUME AdminTypeOK, NEW p \in Pools, CleanList(p) \/ CleanStep(p)
  PROVE  AdminTypeOK' /\ (UNCHANGED vars \/ Sweep)
<1>p. /\ TypeOK
      /\ sweep \in [Pools -> {"no", "due", "on", "failed"}]
      /\ cleaning \in [Pools -> SUBSET Ids]
      /\ freeing \in [Pools -> Resources \cup {None}]
  BY DEF AdminTypeOK
<1>1. CASE CleanList(p) \/ CleanMissing(p) \/ CleanKeep(p) \/ CleanExists(p)
           \/ CleanDone(p)
  <2>1. UNCHANGED <<vars, addVars, reboots, mishap>>
    BY <1>1 DEF CleanList, CleanMissing, CleanKeep, CleanExists, CleanDone
  <2>2. cleaning' \in [Pools -> SUBSET Ids]
    <3>1. ASSUME NEW S \in SUBSET Ids, cleaning' = [cleaning EXCEPT ![p] = S]
          PROVE  cleaning' \in [Pools -> SUBSET Ids]
      BY <3>1, <1>p
    <3>2. \/ UNCHANGED cleaning
          \/ \E S \in SUBSET Ids : cleaning' = [cleaning EXCEPT ![p] = S]
      <4>1. CASE CleanList(p) BY <4>1 DEF CleanList, ExecFiles
      <4>2. CASE CleanMissing(p) \/ CleanExists(p)
        BY <4>2 DEF CleanMissing, CleanExists
      <4>3. CASE CleanKeep(p)
        <5>1. \A i : cleaning[p] \ {i} \in SUBSET Ids BY <1>p
        <5> QED BY <4>3, <5>1 DEF CleanKeep
      <4>4. CASE CleanDone(p) BY <4>4 DEF CleanDone
      <4> QED BY <1>1, <4>1, <4>2, <4>3, <4>4
    <3> QED BY <1>p, <3>1, <3>2
  <2>3. freeing' \in [Pools -> Resources \cup {None}]
    BY <1>1, <1>p
    DEF CleanList, CleanMissing, CleanKeep, CleanExists, CleanDone
  <2>4. sweep' \in [Pools -> {"no", "due", "on", "failed"}]
    BY <1>1, <1>p
    DEF CleanList, CleanMissing, CleanKeep, CleanExists, CleanDone
  <2> QED BY <2>1, <2>2, <2>3, <2>4, <1>p
      DEF AdminTypeOK, TypeOK, vars, procVars
<1>2. CASE CleanDelete(p)
  <2>1. PICK i \in cleaning[p] :
          /\ Stale(<<p, i>>)
          /\ exec' = [exec EXCEPT ![<<p, i>>] = None]
          /\ freeing' = [freeing EXCEPT ![p] = exec[<<p, i>>].res]
          /\ cleaning' = [cleaning EXCEPT ![p] = @ \ {i}]
          /\ Snatching(<<p, i>>)
    BY <1>2 DEF CleanDelete
  <2>2. <<p, i>> \in Jobs BY <2>1, <1>p DEF Jobs
  <2>3. exec[<<p, i>>].res \in Resources
    BY <2>1, <2>2, <1>p DEF Stale, TypeOK, ExecFile
  <2>4. /\ freeing' \in [Pools -> Resources \cup {None}]
        /\ cleaning' \in [Pools -> SUBSET Ids]
        /\ exec' \in [Jobs -> ExecFile \cup {None}]
    BY <2>1, <2>2, <2>3, <1>p DEF TypeOK
  <2>5. UNCHANGED <<dirVars, seqVars, queue, lock, child, procVars, userVars,
                    addVars, sweep, reboots>>
    BY <1>2 DEF CleanDelete
  <2>6. TypeOK' BY <2>4, <2>5, <1>p DEF TypeOK, procVars
  <2>7. Sweep
    BY <2>1, <2>2, <2>5, <1>p DEF Sweep, Stale, TypeOK
  <2>8. mishap' \in {"none", "shared", "unrecorded"}
    BY <2>1 DEF Snatching, Shared, AdminTypeOK
  <2> QED BY <2>4, <2>5, <2>6, <2>7, <2>8 DEF AdminTypeOK
<1>3. CASE CleanFree(p)
  <2>1. UNCHANGED <<pool, reason, seqVars, queue, exec, lock, child, procVars,
                    userVars, addVars, sweep, cleaning, reboots, mishap>>
    BY <1>3 DEF CleanFree
  <2>2. /\ avail' \in [Pools -> SUBSET Resources]
        /\ freeing' \in [Pools -> Resources \cup {None}]
    BY <1>3, <1>p DEF CleanFree, TypeOK
  <2>3. TypeOK' BY <2>1, <2>2, <1>p DEF TypeOK, procVars
  <2> QED BY <2>1, <2>2, <2>3 DEF AdminTypeOK, Sweep
<1> QED BY <1>1, <1>2, <1>3 DEF CleanStep

\* A reboot leaves the tree, the commands that had ended and no process.
LEMMA RebootType ==
  ASSUME AdminTypeOK, Reboot
  PROVE  AdminTypeOK'
<1>p. TypeOK BY DEF AdminTypeOK
<1>1. /\ NoJob \in Current /\ Booked(0) \in Booking
      /\ Invoked(None, None, 0) \in Invocation
  BY FreshLocals
<1>2. child' \in [Jobs -> Child]
  <2>1. \A ch \in Child : [ch EXCEPT !.st = "gone", !.by = None] \in Child
    BY DEF Child
  <2> QED BY <1>p, <2>1 DEF Reboot, TypeOK
<1>3. TypeOK' BY <1>p, <1>1, <1>2 DEF Reboot, TypeOK, PC
<1>4. reboots' \in 0..MaxReboots
  <2>1. reboots \in 0..MaxReboots /\ MaxReboots \in Nat
    BY DEF AdminTypeOK
  <2>2. reboots < MaxReboots /\ reboots' = reboots + 1 BY DEF Reboot
  <2> QED BY <2>1, <2>2
<1>5. /\ adding' \in [Additions ->
                        {"no", "scan", "look", "symlink", "reason"}]
      /\ todo' \in [Additions -> SUBSET Ids]
      /\ sweep' \in [Pools -> {"no", "due", "on", "failed"}]
      /\ cleaning' \in [Pools -> SUBSET Ids]
      /\ freeing' \in [Pools -> Resources \cup {None}]
  BY DEF Reboot
<1>6. mishap' \in {"none", "shared", "unrecorded"}
  BY DEF Reboot, AdminTypeOK
<1> QED BY <1>3, <1>4, <1>5, <1>6 DEF AdminTypeOK

\* A pid is not written: the tree, the lock and the commands stay as they are,
\* and one runner goes on to free what its command uses.
Unwritten ==
  /\ \E r \in Procs : WritePidFails(r)
  /\ UNCHANGED <<treeVars, lock, child, inv, book, userVars>>
  /\ \A s \in Procs : pc'[s] = "free" \/ UNCHANGED <<pc[s], cur[s], held[s]>>

LEMMA UnwrittenType ==
  ASSUME AdminTypeOK, LocalsOK, NEW r \in Procs, WritePidFails(r)
  PROVE  AdminTypeOK' /\ LocalsOK' /\ Unwritten
<1>p. TypeOK /\ ProcOK(r) BY DEF AdminTypeOK, LocalsOK
<1>1. Job(r) \in Jobs
  BY <1>p, JobType DEF Typed, LocalsOK, ProcOK, WritePidFails
<1>2. child[Job(r)].uses \in SUBSET Tokens BY <1>1, <1>p DEF TypeOK, Child
<1>3. held' \in [Procs -> SUBSET Tokens]
  BY <1>2, <1>p DEF WritePidFails, TypeOK
<1>4. cur' \in [Procs -> Current]
  <2>1. [cur[r] EXCEPT !.after = "drop"] \in Current
    <3>1. cur[r] \in Current BY <1>p DEF TypeOK
    <3>2. "drop" \in {"peek", "drop", "wait"} OBVIOUS
    <3> QED BY <3>1, <3>2 DEF Current
  <2> QED BY <2>1, <1>p DEF WritePidFails, TypeOK
<1>5. pc' \in [Procs -> PC] BY <1>p DEF WritePidFails, TypeOK, PC
<1>6. TypeOK' BY <1>3, <1>4, <1>5, <1>p DEF WritePidFails, TypeOK
<1>7. AdminTypeOK' BY <1>6 DEF WritePidFails, AdminTypeOK
<1>8. /\ pc'[r] = "free" /\ cur'[r].idx = cur[r].idx
      /\ \A s \in Procs : s # r => UNCHANGED <<pc[s], cur[s], held[s]>>
  BY <1>p DEF WritePidFails, TypeOK, Current
<1>9. UNCHANGED <<treeVars, lock, child, inv, book, userVars>>
  BY DEF WritePidFails
<1>10. ProcOK(r)'
  BY <1>8, <1>9, <1>p DEF ProcOK, WritePidFails
<1>11. ASSUME NEW s \in Procs, s # r PROVE ProcOK(s)'
  BY <1>8, <1>9, <1>11 DEF LocalsOK, ProcOK
<1>12. LocalsOK' BY <1>10, <1>11 DEF LocalsOK
<1> QED BY <1>7, <1>8, <1>9, <1>12 DEF Unwritten

\* A step is one of the queue, or maintenance, or the reboot, or the fault.
LEMMA AdminSteps ==
  ASSUME AdminTypeOK, LocalsOK, [AdminNext]_allVars
  PROVE  [Next]_vars \/ Sweep \/ Reboot \/ Unwritten
<1>1. ASSUME NEW r \in Unlucky, WritePidFails(r) PROVE Unwritten
  BY <1>1, UnwrittenType
<1> QED BY <1>1, AddSweeps, CleanSweeps DEF AdminNext, allVars

\* Mishaps are not forgotten: as long as every pid is written, a step is none
\* of the fault.
LEMMA MishapsStay ==
  ASSUME AdminTypeOK, LocalsOK, [AdminNext]_allVars
  PROVE  /\ mishap' = "none" => mishap = "none"
         /\ mishap' # "unrecorded" => mishap # "unrecorded"
         /\ mishap' # "unrecorded" => [Next]_vars \/ Sweep \/ Reboot
<1> DEFINE Stays == /\ mishap' = "none" => mishap = "none"
                    /\ mishap' # "unrecorded" => mishap # "unrecorded"
<1>1. Stays
  <2>1. ASSUME NEW t \in Additions, AddResource(t)
        PROVE  Stays
    BY <2>1 DEF AddResource, AddCreate, AddList, AddLook,
      AddCheckLink, AddLink, AddReason, Shared
  <2>2. ASSUME NEW p \in Pools, CleanList(p) \/ CleanStep(p)
        PROVE  Stays
    BY <2>2 DEF CleanList, CleanStep, CleanMissing, CleanKeep, CleanDelete,
      CleanFree, CleanExists, CleanDone, Snatching, Shared
  <2>3. ASSUME NEW r \in Unlucky, WritePidFails(r)
        PROVE  Stays
    BY <2>3 DEF WritePidFails
  <2> QED BY <2>1, <2>2, <2>3 DEF AdminNext, Reboot, allVars, adminVars
<1>2. ASSUME NEW r \in Unlucky, WritePidFails(r)
      PROVE  mishap' = "unrecorded"
  BY <1>2 DEF WritePidFails
<1>3. mishap' # "unrecorded" => [Next]_vars \/ Sweep \/ Reboot
  BY <1>2, AddSweeps, CleanSweeps DEF AdminNext, allVars
<1> QED BY <1>1, <1>3

\* The locals are right under maintenance too.
AdminTyped == AdminTypeOK /\ LocalsOK

\* The type invariant of the maintained queue is inductive.
LEMMA AdminTypedStep == AdminTyped /\ [AdminNext]_allVars => AdminTyped'
<1> SUFFICES ASSUME AdminTyped, [AdminNext]_allVars PROVE AdminTyped'
  OBVIOUS
<1>p. AdminTypeOK /\ Typed /\ LocalsOK BY DEF AdminTyped, AdminTypeOK, Typed
<1>1. ASSUME [Next]_vars, UNCHANGED adminVars PROVE AdminTyped'
  BY <1>1, <1>p, NextTyped DEF AdminTyped, AdminTypeOK, Typed, adminVars
<1>2. UNCHANGED allVars \/ (Next /\ UNCHANGED adminVars) => AdminTyped'
  BY <1>1 DEF allVars
<1>3. ASSUME UNCHANGED vars \/ Sweep PROVE LocalsOK'
  BY <1>3, <1>p DEF Sweep, LocalsOK, ProcOK, vars, procVars
<1>4. ASSUME NEW t \in Additions, AddResource(t) PROVE AdminTyped'
  BY <1>4, <1>3, <1>p, AddSweeps DEF AdminTyped
<1>5. ASSUME NEW p \in Pools, CleanList(p) \/ CleanStep(p) PROVE AdminTyped'
  BY <1>5, <1>3, <1>p, CleanSweeps DEF AdminTyped
<1>6. CASE Reboot
  <2>1. LocalsOK' BY <1>6 DEF Reboot, LocalsOK, ProcOK
  <2> QED BY <1>6, <1>p, <2>1, RebootType DEF AdminTyped
<1>7. ASSUME NEW r \in Unlucky, WritePidFails(r) PROVE AdminTyped'
  BY <1>7, <1>p, UnwrittenType DEF AdminTyped
<1> QED BY <1>2, <1>4, <1>5, <1>6, <1>7 DEF AdminNext

\* Every variable of the maintained queue keeps its type, and a process still
\* finds in its locals what it needs, whatever add-resource, clean, the
\* reboots and a failed write of a pid do meanwhile.
THEOREM AdminTypeCorrect == AdminSpec => []AdminTypeOK
<1>1. AdminInit => AdminTyped
  BY InitTyped DEF AdminInit, AdminTyped, AdminTypeOK, Typed
<1>2. AdminTyped => AdminTypeOK BY DEF AdminTyped
<1> QED BY <1>1, <1>2, AdminTypedStep, PTL DEF AdminSpec

-----------------------------------------------------------------------------
(* .seq, the queue files and the ids.                                      *)

\* None of these steps touches .seq and the queue files, creates an .exec file
\* or starts a command.
LEMMA Quiet ==
  ASSUME AdminTyped, Sweep \/ Reboot \/ Unwritten
  PROVE  /\ UNCHANGED <<first, next, queue>>
         /\ \A c \in Jobs : /\ exec'[c] \in {exec[c], None}
                            /\ child[c].st = "none" => child'[c] = child[c]
<1>1. TypeOK BY DEF AdminTyped, AdminTypeOK
<1>2. CASE Sweep BY <1>2 DEF Sweep
<1>3. CASE Reboot BY <1>1, <1>3 DEF Reboot, Alive, TypeOK
<1>4. CASE Unwritten BY <1>4 DEF Unwritten
<1> QED BY <1>2, <1>3, <1>4

\* They leave the ids as they are.
LEMMA QuietIds ==
  ASSUME AdminTyped, IdsOK, Sweep \/ Reboot \/ Unwritten
  PROVE  IdsOK'
<1>1. Reachable' /\ Window' BY Quiet DEF IdsOK, Reachable, Window
<1>2. QueuedIsFresh' BY Quiet DEF IdsOK, QueuedIsFresh
<1>3. Untouched'
  <2> SUFFICES ASSUME NEW c \in Jobs, next'[c[1]] <= c[2]
               PROVE  exec'[c] = None /\ child'[c].st = "none"
    BY DEF Untouched
  <2>1. exec[c] = None /\ child[c].st = "none"
    BY Quiet DEF IdsOK, Untouched
  <2> QED BY <2>1, Quiet
<1>4. Consumed'
  <2>1. CASE Sweep
    BY <2>1 DEF Sweep, procVars, IdsOK, Consumed, Job
  <2>2. CASE Reboot BY <2>2 DEF Reboot, Consumed, Holding
  <2>3. CASE Unwritten
    BY <2>3 DEF Unwritten, IdsOK, Consumed, Holding, Job
  <2> QED BY <2>1, <2>2, <2>3
<1> QED BY <1>1, <1>2, <1>3, <1>4 DEF IdsOK

\* The invariant of the ids is inductive in the maintained queue.
LEMMA AdminIdsStep ==
  AdminTyped /\ IdsOK /\ [AdminNext]_allVars => IdsOK'
<1>1. AdminTyped => Typed /\ AdminTypeOK /\ LocalsOK
  BY DEF AdminTyped, AdminTypeOK, Typed
<1> QED BY <1>1, AdminSteps, IdsStep, QuietIds

\* It holds at first ...
LEMMA AdminInitIds == AdminInit => IdsOK
<1> SUFFICES ASSUME AdminInit PROVE IdsOK
  OBVIOUS
<1>1. Reachable /\ QueuedIsFresh /\ Window
  BY DEF AdminInit, Init, Reachable, QueuedIsFresh, Window, Jobs
<1>2. Untouched BY DEF AdminInit, Init, Untouched, NoChild
<1>3. Consumed BY DEF AdminInit, Init, Consumed, Holding
<1> QED BY <1>1, <1>2, <1>3 DEF IdsOK

\* ... and with the types in every state.
LEMMA AdminIdsCorrect == AdminSpec => [](AdminTyped /\ IdsOK)
<1>1. AdminInit => AdminTyped
  BY InitTyped DEF AdminInit, AdminTyped, AdminTypeOK, Typed
<1> QED BY <1>1, AdminInitIds, AdminTypedStep, AdminIdsStep, PTL DEF AdminSpec

\* No queued submission is out of the window after a reboot that killed a
\* scheduler or a runner between two of its steps, nor because of a clean.
THEOREM AdminReachable == AdminSpec => []Reachable
BY AdminIdsCorrect, PTL DEF IdsOK

\* An id that was consumed before a reboot is not given out after it.
THEOREM AdminFresh == AdminSpec => []QueuedIsFresh
BY AdminIdsCorrect, PTL DEF IdsOK

\* The ends of the window only move up, across reboots too.
THEOREM AdminSeqMonotone == AdminSpec => SeqMonotone
<1>1. ASSUME AdminTyped, [AdminNext]_allVars
      PROVE  \A p \in Pools : first'[p] >= first[p] /\ next'[p] >= next[p]
  <2>1. Typed /\ AdminTypeOK /\ TypeOK /\ LocalsOK
    BY <1>1 DEF AdminTyped, AdminTypeOK, Typed
  <2>2. CASE Sweep \/ Reboot \/ Unwritten
    <3>1. UNCHANGED <<first, next>> BY <1>1, <2>2, Quiet
    <3>2. \A p \in Pools : first[p] \in Nat /\ next[p] \in Nat
      BY <2>1 DEF TypeOK
    <3> QED BY <3>1, <3>2
  <2> QED BY <1>1, <2>1, <2>2, AdminSteps, SeqStep
<1>2. AdminTyped /\ [AdminNext]_allVars
        => [\A p \in Pools : first'[p] >= first[p] /\ next'[p] >= next[p]]_vars
  BY <1>1
<1> QED BY <1>2, AdminIdsCorrect, PTL DEF AdminSpec, SeqMonotone

\* Maintenance and reboots replace no submission.
THEOREM AdminNeverOverwritten == AdminSpec => NeverOverwritten
<1>1. ASSUME AdminTyped, [AdminNext]_allVars,
             NEW p \in Pools, NEW i \in Ids, i < next[p]
      PROVE  queue'[<<p, i>>] \in {queue[<<p, i>>], None}
  <2>1. <<p, i>> \in Jobs BY DEF Jobs
  <2>2. Typed /\ AdminTypeOK /\ TypeOK /\ LocalsOK
    BY <1>1 DEF AdminTyped, AdminTypeOK, Typed
  <2>3. i # next[p] BY <1>1, <2>2 DEF Ids, TypeOK
  <2> QED BY <1>1, <2>1, <2>2, <2>3, AdminSteps, QueueStep, Quiet
<1>2. AdminTyped /\ [AdminNext]_allVars
        => [\A p \in Pools, i \in Ids :
              i < next[p] => queue'[<<p, i>>] \in {queue[<<p, i>>], None}]_vars
  BY <1>1
<1> QED BY <1>2, AdminIdsCorrect, PTL DEF AdminSpec, NeverOverwritten

-----------------------------------------------------------------------------
(* The order of the jobs.                                                  *)

\* While a runner holds the lock no maintenance moves the job it has picked.
LEMMA AdminChosenStep ==
  AdminTyped /\ IdsOK /\ Chosen /\ [AdminNext]_allVars => Chosen'
<1> SUFFICES ASSUME AdminTyped, IdsOK, Chosen, [AdminNext]_allVars
             PROVE  Chosen'
  OBVIOUS
<1>1. Typed /\ AdminTypeOK /\ LocalsOK BY DEF AdminTyped, AdminTypeOK, Typed
<1>2. CASE Sweep
  BY <1>2 DEF Sweep, procVars, Chosen, Job, Foremost
<1>3. CASE Reboot BY <1>3 DEF Reboot, Chosen
<1>4. CASE Unwritten
  <2> SUFFICES ASSUME NEW r \in Procs, pc'[r] = "rename",
                      queue'[Job(r)'] # None
               PROVE  Foremost(PoolOf(r), cur[r].idx)'
    BY DEF Chosen
  <2>1. UNCHANGED <<pc[r], cur[r], queue, next, inv>>
    BY <1>4 DEF Unwritten, treeVars, seqVars
  <2> QED BY <2>1 DEF Chosen, Job, PoolOf, Foremost
<1> QED BY <1>1, <1>2, <1>3, <1>4, AdminSteps, ChosenStep

\* Runners serve a queue in order whatever maintenance is done, and those that
\* start after a reboot go on in that order.
THEOREM AdminInOrder == AdminSpec => InOrder
<1>1. AdminInit => Chosen BY DEF AdminInit, Init, Chosen
<1>2. ASSUME AdminTyped, IdsOK, Chosen, [AdminNext]_allVars,
             NEW p \in Pools, NEW i \in Ids,
             queue[<<p, i>>] # None, exec'[<<p, i>>] # None
      PROVE  Foremost(p, i)
  <2>1. <<p, i>> \in Jobs BY DEF Jobs
  <2>2. Typed /\ AdminTypeOK /\ LocalsOK
    BY <1>2 DEF AdminTyped, AdminTypeOK, Typed
  <2>3. exec[<<p, i>>] = None BY <1>2, <2>1 DEF IdsOK, QueuedIsFresh
  <2>4. [Next]_vars BY <1>2, <2>1, <2>2, <2>3, AdminSteps, Quiet
  <2>5. PICK r \in Procs : GetRename(r) /\ <<p, i>> = Job(r)
    BY <1>2, <2>1, <2>2, <2>4, ConsumedByRename
  <2>6. Foremost(PoolOf(r), cur[r].idx)
    BY <1>2, <2>5 DEF GetRename, Chosen
  <2> QED BY <2>5, <2>6 DEF Job
<1>3. AdminTyped /\ IdsOK /\ Chosen /\ [AdminNext]_allVars
        => [\A p \in Pools, i \in Ids :
              queue[<<p, i>>] # None /\ exec'[<<p, i>>] # None =>
                Foremost(p, i)]_vars
  BY <1>2
<1> QED BY <1>1, <1>3, AdminChosenStep, AdminIdsCorrect, PTL
    DEF AdminSpec, InOrder

-----------------------------------------------------------------------------
(* To whom a command belongs, and what its .exec file says.                *)

\* A command that ends for good loses its parent.
LEMMA OrphanedStep ==
  ASSUME Typed, Orphaned, [Next]_vars
  PROVE  Orphaned'
<1> SUFFICES ASSUME NEW c \in Jobs, child'[c].st \in {"none", "gone"}
             PROVE  child'[c].by = None
  BY DEF Orphaned
<1>p. TypeOK /\ child[c] \in Child BY DEF Typed, TypeOK
<1>1. CASE child' = child BY <1>1 DEF Orphaned
<1>2. ASSUME NEW r \in Procs, Popen(r) PROVE child'[c].by = None
  <2>1. c = Job(r) => child'[c].st = "running"
    BY <1>2, <1>p DEF Popen, TypeOK
  <2>2. c # Job(r) => child'[c] = child[c] BY <1>2, <1>p DEF Popen, TypeOK
  <2> QED BY <2>1, <2>2 DEF Orphaned
<1>3. ASSUME NEW r \in Procs, Reap(r) PROVE child'[c].by = None
  <2>1. PICK d \in Jobs :
          child' = [child EXCEPT ![d] = [child[d] EXCEPT !.st = "gone",
                                                        !.by = None]]
    BY <1>3 DEF Reap, Commands
  <2>2. CASE d = c BY <2>1, <2>2, <1>p DEF TypeOK, Child
  <2>3. CASE d # c BY <2>1, <2>3, <1>p DEF TypeOK, Orphaned
  <2> QED BY <2>2, <2>3
<1>4. ASSUME NEW r \in Procs, Exit(r) PROVE child'[c].by = None
  BY <1>4, <1>p DEF Exit, Orphan, TypeOK, Child, Orphaned
<1>5. ASSUME NEW d \in Jobs, ChildExit(d) PROVE child'[c].by = None
  BY <1>5, <1>p DEF ChildExit, TypeOK, Child, Orphaned
<1> QED BY <1>1, <1>2, <1>3, <1>4, <1>5, ChildWriters

\* A clean takes no .exec file from a process that is starting a command, nor
\* from a command that runs.
LEMMA SweepBelongs ==
  ASSUME AdminTyped, Belongs, Sweep
  PROVE  Belongs'
<1>p. TypeOK /\ LocalsOK BY DEF AdminTyped, AdminTypeOK
<1>1. UNCHANGED <<pc, inv, cur, book, held, child>>
  BY DEF Sweep, procVars
<1>2. \A c \in Jobs : child[c].st # "gone" => exec'[c] = exec[c]
  BY DEF Sweep
<1>3. \A r \in Procs : /\ Owns(r)' <=> Owns(r)
                       /\ Job(r)' = Job(r)
                       /\ Owns(r) => Job(r) \in Jobs
  <2> TAKE r \in Procs
  <2>1. Owns(r) => pc[r] # "idle" /\ cur[r].idx # 0 BY DEF Owns, Holding
  <2>2. Typed BY <1>p DEF Typed
  <2> QED BY <1>1, <2>1, <2>2, JobType DEF Owns, Job
<1>4. Orphaned' /\ Parents' BY <1>1 DEF Belongs, Orphaned, Parents
<1>5. Owned'
  BY <1>1, <1>2, <1>3 DEF Belongs, Owned
<1>6. RunningRecorded' BY <1>1, <1>2 DEF Belongs, RunningRecorded, Alive
<1>7. Recording'
  <2> SUFFICES ASSUME NEW r \in Procs PROVE ProcRecorded(r)'
    BY DEF Recording
  <2>1. ProcRecorded(r) BY DEF Belongs, Recording
  <2>2. pc[r] = "popen" => exec'[Job(r)] = exec[Job(r)]
    BY <1>2, <1>3, <1>p DEF Belongs, Owned, Owns, Holding, LocalsOK, ProcOK
  <2> QED BY <1>1, <1>3, <2>1, <2>2 DEF ProcRecorded, HasPrimary, Primary
<1> QED BY <1>4, <1>5, <1>6, <1>7 DEF Belongs

\* After a reboot no command runs and no process has an id.
LEMMA RebootBelongs ==
  ASSUME AdminTyped, Belongs, Reboot
  PROVE  Belongs'
<1>p. TypeOK BY DEF AdminTyped, AdminTypeOK
<1>1. \A c \in Jobs : child'[c].st \notin Alive /\ child'[c].by = None
  <2> TAKE c \in Jobs
  <2>1. child[c] \in Child BY <1>p DEF TypeOK
  <2>2. child'[c] = IF child[c].st \in Alive
                      THEN [child[c] EXCEPT !.st = "gone", !.by = None]
                      ELSE child[c]
    BY DEF Reboot
  <2> QED BY <2>1, <2>2 DEF Belongs, Orphaned, Alive, Child
<1>2. \A r \in Procs : pc'[r] = "idle" BY DEF Reboot
<1> QED BY <1>1, <1>2 DEF Belongs, Orphaned, Parents, Owned, Owns, Holding,
  Recording, ProcRecorded, HasPrimary, Equipping, RunningRecorded

\* So all of it is inductive as long as every pid is written: after a failure
\* the file of a command that runs goes.
AllWritten == mishap # "unrecorded"

LEMMA BelongsStep ==
  AdminTyped /\ IdsOK /\ (AllWritten => Belongs) /\ [AdminNext]_allVars
    => (AllWritten => Belongs)'
<1> SUFFICES ASSUME AdminTyped, IdsOK, AllWritten => Belongs,
                    [AdminNext]_allVars, AllWritten'
             PROVE  Belongs'
  OBVIOUS
<1>1. Typed /\ AdminTypeOK /\ LocalsOK BY DEF AdminTyped, AdminTypeOK, Typed
<1>2. AllWritten /\ ([Next]_vars \/ Sweep \/ Reboot)
  BY <1>1, MishapsStay DEF AllWritten
<1>3. Typed /\ IdsOK /\ Belongs /\ [Next]_vars => Belongs'
  BY OrphanedStep, ParentsStep, OwnedStep, RecordingStep,
     RunningRecordedStep
  DEF Belongs
<1> QED BY <1>1, <1>2, <1>3, SweepBelongs, RebootBelongs

\* It holds at first and in every state.
LEMMA AdminInitBelongs == AdminInit => Belongs
BY DEF AdminInit, Init, Belongs, Orphaned, Parents, Owned, Owns, Holding,
  NoChild, Recording, ProcRecorded, HasPrimary, Equipping, RunningRecorded,
  Alive

LEMMA BelongsCorrect == AdminSpec => [](AllWritten => Belongs)
<1> QED BY AdminInitBelongs, AdminIdsCorrect, BelongsStep, PTL DEF AdminSpec

\* From the renaming of its queue file to the start of its command a job has
\* one runner and its .exec file: no clean gives it to nobody, and no reboot
\* leaves it to two.
THEOREM AdminOwned == AdminSpec => [](AllWritten => Owned)
<1>1. Belongs => Owned BY DEF Belongs
<1> QED BY <1>1, BelongsCorrect, PTL

\* A clean next to the runners takes the .exec file of no command that runs,
\* only the except clause of a runner that cannot write a pid does: an
\* add-resource that looks meanwhile finds the resource of its pool that the
\* command uses, and unschedule finds the command.
THEOREM AdminRunningRecorded == AdminSpec => [](AllWritten => RunningRecorded)
<1>1. Belongs => RunningRecorded BY DEF Belongs
<1> QED BY <1>1, BelongsCorrect, PTL

-----------------------------------------------------------------------------
(* What a command is given.                                                *)
(*                                                                         *)
(* add-resource and clean link resources that are still booked, and a      *)
(* runner that books twice in one pool may then be given the same resource *)
(* twice.  One that books once per pool is not, whatever they do.          *)

\* The extra pools e of a submission differ from each other and from its own.
Apart(p, e) ==
  \A k \in DOMAIN e : /\ e[k] # p
                      /\ \A l \in DOMAIN e : e[k] = e[l] => k = l

\* What is scheduled asks for one resource of each pool at most.
PoolsApart == \A q \in Requests : Apart(q.pool, q.sub.extra)

\* Where the data of the locals is that of a submission.
Reading == Scheduling \cup Launching

\* It holds of what is queued and of what the runners have read.
Asked ==
  /\ \A c \in Jobs : queue[c] # None => Apart(c[1], queue[c].extra)
  /\ \A r \in Procs : pc[r] \in Reading =>
       Apart(PoolOf(r), cur[r].data.extra)

\* A runner reads the data of a job once.
LEMMA DataStep ==
  ASSUME Typed, NEW r \in Procs, ProcStep(r), pc'[r] \in Reading
  PROVE  \/ ReadData(r)
         \/ /\ pc[r] \in Reading /\ PoolOf(r)' = PoolOf(r)
            /\ cur'[r].data = cur[r].data
<1>p. TypeOK BY DEF Typed
<1>1. ~Exit(r) BY <1>p DEF Exit, Idle, TypeOK, Reading
<1>2. CASE ScheduleStep(r)
  BY <1>1, <1>2, <1>p DEF ScheduleStep, ScheduleDuplicate,
    ScheduleUnknownPool, ScheduleAccepted, WriteQueueFile, BumpNext,
    BlockAgain, BlockReturn, ScheduleEnd, Idle, TypeOK, Reading
<1>3. CASE CheckExtra(r) \/ CheckDone(r) \/ BookList(r) \/ BookMissed(r)
           \/ GetNothing(r) \/ GetRename(r) \/ GetAdvance(r)
  BY <1>3 DEF CheckExtra, CheckDone, BookList, BookMissed, GetNothing,
    GetRename, GetAdvance, Reading
<1>4. CASE BookTake(r)
  BY <1>4, <1>p DEF BookTake, TypeOK, Current, Reading
<1>5. CASE GetLock(r)
  BY <1>5, <1>p DEF GetLock, TypeOK, Reading
<1>6. ~Peek(r) /\ ~SkipJob(r) /\ ~BookFailed(r)
  BY <1>p DEF Peek, SkipJob, BookFailed, TypeOK, Reading
<1>7. CASE LaunchStep(r)
  BY <1>1, <1>7, <1>p DEF LaunchStep, BookDone, RemoveBooked, WriteExec,
    WriteNowhere, Popen, PopenFailed, WritePid, Dump, TypeOK, Reading
<1>8. ~WaitStep(r)
  <2>1. FreeDone(r) => pc'[r] \in {"peek", "drop", "wait"}
    BY <1>p, AfterFree
  <2>2. WaitStep(r) /\ ~FreeDone(r) =>
          Exit(r) \/ pc'[r] \in {"link", "free", "peek", "reaped", "blocked"}
    BY <1>p DEF WaitStep, FreeCheck, FreeRemoved, FreeSymlink, FreeLink,
      FreeExists, DropExec, CommandOver, Reap, RunDone, BlockedRunDone, TypeOK
  <2> QED BY <1>1, <2>1, <2>2 DEF Reading
<1> QED BY <1>1, <1>2, <1>3, <1>4, <1>5, <1>6, <1>7, <1>8 DEF ProcStep,
  BookStep, ReadMissing, GetMissing

\* What is asked for goes from the requests to the queue and to the runners.
LEMMA AskedStep ==
  ASSUME Typed, PoolsApart, Asked, [Next]_vars
  PROVE  Asked'
<1>p. TypeOK /\ LocalsOK BY DEF Typed
<1>1. ASSUME NEW c \in Jobs, queue'[c] # None
      PROVE  Apart(c[1], queue'[c].extra)
  <2>1. CASE queue'[c] = queue[c] BY <1>1, <2>1 DEF Asked
  <2>2. ASSUME NEW r \in Procs, WriteQueueFile(r), c = Job(r)
        PROVE  Apart(c[1], queue'[c].extra)
    <3>1. queue'[c] = cur[r].data /\ c[1] = PoolOf(r)
      BY <1>1, <2>2, <1>p DEF WriteQueueFile, TypeOK, Job
    <3>2. Apart(PoolOf(r), cur[r].data.extra)
      BY <2>2 DEF WriteQueueFile, Asked, Reading
    <3> QED BY <3>1, <3>2
  <2> QED BY <1>1, <2>1, <2>2, QueueStep
<1>2. ASSUME NEW s \in Procs, pc'[s] \in Reading
      PROVE  Apart(PoolOf(s)', cur'[s].data.extra)
  <2>1. ASSUME ReadData(s) PROVE Apart(PoolOf(s)', cur'[s].data.extra)
    <3>1. /\ cur'[s].data = queue[<<PoolOf(s), cur[s].peek>>]
          /\ queue[<<PoolOf(s), cur[s].peek>>] # None
          /\ PoolOf(s)' = PoolOf(s)
      BY <2>1, <1>p DEF ReadData, TypeOK, Current
    <3>2. <<PoolOf(s), cur[s].peek>> \in Jobs
      BY <2>1, <1>p DEF ReadData, LocalsOK, ProcOK, TypeOK, Current, Jobs, Ids
    <3> QED BY <3>1, <3>2 DEF Asked
  <2>2. CASE ProcStep(s) BY <1>2, <2>1, <2>2, DataStep DEF Asked
  <2>3. ASSUME NEW q \in Requests, ScheduleLock(s, q)
        PROVE  Apart(PoolOf(s)', cur'[s].data.extra)
    <3>1. PoolOf(s)' = q.pool /\ cur'[s].data = q.sub
      BY <2>3, <1>p DEF ScheduleLock, Begin, Invoked, TypeOK
    <3> QED BY <3>1 DEF PoolsApart
  <2>4. ~Die(s) /\ \A p \in RunPools : ~StartRun(s, p)
    BY <1>2, <1>p DEF Die, Exit, Idle, StartRun, TypeOK, Reading
  <2>5. CASE Still(s) BY <1>2, <2>5 DEF Still, Asked
  <2> QED BY <2>2, <2>3, <2>4, <2>5, Turns
<1> QED BY <1>1, <1>2 DEF Asked

\* Maintenance and reboots ask for nothing.
LEMMA AdminAskedStep ==
  AdminTyped /\ PoolsApart /\ Asked /\ [AdminNext]_allVars => Asked'
<1> SUFFICES ASSUME AdminTyped, PoolsApart, Asked, [AdminNext]_allVars
             PROVE  Asked'
  OBVIOUS
<1>1. Typed /\ AdminTypeOK /\ LocalsOK BY DEF AdminTyped, AdminTypeOK, Typed
<1>2. CASE Sweep BY <1>2 DEF Sweep, procVars, Asked
<1>3. CASE Reboot BY <1>3 DEF Reboot, Asked, Reading
<1>4. CASE Unwritten BY <1>4 DEF Unwritten, Asked, Reading
<1> QED BY <1>1, <1>2, <1>3, <1>4, AdminSteps, AskedStep

\* A runner that books once per pool holds nothing yet of the pool it is about
\* to book in.
LEMMA AskedUnheld ==
  ASSUME Typed, Asked, Equipped, NEW r \in Procs
  PROVE  Unheld(r)
<1> SUFFICES ASSUME pc[r] = "try", NEW x \in avail[Target(r)],
                    <<Target(r), x>> \in held[r]
             PROVE  FALSE
  BY DEF Unheld
<1> DEFINE e == cur[r].data.extra
<1>p. TypeOK /\ ProcOK(r) /\ ProcEquipped(r) BY DEF Typed, LocalsOK, Equipped
<1>1. /\ e \in Seq(STRING \cup Pools) /\ PoolOf(r) \in Pools
      /\ cur[r].data \in Queueable
      /\ book[r].k \in Nat /\ book[r].k <= Len(e)
  BY <1>p DEF ProcOK, TypeOK, Booking, Queueable
<1>2. Target(r) \in Pools
  BY <1>1, <1>p, TargetType DEF TypeOK, Extras
<1>3. Apart(PoolOf(r), e) BY DEF Asked, Reading
<1>4. ~(Target(r) = PoolOf(r) /\ book[r].k > 0)
  <2> SUFFICES ASSUME book[r].k > 0 PROVE Target(r) # PoolOf(r)
    OBVIOUS
  <2>1. book[r].k \in DOMAIN e /\ Target(r) = e[book[r].k]
    BY <1>1 DEF Target
  <2> QED BY <1>3, <2>1 DEF Apart
<1>5. ExtrasBooked(r, Target(r)) = {}
  <2> SUFFICES ASSUME NEW j \in 1..(book[r].k - 1), e[j] = Target(r)
               PROVE  FALSE
    BY DEF ExtrasBooked, Upto
  <2>1. /\ book[r].k > 0 /\ j \in DOMAIN e /\ book[r].k \in DOMAIN e
        /\ j # book[r].k
    BY <1>1
  <2>2. Target(r) = e[book[r].k] BY <2>1 DEF Target
  <2> QED BY <1>3, <2>1, <2>2 DEF Apart
<1>6. /\ IsFiniteSet(held[r])
      /\ Cardinality(FromPool(held[r], Target(r))) =
           Cardinality(ExtrasBooked(r, Target(r))) + 0
  BY <1>2, <1>4, <1>p DEF ProcEquipped, Equipping
<1>7. Cardinality(FromPool(held[r], Target(r))) = 0
  <2>1. Cardinality(ExtrasBooked(r, Target(r))) = 0
    BY <1>5, FS_EmptySet, Zenon
  <2> QED BY <1>6, <2>1
<1>8. IsFiniteSet(FromPool(held[r], Target(r)))
  BY <1>6, FS_Subset DEF FromPool
<1>9. FromPool(held[r], Target(r)) = {} BY <1>7, <1>8, FS_EmptySet
<1> QED BY <1>9 DEF FromPool

\* Maintenance gives a runner nothing, a reboot leaves none, and one that
\* cannot write a pid has its booking behind it.
LEMMA QuietEquipped ==
  ASSUME TypeOK, Equipped, FullyEquipped, Sweep \/ Reboot \/ Unwritten
  PROVE  Equipped' /\ FullyEquipped'
<1>1. CASE Sweep
  <2>1. Equipped'
    BY <1>1 DEF Sweep, procVars, Equipped, ProcEquipped, Extras, FromPool,
      ExtrasBooked
  <2>2. FullyEquipped' BY <1>1 DEF Sweep, FullyEquipped, Demand
  <2> QED BY <2>1, <2>2
<1>2. CASE Reboot
  <2>1. Equipped'
    BY <1>2 DEF Reboot, Equipped, ProcEquipped, Equipping, EmptyHanded
  <2>2. \A c \in Jobs : child'[c].st \notin Alive
    <3> TAKE c \in Jobs
    <3>1. child[c] \in Child BY DEF TypeOK
    <3>2. child'[c] = IF child[c].st \in Alive
                        THEN [child[c] EXCEPT !.st = "gone", !.by = None]
                        ELSE child[c]
      BY <1>2 DEF Reboot
    <3> QED BY <3>1, <3>2 DEF Alive, Child
  <2> QED BY <2>1, <2>2 DEF FullyEquipped
<1>3. CASE Unwritten
  <2>1. ASSUME NEW s \in Procs PROVE ProcEquipped(s)'
    <3>1. CASE pc'[s] = "free"
      BY <3>1 DEF ProcEquipped, Equipping, EmptyHanded
    <3>2. CASE UNCHANGED <<pc[s], cur[s], held[s]>>
      BY <3>2, <1>3 DEF Unwritten, Equipped, ProcEquipped, Extras, FromPool,
        ExtrasBooked, Upto, Target, PoolOf
    <3> QED BY <3>1, <3>2, <1>3 DEF Unwritten
  <2>e. Equipped' BY <2>1 DEF Equipped
  <2>2. FullyEquipped' BY <1>3 DEF Unwritten, FullyEquipped, Demand
  <2> QED BY <2>e, <2>2
<1> QED BY <1>1, <1>2, <1>3

\* So the runners keep count of what they have booked.
LEMMA AdminEquippedStep ==
  AdminTyped /\ Asked /\ Equipped /\ FullyEquipped /\ [AdminNext]_allVars
    => Equipped' /\ FullyEquipped'
<1> SUFFICES ASSUME AdminTyped, Asked, Equipped, FullyEquipped,
                    [AdminNext]_allVars
             PROVE  Equipped' /\ FullyEquipped'
  OBVIOUS
<1>1. Typed /\ AdminTypeOK /\ TypeOK /\ LocalsOK
  BY DEF AdminTyped, AdminTypeOK, Typed
<1>2. CASE [Next]_vars
  <2>1. \A r \in Procs : Unheld(r) BY <1>1, AskedUnheld
  <2> QED BY <1>1, <1>2, <2>1, EquippedStep, FullyEquippedStep
<1>3. CASE Sweep \/ Reboot \/ Unwritten BY <1>1, <1>3, QuietEquipped
<1> QED BY <1>1, <1>2, <1>3, AdminSteps

\* A command whose submission names each pool once runs on one resource of
\* each, whatever is added, removed, cleaned or rebooted meanwhile.
THEOREM AdminFullyEquipped ==
  ASSUME PoolsApart PROVE AdminSpec => []FullyEquipped
<1>1. AdminInit => Equipped /\ FullyEquipped /\ Asked
  BY DEF AdminInit, Init, Equipped, ProcEquipped, Equipping, EmptyHanded,
    FullyEquipped, Alive, NoChild, Asked, Reading
<1>2. AdminTyped /\ Asked /\ [AdminNext]_allVars => Asked'
  BY AdminAskedStep
<1> QED BY <1>1, <1>2, AdminIdsCorrect, AdminEquippedStep, PTL
    DEF AdminSpec

-----------------------------------------------------------------------------
(* Maintenance next to the runners.                                        *)
(*                                                                         *)
(* What a clean frees is nobody's unless its runner was about to free it,  *)
(* and what add-resource links unless its look at the files missed whose   *)
(* it is (mishap): until then resources stay exclusive across cleans,      *)
(* additions and reboots.                                                  *)

\* The end of a process gives up what it has booked.
LEMMA ExitLess ==
  ASSUME TypeOK, NEW r \in Procs, Exit(r)
  PROVE  Less /\ held'[r] = {}
<1>1. \A c \in Jobs : child'[c].st \in Alive =>
        child[c].st \in Alive /\ child'[c].uses = child[c].uses
  BY OrphanUses DEF Exit, TypeOK
<1> QED BY <1>1 DEF Exit, Less, TypeOK

\* The steps by which a resource changes hands, the others give up some.
LEMMA Moves ==
  ASSUME Typed, [Next]_vars
  PROVE  \/ Less
         \/ \E r \in Procs : BookTake(r) \/ Popen(r) \/ Reap(r) \/ FreeLink(r)
<1>p. TypeOK BY DEF Typed
<1>1. UNCHANGED <<avail, held, child>> => Less BY DEF Less
<1>2. ASSUME NEW r \in Procs, Exit(r) PROVE Less
  BY <1>2, <1>p, ExitLess
<1>3. ASSUME NEW r \in Procs, FreeRemoved(r) PROVE Less
  BY <1>3, <1>p DEF FreeRemoved, Less, TypeOK
<1>4. ASSUME NEW r \in Procs, ProcStep(r),
             ~BookTake(r), ~Popen(r), ~Reap(r), ~FreeLink(r)
      PROVE  Less
  <2>1. CASE ScheduleStep(r)
    BY <1>1, <1>2, <2>1 DEF ScheduleStep, ScheduleDuplicate,
      ScheduleUnknownPool, ScheduleAccepted, WriteQueueFile, BumpNext,
      BlockAgain, BlockReturn, ScheduleEnd
  <2>2. CASE BookStep(r)
    BY <1>1, <1>2, <1>4, <2>2 DEF BookStep, Peek, ReadData, ReadMissing,
      CheckExtra, SkipJob, CheckDone, BookList, BookMissed, BookFailed,
      GetLock, GetNothing, GetRename, GetMissing, GetAdvance
  <2>3. CASE LaunchStep(r)
    BY <1>1, <1>2, <1>4, <2>3 DEF LaunchStep, BookDone, RemoveBooked,
      WriteExec, WriteNowhere, PopenFailed, WritePid, Dump
  <2>4. CASE WaitStep(r)
    BY <1>1, <1>2, <1>3, <1>4, <2>4 DEF WaitStep, FreeCheck, FreeSymlink,
      FreeExists, FreeDone, DropExec, CommandOver, RemoveExec, RunDone,
      BlockedRunDone
  <2> QED BY <1>4, <2>1, <2>2, <2>3, <2>4 DEF ProcStep
<1>5. ASSUME NEW c \in Jobs, ChildExit(c) PROVE Less
  <2>1. \E x \in {"gone", "zombie"} : child' = [child EXCEPT ![c].st = x]
    BY <1>5 DEF ChildExit
  <2>2. \A d \in Jobs : child'[d].st \in Alive =>
          child[d].st \in Alive /\ child'[d].uses = child[d].uses
    BY <2>1, <1>5, <1>p DEF ChildExit, TypeOK, Child, Alive
  <2> QED BY <1>5, <2>2 DEF ChildExit, Less, procVars
<1>6. ASSUME NEW x \in Removals, RemoveLink(x) \/ RemoveResource(x)
      PROVE  Less
  <2>1. \A p \in Pools : avail'[p] \subseteq avail[p]
    <3>1. CASE RemoveLink(x) BY <3>1, <1>p DEF RemoveLink, TypeOK
    <3>2. CASE RemoveResource(x) BY <3>2 DEF RemoveResource
    <3> QED BY <1>6, <3>1, <3>2
  <2> QED BY <1>6, <2>1 DEF RemoveLink, RemoveResource, Less, procVars
<1>7. ASSUME \/ \E r \in Procs, p \in RunPools : StartRun(r, p)
             \/ \E r \in Procs, q \in Requests : ScheduleLock(r, q)
             \/ \E c \in Jobs : Unschedule(c)
             \/ UNCHANGED vars
      PROVE  Less
  BY <1>1, <1>7 DEF StartRun, ScheduleLock, Unschedule, UnscheduleQueued,
    UnscheduleKill, UnscheduleKilled, UnscheduleTimeout, vars, procVars
<1>8. ASSUME NEW r \in Mortal, Die(r) PROVE Less
  BY <1>2, <1>8 DEF Die
<1> QED BY <1>4, <1>5, <1>6, <1>7, <1>8 DEF Next

\* What nobody has, no step of the queue gives to anybody.
LEMMA LeakedStep ==
  ASSUME Typed, Freeing, NEW t \in Tokens, Leaked(t), [Next]_vars
  PROVE  Leaked(t)'
<1>p. TypeOK /\ t[1] \in Pools BY DEF Typed, Tokens
<1>1. CASE Less BY <1>1, <1>p DEF Less, Leaked
<1>2. ASSUME NEW r \in Procs, BookTake(r) PROVE Leaked(t)'
  <2>1. PICK x \in avail[Target(r)] :
          /\ avail' = [avail EXCEPT ![Target(r)] = avail[Target(r)] \ {x}]
          /\ held' = [held EXCEPT ![r] = held[r] \cup {<<Target(r), x>>}]
          /\ UNCHANGED child
    BY <1>2 DEF BookTake
  <2>2. t # <<Target(r), x>> BY <2>1 DEF Leaked
  <2>3. avail'[t[1]] \subseteq avail[t[1]] BY <2>1, <1>p DEF TypeOK
  <2>4. \A s \in Procs : t \notin held'[s]
    BY <2>1, <2>2, <1>p DEF TypeOK, Leaked
  <2> QED BY <2>1, <2>3, <2>4 DEF Leaked
<1>3. ASSUME NEW r \in Procs, Popen(r) PROVE Leaked(t)'
  <2>1. \A s \in Procs : held'[s] \subseteq held[s]
    BY <1>3, <1>p DEF Popen, TypeOK
  <2>2. \A c \in Jobs : child'[c] = child[c] \/ child'[c].uses = held[r]
    BY <1>3, <1>p DEF Popen, TypeOK
  <2>3. avail' = avail BY <1>3 DEF Popen
  <2> QED BY <2>1, <2>2, <2>3 DEF Leaked
<1>4. ASSUME NEW r \in Procs, Reap(r) PROVE Leaked(t)'
  <2>1. PICK c \in Jobs :
          /\ child[c].st = "zombie"
          /\ child' = [child EXCEPT ![c] = [child[c] EXCEPT !.st = "gone",
                                                            !.by = None]]
          /\ held' = [held EXCEPT ![r] = child[c].uses]
          /\ UNCHANGED avail
    BY <1>4 DEF Reap, Commands
  <2>2. t \notin child[c].uses BY <2>1 DEF Leaked, Alive
  <2>3. \A s \in Procs : t \notin held'[s]
    BY <2>1, <2>2, <1>p DEF TypeOK, Leaked
  <2>4. \A d \in Jobs : child'[d].st \in Alive => child'[d] = child[d]
    BY <2>1, <1>p DEF TypeOK, Child, Alive
  <2> QED BY <2>1, <2>3, <2>4 DEF Leaked
<1>5. ASSUME NEW r \in Procs, FreeLink(r) PROVE Leaked(t)'
  <2>1. /\ avail' = [avail EXCEPT ![Freed(r)[1]] =
                       avail[Freed(r)[1]] \cup {Freed(r)[2]}]
        /\ held' = [held EXCEPT ![r] = held[r] \ {Freed(r)}]
        /\ Freed(r) \in held[r]
        /\ UNCHANGED child
    BY <1>5 DEF FreeLink, Freeing, Freed
  <2>2. Freed(r) \in Tokens /\ t # Freed(r)
    BY <2>1, <1>p DEF TypeOK, Leaked
  <2>3. t[2] \notin avail'[t[1]]
    <3>1. t[1] # Freed(r)[1] \/ t[2] # Freed(r)[2] BY <2>2 DEF Tokens
    <3>2. Freed(r)[1] \in Pools BY <2>2 DEF Tokens
    <3>3. t[2] \notin avail[t[1]] BY DEF Leaked
    <3> QED BY <2>1, <3>1, <3>2, <3>3, <1>p DEF TypeOK
  <2>4. \A s \in Procs : held'[s] \subseteq held[s]
    BY <2>1, <1>p DEF TypeOK
  <2> QED BY <2>1, <2>3, <2>4 DEF Leaked
<1> QED BY <1>1, <1>2, <1>3, <1>4, <1>5, Moves

\* What is given up is nobody's: by a process that ends ...
LEMMA HeldLeaks ==
  ASSUME TypeOK, Exclusive, Less, NEW r \in Procs, NEW t \in held[r],
         held'[r] = {}
  PROVE  Leaked(t)'
<1>1. t[1] \in Pools BY DEF TypeOK, Tokens
<1> QED BY <1>1 DEF Leaked, Less, Exclusive

\* ... or by a command that ends and that nobody waits for.
LEMMA UsesLeak ==
  ASSUME TypeOK, Exclusive, Less, NEW c \in Jobs, NEW t \in child[c].uses,
         child[c].st \in Alive, child'[c].st \notin Alive
  PROVE  Leaked(t)'
<1>1. t[1] \in Pools BY DEF TypeOK, Child, Tokens
<1> QED BY <1>1 DEF Leaked, Less, Exclusive

\* The resource that the .exec file of a started command names is used by the
\* command, booked by the process that has waited for it, or nobody's.
Borne(c) ==
  \/ child[c].st \in Alive /\ Token(c) \in child[c].uses
  \/ \E r \in Procs : Returns(r, c) /\ Token(c) \in held[r]
  \/ Lost(c) /\ Leaked(Token(c))

LEMMA StartedBorne ==
  ASSUME Belongs, Returning, Lasting, NEW c \in Jobs,
         exec[c] # None, exec[c].pid, exec[c].res # None,
         child[c].st \in Alive \cup {"gone"}
  PROVE  Borne(c)
<1>1. CASE child[c].st \in Alive
  BY <1>1 DEF Belongs, RunningRecorded, Borne, Token
<1>2. CASE \E r \in Procs : Returns(r, c)
  BY <1>2 DEF Returning, Returns, Borne
<1>3. CASE child[c].st = "gone" /\ \A r \in Procs : ~Returns(r, c)
  BY <1>3 DEF Lasting, Lost, Stale, Borne
<1> QED BY <1>1, <1>2, <1>3

\* No two of them name the same.
LEMMA BorneApart ==
  ASSUME Exclusive, Lasting, NEW c \in Jobs, NEW d \in Jobs, c # d,
         Borne(c), Borne(d)
  PROVE  Token(c) # Token(d)
<1> DEFINE live(x) == child[x].st \in Alive /\ Token(x) \in child[x].uses
           back(x) == \E r \in Procs : Returns(r, x) /\ Token(x) \in held[r]
           lost(x) == Lost(x) /\ Leaked(Token(x))
<1>1. /\ live(c) \/ back(c) \/ lost(c)
      /\ live(d) \/ back(d) \/ lost(d)
  BY DEF Borne
<1>2. live(c) /\ live(d) => Token(c) # Token(d) BY DEF Exclusive
<1>3. /\ live(c) /\ back(d) => Token(c) # Token(d)
      /\ back(c) /\ live(d) => Token(c) # Token(d)
  BY DEF Exclusive
<1>4. back(c) /\ back(d) => Token(c) # Token(d)
  BY DEF Exclusive, Returns
<1>5. /\ (live(c) \/ back(c)) /\ lost(d) => Token(c) # Token(d)
      /\ lost(c) /\ (live(d) \/ back(d)) => Token(c) # Token(d)
  BY DEF Leaked
<1>6. lost(c) /\ lost(d) => Token(c) # Token(d) BY DEF Lasting
<1> QED BY <1>1, <1>2, <1>3, <1>4, <1>5, <1>6

\* All that holds until the first mishap.
Unharmed ==
  /\ AdminTyped /\ IdsOK /\ Belongs
  /\ Exclusive /\ Freeing
  /\ Returning /\ Lasting /\ Sweeping

\* A command that is lost after a step was started before it.
LEMMA LostBefore ==
  ASSUME Unharmed, [Next]_vars, NEW c \in Jobs, Lost(c)'
  PROVE  /\ exec'[c] = exec[c] /\ Token(c)' = Token(c)
         /\ Borne(c)
<1>p. Typed /\ TypeOK BY DEF Unharmed, AdminTyped, AdminTypeOK, Typed
<1>1. /\ exec'[c] # None /\ exec'[c].pid /\ exec'[c].res # None
      /\ child'[c].st = "gone"
  BY DEF Lost, Stale
<1>2. Onward(c)
  BY <1>p, <1>1, ChildStep DEF Popen, TypeOK
<1>3. child[c].st \in Alive \cup {"gone"}
  BY <1>1, <1>2 DEF Onward
<1>4. ASSUME NEW r \in Procs, WritePid(r), c = Job(r) PROVE FALSE
  <2>1. child[c].st \in Alive
    BY <1>4 DEF WritePid, Unharmed, Returning
  <2>2. child' = child BY <1>4 DEF WritePid, Dump
  <2> QED BY <1>1, <2>1, <2>2 DEF Alive
<1>5. ASSUME NEW r \in Procs, GetRename(r) \/ WriteExec(r), c = Job(r)
      PROVE  FALSE
  <2>1. exec'[c].pid = FALSE
    BY <1>5, <1>p DEF GetRename, WriteExec, Dump, TypeOK
  <2> QED BY <1>1, <2>1
<1>6. ASSUME NEW r \in Procs, DropExec(r) \/ CommandOver(r), c = Job(r)
      PROVE  FALSE
  BY <1>1, <1>6, <1>p DEF DropExec, CommandOver, RemoveExec, TypeOK
<1>7. ~UnscheduleKilled(c)
  BY <1>1, <1>p DEF UnscheduleKilled, TypeOK
<1>8. exec'[c] = exec[c]
  BY <1>p, <1>4, <1>5, <1>6, <1>7, ExecStep
<1> QED BY <1>1, <1>3, <1>8, StartedBorne DEF Unharmed, Token

\* The command that was waited for, and what comes back with it.
LEMMA WaitedFor ==
  ASSUME Typed, Parents, NEW r \in Procs, Reap(r)
  PROVE  \E c \in Jobs :
           /\ child[c].st = "zombie"
           /\ Returns(r, c)'
           /\ held'[r] = child[c].uses
           /\ \A d \in Jobs : d # c => child'[d] = child[d]
<1>p. TypeOK BY DEF Typed
<1>1. PICK c \in Commands(r) :
        /\ child[c].st = "zombie"
        /\ child' = [child EXCEPT ![c] = [child[c] EXCEPT !.st = "gone",
                                                          !.by = None]]
        /\ held' = [held EXCEPT ![r] = child[c].uses]
        /\ cur' = [cur EXCEPT ![r] = Fresh(0, c[2], "wait")]
        /\ inv' = [inv EXCEPT ![r].ret =
                     {e \in inv[r].ret : e[1] # RetKey(r, c)}
                       \cup {<<RetKey(r, c), c[2]>>}]
  BY DEF Reap
<1>2. c \in Jobs /\ child[c].by = r BY DEF Commands
<1>3. PoolOf(r) = c[1] BY <1>2 DEF Parents
<1>4. inv'[r].pool = inv[r].pool BY <1>1, <1>p DEF TypeOK, Invocation
<1>5. cur'[r].idx = c[2] BY <1>1, <1>p DEF TypeOK, Fresh
<1>6. Job(r)' = c BY <1>2, <1>3, <1>4, <1>5 DEF Job, Jobs
<1>7. pc'[r] = "reaped" BY <1>p DEF Reap, TypeOK
<1>8. held'[r] = child[c].uses BY <1>1, <1>p DEF TypeOK
<1>9. \A d \in Jobs : d # c => child'[d] = child[d]
  BY <1>1, <1>2, <1>p DEF TypeOK
<1> QED BY <1>1, <1>2, <1>6, <1>7, <1>8, <1>9 DEF Returns

\* One that has waited for a command removes the .exec file next.
LEMMA ReapedNext ==
  ASSUME NEW r \in Procs, ProcStep(r), pc[r] = "reaped"
  PROVE  CommandOver(r)
<1>1. ~ScheduleStep(r)
  BY DEF ScheduleStep, ScheduleDuplicate, ScheduleUnknownPool,
    ScheduleAccepted, WriteQueueFile, BumpNext, BlockAgain, BlockReturn
<1>2. ~BookStep(r)
  BY DEF BookStep, Peek, ReadData, ReadMissing, CheckExtra, SkipJob, CheckDone,
    BookList, BookTake, BookMissed, BookFailed, GetLock, GetNothing,
    GetRename, GetMissing, GetAdvance
<1>3. ~LaunchStep(r)
  BY DEF LaunchStep, BookDone, RemoveBooked, WriteExec, WriteNowhere, Popen,
    PopenFailed, WritePid
<1>4. WaitStep(r) => CommandOver(r)
  BY DEF WaitStep, FreeCheck, FreeRemoved, FreeSymlink, FreeDone, DropExec,
    Reap, RunDone, BlockedRunDone
<1> QED BY <1>1, <1>2, <1>3, <1>4 DEF ProcStep

\* What a lost command had, nobody has.
LEMMA LostLeaks ==
  ASSUME Unharmed, [Next]_vars, NEW c \in Jobs, Lost(c)'
  PROVE  Leaked(Token(c))'
<1>p. Typed /\ TypeOK BY DEF Unharmed, AdminTyped, AdminTypeOK, Typed
<1>1. exec'[c] = exec[c] /\ Token(c)' = Token(c) /\ Borne(c)
  BY LostBefore
<1>2. /\ exec[c] # None /\ exec[c].res # None /\ child'[c].st = "gone"
      /\ \A r \in Procs : ~Returns(r, c)'
  BY <1>1 DEF Lost, Stale
<1>3. Token(c) \in Tokens
  BY <1>2, <1>p DEF Token, Tokens, Jobs, TypeOK, ExecFile
<1>4. CASE child[c].st \in Alive /\ Token(c) \in child[c].uses
  <2>1. ASSUME NEW r \in Procs, Reap(r) PROVE FALSE
    BY <1>2, <1>4, <1>p, <2>1, WaitedFor DEF Unharmed, Belongs, Alive
  <2>2. ASSUME NEW r \in Procs, Popen(r) PROVE FALSE
    <3>1. child'[c] = child[c] \/ child'[c].st = "running"
      BY <2>2, <1>p DEF Popen, TypeOK
    <3> QED BY <1>2, <1>4, <3>1 DEF Alive
  <2>3. ASSUME NEW r \in Procs, BookTake(r) \/ FreeLink(r) PROVE FALSE
    BY <1>2, <1>4, <2>3 DEF BookTake, FreeLink, Alive
  <2>4. Less BY <1>p, <2>1, <2>2, <2>3, Moves
  <2>5. \A t \in child[c].uses : Leaked(t)'
    BY <1>2, <1>4, <1>p, <2>4, UsesLeak DEF Unharmed, Alive
  <2> QED BY <1>1, <1>4, <2>5
<1>5. ASSUME NEW r \in Procs, Returns(r, c), Token(c) \in held[r]
      PROVE  Leaked(Token(c))'
  <2>1. ~Still(r) BY <1>2, <1>5 DEF Returns, Still, Job
  <2>2. ~ProcStep(r)
    <3>1. CommandOver(r) => exec'[c] = None
      BY <1>5, <1>p DEF CommandOver, RemoveExec, Returns, TypeOK
    <3> QED BY <1>1, <1>2, <1>5, <3>1, ReapedNext DEF Returns
  <2>3. Exit(r)
    BY <1>5, <1>p, <2>1, <2>2, Turns DEF Returns, StartRun, ScheduleLock, Die
  <2>4. Less /\ held'[r] = {} BY <1>p, <2>3, ExitLess
  <2>5. \A t \in held[r] : Leaked(t)' BY <1>p, <2>4, HeldLeaks DEF Unharmed
  <2> QED BY <1>1, <1>5, <2>5
<1>6. CASE Leaked(Token(c))
  <2>1. \A t \in Tokens : Leaked(t) => Leaked(t)'
    BY <1>p, LeakedStep DEF Unharmed
  <2> QED BY <1>1, <1>3, <1>6, <2>1
<1> QED BY <1>1, <1>4, <1>5, <1>6 DEF Borne

\* So the steps of the queue keep Lasting.
LEMMA LastingStep ==
  ASSUME Unharmed, [Next]_vars
  PROVE  Lasting'
<1>1. ASSUME NEW c \in Jobs, NEW d \in Jobs, c # d, Lost(c)', Lost(d)'
      PROVE  Token(c)' # Token(d)'
  <2>1. /\ Token(c)' = Token(c) /\ Borne(c)
        /\ Token(d)' = Token(d) /\ Borne(d)
    BY <1>1, LostBefore
  <2> QED BY <1>1, <2>1, BorneApart DEF Unharmed
<1> QED BY <1>1, LostLeaks DEF Lasting

\* A runner records the pid of a command that is its own, and has back what it
\* used once it has waited for it.
LEMMA ReturningStep ==
  ASSUME Unharmed, [Next]_vars
  PROVE  Returning'
<1>p. /\ Typed /\ TypeOK /\ LocalsOK
      /\ Parents /\ Owned /\ Recording /\ RunningRecorded
      /\ IdsOK /\ Returning
  BY DEF Unharmed, AdminTyped, AdminTypeOK, Typed, Belongs
<1>1. ASSUME NEW r \in Procs, Popen(r)
      PROVE  child'[Job(r)'].by = r /\ child'[Job(r)'].st \in Alive
  <2>1. Job(r) \in Jobs /\ Job(r)' = Job(r)
    BY <1>1, <1>p, JobType DEF Popen, LocalsOK, ProcOK, Job
  <2> QED BY <1>1, <1>p, <2>1 DEF Popen, TypeOK, Alive
<1>2. ASSUME NEW r \in Procs, Reap(r)
      PROVE  Token(Job(r))' \in held'[r]
  <2>1. PICK c \in Jobs :
          /\ child[c].st = "zombie"
          /\ Job(r)' = c /\ held'[r] = child[c].uses
    BY <1>2, <1>p, WaitedFor DEF Returns
  <2>2. Token(c) \in child[c].uses
    BY <1>p, <2>1 DEF RunningRecorded, Token, Alive
  <2>3. exec' = exec BY <1>2 DEF Reap
  <2> QED BY <2>1, <2>2, <2>3 DEF Token
<1>3. ASSUME NEW r \in Procs, Still(r), pc[r] = "pid"
      PROVE  child'[Job(r)].by = r /\ child'[Job(r)].st \in Alive
  <2>1. Job(r) \in Jobs BY <1>3, <1>p, JobType DEF LocalsOK, ProcOK
  <2>2. child[Job(r)].by = r /\ child[Job(r)].st \in Alive
    BY <1>3, <1>p DEF Returning
  <2>3. ASSUME NEW s \in Procs, Popen(s)
        PROVE  child'[Job(r)] = child[Job(r)]
    <3>1. Owns(s) BY <1>p, <2>3 DEF Popen, Owns, Holding, LocalsOK, ProcOK
    <3>2. Job(s) # Job(r) BY <1>p, <2>2, <3>1 DEF Owned, Alive
    <3> QED BY <1>p, <2>1, <2>3, <3>2 DEF Popen, TypeOK
  <2>4. ASSUME NEW s \in Procs, Reap(s)
        PROVE  child'[Job(r)] = child[Job(r)]
    <3>1. s # r BY <1>3, <2>4 DEF Reap
    <3>2. PICK d \in Commands(s) :
            child' = [child EXCEPT ![d] = [child[d] EXCEPT !.st = "gone",
                                                          !.by = None]]
      BY <2>4 DEF Reap
    <3>3. d # Job(r) BY <2>2, <3>1, <3>2 DEF Commands
    <3> QED BY <1>p, <2>1, <3>2, <3>3 DEF TypeOK, Commands
  <2>5. ASSUME NEW s \in Procs, Exit(s)
        PROVE  child'[Job(r)] = child[Job(r)]
    <3>1. s # r BY <1>3, <1>p, <2>5 DEF Exit, Idle, Still, TypeOK
    <3> QED BY <2>1, <2>2, <2>5, <3>1 DEF Exit
  <2>6. ASSUME NEW d \in Jobs, ChildExit(d)
        PROVE  child'[Job(r)].by = r /\ child'[Job(r)].st \in Alive
    <3>1. CASE d # Job(r) BY <1>p, <2>1, <2>2, <2>6, <3>1 DEF ChildExit, TypeOK
    <3>2. CASE d = Job(r)
      <4>1. child' = [child EXCEPT ![d].st = "zombie"]
        BY <2>2, <2>6, <3>2 DEF ChildExit
      <4> QED BY <1>p, <2>1, <2>2, <3>2, <4>1 DEF TypeOK, Child, Alive
    <3> QED BY <3>1, <3>2
  <2> QED BY <2>2, <2>3, <2>4, <2>5, <2>6, ChildWriters
<1>4. ASSUME NEW r \in Procs, Still(r), pc[r] = "reaped",
             exec'[Job(r)] # None
      PROVE  Token(Job(r))' \in held'[r]
  <2>1. Job(r) \in Jobs BY <1>4, <1>p, JobType DEF LocalsOK, ProcOK
  <2>2. child[Job(r)].st = "gone" BY <1>4, <1>p DEF Recording, ProcRecorded
  <2>3. ASSUME NEW s \in Procs, WriteExec(s) \/ DropExec(s), Job(r) = Job(s)
        PROVE  FALSE
    <3>1. Owns(s)
      BY <1>p, <2>3 DEF WriteExec, DropExec, Owns, Holding, LocalsOK, ProcOK
    <3> QED BY <1>p, <2>2, <2>3, <3>1 DEF Owned
  <2>4. ASSUME NEW s \in Procs, WritePid(s), Job(r) = Job(s) PROVE FALSE
    BY <1>p, <2>2, <2>4 DEF WritePid, Returning, Alive
  <2>5. ASSUME NEW s \in Procs, GetRename(s), Job(r) = Job(s) PROVE FALSE
    BY <1>p, <2>1, <2>2, <2>5 DEF GetRename, IdsOK, QueuedIsFresh
  <2>6. ASSUME NEW s \in Procs, CommandOver(s), Job(r) = Job(s) PROVE FALSE
    BY <1>p, <1>4, <2>1, <2>6 DEF CommandOver, RemoveExec, TypeOK
  <2>7. ~UnscheduleKilled(Job(r))
    BY <1>p, <1>4, <2>1 DEF UnscheduleKilled, TypeOK
  <2>8. exec'[Job(r)] = exec[Job(r)]
    BY <1>p, <2>1, <2>3, <2>4, <2>5, <2>6, <2>7, ExecStep
  <2>9. Token(Job(r)) \in held[r] BY <1>p, <1>4, <2>8 DEF Returning
  <2>10. Job(r)' = Job(r) /\ held'[r] = held[r] BY <1>4 DEF Still, Job
  <2> QED BY <2>8, <2>9, <2>10 DEF Token
<1> SUFFICES ASSUME NEW r \in Procs
             PROVE  /\ pc'[r] = "pid" => /\ child'[Job(r)'].by = r
                                         /\ child'[Job(r)'].st \in Alive
                    /\ pc'[r] = "reaped" /\ exec'[Job(r)'] # None
                         => Token(Job(r))' \in held'[r]
  BY DEF Returning
<1>5. CASE ProcStep(r)
  <2>1. Popen(r) => pc'[r] = "pid" BY <1>p DEF Popen, TypeOK
  <2>2. Reap(r) => pc'[r] = "reaped" BY <1>p DEF Reap, TypeOK
  <2>3. pc'[r] \in {"pid", "reaped"} => Popen(r) \/ Reap(r)
    BY <1>5, <1>p, CommandTurn
  <2> QED BY <1>1, <1>2, <2>1, <2>2, <2>3
<1>6. CASE Still(r)
  <2>1. Job(r)' = Job(r) /\ pc'[r] = pc[r] BY <1>6 DEF Still, Job
  <2> QED BY <1>3, <1>4, <1>6, <2>1
<1>7. CASE \/ \E p \in RunPools : StartRun(r, p)
           \/ \E q \in Requests : ScheduleLock(r, q)
           \/ Die(r)
  BY <1>7, <1>p DEF StartRun, ScheduleLock, Die, Exit, Idle, TypeOK
<1> QED BY <1>p, <1>5, <1>6, <1>7, Turns

\* What a clean is about to free stays nobody's.
LEMMA SweepingStep ==
  ASSUME Unharmed, AdminTypeOK, [Next]_vars, UNCHANGED adminVars
  PROVE  Sweeping'
<1> SUFFICES ASSUME NEW p \in Pools
             PROVE  freeing[p] # None =>
                      /\ Leaked(<<p, freeing[p]>>)'
                      /\ \A c \in Jobs :
                           Lost(c)' => Token(c)' # <<p, freeing[p]>>
  BY DEF Sweeping, adminVars, Leaked
<1>p. Typed BY DEF Unharmed, AdminTyped, AdminTypeOK, Typed
<1>2. ASSUME freeing[p] # None
      PROVE  /\ Leaked(<<p, freeing[p]>>)'
             /\ \A c \in Jobs : Lost(c)' => Token(c)' # <<p, freeing[p]>>
  <2>1. <<p, freeing[p]>> \in Tokens BY <1>2 DEF AdminTypeOK, Tokens
  <2>2. /\ Leaked(<<p, freeing[p]>>)
        /\ \A c \in Jobs : Lost(c) => Token(c) # <<p, freeing[p]>>
    BY <1>2 DEF Unharmed, Sweeping
  <2>3. \A t \in Tokens : Leaked(t) => Leaked(t)'
    BY <1>p, LeakedStep DEF Unharmed
  <2>4. Leaked(<<p, freeing[p]>>)' BY <2>1, <2>2, <2>3 DEF adminVars, Leaked
  <2>5. ASSUME NEW c \in Jobs, Lost(c)'
        PROVE  Token(c)' # <<p, freeing[p]>>
    <3>1. Token(c)' = Token(c) /\ Borne(c) BY <2>5, LostBefore
    <3>2. Token(c) # <<p, freeing[p]>> BY <2>2, <3>1 DEF Borne, Leaked
    <3> QED BY <3>1, <3>2
  <2> QED BY <2>4, <2>5
<1> QED BY <1>2

\* A clean that takes no file from a runner takes those of lost commands ...
LEMMA DeleteUnharmed ==
  ASSUME Unharmed, NEW p \in Pools, CleanDelete(p), mishap' = "none"
  PROVE  (Exclusive /\ Freeing /\ Returning /\ Lasting /\ Sweeping)'
<1>p. AdminTypeOK /\ TypeOK BY DEF Unharmed, AdminTyped, AdminTypeOK
<1>1. PICK i \in cleaning[p] :
        /\ Stale(<<p, i>>)
        /\ exec' = [exec EXCEPT ![<<p, i>>] = None]
        /\ freeing' = [freeing EXCEPT ![p] = exec[<<p, i>>].res]
        /\ cleaning' = [cleaning EXCEPT ![p] = @ \ {i}]
        /\ Snatching(<<p, i>>)
  BY DEF CleanDelete
<1> DEFINE c == <<p, i>>
<1>2. UNCHANGED <<dirVars, seqVars, queue, lock, child, procVars, userVars>>
  BY DEF CleanDelete
<1>3. c \in Jobs
  BY <1>1, <1>p DEF AdminTypeOK, Jobs
<1>4. Lost(c)
  <2>1. Shared(\E r \in Procs : Returns(r, c)) BY <1>1 DEF Snatching
  <2>2. ~(\E r \in Procs : Returns(r, c)) BY <2>1 DEF Shared
  <2> QED BY <1>1, <2>2 DEF Lost
<1>5. Leaked(Token(c)) /\ \A d \in Jobs : d # c /\ Lost(d) => Token(d) # Token(c)
  BY <1>3, <1>4 DEF Unharmed, Lasting
<1>6. /\ exec'[c] = None
      /\ \A d \in Jobs : d # c => exec'[d] = exec[d]
  BY <1>1, <1>3, <1>p DEF TypeOK
<1>7. ASSUME NEW d \in Jobs, Lost(d)'
      PROVE  d # c /\ Lost(d) /\ Token(d)' = Token(d)
  <2>1. d # c BY <1>6, <1>7 DEF Lost, Stale
  <2> QED BY <1>2, <1>6, <1>7, <2>1
      DEF Lost, Stale, Returns, Job, Token, procVars
<1>8. \A t : Leaked(t) => Leaked(t)' BY <1>2 DEF Leaked, procVars
<1>9. Exclusive' /\ Freeing'
  BY <1>2 DEF Unharmed, Exclusive, Freeing, procVars
<1>10. Returning'
  <2>1. \A r \in Procs : pc[r] = "reaped" => Job(r) \in Jobs
    BY JobType DEF Unharmed, AdminTyped, AdminTypeOK, Typed, LocalsOK, ProcOK
  <2> QED BY <1>2, <1>6, <2>1 DEF Unharmed, Returning, Job, Token, procVars
<1>11. Lasting'
  <2>1. ASSUME NEW d \in Jobs, Lost(d)' PROVE Leaked(Token(d))'
    <3>1. Lost(d) /\ Token(d)' = Token(d) BY <1>7, <2>1
    <3>2. Leaked(Token(d)) BY <3>1 DEF Unharmed, Lasting
    <3> QED BY <1>2, <3>1, <3>2 DEF Leaked, procVars
  <2>2. ASSUME NEW d \in Jobs, NEW e \in Jobs, d # e, Lost(d)', Lost(e)'
        PROVE  Token(d)' # Token(e)'
    BY <1>7, <2>2 DEF Unharmed, Lasting
  <2> QED BY <2>1, <2>2 DEF Lasting
<1>12. Sweeping'
  <2> SUFFICES ASSUME NEW q \in Pools
               PROVE  freeing'[q] # None =>
                        /\ Leaked(<<q, freeing[q]>>)'
                        /\ \A d \in Jobs :
                             Lost(d)' => Token(d)' # <<q, freeing'[q]>>
    BY DEF Sweeping
  <2>2. CASE q = p
    <3>1. <<q, freeing'[q]>> = Token(c) BY <1>1, <1>p, <2>2 DEF AdminTypeOK, Token
    <3>2. Leaked(<<q, freeing[q]>>)'
      BY <1>2, <1>5, <3>1 DEF Leaked, procVars
    <3>3. \A d \in Jobs : Lost(d)' => Token(d)' # <<q, freeing'[q]>>
      BY <1>5, <1>7, <3>1
    <3> QED BY <3>2, <3>3
  <2>3. CASE q # p
    <3>1. freeing'[q] = freeing[q] BY <1>1, <1>p, <2>3 DEF AdminTypeOK
    <3>2. freeing[q] # None =>
            /\ Leaked(<<q, freeing[q]>>)
            /\ \A d \in Jobs : Lost(d) => Token(d) # <<q, freeing[q]>>
      BY DEF Unharmed, Sweeping
    <3>3. freeing'[q] # None => Leaked(<<q, freeing[q]>>)'
      BY <1>2, <3>1, <3>2 DEF Leaked, procVars
    <3> QED BY <1>7, <3>1, <3>2, <3>3
  <2> QED BY <2>2, <2>3
<1> QED BY <1>9, <1>10, <1>11, <1>12

\* ... and what it frees is nobody's.
LEMMA FreeUnharmed ==
  ASSUME Unharmed, NEW p \in Pools, CleanFree(p)
  PROVE  (Exclusive /\ Freeing /\ Returning /\ Lasting /\ Sweeping)'
<1> DEFINE t == <<p, freeing[p]>>
<1>p. AdminTypeOK /\ TypeOK BY DEF Unharmed, AdminTyped, AdminTypeOK
<1>1. /\ freeing[p] # None
      /\ freeing' = [freeing EXCEPT ![p] = None]
      /\ UNCHANGED <<pool, reason, seqVars, queue, exec, lock, child, procVars,
                     userVars>>
  BY DEF CleanFree
<1>2. Leaked(t) /\ \A c \in Jobs : Lost(c) => Token(c) # t
  BY <1>1 DEF Unharmed, Sweeping
<1>3. ASSUME NEW u \in Tokens, u # t, u[2] \notin avail[u[1]]
      PROVE  u[2] \notin avail'[u[1]]
  <2>1. avail' = [avail EXCEPT ![p] = avail[p] \cup ({freeing[p]} \cap pool[p])]
    BY DEF CleanFree
  <2>2. u[1] \in Pools /\ u = <<u[1], u[2]>> BY <1>3 DEF Tokens
  <2>3. u[1] # p \/ u[2] # freeing[p] BY <1>3, <2>2
  <2> QED BY <1>3, <1>p, <2>1, <2>2, <2>3 DEF TypeOK
<1>4. Freeing' /\ Returning'
  BY <1>1 DEF Unharmed, Freeing, Returning, Job, Token, procVars
<1>5. Exclusive'
  <2>1. \A r \in Procs : \A u \in held[r] : u \in Tokens /\ u # t
    <3>1. \A r \in Procs : \A u \in held[r] : u \in Tokens
      BY <1>p DEF TypeOK
    <3> QED BY <1>2, <3>1 DEF Leaked
  <2>2. \A c \in Jobs : child[c].st \in Alive =>
          \A u \in child[c].uses : u \in Tokens /\ u # t
    <3>1. \A c \in Jobs : \A u \in child[c].uses : u \in Tokens
      BY <1>p DEF TypeOK, Child
    <3> QED BY <1>2, <3>1 DEF Leaked
  <2>3. /\ \A r \in Procs : \A u \in held[r] : u[2] \notin avail'[u[1]]
        /\ \A c \in Jobs : child[c].st \in Alive =>
             \A u \in child[c].uses : u[2] \notin avail'[u[1]]
    BY <1>3, <2>1, <2>2 DEF Unharmed, Exclusive
  <2> QED BY <1>1, <2>3 DEF Unharmed, Exclusive, procVars
<1>6. \A c \in Jobs : /\ Lost(c)' <=> Lost(c)
                      /\ Token(c)' = Token(c)
                      /\ Lost(c) => Token(c) \in Tokens
  BY <1>1, <1>p DEF Lost, Stale, Returns, Job, Token, procVars, Tokens, Jobs,
    TypeOK, ExecFile
<1>7. Lasting'
  <2>1. ASSUME NEW c \in Jobs, Lost(c)' PROVE Leaked(Token(c))'
    <3>1. Leaked(Token(c)) /\ Token(c) # t /\ Token(c) \in Tokens
      BY <1>2, <1>6, <2>1 DEF Unharmed, Lasting
    <3> QED BY <1>1, <1>3, <1>6, <3>1 DEF Leaked, procVars
  <2> QED BY <1>6, <2>1 DEF Unharmed, Lasting
<1>8. Sweeping'
  <2> SUFFICES ASSUME NEW q \in Pools
               PROVE  freeing'[q] # None =>
                        /\ Leaked(<<q, freeing[q]>>)'
                        /\ \A c \in Jobs :
                             Lost(c) => Token(c) # <<q, freeing'[q]>>
    BY <1>1, <1>6 DEF Sweeping
  <2>2. ASSUME freeing'[q] # None
        PROVE  /\ q # p /\ freeing'[q] = freeing[q]
               /\ <<q, freeing[q]>> \in Tokens
    BY <1>1, <1>p, <2>2 DEF AdminTypeOK, Tokens
  <2>3. freeing[q] # None =>
          /\ Leaked(<<q, freeing[q]>>)
          /\ \A c \in Jobs : Lost(c) => Token(c) # <<q, freeing[q]>>
    BY DEF Unharmed, Sweeping
  <2>4. freeing'[q] # None => Leaked(<<q, freeing[q]>>)'
    BY <1>1, <1>3, <2>2, <2>3 DEF Leaked, procVars
  <2> QED BY <2>2, <2>3, <2>4
<1> QED BY <1>4, <1>5, <1>7, <1>8

\* A clean that lists, finds nothing to remove, or ends changes nothing else.
LEMMA SkipUnharmed ==
  ASSUME Unharmed, NEW p \in Pools,
         \/ CleanList(p) \/ CleanMissing(p) \/ CleanKeep(p)
         \/ CleanExists(p) \/ CleanDone(p)
  PROVE  (Exclusive /\ Freeing /\ Returning /\ Lasting /\ Sweeping)'
<1>p. AdminTypeOK BY DEF Unharmed, AdminTyped
<1>1. UNCHANGED vars
  BY DEF CleanList, CleanMissing, CleanKeep, CleanExists, CleanDone
<1>2. \A q \in Pools : freeing'[q] \in {freeing[q], None}
  BY <1>p DEF CleanList, CleanMissing, CleanKeep, CleanExists, CleanDone,
    AdminTypeOK
<1>3. (Exclusive /\ Freeing /\ Returning /\ Lasting)'
  <2>1. Exclusive' /\ Freeing'
    BY <1>1 DEF Unharmed, Exclusive, Freeing, vars, procVars
  <2>2. Returning'
    BY <1>1 DEF Unharmed, Returning, Token, Job, vars, procVars
  <2>3. \A c \in Jobs : /\ Lost(c)' <=> Lost(c)
                        /\ Token(c)' = Token(c)
                        /\ Leaked(Token(c))' <=> Leaked(Token(c))
    BY <1>1 DEF Lost, Stale, Returns, Leaked, Token, Job, vars, procVars
  <2>4. Lasting' BY <2>3 DEF Unharmed, Lasting
  <2> QED BY <2>1, <2>2, <2>4
<1>4. Sweeping'
  <2>2. ASSUME NEW q \in Pools, freeing'[q] # None
        PROVE  /\ Leaked(<<q, freeing[q]>>)'
               /\ \A c \in Jobs : Lost(c)' => Token(c)' # <<q, freeing'[q]>>
    <3>1. freeing'[q] = freeing[q] BY <1>2, <2>2
    <3>2. /\ Leaked(<<q, freeing[q]>>)
          /\ \A c \in Jobs : Lost(c) => Token(c) # <<q, freeing[q]>>
      BY <2>2, <3>1 DEF Unharmed, Sweeping
    <3> QED BY <1>1, <3>1, <3>2 DEF Leaked, Lost, Stale, Returns, Job, Token,
          vars, procVars
  <2> QED BY <2>2 DEF Sweeping
<1> QED BY <1>3, <1>4

\* What add-resource links is nobody's, or available already.
LEMMA AddUnharmed ==
  ASSUME Unharmed, NEW t \in Additions, AddResource(t), mishap' = "none"
  PROVE  (Exclusive /\ Freeing /\ Returning /\ Lasting /\ Sweeping)'
<1>p. /\ AdminTypeOK /\ TypeOK
      /\ t \in Tokens /\ t[1] \in Pools /\ t[2] \in Resources
      /\ t = <<t[1], t[2]>>
  BY DEF Unharmed, AdminTyped, AdminTypeOK, Tokens
<1>1. UNCHANGED <<seqVars, queue, exec, lock, child, procVars, userVars,
                  freeing>>
  BY DEF AddResource, AddCreate, AddList, AddLook, AddCheckLink,
    AddLink, AddReason, vars
<1>2. \/ avail' = avail
      \/ Nobodys(t) /\ avail' = [avail EXCEPT ![t[1]] = avail[t[1]] \cup {t[2]}]
  <2>1. CASE AddLink(t)
    <3>1. CASE t[2] \in avail[t[1]]
      <4>1. avail[t[1]] \cup {t[2]} = avail[t[1]] BY <3>1
      <4> QED BY <2>1, <4>1, <1>p DEF AddLink, TypeOK
    <3>2. CASE t[2] \notin avail[t[1]]
      BY <2>1, <3>2 DEF AddLink, Shared
    <3> QED BY <3>1, <3>2
  <2>2. CASE ~AddLink(t)
    BY <2>2 DEF AddResource, AddCreate, AddList, AddLook,
      AddCheckLink, AddReason, vars
  <2> QED BY <2>1, <2>2
<1>3. ASSUME NEW u \in Tokens, Nobodys(t) => u # t, u[2] \notin avail[u[1]]
      PROVE  u[2] \notin avail'[u[1]]
  <2>1. u[1] \in Pools /\ u = <<u[1], u[2]>> BY <1>3 DEF Tokens
  <2>2. CASE avail' = avail BY <1>3, <2>2
  <2>3. CASE Nobodys(t) /\ avail' = [avail EXCEPT ![t[1]] = avail[t[1]] \cup {t[2]}]
    <3>1. u[1] # t[1] \/ u[2] # t[2] BY <1>3, <1>p, <2>1, <2>3
    <3> QED BY <1>3, <1>p, <2>1, <2>3, <3>1 DEF TypeOK
  <2> QED BY <1>2, <2>2, <2>3
<1>4. Freeing' /\ Returning'
  BY <1>1 DEF Unharmed, Freeing, Returning, Job, Token, procVars
<1>5. Exclusive'
  <2>1. \A r \in Procs : \A u \in held[r] :
          u \in Tokens /\ (Nobodys(t) => u # t)
    BY <1>p DEF Nobodys, Leaked, TypeOK
  <2>2. \A c \in Jobs : child[c].st \in Alive =>
          \A u \in child[c].uses : u \in Tokens /\ (Nobodys(t) => u # t)
    <3>1. \A c \in Jobs : \A u \in child[c].uses : u \in Tokens
      BY <1>p DEF TypeOK, Child
    <3> QED BY <3>1 DEF Nobodys, Leaked
  <2>3. /\ \A r \in Procs : \A u \in held[r] : u[2] \notin avail'[u[1]]
        /\ \A c \in Jobs : child[c].st \in Alive =>
             \A u \in child[c].uses : u[2] \notin avail'[u[1]]
    BY <1>3, <2>1, <2>2 DEF Unharmed, Exclusive
  <2> QED BY <1>1, <2>3 DEF Unharmed, Exclusive, procVars
<1>6. \A c \in Jobs : /\ Lost(c)' <=> Lost(c)
                      /\ Token(c)' = Token(c)
                      /\ Lost(c) => Token(c) \in Tokens /\ Stale(c)
  BY <1>1, <1>p DEF Lost, Stale, Returns, Job, Token, procVars, Tokens, Jobs,
    TypeOK, ExecFile
<1>7. Lasting'
  <2>1. ASSUME NEW c \in Jobs, Lost(c)' PROVE Leaked(Token(c))'
    <3>1. /\ Leaked(Token(c)) /\ Token(c) \in Tokens
          /\ Nobodys(t) => Token(c) # t
      BY <1>6, <2>1 DEF Unharmed, Lasting, Nobodys
    <3> QED BY <1>1, <1>3, <1>6, <3>1 DEF Leaked, procVars
  <2> QED BY <1>6, <2>1 DEF Unharmed, Lasting
<1>8. Sweeping'
  <2>1. ASSUME NEW q \in Pools, freeing[q] # None
        PROVE  /\ Leaked(<<q, freeing[q]>>)'
               /\ \A c \in Jobs : Lost(c) => Token(c) # <<q, freeing[q]>>
    <3>1. /\ Leaked(<<q, freeing[q]>>)
          /\ \A c \in Jobs : Lost(c) => Token(c) # <<q, freeing[q]>>
      BY <2>1 DEF Unharmed, Sweeping
    <3>2. <<q, freeing[q]>> \in Tokens BY <2>1, <1>p DEF AdminTypeOK, Tokens
    <3>3. Nobodys(t) => <<q, freeing[q]>> # t BY DEF Nobodys
    <3> QED BY <1>1, <1>3, <3>1, <3>2, <3>3 DEF Leaked, procVars
  <2> QED BY <1>1, <1>6, <2>1 DEF Sweeping
<1> QED BY <1>4, <1>5, <1>7, <1>8

\* After a reboot the commands that were running are lost, like those whose
\* runners have died before it.
LEMMA RebootUnharmed ==
  ASSUME Unharmed, Reboot
  PROVE  (Exclusive /\ Freeing /\ Returning /\ Lasting /\ Sweeping)'
<1>p. AdminTypeOK /\ TypeOK BY DEF Unharmed, AdminTyped, AdminTypeOK
<1>1. \A c \in Jobs : /\ child'[c].st \notin Alive
                      /\ child[c].st \in {"none", "gone"} => child'[c] = child[c]
                      /\ child[c].st = "none" \/ child'[c].st = "gone"
                      /\ child[c].st \in Alive \cup {"none", "gone"}
  BY <1>p DEF Reboot, TypeOK, Alive, Child
<1>2. /\ UNCHANGED treeVars /\ killing' = {}
      /\ \A r \in Procs : pc'[r] = "idle" /\ held'[r] = {}
      /\ \A p \in Pools : freeing'[p] = None
  BY DEF Reboot
<1>3. (Exclusive /\ Freeing /\ Returning)'
  BY <1>1, <1>2 DEF Exclusive, Freeing, Returning
<1>4. ASSUME NEW c \in Jobs, Lost(c)'
      PROVE  Borne(c) /\ Token(c)' = Token(c)
  <2>1. exec' = exec BY <1>2
  <2>2. child[c].st \in Alive \cup {"gone"}
    BY <1>1, <1>4 DEF Lost, Stale
  <2> QED BY <1>4, <2>1, <2>2, StartedBorne DEF Unharmed, Lost, Stale, Token
<1>5. ASSUME NEW c \in Jobs, Borne(c)
      PROVE  Token(c)[2] \notin avail[Token(c)[1]]
  BY <1>5 DEF Borne, Leaked, Unharmed, Exclusive
<1>6. Lasting'
  <2>1. ASSUME NEW c \in Jobs, Lost(c)' PROVE Leaked(Token(c))'
    BY <1>1, <1>2, <1>4, <1>5, <2>1 DEF Leaked
  <2>2. ASSUME NEW c \in Jobs, NEW d \in Jobs, c # d, Lost(c)', Lost(d)'
        PROVE  Token(c)' # Token(d)'
    BY <1>4, <2>2, BorneApart DEF Unharmed
  <2> QED BY <2>1, <2>2 DEF Lasting
<1>7. Sweeping' BY <1>2 DEF Sweeping
<1> QED BY <1>3, <1>6, <1>7

\* So all of it holds until the first mishap.
LEMMA UnharmedStep ==
  ASSUME Unharmed, [AdminNext]_allVars, mishap' = "none"
  PROVE  Unharmed'
<1>p. /\ AdminTyped /\ IdsOK /\ Belongs /\ AdminTypeOK /\ Typed /\ LocalsOK
  BY DEF Unharmed, AdminTyped, AdminTypeOK, Typed
<1>1. (AdminTyped /\ IdsOK /\ Belongs)'
  BY <1>p, AdminTypedStep, AdminIdsStep, BelongsStep DEF AllWritten
<1>2. ASSUME [Next]_vars, UNCHANGED adminVars
      PROVE  (Exclusive /\ Freeing /\ Returning /\ Lasting /\ Sweeping)'
  BY <1>2, <1>p, NextExclusive, ReturningStep, LastingStep, SweepingStep
  DEF Unharmed
<1>3. ~\E r \in Unlucky : WritePidFails(r) BY DEF WritePidFails
<1>4. \/ [Next]_vars /\ UNCHANGED adminVars
      \/ \E t \in Additions : AddResource(t)
      \/ \E p \in Pools : CleanList(p) \/ CleanStep(p)
      \/ Reboot
  BY <1>3 DEF AdminNext, allVars
<1>5. (Exclusive /\ Freeing /\ Returning /\ Lasting /\ Sweeping)'
  BY <1>2, <1>4, AddUnharmed, SkipUnharmed, DeleteUnharmed, FreeUnharmed,
    RebootUnharmed
  DEF CleanStep
<1> QED BY <1>1, <1>5 DEF Unharmed

\* A runner that books twice in a pool is given two resources of it.
LEMMA UnharmedEquippedStep ==
  Unharmed /\ Equipped /\ FullyEquipped /\ [AdminNext]_allVars
    => Equipped' /\ FullyEquipped'
<1> SUFFICES ASSUME Unharmed, Equipped, FullyEquipped, [AdminNext]_allVars
             PROVE  Equipped' /\ FullyEquipped'
  OBVIOUS
<1>1. /\ AdminTyped /\ Typed /\ TypeOK /\ AdminTypeOK /\ LocalsOK
      /\ Exclusive
  BY DEF Unharmed, AdminTyped, AdminTypeOK, Typed
<1>2. CASE [Next]_vars
  BY <1>1, <1>2, ExclusiveEquipped, FullyEquippedStep
<1>3. CASE Sweep \/ Reboot \/ Unwritten
  BY <1>1, <1>3, QuietEquipped
<1> QED BY <1>1, <1>2, <1>3, AdminSteps

\* A clean, of the boot or by hand, next to the runners and at any moment,
\* gives a resource to two commands only by taking the .exec file of a command
\* from the runner that has waited for it and has yet to remove it, and an
\* add-resource only by linking what somebody has or a file left behind names:
\* where neither has happened, nor a failed write of a pid, resources are
\* exclusive and commands run on all they asked for, in any number of pools and
\* across any number of reboots.
THEOREM AdminInductiveCorrect == AdminSpec => []AdminInductive
<1> DEFINE Whole == Unharmed /\ Equipped /\ FullyEquipped
           IInv == /\ AdminTyped /\ IdsOK /\ Chosen
                   /\ AllWritten => Belongs
                   /\ mishap = "none" => Whole
<1>1. AdminInit => IInv
  <2>1. AdminInit => AdminTyped
    BY InitTyped DEF AdminInit, AdminTyped, AdminTypeOK, Typed
  <2>2. AdminInit => IdsOK /\ Belongs
    BY AdminInitIds, AdminInitBelongs
  <2>3. AdminInit => Exclusive /\ Freeing /\ Chosen /\ Equipped /\ FullyEquipped
    BY DEF AdminInit, Init, Exclusive, Freeing, Chosen, Equipped, ProcEquipped,
      Equipping, EmptyHanded, FullyEquipped, NoChild, Alive
  <2>4. AdminInit => Returning /\ Lasting /\ Sweeping
    BY DEF AdminInit, Init, Returning, Lasting, Lost, Stale, Sweeping
  <2> QED BY <2>1, <2>2, <2>3, <2>4 DEF Unharmed
<1>2. IInv /\ [AdminNext]_allVars => IInv'
  <2> SUFFICES ASSUME IInv, [AdminNext]_allVars PROVE IInv'
    OBVIOUS
  <2>1. (AdminTyped /\ IdsOK /\ Chosen /\ (AllWritten => Belongs))'
    BY AdminTypedStep, AdminIdsStep, AdminChosenStep, BelongsStep
  <2>2. ASSUME mishap' = "none" PROVE Whole'
    <3>1. mishap = "none" BY <2>2, MishapsStay DEF AdminTyped
    <3>2. Whole BY <3>1
    <3> QED BY <2>2, <3>2, UnharmedStep, UnharmedEquippedStep
  <2> QED BY <2>1, <2>2
<1>3. IInv => AdminInductive
  BY DEF AdminTyped, AllWritten, Unharmed, AdminInductive
<1> QED BY <1>1, <1>2, <1>3, PTL DEF AdminSpec
=============================================================================
