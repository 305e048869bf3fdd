------------------------ MODULE DciQueueLeaseProofs ------------------------
(***************************************************************************)
(* Proofs about what the runners of a queue do for a job: it is consumed   *)
(* in order, by one process, and started on the resources it asks for.     *)
(***************************************************************************)
EXTENDS DciQueueProofs, FiniteSetTheorems

USE ConstantsAssumption, SubsAssumption, RequestsAssumption
USE DEF Step, PoolOf, Scheduling, Launching, treeVars, dirVars, seqVars,
        localVars, userVars

-----------------------------------------------------------------------------
(* Whose turn it is.                                                       *)

\* Process s is where it was.
Still(s) ==
  /\ pc'[s] = pc[s] /\ inv'[s] = inv[s] /\ cur'[s] = cur[s]
  /\ book'[s] = book[s] /\ held'[s] = held[s]

\* A step of a process moves what that process has booked only.
LEMMA HeldFrame ==
  ASSUME Typed, NEW r \in Procs, ProcStep(r), NEW s \in Procs, s # r
  PROVE  held'[s] = held[s]
<1>p. TypeOK BY DEF Typed
<1>1. ScheduleStep(r) => held' = held \/ Exit(r)
  BY DEF ScheduleStep, ScheduleDuplicate, ScheduleUnknownPool,
    ScheduleAccepted, WriteQueueFile, BumpNext, BlockAgain, BlockReturn,
    ScheduleEnd
<1>2. BookStep(r) => held' = held \/ Exit(r) \/ BookTake(r)
  BY DEF BookStep, Peek, ReadData, ReadMissing, CheckExtra, SkipJob, CheckDone,
    BookList, BookMissed, BookFailed, GetLock, GetNothing, GetRename,
    GetMissing, GetAdvance
<1>3. LaunchStep(r) => held' = held \/ Exit(r) \/ Popen(r)
  BY DEF LaunchStep, BookDone, RemoveBooked, WriteExec, WriteNowhere,
    PopenFailed, WritePid, Dump
<1>4. WaitStep(r) => \/ held' = held \/ Exit(r)
                     \/ FreeRemoved(r) \/ FreeLink(r) \/ Reap(r)
  BY DEF WaitStep, FreeCheck, FreeSymlink, FreeExists, FreeDone, DropExec,
    CommandOver, RemoveExec, RunDone, BlockedRunDone
<1>5. \A x : held' = [held EXCEPT ![r] = x] => held'[s] = held[s]
  BY <1>p DEF TypeOK
<1>6. Exit(r) \/ BookTake(r) \/ Popen(r) \/ FreeRemoved(r) \/ FreeLink(r)
        \/ Reap(r) => \E x : held' = [held EXCEPT ![r] = x]
  BY DEF Exit, BookTake, Popen, FreeRemoved, FreeLink, Reap
<1> QED BY <1>1, <1>2, <1>3, <1>4, <1>5, <1>6 DEF ProcStep

\* Where a process goes on when it has nothing left to free.
LEMMA AfterFree ==
  ASSUME TypeOK, NEW r \in Procs, FreeDone(r)
  PROVE  pc'[r] \in {"peek", "drop", "wait"}
<1>1. cur[r].after \in {"peek", "drop", "wait"} BY DEF TypeOK, Current
<1>2. pc \in [Procs -> PC] BY DEF TypeOK
<1>3. pc'[r] = cur[r].after BY <1>2 DEF FreeDone
<1> QED BY <1>1, <1>3

\* In one step a process does something, starts, dies or stays as it is.
LEMMA Turns ==
  ASSUME Typed, [Next]_vars, NEW s \in Procs
  PROVE  \/ ProcStep(s)
         \/ \E p \in RunPools : StartRun(s, p)
         \/ \E q \in Requests : ScheduleLock(s, q)
         \/ Die(s)
         \/ Still(s)
<1>p. TypeOK BY DEF Typed
<1>1. ASSUME NEW r \in Procs, r # s, ProcStep(r) PROVE Still(s)
  BY <1>1, ProcLocal, HeldFrame DEF Local, Others, Still
<1>2. ASSUME NEW r \in Procs, r # s,
             \/ \E p \in RunPools : StartRun(r, p)
             \/ \E q \in Requests : ScheduleLock(r, q)
             \/ Die(r)
      PROVE  Still(s)
  BY <1>2, <1>p DEF StartRun, ScheduleLock, Begin, Die, Exit, Idle, Still,
    TypeOK
<1>3. CASE \/ \E c \in Jobs : ChildExit(c) \/ Unschedule(c)
           \/ \E x \in Removals : RemoveLink(x) \/ RemoveResource(x)
           \/ UNCHANGED vars
  BY <1>3 DEF ChildExit, Unschedule, UnscheduleQueued, UnscheduleKill,
    UnscheduleKilled, UnscheduleTimeout, RemoveLink, RemoveResource,
    procVars, vars, Still
<1> QED BY <1>1, <1>2, <1>3 DEF Next

-----------------------------------------------------------------------------
(* The order of the jobs.                                                  *)

\* Priorities are numbers.
LEMMA PriorityType ==
  ASSUME Typed, NEW c \in Jobs, queue[c] # None
  PROVE  queue[c].priority \in Int
BY DEF Typed, TypeOK, Queueable

\* What the scan under the lock picks comes first.
LEMMA PickedIsForemost ==
  ASSUME Typed, Reachable, NEW p \in Pools, NEW i \in Ids, Picks(p, i)
  PROVE  Foremost(p, i)
<1> SUFFICES ASSUME NEW j \in Ids, j < next[p], queue[<<p, j>>] # None
             PROVE  \/ queue[<<p, j>>].priority < queue[<<p, i>>].priority
                    \/ /\ queue[<<p, j>>].priority = queue[<<p, i>>].priority
                       /\ i <= j
  BY DEF Foremost
<1>1. /\ i \in Candidates(p)
      /\ \A k \in Candidates(p) :
            \/ queue[<<p, k>>].priority < queue[<<p, i>>].priority
            \/ queue[<<p, k>>].priority = queue[<<p, i>>].priority /\ i <= k
  BY DEF Picks, Ids
<1>2. first[p] <= j BY DEF Reachable
<1>3. CASE queue[<<p, j>>].priority > -1
  BY <1>1, <1>2, <1>3 DEF Candidates
<1>4. CASE ~(queue[<<p, j>>].priority > -1)
  <2>1. queue[<<p, i>>].priority > -1 /\ queue[<<p, i>>] # None
    BY <1>1 DEF Candidates
  <2>2. /\ queue[<<p, i>>].priority \in Int
        /\ queue[<<p, j>>].priority \in Int
    BY <2>1, PriorityType DEF Jobs
  <2> QED BY <1>4, <2>1, <2>2
<1> QED BY <1>3, <1>4

\* It stays so while the lock is held: next does not move, and below next
\* files only disappear.
LEMMA ChosenStep ==
  ASSUME Typed, IdsOK, Chosen, [Next]_vars
  PROVE  Chosen'
<1> SUFFICES ASSUME NEW s \in Procs, pc'[s] = "rename", queue'[Job(s)'] # None
             PROVE  Foremost(PoolOf(s), cur[s].idx)'
  BY DEF Chosen
<1>p. TypeOK /\ Typed' /\ ProcOK(s) /\ ProcOK(s)'
  BY NextTyped DEF Typed, LocalsOK
<1>1. CASE Still(s)
  <2>1. /\ pc[s] = "rename" /\ PoolOf(s)' = PoolOf(s) /\ Job(s)' = Job(s)
        /\ cur'[s] = cur[s] /\ PoolOf(s) \in Pools
    BY <1>1, <1>p DEF Still, Job, ProcOK
  <2>2. next'[PoolOf(s)] = next[PoolOf(s)]
    BY <1>p, <2>1 DEF ProcOK
  <2>3. cur[s].idx \in Ids /\ cur[s].idx < next[PoolOf(s)]
    BY <2>1, <1>p DEF IdsOK, Consumed, ProcOK, TypeOK, Current, Ids
  <2>4. next[PoolOf(s)] \in Nat BY <2>1, <1>p DEF TypeOK
  <2>5. \A j \in Ids : j < next[PoolOf(s)] =>
          \/ queue'[<<PoolOf(s), j>>] = queue[<<PoolOf(s), j>>]
          \/ queue'[<<PoolOf(s), j>>] = None
    <3> TAKE j \in Ids
    <3>1. <<PoolOf(s), j>> \in Jobs BY <2>1 DEF Jobs
    <3> QED BY <2>4, <3>1, QueueStep DEF Ids
  <2>6. queue'[Job(s)] = queue[Job(s)] /\ queue[Job(s)] # None
    BY <2>1, <2>3, <2>5 DEF Job
  <2>7. Foremost(PoolOf(s), cur[s].idx) BY <2>1, <2>6 DEF Chosen
  <2> QED BY <2>1, <2>2, <2>5, <2>6, <2>7 DEF Foremost, Job
<1>2. CASE GetLock(s)
  <2>1. PICK i \in Ids :
          /\ Picks(PoolOf(s), i)
          /\ cur' = [cur EXCEPT ![s] =
               [data |-> cur[s].data, peek |-> cur[s].peek, idx |-> i,
                first |-> first[PoolOf(s)], next |-> next[PoolOf(s)],
                res |-> cur[s].res, after |-> cur[s].after]]
    BY <1>2 DEF GetLock
  <2>2. PoolOf(s) \in Pools BY <1>2, <1>p DEF GetLock, ProcOK
  <2>3. Foremost(PoolOf(s), i)
    BY <2>1, <2>2, PickedIsForemost DEF IdsOK
  <2>4. cur'[s].idx = i /\ UNCHANGED <<inv, queue, next>>
    BY <1>2, <2>1, <1>p DEF GetLock, TypeOK
  <2> QED BY <2>3, <2>4 DEF Foremost
<1>3. CASE ProcStep(s) /\ ~GetLock(s)
  <2>1. ~GetRename(s) BY <1>p DEF GetRename, TypeOK
  <2>2. ~Keeps(s) BY DEF Keeps
  <2>3. cur'[s].idx = 0
    BY <1>3, <2>1, <2>2, HoldStep DEF Leaves
  <2> QED BY <1>p, <2>3 DEF ProcOK
<1>4. CASE \/ \E p \in RunPools : StartRun(s, p)
           \/ \E q \in Requests : ScheduleLock(s, q)
           \/ Die(s)
  BY <1>4, <1>p DEF StartRun, ScheduleLock, Die, Exit, Idle, TypeOK
<1> QED BY <1>1, <1>2, <1>3, <1>4, Turns

\* Only the renaming consumes a queued job.
LEMMA ConsumedByRename ==
  ASSUME Typed, IdsOK, [Next]_vars, NEW c \in Jobs,
         queue[c] # None, exec'[c] # None
  PROVE  \E r \in Procs : GetRename(r) /\ c = Job(r)
<1>p. TypeOK BY DEF Typed
<1>1. exec[c] = None BY DEF IdsOK, QueuedIsFresh
<1>2. PICK r \in Procs : AtWork(r) /\ c = Job(r)
  BY <1>1, WorkFrame DEF IdsOK
<1>3. pc[r] = "rename" BY <1>2 DEF AtWork, IdsOK, Consumed
<1>4. ASSUME NEW s \in Procs, ProcStep(s), ~(GetRename(s) /\ c = Job(s))
      PROVE  FALSE
  <2>1. AtWork(s) /\ c = Job(s) BY <1>1, <1>4, WorkStep DEF IdsOK
  <2>2. pc[s] = "rename" BY <2>1 DEF AtWork, IdsOK, Consumed
  <2>3. ~GetRename(s) BY <1>4, <2>1
  <2>4. UNCHANGED exec
    BY <1>4, <2>2, <2>3 DEF ProcStep, ScheduleStep, ScheduleDuplicate,
      ScheduleUnknownPool, ScheduleAccepted, WriteQueueFile, BumpNext,
      BlockAgain, BlockReturn, ScheduleEnd, BookStep, Peek, ReadData,
      ReadMissing, CheckExtra, SkipJob, CheckDone, BookList, BookTake,
      BookMissed, BookFailed, GetLock, GetNothing, GetMissing, GetAdvance,
      LaunchStep, BookDone, RemoveBooked, WriteExec, WriteNowhere, Popen,
      PopenFailed, WritePid, WaitStep, FreeCheck, FreeRemoved, FreeSymlink,
      FreeLink, FreeExists, FreeDone, DropExec, CommandOver, Reap, RunDone,
      BlockedRunDone, Exit
  <2> QED BY <1>1, <2>4
<1>5. ASSUME \/ \E s \in Procs, p \in RunPools : StartRun(s, p)
             \/ \E s \in Procs, q \in Requests : ScheduleLock(s, q)
             \/ \E d \in Jobs : ChildExit(d) \/ Unschedule(d)
             \/ \E x \in Removals : RemoveLink(x) \/ RemoveResource(x)
             \/ \E s \in Procs : Die(s)
             \/ UNCHANGED vars
      PROVE  FALSE
  BY <1>1, <1>5, <1>p DEF StartRun, ScheduleLock, ChildExit, Unschedule,
    UnscheduleQueued, UnscheduleKill, UnscheduleKilled, UnscheduleTimeout,
    RemoveLink, RemoveResource, Die, Exit, vars, TypeOK
<1> QED BY <1>4, <1>5 DEF Next

\* Runners serve a queue in the order of priorities, and of the ids within one
\* priority, whoever schedules, peeks and unschedules meanwhile.
THEOREM InOrderCorrect == Spec => InOrder
<1>1. Init => Chosen
  BY DEF Init, Chosen
<1>2. ASSUME Typed, IdsOK, Chosen, [Next]_vars, NEW p \in Pools, NEW i \in Ids,
             queue[<<p, i>>] # None, exec'[<<p, i>>] # None
      PROVE  Foremost(p, i)
  <2>1. <<p, i>> \in Jobs BY DEF Jobs
  <2>2. PICK r \in Procs : GetRename(r) /\ <<p, i>> = Job(r)
    BY <1>2, <2>1, ConsumedByRename
  <2>3. Foremost(PoolOf(r), cur[r].idx)
    BY <1>2, <2>2 DEF GetRename, Chosen
  <2> QED BY <2>2, <2>3 DEF Job
<1>3. Typed /\ IdsOK /\ Chosen /\ [Next]_vars
        => [\A p \in Pools, i \in Ids :
              queue[<<p, i>>] # None /\ exec'[<<p, i>>] # None =>
                Foremost(p, i)]_vars
  BY <1>2
<1>4. Spec => []Typed
  BY InitTyped, NextTyped, PTL DEF Spec
<1>5. Typed /\ IdsOK /\ Chosen /\ [Next]_vars => Chosen'
  BY ChosenStep
<1>6. Spec => []Chosen
  BY <1>1, <1>4, <1>5, IdsCorrect, PTL DEF Spec
<1> QED BY <1>3, <1>4, <1>6, IdsCorrect, PTL DEF Spec, InOrder

-----------------------------------------------------------------------------
(* What a runner has booked.                                               *)

\* One more resource, one more of its pool.
Counted(T, t, q) ==
  /\ Cardinality(FromPool(T, q)) \in Nat
  /\ Cardinality(FromPool(T \cup {t}, q)) =
       Cardinality(FromPool(T, q)) + IF q = t[1] THEN 1 ELSE 0

\* Adding to a finite set what it has not.
LEMMA CountAdd ==
  ASSUME NEW T, IsFiniteSet(T), NEW t, t \notin T, NEW q
  PROVE  IsFiniteSet(T \cup {t}) /\ Counted(T, t, q)
<1>1. IsFiniteSet(FromPool(T, q))
  BY FS_Subset DEF FromPool
<1>2. Cardinality(FromPool(T, q)) \in Nat
  BY <1>1, FS_CardinalityType
<1>3. CASE q = t[1]
  <2>1. FromPool(T \cup {t}, q) = FromPool(T, q) \cup {t}
    BY <1>3 DEF FromPool
  <2>2. t \notin FromPool(T, q) BY DEF FromPool
  <2>3. Cardinality(FromPool(T, q) \cup {t}) = Cardinality(FromPool(T, q)) + 1
    BY <1>1, <2>2, FS_AddElement, Zenon
  <2>4. Cardinality(FromPool(T \cup {t}, q)) = Cardinality(FromPool(T, q)) + 1
    BY <2>1, <2>3, Zenon
  <2> QED BY <1>2, <1>3, <2>4, FS_AddElement DEF Counted
<1>4. CASE q # t[1]
  <2>1. FromPool(T \cup {t}, q) = FromPool(T, q) BY <1>4 DEF FromPool
  <2>2. Cardinality(FromPool(T \cup {t}, q)) = Cardinality(FromPool(T, q))
    BY <2>1, Zenon
  <2> QED BY <1>2, <1>4, <2>2, FS_AddElement DEF Counted
<1> QED BY <1>3, <1>4

\* One more turn of the loop over the extra pools.
LEMMA ExtrasAdd ==
  ASSUME NEW e, NEW k \in Nat, NEW q
  PROVE  /\ Cardinality(Upto(e, k - 1, q)) \in Nat
         /\ Cardinality(Upto(e, k, q)) =
              Cardinality(Upto(e, k - 1, q))
                + IF k > 0 /\ e[k] = q THEN 1 ELSE 0
<1>1. IsFiniteSet(Upto(e, k - 1, q))
  <2>1. IsFiniteSet(1..(k - 1)) BY FS_Interval
  <2>2. Upto(e, k - 1, q) \subseteq 1..(k - 1) BY DEF Upto
  <2> QED BY <2>1, <2>2, FS_Subset
<1>2. Cardinality(Upto(e, k - 1, q)) \in Nat BY <1>1, FS_CardinalityType
<1>3. CASE k > 0 /\ e[k] = q
  <2>1. Upto(e, k, q) = Upto(e, k - 1, q) \cup {k} BY <1>3 DEF Upto
  <2>2. k \notin Upto(e, k - 1, q) BY DEF Upto
  <2>3. Cardinality(Upto(e, k - 1, q) \cup {k}) =
          Cardinality(Upto(e, k - 1, q)) + 1
    BY <1>1, <2>2, FS_AddElement, Zenon
  <2>4. Cardinality(Upto(e, k, q)) = Cardinality(Upto(e, k - 1, q)) + 1
    BY <2>1, <2>3, Zenon
  <2> QED BY <1>2, <1>3, <2>4
<1>4. CASE ~(k > 0 /\ e[k] = q)
  <2>1. Upto(e, k, q) = Upto(e, k - 1, q) BY <1>4 DEF Upto
  <2>2. Cardinality(Upto(e, k, q)) = Cardinality(Upto(e, k - 1, q))
    BY <2>1, Zenon
  <2> QED BY <1>2, <1>4, <2>2
<1> QED BY <1>3, <1>4

\* What a process has booked is unchanged by a step that goes on with the same
\* job, the same number of bookings and the same resources.
SameBooking(r) ==
  /\ {pc[r], pc'[r]} \subseteq Equipping
  /\ held'[r] = held[r] /\ PoolOf(r)' = PoolOf(r)
  /\ cur'[r].data = cur[r].data /\ book'[r].k = book[r].k
  /\ pc'[r] \in {"get", "rename", "advance"} => book[r].k = 1
  /\ pc'[r] \in {"remove", "write", "popen"} => book[r].k > Extras(r)

\* Then it is what the loop has gone through, as before.
LEMMA SameEquipped ==
  ASSUME Typed, NEW r \in Procs, ProcEquipped(r), SameBooking(r)
  PROVE  ProcEquipped(r)'
<1>1. Extras(r)' = Extras(r) BY DEF SameBooking, Extras
<1>2. \A q : ExtrasBooked(r, q)' = ExtrasBooked(r, q)
  BY DEF SameBooking, ExtrasBooked
<1>3. pc'[r] \notin EmptyHanded /\ pc[r] \in Equipping
  BY DEF SameBooking, EmptyHanded, Equipping
<1>4. /\ book[r].k <= Extras(r) + 1
      /\ IsFiniteSet(held[r])
      /\ \A q \in Pools :
           Cardinality(FromPool(held[r], q)) =
             Cardinality(ExtrasBooked(r, q))
               + IF q = PoolOf(r) /\ book[r].k > 0 THEN 1 ELSE 0
  BY <1>3 DEF ProcEquipped
<1>5. book'[r].k <= Extras(r)' + 1 BY <1>1, <1>4 DEF SameBooking
<1>6. held'[r] = held[r] BY DEF SameBooking
<1>7. \A q \in Pools :
        Cardinality(FromPool(held[r], q)') =
          Cardinality(ExtrasBooked(r, q)')
            + IF q = PoolOf(r)' /\ book'[r].k > 0 THEN 1 ELSE 0
  BY <1>2, <1>4, <1>6 DEF SameBooking, FromPool
<1>8. pc'[r] \in {"remove", "write", "popen"} => book'[r].k = Extras(r)' + 1
  <2>1. book[r].k \in Nat BY DEF Typed, TypeOK, Booking
  <2>2. pc'[r] \in {"remove", "write", "popen"} => Extras(r) \in Nat
    <3>1. cur[r].data \in Queueable
      BY DEF SameBooking, Equipping, Typed, LocalsOK, ProcOK
    <3> QED BY <3>1 DEF Extras, Queueable
  <2> QED BY <1>1, <1>4, <2>1, <2>2 DEF SameBooking
<1> QED BY <1>3, <1>4, <1>5, <1>6, <1>7, <1>8 DEF ProcEquipped, SameBooking

\* What a runner is about to book, it has not booked already: it is available,
\* where nothing gives back what is used.
Unheld(r) ==
  pc[r] = "try" => \A x \in avail[Target(r)] : <<Target(r), x>> \notin held[r]

\* The first turn books in the pool of the job, the others in an extra pool.
LEMMA BookTakeEquipped ==
  ASSUME Typed, NEW r \in Procs, Unheld(r), ProcEquipped(r), BookTake(r)
  PROVE  ProcEquipped(r)'
<1>p. TypeOK /\ ProcOK(r) BY DEF Typed, LocalsOK
<1>1. PICK x \in avail[Target(r)] :
        /\ held' = [held EXCEPT ![r] = held[r] \cup {<<Target(r), x>>}]
        /\ book' = [book EXCEPT ![r] = Booked(book[r].k + 1)]
  BY DEF BookTake
<1>2. /\ pc[r] = "try" /\ cur[r].data \in Queueable /\ PoolOf(r) \in Pools
      /\ book[r].k \in Nat /\ book[r].k <= Extras(r) /\ Extras(r) \in Nat
  BY <1>p DEF BookTake, ProcOK, Extras, TypeOK, Booking, Queueable
<1>3. /\ held'[r] = held[r] \cup {<<Target(r), x>>}
      /\ book'[r].k = book[r].k + 1
      /\ cur'[r].data = cur[r].data /\ inv' = inv
      /\ pc'[r] = IF book[r].k = 0 THEN "get" ELSE "book"
  BY <1>1, <1>p DEF BookTake, TypeOK, Booked, Current
<1>4. <<Target(r), x>> \notin held[r] BY <1>1, <1>2 DEF Unheld
<1>5. /\ IsFiniteSet(held[r])
      /\ \A q \in Pools :
           Cardinality(FromPool(held[r], q)) =
             Cardinality(ExtrasBooked(r, q))
               + IF q = PoolOf(r) /\ book[r].k > 0 THEN 1 ELSE 0
  BY <1>2 DEF ProcEquipped, Equipping
<1>6. /\ IsFiniteSet(held'[r])
      /\ \A q \in Pools :
           /\ Cardinality(FromPool(held[r], q)) \in Nat
           /\ Cardinality(FromPool(held'[r], q)) =
                Cardinality(FromPool(held[r], q))
                  + IF q = Target(r) THEN 1 ELSE 0
  <2> DEFINE t == <<Target(r), x>>
  <2>1. /\ IsFiniteSet(held[r]) /\ t \notin held[r] /\ t[1] = Target(r)
        /\ held'[r] = held[r] \cup {t}
    BY <1>3, <1>4, <1>5
  <2> HIDE DEF t
  <2>2. /\ IsFiniteSet(held[r] \cup {t})
        /\ \A q \in Pools : Counted(held[r], t, q)
    <3>1. IsFiniteSet(held[r] \cup {t}) BY <2>1, FS_AddElement, Zenon
    <3>2. ASSUME NEW q \in Pools PROVE Counted(held[r], t, q)
      BY <2>1, CountAdd, Zenon
    <3> QED BY <3>1, <3>2
  <2> QED BY <2>1, <2>2, Zenon DEF Counted
<1>7. Extras(r)' = Extras(r) BY <1>3 DEF Extras
<1>8. ASSUME NEW q \in Pools
      PROVE  Cardinality(FromPool(held[r], q)') =
               Cardinality(ExtrasBooked(r, q)')
                 + IF q = PoolOf(r)' /\ book'[r].k > 0 THEN 1 ELSE 0
  <2> DEFINE e == cur[r].data.extra
             k == book[r].k
  <2>1. Cardinality(ExtrasBooked(r, q)) = Cardinality(Upto(e, k - 1, q))
    BY DEF ExtrasBooked
  <2>2. Cardinality(ExtrasBooked(r, q)') = Cardinality(Upto(e, k, q))
    <3>1. cur'[r].data.extra = e /\ book'[r].k - 1 = k BY <1>2, <1>3
    <3> QED BY <3>1, Zenon DEF ExtrasBooked
  <2>3. /\ Cardinality(Upto(e, k - 1, q)) \in Nat
        /\ Cardinality(Upto(e, k, q)) =
             Cardinality(Upto(e, k - 1, q))
               + IF k > 0 /\ e[k] = q THEN 1 ELSE 0
    <3> HIDE DEF e, k
    <3>1. k \in Nat BY <1>2 DEF k
    <3> QED BY <3>1, ExtrasAdd
  <2>4. Cardinality(FromPool(held[r], q)') = Cardinality(FromPool(held'[r], q))
    OBVIOUS
  <2>5. Target(r) = IF k = 0 THEN PoolOf(r) ELSE e[k] BY DEF Target
  <2>6. book'[r].k = k + 1 /\ PoolOf(r)' = PoolOf(r) /\ k \in Nat
    BY <1>2, <1>3
  <2>7. Cardinality(FromPool(held[r], q)) =
          Cardinality(Upto(e, k - 1, q))
            + IF q = PoolOf(r) /\ k > 0 THEN 1 ELSE 0
    BY <1>5, <2>1
  <2>8. Cardinality(FromPool(held'[r], q)) =
          Cardinality(FromPool(held[r], q)) + IF q = Target(r) THEN 1 ELSE 0
    BY <1>6
  <2> HIDE DEF e, k
  <2>9. CASE k = 0 BY <2>2, <2>3, <2>4, <2>5, <2>6, <2>7, <2>8, <2>9
  <2>10. CASE k > 0 BY <2>2, <2>3, <2>4, <2>5, <2>6, <2>7, <2>8, <2>10
  <2> QED BY <2>6, <2>9, <2>10
<1>9. book'[r].k <= Extras(r)' + 1 BY <1>2, <1>3, <1>7
<1>10. \A q \in Pools :
         Cardinality(FromPool(held[r], q)') =
           Cardinality(ExtrasBooked(r, q)')
             + IF q = PoolOf(r)' /\ book'[r].k > 0 THEN 1 ELSE 0
  BY <1>8
<1>11. /\ pc'[r] \in {"get", "book"}
       /\ pc'[r] = "get" => book'[r].k = 1
  BY <1>2, <1>3
<1> QED BY <1>6, <1>9, <1>10, <1>11 DEF ProcEquipped, EmptyHanded

\* Nothing is booked after no turn of the loop, and nothing is only nothing.
LEMMA NoExtras ==
  ASSUME NEW e, NEW q
  PROVE  Cardinality(Upto(e, -1, q)) = 0 /\ Cardinality(Upto(e, 0, q)) = 0
<1>1. Upto(e, -1, q) = {} /\ Upto(e, 0, q) = {} BY DEF Upto
<1> QED BY <1>1, FS_EmptySet, Zenon

\* A runner with no count in any pool holds nothing.
LEMMA NothingHeld ==
  ASSUME NEW T \in SUBSET Tokens, IsFiniteSet(T),
         \A q \in Pools : Cardinality(FromPool(T, q)) = 0
  PROVE  T = {}
<1> SUFFICES ASSUME NEW t \in T PROVE FALSE
  OBVIOUS
<1>1. t[1] \in Pools BY DEF Tokens
<1>2. IsFiniteSet(FromPool(T, t[1]))
  BY FS_Subset DEF FromPool
<1>3. FromPool(T, t[1]) = {} BY <1>1, <1>2, FS_EmptySet
<1> QED BY <1>3 DEF FromPool

\* Where a process is empty-handed, and where it frees, there is no loop.
LEMMA EmptyEquipped ==
  ASSUME NEW r \in Procs,
         \/ pc'[r] \in EmptyHanded /\ held'[r] = {}
         \/ pc'[r] \in {"free", "link", "reaped"}
  PROVE  ProcEquipped(r)'
BY DEF ProcEquipped, EmptyHanded, Equipping

\* The loop starts with nothing booked.
LEMMA CheckDoneEquipped ==
  ASSUME Typed, NEW r \in Procs, ProcEquipped(r), CheckDone(r)
  PROVE  ProcEquipped(r)'
<1>p. TypeOK /\ ProcOK(r) BY DEF Typed, LocalsOK
<1>1. /\ held[r] = {} /\ held'[r] = {} /\ pc'[r] = "book" /\ book'[r].k = 0
      /\ cur' = cur /\ Extras(r)' = Extras(r) /\ Extras(r) \in Nat
  BY <1>p DEF CheckDone, ProcEquipped, EmptyHanded, TypeOK, Booked, Extras,
    ProcOK, Queueable
<1>2. IsFiniteSet({}) /\ Cardinality({}) = 0 BY FS_EmptySet
<1>3. IsFiniteSet(held'[r]) BY <1>1, <1>2, Zenon
<1>4. ASSUME NEW q \in Pools
      PROVE  Cardinality(FromPool(held[r], q)') =
               Cardinality(ExtrasBooked(r, q)')
                 + IF q = PoolOf(r)' /\ book'[r].k > 0 THEN 1 ELSE 0
  <2>1. Cardinality(FromPool(held[r], q)') = 0
    <3>1. FromPool(held[r], q)' = {} BY <1>1 DEF FromPool
    <3> QED BY <3>1, <1>2, Zenon
  <2>2. Cardinality(ExtrasBooked(r, q)') = 0
    <3>1. book'[r].k - 1 = -1 BY <1>1
    <3>2. Cardinality(Upto(cur'[r].data.extra, -1, q)) = 0 BY NoExtras
    <3> QED BY <3>1, <3>2, Zenon DEF ExtrasBooked
  <2> QED BY <1>1, <2>1, <2>2
<1> QED BY <1>1, <1>3, <1>4 DEF ProcEquipped, EmptyHanded

\* When the first booking fails, nothing has been booked.
LEMMA FirstFailed ==
  ASSUME Typed, NEW r \in Procs, ProcEquipped(r), pc[r] = "try", book[r].k = 0
  PROVE  held[r] = {}
<1>p. TypeOK BY DEF Typed
<1>1. /\ IsFiniteSet(held[r])
      /\ \A q \in Pools : Cardinality(FromPool(held[r], q)) =
                           Cardinality(ExtrasBooked(r, q))
                             + IF q = PoolOf(r) /\ book[r].k > 0
                               THEN 1 ELSE 0
  BY DEF ProcEquipped, Equipping
<1>2. ASSUME NEW q \in Pools PROVE Cardinality(FromPool(held[r], q)) = 0
  <2>1. book[r].k - 1 = -1 OBVIOUS
  <2>2. Cardinality(Upto(cur[r].data.extra, -1, q)) = 0 BY NoExtras
  <2>3. Cardinality(ExtrasBooked(r, q)) = 0
    BY <2>1, <2>2, Zenon DEF ExtrasBooked
  <2> QED BY <1>1, <2>3
<1>3. held[r] \in SUBSET Tokens BY <1>p DEF TypeOK
<1> QED BY <1>1, <1>2, <1>3, NothingHeld

\* What a process has booked is what the loop has gone through: its own steps.
LEMMA OwnEquipped ==
  ASSUME Typed, NEW r \in Procs, Unheld(r), ProcEquipped(r), ProcStep(r)
  PROVE  ProcEquipped(r)'
<1>p. TypeOK /\ ProcOK(r) BY DEF Typed, LocalsOK
<1>1. CASE Exit(r)
  <2>1. pc'[r] = "idle" /\ held'[r] = {}
    BY <1>1, <1>p DEF Exit, Idle, TypeOK
  <2> QED BY <2>1, EmptyEquipped DEF EmptyHanded
<1>2. CASE ScheduleStep(r) /\ ~Exit(r)
  <2>1. pc'[r] \in EmptyHanded /\ held'[r] = {}
    BY <1>2, <1>p DEF ScheduleStep, ScheduleDuplicate, ScheduleUnknownPool,
      ScheduleAccepted, WriteQueueFile, BumpNext, BlockAgain, BlockReturn,
      ScheduleEnd, Idle, ProcEquipped, EmptyHanded, TypeOK
  <2> QED BY <2>1, EmptyEquipped
<1>3. CASE Peek(r) \/ ReadData(r) \/ CheckExtra(r) \/ SkipJob(r)
  <2>1. pc'[r] \in EmptyHanded /\ held'[r] = {}
    BY <1>3, <1>p DEF Peek, ReadData, CheckExtra, SkipJob, ProcEquipped,
      EmptyHanded, TypeOK
  <2> QED BY <2>1, EmptyEquipped
<1>4. CASE \/ BookList(r) \/ BookMissed(r) \/ GetLock(r) \/ GetNothing(r)
           \/ GetRename(r) \/ GetAdvance(r)
  <2>1. {pc[r], pc'[r]} \subseteq Equipping
    BY <1>4, <1>p DEF BookList, BookMissed, GetLock, GetNothing, GetRename,
      GetAdvance, Equipping, TypeOK
  <2>2. /\ held'[r] = held[r] /\ PoolOf(r)' = PoolOf(r)
        /\ cur'[r].data = cur[r].data /\ book'[r].k = book[r].k
    BY <1>4, <1>p DEF BookList, BookMissed, GetLock, GetNothing, GetRename,
      GetAdvance, TypeOK, Booking
  <2>3. /\ pc'[r] \in {"get", "rename", "advance"} =>
             pc[r] \in {"get", "rename", "advance"}
        /\ pc'[r] \notin {"remove", "write", "popen"}
    BY <1>4, <1>p DEF BookList, BookMissed, GetLock, GetNothing, GetRename,
      GetAdvance, TypeOK
  <2>4. SameBooking(r)
    BY <2>1, <2>2, <2>3 DEF SameBooking, ProcEquipped
  <2> QED BY <2>4, SameEquipped
<1>5. CASE BookDone(r) \/ RemoveBooked(r) \/ WriteExec(r)
  <2>1. {pc[r], pc'[r]} \subseteq Equipping
    BY <1>5, <1>p DEF BookDone, RemoveBooked, WriteExec, Equipping, TypeOK
  <2>2. /\ held'[r] = held[r] /\ PoolOf(r)' = PoolOf(r)
        /\ cur'[r].data = cur[r].data /\ book'[r].k = book[r].k
    BY <1>5, <1>p DEF BookDone, RemoveBooked, WriteExec, Dump, TypeOK
  <2>3. /\ pc'[r] \notin {"get", "rename", "advance"}
        /\ book[r].k > Extras(r)
    <3>1. Extras(r) \in Nat
      BY <1>5, <1>p DEF BookDone, RemoveBooked, WriteExec, ProcOK, Extras,
        Queueable
    <3>2. CASE BookDone(r) BY <3>2, <1>p DEF BookDone, TypeOK
    <3>3. CASE RemoveBooked(r) \/ WriteExec(r)
      <4>1. pc[r] \in {"remove", "write"} /\ pc'[r] \in {"write", "popen"}
        BY <3>3, <1>p DEF RemoveBooked, WriteExec, TypeOK
      <4>2. book[r].k = Extras(r) + 1 BY <4>1 DEF ProcEquipped
      <4> QED BY <3>1, <4>1, <4>2
    <3> QED BY <1>5, <3>2, <3>3
  <2>4. SameBooking(r)
    BY <2>1, <2>2, <2>3 DEF SameBooking
  <2> QED BY <2>4, SameEquipped
<1>6. CASE BookFailed(r)
  <2>1. CASE book[r].k = 0
    <3>1. pc'[r] = "wait" /\ held'[r] = held[r] /\ pc[r] = "try"
      BY <1>6, <2>1, <1>p DEF BookFailed, TypeOK
    <3> QED BY <2>1, <3>1, FirstFailed, EmptyEquipped DEF EmptyHanded
  <2>2. CASE book[r].k # 0
    <3>1. pc'[r] = "free" BY <1>6, <2>2, <1>p DEF BookFailed, TypeOK
    <3> QED BY <3>1, EmptyEquipped
  <2> QED BY <2>1, <2>2
<1>7. CASE Popen(r) \/ PopenFailed(r) \/ WritePid(r)
  <2>1. \/ pc'[r] \in EmptyHanded /\ held'[r] = {}
        \/ pc'[r] \in {"free", "link", "reaped"}
    BY <1>7, <1>p DEF Popen, PopenFailed, WritePid, Dump, ProcEquipped,
      EmptyHanded, TypeOK
  <2> QED BY <2>1, EmptyEquipped
<1>8. CASE WaitStep(r) /\ ~Exit(r)
  <2>1. CASE FreeDone(r)
    <3>1. cur[r].after \in {"peek", "drop", "wait"}
      BY <1>p DEF TypeOK, Current
    <3>2. pc'[r] \in EmptyHanded /\ held'[r] = {}
      BY <2>1, <3>1, <1>p DEF FreeDone, EmptyHanded, TypeOK
    <3> QED BY <3>2, EmptyEquipped
  <2>2. CASE ~FreeDone(r)
    <3>1. \/ pc'[r] \in EmptyHanded /\ held'[r] = {}
          \/ pc'[r] \in {"free", "link", "reaped"}
      BY <1>8, <2>2, <1>p DEF WaitStep, FreeCheck, FreeRemoved, FreeSymlink,
        FreeLink, FreeExists, DropExec, CommandOver, RemoveExec, Reap, RunDone,
        BlockedRunDone, ProcEquipped, EmptyHanded, TypeOK
    <3> QED BY <3>1, EmptyEquipped
  <2> QED BY <2>1, <2>2
<1> QED BY <1>1, <1>2, <1>3, <1>4, <1>5, <1>6, <1>7, <1>8, CheckDoneEquipped,
  BookTakeEquipped DEF ProcStep, ScheduleStep, BookStep, LaunchStep,
  ReadMissing, GetMissing, WriteNowhere

\* Nobody else changes it.
LEMMA EquippedStep ==
  Typed /\ (\A r \in Procs : Unheld(r)) /\ Equipped /\ [Next]_vars => Equipped'
<1> SUFFICES ASSUME Typed, \A r \in Procs : Unheld(r), Equipped, [Next]_vars,
                    NEW s \in Procs
             PROVE  ProcEquipped(s)'
  BY DEF Equipped
<1>p. TypeOK /\ ProcEquipped(s) /\ Unheld(s) BY DEF Typed, Equipped
<1>1. CASE ProcStep(s) BY <1>1, <1>p, OwnEquipped
<1>2. CASE \/ \E p \in RunPools : StartRun(s, p)
           \/ \E q \in Requests : ScheduleLock(s, q)
           \/ Die(s)
  <2>1. pc'[s] \in EmptyHanded /\ held'[s] = {}
    BY <1>2, <1>p DEF StartRun, ScheduleLock, Die, Exit, Idle, ProcEquipped,
      EmptyHanded, TypeOK
  <2> QED BY <2>1, EmptyEquipped
<1>3. CASE Still(s)
  <2>1. CASE pc[s] \in Equipping
    <3>1. SameBooking(s)
      <4>1. /\ pc[s] \in {"get", "rename", "advance"} => book[s].k = 1
            /\ pc[s] \in {"remove", "write", "popen"} =>
                 book[s].k = Extras(s) + 1
        BY <1>p DEF ProcEquipped
      <4>2. Extras(s) \in Nat
        BY <2>1 DEF Typed, LocalsOK, ProcOK, Equipping, Extras, Queueable
      <4> QED BY <1>3, <2>1, <4>1, <4>2 DEF Still, SameBooking
    <3> QED BY <1>p, <3>1, SameEquipped
  <2>2. CASE pc[s] \notin Equipping
    BY <1>3, <1>p, <2>2 DEF Still, ProcEquipped, EmptyHanded, Equipping
  <2> QED BY <2>1, <2>2
<1> QED BY <1>1, <1>2, <1>3, Turns

\* Where resources are exclusive, what is available is not booked.
LEMMA ExclusiveEquipped ==
  Typed /\ Exclusive /\ Equipped /\ [Next]_vars => Equipped'
<1>1. Exclusive => \A r \in Procs : Unheld(r)
  BY DEF Exclusive, Unheld
<1> QED BY <1>1, EquippedStep

-----------------------------------------------------------------------------
(* What a command is given.                                                *)

\* When the loop is over, what is booked is what the submission asks for.
LEMMA LoopOver ==
  ASSUME Typed, NEW r \in Procs, ProcEquipped(r), pc[r] = "popen",
         NEW q \in Pools
  PROVE  Cardinality(FromPool(held[r], q)) =
           Cardinality({k \in DOMAIN cur[r].data.extra :
                          cur[r].data.extra[k] = q})
             + IF q = PoolOf(r) THEN 1 ELSE 0
<1>p. TypeOK /\ ProcOK(r) BY DEF Typed, LocalsOK
<1> DEFINE e == cur[r].data.extra
<1>1. e \in Seq(STRING \cup Pools)
  BY <1>p DEF ProcOK, Queueable
<1>2. /\ book[r].k = Extras(r) + 1 /\ Extras(r) = Len(e) /\ Len(e) \in Nat
      /\ DOMAIN e = 1..Len(e)
  BY <1>1 DEF ProcEquipped, Extras
<1>3. /\ Cardinality(FromPool(held[r], q)) =
           Cardinality(ExtrasBooked(r, q))
             + IF q = PoolOf(r) /\ book[r].k > 0 THEN 1 ELSE 0
  BY DEF ProcEquipped, Equipping
<1>4. Cardinality(ExtrasBooked(r, q)) =
        Cardinality({k \in DOMAIN e : e[k] = q})
  <2>1. book[r].k - 1 = Len(e) BY <1>2
  <2>2. ExtrasBooked(r, q) = {k \in DOMAIN e : e[k] = q}
    BY <1>2, <2>1, Zenon DEF ExtrasBooked, Upto
  <2> QED BY <2>2, Zenon
<1> QED BY <1>2, <1>3, <1>4

\* A command keeps what it was given, ends and is orphaned once.
Onward(c) ==
  /\ child'[c].uses = child[c].uses /\ child'[c].sub = child[c].sub
  /\ child'[c].by \in {child[c].by, None}
  /\ \/ child'[c].st = child[c].st
     \/ child[c].st \in Alive /\ child'[c].st \in {"zombie", "gone"}

\* Who writes what is known of the commands.
LEMMA ChildWriters ==
  ASSUME [Next]_vars
  PROVE  \/ child' = child
         \/ \E r \in Procs : Popen(r) \/ Reap(r) \/ Exit(r)
         \/ \E c \in Jobs : ChildExit(c)
<1>1. ASSUME NEW r \in Procs, ProcStep(r), ~Exit(r), ~Reap(r), ~Popen(r)
      PROVE  child' = child
  BY <1>1 DEF ProcStep, ScheduleStep, ScheduleDuplicate, ScheduleUnknownPool,
    ScheduleAccepted, WriteQueueFile, BumpNext, BlockAgain, BlockReturn,
    ScheduleEnd, BookStep, Peek, ReadData, ReadMissing, CheckExtra, SkipJob,
    CheckDone, BookList, BookTake, BookMissed, BookFailed, GetLock, GetNothing,
    GetRename, GetMissing, GetAdvance, LaunchStep, BookDone, RemoveBooked,
    WriteExec, WriteNowhere, PopenFailed, WritePid, Dump, WaitStep, FreeCheck,
    FreeRemoved, FreeSymlink, FreeLink, FreeExists, FreeDone, DropExec,
    CommandOver, RemoveExec, RunDone, BlockedRunDone
<1>2. ASSUME \/ \E r \in Procs, p \in RunPools : StartRun(r, p)
             \/ \E r \in Procs, q \in Requests : ScheduleLock(r, q)
             \/ \E d \in Jobs : Unschedule(d)
             \/ \E x \in Removals : RemoveLink(x) \/ RemoveResource(x)
             \/ UNCHANGED vars
      PROVE  child' = child
  BY <1>2 DEF StartRun, ScheduleLock, Unschedule, UnscheduleQueued,
    UnscheduleKill, UnscheduleKilled, UnscheduleTimeout, RemoveLink,
    RemoveResource, vars
<1>3. ASSUME NEW r \in Mortal, Die(r) PROVE Exit(r)
  BY <1>3 DEF Die
<1> QED BY <1>1, <1>2, <1>3 DEF Next

\* Popen alone starts a command, and none starts again.
LEMMA ChildStep ==
  ASSUME Typed, [Next]_vars, NEW c \in Jobs
  PROVE  \/ \E r \in Procs : Popen(r) /\ c = Job(r)
         \/ Onward(c)
<1>p. TypeOK /\ child[c] \in Child BY DEF Typed, TypeOK
<1>1. child' = child => Onward(c) BY DEF Onward
<1>2. ASSUME NEW r \in Procs, Exit(r) PROVE Onward(c)
  BY <1>2, <1>p DEF Exit, Orphan, Alive, TypeOK, Child, Onward
<1>3. ASSUME NEW r \in Procs, Reap(r) PROVE Onward(c)
  BY <1>3, <1>p DEF Reap, Alive, TypeOK, Child, Onward
<1>4. ASSUME NEW d \in Jobs, ChildExit(d) PROVE Onward(c)
  BY <1>4, <1>p DEF ChildExit, Alive, TypeOK, Child, Onward
<1>5. ASSUME NEW r \in Procs, Popen(r), c # Job(r) PROVE Onward(c)
  BY <1>5, <1>p DEF Popen, TypeOK, Onward
<1> QED BY <1>1, <1>2, <1>3, <1>4, <1>5, ChildWriters

\* It stays fully equipped.
LEMMA FullyEquippedStep ==
  Typed /\ Equipped /\ FullyEquipped /\ [Next]_vars => FullyEquipped'
<1> SUFFICES ASSUME Typed, Equipped, FullyEquipped, [Next]_vars,
                    NEW c \in Jobs, child'[c].st \in Alive, NEW q \in Pools
             PROVE  Cardinality({t \in child'[c].uses : t[1] = q}) =
                      Cardinality({k \in DOMAIN child'[c].sub.extra :
                                     child'[c].sub.extra[k] = q})
                        + IF q = c[1] THEN 1 ELSE 0
  BY DEF FullyEquipped, Demand
<1>1. ASSUME NEW r \in Procs, Popen(r), c = Job(r)
      PROVE  Cardinality({t \in child'[c].uses : t[1] = q}) =
               Cardinality({k \in DOMAIN child'[c].sub.extra :
                              child'[c].sub.extra[k] = q})
                 + IF q = c[1] THEN 1 ELSE 0
  <2>1. /\ child'[c].uses = held[r] /\ child'[c].sub = cur[r].data
        /\ pc[r] = "popen" /\ c[1] = PoolOf(r)
    BY <1>1 DEF Popen, Typed, TypeOK, Job
  <2>2. ProcEquipped(r) BY DEF Equipped
  <2>3. Cardinality(FromPool(held[r], q)) =
          Cardinality({k \in DOMAIN cur[r].data.extra :
                         cur[r].data.extra[k] = q})
            + IF q = PoolOf(r) THEN 1 ELSE 0
    BY <2>1, <2>2, LoopOver
  <2> QED BY <2>1, <2>3, Zenon DEF FromPool
<1>2. ASSUME child[c].st \in Alive,
             child'[c].uses = child[c].uses, child'[c].sub = child[c].sub
      PROVE  Cardinality({t \in child'[c].uses : t[1] = q}) =
               Cardinality({k \in DOMAIN child'[c].sub.extra :
                              child'[c].sub.extra[k] = q})
                 + IF q = c[1] THEN 1 ELSE 0
  <2>1. Cardinality({t \in child[c].uses : t[1] = q}) = Demand(c, q)
    BY <1>2 DEF FullyEquipped
  <2> QED BY <1>2, <2>1, Zenon DEF Demand
<1> QED BY <1>1, <1>2, ChildStep DEF Onward

\* A command runs on one resource of its pool and one more for each extra pool
\* its submission names, whatever the interleaving of the bookings.
THEOREM FullyEquippedCorrect == Spec => []FullyEquipped
<1>1. Init => Equipped /\ FullyEquipped
  BY DEF Init, Equipped, ProcEquipped, Equipping, FullyEquipped, Alive, NoChild
<1>2. Spec => []Typed
  BY InitTyped, NextTyped, PTL DEF Spec
<1> QED BY <1>1, <1>2, ExclusiveCorrect, ExclusiveEquipped, FullyEquippedStep, PTL
    DEF Spec

-----------------------------------------------------------------------------
(* To whom a command and the id of a job belong.                           *)

\* The steps of a process that has commands leave it in its pool.
LEMMA PoolKept ==
  ASSUME Typed, NEW r \in Procs, ProcStep(r),
         pc[r] \notin {"idle"} \cup Scheduling
  PROVE  \/ Exit(r)
         \/ PoolOf(r)' = PoolOf(r) /\ pc'[r] \notin {"idle"} \cup Scheduling
<1>p. TypeOK /\ ProcOK(r) BY DEF Typed, LocalsOK
<1>1. ScheduleStep(r) => BlockAgain(r) \/ Exit(r)
  BY DEF ScheduleStep, ScheduleDuplicate, ScheduleUnknownPool,
    ScheduleAccepted, WriteQueueFile, BumpNext, BlockReturn
<1>2. \/ Exit(r) \/ Reap(r)
      \/ inv' = inv
      \/ inv' = [inv EXCEPT ![r].skipped = {}]
      \/ \E S : inv' = [inv EXCEPT ![r].skipped = S]
  <2>1. BookStep(r) => Exit(r) \/ SkipJob(r) \/ inv' = inv
    BY DEF BookStep, Peek, ReadData, ReadMissing, CheckExtra, CheckDone,
      BookList, BookTake, BookMissed, BookFailed, GetLock, GetNothing,
      GetRename, GetMissing, GetAdvance
  <2>2. LaunchStep(r) => Exit(r) \/ inv' = inv
    BY DEF LaunchStep, BookDone, RemoveBooked, WriteExec, WriteNowhere, Popen,
      PopenFailed, WritePid, Dump
  <2>3. WaitStep(r) => Exit(r) \/ Reap(r) \/ inv' = inv
    BY DEF WaitStep, FreeCheck, FreeRemoved, FreeSymlink, FreeLink, FreeExists,
      FreeDone, DropExec, CommandOver, RemoveExec, RunDone, BlockedRunDone
  <2> QED BY <1>1, <2>1, <2>2, <2>3 DEF ProcStep, BlockAgain, SkipJob
<1>3. Exit(r) \/ PoolOf(r)' = PoolOf(r)
  <2>1. CASE Reap(r) BY <2>1, <1>p DEF Reap, TypeOK, Invocation
  <2>2. CASE \E S : inv' = [inv EXCEPT ![r].skipped = S]
    BY <2>2, <1>p DEF TypeOK, Invocation
  <2> QED BY <1>2, <2>1, <2>2
<1>4. Exit(r) \/ pc'[r] \notin {"idle"} \cup Scheduling
  <2>1. FreeDone(r) => pc'[r] \in {"peek", "drop", "wait"}
    BY <1>p, AfterFree
  <2>2. BookStep(r) => Exit(r) \/ pc'[r] \notin {"idle"} \cup Scheduling
    BY <1>p DEF BookStep, Peek, ReadData, ReadMissing, CheckExtra, SkipJob,
      CheckDone, BookList, BookTake, BookMissed, BookFailed, GetLock,
      GetNothing, GetRename, GetMissing, GetAdvance, TypeOK
  <2>3. LaunchStep(r) => Exit(r) \/ pc'[r] \notin {"idle"} \cup Scheduling
    BY <1>p DEF LaunchStep, BookDone, RemoveBooked, WriteExec, WriteNowhere,
      Popen, PopenFailed, WritePid, TypeOK
  <2>4. WaitStep(r) => Exit(r) \/ pc'[r] \notin {"idle"} \cup Scheduling
    BY <2>1, <1>p DEF WaitStep, FreeCheck, FreeRemoved, FreeSymlink, FreeLink,
      FreeExists, DropExec, CommandOver, Reap, RunDone, BlockedRunDone, TypeOK
  <2>5. BlockAgain(r) => pc'[r] = "peek" BY <1>p DEF BlockAgain, TypeOK
  <2> QED BY <1>1, <2>2, <2>3, <2>4, <2>5 DEF ProcStep
<1> QED BY <1>3, <1>4

\* A process waits for the commands of its own pool.
LEMMA ParentsStep == Typed /\ Parents /\ [Next]_vars => Parents'
<1> SUFFICES ASSUME Typed, Parents, [Next]_vars, NEW c \in Jobs,
                    NEW r \in Procs, child'[c].by = r
             PROVE  /\ pc'[r] \notin {"idle"} \cup Scheduling
                    /\ PoolOf(r)' = c[1]
  BY DEF Parents
<1>p. TypeOK BY DEF Typed
<1>1. ASSUME NEW s \in Procs, Popen(s), c = Job(s)
      PROVE  r = s /\ pc'[r] = "pid" /\ PoolOf(r)' = c[1]
  <2>1. cur[s].idx # 0 /\ pc[s] # "idle"
    BY <1>1 DEF Popen, Typed, LocalsOK, ProcOK
  <2>2. c \in Jobs /\ child'[c].by = s /\ pc'[s] = "pid" /\ inv' = inv
    BY <1>1, <1>p DEF Popen, TypeOK
  <2> QED BY <1>1, <2>2 DEF Job
<1>2. CASE Onward(c)
  <2>1. child[c].by = r BY <1>2 DEF Onward
  <2>2. pc[r] \notin {"idle"} \cup Scheduling /\ PoolOf(r) = c[1]
    BY <2>1 DEF Parents
  <2>3. ~Exit(r)
    <3>1. child[c] \in Child BY <1>p DEF TypeOK
    <3>2. Exit(r) => child'[c] = Orphan(child[c]) BY <2>1 DEF Exit
    <3>3. Orphan(child[c]).by = None BY <3>1 DEF Orphan, Child
    <3> QED BY <3>2, <3>3
  <2>4. ProcStep(r) \/ Still(r)
    BY <2>2, <2>3, Turns DEF StartRun, ScheduleLock, Die
  <2>5. CASE ProcStep(r) BY <2>2, <2>3, <2>5, PoolKept
  <2>6. CASE Still(r) BY <2>2, <2>6 DEF Still
  <2> QED BY <2>4, <2>5, <2>6
<1> QED BY <1>1, <1>2, ChildStep

\* A step of one process leaves the others where they are.
LEMMA OthersStill ==
  ASSUME Typed, NEW r \in Procs, NEW s \in Procs, r # s, ProcStep(r)
  PROVE  Still(s)
BY ProcLocal, HeldFrame DEF Local, Others, Still

\* A process gets an id by renaming the queue file, and keeps it.
LEMMA OwnsStep ==
  ASSUME Typed, Owned, [Next]_vars, NEW r \in Procs, Owns(r)'
  PROVE  GetRename(r) \/ (Owns(r) /\ Job(r)' = Job(r))
<1>p. TypeOK /\ ProcOK(r) BY DEF Typed, LocalsOK
<1>1. CASE Still(r) BY <1>1 DEF Still, Owns, Job
<1>2. CASE \/ \E p \in RunPools : StartRun(r, p)
           \/ \E q \in Requests : ScheduleLock(r, q)
           \/ Die(r)
  BY <1>2, <1>p DEF StartRun, ScheduleLock, Die, Exit, Idle, Owns, Holding,
    TypeOK
<1>3. CASE ProcStep(r)
  <2>1. GetLock(r) => pc'[r] = "rename" BY <1>p DEF GetLock, TypeOK
  <2>2. CASE pc'[r] \in Holding \ {"pid"}
    <3>1. ~GetLock(r) /\ ~Leaves(r)
      BY <2>1, <2>2 DEF Leaves, Owns, Holding
    <3>2. Keeps(r) /\ pc[r] # "pid" => Owns(r) /\ Job(r)' = Job(r)
      BY DEF Keeps, Owns, Job
    <3>3. pc[r] = "pid" => pc'[r] = "peek" \/ pc'[r] = "idle"
      BY <1>3, <1>p DEF ProcStep, ScheduleStep, ScheduleDuplicate,
        ScheduleUnknownPool, ScheduleAccepted, WriteQueueFile, BumpNext,
        BlockAgain, BlockReturn, BookStep, Peek, ReadData, ReadMissing,
        CheckExtra, SkipJob, CheckDone, BookList, BookTake, BookMissed,
        BookFailed, GetLock, GetNothing, GetRename, GetMissing, GetAdvance,
        LaunchStep, BookDone, RemoveBooked, WriteExec, WriteNowhere, Popen,
        PopenFailed, WritePid, WaitStep, FreeCheck, FreeRemoved, FreeSymlink,
        FreeLink, FreeExists, FreeDone, DropExec, CommandOver, Reap, RunDone,
        BlockedRunDone, TypeOK
    <3> QED BY <1>3, <2>2, <3>1, <3>2, <3>3, HoldStep DEF Holding
  <2>3. CASE pc'[r] \notin Holding \ {"pid"}
    <3>1. /\ cur'[r].idx # 0
          /\ \/ pc'[r] = "drop"
             \/ pc'[r] \in {"free", "link"} /\ cur'[r].after = "drop"
      BY <2>3 DEF Owns
    <3>2. ~Exit(r) BY <3>1, <1>p DEF Exit, Idle, TypeOK
    <3>3. \/ PopenFailed(r) \/ FreeCheck(r) \/ FreeRemoved(r)
          \/ FreeLink(r) \/ FreeDone(r)
      <4>1. ~ScheduleStep(r)
        BY <3>1, <3>2, <1>p DEF ScheduleStep, ScheduleDuplicate,
          ScheduleUnknownPool, ScheduleAccepted, WriteQueueFile, BumpNext,
          BlockAgain, BlockReturn, ScheduleEnd, Idle, TypeOK
      <4>2. ~BookStep(r)
        <5>1. ~BookFailed(r)
          BY <3>1, <1>p DEF BookFailed, TypeOK, Current
        <5> QED
          BY <3>1, <3>2, <5>1, <1>p DEF BookStep, Peek, ReadData, ReadMissing,
            CheckExtra, SkipJob, CheckDone, BookList, BookTake, BookMissed,
            GetLock, GetNothing, GetRename, GetMissing, GetAdvance, TypeOK
      <4>3. LaunchStep(r) => PopenFailed(r)
        BY <3>1, <3>2, <1>p DEF LaunchStep, BookDone, RemoveBooked, WriteExec,
          WriteNowhere, Popen, WritePid, TypeOK
      <4>4. ~CommandOver(r)
        <5>1. pc[r] = "reaped" => cur[r].after = "wait" BY DEF Owned
        <5> QED BY <3>1, <5>1, <1>p DEF CommandOver, RemoveExec, TypeOK
      <4>5. WaitStep(r) => \/ FreeCheck(r) \/ FreeRemoved(r)
                           \/ FreeLink(r) \/ FreeDone(r)
        BY <3>1, <3>2, <4>4, <1>p DEF WaitStep, FreeSymlink, FreeExists,
          DropExec, Reap, RunDone, BlockedRunDone, TypeOK
      <4> QED BY <1>3, <4>1, <4>2, <4>3, <4>5 DEF ProcStep
    <3>4. inv' = inv /\ cur'[r].idx = cur[r].idx
      BY <3>3, <1>p DEF PopenFailed, FreeCheck, FreeRemoved, FreeLink,
        FreeDone, TypeOK, Current
    <3>5. Owns(r)
      <4>1. CASE PopenFailed(r)
        BY <3>1, <3>4, <4>1 DEF PopenFailed, Owns, Holding
      <4>2. CASE FreeCheck(r) \/ FreeRemoved(r) \/ FreeLink(r) \/ FreeDone(r)
        BY <3>1, <3>4, <4>2, <1>p DEF FreeCheck, FreeRemoved, FreeLink,
          FreeDone, Owns, TypeOK, Current
      <4> QED BY <3>3, <4>1, <4>2
    <3> QED BY <3>4, <3>5 DEF Job
  <2> QED BY <2>2, <2>3
<1> QED BY <1>1, <1>2, <1>3, Turns

\* Who writes the .exec file of a job.
LEMMA ExecStep ==
  ASSUME Typed, [Next]_vars, NEW c \in Jobs, exec'[c] # exec[c]
  PROVE  \/ \E r \in Procs :
              /\ \/ GetRename(r) \/ WriteExec(r) \/ WritePid(r)
                 \/ DropExec(r) \/ CommandOver(r)
              /\ c = Job(r)
         \/ UnscheduleKilled(c)
<1>p. TypeOK BY DEF Typed
<1>1. ASSUME NEW r \in Procs, ProcStep(r)
      PROVE  \/ UNCHANGED exec
             \/ GetRename(r) \/ WriteExec(r) \/ WritePid(r)
             \/ DropExec(r) \/ CommandOver(r)
  BY <1>1 DEF ProcStep, ScheduleStep, ScheduleDuplicate, ScheduleUnknownPool,
    ScheduleAccepted, WriteQueueFile, BumpNext, BlockAgain, BlockReturn,
    ScheduleEnd, BookStep, Peek, ReadData, ReadMissing, CheckExtra, SkipJob,
    CheckDone, BookList, BookTake, BookMissed, BookFailed, GetLock, GetNothing,
    GetMissing, GetAdvance, LaunchStep, BookDone, RemoveBooked, WriteNowhere,
    Popen, PopenFailed, WaitStep, FreeCheck, FreeRemoved, FreeSymlink,
    FreeLink, FreeExists, FreeDone, Reap, RunDone, BlockedRunDone, Exit
<1>2. ASSUME NEW r \in Procs, c # Job(r),
             \/ GetRename(r) \/ WriteExec(r) \/ WritePid(r)
             \/ DropExec(r) \/ CommandOver(r)
      PROVE  exec'[c] = exec[c]
  BY <1>2, <1>p DEF GetRename, WriteExec, WritePid, Dump, DropExec,
    CommandOver, RemoveExec, TypeOK
<1>3. ASSUME NEW d \in Jobs, Unschedule(d)
      PROVE  exec'[c] = exec[c] \/ UnscheduleKilled(c)
  BY <1>3, <1>p DEF Unschedule, UnscheduleQueued, UnscheduleKill,
    UnscheduleKilled, UnscheduleTimeout, TypeOK
<1>4. CASE \/ \E r \in Procs, p \in RunPools : StartRun(r, p)
           \/ \E r \in Procs, q \in Requests : ScheduleLock(r, q)
           \/ \E d \in Jobs : ChildExit(d)
           \/ \E x \in Removals : RemoveLink(x) \/ RemoveResource(x)
           \/ \E r \in Mortal : Die(r)
           \/ UNCHANGED vars
  BY <1>4 DEF StartRun, ScheduleLock, ChildExit, RemoveLink, RemoveResource,
    Die, Exit, vars
<1> QED BY <1>1, <1>2, <1>3, <1>4 DEF Next

\* A consumed job has its .exec file and no command yet.
LEMMA OwnedJob ==
  ASSUME Typed, IdsOK, Owned, [Next]_vars, NEW r \in Procs, Owns(r)'
  PROVE  exec'[Job(r)'] # None /\ child'[Job(r)'].st = "none"
<1>p. TypeOK /\ TypeOK' /\ ProcOK(r) BY NextTyped DEF Typed, LocalsOK
<1>1. CASE GetRename(r)
  <2>1. Job(r)' = Job(r) /\ child' = child BY <1>1 DEF GetRename, Job
  <2>2. Job(r) \in Jobs
    BY <1>1, JobType, <1>p DEF GetRename, ProcOK
  <2>3. child[Job(r)].st = "none"
    BY <1>1, <2>2 DEF GetRename, IdsOK, QueuedIsFresh
  <2>4. exec'[Job(r)] # None
    <3>1. exec'[Job(r)] =
            [sub |-> queue[Job(r)], res |-> None, pid |-> FALSE]
      BY <1>1, <2>2, <1>p DEF GetRename, TypeOK
    <3>2. queue[Job(r)] \in Queueable BY <1>1, <2>2, <1>p DEF GetRename, TypeOK
    <3>3. exec'[Job(r)] \in ExecFile BY <3>1, <3>2 DEF ExecFile
    <3> QED BY <3>3, NoneAssumption
  <2> QED BY <2>1, <2>3, <2>4
<1>2. CASE Owns(r) /\ Job(r)' = Job(r)
  <2>1. exec[Job(r)] # None /\ child[Job(r)].st = "none" BY <1>2 DEF Owned
  <2>2. pc[r] # "idle" /\ cur[r].idx # 0 BY <1>2 DEF Owns, Holding
  <2>3. Job(r) \in Jobs BY <2>2, JobType
  <2>4. \A s \in Procs : Popen(s) => Job(r) # Job(s)
    <3> SUFFICES ASSUME NEW s \in Procs, Popen(s), Job(r) = Job(s)
                 PROVE  FALSE
      OBVIOUS
    <3>1. Owns(s)
      BY DEF Popen, Owns, Holding, Typed, LocalsOK, ProcOK
    <3>2. r = s BY <1>2, <3>1 DEF Owned
    <3>3. pc'[r] = "pid" BY <3>2, <1>p DEF Popen, TypeOK
    <3> QED BY <3>3 DEF Owns
  <2>5. child'[Job(r)].st = "none"
    BY <2>1, <2>3, <2>4, ChildStep DEF Onward, Alive
  <2>6. exec'[Job(r)] # None
    <3> SUFFICES ASSUME exec'[Job(r)] = None PROVE FALSE
      OBVIOUS
    <3>1. ASSUME NEW s \in Procs, DropExec(s), Job(r) = Job(s) PROVE FALSE
      <4>1. Owns(s)
        BY <3>1 DEF DropExec, Owns, Holding, Typed, LocalsOK, ProcOK
      <4>2. r = s BY <1>2, <3>1, <4>1 DEF Owned
      <4>3. pc'[r] = "peek" BY <3>1, <4>2, <1>p DEF DropExec, TypeOK
      <4>4. cur' = cur /\ cur[r].idx # 0 BY <3>1, <2>2 DEF DropExec, RemoveExec
      <4> QED BY <4>3 DEF Owns, Holding
    <3>2. ASSUME NEW s \in Procs, CommandOver(s), Job(r) = Job(s) PROVE FALSE
      BY <2>1, <3>2 DEF CommandOver, Owned
    <3>3. ~UnscheduleKilled(Job(r))
      BY <2>1 DEF UnscheduleKilled
    <3>4. ASSUME NEW s \in Procs, Job(r) = Job(s),
                 GetRename(s) \/ WriteExec(s) \/ WritePid(s)
          PROVE  FALSE
      <4>1. ASSUME GetRename(s) PROVE FALSE
        <5>1. queue[Job(r)] \in Queueable
          BY <3>4, <4>1, <2>3, <1>p DEF GetRename, TypeOK
        <5>2. exec'[Job(r)] =
                [sub |-> queue[Job(r)], res |-> None, pid |-> FALSE]
          BY <3>4, <4>1, <2>3, <1>p DEF GetRename, TypeOK
        <5> QED BY <5>1, <5>2, NoneAssumption DEF ExecFile
      <4>2. ASSUME NEW b \in BOOLEAN, Dump(s, b), cur[s].data \in Queueable
            PROVE  FALSE
        <5>1. cur[s].res \in Resources \cup {None} BY <1>p DEF TypeOK, Current
        <5>2. exec'[Job(r)] =
                [sub |-> cur[s].data, res |-> cur[s].res, pid |-> b]
          BY <3>4, <4>2, <2>3, <1>p DEF Dump, TypeOK
        <5> QED BY <4>2, <5>1, <5>2, NoneAssumption DEF ExecFile
      <4>3. WriteExec(s) \/ WritePid(s) => cur[s].data \in Queueable
        BY DEF WriteExec, WritePid, Typed, LocalsOK, ProcOK
      <4> QED BY <3>4, <4>1, <4>2, <4>3 DEF WriteExec, WritePid
    <3> QED BY <2>1, <2>3, <3>1, <3>2, <3>3, <3>4, ExecStep
  <2> QED BY <1>2, <2>5, <2>6
<1> QED BY <1>1, <1>2, OwnsStep

\* No id belongs to two processes: what is queued belongs to none.
LEMMA OwnedApart ==
  ASSUME Typed, IdsOK, Owned, [Next]_vars, NEW r \in Procs, NEW s \in Procs,
         r # s, Owns(r)', Owns(s)'
  PROVE  Job(r)' # Job(s)'
<1>p. TypeOK /\ LocalsOK BY DEF Typed
<1>1. ASSUME NEW a \in Procs, NEW b \in Procs, a # b, GetRename(a), Owns(b)'
      PROVE  Job(a)' # Job(b)'
  <2>1. pc[a] = "rename" /\ queue[Job(a)] # None /\ Job(a)' = Job(a)
    BY <1>1 DEF GetRename, Job
  <2>2. Job(a) \in Jobs BY <2>1, <1>p, JobType DEF LocalsOK, ProcOK
  <2>3. exec[Job(a)] = None BY <2>1, <2>2 DEF IdsOK, QueuedIsFresh
  <2>4. Still(b)
    <3>1. ProcStep(a) BY <1>1 DEF ProcStep, BookStep
    <3> QED BY <1>1, <3>1, OthersStill
  <2>5. Owns(b) /\ Job(b)' = Job(b) BY <1>1, <2>4 DEF Still, Owns, Job
  <2>6. exec[Job(b)] # None BY <2>5 DEF Owned
  <2> QED BY <2>1, <2>3, <2>5, <2>6
<1>2. CASE GetRename(r) BY <1>1, <1>2
<1>3. CASE GetRename(s) BY <1>1, <1>3
<1>4. CASE ~GetRename(r) /\ ~GetRename(s)
  <2>1. Owns(r) /\ Job(r)' = Job(r) /\ Owns(s) /\ Job(s)' = Job(s)
    BY <1>4, OwnsStep
  <2> QED BY <2>1 DEF Owned
<1> QED BY <1>2, <1>3, <1>4

\* A process comes to record a command it has started or waited for.
LEMMA CommandTurn ==
  ASSUME Typed, NEW r \in Procs, ProcStep(r), pc'[r] \in {"pid", "reaped"}
  PROVE  Popen(r) \/ Reap(r)
<1>p. TypeOK /\ ProcOK(r) BY DEF Typed, LocalsOK
<1>1. FreeDone(r) => pc'[r] \in {"peek", "drop", "wait"}
  BY <1>p, AfterFree
<1>2. ~ScheduleStep(r)
  BY <1>p DEF ScheduleStep, ScheduleDuplicate, ScheduleUnknownPool,
    ScheduleAccepted, WriteQueueFile, BumpNext, BlockAgain, BlockReturn,
    ScheduleEnd, Exit, Idle, TypeOK
<1>3. ~BookStep(r)
  BY <1>p DEF BookStep, Peek, ReadData, ReadMissing, CheckExtra, SkipJob,
    CheckDone, BookList, BookTake, BookMissed, BookFailed, GetLock,
    GetNothing, GetRename, GetMissing, GetAdvance, Exit, Idle, TypeOK
<1>4. LaunchStep(r) => Popen(r)
  BY <1>p DEF LaunchStep, BookDone, RemoveBooked, WriteExec, WriteNowhere,
    PopenFailed, WritePid, Exit, Idle, TypeOK
<1>5. WaitStep(r) => Reap(r)
  BY <1>1, <1>p DEF WaitStep, FreeCheck, FreeRemoved, FreeSymlink,
    FreeLink, FreeExists, DropExec, CommandOver, RunDone, BlockedRunDone,
    Exit, Idle, TypeOK
<1> QED BY <1>2, <1>3, <1>4, <1>5 DEF ProcStep

\* The command that was waited for is the one the locals then name.
LEMMA ReapEffect ==
  ASSUME Typed, Parents, NEW r \in Procs, Reap(r)
  PROVE  /\ child'[Job(r)'].st = "gone"
         /\ cur'[r].after = "wait"
<1>p. TypeOK /\ ProcOK(r) BY DEF Typed, LocalsOK
<1>1. PICK c \in Commands(r) :
        /\ child' = [child EXCEPT ![c] = [child[c] EXCEPT !.st = "gone",
                                                          !.by = None]]
        /\ cur' = [cur EXCEPT ![r] = Fresh(0, c[2], "wait")]
        /\ inv' = [inv EXCEPT ![r].ret =
                     {e \in inv[r].ret : e[1] # RetKey(r, c)}
                       \cup {<<RetKey(r, c), c[2]>>}]
  BY DEF Reap
<1>2. c \in Jobs /\ child[c].by = r /\ child[c] \in Child
  BY <1>p DEF Commands, TypeOK
<1>3. PoolOf(r) = c[1] BY <1>2 DEF Parents
<1>4. inv'[r].pool = inv[r].pool
  BY <1>1, <1>p DEF TypeOK, Invocation
<1>5. cur'[r].idx = c[2] /\ cur'[r].after = "wait"
  BY <1>1, <1>p DEF TypeOK, Fresh
<1>6. Job(r)' = c
  BY <1>2, <1>3, <1>4, <1>5 DEF Job, Jobs
<1>7. child'[c].st = "gone"
  BY <1>1, <1>2, <1>p DEF TypeOK, Child
<1> QED BY <1>5, <1>6, <1>7

\* A process that has started a command, or waited for it, names its job.
LEMMA OwnedCommand ==
  ASSUME Typed, Parents, Owned, [Next]_vars, NEW r \in Procs,
         pc'[r] \in {"pid", "reaped"}
  PROVE  /\ child'[Job(r)'].st # "none"
         /\ pc'[r] = "reaped" => cur'[r].after = "wait"
<1>p. TypeOK /\ ProcOK(r) BY DEF Typed, LocalsOK
<1>1. CASE Still(r)
  <2>1. Job(r)' = Job(r) /\ pc[r] \in {"pid", "reaped"}
    BY <1>1 DEF Still, Job
  <2>2. child[Job(r)].st # "none" BY <2>1 DEF Owned
  <2>3. Job(r) \in Jobs BY <2>1, <1>p, JobType DEF ProcOK
  <2>4. ASSUME NEW s \in Procs, Popen(s), Job(r) = Job(s) PROVE FALSE
    BY <2>2, <2>4 DEF Popen, Owned, Owns, Holding, Typed, LocalsOK, ProcOK
  <2>5. child'[Job(r)].st # "none"
    BY <2>2, <2>3, <2>4, ChildStep DEF Onward
  <2>6. pc[r] = "reaped" => cur[r].after = "wait" BY DEF Owned
  <2> QED BY <1>1, <2>1, <2>5, <2>6 DEF Still
<1>2. CASE \/ \E p \in RunPools : StartRun(r, p)
           \/ \E q \in Requests : ScheduleLock(r, q)
           \/ Die(r)
  BY <1>2, <1>p DEF StartRun, ScheduleLock, Die, Exit, Idle, TypeOK
<1>3. CASE ProcStep(r)
  <2>1. Popen(r) \/ Reap(r)
    BY <1>3, CommandTurn
  <2>2. CASE Popen(r)
    <3>1. Job(r) \in Jobs /\ Job(r)' = Job(r) /\ pc'[r] = "pid"
      BY <2>2, <1>p, JobType DEF Popen, ProcOK, Job, TypeOK
    <3>2. child'[Job(r)].st = "running" BY <2>2, <3>1, <1>p DEF Popen, TypeOK
    <3> QED BY <3>1, <3>2
  <2>3. CASE Reap(r)
    BY <2>3, ReapEffect
  <2> QED BY <2>1, <2>2, <2>3
<1> QED BY <1>1, <1>2, <1>3, Turns

\* An id belongs to one process from the renaming to the start.
LEMMA OwnedStep ==
  Typed /\ IdsOK /\ Parents /\ Owned /\ [Next]_vars => Owned'
<1> SUFFICES ASSUME Typed, IdsOK, Parents, Owned, [Next]_vars
             PROVE  Owned'
  OBVIOUS
<1>1. ASSUME NEW r \in Procs, Owns(r)'
      PROVE  (exec[Job(r)] # None /\ child[Job(r)].st = "none")'
  BY <1>1, OwnedJob
<1> QED BY <1>1, OwnedApart, OwnedCommand DEF Owned

-----------------------------------------------------------------------------
(* What the .exec file of a running command says.                          *)

\* The primary resource stays booked until the command starts.
LEMMA PrimaryStep ==
  ASSUME Typed, NEW r \in Procs, ProcRecorded(r), ProcStep(r), HasPrimary(r)'
  PROVE  Primary(r)' \in held'[r]
<1>p. TypeOK /\ ProcOK(r) BY DEF Typed, LocalsOK
<1>1. CASE BookTake(r)
  <2>1. PICK x \in avail[Target(r)] :
          /\ held' = [held EXCEPT ![r] = held[r] \cup {<<Target(r), x>>}]
          /\ IF book[r].k = 0
               THEN cur' = [cur EXCEPT ![r].res = x] ELSE cur' = cur
    BY <1>1 DEF BookTake
  <2>2. held'[r] = held[r] \cup {<<Target(r), x>>} BY <2>1, <1>p DEF TypeOK
  <2>3. inv' = inv BY <1>1 DEF BookTake
  <2>4. CASE book[r].k = 0
    <3>1. cur'[r].res = x BY <2>1, <2>4, <1>p DEF TypeOK, Current
    <3> QED BY <2>2, <2>3, <2>4, <3>1 DEF Primary, Target
  <2>5. CASE book[r].k # 0
    <3>1. HasPrimary(r)
      BY <1>1, <2>5, <1>p DEF BookTake, HasPrimary, TypeOK, Booking
    <3> QED BY <2>1, <2>2, <2>3, <2>5, <3>1 DEF Primary, ProcRecorded
  <2> QED BY <2>4, <2>5
<1>2. CASE GetLock(r)
  <2>1. cur'[r].res = cur[r].res /\ HasPrimary(r)
    BY <1>2, <1>p DEF GetLock, HasPrimary, Equipping, TypeOK
  <2> QED BY <1>2, <2>1 DEF GetLock, Primary, ProcRecorded
<1>3. CASE \/ BookList(r) \/ BookMissed(r) \/ GetNothing(r) \/ GetRename(r)
           \/ GetAdvance(r) \/ BookDone(r) \/ RemoveBooked(r) \/ WriteExec(r)
  <2>1. held' = held /\ cur' = cur /\ inv' = inv
    BY <1>3 DEF BookList, BookMissed, GetNothing, GetRename, GetAdvance,
      BookDone, RemoveBooked, WriteExec, Dump
  <2>2. HasPrimary(r)
    <3>1. CASE BookList(r) \/ BookMissed(r)
      <4>1. book'[r].k = book[r].k
        BY <3>1, <1>p DEF BookList, BookMissed, TypeOK, Booking
      <4>2. pc'[r] = "try"
        BY <3>1, <1>p DEF BookList, BookMissed, TypeOK
      <4> QED BY <3>1, <4>1, <4>2
        DEF BookList, BookMissed, HasPrimary, Equipping
    <3>2. CASE BookDone(r)
      <4>1. Extras(r) \in Nat /\ book[r].k \in Nat /\ book[r].k > Extras(r)
        BY <3>2, <1>p DEF BookDone, ProcOK, Extras, Queueable, TypeOK, Booking
      <4> QED BY <3>2, <4>1 DEF BookDone, HasPrimary
    <3>3. CASE \/ GetNothing(r) \/ GetRename(r) \/ GetAdvance(r)
               \/ RemoveBooked(r) \/ WriteExec(r)
      BY <3>3 DEF GetNothing, GetRename, GetAdvance, RemoveBooked, WriteExec,
        HasPrimary, Equipping
    <3> QED BY <1>3, <3>1, <3>2, <3>3
  <2> QED BY <2>1, <2>2 DEF Primary, ProcRecorded
<1>4. CASE Exit(r)
  BY <1>4, <1>p DEF Exit, Idle, HasPrimary, Equipping, TypeOK
<1>5. CASE ScheduleStep(r)
  <2>1. Exit(r) \/ pc'[r] \in {"idle", "peek", "enqueue", "bump"}
    BY <1>5, <1>p DEF ScheduleStep, ScheduleDuplicate, ScheduleUnknownPool,
      ScheduleAccepted, WriteQueueFile, BumpNext, BlockAgain, BlockReturn,
      ScheduleEnd, Idle, TypeOK
  <2> QED BY <1>4, <2>1 DEF HasPrimary, Equipping
<1>6. CASE \/ Peek(r) \/ ReadData(r) \/ CheckExtra(r) \/ SkipJob(r)
           \/ BookFailed(r) \/ Popen(r) \/ PopenFailed(r) \/ WritePid(r)
  <2>1. pc \in [Procs -> PC] BY <1>p DEF TypeOK
  <2>2. CASE Peek(r) \/ ReadData(r)
    <3>1. pc'[r] \in {"read", "wait", "check", "peek"}
      BY <2>1, <2>2 DEF Peek, ReadData
    <3> QED BY <3>1 DEF HasPrimary, Equipping
  <2>3. CASE CheckExtra(r) \/ SkipJob(r) \/ BookFailed(r)
    <3>1. pc'[r] \in {"wait", "check", "peek", "free"}
      BY <2>1, <2>3 DEF CheckExtra, SkipJob, BookFailed
    <3> QED BY <3>1 DEF HasPrimary, Equipping
  <2>4. CASE Popen(r) \/ PopenFailed(r) \/ WritePid(r)
    <3>1. pc'[r] \in {"peek", "free", "pid"}
      BY <2>1, <2>4 DEF Popen, PopenFailed, WritePid
    <3> QED BY <3>1 DEF HasPrimary, Equipping
  <2> QED BY <1>6, <2>2, <2>3, <2>4
<1>7. CASE CheckDone(r)
  <2>1. pc'[r] = "book" /\ book'[r].k = 0
    BY <1>7, <1>p DEF CheckDone, TypeOK, Booked
  <2> QED BY <2>1 DEF HasPrimary, Equipping
<1>8. CASE WaitStep(r)
  <2>1. FreeDone(r) => pc'[r] \in {"peek", "drop", "wait"}
    BY <1>p, AfterFree
  <2>2. ~FreeDone(r) =>
          Exit(r) \/ pc'[r] \in {"link", "free", "peek", "reaped", "blocked"}
    BY <1>8, <1>p DEF WaitStep, FreeCheck, FreeRemoved, FreeSymlink, FreeLink,
      FreeExists, DropExec, CommandOver, Reap, RunDone, BlockedRunDone, TypeOK
  <2> QED BY <1>4, <2>1, <2>2 DEF HasPrimary, Equipping
<1> QED BY <1>1, <1>2, <1>3, <1>4, <1>5, <1>6, <1>7, <1>8 DEF ProcStep,
  BookStep, LaunchStep, ReadMissing, GetMissing, WriteNowhere

\* A process comes to start its command by writing the .exec file.
LEMMA PopenTurn ==
  ASSUME Typed, NEW r \in Procs, ProcStep(r), pc'[r] = "popen"
  PROVE  WriteExec(r)
<1>p. TypeOK BY DEF Typed
<1>1. FreeDone(r) => pc'[r] \in {"peek", "drop", "wait"}
  BY <1>p, AfterFree
<1>2. ~ScheduleStep(r)
  BY <1>p DEF ScheduleStep, ScheduleDuplicate, ScheduleUnknownPool,
    ScheduleAccepted, WriteQueueFile, BumpNext, BlockAgain, BlockReturn,
    ScheduleEnd, Exit, Idle, TypeOK
<1>3. ~BookStep(r)
  BY <1>p DEF BookStep, Peek, ReadData, ReadMissing, CheckExtra, SkipJob,
    CheckDone, BookList, BookTake, BookMissed, BookFailed, GetLock,
    GetNothing, GetRename, GetMissing, GetAdvance, Exit, Idle, TypeOK
<1>4. LaunchStep(r) => WriteExec(r)
  BY <1>p DEF LaunchStep, BookDone, RemoveBooked, WriteNowhere, Popen,
    PopenFailed, WritePid, Exit, Idle, TypeOK
<1>5. ~WaitStep(r)
  BY <1>1, <1>p DEF WaitStep, FreeCheck, FreeRemoved, FreeSymlink,
    FreeLink, FreeExists, DropExec, CommandOver, Reap, RunDone,
    BlockedRunDone, Exit, Idle, TypeOK
<1> QED BY <1>2, <1>3, <1>4, <1>5 DEF ProcStep

\* What a step of r must show of the .exec file and the command of its job.
LEMMA OwnRecorded ==
  ASSUME Typed, Parents, Owned, NEW r \in Procs, ProcRecorded(r), ProcStep(r)
  PROVE  ProcRecorded(r)'
<1>p. TypeOK /\ ProcOK(r) BY DEF Typed, LocalsOK
<1>1. HasPrimary(r)' => Primary(r)' \in held'[r] BY PrimaryStep
<1>2. ASSUME pc'[r] = "popen" PROVE exec'[Job(r)'].res = cur'[r].res
  <2>1. WriteExec(r) BY <1>2, PopenTurn
  <2>2. Job(r) \in Jobs BY <2>1, JobType DEF WriteExec
  <2>3. exec'[Job(r)].res = cur[r].res
    BY <2>1, <2>2, <1>p DEF WriteExec, Dump, TypeOK
  <2>4. Job(r)' = Job(r) /\ cur' = cur BY <2>1 DEF WriteExec, Dump, Job
  <2> QED BY <2>3, <2>4
<1>3. ASSUME pc'[r] = "pid" PROVE Primary(r)' \in child'[Job(r)'].uses
  <2>1. Popen(r)
    BY <1>3, <1>p, CommandTurn DEF Reap, TypeOK
  <2>2. Job(r) \in Jobs /\ Job(r)' = Job(r) /\ Primary(r)' = Primary(r)
    BY <2>1, JobType, <1>p DEF Popen, ProcOK, Job, Primary
  <2>3. Primary(r) \in held[r]
    BY <2>1 DEF Popen, ProcRecorded, HasPrimary, Equipping
  <2>4. child'[Job(r)].uses = held[r] BY <2>1, <2>2, <1>p DEF Popen, TypeOK
  <2> QED BY <2>2, <2>3, <2>4
<1>4. ASSUME pc'[r] = "reaped" PROVE child'[Job(r)'].st = "gone"
  <2>1. Reap(r) BY <1>4, <1>p, CommandTurn DEF Popen, TypeOK
  <2> QED BY <2>1, ReapEffect
<1> QED BY <1>1, <1>2, <1>3, <1>4 DEF ProcRecorded

\* Nobody writes the .exec file of a job that another process is starting.
LEMMA OwnedExec ==
  ASSUME Typed, IdsOK, Owned, [Next]_vars, NEW s \in Procs, Owns(s), Still(s)
  PROVE  exec'[Job(s)] = exec[Job(s)]
<1>p. TypeOK /\ LocalsOK BY DEF Typed
<1>1. Job(s) \in Jobs BY JobType DEF Owns, Holding
<1>2. exec[Job(s)] # None /\ child[Job(s)].st = "none" BY DEF Owned
<1>3. ASSUME NEW t \in Procs, GetRename(t), Job(s) = Job(t) PROVE FALSE
  BY <1>1, <1>2, <1>3 DEF GetRename, IdsOK, QueuedIsFresh
<1>4. ASSUME NEW t \in Procs, WriteExec(t) \/ DropExec(t), Job(s) = Job(t)
      PROVE  FALSE
  <2>1. Owns(t)
    BY <1>4, <1>p DEF WriteExec, DropExec, Owns, Holding, LocalsOK, ProcOK
  <2>2. t = s BY <1>4, <2>1 DEF Owned
  <2> QED BY <1>4, <2>2, <1>p DEF WriteExec, DropExec, Still, TypeOK
<1>5. ASSUME NEW t \in Procs, WritePid(t) \/ CommandOver(t), Job(s) = Job(t)
      PROVE  FALSE
  BY <1>2, <1>5 DEF WritePid, CommandOver, Owned
<1>6. ~UnscheduleKilled(Job(s)) BY <1>2 DEF UnscheduleKilled
<1> QED BY <1>1, <1>3, <1>4, <1>5, <1>6, ExecStep

\* A command that has been started is not started again.
LEMMA StartedOnce ==
  ASSUME Typed, Owned, [Next]_vars, NEW c \in Jobs, child[c].st # "none"
  PROVE  Onward(c)
<1>1. ASSUME NEW r \in Procs, Popen(r), c = Job(r) PROVE FALSE
  BY <1>1 DEF Popen, Owned, Owns, Holding, Typed, LocalsOK, ProcOK
<1> QED BY <1>1, ChildStep

\* The locals of the runners agree with the .exec files and the commands.
LEMMA RecordingStep ==
  Typed /\ IdsOK /\ Parents /\ Owned /\ Recording /\ [Next]_vars => Recording'
<1> SUFFICES ASSUME Typed, IdsOK, Parents, Owned, Recording, [Next]_vars,
                    NEW s \in Procs
             PROVE  ProcRecorded(s)'
  BY DEF Recording
<1>p. TypeOK /\ ProcOK(s) /\ ProcRecorded(s)
  BY DEF Typed, LocalsOK, Recording
<1>1. CASE ProcStep(s) BY <1>1, <1>p, OwnRecorded
<1>2. CASE \/ \E p \in RunPools : StartRun(s, p)
           \/ \E q \in Requests : ScheduleLock(s, q)
           \/ Die(s)
  <2>1. pc'[s] \in {"peek", "dup", "idle"}
    BY <1>2, <1>p DEF StartRun, ScheduleLock, Die, Exit, Idle, TypeOK
  <2> QED BY <2>1 DEF ProcRecorded, HasPrimary, Equipping
<1>3. CASE Still(s)
  <2>1. /\ pc'[s] = pc[s] /\ Job(s)' = Job(s) /\ Primary(s)' = Primary(s)
        /\ HasPrimary(s)' = HasPrimary(s) /\ held'[s] = held[s]
        /\ cur'[s] = cur[s]
    BY <1>3 DEF Still, Job, Primary, HasPrimary
  <2>2. ASSUME pc[s] = "popen" PROVE exec'[Job(s)].res = cur[s].res
    <3>1. Owns(s) BY <2>2, <1>p DEF Owns, Holding, ProcOK
    <3> QED BY <1>3, <2>2, <3>1, <1>p, OwnedExec DEF ProcRecorded
  <2>3. ASSUME pc[s] \in {"pid", "reaped"} PROVE Onward(Job(s))
    <3>1. Job(s) \in Jobs BY <2>3, <1>p, JobType DEF ProcOK
    <3> QED BY <2>3, <3>1, StartedOnce DEF Owned
  <2> QED BY <2>1, <2>2, <2>3, <1>p DEF ProcRecorded, Onward, Alive
<1> QED BY <1>1, <1>2, <1>3, Turns

\* The .exec file of a command outlives it.
LEMMA RunningRecordedStep ==
  Typed /\ IdsOK /\ Owned /\ Recording /\ RunningRecorded /\ [Next]_vars
    => RunningRecorded'
<1> SUFFICES ASSUME Typed, IdsOK, Owned, Recording, RunningRecorded,
                    [Next]_vars, NEW c \in Jobs, child'[c].st \in Alive
             PROVE  exec'[c] # None /\ <<c[1], exec'[c].res>> \in child'[c].uses
  BY DEF RunningRecorded
<1>p. TypeOK BY DEF Typed
<1>1. ASSUME NEW r \in Procs, Popen(r), c = Job(r)
      PROVE  exec'[c] # None /\ <<c[1], exec'[c].res>> \in child'[c].uses
  <2>1. exec' = exec /\ child'[c].uses = held[r]
    BY <1>1, <1>p DEF Popen, TypeOK
  <2>2. Owns(r)
    BY <1>1 DEF Popen, Owns, Holding, Typed, LocalsOK, ProcOK
  <2>3. exec[c] # None BY <1>1, <2>2 DEF Owned
  <2>4. Primary(r) \in held[r] /\ exec[c].res = cur[r].res
    BY <1>1 DEF Popen, Recording, ProcRecorded, HasPrimary, Equipping
  <2> QED BY <1>1, <2>1, <2>3, <2>4 DEF Job, Primary
<1>2. CASE Onward(c)
  <2>1. child[c].st \in Alive /\ child'[c].uses = child[c].uses
    BY <1>2 DEF Onward
  <2>2. exec[c] # None /\ <<c[1], exec[c].res>> \in child[c].uses
    BY <2>1 DEF RunningRecorded
  <2>3. ASSUME NEW r \in Procs, c = Job(r),
               GetRename(r) \/ WriteExec(r) \/ DropExec(r) \/ CommandOver(r)
        PROVE  FALSE
    <3>1. ~GetRename(r)
      BY <2>2, <2>3 DEF GetRename, IdsOK, QueuedIsFresh
    <3>2. WriteExec(r) \/ DropExec(r) => Owns(r)
      BY DEF WriteExec, DropExec, Owns, Holding, Typed, LocalsOK, ProcOK
    <3>3. ~Owns(r) BY <2>1, <2>3 DEF Owned, Alive
    <3>4. ~CommandOver(r)
      BY <2>1, <2>3 DEF CommandOver, Recording, ProcRecorded, Alive
    <3> QED BY <2>3, <3>1, <3>2, <3>3, <3>4
  <2>4. ~UnscheduleKilled(c) BY <2>1 DEF UnscheduleKilled, Alive
  <2>5. ASSUME NEW r \in Procs, c = Job(r), WritePid(r)
        PROVE  exec'[c] # None /\ <<c[1], exec'[c].res>> \in child[c].uses
    <3>1. exec'[c] = [sub |-> cur[r].data, res |-> cur[r].res, pid |-> TRUE]
      BY <2>5, <1>p DEF WritePid, Dump, TypeOK
    <3>2. cur[r].data \in Queueable /\ cur[r].res \in Resources \cup {None}
      BY <2>5, <1>p DEF WritePid, Typed, LocalsOK, ProcOK, TypeOK, Current
    <3>3. exec'[c] # None
      <4>1. exec'[c] \in ExecFile BY <3>1, <3>2 DEF ExecFile
      <4> QED BY <4>1, NoneAssumption
    <3>4. Primary(r) \in child[c].uses
      BY <2>5 DEF WritePid, Recording, ProcRecorded
    <3> QED BY <2>5, <3>1, <3>3, <3>4 DEF Primary, Job
  <2> QED BY <2>1, <2>2, <2>3, <2>4, <2>5, ExecStep
<1> QED BY <1>1, <1>2, ChildStep

\* Everything a step relies on holds at every step: the inductive invariant.
THEOREM InductiveCorrect == Spec => []Inductive
<1>1. /\ Init => Freeing /\ Chosen /\ Equipped
      /\ Init => Parents /\ Owned
      /\ Init => Recording /\ RunningRecorded
  BY DEF Init, Freeing, Chosen, Equipped, ProcEquipped, Equipping, Parents,
    Owned, Owns, Holding, NoChild, Recording, ProcRecorded, HasPrimary,
    RunningRecorded, Alive
<1>2. Init => Exclusive
  BY DEF Init, Exclusive, NoChild, Alive
<1>3. Typed /\ IdsOK /\ Chosen /\ [Next]_vars => Chosen'
  BY ChosenStep
<1>4. Spec => [](Typed /\ Exclusive /\ Freeing)
  BY <1>1, <1>2, InitTyped, NextTyped, NextExclusive, PTL DEF Spec
<1>5. Spec => [](Chosen /\ Equipped)
  BY <1>1, <1>3, <1>4, IdsCorrect, ExclusiveEquipped, PTL DEF Spec
<1>6. Spec => [](Parents /\ Owned)
  BY <1>1, <1>4, IdsCorrect, ParentsStep, OwnedStep, PTL DEF Spec
<1>7. Spec => [](Recording /\ RunningRecorded)
  BY <1>1, <1>4, <1>6, IdsCorrect, RecordingStep, RunningRecordedStep, PTL
     DEF Spec
<1>8. /\ Typed => LocalsOK
      /\ Inductive <=> /\ LocalsOK /\ Freeing /\ Exclusive /\ IdsOK /\ Chosen
                       /\ Equipped /\ FullyEquipped /\ Parents /\ Owned
                       /\ Recording /\ RunningRecorded
  BY DEF Typed, Inductive
<1> QED BY <1>4, <1>5, <1>6, <1>7, <1>8, IdsCorrect, FullyEquippedCorrect, PTL

-----------------------------------------------------------------------------
(* A process that is alone runs the command of the job it consumes.        *)

\* What was peeked is what get_command will find, then what is consumed, then
\* what the .exec file holds.
Active == {"read", "check", "book", "try", "get", "rename", "advance",
           "remove", "write", "popen", "pid"}

Foreseen(r) ==
  /\ pc[r] \in {"read", "check", "get"} => cur[r].idx = 0
  /\ pc[r] \in {"book", "try"} /\ book[r].k = 0 => cur[r].idx = 0
  /\ pc[r] \in {"get", "rename", "advance"} => book[r].k # 0
  /\ pc[r] \in {"read", "check", "book", "try", "get"} /\ cur[r].idx = 0 =>
       cur[r].peek # 0 /\ Picks(PoolOf(r), cur[r].peek)
  /\ pc[r] \in {"check", "book", "try", "get"} /\ cur[r].idx = 0 =>
       cur[r].data = queue[<<PoolOf(r), cur[r].peek>>]
  /\ pc[r] = "rename" => cur[r].data = queue[Job(r)]
  /\ pc[r] \in Active \ {"rename"} /\ cur[r].idx # 0 =>
       exec[Job(r)].sub = cur[r].data

\* Two scans of the same queue pick the same job.
LEMMA PicksOne ==
  ASSUME Typed, NEW p \in Pools, NEW i \in 0..MaxId, NEW j \in Ids, i # 0,
         Picks(p, i), Picks(p, j)
  PROVE  i = j
<1>1. i \in Candidates(p) /\ j \in Candidates(p) /\ i \in Int /\ j \in Int
  BY DEF Picks, Ids
<1>2. /\ queue[<<p, i>>].priority \in Int
      /\ queue[<<p, j>>].priority \in Int
  BY <1>1, PriorityType DEF Candidates, Jobs
<1>3. /\ \/ queue[<<p, j>>].priority < queue[<<p, i>>].priority
         \/ queue[<<p, j>>].priority = queue[<<p, i>>].priority /\ i <= j
      /\ \/ queue[<<p, i>>].priority < queue[<<p, j>>].priority
         \/ queue[<<p, i>>].priority = queue[<<p, j>>].priority /\ j <= i
  BY <1>1 DEF Picks, Ids
<1> QED BY <1>1, <1>2, <1>3

\* The steps that leave alone what is peeked and what is consumed.
LEMMA MineFrame ==
  ASSUME NEW r, Foreseen(r), UNCHANGED <<first, next, queue, exec, inv>>,
         cur'[r].peek = cur[r].peek, cur'[r].idx = cur[r].idx,
         cur'[r].data = cur[r].data,
         pc[r] \in Active \ {"read", "rename"},
         pc'[r] \in Active \ {"read", "rename", "advance"},
         pc'[r] \in {"check", "book", "try", "get"} =>
           pc[r] \in {"check", "book", "try", "get"},
         pc'[r] \in {"check", "get"} => cur[r].idx = 0,
         pc'[r] = "get" => book'[r].k # 0,
         pc'[r] \in {"book", "try"} /\ book'[r].k = 0 => cur[r].idx = 0
  PROVE  Foreseen(r)'
<1>1. Candidates(PoolOf(r))' = Candidates(PoolOf(r))
  BY DEF Candidates
<1>2. Picks(PoolOf(r), cur[r].peek)' <=> Picks(PoolOf(r), cur[r].peek)
  BY <1>1 DEF Picks
<1>3. Job(r)' = Job(r)
  BY DEF Job
<1> QED BY <1>2, <1>3 DEF Foreseen, Active

\* The step of a process that is alone.
LEMMA MineTurn ==
  ASSUME Typed, NEW r \in Procs, Foreseen(r), ProcStep(r)
  PROVE  Foreseen(r)'
<1>p. TypeOK /\ ProcOK(r) /\ cur[r] \in Current /\ book[r] \in Booking
      /\ inv[r] \in Invocation
  BY DEF Typed, LocalsOK, TypeOK
<1>a. pc'[r] \notin Active => Foreseen(r)'
  BY DEF Foreseen, Active
<1>e. Exit(r) => pc'[r] \notin Active
  BY <1>p DEF Exit, Idle, TypeOK, Active
<1>1. ScheduleStep(r) => pc'[r] \notin Active
  BY <1>e, <1>p DEF ScheduleStep, ScheduleDuplicate, ScheduleUnknownPool,
    ScheduleAccepted, WriteQueueFile, BumpNext, BlockAgain, BlockReturn,
    ScheduleEnd, Idle, TypeOK, Active
<1>2. WaitStep(r) => pc'[r] \notin Active
  <2>1. FreeDone(r) => pc'[r] \notin Active BY <1>p, AfterFree DEF Active
  <2>2. FreeCheck(r) \/ FreeRemoved(r) \/ FreeLink(r) => pc'[r] \notin Active
    BY <1>p DEF FreeCheck, FreeRemoved, FreeLink, Step, TypeOK, Active
  <2>3. FreeSymlink(r) => pc'[r] \notin Active
    BY <1>e, <2>2 DEF FreeSymlink, FreeExists
  <2>4. /\ Reap(r) => Step(r, "wait", "reaped")
        /\ DropExec(r) \/ CommandOver(r) => pc'[r] \notin Active
    BY <1>p DEF DropExec, CommandOver, Reap, Step, TypeOK, Active
  <2>5. RunDone(r) => pc'[r] \notin Active
    BY <1>e DEF RunDone
  <2>6. BlockedRunDone(r) => pc'[r] \notin Active
    BY <1>p DEF BlockedRunDone, Step, TypeOK, Active
  <2>7. Reap(r) => pc'[r] \notin Active
    BY <1>p, <2>4 DEF Step, TypeOK, Active
  <2> QED BY <2>1, <2>2, <2>3, <2>4, <2>5, <2>6, <2>7 DEF WaitStep
<1>3. SkipJob(r) \/ BookFailed(r) \/ ReadMissing(r) \/ GetMissing(r)
        \/ WriteNowhere(r) \/ PopenFailed(r) \/ WritePid(r)
        => pc'[r] \notin Active
  <2>1. SkipJob(r) \/ BookFailed(r) => pc'[r] \notin Active
    BY <1>p DEF SkipJob, BookFailed, Step, TypeOK, Active
  <2>2. PopenFailed(r) \/ WritePid(r) => pc'[r] \notin Active
    BY <1>p DEF PopenFailed, WritePid, Step, TypeOK, Active
  <2>3. ReadMissing(r) \/ GetMissing(r) \/ WriteNowhere(r)
          => pc'[r] \notin Active
    BY <1>e DEF ReadMissing, GetMissing, WriteNowhere
  <2> QED BY <2>1, <2>2, <2>3
<1>4. CASE Peek(r)
  <2>1. PICK i \in 0..MaxId :
          /\ Picks(PoolOf(r), i)
          /\ cur' = [cur EXCEPT ![r] = Fresh(i, 0, "peek")]
          /\ IF i = 0 \/ i \in inv[r].skipped
               THEN pc' = [pc EXCEPT ![r] = "wait"]
               ELSE pc' = [pc EXCEPT ![r] = "read"]
    BY <1>4 DEF Peek
  <2>2. /\ cur'[r].peek = i /\ cur'[r].idx = 0
        /\ UNCHANGED <<inv, first, next, queue>>
    BY <1>4, <1>p, <2>1 DEF Peek, Fresh, TypeOK
  <2>3. CASE i = 0 \/ i \in inv[r].skipped
    BY <1>a, <1>p, <2>1, <2>3 DEF TypeOK, Active
  <2>4. CASE ~(i = 0 \/ i \in inv[r].skipped)
    <3>1. pc'[r] = "read"
      BY <1>p, <2>1, <2>4 DEF TypeOK
    <3>2. Picks(PoolOf(r), cur[r].peek)' <=> Picks(PoolOf(r), i)
      BY <2>2 DEF Picks, Candidates
    <3> QED BY <2>1, <2>2, <2>4, <3>1, <3>2 DEF Foreseen, Active
  <2> QED BY <2>3, <2>4
<1>5. CASE ReadData(r)
  <2>1. /\ pc[r] = "read" /\ pc'[r] = "check"
        /\ cur'[r].data = queue[<<PoolOf(r), cur[r].peek>>]
        /\ cur'[r].peek = cur[r].peek /\ cur'[r].idx = cur[r].idx
        /\ UNCHANGED <<inv, first, next, queue>>
    BY <1>5, <1>p DEF ReadData, TypeOK, Current
  <2>2. Picks(PoolOf(r), cur[r].peek)' <=> Picks(PoolOf(r), cur[r].peek)
    BY <2>1 DEF Picks, Candidates
  <2> QED BY <2>1, <2>2 DEF Foreseen, Active
<1>6. CASE \/ CheckExtra(r) \/ CheckDone(r) \/ BookList(r) \/ BookMissed(r)
           \/ GetNothing(r) \/ BookDone(r) \/ RemoveBooked(r) \/ Popen(r)
  <2>1. /\ UNCHANGED <<first, next, queue, exec, inv, cur>>
        /\ pc[r] \in Active \ {"read", "rename"}
        /\ pc'[r] \in Active \ {"read", "rename", "advance", "get"}
        /\ pc'[r] \in {"check", "book", "try", "get"} =>
             pc[r] \in {"check", "book", "try", "get"}
        /\ pc'[r] = "check" => pc[r] = "check"
        /\ pc'[r] \in {"book", "try"} =>
             \/ pc[r] \in {"check", "get"}
             \/ book'[r].k = book[r].k /\ pc[r] \in {"book", "try"}
    BY <1>6, <1>p DEF CheckExtra, CheckDone, BookList, BookMissed, GetNothing,
      BookDone, RemoveBooked, Popen, TypeOK, Booking, Active
  <2>2. pc[r] \in {"check", "get"} => cur[r].idx = 0
    BY DEF Foreseen
  <2>3. pc[r] \in {"book", "try"} /\ book[r].k = 0 => cur[r].idx = 0
    BY DEF Foreseen
  <2> QED BY <2>1, <2>2, <2>3, MineFrame
<1>7. CASE BookTake(r)
  <2>1. /\ UNCHANGED <<first, next, queue, exec, inv>> /\ pc[r] = "try"
        /\ cur'[r].peek = cur[r].peek /\ cur'[r].idx = cur[r].idx
        /\ cur'[r].data = cur[r].data /\ book'[r].k = book[r].k + 1
        /\ pc'[r] = IF book[r].k = 0 THEN "get" ELSE "book"
        /\ book[r].k \in Nat
    BY <1>7, <1>p DEF BookTake, Booked, TypeOK, Booking, Current
  <2>2. book[r].k = 0 => cur[r].idx = 0
    BY <2>1 DEF Foreseen
  <2>3. book'[r].k # 0
    BY <2>1
  <2> QED BY <2>1, <2>2, <2>3, MineFrame DEF Active
<1>8. CASE GetLock(r)
  <2>1. PICK i \in Ids :
          /\ Picks(PoolOf(r), i)
          /\ cur' = [cur EXCEPT ![r] =
               [data |-> cur[r].data, peek |-> cur[r].peek, idx |-> i,
                first |-> first[PoolOf(r)], next |-> next[PoolOf(r)],
                res |-> cur[r].res, after |-> cur[r].after]]
    BY <1>8 DEF GetLock
  <2>2. /\ pc[r] = "get" /\ pc'[r] = "rename" /\ cur'[r].idx = i
        /\ cur'[r].data = cur[r].data /\ UNCHANGED <<inv, queue, book>>
    BY <1>8, <1>p, <2>1 DEF GetLock, TypeOK
  <2>3. /\ cur[r].peek # 0 /\ Picks(PoolOf(r), cur[r].peek)
        /\ cur[r].data = queue[<<PoolOf(r), cur[r].peek>>]
        /\ book[r].k # 0
    BY <2>2 DEF Foreseen
  <2>4. cur[r].peek \in 0..MaxId /\ PoolOf(r) \in Pools
    BY <1>p, <2>2 DEF Current, ProcOK
  <2>5. cur[r].peek = i
    BY <2>1, <2>3, <2>4, PicksOne
  <2> QED BY <2>2, <2>3, <2>5 DEF Foreseen, Active, Job
<1>9. CASE GetRename(r)
  <2>1. /\ pc[r] = "rename" /\ pc'[r] \in {"advance", "book"}
        /\ UNCHANGED <<inv, cur, book>>
        /\ exec'[Job(r)].sub = queue[Job(r)]
    <3>1. Job(r) \in Jobs
      BY <1>9, <1>p, JobType DEF GetRename, ProcOK
    <3> QED BY <1>9, <1>p, <3>1 DEF GetRename, TypeOK
  <2>2. /\ cur[r].data = queue[Job(r)] /\ cur[r].idx # 0 /\ book[r].k # 0
    BY <1>p, <2>1 DEF Foreseen, ProcOK
  <2> QED BY <2>1, <2>2 DEF Foreseen, Active, Job
<1>10. CASE GetAdvance(r)
  <2>1. /\ pc[r] = "advance" /\ pc'[r] = "book" /\ cur[r].idx # 0
        /\ UNCHANGED <<inv, cur, book, exec>>
    BY <1>10, <1>p DEF GetAdvance, TypeOK, ProcOK
  <2>2. book[r].k # 0 /\ exec[Job(r)].sub = cur[r].data
    BY <2>1 DEF Foreseen, Active
  <2> QED BY <2>1, <2>2 DEF Foreseen, Active, Job
<1>11. CASE WriteExec(r)
  <2>1. /\ pc'[r] = "popen" /\ UNCHANGED <<inv, cur>>
        /\ exec'[Job(r)].sub = cur[r].data
    <3>1. Job(r) \in Jobs
      BY <1>11, <1>p, JobType DEF WriteExec
    <3> QED BY <1>11, <1>p, <3>1 DEF WriteExec, Dump, TypeOK
  <2> QED BY <2>1 DEF Foreseen, Active, Job
<1> QED BY <1>a, <1>1, <1>2, <1>3, <1>4, <1>5, <1>6, <1>7, <1>8, <1>9, <1>10,
      <1>11 DEF ProcStep, BookStep, LaunchStep

\* What a single process relies on: nobody else moves the queue.
Alone == \A r \in Procs : Foreseen(r)

LEMMA AloneStep ==
  ASSUME \A r, s \in Procs : r = s, Cancels = {},
         Typed, Alone, [Next]_vars
  PROVE  Alone'
<1> SUFFICES ASSUME NEW r \in Procs
             PROVE  Foreseen(r)'
  BY DEF Alone
<1>p. TypeOK /\ Foreseen(r)
  BY DEF Typed, Alone
<1>1. ASSUME NEW s \in Procs, ProcStep(s) PROVE Foreseen(r)'
  <2>1. r = s
    OBVIOUS
  <2> QED BY <1>1, <1>p, <2>1, MineTurn
<1>2. ASSUME NEW s \in Procs,
             \/ \E p \in RunPools : StartRun(s, p)
             \/ \E q \in Requests : ScheduleLock(s, q)
             \/ Die(s)
      PROVE  Foreseen(r)'
  <2>1. r = s
    OBVIOUS
  <2>2. pc'[r] \notin Active
    BY <1>2, <1>p, <2>1 DEF StartRun, ScheduleLock, Die, Exit, Idle, TypeOK,
      Active
  <2> QED BY <2>2 DEF Foreseen, Active
<1>3. CASE \/ \E c \in Jobs : ChildExit(c)
           \/ \E x \in Removals : RemoveLink(x) \/ RemoveResource(x)
           \/ UNCHANGED vars
  <2>1. UNCHANGED <<pc, cur, inv, book, first, next, queue, exec>>
    BY <1>3 DEF ChildExit, RemoveLink, RemoveResource, procVars, vars
  <2> QED BY <1>p, <2>1 DEF Foreseen, Picks, Candidates, Job
<1>4. \A c \in Cancels : ~Unschedule(c)
  OBVIOUS
<1> QED BY <1>1, <1>2, <1>3, <1>4 DEF Next

\* A single process that runs the queue while nothing is unscheduled launches
\* what was queued under the id: it takes a second runner, or an unschedule,
\* between peek_next_command and get_command to run another command.
THEOREM AloneKeepsCommand ==
  ASSUME \A r, s \in Procs : r = s, Cancels = {}
  PROVE  Spec => KeepsCommand
<1>1. Init => Alone
  BY DEF Init, Alone, Foreseen, Active
<1>2. Typed /\ Alone /\ [Next]_vars => Alone'
  BY AloneStep
<1>3. Typed /\ IdsOK /\ Alone /\ [Next]_vars =>
        [\A c \in Jobs : exec[c] # None /\ exec'[c] # None =>
           exec'[c].sub = exec[c].sub]_vars
  <2> SUFFICES ASSUME Typed, IdsOK, Alone, [Next]_vars, NEW c \in Jobs,
                      exec[c] # None, exec'[c] # None, exec'[c] # exec[c]
               PROVE  exec'[c].sub = exec[c].sub
    OBVIOUS
  <2>p. TypeOK
    BY DEF Typed
  <2>1. ASSUME NEW r \in Procs, GetRename(r), c = Job(r) PROVE FALSE
    BY <2>1 DEF GetRename, IdsOK, QueuedIsFresh
  <2>2. ASSUME NEW r \in Procs, WriteExec(r) \/ WritePid(r), c = Job(r)
        PROVE  exec'[c].sub = exec[c].sub
    <3>1. pc[r] \in {"write", "pid"} /\ cur[r].idx # 0
      BY <2>2 DEF WriteExec, WritePid, Typed, LocalsOK, ProcOK
    <3>2. exec[c].sub = cur[r].data
      BY <2>2, <3>1 DEF Alone, Foreseen, Active
    <3>3. exec'[c].sub = cur[r].data
      BY <2>2, <2>p DEF WriteExec, WritePid, Dump, TypeOK
    <3> QED BY <3>2, <3>3
  <2>3. ASSUME NEW r \in Procs, DropExec(r) \/ CommandOver(r), c = Job(r)
        PROVE  FALSE
    BY <2>3, <2>p DEF DropExec, CommandOver, RemoveExec, TypeOK
  <2>4. ~UnscheduleKilled(c)
    BY <2>p DEF UnscheduleKilled, TypeOK
  <2> QED BY <2>1, <2>2, <2>3, <2>4, ExecStep
<1>4. Spec => []Typed
  BY InitTyped, NextTyped, PTL DEF Spec
<1> QED BY <1>1, <1>2, <1>3, <1>4, IdsCorrect, PTL DEF Spec, KeepsCommand
=============================================================================
