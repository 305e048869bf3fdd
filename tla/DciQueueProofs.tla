-------------------------- MODULE DciQueueProofs --------------------------
(***************************************************************************)
(* Type correctness of DciQueue, that its resources are exclusive, and     *)
(* what becomes of the .seq file of a pool and of the ids it gives out.    *)
(*                                                                         *)
(* TypeOK is not inductive: what an action writes comes from the locals,   *)
(* and LocalsOK says what they hold at each control point.  Exclusive      *)
(* needs Freeing: a process frees only what it has booked.                 *)
(***************************************************************************)
EXTENDS DciQueue, TLAPS

USE ConstantsAssumption, SubsAssumption, RequestsAssumption

Typed == TypeOK /\ LocalsOK

-----------------------------------------------------------------------------
(* Updates of the locals.                                                  *)

\* The updates of the locals that the actions make keep their types.
LEMMA InvocationUpdate ==
  ASSUME NEW l \in Invocation
  PROVE  /\ \A x \in SUBSET Ids : [l EXCEPT !.skipped = x] \in Invocation
         /\ \A x \in SUBSET (Nat \X Ids) : [l EXCEPT !.ret = x] \in Invocation
BY DEF Invocation

\* What an action writes to the current job.
LEMMA CurrentUpdate ==
  ASSUME NEW l \in Current
  PROVE  /\ \A x \in Subs : [l EXCEPT !.data = x] \in Current
         /\ \A x \in Resources : [l EXCEPT !.res = x] \in Current
         /\ \A x \in {"peek", "drop", "wait"} :
              [l EXCEPT !.after = x] \in Current
BY DEF Current

\* What an action writes to the booking.
LEMMA BookingUpdate ==
  ASSUME NEW l \in Booking
  PROVE  /\ [l EXCEPT !.k = l.k + 1] \in Booking
         /\ \A x \in SUBSET Resources : [l EXCEPT !.listing = x] \in Booking
         /\ \A x \in Tokens : [l EXCEPT !.tok = x] \in Booking
         /\ \A x : [l EXCEPT !.listing = l.listing \ {x}] \in Booking
BY DEF Booking

\* The locals a process starts a phase with.
LEMMA FreshLocals ==
  /\ \A i \in 0..MaxId, j \in 0..MaxId, x \in {"peek", "drop", "wait"} :
       Fresh(i, j, x) \in Current
  /\ NoJob \in Current
  /\ Invoked(None, None, 0) \in Invocation
  /\ \A k \in Nat : Booked(k) \in Booking
  /\ \A p \in Pools \cup {None}, q \in Requests \cup {None},
        b \in (-1)..MaxId : Invoked(p, q, b) \in Invocation
BY DEF Fresh, NoJob, Booked, Invoked, Current, Booking, Invocation

\* A command that ends.
LEMMA ChildUpdate ==
  ASSUME NEW ch \in Child
  PROVE  /\ [ch EXCEPT !.st = "gone"] \in Child
         /\ [ch EXCEPT !.st = "zombie"] \in Child
BY DEF Child

\* A command whose parent dies.
LEMMA OrphanType ==
  ASSUME NEW ch \in Child
  PROVE  Orphan(ch) \in Child
BY DEF Child, Orphan

\* The pool a booking is made in exists: `schedule` accepts no other.
LEMMA TargetType ==
  ASSUME NEW r \in Procs, cur[r] \in Current, book[r] \in Booking,
         PoolOf(r) \in Pools, cur[r].data \in Queueable, book[r].k <= Extras(r)
  PROVE  Target(r) \in Pools
<1>1. CASE book[r].k = 0 BY <1>1 DEF Target
<1>2. CASE book[r].k # 0
  <2>1. book[r].k \in 1..Len(cur[r].data.extra)
    BY <1>2 DEF Booking, Extras, Queueable
  <2>2. cur[r].data.extra \in Seq(STRING \cup Pools) BY DEF Queueable
  <2>3. book[r].k \in DOMAIN cur[r].data.extra BY <2>1, <2>2
  <2> QED BY <1>2, <2>3 DEF Target, Queueable
<1> QED BY <1>1, <1>2

USE DEF Step, PoolOf, Scheduling, Launching, treeVars, dirVars, seqVars,
        localVars, userVars

\* The end of a process keeps the types.
LEMMA ExitType ==
  ASSUME TypeOK, NEW r \in Procs, Exit(r)
  PROVE  TypeOK'
<1>1. lock' \in [Pools -> Procs \cup {None}] BY DEF Exit, TypeOK
<1>2. child' \in [Jobs -> Child] BY OrphanType DEF Exit, TypeOK
<1>i. inv' = [inv EXCEPT ![r] = Invoked(None, None, 0)]
  BY DEF Exit, Idle, Begin
<1>3. inv' \in [Procs -> Invocation]
  BY <1>i, FreshLocals DEF TypeOK
<1>4. cur' \in [Procs -> Current]
  BY FreshLocals DEF Exit, Idle, Begin, TypeOK
<1>5. book' \in [Procs -> Booking]
  BY FreshLocals DEF Exit, Idle, Begin, TypeOK
<1>6. /\ held' \in [Procs -> SUBSET Tokens]
      /\ pc' \in [Procs -> PC]
  BY DEF Exit, Idle, PC, TypeOK
<1>7. UNCHANGED <<pool, avail, reason, first, next, queue, exec, killing,
                  removing>>
  BY DEF Exit
<1> QED BY <1>1, <1>2, <1>3, <1>4, <1>5, <1>6, <1>7 DEF TypeOK

\* The end of a `schedule`, in block mode or not.
LEMMA ScheduleEndType ==
  ASSUME TypeOK, NEW r \in Procs, NEW bid \in (-1)..MaxId, ScheduleEnd(r, bid),
         PoolOf(r) \in Pools
  PROVE  /\ pc' \in [Procs -> PC] /\ inv' \in [Procs -> Invocation]
         /\ cur' \in [Procs -> Current] /\ book' \in [Procs -> Booking]
<1>1. inv[r].req \in Requests \cup {None} BY DEF TypeOK, Invocation
<1>2. \E to \in {"peek", "idle"} : pc' = [pc EXCEPT ![r] = to]
  BY DEF ScheduleEnd, Idle
<1>3. \E q \in Requests \cup {None}, p \in Pools \cup {None}, b \in {0, bid} :
        inv' = [inv EXCEPT ![r] = Invoked(p, q, b)]
  BY <1>1 DEF ScheduleEnd, Idle, Begin
<1>4. /\ cur' = [cur EXCEPT ![r] = NoJob]
      /\ book' = [book EXCEPT ![r] = Booked(0)]
  BY DEF ScheduleEnd, Idle, Begin
<1> QED BY <1>2, <1>3, <1>4, FreshLocals DEF TypeOK, PC

\* Type correctness, one case per action of `schedule` ...
LEMMA ScheduleType ==
  ASSUME Typed, NEW r \in Procs, ScheduleStep(r)
  PROVE  TypeOK'
<1>p. /\ TypeOK /\ ProcOK(r)
      /\ cur[r] \in Current /\ inv[r] \in Invocation /\ book[r] \in Booking
  BY DEF Typed, TypeOK, LocalsOK
<1>q. pc[r] # "idle" => PoolOf(r) \in Pools
  BY <1>p DEF ProcOK
<1>1. CASE ScheduleDuplicate(r)
  <2>1. -1 \in (-1)..MaxId /\ PoolOf(r) \in Pools
    BY <1>1, <1>p DEF ScheduleDuplicate, ProcOK
  <2>2. ScheduleEnd(r, -1)
    BY <1>1 DEF ScheduleDuplicate
  <2>3. lock' \in [Pools -> Procs \cup {None}]
    BY <2>2, <1>p DEF ScheduleEnd, Release, TypeOK
  <2>4. UNCHANGED <<pool, avail, reason, exec, child, held, killing, removing>>
    BY <2>2 DEF ScheduleEnd
  <2>5. /\ pc' \in [Procs -> PC] /\ inv' \in [Procs -> Invocation]
        /\ cur' \in [Procs -> Current] /\ book' \in [Procs -> Booking]
    BY <2>1, <2>2, <1>p, ScheduleEndType
  <2> QED BY <1>1, <1>p, <2>1, <2>2, <2>3, <2>4, <2>5
      DEF ScheduleDuplicate, PC, TypeOK
<1>2. CASE ScheduleUnknownPool(r)
  BY <1>2, ExitType DEF ScheduleUnknownPool, Typed
<1>3. CASE ScheduleAccepted(r)
  BY <1>3, <1>p DEF ScheduleAccepted, PC, TypeOK
<1>4. CASE WriteQueueFile(r)
  <2>1. Job(r) \in Jobs
    BY <1>4, <1>p, <1>q DEF WriteQueueFile, Job, ProcOK, Current, Jobs, Ids
  <2>2. queue' \in [Jobs -> Queueable \cup {None}]
    BY <1>4, <1>p, <2>1 DEF WriteQueueFile, ProcOK, TypeOK
  <2> QED BY <1>4, <1>p, <2>1, <2>2 DEF WriteQueueFile, PC, TypeOK
<1>5. CASE BumpNext(r)
  <2>1. /\ cur[r].idx \in (-1)..MaxId /\ PoolOf(r) \in Pools
        /\ cur[r].first \in Nat \ {0} /\ cur[r].idx + 1 \in Nat \ {0}
    BY <1>5, <1>p, <1>q DEF BumpNext, ProcOK, Current, TypeOK
  <2>2. ScheduleEnd(r, cur[r].idx)
    BY <1>5 DEF BumpNext
  <2>3. lock' \in [Pools -> Procs \cup {None}]
    BY <2>2, <1>p DEF ScheduleEnd, Release, TypeOK
  <2>4. UNCHANGED <<pool, avail, reason, exec, child, held, killing, removing>>
    BY <2>2 DEF ScheduleEnd
  <2>5. /\ pc' \in [Procs -> PC] /\ inv' \in [Procs -> Invocation]
        /\ cur' \in [Procs -> Current] /\ book' \in [Procs -> Booking]
    BY <2>1, <2>2, <1>p, ScheduleEndType
  <2> QED BY <1>5, <1>p, <2>1, <2>2, <2>3, <2>4, <2>5 DEF BumpNext, PC, TypeOK
<1>6. CASE BlockAgain(r)
  <2>1. inv' \in [Procs -> Invocation]
    BY <1>6, <1>p, InvocationUpdate DEF BlockAgain, TypeOK
  <2> QED BY <1>6, <1>p, <2>1 DEF BlockAgain, PC, TypeOK
<1>7. CASE BlockReturn(r)
  BY <1>7, ExitType DEF BlockReturn, Typed
<1> QED BY <1>1, <1>2, <1>3, <1>4, <1>5, <1>6, <1>7 DEF ScheduleStep

\* ... of the choice and the booking ...
LEMMA BookType ==
  ASSUME Typed, NEW r \in Procs, BookStep(r)
  PROVE  TypeOK'
<1>p. /\ TypeOK /\ ProcOK(r)
      /\ cur[r] \in Current /\ inv[r] \in Invocation /\ book[r] \in Booking
  BY DEF Typed, TypeOK, LocalsOK
<1>q. pc[r] # "idle" => PoolOf(r) \in Pools
  BY <1>p DEF ProcOK
<1>1. CASE Peek(r)
  <2>1. PICK i \in 0..MaxId : cur' = [cur EXCEPT ![r] = Fresh(i, 0, "peek")]
    BY <1>1 DEF Peek
  <2>2. cur' \in [Procs -> Current]
    BY <1>p, <2>1, FreshLocals DEF TypeOK
  <2>3. book' \in [Procs -> Booking]
    BY <1>1, <1>p, FreshLocals DEF Peek, TypeOK
  <2>4. \E to \in {"wait", "read"} : pc' = [pc EXCEPT ![r] = to]
    BY <1>1 DEF Peek
  <2>5. pc' \in [Procs -> PC]
    BY <1>p, <2>4 DEF PC, TypeOK
  <2> QED BY <1>1, <1>p, <2>1, <2>2, <2>3, <2>4, <2>5 DEF Peek, PC, TypeOK
<1>2. CASE ReadData(r)
  <2>1. queue[<<PoolOf(r), cur[r].peek>>] \in Queueable
    BY <1>2, <1>p, <1>q DEF ReadData, ProcOK, Current, Jobs, Ids, TypeOK
  <2>2. cur' \in [Procs -> Current]
    BY <1>2, <1>p, <2>1, CurrentUpdate DEF ReadData, TypeOK, Queueable
  <2> QED BY <1>2, <1>p, <2>1, <2>2 DEF ReadData, PC, TypeOK
<1>3. CASE ReadMissing(r)
  BY <1>3, ExitType DEF ReadMissing, Typed
<1>4. CASE CheckExtra(r)
  <2>1. book' \in [Procs -> Booking]
    BY <1>4, <1>p, BookingUpdate DEF CheckExtra, TypeOK
  <2> QED BY <1>4, <1>p, <2>1 DEF CheckExtra, PC, TypeOK
<1>5. CASE SkipJob(r)
  <2>1. inv[r].skipped \cup {cur[r].peek} \in SUBSET Ids
    BY <1>5, <1>p DEF SkipJob, ProcOK, Invocation, Current, Ids
  <2>2. inv' \in [Procs -> Invocation]
    BY <1>5, <1>p, <2>1, InvocationUpdate DEF SkipJob, TypeOK
  <2> QED BY <1>5, <1>p, <2>1, <2>2 DEF SkipJob, PC, TypeOK
<1>6. CASE CheckDone(r)
  <2>1. book' \in [Procs -> Booking]
    BY <1>6, <1>p, FreshLocals DEF CheckDone, TypeOK
  <2> QED BY <1>6, <1>p, <2>1 DEF CheckDone, PC, TypeOK
<1>7. CASE BookList(r)
  <2>1. avail[Target(r)] \in SUBSET Resources
    BY <1>7, <1>p, <1>q, TargetType DEF BookList, ProcOK, TypeOK
  <2>2. book' \in [Procs -> Booking]
    BY <1>7, <1>p, <2>1, BookingUpdate DEF BookList, TypeOK
  <2> QED BY <1>7, <1>p, <2>1, <2>2 DEF BookList, PC, TypeOK
<1>8. CASE BookTake(r)
  <2>1. /\ Target(r) \in Pools /\ book[r].k + 1 \in Nat
        /\ book[r].listing \subseteq Resources
    BY <1>8, <1>p, <1>q, TargetType DEF BookTake, ProcOK, Extras, Booking
  <2>2. avail' \in [Pools -> SUBSET Resources]
    BY <1>8, <1>p, <2>1 DEF BookTake, TypeOK
  <2>3. held' \in [Procs -> SUBSET Tokens]
    BY <1>8, <1>p, <2>1 DEF BookTake, TypeOK, Tokens
  <2>4. book' \in [Procs -> Booking]
    BY <1>8, <1>p, <2>1, FreshLocals DEF BookTake, TypeOK
  <2>5. PICK x \in Resources : cur' = cur \/ cur' = [cur EXCEPT ![r].res = x]
    BY <1>8, <2>1 DEF BookTake
  <2>6. cur' \in [Procs -> Current]
    <3>1. CASE cur' = cur BY <3>1, <1>p DEF TypeOK
    <3>2. CASE cur' = [cur EXCEPT ![r].res = x]
      BY <3>2, <1>p, CurrentUpdate DEF TypeOK
    <3> QED BY <2>5, <3>1, <3>2
  <2>7. \E to \in {"get", "book"} : pc' = [pc EXCEPT ![r] = to]
    BY <1>8 DEF BookTake
  <2>8. pc' \in [Procs -> PC]
    BY <1>p, <2>7 DEF PC, TypeOK
  <2> QED BY <1>8, <1>p, <2>1, <2>2, <2>3, <2>4, <2>5, <2>6, <2>7, <2>8
      DEF BookTake, PC, TypeOK
<1>9. CASE BookMissed(r)
  <2>1. PICK x : book' = [book EXCEPT ![r].listing = book[r].listing \ {x}]
    BY <1>9 DEF BookMissed
  <2>2. book' \in [Procs -> Booking]
    BY <2>1, <1>p, BookingUpdate DEF TypeOK
  <2> QED BY <1>9, <1>p, <2>1, <2>2 DEF BookMissed, PC, TypeOK
<1>10. CASE BookFailed(r)
  <2>1. cur' \in [Procs -> Current]
    BY <1>10, <1>p, CurrentUpdate DEF BookFailed, TypeOK
  <2>2. \E to \in {"wait", "free"} : pc' = [pc EXCEPT ![r] = to]
    BY <1>10 DEF BookFailed
  <2>3. pc' \in [Procs -> PC]
    BY <1>p, <2>2 DEF PC, TypeOK
  <2> QED BY <1>10, <1>p, <2>1, <2>2, <2>3 DEF BookFailed, PC, TypeOK
<1>11. CASE GetLock(r)
  <2>1. PoolOf(r) \in Pools
    BY <1>11, <1>q DEF GetLock
  <2>2. PICK i \in Ids :
         cur' = [cur EXCEPT ![r] =
           [data |-> cur[r].data, peek |-> cur[r].peek, idx |-> i,
            first |-> first[PoolOf(r)], next |-> next[PoolOf(r)],
            res |-> cur[r].res, after |-> cur[r].after]]
    BY <1>11 DEF GetLock
  <2>3. cur' \in [Procs -> Current]
    BY <1>p, <2>1, <2>2 DEF Current, TypeOK, Ids
  <2>4. lock' \in [Pools -> Procs \cup {None}]
    BY <1>11, <1>p, <2>1 DEF GetLock, Acquire, TypeOK
  <2> QED BY <1>11, <1>p, <2>1, <2>2, <2>3, <2>4 DEF GetLock, PC, TypeOK
<1>12. CASE GetNothing(r)
  BY <1>12, <1>p DEF GetNothing, PC, TypeOK
<1>13. CASE GetRename(r)
  <2>1. Job(r) \in Jobs
    BY <1>13, <1>p, <1>q DEF GetRename, Job, ProcOK, Current, Jobs, Ids
  <2>2. exec' \in [Jobs -> ExecFile \cup {None}]
    BY <1>13, <1>p, <2>1 DEF GetRename, TypeOK, ExecFile
  <2>3. queue' \in [Jobs -> Queueable \cup {None}]
    BY <1>13, <1>p, <2>1 DEF GetRename, TypeOK
  <2>4. \E to \in {"advance", "book"} : pc' = [pc EXCEPT ![r] = to]
    BY <1>13 DEF GetRename
  <2>5. pc' \in [Procs -> PC]
    BY <1>p, <2>4 DEF PC, TypeOK
  <2>6. lock' \in [Pools -> Procs \cup {None}]
    BY <1>13, <1>p DEF GetRename, Release, TypeOK
  <2> QED BY <1>13, <1>p, <2>2, <2>3, <2>5, <2>6 DEF GetRename, TypeOK
<1>14. CASE GetMissing(r)
  BY <1>14, ExitType DEF GetMissing, Typed
<1>15. CASE GetAdvance(r)
  <2>1. cur[r].idx + 1 \in Nat \ {0} /\ cur[r].next \in Nat \ {0}
    BY <1>15, <1>p, <1>q DEF GetAdvance, ProcOK, Current, TypeOK
  <2> QED BY <1>15, <1>p, <2>1 DEF GetAdvance, Release, PC, TypeOK
<1> QED BY <1>1, <1>2, <1>3, <1>4, <1>5, <1>6, <1>7, <1>8, <1>9, <1>10, <1>11,
  <1>12, <1>13, <1>14, <1>15 DEF BookStep

\* ... of the launch ...
LEMMA LaunchType ==
  ASSUME Typed, NEW r \in Procs, LaunchStep(r)
  PROVE  TypeOK'
<1>p. /\ TypeOK /\ ProcOK(r)
      /\ cur[r] \in Current /\ inv[r] \in Invocation /\ book[r] \in Booking
  BY DEF Typed, TypeOK, LocalsOK
<1>q. pc[r] # "idle" => PoolOf(r) \in Pools
  BY <1>p DEF ProcOK
<1>1. CASE BookDone(r)
  <2>1. \E to \in {"remove", "write"} : pc' = [pc EXCEPT ![r] = to]
    BY <1>1 DEF BookDone
  <2>2. pc' \in [Procs -> PC]
    BY <1>p, <2>1 DEF PC, TypeOK
  <2> QED BY <1>1, <1>p, <2>1, <2>2 DEF BookDone, PC, TypeOK
<1>2. CASE RemoveBooked(r)
  BY <1>2, <1>p DEF RemoveBooked, PC, TypeOK
<1>3. CASE WriteExec(r)
  <2>1. Job(r) \in Jobs
    BY <1>3, <1>p, <1>q DEF WriteExec, Job, ProcOK, Current, Jobs, Ids
  <2>2. exec' \in [Jobs -> ExecFile \cup {None}]
    BY <1>3, <1>p, <2>1 DEF WriteExec, Dump, ProcOK, Current, ExecFile, TypeOK
  <2> QED BY <1>3, <1>p, <2>1, <2>2 DEF WriteExec, Dump, PC, TypeOK
<1>4. CASE WriteNowhere(r)
  BY <1>4, ExitType DEF WriteNowhere, Typed
<1>5. CASE Popen(r)
  <2>1. Job(r) \in Jobs
    BY <1>5, <1>p, <1>q DEF Popen, Job, ProcOK, Current, Jobs, Ids
  <2>2. child' \in [Jobs -> Child]
    BY <1>5, <1>p, <2>1 DEF Popen, ProcOK, Child, TypeOK
  <2> QED BY <1>5, <1>p, <2>1, <2>2 DEF Popen, PC, TypeOK
<1>6. CASE PopenFailed(r)
  <2>1. cur' \in [Procs -> Current]
    BY <1>6, <1>p, CurrentUpdate DEF PopenFailed, TypeOK
  <2> QED BY <1>6, <1>p, <2>1 DEF PopenFailed, PC, TypeOK
<1>7. CASE WritePid(r)
  <2>1. Job(r) \in Jobs
    BY <1>7, <1>p, <1>q DEF WritePid, Job, ProcOK, Current, Jobs, Ids
  <2>2. exec' \in [Jobs -> ExecFile \cup {None}]
    BY <1>7, <1>p, <2>1 DEF WritePid, Dump, ProcOK, Current, ExecFile, TypeOK
  <2> QED BY <1>7, <1>p, <2>1, <2>2 DEF WritePid, Dump, PC, TypeOK
<1> QED BY <1>1, <1>2, <1>3, <1>4, <1>5, <1>6, <1>7 DEF LaunchStep

\* ... of the end of the commands ...
LEMMA WaitType ==
  ASSUME Typed, NEW r \in Procs, WaitStep(r)
  PROVE  TypeOK'
<1>p. /\ TypeOK /\ ProcOK(r)
      /\ cur[r] \in Current /\ inv[r] \in Invocation /\ book[r] \in Booking
  BY DEF Typed, TypeOK, LocalsOK
<1>q. pc[r] # "idle" => PoolOf(r) \in Pools
  BY <1>p DEF ProcOK
<1>1. CASE FreeCheck(r)
  <2>1. held[r] \subseteq Tokens
    BY <1>p DEF TypeOK
  <2>2. PICK t \in held[r] : book' = [book EXCEPT ![r].tok = t]
    BY <1>1 DEF FreeCheck
  <2>3. book' \in [Procs -> Booking]
    BY <1>p, <2>1, <2>2, BookingUpdate DEF TypeOK
  <2> QED BY <1>1, <1>p, <2>1, <2>2, <2>3 DEF FreeCheck, PC, TypeOK
<1>2. CASE FreeRemoved(r)
  BY <1>2, <1>p DEF FreeRemoved, PC, TypeOK
<1>3. CASE FreeLink(r)
  <2>1. Freed(r)[1] \in Pools /\ Freed(r)[2] \in Resources
    BY <1>3, <1>p DEF FreeLink, Freed, ProcOK, Tokens
  <2>2. avail' \in [Pools -> SUBSET Resources]
    BY <1>3, <1>p, <2>1 DEF FreeLink, TypeOK
  <2> QED BY <1>3, <1>p, <2>1, <2>2 DEF FreeLink, PC, TypeOK
<1>4. CASE FreeExists(r)
  BY <1>4, ExitType DEF FreeExists, Typed
<1>5. CASE FreeDone(r)
  <2>1. cur[r].after \in PC
    BY <1>p DEF Current, PC
  <2> QED BY <1>5, <1>p, <2>1 DEF FreeDone, PC, TypeOK
<1>6. CASE DropExec(r)
  <2>1. Job(r) \in Jobs
    BY <1>6, <1>p, <1>q DEF DropExec, Job, ProcOK, Current, Jobs, Ids
  <2> QED BY <1>6, <1>p, <2>1 DEF DropExec, RemoveExec, PC, TypeOK
<1>7. CASE CommandOver(r)
  <2>1. Job(r) \in Jobs
    BY <1>7, <1>p, <1>q DEF CommandOver, Job, ProcOK, Current, Jobs, Ids
  <2> QED BY <1>7, <1>p, <2>1 DEF CommandOver, RemoveExec, PC, TypeOK
<1>8. CASE Reap(r)
  <2>1. PICK c \in Jobs :
         /\ child' = [child EXCEPT ![c] = [child[c] EXCEPT !.st = "gone",
                                                           !.by = None]]
         /\ held' = [held EXCEPT ![r] = child[c].uses]
         /\ cur' = [cur EXCEPT ![r] = Fresh(0, c[2], "wait")]
         /\ inv' = [inv EXCEPT ![r].ret =
                      {e \in inv[r].ret : e[1] # RetKey(r, c)}
                        \cup {<<RetKey(r, c), c[2]>>}]
         /\ child[c].st = "zombie" /\ child[c].by = r
    BY <1>8 DEF Reap, Commands
  <2>2. child[c] \in Child /\ c[2] \in Ids /\ None \notin Procs
    BY <1>p DEF TypeOK, Jobs
  <2>3. RetKey(r, c) \in Nat
    BY <2>2 DEF RetKey, Child, Queueable, Ids
  <2>4. {e \in inv[r].ret : e[1] # RetKey(r, c)} \cup {<<RetKey(r, c), c[2]>>}
       \in SUBSET (Nat \X Ids)
    BY <1>p, <2>2, <2>3 DEF Invocation
  <2>5. inv' \in [Procs -> Invocation]
    BY <1>p, <2>1, <2>4, InvocationUpdate DEF TypeOK
  <2>6. child' \in [Jobs -> Child]
    BY <1>p, <2>1, <2>2 DEF TypeOK, Child
  <2>7. held' \in [Procs -> SUBSET Tokens]
    BY <1>p, <2>1, <2>2 DEF TypeOK, Child
  <2>8. Fresh(0, c[2], "wait") \in Current
    BY <2>2, FreshLocals DEF Ids
  <2>9. cur' \in [Procs -> Current]
    BY <1>p, <2>1, <2>8 DEF TypeOK
  <2> QED BY <1>8, <1>p, <2>1, <2>2, <2>3, <2>4, <2>5, <2>6, <2>7, <2>8, <2>9
      DEF Reap, PC, TypeOK
<1>9. CASE RunDone(r)
  BY <1>9, ExitType DEF RunDone, Typed
<1>10. CASE BlockedRunDone(r)
  BY <1>10, <1>p DEF BlockedRunDone, PC, TypeOK
<1> QED BY <1>1, <1>2, <1>3, <1>4, <1>5, <1>6, <1>7, <1>8, <1>9, <1>10
    DEF WaitStep, FreeSymlink

\* ... and of the rest of Next.
LEMMA UserType ==
  ASSUME Typed,
         \/ \E r \in Procs, p \in RunPools : StartRun(r, p)
         \/ \E r \in Procs, q \in Requests : ScheduleLock(r, q)
         \/ \E c \in Jobs : ChildExit(c)
         \/ \E c \in Cancels : Unschedule(c)
         \/ \E x \in Removals : RemoveLink(x) \/ RemoveResource(x)
         \/ \E r \in Mortal : Die(r)
  PROVE  TypeOK'
<1>p. TypeOK BY DEF Typed
<1>1. ASSUME NEW r \in Procs, NEW p \in RunPools, StartRun(r, p)
      PROVE  TypeOK'
  <2>1. p \in Pools /\ 0 \in (-1)..MaxId /\ 0 \in Nat OBVIOUS
  <2>2. /\ Invoked(p, None, 0) \in Invocation /\ NoJob \in Current
        /\ Booked(0) \in Booking
    BY <2>1, FreshLocals
  <2> QED BY <1>1, <1>p, <2>2 DEF StartRun, Begin, PC, TypeOK
<1>2. ASSUME NEW r \in Procs, NEW q \in Requests, ScheduleLock(r, q)
      PROVE  TypeOK'
  <2>1. q.pool \in Pools /\ q.sub \in Subs OBVIOUS
  <2>2. next[q.pool] \in 1..MaxId /\ first[q.pool] \in Nat
    BY <1>2, <1>p, <2>1 DEF ScheduleLock, TypeOK
  <2>3. Invoked(q.pool, q, 0) \in Invocation /\ Booked(0) \in Booking
    <3>1. 0 \in (-1)..MaxId /\ 0 \in Nat OBVIOUS
    <3> QED BY <2>1, <3>1, FreshLocals
  <2>4. [data |-> q.sub, peek |-> 0, idx |-> next[q.pool],
         first |-> first[q.pool], next |-> next[q.pool],
         res |-> None, after |-> "peek"] \in Current
    BY <2>1, <2>2 DEF Current
  <2>5. lock' \in [Pools -> Procs \cup {None}]
    BY <1>2, <1>p, <2>1 DEF ScheduleLock, Acquire, TypeOK
  <2>6. /\ inv' \in [Procs -> Invocation] /\ cur' \in [Procs -> Current]
        /\ book' \in [Procs -> Booking]
    BY <1>2, <1>p, <2>3, <2>4 DEF ScheduleLock, Begin, TypeOK
  <2> QED BY <1>2, <1>p, <2>5, <2>6 DEF ScheduleLock, PC, TypeOK
<1>3. ASSUME NEW c \in Jobs, ChildExit(c)
      PROVE  TypeOK'
  <2>1. child' \in [Jobs -> Child]
    <3>1. \E x \in {"gone", "zombie"} : child' = [child EXCEPT ![c].st = x]
      BY <1>3 DEF ChildExit
    <3>2. CASE child' = [child EXCEPT ![c].st = "gone"]
      BY <1>p, <3>2, ChildUpdate DEF TypeOK
    <3>3. CASE child' = [child EXCEPT ![c].st = "zombie"]
      BY <1>p, <3>3, ChildUpdate DEF TypeOK
    <3> QED BY <3>1, <3>2, <3>3
  <2> QED BY <1>3, <1>p, <2>1 DEF ChildExit, TypeOK, procVars
<1>4. ASSUME NEW c \in Jobs, Unschedule(c)
      PROVE  TypeOK'
  <2>1. CASE UnscheduleQueued(c)
    BY <2>1, <1>p DEF UnscheduleQueued, TypeOK, procVars
  <2>2. CASE UnscheduleKill(c) \/ UnscheduleTimeout(c)
    BY <2>2, <1>p DEF UnscheduleKill, UnscheduleTimeout, TypeOK, procVars
  <2>3. CASE UnscheduleKilled(c)
    BY <2>3, <1>p DEF UnscheduleKilled, TypeOK, procVars
  <2> QED BY <1>4, <2>1, <2>2, <2>3 DEF Unschedule
<1>5. ASSUME NEW x \in Removals, RemoveLink(x) \/ RemoveResource(x)
      PROVE  TypeOK'
  <2>1. x.pool \in Pools /\ x.res \in Resources OBVIOUS
  <2>2. CASE RemoveLink(x)
    BY <2>1, <2>2, <1>p DEF RemoveLink, TypeOK, procVars
  <2>3. CASE RemoveResource(x)
    <3>1. /\ pool' \in [Pools -> SUBSET Resources]
          /\ removing' \in SUBSET Removals
      BY <2>1, <2>3, <1>p DEF RemoveResource, TypeOK
    <3>2. reason' \in [Pools -> SUBSET Resources]
      <4>1. CASE reason' = [reason EXCEPT ![x.pool] =
                              reason[x.pool] \ {x.res}]
        BY <4>1, <1>p DEF TypeOK
      <4>2. CASE reason' = [reason EXCEPT ![x.pool] =
                              reason[x.pool] \cup {x.res}]
        BY <4>2, <2>1, <1>p DEF TypeOK
      <4> QED BY <2>3, <4>1, <4>2 DEF RemoveResource
    <3> QED BY <2>3, <1>p, <3>1, <3>2 DEF RemoveResource, TypeOK, procVars
  <2> QED BY <1>5, <2>2, <2>3
<1>6. ASSUME NEW r \in Procs, Die(r)
      PROVE  TypeOK'
  BY <1>6, <1>p, ExitType DEF Die
<1> QED BY <1>1, <1>2, <1>3, <1>4, <1>5, <1>6

-----------------------------------------------------------------------------
(* The locals of the processes.                                            *)

\* Process r leaves the locals of the others alone, and the lock and .seq of
\* the pools that another process has locked.
Others(r) ==
  \A s \in Procs : s # r => /\ pc'[s] = pc[s] /\ inv'[s] = inv[s]
                            /\ cur'[s] = cur[s] /\ book'[s] = book[s]
Locks(r) ==
  \A p \in Pools : \/ lock[p] \in {r, None}
                   \/ /\ lock'[p] = lock[p]
                      /\ first'[p] = first[p] /\ next'[p] = next[p]

Local(r) == ProcOK(r)' /\ Others(r) /\ Locks(r)

\* What a step of r must show to keep the locals of all processes right.
LEMMA Frame ==
  ASSUME LocalsOK, NEW r \in Procs, Local(r)
  PROVE  LocalsOK'
<1> SUFFICES ASSUME NEW s \in Procs, s # r PROVE ProcOK(s)'
  BY DEF LocalsOK, Local
<1>1. ProcOK(s) BY DEF LocalsOK
<1>2. /\ pc'[s] = pc[s] /\ inv'[s] = inv[s]
      /\ cur'[s] = cur[s] /\ book'[s] = book[s]
  BY DEF Others, Local
<1>3. CASE pc[s] \in Scheduling \cup {"rename", "advance"}
  <2>1. PoolOf(s) \in Pools /\ lock[PoolOf(s)] = s
    BY <1>1, <1>3 DEF ProcOK
  <2>2. /\ lock'[PoolOf(s)] = s
        /\ first'[PoolOf(s)] = first[PoolOf(s)]
        /\ next'[PoolOf(s)] = next[PoolOf(s)]
    BY <2>1 DEF Locks, Local
  <2> QED BY <1>1, <1>2, <2>1, <2>2 DEF ProcOK
<1>4. CASE pc[s] \notin Scheduling \cup {"rename", "advance"}
  BY <1>1, <1>2, <1>4 DEF ProcOK
<1> QED BY <1>3, <1>4

\* A process that ends has no locals.
LEMMA ExitLocal ==
  ASSUME TypeOK, NEW r \in Procs, Exit(r)
  PROVE  Local(r)
<1>1. ProcOK(r)'
  BY DEF Exit, Idle, ProcOK, TypeOK
<1>2. Others(r) BY DEF Exit, Idle, Begin, Others, TypeOK
<1>3. Locks(r)
  BY DEF Exit, Locks, TypeOK
<1> QED BY <1>1, <1>2, <1>3 DEF Local

\* After the unlock nothing relies on the lock.
LEMMA ScheduleEndLocal ==
  ASSUME TypeOK, NEW r \in Procs, NEW bid \in (-1)..MaxId, ScheduleEnd(r, bid),
         ProcOK(r), pc[r] \in Scheduling
  PROVE  ProcOK(r)' /\ Others(r)
<1>1. PoolOf(r) \in Pools BY DEF ProcOK
<1>2. CASE inv[r].req.block
  <2>1. /\ pc'[r] = "peek" /\ inv'[r] = Invoked(PoolOf(r), inv[r].req, bid)
    BY <1>2 DEF ScheduleEnd, Begin, TypeOK
  <2>2. PoolOf(r)' = PoolOf(r) BY <2>1 DEF Invoked
  <2>3. ProcOK(r)' BY <1>1, <2>1, <2>2 DEF ProcOK
  <2>4. Others(r) BY <1>2 DEF ScheduleEnd, Begin, Others, TypeOK
  <2> QED BY <2>3, <2>4
<1>3. CASE ~inv[r].req.block
  <2>1. ProcOK(r)'
    BY <1>3 DEF ScheduleEnd, Idle, ProcOK, TypeOK
  <2>2. Others(r) BY <1>3 DEF ScheduleEnd, Idle, Begin, Others, TypeOK
  <2> QED BY <2>1, <2>2
<1> QED BY <1>2, <1>3

\* The locals, action by action: `schedule` ...
LEMMA ScheduleLocal ==
  ASSUME Typed, NEW r \in Procs, ScheduleStep(r)
  PROVE  Local(r)
<1>p. /\ TypeOK /\ LocalsOK /\ ProcOK(r)
      /\ cur[r] \in Current /\ inv[r] \in Invocation /\ book[r] \in Booking
  BY DEF Typed, TypeOK, LocalsOK
<1>1. CASE ScheduleDuplicate(r)
  <2>1. -1 \in (-1)..MaxId /\ ScheduleEnd(r, -1)
    BY <1>1, <1>p DEF ScheduleDuplicate, Current
  <2>2. ProcOK(r)' /\ Others(r)
    BY <1>1, <1>p, <2>1, ScheduleEndLocal DEF ScheduleDuplicate
  <2>3. Locks(r)
    BY <1>1, <1>p, <2>1
    DEF ScheduleDuplicate, ScheduleEnd, Release, Locks, ProcOK, TypeOK
  <2> QED BY <2>2, <2>3 DEF Local
<1>2. CASE ScheduleUnknownPool(r)
  BY <1>2, <1>p, ExitLocal DEF ScheduleUnknownPool
<1>3. CASE ScheduleAccepted(r)
  <2>1. ProcOK(r)'
    BY <1>3, <1>p
    DEF ScheduleAccepted, ProcOK, TypeOK, Current, Invocation, Booking
  <2>2. Others(r) /\ Locks(r)
    BY <1>3, <1>p DEF ScheduleAccepted, Others, Locks, ProcOK, TypeOK
  <2> QED BY <2>1, <2>2 DEF Local
<1>4. CASE WriteQueueFile(r)
  <2>1. ProcOK(r)'
    BY <1>4, <1>p
    DEF WriteQueueFile, ProcOK, TypeOK, Current, Invocation, Booking
  <2>2. Others(r) /\ Locks(r)
    BY <1>4, <1>p DEF WriteQueueFile, Others, Locks, ProcOK, TypeOK
  <2> QED BY <2>1, <2>2 DEF Local
<1>5. CASE BumpNext(r)
  <2>1. cur[r].idx \in (-1)..MaxId /\ ScheduleEnd(r, cur[r].idx)
    BY <1>5, <1>p DEF BumpNext, Current
  <2>2. ProcOK(r)' /\ Others(r)
    BY <1>5, <1>p, <2>1, ScheduleEndLocal DEF BumpNext
  <2>3. Locks(r)
    BY <1>5, <1>p, <2>1
    DEF BumpNext, ScheduleEnd, Release, Locks, ProcOK, TypeOK
  <2> QED BY <2>2, <2>3 DEF Local
<1>6. CASE BlockAgain(r)
  <2>1. ProcOK(r)'
    BY <1>6, <1>p DEF BlockAgain, ProcOK, TypeOK, Current, Invocation, Booking
  <2>2. Others(r) /\ Locks(r)
    BY <1>6, <1>p DEF BlockAgain, Others, Locks, ProcOK, TypeOK
  <2> QED BY <2>1, <2>2 DEF Local
<1>7. CASE BlockReturn(r)
  BY <1>7, <1>p, ExitLocal DEF BlockReturn
<1> QED BY <1>1, <1>2, <1>3, <1>4, <1>5, <1>6, <1>7 DEF ScheduleStep

\* ... the choice and the booking ...
LEMMA BookLocal ==
  ASSUME Typed, NEW r \in Procs, BookStep(r)
  PROVE  Local(r)
<1>p. /\ TypeOK /\ LocalsOK /\ ProcOK(r)
      /\ cur[r] \in Current /\ inv[r] \in Invocation /\ book[r] \in Booking
  BY DEF Typed, TypeOK, LocalsOK
<1>1. CASE Peek(r)
  <2>1. ProcOK(r)'
    BY <1>1, <1>p
    DEF Peek, Fresh, Booked, ProcOK, TypeOK, Current, Invocation, Booking
  <2>2. Others(r) /\ Locks(r)
    BY <1>1, <1>p DEF Peek, Fresh, Booked, Others, Locks, ProcOK, TypeOK
  <2> QED BY <2>1, <2>2 DEF Local
<1>2. CASE ReadData(r)
  <2>1. ProcOK(r)'
    <3>1. queue[<<PoolOf(r), cur[r].peek>>] \in Queueable
      BY <1>2, <1>p DEF ReadData, ProcOK, Current, Jobs, Ids, TypeOK
    <3>2. /\ cur'[r].data \in Queueable
          /\ cur'[r].peek = cur[r].peek /\ cur'[r].idx = cur[r].idx
          /\ pc'[r] = "check" /\ inv'[r] = inv[r]
      BY <1>2, <1>p, <3>1 DEF ReadData, Current, TypeOK
    <3> QED BY <1>2, <1>p, <3>2 DEF ReadData, ProcOK
  <2>2. Others(r) /\ Locks(r)
    BY <1>2, <1>p DEF ReadData, Others, Locks, ProcOK, TypeOK
  <2> QED BY <2>1, <2>2 DEF Local
<1>3. CASE ReadMissing(r)
  BY <1>3, <1>p, ExitLocal DEF ReadMissing
<1>4. CASE CheckExtra(r)
  <2>1. ProcOK(r)'
    BY <1>4, <1>p
    DEF CheckExtra, Extras, ProcOK, TypeOK, Current, Invocation, Booking
  <2>2. Others(r) /\ Locks(r)
    BY <1>4, <1>p DEF CheckExtra, Extras, Others, Locks, ProcOK, TypeOK
  <2> QED BY <2>1, <2>2 DEF Local
<1>5. CASE SkipJob(r)
  <2>1. ProcOK(r)'
    BY <1>5, <1>p DEF SkipJob, ProcOK, TypeOK, Current, Invocation, Booking
  <2>2. Others(r) /\ Locks(r)
    BY <1>5, <1>p DEF SkipJob, Others, Locks, ProcOK, TypeOK
  <2> QED BY <2>1, <2>2 DEF Local
<1>6. CASE CheckDone(r)
  <2>1. ProcOK(r)'
    BY <1>6, <1>p
    DEF CheckDone, Extras, ProcOK, TypeOK, Current, Invocation, Booking
  <2>2. Others(r) /\ Locks(r)
    BY <1>6, <1>p DEF CheckDone, Extras, Others, Locks, ProcOK, TypeOK
  <2> QED BY <2>1, <2>2 DEF Local
<1>7. CASE BookList(r)
  <2>1. ProcOK(r)'
    BY <1>7, <1>p
    DEF BookList, Extras, ProcOK, TypeOK, Current, Invocation, Booking
  <2>2. Others(r) /\ Locks(r)
    BY <1>7, <1>p DEF BookList, Extras, Others, Locks, ProcOK, TypeOK
  <2> QED BY <2>1, <2>2 DEF Local
<1>8. CASE BookTake(r)
  <2>1. ProcOK(r)'
    <3>1. /\ cur'[r].data = cur[r].data /\ inv'[r] = inv[r]
          /\ pc'[r] \in {"get", "book"}
      BY <1>8, <1>p DEF BookTake, TypeOK, Current
    <3> QED BY <1>8, <1>p, <3>1 DEF BookTake, ProcOK
  <2>2. Others(r) /\ Locks(r)
    BY <1>8, <1>p DEF BookTake, Booked, Extras, Others, Locks, ProcOK, TypeOK
  <2> QED BY <2>1, <2>2 DEF Local
<1>9. CASE BookMissed(r)
  <2>1. ProcOK(r)'
    BY <1>9, <1>p DEF BookMissed, ProcOK, TypeOK, Current, Invocation, Booking
  <2>2. Others(r) /\ Locks(r)
    BY <1>9, <1>p DEF BookMissed, Others, Locks, ProcOK, TypeOK
  <2> QED BY <2>1, <2>2 DEF Local
<1>10. CASE BookFailed(r)
  <2>1. ProcOK(r)'
    BY <1>10, <1>p DEF BookFailed, ProcOK, TypeOK, Current, Invocation, Booking
  <2>2. Others(r) /\ Locks(r)
    BY <1>10, <1>p DEF BookFailed, Others, Locks, ProcOK, TypeOK
  <2> QED BY <2>1, <2>2 DEF Local
<1>11. CASE GetLock(r)
  <2>1. ProcOK(r)'
    <3>1. /\ cur'[r].data = cur[r].data /\ cur'[r].idx # 0
          /\ cur'[r].first = first[PoolOf(r)]
          /\ cur'[r].next = next[PoolOf(r)]
          /\ pc'[r] = "rename" /\ inv'[r] = inv[r] /\ UNCHANGED seqVars
      BY <1>11, <1>p DEF GetLock, TypeOK, Ids
    <3>2. PoolOf(r) \in Pools /\ cur[r].data \in Queueable
      BY <1>11, <1>p DEF GetLock, ProcOK
    <3>3. lock'[PoolOf(r)] = r
      BY <1>11, <1>p, <3>2 DEF GetLock, Acquire, TypeOK
    <3> QED BY <3>1, <3>2, <3>3 DEF ProcOK
  <2>2. Others(r) /\ Locks(r)
    BY <1>11, <1>p DEF GetLock, Acquire, Others, Locks, ProcOK, TypeOK
  <2> QED BY <2>1, <2>2 DEF Local
<1>12. CASE GetNothing(r)
  <2>1. ProcOK(r)'
    BY <1>12, <1>p DEF GetNothing, ProcOK, TypeOK, Current, Invocation, Booking
  <2>2. Others(r) /\ Locks(r)
    BY <1>12, <1>p DEF GetNothing, Others, Locks, ProcOK, TypeOK
  <2> QED BY <2>1, <2>2 DEF Local
<1>13. CASE GetRename(r)
  <2>1. ProcOK(r)'
    BY <1>13, <1>p
    DEF GetRename, Release, Job, ProcOK, TypeOK, Current, Invocation, Booking
  <2>2. Others(r) /\ Locks(r)
    BY <1>13, <1>p DEF GetRename, Release, Job, Others, Locks, ProcOK, TypeOK
  <2> QED BY <2>1, <2>2 DEF Local
<1>14. CASE GetMissing(r)
  BY <1>14, <1>p, ExitLocal DEF GetMissing
<1>15. CASE GetAdvance(r)
  <2>1. ProcOK(r)'
    BY <1>15, <1>p
    DEF GetAdvance, Release, ProcOK, TypeOK, Current, Invocation, Booking
  <2>2. Others(r) /\ Locks(r)
    BY <1>15, <1>p DEF GetAdvance, Release, Others, Locks, ProcOK, TypeOK
  <2> QED BY <2>1, <2>2 DEF Local
<1> QED BY <1>1, <1>2, <1>3, <1>4, <1>5, <1>6, <1>7, <1>8, <1>9, <1>10, <1>11,
  <1>12, <1>13, <1>14, <1>15 DEF BookStep

\* ... the launch ...
LEMMA LaunchLocal ==
  ASSUME Typed, NEW r \in Procs, LaunchStep(r)
  PROVE  Local(r)
<1>p. /\ TypeOK /\ LocalsOK /\ ProcOK(r)
      /\ cur[r] \in Current /\ inv[r] \in Invocation /\ book[r] \in Booking
  BY DEF Typed, TypeOK, LocalsOK
<1>1. CASE BookDone(r)
  <2>1. ProcOK(r)'
    BY <1>1, <1>p DEF BookDone, ProcOK, TypeOK, Current, Invocation, Booking
  <2>2. Others(r) /\ Locks(r)
    BY <1>1, <1>p DEF BookDone, Others, Locks, ProcOK, TypeOK
  <2> QED BY <2>1, <2>2 DEF Local
<1>2. CASE RemoveBooked(r)
  <2>1. ProcOK(r)'
    BY <1>2, <1>p
    DEF RemoveBooked, ProcOK, TypeOK, Current, Invocation, Booking
  <2>2. Others(r) /\ Locks(r)
    BY <1>2, <1>p DEF RemoveBooked, Others, Locks, ProcOK, TypeOK
  <2> QED BY <2>1, <2>2 DEF Local
<1>3. CASE WriteExec(r)
  <2>1. ProcOK(r)'
    BY <1>3, <1>p
    DEF WriteExec, Dump, ProcOK, TypeOK, Current, Invocation, Booking
  <2>2. Others(r) /\ Locks(r)
    BY <1>3, <1>p DEF WriteExec, Dump, Others, Locks, ProcOK, TypeOK
  <2> QED BY <2>1, <2>2 DEF Local
<1>4. CASE WriteNowhere(r)
  BY <1>4, <1>p, ExitLocal DEF WriteNowhere
<1>5. CASE Popen(r)
  <2>1. ProcOK(r)'
    BY <1>5, <1>p DEF Popen, ProcOK, TypeOK, Current, Invocation, Booking
  <2>2. Others(r) /\ Locks(r)
    BY <1>5, <1>p DEF Popen, Others, Locks, ProcOK, TypeOK
  <2> QED BY <2>1, <2>2 DEF Local
<1>6. CASE PopenFailed(r)
  <2>1. ProcOK(r)'
    BY <1>6, <1>p DEF PopenFailed, ProcOK, TypeOK, Current, Invocation, Booking
  <2>2. Others(r) /\ Locks(r)
    BY <1>6, <1>p DEF PopenFailed, Others, Locks, ProcOK, TypeOK
  <2> QED BY <2>1, <2>2 DEF Local
<1>7. CASE WritePid(r)
  <2>1. ProcOK(r)'
    BY <1>7, <1>p
    DEF WritePid, Dump, ProcOK, TypeOK, Current, Invocation, Booking
  <2>2. Others(r) /\ Locks(r)
    BY <1>7, <1>p DEF WritePid, Dump, Others, Locks, ProcOK, TypeOK
  <2> QED BY <2>1, <2>2 DEF Local
<1> QED BY <1>1, <1>2, <1>3, <1>4, <1>5, <1>6, <1>7 DEF LaunchStep

\* ... and the end of the commands.
LEMMA WaitLocal ==
  ASSUME Typed, NEW r \in Procs, WaitStep(r)
  PROVE  Local(r)
<1>p. /\ TypeOK /\ LocalsOK /\ ProcOK(r)
      /\ cur[r] \in Current /\ inv[r] \in Invocation /\ book[r] \in Booking
  BY DEF Typed, TypeOK, LocalsOK
<1>1. CASE FreeCheck(r)
  <2>1. ProcOK(r)'
    BY <1>1, <1>p DEF FreeCheck, ProcOK, TypeOK, Current, Invocation, Booking
  <2>2. Others(r) /\ Locks(r)
    BY <1>1, <1>p DEF FreeCheck, Others, Locks, ProcOK, TypeOK
  <2> QED BY <2>1, <2>2 DEF Local
<1>2. CASE FreeRemoved(r)
  <2>1. ProcOK(r)'
    BY <1>2, <1>p DEF FreeRemoved, ProcOK, TypeOK, Current, Invocation, Booking
  <2>2. Others(r) /\ Locks(r)
    BY <1>2, <1>p DEF FreeRemoved, Others, Locks, ProcOK, TypeOK
  <2> QED BY <2>1, <2>2 DEF Local
<1>3. CASE FreeLink(r)
  <2>1. ProcOK(r)'
    BY <1>3, <1>p DEF FreeLink, ProcOK, TypeOK, Current, Invocation, Booking
  <2>2. Others(r) /\ Locks(r)
    BY <1>3, <1>p DEF FreeLink, Others, Locks, ProcOK, TypeOK
  <2> QED BY <2>1, <2>2 DEF Local
<1>4. CASE FreeExists(r)
  BY <1>4, <1>p, ExitLocal DEF FreeExists
<1>5. CASE FreeDone(r)
  <2>1. ProcOK(r)'
    BY <1>5, <1>p DEF FreeDone, ProcOK, TypeOK, Current, Invocation, Booking
  <2>2. Others(r) /\ Locks(r)
    BY <1>5, <1>p DEF FreeDone, Others, Locks, ProcOK, TypeOK
  <2> QED BY <2>1, <2>2 DEF Local
<1>6. CASE DropExec(r)
  <2>1. ProcOK(r)'
    BY <1>6, <1>p
    DEF DropExec, RemoveExec, ProcOK, TypeOK, Current, Invocation, Booking
  <2>2. Others(r) /\ Locks(r)
    BY <1>6, <1>p DEF DropExec, RemoveExec, Others, Locks, ProcOK, TypeOK
  <2> QED BY <2>1, <2>2 DEF Local
<1>7. CASE CommandOver(r)
  <2>1. ProcOK(r)'
    BY <1>7, <1>p
    DEF CommandOver, RemoveExec, ProcOK, TypeOK, Current, Invocation, Booking
  <2>2. Others(r) /\ Locks(r)
    BY <1>7, <1>p DEF CommandOver, RemoveExec, Others, Locks, ProcOK, TypeOK
  <2> QED BY <2>1, <2>2 DEF Local
<1>8. CASE Reap(r)
  <2>1. ProcOK(r)'
    <3>1. PICK c \in Jobs : cur' = [cur EXCEPT ![r] = Fresh(0, c[2], "wait")]
      BY <1>8 DEF Reap, Commands
    <3>2. cur'[r].idx # 0 /\ cur'[r].after = "wait"
      BY <1>p, <3>1 DEF Fresh, TypeOK, Jobs, Ids
    <3>3. pc'[r] = "reaped" /\ PoolOf(r)' = PoolOf(r)
      BY <1>8, <1>p DEF Reap, TypeOK, Invocation
    <3>4. PoolOf(r) \in Pools BY <1>8, <1>p DEF Reap, ProcOK
    <3> QED BY <3>2, <3>3, <3>4 DEF ProcOK
  <2>2. Others(r) /\ Locks(r)
    BY <1>8, <1>p DEF Reap, Fresh, Others, Locks, ProcOK, TypeOK
  <2> QED BY <2>1, <2>2 DEF Local
<1>9. CASE RunDone(r)
  BY <1>9, <1>p, ExitLocal DEF RunDone
<1>10. CASE BlockedRunDone(r)
  <2>1. ProcOK(r)'
    BY <1>10, <1>p
    DEF BlockedRunDone, ProcOK, TypeOK, Current, Invocation, Booking
  <2>2. Others(r) /\ Locks(r)
    BY <1>10, <1>p DEF BlockedRunDone, Others, Locks, ProcOK, TypeOK
  <2> QED BY <2>1, <2>2 DEF Local
<1> QED BY <1>1, <1>2, <1>3, <1>4, <1>5, <1>6, <1>7, <1>8, <1>9, <1>10
    DEF WaitStep, FreeSymlink

\* Every step of a process keeps to its own locals and its own lock.
LEMMA ProcLocal ==
  ASSUME Typed, NEW r \in Procs, ProcStep(r)
  PROVE  Local(r)
BY ScheduleLocal, BookLocal, LaunchLocal, WaitLocal DEF ProcStep

\* The rest of Next.
LEMMA UserLocals ==
  ASSUME Typed,
         \/ \E r \in Procs, p \in RunPools : StartRun(r, p)
         \/ \E r \in Procs, q \in Requests : ScheduleLock(r, q)
         \/ \E c \in Jobs : ChildExit(c)
         \/ \E c \in Cancels : Unschedule(c)
         \/ \E x \in Removals : RemoveLink(x) \/ RemoveResource(x)
         \/ \E r \in Mortal : Die(r)
  PROVE  LocalsOK'
<1>p. TypeOK /\ LocalsOK BY DEF Typed
<1>1. ASSUME NEW r \in Procs, NEW p \in RunPools, StartRun(r, p)
      PROVE  LocalsOK'
  <2>1. pc'[r] = "peek" /\ inv'[r].pool \in Pools
    BY <1>1, <1>p DEF StartRun, Begin, Invoked, TypeOK
  <2>2. ProcOK(r)' BY <2>1 DEF ProcOK
  <2>3. Others(r) BY <1>1, <1>p DEF StartRun, Begin, Others, TypeOK
  <2>4. Locks(r)
    BY <1>1, <1>p DEF StartRun, Locks, TypeOK
  <2> QED BY <1>p, <2>2, <2>3, <2>4, Frame DEF Local
<1>2. ASSUME NEW r \in Procs, NEW q \in Requests, ScheduleLock(r, q)
      PROVE  LocalsOK'
  <2>1. /\ pc'[r] = "dup" /\ inv'[r] = Invoked(q.pool, q, 0)
        /\ cur'[r] = [data |-> q.sub, peek |-> 0, idx |-> next[q.pool],
                      first |-> first[q.pool], next |-> next[q.pool],
                      res |-> None, after |-> "peek"]
        /\ lock' = [lock EXCEPT ![q.pool] = r] /\ lock[q.pool] = None
        /\ UNCHANGED <<first, next>>
    BY <1>2, <1>p DEF ScheduleLock, Begin, Acquire, TypeOK
  <2>2. q.pool \in Pools /\ q.sub \in Subs OBVIOUS
  <2>3. next[q.pool] # 0 /\ lock'[q.pool] = r
    BY <2>1, <2>2, <1>p DEF TypeOK
  <2>4. ProcOK(r)'
    BY <2>1, <2>2, <2>3 DEF ProcOK, Invoked
  <2>5. Others(r) BY <1>2, <1>p DEF ScheduleLock, Begin, Others, TypeOK
  <2>6. Locks(r) BY <2>1, <2>2, <1>p DEF Locks, TypeOK
  <2> QED BY <1>p, <2>4, <2>5, <2>6, Frame DEF Local
<1>3. ASSUME UNCHANGED <<procVars, lock, first, next>>
      PROVE  LocalsOK'
  BY <1>3, <1>p DEF LocalsOK, ProcOK, procVars
<1>4. ASSUME NEW c \in Jobs, ChildExit(c)
      PROVE  LocalsOK'
  BY <1>4, <1>3 DEF ChildExit
<1>5. ASSUME NEW c \in Jobs, Unschedule(c)
      PROVE  LocalsOK'
  BY <1>5, <1>3 DEF Unschedule, UnscheduleQueued, UnscheduleKill,
    UnscheduleKilled, UnscheduleTimeout
<1>6. ASSUME NEW x \in Removals, RemoveLink(x) \/ RemoveResource(x)
      PROVE  LocalsOK'
  BY <1>6, <1>3 DEF RemoveLink, RemoveResource
<1>7. ASSUME NEW r \in Procs, Die(r)
      PROVE  LocalsOK'
  BY <1>7, <1>p, ExitLocal, Frame DEF Die
<1> QED BY <1>1, <1>2, <1>4, <1>5, <1>6, <1>7

-----------------------------------------------------------------------------

\* The inductive type invariant: TypeOK with what the locals hold.
LEMMA InitTyped == Init => Typed
<1> SUFFICES ASSUME Init PROVE Typed
  OBVIOUS
<1>1. NoJob \in Current /\ Booked(0) \in Booking BY FreshLocals
<1>2. Invoked(None, None, 0) \in Invocation BY FreshLocals
<1>3. NoChild \in Child BY DEF NoChild, Child
<1>4. TypeOK BY <1>1, <1>2, <1>3 DEF Init, TypeOK, PC
<1>5. LocalsOK
  BY DEF Init, LocalsOK, ProcOK
<1> QED BY <1>4, <1>5 DEF Typed

\* It is kept by every step.
LEMMA NextTyped == Typed /\ [Next]_vars => Typed'
<1> SUFFICES ASSUME Typed, [Next]_vars PROVE Typed'
  OBVIOUS
<1>1. ASSUME NEW r \in Procs, ProcStep(r) PROVE Typed'
  <2>1. TypeOK'
    BY <1>1, ScheduleType, BookType, LaunchType, WaitType DEF ProcStep
  <2> QED BY <1>1, <2>1, ProcLocal, Frame DEF Typed
<1>2. CASE UNCHANGED vars
  BY <1>2 DEF Typed, TypeOK, LocalsOK, ProcOK, vars, procVars
<1>3. CASE \E r \in Procs : ProcStep(r) BY <1>1, <1>3
<1> QED BY <1>2, <1>3, UserType, UserLocals DEF Next, Typed

\* Every variable keeps its type, and a process always finds in its locals
\* what the control point it is at needs: the program raises no exception but
\* those the actions name.
THEOREM TypeCorrect == Spec => []TypeOK
<1>1. Typed => TypeOK BY DEF Typed
<1> QED BY <1>1, InitTyped, NextTyped, PTL DEF Spec
-----------------------------------------------------------------------------
(* Exclusive.                                                              *)

\* What a command that has not ended uses was given to it when it started.
Less ==
  /\ \A p \in Pools : avail'[p] \subseteq avail[p]
  /\ \A r \in Procs : held'[r] \subseteq held[r]
  /\ \A c \in Jobs : child'[c].st \in Alive =>
       child[c].st \in Alive /\ child'[c].uses = child[c].uses

\* A step that only gives up resources keeps Exclusive.
LEMMA LessExclusive ==
  ASSUME TypeOK, Exclusive, Less
  PROVE  Exclusive'
<1>1. \A r \in Procs : \A t \in held[r] : t[1] \in Pools
  BY DEF TypeOK, Tokens
<1>2. \A c \in Jobs : \A t \in child[c].uses : t[1] \in Pools
  BY DEF TypeOK, Child, Tokens
<1> QED BY <1>1, <1>2 DEF Exclusive, Less

\* Process r leaves what the others have booked and are freeing alone.
Mine(r) ==
  \A s \in Procs : s # r => /\ pc'[s] = pc[s] /\ book'[s] = book[s]
                            /\ held'[s] = held[s]

\* What a step of r must show to keep Freeing.
LEMMA FreeingFrame ==
  ASSUME Freeing, NEW r \in Procs, Mine(r),
         pc'[r] = "link" => book'[r].tok \in held'[r]
  PROVE  Freeing'
BY DEF Freeing, Mine

\* A command that loses its parent keeps its resources.
LEMMA OrphanUses ==
  ASSUME NEW ch \in Child
  PROVE  /\ Orphan(ch).uses = ch.uses
         /\ Orphan(ch).st \in Alive => ch.st \in Alive
         /\ ch.st = "none" => Orphan(ch).st = "none"
BY DEF Child, Orphan, Alive

\* The end of a process loses resources, it gives away none.
LEMMA ExitExclusive ==
  ASSUME TypeOK, Exclusive, Freeing, NEW r \in Procs, Exit(r)
  PROVE  Exclusive' /\ Freeing'
<1>1. \A c \in Jobs : child'[c].st \in Alive =>
        child[c].st \in Alive /\ child'[c].uses = child[c].uses
  BY OrphanUses DEF Exit, TypeOK
<1>2. Less BY <1>1 DEF Exit, Less, TypeOK
<1>3. Mine(r) /\ pc'[r] = "idle"
  BY DEF Exit, Idle, Begin, Mine, TypeOK
<1> QED BY <1>2, <1>3, LessExclusive, FreeingFrame

\* A step that moves no resource.
LEMMA SameExclusive ==
  ASSUME TypeOK, Exclusive, UNCHANGED <<avail, held, child>>
  PROVE  Exclusive'
BY DEF Exclusive

\* The removed symlink was nobody else's ...
LEMMA BookTakeExclusive ==
  ASSUME Typed, Exclusive, NEW r \in Procs, BookTake(r)
  PROVE  Exclusive'
<1>1. PICK x \in avail[Target(r)] :
        /\ avail' = [avail EXCEPT ![Target(r)] = avail[Target(r)] \ {x}]
        /\ held' = [held EXCEPT ![r] = held[r] \cup {<<Target(r), x>>}]
        /\ UNCHANGED child
  BY DEF BookTake
<1>2. Target(r) \in Pools
  BY TargetType DEF Typed, LocalsOK, ProcOK, BookTake, Extras, TypeOK
<1>3. \A p \in Pools : avail'[p] \subseteq avail[p]
  BY <1>1, <1>2
  DEF Typed, TypeOK
<1>4. x \notin avail'[Target(r)] BY <1>1, <1>2 DEF Typed, TypeOK
<1>5. held'[r] = held[r] \cup {<<Target(r), x>>} BY <1>1 DEF Typed, TypeOK
<1>6. \A s \in Procs : s # r => held'[s] = held[s] BY <1>1 DEF Typed, TypeOK
<1>7. \A s \in Procs : <<Target(r), x>> \notin held[s] BY <1>1 DEF Exclusive
<1>8. \A c \in Jobs :
        child[c].st \in Alive => <<Target(r), x>> \notin child[c].uses
  BY <1>1 DEF Exclusive
<1>9. \A s \in Procs : \A t \in held[s] : t[1] \in Pools
  BY DEF Typed, TypeOK, Tokens
<1>10. \A c \in Jobs : \A t \in child[c].uses : t[1] \in Pools
  BY DEF Typed, TypeOK, Child, Tokens
<1>11. \A s \in Procs : \A t \in held'[s] : t[2] \notin avail'[t[1]]
  BY <1>3, <1>4, <1>5, <1>6, <1>9 DEF Exclusive
<1>12. \A s, u \in Procs : s # u => held'[s] \cap held'[u] = {}
  BY <1>5, <1>6, <1>7 DEF Exclusive
<1> QED BY <1>1, <1>3, <1>5, <1>6, <1>8, <1>10, <1>11, <1>12 DEF Exclusive

\* ... what was booked goes to the command ...
LEMMA PopenExclusive ==
  ASSUME Typed, Exclusive, NEW r \in Procs, Popen(r)
  PROVE  Exclusive'
<1>1. /\ child' = [child EXCEPT ![Job(r)] =
                 [st |-> "running", by |-> r, sub |-> cur[r].data,
                  uses |-> held[r]]]
      /\ held' = [held EXCEPT ![r] = {}]
      /\ UNCHANGED avail
  BY DEF Popen
<1>2. held'[r] = {} /\ \A s \in Procs : s # r => held'[s] = held[s]
  BY <1>1 DEF Typed, TypeOK
<1>3. \A c \in Jobs : \/ c = Job(r) /\ child'[c].uses = held[r]
                      \/ c # Job(r) /\ child'[c] = child[c]
  BY <1>1 DEF Typed, TypeOK
<1> QED BY <1>1, <1>2, <1>3 DEF Exclusive

\* ... comes back when it has been waited for ...
LEMMA ReapExclusive ==
  ASSUME Typed, Exclusive, NEW r \in Procs, Reap(r)
  PROVE  Exclusive'
<1>1. PICK c \in Jobs :
        /\ child[c].st = "zombie"
        /\ child' = [child EXCEPT ![c] = [child[c] EXCEPT !.st = "gone",
                                                          !.by = None]]
        /\ held' = [held EXCEPT ![r] = child[c].uses]
        /\ UNCHANGED avail
  BY DEF Reap, Commands
<1>2. held'[r] = child[c].uses /\ \A s \in Procs : s # r => held'[s] = held[s]
  BY <1>1 DEF Typed, TypeOK
<1>3. child'[c].st = "gone" /\ \A d \in Jobs : d # c => child'[d] = child[d]
  BY <1>1 DEF Typed, TypeOK, Child
<1> QED BY <1>1, <1>2, <1>3 DEF Exclusive, Alive

\* ... and becomes available when nobody has it.
LEMMA FreeLinkExclusive ==
  ASSUME Typed, Exclusive, Freeing, NEW r \in Procs, FreeLink(r)
  PROVE  Exclusive'
<1>1. /\ avail' = [avail EXCEPT ![Freed(r)[1]] =
                     avail[Freed(r)[1]] \cup {Freed(r)[2]}]
      /\ held' = [held EXCEPT ![r] = held[r] \ {Freed(r)}]
      /\ Freed(r) \in held[r]
      /\ UNCHANGED child
  BY DEF FreeLink, Freeing, Freed
<1>2. held'[r] = held[r] \ {Freed(r)}
      /\ \A s \in Procs : s # r => held'[s] = held[s]
  BY <1>1 DEF Typed, TypeOK
<1>3. \A s \in Procs : held[s] \subseteq Tokens BY DEF Typed, TypeOK
<1>4. \A c \in Jobs : child[c].uses \subseteq Tokens
  BY DEF Typed, TypeOK, Child
<1>5. \A t \in Tokens :
        t[2] \in avail'[t[1]] => t[2] \in avail[t[1]] \/ t = Freed(r)
  <2> SUFFICES ASSUME NEW t \in Tokens, t # Freed(r), t[2] \in avail'[t[1]]
               PROVE  t[2] \in avail[t[1]]
    OBVIOUS
  <2>1. Freed(r) \in Tokens BY <1>1, <1>3
  <2>2. t[1] # Freed(r)[1] \/ t[2] # Freed(r)[2] BY <2>1 DEF Tokens
  <2> QED BY <1>1, <2>1, <2>2 DEF Typed, TypeOK, Tokens
<1>6. \A s \in Procs : Freed(r) \notin held'[s] BY <1>1, <1>2 DEF Exclusive
<1>7. \A c \in Jobs : child[c].st \in Alive => Freed(r) \notin child[c].uses
  BY <1>1 DEF Exclusive
<1>8. \A s \in Procs : \A t \in held'[s] : t[2] \notin avail'[t[1]]
  BY <1>2, <1>3, <1>5, <1>6 DEF Exclusive
<1>9. \A c \in Jobs : child[c].st \in Alive =>
        \A t \in child[c].uses : t[2] \notin avail'[t[1]]
  BY <1>4, <1>5, <1>7 DEF Exclusive
<1>10. \A s \in Procs : held'[s] \subseteq held[s] BY <1>2
<1> QED BY <1>1, <1>8, <1>9, <1>10 DEF Exclusive

\* A step of a process keeps Exclusive.
LEMMA ProcExclusive ==
  ASSUME Typed, Exclusive, Freeing, NEW r \in Procs, ProcStep(r)
  PROVE  Exclusive' /\ Freeing'
<1>p. TypeOK BY DEF Typed
<1>1. CASE BookTake(r)
  <2>1. Mine(r) /\ pc'[r] # "link" BY <1>1, <1>p DEF BookTake, Mine, TypeOK
  <2> QED BY <2>1, <1>1, FreeingFrame, BookTakeExclusive
<1>2. CASE Popen(r)
  <2>1. Mine(r) /\ pc'[r] # "link" BY <1>2, <1>p DEF Popen, Mine, TypeOK
  <2> QED BY <2>1, <1>2, FreeingFrame, PopenExclusive
<1>3. CASE Reap(r)
  <2>1. Mine(r) /\ pc'[r] # "link" BY <1>3, <1>p DEF Reap, Mine, TypeOK
  <2> QED BY <2>1, <1>3, FreeingFrame, ReapExclusive
<1>4. CASE FreeLink(r)
  <2>1. Mine(r) /\ pc'[r] # "link" BY <1>4, <1>p DEF FreeLink, Mine, TypeOK
  <2> QED BY <2>1, <1>4, FreeingFrame, FreeLinkExclusive
<1>5. CASE FreeRemoved(r)
  <2>1. Mine(r) /\ pc'[r] # "link" BY <1>5, <1>p DEF FreeRemoved, Mine, TypeOK
  <2>2. Less BY <1>5, <1>p DEF FreeRemoved, Less, TypeOK
  <2> QED BY <1>p, <2>1, <2>2, FreeingFrame, LessExclusive
<1>6. CASE FreeCheck(r)
  <2>1. Mine(r) BY <1>6, <1>p DEF FreeCheck, Mine, TypeOK
  <2>2. PICK t \in held[r] : book' = [book EXCEPT ![r].tok = t]
    BY <1>6 DEF FreeCheck
  <2>3. book'[r].tok \in held'[r]
    BY <1>6, <1>p, <2>2
    DEF FreeCheck, TypeOK, Booking
  <2>4. UNCHANGED <<avail, held, child>> BY <1>6 DEF FreeCheck
  <2> QED BY <1>p, <2>1, <2>3, <2>4, FreeingFrame, SameExclusive
<1>7. CASE Exit(r) BY <1>7, <1>p, ExitExclusive
<1>8. ASSUME UNCHANGED <<avail, held, child>>, pc'[r] # "link"
      PROVE  Exclusive' /\ Freeing'
  <2>1. Mine(r) BY <1>8, ProcLocal DEF Local, Others, Mine
  <2> QED BY <1>8, <1>p, <2>1, FreeingFrame, SameExclusive
<1>9. CASE ScheduleStep(r)
  <2>1. \/ Exit(r)
        \/ UNCHANGED <<avail, held, child>> /\ pc'[r] # "link"
    BY <1>9, <1>p DEF ScheduleStep, ScheduleDuplicate, ScheduleUnknownPool,
      ScheduleAccepted, WriteQueueFile, BumpNext, BlockAgain, BlockReturn,
      ScheduleEnd, Idle, TypeOK
  <2> QED BY <1>7, <1>8, <2>1
<1>10. CASE BookStep(r) /\ ~BookTake(r)
  <2>1. \/ Exit(r)
        \/ UNCHANGED <<avail, held, child>> /\ pc'[r] # "link"
    BY <1>10, <1>p DEF BookStep, Peek, ReadData, ReadMissing, CheckExtra,
      SkipJob, CheckDone, BookList, BookMissed, BookFailed, GetLock,
      GetNothing, GetRename, GetMissing, GetAdvance, TypeOK
  <2> QED BY <1>7, <1>8, <2>1
<1>11. CASE LaunchStep(r) /\ ~Popen(r)
  <2>1. \/ Exit(r)
        \/ UNCHANGED <<avail, held, child>> /\ pc'[r] # "link"
    BY <1>11, <1>p DEF LaunchStep, BookDone, RemoveBooked, WriteExec,
      WriteNowhere, PopenFailed, WritePid, Dump, TypeOK
  <2> QED BY <1>7, <1>8, <2>1
<1>12. CASE FreeDone(r)
  <2>1. cur[r].after # "link" BY <1>p DEF TypeOK, Current
  <2>2. UNCHANGED <<avail, held, child>> /\ pc'[r] # "link"
    BY <1>12, <1>p, <2>1 DEF FreeDone, TypeOK
  <2> QED BY <1>8, <2>2
<1>13. CASE DropExec(r) \/ CommandOver(r) \/ BlockedRunDone(r)
  <2>1. UNCHANGED <<avail, held, child>> /\ pc'[r] # "link"
    BY <1>13, <1>p DEF DropExec, CommandOver, BlockedRunDone, RemoveExec,
      TypeOK
  <2> QED BY <1>8, <2>1
<1>14. CASE FreeExists(r) \/ RunDone(r)
  BY <1>7, <1>14 DEF FreeExists, RunDone
<1> QED
  BY <1>1, <1>2, <1>3, <1>4, <1>5, <1>6, <1>9, <1>10, <1>11, <1>12,
    <1>13, <1>14
  DEF ProcStep, WaitStep, FreeSymlink

\* Every step does.
LEMMA NextExclusive ==
  Typed /\ Exclusive /\ Freeing /\ [Next]_vars => Exclusive' /\ Freeing'
<1> SUFFICES ASSUME Typed, Exclusive, Freeing, [Next]_vars
             PROVE  Exclusive' /\ Freeing'
  OBVIOUS
<1>p. TypeOK BY DEF Typed
<1>1. ASSUME UNCHANGED <<procVars, avail, child>>
      PROVE  Exclusive' /\ Freeing'
  BY <1>1, <1>p, SameExclusive DEF Freeing, procVars
<1>2. ASSUME NEW r \in Procs, UNCHANGED <<avail, held, child>>, Others(r),
             pc'[r] # "link"
      PROVE  Exclusive' /\ Freeing'
  BY <1>2, <1>p, SameExclusive, FreeingFrame DEF Mine, Others
<1>3. ASSUME NEW r \in Procs, NEW p \in RunPools, StartRun(r, p)
      PROVE  Exclusive' /\ Freeing'
  BY <1>3, <1>2, <1>p DEF StartRun, Begin, Others, TypeOK
<1>4. ASSUME NEW r \in Procs, NEW q \in Requests, ScheduleLock(r, q)
      PROVE  Exclusive' /\ Freeing'
  BY <1>4, <1>2, <1>p DEF ScheduleLock, Begin, Others, TypeOK
<1>5. ASSUME NEW c \in Jobs, ChildExit(c)
      PROVE  Exclusive' /\ Freeing'
  <2>1. \E x \in {"gone", "zombie"} : child' = [child EXCEPT ![c].st = x]
    BY <1>5 DEF ChildExit
  <2>2. \A d \in Jobs : child'[d].uses = child[d].uses
    BY <2>1, <1>p DEF TypeOK, Child
  <2>3. \A d \in Jobs : child'[d].st \in Alive => child[d].st \in Alive
    BY <2>1, <1>5, <1>p DEF ChildExit, TypeOK, Child, Alive
  <2>4. UNCHANGED procVars /\ UNCHANGED avail BY <1>5 DEF ChildExit
  <2> QED BY <1>p, <2>2, <2>3, <2>4, LessExclusive DEF Less, Freeing, procVars
<1>6. ASSUME NEW c \in Jobs, Unschedule(c)
      PROVE  Exclusive' /\ Freeing'
  BY <1>6, <1>1 DEF Unschedule, UnscheduleQueued, UnscheduleKill,
    UnscheduleKilled, UnscheduleTimeout
<1>7. ASSUME NEW x \in Removals, RemoveLink(x) \/ RemoveResource(x)
      PROVE  Exclusive' /\ Freeing'
  <2>1. \A p \in Pools : avail'[p] \subseteq avail[p]
    <3>1. CASE RemoveLink(x) BY <3>1, <1>p DEF RemoveLink, TypeOK
    <3>2. CASE RemoveResource(x) BY <3>2 DEF RemoveResource
    <3> QED BY <1>7, <3>1, <3>2
  <2>2. UNCHANGED <<procVars, child>> BY <1>7 DEF RemoveLink, RemoveResource
  <2>3. Less BY <2>1, <2>2 DEF Less, procVars
  <2> QED BY <1>p, <2>2, <2>3, LessExclusive DEF Freeing, procVars
<1>8. ASSUME NEW r \in Procs, Die(r)
      PROVE  Exclusive' /\ Freeing'
  BY <1>8, <1>p, ExitExclusive DEF Die
<1>9. CASE UNCHANGED vars BY <1>9, <1>1 DEF vars, procVars
<1>10. ASSUME NEW r \in Procs, ProcStep(r)
       PROVE  Exclusive' /\ Freeing'
  BY <1>10, ProcExclusive
<1> QED BY <1>3, <1>4, <1>5, <1>6, <1>7, <1>8, <1>9, <1>10 DEF Next

\* No resource is given to two commands, whatever the number of processes
\* that book, free, remove and die on however many pools.
THEOREM ExclusiveCorrect == Spec => []Exclusive
<1>1. Init => Exclusive /\ Freeing
  BY DEF Init, Exclusive, Freeing, NoChild, Alive
<1> QED BY <1>1, InitTyped, NextTyped, NextExclusive, PTL DEF Spec

-----------------------------------------------------------------------------
(* Which steps write what.                                                 *)

\* Two steps write .seq, and what they read under the lock is still there.
LEMMA BumpNextEffect ==
  ASSUME Typed, NEW r \in Procs, BumpNext(r)
  PROVE  /\ PoolOf(r) \in Pools /\ cur[r].idx = next[PoolOf(r)]
         /\ first' = first
         /\ next' = [next EXCEPT ![PoolOf(r)] = next[PoolOf(r)] + 1]
         /\ UNCHANGED <<queue, exec, child>>
<1>p. TypeOK /\ ProcOK(r) BY DEF Typed, LocalsOK
<1>1. /\ PoolOf(r) \in Pools
      /\ cur[r].idx = next[PoolOf(r)] /\ cur[r].first = first[PoolOf(r)]
  BY <1>p DEF BumpNext, ProcOK
<1> QED BY <1>p, <1>1 DEF BumpNext, ScheduleEnd, TypeOK

\* get_command moves first past the id it has consumed.
LEMMA GetAdvanceEffect ==
  ASSUME Typed, NEW r \in Procs, GetAdvance(r)
  PROVE  /\ PoolOf(r) \in Pools /\ cur[r].idx = first[PoolOf(r)]
         /\ first' = [first EXCEPT ![PoolOf(r)] = first[PoolOf(r)] + 1]
         /\ next' = next
         /\ UNCHANGED <<queue, exec, child>>
<1>p. TypeOK /\ ProcOK(r) BY DEF Typed, LocalsOK
<1>1. /\ PoolOf(r) \in Pools
      /\ cur[r].idx = first[PoolOf(r)] /\ cur[r].next = next[PoolOf(r)]
  BY <1>p DEF GetAdvance, ProcOK
<1> QED BY <1>p, <1>1 DEF GetAdvance, TypeOK

\* A submission goes to the id next.
LEMMA WriteQueueFileEffect ==
  ASSUME Typed, NEW r \in Procs, WriteQueueFile(r)
  PROVE  /\ Job(r) \in Jobs /\ Job(r) = <<PoolOf(r), next[PoolOf(r)]>>
         /\ queue' = [queue EXCEPT ![Job(r)] = cur[r].data]
         /\ UNCHANGED <<first, next, exec, child>>
<1>p. TypeOK /\ ProcOK(r) BY DEF Typed, LocalsOK
<1>1. cur[r].idx \in 1..MaxId
  BY <1>p DEF WriteQueueFile, ProcOK, TypeOK, Current
<1> QED BY <1>p, <1>1 DEF WriteQueueFile, ProcOK, Job, Jobs, Ids

\* The other steps write neither .seq nor a new queue file.
LEMMA Writers ==
  ASSUME Typed, [Next]_vars
  PROVE  /\ \/ UNCHANGED <<first, next>>
            \/ \E r \in Procs : BumpNext(r) \/ GetAdvance(r)
         /\ \/ UNCHANGED queue
            \/ \E r \in Procs : WriteQueueFile(r) \/ GetRename(r)
            \/ \E c \in Jobs : UnscheduleQueued(c)
<1>1. ASSUME NEW r \in Procs, ScheduleStep(r)
      PROVE  /\ UNCHANGED <<first, next>> \/ BumpNext(r)
             /\ UNCHANGED queue \/ WriteQueueFile(r)
  BY <1>1 DEF ScheduleStep, ScheduleDuplicate, ScheduleUnknownPool,
    ScheduleAccepted, WriteQueueFile, BumpNext, BlockAgain, BlockReturn,
    ScheduleEnd, Exit
<1>2. ASSUME NEW r \in Procs, BookStep(r)
      PROVE  /\ UNCHANGED <<first, next>> \/ GetAdvance(r)
             /\ UNCHANGED queue \/ GetRename(r)
  BY <1>2 DEF BookStep, Peek, ReadData, ReadMissing, CheckExtra, SkipJob,
    CheckDone, BookList, BookTake, BookMissed, BookFailed, GetLock, GetNothing,
    GetRename, GetMissing, GetAdvance, Exit
<1>3. ASSUME NEW r \in Procs, LaunchStep(r) \/ WaitStep(r)
      PROVE  UNCHANGED <<first, next, queue>>
  BY <1>3 DEF LaunchStep, BookDone, RemoveBooked, WriteExec, WriteNowhere,
    Popen, PopenFailed, WritePid, Dump, WaitStep, FreeCheck, FreeRemoved,
    FreeSymlink, FreeLink, FreeExists, FreeDone, DropExec, CommandOver,
    RemoveExec, Reap, RunDone, BlockedRunDone, Exit
<1>4. ASSUME NEW r \in Procs, ProcStep(r)
      PROVE  /\ UNCHANGED <<first, next>> \/ BumpNext(r) \/ GetAdvance(r)
             /\ UNCHANGED queue \/ WriteQueueFile(r) \/ GetRename(r)
  BY <1>1, <1>2, <1>3, <1>4 DEF ProcStep
<1>5. ASSUME NEW c \in Jobs, Unschedule(c)
      PROVE  /\ UNCHANGED <<first, next>>
             /\ UNCHANGED queue \/ UnscheduleQueued(c)
  BY <1>5 DEF Unschedule, UnscheduleQueued, UnscheduleKill, UnscheduleKilled,
    UnscheduleTimeout
<1>6. CASE \/ \E r \in Procs, p \in RunPools : StartRun(r, p)
           \/ \E r \in Procs, q \in Requests : ScheduleLock(r, q)
           \/ \E c \in Jobs : ChildExit(c)
           \/ \E x \in Removals : RemoveLink(x) \/ RemoveResource(x)
           \/ \E r \in Mortal : Die(r)
           \/ UNCHANGED vars
  BY <1>6 DEF StartRun, ScheduleLock, ChildExit, RemoveLink, RemoveResource,
    Die, Exit, vars
<1> QED BY <1>4, <1>5, <1>6 DEF Next

-----------------------------------------------------------------------------
(* .seq and the queue files, step by step.                                 *)

\* One step moves no end of a window down.
LEMMA SeqStep ==
  ASSUME Typed, [Next]_vars
  PROVE  \A p \in Pools : first'[p] >= first[p] /\ next'[p] >= next[p]
<1>p. TypeOK BY DEF Typed
<1>1. ASSUME NEW r \in Procs, BumpNext(r)
      PROVE  \A p \in Pools : first'[p] >= first[p] /\ next'[p] >= next[p]
  <2> TAKE p \in Pools
  <2>1. first[p] \in Nat /\ next[p] \in Nat BY <1>p DEF TypeOK
  <2>2. first'[p] = first[p] BY <1>1, BumpNextEffect
  <2>3. next'[p] \in {next[p], next[p] + 1}
    <3>1. next' = [next EXCEPT ![PoolOf(r)] = next[PoolOf(r)] + 1]
      BY <1>1, BumpNextEffect
    <3> QED BY <3>1, <1>p DEF TypeOK
  <2> QED BY <2>1, <2>2, <2>3
<1>2. ASSUME NEW r \in Procs, GetAdvance(r)
      PROVE  \A p \in Pools : first'[p] >= first[p] /\ next'[p] >= next[p]
  <2> TAKE p \in Pools
  <2>1. first[p] \in Nat /\ next[p] \in Nat BY <1>p DEF TypeOK
  <2>2. next'[p] = next[p] BY <1>2, GetAdvanceEffect
  <2>3. first'[p] \in {first[p], first[p] + 1}
    BY <1>2, <1>p, GetAdvanceEffect DEF TypeOK
  <2> QED BY <2>1, <2>2, <2>3
<1>3. ASSUME UNCHANGED <<first, next>>
      PROVE  \A p \in Pools : first'[p] >= first[p] /\ next'[p] >= next[p]
  BY <1>3, <1>p DEF TypeOK
<1> QED BY <1>1, <1>2, <1>3, Writers

\* The ends of the window only move up: the lock orders the read and the
\* write of .seq of any number of processes.
THEOREM SeqMonotoneCorrect == Spec => SeqMonotone
<1>1. Typed /\ [Next]_vars
        => [\A p \in Pools : first'[p] >= first[p] /\ next'[p] >= next[p]]_vars
  BY SeqStep
<1> QED BY <1>1, InitTyped, NextTyped, PTL DEF Spec, SeqMonotone

\* A queue file is new only at next.
LEMMA QueueStep ==
  ASSUME Typed, [Next]_vars
  PROVE  \A c \in Jobs :
           \/ queue'[c] = queue[c] \/ queue'[c] = None
           \/ /\ c[2] = next[c[1]]
              /\ \E r \in Procs : WriteQueueFile(r) /\ c = Job(r)
<1>p. TypeOK BY DEF Typed
<1>1. ASSUME NEW r \in Procs, WriteQueueFile(r), NEW c \in Jobs
      PROVE  \/ queue'[c] = queue[c]
             \/ c[2] = next[c[1]] /\ c = Job(r)
  <2>1. /\ Job(r) = <<PoolOf(r), next[PoolOf(r)]>>
        /\ queue' = [queue EXCEPT ![Job(r)] = cur[r].data]
    BY <1>1, WriteQueueFileEffect
  <2>2. c # Job(r) => queue'[c] = queue[c] BY <2>1, <1>p DEF TypeOK
  <2> QED BY <2>1, <2>2
<1>2. ASSUME NEW r \in Procs, GetRename(r), NEW c \in Jobs
      PROVE  queue'[c] = queue[c] \/ queue'[c] = None
  BY <1>2, <1>p DEF GetRename, TypeOK
<1>3. ASSUME NEW d \in Jobs, UnscheduleQueued(d), NEW c \in Jobs
      PROVE  queue'[c] = queue[c] \/ queue'[c] = None
  BY <1>3, <1>p DEF UnscheduleQueued, TypeOK
<1> QED BY <1>1, <1>2, <1>3, Writers

\* A submission below next stays as it was queued until it is consumed or
\* unscheduled, and no other takes its id.
THEOREM NeverOverwrittenCorrect == Spec => NeverOverwritten
<1>1. ASSUME Typed, [Next]_vars, NEW p \in Pools, NEW i \in Ids, i < next[p]
      PROVE  queue'[<<p, i>>] \in {queue[<<p, i>>], None}
  <2>1. <<p, i>> \in Jobs BY DEF Jobs
  <2>2. i # next[p] BY <1>1 DEF Ids, Typed, TypeOK
  <2> QED BY <1>1, <2>1, <2>2, QueueStep
<1>2. Typed /\ [Next]_vars
        => [\A p \in Pools, i \in Ids :
              i < next[p] => queue'[<<p, i>>] \in {queue[<<p, i>>], None}]_vars
  BY <1>1
<1> QED BY <1>2, InitTyped, NextTyped, PTL DEF Spec, NeverOverwritten

-----------------------------------------------------------------------------
(* The ids.                                                                *)

\* A runner at work on the job it has consumed, which is not queued after
\* the step.
AtWork(r) ==
  /\ pc[r] \in Holding \cup {"rename"}
  /\ cur[r].idx # 0
  /\ queue'[Job(r)] = None

\* The job of a runner that has an id.
LEMMA JobType ==
  ASSUME Typed, NEW r \in Procs, pc[r] # "idle", cur[r].idx # 0
  PROVE  Job(r) \in Jobs
BY DEF Typed, TypeOK, LocalsOK, ProcOK, Job, Jobs, Ids, Current

\* Only a runner at work creates the .exec file of its job or runs it.
LEMMA WorkStep ==
  ASSUME Typed, Consumed, NEW r \in Procs, ProcStep(r), NEW c \in Jobs
  PROVE  /\ exec[c] = None /\ exec'[c] # None => AtWork(r) /\ c = Job(r)
         /\ child[c].st = "none" /\ child'[c].st # "none" =>
              AtWork(r) /\ c = Job(r)
<1>p. TypeOK /\ ProcOK(r) BY DEF Typed, LocalsOK
<1>1. CASE GetRename(r)
  <2>1. Job(r) \in Jobs /\ cur[r].idx # 0
    BY <1>1, <1>p, JobType DEF GetRename, ProcOK
  <2>2. AtWork(r) BY <1>1, <1>p, <2>1 DEF GetRename, AtWork, TypeOK
  <2> QED BY <1>1, <1>p, <2>1, <2>2 DEF GetRename, TypeOK
<1>2. CASE WriteExec(r) \/ WritePid(r)
  <2>1. cur[r].idx # 0 /\ pc[r] \in Holding /\ UNCHANGED <<queue, child>>
    BY <1>2, <1>p DEF WriteExec, WritePid, Dump, ProcOK, Holding
  <2>2. Job(r) \in Jobs /\ AtWork(r)
    BY <2>1, JobType DEF Consumed, AtWork, Holding
  <2> QED BY <1>2, <1>p, <2>1, <2>2 DEF WriteExec, WritePid, Dump, TypeOK
<1>3. CASE Popen(r)
  <2>1. cur[r].idx # 0 /\ pc[r] \in Holding /\ UNCHANGED <<queue, exec>>
    BY <1>3, <1>p DEF Popen, ProcOK, Holding
  <2>2. Job(r) \in Jobs /\ AtWork(r)
    BY <2>1, JobType DEF Consumed, AtWork, Holding
  <2> QED BY <1>3, <1>p, <2>1, <2>2 DEF Popen, TypeOK
<1>4. CASE Exit(r)
  <2>1. child[c].st = "none" => child'[c].st = "none"
    BY <1>4, <1>p, OrphanUses DEF Exit, TypeOK
  <2> QED BY <1>4, <2>1 DEF Exit
<1>5. CASE Reap(r)
  <2>1. PICK d \in Jobs :
          /\ child[d].st = "zombie"
          /\ child' = [child EXCEPT ![d] = [child[d] EXCEPT !.st = "gone",
                                                            !.by = None]]
    BY <1>5 DEF Reap, Commands
  <2>2. child[c].st = "none" => child'[c] = child[c]
    BY <2>1, <1>p DEF TypeOK
  <2> QED BY <1>5, <2>2 DEF Reap
<1>6. CASE DropExec(r) \/ CommandOver(r)
  BY <1>6, <1>p DEF DropExec, CommandOver, RemoveExec, TypeOK
<1>7. CASE UNCHANGED <<exec, child>> BY <1>7
<1>8. ScheduleStep(r) => Exit(r) \/ UNCHANGED <<exec, child>>
  BY DEF ScheduleStep, ScheduleDuplicate, ScheduleUnknownPool,
    ScheduleAccepted, WriteQueueFile, BumpNext, BlockAgain, BlockReturn,
    ScheduleEnd
<1>9. BookStep(r) => GetRename(r) \/ Exit(r) \/ UNCHANGED <<exec, child>>
  BY DEF BookStep, Peek, ReadData, ReadMissing, CheckExtra, SkipJob, CheckDone,
    BookList, BookTake, BookMissed, BookFailed, GetLock, GetNothing,
    GetMissing, GetAdvance
<1>10. LaunchStep(r) => \/ WriteExec(r) \/ WritePid(r) \/ Popen(r) \/ Exit(r)
                        \/ UNCHANGED <<exec, child>>
  BY DEF LaunchStep, BookDone, RemoveBooked, WriteNowhere, PopenFailed
<1>11. WaitStep(r) => \/ DropExec(r) \/ CommandOver(r) \/ Reap(r) \/ Exit(r)
                      \/ UNCHANGED <<exec, child>>
  BY DEF WaitStep, FreeCheck, FreeRemoved, FreeSymlink, FreeLink, FreeExists,
    FreeDone, RunDone, BlockedRunDone
<1> QED
  BY <1>1, <1>2, <1>3, <1>4, <1>5, <1>6, <1>7, <1>8, <1>9, <1>10, <1>11
  DEF ProcStep

\* The same of every step of the system.
LEMMA WorkFrame ==
  ASSUME Typed, Consumed, [Next]_vars, NEW c \in Jobs,
         \A r \in Procs : ~(AtWork(r) /\ c = Job(r))
  PROVE  /\ exec[c] = None => exec'[c] = None
         /\ child[c].st = "none" => child'[c].st = "none"
<1>p. TypeOK BY DEF Typed
<1>1. ASSUME NEW r \in Procs, ProcStep(r)
      PROVE  /\ exec[c] = None => exec'[c] = None
             /\ child[c].st = "none" => child'[c].st = "none"
  BY <1>1, WorkStep
<1>2. ASSUME NEW r \in Procs, Die(r)
      PROVE  /\ exec[c] = None => exec'[c] = None
             /\ child[c].st = "none" => child'[c].st = "none"
  <2>1. child[c].st = "none" => child'[c].st = "none"
    BY <1>2, <1>p, OrphanUses DEF Die, Exit, TypeOK
  <2> QED BY <1>2, <2>1 DEF Die, Exit
<1>3. ASSUME NEW d \in Jobs, ChildExit(d)
      PROVE  /\ exec[c] = None => exec'[c] = None
             /\ child[c].st = "none" => child'[c].st = "none"
  <2>1. child[c].st = "none" => child'[c] = child[c]
    BY <1>3, <1>p DEF ChildExit, TypeOK
  <2> QED BY <1>3, <2>1 DEF ChildExit
<1>4. ASSUME NEW d \in Jobs, Unschedule(d)
      PROVE  /\ exec[c] = None => exec'[c] = None
             /\ child[c].st = "none" => child'[c].st = "none"
  BY <1>4, <1>p DEF Unschedule, UnscheduleQueued, UnscheduleKill,
    UnscheduleKilled, UnscheduleTimeout, TypeOK
<1>5. CASE \/ \E r \in Procs, p \in RunPools : StartRun(r, p)
           \/ \E r \in Procs, q \in Requests : ScheduleLock(r, q)
           \/ \E x \in Removals : RemoveLink(x) \/ RemoveResource(x)
           \/ UNCHANGED vars
  BY <1>5 DEF StartRun, ScheduleLock, RemoveLink, RemoveResource, vars
<1> QED BY <1>1, <1>2, <1>3, <1>4, <1>5 DEF Next

\* Ids from next on stay untouched.
LEMMA UntouchedStep ==
  ASSUME Typed, IdsOK, [Next]_vars
  PROVE  Untouched'
<1> SUFFICES ASSUME NEW c \in Jobs, next'[c[1]] <= c[2]
             PROVE  exec'[c] = None /\ child'[c].st = "none"
  BY DEF Untouched
<1>1. c[1] \in Pools /\ c[2] \in Nat BY DEF Jobs, Ids
<1>2. next[c[1]] <= c[2]
  <2>1. next'[c[1]] >= next[c[1]] BY <1>1, SeqStep
  <2>2. next[c[1]] \in Nat /\ next'[c[1]] \in Nat
    BY <1>1, NextTyped DEF Typed, TypeOK
  <2> QED BY <1>1, <2>1, <2>2
<1>3. exec[c] = None /\ child[c].st = "none" BY <1>2 DEF IdsOK, Untouched
<1>4. ASSUME NEW r \in Procs, AtWork(r), c = Job(r) PROVE FALSE
  <2>1. cur[r].idx < next[PoolOf(r)]
    BY <1>4 DEF IdsOK, Consumed, AtWork
  <2>2. c[1] = PoolOf(r) /\ c[2] = cur[r].idx BY <1>4 DEF Job
  <2>3. next[c[1]] \in Nat BY <1>1 DEF Typed, TypeOK
  <2> QED BY <1>1, <1>2, <2>1, <2>2, <2>3
<1> QED BY <1>3, <1>4, WorkFrame DEF IdsOK

\* What is queued after a step was never consumed nor run.
LEMMA FreshStep ==
  ASSUME Typed, IdsOK, [Next]_vars
  PROVE  QueuedIsFresh'
<1> SUFFICES ASSUME NEW c \in Jobs, queue'[c] # None
             PROVE  exec'[c] = None /\ child'[c].st = "none"
  BY DEF QueuedIsFresh
<1>1. exec[c] = None /\ child[c].st = "none"
  <2>1. CASE queue'[c] = queue[c] BY <2>1 DEF IdsOK, QueuedIsFresh
  <2>2. CASE c[2] = next[c[1]]
    BY <2>2 DEF IdsOK, Untouched, Jobs, Ids
  <2> QED BY <2>1, <2>2, QueueStep
<1>2. \A r \in Procs : ~(AtWork(r) /\ c = Job(r)) BY DEF AtWork
<1> QED BY <1>1, <1>2, WorkFrame DEF IdsOK

\* The window holds the queue files.
LEMMA WindowStep ==
  ASSUME Typed, IdsOK, [Next]_vars
  PROVE  Window' /\ Reachable'
<1>p. TypeOK /\ Window /\ Consumed BY DEF Typed, IdsOK
<1>1. ASSUME NEW r \in Procs, GetAdvance(r)
      PROVE  Window' /\ Reachable'
  <2>1. /\ PoolOf(r) \in Pools /\ cur[r].idx = first[PoolOf(r)]
        /\ first' = [first EXCEPT ![PoolOf(r)] = first[PoolOf(r)] + 1]
        /\ UNCHANGED <<next, queue>>
    BY <1>1, GetAdvanceEffect
  <2>2. /\ first[PoolOf(r)] < next[PoolOf(r)]
        /\ queue[<<PoolOf(r), first[PoolOf(r)]>>] = None
    BY <1>1, <1>p, <2>1 DEF GetAdvance, Consumed, Holding, Job, TypeOK
  <2>3. Window' BY <1>p, <2>1, <2>2 DEF Window, TypeOK
  <2>4. Reachable'
    <3> SUFFICES ASSUME NEW p \in Pools, NEW i \in Ids, queue[<<p, i>>] # None
                 PROVE  first'[p] <= i /\ i <= next[p]
      BY <2>1 DEF Reachable
    <3>1. first[p] <= i /\ i <= next[p] BY DEF IdsOK, Reachable
    <3>2. p = PoolOf(r) => i # first[p] BY <2>2
    <3> QED BY <1>p, <2>1, <3>1, <3>2 DEF TypeOK, Ids
  <2> QED BY <2>3, <2>4
<1>2. ASSUME first' = first,
             \A p \in Pools : next'[p] >= next[p]
      PROVE  Window' /\ Reachable'
  <2>1. \A p \in Pools : /\ next'[p] \in Nat /\ next[p] \in Nat
                         /\ first[p] \in Nat
    BY NextTyped DEF Typed, TypeOK
  <2>2. Window' BY <1>2, <1>p, <2>1 DEF Window
  <2>3. Reachable'
    <3> SUFFICES ASSUME NEW p \in Pools, NEW i \in Ids,
                        queue'[<<p, i>>] # None
                 PROVE  first[p] <= i /\ i <= next'[p]
      BY <1>2 DEF Reachable
    <3>1. <<p, i>> \in Jobs /\ i \in Nat BY DEF Jobs, Ids
    <3>2. CASE queue[<<p, i>>] # None
      <4>1. first[p] <= i /\ i <= next[p] BY <3>2 DEF IdsOK, Reachable
      <4> QED BY <1>2, <2>1, <3>1, <4>1
    <3>3. CASE i = next[p]
      BY <1>2, <1>p, <2>1, <3>3 DEF Window
    <3> QED BY <3>1, <3>2, <3>3, QueueStep
  <2> QED BY <2>2, <2>3
<1>3. ASSUME NEW r \in Procs, BumpNext(r) PROVE first' = first
  BY <1>3, BumpNextEffect
<1> QED BY <1>1, <1>2, <1>3, SeqStep, Writers

\* What a step of r does with the id: keep it, take it from the queue, pick
\* one under the lock or go where none is held.
Keeps(r) == /\ pc[r] \in Holding /\ pc'[r] # "rename"
            /\ UNCHANGED queue
            /\ inv'[r].pool = PoolOf(r) /\ cur'[r].idx = cur[r].idx

Leaves(r) == pc'[r] = "rename" \/ pc'[r] \in Holding => cur'[r].idx = 0

\* Every step of a process does one of the four.
LEMMA HoldStep ==
  ASSUME Typed, NEW r \in Procs, ProcStep(r)
  PROVE  GetLock(r) \/ GetRename(r) \/ Keeps(r) \/ Leaves(r)
<1>p. /\ TypeOK /\ ProcOK(r)
      /\ cur[r] \in Current /\ inv[r] \in Invocation
  BY DEF Typed, TypeOK, LocalsOK
<1>1. Exit(r) => Leaves(r) BY <1>p DEF Exit, Idle, Leaves, Holding, TypeOK
<1>2. ScheduleStep(r) => Leaves(r)
  BY <1>1, <1>p DEF ScheduleStep, ScheduleDuplicate, ScheduleUnknownPool,
    ScheduleAccepted, WriteQueueFile, BumpNext, BlockAgain, BlockReturn,
    ScheduleEnd, Idle, Leaves, Holding, TypeOK
<1>3. CASE Peek(r)
  <2>1. PICK i \in 0..MaxId : cur' = [cur EXCEPT ![r] = Fresh(i, 0, "peek")]
    BY <1>3 DEF Peek
  <2>2. cur'[r].idx = 0 BY <2>1, <1>p DEF Fresh, TypeOK
  <2> QED BY <2>2 DEF Leaves
<1>4. CASE ReadMissing(r) \/ GetMissing(r) \/ WriteNowhere(r)
  BY <1>4, <1>1 DEF ReadMissing, GetMissing, WriteNowhere
<1>5. CASE SkipJob(r) \/ BookFailed(r) \/ PopenFailed(r) \/ WritePid(r)
  BY <1>5, <1>p
  DEF SkipJob, BookFailed, PopenFailed, WritePid, Dump, Leaves, Holding, TypeOK
<1>6. CASE ReadData(r) \/ CheckExtra(r) \/ CheckDone(r) \/ BookList(r)
           \/ BookMissed(r) \/ GetNothing(r) \/ GetAdvance(r)
  BY <1>6, <1>p DEF ReadData, CheckExtra, CheckDone, BookList, BookMissed,
    GetNothing, GetAdvance, Keeps, Holding, TypeOK, Current
<1>7. CASE BookTake(r)
  <2>1. cur'[r].idx = cur[r].idx BY <1>7, <1>p DEF BookTake, TypeOK, Current
  <2>2. pc'[r] # "rename" BY <1>7, <1>p DEF BookTake, TypeOK
  <2> QED BY <1>7, <2>1, <2>2 DEF BookTake, Keeps, Holding
<1>8. CASE BookDone(r)
  BY <1>8, <1>p DEF BookDone, Keeps, Holding, TypeOK
<1>9. CASE RemoveBooked(r) \/ WriteExec(r) \/ Popen(r)
  BY <1>9, <1>p
  DEF RemoveBooked, WriteExec, Popen, Dump, Keeps, Holding, TypeOK
<1>10. CASE FreeDone(r)
  <2>1. pc'[r] \in {"peek", "drop", "wait"}
    BY <1>10, <1>p DEF FreeDone, Current, TypeOK
  <2> QED BY <2>1 DEF Leaves, Holding
<1>11. ASSUME WaitStep(r), ~FreeDone(r)
       PROVE  Leaves(r)
  <2>1. Exit(r) \/ pc'[r] \in {"link", "free", "peek", "reaped", "blocked"}
    BY <1>11, <1>p DEF WaitStep, FreeCheck, FreeRemoved, FreeSymlink, FreeLink,
      FreeExists, DropExec, CommandOver, RemoveExec, Reap, RunDone,
      BlockedRunDone, TypeOK
  <2> QED BY <1>1, <2>1 DEF Leaves, Holding
<1> QED BY <1>2, <1>3, <1>4, <1>5, <1>6, <1>7, <1>8, <1>9, <1>10, <1>11
    DEF ProcStep, BookStep, LaunchStep

\* The two conjuncts of Consumed for one process.
ConsumedBy(r) ==
  /\ pc[r] = "rename" => cur[r].idx < next[PoolOf(r)]
  /\ pc[r] \in Holding /\ cur[r].idx # 0 =>
       cur[r].idx < next[PoolOf(r)] /\ queue[Job(r)] = None

\* The bounds as numbers.
LEMMA NextGrows ==
  ASSUME Typed, [Next]_vars, NEW p \in Pools
  PROVE  /\ next'[p] >= next[p]
         /\ next[p] \in Nat /\ next'[p] \in Nat
<1>1. next'[p] >= next[p] BY SeqStep
<1>2. TypeOK /\ TypeOK' BY NextTyped DEF Typed
<1> QED BY <1>1, <1>2 DEF TypeOK

\* An id is a number.
LEMMA IdxType == ASSUME Typed, NEW r \in Procs PROVE cur[r].idx \in Nat
BY DEF Typed, TypeOK, Current

\* A process that stays where it is keeps its id: another would have to queue
\* a job below next.
LEMMA ConsumedFrame ==
  ASSUME Typed, IdsOK, [Next]_vars, NEW s \in Procs,
         pc'[s] = pc[s], inv'[s] = inv[s], cur'[s] = cur[s]
  PROVE  ConsumedBy(s)'
<1>1. ConsumedBy(s) BY DEF IdsOK, Consumed, ConsumedBy
<1>0. ASSUME ~(\/ pc[s] = "rename"
               \/ pc[s] \in Holding /\ cur[s].idx # 0)
      PROVE  ConsumedBy(s)'
  <2>1. pc'[s] # "rename" BY <1>0
  <2>2. ~(pc'[s] \in Holding /\ cur'[s].idx # 0) BY <1>0
  <2> QED BY <2>1, <2>2 DEF ConsumedBy
<1> SUFFICES ASSUME \/ pc[s] = "rename"
                    \/ pc[s] \in Holding /\ cur[s].idx # 0
             PROVE  ConsumedBy(s)'
  BY <1>0
<1>2. PoolOf(s) \in Pools /\ Job(s) \in Jobs
  BY JobType DEF Typed, LocalsOK, ProcOK, Holding
<1>3. /\ next'[PoolOf(s)] >= next[PoolOf(s)]
      /\ next[PoolOf(s)] \in Nat /\ next'[PoolOf(s)] \in Nat
      /\ cur[s].idx \in Nat
  BY <1>2, NextGrows, IdxType
<1>4. cur[s].idx < next[PoolOf(s)] BY <1>1 DEF ConsumedBy
<1>5. cur[s].idx < next'[PoolOf(s)] BY <1>3, <1>4
<1>6. queue[Job(s)] = None => queue'[Job(s)] = None
  BY <1>2, <1>3, <1>4, QueueStep DEF Job
<1> QED BY <1>1, <1>5, <1>6 DEF ConsumedBy, Job

\* A consumed id stays consumed.
LEMMA ConsumedStep ==
  ASSUME Typed, IdsOK, [Next]_vars
  PROVE  Consumed'
<1> SUFFICES ASSUME NEW s \in Procs PROVE ConsumedBy(s)'
  BY DEF Consumed, ConsumedBy
<1>p. TypeOK /\ Consumed /\ Typed' BY NextTyped DEF Typed, IdsOK
<1>1. ASSUME ProcStep(s) PROVE ConsumedBy(s)'
  <2>1. CASE GetLock(s)
    <3>1. PICK i \in Ids :
            /\ Picks(PoolOf(s), i)
            /\ cur' = [cur EXCEPT ![s] =
                 [data |-> cur[s].data, peek |-> cur[s].peek, idx |-> i,
                  first |-> first[PoolOf(s)], next |-> next[PoolOf(s)],
                  res |-> cur[s].res, after |-> cur[s].after]]
      BY <2>1 DEF GetLock
    <3>2. i < next[PoolOf(s)] BY <3>1 DEF Picks, Candidates, Ids
    <3>3. pc'[s] = "rename" /\ cur'[s].idx = i /\ UNCHANGED <<inv, next>>
      BY <2>1, <3>1, <1>p DEF GetLock, TypeOK
    <3> QED BY <3>2, <3>3 DEF ConsumedBy, Holding
  <2>2. CASE GetRename(s)
    <3>1. Job(s) \in Jobs
      BY <2>2, <1>p, JobType
      DEF GetRename, Typed, LocalsOK, ProcOK
    <3>2. queue'[Job(s)] = None BY <2>2, <3>1, <1>p DEF GetRename, TypeOK
    <3>3. /\ UNCHANGED <<cur, inv, next>> /\ pc'[s] # "rename"
          /\ cur[s].idx < next[PoolOf(s)]
      BY <2>2, <1>p DEF GetRename, Consumed, TypeOK
    <3> QED BY <3>2, <3>3 DEF ConsumedBy, Job
  <2>3. CASE Keeps(s)
    <3>1. CASE cur[s].idx = 0 BY <2>3, <3>1 DEF Keeps, ConsumedBy
    <3>2. CASE cur[s].idx # 0
      <4>1. cur[s].idx < next[PoolOf(s)] /\ queue[Job(s)] = None
        BY <2>3, <3>2, <1>p DEF Keeps, Consumed
      <4>2. PoolOf(s) \in Pools
        BY <2>3 DEF Keeps, Holding, Typed, LocalsOK, ProcOK
      <4>3. /\ next'[PoolOf(s)] >= next[PoolOf(s)]
            /\ next[PoolOf(s)] \in Nat /\ next'[PoolOf(s)] \in Nat
            /\ cur[s].idx \in Nat
        BY <4>2, NextGrows, IdxType
      <4>4. cur[s].idx < next'[PoolOf(s)] BY <4>1, <4>3
      <4> QED BY <2>3, <4>1, <4>4 DEF Keeps, ConsumedBy, Job
    <3> QED BY <3>1, <3>2
  <2>4. CASE Leaves(s)
    <3>1. CASE pc'[s] = "rename"
      BY <1>p, <2>4, <3>1 DEF Leaves, Typed, LocalsOK, ProcOK
    <3>2. CASE pc'[s] # "rename" BY <2>4, <3>2 DEF Leaves, ConsumedBy
    <3> QED BY <3>1, <3>2
  <2> QED BY <1>1, <2>1, <2>2, <2>3, <2>4, HoldStep
<1>2. ASSUME NEW r \in Procs, r # s, ProcStep(r) PROVE ConsumedBy(s)'
  BY <1>2, ConsumedFrame, ProcLocal DEF Local, Others
<1>3. ASSUME pc'[s] \in {"idle", "peek", "dup"} PROVE ConsumedBy(s)'
  BY <1>3 DEF ConsumedBy, Holding
<1>4. ASSUME NEW r \in Procs,
             \/ \E p \in RunPools : StartRun(r, p)
             \/ \E q \in Requests : ScheduleLock(r, q)
             \/ Die(r)
      PROVE  ConsumedBy(s)'
  <2>1. CASE r = s
    BY <1>4, <2>1, <1>3, <1>p
    DEF StartRun, ScheduleLock, Die, Exit, Idle, TypeOK
  <2>2. CASE r # s
    <3>1. pc'[s] = pc[s] /\ inv'[s] = inv[s] /\ cur'[s] = cur[s]
      BY <1>4, <2>2, <1>p
      DEF StartRun, ScheduleLock, Begin, Die, Exit, Idle, TypeOK
    <3> QED BY <3>1, ConsumedFrame
  <2> QED BY <2>1, <2>2
<1>5. CASE \/ \E c \in Jobs : ChildExit(c) \/ Unschedule(c)
           \/ \E x \in Removals : RemoveLink(x) \/ RemoveResource(x)
           \/ UNCHANGED vars
  BY <1>5, ConsumedFrame DEF ChildExit, Unschedule, UnscheduleQueued,
    UnscheduleKill, UnscheduleKilled, UnscheduleTimeout, RemoveLink,
    RemoveResource, procVars, vars
<1> QED BY <1>1, <1>2, <1>4, <1>5 DEF Next

\* The invariant of the ids is inductive.
LEMMA IdsStep == Typed /\ IdsOK /\ [Next]_vars => IdsOK'
BY UntouchedStep, FreshStep, WindowStep, ConsumedStep DEF IdsOK

\* The window, the queue files and the consumed ids agree in every state.
LEMMA IdsCorrect == Spec => []IdsOK
<1>1. Init => IdsOK
  <2> SUFFICES ASSUME Init PROVE IdsOK
    OBVIOUS
  <2>1. Reachable /\ QueuedIsFresh /\ Window
    BY DEF Init, Reachable, QueuedIsFresh, Window, Jobs
  <2>2. Untouched BY DEF Init, Untouched, NoChild
  <2>3. Consumed BY DEF Init, Consumed, Holding
  <2> QED BY <2>1, <2>2, <2>3 DEF IdsOK
<1> QED BY <1>1, InitTyped, NextTyped, IdsStep, PTL DEF Spec

\* No queued submission is out of the window that the runners scan.
THEOREM ReachableCorrect == Spec => []Reachable
BY IdsCorrect, PTL DEF IdsOK

\* No id is queued again once it has been consumed or run.
THEOREM FreshCorrect == Spec => []QueuedIsFresh
BY IdsCorrect, PTL DEF IdsOK
=============================================================================
