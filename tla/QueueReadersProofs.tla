------------------------- MODULE QueueReadersProofs -------------------------
(***************************************************************************)
(* Proofs about QueueReaders: what list, search and searchdir print is     *)
(* true of the queue, whatever runs while they read it.                    *)
(***************************************************************************)
EXTENDS QueueReaders, DciQueueLeaseProofs

USE ConstantsAssumption, SubsAssumption, RequestsAssumption
USE DEF Step, PoolOf, Scheduling, Launching, treeVars, dirVars, seqVars,
        localVars, userVars

-----------------------------------------------------------------------------
(* A job that has no file any more never has one again.                    *)

\* Nothing removes the .exec file of a command whose pid is not in it yet: the
\* command is still a child of the runner that records it, and what has been
\* waited for has gone.
Launched ==
  \A r \in Procs :
    /\ pc[r] = "pid" => /\ exec[Job(r)] # None
                        /\ child[Job(r)].by = r
                        /\ child[Job(r)].st \in Alive
    /\ pc[r] = "reaped" => child[Job(r)].st = "gone"

\* What is proved of DciQueue and the proofs below use.
Queue == Typed /\ IdsOK /\ Owned /\ Parents

\* Who owns the id of a job at each control point.
LEMMA Owners ==
  ASSUME Queue, NEW r \in Procs
  PROVE  /\ pc[r] \in {"popen", "pid", "drop", "reaped"} => cur[r].idx # 0
         /\ pc[r] \in {"write", "popen", "drop"} /\ cur[r].idx # 0 => Owns(r)
         /\ Owns(r) => exec[Job(r)] # None /\ child[Job(r)].st = "none"
         /\ pc[r] \in {"popen", "pid", "drop", "reaped", "rename"} =>
              Job(r) \in Jobs
BY JobType DEF Queue, Owned, Owns, Holding, Typed, LocalsOK, ProcOK

\* The .exec file of a job comes from its queue file, and from nothing else.
LEMMA ExecOf ==
  ASSUME Queue, Launched, [Next]_vars, NEW c \in Jobs,
         exec[c] = None, exec'[c] # None
  PROVE  queue[c] # None /\ queue'[c] = None /\ exec'[c].sub = queue[c]
<1>p. Typed /\ TypeOK
  BY DEF Queue, Typed
<1>1. ASSUME NEW r \in Procs, GetRename(r), c = Job(r)
      PROVE  queue[c] # None /\ queue'[c] = None /\ exec'[c].sub = queue[c]
  BY <1>1, <1>p DEF GetRename, TypeOK
<1>2. ASSUME NEW r \in Procs, WriteExec(r), c = Job(r) PROVE FALSE
  BY <1>2, Owners DEF WriteExec
<1>3. ASSUME NEW r \in Procs, WritePid(r), c = Job(r) PROVE FALSE
  BY <1>3 DEF WritePid, Launched
<1>4. ASSUME NEW r \in Procs, DropExec(r) \/ CommandOver(r), c = Job(r)
      PROVE  FALSE
  BY <1>4, <1>p DEF DropExec, CommandOver, RemoveExec, TypeOK
<1>5. ~UnscheduleKilled(c)
  BY <1>p DEF UnscheduleKilled, TypeOK
<1> QED BY <1>1, <1>2, <1>3, <1>4, <1>5, <1>p, ExecStep

\* Between the start of a command and its pid its .exec file stays.
LEMMA LaunchedFile ==
  ASSUME Queue, Launched, [Next]_vars, NEW r \in Procs,
         pc[r] \in {"popen", "pid"}, Still(r)
  PROVE  exec'[Job(r)] = exec[Job(r)] /\ exec[Job(r)] # None
<1> DEFINE c == Job(r)
<1>p. Typed /\ TypeOK /\ c \in Jobs
  BY Owners DEF Queue, Typed
<1>a. Alive = {"running", "zombie"}
  BY DEF Alive
<1>s. /\ exec[c] # None
      /\ pc[r] = "popen" => Owns(r) /\ child[c].st = "none"
      /\ pc[r] = "pid" => child[c].by = r /\ child[c].st \in Alive
  BY Owners DEF Launched
<1> SUFFICES ASSUME exec'[c] # exec[c]
             PROVE  FALSE
  BY <1>s
<1>1. ASSUME NEW s \in Procs, GetRename(s), c = Job(s) PROVE FALSE
  BY <1>p, <1>1, <1>s DEF GetRename, Queue, IdsOK, QueuedIsFresh
<1>2. ASSUME NEW s \in Procs, WriteExec(s) \/ DropExec(s), c = Job(s)
      PROVE  FALSE
  <2>1. Owns(s) /\ child[c].st = "none" /\ s # r
    BY <1>2, Owners DEF WriteExec, DropExec
  <2> QED BY <1>2, <1>a, <1>s, <2>1 DEF Queue, Owned
<1>3. ASSUME NEW s \in Procs, WritePid(s), c = Job(s) PROVE FALSE
  <2>1. s # r
    BY <1>3, <1>p DEF WritePid, Still, TypeOK
  <2>2. child[c].by = s /\ child[c].st \in Alive
    BY <1>3 DEF WritePid, Launched
  <2> QED BY <1>a, <1>s, <2>1, <2>2
<1>4. ASSUME NEW s \in Procs, CommandOver(s), c = Job(s) PROVE FALSE
  <2>1. child[c].st = "gone"
    BY <1>4 DEF CommandOver, Launched
  <2> QED BY <1>a, <1>s, <2>1
<1>5. ~UnscheduleKilled(c)
  BY <1>a, <1>s DEF UnscheduleKilled
<1> QED BY <1>p, <1>1, <1>2, <1>3, <1>4, <1>5, ExecStep

\* A command that runs loses its parent by the parent's own step only.
LEMMA ParentKept ==
  ASSUME Queue, [Next]_vars, NEW r \in Procs, NEW c \in Jobs, Still(r),
         pc[r] = "pid", child[c].by = r, child[c].st \in Alive
  PROVE  child'[c].by = r /\ child'[c].st \in Alive
<1>p. Typed /\ TypeOK /\ child[c] \in Child
  BY DEF Queue, Typed, TypeOK
<1>1. ASSUME NEW s \in Procs, Popen(s) PROVE child'[c] = child[c]
  <2>1. child[Job(s)].st = "none"
    BY <1>1, Owners DEF Popen
  <2>2. c # Job(s)
    BY <2>1 DEF Alive
  <2> QED BY <1>1, <1>p, <2>2 DEF Popen, TypeOK
<1>2. ASSUME NEW s \in Procs, Exit(s) PROVE child'[c] = child[c]
  <2>1. pc'[s] = "idle"
    BY <1>2, <1>p DEF Exit, Idle, TypeOK
  <2>2. s # r
    BY <2>1 DEF Still
  <2> QED BY <1>2, <2>2 DEF Exit
<1>3. ASSUME NEW s \in Procs, Reap(s) PROVE child'[c] = child[c]
  <2>1. pc[s] = "wait" /\ s # r
    BY <1>3 DEF Reap
  <2>2. PICK d \in Commands(s) :
          child' = [child EXCEPT ![d] = [child[d] EXCEPT !.st = "gone",
                                                         !.by = None]]
    BY <1>3 DEF Reap
  <2>3. d # c
    BY <2>1 DEF Commands
  <2> QED BY <1>p, <2>2, <2>3 DEF TypeOK
<1>4. ASSUME NEW d \in Jobs, ChildExit(d)
      PROVE  child'[c].by = r /\ child'[c].st \in Alive
  <2>1. r # None
    OBVIOUS
  <2>2. child' = [child EXCEPT ![d].st =
                    IF child[d].by = None THEN "gone" ELSE "zombie"]
    BY <1>4 DEF ChildExit
  <2> QED BY <1>p, <2>1, <2>2 DEF Alive, TypeOK, Child
<1> QED BY <1>1, <1>2, <1>3, <1>4, ChildWriters

\* The runner that is about to record its command keeps it.
LEMMA LaunchedStep ==
  ASSUME Queue, Launched, [Next]_vars
  PROVE  Launched'
<1>p. Typed /\ TypeOK /\ LocalsOK /\ IdsOK /\ Parents
  BY DEF Queue, Typed
<1> SUFFICES ASSUME NEW r \in Procs, pc'[r] \in {"pid", "reaped"}
             PROVE  /\ pc'[r] = "pid" => /\ exec'[Job(r)'] # None
                                         /\ child'[Job(r)'].by = r
                                         /\ child'[Job(r)'].st \in Alive
                    /\ pc'[r] = "reaped" => child'[Job(r)'].st = "gone"
  BY DEF Launched
<1>1. CASE Still(r)
  <2>1. pc'[r] = pc[r] /\ Job(r)' = Job(r) /\ Job(r) \in Jobs
    BY <1>1, Owners DEF Still, Job
  <2>2. CASE pc[r] = "pid"
    BY <1>1, <2>1, <2>2, LaunchedFile, ParentKept DEF Launched
  <2>3. CASE pc[r] = "reaped"
    <3>1. child[Job(r)].st = "gone"
      BY <2>3 DEF Launched
    <3>2. ASSUME NEW s \in Procs, Popen(s), Job(s) = Job(r) PROVE FALSE
      BY <3>1, <3>2, Owners DEF Popen
    <3>3. child'[Job(r)].st = "gone"
      BY <1>p, <2>1, <3>1, <3>2, ChildStep DEF Onward, Alive
    <3> QED BY <2>1, <2>3, <3>3
  <2> QED BY <2>1, <2>2, <2>3
<1>2. CASE \/ \E p \in RunPools : StartRun(r, p)
           \/ \E q \in Requests : ScheduleLock(r, q)
           \/ Die(r)
  BY <1>2, <1>p DEF StartRun, ScheduleLock, Die, Exit, Idle, TypeOK
<1>3. CASE Popen(r)
  <2>1. Job(r) \in Jobs /\ Job(r)' = Job(r) /\ pc'[r] = "pid"
    BY <1>3, <1>p, Owners DEF Popen, Job, TypeOK
  <2>2. child'[Job(r)].st = "running" /\ child'[Job(r)].by = r
    BY <1>3, <1>p, <2>1 DEF Popen, TypeOK
  <2>3. exec'[Job(r)] # None
    <3>1. exec' = exec /\ pc[r] = "popen"
      BY <1>3 DEF Popen
    <3> QED BY <3>1, Owners
  <2> QED BY <2>1, <2>2, <2>3 DEF Alive
<1>4. CASE Reap(r)
  <2>1. pc'[r] = "reaped"
    BY <1>4, <1>p DEF Reap, TypeOK
  <2> QED BY <1>4, <1>p, <2>1, ReapEffect
<1> QED BY <1>1, <1>2, <1>3, <1>4, <1>p, CommandTurn, Turns

\* Once it has been started, a command is in its .exec file.
Recorded ==
  \A r \in Procs : pc[r] \in {"popen", "pid"} => exec[Job(r)].sub = cur[r].data

\* What a command was started with stays in its .exec file.
LEMMA RecordedStep ==
  ASSUME Queue, Launched, Recorded, [Next]_vars
  PROVE  Recorded'
<1>p. Typed /\ TypeOK
  BY DEF Queue, Typed
<1> SUFFICES ASSUME NEW r \in Procs, pc'[r] \in {"popen", "pid"}
             PROVE  exec'[Job(r)'].sub = cur'[r].data
  BY DEF Recorded
<1>1. CASE Still(r)
  <2>1. pc'[r] = pc[r] /\ cur'[r] = cur[r] /\ Job(r)' = Job(r)
    BY <1>1 DEF Still, Job
  <2> QED BY <1>1, <2>1, LaunchedFile DEF Recorded
<1>2. CASE \/ \E p \in RunPools : StartRun(r, p)
           \/ \E q \in Requests : ScheduleLock(r, q)
           \/ Die(r)
  BY <1>2, <1>p DEF StartRun, ScheduleLock, Die, Exit, Idle, TypeOK
<1>3. CASE Popen(r)
  <2>1. exec' = exec /\ pc[r] = "popen" /\ cur' = cur /\ Job(r)' = Job(r)
    BY <1>3 DEF Popen, Job
  <2> QED BY <2>1 DEF Recorded
<1>4. CASE WriteExec(r)
  <2>1. /\ Job(r)' = Job(r) /\ cur' = cur /\ pc[r] = "write" /\ cur[r].idx # 0
        /\ exec' = [exec EXCEPT ![Job(r)] =
                      [sub |-> cur[r].data, res |-> cur[r].res, pid |-> FALSE]]
    BY <1>4 DEF WriteExec, Dump, Job
  <2>2. Job(r) \in Jobs
    BY <1>p, <2>1, JobType DEF Typed
  <2> QED BY <1>p, <2>1, <2>2 DEF TypeOK
<1>5. CASE Reap(r)
  BY <1>5, <1>p DEF Reap, TypeOK
<1> QED BY <1>1, <1>2, <1>3, <1>4, <1>5, <1>p, CommandTurn, PopenTurn, Turns

\* Somebody has consumed job c and has not written yet what it peeked.
Written == {"popen", "drop", "free", "link"}
Unwritten(c) ==
  \E r \in Procs : Owns(r) /\ Job(r) = c /\ pc[r] \notin Written

\* The command in an .exec file only changes when its runner writes there what
\* it peeked; nobody writes there again.
LEMMA CommandMoves ==
  ASSUME Queue, Launched, Recorded, [Next]_vars, NEW c \in Jobs,
         exec[c] # None, exec'[c] # None, exec'[c].sub # exec[c].sub
  PROVE  Unwritten(c) /\ (Owned' => ~Unwritten(c)')
<1>p. Typed /\ TypeOK
  BY DEF Queue, Typed
<1>1. ASSUME NEW r \in Procs, GetRename(r), c = Job(r) PROVE FALSE
  BY <1>1 DEF GetRename, Queue, IdsOK, QueuedIsFresh
<1>2. ASSUME NEW r \in Procs, WriteExec(r), c = Job(r)
      PROVE  Unwritten(c) /\ (Owned' => ~Unwritten(c)')
  <2>1. Owns(r) /\ pc[r] = "write"
    BY <1>2, Owners DEF WriteExec
  <2>2. Unwritten(c)
    BY <1>2, <2>1 DEF Unwritten, Written
  <2>3. pc'[r] = "popen" /\ cur' = cur /\ inv' = inv
    BY <1>2, <1>p DEF WriteExec, Dump, TypeOK
  <2>4. Owns(r)' /\ Job(r)' = c
    BY <1>2, <2>1, <2>3 DEF Owns, Job, Holding
  <2>5. Owned' => ~Unwritten(c)'
    BY <2>3, <2>4 DEF Owned, Unwritten, Written
  <2> QED BY <2>2, <2>5
<1>3. ASSUME NEW r \in Procs, WritePid(r), c = Job(r) PROVE FALSE
  <2>1. exec'[c].sub = cur[r].data
    BY <1>3, <1>p DEF WritePid, Dump, TypeOK
  <2>2. exec[c].sub = cur[r].data
    BY <1>3 DEF WritePid, Recorded
  <2> QED BY <2>1, <2>2
<1>4. ASSUME NEW r \in Procs, DropExec(r) \/ CommandOver(r), c = Job(r)
      PROVE  FALSE
  BY <1>4, <1>p DEF DropExec, CommandOver, RemoveExec, TypeOK
<1>5. ~UnscheduleKilled(c)
  BY <1>p DEF UnscheduleKilled, TypeOK
<1> QED BY <1>1, <1>2, <1>3, <1>4, <1>5, <1>p, ExecStep

\* Who has written what it peeked does not write it again.
LEMMA WrittenStays ==
  ASSUME Typed, [Next]_vars, NEW r \in Procs, Owns(r), pc[r] \in Written,
         Owns(r)'
  PROVE  pc'[r] \in Written
<1>p. TypeOK /\ ProcOK(r) BY DEF Typed, LocalsOK
<1>1. CASE Still(r) BY <1>1 DEF Still
<1>2. CASE \/ \E p \in RunPools : StartRun(r, p)
           \/ \E q \in Requests : ScheduleLock(r, q)
           \/ Die(r)
  BY <1>2, <1>p DEF StartRun, ScheduleLock, Die, Exit, Idle, Owns, Holding,
    TypeOK
<1>3. CASE ProcStep(r)
  <2>1. ~ScheduleStep(r) /\ ~BookStep(r)
    BY DEF ScheduleStep, ScheduleDuplicate, ScheduleUnknownPool,
      ScheduleAccepted, WriteQueueFile, BumpNext, BlockAgain, BlockReturn,
      BookStep, Peek, ReadData, ReadMissing, CheckExtra, SkipJob, CheckDone,
      BookList, BookTake, BookMissed, BookFailed, GetLock, GetNothing,
      GetRename, GetMissing, GetAdvance, Written
  <2>2. LaunchStep(r) => pc'[r] \in {"pid", "free"}
    BY <1>p DEF LaunchStep, BookDone, RemoveBooked, WriteExec, WriteNowhere,
      Popen, PopenFailed, WritePid, Written, TypeOK
  <2>3. FreeDone(r) => pc'[r] = "drop"
    BY <1>p DEF FreeDone, Owns, Holding, TypeOK
  <2>4. WaitStep(r) => pc'[r] \in {"free", "link", "drop", "peek", "idle"}
    BY <2>3, <1>p DEF WaitStep, FreeCheck, FreeRemoved, FreeSymlink, FreeLink,
      FreeExists, DropExec, CommandOver, Reap, RunDone, BlockedRunDone, Exit,
      Idle, Written, TypeOK
  <2>5. pc'[r] \notin {"pid", "peek", "idle"}
    BY DEF Owns, Holding
  <2> QED BY <1>3, <2>1, <2>2, <2>4, <2>5 DEF ProcStep, Written
<1> QED BY <1>1, <1>2, <1>3, Turns

\* What is written stays written.
LEMMA WrittenKept ==
  ASSUME Queue, [Next]_vars, NEW c \in Jobs, queue[c] = None, ~Unwritten(c)
  PROVE  ~Unwritten(c)'
<1> SUFFICES ASSUME NEW r \in Procs, Owns(r)', Job(r)' = c,
                    pc'[r] \notin Written
             PROVE  FALSE
  BY DEF Unwritten, Written
<1>p. Typed /\ Owned
  BY DEF Queue
<1>1. CASE GetRename(r)
  <2>1. Job(r)' = Job(r) /\ queue[Job(r)] # None
    BY <1>1 DEF GetRename, Job
  <2> QED BY <2>1
<1>2. CASE Owns(r) /\ Job(r)' = Job(r)
  <2>1. pc[r] \in Written
    BY <1>2 DEF Unwritten
  <2> QED BY <1>2, <1>p, <2>1, WrittenStays
<1> QED BY <1>1, <1>2, <1>p, OwnsStep

\* Every id that is given out is within the bound of the model.
Capped == \A p \in Pools : next[p] <= MaxId + 1

Server == Queue /\ Launched /\ Recorded /\ Capped

\* It is invariant: with it, what a reader may rely on.
LEMMA ServerStep == Server /\ [Next]_vars => Server'
<1> SUFFICES ASSUME Server, [Next]_vars
             PROVE  Server'
  OBVIOUS
<1>1. Queue' /\ Typed /\ Queue /\ Launched
  BY NextTyped, IdsStep, OwnedStep, ParentsStep DEF Server, Queue
<1>2. Capped'
  <2> SUFFICES ASSUME NEW p \in Pools
               PROVE  next'[p] <= MaxId + 1
    BY DEF Capped
  <2>1. next[p] <= MaxId + 1 /\ next \in [Pools -> Nat \ {0}]
    BY <1>1 DEF Server, Capped, Typed, TypeOK
  <2>2. ASSUME NEW r \in Procs, BumpNext(r) PROVE next'[p] <= MaxId + 1
    <3>1. cur[r].idx \in 0..MaxId
      BY <1>1 DEF Typed, TypeOK, Current
    <3> QED BY <1>1, <2>1, <2>2, <3>1, BumpNextEffect
  <2>3. ASSUME NEW r \in Procs, GetAdvance(r) PROVE next' = next
    BY <1>1, <2>3, GetAdvanceEffect
  <2> QED BY <1>1, <2>1, <2>2, <2>3, Writers
<1> QED BY <1>1, <1>2, LaunchedStep, RecordedStep DEF Server

\* What can happen to the files of job i of pool p while somebody reads them.
LEMMA FilesMove ==
  ASSUME Server, [Next]_vars, NEW p \in Pools, NEW i \in Ids
  PROVE  /\ next'[p] >= next[p] /\ next[p] \in Nat /\ next'[p] \in Nat
         /\ i < next[p] => queue'[<<p, i>>] \in {queue[<<p, i>>], None}
         /\ exec[<<p, i>>] = None /\ exec'[<<p, i>>] # None =>
              /\ queue[<<p, i>>] # None /\ queue'[<<p, i>>] = None
              /\ exec'[<<p, i>>].sub = queue[<<p, i>>]
<1>1. <<p, i>> \in Jobs /\ <<p, i>>[1] = p /\ <<p, i>>[2] = i
  BY DEF Jobs
<1>2. Typed /\ Queue /\ Launched
  BY DEF Server, Queue
<1>3. /\ next'[p] >= next[p] /\ next[p] \in Nat /\ next'[p] \in Nat
  BY <1>2, NextGrows
<1>4. i < next[p] => queue'[<<p, i>>] \in {queue[<<p, i>>], None}
  <2>1. i # next[p] => queue'[<<p, i>>] \in {queue[<<p, i>>], None}
    BY <1>1, <1>2, QueueStep
  <2>2. i < next[p] => i # next[p]
    BY <1>3 DEF Ids
  <2> QED BY <2>1, <2>2
<1> QED BY <1>1, <1>2, <1>3, <1>4, ExecOf

\* The files of job i of pool p: the queued one is in the window or at its
\* end, the executed one before it, and there are not both.
LEMMA FilesAre ==
  ASSUME Server, NEW p \in Pools, NEW i \in Ids
  PROVE  /\ queue[<<p, i>>] # None =>
              /\ exec[<<p, i>>] = None /\ first[p] <= i
              /\ queue[<<p, i>>] \in Queueable
              /\ queue[<<p, i>>].priority \in Int
         /\ exec[<<p, i>>] # None =>
              /\ queue[<<p, i>>] = None /\ i < next[p]
              /\ exec[<<p, i>>].sub \in Queueable
         /\ first[p] \in Nat \ {0} /\ next[p] \in Nat
         /\ first[p] <= next[p] /\ next[p] <= MaxId + 1
<1>1. <<p, i>> \in Jobs /\ <<p, i>>[1] = p /\ <<p, i>>[2] = i /\ i \in Nat
  BY DEF Jobs, Ids
<1>2. Typed /\ TypeOK /\ IdsOK /\ Capped
  BY DEF Server, Queue, Typed
<1>3. queue[<<p, i>>] # None =>
        /\ exec[<<p, i>>] = None /\ first[p] <= i
        /\ queue[<<p, i>>] \in Queueable
        /\ queue[<<p, i>>].priority \in Int
  BY <1>1, <1>2, PriorityType DEF TypeOK, IdsOK, QueuedIsFresh, Reachable
<1>4. exec[<<p, i>>] # None =>
        queue[<<p, i>>] = None /\ exec[<<p, i>>].sub \in Queueable
  BY <1>1, <1>2, <1>3 DEF TypeOK, ExecFile
<1>5. first[p] \in Nat \ {0} /\ next[p] \in Nat
  BY <1>2 DEF TypeOK
<1>6. exec[<<p, i>>] # None => i < next[p]
  BY <1>1, <1>2, <1>5 DEF IdsOK, Untouched
<1> QED BY <1>2, <1>3, <1>4, <1>5, <1>6 DEF IdsOK, Window, Capped

-----------------------------------------------------------------------------
(* Sequences of files.                                                     *)

\* The elements of a sequence.
LEMMA Elements ==
  ASSUME NEW S, NEW s \in Seq(S)
  PROVE  \A n \in DOMAIN s : s[n] \in S /\ n \in Nat
OBVIOUS

\* The files that are left after the first.
LEMMA Rest ==
  ASSUME NEW S, NEW s \in Seq(S), s # <<>>
  PROVE  /\ Head(s) = s[1] /\ Head(s) \in S /\ 1 \in DOMAIN s
         /\ Tail(s) \in Seq(S)
         /\ \A n \in DOMAIN Tail(s) : /\ n \in Nat /\ n # 0
                                      /\ n + 1 \in DOMAIN s
                                      /\ Tail(s)[n] = s[n + 1]
         /\ \A n \in DOMAIN s : \/ n = 1
                                \/ /\ n - 1 \in DOMAIN Tail(s)
                                   /\ s[n] = Tail(s)[n - 1]
OBVIOUS

\* A sequence with one more element.
LEMMA Added ==
  ASSUME NEW S, NEW s \in Seq(S), NEW x \in S
  PROVE  /\ Append(s, x) \in Seq(S)
         /\ \A n \in DOMAIN s : /\ n \in DOMAIN Append(s, x)
                                /\ Append(s, x)[n] = s[n]
                                /\ n < Len(s) + 1 /\ n \in Nat
         /\ \A n \in DOMAIN Append(s, x) : n \in DOMAIN s \/ n = Len(s) + 1
         /\ Len(s) + 1 \in DOMAIN Append(s, x) /\ Len(s) \in Nat
         /\ Append(s, x)[Len(s) + 1] = x
OBVIOUS

\* A sequence with another first element.
LEMMA Replaced ==
  ASSUME NEW S, NEW s \in Seq(S), s # <<>>, NEW x \in S
  PROVE  /\ <<x>> \o Tail(s) \in Seq(S)
         /\ DOMAIN (<<x>> \o Tail(s)) = DOMAIN s
         /\ (<<x>> \o Tail(s))[1] = x
         /\ \A n \in DOMAIN s : n # 1 => (<<x>> \o Tail(s))[n] = s[n]
OBVIOUS

FileSet == [dir : {"queue", "exec"}, id : Ids]

\* There are finitely many files.
LEMMA FilesFinite == ASSUME NEW S \in SUBSET FileSet PROVE IsFiniteSet(S)
<1> DEFINE T == {"queue", "exec"} \X Ids
           f == [x \in T |-> File(x[1], x[2])]
<1>1. IsFiniteSet(Ids)
  <2>1. 1 \in Int /\ MaxId \in Int
    OBVIOUS
  <2> QED BY <2>1, FS_Interval DEF Ids
<1>2. IsFiniteSet({"queue", "exec"})
  <2>1. IsFiniteSet({"queue"})
    BY FS_Singleton
  <2>2. IsFiniteSet({"queue"} \cup {"exec"})
    BY <2>1, FS_AddElement
  <2> QED BY <2>2
<1>3. IsFiniteSet(T)
  BY <1>1, <1>2, FS_Product
<1>4. f \in Surjection(T, FileSet)
  <2>1. f \in [T -> FileSet]
    BY DEF File, FileSet
  <2>2. ASSUME NEW y \in FileSet PROVE \E x \in T : f[x] = y
    <3>1. <<y.dir, y.id>> \in T /\ f[<<y.dir, y.id>>] = File(y.dir, y.id)
      BY DEF FileSet
    <3>2. File(y.dir, y.id) = y
      BY DEF File, FileSet
    <3> QED BY <3>1, <3>2
  <2> QED BY <2>1, <2>2 DEF Surjection
<1>5. IsFiniteSet(FileSet)
  BY <1>3, <1>4, FS_Surjection
<1> QED BY <1>5, FS_Subset

\* An order of a set of files names each of them once.
LEMMA OrderOf ==
  ASSUME NEW S \in SUBSET FileSet, NEW s \in Orders(S)
  PROVE  /\ s \in Seq(FileSet)
         /\ \A n \in DOMAIN s : s[n] \in S
         /\ \A m, n \in DOMAIN s : s[m] = s[n] => m = n
         /\ \A x \in S : \E n \in DOMAIN s : s[n] = x
<1>1. Cardinality(S) \in Nat
  BY FilesFinite, FS_CardinalityType
<1> DEFINE D == 1..Cardinality(S)
<1>2. s \in [D -> S]
  BY DEF Orders, Bijection, Injection
<1>3. \A m, n \in D : s[m] = s[n] => m = n
  BY <1>2 DEF Orders, Bijection, Injection, IsInjective
<1>4. \A x \in S : \E n \in D : s[n] = x
  BY DEF Orders, Bijection, Surjection
<1>5. s \in Seq(FileSet)
  BY <1>1, <1>2
<1> QED BY <1>2, <1>3, <1>4, <1>5

-----------------------------------------------------------------------------
(* The reader.                                                             *)

Queued(i) == queue[<<asked.pool, i>>]
Executed(i) == exec[<<asked.pool, i>>]

\* The ids of the files that are left.
Ahead == {todo[n].id : n \in DOMAIN todo}

\* The window has been looked at, and the command has not failed.
Reading ==
  section \in {"start", "exec", "priority", "queued", "search", "searchdir",
               "done"}

\* Where each command can be.
Sections == [list |-> {"seq", "start", "exec", "priority", "queued", "done"},
             search |-> {"seq", "start", "search", "done"},
             searchdir |-> {"dir", "searchdir", "done"}]

Loops == {"exec", "priority", "queued", "search", "searchdir"}

\* What is printed of a file.
Line == [section : Loops, id : Ids, sub : Queueable]

ReaderTyped ==
  /\ asked \in Questions \cup {None}
  /\ asked = None <=> section = ""
  /\ asked # None => section \in Sections[asked.tool] \cup {"failed"}
  /\ section \in {"", "seq", "dir", "start", "searchdir"} => told = <<>>
  /\ section \in {"", "seq", "dir", "start"} => todo = <<>>
  /\ todo \in Seq(FileSet)
  /\ open # None => todo # <<>> /\ open = Head(todo)
  /\ pri \in [Ids -> Int]
  /\ told \in Seq(Line)

\* The window lies behind the end of .seq and what is queued is in it or after.
WindowTrue ==
  Reading =>
    /\ asked \in Questions /\ asked.pool \in Pools
    /\ window.first \in Nat \ {0} /\ window.next \in Nat
    /\ window.first <= window.next
    /\ window.next <= next[asked.pool] /\ window.next <= MaxId + 1
    /\ \A i \in Ids : i < window.first => Queued(i) = None

Reader == ReaderTyped /\ WindowTrue

\* The pool of a command.
LEMMA AskedPool ==
  ASSUME ReaderTyped, section # ""
  PROVE  /\ asked \in Questions /\ asked # None /\ asked.pool \in Pools
         /\ asked.tool \in {"list", "search", "searchdir"}
BY QuestionsAssumption DEF ReaderTyped

\* What a file holds.
LEMMA ContentOf ==
  ASSUME Server, ReaderTyped, section # "", NEW i \in Ids
  PROVE  /\ Content(File("queue", i)) = Queued(i)
         /\ Content(File("exec", i)) = None <=> Executed(i) = None
         /\ Executed(i) # None => Content(File("exec", i)) = Executed(i).sub
         /\ Queued(i) # None => /\ Executed(i) = None
                                /\ Queued(i) \in Queueable
                                /\ Queued(i).priority \in Int
         /\ Executed(i) # None => /\ Queued(i) = None
                                  /\ i < next[asked.pool]
                                  /\ Executed(i).sub \in Queueable
<1>1. asked.pool \in Pools
  BY AskedPool
<1>2. None \notin Queueable
  BY DEF Queueable
<1>3. /\ Queued(i) # None => /\ Executed(i) = None
                             /\ Queued(i) \in Queueable
                             /\ Queued(i).priority \in Int
      /\ Executed(i) # None => /\ Queued(i) = None
                               /\ i < next[asked.pool]
                               /\ Executed(i).sub \in Queueable
  BY <1>1, FilesAre DEF Queued, Executed
<1> QED BY <1>2, <1>3 DEF Content, File, Queued, Executed

\* What a file of a loop holds.
LEMMA ContentType ==
  ASSUME Server, ReaderTyped, section # "", NEW f \in FileSet
  PROVE  /\ f = File(f.dir, f.id) /\ f.id \in Ids /\ f.dir \in {"queue", "exec"}
         /\ Content(f) # None => Content(f) \in Queueable
                                 /\ Content(f).priority \in Int
<1>1. f = File(f.dir, f.id) /\ f.id \in Ids /\ f.dir \in {"queue", "exec"}
  BY DEF FileSet, File
<1>2. \A s \in Queueable : s.priority \in Int
  BY DEF Queueable
<1>3. /\ f.dir = "queue" => Content(f) = Queued(f.id)
      /\ f.dir = "exec" => /\ Content(f) = None <=> Executed(f.id) = None
                           /\ Executed(f.id) # None =>
                                Content(f) = Executed(f.id).sub
  BY <1>1, ContentOf
<1>4. /\ Queued(f.id) # None => Queued(f.id) \in Queueable
      /\ Executed(f.id) # None => Executed(f.id).sub \in Queueable
  BY <1>1, ContentOf
<1> QED BY <1>1, <1>2, <1>3, <1>4

\* The files of the window.
LEMMA WindowFiles ==
  ASSUME WindowTrue, Reading, NEW dir \in {"queue", "exec"}
  PROVE  /\ InWindow(dir) \in Seq(FileSet)
         /\ \A n \in DOMAIN InWindow(dir) : /\ InWindow(dir)[n].dir = dir
                                            /\ Inside(InWindow(dir)[n].id)
         /\ \A i \in Ids : Inside(i) =>
              \E n \in DOMAIN InWindow(dir) : InWindow(dir)[n] = File(dir, i)
<1>1. /\ window.first \in Nat \ {0} /\ window.next \in Nat
      /\ window.first <= window.next /\ window.next <= MaxId + 1
  BY DEF WindowTrue
<1> DEFINE w == window.next - window.first
<1>2. /\ w \in Nat /\ DOMAIN InWindow(dir) = 1..w
      /\ \A n \in 1..w :
           InWindow(dir)[n] = File(dir, window.first + n - 1)
  BY <1>1 DEF InWindow
<1>3. \A n \in 1..w : window.first + n - 1 \in Ids
  BY <1>1 DEF Ids
<1>4. \A n \in 1..w : File(dir, window.first + n - 1) \in FileSet
  BY <1>3 DEF File, FileSet
<1>5. InWindow(dir) \in Seq(FileSet)
  BY <1>2, <1>4 DEF InWindow
<1>6. \A n \in 1..w : /\ InWindow(dir)[n].dir = dir
                      /\ Inside(InWindow(dir)[n].id)
  <2>1. \A n \in 1..w : /\ InWindow(dir)[n].dir = dir
                        /\ InWindow(dir)[n].id = window.first + n - 1
    BY <1>2 DEF File
  <2>2. \A n \in 1..w : /\ window.first <= window.first + n - 1
                        /\ window.first + n - 1 < window.next
    BY <1>1
  <2> QED BY <2>1, <2>2 DEF Inside
<1>7. ASSUME NEW i \in Ids, Inside(i)
      PROVE  \E n \in 1..w : InWindow(dir)[n] = File(dir, i)
  <2>1. i \in Nat /\ window.first <= i /\ i < window.next
    BY <1>7 DEF Inside, Ids
  <2>2. i - window.first + 1 \in 1..w
        /\ window.first + (i - window.first + 1) - 1 = i
    BY <1>1, <2>1
  <2> QED BY <1>2, <2>2
<1> QED BY <1>2, <1>5, <1>6, <1>7

\* A directory that is listed has all its files in the list, each once.
LEMMA ListedFiles ==
  ASSUME NEW dirs \in SUBSET {"queue", "exec"}, NEW s \in Orders(Listing(dirs))
  PROVE  /\ s \in Seq(FileSet)
         /\ \A n \in DOMAIN s : s[n].dir \in dirs /\ Content(s[n]) # None
         /\ \A m, n \in DOMAIN s : s[m] = s[n] => m = n
         /\ \A d \in dirs, i \in Ids : Content(File(d, i)) # None =>
              \E n \in DOMAIN s : s[n] = File(d, i)
<1>1. Listing(dirs) \in SUBSET FileSet
  BY DEF Listing, File, FileSet
<1>2. \A f \in Listing(dirs) : f.dir \in dirs /\ Content(f) # None
  BY DEF Listing, File
<1>3. \A d \in dirs, i \in Ids : Content(File(d, i)) # None =>
        File(d, i) \in Listing(dirs)
  BY DEF Listing
<1> QED BY <1>1, <1>2, <1>3, OrderOf

\* The queued files of the window, as they are displayed.
LEMMA SortedFiles ==
  ASSUME NEW s \in ByPriority
  PROVE  /\ s \in Seq(FileSet)
         /\ \A n \in DOMAIN s : s[n].dir = "queue" /\ Inside(s[n].id)
         /\ \A m, n \in DOMAIN s : m < n => Sooner(s[m].id, s[n].id)
         /\ \A i \in Ids : Inside(i) =>
              \E n \in DOMAIN s : s[n] = File("queue", i)
<1> DEFINE W == {File("queue", i) : i \in {k \in Ids : Inside(k)}}
<1>1. W \in SUBSET FileSet
  BY DEF File, FileSet
<1>2. \A f \in W : f.dir = "queue" /\ Inside(f.id)
  BY DEF File
<1>3. \A i \in Ids : Inside(i) => File("queue", i) \in W
  OBVIOUS
<1>4. s \in Orders(W) /\ \A m, n \in DOMAIN s : m < n => Sooner(s[m].id, s[n].id)
  BY DEF ByPriority
<1> HIDE DEF W
<1> QED BY <1>1, <1>2, <1>3, <1>4, OrderOf

\* Every loop goes through files.
LEMMA LoopFiles ==
  ASSUME WindowTrue, Reading, NEW s \in Files("exec") \cup Files("priority")
           \cup Files("queued") \cup Files("search") \cup Files("searchdir")
           \cup Files("done")
  PROVE  s \in Seq(FileSet)
<1>1. /\ Files("exec") = Orders(Listing({"exec"}))
      /\ Files("priority") = {InWindow("queue")}
      /\ Files("queued") = ByPriority
      /\ Files("search") = {InWindow(FirstLook)}
      /\ Files("searchdir") = Orders(Listing({"queue", "exec"}))
      /\ Files("done") = {<<>>}
  BY DEF Files
<1>2. FirstLook \in {"queue", "exec"}
  BY DEF FirstLook
<1>3. {"exec"} \in SUBSET {"queue", "exec"}
      /\ {"queue", "exec"} \in SUBSET {"queue", "exec"}
  OBVIOUS
<1>4. CASE s \in Files("exec") \cup Files("searchdir")
  BY <1>1, <1>3, <1>4, ListedFiles
<1>5. CASE s \in Files("queued")
  BY <1>1, <1>5, SortedFiles
<1>6. CASE s \in Files("priority") \cup Files("search")
  BY <1>1, <1>2, <1>6, WindowFiles
<1>7. CASE s \in Files("done")
  <2>1. s = <<>>
    BY <1>1, <1>7
  <2>2. <<>> \in Seq(FileSet)
    OBVIOUS
  <2> QED BY <2>1, <2>2
<1> QED BY <1>4, <1>5, <1>6, <1>7

\* Where the commands are, one by one.
LEMMA SectionsOf ==
  ASSUME ReaderTyped, section # ""
  PROVE  /\ asked.tool = "list" =>
              /\ section \in {"seq", "start", "exec", "priority", "queued",
                             "done", "failed"}
              /\ Sections[asked.tool] = {"seq", "start", "exec", "priority",
                                        "queued", "done"}
         /\ asked.tool = "search" =>
              /\ section \in {"seq", "start", "search", "done", "failed"}
              /\ Sections[asked.tool] = {"seq", "start", "search", "done"}
         /\ asked.tool = "searchdir" =>
              /\ section \in {"dir", "searchdir", "done", "failed"}
              /\ Sections[asked.tool] = {"dir", "searchdir", "done"}
         /\ asked.tool \in {"list", "search", "searchdir"}
<1>1. /\ Sections["list"] = {"seq", "start", "exec", "priority", "queued", "done"}
      /\ Sections["search"] = {"seq", "start", "search", "done"}
      /\ Sections["searchdir"] = {"dir", "searchdir", "done"}
  BY DEF Sections
<1>2. asked.tool \in {"list", "search", "searchdir"}
  BY AskedPool
<1>3. section \in Sections[asked.tool] \cup {"failed"}
  BY DEF ReaderTyped
<1> QED BY <1>1, <1>2, <1>3

\* What follows each section.
LEMMA AfterEach ==
  /\ After("start") = IF asked.tool = "list" THEN "exec" ELSE "search"
  /\ After("exec") = "priority" /\ After("priority") = "queued"
  /\ After("queued") = "done" /\ After("search") = "done"
  /\ After("searchdir") = "done"
BY DEF After

\* The file that is opened is the first of those that are left.
LEMMA OpenedFirst ==
  ASSUME ReaderTyped, Opening
  PROVE  /\ Opened = Head(todo) /\ Opened = todo[1] /\ Opened \in FileSet
         /\ todo # <<>>
<1>1. todo # <<>> /\ todo \in Seq(FileSet) /\ Opened = Head(todo)
  BY DEF ReaderTyped, Opening, Opened
<1> QED BY <1>1, Rest

\* A line that is printed.
LEMMA LineType ==
  ASSUME Server, ReaderTyped, Opening, section \in Loops,
         Content(Opened) # None
  PROVE  [section |-> section, id |-> Opened.id, sub |-> Content(Opened)] \in Line
<1>1. Opened \in FileSet
  BY OpenedFirst
<1>2. section # ""
  BY DEF Loops
<1> QED BY <1>1, <1>2, ContentType DEF Line

\* The steps of a command keep the types of its locals.
LEMMA ReaderTypedStep ==
  ASSUME Server, Reader, ReaderStep
  PROVE  ReaderTyped'
<1>t. ReaderTyped /\ WindowTrue
  BY DEF Reader
<1>1. ASSUME NEW q \in Questions, Ask(q) PROVE ReaderTyped'
  <2>1. /\ asked = None /\ asked' = q
        /\ section' = IF q.tool = "searchdir" THEN "dir" ELSE "seq"
        /\ UNCHANGED <<todo, open, pri, told>>
    BY <1>1 DEF Ask
  <2>2. q # None /\ q.tool \in {"list", "search", "searchdir"}
    BY QuestionsAssumption
  <2>3. told = <<>> /\ todo = <<>> /\ section = ""
    BY <1>t, <2>1 DEF ReaderTyped
  <2>4. section' \in Sections[q.tool] /\ section' # ""
    BY <2>1, <2>2 DEF Sections
  <2> QED BY <1>t, <2>1, <2>2, <2>3, <2>4 DEF ReaderTyped
<1>2. CASE GetSeq
  <2>1. /\ section = "seq" /\ section' = "start"
        /\ UNCHANGED <<asked, todo, open, pri, told>>
    BY <1>2 DEF GetSeq
  <2>2. section' \in Sections[asked.tool] /\ asked # None
    BY <1>t, <2>1, SectionsOf, AskedPool
  <2>3. told = <<>> /\ todo = <<>>
    BY <1>t, <2>1 DEF ReaderTyped
  <2> QED BY <1>t, <2>1, <2>2, <2>3 DEF ReaderTyped
<1>3. ASSUME section # "", section' \in Sections[asked.tool],
             section' # "", section' \notin {"seq", "dir", "start"},
             section' = "searchdir" => told = <<>>,
             todo' \in Seq(FileSet), open' = None,
             UNCHANGED <<asked, pri, told>>
      PROVE  ReaderTyped'
  BY <1>t, <1>3 DEF ReaderTyped
<1>4. CASE ListDir
  <2>1. /\ section = "dir" /\ section' = "searchdir" /\ open' = None
        /\ todo' \in Orders(Listing({"queue", "exec"}))
        /\ UNCHANGED <<asked, pri, told>>
    BY <1>4 DEF ListDir, Enter, Files
  <2>2. section' \in Sections[asked.tool] /\ told = <<>>
    BY <1>t, <2>1, SectionsOf DEF ReaderTyped
  <2>3. todo' \in Seq(FileSet)
    BY <2>1, ListedFiles
  <2> QED BY <1>3, <2>1, <2>2, <2>3
<1>5. CASE NextSection
  <2>1. /\ section' = After(section) /\ todo' \in Files(section') /\ open' = None
        /\ section \in {"start", "exec", "priority", "queued", "search",
                        "searchdir"}
        /\ UNCHANGED <<asked, pri, told>>
    BY <1>5 DEF NextSection, Enter
  <2>2. section' \in Sections[asked.tool] /\ section' \notin {"start", "searchdir"}
    BY <1>t, <2>1, SectionsOf, AfterEach
  <2>3. Reading
    BY <2>1 DEF Reading
  <2>4. todo' \in Seq(FileSet)
    BY <1>t, <2>1, <2>3, AfterEach, LoopFiles
  <2>5. section' \notin {"", "seq", "dir"}
    BY <2>1, AfterEach
  <2> QED BY <1>3, <2>1, <2>2, <2>4, <2>5
<1>6. CASE Look
  <2>1. todo # <<>> /\ todo \in Seq(FileSet) /\ UNCHANGED <<asked, pri, told>>
    BY <1>6, <1>t DEF Look, ReaderTyped
  <2>2. CASE open' = Head(todo) /\ UNCHANGED <<section, todo>>
    BY <1>t, <2>1, <2>2 DEF ReaderTyped
  <2>3. ASSUME NEW s \in Seq(FileSet), Stay(s) PROVE ReaderTyped'
    BY <1>t, <2>1, <2>3 DEF ReaderTyped, Stay
  <2>4. Tail(todo) \in Seq(FileSet)
    BY <2>1, Rest
  <2>5. File(SecondLook, Head(todo).id) \in FileSet
    <3>0. Head(todo) \in FileSet
      BY <2>1, Rest
    <3>1. Head(todo).id \in Ids
      BY <3>0 DEF FileSet
    <3>2. SecondLook \in {"queue", "exec"}
      BY DEF SecondLook, FirstLook
    <3> QED BY <3>1, <3>2 DEF File, FileSet
  <2>6. <<File(SecondLook, Head(todo).id)>> \o Tail(todo) \in Seq(FileSet)
    BY <2>1, <2>5, Replaced
  <2> QED BY <1>6, <2>2, <2>3, <2>4, <2>6 DEF Look
<1>7. CASE Gone
  <2>1. /\ section' = "failed" /\ todo' = <<>> /\ open' = None
        /\ UNCHANGED <<asked, pri, told>>
    BY <1>7 DEF Gone
  <2>2. <<>> \in Seq(FileSet)
    OBVIOUS
  <2>3. section # ""
    BY <1>7, <1>t DEF Gone, Opening, ReaderTyped
  <2> QED BY <1>t, <2>1, <2>2, <2>3 DEF ReaderTyped
<1>8. ASSUME NEW s \in Seq(FileSet), NEW new \in Seq(Line),
             Stay(s), told' = new, section \notin {"", "seq", "dir", "start"},
             section = "searchdir" => told' = told,
             pri' \in [Ids -> Int], asked' = asked
      PROVE  ReaderTyped'
  BY <1>t, <1>8 DEF ReaderTyped, Stay
<1>9. Opening => Tail(todo) \in Seq(FileSet)
  BY <1>t, Rest DEF ReaderTyped, Opening
<1>10. /\ told \in Seq(Line) /\ <<>> \in Seq(FileSet)
       /\ \A x \in Line : Append(told, x) \in Seq(Line)
  <2>1. told \in Seq(Line)
    BY <1>t DEF ReaderTyped
  <2> QED BY <2>1, Added
<1>11. GetPriority \/ Display \/ Compare =>
         /\ Opening /\ Content(Opened) # None
         /\ GetPriority => section = "priority"
         /\ Display => section \in {"exec", "queued"}
         /\ Compare => section \in {"search", "searchdir"}
  BY DEF Read, GetPriority, Display, Compare
<1>12. section \in Loops /\ Opening /\ Content(Opened) # None =>
         /\ [section |-> section, id |-> Opened.id, sub |-> Content(Opened)]
              \in Line
         /\ Content(Opened).priority \in Int /\ Opened.id \in Ids
  <2> SUFFICES ASSUME section \in Loops, Opening, Content(Opened) # None
               PROVE  /\ [section |-> section, id |-> Opened.id,
                          sub |-> Content(Opened)] \in Line
                      /\ Content(Opened).priority \in Int /\ Opened.id \in Ids
    OBVIOUS
  <2>1. section # "" /\ Opened \in FileSet
    BY <1>t, OpenedFirst DEF Loops
  <2> QED BY <1>t, <2>1, LineType, ContentType
<1>13. CASE GetPriority
  <2>1. Content(Opened).priority \in Int /\ Opened.id \in Ids /\ Opening
        /\ section = "priority"
    BY <1>11, <1>12, <1>13 DEF Loops
  <2>2. /\ pri' = [pri EXCEPT ![Opened.id] = Content(Opened).priority]
        /\ Stay(Tail(todo)) /\ UNCHANGED <<asked, told>>
    BY <1>13 DEF GetPriority
  <2>3. pri' \in [Ids -> Int]
    BY <1>t, <2>1, <2>2 DEF ReaderTyped
  <2> QED BY <1>8, <1>9, <1>10, <2>1, <2>2, <2>3
<1>14. CASE Display
  <2>1. Opening /\ section \in {"exec", "queued"} /\ Content(Opened) # None
    BY <1>11, <1>14
  <2>2. told' \in Seq(Line)
    BY <1>10, <1>12, <1>14, <2>1 DEF Display, Tell, Loops
  <2>3. Stay(Tail(todo)) /\ UNCHANGED <<asked, pri>> /\ pri \in [Ids -> Int]
    BY <1>14, <1>t DEF Display, ReaderTyped
  <2> QED BY <1>8, <1>9, <2>1, <2>2, <2>3
<1>15. CASE Compare
  <2>1. /\ Opening /\ section \in {"search", "searchdir"}
        /\ Content(Opened) # None
    BY <1>11, <1>15
  <2>2. UNCHANGED <<asked, pri>> /\ pri \in [Ids -> Int]
    BY <1>15, <1>t DEF Compare, ReaderTyped
  <2>3. CASE Stay(Tail(todo)) /\ UNCHANGED told
    BY <1>8, <1>9, <1>10, <2>1, <2>2, <2>3
  <2>4. CASE Tell /\ section = "search" /\ Stay(Tail(todo))
    <3>1. told' \in Seq(Line)
      BY <1>10, <1>12, <2>1, <2>4 DEF Tell, Loops
    <3> QED BY <1>8, <1>9, <2>1, <2>2, <2>4, <3>1
  <2>5. CASE Tell /\ Enter("done")
    <3>1. told' \in Seq(Line)
      BY <1>10, <1>12, <2>1, <2>5 DEF Tell, Loops
    <3>2. section' = "done" /\ todo' = <<>> /\ open' = None
      BY <2>5 DEF Enter, Files
    <3>3. section' \in Sections[asked.tool]
      BY <1>t, <2>1, <3>2, SectionsOf
    <3> QED BY <1>t, <1>10, <2>1, <2>2, <3>1, <3>2, <3>3 DEF ReaderTyped
  <2> QED BY <1>15, <2>3, <2>4, <2>5 DEF Compare
<1> QED BY <1>1, <1>2, <1>4, <1>5, <1>6, <1>7, <1>13, <1>14, <1>15
    DEF ReaderStep

\* Only the first look at .seq, or at the directory, sets the window.
LEMMA WindowKept ==
  ASSUME ReaderStep, ~GetSeq, ~ListDir, Reading'
  PROVE  Reading /\ UNCHANGED <<asked, window, vars>>
<1>1. ASSUME NEW q \in Questions, Ask(q) PROVE FALSE
  BY <1>1 DEF Ask, Reading
<1>2. NextSection \/ GetPriority \/ Display \/ Compare =>
        Reading /\ UNCHANGED <<asked, window, vars>>
  BY DEF NextSection, GetPriority, Display, Compare, Read, Reading
<1>3. Look => Reading /\ UNCHANGED <<asked, window, vars>>
  BY DEF Look, Stay, Reading
<1>4. ~Gone
  BY DEF Gone, Reading
<1> QED BY <1>1, <1>2, <1>3, <1>4 DEF ReaderStep

\* The window stays true, whatever is queued and consumed.
LEMMA WindowTrueStep ==
  ASSUME Server, Reader, ReaderStep
  PROVE  WindowTrue'
<1>t. ReaderTyped /\ WindowTrue
  BY DEF Reader
<1> SUFFICES ASSUME Reading'
             PROVE  WindowTrue'
  BY DEF WindowTrue
<1>1. CASE GetSeq \/ ListDir
  <2>1. /\ window' = Seen
        /\ asked' = asked /\ queue' = queue /\ next' = next /\ section # ""
    BY <1>1 DEF GetSeq, ListDir, vars
  <2>2. asked \in Questions /\ asked.pool \in Pools
    BY <1>t, <2>1, AskedPool
  <2>3. /\ window'.first = first[asked.pool] /\ window'.next = next[asked.pool]
    BY <2>1 DEF Seen
  <2>4. /\ first[asked.pool] \in Nat \ {0} /\ next[asked.pool] \in Nat
        /\ first[asked.pool] <= next[asked.pool]
        /\ next[asked.pool] <= MaxId + 1
    BY <2>2 DEF Server, Queue, Typed, TypeOK, IdsOK, Window, Capped
  <2>5. ASSUME NEW i \in Ids, i < first[asked.pool] PROVE Queued(i) = None
    <3>1. Queued(i) # None => first[asked.pool] <= i
      BY <2>2, FilesAre DEF Queued
    <3> QED BY <2>4, <2>5, <3>1 DEF Ids
  <2>6. \A i \in Ids : Queued(i)' = Queued(i)
    BY <2>1 DEF Queued
  <2>7. /\ asked' \in Questions /\ asked'.pool \in Pools
        /\ window'.first \in Nat \ {0} /\ window'.next \in Nat
        /\ window'.first <= window'.next
        /\ window'.next <= next'[asked'.pool] /\ window'.next <= MaxId + 1
    <3>1. asked' = asked /\ next' = next
      BY <2>1
    <3>2. PICK f \in Nat \ {0}, n \in Nat :
            /\ window'.first = f /\ window'.next = n /\ f <= n
            /\ n <= next[asked.pool] /\ n <= MaxId + 1
      BY <2>3, <2>4
    <3> QED BY <2>2, <3>1, <3>2
  <2>8. \A i \in Ids : i < window'.first => Queued(i)' = None
    BY <2>3, <2>5, <2>6
  <2> QED BY <2>7, <2>8 DEF WindowTrue
<1>2. CASE ~GetSeq /\ ~ListDir
  <2>1. Reading /\ UNCHANGED <<asked, window, vars>>
    BY <1>2, WindowKept
  <2>2. \A i \in Ids : Queued(i)' = Queued(i)
    BY <2>1 DEF Queued, vars
  <2>3. next' = next
    BY <2>1 DEF vars
  <2> QED BY <1>t, <2>1, <2>2, <2>3 DEF WindowTrue
<1> QED BY <1>1, <1>2

\* The queue moves under the reader.
LEMMA ReaderServerStep ==
  ASSUME Server, Reader, [Next]_vars, UNCHANGED readerVars
  PROVE  Reader'
<1>t. ReaderTyped /\ WindowTrue
  BY DEF Reader
<1>u. UNCHANGED <<asked, section, window, todo, open, pri, told>>
  BY DEF readerVars, progress
<1>1. ReaderTyped'
  BY <1>t, <1>u DEF ReaderTyped
<1>2. WindowTrue'
  <2> SUFFICES ASSUME Reading
               PROVE  /\ window.next <= next'[asked.pool]
                      /\ \A i \in Ids : i < window.first => Queued(i)' = None
    BY <1>t, <1>u DEF WindowTrue, Reading
  <2>1. /\ asked.pool \in Pools
        /\ window.first \in Nat /\ window.next \in Nat
        /\ window.first <= window.next /\ window.next <= next[asked.pool]
        /\ \A i \in Ids : i < window.first => Queued(i) = None
    BY <1>t DEF WindowTrue
  <2>2. /\ next[asked.pool] \in Nat /\ next'[asked.pool] \in Nat
        /\ next'[asked.pool] >= next[asked.pool]
    BY <2>1, NextGrows DEF Server, Queue
  <2>3. ASSUME NEW i \in Ids, i < window.first PROVE Queued(i)' = None
    <3>1. i < next[asked.pool]
      BY <2>1, <2>2, <2>3 DEF Ids
    <3>2. queue'[<<asked.pool, i>>] \in {queue[<<asked.pool, i>>], None}
      BY <2>1, <3>1, FilesMove
    <3> QED BY <1>u, <2>1, <2>3, <3>2 DEF Queued
  <2> QED BY <2>1, <2>2, <2>3
<1> QED BY <1>1, <1>2 DEF Reader

-----------------------------------------------------------------------------
(* The loops of list.                                                      *)

\* The files of the current loop: each is of one kind, none comes twice, and
\* none has been displayed by this loop.
AllFrom(dir) == \A n \in DOMAIN todo : todo[n].dir = dir
AheadApart == \A m, n \in DOMAIN todo : m < n => todo[m].id # todo[n].id
AheadSorted == \A m, n \in DOMAIN todo : m < n => Sooner(todo[m].id, todo[n].id)
AheadInside == \A n \in DOMAIN todo : Inside(todo[n].id)
ToldApart == \A m \in DOMAIN told, n \in DOMAIN todo : told[m].id # todo[n].id
ToldSooner ==
  \A m \in DOMAIN told, n \in DOMAIN todo :
    told[m].section = "queued" => Sooner(told[m].id, todo[n].id)

ListTodo ==
  /\ section = "exec" => AllFrom("exec") /\ AheadApart /\ ToldApart
  /\ section = "priority" => AllFrom("queue")
  /\ section = "queued" =>
       AllFrom("queue") /\ AheadInside /\ AheadSorted /\ ToldSooner

\* What has been printed: a job that was being executed is not queued any more
\* and will not be, and the queued ones came in order.
LineTrue(n) ==
  /\ told[n].section \in {"exec", "queued"}
  /\ told[n].section = "exec" =>
       told[n].id < next[asked.pool] /\ Queued(told[n].id) = None
  /\ told[n].section = "queued" => /\ section \in {"queued", "done"}
                                   /\ told[n].sub.priority = pri[told[n].id]

LinesApart(m, n) ==
  IF told[m].section = "queued" /\ told[n].section = "queued"
    THEN Sooner(told[m].id, told[n].id)
    ELSE told[m].id # told[n].id

ListTold ==
  /\ \A n \in DOMAIN told : LineTrue(n)
  /\ \A m, n \in DOMAIN told : m < n => LinesApart(m, n)

\* What has not been printed yet is in the files that are left, or it has gone.
ExecSeen(i) ==
  i < window.first /\ Executed(i) # None =>
    \/ section = "start"
    \/ i \in Shown("exec")
    \/ section = "exec" /\ i \in Ahead

QueuedSeen(i) ==
  Inside(i) /\ Queued(i) # None =>
    /\ section = "priority" => pri[i] = Queued(i).priority \/ i \in Ahead
    /\ section = "queued" => /\ pri[i] = Queued(i).priority
                             /\ i \in Shown("queued") \/ i \in Ahead
    /\ section = "done" => i \in Shown("queued")

ListSeen == \A i \in Ids : ExecSeen(i) /\ QueuedSeen(i)

Listed == Reading /\ asked.tool = "list" => ListTodo /\ ListTold /\ ListSeen

\* The files that are left and the lines that are printed are of their types.
LEMMA ElementTypes ==
  ASSUME ReaderTyped
  PROVE  /\ \A n \in DOMAIN todo : todo[n] \in FileSet /\ todo[n].id \in Ids
         /\ \A n \in DOMAIN told : told[n] \in Line /\ told[n].id \in Ids
<1>1. todo \in Seq(FileSet) /\ told \in Seq(Line)
  BY DEF ReaderTyped
<1>2. \A n \in DOMAIN todo : todo[n] \in FileSet
  BY <1>1, Elements
<1>3. \A n \in DOMAIN told : told[n] \in Line
  BY <1>1, Elements
<1>4. \A f \in FileSet : f.id \in Ids
  BY DEF FileSet
<1>5. \A x \in Line : x.id \in Ids
  BY DEF Line
<1> QED BY <1>2, <1>3, <1>4, <1>5

\* What has been shown stays shown.
LEMMA ShownMore ==
  ASSUME told \in Seq(Line), NEW x \in Line, told' = Append(told, x),
         NEW s, NEW i
  PROVE  /\ i \in Shown(s) => i \in Shown(s)'
         /\ x.section = s /\ x.id = i => i \in Shown(s)'
<1>1. /\ \A n \in DOMAIN told : n \in DOMAIN told' /\ told'[n] = told[n]
      /\ Len(told) + 1 \in DOMAIN told' /\ told'[Len(told) + 1] = x
  BY Added
<1> QED BY <1>1 DEF Shown

\* What is ahead is the next file, or stays ahead.
LEMMA AheadRest ==
  ASSUME todo \in Seq(FileSet), todo # <<>>, todo' = Tail(todo),
         NEW i \in Ahead, i # todo[1].id
  PROVE  i \in Ahead'
<1>1. \A n \in DOMAIN todo : \/ n = 1
                             \/ /\ n - 1 \in DOMAIN todo'
                                /\ todo[n] = todo'[n - 1]
  BY Rest
<1>2. PICK n \in DOMAIN todo : todo[n].id = i
  BY DEF Ahead
<1>3. n - 1 \in DOMAIN todo' /\ todo'[n - 1].id = i
  BY <1>1, <1>2
<1> QED BY <1>3 DEF Ahead

\* With no file left nothing is ahead.
LEMMA NothingAhead == todo = <<>> => Ahead = {}
BY DEF Ahead

\* The rest of the files is of the same kind, in the same order.
LEMMA TodoRest ==
  ASSUME todo \in Seq(FileSet), todo # <<>>, todo' = Tail(todo)
  PROVE  /\ \A dir : AllFrom(dir) => AllFrom(dir)'
         /\ AheadApart => AheadApart'
         /\ AheadSorted /\ pri' = pri => AheadSorted'
         /\ AheadInside /\ window' = window => AheadInside'
<1>1. \A n \in DOMAIN todo' : n + 1 \in DOMAIN todo /\ todo'[n] = todo[n + 1]
  BY Rest
<1>2. DOMAIN todo' \subseteq Int
  BY Rest
<1>3. \A m, n \in DOMAIN todo' : m < n => m + 1 < n + 1
  BY <1>2
<1>4. \A dir : AllFrom(dir) => AllFrom(dir)'
  BY <1>1 DEF AllFrom
<1>5. AheadApart => AheadApart'
  BY <1>1, <1>3 DEF AheadApart
<1>6. AheadSorted /\ pri' = pri => AheadSorted'
  BY <1>1, <1>3 DEF AheadSorted, Sooner
<1>7. AheadInside /\ window' = window => AheadInside'
  BY <1>1 DEF AheadInside, Inside
<1> QED BY <1>4, <1>5, <1>6, <1>7

\* The queue moves under list.
LEMMA ListedServerStep ==
  ASSUME Server, Reader, Listed, [Next]_vars, UNCHANGED readerVars
  PROVE  Listed'
<1>t. ReaderTyped /\ WindowTrue
  BY DEF Reader
<1>u. UNCHANGED <<asked, section, window, todo, open, pri, told>>
  BY DEF readerVars, progress
<1> SUFFICES ASSUME Reading, asked.tool = "list"
             PROVE  ListTodo' /\ ListTold' /\ ListSeen'
  BY <1>u DEF Listed, Reading
<1>1. ListTodo /\ ListTold /\ ListSeen
  BY DEF Listed
<1>2. /\ asked.pool \in Pools /\ window.first \in Nat /\ window.next \in Nat
      /\ window.first <= window.next /\ window.next <= next[asked.pool]
      /\ \A i \in Ids : i < window.first => Queued(i) = None
      /\ next[asked.pool] \in Nat /\ next'[asked.pool] \in Nat
      /\ next'[asked.pool] >= next[asked.pool]
  BY <1>t, NextGrows DEF WindowTrue, Server, Queue
<1>3. \A i \in Ids : i < next[asked.pool] => Queued(i)' \in {Queued(i), None}
  BY <1>2, <1>u, FilesMove DEF Queued
<1>4. \A i \in Ids : i < window.first /\ Executed(i)' # None => Executed(i) # None
  BY <1>2, <1>u, FilesMove DEF Queued, Executed
<1>5. ListTodo'
  BY <1>1, <1>u DEF ListTodo, AllFrom, AheadApart, AheadSorted, AheadInside,
    ToldApart, ToldSooner, Sooner, Inside
<1>6. ListTold'
  <2>1. \A m, n \in DOMAIN told : m < n => LinesApart(m, n)'
    BY <1>1, <1>u DEF ListTold, LinesApart, Sooner
  <2>2. ASSUME NEW n \in DOMAIN told PROVE LineTrue(n)'
    <3>1. LineTrue(n) /\ told[n].id \in Ids
      BY <1>1, <1>t, ElementTypes DEF ListTold
    <3>2. told[n].section = "exec" =>
            told[n].id < next'[asked.pool] /\ Queued(told[n].id)' = None
      BY <1>2, <1>3, <1>u, <3>1 DEF LineTrue, Ids
    <3> QED BY <1>u, <3>1, <3>2 DEF LineTrue
  <2> QED BY <1>u, <2>1, <2>2 DEF ListTold
<1>7. ASSUME NEW i \in Ids PROVE ExecSeen(i)' /\ QueuedSeen(i)'
  <2>1. ExecSeen(i) /\ QueuedSeen(i) /\ i \in Nat
    BY <1>1 DEF ListSeen, Ids
  <2>2. ExecSeen(i)'
    BY <1>4, <1>u, <2>1 DEF ExecSeen, Shown, Ahead
  <2>3. Inside(i) /\ Queued(i)' # None => Queued(i)' = Queued(i)
    BY <1>2, <1>3, <2>1 DEF Inside
  <2>4. QueuedSeen(i)'
    BY <1>u, <2>1, <2>3 DEF QueuedSeen, Shown, Ahead, Inside
  <2> QED BY <2>2, <2>4
<1> QED BY <1>5, <1>6, <1>7 DEF ListSeen

\* What the jobs' files are does not change in a step of the reader.
LEMMA SameFiles ==
  ASSUME UNCHANGED <<asked, window, vars>>
  PROVE  /\ next' = next
         /\ \A i : /\ Queued(i)' = Queued(i) /\ Executed(i)' = Executed(i)
                   /\ Inside(i)' <=> Inside(i)
BY DEF Queued, Executed, Inside, vars

\* The loop over the .exec files begins.
LEMMA ListExec ==
  ASSUME Server, Reader, NextSection, section = "start", asked.tool = "list"
  PROVE  ListTodo' /\ ListTold' /\ ListSeen'
<1>t. ReaderTyped /\ told = <<>> /\ told \in Seq(Line)
  BY DEF Reader, ReaderTyped
<1>1. /\ section' = "exec" /\ todo' \in Orders(Listing({"exec"}))
      /\ UNCHANGED <<asked, window, pri, told, vars>>
  BY AfterEach DEF NextSection, Enter, Files
<1>2. {"exec"} \in SUBSET {"queue", "exec"}
  OBVIOUS
<1>3. PICK s \in Orders(Listing({"exec"})) : todo' = s
  BY <1>1
<1>4. /\ s \in Seq(FileSet)
      /\ \A n \in DOMAIN s : s[n].dir = "exec"
      /\ \A m, n \in DOMAIN s : s[m] = s[n] => m = n
      /\ \A i \in Ids : Content(File("exec", i)) # None =>
           \E n \in DOMAIN s : s[n] = File("exec", i)
  BY <1>2, ListedFiles
<1>5. \A m, n \in DOMAIN s : m < n => s[m].id # s[n].id
  <2>1. \A n \in DOMAIN s : s[n] \in FileSet /\ n \in Nat
    BY <1>4, Elements
  <2>2. \A f, g \in FileSet : f.dir = g.dir /\ f.id = g.id => f = g
    BY DEF FileSet
  <2> QED BY <1>4, <2>1, <2>2
<1>6. ListTodo'
  BY <1>1, <1>3, <1>4, <1>5, <1>t
    DEF ListTodo, AllFrom, AheadApart, ToldApart
<1>7. ListTold'
  BY <1>1, <1>t DEF ListTold
<1>8. ASSUME NEW i \in Ids PROVE ExecSeen(i)' /\ QueuedSeen(i)'
  <2>1. Executed(i) # None => i \in Ahead'
    <3>1. Executed(i) # None => Content(File("exec", i)) # None
      BY <1>t, ContentOf
    <3>2. File("exec", i).id = i
      BY DEF File
    <3> QED BY <1>3, <1>4, <3>1, <3>2 DEF Ahead
  <2>2. Executed(i)' = Executed(i)
    BY <1>1, SameFiles
  <2> QED BY <1>1, <2>1, <2>2 DEF ExecSeen, QueuedSeen
<1> QED BY <1>6, <1>7, <1>8 DEF ListSeen

\* The files of a loop are all looked at: the next loop begins.
LEMMA ListNext ==
  ASSUME Server, Reader, Listed, NextSection, asked.tool = "list",
         section \in {"exec", "priority", "queued"}
  PROVE  ListTodo' /\ ListTold' /\ ListSeen'
<1>t. /\ ReaderTyped /\ WindowTrue /\ Reading
      /\ ListTodo /\ ListTold /\ ListSeen
  BY DEF Reader, Listed, Reading
<1>1. /\ section' = After(section) /\ todo' \in Files(section')
      /\ UNCHANGED <<asked, window, pri, told, vars>> /\ Ahead = {}
  BY NothingAhead DEF NextSection, Enter
<1>s. /\ \A i : Queued(i)' = Queued(i) /\ Executed(i)' = Executed(i)
                /\ (Inside(i)' <=> Inside(i))
      /\ next' = next /\ \A s : Shown(s)' = Shown(s)
  BY <1>1, SameFiles DEF Shown
<1>2. CASE section = "exec"
  <2>1. section' = "priority" /\ todo' = InWindow("queue")
    BY <1>1, <1>2, AfterEach DEF Files
  <2>2. /\ \A n \in DOMAIN todo' : todo'[n].dir = "queue"
        /\ \A i \in Ids : Inside(i) => \E n \in DOMAIN todo' : todo'[n] = File("queue", i)
    BY <1>t, <2>1, WindowFiles
  <2>3. ListTodo'
    BY <2>1, <2>2 DEF ListTodo, AllFrom
  <2>4. ListTold'
    BY <1>1, <1>2, <1>s, <1>t, <2>1
      DEF ListTold, LineTrue, LinesApart, Sooner
  <2>5. ASSUME NEW i \in Ids PROVE ExecSeen(i)' /\ QueuedSeen(i)'
    <3>1. ExecSeen(i)
      BY <1>t DEF ListSeen
    <3>2. ExecSeen(i)'
      BY <1>1, <1>2, <1>s, <3>1 DEF ExecSeen
    <3>3. Inside(i) => i \in Ahead'
      BY <2>2 DEF Ahead, File
    <3>4. QueuedSeen(i)'
      BY <1>s, <2>1, <3>3 DEF QueuedSeen
    <3> QED BY <3>2, <3>4
  <2> QED BY <2>3, <2>4, <2>5 DEF ListSeen
<1>3. CASE section = "priority"
  <2>1. section' = "queued" /\ todo' \in ByPriority
    BY <1>1, <1>3, AfterEach DEF Files
  <2>a. PICK s \in ByPriority : todo' = s
    BY <2>1
  <2>2. /\ \A n \in DOMAIN s : s[n].dir = "queue" /\ Inside(s[n].id)
        /\ \A m, n \in DOMAIN s : m < n => Sooner(s[m].id, s[n].id)
        /\ \A i \in Ids : Inside(i) => \E n \in DOMAIN s : s[n] = File("queue", i)
    BY SortedFiles
  <2>3. ListTodo'
    <3>1. AllFrom("queue")'
      BY <2>2, <2>a DEF AllFrom
    <3>2. AheadInside'
      BY <1>s, <2>2, <2>a DEF AheadInside
    <3>3. AheadSorted'
      BY <1>1, <2>2, <2>a DEF AheadSorted, Sooner
    <3>4. \A m \in DOMAIN told : told[m].section # "queued"
      BY <1>3, <1>t DEF ListTold, LineTrue
    <3>5. ToldSooner'
      BY <1>1, <3>4 DEF ToldSooner
    <3> QED BY <2>1, <3>1, <3>2, <3>3, <3>5 DEF ListTodo
  <2>4. ListTold'
    BY <1>1, <1>3, <1>s, <1>t, <2>1
      DEF ListTold, LineTrue, LinesApart, Sooner
  <2>5. ASSUME NEW i \in Ids PROVE ExecSeen(i)' /\ QueuedSeen(i)'
    <3>1. ExecSeen(i) /\ QueuedSeen(i)
      BY <1>t DEF ListSeen
    <3>2. ExecSeen(i)'
      BY <1>1, <1>3, <1>s, <3>1 DEF ExecSeen
    <3>3. Inside(i) => i \in Ahead'
      BY <2>2, <2>a DEF Ahead, File
    <3>4. QueuedSeen(i)'
      BY <1>1, <1>3, <1>s, <2>1, <3>1, <3>3 DEF QueuedSeen
    <3> QED BY <3>2, <3>4
  <2> QED BY <2>3, <2>4, <2>5 DEF ListSeen
<1>4. CASE section = "queued"
  <2>1. section' = "done"
    BY <1>1, <1>4, AfterEach
  <2>3. ListTodo'
    BY <2>1 DEF ListTodo
  <2>4. ListTold'
    BY <1>1, <1>4, <1>s, <1>t, <2>1
      DEF ListTold, LineTrue, LinesApart, Sooner
  <2>5. ASSUME NEW i \in Ids PROVE ExecSeen(i)' /\ QueuedSeen(i)'
    <3>1. ExecSeen(i) /\ QueuedSeen(i)
      BY <1>t DEF ListSeen
    <3> QED BY <1>1, <1>4, <1>s, <2>1, <3>1 DEF ExecSeen, QueuedSeen
  <2> QED BY <2>3, <2>4, <2>5 DEF ListSeen
<1> QED BY <1>2, <1>3, <1>4

\* A file that is found is only opened.
LEMMA ListLook ==
  ASSUME Server, Reader, Listed, Look, asked.tool = "list", Reading'
  PROVE  ListTodo' /\ ListTold' /\ ListSeen'
<1>t. /\ ReaderTyped /\ WindowTrue /\ todo \in Seq(FileSet)
  BY DEF Reader, ReaderTyped
<1>1. /\ Reading /\ section' = section
      /\ UNCHANGED <<asked, window, pri, told, vars>>
  BY DEF Look, Stay, Reading
<1>l. ListTodo /\ ListTold /\ ListSeen
  BY <1>1 DEF Listed
<1>s. /\ \A i : Queued(i)' = Queued(i) /\ Executed(i)' = Executed(i)
                /\ (Inside(i)' <=> Inside(i))
      /\ next' = next /\ \A s : Shown(s)' = Shown(s)
  BY <1>1, SameFiles DEF Shown
<1>2. ListTold'
  BY <1>1, <1>s, <1>l DEF ListTold, LineTrue, LinesApart, Sooner
<1>3. CASE UNCHANGED todo
  <2>1. ListTodo' /\ Ahead' = Ahead
    BY <1>1, <1>3, <1>l, <1>s DEF ListTodo, AllFrom, AheadApart, AheadSorted,
      AheadInside, ToldApart, ToldSooner, Sooner, Ahead
  <2>2. ListSeen'
    BY <1>1, <1>l, <1>s, <2>1 DEF ListSeen, ExecSeen, QueuedSeen
  <2> QED BY <1>2, <2>1, <2>2
<1>4. CASE section \in {"exec", "priority", "queued"}
           /\ todo # <<>> /\ todo' = Tail(todo) /\ Content(Head(todo)) = None
  <2>1. /\ \A n \in DOMAIN todo' : n + 1 \in DOMAIN todo /\ todo'[n] = todo[n + 1]
        /\ Head(todo) = todo[1] /\ 1 \in DOMAIN todo
    BY <1>4, <1>t, Rest
  <2>2. ListTodo'
    <3>1. ToldApart => ToldApart'
      BY <1>1, <2>1 DEF ToldApart
    <3>2. ToldSooner => ToldSooner'
      BY <1>1, <2>1 DEF ToldSooner, Sooner
    <3> QED BY <1>1, <1>4, <1>l, <1>t, <3>1, <3>2, TodoRest DEF ListTodo
  <2>3. ASSUME NEW i \in Ids PROVE ExecSeen(i)' /\ QueuedSeen(i)'
    <3>1. ExecSeen(i) /\ QueuedSeen(i)
      BY <1>l DEF ListSeen
    <3>2. i \in Ahead => i = todo[1].id \/ i \in Ahead'
      BY <1>4, <1>t, AheadRest
    <3>3. todo[1] \in FileSet
      BY <2>1, <1>t, ElementTypes
    <3>4. todo[1] = File(todo[1].dir, todo[1].id) /\ todo[1].id \in Ids
      BY <3>3 DEF FileSet, File
    <3>5. i = todo[1].id =>
            /\ section = "exec" => Executed(i) = None
            /\ section \in {"priority", "queued"} => Queued(i) = None
      <4>1. /\ section = "exec" => todo[1].dir = "exec"
            /\ section \in {"priority", "queued"} => todo[1].dir = "queue"
        BY <1>l, <2>1 DEF ListTodo, AllFrom
      <4>2. section # ""
        BY <1>4
      <4> QED BY <1>4, <1>t, <2>1, <3>4, <4>1, <4>2, ContentOf
    <3>6. ExecSeen(i)'
      BY <1>1, <1>4, <1>s, <3>1, <3>2, <3>5 DEF ExecSeen
    <3>7. QueuedSeen(i)'
      BY <1>1, <1>4, <1>s, <3>1, <3>2, <3>5 DEF QueuedSeen
    <3> QED BY <3>6, <3>7
  <2> QED BY <1>2, <2>2, <2>3 DEF ListSeen
<1>5. CASE section = "done" /\ ~UNCHANGED todo
  <2>1. ListTodo'
    BY <1>1, <1>5 DEF ListTodo
  <2>2. ListSeen'
    BY <1>1, <1>5, <1>l, <1>s DEF ListSeen, ExecSeen, QueuedSeen
  <2> QED BY <1>2, <2>1, <2>2
<1>6. section \in {"exec", "priority", "queued", "done"} /\ todo # <<>>
  BY <1>t, <1>1, SectionsOf DEF Look, Reading, ReaderTyped
<1>7. \/ UNCHANGED todo
      \/ todo' = Tail(todo) /\ Content(Head(todo)) = None
  BY <1>6 DEF Look, Stay
<1> QED BY <1>3, <1>4, <1>5, <1>6, <1>7

\* get_pri reads the priority the job was queued with.
LEMMA ListPriority ==
  ASSUME Server, Reader, Listed, GetPriority, asked.tool = "list"
  PROVE  ListTodo' /\ ListTold' /\ ListSeen'
<1>t. /\ ReaderTyped /\ todo \in Seq(FileSet) /\ pri \in [Ids -> Int]
  BY DEF Reader, ReaderTyped
<1>1. /\ section = "priority" /\ section' = section /\ Opening /\ Reading
      /\ todo' = Tail(todo)
      /\ pri' = [pri EXCEPT ![Opened.id] = Content(Opened).priority]
      /\ UNCHANGED <<asked, window, told, vars>>
  BY DEF GetPriority, Read, Stay, Reading
<1>l. ListTodo /\ ListTold /\ ListSeen
  BY <1>1 DEF Listed
<1>s. /\ \A i : Queued(i)' = Queued(i) /\ Executed(i)' = Executed(i)
                /\ (Inside(i)' <=> Inside(i))
      /\ next' = next /\ \A s : Shown(s)' = Shown(s)
  BY <1>1, SameFiles DEF Shown
<1>2. /\ Opened = todo[1] /\ todo # <<>> /\ Opened \in FileSet /\ 1 \in DOMAIN todo
  BY <1>1, <1>t, OpenedFirst, Rest
<1>3. ListTodo'
  BY <1>1, <1>2, <1>l, <1>t, TodoRest DEF ListTodo
<1>4. ListTold'
  <2>1. \A n \in DOMAIN told : told[n].section = "exec" /\ LineTrue(n)
    BY <1>1, <1>l DEF ListTold, LineTrue
  <2>2. \A n \in DOMAIN told : LineTrue(n)'
    BY <1>1, <1>s, <2>1 DEF LineTrue
  <2>3. \A m, n \in DOMAIN told : m < n => LinesApart(m, n)'
    BY <1>1, <1>l, <2>1 DEF ListTold, LinesApart
  <2> QED BY <1>1, <2>2, <2>3 DEF ListTold
<1>5. ASSUME NEW i \in Ids PROVE ExecSeen(i)' /\ QueuedSeen(i)'
  <2>1. ExecSeen(i) /\ QueuedSeen(i)
    BY <1>l DEF ListSeen
  <2>2. i \in Ahead => i = todo[1].id \/ i \in Ahead'
    BY <1>1, <1>2, <1>t, AheadRest
  <2>3. i = todo[1].id => pri'[i] = Queued(i).priority
    <3>1. Opened.dir = "queue" /\ Opened = File(Opened.dir, Opened.id)
      BY <1>1, <1>2, <1>l DEF ListTodo, AllFrom, FileSet, File
    <3>2. i = Opened.id => Content(Opened) = Queued(i)
      BY <1>1, <1>t, <3>1, ContentOf
    <3> QED BY <1>1, <1>2, <1>t, <3>2
  <2>4. i # todo[1].id => pri'[i] = pri[i]
    BY <1>1, <1>2, <1>t
  <2>5. QueuedSeen(i)'
    BY <1>1, <1>s, <2>1, <2>2, <2>3, <2>4 DEF QueuedSeen
  <2>6. ExecSeen(i)'
    BY <1>1, <1>s, <2>1 DEF ExecSeen
  <2> QED BY <2>5, <2>6
<1> QED BY <1>3, <1>4, <1>5 DEF ListSeen

\* A job is displayed.
LEMMA ListDisplay ==
  ASSUME Server, Reader, Listed, Display, asked.tool = "list"
  PROVE  ListTodo' /\ ListTold' /\ ListSeen'
<1>t. /\ ReaderTyped /\ todo \in Seq(FileSet) /\ told \in Seq(Line)
      /\ pri \in [Ids -> Int]
  BY DEF Reader, ReaderTyped
<1>1. /\ section \in {"exec", "queued"} /\ section' = section
      /\ Opening /\ Reading /\ Content(Opened) # None
      /\ todo' = Tail(todo)
      /\ told' = Append(told, [section |-> section, id |-> Opened.id,
                               sub |-> Content(Opened)])
      /\ UNCHANGED <<asked, window, pri, vars>>
  BY DEF Display, Read, Tell, Stay, Reading
<1>l. ListTodo /\ ListTold /\ ListSeen
  BY <1>1 DEF Listed
<1>s. /\ \A i : Queued(i)' = Queued(i) /\ Executed(i)' = Executed(i)
                /\ (Inside(i)' <=> Inside(i))
      /\ next' = next
  BY <1>1, SameFiles
<1>2. /\ Opened = todo[1] /\ todo # <<>> /\ Opened \in FileSet /\ 1 \in DOMAIN todo
  BY <1>1, <1>t, OpenedFirst, Rest
<1>3. /\ Opened = File(Opened.dir, Opened.id) /\ Opened.id \in Ids
      /\ section = "exec" => Opened.dir = "exec"
      /\ section = "queued" => Opened.dir = "queue"
  BY <1>1, <1>2, <1>l DEF ListTodo, AllFrom, FileSet, File
<1> DEFINE h == Opened.id
           x == [section |-> section, id |-> h, sub |-> Content(Opened)]
<1>4. /\ section = "exec" => Queued(h) = None /\ h < next[asked.pool]
      /\ section = "queued" =>
           /\ Queued(h) # None /\ Content(Opened) = Queued(h) /\ Inside(h)
           /\ Content(Opened).priority = pri[h]
  <2>1. /\ section = "exec" => Executed(h) # None
        /\ section = "queued" => Content(Opened) = Queued(h)
    BY <1>1, <1>3, <1>t, ContentOf
  <2>2. section = "queued" => Inside(h)
    BY <1>2, <1>l DEF ListTodo, AheadInside
  <2>3. section = "queued" => pri[h] = Queued(h).priority
    BY <1>1, <1>3, <1>l, <2>1, <2>2 DEF ListSeen, QueuedSeen
  <2> QED BY <1>1, <1>3, <1>t, <2>1, <2>2, <2>3, ContentOf
<1>5. x \in Line
  BY <1>1, <1>t, LineType DEF Loops
<1>6. /\ \A n \in DOMAIN told : /\ n \in DOMAIN told' /\ told'[n] = told[n]
                                /\ n < Len(told) + 1 /\ n \in Nat
      /\ \A n \in DOMAIN told' : n \in DOMAIN told \/ n = Len(told) + 1
      /\ told'[Len(told) + 1] = x /\ Len(told) \in Nat
  BY <1>1, <1>5, <1>t, Added
<1> HIDE DEF x, h
<1>x. x.section = section /\ x.id = h /\ x.sub = Content(Opened) /\ h = todo[1].id
  BY <1>2 DEF x, h
<1>7. /\ \A n \in DOMAIN todo' : /\ n + 1 \in DOMAIN todo /\ n \in Nat /\ n # 0
                                 /\ todo'[n] = todo[n + 1]
  BY <1>1, <1>2, <1>t, Rest
<1>8. ListTodo'
  <2>1. section = "exec" => ToldApart'
    <3> SUFFICES ASSUME section = "exec", NEW m \in DOMAIN told',
                        NEW n \in DOMAIN todo'
                 PROVE  told'[m].id # todo'[n].id
      BY DEF ToldApart
    <3>1. ToldApart /\ AheadApart
      BY <1>l DEF ListTodo
    <3>2. CASE m \in DOMAIN told
      BY <1>6, <1>7, <3>1, <3>2 DEF ToldApart
    <3>3. CASE m = Len(told) + 1
      <4>1. n + 1 \in DOMAIN todo /\ 1 < n + 1 /\ todo'[n] = todo[n + 1]
        BY <1>7
      <4>2. todo[1].id # todo[n + 1].id
        BY <1>2, <3>1, <4>1 DEF AheadApart
      <4> QED BY <1>6, <1>x, <3>3, <4>1, <4>2
    <3> QED BY <1>6, <3>2, <3>3
  <2>2. section = "queued" => ToldSooner'
    <3> SUFFICES ASSUME section = "queued", NEW m \in DOMAIN told',
                        NEW n \in DOMAIN todo', told'[m].section = "queued"
                 PROVE  Sooner(told'[m].id, todo'[n].id)
      BY <1>1 DEF ToldSooner, Sooner
    <3>1. ToldSooner /\ AheadSorted
      BY <1>l DEF ListTodo
    <3>2. CASE m \in DOMAIN told
      <4>1. Sooner(told[m].id, todo[n + 1].id)
        BY <1>6, <1>7, <3>1, <3>2 DEF ToldSooner
      <4> QED BY <1>1, <1>6, <1>7, <3>2, <4>1 DEF Sooner
    <3>3. CASE m = Len(told) + 1
      <4>1. n + 1 \in DOMAIN todo /\ 1 < n + 1 /\ todo'[n] = todo[n + 1]
        BY <1>7
      <4>2. Sooner(todo[1].id, todo[n + 1].id)
        BY <1>2, <3>1, <4>1 DEF AheadSorted
      <4> QED BY <1>1, <1>6, <1>x, <3>3, <4>1, <4>2 DEF Sooner
    <3> QED BY <1>6, <3>2, <3>3
  <2> QED BY <1>1, <1>2, <1>l, <1>t, <2>1, <2>2, TodoRest DEF ListTodo
<1>9. ListTold'
  <2>1. ASSUME NEW n \in DOMAIN told' PROVE LineTrue(n)'
    <3>1. CASE n \in DOMAIN told
      <4>1. LineTrue(n) /\ told'[n] = told[n]
        BY <1>6, <1>l, <3>1 DEF ListTold
      <4> QED BY <1>1, <1>s, <4>1 DEF LineTrue
    <3>2. CASE n = Len(told) + 1
      <4>1. told'[n] = x
        BY <1>6, <3>2
      <4> QED BY <1>1, <1>4, <1>s, <1>x, <4>1 DEF LineTrue
    <3> QED BY <1>6, <2>1, <3>1, <3>2
  <2>2. ASSUME NEW m \in DOMAIN told', NEW n \in DOMAIN told', m < n
        PROVE  LinesApart(m, n)'
    <3>1. CASE n \in DOMAIN told
      <4>1. m \in DOMAIN told
        BY <1>6, <2>2, <3>1
      <4>2. LinesApart(m, n) /\ told'[m] = told[m] /\ told'[n] = told[n]
        BY <1>6, <1>l, <2>2, <3>1, <4>1 DEF ListTold
      <4> QED BY <1>1, <4>2 DEF LinesApart, Sooner
    <3>2. CASE n = Len(told) + 1
      <4>1. m \in DOMAIN told /\ told'[n] = x /\ told'[m] = told[m]
        BY <1>6, <2>2, <3>2
      <4>2. LineTrue(m)
        BY <1>l, <4>1 DEF ListTold
      <4>3. CASE section = "exec"
        <5>1. told[m].id # h
          BY <1>2, <1>l, <1>x, <4>1, <4>3 DEF ListTodo, ToldApart
        <5> QED BY <1>x, <4>1, <4>3, <5>1 DEF LinesApart
      <4>4. CASE section = "queued" /\ told[m].section = "exec"
        <5>1. told[m].id # h
          BY <1>4, <4>2, <4>4 DEF LineTrue
        <5> QED BY <1>x, <4>1, <4>4, <5>1 DEF LinesApart
      <4>5. CASE section = "queued" /\ told[m].section = "queued"
        <5>1. Sooner(told[m].id, h)
          BY <1>2, <1>l, <1>x, <4>1, <4>5 DEF ListTodo, ToldSooner
        <5> QED BY <1>1, <1>x, <4>1, <4>5, <5>1 DEF LinesApart, Sooner
      <4> QED BY <1>1, <4>2, <4>3, <4>4, <4>5 DEF LineTrue
    <3> QED BY <1>6, <2>2, <3>1, <3>2
  <2> QED BY <2>1, <2>2 DEF ListTold
<1>10. ASSUME NEW i \in Ids PROVE ExecSeen(i)' /\ QueuedSeen(i)'
  <2>1. ExecSeen(i) /\ QueuedSeen(i)
    BY <1>l DEF ListSeen
  <2>2. i \in Ahead => i = h \/ i \in Ahead'
    BY <1>1, <1>2, <1>t, <1>x, AheadRest
  <2>3. \A s \in {"exec", "queued"} :
          /\ i \in Shown(s) => i \in Shown(s)'
          /\ section = s /\ i = h => i \in Shown(s)'
    BY <1>1, <1>5, <1>t, <1>x, ShownMore DEF x, h
  <2>4. ExecSeen(i)'
    BY <1>1, <1>s, <2>1, <2>2, <2>3 DEF ExecSeen
  <2>5. QueuedSeen(i)'
    BY <1>1, <1>s, <2>1, <2>2, <2>3 DEF QueuedSeen
  <2> QED BY <2>4, <2>5
<1> QED BY <1>8, <1>9, <1>10 DEF ListSeen

\* Listed is kept by every step of the command.
LEMMA ListedReaderStep ==
  ASSUME Server, Reader, Listed, ReaderStep
  PROVE  Listed'
<1>t. ReaderTyped /\ ReaderTyped'
  BY ReaderTypedStep DEF Reader
<1> SUFFICES ASSUME Reading', asked'.tool = "list"
             PROVE  ListTodo' /\ ListTold' /\ ListSeen'
  BY DEF Listed
<1>1. CASE GetSeq
  <2>1. section' = "start" /\ told' = <<>>
    BY <1>1, <1>t DEF GetSeq, ReaderTyped
  <2>2. ListTodo' /\ ListTold'
    BY <2>1 DEF ListTodo, ListTold
  <2>3. \A i \in Ids : ExecSeen(i)' /\ QueuedSeen(i)'
    BY <2>1 DEF ExecSeen, QueuedSeen
  <2> QED BY <2>2, <2>3 DEF ListSeen
<1>2. ~ListDir
  <2>1. section = "dir" => asked.tool # "list"
    BY <1>t, SectionsOf
  <2> QED BY <2>1 DEF ListDir
<1>3. CASE ~GetSeq
  <2>1. Reading /\ asked' = asked /\ section # ""
    BY <1>2, <1>3, WindowKept DEF Reading
  <2>2. section \in {"start", "exec", "priority", "queued", "done"}
    BY <1>t, <2>1, SectionsOf DEF Reading
  <2>3. NextSection \/ Look \/ GetPriority \/ Display
    <3>1. ~Compare /\ ~Gone
      BY <2>2 DEF Compare, Read, Gone, Reading
    <3>2. ASSUME NEW q \in Questions, Ask(q) PROVE FALSE
      BY <1>t, <2>1, <3>2 DEF Ask, ReaderTyped
    <3> QED BY <1>2, <1>3, <3>1, <3>2 DEF ReaderStep
  <2>4. NextSection => section \in {"start", "exec", "priority", "queued"}
    BY <2>2 DEF NextSection
  <2> QED BY <2>1, <2>3, <2>4, ListExec, ListNext, ListLook, ListPriority,
    ListDisplay
<1> QED BY <1>1, <1>3

\* The lines are in order and their ids are apart.
LEMMA LinesOnce ==
  ASSUME ReaderTyped, ListTold
  PROVE  /\ \A m, n \in DOMAIN told : told[m].id = told[n].id => m = n
         /\ \A m, n \in DOMAIN told :
              m < n /\ told[m].section = "queued" /\ told[n].section = "queued" =>
                \/ told[m].sub.priority > told[n].sub.priority
                \/ /\ told[m].sub.priority = told[n].sub.priority
                   /\ told[m].id < told[n].id
<1>1. \A n \in DOMAIN told : told[n].id \in Ids /\ n \in Nat
  BY Elements, ElementTypes DEF ReaderTyped
<1>2. \A i \in Ids : pri[i] \in Int /\ i \in Int
  <2>1. pri \in [Ids -> Int]
    BY DEF ReaderTyped
  <2>2. Ids \subseteq Int
    BY DEF Ids
  <2> QED BY <2>1, <2>2
<1>3. ASSUME NEW m \in DOMAIN told, NEW n \in DOMAIN told, m < n
      PROVE  told[m].id # told[n].id
  <2>1. LinesApart(m, n)
    BY <1>3 DEF ListTold
  <2>2. Sooner(told[m].id, told[n].id) => told[m].id # told[n].id
    BY <1>1, <1>2 DEF Sooner
  <2> QED BY <2>1, <2>2 DEF LinesApart
<1>4. \A m, n \in DOMAIN told : m = n \/ m < n \/ n < m
  BY <1>1
<1>5. ASSUME NEW m \in DOMAIN told, NEW n \in DOMAIN told, m < n,
             told[m].section = "queued", told[n].section = "queued"
      PROVE  \/ told[m].sub.priority > told[n].sub.priority
             \/ /\ told[m].sub.priority = told[n].sub.priority
                /\ told[m].id < told[n].id
  <2>1. Sooner(told[m].id, told[n].id)
    BY <1>5 DEF ListTold, LinesApart
  <2>2. /\ told[m].sub.priority = pri[told[m].id]
        /\ told[n].sub.priority = pri[told[n].id]
    BY <1>5 DEF ListTold, LineTrue
  <2> QED BY <2>1, <2>2 DEF Sooner
<1> QED BY <1>3, <1>4, <1>5

\* What list has printed at the end.
LEMMA ListedTrue ==
  ASSUME Server, Reader, Listed
  PROVE  ListingTrue
<1> SUFFICES ASSUME section = "done", asked.tool = "list"
             PROVE  ListingTrue
  BY DEF ListingTrue, Answered
<1>1. ReaderTyped /\ Reading /\ section # ""
  BY DEF Reader, Reading
<1>2. ListTold /\ ListSeen
  BY <1>1 DEF Listed
<1>3. ASSUME NEW i \in Ids
      PROVE  /\ i \in Held("queue") /\ Inside(i) => i \in Shown("queued")
             /\ i \in Held("exec") /\ i < window.first => i \in Shown("exec")
  <2>1. /\ i \in Held("queue") <=> Queued(i) # None
        /\ i \in Held("exec") <=> Executed(i) # None
    BY <1>1, ContentOf DEF Held
  <2> QED BY <1>2, <2>1 DEF ListSeen, ExecSeen, QueuedSeen
<1>4. \A dir : Held(dir) \subseteq Ids
  BY DEF Held
<1> QED BY <1>1, <1>2, <1>3, <1>4, LinesOnce DEF ListingTrue, Answered

-----------------------------------------------------------------------------
(* The loops of search and searchdir.                                      *)

\* No file of job i is of the command.
Other(i) ==
  /\ Queued(i) # None => Queued(i).cmd # asked.cmd
  /\ Executed(i) # None => Executed(i).sub.cmd # asked.cmd

\* A job that was of the command and no longer is will not be again.
Left(i) ==
  Other(i) => Queued(i) = None /\ ~Unwritten(<<asked.pool, i>>)

AllLeft ==
  \A i \in window.wanted : i \in Ids /\ i < window.next /\ Left(i)

\* search looks for the .exec file of an id right after its queued one, that
\* was not there.
SearchTodo ==
  section = "search" =>
    /\ AheadInside
    /\ \A n \in DOMAIN todo :
         todo[n].dir = "exec" => n = 1 /\ Queued(todo[n].id) = None

SearchFound(i) ==
  i \in Shown("search") \/ Other(i) \/ (section = "search" /\ i \in Ahead)

SearchSeen ==
  section \in {"search", "done"} =>
    \A i \in window.wanted : Inside(i) => SearchFound(i)

DirSeen ==
  /\ \A n \in DOMAIN told : told[n].sub.cmd = asked.cmd
  /\ told = <<>> =>
       \A i \in window.wanted :
         Other(i) \/ (section = "searchdir" /\ i \in Ahead)

Searched ==
  Reading => /\ AllLeft
             /\ asked.tool = "search" => SearchTodo /\ SearchSeen
             /\ asked.tool = "searchdir" => DirSeen

\* Unwanted in terms of what the two files of a job hold.
LEMMA OtherIs ==
  ASSUME Server, ReaderTyped, section # "", NEW i \in Ids
  PROVE  Unwanted(i) <=> Other(i)
<1>1. /\ i \in Held("queue") <=> Queued(i) # None
      /\ i \in Held("exec") <=> Executed(i) # None
      /\ Content(File("queue", i)) = Queued(i)
      /\ Executed(i) # None => Content(File("exec", i)) = Executed(i).sub
  BY ContentOf DEF Held
<1> QED BY <1>1 DEF Unwanted, Other, Wanted

\* A job whose file has been looked at is not of the command.
LEMMA LookedAt ==
  ASSUME Server, ReaderTyped, section # "", NEW f \in FileSet
  PROVE  /\ f.dir = "exec" /\ Content(f) = None /\ Queued(f.id) = None =>
              Other(f.id)
         /\ Content(f) # None /\ ~Wanted(Content(f)) => Other(f.id)
<1>1. f = File(f.dir, f.id) /\ f.id \in Ids /\ f.dir \in {"queue", "exec"}
  BY DEF FileSet, File
<1>2. /\ f.dir = "queue" => Content(f) = Queued(f.id)
      /\ f.dir = "exec" => /\ Content(f) = None <=> Executed(f.id) = None
                           /\ Executed(f.id) # None =>
                                Content(f) = Executed(f.id).sub
      /\ Queued(f.id) # None => Executed(f.id) = None
  BY <1>1, ContentOf
<1> QED BY <1>1, <1>2 DEF Other, Wanted

\* The command of a job changes once, and then it is executed.
LEMMA LeftStep ==
  ASSUME Server, WindowTrue, Reading, [Next]_vars, asked' = asked,
         NEW i \in Ids, i < window.next, Left(i)
  PROVE  Left(i)' /\ (Other(i) => Other(i)')
<1>1. /\ asked.pool \in Pools /\ window.next <= next[asked.pool]
      /\ window.next \in Nat /\ next[asked.pool] \in Nat
  BY NextGrows DEF WindowTrue, Server, Queue
<1>2. PICK c \in Jobs : c = <<asked.pool, i>>
  BY <1>1 DEF Jobs
<1>3. /\ Queued(i) = queue[c] /\ Queued(i)' = queue'[c]
      /\ Executed(i) = exec[c] /\ Executed(i)' = exec'[c]
      /\ Left(i) <=> (Other(i) => queue[c] = None /\ ~Unwritten(c))
      /\ Left(i)' <=> (Other(i)' => queue'[c] = None /\ ~Unwritten(c)')
  BY <1>2 DEF Queued, Executed, Left, Unwritten
<1>4. /\ Other(i) <=> /\ queue[c] # None => queue[c].cmd # asked.cmd
                      /\ exec[c] # None => exec[c].sub.cmd # asked.cmd
      /\ Other(i)' <=> /\ queue'[c] # None => queue'[c].cmd # asked.cmd
                       /\ exec'[c] # None => exec'[c].sub.cmd # asked.cmd
  BY <1>3 DEF Other
<1>5. /\ queue'[c] \in {queue[c], None}
      /\ exec[c] = None /\ exec'[c] # None =>
           queue[c] # None /\ exec'[c].sub = queue[c]
  BY <1>1, <1>2, FilesMove DEF Ids
<1>6. Server' /\ Queue /\ Launched /\ Recorded /\ Owned'
  BY ServerStep DEF Server, Queue
<1>7. /\ exec[c] # None => queue[c] = None
      /\ exec'[c] # None => queue'[c] = None
  BY <1>1, <1>2, <1>6, FilesAre DEF Server, Queue, IdsOK, QueuedIsFresh
<1>8. exec[c] # None /\ exec'[c] # None /\ exec'[c].sub # exec[c].sub =>
        Unwritten(c) /\ ~Unwritten(c)'
  BY <1>6, CommandMoves
<1>9. CASE Other(i)
  <2>1. queue[c] = None /\ ~Unwritten(c) /\ queue'[c] = None
    BY <1>3, <1>5, <1>9
  <2>2. Other(i)'
    BY <1>4, <1>5, <1>8, <1>9, <2>1
  <2>3. ~Unwritten(c)'
    BY <1>6, <2>1, WrittenKept
  <2> QED BY <1>3, <2>1, <2>2, <2>3
<1>10. CASE ~Other(i) /\ Other(i)'
  <2>1. CASE exec'[c] = None
    <3>1. ~Unwritten(c)'
      BY <1>6, <2>1 DEF Owned, Unwritten
    <3>2. queue'[c] = None
      BY <1>4, <1>5, <1>7, <1>10
    <3> QED BY <1>3, <3>1, <3>2, <1>10
  <2>2. CASE exec'[c] # None
    <3>1. exec[c] # None /\ exec'[c].sub # exec[c].sub
      BY <1>4, <1>5, <1>7, <1>10, <2>2
    <3> QED BY <1>3, <1>7, <1>8, <1>10, <2>2, <3>1
  <2> QED BY <2>1, <2>2
<1> QED BY <1>3, <1>9, <1>10

\* The queue moves under the searches.
LEMMA SearchedServerStep ==
  ASSUME Server, Reader, Searched, [Next]_vars, UNCHANGED readerVars
  PROVE  Searched'
<1>t. ReaderTyped /\ WindowTrue
  BY DEF Reader
<1>u. UNCHANGED <<asked, section, window, todo, open, pri, told>>
  BY DEF readerVars, progress
<1> SUFFICES ASSUME Reading
             PROVE  /\ AllLeft'
                    /\ asked.tool = "search" => SearchTodo' /\ SearchSeen'
                    /\ asked.tool = "searchdir" => DirSeen'
  BY <1>u DEF Searched, Reading
<1>a. AllLeft
  BY DEF Searched
<1>1. ASSUME NEW i \in window.wanted
      PROVE  i \in Ids /\ i < window.next /\ Left(i)' /\ (Other(i) => Other(i)')
  <2>1. i \in Ids /\ i < window.next /\ Left(i)
    BY <1>a DEF AllLeft
  <2> QED BY <1>t, <1>u, <2>1, LeftStep
<1>b. AllLeft'
  BY <1>1, <1>u DEF AllLeft
<1>2. CASE asked.tool = "search"
  <2>1. SearchTodo /\ SearchSeen
    BY <1>2 DEF Searched
  <2>2. SearchTodo'
    <3> SUFFICES ASSUME section = "search"
                 PROVE  SearchTodo'
      BY <1>u DEF SearchTodo
    <3>1. AheadInside'
      BY <1>u, <2>1 DEF SearchTodo, AheadInside, Inside
    <3>2. ASSUME NEW n \in DOMAIN todo, todo[n].dir = "exec"
          PROVE  n = 1 /\ Queued(todo[n].id)' = None
      <4>1. n = 1 /\ Queued(todo[n].id) = None /\ Inside(todo[n].id)
        BY <2>1, <3>2 DEF SearchTodo, AheadInside
      <4>2. todo[n].id \in Ids
        BY <1>t, ElementTypes
      <4>3. /\ asked.pool \in Pools /\ window.next <= next[asked.pool]
            /\ window.next \in Nat /\ next[asked.pool] \in Nat
        BY NextGrows, <1>t DEF WindowTrue, Server, Queue
      <4>4. todo[n].id < next[asked.pool]
        BY <4>1, <4>2, <4>3 DEF Inside, Ids
      <4> QED BY <1>u, <4>1, <4>2, <4>3, <4>4, FilesMove DEF Queued
    <3> QED BY <1>u, <3>1, <3>2 DEF SearchTodo
  <2>3. SearchSeen'
    BY <1>1, <1>u, <2>1
      DEF SearchSeen, SearchFound, Shown, Ahead, Inside
  <2> QED BY <1>2, <1>b, <2>2, <2>3
<1>3. CASE asked.tool = "searchdir"
  <2>1. DirSeen
    BY <1>3 DEF Searched
  <2>2. DirSeen'
    BY <1>1, <1>u, <2>1 DEF DirSeen, Ahead
  <2> QED BY <1>3, <1>b, <2>2
<1> QED BY <1>2, <1>3, <1>b

\* The files that search has left stay as they are.
LEMMA SearchRest ==
  ASSUME Reader, section = "search", SearchTodo, todo # <<>>,
         todo' = Tail(todo), UNCHANGED <<asked, window, vars>>
  PROVE  SearchTodo'
<1>t. todo \in Seq(FileSet)
  BY DEF Reader, ReaderTyped
<1>1. AheadInside'
  BY <1>t, TodoRest DEF SearchTodo
<1>2. \A n \in DOMAIN todo' : /\ n + 1 \in DOMAIN todo /\ n \in Nat /\ n # 0
                              /\ todo'[n] = todo[n + 1]
  BY <1>t, Rest
<1>3. \A n \in DOMAIN todo' : todo'[n].dir # "exec"
  <2>1. ASSUME NEW n \in DOMAIN todo', todo'[n].dir = "exec" PROVE FALSE
    <3>1. n + 1 = 1
      BY <1>2, <2>1 DEF SearchTodo
    <3> QED BY <1>2, <3>1
  <2> QED BY <2>1
<1> QED BY <1>1, <1>3 DEF SearchTodo

\* The loop of search over the window begins.
LEMMA SearchBegins ==
  ASSUME Server, Reader, AllLeft, NextSection, section = "start",
         asked.tool = "search"
  PROVE  SearchTodo' /\ SearchSeen'
<1>t. WindowTrue /\ Reading
  BY DEF Reader, Reading
<1>1. /\ section' = "search" /\ todo' = InWindow("queue")
      /\ UNCHANGED <<asked, window, pri, told, vars>>
  BY AfterEach DEF NextSection, Enter, Files, FirstLook
<1>2. PICK s : s = InWindow("queue")
  OBVIOUS
<1>3. /\ \A n \in DOMAIN s : s[n].dir = "queue" /\ Inside(s[n].id)
      /\ \A i \in Ids : Inside(i) => \E n \in DOMAIN s : s[n] = File("queue", i)
  BY <1>2, <1>t, WindowFiles
<1>4. todo' = s /\ \A i : Inside(i)' <=> Inside(i)
  BY <1>1, <1>2, SameFiles
<1>5. SearchTodo'
  BY <1>3, <1>4 DEF SearchTodo, AheadInside
<1>6. \A i \in Ids : Inside(i) => i \in Ahead'
  BY <1>3, <1>4 DEF Ahead, File
<1>7. window' = window /\ \A i \in window.wanted : i \in Ids
  BY <1>1 DEF AllLeft
<1> QED BY <1>1, <1>4, <1>5, <1>6, <1>7 DEF SearchSeen, SearchFound

\* The loops of the searches end.
LEMMA SearchEnds ==
  ASSUME Server, Reader, Searched, NextSection,
         section \in {"search", "searchdir"}
  PROVE  /\ asked.tool = "search" => SearchTodo' /\ SearchSeen'
         /\ asked.tool = "searchdir" => DirSeen'
<1>1. /\ section' = "done" /\ Ahead = {} /\ Reading
      /\ UNCHANGED <<asked, window, told, vars>>
  BY NothingAhead, AfterEach DEF NextSection, Enter, Reading
<1>2. /\ \A i : Queued(i)' = Queued(i) /\ Executed(i)' = Executed(i)
                /\ (Inside(i)' <=> Inside(i))
      /\ \A i : Shown("search")' = Shown("search")
  BY <1>1, SameFiles DEF Shown
<1>3. \A i : Other(i)' <=> Other(i)
  BY <1>1, <1>2 DEF Other
<1>4. asked.tool = "search" => SearchTodo' /\ SearchSeen'
  <2> SUFFICES ASSUME asked.tool = "search"
               PROVE  SearchTodo' /\ SearchSeen'
    OBVIOUS
  <2>1. section = "search" /\ SearchSeen
    <3>1. section # "searchdir"
      BY SectionsOf DEF Reader
    <3> QED BY <1>1, <3>1 DEF Searched
  <2>2. SearchTodo'
    BY <1>1 DEF SearchTodo
  <2>3. SearchSeen'
    BY <1>1, <1>2, <1>3, <2>1 DEF SearchSeen, SearchFound
  <2> QED BY <2>2, <2>3
<1>5. asked.tool = "searchdir" => DirSeen'
  BY <1>1, <1>2, <1>3 DEF Searched, DirSeen
<1> QED BY <1>4, <1>5

\* search looks for a file: the queued one of an id, or its .exec file.
LEMMA SearchLook ==
  ASSUME Server, Reader, Searched, Look, section = "search",
         asked.tool = "search"
  PROVE  SearchTodo' /\ SearchSeen'
<1>t. ReaderTyped /\ todo \in Seq(FileSet)
  BY DEF Reader, ReaderTyped
<1>1. /\ Reading /\ section' = section /\ todo # <<>>
      /\ UNCHANGED <<asked, window, told, vars>>
  BY DEF Look, Stay, Reading
<1>l. SearchTodo /\ SearchSeen
  BY <1>1 DEF Searched
<1>2. /\ \A i : Queued(i)' = Queued(i) /\ Executed(i)' = Executed(i)
                /\ (Inside(i)' <=> Inside(i))
      /\ Shown("search")' = Shown("search")
  BY <1>1, SameFiles DEF Shown
<1>3. \A i : Other(i)' <=> Other(i)
  BY <1>1, <1>2 DEF Other
<1> DEFINE h == todo[1]
<1>4. /\ Head(todo) = h /\ 1 \in DOMAIN todo /\ h \in FileSet
      /\ h.id \in Ids /\ h = File(h.dir, h.id) /\ h.dir \in {"queue", "exec"}
  <2>1. Head(todo) = h /\ 1 \in DOMAIN todo /\ h \in FileSet
    BY <1>1, <1>t, Rest
  <2> QED BY <2>1 DEF FileSet, File
<1>5. CASE UNCHANGED todo
  <2>1. Ahead' = Ahead
    BY <1>5 DEF Ahead
  <2>2. SearchTodo'
    BY <1>2, <1>5, <1>l, <1>1 DEF SearchTodo, AheadInside
  <2> QED BY <1>1, <1>2, <1>3, <1>l, <2>1, <2>2 DEF SearchSeen, SearchFound
<1>6. CASE h.dir = "queue" /\ Content(h) = None
           /\ todo' = <<File("exec", h.id)>> \o Tail(todo)
  <2>1. File("exec", h.id) \in FileSet /\ File("exec", h.id).id = h.id
    BY <1>4 DEF File, FileSet
  <2>2. /\ DOMAIN todo' = DOMAIN todo /\ todo'[1] = File("exec", h.id)
        /\ \A n \in DOMAIN todo : n # 1 => todo'[n] = todo[n]
    BY <1>1, <1>6, <1>t, <2>1, Replaced
  <2>3. \A n \in DOMAIN todo : todo'[n].id = todo[n].id
    BY <2>1, <2>2
  <2>4. Queued(h.id) = None
    BY <1>4, <1>6, <1>1, <1>t, ContentOf
  <2>5. SearchTodo'
    <3>1. AheadInside'
      BY <1>1, <1>2, <1>l, <2>2, <2>3 DEF SearchTodo, AheadInside
    <3>2. PICK j : j = h.id
      OBVIOUS
    <3>3. \A n \in DOMAIN todo' : todo'[n].dir = "exec" =>
            n = 1 /\ todo'[n].id = j
      BY <1>1, <1>l, <2>1, <2>2, <3>2 DEF SearchTodo
    <3>4. Queued(j)' = None
      BY <1>2, <2>4, <3>2
    <3> QED BY <3>1, <3>3, <3>4 DEF SearchTodo
  <2>6. Ahead' = Ahead
    BY <2>2, <2>3 DEF Ahead
  <2> QED BY <1>1, <1>2, <1>3, <1>l, <2>5, <2>6 DEF SearchSeen, SearchFound
<1>7. CASE h.dir = "exec" /\ Content(h) = None /\ todo' = Tail(todo)
  <2>1. Other(h.id)
    BY <1>1, <1>4, <1>7, <1>l, <1>t, LookedAt DEF SearchTodo
  <2>2. SearchTodo'
    BY <1>1, <1>2, <1>7, <1>l, <1>t, SearchRest DEF Reader
  <2>3. \A i : i \in Ahead => i = h.id \/ i \in Ahead'
    BY <1>1, <1>7, <1>t, AheadRest
  <2> QED BY <1>1, <1>2, <1>3, <1>l, <2>1, <2>2, <2>3
      DEF SearchSeen, SearchFound
<1>8. \/ UNCHANGED todo
      \/ h.dir = "queue" /\ Content(h) = None
           /\ todo' = <<File("exec", h.id)>> \o Tail(todo)
      \/ h.dir = "exec" /\ Content(h) = None /\ todo' = Tail(todo)
  <2>1. FirstLook = "queue" /\ SecondLook = "exec"
    BY DEF FirstLook, SecondLook
  <2> QED BY <1>4, <2>1 DEF Look, Stay
<1> QED BY <1>5, <1>6, <1>7, <1>8

\* The command of a file is compared with the one that is looked for.
LEMMA SearchCompare ==
  ASSUME Server, Reader, Searched, Compare
  PROVE  /\ asked.tool = "search" => SearchTodo' /\ SearchSeen'
         /\ asked.tool = "searchdir" => DirSeen'
<1>t. /\ ReaderTyped /\ WindowTrue /\ todo \in Seq(FileSet)
      /\ told \in Seq(Line)
  BY DEF Reader, ReaderTyped
<1>1. /\ section \in {"search", "searchdir"} /\ Opening /\ Reading
      /\ Content(Opened) # None
      /\ UNCHANGED <<asked, window, pri, vars>>
  BY DEF Compare, Read, Reading
<1>2. /\ \A i : Queued(i)' = Queued(i) /\ Executed(i)' = Executed(i)
                /\ (Inside(i)' <=> Inside(i))
  BY <1>1, SameFiles
<1>3. \A i : Other(i)' <=> Other(i)
  BY <1>1, <1>2 DEF Other
<1>4. /\ Opened = todo[1] /\ todo # <<>> /\ Opened \in FileSet
      /\ Opened.id \in Ids
  BY <1>1, <1>t, OpenedFirst, ContentType
<1> DEFINE x == [section |-> section, id |-> Opened.id,
                 sub |-> Content(Opened)]
<1>5. x \in Line /\ x.section = section /\ x.id = Opened.id
      /\ x.sub = Content(Opened)
  BY <1>1, <1>t, LineType DEF Loops
<1>6. \A i : todo' = Tail(todo) /\ i \in Ahead =>
        i = todo[1].id \/ i \in Ahead'
  BY <1>4, <1>t, AheadRest
<1>7. ~Wanted(Content(Opened)) => /\ Other(Opened.id) /\ UNCHANGED told
                                  /\ section' = section /\ todo' = Tail(todo)
  <2>1. ~Wanted(Content(Opened)) => Other(Opened.id)
    BY <1>1, <1>4, <1>t, LookedAt
  <2> QED BY <2>1 DEF Compare, Stay
<1>8. Wanted(Content(Opened)) =>
        /\ told' = Append(told, x)
        /\ section = "search" => section' = section /\ todo' = Tail(todo)
        /\ section # "search" => section' = "done"
  BY DEF Compare, Tell, Stay, Enter
<1> HIDE DEF x
<1>9. CASE section = "search"
  <2>1. asked.tool = "search"
    BY <1>9, <1>t, SectionsOf
  <2>2. SearchTodo /\ SearchSeen /\ section' = section /\ todo' = Tail(todo)
    BY <1>1, <1>7, <1>8, <1>9, <2>1 DEF Searched
  <2>3. SearchTodo'
    <3>1. Reader
      OBVIOUS
    <3> QED BY <1>1, <1>4, <1>9, <2>2, <3>1, SearchRest
  <2>4. \A i : i \in Shown("search") => i \in Shown("search")'
    <3>1. CASE Wanted(Content(Opened))
      BY <1>5, <1>8, <1>t, <3>1, ShownMore
    <3>2. CASE ~Wanted(Content(Opened))
      BY <1>7, <3>2 DEF Shown
    <3> QED BY <3>1, <3>2
  <2>5. Opened.id \in Shown("search")' \/ Other(Opened.id)
    <3>1. CASE Wanted(Content(Opened))
      BY <1>5, <1>8, <1>9, <1>t, <3>1, ShownMore
    <3> QED BY <1>7, <3>1
  <2>6. SearchSeen'
    BY <1>1, <1>2, <1>3, <1>4, <1>6, <1>9, <2>2, <2>4, <2>5
      DEF SearchSeen, SearchFound
  <2> QED BY <2>1, <2>3, <2>6
<1>10. CASE section = "searchdir"
  <2>1. asked.tool = "searchdir"
    BY <1>10, <1>t, SectionsOf
  <2>2. DirSeen /\ told = <<>>
    BY <1>1, <1>10, <1>t, <2>1 DEF Searched, ReaderTyped
  <2>3. CASE Wanted(Content(Opened))
    <3>1. told' = Append(told, x) /\ x.sub.cmd = asked.cmd
      BY <1>5, <1>8, <2>3 DEF Wanted
    <3>2. told' = <<x>>
      BY <2>2, <3>1
    <3> QED BY <1>1, <2>1, <3>1, <3>2 DEF DirSeen
  <2>4. CASE ~Wanted(Content(Opened))
    <3>1. /\ Other(Opened.id) /\ UNCHANGED told
          /\ section' = section /\ todo' = Tail(todo)
      BY <1>7, <2>4
    <3>2. DirSeen'
      BY <1>1, <1>3, <1>4, <1>6, <1>10, <2>2, <3>1 DEF DirSeen
    <3> QED BY <2>1, <3>2
  <2> QED BY <2>3, <2>4
<1> QED BY <1>1, <1>9, <1>10

\* A directory is listed: what is not there is not of the command.
LEMMA SearchLists ==
  ASSUME Server, Reader, ListDir
  PROVE  DirSeen'
<1>t. ReaderTyped /\ section # "" /\ told = <<>>
  BY DEF Reader, ReaderTyped, ListDir
<1>1. /\ section' = "searchdir" /\ UNCHANGED <<asked, told, vars>>
      /\ todo' \in Orders(Listing({"queue", "exec"}))
  BY DEF ListDir, Enter, Files
<1>2. PICK s \in Orders(Listing({"queue", "exec"})) : todo' = s
  BY <1>1
<1>3. \A d \in {"queue", "exec"}, i \in Ids : Content(File(d, i)) # None =>
        \E n \in DOMAIN s : s[n] = File(d, i)
  <2>1. PICK dirs \in SUBSET {"queue", "exec"} : dirs = {"queue", "exec"}
    OBVIOUS
  <2>2. s \in Orders(Listing(dirs))
    BY <2>1
  <2>3. \A d \in dirs, i \in Ids : Content(File(d, i)) # None =>
          \E n \in DOMAIN s : s[n] = File(d, i)
    BY <2>2, ListedFiles
  <2> QED BY <2>1, <2>3
<1>4. \A i \in Ids : Queued(i)' = Queued(i) /\ Executed(i)' = Executed(i)
  BY <1>1 DEF Queued, Executed, vars
<1>5. ASSUME NEW i \in Ids PROVE Other(i)' \/ i \in Ahead'
  <2>1. /\ Queued(i) # None => Content(File("queue", i)) # None
        /\ Executed(i) # None => Content(File("exec", i)) # None
    BY <1>t, ContentOf
  <2>2. \A d : File(d, i).id = i
    BY DEF File
  <2>3. Queued(i) # None \/ Executed(i) # None => i \in Ahead'
    BY <1>2, <1>3, <2>1, <2>2 DEF Ahead
  <2> QED BY <1>4, <2>3 DEF Other
<1>6. told' = <<>> /\ section' = "searchdir"
  BY <1>1, <1>t
<1>7. \A n \in DOMAIN told' : FALSE
  <2>1. \A n \in DOMAIN <<>> : FALSE
    OBVIOUS
  <2> QED BY <1>6, <2>1
<1>8. \A i \in window'.wanted : i \in Ids
  BY DEF ListDir, Seen
<1> QED BY <1>5, <1>6, <1>7, <1>8 DEF DirSeen

\* What was wanted when the command looked is of the command.
LEMMA WantedLeft ==
  ASSUME Server, ReaderTyped, GetSeq \/ ListDir
  PROVE  AllLeft'
<1>1. /\ section # "" /\ window' = Seen /\ UNCHANGED <<asked, vars>>
      /\ asked.pool \in Pools
  BY AskedPool DEF GetSeq, ListDir
<1>2. /\ window'.next = next[asked.pool]
      /\ window'.wanted = {i \in Ids : i < next[asked.pool] /\ ~Unwanted(i)}
  BY <1>1 DEF Seen
<1>3. ASSUME NEW i \in Ids, ~Unwanted(i) PROVE Left(i)'
  <2>1. ~Other(i)
    BY <1>1, <1>3, OtherIs
  <2>2. Queued(i)' = Queued(i) /\ Executed(i)' = Executed(i)
    BY <1>1 DEF Queued, Executed, vars
  <2>3. ~Other(i)'
    BY <1>1, <2>1, <2>2 DEF Other
  <2> QED BY <2>3 DEF Left
<1> QED BY <1>2, <1>3 DEF AllLeft

\* Searched is kept by every step of the commands.
LEMMA SearchedReaderStep ==
  ASSUME Server, Reader, Searched, ReaderStep
  PROVE  Searched'
<1>t. ReaderTyped /\ ReaderTyped'
  BY ReaderTypedStep DEF Reader
<1> SUFFICES ASSUME Reading'
             PROVE  /\ AllLeft'
                    /\ asked'.tool = "search" => SearchTodo' /\ SearchSeen'
                    /\ asked'.tool = "searchdir" => DirSeen'
  BY DEF Searched
<1>1. CASE GetSeq
  <2>1. section = "seq" /\ section' = "start" /\ asked' = asked
    BY <1>1 DEF GetSeq
  <2>2. asked.tool # "searchdir"
    BY <1>t, <2>1, SectionsOf
  <2>3. AllLeft'
    BY <1>1, <1>t, WantedLeft
  <2> QED BY <2>1, <2>2, <2>3 DEF SearchTodo, SearchSeen
<1>2. CASE ListDir
  <2>1. section = "dir" /\ asked' = asked
    BY <1>2 DEF ListDir
  <2>2. asked.tool # "search"
    BY <1>t, <2>1, SectionsOf
  <2> QED BY <1>2, <1>t, <2>1, <2>2, SearchLists, WantedLeft
<1>3. CASE ~GetSeq /\ ~ListDir
  <2>1. /\ Reading /\ asked' = asked /\ section # ""
        /\ UNCHANGED <<window, vars>>
    BY <1>3, WindowKept DEF Reading
  <2>a. AllLeft /\ AllLeft'
    <3>1. AllLeft
      BY <2>1 DEF Searched
    <3>2. \A i : Left(i)' <=> Left(i)
      BY <2>1 DEF Left, Other, Queued, Executed, Unwritten, Owns, Job, PoolOf,
        vars, procVars, localVars, treeVars
    <3> QED BY <2>1, <3>1, <3>2 DEF AllLeft
  <2> SUFFICES ASSUME asked.tool \in {"search", "searchdir"}
               PROVE  /\ asked.tool = "search" => SearchTodo' /\ SearchSeen'
                      /\ asked.tool = "searchdir" => DirSeen'
    BY <2>1, <2>a
  <2>2. /\ asked.tool = "search" => section \in {"start", "search", "done"}
        /\ asked.tool = "searchdir" => section \in {"searchdir", "done"}
    BY <1>t, <2>1, SectionsOf DEF Reading
  <2>3. NextSection \/ Look \/ Compare
    <3>1. ~Gone /\ ~GetPriority /\ ~Display
      BY <2>2 DEF GetPriority, Display, Read, Gone, Reading
    <3>2. ASSUME NEW q \in Questions, Ask(q) PROVE FALSE
      BY <1>t, <2>1, <3>2 DEF Ask, ReaderTyped
    <3> QED BY <1>3, <3>1, <3>2 DEF ReaderStep
  <2>4. CASE NextSection
    <3>1. section \in {"start", "search", "searchdir"}
      BY <2>2, <2>4 DEF NextSection
    <3> QED BY <2>2, <2>4, <2>a, <3>1, SearchBegins, SearchEnds
  <2>5. CASE Look
    <3>1. section = "search" => asked.tool = "search"
      BY <2>2
    <3>2. section \in {"search", "done"}
      BY <2>2, <2>5, <1>t DEF Look, ReaderTyped
    <3>3. section = "search" => SearchTodo' /\ SearchSeen'
      BY <2>5, <3>1, SearchLook
    <3>4. CASE section = "done"
      <4>1. section' = section /\ UNCHANGED <<asked, window, told, vars>>
        BY <2>5 DEF Look, Stay
      <4>2. /\ \A i : Queued(i)' = Queued(i) /\ Executed(i)' = Executed(i)
                      /\ (Inside(i)' <=> Inside(i))
            /\ Shown("search")' = Shown("search")
        BY <4>1, SameFiles DEF Shown
      <4>3. \A i : Other(i)' <=> Other(i)
        BY <4>1, <4>2 DEF Other
      <4>4. SearchTodo'
        BY <3>4, <4>1 DEF SearchTodo
      <4>5. asked.tool = "search" => SearchSeen'
        BY <2>1, <3>4, <4>1, <4>2, <4>3 DEF Searched, SearchSeen, SearchFound
      <4>6. asked.tool = "searchdir" => DirSeen'
        BY <2>1, <3>4, <4>1, <4>3 DEF Searched, DirSeen
      <4> QED BY <4>4, <4>5, <4>6
    <3> QED BY <2>2, <3>1, <3>2, <3>3, <3>4
  <2>6. CASE Compare
    BY <2>6, SearchCompare
  <2> QED BY <2>3, <2>4, <2>5, <2>6
<1> QED BY <1>1, <1>2, <1>3

\* What the searches have found at the end.
LEMMA SearchedTrue ==
  ASSUME Server, Reader, Searched
  PROVE  SearchFinds
<1> SUFFICES ASSUME section = "done"
             PROVE  SearchFinds
  BY DEF SearchFinds, Answered
<1>1. ReaderTyped /\ Reading /\ section # ""
  BY DEF Reader, Reading
<1>2. \A i \in Ids : Unwanted(i) <=> Other(i)
  BY <1>1, OtherIs
<1>a. \A i \in window.wanted : i \in Ids
  BY <1>1 DEF Searched, AllLeft
<1>3. asked.tool = "search" =>
        \A i \in window.wanted :
          Inside(i) => i \in Shown("search") \/ Unwanted(i)
  BY <1>1, <1>2, <1>a DEF Searched, SearchSeen, SearchFound
<1>4. asked.tool = "searchdir" =>
        /\ \A n \in DOMAIN told : Wanted(told[n].sub)
        /\ told = <<>> => \A i \in window.wanted : Unwanted(i)
  BY <1>1, <1>2, <1>a DEF Searched, DirSeen, Wanted
<1> QED BY <1>3, <1>4 DEF SearchFinds, Answered

-----------------------------------------------------------------------------
(* The specification.                                                      *)

ReadersStep == [ReadersNext]_<<readerVars, vars>>

\* A step of a reader is a stutter of DciQueue.
LEMMA ReadersTurn ==
  ASSUME ReadersStep
  PROVE  /\ [Next]_vars
         /\ ReaderStep \/ UNCHANGED readerVars
<1>1. ReaderStep => UNCHANGED vars
  BY DEF ReaderStep, Ask, GetSeq, ListDir, NextSection, Look, Gone,
    GetPriority, Display, Compare
<1> QED BY <1>1 DEF ReadersStep, ReadersNext

\* The readers only read: every behaviour is one of DciQueue.
THEOREM ReadersImplementQueue == ReadersSpec => Spec
<1>1. ReadersInit => Init
  BY DEF ReadersInit
<1>2. ReadersStep => [Next]_vars
  BY ReadersTurn
<1> QED BY <1>1, <1>2, PTL DEF ReadersSpec, Spec, ReadersStep

\* What holds of the queue and of the reader.
LEMMA ReaderCorrect == ReadersSpec => [](Server /\ Reader)
<1>1. ReadersInit => Launched /\ Recorded /\ Capped /\ Reader
  <2> SUFFICES ASSUME ReadersInit
               PROVE  Launched /\ Recorded /\ Capped /\ Reader
    OBVIOUS
  <2>1. Launched /\ Recorded /\ Capped
    <3>1. /\ \A r \in Procs : pc[r] = "idle"
          /\ \A p \in Pools : next[p] = 1
      BY DEF ReadersInit, Init
    <3>2. 1 <= MaxId + 1
      OBVIOUS
    <3> QED BY <3>1, <3>2 DEF Launched, Recorded, Capped
  <2>2. /\ <<>> \in Seq(FileSet) /\ <<>> \in Seq(Line)
        /\ [i \in Ids |-> 0] \in [Ids -> Int]
    OBVIOUS
  <2>3. Reader
    BY <2>2 DEF ReadersInit, Reader, ReaderTyped, WindowTrue, Reading
  <2> QED BY <2>1, <2>3
<1>2. ReadersSpec => []Queue
  <2>1. Spec => []Typed
    BY InitTyped, NextTyped, PTL DEF Spec
  <2>2. Inductive => Owned /\ Parents
    BY DEF Inductive
  <2>3. Queue <=> Typed /\ IdsOK /\ Owned /\ Parents
    BY DEF Queue
  <2> QED BY <2>1, <2>2, <2>3, IdsCorrect, InductiveCorrect,
    ReadersImplementQueue, PTL
<1>3. Server /\ Reader /\ ReadersStep => Server' /\ Reader'
  <2> SUFFICES ASSUME Server, Reader, ReadersStep
               PROVE  Server' /\ Reader'
    OBVIOUS
  <2>1. CASE ReaderStep
    BY <2>1, ReadersTurn, ServerStep, ReaderTypedStep, WindowTrueStep DEF Reader
  <2>2. CASE UNCHANGED readerVars
    BY <2>2, ReadersTurn, ServerStep, ReaderServerStep
  <2> QED BY <2>1, <2>2, ReadersTurn
<1>4. Queue /\ Launched /\ Recorded /\ Capped => Server
  BY DEF Server
<1> QED BY <1>1, <1>2, <1>3, <1>4, PTL DEF ReadersSpec, ReadersStep

\* Whatever is queued, consumed, unscheduled or ends while list reads, what it
\* prints is each job once, every job that was there and still is, and the
\* queued ones in the order in which they will be run.
THEOREM ListingTrueCorrect == ReadersSpec => []ListingTrue
<1>1. ReadersInit => Listed
  BY DEF ReadersInit, Listed, Reading
<1>2. Server /\ Reader /\ Listed /\ ReadersStep => Listed'
  BY ReadersTurn, ListedReaderStep, ListedServerStep
<1>3. Server /\ Reader /\ Listed => ListingTrue
  BY ListedTrue
<1> QED BY <1>1, <1>2, <1>3, ReaderCorrect, PTL DEF ReadersSpec, ReadersStep

\* A search that ends has missed no job that was of the command when it began
\* and still is, queued or consumed meanwhile.
THEOREM SearchFindsCorrect == ReadersSpec => []SearchFinds
<1>1. ReadersInit => Searched
  BY DEF ReadersInit, Searched, Reading
<1>2. Server /\ Reader /\ Searched /\ ReadersStep => Searched'
  BY ReadersTurn, SearchedReaderStep, SearchedServerStep
<1>3. Server /\ Reader /\ Searched => SearchFinds
  BY SearchedTrue
<1> QED BY <1>1, <1>2, <1>3, ReaderCorrect, PTL DEF ReadersSpec, ReadersStep
=============================================================================
