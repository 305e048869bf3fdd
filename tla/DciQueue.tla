------------------------------ MODULE DciQueue ------------------------------
(***************************************************************************)
(* dci-queue: commands queued on pools of resources and run, one resource  *)
(* of the pool per command, by short-lived processes that share nothing    *)
(* but a directory tree.                                                   *)
(*                                                                         *)
(*   pool/<p>/<res>        the resources of pool p                         *)
(*   available/<p>/<res>   a symlink per resource nobody uses              *)
(*   reason/<p>/<res>      why a resource was taken out of the pool        *)
(*   queue/<p>/.seq        {first, next}, the window of queued ids         *)
(*   queue/<p>/.seq.lck    the advisory lock of the pool                   *)
(*   queue/<p>/<i>         a queued submission                             *)
(*   queue/<p>/<i>.exec    a submission a runner has consumed              *)
(*                                                                         *)
(* One step of the model is one access to that tree that another process   *)
(* can see.  Several processes run this code on the same pool at a time:   *)
(* cron starts `dci-queue run p` every minute and a run lasts as long as   *)
(* its commands; `schedule`, `unschedule` and `remove-resource` come from  *)
(* users and from the commands themselves.                                 *)
(***************************************************************************)
EXTENDS Integers, Sequences, FiniteSets

CONSTANTS
  Pools,      \* the pools, all created by add-pool
  Resources,  \* names of resources
  Stock,      \* Stock[p]: the resources add-resource put in pool p
  Procs,      \* slots for dci-queue processes (run and schedule)
  MaxId,      \* bound: at most MaxId submissions are queued per pool
  Subs,       \* submissions: what a queue file holds
  Requests,   \* the invocations of `schedule` users may make
  RunPools,   \* the pools a crontab line runs
  Mortal,     \* the processes that may be killed
  Cancels,    \* the jobs somebody may unschedule
  Removals,   \* the invocations of `remove-resource` users may make
  None        \* no file, no process, no value

Ids == 1..MaxId
Jobs == Pools \X Ids
Tokens == Pools \X Resources

\* A command with its working directory, the -e, -r and -p options.
ASSUME SubsAssumption ==
  /\ \A s \in Subs : /\ s.extra \in Seq(STRING \cup Pools)
                     /\ s.remove \in BOOLEAN
                     /\ s.priority \in Int
  /\ None \notin Subs

ASSUME RequestsAssumption ==
  \A q \in Requests : /\ q.pool \in Pools
                      /\ q.sub \in Subs
                      /\ {q.force, q.block, q.console} \subseteq BOOLEAN

ASSUME ConstantsAssumption ==
  /\ MaxId \in Nat
  /\ Stock \in [Pools -> SUBSET Resources]
  /\ RunPools \subseteq Pools
  /\ Mortal \subseteq Procs
  /\ Cancels \subseteq Jobs
  /\ \A x \in Removals : x \in [pool : Pools, res : Resources, force : BOOLEAN]
  /\ None \notin Pools /\ None \notin Resources /\ None \notin Procs
  /\ None \notin Requests

\* Submissions whose extra pools exist: `schedule` queues no other.
Queueable == {s \in Subs : \A k \in DOMAIN s.extra : s.extra[k] \in Pools}

VARIABLES
  pool, avail, reason, \* per pool, the names in each directory
  first, next,         \* per pool, the .seq file
  queue,               \* per job, the submission queued or None
  exec,                \* per job, the content of its .exec file or None
  lock,                \* per pool, the process that holds .seq.lck
  child,               \* per job, the process that runs its command
  pc,                  \* per process, where it is
  inv, cur, book,      \* its locals: the invocation, the current job and
                       \* the booking or freeing of one resource
  held,                \* its booked_resources
  killing, removing    \* unschedule and remove-resource under way

dirVars   == <<pool, avail, reason>>
seqVars   == <<first, next>>
treeVars  == <<dirVars, seqVars, queue, exec>>
localVars == <<inv, cur, book>>
procVars  == <<pc, localVars, held>>
userVars  == <<killing, removing>>
vars == <<treeVars, lock, child, procVars, userVars>>

ExecFile == [sub : Queueable, res : Resources \cup {None}, pid : BOOLEAN]

ASSUME NoneAssumption == None \notin ExecFile

\* uses: the (pool, resource) pairs given to the command; by: its parent.
Child == [st : {"none", "running", "zombie", "gone"}, by : Procs \cup {None},
          sub : Queueable \cup {None}, uses : SUBSET Tokens]

PC == {"idle", "dup", "enqueue", "bump",
       "peek", "read", "check", "book", "try", "get", "rename", "advance",
       "remove", "write", "popen", "pid", "free", "link", "drop", "wait",
       "reaped", "blocked"}

\* bid is the id a `schedule -b` waits for: 0 without -b and -1 when the
\* submission was a duplicate and `queuefile` is not bound.  ret is the
\* RET_CODE dictionary: pairs <<key, id of the command>>.
Invocation ==
  [pool : Pools \cup {None}, req : Requests \cup {None},
   skipped : SUBSET Ids, bid : (-1)..MaxId, ret : SUBSET (Nat \X Ids)]

\* data and peek come from peek_next_command, idx from get_command (0 stands
\* for None), first and next from Seq.get, res is the primary resource and
\* after tells where to go once held is freed.
Current == [data : Subs \cup {None}, peek : 0..MaxId, idx : 0..MaxId,
            first : Nat, next : Nat, res : Resources \cup {None},
            after : {"peek", "drop", "wait"}]

\* The k-th booking, its listing of the symlinks, the pair being freed.
Booking == [k : Nat, listing : SUBSET Resources, tok : Tokens \cup {None}]

TypeOK ==
  /\ pool \in [Pools -> SUBSET Resources]
  /\ avail \in [Pools -> SUBSET Resources]
  /\ reason \in [Pools -> SUBSET Resources]
  /\ first \in [Pools -> Nat \ {0}]
  /\ next \in [Pools -> Nat \ {0}]
  /\ queue \in [Jobs -> Queueable \cup {None}]
  /\ exec \in [Jobs -> ExecFile \cup {None}]
  /\ lock \in [Pools -> Procs \cup {None}]
  /\ child \in [Jobs -> Child]
  /\ pc \in [Procs -> PC]
  /\ inv \in [Procs -> Invocation]
  /\ cur \in [Procs -> Current]
  /\ book \in [Procs -> Booking]
  /\ held \in [Procs -> SUBSET Tokens]
  /\ killing \in SUBSET Jobs
  /\ removing \in SUBSET Removals

Invoked(p, req, bid) ==
  [pool |-> p, req |-> req, skipped |-> {}, bid |-> bid, ret |-> {}]
Fresh(peek, idx, after) ==
  [data |-> None, peek |-> peek, idx |-> idx, first |-> 0, next |-> 0,
   res |-> None, after |-> after]
NoJob == Fresh(0, 0, "peek")
Booked(k) == [k |-> k, listing |-> {}, tok |-> None]
NoChild == [st |-> "none", by |-> None, sub |-> None, uses |-> {}]

Init ==
  /\ pool = Stock
  /\ avail = Stock
  /\ reason = [p \in Pools |-> {}]
  /\ first = [p \in Pools |-> 1]
  /\ next = [p \in Pools |-> 1]
  /\ queue = [c \in Jobs |-> None]
  /\ exec = [c \in Jobs |-> None]
  /\ lock = [p \in Pools |-> None]
  /\ child = [c \in Jobs |-> NoChild]
  /\ pc = [r \in Procs |-> "idle"]
  /\ inv = [r \in Procs |-> Invoked(None, None, 0)]
  /\ cur = [r \in Procs |-> NoJob]
  /\ book = [r \in Procs |-> Booked(0)]
  /\ held = [r \in Procs |-> {}]
  /\ killing = {}
  /\ removing = {}

-----------------------------------------------------------------------------
(* Helpers of the actions.                                                 *)

PoolOf(r) == inv[r].pool
Job(r) == <<PoolOf(r), cur[r].idx>>

\* r goes from one control point to another.
Step(r, from, to) == pc[r] = from /\ pc' = [pc EXCEPT ![r] = to]

\* Mutant of Acquire: lockf without LOCK_EX waits for nobody.
AcquireAnyway(r, p) == lock' = [lock EXCEPT ![p] = r]

\* Taking and releasing the lock of a pool: Seq.lock and Seq.unlock.
Acquire(r, p) == lock[p] = None /\ lock' = [lock EXCEPT ![p] = r]
Release(p) == lock' = [lock EXCEPT ![p] = None]

\* The locals of a process before it starts or when a new phase begins.
Begin(r, invocation, job) ==
  /\ inv' = [inv EXCEPT ![r] = invocation]
  /\ cur' = [cur EXCEPT ![r] = job]
  /\ book' = [book EXCEPT ![r] = Booked(0)]

Idle(r) ==
  /\ pc' = [pc EXCEPT ![r] = "idle"]
  /\ Begin(r, Invoked(None, None, 0), NoJob)

\* The end of a process, wanted or not: the kernel drops its lock, reaps its
\* zombies and leaves its running commands to init.
Orphan(ch) ==
  [ch EXCEPT !.by = None, !.st = IF ch.st = "zombie" THEN "gone" ELSE ch.st]

Exit(r) ==
  /\ lock' = [p \in Pools |-> IF lock[p] = r THEN None ELSE lock[p]]
  /\ child' = [c \in Jobs |->
                 IF child[c].by = r THEN Orphan(child[c]) ELSE child[c]]
  /\ Idle(r)
  /\ held' = [held EXCEPT ![r] = {}]
  /\ UNCHANGED <<treeVars, userVars>>

\* Mutant of Candidates: range(first, next - 1).
CandidatesShort(p) ==
  {i \in Ids : /\ first[p] <= i /\ i < next[p] - 1
               /\ queue[<<p, i>>] # None
               /\ queue[<<p, i>>].priority > -1}

\* The ids the loops over range(first, next) can retain: pri starts at -1.
Candidates(p) ==
  {i \in Ids : /\ first[p] <= i /\ i < next[p]
               /\ queue[<<p, i>>] # None
               /\ queue[<<p, i>>].priority > -1}

\* Mutants of Picks: the first job whatever its priority, and >= for >, the
\* last of the highest priority.
PicksFirst(p, i) ==
  IF i = 0 THEN Candidates(p) = {}
  ELSE i \in Candidates(p) /\ \A j \in Candidates(p) : i <= j

PicksLast(p, i) ==
  IF i = 0 THEN Candidates(p) = {}
  ELSE /\ i \in Candidates(p)
       /\ \A j \in Candidates(p) :
            \/ queue[<<p, j>>].priority < queue[<<p, i>>].priority
            \/ queue[<<p, j>>].priority = queue[<<p, i>>].priority /\ j <= i

\* i is the index the scan ends with: the first of the highest priority,
\* or 0 (None in the code) when there is nothing to retain.
Picks(p, i) ==
  IF i = 0 THEN Candidates(p) = {}
  ELSE /\ i \in Candidates(p)
       /\ \A j \in Candidates(p) :
            \/ queue[<<p, j>>].priority < queue[<<p, i>>].priority
            \/ queue[<<p, j>>].priority = queue[<<p, i>>].priority /\ i <= j

-----------------------------------------------------------------------------
(* dci-queue schedule.                                                     *)

\* Seq.lock and Seq.get.  The bound MaxId on the ids is a guard here.
ScheduleLock(r, q) ==
  /\ next[q.pool] <= MaxId
  /\ Step(r, "idle", "dup")
  /\ Acquire(r, q.pool)
  /\ Begin(r, Invoked(q.pool, q, 0),
           [data |-> q.sub, peek |-> 0, idx |-> next[q.pool],
            first |-> first[q.pool], next |-> next[q.pool],
            res |-> None, after |-> "peek"])
  /\ UNCHANGED <<treeVars, child, held, userVars>>

\* The same command from the same directory is queued or consumed.
Duplicated(r) ==
  \E i \in Ids : \/ /\ queue[<<PoolOf(r), i>>] # None
                    /\ queue[<<PoolOf(r), i>>].cmd = cur[r].data.cmd
                 \/ /\ exec[<<PoolOf(r), i>>] # None
                    /\ exec[<<PoolOf(r), i>>].sub.cmd = cur[r].data.cmd

\* Not queued twice, unless --force.
Refused(r) == ~inv[r].req.force /\ Duplicated(r)

\* Unlock; in block mode the same process then runs the queue.
ScheduleEnd(r, bid) ==
  /\ Release(PoolOf(r))
  /\ IF inv[r].req.block
       THEN /\ pc' = [pc EXCEPT ![r] = "peek"]
            /\ Begin(r, Invoked(PoolOf(r), inv[r].req, bid), NoJob)
       ELSE Idle(r)
  /\ UNCHANGED <<dirVars, exec, child, held, userVars>>

ScheduleDuplicate(r) ==
  /\ pc[r] = "dup"
  /\ Refused(r)
  /\ ScheduleEnd(r, -1)
  /\ UNCHANGED <<seqVars, queue>>

\* An extra pool that does not exist: unlock, return 1 even in block mode.
ScheduleUnknownPool(r) ==
  /\ pc[r] = "dup"
  /\ ~Refused(r)
  /\ cur[r].data \notin Queueable
  /\ Exit(r)

ScheduleAccepted(r) ==
  /\ Step(r, "dup", "enqueue")
  /\ ~Refused(r)
  /\ cur[r].data \in Queueable
  /\ UNCHANGED <<treeVars, lock, child, localVars, held, userVars>>

WriteQueueFile(r) ==
  /\ Step(r, "enqueue", "bump")
  /\ queue' = [queue EXCEPT ![Job(r)] = cur[r].data]
  /\ UNCHANGED <<dirVars, seqVars, exec, lock, child, localVars, held,
                 userVars>>

\* Mutant of BumpNext: the wrong sign.
BumpNextBack(r) ==
  /\ pc[r] = "bump"
  /\ first' = [first EXCEPT ![PoolOf(r)] = cur[r].first]
  /\ next' = [next EXCEPT ![PoolOf(r)] = cur[r].idx - 1]
  /\ ScheduleEnd(r, cur[r].idx)
  /\ UNCHANGED queue

\* Seq.set with the values read when the lock was taken, then unlock.
BumpNext(r) ==
  /\ pc[r] = "bump"
  /\ first' = [first EXCEPT ![PoolOf(r)] = cur[r].first]
  /\ next' = [next EXCEPT ![PoolOf(r)] = cur[r].idx + 1]
  /\ ScheduleEnd(r, cur[r].idx)
  /\ UNCHANGED queue

\* schedule -b after each run of the queue: sleep and run it again while the
\* file is there, otherwise return RET_CODE[idx]; `queuefile` is unbound
\* after a duplicate.  A return and an exception both end the process.
BlockAgain(r) ==
  /\ Step(r, "blocked", "peek")
  /\ inv[r].bid > 0 /\ queue[<<PoolOf(r), inv[r].bid>>] # None
  /\ inv' = [inv EXCEPT ![r].skipped = {}]
  /\ UNCHANGED <<treeVars, lock, child, cur, book, held, userVars>>

BlockReturn(r) ==
  /\ pc[r] = "blocked"
  /\ inv[r].bid > 0 => queue[<<PoolOf(r), inv[r].bid>>] = None
  /\ Exit(r)

-----------------------------------------------------------------------------
(* dci-queue run: choosing a job and booking its resources.                *)

StartRun(r, p) ==
  /\ Step(r, "idle", "peek")
  /\ Begin(r, Invoked(p, None, 0), NoJob)
  /\ UNCHANGED <<treeVars, lock, child, held, userVars>>

\* Mutant of Peek: it prefers the last job of a priority, get_command the
\* first.
PeekLast(r) ==
  /\ pc[r] = "peek"
  /\ lock[PoolOf(r)] = None
  /\ \E i \in 0..MaxId :
       /\ PicksLast(PoolOf(r), i)
       /\ cur' = [cur EXCEPT ![r] = Fresh(i, 0, "peek")]
       /\ IF i = 0 \/ i \in inv[r].skipped
            THEN pc' = [pc EXCEPT ![r] = "wait"]
            ELSE pc' = [pc EXCEPT ![r] = "read"]
  /\ book' = [book EXCEPT ![r] = Booked(1)]
  /\ UNCHANGED <<treeVars, lock, child, inv, held, userVars>>

\* peek_next_command, under the lock, and the two breaks that follow it.
Peek(r) ==
  /\ pc[r] = "peek"
  /\ lock[PoolOf(r)] = None
  /\ \E i \in 0..MaxId :
       /\ Picks(PoolOf(r), i)
       /\ cur' = [cur EXCEPT ![r] = Fresh(i, 0, "peek")]
       /\ IF i = 0 \/ i \in inv[r].skipped
            THEN pc' = [pc EXCEPT ![r] = "wait"]
            ELSE pc' = [pc EXCEPT ![r] = "read"]
  /\ book' = [book EXCEPT ![r] = Booked(1)]
  /\ UNCHANGED <<treeVars, lock, child, inv, held, userVars>>

\* The peeked file is opened without the lock: it may be gone.
ReadData(r) ==
  /\ Step(r, "read", "check")
  /\ queue[<<PoolOf(r), cur[r].peek>>] # None
  /\ cur' = [cur EXCEPT ![r].data = queue[<<PoolOf(r), cur[r].peek>>]]
  /\ UNCHANGED <<treeVars, lock, child, inv, book, held, userVars>>

ReadMissing(r) ==
  /\ pc[r] = "read"
  /\ queue[<<PoolOf(r), cur[r].peek>>] = None
  /\ Exit(r)

Extras(r) == Len(cur[r].data.extra)

\* The k-th booking: the runner's pool for 0, the k-th extra pool after.
Target(r) == IF book[r].k = 0 THEN PoolOf(r) ELSE cur[r].data.extra[book[r].k]

\* has_available_resource on the k-th extra pool, before anything is booked.
CheckExtra(r) ==
  /\ Step(r, "check", "check")
  /\ book[r].k <= Extras(r)
  /\ avail[Target(r)] # {}
  /\ book' = [book EXCEPT ![r].k = book[r].k + 1]
  /\ UNCHANGED <<treeVars, lock, child, inv, cur, held, userVars>>

\* Mutant of SkipJob: the job is not remembered as skipped.
SkipForgotten(r) ==
  /\ Step(r, "check", "peek")
  /\ book[r].k <= Extras(r)
  /\ avail[Target(r)] = {}
  /\ UNCHANGED <<treeVars, lock, child, localVars, held, userVars>>

SkipJob(r) ==
  /\ Step(r, "check", "peek")
  /\ book[r].k <= Extras(r)
  /\ avail[Target(r)] = {}
  /\ inv' = [inv EXCEPT ![r].skipped = inv[r].skipped \cup {cur[r].peek}]
  /\ UNCHANGED <<treeVars, lock, child, cur, book, held, userVars>>

CheckDone(r) ==
  /\ Step(r, "check", "book")
  /\ book[r].k > Extras(r)
  /\ book' = [book EXCEPT ![r] = Booked(0)]
  /\ UNCHANGED <<treeVars, lock, child, inv, cur, held, userVars>>

\* book_resource lists the symlinks ...
BookList(r) ==
  /\ Step(r, "book", "try")
  /\ book[r].k <= Extras(r)
  /\ book' = [book EXCEPT ![r].listing = avail[Target(r)]]
  /\ UNCHANGED <<treeVars, lock, child, inv, cur, held, userVars>>

\* Mutant of BookTake: a symlink that has gone meanwhile is no failure.
BookTakeUnchecked(r) ==
  /\ pc[r] = "try"
  /\ \E x \in book[r].listing :
       /\ avail' = [avail EXCEPT ![Target(r)] = avail[Target(r)] \ {x}]
       /\ held' = [held EXCEPT ![r] = held[r] \cup {<<Target(r), x>>}]
       /\ book' = [book EXCEPT ![r] = Booked(book[r].k + 1)]
       /\ IF book[r].k = 0
            THEN /\ pc' = [pc EXCEPT ![r] = "get"]
                 /\ cur' = [cur EXCEPT ![r].res = x]
            ELSE /\ pc' = [pc EXCEPT ![r] = "book"]
                 /\ UNCHANGED cur
  /\ UNCHANGED <<pool, reason, seqVars, queue, exec, lock, child, inv,
                 userVars>>

\* ... and removes the first that is still there.
BookTake(r) ==
  /\ pc[r] = "try"
  /\ \E x \in book[r].listing \cap avail[Target(r)] :
       /\ avail' = [avail EXCEPT ![Target(r)] = avail[Target(r)] \ {x}]
       /\ held' = [held EXCEPT ![r] = held[r] \cup {<<Target(r), x>>}]
       /\ book' = [book EXCEPT ![r] = Booked(book[r].k + 1)]
       /\ IF book[r].k = 0
            THEN /\ pc' = [pc EXCEPT ![r] = "get"]
                 /\ cur' = [cur EXCEPT ![r].res = x]
            ELSE /\ pc' = [pc EXCEPT ![r] = "book"]
                 /\ UNCHANGED cur
  /\ UNCHANGED <<pool, reason, seqVars, queue, exec, lock, child, inv,
                 userVars>>

BookMissed(r) ==
  /\ Step(r, "try", "try")
  /\ \E x \in book[r].listing \ avail[Target(r)] :
       book' = [book EXCEPT ![r].listing = book[r].listing \ {x}]
  /\ UNCHANGED <<treeVars, lock, child, inv, cur, held, userVars>>

\* Nothing left: break for the primary; for an extra pool give back what was
\* booked and continue, whatever has become of the consumed job.
BookFailed(r) ==
  /\ pc[r] = "try" /\ book[r].listing = {}
  /\ IF book[r].k = 0 THEN pc' = [pc EXCEPT ![r] = "wait"]
                      ELSE pc' = [pc EXCEPT ![r] = "free"]
  /\ cur' = [cur EXCEPT ![r].after = "peek"]
  /\ UNCHANGED <<treeVars, lock, child, inv, book, held, userVars>>

\* get_command: lock, scan again, rename what the second scan finds,
\* advance first when it is its id, unlock.
GetLock(r) ==
  /\ Step(r, "get", "rename")
  /\ Acquire(r, PoolOf(r))
  /\ \E i \in Ids :
       /\ Picks(PoolOf(r), i)
       /\ cur' = [cur EXCEPT ![r] =
            [data |-> cur[r].data, peek |-> cur[r].peek, idx |-> i,
             first |-> first[PoolOf(r)], next |-> next[PoolOf(r)],
             res |-> cur[r].res, after |-> cur[r].after]]
  /\ UNCHANGED <<treeVars, child, inv, book, held, userVars>>

\* The second scan finds nothing: to_exec and idx are None.
GetNothing(r) ==
  /\ Step(r, "get", "book")
  /\ lock[PoolOf(r)] = None
  /\ Picks(PoolOf(r), 0)
  /\ UNCHANGED <<treeVars, lock, child, localVars, held, userVars>>

\* Mutant of GetRename: first is advanced whatever the id.
GetRenameAlways(r) ==
  /\ Step(r, "rename", "advance")
  /\ queue[Job(r)] # None
  /\ exec' = [exec EXCEPT ![Job(r)] =
                [sub |-> queue[Job(r)], res |-> None, pid |-> FALSE]]
  /\ queue' = [queue EXCEPT ![Job(r)] = None]
  /\ UNCHANGED <<dirVars, seqVars, lock, child, localVars, held, userVars>>

GetRename(r) ==
  /\ pc[r] = "rename"
  /\ queue[Job(r)] # None
  /\ exec' = [exec EXCEPT ![Job(r)] =
                [sub |-> queue[Job(r)], res |-> None, pid |-> FALSE]]
  /\ queue' = [queue EXCEPT ![Job(r)] = None]
  /\ IF cur[r].idx = cur[r].first
       THEN pc' = [pc EXCEPT ![r] = "advance"] /\ UNCHANGED lock
       ELSE pc' = [pc EXCEPT ![r] = "book"] /\ Release(PoolOf(r))
  /\ UNCHANGED <<dirVars, seqVars, child, localVars, held, userVars>>

\* An unschedule without the lock got there first.
GetMissing(r) ==
  /\ pc[r] = "rename"
  /\ queue[Job(r)] = None
  /\ Exit(r)

\* Mutant of GetAdvance: the window is emptied, as after its only job.
GetAdvanceEmpties(r) ==
  /\ Step(r, "advance", "book")
  /\ first' = [first EXCEPT ![PoolOf(r)] = cur[r].idx + 1]
  /\ next' = [next EXCEPT ![PoolOf(r)] = cur[r].idx + 1]
  /\ Release(PoolOf(r))
  /\ UNCHANGED <<dirVars, queue, exec, child, localVars, held, userVars>>

GetAdvance(r) ==
  /\ Step(r, "advance", "book")
  /\ first' = [first EXCEPT ![PoolOf(r)] = cur[r].idx + 1]
  /\ next' = [next EXCEPT ![PoolOf(r)] = cur[r].next]
  /\ Release(PoolOf(r))
  /\ UNCHANGED <<dirVars, queue, exec, child, localVars, held, userVars>>

-----------------------------------------------------------------------------
(* dci-queue run: starting the command.                                    *)

BookDone(r) ==
  /\ pc[r] = "book"
  /\ book[r].k > Extras(r)
  /\ IF cur[r].data.remove
       THEN pc' = [pc EXCEPT ![r] = "remove"]
       ELSE pc' = [pc EXCEPT ![r] = "write"]
  /\ UNCHANGED <<treeVars, lock, child, localVars, held, userVars>>

\* schedule -r: the resource leaves the pool when the job starts.
RemoveBooked(r) ==
  /\ Step(r, "remove", "write")
  /\ pool' = [pool EXCEPT ![PoolOf(r)] = pool[PoolOf(r)] \ {cur[r].res}]
  /\ UNCHANGED <<avail, reason, seqVars, queue, exec, lock, child, localVars,
                 held, userVars>>

\* json.dump of the data that was peeked into the .exec file.
Dump(r, hasPid) ==
  /\ exec' = [exec EXCEPT ![Job(r)] =
                [sub |-> cur[r].data, res |-> cur[r].res, pid |-> hasPid]]
  /\ UNCHANGED <<dirVars, seqVars, queue, lock, child, localVars, held,
                 userVars>>

WriteExec(r) ==
  /\ Step(r, "write", "popen")
  /\ cur[r].idx # 0
  /\ Dump(r, FALSE)

\* get_command found nothing and open(None, "w") raises TypeError.
WriteNowhere(r) ==
  /\ pc[r] = "write"
  /\ cur[r].idx = 0
  /\ Exit(r)

Popen(r) ==
  /\ Step(r, "popen", "pid")
  /\ child' = [child EXCEPT ![Job(r)] =
                 [st |-> "running", by |-> r, sub |-> cur[r].data,
                  uses |-> held[r]]]
  /\ held' = [held EXCEPT ![r] = {}]
  /\ UNCHANGED <<treeVars, lock, localVars, userVars>>

\* Mutant of PopenFailed: the resources are not given back.
PopenLeaks(r) ==
  /\ Step(r, "popen", "drop")
  /\ UNCHANGED <<treeVars, lock, child, localVars, held, userVars>>

\* chdir, the log file or Popen raises: free everything, remove the .exec.
PopenFailed(r) ==
  /\ Step(r, "popen", "free")
  /\ cur' = [cur EXCEPT ![r].after = "drop"]
  /\ UNCHANGED <<treeVars, lock, child, inv, book, held, userVars>>

\* Where the file cannot be written: WritePidFails of DciQueueAdmin.
WritePid(r) ==
  /\ Step(r, "pid", "peek")
  /\ Dump(r, TRUE)

-----------------------------------------------------------------------------
(* dci-queue run: freeing resources, waiting for the commands.             *)

\* free_resource, first half: does the pool still have the resource?
FreeCheck(r) ==
  /\ Step(r, "free", "link")
  /\ \E t \in held[r] : /\ t[2] \in pool[t[1]]
                        /\ book' = [book EXCEPT ![r].tok = t]
  /\ UNCHANGED <<treeVars, lock, child, inv, cur, held, userVars>>

FreeRemoved(r) ==
  /\ Step(r, "free", "free")
  /\ \E t \in held[r] : /\ t[2] \notin pool[t[1]]
                        /\ held' = [held EXCEPT ![r] = held[r] \ {t}]
  /\ UNCHANGED <<treeVars, lock, child, localVars, userVars>>

\* free_resource, second half: os.symlink, which fails if the link exists.
Freed(r) == book[r].tok

\* Mutant of FreeLink: the resource is available and still booked.
FreeKeeps(r) ==
  /\ Step(r, "link", "wait")
  /\ Freed(r)[2] \notin avail[Freed(r)[1]]
  /\ avail' = [avail EXCEPT ![Freed(r)[1]] =
                 avail[Freed(r)[1]] \cup {Freed(r)[2]}]
  /\ UNCHANGED <<pool, reason, seqVars, queue, exec, lock, child, localVars,
                 held, userVars>>

FreeLink(r) ==
  /\ Step(r, "link", "free")
  /\ Freed(r)[2] \notin avail[Freed(r)[1]]
  /\ avail' = [avail EXCEPT ![Freed(r)[1]] =
                 avail[Freed(r)[1]] \cup {Freed(r)[2]}]
  /\ held' = [held EXCEPT ![r] = held[r] \ {Freed(r)}]
  /\ UNCHANGED <<pool, reason, seqVars, queue, exec, lock, child, localVars,
                 userVars>>

FreeExists(r) ==
  /\ pc[r] = "link"
  /\ Freed(r)[2] \in avail[Freed(r)[1]]
  /\ Exit(r)

\* The link only exists when maintenance works on the pool (DciQueueAdmin):
\* otherwise what is booked is not available, as Exclusive says.
FreeSymlink(r) ==
  /\ pc[r] = "link"
  /\ IF Freed(r)[2] \in avail[Freed(r)[1]]
       THEN FreeExists(r) ELSE FreeLink(r)

FreeDone(r) ==
  /\ Step(r, "free", cur[r].after)
  /\ held[r] = {}
  /\ UNCHANGED <<treeVars, lock, child, localVars, held, userVars>>

\* os.remove(to_exec): at the end of the except clause, where the file is
\* there for neither unschedule nor clean removes one that holds no pid, and
\* after os.wait, where FileNotFoundError is ignored.
RemoveExec(r) ==
  /\ exec' = [exec EXCEPT ![Job(r)] = None]
  /\ UNCHANGED <<dirVars, seqVars, queue, lock, child, localVars, held,
                 userVars>>

DropExec(r) == Step(r, "drop", "peek") /\ RemoveExec(r)
CommandOver(r) == Step(r, "reaped", "free") /\ RemoveExec(r)

Alive == {"running", "zombie"}

\* The commands r has started and not waited for yet.
Commands(r) == {c \in Jobs : child[c].by = r /\ child[c].st \in Alive}

\* The key of RET_CODE: the id of the command with -C; without it the loop
\* that logs the environment has reused idx to number the booked resources.
RetKey(r, c) == IF inv[r].req # None /\ inv[r].req.console
                THEN c[2] ELSE 1 + Len(child[c].sub.extra)

\* os.wait, then RET_CODE[idx] = the exit status.
Reap(r) ==
  /\ Step(r, "wait", "reaped")
  /\ \E c \in Commands(r) :
       /\ child[c].st = "zombie"
       /\ child' = [child EXCEPT ![c] = [child[c] EXCEPT !.st = "gone",
                                                         !.by = None]]
       /\ held' = [held EXCEPT ![r] = child[c].uses]
       /\ cur' = [cur EXCEPT ![r] = Fresh(0, c[2], "wait")]
       /\ inv' = [inv EXCEPT ![r].ret =
                    {e \in inv[r].ret : e[1] # RetKey(r, c)}
                      \cup {<<RetKey(r, c), c[2]>>}]
  /\ UNCHANGED <<treeVars, lock, book, userVars>>

\* Nothing to wait for: the process ends, or goes on in block mode.
RunDone(r) ==
  /\ pc[r] = "wait"
  /\ Commands(r) = {}
  /\ inv[r].bid = 0
  /\ Exit(r)

BlockedRunDone(r) ==
  /\ Step(r, "wait", "blocked")
  /\ Commands(r) = {}
  /\ inv[r].bid # 0
  /\ UNCHANGED <<treeVars, lock, child, localVars, held, userVars>>

-----------------------------------------------------------------------------
(* The commands, the users and the faults.                                 *)

ChildExit(c) ==
  /\ child[c].st = "running"
  /\ child' = [child EXCEPT ![c].st =
                 IF child[c].by = None THEN "gone" ELSE "zombie"]
  /\ UNCHANGED <<treeVars, lock, procVars, userVars>>

\* unschedule, which takes no lock: the queue file ...
UnscheduleQueued(c) ==
  /\ queue[c] # None
  /\ queue' = [queue EXCEPT ![c] = None]
  /\ UNCHANGED <<dirVars, seqVars, exec, lock, child, procVars, userVars>>

\* ... or, when there is none, the process of the .exec file: SIGTERM, then
\* poll until the pid does not exist any more.  Without a pid, or when the
\* process is already gone, the command fails and changes nothing.
UnscheduleKill(c) ==
  /\ queue[c] = None
  /\ exec[c] # None
  /\ exec[c].pid
  /\ child[c].st \in Alive
  /\ killing' = killing \cup {c}
  /\ UNCHANGED <<treeVars, lock, child, procVars, removing>>

UnscheduleKilled(c) ==
  /\ c \in killing
  /\ child[c].st = "gone"
  /\ exec' = [exec EXCEPT ![c] = None]
  /\ killing' = killing \ {c}
  /\ UNCHANGED <<dirVars, seqVars, queue, lock, child, procVars, removing>>

\* 300 seconds are over.
UnscheduleTimeout(c) ==
  /\ c \in killing
  /\ killing' = killing \ {c}
  /\ UNCHANGED <<treeVars, lock, child, procVars, removing>>

\* remove-resource: the symlink first, then the resource and its reason.
RemoveLink(x) ==
  /\ x \notin removing
  /\ x.res \in pool[x.pool] \/ x.force
  /\ avail' = [avail EXCEPT ![x.pool] = avail[x.pool] \ {x.res}]
  /\ removing' = removing \cup {x}
  /\ UNCHANGED <<pool, reason, seqVars, queue, exec, lock, child, procVars,
                 killing>>

RemoveResource(x) ==
  /\ x \in removing
  /\ pool' = [pool EXCEPT ![x.pool] = pool[x.pool] \ {x.res}]
  /\ \/ x.force /\ reason' = [reason EXCEPT ![x.pool] =
                                reason[x.pool] \ {x.res}]
     \/ ~x.force /\ reason' = [reason EXCEPT ![x.pool] =
                                 reason[x.pool] \cup {x.res}]
  /\ removing' = removing \ {x}
  /\ UNCHANGED <<avail, seqVars, queue, exec, lock, child, procVars, killing>>

\* SIGKILL, the OOM killer, a closed terminal: r dies where it stands.
Die(r) == pc[r] # "idle" /\ Exit(r)

-----------------------------------------------------------------------------
ScheduleStep(r) ==
  \/ ScheduleDuplicate(r) \/ ScheduleUnknownPool(r) \/ ScheduleAccepted(r)
  \/ WriteQueueFile(r) \/ BumpNext(r) \/ BlockAgain(r) \/ BlockReturn(r)

BookStep(r) ==
  \/ Peek(r) \/ ReadData(r) \/ ReadMissing(r)
  \/ CheckExtra(r) \/ SkipJob(r) \/ CheckDone(r)
  \/ BookList(r) \/ BookTake(r) \/ BookMissed(r) \/ BookFailed(r)
  \/ GetLock(r) \/ GetNothing(r) \/ GetRename(r) \/ GetMissing(r)
  \/ GetAdvance(r)

LaunchStep(r) ==
  \/ BookDone(r) \/ RemoveBooked(r) \/ WriteExec(r) \/ WriteNowhere(r)
  \/ Popen(r) \/ PopenFailed(r) \/ WritePid(r)

WaitStep(r) ==
  \/ FreeCheck(r) \/ FreeRemoved(r) \/ FreeSymlink(r)
  \/ FreeDone(r) \/ DropExec(r) \/ CommandOver(r)
  \/ Reap(r) \/ RunDone(r) \/ BlockedRunDone(r)

\* A step of the program of process r, once started.
ProcStep(r) == ScheduleStep(r) \/ BookStep(r) \/ LaunchStep(r) \/ WaitStep(r)

Unschedule(c) == \/ UnscheduleQueued(c) \/ UnscheduleKill(c)
                 \/ UnscheduleKilled(c) \/ UnscheduleTimeout(c)

Next ==
  \/ \E r \in Procs : ProcStep(r)
  \/ \E r \in Procs, p \in RunPools : StartRun(r, p)
  \/ \E r \in Procs, q \in Requests : ScheduleLock(r, q)
  \/ \E c \in Jobs : ChildExit(c)
  \/ \E c \in Cancels : Unschedule(c)
  \/ \E x \in Removals : RemoveLink(x) \/ RemoveResource(x)
  \/ \E r \in Mortal : Die(r)

Spec == Init /\ [][Next]_vars

-----------------------------------------------------------------------------
(* Fairness: a started process keeps running, a command ends, a removal is *)
(* carried through, and cron starts a run of every pool again and again.   *)
(* Processes are treated strongly: one that polls the lock every second    *)
(* finds it free some day, since it is held for a few milliseconds.  So is *)
(* cron: the slots of Procs bound the model, and users who keep taking     *)
(* them do not stop it.  Nothing is promised of users and of kills.        *)

Fairness ==
  /\ \A r \in Procs : SF_vars(ProcStep(r))
  /\ \A p \in RunPools : SF_vars(\E r \in Procs : StartRun(r, p))
  /\ \A c \in Jobs : WF_vars(ChildExit(c))
  /\ \A x \in Removals : WF_vars(RemoveResource(x))

FairSpec == Spec /\ Fairness

-----------------------------------------------------------------------------
(* Properties.                                                             *)

\* A resource is in one place at most: available, booked by one process, or
\* used by one command that has not ended.  book_resource relies on
\* os.remove failing for all but one of the processes that saw the symlink,
\* and a command's resources must not be freed before it has been waited for.
Exclusive ==
  /\ \A r \in Procs : \A t \in held[r] : t[2] \notin avail[t[1]]
  /\ \A r, s \in Procs : r # s => held[r] \cap held[s] = {}
  /\ \A c \in Jobs : child[c].st \in Alive =>
       /\ \A t \in child[c].uses : t[2] \notin avail[t[1]]
       /\ \A r \in Procs : child[c].uses \cap held[r] = {}
       /\ \A d \in Jobs : /\ d # c
                          /\ child[d].st \in Alive
                          => child[c].uses \cap child[d].uses = {}

\* A command that runs was given one resource of its own pool and one more
\* for each -e option of the submission it runs, whatever the interleaving
\* of the bookings.
Demand(c, q) == Cardinality({k \in DOMAIN child[c].sub.extra :
                               child[c].sub.extra[k] = q})
                + IF q = c[1] THEN 1 ELSE 0

FullyEquipped ==
  \A c \in Jobs : child[c].st \in Alive =>
    \A q \in Pools :
      Cardinality({t \in child[c].uses : t[1] = q}) = Demand(c, q)

\* Every queued submission is in the window that peek and get scan, but for
\* the one being queued (or whose scheduler died before .seq was written).
\* get_command moves first only when it consumes the id first, and both ends
\* are written back from values read under the lock.
Reachable ==
  \A p \in Pools, i \in Ids :
    queue[<<p, i>>] # None => first[p] <= i /\ i <= next[p]

\* An accepted submission is never replaced by another, and its id is never
\* given out again: below next, a queue file only ever disappears.
NeverOverwritten ==
  [][\A p \in Pools, i \in Ids :
       i < next[p] => queue'[<<p, i>>] \in {queue[<<p, i>>], None}]_vars

\* The .seq file never goes back: no update is lost between two processes.
SeqMonotone ==
  [][\A p \in Pools : first'[p] >= first[p] /\ next'[p] >= next[p]]_vars

\* No job of p that is queued below next comes before job i.
Foremost(p, i) ==
  \A j \in Ids :
    j < next[p] /\ queue[<<p, j>>] # None =>
      \/ queue[<<p, j>>].priority < queue[<<p, i>>].priority
      \/ queue[<<p, j>>].priority = queue[<<p, i>>].priority /\ i <= j

\* A runner that consumes a job leaves no queued job of a higher priority
\* behind, and no earlier job of the same priority (README: "the highest the
\* priority, the soonest it'll be executed").
InOrder ==
  [][\A p \in Pools, i \in Ids :
       queue[<<p, i>>] # None /\ exec'[<<p, i>>] # None =>
         Foremost(p, i)]_vars

\* What is queued under an id was never consumed nor run before: ids are
\* unique for ever, as DCI_QUEUE_JOBID ("uniq id" in the README), the names
\* of the log files and `unschedule` assume.
QueuedIsFresh ==
  \A c \in Jobs : queue[c] # None => exec[c] = None /\ child[c].st = "none"

\* Launching a job leaves its command alone: an .exec file is only ever
\* rewritten with the submission that was queued under its id, so that
\* DCI_QUEUE_ID is the "id of the job" the command was given (README).  The
\* data is that of peek_next_command, the id that of get_command.
KeepsCommand ==
  [][\A c \in Jobs :
       exec[c] # None /\ exec'[c] # None => exec'[c].sub = exec[c].sub]_vars

\* A job whose extra resource cannot be booked is still queued afterwards
\* (test_partial_resource_booking_bug: "The job should still be in the queue
\* waiting for resources").
SkippedStaysQueued ==
  [][\A r \in Procs :
       pc[r] = "try" /\ pc'[r] = "free" /\ cur[r].idx # 0
         => queue[Job(r)] # None]_vars

\* The first job of a queue is consumed or unscheduled some day, unless one of
\* a higher priority overtakes it or a pool has lost its last resource: a job
\* waits only for those before it, that a runner skips for want of an extra
\* resource too, and never for one of a negative priority, which nobody
\* serves.  Better jobs that keep coming do starve it.
Waiting(c) == queue[c] # None /\ queue[c].priority >= 0

Served ==
  \A p \in Pools, i \in Ids :
    (Waiting(<<p, i>>) /\ Foremost(p, i))
      ~> (\/ ~Waiting(<<p, i>>) \/ ~Foremost(p, i)
          \/ \E q \in Pools : pool[q] = {})

\* Every resource that stays in its pool becomes available again and again:
\* none is lost to a job that failed to start, was skipped or has ended.
Returned ==
  \A t \in Tokens : []<>(t[2] \in pool[t[1]] => t[2] \in avail[t[1]])

\* Every process but a `schedule -b` ends, whatever it meets in the queue:
\* the loop over the jobs does not go round for ever on those it skips.
Blocking(r) == inv[r].req # None /\ inv[r].req.block

RunsEnd ==
  \A r \in Procs : (pc[r] # "idle" /\ ~Blocking(r)) ~> (pc[r] = "idle")

-----------------------------------------------------------------------------
(* What the invariants above rest on: the inductive invariant.             *)

Scheduling == {"dup", "enqueue", "bump"}
Launching == {"check", "book", "try", "get", "rename", "advance", "remove",
              "write", "popen", "pid"}

\* The locals of a process at each of its control points: they are set when
\* they are read, and what was read under the lock is still what .seq holds.
ProcOK(r) ==
  /\ pc[r] # "idle" => PoolOf(r) \in Pools
  /\ pc[r] \in Scheduling => /\ inv[r].req \in Requests
                             /\ cur[r].data \in Subs
                             /\ cur[r].idx = cur[r].next
  /\ pc[r] \in Scheduling \cup {"rename", "advance"} =>
       /\ lock[PoolOf(r)] = r
       /\ cur[r].first = first[PoolOf(r)]
       /\ cur[r].next = next[PoolOf(r)]
       /\ cur[r].idx # 0
  /\ pc[r] \in {"enqueue", "bump"} \cup Launching => cur[r].data \in Queueable
  /\ pc[r] \in {"read", "check"} => cur[r].peek # 0
  /\ pc[r] = "try" => book[r].k <= Len(cur[r].data.extra)
  /\ pc[r] = "link" => book[r].tok \in Tokens
  /\ pc[r] = "advance" => cur[r].idx = cur[r].first
  /\ pc[r] \in {"popen", "pid", "drop", "reaped"} => cur[r].idx # 0
  /\ pc[r] \in {"free", "link"} /\ cur[r].after = "drop" => cur[r].idx # 0

LocalsOK == \A r \in Procs : ProcOK(r)

\* What a process is about to free, it has booked.
Freeing == \A r \in Procs : pc[r] = "link" => book[r].tok \in held[r]

\* The points at which the id of the locals, when there is one, is the id that
\* get_command has consumed.
Holding == {"read"} \cup (Launching \ {"rename"})

\* Ids from next on are untouched, and the one a runner has consumed is below
\* next and not queued any more.
Window == \A p \in Pools : first[p] <= next[p]

Untouched ==
  \A c \in Jobs : next[c[1]] <= c[2] => exec[c] = None /\ child[c].st = "none"

Consumed ==
  \A r \in Procs :
    /\ pc[r] = "rename" => cur[r].idx < next[PoolOf(r)]
    /\ pc[r] \in Holding /\ cur[r].idx # 0 =>
         cur[r].idx < next[PoolOf(r)] /\ queue[Job(r)] = None

IdsOK == Reachable /\ QueuedIsFresh /\ Window /\ Untouched /\ Consumed

\* While the lock is held nobody queues a job before the one that was picked.
Chosen ==
  \A r \in Procs :
    pc[r] = "rename" /\ queue[Job(r)] # None => Foremost(PoolOf(r), cur[r].idx)

\* From the first booking to the start of the command, held is what the loop
\* over the extra pools has gone through; where no booking is under way a
\* process holds nothing.
Equipping == {"book", "try", "get", "rename", "advance", "remove", "write",
              "popen"}
EmptyHanded == {"idle", "peek", "read", "check", "pid", "drop", "wait",
                "blocked"} \cup Scheduling

FromPool(T, q) == {t \in T : t[1] = q}
Upto(e, n, q) == {k \in 1..n : e[k] = q}
ExtrasBooked(r, q) == Upto(cur[r].data.extra, book[r].k - 1, q)

ProcEquipped(r) ==
  /\ pc[r] \in Equipping =>
       /\ book[r].k <= Extras(r) + 1
       /\ IsFiniteSet(held[r])
       /\ \A q \in Pools :
            Cardinality(FromPool(held[r], q)) =
              Cardinality(ExtrasBooked(r, q))
                + IF q = PoolOf(r) /\ book[r].k > 0 THEN 1 ELSE 0
  /\ pc[r] \in {"get", "rename", "advance"} => book[r].k = 1
  /\ pc[r] \in {"remove", "write", "popen"} => book[r].k = Extras(r) + 1
  /\ pc[r] \in EmptyHanded => held[r] = {}

Equipped == \A r \in Procs : ProcEquipped(r)

\* From the renaming of the queue file to the start of the command, or to the
\* removal of the .exec file when it cannot be started, the id belongs to one
\* process.
Owns(r) ==
  /\ cur[r].idx # 0
  /\ \/ pc[r] \in (Holding \ {"pid"}) \cup {"drop"}
     \/ pc[r] \in {"free", "link"} /\ cur[r].after = "drop"

Owned ==
  /\ \A r \in Procs :
       /\ Owns(r) => exec[Job(r)] # None /\ child[Job(r)].st = "none"
       /\ pc[r] \in {"pid", "reaped"} => child[Job(r)].st # "none"
       /\ pc[r] = "reaped" => cur[r].after = "wait"
  /\ \A r, s \in Procs : r # s /\ Owns(r) /\ Owns(s) => Job(r) # Job(s)

\* A process waits for the commands of its own pool.
Parents ==
  \A c \in Jobs, r \in Procs :
    child[c].by = r => pc[r] \notin {"idle"} \cup Scheduling /\ PoolOf(r) = c[1]

\* The primary resource of a runner, from its booking to the start of the
\* command: it is booked, then written to the .exec file, then used.
Primary(r) == <<PoolOf(r), cur[r].res>>

HasPrimary(r) == \/ pc[r] \in Equipping \ {"book", "try"}
                 \/ pc[r] \in {"book", "try"} /\ book[r].k > 0

ProcRecorded(r) ==
  /\ HasPrimary(r) => Primary(r) \in held[r]
  /\ pc[r] = "popen" => exec[Job(r)].res = cur[r].res
  /\ pc[r] = "pid" => Primary(r) \in child[Job(r)].uses
  /\ pc[r] = "reaped" => child[Job(r)].st = "gone"

Recording == \A r \in Procs : ProcRecorded(r)

\* As long as a command runs, its .exec file is there and names the resource
\* of its pool that it uses: list, unschedule, clean and add-resource know of
\* a command and of what it uses from that file alone.
RunningRecorded ==
  \A c \in Jobs : child[c].st \in Alive =>
    exec[c] # None /\ <<c[1], exec[c].res>> \in child[c].uses

Inductive ==
  /\ LocalsOK /\ Freeing /\ Exclusive
  /\ IdsOK /\ Chosen
  /\ Equipped /\ FullyEquipped
  /\ Parents /\ Owned
  /\ Recording /\ RunningRecorded
=============================================================================
