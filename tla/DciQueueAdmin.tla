--------------------------- MODULE DciQueueAdmin ---------------------------
(***************************************************************************)
(* The maintenance of a dci-queue tree while it is in use: add-resource    *)
(* and clean, neither of which takes the lock of the pool, the reboot of   *)
(* the host, after which the crontab runs clean on every pool, next to the *)
(* runners it starts again, and a pid that cannot be written to its file.  *)
(***************************************************************************)
EXTENDS DciQueue

CONSTANTS
  Additions,   \* the (pool, resource) pairs somebody may add
  HandCleaned, \* the pools somebody may clean by hand
  Unlucky,     \* the processes that may fail to write a pid
  MaxReboots   \* bound on the number of reboots

ASSUME AdminAssumption ==
  /\ Additions \subseteq Tokens
  /\ HandCleaned \subseteq Pools
  /\ Unlucky \subseteq Procs
  /\ MaxReboots \in Nat

VARIABLES
  adding,   \* per pair being added, the next step of add-resource
  todo,     \* per pair being added, the .exec files it has still to look at
  sweep,    \* per pool, the clean: "no", "due" after a boot, "on", "failed"
  cleaning, \* per pool, the .exec files a clean has still to look at
  freeing,  \* per pool, the resource a clean is about to free
  reboots,  \* counts the reboots
  mishap    \* history, which no action reads: "none"; "shared", a clean has
            \* taken the file of a command from the runner that had waited for
            \* it, or an add-resource has linked what was somebody's;
            \* "unrecorded", the file of a command that runs was given up

addVars == <<adding, todo>>
cleanVars == <<sweep, cleaning, freeing>>
adminVars == <<addVars, cleanVars, reboots, mishap>>
allVars == <<vars, adminVars>>

AdminTypeOK ==
  /\ TypeOK
  /\ adding \in [Additions ->
                  {"no", "scan", "look", "symlink", "reason"}]
  /\ todo \in [Additions -> SUBSET Ids]
  /\ sweep \in [Pools -> {"no", "due", "on", "failed"}]
  /\ cleaning \in [Pools -> SUBSET Ids]
  /\ freeing \in [Pools -> Resources \cup {None}]
  /\ reboots \in 0..MaxReboots
  /\ mishap \in {"none", "shared", "unrecorded"}

AdminInit ==
  /\ Init
  /\ adding = [t \in Additions |-> "no"]
  /\ todo = [t \in Additions |-> {}]
  /\ sweep = [p \in Pools |-> "no"]
  /\ cleaning = [p \in Pools |-> {}]
  /\ freeing = [p \in Pools |-> None]
  /\ reboots = 0
  /\ mishap = "none"

\* The history of a step that gives away a resource which is not its own.
Shared(away) ==
  mishap' = IF away /\ mishap = "none" THEN "shared" ELSE mishap

ExecFiles(p) == {i \in Ids : exec[<<p, i>>] # None}

\* The .exec file of a command whose process was recorded and is no more (a
\* zombie still is), the resource that an .exec file names, and one that is
\* neither available, nor booked, nor used by a command.
Stale(c) == /\ exec[c] # None /\ exec[c].pid /\ exec[c].res # None
            /\ child[c].st = "gone"

Token(c) == <<c[1], exec[c].res>>

Leaked(t) ==
  /\ t[2] \notin avail[t[1]]
  /\ \A r \in Procs : t \notin held[r]
  /\ \A c \in Jobs : child[c].st \in Alive => t \notin child[c].uses

-----------------------------------------------------------------------------
(* add-resource.                                                           *)

AddStep(t, from, to) ==
  adding[t] = from /\ adding' = [adding EXCEPT ![t] = to]

AddCreate(t) ==
  /\ AddStep(t, "no", "scan")
  /\ pool' = [pool EXCEPT ![t[1]] = @ \cup {t[2]}]
  /\ UNCHANGED <<avail, reason, seqVars, queue, exec, lock, child, procVars,
                 userVars, todo, cleanVars, reboots, mishap>>

\* The .exec files of the pool itself are listed ...
AddList(t) ==
  /\ AddStep(t, "scan", "look")
  /\ todo' = [todo EXCEPT ![t] = ExecFiles(t[1])]
  /\ UNCHANGED <<vars, cleanVars, reboots, mishap>>

\* ... and opened in an order that listdir chooses.  One that has gone since,
\* or that has no "resource" yet, ends the command with an exception.
AddLook(t) ==
  /\ \E i \in todo[t] :
       LET file == exec[<<t[1], i>>] IN
       \/ /\ file # None => file.res = None
          /\ AddStep(t, "look", "no")
          /\ todo' = [todo EXCEPT ![t] = {}]
       \/ /\ file # None /\ file.res = t[2]
          /\ AddStep(t, "look", "reason")
          /\ todo' = [todo EXCEPT ![t] = {}]
       \/ /\ file # None /\ file.res \notin {None, t[2]}
          /\ AddStep(t, "look", "look")
          /\ todo' = [todo EXCEPT ![t] = @ \ {i}]
  /\ UNCHANGED <<vars, cleanVars, reboots, mishap>>

\* Nobody has t, and no clean will give it back.
Nobodys(t) == /\ Leaked(t) /\ freeing[t[1]] # t[2]
              /\ \A c \in Jobs : Stale(c) => Token(c) # t

\* No file names it: os.path.islink, then os.symlink, which raises on a link
\* made meanwhile.
AddCheckLink(t) ==
  /\ todo[t] = {}
  /\ \/ t[2] \in avail[t[1]] /\ AddStep(t, "look", "reason")
     \/ t[2] \notin avail[t[1]] /\ AddStep(t, "look", "symlink")
  /\ UNCHANGED <<vars, todo, cleanVars, reboots, mishap>>

AddLink(t) ==
  /\ \/ /\ t[2] \in avail[t[1]]
        /\ AddStep(t, "symlink", "no") /\ mishap' = mishap
     \/ /\ t[2] \notin avail[t[1]]
        /\ AddStep(t, "symlink", "reason") /\ Shared(~Nobodys(t))
  /\ avail' = [avail EXCEPT ![t[1]] = @ \cup {t[2]}]
  /\ UNCHANGED <<pool, reason, seqVars, queue, exec, lock, child, procVars,
                 userVars, todo, cleanVars, reboots>>

AddReason(t) ==
  /\ AddStep(t, "reason", "no")
  /\ reason' = [reason EXCEPT ![t[1]] = @ \ {t[2]}]
  /\ UNCHANGED <<pool, avail, seqVars, queue, exec, lock, child, procVars,
                 userVars, todo, cleanVars, reboots, mishap>>

AddResource(t) == \/ AddCreate(t) \/ AddList(t) \/ AddLook(t)
                  \/ AddCheckLink(t) \/ AddLink(t) \/ AddReason(t)

-----------------------------------------------------------------------------
(* clean: the .exec files are listed, then looked at one by one, with the  *)
(* runners at work.  A pool is cleaned by one process at a time.           *)

\* The listing: of the process that @reboot starts, at some moment after the
\* boot, or of a clean by hand.
CleanList(p) ==
  /\ \/ sweep[p] = "due"
     \/ sweep[p] \in {"no", "failed"} /\ p \in HandCleaned
  /\ sweep' = [sweep EXCEPT ![p] = "on"]
  /\ cleaning' = [cleaning EXCEPT ![p] = ExecFiles(p)]
  /\ UNCHANGED <<vars, addVars, freeing, reboots, mishap>>

\* The file has gone since the listing: open or unlink raises and the clean
\* is over.
CleanMissing(p) ==
  /\ freeing[p] = None
  /\ \E i \in cleaning[p] : exec[<<p, i>>] = None
  /\ sweep' = [sweep EXCEPT ![p] = "failed"]
  /\ cleaning' = [cleaning EXCEPT ![p] = {}]
  /\ UNCHANGED <<vars, addVars, freeing, reboots, mishap>>

CleanKeep(p) ==
  /\ freeing[p] = None
  /\ \E i \in cleaning[p] :
       /\ exec[<<p, i>>] # None /\ ~Stale(<<p, i>>)
       /\ cleaning' = [cleaning EXCEPT ![p] = @ \ {i}]
  /\ UNCHANGED <<vars, addVars, sweep, freeing, reboots, mishap>>

\* r has waited for the command of c and has not removed its .exec file yet:
\* it removes it next and frees what the command has used.
Returns(r, c) == pc[r] = "reaped" /\ Job(r) = c

Snatching(c) == Shared(\E r \in Procs : Returns(r, c))

\* Mutant of CleanDelete: the resource is not freed.
CleanForgets(p) ==
  /\ freeing[p] = None
  /\ \E i \in cleaning[p] :
       /\ Stale(<<p, i>>)
       /\ exec' = [exec EXCEPT ![<<p, i>>] = None]
       /\ cleaning' = [cleaning EXCEPT ![p] = @ \ {i}]
       /\ Snatching(<<p, i>>)
  /\ UNCHANGED <<dirVars, seqVars, queue, lock, child, procVars, userVars,
                 addVars, sweep, freeing, reboots>>

\* Mutant of CleanDelete: the file stays, and the next clean frees again.
CleanRepeats(p) ==
  /\ freeing[p] = None
  /\ \E i \in cleaning[p] :
       /\ Stale(<<p, i>>)
       /\ freeing' = [freeing EXCEPT ![p] = exec[<<p, i>>].res]
       /\ cleaning' = [cleaning EXCEPT ![p] = @ \ {i}]
       /\ Snatching(<<p, i>>)
  /\ UNCHANGED <<vars, addVars, sweep, reboots>>

\* open, json.load, os.kill and os.unlink are one step, that of the unlink: a
\* process that has gone stays so, and nobody writes a file that holds a pid
\* again.
CleanDelete(p) ==
  /\ freeing[p] = None
  /\ \E i \in cleaning[p] :
       /\ Stale(<<p, i>>)
       /\ exec' = [exec EXCEPT ![<<p, i>>] = None]
       /\ freeing' = [freeing EXCEPT ![p] = exec[<<p, i>>].res]
       /\ cleaning' = [cleaning EXCEPT ![p] = @ \ {i}]
       /\ Snatching(<<p, i>>)
  /\ UNCHANGED <<dirVars, seqVars, queue, lock, child, procVars, userVars,
                 addVars, sweep, reboots>>

\* free_resource of clean_cmd ...
CleanFree(p) ==
  /\ freeing[p] # None
  /\ freeing[p] \notin pool[p] \cap avail[p]
  /\ avail' = [avail EXCEPT ![p] = @ \cup ({freeing[p]} \cap pool[p])]
  /\ freeing' = [freeing EXCEPT ![p] = None]
  /\ UNCHANGED <<pool, reason, seqVars, queue, exec, lock, child, procVars,
                 userVars, addVars, sweep, cleaning, reboots, mishap>>

\* ... where an existing link raises and ends the clean.
CleanExists(p) ==
  /\ freeing[p] \in pool[p] \cap avail[p]
  /\ sweep' = [sweep EXCEPT ![p] = "failed"]
  /\ freeing' = [freeing EXCEPT ![p] = None]
  /\ cleaning' = [cleaning EXCEPT ![p] = {}]
  /\ UNCHANGED <<vars, addVars, reboots, mishap>>

CleanDone(p) ==
  /\ sweep[p] = "on" /\ cleaning[p] = {} /\ freeing[p] = None
  /\ sweep' = [sweep EXCEPT ![p] = "no"]
  /\ UNCHANGED <<vars, addVars, cleaning, freeing, reboots, mishap>>

CleanStep(p) == \/ CleanMissing(p) \/ CleanKeep(p) \/ CleanDelete(p)
                \/ CleanFree(p) \/ CleanExists(p) \/ CleanDone(p)

-----------------------------------------------------------------------------
\* WritePid, where the second open or json.dump raises (a full disk, say).
\* The command is one of `commands` by then: the except clause frees what it
\* uses and removes its .exec file, and os.wait will return it all the same.
\* An exception in any other place of a runner ends it, or is PopenFailed.
WritePidFails(r) ==
  /\ Step(r, "pid", "free")
  /\ cur' = [cur EXCEPT ![r].after = "drop"]
  /\ held' = [held EXCEPT ![r] = child[Job(r)].uses]
  /\ mishap' = "unrecorded"
  /\ UNCHANGED <<treeVars, lock, child, inv, book, userVars, addVars,
                 cleanVars, reboots>>

-----------------------------------------------------------------------------
\* No process survives, the directory tree does; cron starts a clean of each
\* pool for the @reboot line, which has not listed anything yet.
Reboot ==
  /\ reboots < MaxReboots
  /\ reboots' = reboots + 1
  /\ lock' = [p \in Pools |-> None]
  /\ child' = [c \in Jobs |->
       IF child[c].st \in Alive
         THEN [child[c] EXCEPT !.st = "gone", !.by = None] ELSE child[c]]
  /\ pc' = [r \in Procs |-> "idle"]
  /\ inv' = [r \in Procs |-> Invoked(None, None, 0)]
  /\ cur' = [r \in Procs |-> NoJob]
  /\ book' = [r \in Procs |-> Booked(0)]
  /\ held' = [r \in Procs |-> {}]
  /\ killing' = {}
  /\ removing' = {}
  /\ adding' = [t \in Additions |-> "no"]
  /\ todo' = [t \in Additions |-> {}]
  /\ sweep' = [p \in Pools |-> IF p \in RunPools THEN "due" ELSE "no"]
  /\ cleaning' = [p \in Pools |-> {}]
  /\ freeing' = [p \in Pools |-> None]
  /\ UNCHANGED <<treeVars, mishap>>

AdminNext ==
  \/ Next /\ UNCHANGED adminVars
  \/ \E t \in Additions : AddResource(t)
  \/ \E p \in Pools : CleanList(p) \/ CleanStep(p)
  \/ \E r \in Unlucky : WritePidFails(r)
  \/ Reboot

AdminSpec == AdminInit /\ [][AdminNext]_allVars

\* On top of the fairness of DciQueue, the clean that cron starts at the boot
\* and any clean that has started go on.
AdminFairSpec ==
  /\ AdminSpec
  /\ Fairness
  /\ \A p \in Pools : /\ WF_allVars(CleanStep(p))
                       /\ WF_allVars(sweep[p] = "due" /\ CleanList(p))

-----------------------------------------------------------------------------
(* Properties.                                                             *)

\* A reboot leaves the file of a command that was recorded: from then on, next
\* to the runners that cron starts again, the resource it names comes back to
\* its pool, unless the host goes down again or the clean of the boot raises,
\* on a file that a new runner has removed since the listing or on a link that
\* exists.  Only an add-resource of it would make it available too.
RecordedRecovered ==
  \A p \in Pools, x \in Resources, n \in 1..MaxReboots :
    (/\ \E i \in Ids : Stale(<<p, i>>) /\ Token(<<p, i>>) = <<p, x>>
     /\ sweep[p] = "due" /\ reboots = n)
      ~> (\/ x \in avail[p] \/ x \notin pool[p]
          \/ reboots > n \/ sweep[p] = "failed")

\* A clean takes the files of commands that nobody will return the resources
\* of ("check if they are still in use").
CleansStale == mishap # "shared"

-----------------------------------------------------------------------------
(* What the safety of a queue rests on under cleans, reboots and pids that *)
(* are not written: the inductive invariant.                               *)

\* Only a command that runs or waits to be reaped has a parent.
Orphaned ==
  \A c \in Jobs : child[c].st \in {"none", "gone"} => child[c].by = None

\* To whom a command belongs, and what its .exec file says.
Belongs == Orphaned /\ Parents /\ Owned /\ Recording /\ RunningRecorded

\* A command whose .exec file nobody is left to remove.
Lost(c) == Stale(c) /\ \A r \in Procs : ~Returns(r, c)

\* The runner that records a pid is the parent of a command that is not over,
\* and the one that has waited for a command still has its resource.
Returning ==
  \A r \in Procs :
    /\ pc[r] = "pid" => child[Job(r)].by = r /\ child[Job(r)].st \in Alive
    /\ pc[r] = "reaped" /\ exec[Job(r)] # None => Token(Job(r)) \in held[r]

\* What the files of lost commands name, nobody has, and no two name the same.
Lasting ==
  /\ \A c \in Jobs : Lost(c) => Leaked(Token(c))
  /\ \A c, d \in Jobs : c # d /\ Lost(c) /\ Lost(d) => Token(c) # Token(d)

\* What a clean is about to free nobody has, and no file names any more.
Sweeping ==
  \A p \in Pools :
    freeing[p] # None =>
      /\ Leaked(<<p, freeing[p]>>)
      /\ \A c \in Jobs : Lost(c) => Token(c) # <<p, freeing[p]>>

\* A clean, of the boot or by hand, gives away twice only what it has taken
\* from a runner between its os.wait and its os.remove, an add-resource what
\* its look at the .exec files did not tell it was in use, and a runner what it
\* frees of a command whose pid it could not write: until then resources stay
\* exclusive and commands fully equipped across maintenance and reboots.
AdminInductive ==
  /\ AdminTypeOK /\ LocalsOK /\ IdsOK /\ Chosen
  /\ mishap # "unrecorded" => Belongs
  /\ mishap = "none" =>
       /\ Exclusive /\ Freeing /\ Equipped /\ FullyEquipped
       /\ Returning /\ Lasting /\ Sweeping
=============================================================================
