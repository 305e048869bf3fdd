----------------------------- MODULE PoolService -----------------------------
(***************************************************************************)
(* What dci-queue promises to those who share the resources of its pools,  *)
(* with no word of files, locks and process ids: a submission is started   *)
(* once at most, on resources that are its own until its command has       *)
(* ended.  Runners appear as brokers, which carry resources between the    *)
(* pools and the commands, and may vanish with what they carry.            *)
(***************************************************************************)
EXTENDS Integers, Sequences, FiniteSets

CONSTANTS
  Pools, Resources,
  Jobs,    \* what a submission may be queued as: <<pool, id>>
  Brokers, \* the runners
  Subs,    \* the submissions; s.extra is the sequence of extra pools
  Stock,   \* per pool, the resources it starts with
  None

Tokens == Pools \X Resources

VARIABLES
  state,   \* per job, how far it is
  runs,    \* per job, the submission it was started with, or None
  free,    \* the resources anybody may lease
  carried, \* per broker, those it has leased or has to give back
  given    \* per job, those its command was given

leaseVars == <<free, carried, given>>
serviceVars == <<state, runs, leaseVars>>

ServiceInit ==
  /\ state = [c \in Jobs |-> "absent"]
  /\ runs = [c \in Jobs |-> None]
  /\ free = {t \in Tokens : t[2] \in Stock[t[1]]}
  /\ carried = [b \in Brokers |-> {}]
  /\ given = [c \in Jobs |-> {}]

-----------------------------------------------------------------------------
Move(c, from, to) == state[c] \in from /\ state' = [state EXCEPT ![c] = to]

\* A submission may be withdrawn as soon as its file is written.
Submit(c) ==
  /\ Move(c, {"absent"}, "queued") \/ Move(c, {"absent"}, "dropped")
  /\ UNCHANGED <<runs, leaseVars>>

Take(c) == Move(c, {"queued"}, "taken") /\ UNCHANGED <<runs, leaseVars>>

\* Withdrawn, or taken by a runner that could not start it.
Drop(c) ==
  /\ Move(c, {"queued", "taken"}, "dropped")
  /\ UNCHANGED <<runs, leaseVars>>

\* What s asks for as job c: a resource of the pool of c, and one more for
\* each extra pool it names.
Asked(c, s, p) ==
  Cardinality({k \in DOMAIN s.extra : s.extra[k] = p})
    + IF p = c[1] THEN 1 ELSE 0

Fits(c, s, T) ==
  \A p \in Pools : Cardinality({t \in T : t[1] = p}) = Asked(c, s, p)

Start(b, c, s) ==
  /\ Move(c, {"taken"}, "running")
  /\ Fits(c, s, carried[b])
  /\ runs' = [runs EXCEPT ![c] = s]
  /\ given' = [given EXCEPT ![c] = carried[b]]
  /\ carried' = [carried EXCEPT ![b] = {}]
  /\ UNCHANGED free

\* The broker takes back all the resources of a command that has ended.
End(b, c) ==
  /\ Move(c, {"running"}, "ended")
  /\ carried[b] = {}
  /\ carried' = [carried EXCEPT ![b] = given[c]]
  /\ given' = [given EXCEPT ![c] = {}]
  /\ UNCHANGED <<runs, free>>

Lease(b, t) ==
  /\ t \in free
  /\ free' = free \ {t}
  /\ carried' = [carried EXCEPT ![b] = carried[b] \cup {t}]
  /\ UNCHANGED <<state, runs, given>>

\* Back to the pool, unless the pool does not want it any more.
GiveBack(b, t) ==
  /\ t \in carried[b]
  /\ carried' = [carried EXCEPT ![b] = carried[b] \ {t}]
  /\ free' = free \cup {t} \/ UNCHANGED free
  /\ UNCHANGED <<state, runs, given>>

Retire(t) ==
  /\ t \in free
  /\ free' = free \ {t}
  /\ UNCHANGED <<state, runs, carried, given>>

\* The commands of C end with nobody to wait for them: what they were given
\* is lost.
Running == {c \in Jobs : state[c] = "running"}

Orphaned(C) ==
  /\ state' = [c \in Jobs |-> IF c \in C THEN "ended" ELSE state[c]]
  /\ given' = [c \in Jobs |-> IF c \in C THEN {} ELSE given[c]]
  /\ UNCHANGED <<runs, free>>

Lose(c) == c \in Running /\ Orphaned({c}) /\ UNCHANGED carried

\* A broker vanishes with what it carries and with what it waited for.
Vanish(b, C) ==
  /\ carried' = [carried EXCEPT ![b] = {}]
  /\ Orphaned(C)

ServiceNext ==
  \/ \E c \in Jobs : Submit(c) \/ Take(c) \/ Drop(c) \/ Lose(c)
  \/ \E b \in Brokers, c \in Jobs, s \in Subs : Start(b, c, s)
  \/ \E b \in Brokers, c \in Jobs : End(b, c)
  \/ \E b \in Brokers, t \in Tokens : Lease(b, t) \/ GiveBack(b, t)
  \/ \E t \in Tokens : Retire(t)
  \/ \E b \in Brokers, C \in SUBSET Running : Vanish(b, C)

ServiceSpec == ServiceInit /\ [][ServiceNext]_serviceVars
=============================================================================
