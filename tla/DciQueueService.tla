--------------------------- MODULE DciQueueService ---------------------------
(* DciQueue implements PoolService: the refinement mapping.                *)
EXTENDS DciQueue

\* What queue and .exec files and the process table say of a job.  Ids from
\* next on are not given out, whatever a dead `schedule` has left there.
StateOf(c) ==
  IF next[c[1]] <= c[2] THEN "absent"
  ELSE IF queue[c] # None THEN "queued"
  ELSE IF child[c].st \in Alive THEN "running"
  ELSE IF child[c].st = "gone" THEN "ended"
  ELSE IF exec[c] # None THEN "taken"
  ELSE "dropped"

\* What a command was given is its own until it has been waited for.
GivenTo(c) == IF child[c].st \in Alive THEN child[c].uses ELSE {}

Service == INSTANCE PoolService WITH
  Brokers <- Procs,
  Subs <- Queueable,
  state <- [c \in Jobs |-> StateOf(c)],
  runs <- [c \in Jobs |-> child[c].sub],
  free <- {t \in Tokens : t[2] \in avail[t[1]]},
  carried <- held,
  given <- [c \in Jobs |-> GivenTo(c)]

\* Whatever the interleaving of runners, users and kills, the directory tree
\* and the processes show a service that leases each resource to one holder
\* at a time, starts a submission at most once, on exactly the resources the
\* submission it runs asks for, and takes all of them back only once the
\* command has ended.
ImplementsService == Service!ServiceSpec
=============================================================================
