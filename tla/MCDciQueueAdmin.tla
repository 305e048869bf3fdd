-------------------------- MODULE MCDciQueueAdmin --------------------------
(* Instances of DciQueueAdmin for TLC.                                     *)
EXTENDS DciQueueAdmin

CONSTANTS P, E, a, b, r1, r2

Submission(cmd) ==
  [cmd |-> cmd, extra |-> <<>>, remove |-> FALSE, priority |-> 0]
Request(p, sub, force) ==
  [pool |-> p, sub |-> sub, force |-> force, block |-> FALSE,
   console |-> FALSE]

Alone == Submission("alone")
Other == Submission("other")

OneEach == [p \in Pools |-> {a}]

\* Two commands, each of which is queued once.
AloneSubs == {Alone, Other}
AloneRequests == {Request(P, s, FALSE) : s \in AloneSubs}

\* One command, which is queued again and again.
AgainSubs == {Alone}
AgainRequests == {Request(P, Alone, TRUE)}

\* A second resource of the pool.
AddOther == {<<P, b>>}
=============================================================================
