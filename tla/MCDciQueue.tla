---------------------------- MODULE MCDciQueue ----------------------------
(* Instances of DciQueue for TLC.                                          *)
EXTENDS DciQueueService, TLC

CONSTANTS P, E, a, b, r1, r2

Submission(cmd, extra, remove, priority) ==
  [cmd |-> cmd, extra |-> extra, remove |-> remove, priority |-> priority]
Request(p, sub, block, console) ==
  [pool |-> p, sub |-> sub, force |-> FALSE, block |-> block,
   console |-> console]

Low == Submission("low", <<>>, FALSE, 0)
High == Submission("high", <<>>, FALSE, 1)
Negative == Submission("negative", <<>>, FALSE, -1)
WithExtra == Submission("extra", <<E>>, FALSE, 0)
TwoExtra == Submission("two extra", <<E, E>>, FALSE, 0)
Lost == Submission("lost", <<"nowhere">>, FALSE, 0)
Throwaway == Submission("throwaway", <<>>, TRUE, 0)
HighExtra == Submission("high extra", <<E>>, FALSE, 1)

\* Resources of the pools: two in P or in E, one in each.
TwoInP == [p \in Pools |-> IF p = P THEN {a, b} ELSE {a}]
OneEach == [p \in Pools |-> {a}]
TwoInE == [p \in Pools |-> IF p = E THEN {a, b} ELSE {a}]

Plain(p, subs) == {Request(p, s, FALSE, FALSE) : s \in subs}

\* one_pool: two priorities, job 1 may be unscheduled.
LowHigh == {Low, High}
LowHighRequests == Plain(P, LowHigh)
JobOne == {<<P, 1>>}

\* two_pools: P borrows from E, a job of E throws its resource away, one of
\* the processes may die.
PoolSubs == {TwoExtra, Lost, Throwaway}
PoolRequests == Plain(P, {TwoExtra, Lost}) \cup Plain(E, {Throwaway})

\* serial: one process at a time, a job that is never served; E may lose its
\* only resource.
SerialSubs == {Low, High, HighExtra, Negative}
RemoveOnly == {[pool |-> E, res |-> a, force |-> FALSE]}
SerialRequests == Plain(P, SerialSubs)
                    \cup {Request(P, Low, TRUE, c) : c \in BOOLEAN}

ExtraSubs == {WithExtra, Low}
ExtraRequests == Plain(P, {WithExtra}) \cup Plain(E, {Low})


ProcSymmetry == Permutations(Procs)
=============================================================================
