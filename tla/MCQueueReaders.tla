--------------------------- MODULE MCQueueReaders ---------------------------
(* Instances of QueueReaders for TLC.                                      *)
EXTENDS QueueReaders

CONSTANTS P, a, b, r1

Submission(cmd, priority) ==
  [cmd |-> cmd, extra |-> <<>>, remove |-> FALSE, priority |-> priority]
Low == Submission("low", 0)
High == Submission("high", 1)

LowHigh == {Low, High}
LowHighRequests ==
  {[pool |-> P, sub |-> s, force |-> TRUE, block |-> FALSE, console |-> FALSE] :
     s \in LowHigh}
TwoInP == [p \in Pools |-> Resources]
JobOne == {<<P, 1>>}

Ask_(tool, cmd) == [tool |-> tool, pool |-> P, cmd |-> cmd]
AllQuestions == {Ask_("list", ""), Ask_("search", "low"), Ask_("search", "high"),
                 Ask_("searchdir", "low")}
=============================================================================
