CONSTANTS
  Pipeline <- TwoStages
  MaxLost = 1
SPECIFICATION FairSpec
INVARIANT TypeOK AllClosed StagesSucceeded PreviousIsLast SignalStops ErrorIsTrue Inductive
PROPERTY Terminates
CHECK_DEADLOCK FALSE
