CONSTANTS
  CommandLines <- MCCommandLines
  DefaultFile <- MCDefaultFile
  Registry <- MCRegistry
  Today = 12
SPECIFICATION Spec
INVARIANT Inductive BlocksMerged LastSettingWins NothingForgotten SelectedFits PriorityKept RunsAsAsked
CHECK_DEADLOCK FALSE
