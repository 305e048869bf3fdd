CONSTANTS
  CommandLines <- MCCommandLines
  AgentLines <- MCAgentLines
  DefaultFile <- MCDefaultFile
  Registry <- MCRegistry
  Today = 12
  LastDay = 15
  MaxPipelines = 2
SPECIFICATION ToolsSpec
INVARIANT RebuiltPins DiffTells SettingsMeant
CHECK_DEADLOCK FALSE
