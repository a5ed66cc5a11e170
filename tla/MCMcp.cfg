CONSTANTS
  ConfigLists <- MCConfigLists  Servers <- MCServers  NoServer = "none"
  Raws <- MCRaws  Shorts <- MCShorts  Short <- MCShort
  Builtins <- MCBuiltins  Policy <- MCPolicy
  Offerings <- MCOfferings  Bundled <- MCBundled
  Demo = "demo"  CreateTicket = "mcp_create_ticket"
  Offered <- MCCalls  Absent = Absent
  MaxCalls = 4
  MaxProcs = 3
SPECIFICATION McpSpec
INVARIANTS
  RowTellsTruth
  RoleKept
  OneChild
  QuietBetweenCalls
PROPERTIES
  CallSpec
  EveryCallReturns
CHECK_DEADLOCK FALSE
