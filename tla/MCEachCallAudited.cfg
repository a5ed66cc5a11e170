CONSTANTS
  ConfigLists <- MCConfigLists  Servers <- MCServers  NoServer = "none"
  Raws <- MCRaws  Shorts <- MCShorts  Short <- MCShort
  Builtins <- MCBuiltins  Policy <- MCPolicy
  Offerings <- MCOfferings  Bundled <- MCBundled
  Demo = "demo"  CreateTicket = "mcp_create_ticket"
  Offered <- MCCalls  Absent = Absent
SPECIFICATION Spec
INVARIANTS EachCallAudited
CHECK_DEADLOCK FALSE
