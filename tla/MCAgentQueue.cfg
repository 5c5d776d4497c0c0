CONSTANTS
  Requests <- TwoRequests
  Nodes <- TwoNodes
  NodeList <- TwoNodeList
  Agents <- TwoAgents
  AGENT_THREAD_COUNT = 1
  MAX_SERVER_THREADS = 4
  MaxMails = 1
SPECIFICATION Spec
INVARIANTS ThreadsCounted OnePlace PingsCounted NobodyForgotten
PROPERTIES CallsKept
CHECK_DEADLOCK FALSE
