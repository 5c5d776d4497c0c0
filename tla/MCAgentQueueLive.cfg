CONSTANTS
  Requests <- TwoRequests
  Nodes <- OneNode
  NodeList <- OneNodeList
  Agents <- TwoAgents
  AGENT_THREAD_COUNT = 1
  MAX_SERVER_THREADS = 4
  MaxMails = 1
SPECIFICATION FairSpec
PROPERTY QueueServed
CHECK_DEADLOCK FALSE
