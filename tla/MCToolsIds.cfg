\* A server that asks once, under an id the client may be using.
SPECIFICATION McpSpec
CONSTANTS
  Calls = 2
  ServerIds = {2}
INVARIANT ServerRequestsAnswered
CHECK_DEADLOCK FALSE
