\* Two requests, each a submit or a GET /orderbook, for the loaded pair or
\* a new one: is every rested order in the book the map holds?
CONSTANTS
  Requests = {r1, r2}
  Pairs <- MCPairs
  MainPair = "TKA-TKB"
  Kinds = {"submit", "get"}
SPECIFICATION Spec
INVARIANT OrdersReachable
CHECK_DEADLOCK FALSE
