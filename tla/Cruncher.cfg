SPECIFICATION Spec
CONSTANTS
  Latinate = FALSE
  endlist <- MCendlist
  vstems <- MCvstems
  nstems <- MCnstems
  irrverbs <- MCirrverbs
  indecls <- MCindecls
  vends <- MCvends
  nends <- MCnends
  cmpvbs <- MCcmpvbs
  PrevbTable <- MCPrevbTable
  AllDialects <- MCAllDialects
  MAXANALYSES = 25
  MAXWORDSIZE = 60
  WantDialects = {}
  Calls <- MCCalls
  Leftovers <- MCLeftovers
INVARIANTS
    TypeOK
    FormsFound
    AugmentAccounted
PROPERTIES
    ImplementsFilter
CHECK_DEADLOCK FALSE
