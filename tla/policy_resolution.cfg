SPECIFICATION Spec
CONSTANTS
  KNOWN_ROLES = {"agent"}
  KNOWN_WORKLOADS = {"agent", "finance", "support"}
  Rules <- RulePool
  EastWestRules <- EastWestPool
  Queries <- AllQueries
  Pairs <- AllPairs
  MaxRules = 3
INVARIANTS OrderIndependence TaintedNeverWritesOut TaintNarrows ShadowedNeverDecides
PROPERTIES DenialsSurviveEdits AllowsAddUp
CHECK_DEADLOCK FALSE
