SPECIFICATION Spec
CONSTANTS
  Policies <- MCPolicies
  Tags <- MCTags
INVARIANTS UnknownFateReported PromotedByOwnTimer ContextsReleased
PROPERTIES OnlySafeRepeats ImplementsExec
CHECK_DEADLOCK FALSE
