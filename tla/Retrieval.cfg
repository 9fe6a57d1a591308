SPECIFICATION Spec
CONSTANTS
  Corpus <- MCCorpus
  Place <- MCIdRank
  embedder = TRUE
  Suspect = {"q.k"}
  hard_block_suspect = TRUE
  HasRules = {"q", "r", "geo"}
  Budget <- MCBudget
  MayBeWithheld = {"q", "p.c"}
  Policies <- MCPolicies
  Principals <- MCPrincipals
  Respelled <- MCRespelled
  depth = 1
  route_top_n = 1
  max_steiner_points = 1
  CrossingCaps = {0, 1}
  BlockLines = {2, 20}
  IdRank <- MCIdRank
  Scopes <- MCScopes
  PageLimits = {1, 2}
VIEW MCView
CHECK_DEADLOCK FALSE
INVARIANTS
  WithholdingNeverBreaksTheCorpus
  PromptAndLicenceAgree
  OfferedTablesCanBeJoined
  NothingWithheldIsNamed
  BrowsingHidesNothing
