SPECIFICATION Spec
INVARIANTS StatementsFit VersionTellsSchema SeedsNeedTierModules HeadMatchesModels
