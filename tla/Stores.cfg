SPECIFICATION MCSpec
CONSTANTS
  Files = {1, 2, 3}
  Secrets = {3}
  Ids = {1, 2}
  MaxFiles = 2
  MaxDeploys = 1
  MaxFaults = 1
  Sources = {1, 2}
  Attachments = {a1, a2}
  Keys = {"k1", "k2"}
  Loads <- MCLoads
  FetchLimit = 1
  MaxRefs = 2
  MaxExcerpts = 1
  MaxId = 5
  PageSize = 2
  MaxGroups = 1
  Scenes <- MCScenes
 
INVARIANT EvidenceHolds
PROPERTY VerifiedIsReal
PROPERTY AttachmentUsedOnce
 
INVARIANT PagesComplete
CHECK_DEADLOCK FALSE
