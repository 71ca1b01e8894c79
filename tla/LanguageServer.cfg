SPECIFICATION Spec
CONSTANTS
  Files = {"main", "lib"}
  Workspaces <- SmallWorkspaces
  MaxActive = 3
INVARIANTS UpToDate GotoRight
PROPERTIES NewestCacheStays AllHandled
CHECK_DEADLOCK FALSE
