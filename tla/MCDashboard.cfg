SPECIFICATION DashboardSpec
CONSTANTS
  Feed <- MCFeed
  Horizon = 1
  FreshFor = 0
  Target = 1
  Readers = {reader1, reader2}
  Requesters = {request1}
  MaxReleases = 2
  MaxCrashes = 1
  MaxRebuilds = 1
PROPERTIES
  ExplorerHeals
  CachesHeal
