SPECIFICATION ReleaseSpec
CONSTANTS
  History <- MCHistory
  Cutoff = 3
  InSnapshot = {1, 2}
  CategoryOf <- MCCategoryOf
  ResolvedIn <- MCResolvedIn
  DataSources = {"graphql"}
  MaxExports = 2
INVARIANT NumeratorInWindow
CHECK_DEADLOCK FALSE
