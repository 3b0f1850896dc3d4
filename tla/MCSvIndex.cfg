CONSTANTS
  URIs <- MCURIs
  Names <- MCNames
  Problems <- MCProblems
  MaxIdx = 4
  ScanResults <- MCScanResults
  NameLimit = 2
  NameOrder <- MCNameOrder
  URIOrder <- MCURIOrder
  TypedPrefixes <- MCPrefixes
  PickerQueries <- MCQueries
  Limits = {0, 1, 4}
SPECIFICATION Spec
INVARIANTS
  BackersExact
  NoOrphanBuckets
  DependentsExact
  MembershipExact
  UsesExact
  ByNameExact
  NameListExact
  SymbolsExact
PROPERTIES
  ChangesReported
