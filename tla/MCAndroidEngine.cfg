SPECIFICATION Spec
CONSTANTS
  Tag <- MCTag
  MaxJniBytes <- MCMaxJniBytes
  MaxRead <- MCMaxRead
  Spellings <- MCSpellings
  Names <- MCNames
  Shares <- MCShares
  Nodes <- MCNodes
  MaxCalls <- MCMaxCalls
  MaxThreads <- MCMaxThreads
INVARIANTS HandlesFaithful MutationOutcome
PROPERTY NothingReplaced
\* The calls are used up.
CHECK_DEADLOCK FALSE
