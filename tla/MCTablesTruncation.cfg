SPECIFICATION Spec
CONSTANTS
  Null = Null
  Error = Error
  Source <- MCSource
  Compilable <- MCCompilable
  Data <- MCBytes
  Fallible <- MCFallible
  Engine <- MCBytesEngine
  RuleName <- MCRuleName
  Namespace <- MCNamespace
  Tag <- MCTag
  PatternName <- MCPatternName
  MaxDataLen <- MCMaxDataLen
  Requests <- MCRequests
  OffsetLimit <- MCOffsetLimit
INVARIANT
  TruncationIsSafe
