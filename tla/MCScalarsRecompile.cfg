SPECIFICATION Spec
CONSTANTS
  Null = Null
  Error = Error
  Source <- MCSource
  Compilable <- MCCompilable
  Data <- MCData
  Fallible <- MCFallible
  Engine <- MCEngine
  RuleName <- MCRuleName
  Namespace <- MCNamespace
  Tag <- MCTag
  PatternName <- MCPatternName
  MaxDataLen <- MCMaxDataLen
  Batches <- MCBatches
  CountLimit <- MCCountLimit
  MaxRows = 3
INVARIANT
  CompiledOncePerSource
