SPECIFICATION Spec
CONSTANTS
  Null = Null
  Error = Error
  Source <- MCSource
  Compilable <- MCCompilable
  Data <- MCData
  Fallible <- MCFallible
  Engine <- MCEngine
  RuleName <- MCRuleName
  Namespace <- MCNamespace
  Tag <- MCTag
  PatternName <- MCPatternName
  MaxDataLen <- MCMaxDataLen
  Batches <- MCBatches
  CountLimit <- MCCountLimit
  Requests <- MCRequests
  OffsetLimit <- MCOffsetLimit
  Infected <- MCInfected
  EvilWorm <- MCEvilWorm
  Malware <- MCMalware
  Demo = "demo"
  Pair = "pair"
  EnvNames = {"yara", "not unicode"}
  Unicode = {"yara"}
  Lists <- MCLists
  Topics <- MCTopics
  Questions <- MCQuestions
INVARIANTS
  ListedIsServed
  KeywordsEncoded
  FunctionsAgree
  CheckTells
  ExamplesHold
  DeliveredAsPublished
PROPERTY
  CallsEnd
