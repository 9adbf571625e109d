SPECIFICATION Spec
CONSTANTS
  NoAnswer = NoAnswer
  Hosts <- MCHosts
  Tokens <- MCTokens
  Urls <- MCUrls
  Answers <- MCAnswers
  Class <- MCClass
  Place <- MCPlace
  Weight <- MCWeight
  SurfaceAt = 2
  TopClasses = 1
  TopN = 1
INVARIANTS
  MapIsTopOfRanking
  DeadStaysLow
PROPERTIES
  EvidenceMovesRightWay
