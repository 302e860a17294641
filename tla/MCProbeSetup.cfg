SPECIFICATION Spec
CONSTANTS
  Commands <- MCCommands
  JobsOf <- MCJobsOf
  Answers <- MCAnswers
  MaxLabel = 2
  MaxName = 9
INVARIANTS
  TypeOK
  BannerIsDialled
  PortAsAsked
  NameRoundTrips
  TurnVerdictIsFirst
  RelativeStaysHome
  HlsReachesSegment
