SPECIFICATION Spec
CONSTANTS
  Lengths <- MCLengths
  MaxBytes = 260
  MaxFinals = 1
  Size = 2
  Width = 2
  Encipher <- MCEncipher
  Decipher <- MCDecipher
  Messages <- MCMessages
  Damages <- MCDamages
  MaxSent = 3
  MaxDamage = 1
  Word = 1048576
  HostRates = {0, 90, 1100}
  Lines <- MCLines
  Amounts = {0, 50, 200}
  Trips = {20, 700}
  Steps = 2
  Texts <- AllTexts
  Later <- Following
  MaxCalls = 2
  Keys <- MCKeys
  Values = {1}
  Sizes = {0, 2}
  MaxSets = 5
  Objects = {3, 4, 5, 6}
  Programs <- MCPrograms
INVARIANTS
  DigestOfMessage
  SharingIsInvisible
  RoundTrip
  DamageIsLocal
  PaddingIsExact
  KnownAnswers
  
  AcceptsRequests
  ToldTheRequest
  OnlySeparatorsLost
  HoldsTheMap
  TraversalSeesAll
  LengthIsBorder
  FreesOnlyGarbage
  NoBlackToWhite
  FullCollects
CHECK_DEADLOCK FALSE
