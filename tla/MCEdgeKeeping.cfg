SPECIFICATION Spec
CONSTANTS
  One = 10
  Grain = 1
  Effects <- MCEffects
  Feelings <- MCFeelings
  FeelingWeight = 2
  Rates <- MCRates
  InsightWeight = 1
  PublishAt = 3
  AcceptTrust = 2
  RejectResentment = 3
  None = None
  Nobody = Nobody
  SupportTrust = 2
  SupportIntimacy = 2
  ThreatAt = 3
  FeltAt = 7
  Restate = 2
  Faded = 0
  ReflectEvery = 1
  Thanked <- MCThanked
  Proposals <- MCProposals
  Workers = {"w1", "w2"}
  Home <- MCHome
  Players = {3, 4}
  Scripts <- MCScripts
  MaxEdges = 2
  MaxTick = 2
  MaxFaults = 1
CONSTRAINT NoClashYet
CHECK_DEADLOCK FALSE
INVARIANTS
  EdgeInv
  GapIsPending
  RomanceIsMutual
