SPECIFICATION Spec
CONSTANTS
  One = 100
  Nobody = Nobody
  Actors = {1, 2}
  Players = {9}
  MaxActors = 2
  MaxFaults = 1
  WarmInterval = 2
  ColdInterval = 3
  HotGrace = 1
  WarmGrace = 2
  Hash <- MCHash
  Appraisal <- MCAppraisal
  PostAppraisal <- MCPostAppraisal
  DramaFloor = 20
  MoodWeight = 35
  Regression = 5
  Fading = 10
  CullThreshold = 10
  MaxActive = 3
  Reinforcement = 30
  MoodDelta = 5
  InstanceIntensity = 40
  NeuroticSensitivity = 50
  SocialSensitivity = 20
  Resilience = 50
  InitialFill = 60
  DefaultBias = 50
  PerAction = 20
  PerInteraction = 15
  Depletion = 10
  ProgressStep = 40
  PublishGoalAt = 50
  StarveBelow = 20
  MinCare = 50
  SlotsPerDay = 3
  FreeDays = {1}
  Lifestyle <- MCLifestyle
  Spread <- MCSpread
  Persona <- MCPersona
  Edges <- MCEdges
  HotStart = 1
  HotFloor = 0
  Calls <- MCCalls
  SeenMax = 2
  CommentCooldown = 2
  DmThreshold = 50
  DmCheck = 2
  DmCooldown = 4
  EchoThreshold = 50
  EchoTtl = 2
  BurstCooldown = 3
  Scenes <- MCScenes
INVARIANTS
  MindInv
  NoDecayLost
  Restraint
  TurningPoints
  LifeCycleKept
