SPECIFICATION Spec
CONSTANTS
  Nothing = Nothing
  People = {1, 2}
  Scenes <- MCGaze
  MaxLog = 18
  Full = 100
  QuietWindow = 2
  QuietThreshold = 20
  Drama <- MCDrama
  BudgetWindow = 3
  GravityWindow = 3
  BoostFor = 3
  Incidents <- MCIncidents
  Themes <- MCThemes
  Stages = {"newcomer", "prime"}
  StreakLimit = 2
  Recent = 3
  Tuning <- MCTuning
  Turn <- MCTurn
  DayTicks = 3
  QuietToFire = 1
  Most = 1
  Composers = {1, 2}
  Unit = 100
  BaseDrama <- MCBase
  TargetBonus = 10
  WDrama = 5
  WRarity = 2
  WBoost = 1
  Threshold = 350
  RarityWindow = 5
  RepeatWindow = 3
  Lit = 60
  GoalDrama = 80
  ArcDrama = 80
  DebutDrama = 70
  NarrateThreshold = 90
  MaxDeliver = 2
  Instances = {1, 2}
  Concurrency = 1
  Price <- MCPrice
  Routed = {"hot", "warm"}
  Scale = 10
  BaseLimits <- MCLimits
  MaxCalls = 8
  Sessions = {1, 2}
  Readers = {1}
  Slack = 1
  PollBatch = 1
  Endpoints = {1}
  MaxJoins = 2
  PgDeliver = 2
CHECK_DEADLOCK FALSE
INVARIANTS
  AttentionCounted
