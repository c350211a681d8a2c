SPECIFICATION FairSpec
CONSTANTS
  Actors = {1, 2}
  Players = {1, 2}
  Items <- MCItems
  Traffic <- MCTraffic
  Kind <- MCKind
  From <- MCFrom
  To <- MCTo
  Nothing = Nothing
  Due <- MCDue
  Cap = 2
  GreetMax = 1
  ReflectEvery = 3
  MaxDeliver = 2
  MaxTick = 0
  MaxFaults = 1
CHECK_DEADLOCK FALSE
INVARIANTS
  
  WordsAreAnswered
  NoReplyTwice
  
  
  LifeInTickOrder
PROPERTY EveryWordSettled
