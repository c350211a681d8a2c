SPECIFICATION Spec
CONSTANTS
  Actors = {1, 2}
  Players = {1, 2}
  Items <- MCItems
  Traffic <- MCNotes
  Kind <- MCKind
  From <- MCFrom
  To <- MCTo
  Nothing = Nothing
  Due <- MCDue
  Cap = 2
  GreetMax = 1
  ReflectEvery = 1
  MaxDeliver = 2
  MaxTick = 0
  MaxFaults = 1
CHECK_DEADLOCK FALSE
PROPERTY DecisionsRemain
