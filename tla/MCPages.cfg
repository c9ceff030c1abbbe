SPECIFICATION FairSpec
CONSTANTS
  Bodies <- MCBodies
  Defaults <- MCDefaults
  Ceiling <- MCCeiling
  Types <- MCTypes
  MaxEvents = 6
  Subscriptions = {"all", "some"}
  MaxHooks = 3
  PageCap = 2
  Queries <- MCQueries
INVARIANTS
  TypeOK
  NoEventMissed
  NoEntryRepeated
PROPERTIES
  CapEnforced
  WalkEnds
