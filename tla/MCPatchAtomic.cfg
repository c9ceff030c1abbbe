SPECIFICATION Spec
CONSTANTS
  Bodies <- MCBodies
  Defaults <- MCDefaults
  Ceiling <- MCCeiling
  Types <- MCTypes
  MaxEvents = 6
  Subscriptions = {"all"}
  MaxHooks = 3
  PageCap = 2
  Queries <- MCQueries
PROPERTIES
  PatchAtomic
