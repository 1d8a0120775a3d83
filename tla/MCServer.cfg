SPECIFICATION ServerSpec
CONSTANTS
  Speeds = {0, 1, 2}
  MinSpeed = 1
  MaxSpeed = 1
  RecipeIds = {1, 4}
  ValidRecipeIds = {1}
  MaxRequests = 3
  MaxEvents = 2
INVARIANTS
  ServerTypeOK
  NoPhantomWrite
  AnnouncedAfterShown
PROPERTY
  Converges
