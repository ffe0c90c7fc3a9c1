SPECIFICATION FairSpec
CONSTANTS
  Kinds = {"hc-sr04", "mb10xx", "lidar", "fc-51"}
  Switches = {2, 3, 8}
  Targets <- MCTargets
  NoEcho <- MCNoEcho
INVARIANTS
  TypeOK
  SetAsShown
  DistanceTrue
PROPERTIES
  Blinks
