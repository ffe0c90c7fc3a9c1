SPECIFICATION Spec
CONSTANTS
  Kinds = {"mb10xx", "lidar"}
  Switches = {4}
  Targets <- MCFarTargets
  NoEcho <- MCFarNoEcho
INVARIANTS
  DistanceTrue
