\* queue.submit unwinds out of NgxFeature::create.
SPECIFICATION Spec
CONSTANTS
  Cameras = {c1}
  Main = main
  NoOne = noOne
  SrProbe = TRUE
  PanicPoints = {"create submit"}
  MaxNews = 1
  MaxStats = 0
  MaxCreates = 1
  MaxRenders = 0
INVARIANTS
  ShutdownAfterRelease
