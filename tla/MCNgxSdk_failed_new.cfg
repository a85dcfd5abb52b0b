\* DlssSdk::new fails after NVSDK_NGX_D3D12_Init succeeded.
SPECIFICATION Spec
CONSTANTS
  Cameras = {c1}
  Main = main
  NoOne = noOne
  SrProbe = TRUE
  PanicPoints = {}
  MaxNews = 1
  MaxStats = 0
  MaxCreates = 1
  MaxRenders = 0
INVARIANTS
  InitMatchedByShutdown
