CONSTANTS
  d1 = d1
  t1 = t1
  v1 = v1
  s1 = s1
  Workload = {d1, t1}
  Slot = {s1}
  MaxGen = 1
  Replicas = {0, 1}
  Mix <- OneOfEach
  NsOf <- AllInA
  Service = {v1}
  SvcNsOf <- SvcInA
  Ports <- MCPorts
  Backs <- MCBacks
  NsList <- OneNs
  Flags <- Roomy
  ApiMayFail = FALSE
SPECIFICATION FairSpec
INVARIANTS
  TypeOK
  ExitZeroVouches
  ExitOneIsDeserved
PROPERTIES
  Terminates
