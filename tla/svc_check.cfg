CONSTANTS
  w1 = w1
  v1 = v1
  v2 = v2
  s1 = s1
  Workload = {w1}
  Slot = {s1}
  MaxGen = 1
  Replicas = {0, 1}
  Mix <- AnyMix
  Service = {v1, v2}
  SvcNsOf <- InBAndA
  Ports <- MCPorts
  Backs <- MCBacks
  NsList <- TwoNs
  Flags <- AllFlags
  ApiMayFail = FALSE
SPECIFICATION Spec
INVARIANTS
  TypeOK
  PassedWasServed
  NoFalseAlarm
PROPERTIES
  RecoveryIsSeen
  KeepsPromise
