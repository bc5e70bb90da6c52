CONSTANTS
  KVM = KVM
  Ssids = {KVM, Other}
  Channels = {1, 6}
  Default = 6
  MayRecover = TRUE
  MaxGen = 2
  Absent = Absent
SPECIFICATION Spec
INVARIANT TypeOK
INVARIANT RestartKeepsConfig
INVARIANT DisplayExplained
INVARIANT NeverUnseen
INVARIANT NoPlaintextSecrets
CHECK_DEADLOCK FALSE
