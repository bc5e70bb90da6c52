CONSTANTS
  KVM = KVM
  Ssids = {KVM, Other}
  Channels = {1, 6}
  Default = 6
  MayRecover = FALSE
  MaxGen = 2
  Absent = Absent
SPECIFICATION Spec
PROPERTY FailedImportSavesNothing
CHECK_DEADLOCK FALSE
