CONSTANTS
  KVM = KVM
  Ssids = {KVM, Other}
  Channels = {1, 6}
  Default = 6
  MayRecover = FALSE
  MaxGen = 2
  Absent = Absent
SPECIFICATION Spec
INVARIANT RotatedAwayStaysAway
CHECK_DEADLOCK FALSE
