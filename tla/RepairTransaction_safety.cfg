SPECIFICATION FairSpec
CONSTANTS
  dji = dji
  other = other
  ndis = ndis
  ecm = ecm
  Device <- MCDevice
  Value <- MCValue
  Want = ecm
  Actions <- MCSetting
  MaxUnplugs = 2
INVARIANTS
  ReadbackIsOwn
  WrittenOnceOnTarget
  AppliedIsReal
CHECK_DEADLOCK FALSE
PROPERTIES
  OutcomeReached
