CONSTANTS
  Targets <- MCTargets
  Windows <- MCWindows
  Versions <- MCVersions
  Documents <- MCDocuments
  None = None
  MaxEntries = 2
  Distributions <- MCDistributions
  Tags <- MCTags
SPECIFICATION Spec
INVARIANTS
  TypeOK
  AcceptedIsComplete
  CompleteIsAccepted
