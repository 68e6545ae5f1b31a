SPECIFICATION FairSpec
CONSTANTS
  Request = {"good", "plain"}
  Accepted <- MCAccepted
  SpiffeSAN <- MCSpiffeSAN
  IssuerRefs = {"i1", "i2"}
  Issuer <- MCIssuer
  AutoApproveNonSPIFFE = TRUE
  MaxIncidents = 2
INVARIANTS TypeOK NoneForgotten VerdictStands
PROPERTIES VerdictIsCurrent EventuallyDecided
CHECK_DEADLOCK FALSE
