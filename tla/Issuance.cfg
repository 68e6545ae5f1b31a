SPECIFICATION Spec
CONSTANTS
  CommandLines <- MCCommandLines
  DriverServiceAccount <- MCDriver
  Tokens <- MCTokens
  IssuerRefs <- MCIssuerRefs
  Custom = Custom
  Foreign <- MCForeign
  Unparsable <- MCUnparsable
  OddDomains <- MCOddDomains
  None = None
  NoPEM = NoPEM
  NoCertificate = NoCertificate
  Lifetimes = {40, 120}
  Backdates = {0, 20}
  MaxDuration = 90
  Step = 10
  Patience = 10
  MaxTime = 140
INVARIANTS
  DriverRequestApproved IdentityAnnotated ApprovesAcceptable RefusesForNow
  RenewedInTime RenewalAtTwoThirds
CHECK_DEADLOCK FALSE
