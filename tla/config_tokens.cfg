CONSTANTS
  route=route alert=alert backup=backup client=client token=token settings=settings
  Loop=Loop
  Nobody=Nobody
  Torn=Torn
  Writer={token, settings}
  Kind <- Kinds
  SectionOf <- Sections
  MaxCrashes=0
SPECIFICATION Spec
INVARIANTS TokensNotBehind
CHECK_DEADLOCK FALSE
