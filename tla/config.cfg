CONSTANTS
  route=route alert=alert backup=backup client=client token=token settings=settings
  Loop=Loop
  Nobody=Nobody
  Torn=Torn
  Writer={route, backup, client, settings}
  Kind <- Kinds
  SectionOf <- Sections
  MaxCrashes=1
SPECIFICATION FairSpec
INVARIANTS TypeOK RestoredNotBehind LocalEditsStay 
PROPERTIES EditsEnd
CHECK_DEADLOCK FALSE
