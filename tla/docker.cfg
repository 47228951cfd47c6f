CONSTANTS
  main=main side=side e1=e1 e2=e2 e3=e3 r1=r1 s1=s1 s2=s2
  Home=Home
  None=None
  Name={main, side}
  Existing={main, side}
  Task={e1, e2, e3, r1, s1, s2}
  Kind <- Kinds
  Target <- Targets
  Parent <- Parents
  Number <- Numbers
  MaxTargets=2
  MaxTrouble=1
SPECIFICATION FairSpec
INVARIANTS TypeOK EditsStay ContainersKept  DependantsFollow 
PROPERTIES EditsEnd
CHECK_DEADLOCK FALSE
