CONSTANTS
  t1=t1 t2=t2 s1=s1
  Supervisor=Supervisor
  Nobody=Nobody
  Task={t1, t2}
  Sender={}
  MaxFaults=1
  MaxBeats=1
SPECIFICATION FairSpec
INVARIANTS TypeOK FlagTruthful OneAtATime
PROPERTIES RestartsEnd MeshComesUp 
CHECK_DEADLOCK FALSE
