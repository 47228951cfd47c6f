CONSTANTS
  n1=n1 n2=n2 k1=k1 r1=r1 r2=r2
  NoReq=NoReq NoNode=NoNode
  Node={n1,n2}
  Key={k1}
  Req={r1,r2}
  OpOf <- OpsMixed
  Manager={n1,n2}
  Founder=n1
  Old={n2}
  BestEffort={}
  MaxMsgs=1
  MaxEpoch=1
  MaxFaults=0
SPECIFICATION FairFormedSpec
INVARIANTS DomainsNotBehind
PROPERTIES HaltedGoesReadOnly ImplementsContract
CHECK_DEADLOCK FALSE
