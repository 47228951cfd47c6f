CONSTANTS
  n1=n1 n2=n2 k1=k1 r1=r1 r2=r2
  NoReq=NoReq NoNode=NoNode
  Node={n1,n2}
  Key={k1}
  Req={r1}
  OpOf <- OpsRows
  Manager={n1,n2}
  Founder=n1
  Old={}
  BestEffort={r1}
  MaxMsgs=1
  MaxEpoch=2
  MaxFaults=0
SPECIFICATION FormedSpec
PROPERTIES BackNoFurtherThanAttach
CHECK_DEADLOCK FALSE
