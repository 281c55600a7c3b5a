CONSTANTS
  n1 = n1
  n2 = n2
  n3 = n3
  d1 = d1
  pA = pA
  pB = pB
  NoPlate = NoPlate
  Number = {n1, n2, n3}
  Driver = {d1}
  Plate = {pA, pB}
  Legacy = {n3}
  First <- MCFirst
  Lists <- MCLists
  Worker = {w1, w2}
  Request = {r1}
  MaxChanges = 2
  MaxFaults = 1
SPECIFICATION FairSpec
INVARIANTS
  TypeOK
  AssignedAreKnown
  DecommissionedWasDropped

  
