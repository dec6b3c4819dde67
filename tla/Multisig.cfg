SPECIFICATION FairSpec
CONSTANTS
  r1 = r1 g1 = g1 g2 = g2 g3 = g3 s1 = s1 s2 = s2 s3 = s3
  Request = {r1}
  Signer = {g1, g2}
  Session = {s1, s2}
  Owner <- TwoPages
  RequiredSignatures = 1
  ChainThreshold = 1
  MaxSeq = 2
INVARIANTS TypeOK ApprovalsAreBacked LandedWithQuorum ExecutedIsOnChain
PROPERTIES QueueDrains ResolvedOnce KeepsPromise
