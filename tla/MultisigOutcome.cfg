SPECIFICATION Spec
CONSTANTS
  r1 = r1 g1 = g1 g2 = g2 g3 = g3 s1 = s1 s2 = s2 s3 = s3
  Request = {r1}
  Signer = {g1, g2, g3}
  Session = {s1, s2, s3}
  Owner <- ThreePages
  RequiredSignatures = 2
  ChainThreshold = 2
  MaxSeq = 2
PROPERTY OutcomeIsRecorded
