---- MODULE MCSessionRotation ----
EXTENDS SessionRotation, TLC

CONSTANTS s1, s2, s3, t1, t2, t3, d1, d2, p1, p2, p3

MCSymmetry == Permutations(Sessions) \cup Permutations(Tokens)
              \cup Permutations(Devices) \cup Permutations(Requests)
====
