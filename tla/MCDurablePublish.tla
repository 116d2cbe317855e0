---- MODULE MCDurablePublish ----
EXTENDS DurablePublish, TLC

CONSTANTS r1, r2, j1, j2, w1, w2, alice

MCActorOf == [j \in Jobs |-> alice]
MCSymmetry == Permutations(Releases) \cup Permutations(Jobs) \cup Permutations(Workers)
====
