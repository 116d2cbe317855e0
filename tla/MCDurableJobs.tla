---- MODULE MCDurableJobs ----
EXTENDS DurableJobs, TLC

CONSTANTS j1, j2, pub, op, p1, p2, alice

MCJobs == {j1, j2}
MCKeys == {pub, op}
MCActorOf == [k \in MCKeys |-> alice]
MCSymmetry == Permutations(MCJobs) \cup Permutations({p1, p2})
====
