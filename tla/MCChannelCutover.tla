---- MODULE MCChannelCutover ----
(* Small instances of ChannelCutover for TLC. *)
EXTENDS ChannelCutover, TLC

CONSTANTS r1, r2, r3, m1, m2, p1, p2, p3

Releases3 == {r1, r2, r3}
Runs2 == {m1, m2}
Publishers3 == {p1, p2, p3}
Symmetric == Permutations(Releases3) \cup Permutations(Runs2) \cup Permutations(Publishers3)

MCStarts == {"new", "whole", "headless"}
====
