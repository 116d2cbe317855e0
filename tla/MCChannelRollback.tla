---- MODULE MCChannelRollback ----
(* Small instances of ChannelRollback for TLC. *)
EXTENDS ChannelRollback, TLC

CONSTANTS b1, b2, o1, o2, w1, w2

Rollbacks1 == {b1}
Orders2 == {o1, o2}
Workers2 == {w1, w2}
Symmetric == Permutations(Orders2) \cup Permutations(Workers2)
====
