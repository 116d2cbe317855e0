---- MODULE ReleaseChannel ----
(***************************************************************************)
(* What a release channel promises to the launchers that follow it: the    *)
(* head moves one revision at a time, always to a release that has never   *)
(* been the head before, and what was published once stays published.      *)
(***************************************************************************)
EXTENDS Naturals

CONSTANTS Releases, NoRelease
VARIABLES revision, current, published

Init == revision = 0 /\ current = NoRelease /\ published = {}

Publish(r) == /\ r \notin published
              /\ revision' = revision + 1
              /\ current' = r
              /\ published' = published \cup {r}

Next == \E r \in Releases : Publish(r)

Spec == Init /\ [][Next]_<<revision, current, published>>
====
