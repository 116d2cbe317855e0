---- MODULE MCDownloadJournal ----
(* Small instances of DownloadJournal for TLC. *)
EXTENDS DownloadJournal, TLC

CONSTANTS j1, j2, p1, p2

Jobs2 == {j1, j2}
Presses2 == {p1, p2}
Both == {"pause", "cancel"}
Symmetric == Permutations(Jobs2) \cup Permutations(Presses2)
====
