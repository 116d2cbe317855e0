---- MODULE MCDownloadSlots ----
(* DownloadSlots on small instances: "crossed" has two runs whose jobs     *)
(* change between two hosts, with one slot for each; "shared" the limits   *)
(* of the code and four jobs for one object, three of them at the host     *)
(* that is the fourth one's mirror.                                        *)
EXTENDS DownloadSlots
CONSTANTS a, b, x, y, z, r, s
MCCrossedJobs == 1 .. 4
MCCrossedRuns == [j \in MCCrossedJobs |-> IF j < 4 THEN r ELSE s]
MCCrossedObjects == [j \in MCCrossedJobs |-> IF j \in {1, 4} THEN x ELSE IF j = 2 THEN y ELSE z]
MCCrossedSources == <<<<a, b>>, <<b, a>>, <<a, b>>, <<a, b>>>>
MCSharedJobs == 1 .. 4
MCSharedRuns == [j \in MCSharedJobs |-> r]
MCSharedObjects == [j \in MCSharedJobs |-> x]
MCSharedSources == <<<<a, b>>, <<b>>, <<b>>, <<b>>>>
MCRank == [j \in 1 .. 4 |-> j]
====
