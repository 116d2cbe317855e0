---- MODULE MCClientRelease ----
(* ClientRelease on a small instance: two releases without a generation     *)
(* and two with one; between them files appear, change and go.              *)
EXTENDS ClientRelease
CONSTANTS p, q, m0, n0, m1, m2
MCPaths == {p, q}
MCSigned == {m0, n0, m1, m2}
MCContent == [m \in MCSigned |->
  IF m = m0 THEN [x \in MCPaths |-> IF x = p THEN "1" ELSE "absent"]
  ELSE IF m = n0 THEN [x \in MCPaths |-> IF x = p THEN "2" ELSE "3"]
  ELSE [x \in MCPaths |-> IF x = p /\ m = m1 THEN "absent" ELSE "3"]]
MCGeneration == [m \in MCSigned |-> IF m = m1 THEN 1 ELSE IF m = m2 THEN 2 ELSE 0]
====
