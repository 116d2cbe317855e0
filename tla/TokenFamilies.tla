---- MODULE TokenFamilies ----
(***************************************************************************)
(* What a store of refresh tokens promises: a session hands on one token   *)
(* at a time, a token that was given up is never good again, and a session *)
(* that ended never gets another.                                          *)
(***************************************************************************)
CONSTANTS Sessions, Tokens, NoToken

VARIABLES
  good,   \* the one token a session accepts, NoToken before it opens and
          \* after it ended
  spent   \* tokens given up

vars == <<good, spent>>

Init == good = [s \in Sessions |-> NoToken] /\ spent = {}

Fresh(t) == t \notin spent /\ \A s \in Sessions : good[s] # t

(* Some sessions end; one may open in the same step. *)
Without(ended) == [s \in Sessions |-> IF s \in ended THEN NoToken ELSE good[s]]
Ends(ended) == (\A s \in ended : good[s] # NoToken) /\ spent' = spent \cup {good[s] : s \in ended}

End(ended) == Ends(ended) /\ good' = Without(ended)

Open(ended, s, t) == /\ good[s] = NoToken /\ s \notin ended /\ Fresh(t)
                     /\ Ends(ended) /\ good' = [Without(ended) EXCEPT ![s] = t]

Rotate(s, t) == /\ good[s] # NoToken /\ Fresh(t)
                /\ good' = [good EXCEPT ![s] = t]
                /\ spent' = spent \cup {good[s]}

Next == \/ \E ended \in SUBSET Sessions : End(ended)
        \/ \E ended \in SUBSET Sessions, s \in Sessions, t \in Tokens : Open(ended, s, t)
        \/ \E s \in Sessions, t \in Tokens : Rotate(s, t)

Spec == Init /\ [][Next]_vars
====
