---- MODULE MCEventDelivery ----
EXTENDS EventDelivery, TLC

CONSTANTS e1, e2, s1, s2, d1, d2, w1, w2, package

MCKeyOf == [e \in Events |-> package]
====
