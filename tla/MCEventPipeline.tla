-------------------------- MODULE MCEventPipeline --------------------------
(* Small instances of EventPipeline. *)
EXTENDS EventPipeline

CONSTANTS s1, s2, g1, g2

OneSession == {s1}
TwoSessions == {s1, s2}
OneThread == {g1}
TwoThreads == {g1, g2}
OwnerOne == [g \in {g1} |-> s1]
OwnerTwo == [g \in {g1, g2} |-> IF g = g1 THEN s1 ELSE s2]
OwnerShared == [g \in {g1, g2} |-> s1]
=============================================================================
