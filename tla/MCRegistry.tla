----------------------------- MODULE MCRegistry -----------------------------
(* Small instances of Registry for TLC. *)
EXTENDS Registry, TLC

CONSTANTS s1, s2, s3, c1, i1, i2, n1, n2

(* One pod restarting (s1, then the newer s2) and a sibling pod (s3) that   *)
(* shares the pool's certificate with s1.                                   *)
PodCluster    == [s \in {s1, s2, s3} |-> c1]
PodInstance   == (s1 :> i1) @@ (s2 :> i1) @@ (s3 :> i2)
PodSerial     == (s1 :> n1) @@ (s2 :> n2) @@ (s3 :> n1)
PodGeneration == (s1 :> 1) @@ (s2 :> 2) @@ (s3 :> 1)
PodFacts      == [s \in {s1, s2, s3} |-> 0]

(* One pod whose tunnel drops and comes back: same process, same slot. *)
RedialCluster    == [s \in {s1, s2} |-> c1]
RedialInstance   == [s \in {s1, s2} |-> i1]
RedialSerial     == [s \in {s1, s2} |-> n1]
RedialGeneration == [s \in {s1, s2} |-> 1]
RedialFacts      == (s1 :> 1) @@ (s2 :> 0)

=============================================================================
