--------------------------- MODULE MCRevocation ---------------------------
(* Sessions of one certificate, or of two, and their revocation. *)
EXTENDS Revocation, TLC

CONSTANTS s1, s2, n1, n2, r1

OneCert == [s \in Sessions |-> n1]
TwoCerts == (s1 :> n1) @@ (s2 :> n2)

=============================================================================
