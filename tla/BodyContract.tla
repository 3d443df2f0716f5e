---------------------------- MODULE BodyContract ----------------------------
(***************************************************************************)
(* What tunnel.Response.Body promises its reader, whatever carries it:     *)
(* never more than the budget; io.EOF only behind a whole body; the answer *)
(* "too large" only behind exactly the budget; a terminal error for good.  *)
(***************************************************************************)
EXTENDS Integers

CONSTANTS Budget, MaxLen

VARIABLES
  len,      \* how long the upstream body really is
  fate,     \* how the upstream call ends: "whole", "broken" or "cut" by the handler
  got,      \* bytes handed to the reader
  outcome   \* "open", then the terminal error Read reports

vars == <<len, fate, got, outcome>>

Init ==
  /\ len \in 0 .. MaxLen /\ fate \in {"whole", "broken", "cut"}
  /\ got = 0 /\ outcome = "open"

(* Bytes already received are read even after the outcome is decided, and   *)
(* the last ones may arrive with it.                                        *)
Bytes ==
  /\ got' \in got .. MaxLen
  /\ got' # got => got' <= Budget /\ got' <= len /\ outcome # "closed"

Deliver == Bytes /\ UNCHANGED <<len, fate, outcome>>

Decide ==
  /\ outcome = "open" /\ Bytes
  /\ outcome' \in {"eof", "tooLarge", "failed", "closed"}
  /\ outcome' = "eof" => fate = "whole" /\ len <= Budget
  /\ outcome' = "tooLarge" => len > Budget \/ fate = "cut"
  /\ UNCHANGED <<len, fate>>

Next == Deliver \/ Decide

Spec == Init /\ [][Next]_vars
=============================================================================
