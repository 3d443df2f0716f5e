--------------------------- MODULE TunnelContract ---------------------------
(***************************************************************************)
(* What tunnel.Listener and tunnel.SessionHandler promise                  *)
(* (internal/tunnel/tunnel.go): every authenticated session is handed to   *)
(* the handler once; its release function runs once, after the session     *)
(* ended; once Shutdown has returned no session is live, nor ever will be. *)
(***************************************************************************)
CONSTANT Conns

VARIABLES
  handed,    \* each connection: "no", "live", "over" (ended), "released" or "refused"
  shutdown   \* "no", "called", "returned", or "expired" when its context ended first

vars == <<handed, shutdown>>

Init == handed = [c \in Conns |-> "no"] /\ shutdown = "no"

OnSession(c) ==
  /\ handed[c] = "no" /\ shutdown # "returned"
  /\ \E r \in {"live", "over", "refused"} : handed' = [handed EXCEPT ![c] = r]
  /\ UNCHANGED shutdown

SessionEnds(c) ==
  /\ handed[c] = "live"
  /\ handed' = [handed EXCEPT ![c] = "over"]
  /\ UNCHANGED shutdown

Release(c) ==
  /\ handed[c] = "over"
  /\ handed' = [handed EXCEPT ![c] = "released"]
  /\ UNCHANGED shutdown

ShutdownCalled == shutdown = "no" /\ shutdown' = "called" /\ UNCHANGED handed

ShutdownReturns ==
  /\ shutdown = "called"
  /\ \/ shutdown' = "expired"
     \/ (\A c \in Conns : handed[c] \notin {"live", "over"}) /\ shutdown' = "returned"
  /\ UNCHANGED handed

Next ==
  \/ \E c \in Conns : OnSession(c) \/ SessionEnds(c) \/ Release(c)
  \/ ShutdownCalled \/ ShutdownReturns

Spec == Init /\ [][Next]_vars
=============================================================================
