------------------------------ MODULE Listener ------------------------------
(***************************************************************************)
(* The hub's end of the tunnel: the HTTP handler that upgrades and         *)
(* authenticates a spoke and offers the connection (serveHTTP and          *)
(* connSource of internal/tunnel/wstun/server.go) and the listener that    *)
(* adopts it, hands the session over, watches it and shuts down            *)
(* (internal/tunnel/grpctun/listener.go, session.Close of session.go).     *)
(* What authenticate checks is in Handshake.                               *)
(***************************************************************************)
EXTENDS Integers, FiniteSets, FiniteSetTheorems, TLAPS

CONSTANTS
  Conns,         \* connections spokes open
  MaxSessions,   \* ServerConfig.MaxSessions, 0 for no limit
  MaxPending,    \* MaxPendingHandshakes
  ListenerMax,   \* ListenerConfig.MaxSessions, 0 for no limit
  None           \* no connection

ListenerConstants ==
  /\ IsFiniteSet(Conns) /\ None \notin Conns
  /\ {MaxSessions, MaxPending, ListenerMax} \subseteq Nat /\ MaxPending > 0

VARIABLES
  handler,    \* serveHTTP of each connection
  sess,       \* its session in the listener
  dead,       \* connections whose socket is gone
  connClosed, \* connections closed on the hub: sessionConn.done
  over,       \* sessions closed: session.done
  deathwatch, \* sessions whose deathWatch runs
  known,      \* listener.sessions
  pending,    \* handshakes in flight
  sessions,   \* Server.sessions
  active,     \* listener.active
  wg,         \* listener.wg
  accepted,   \* the connection Serve has just accepted
  serve,      \* Serve
  stop,       \* stopAccepting: closed, then stopped, then the source closed
  cancelled,  \* the context of Serve
  shut,       \* Shutdown
  live        \* the sessions Shutdown still has to close

vars == <<handler, sess, dead, connClosed, over, deathwatch, known, pending, sessions, active, wg,
          accepted, serve, stop, cancelled, shut, live>>
http == <<handler, pending, sessions>>
shutting == <<stop, cancelled, shut, live>>
serving == <<serve, accepted>>
attached == <<sess, over, deathwatch, known, active, wg>>

closed == stop # "no"
stopped == stop \in {"stopped", "done"}
srcClosed == stop = "done"

Init ==
  /\ handler = [c \in Conns |-> "new"] /\ sess = [c \in Conns |-> "none"]
  /\ dead = {} /\ connClosed = {} /\ over = {} /\ deathwatch = {} /\ known = {} /\ live = {}
  /\ pending = 0 /\ sessions = 0 /\ active = 0 /\ wg = 0
  /\ accepted = None /\ serve = "accept" /\ stop = "no" /\ cancelled = FALSE /\ shut = "no"

Goto(c, pc) == handler' = [handler EXCEPT ![c] = pc]

-----------------------------------------------------------------------------
(* serveHTTP *)

(* The early, advisory answer at the session limit. *)
atSessionLimit == MaxSessions > 0 /\ sessions >= MaxSessions

Request(c) ==
  /\ handler[c] = "new"
  /\ Goto(c, IF atSessionLimit THEN "done" ELSE "checked")
  /\ UNCHANGED <<sess, dead, connClosed, over, deathwatch, known, pending, sessions, active, wg,
                 serving, shutting>>

(* A place among the handshakes in flight, or a refusal; then the upgrade. *)
Upgrade(c) ==
  /\ handler[c] = "checked"
  /\ IF pending < MaxPending THEN Goto(c, "handshake") /\ pending' = pending + 1
     ELSE Goto(c, "done") /\ UNCHANGED pending
  /\ UNCHANGED <<sess, dead, connClosed, over, deathwatch, known, sessions, active, wg,
                 serving, shutting>>

Authenticate(c) ==
  /\ handler[c] = "handshake"
  /\ \/ c \notin dead /\ Goto(c, "proved") /\ UNCHANGED <<pending, dead>>
     \/ Goto(c, "done") /\ pending' = pending - 1 /\ dead' = dead \cup {c}
  /\ UNCHANGED <<sess, connClosed, over, deathwatch, known, sessions, active, wg, serving, shutting>>

reserveSessionAdvised(c) == sessions' = sessions + 1

(* The atomic claim of a session slot. *)
reserveSession(c) == (MaxSessions > 0 => sessions < MaxSessions) /\ sessions' = sessions + 1

Admit(c) ==
  /\ handler[c] = "proved"
  /\ \/ reserveSession(c) /\ Goto(c, "admitted") /\ UNCHANGED <<pending, dead>>
     \/ /\ atSessionLimit
        /\ Goto(c, "done") /\ pending' = pending - 1 /\ dead' = dead \cup {c} /\ UNCHANGED sessions
  /\ UNCHANGED <<sess, connClosed, over, deathwatch, known, active, wg, serving, shutting>>

(* The acceptance is written, or the peer is gone; the handshake is over. *)
Accepted(c) ==
  /\ handler[c] = "admitted"
  /\ pending' = pending - 1
  /\ \/ c \notin dead /\ Goto(c, "offering") /\ UNCHANGED sessions
     \/ c \in dead /\ Goto(c, "done") /\ sessions' = sessions - 1
  /\ UNCHANGED <<sess, dead, connClosed, over, deathwatch, known, active, wg, serving, shutting>>

(* connSource.offer meets connSource.Accept: the channel has no buffer. *)
Adopt(c) ==
  /\ handler[c] = "offering" /\ serve = "accept"
  /\ Goto(c, "held")
  /\ serve' = "accepted" /\ accepted' = c
  /\ UNCHANGED <<sess, dead, connClosed, over, deathwatch, known, pending, sessions, active, wg, shutting>>

(* Nobody took it: the source closed, or the offer timed out. *)
OfferFails(c) ==
  /\ handler[c] = "offering"
  /\ Goto(c, "done") /\ sessions' = sessions - 1
  /\ dead' = dead \cup {c}
  /\ UNCHANGED <<sess, connClosed, over, deathwatch, known, pending, active, wg, serving, shutting>>

(* The handler holds the request open until the session's connection closes. *)
HandlerReturns(c) ==
  /\ handler[c] = "held" /\ c \in connClosed
  /\ Goto(c, "done") /\ sessions' = sessions - 1
  /\ UNCHANGED <<sess, dead, connClosed, over, deathwatch, known, pending, active, wg, serving, shutting>>

-----------------------------------------------------------------------------
(* Serve *)

(* reserve refuses once closed, and counts the goroutine under the lock. *)

reserve(c) ==
  /\ ~closed
  /\ ListenerMax > 0 => active < ListenerMax
  /\ active' = active + 1 /\ wg' = wg + 1

Full == closed \/ (ListenerMax > 0 /\ active >= ListenerMax)

Reserve ==
  /\ serve = "accepted"
  /\ serve' = "accept" /\ accepted' = None
  /\ \/ /\ reserve(accepted) /\ sess' = [sess EXCEPT ![accepted] = "attaching"]
        /\ UNCHANGED <<dead, connClosed>>
     \/ /\ Full
        /\ connClosed' = connClosed \cup {accepted} /\ dead' = dead \cup {accepted}
        /\ UNCHANGED <<sess, active, wg>>
  /\ UNCHANGED <<http, over, deathwatch, known, shutting>>

(* Accept fails once its context or its source is gone; Serve waits for     *)
(* every goroutine and returns.                                             *)
AcceptFails ==
  /\ serve = "accept" /\ (cancelled \/ srcClosed)
  /\ serve' = "waiting"
  /\ UNCHANGED <<http, attached, dead, connClosed, accepted, shutting>>

ServeReturns ==
  /\ serve = "waiting" /\ wg = 0
  /\ serve' = "returned"
  /\ UNCHANGED <<http, attached, dead, connClosed, accepted, shutting>>

-----------------------------------------------------------------------------
(* attach, newSession and the goroutines of a session *)

(* session.Close: its done channel, and the connection with it. *)
CloseAlso(cs) ==
  /\ over' = over \cup cs /\ connClosed' = connClosed \cup cs /\ dead' = dead \cup cs

release == active' = active - 1

(* The HTTP/2 preface is exchanged, or not before the timeout.  The session *)
(* is registered whatever Shutdown is doing.                                *)
NewSession(c) ==
  /\ sess[c] = "attaching"
  /\ \/ /\ c \notin dead
        /\ sess' = [sess EXCEPT ![c] = "ready"]
        /\ known' = known \cup {c} /\ deathwatch' = deathwatch \cup {c} /\ wg' = wg + 1
        /\ UNCHANGED <<over, connClosed, dead, active>>
     \/ /\ CloseAlso({c}) /\ release
        /\ sess' = [sess EXCEPT ![c] = "failed"] /\ wg' = wg - 1
        /\ UNCHANGED <<known, deathwatch>>
  /\ UNCHANGED <<http, serving, shutting>>

(* OnSession refuses the session, or takes it; its goroutine is counted     *)
(* before attach's own is not.                                              *)
OnSession(c) ==
  /\ sess[c] = "ready"
  /\ \/ /\ CloseAlso({c}) /\ known' = known \ {c} /\ release
        /\ sess' = [sess EXCEPT ![c] = "refused"] /\ wg' = wg - 1
     \/ /\ sess' = [sess EXCEPT ![c] = "watched"] /\ wg' = wg + 1 - 1
        /\ UNCHANGED <<over, connClosed, dead, known, active>>
  /\ UNCHANGED <<http, deathwatch, serving, shutting>>

DeathWatchClosed(c) ==
  /\ c \in deathwatch /\ c \in over
  /\ CloseAlso({c})
  /\ deathwatch' = deathwatch \ {c} /\ wg' = wg - 1
  /\ UNCHANGED <<http, sess, known, active, serving, shutting>>

(* Nobody else notices a socket that died while the session was idle. *)
DeathWatch(c) ==
  /\ c \in deathwatch /\ (c \in over \/ c \in dead)
  /\ CloseAlso({c})
  /\ deathwatch' = deathwatch \ {c} /\ wg' = wg - 1
  /\ UNCHANGED <<http, sess, known, active, serving, shutting>>

(* watch closes the session when the hub stops, ... *)
WatchStop(c) ==
  /\ sess[c] = "watched" /\ c \notin over /\ (stopped \/ cancelled)
  /\ CloseAlso({c})
  /\ UNCHANGED <<http, sess, deathwatch, known, active, wg, serving, shutting>>

(* ... and returns when it is over: release, forget, free the slot. *)
Ended(c) ==
  /\ sess[c] = "watched" /\ c \in over
  /\ known' = known \ {c} /\ release
  /\ sess' = [sess EXCEPT ![c] = "released"] /\ wg' = wg - 1
  /\ UNCHANGED <<http, dead, connClosed, over, deathwatch, serving, shutting>>

SocketDies(c) ==
  /\ c \notin dead /\ handler[c] # "new" /\ dead' = dead \cup {c}
  /\ UNCHANGED <<http, attached, connClosed, serving, shutting>>

-----------------------------------------------------------------------------
(* stopAccepting runs once, for a cancelled context or for Shutdown. *)
StopAccepting ==
  /\ cancelled \/ shut = "stopping"
  /\ \/ stop = "no" /\ stop' = "closed"
     \/ stop = "closed" /\ stop' = "stopped"
     \/ stop = "stopped" /\ stop' = "done"
  /\ UNCHANGED <<http, attached, dead, connClosed, serving, cancelled, shut, live>>

Cancel ==
  /\ ~cancelled /\ cancelled' = TRUE
  /\ UNCHANGED <<http, attached, dead, connClosed, serving, stop, shut, live>>

Shutdown ==
  /\ shut = "no" /\ shut' = "stopping"
  /\ UNCHANGED <<http, attached, dead, connClosed, serving, stop, cancelled, live>>

Snapshot ==
  /\ shut = "stopping" /\ stop = "done"
  /\ live' = known /\ shut' = "closing"
  /\ UNCHANGED <<http, attached, dead, connClosed, serving, stop, cancelled>>

CloseLive(c) ==
  /\ shut = "closing" /\ c \in live
  /\ CloseAlso({c}) /\ live' = live \ {c}
  /\ UNCHANGED <<http, sess, deathwatch, known, active, wg, serving, stop, cancelled, shut>>

ShutdownWaits ==
  /\ shut = "closing" /\ live = {} /\ shut' = "waiting"
  /\ UNCHANGED <<http, attached, dead, connClosed, serving, stop, cancelled, live>>

ShutdownReturns ==
  /\ shut = "waiting"
  /\ \/ wg = 0 /\ shut' = "returned"
     \/ shut' = "expired"
  /\ UNCHANGED <<http, attached, dead, connClosed, serving, stop, cancelled, live>>

-----------------------------------------------------------------------------
Handle(c) == Request(c) \/ Upgrade(c) \/ Authenticate(c) \/ Admit(c) \/ Accepted(c)
             \/ OfferFails(c) \/ HandlerReturns(c)
Attach(c) == NewSession(c) \/ OnSession(c)
Watch(c) == WatchStop(c) \/ Ended(c)
Serving == Reserve \/ AcceptFails \/ ServeReturns \/ \E c \in Conns : Adopt(c)
Shutting == Snapshot \/ ShutdownWaits \/ ShutdownReturns \/ \E c \in Conns : CloseLive(c)

Next ==
  \/ Serving \/ StopAccepting \/ Cancel \/ Shutdown \/ Shutting
  \/ \E c \in Conns : Handle(c) \/ Attach(c) \/ DeathWatch(c) \/ Watch(c) \/ SocketDies(c)

Spec == Init /\ [][Next]_vars

-----------------------------------------------------------------------------
Pcs == {"new", "checked", "handshake", "proved", "admitted", "offering", "held", "done"}

TypeOK ==
  /\ handler \in [Conns -> Pcs]
  /\ sess \in [Conns -> {"none", "attaching", "ready", "failed", "refused", "watched", "released"}]
  /\ {dead, connClosed, over, deathwatch, known, live} \subseteq SUBSET Conns
  /\ pending \in 0 .. MaxPending /\ {sessions, active, wg} \subseteq 0 .. 3 * Cardinality(Conns)
  /\ serve \in {"accept", "accepted", "waiting", "returned"}
  /\ accepted \in Conns \cup {None}
  /\ stop \in {"no", "closed", "stopped", "done"} /\ cancelled \in BOOLEAN
  /\ shut \in {"no", "stopping", "closing", "waiting", "returned", "expired"}

HoldingSlot == {c \in Conns : handler[c] \in {"admitted", "offering", "held"}}
Attached == {c \in Conns : sess[c] \in {"attaching", "ready", "watched"}}

(* The counters agree with the goroutines they count, on every path out of  *)
(* the handler and of attach, and neither limit is ever exceeded although   *)
(* the first check is only advisory (reserveSession, listener.reserve).     *)
SlotsBalanced ==
  /\ sessions = Cardinality(HoldingSlot)
  /\ active = Cardinality(Attached)
  /\ MaxSessions > 0 => sessions <= MaxSessions
  /\ ListenerMax > 0 => active <= ListenerMax

(* The WaitGroup is never taken from zero while Shutdown or Serve waits on  *)
(* it, which its contract forbids (listener.reserve counts in the critical  *)
(* section that checks closed).                                             *)
NoAddDuringWait ==
  wg = 0 /\ wg' > 0 => shut \notin {"waiting", "returned"} /\ serve # "waiting"

(* What the handler of tunnel.Listener has seen of each session, and of     *)
(* Shutdown.                                                                *)
Handed ==
  [c \in Conns |-> CASE sess[c] = "released" -> "released"
                     [] sess[c] = "refused"  -> "refused"
                     [] sess[c] = "watched"  -> IF c \in over THEN "over" ELSE "live"
                     [] OTHER -> "no"]
Called == IF shut \in {"stopping", "closing", "waiting"} THEN "called" ELSE shut

(* The listener keeps the contract of tunnel.Listener: sessions are handed  *)
(* over and released once each, and after Shutdown returned none is live.   *)
Contract == INSTANCE TunnelContract WITH handed <- Handed, shutdown <- Called

Dead(c) == c \in dead
Reclaimed(c) == handler[c] = "done" /\ sess[c] \notin {"attaching", "ready", "watched"}
Underway(c) == handler[c] # "new"
ShuttingDown == shut = "stopping"
Drained == serve = "returned" /\ Attached = {} /\ \A c \in Conns : handler[c] \in {"new", "done"}

-----------------------------------------------------------------------------
(* Proofs, for every set of connections and every limit.                    *)

Stages == {"none", "attaching", "ready", "failed", "refused", "watched", "released"}
Proving == {"handshake", "proved", "admitted"}
Holding == {"admitted", "offering", "held"}
Running == {"attaching", "ready", "watched"}
InHandshake == {c \in Conns : handler[c] \in Proving}

Types ==
  /\ handler \in [Conns -> Pcs] /\ sess \in [Conns -> Stages]
  /\ dead \subseteq Conns /\ connClosed \subseteq Conns /\ over \subseteq Conns
  /\ deathwatch \subseteq Conns /\ known \subseteq Conns /\ live \subseteq Conns
  /\ serve \in {"accept", "accepted", "waiting", "returned"}
  /\ accepted \in Conns \cup {None}
  /\ stop \in {"no", "closed", "stopped", "done"} /\ cancelled \in BOOLEAN
  /\ shut \in {"no", "stopping", "closing", "waiting", "returned", "expired"}

(* A connection has no session before Serve reserved one for it, and no     *)
(* death watch before its session is registered.                            *)
InOrder ==
  /\ \A c \in Conns : handler[c] \notin {"held", "done"} => sess[c] = "none"
  /\ serve = "accepted" =>
       accepted \in Conns /\ sess[accepted] = "none" /\ handler[accepted] \in {"held", "done"}
  /\ \A c \in deathwatch : sess[c] \notin {"none", "attaching"}

(* Every counter is the number of goroutines it stands for. *)
HandshakesCounted == pending = Cardinality(InHandshake) /\ pending <= MaxPending
SlotsCounted ==
  sessions = Cardinality(HoldingSlot) /\ (MaxSessions > 0 => sessions <= MaxSessions)
AttachedCounted ==
  active = Cardinality(Attached) /\ (ListenerMax > 0 => active <= ListenerMax)
WaitCounted == wg = Cardinality(Attached) + Cardinality(deathwatch)

(* Shutdown goes on only behind a closed listener, and returns behind the   *)
(* last goroutine.                                                          *)
InTurn ==
  /\ shut \in {"closing", "waiting", "returned"} => stop = "done"
  /\ shut = "returned" => wg = 0

LInv ==
  /\ Types /\ InOrder /\ HandshakesCounted /\ SlotsCounted /\ AttachedCounted /\ WaitCounted
  /\ InTurn

(* What one connection's coming and going does to a count. *)
LEMMA Counts ==
  ASSUME IsFiniteSet(Conns), NEW S, S \subseteq Conns, NEW c \in Conns
  PROVE  /\ Cardinality(S) \in Nat /\ Cardinality(S) <= Cardinality(Conns)
         /\ Cardinality(S \cup {c}) = IF c \in S THEN Cardinality(S) ELSE Cardinality(S) + 1
         /\ Cardinality(S \ {c}) = IF c \in S THEN Cardinality(S) - 1 ELSE Cardinality(S)
         /\ c \in S => Cardinality(S) > 0
  <1>1. IsFiniteSet(S) /\ Cardinality(S) <= Cardinality(Conns)
    BY FS_Subset
  <1>2. Cardinality(S) \in Nat /\ (Cardinality(S) = 0 <=> S = {})
    BY <1>1, FS_CardinalityType, FS_EmptySet
  <1>3. c \in S => Cardinality(S) > 0
    BY <1>2
  <1> QED BY <1>1, <1>2, <1>3, FS_AddElement, FS_RemoveElement, Zenon

(* A handler goes on: the counts of handshakes and slots follow it. *)
LEMMA HandlerMoves ==
  ASSUME ListenerConstants, Types, NEW c \in Conns, NEW at \in Pcs, Goto(c, at)
  PROVE  LET n == Cardinality(InHandshake) IN LET k == Cardinality(HoldingSlot) IN
         /\ handler' \in [Conns -> Pcs] /\ handler'[c] = at
         /\ \A e \in Conns \ {c} : handler'[e] = handler[e]
         /\ n \in Nat /\ k \in Nat
         /\ Cardinality(InHandshake') =
              IF at \in Proving THEN IF handler[c] \in Proving THEN n ELSE n + 1
              ELSE IF handler[c] \in Proving THEN n - 1 ELSE n
         /\ Cardinality(HoldingSlot') =
              IF at \in Holding THEN IF handler[c] \in Holding THEN k ELSE k + 1
              ELSE IF handler[c] \in Holding THEN k - 1 ELSE k
  <1>1. /\ handler' \in [Conns -> Pcs] /\ handler'[c] = at
        /\ \A e \in Conns \ {c} : handler'[e] = handler[e]
    BY DEF Types, Goto
  <1>2. InHandshake' = IF at \in Proving THEN InHandshake \cup {c} ELSE InHandshake \ {c}
    BY <1>1 DEF InHandshake
  <1>3. HoldingSlot' = IF at \in Holding THEN HoldingSlot \cup {c} ELSE HoldingSlot \ {c}
    BY <1>1 DEF HoldingSlot, Holding
  <1>4. InHandshake \subseteq Conns /\ (c \in InHandshake <=> handler[c] \in Proving)
    BY DEF InHandshake
  <1>5. HoldingSlot \subseteq Conns /\ (c \in HoldingSlot <=> handler[c] \in Holding)
    BY DEF HoldingSlot, Holding
  <1>6. IsFiniteSet(Conns)
    BY DEF ListenerConstants
  <1> HIDE DEF InHandshake, HoldingSlot
  <1>7. /\ Cardinality(InHandshake) \in Nat
        /\ Cardinality(InHandshake') =
              IF at \in Proving THEN IF handler[c] \in Proving THEN Cardinality(InHandshake)
                                     ELSE Cardinality(InHandshake) + 1
              ELSE IF handler[c] \in Proving THEN Cardinality(InHandshake) - 1
                   ELSE Cardinality(InHandshake)
    BY <1>2, <1>4, <1>6, Counts, Zenon
  <1>8. /\ Cardinality(HoldingSlot) \in Nat
        /\ Cardinality(HoldingSlot') =
              IF at \in Holding THEN IF handler[c] \in Holding THEN Cardinality(HoldingSlot)
                                     ELSE Cardinality(HoldingSlot) + 1
              ELSE IF handler[c] \in Holding THEN Cardinality(HoldingSlot) - 1
                   ELSE Cardinality(HoldingSlot)
    BY <1>3, <1>5, <1>6, Counts, Zenon
  <1> QED BY <1>1, <1>7, <1>8

(* A session goes on: the count of attached ones follows it. *)
LEMMA SessionMoves ==
  ASSUME ListenerConstants, Types, NEW c \in Conns, NEW at \in Stages,
         sess' = [sess EXCEPT ![c] = at]
  PROVE  LET n == Cardinality(Attached) IN
         /\ sess' \in [Conns -> Stages] /\ sess'[c] = at
         /\ \A e \in Conns \ {c} : sess'[e] = sess[e]
         /\ n \in Nat
         /\ Cardinality(Attached') =
              IF at \in Running THEN IF sess[c] \in Running THEN n ELSE n + 1
              ELSE IF sess[c] \in Running THEN n - 1 ELSE n
  <1>1. /\ sess' \in [Conns -> Stages] /\ sess'[c] = at
        /\ \A e \in Conns \ {c} : sess'[e] = sess[e]
    BY DEF Types
  <1>2. Attached' = IF at \in Running THEN Attached \cup {c} ELSE Attached \ {c}
    BY <1>1 DEF Attached, Running
  <1>3. Attached \subseteq Conns /\ (c \in Attached <=> sess[c] \in Running)
    BY DEF Attached, Running
  <1> HIDE DEF Attached
  <1> QED BY <1>1, <1>2, <1>3, Counts, Zenon DEF ListenerConstants

LEMMA InitHolds ==
  ASSUME ListenerConstants, Init
  PROVE  LInv
  <1>1. Types /\ InOrder /\ InTurn
    BY Zenon DEF Init, Types, InOrder, InTurn, Pcs, Stages
  <1>2. InHandshake = {} /\ HoldingSlot = {} /\ Attached = {} /\ deathwatch = {}
    BY DEF Init, InHandshake, Proving, HoldingSlot, Attached
  <1>3. Cardinality({}) = 0
    BY FS_EmptySet
  <1>4. HandshakesCounted /\ SlotsCounted /\ AttachedCounted /\ WaitCounted
    BY <1>2, <1>3 DEF Init, ListenerConstants, HandshakesCounted, SlotsCounted, AttachedCounted,
       WaitCounted
  <1> QED BY <1>1, <1>4 DEF LInv

(* A step of serveHTTP leaves the listener alone. *)
LEMMA HandlePreserves ==
  ASSUME ListenerConstants, LInv, NEW c \in Conns, Handle(c)
  PROVE  LInv'
  <1> USE DEF LInv
  <1>0. {MaxSessions, MaxPending, ListenerMax} \subseteq Nat
    BY Zenon DEF ListenerConstants
  <1>1. UNCHANGED <<sess, over, deathwatch, known, active, wg, connClosed, serve, accepted, stop,
                    cancelled, shut, live>>
    BY Zenon DEF Handle, Request, Upgrade, Authenticate, Admit, Accepted, OfferFails, HandlerReturns,
       serving, shutting
  <1>2. PICK at \in Pcs :
          /\ Goto(c, at) /\ dead' \subseteq Conns
          /\ handler[c] \in {"held", "done"} => at = "done"
          /\ at # "held"
    BY ZenonT(60) DEF Handle, Request, Upgrade, Authenticate, Admit, Accepted, OfferFails, HandlerReturns,
       Types, Pcs
  <1>3. /\ handler' \in [Conns -> Pcs] /\ handler'[c] = at
        /\ \A e \in Conns \ {c} : handler'[e] = handler[e]
    BY <1>2, HandlerMoves
  <1>4. Types'
    BY <1>1, <1>2, <1>3, ZenonT(60) DEF Types
  <1>5. InOrder'
    BY <1>1, <1>2, <1>3, ZenonT(60) DEF InOrder, Types
  <1>6. Attached' = Attached
    BY <1>1 DEF Attached
  <1>7. AttachedCounted' /\ WaitCounted' /\ InTurn'
    BY <1>1, <1>6, ZenonT(60) DEF AttachedCounted, WaitCounted, InTurn
  <1>8. HandshakesCounted' /\ SlotsCounted'
    <2> DEFINE n == Cardinality(InHandshake)
               k == Cardinality(HoldingSlot)
    <2>1. /\ n \in Nat /\ k \in Nat /\ pending = n /\ sessions = k
          /\ pending <= MaxPending /\ (MaxSessions > 0 => sessions <= MaxSessions)
      BY <1>2, HandlerMoves DEF HandshakesCounted, SlotsCounted
    <2>2. ASSUME NEW pc \in Pcs, Goto(c, pc)
          PROVE  /\ Cardinality(InHandshake') =
                      IF pc \in Proving THEN IF handler[c] \in Proving THEN n ELSE n + 1
                      ELSE IF handler[c] \in Proving THEN n - 1 ELSE n
                 /\ Cardinality(HoldingSlot') =
                      IF pc \in Holding THEN IF handler[c] \in Holding THEN k ELSE k + 1
                      ELSE IF handler[c] \in Holding THEN k - 1 ELSE k
      BY <2>2, HandlerMoves
    <2>3. SUFFICES /\ pending' = Cardinality(InHandshake') /\ pending' <= MaxPending
                   /\ sessions' = Cardinality(HoldingSlot')
                   /\ MaxSessions > 0 => sessions' <= MaxSessions
      BY DEF HandshakesCounted, SlotsCounted
    <2> HIDE DEF n, k
    <2>4. CASE Request(c)
      BY <2>1, <2>2, <2>4, <1>0, ZenonT(60) DEF Request, Pcs, Proving, Holding
    <2>5. CASE Upgrade(c)
      BY <2>1, <2>2, <2>5, <1>0, SMTT(60) DEF Upgrade, Pcs, Proving, Holding
    <2>6. CASE Authenticate(c)
      BY <2>1, <2>2, <2>6, <1>0, SMTT(60) DEF Authenticate, Pcs, Proving, Holding
    <2>7. CASE Admit(c)
      BY <2>1, <2>2, <2>7, <1>0, SMTT(60) DEF Admit, reserveSession, Pcs, Proving, Holding
    <2>8. CASE Accepted(c)
      BY <2>1, <2>2, <2>8, <1>0, SMTT(60) DEF Accepted, Pcs, Proving, Holding
    <2>9. CASE OfferFails(c)
      BY <2>1, <2>2, <2>9, <1>0, SMTT(60) DEF OfferFails, Pcs, Proving, Holding
    <2>10. CASE HandlerReturns(c)
      BY <2>1, <2>2, <2>10, <1>0, SMTT(60) DEF HandlerReturns, Pcs, Proving, Holding
    <2> QED BY <2>4, <2>5, <2>6, <2>7, <2>8, <2>9, <2>10, ZenonT(60) DEF Handle
  <1> QED BY <1>4, <1>5, <1>7, <1>8, ZenonT(60)

(* What no step of the listener's own touches: the handlers and their       *)
(* counters, except where Adopt lets one go on.                             *)
LEMMA HttpAlone ==
  ASSUME LInv, UNCHANGED http
  PROVE  HandshakesCounted' /\ SlotsCounted'
  <1>1. InHandshake' = InHandshake /\ HoldingSlot' = HoldingSlot
    BY DEF http, InHandshake, HoldingSlot
  <1> QED BY <1>1 DEF LInv, http, HandshakesCounted, SlotsCounted

(* A session comes on or goes: the listener's counters follow it. *)
LEMMA SessionPreserves ==
  ASSUME ListenerConstants, LInv, NEW c \in Conns,
         NewSession(c) \/ OnSession(c) \/ Ended(c)
  PROVE  LInv'
  <1> USE DEF LInv
  <1>0. ListenerMax \in Nat /\ IsFiniteSet(Conns)
    BY DEF ListenerConstants
  <1>1. UNCHANGED <<handler, pending, sessions, serve, accepted, stop, cancelled, shut, live>>
    BY DEF NewSession, OnSession, Ended, http, serving, shutting
  <1>2. PICK at \in Stages \ {"none", "attaching"} :
          /\ sess' = [sess EXCEPT ![c] = at]
          /\ sess[c] \in Running
    BY DEF NewSession, OnSession, Ended, Stages, Running
  <1>3. /\ sess' \in [Conns -> Stages] /\ sess'[c] = at
        /\ \A e \in Conns \ {c} : sess'[e] = sess[e]
    BY <1>2, SessionMoves, Zenon
  <1>4. /\ dead' \subseteq Conns /\ connClosed' \subseteq Conns /\ over' \subseteq Conns
        /\ deathwatch' \subseteq Conns /\ known' \subseteq Conns
        /\ deathwatch' \subseteq deathwatch \cup {c}
    BY DEF NewSession, OnSession, Ended, CloseAlso, Types
  <1>5. Types'
    BY <1>1, <1>3, <1>4 DEF Types
  <1>6. InOrder'
    BY <1>1, <1>2, <1>3, <1>4, ZenonT(180) DEF InOrder, Types, Running
  <1>7. HandshakesCounted' /\ SlotsCounted'
    BY <1>1, HttpAlone DEF http
  <1>8. AttachedCounted' /\ WaitCounted' /\ InTurn'
    <2> DEFINE n == Cardinality(Attached)
               d == Cardinality(deathwatch)
    <2>1. /\ n \in Nat /\ d \in Nat /\ active = n /\ wg = n + d
          /\ ListenerMax > 0 => active <= ListenerMax
      BY <1>0, <1>2, SessionMoves, Counts, Zenon DEF AttachedCounted, WaitCounted, Types
    <2>2. n > 0
      <3>1. c \in Attached /\ Attached \subseteq Conns
        BY <1>2 DEF Attached, Running
      <3>2. Cardinality(Attached) > 0
        BY <1>0, <3>1, Counts, Zenon
      <3> QED BY <3>2
    <2>3. Cardinality(Attached') = IF at \in Running THEN n ELSE n - 1
      BY <1>2, SessionMoves, Zenon
    <2>4. Cardinality(deathwatch \cup {c}) = IF c \in deathwatch THEN d ELSE d + 1
      BY <1>0, Counts DEF Types
    <2>5. c \in deathwatch => sess[c] # "attaching"
      BY DEF InOrder
    <2>6. shut # "returned"
      BY <2>1, <2>2 DEF InTurn
    <2>7. SUFFICES /\ active' = Cardinality(Attached')
                   /\ ListenerMax > 0 => active' <= ListenerMax
                   /\ wg' = Cardinality(Attached') + Cardinality(deathwatch')
      BY <1>1, <2>6 DEF AttachedCounted, WaitCounted, InTurn
    <2> HIDE DEF n
    <2>8. sess'[c] = at
      BY <1>3
    <2>9. CASE NewSession(c)
      <3>1. \/ at = "ready" /\ deathwatch' = deathwatch \cup {c} /\ wg' = wg + 1 /\ active' = active
            \/ at = "failed" /\ deathwatch' = deathwatch /\ wg' = wg - 1 /\ active' = active - 1
        BY <1>2, <2>8, <2>9 DEF NewSession, release, Types
      <3>2. c \notin deathwatch
        BY <2>5, <2>9 DEF NewSession
      <3> HIDE DEF d
      <3>3. Cardinality(deathwatch') = IF at = "ready" THEN d + 1 ELSE d
        BY <2>4, <3>1, <3>2 DEF d
      <3> QED BY <1>0, <2>1, <2>2, <2>3, <3>1, <3>3, SMTT(60) DEF Running
    <2>10. CASE OnSession(c)
      <3>1. /\ deathwatch' = deathwatch
            /\ \/ at = "refused" /\ wg' = wg - 1 /\ active' = active - 1
               \/ at = "watched" /\ wg' = wg + 1 - 1 /\ active' = active
        BY <1>2, <2>8, <2>10 DEF OnSession, release, Types
      <3> QED BY <1>0, <2>1, <2>2, <2>3, <3>1, SMTT(60) DEF Running
    <2>11. CASE Ended(c)
      <3>1. deathwatch' = deathwatch /\ at = "released" /\ wg' = wg - 1 /\ active' = active - 1
        BY <1>2, <2>8, <2>11 DEF Ended, release, Types
      <3> QED BY <1>0, <2>1, <2>2, <2>3, <3>1, SMTT(60) DEF Running
    <2> QED BY <2>9, <2>10, <2>11
  <1> QED BY <1>5, <1>6, <1>7, <1>8

(* A session ends, is noticed, or is closed by Shutdown. *)
LEMMA ClosePreserves ==
  ASSUME ListenerConstants, LInv, NEW c \in Conns,
         DeathWatch(c) \/ WatchStop(c) \/ SocketDies(c) \/ CloseLive(c)
  PROVE  LInv'
  <1> USE DEF LInv
  <1>0. IsFiniteSet(Conns)
    BY Zenon DEF ListenerConstants
  <1>1. /\ UNCHANGED <<http, handler, sess, known, active, serve, accepted, stop, cancelled, shut>>
        /\ live' \subseteq live
        /\ \/ deathwatch' = deathwatch /\ wg' = wg
           \/ c \in deathwatch /\ deathwatch' = deathwatch \ {c} /\ wg' = wg - 1
    BY ZenonT(60) DEF DeathWatch, WatchStop, SocketDies, CloseLive, http, attached, serving, shutting
  <1>2. dead' \subseteq Conns /\ connClosed' \subseteq Conns /\ over' \subseteq Conns
    BY DEF DeathWatch, WatchStop, SocketDies, CloseLive, CloseAlso, attached, Types
  <1>3. Types'
    BY <1>1, <1>2, ZenonT(60) DEF Types
  <1>4. InOrder'
    BY <1>1, Zenon DEF InOrder
  <1>5. HandshakesCounted' /\ SlotsCounted'
    BY <1>1, HttpAlone
  <1>6. Attached' = Attached
    BY <1>1 DEF Attached
  <1>7. AttachedCounted'
    BY <1>1, <1>6 DEF AttachedCounted
  <1>8. WaitCounted' /\ InTurn'
    <2> DEFINE n == Cardinality(Attached)
               d == Cardinality(deathwatch)
    <2>1. n \in Nat /\ d \in Nat /\ wg = n + d
      <3>1. Attached \subseteq Conns
        BY DEF Attached
      <3> QED BY <1>0, <3>1, Counts, Zenon DEF WaitCounted, Types
    <2>2. c \in deathwatch => Cardinality(deathwatch \ {c}) = d - 1 /\ d > 0
      <3>1. deathwatch \subseteq Conns
        BY DEF Types
      <3>2. ASSUME c \in deathwatch
            PROVE  Cardinality(deathwatch \ {c}) = Cardinality(deathwatch) - 1
                   /\ Cardinality(deathwatch) > 0
        BY <1>0, <3>1, <3>2, Counts
      <3> QED BY <3>2
    <2>3. \/ Cardinality(deathwatch') = d /\ wg' = wg
          \/ Cardinality(deathwatch') = d - 1 /\ wg' = wg - 1 /\ d > 0
      BY <1>1, <2>2
    <2> HIDE DEF n, d
    <2>4. WaitCounted'
      BY <1>6, <2>1, <2>3 DEF WaitCounted, n
    <2>5. InTurn'
      BY <1>1, <2>1, <2>3 DEF InTurn
    <2> QED BY <2>4, <2>5
  <1> QED BY <1>3, <1>4, <1>5, <1>7, <1>8, ZenonT(60)

(* Serve takes a connection from a handler. *)
LEMMA AdoptPreserves ==
  ASSUME ListenerConstants, LInv, NEW c \in Conns, Adopt(c)
  PROVE  LInv'
  <1> USE DEF LInv
  <1>1. /\ handler[c] = "offering" /\ Goto(c, "held") /\ serve' = "accepted" /\ accepted' = c
        /\ UNCHANGED <<sess, dead, connClosed, over, deathwatch, known, pending, sessions, active, wg,
                       stop, cancelled, shut, live>>
    BY DEF Adopt, shutting
  <1>2. "held" \in Pcs
    BY DEF Pcs
  <1>3. /\ handler' \in [Conns -> Pcs] /\ handler'[c] = "held"
        /\ \A e \in Conns \ {c} : handler'[e] = handler[e]
        /\ Cardinality(InHandshake') = Cardinality(InHandshake)
        /\ Cardinality(HoldingSlot') = Cardinality(HoldingSlot)
    BY <1>1, <1>2, HandlerMoves, ZenonT(60) DEF Proving, Holding
  <1>4. Types'
    BY <1>1, <1>3, ZenonT(60) DEF Types
  <1>5. InOrder'
    BY <1>1, <1>3 DEF InOrder, Types
  <1>6. Attached' = Attached
    BY <1>1 DEF Attached
  <1> QED BY <1>1, <1>3, <1>4, <1>5, <1>6
          DEF HandshakesCounted, SlotsCounted, AttachedCounted, WaitCounted, InTurn

(* Serve counts the connection in, or turns it away. *)
LEMMA ReservePreserves ==
  ASSUME ListenerConstants, LInv, Reserve
  PROVE  LInv'
  <1> USE DEF LInv
  <1>0. ListenerMax \in Nat /\ IsFiniteSet(Conns) /\ None \notin Conns
    BY DEF ListenerConstants
  <1> DEFINE c == accepted
  <1>1. c \in Conns /\ sess[c] = "none" /\ handler[c] \in {"held", "done"}
    BY DEF Reserve, InOrder
  <1>2. /\ UNCHANGED <<http, handler, over, deathwatch, known, stop, cancelled, shut, live>>
        /\ serve' = "accept" /\ accepted' = None
    BY DEF Reserve, http, shutting
  <1>3. HandshakesCounted' /\ SlotsCounted'
    BY <1>2, HttpAlone
  <1>4. CASE reserve(c) /\ sess' = [sess EXCEPT ![c] = "attaching"] /\ UNCHANGED <<dead, connClosed>>
    <2>1. /\ stop = "no" /\ (ListenerMax > 0 => active < ListenerMax)
          /\ active' = active + 1 /\ wg' = wg + 1
      BY <1>4 DEF reserve, closed
    <2>2. "attaching" \in Stages
      BY DEF Stages
    <2> HIDE DEF c
    <2>3. /\ sess' \in [Conns -> Stages] /\ sess'[c] = "attaching"
          /\ \A e \in Conns \ {c} : sess'[e] = sess[e]
          /\ Cardinality(Attached) \in Nat
          /\ Cardinality(Attached') = Cardinality(Attached) + 1
      BY <1>1, <1>4, <2>2, SessionMoves, Zenon DEF Running
    <2>4. Types'
      BY <1>2, <1>4, <2>3, ZenonT(60) DEF Types
    <2>5. InOrder'
      BY <1>1, <1>2, <2>3 DEF InOrder, Types
    <2>6. AttachedCounted'
      BY <1>0, <2>1, <2>3 DEF AttachedCounted
    <2>7. Cardinality(deathwatch) \in Nat
      BY <1>0, <1>1, Counts, Zenon DEF Types
    <2>8. WaitCounted'
      BY <1>2, <2>1, <2>3, <2>7 DEF WaitCounted
    <2>9. InTurn'
      BY <1>2, <2>1, ZenonT(60) DEF InTurn
    <2> QED BY <1>3, <2>4, <2>5, <2>6, <2>8, <2>9
  <1>5. CASE connClosed' = connClosed \cup {c} /\ dead' = dead \cup {c} /\ UNCHANGED <<sess, active, wg>>
    <2>1. Types'
      BY <1>1, <1>2, <1>5 DEF Types
    <2>2. Attached' = Attached
      BY <1>5 DEF Attached
    <2> QED BY <1>2, <1>3, <1>5, <2>1, <2>2 DEF InOrder, AttachedCounted, WaitCounted, InTurn
  <1> QED BY <1>4, <1>5 DEF Reserve

(* The steps that move only Serve's or Shutdown's own control. *)
LEMMA ControlPreserves ==
  ASSUME LInv, AcceptFails \/ ServeReturns \/ StopAccepting \/ Cancel \/ Shutdown \/ Snapshot
                 \/ ShutdownWaits \/ ShutdownReturns
  PROVE  LInv'
  <1> USE DEF LInv
  <1>1. UNCHANGED <<http, handler, sess, over, deathwatch, known, active, wg, dead, connClosed, accepted>>
    BY SMTT(60) DEF AcceptFails, ServeReturns, StopAccepting, Cancel, Shutdown, Snapshot, ShutdownWaits,
       ShutdownReturns, http, attached, serving
  <1>2. /\ serve' \in {serve, "waiting", "returned"} /\ cancelled' \in BOOLEAN
        /\ live' \subseteq Conns
        /\ stop' \in {"no", "closed", "stopped", "done"} /\ (stop = "done" => stop' = "done")
        /\ shut' \in {"no", "stopping", "closing", "waiting", "returned", "expired"}
        /\ shut' \in {"closing", "waiting", "returned"} => stop' = "done"
        /\ shut' = "returned" => wg = 0
    BY Zenon DEF AcceptFails, ServeReturns, StopAccepting, Cancel, Shutdown, Snapshot, ShutdownWaits,
       ShutdownReturns, serving, shutting, Types, InTurn
  <1>3. Types' /\ InOrder' /\ InTurn'
    BY <1>1, <1>2 DEF Types, InOrder, InTurn
  <1>4. Attached' = Attached
    BY <1>1 DEF Attached
  <1>5. HandshakesCounted' /\ SlotsCounted'
    BY <1>1, HttpAlone
  <1> QED BY <1>1, <1>3, <1>4, <1>5, ZenonT(60) DEF AttachedCounted, WaitCounted

LEMMA NextPreserves ==
  ASSUME ListenerConstants, LInv, [Next]_vars
  PROVE  LInv'
  <1>1. CASE UNCHANGED vars
    <2>1. InHandshake' = InHandshake /\ HoldingSlot' = HoldingSlot /\ Attached' = Attached
      BY <1>1 DEF vars, InHandshake, HoldingSlot, Attached
    <2>2. Types'
      BY <1>1, ZenonT(60) DEF vars, LInv, Types
    <2>3. InOrder' /\ InTurn'
      BY <1>1, ZenonT(60) DEF vars, LInv, InOrder, InTurn
    <2>4. HandshakesCounted' /\ SlotsCounted' /\ AttachedCounted' /\ WaitCounted'
      BY <1>1, <2>1, ZenonT(60) DEF vars, LInv, HandshakesCounted, SlotsCounted, AttachedCounted, WaitCounted
    <2> QED BY <2>2, <2>3, <2>4, Zenon DEF LInv
  <1>2. CASE Next
    <2>1. CASE Serving
      BY <2>1, AdoptPreserves, ReservePreserves, ControlPreserves DEF Serving
    <2>2. CASE Shutting
      BY <2>2, ClosePreserves, ControlPreserves DEF Shutting
    <2>3. CASE StopAccepting \/ Cancel \/ Shutdown
      BY <2>3, ControlPreserves
    <2>4. ASSUME NEW c \in Conns,
                 Handle(c) \/ Attach(c) \/ DeathWatch(c) \/ Watch(c) \/ SocketDies(c)
          PROVE  LInv'
      BY <2>4, HandlePreserves, SessionPreserves, ClosePreserves DEF Attach, Watch
    <2> QED BY <1>2, <2>1, <2>2, <2>3, <2>4 DEF Next
  <1> QED BY <1>1, <1>2, Zenon

LEMMA Inductive ==
  ASSUME ListenerConstants
  PROVE  Spec => []LInv
  <1>1. Init => LInv
    BY InitHolds
  <1>2. LInv /\ [Next]_vars => LInv'
    BY NextPreserves
  <1> QED BY <1>1, <1>2, PTL DEF Spec

(* Types and the WaitGroup's range, for any number of connections (the      *)
(* counters of wstun.Server and grpctun.listener).                          *)
THEOREM TypeCorrect ==
  ASSUME ListenerConstants
  PROVE  Spec => []TypeOK
  <1>1. ASSUME LInv PROVE TypeOK
    <2>1. IsFiniteSet(Conns) /\ InHandshake \subseteq Conns /\ HoldingSlot \subseteq Conns
          /\ Attached \subseteq Conns /\ deathwatch \subseteq Conns
      BY <1>1 DEF ListenerConstants, InHandshake, HoldingSlot, Attached, LInv, Types
    <2>2. Cardinality(Conns) \in Nat
      BY <2>1, FS_CardinalityType
    <2>3. ASSUME NEW S, S \subseteq Conns
          PROVE  Cardinality(S) \in Nat /\ Cardinality(S) <= Cardinality(Conns)
      BY <2>1, <2>3, FS_Subset, FS_CardinalityType
    <2> DEFINE p == Cardinality(InHandshake)
               h == Cardinality(HoldingSlot)
               a == Cardinality(Attached)
               d == Cardinality(deathwatch)
               n == Cardinality(Conns)
    <2>4. /\ {p, h, a, d, n, MaxPending} \subseteq Nat /\ p <= n /\ h <= n /\ a <= n /\ d <= n
      BY <2>1, <2>2, <2>3 DEF ListenerConstants
    <2>5. pending = p /\ pending <= MaxPending /\ sessions = h /\ active = a /\ wg = a + d
      BY <1>1 DEF LInv, HandshakesCounted, SlotsCounted, AttachedCounted, WaitCounted
    <2> HIDE DEF p, h, a, d, n
    <2>6. pending \in 0 .. MaxPending /\ sessions \in 0 .. 3 * n /\ active \in 0 .. 3 * n
          /\ wg \in 0 .. 3 * n
      BY <2>4, <2>5
    <2> QED BY <1>1, <2>6 DEF TypeOK, LInv, Types, Stages, n
  <1> QED BY <1>1, Inductive, PTL

(* Whatever the limits and however many connections: the counters agree     *)
(* with the goroutines on every path, and no limit is exceeded              *)
(* (reserveSession, listener.reserve and the releases of serveHTTP and      *)
(* attach).                                                                 *)
THEOREM CountersBalance ==
  ASSUME ListenerConstants
  PROVE  Spec => []SlotsBalanced
  <1>1. LInv => SlotsBalanced
    BY DEF LInv, SlotsCounted, AttachedCounted, SlotsBalanced
  <1> QED BY <1>1, Inductive, PTL

(* A counted goroutine is why the WaitGroup is not at zero. *)
LEMMA AttachedKeepsWaiting ==
  ASSUME ListenerConstants, LInv, NEW c \in Conns, c \in Attached
  PROVE  wg \in Nat /\ wg > 0
  <1>1. IsFiniteSet(Conns) /\ Attached \subseteq Conns /\ deathwatch \subseteq Conns
    BY DEF ListenerConstants, Attached, LInv, Types
  <1>2. Cardinality(Attached) \in Nat /\ Cardinality(Attached) > 0
    BY <1>1, Counts, Zenon
  <1>3. Cardinality(deathwatch) \in Nat
    BY <1>1, Counts, Zenon
  <1> QED BY <1>2, <1>3 DEF LInv, WaitCounted

(* No goroutine is added to a WaitGroup at zero that Shutdown or Serve      *)
(* already waits on: only reserve takes it from zero, and reserve refuses   *)
(* once stopAccepting has closed the listener.                              *)
THEOREM WaitGroupContract ==
  ASSUME ListenerConstants
  PROVE  Spec => [][NoAddDuringWait]_vars
  <1>1. ASSUME LInv, Next PROVE NoAddDuringWait
    <2> SUFFICES ASSUME wg = 0, wg' > 0
                 PROVE  shut \notin {"waiting", "returned"} /\ serve # "waiting"
      BY DEF NoAddDuringWait
    <2>0. wg' # wg
      OBVIOUS
    <2>1. ASSUME NEW c \in Conns, sess[c] \in Running PROVE FALSE
      BY <1>1, <2>1, AttachedKeepsWaiting DEF Attached, Running
    <2>2. CASE Reserve
      BY <1>1, <2>2, SMTT(60) DEF Reserve, reserve, closed, LInv, InTurn
    <2>3. ASSUME NEW c \in Conns, NewSession(c) \/ OnSession(c) \/ Ended(c) PROVE FALSE
      BY <2>1, <2>3 DEF NewSession, OnSession, Ended, Running
    <2>4. ASSUME NEW c \in Conns, DeathWatch(c) PROVE FALSE
      BY <2>4, SMTT(60) DEF DeathWatch
    <2>5. ASSUME NEW c \in Conns, Handle(c) \/ Adopt(c) PROVE FALSE
      BY <2>0, <2>5, ZenonT(60) DEF Handle, Request, Upgrade, Authenticate, Admit, Accepted, OfferFails,
         HandlerReturns, Adopt
    <2>6. ASSUME NEW c \in Conns, WatchStop(c) \/ SocketDies(c) \/ CloseLive(c) PROVE FALSE
      BY <2>0, <2>6, ZenonT(60) DEF WatchStop, SocketDies, CloseLive, attached
    <2>7. CASE AcceptFails \/ ServeReturns \/ StopAccepting \/ Cancel \/ Shutdown \/ Snapshot
                 \/ ShutdownWaits \/ ShutdownReturns
      BY <2>0, <2>7, ZenonT(60) DEF AcceptFails, ServeReturns, StopAccepting, Cancel, Shutdown, Snapshot, ShutdownWaits,
         ShutdownReturns, attached
    <2> QED BY <1>1, <2>2, <2>3, <2>4, <2>5, <2>6, <2>7 DEF Next, Serving, Shutting, Attach, Watch
  <1> QED BY <1>1, Inductive, PTL DEF Spec

(* What the contract sees of a session that ends: the handler's one goes    *)
(* over once, the others never show.                                        *)
LEMMA ClosingIsSeen ==
  ASSUME NEW c \in Conns, over' = over \cup {c}, UNCHANGED <<sess, Called>>
  PROVE  Contract!SessionEnds(c) \/ UNCHANGED <<Handed, Called>>
  <1>1. CASE sess[c] = "watched" /\ c \notin over
    <2>1. Handed[c] = "live"
      BY <1>1 DEF Handed
    <2>2. Handed' = [Handed EXCEPT ![c] = "over"]
      BY <1>1, Zenon DEF Handed
    <2> QED BY <2>1, <2>2 DEF Contract!SessionEnds
  <1>2. CASE ~(sess[c] = "watched" /\ c \notin over)
    <2>1. Handed' = Handed
      BY <1>2 DEF Handed
    <2> QED BY <2>1
  <1> QED BY <1>1, <1>2

(* Every step of the listener is a step of the contract, or none. *)
LEMMA StepRefines ==
  ASSUME ListenerConstants, LInv, Next
  PROVE  Contract!Next \/ UNCHANGED <<Handed, Called>>
  <1>1. ASSUME NEW c \in Conns, DeathWatch(c) \/ WatchStop(c) \/ CloseLive(c)
        PROVE  Contract!Next \/ UNCHANGED <<Handed, Called>>
    <2>1. over' = over \cup {c} /\ UNCHANGED <<sess, Called>>
      BY <1>1 DEF DeathWatch, WatchStop, CloseLive, CloseAlso, shutting, Called
    <2> QED BY <2>1, ClosingIsSeen, ZenonT(60) DEF Contract!Next
  <1>2. ASSUME NEW c \in Conns, NewSession(c)
        PROVE  UNCHANGED <<Handed, Called>>
    <2>1. UNCHANGED Called
      BY <1>2 DEF NewSession, shutting, Called
    <2>2. sess[c] = "attaching" /\ over' \in {over, over \cup {c}}
      BY <1>2 DEF NewSession, CloseAlso
    <2>3. PICK at \in {"ready", "failed"} : sess' = [sess EXCEPT ![c] = at]
      BY <1>2 DEF NewSession
    <2>4. sess \in [Conns -> Stages]
      BY DEF LInv, Types
    <2>5. ASSUME NEW e \in Conns PROVE Handed'[e] = Handed[e]
      BY <2>2, <2>3, <2>4 DEF Handed
    <2>6. Handed' = Handed
      BY <2>5 DEF Handed
    <2> QED BY <2>1, <2>6
  <1>3. ASSUME NEW c \in Conns, OnSession(c)
        PROVE  Contract!OnSession(c)
    <2>1. UNCHANGED Called
      BY <1>3 DEF OnSession, shutting, Called
    <2>2. sess[c] = "ready" /\ c \in Attached
      BY <1>3 DEF OnSession, Attached
    <2>3. Called # "returned"
      BY <2>2, AttachedKeepsWaiting DEF LInv, InTurn, Called
    <2>4. sess \in [Conns -> Stages]
      BY DEF LInv, Types
    <2>5. Handed[c] = "no"
      BY <2>2 DEF Handed
    <2>6. \/ sess' = [sess EXCEPT ![c] = "refused"] /\ over' = over \cup {c}
          \/ sess' = [sess EXCEPT ![c] = "watched"] /\ over' = over
      BY <1>3 DEF OnSession, CloseAlso
    <2>7. \E r \in {"live", "over", "refused"} : Handed' = [Handed EXCEPT ![c] = r]
      <3>1. CASE sess' = [sess EXCEPT ![c] = "refused"] /\ over' = over \cup {c}
        <4>1. Handed' = [Handed EXCEPT ![c] = "refused"]
          BY <2>4, <3>1, Zenon DEF Handed
        <4> QED BY <4>1
      <3>2. CASE sess' = [sess EXCEPT ![c] = "watched"] /\ over' = over
        <4>1. Handed' = [Handed EXCEPT ![c] = IF c \in over THEN "over" ELSE "live"]
          BY <2>4, <3>2, Zenon DEF Handed
        <4> QED BY <4>1, Zenon
      <3> QED BY <2>6, <3>1, <3>2
    <2> QED BY <2>1, <2>3, <2>5, <2>7, Zenon DEF Contract!OnSession
  <1>4. ASSUME NEW c \in Conns, Ended(c)
        PROVE  Contract!Release(c)
    <2>1. UNCHANGED Called
      BY <1>4 DEF Ended, shutting, Called
    <2>2. /\ sess[c] = "watched" /\ c \in over
          /\ sess' = [sess EXCEPT ![c] = "released"] /\ over' = over
      BY <1>4 DEF Ended
    <2>3. sess \in [Conns -> Stages]
      BY DEF LInv, Types
    <2>4. Handed[c] = "over"
      BY <2>2 DEF Handed
    <2>5. Handed' = [Handed EXCEPT ![c] = "released"]
      BY <2>2, <2>3, Zenon DEF Handed
    <2> QED BY <2>1, <2>4, <2>5 DEF Contract!Release
  <1>5. CASE Reserve
    <2>1. UNCHANGED <<over, Called>>
      BY <1>5 DEF Reserve, shutting, Called
    <2>2. accepted \in Conns /\ sess[accepted] = "none" /\ sess \in [Conns -> Stages]
      BY <1>5 DEF Reserve, LInv, InOrder, Types
    <2>3. sess' = sess \/ sess' = [sess EXCEPT ![accepted] = "attaching"]
      BY <1>5 DEF Reserve
    <2>4. ASSUME NEW e \in Conns PROVE Handed'[e] = Handed[e]
      BY <2>1, <2>2, <2>3 DEF Handed
    <2>5. Handed' = Handed
      BY <2>4 DEF Handed
    <2> QED BY <2>1, <2>5
  <1>6. CASE Shutdown
    <2>1. Handed' = Handed
      BY <1>6 DEF Shutdown, attached, Handed
    <2>2. Called = "no" /\ Called' = "called"
      BY <1>6 DEF Shutdown, Called
    <2> QED BY <2>1, <2>2 DEF Contract!Next, Contract!ShutdownCalled
  <1>7. CASE ShutdownReturns
    <2>1. Handed' = Handed
      BY <1>7 DEF ShutdownReturns, attached, Handed
    <2>2. Called = "called"
      BY <1>7 DEF ShutdownReturns, Called
    <2>3. CASE wg = 0 /\ shut' = "returned"
      <3>1. ASSUME NEW c \in Conns PROVE sess[c] # "watched"
        BY <2>3, AttachedKeepsWaiting DEF Attached
      <3>2. \A c \in Conns : Handed[c] \notin {"live", "over"}
        BY <3>1 DEF Handed
      <3>3. Called' = "returned"
        BY <2>3 DEF Called
      <3> QED BY <2>1, <2>2, <3>2, <3>3 DEF Contract!Next, Contract!ShutdownReturns
    <2>4. CASE shut' = "expired"
      <3>1. Called' = "expired"
        BY <2>4 DEF Called
      <3> QED BY <2>1, <2>2, <3>1 DEF Contract!Next, Contract!ShutdownReturns
    <2> QED BY <1>7, <2>3, <2>4 DEF ShutdownReturns
  <1>8. CASE AcceptFails \/ ServeReturns \/ StopAccepting \/ Cancel \/ Snapshot \/ ShutdownWaits
    <2>1. UNCHANGED <<sess, over>>
      BY <1>8, ZenonT(60) DEF AcceptFails, ServeReturns, StopAccepting, Cancel, Snapshot, ShutdownWaits, attached
    <2>2. UNCHANGED Called
      BY <1>8 DEF AcceptFails, ServeReturns, StopAccepting, Cancel, Snapshot, ShutdownWaits, shutting,
         Called
    <2> QED BY <2>1, <2>2, Zenon DEF Handed
  <1>9. ASSUME NEW c \in Conns, Handle(c) \/ Adopt(c) \/ SocketDies(c)
        PROVE  UNCHANGED <<Handed, Called>>
    <2>1. UNCHANGED <<sess, over, shut>>
      BY <1>9, Zenon DEF Handle, Request, Upgrade, Authenticate, Admit, Accepted, OfferFails, HandlerReturns,
         Adopt, SocketDies, attached, shutting
    <2> QED BY <2>1, Zenon DEF Handed, Called
  <1> QED BY <1>1, <1>2, <1>3, <1>4, <1>5, <1>6, <1>7, <1>8, <1>9, Zenon
         DEF Next, Serving, Shutting, Attach, Watch, Contract!Next

(* The listener of internal/tunnel/grpctun implements the contract of       *)
(* internal/tunnel/tunnel.go: each session is handed over and released at   *)
(* most once, and when Shutdown has returned none is live or will be.       *)
THEOREM ListenerKeepsContract ==
  ASSUME ListenerConstants
  PROVE  Spec => Contract!Spec
  <1>1. Init => Contract!Init
    <2> SUFFICES ASSUME Init PROVE Contract!Init
      OBVIOUS
    <2>1. Handed = [c \in Conns |-> "no"]
      BY DEF Init, Handed
    <2>2. Called = "no"
      BY DEF Init, Called
    <2> QED BY <2>1, <2>2 DEF Contract!Init
  <1>2. LInv /\ [Next]_vars => [Contract!Next]_(Contract!vars)
    <2> SUFFICES ASSUME LInv, [Next]_vars
                 PROVE  Contract!Next \/ UNCHANGED <<Handed, Called>>
      BY DEF Contract!vars
    <2>1. CASE Next
      BY <2>1, StepRefines
    <2>2. CASE UNCHANGED vars
      BY <2>2 DEF vars, Handed, Called
    <2> QED BY <2>1, <2>2
  <1> QED BY <1>1, <1>2, Inductive, PTL DEF Spec, Contract!Spec
=============================================================================
