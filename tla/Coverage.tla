------------------------------ MODULE Coverage ------------------------------
(***************************************************************************)
(* How one spoke endpoint comes to hold a tunnel to every hub replica      *)
(* behind one hostname (internal/spoke/coverage.go, superviseEndpoint,     *)
(* dialLoop and dialOnce of internal/spoke/spoke.go), against hubs that    *)
(* learn how many they are from DNS (internal/hub/peers.go) and a load     *)
(* balancer that picks the replica.  Tunnels drop, replicas come and go.   *)
(***************************************************************************)
EXTENDS Integers, FiniteSets

CONSTANTS
  Replicas,      \* hub replicas that may ever run
  Started,       \* those running at the start
  Dialers,       \* slots for dial loops
  Discover,      \* one hostname for all replicas, or one pinned to each
  PeerDomain,    \* whether the hub is told where to look up its peers
  Warm,          \* the replicas running at the start know how many they are
  Canonical,     \* the endpoint is configured as the URL that is dialled
  MaxAdvertised, \* maxAdvertisedReplicas
  None,          \* no replica
  MaxScalings, MaxDrops, MaxFailures

CoverageConstants ==
  /\ Started \subseteq Replicas /\ Started # {} /\ None \notin Replicas
  /\ IsFiniteSet(Replicas) /\ IsFiniteSet(Dialers)
  /\ {Discover, PeerDomain, Warm, Canonical} \subseteq BOOLEAN
  /\ {MaxAdvertised, MaxScalings, MaxDrops, MaxFailures} \subseteq Nat /\ MaxAdvertised > 0

VARIABLES
  up,       \* replicas running
  peer,     \* each replica's peerCounter
  live,     \* coverage.live: tunnels per replica
  want,     \* coverage.want
  dialer,   \* the dial loops
  health,   \* the endpoint's health components that were ever set
  scalings, drops, failures

vars == <<up, peer, live, want, dialer, health, scalings, drops, failures>>
hubVars == <<up, peer>>
bounds == <<scalings, drops, failures>>

Stopped == [st |-> "off", on |-> None, dup |-> FALSE, covered |-> 0, want |-> 0]
Idle == [Stopped EXCEPT !.st = "idle"]
Cold == [count |-> 0, fresh |-> FALSE, inFlight |-> FALSE]

Configured == "configured"
Target == IF Canonical THEN Configured ELSE "normalised"

-----------------------------------------------------------------------------
(* coverage.go *)

covered == Cardinality({r \in Replicas : live[r] > 0})

dialersUnprobed == IF ~Discover THEN 1 ELSE IF want < 1 THEN 1 ELSE want

dialers == IF ~Discover THEN 1 ELSE IF want < 1 THEN 2 ELSE want + 1

HeardCapped(replicas) ==
  IF replicas > MaxAdvertised THEN MaxAdvertised ELSE IF replicas > 0 THEN replicas ELSE want

(* join: an endpoint pinned to a replica ignores the advertised count. *)
join(r, replicas) ==
  /\ want' = IF Discover THEN HeardCapped(replicas) ELSE want
  /\ live' = [live EXCEPT ![r] = @ + 1]

leaveAll(r) == live' = [live EXCEPT ![r] = 0]
leave(r) == live' = [live EXCEPT ![r] = @ - 1]

active == Cardinality({d \in Dialers : dialer[d].st # "off"})

-----------------------------------------------------------------------------
Init ==
  /\ up = Started
  /\ peer = [r \in Replicas |-> IF Warm /\ r \in Started
                                THEN [Cold EXCEPT !.count = Cardinality(Started)] ELSE Cold]
  /\ live = [r \in Replicas |-> 0]
  /\ want = IF Discover THEN 0 ELSE 1
  /\ dialer = [d \in Dialers |-> Stopped]
  /\ health = [c \in {Configured} |-> FALSE]
  /\ scalings = 0 /\ drops = 0 /\ failures = 0

(* superviseEndpoint: its loop starts dial loops until there are enough. *)
Supervise(d) ==
  /\ dialer[d].st = "off"
  /\ active < dialers
  /\ dialer' = [dialer EXCEPT ![d] = Idle]
  /\ UNCHANGED <<hubVars, live, want, health, bounds>>

(* peerCounter.Count inside the handshake: the cached count at once, and a  *)
(* refresh in the background when it is stale.                              *)
Counted(r) ==
  IF PeerDomain /\ ~peer[r].fresh THEN [peer EXCEPT ![r].inFlight = TRUE] ELSE peer

(* What the hello says: a hub with no domain to look up is alone. *)
advertisedReplicas(r) == IF PeerDomain THEN peer[r].count ELSE 1

(* wstun.Dial reached replica r and OnConnected runs: join. *)
Connect(d, r) ==
  /\ dialer[d].st = "idle"
  /\ r \in up
  /\ peer' = Counted(r)
  /\ join(r, advertisedReplicas(r))
  /\ dialer' = [dialer EXCEPT ![d] = [Idle EXCEPT !.st = "joined", !.on = r,
                                                  !.dup = live[r] > 0]]
  /\ UNCHANGED <<up, health, bounds>>

(* publishTunnelSignals, which reads the coverage and then sets the health. *)
Read(d) ==
  /\ dialer[d].st \in {"joined", "left"}
  /\ dialer' = [dialer EXCEPT ![d].st = IF @ = "joined" THEN "joinedRead" ELSE "leftRead",
                              ![d].covered = covered, ![d].want = want]
  /\ UNCHANGED <<hubVars, live, want, health, bounds>>

Healthy(v) == v.covered > 0 /\ ~(v.want > 0 /\ v.covered < v.want)

Publish(d) ==
  /\ dialer[d].st \in {"joinedRead", "leftRead"}
  /\ health' = [c \in DOMAIN health \cup {Target} |->
                  IF c = Target THEN Healthy(dialer[d]) ELSE health[c]]
  /\ dialer' = [dialer EXCEPT
       ![d].st = IF @ = "joinedRead" THEN "up" ELSE IF dialer[d].dup THEN "redundant" ELSE "idle",
       ![d].covered = 0, ![d].want = 0,
       ![d].on = IF dialer[d].st = "joinedRead" THEN @ ELSE None]
  /\ UNCHANGED <<hubVars, live, want, bounds>>

(* The connection is over: a duplicate cancelled itself, the replica went   *)
(* away, or the network dropped it.  The deferred leave runs.               *)
End(d) ==
  /\ dialer[d].st = "up"
  /\ \/ dialer[d].dup /\ UNCHANGED bounds
     \/ dialer[d].on \notin up /\ UNCHANGED bounds
     \/ drops < MaxDrops /\ drops' = drops + 1 /\ UNCHANGED <<scalings, failures>>
  /\ leave(dialer[d].on)
  /\ dialer' = [dialer EXCEPT ![d].st = "left"]
  /\ UNCHANGED <<hubVars, want, health>>

(* dialLoop after a redundant ending: retire from a pool that is too large, *)
(* or dial again.                                                           *)
Redial(d) ==
  /\ dialer[d].st = "redundant"
  /\ dialer' = [dialer EXCEPT ![d] = IF active > dialers THEN [Stopped EXCEPT !.st = "retiring"]
                                     ELSE Idle]
  /\ UNCHANGED <<hubVars, live, want, health, bounds>>

Retire(d) ==
  /\ dialer[d].st = "retiring"
  /\ dialer' = [dialer EXCEPT ![d] = Stopped]
  /\ UNCHANGED <<hubVars, live, want, health, bounds>>

-----------------------------------------------------------------------------
(* The hub: peerCounter.refresh keeps the count it has when the lookup      *)
(* fails; the cache goes stale after its TTL.                               *)
Refresh(r) ==
  /\ r \in up /\ peer[r].inFlight
  /\ \/ /\ peer' = [peer EXCEPT ![r] = [count |-> Cardinality(up), fresh |-> TRUE,
                                        inFlight |-> FALSE]]
        /\ UNCHANGED failures
     \/ /\ failures < MaxFailures /\ failures' = failures + 1
        /\ peer' = [peer EXCEPT ![r].fresh = TRUE, ![r].inFlight = FALSE]
  /\ UNCHANGED <<up, live, want, dialer, health, scalings, drops>>

GoesStale(r) ==
  /\ peer[r].fresh
  /\ peer' = [peer EXCEPT ![r].fresh = FALSE]
  /\ UNCHANGED <<up, live, want, dialer, health, bounds>>

(* A replica starts, with an empty cache, or stops. *)
Scale(r) ==
  /\ scalings < MaxScalings /\ scalings' = scalings + 1
  /\ up \ {r} # {}
  /\ up' = IF r \in up THEN up \ {r} ELSE up \cup {r}
  /\ peer' = [peer EXCEPT ![r] = Cold]
  /\ UNCHANGED <<live, want, dialer, health, drops, failures>>

Next ==
  \/ \E d \in Dialers : \/ Supervise(d) \/ Read(d) \/ Publish(d) \/ End(d) \/ Redial(d) \/ Retire(d)
                        \/ \E r \in Replicas : Connect(d, r)
  \/ \E r \in Replicas : Refresh(r) \/ GoesStale(r) \/ Scale(r)

Spec == Init /\ [][Next]_vars

-----------------------------------------------------------------------------
States == {"off", "idle", "joined", "joinedRead", "up", "left", "leftRead", "redundant",
           "retiring"}

TypeOK ==
  /\ up \subseteq Replicas /\ up # {}
  /\ peer \in [Replicas -> [count : 0 .. Cardinality(Replicas), fresh : BOOLEAN,
                            inFlight : BOOLEAN]]
  /\ live \in [Replicas -> 0 .. Cardinality(Dialers)]
  /\ want \in 0 .. MaxAdvertised
  /\ dialer \in [Dialers -> [st : States, on : Replicas \cup {None}, dup : BOOLEAN,
                             covered : 0 .. Cardinality(Replicas), want : 0 .. MaxAdvertised]]
  /\ health \in [DOMAIN health -> BOOLEAN]

Covered == \A r \in up : live[r] > 0
Gone(d) == dialer[d].dup \/ dialer[d].on \notin up

Connected(d) == dialer[d].st \in {"joined", "joinedRead", "up"}

(* The coverage counts exactly the tunnels there are, whichever ends first: *)
(* a replica is covered while any dial loop holds a tunnel to it, and a     *)
(* probe that steps aside takes nothing from the tunnel it duplicated       *)
(* (coverage.live is a count, coverage.leave takes one from it).            *)
LiveIsTunnels ==
  \A r \in Replicas : live[r] = Cardinality({d \in Dialers : Connected(d) /\ dialer[d].on = r})

(* The pool of dial loops stays within one more than the cap on what a hub  *)
(* may advertise, whatever counts the replicas advertise (coverage.join and *)
(* coverage.dialers).                                                       *)
PoolBounded == active <= MaxAdvertised + 1

=============================================================================
