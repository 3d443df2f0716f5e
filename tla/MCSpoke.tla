------------------------------ MODULE MCSpoke ------------------------------
(***************************************************************************)
(* The spoke, and the tunnel between it and the hub, on small instances:   *)
(* the hub's listener, the handshake, a response body, the spoke's         *)
(* identity in the Secret and in files, its dial loops and the facts it    *)
(* publishes. The components do not share state, so one of them runs in    *)
(* every behaviour.                                                        *)
(*                                                                         *)
(* Some instances leave out a case in which the code does not keep the     *)
(* property; README.md names them.                                         *)
(***************************************************************************)
EXTENDS Integers, Sequences, FiniteSets, TLC

CONSTANTS Parts, Off, None

VARIABLES
  part, \* the component that runs in this behaviour
  v1, v2, v3, v4, v5, v6, v7, v8, v9, v10, v11, v12, v13, v14, v15, v16, v17, v18, v19, v20,
  v21, v22 \* its variables

vars == <<part, v1, v2, v3, v4, v5, v6, v7, v8, v9, v10, v11, v12, v13, v14, v15, v16, v17, v18, v19, v20, v21, v22>>

TwoPods == {"p1", "p2"}
SameCluster == [p \in TwoPods |-> "a"]
TwoClusters == [p \in TwoPods |-> IF p = "p1" THEN "a" ELSE "b"]

(* A Prometheus that changes under the spoke. *)
FactLists == {"jobs", "namespaces", "prefixes"}
FactFields == FactLists \cup
  {"version", "retention", "extLabels", "interval", "series", "rules", "firing", "hasAM",
   "k8sVersion", "k8sNodes"}
Plain == [f \in FactFields \cup {"gated", "rank"} |-> IF f = "gated" THEN FALSE ELSE 1]
Wide == [f \in DOMAIN Plain |->
  CASE f = "gated" -> TRUE [] f \in FactLists -> 3 [] f = "firing" -> 0 [] OTHER -> 2]

Accept == INSTANCE Listener WITH
  Conns <- {"c1", "c2"}, MaxSessions <- 1, MaxPending <- 1, ListenerMax <- 0,
  handler <- v1, sess <- v2, dead <- v3, connClosed <- v4, over <- v5, deathwatch <- v6,
  known <- v7, pending <- v8, sessions <- v9, active <- v10, wg <- v11, accepted <- v12,
  serve <- v13, stop <- v14, cancelled <- v15, shut <- v16, live <- v17

Capped == INSTANCE Listener WITH
  Conns <- {"c1", "c2"}, MaxSessions <- 2, MaxPending <- 2, ListenerMax <- 1,
  handler <- v1, sess <- v2, dead <- v3, connClosed <- v4, over <- v5, deathwatch <- v6,
  known <- v7, pending <- v8, sessions <- v9, active <- v10, wg <- v11, accepted <- v12,
  serve <- v13, stop <- v14, cancelled <- v15, shut <- v16, live <- v17

Body == INSTANCE GrpcBody WITH
  Budget <- 2, MaxLen <- 4, Chunk <- 2, ReadSize <- 1, Window <- 2, Honest <- TRUE,
  len <- v1, fate <- v2, spoke <- v3, sent <- v4, truncated <- v5, broke <- v6, wire <- v7,
  status <- v8, streamCancelled <- v9, caller <- v10, session <- v11, do <- v12,
  reader <- v13, pending <- v14, received <- v15, finished <- v16, term <- v17,
  trail <- v18, closing <- v19, closer <- v20, inflight <- v21, got <- v22

RudeBody == INSTANCE GrpcBody WITH
  Budget <- 2, MaxLen <- 4, Chunk <- 3, ReadSize <- 1, Window <- 2, Honest <- FALSE,
  len <- v1, fate <- v2, spoke <- v3, sent <- v4, truncated <- v5, broke <- v6, wire <- v7,
  status <- v8, streamCancelled <- v9, caller <- v10, session <- v11, do <- v12,
  reader <- v13, pending <- v14, received <- v15, finished <- v16, term <- v17,
  trail <- v18, closing <- v19, closer <- v20, inflight <- v21, got <- v22

Shake == INSTANCE Handshake WITH
  Clusters <- {"east", "west"}, MaxReplicas <- 1,
  spokeCfg <- v1, hubCfg <- v2, full <- v3, revoked <- v4, spoke <- v5, hub <- v6,
  toSpoke <- v7, toHub <- v8, link <- v9, cancelled <- v10, identity <- v11, verdict <- v12,
  checked <- v13, info <- v14, reason <- v15

Dial == INSTANCE Dialing WITH
  Bases <- {4, 100}, Maxes <- {20, 200}, DefaultBase <- 4, DefaultMax <- 40, Slow <- 64,
  SearchMultiple <- 2, SearchLimit <- 2, MaxAttempt <- 4,
  endpoint <- v1, cfg <- v2, loop <- v3, target <- v4, attempt <- v5, redundant <- v6,
  delay <- v7, window <- v8, kind <- v9, streak <- v10

Cover == INSTANCE Coverage WITH
  Replicas <- {"r1", "r2"}, Started <- {"r1", "r2"}, Dialers <- {"d1", "d2", "d3"}, Discover <- TRUE,
  PeerDomain <- TRUE, Warm <- FALSE, Canonical <- TRUE, MaxAdvertised <- 1,
  MaxScalings <- 1, MaxDrops <- 1, MaxFailures <- 1,
  up <- v1, peer <- v2, live <- v3, want <- v4, dialer <- v5, health <- v6, scalings <- v7,
  drops <- v8, failures <- v9

Identity == INSTANCE SpokeIdentity WITH
  Pods <- TwoPods, ClusterOf <- SameCluster, Stored <- {"absent", "damaged", "old"}, TokenUses <- 1,
  Life <- 2, Grace <- 1, Startup <- FALSE, MaxTime <- 3, MaxIssued <- 2, MaxFaults <- 1, MaxCrashes <- 1,
  now <- v1, secret <- v2, tokens <- v3, issued <- v4, pod <- v5, dial <- v6,
  everStored <- v7, faults <- v8, crashes <- v9

Unsaved == INSTANCE SpokeIdentity WITH
  Pods <- TwoPods, ClusterOf <- SameCluster, Stored <- {"absent", "damaged", "old"}, TokenUses <- 2,
  Life <- 2, Grace <- 1, Startup <- FALSE, MaxTime <- 2, MaxIssued <- 3, MaxFaults <- 2, MaxCrashes <- 0,
  now <- v1, secret <- v2, tokens <- v3, issued <- v4, pod <- v5, dial <- v6,
  everStored <- v7, faults <- v8, crashes <- v9

Foreign == INSTANCE SpokeIdentity WITH
  Pods <- TwoPods, ClusterOf <- TwoClusters, Stored <- {"absent", "damaged", "old"}, TokenUses <- 1,
  Life <- 2, Grace <- 1, Startup <- TRUE, MaxTime <- 2, MaxIssued <- 2, MaxFaults <- 1, MaxCrashes <- 1,
  now <- v1, secret <- v2, tokens <- v3, issued <- v4, pod <- v5, dial <- v6,
  everStored <- v7, faults <- v8, crashes <- v9

OnDisk == INSTANCE IdentityFiles WITH
  MaxIssued <- 4, MaxFaults <- 2, MaxCrashes <- 2,
  files <- v1, phase <- v2, todo <- v3, new <- v4, from <- v5, running <- v6,
  unpersisted <- v7, issued <- v8, faults <- v9, crashes <- v10

Collect == INSTANCE Facts WITH
  Worlds <- {Plain, Wide}, Operator <- FALSE, TopN <- 3, MaxFactsBytes <- 8, TextSize <- 1,
  ReasonSize <- 2, NoteSize <- 1, MaxFaults <- 0, MaxRefreshes <- 2, MaxFlips <- 1,
  world <- v1, up <- v2, todo <- v3, draft <- v4, failed <- v5, faults <- v6,
  refreshes <- v7, flips <- v8, pub <- v9, last <- v10, ask <- v11, hub <- v12

Tight == INSTANCE Facts WITH
  Worlds <- {Plain, Wide}, Operator <- TRUE, TopN <- 3, MaxFactsBytes <- 3, TextSize <- 4,
  ReasonSize <- 2, NoteSize <- 1, MaxFaults <- 1, MaxRefreshes <- 1, MaxFlips <- 1,
  world <- v1, up <- v2, todo <- v3, draft <- v4, failed <- v5, faults <- v6,
  refreshes <- v7, flips <- v8, pub <- v9, last <- v10, ask <- v11, hub <- v12

ASSUME SpokeInstances ==
  /\ Accept!ListenerConstants /\ Capped!ListenerConstants /\ Body!GrpcBodyConstants
  /\ RudeBody!GrpcBodyConstants /\ Shake!HandshakeConstants /\ Dial!DialingConstants
  /\ Cover!CoverageConstants /\ Identity!SpokeIdentityConstants
  /\ Unsaved!SpokeIdentityConstants /\ Foreign!SpokeIdentityConstants
  /\ Collect!FactsConstants /\ Tight!FactsConstants

-----------------------------------------------------------------------------
(* The variables a component has no use for stay Off. *)
Off21 == v22 = Off
Off20 == v21 = Off /\ Off21
Off19 == v20 = Off /\ Off20
Off18 == v19 = Off /\ Off19
Off17 == v18 = Off /\ Off18
Off16 == v17 = Off /\ Off17
Off15 == v16 = Off /\ Off16
Off14 == v15 = Off /\ Off15
Off13 == v14 = Off /\ Off14
Off12 == v13 = Off /\ Off13
Off11 == v12 = Off /\ Off12
Off10 == v11 = Off /\ Off11
Off9 == v10 = Off /\ Off10

Init ==
  part \in Parts /\
  CASE part = "listener" -> Accept!Init /\ Off17
    [] part = "capped" -> Capped!Init /\ Off17
    [] part = "body" -> Body!Init
    [] part = "rude" -> RudeBody!Init
    [] part = "handshake" -> Shake!Init /\ Off15
    [] part = "dialing" -> Dial!Init /\ Off10
    [] part = "coverage" -> Cover!Init /\ Off9
    [] part = "identity" -> Identity!Init /\ Off9
    [] part = "unsaved" -> Unsaved!Init /\ Off9
    [] part = "foreign" -> Foreign!Init /\ Off9
    [] part = "files" -> OnDisk!Init /\ Off10
    [] part = "facts" -> Collect!Init /\ Off12
    [] part = "tight" -> Tight!Init /\ Off12

ListenerNext == part = "listener" /\ Accept!Next /\ UNCHANGED <<part, v18, v19, v20, v21, v22>>
CappedNext == part = "capped" /\ Capped!Next /\ UNCHANGED <<part, v18, v19, v20, v21, v22>>
BodyNext == part = "body" /\ Body!Next /\ UNCHANGED <<part>>
RudeNext == part = "rude" /\ RudeBody!Next /\ UNCHANGED <<part>>
HandshakeNext == part = "handshake" /\ Shake!Next /\ UNCHANGED <<part, v16, v17, v18, v19, v20, v21, v22>>
DialingNext == part = "dialing" /\ Dial!Next /\ UNCHANGED <<part, v11, v12, v13, v14, v15, v16, v17, v18, v19, v20, v21, v22>>
CoverageNext == part = "coverage" /\ Cover!Next /\ UNCHANGED <<part, v10, v11, v12, v13, v14, v15, v16, v17, v18, v19, v20, v21, v22>>
IdentityNext == part = "identity" /\ Identity!Next /\ UNCHANGED <<part, v10, v11, v12, v13, v14, v15, v16, v17, v18, v19, v20, v21, v22>>
UnsavedNext == part = "unsaved" /\ Unsaved!Next /\ UNCHANGED <<part, v10, v11, v12, v13, v14, v15, v16, v17, v18, v19, v20, v21, v22>>
ForeignNext == part = "foreign" /\ Foreign!Next /\ UNCHANGED <<part, v10, v11, v12, v13, v14, v15, v16, v17, v18, v19, v20, v21, v22>>
FilesNext == part = "files" /\ OnDisk!Next /\ UNCHANGED <<part, v11, v12, v13, v14, v15, v16, v17, v18, v19, v20, v21, v22>>
FactsNext == part = "facts" /\ Collect!Next /\ UNCHANGED <<part, v13, v14, v15, v16, v17, v18, v19, v20, v21, v22>>
TightNext == part = "tight" /\ Tight!Next /\ UNCHANGED <<part, v13, v14, v15, v16, v17, v18, v19, v20, v21, v22>>

Next ==
  ListenerNext \/ CappedNext \/ BodyNext \/ RudeNext \/ HandshakeNext \/ DialingNext \/
  CoverageNext \/ IdentityNext \/ UnsavedNext \/ ForeignNext \/ FilesNext \/ FactsNext \/
  TightNext

Spec == Init /\ [][Next]_vars

-----------------------------------------------------------------------------
(* Every component keeps its variables in their types, and with them what   *)
(* the types say of the code: counters within their limits, a cache entry   *)
(* under the epoch it was made in, a goroutine in one place of its code.    *)
TypeOK ==
  /\ part = "listener" => Accept!TypeOK
  /\ part = "capped" => Capped!TypeOK
  /\ part = "body" => Body!TypeOK
  /\ part = "rude" => RudeBody!TypeOK
  /\ part = "handshake" => Shake!TypeOK
  /\ part = "dialing" => Dial!TypeOK
  /\ part = "coverage" => Cover!TypeOK
  /\ part = "identity" => Identity!TypeOK
  /\ part = "unsaved" => Unsaved!TypeOK
  /\ part = "foreign" => Foreign!TypeOK

(* The listener and the response body keep the contracts their callers rely *)
(* on, whatever the other end does: sessions are handed over and released   *)
(* once each and none is live after Shutdown, counters agree with the       *)
(* goroutines they count within their limits, the WaitGroup is never taken  *)
(* from zero while it is waited on, and a body ends with io.EOF behind      *)
(* every byte or with "too large" behind exactly the budget. Every          *)
(* component keeps its types.                                               *)
TunnelIsAccountedFor ==
  /\ part = "listener" => Accept!Contract!Init
  /\ part = "body" => Body!Contract!Init
  /\ part = "rude" => RudeBody!Contract!Init
  /\ [](/\ TypeOK
        /\ part = "listener" => Accept!SlotsBalanced
        /\ part = "capped" => Capped!SlotsBalanced
        /\ part = "body" => Body!WholeOrExact /\ Body!InflightSettles
        /\ part = "rude" => RudeBody!WholeOrExact)
  /\ [][/\ part = "listener" =>
               /\ Accept!NoAddDuringWait /\ [Accept!Contract!Next]_(Accept!Contract!vars)
        /\ part = "body" => [Body!Contract!Next]_(Body!Contract!vars)
        /\ part = "rude" => [RudeBody!Contract!Next]_(RudeBody!Contract!vars)]_vars

(* Whoever serves or is served is who its certificate says. A session       *)
(* carries the identity of a certificate that was trusted, proved and not   *)
(* revoked; a spoke serves only a hub that accepted it. No interleaving of  *)
(* renewals, adoptions, lost writes and crashes leaves a tunnel on an old   *)
(* certificate, a pod on another cluster's or an older one, a process on a  *)
(* mismatched pair, or an unsaved certificate forgotten.                    *)
IdentityHolds ==
  /\ [](/\ part = "handshake" =>
               /\ Shake!SessionIsTheCertificates /\ Shake!ServingWasAccepted
               /\ Shake!ReasonsTellApart
        /\ part = "identity" => Identity!TunnelFollowsIdentity
        /\ part = "unsaved" => Unsaved!UnsavedIsRemembered
        /\ part = "foreign" => Foreign!OwnClusterOnly)
  /\ [][/\ part = "identity" => Identity!IdentityAdvances
        /\ part = "files" => OnDisk!StartsOnAPair]_vars

(* The dial loops dial settled targets from a window within its bounds,     *)
(* which doubles with every failure whatever redundant redials come between *)
(* and slows a search that does not converge; the coverage counts exactly   *)
(* the tunnels there are, whichever ends first, and the pool of loops stays *)
(* bounded.                                                                 *)
DialingIsPaced ==
  /\ part = "dialing" =>
         /\ Dial!TargetIsSettled /\ Dial!WindowWithinCap /\ Dial!CrashLoopBacksOff
         /\ Dial!HopelessSearchSlows
  /\ part = "coverage" => Cover!LiveIsTunnels /\ Cover!PoolBounded

(* What the hub holds under a fingerprint is the snapshot published under   *)
(* it, a refresh that cannot reach Prometheus keeps the detail collected    *)
(* before, and one that shortened a list says so.                           *)
FactsAreWhole ==
  /\ [](/\ part = "facts" => Collect!FingerprintNames
        /\ part = "tight" => Tight!RefreshNotesCut)
  /\ [][part = "facts" => Collect!DownKeepsDetail]_vars

=============================================================================
