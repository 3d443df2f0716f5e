------------------------------- MODULE MCLive -------------------------------
(***************************************************************************)
(* What must eventually happen in the hub, in the tunnel and in the spoke, *)
(* under the fairness that the scheduling of each component justifies. The *)
(* components do not share state, so one of them runs in every behaviour,  *)
(* and its fairness binds only there.                                      *)
(***************************************************************************)
EXTENDS Integers, Sequences, FiniteSets, TLC

CONSTANTS Parts, Off, None, Absent, Restored, Short, NoRoot, Never, NoCopy

VARIABLES
  part, \* the component that runs in this behaviour
  v1, v2, v3, v4, v5, v6, v7, v8, v9, v10, v11, v12, v13, v14, v15, v16, v17, v18, v19, v20,
  v21, v22 \* its variables

vars == <<part, v1, v2, v3, v4, v5, v6, v7, v8, v9, v10, v11, v12, v13, v14, v15, v16, v17, v18, v19, v20, v21, v22>>

Callers == {"big", "small", "more"}
Procs == {"p1", "p2"}
Replicas == {"r1", "r2"}
Fleet == 1 .. 2
AgentToken == [kid |-> "k1", class |-> "agent", good |-> TRUE]
Dialers == {"d1", "d2", "d3"}
Conns == {"c1"}
(* A Prometheus that changes under the spoke. *)
FactLists == {"jobs", "namespaces", "prefixes"}
FactFields == FactLists \cup
  {"version", "retention", "extLabels", "interval", "series", "rules", "firing", "hasAM",
   "k8sVersion", "k8sNodes"}
Plain == [f \in FactFields \cup {"gated", "rank"} |-> IF f = "gated" THEN FALSE ELSE 1]
Wide == [f \in DOMAIN Plain |->
  CASE f = "gated" -> TRUE [] f \in FactLists -> 3 [] f = "firing" -> 0 [] OTHER -> 2]

Prox == INSTANCE Proxy WITH
  Callers <- Callers, Clusters <- {"k1", "k2"},
  ClusterOf <- [c \in Callers |-> IF c = "more" THEN "k2" ELSE "k1"],
  Want <- [c \in Callers |-> CASE c = "big" -> 0 [] c = "small" -> 3 [] OTHER -> 1],
  LimitBytes <- [c \in Callers |-> IF c = "small" THEN 1 ELSE 0],
  LimitInflight <- [c \in Callers |-> 0], MaxResponseBytes <- 3, Budget <- 3, MaxInflight <- 2,
  Patient <- {"big"},
  inflight <- v1, free <- v2, waiters <- v3, ready <- v4, pc <- v5, ended <- v6

Fan == INSTANCE Fanout WITH
  Clusters <- Fleet, Env <- [c \in Fleet |-> IF c = 1 THEN "dev" ELSE "prod"], MaxClusters <- 3,
  Concurrency <- 1, Deadline <- 2, Second <- 1, MaxSeries <- 1, RowCeiling <- 2, OnErrors <- {"partial"},
  visible <- v1, in <- v2, phase <- v3, targets <- v4, failures <- v5, sent <- v6,
  closed <- v7, worker <- v8, started <- v9, results <- v10, clock <- v11, cancelled <- v12,
  held <- v13, stalled <- v14, out <- v15

Alerts == INSTANCE FleetAlerts WITH
  Clusters <- {1, 2, 3}, MaxClustersCeiling <- 3, FanoutConcurrency <- 1, Deadline <- 3,
  MaxFleetAlerts <- 2, TokenCeiling <- 1, MaxFiring <- 0,
  visible <- v1, firing <- v2, now <- v3, worker <- v4, began <- v5, entries <- v6,
  step <- v7, out <- v8

Verify == INSTANCE Verifier WITH
  Kids <- {"k1"}, StoredClass <- [k \in {"k1"} |-> "agent"],
  Presented <- [c \in {"c1"} |-> {AgentToken}], Calls <- {"c1"}, Classes <- {"agent"}, Tokens <- {AgentToken},
  Monotone <- FALSE, Attributable <- TRUE, MayExpire <- {}, MaxAge <- 1, CacheTTL <- 2, NegTTL <- 1,
  MaxEpoch <- 2, MaxFaults <- 1, Burst <- 1, Unit <- 1, Rate <- 1, FirstPenalty <- 1, MaxPenalty <- 2,
  hist <- v1, view <- v2, reads <- v3, expired <- v4, epoch <- v5, pos <- v6, neg <- v7,
  bucket <- v8, call <- v9, dead <- v10, faults <- v11

Files == INSTANCE CAFiles WITH
  Procs <- Procs, InitPollAttempts <- 2, MaxCrashes <- 1,
  file <- v1, pc <- v2, tries <- v3, incomplete <- v4, result <- v5, crashes <- v6

Rotate == INSTANCE CARotation WITH
  Replicas <- Replicas, Serving <- Replicas, Restarting <- {"r2"}, Roots <- {1, 2, 3, 4},
  TTL <- 2, ShortTTL <- 2, Grace <- 1, ShortenIn <- {}, AgainAfterShortening <- FALSE,
  AnnotateIn <- {"steady"}, Edits <- {}, MaySignerExpire <- FALSE,
  secret <- v1, current <- v2, seen <- v3, signer <- v4, trusted <- v5, ttl <- v6,
  uptime <- v7, lag <- v8, certs <- v9, holdouts <- v10, signerAge <- v11, edited <- v12

Process == INSTANCE HubLifecycle WITH
  Reqs <- {}, Kinds <- {"read"}, Spokes <- {"s1"},
  pc <- v1, cancelled <- v2, health <- v3, draining <- v4, server <- v5, expired <- v6,
  store <- v7, running <- v8, inStore <- v9, req <- v10, touching <- v11, accepting <- v12,
  sessions <- v13, readable <- v14, caShort <- v15, routed <- v16

Accept == INSTANCE Listener WITH
  Conns <- Conns, MaxSessions <- 0, MaxPending <- 1, ListenerMax <- 0,
  handler <- v1, sess <- v2, dead <- v3, connClosed <- v4, over <- v5, deathwatch <- v6,
  known <- v7, pending <- v8, sessions <- v9, active <- v10, wg <- v11, accepted <- v12,
  serve <- v13, stop <- v14, cancelled <- v15, shut <- v16, live <- v17

Body == INSTANCE GrpcBody WITH
  Budget <- 2, MaxLen <- 3, Chunk <- 2, ReadSize <- 1, Window <- 2, Honest <- TRUE,
  len <- v1, fate <- v2, spoke <- v3, sent <- v4, truncated <- v5, broke <- v6, wire <- v7,
  status <- v8, streamCancelled <- v9, caller <- v10, session <- v11, do <- v12,
  reader <- v13, pending <- v14, received <- v15, finished <- v16, term <- v17,
  trail <- v18, closing <- v19, closer <- v20, inflight <- v21, got <- v22

Shake == INSTANCE Handshake WITH
  Clusters <- {"east"}, MaxReplicas <- 1,
  spokeCfg <- v1, hubCfg <- v2, full <- v3, revoked <- v4, spoke <- v5, hub <- v6,
  toSpoke <- v7, toHub <- v8, link <- v9, cancelled <- v10, identity <- v11, verdict <- v12,
  checked <- v13, info <- v14, reason <- v15

Cover == INSTANCE Coverage WITH
  Replicas <- Replicas, Started <- {"r1"}, Dialers <- Dialers, Discover <- TRUE,
  PeerDomain <- TRUE, Warm <- TRUE, Canonical <- TRUE, MaxAdvertised <- 2,
  MaxScalings <- 1, MaxDrops <- 0, MaxFailures <- 0,
  up <- v1, peer <- v2, live <- v3, want <- v4, dialer <- v5, health <- v6, scalings <- v7,
  drops <- v8, failures <- v9

Identity == INSTANCE SpokeIdentity WITH
  Pods <- Procs, ClusterOf <- [p \in Procs |-> "a"], Stored <- {"absent", "damaged"}, TokenUses <- 1,
  Life <- 2, Grace <- 1, Startup <- FALSE, MaxTime <- 2, MaxIssued <- 3, MaxFaults <- 0, MaxCrashes <- 0,
  now <- v1, secret <- v2, tokens <- v3, issued <- v4, pod <- v5, dial <- v6,
  everStored <- v7, faults <- v8, crashes <- v9

OnDisk == INSTANCE IdentityFiles WITH
  MaxIssued <- 4, MaxFaults <- 2, MaxCrashes <- 2,
  files <- v1, phase <- v2, todo <- v3, new <- v4, from <- v5, running <- v6,
  unpersisted <- v7, issued <- v8, faults <- v9, crashes <- v10

Collect == INSTANCE Facts WITH
  Worlds <- {Plain, Wide}, Operator <- FALSE, TopN <- 3, MaxFactsBytes <- 8, TextSize <- 1,
  ReasonSize <- 2, NoteSize <- 1, MaxFaults <- 0, MaxRefreshes <- 2, MaxFlips <- 1,
  world <- v1, up <- v2, todo <- v3, draft <- v4, failed <- v5, faults <- v6,
  refreshes <- v7, flips <- v8, pub <- v9, last <- v10, ask <- v11, hub <- v12

ASSUME LiveInstances ==
  /\ Prox!ProxyConstants /\ Fan!FanoutConstants /\ Alerts!FleetAlertsConstants
  /\ Verify!VerifierConstants /\ Files!CAFilesConstants /\ Rotate!CARotationConstants
  /\ Accept!ListenerConstants /\ Body!GrpcBodyConstants /\ Shake!HandshakeConstants
  /\ Cover!CoverageConstants /\ Identity!SpokeIdentityConstants /\ Collect!FactsConstants

-----------------------------------------------------------------------------
(* The variables a component has no use for stay Off. *)
Off21 == v22 = Off
Off20 == v21 = Off /\ Off21
Off19 == v20 = Off /\ Off20
Off18 == v19 = Off /\ Off19
Off17 == v18 = Off /\ Off18
Off16 == v17 = Off /\ Off17
Off15 == v16 = Off /\ Off16
Off14 == v15 = Off /\ Off15
Off13 == v14 = Off /\ Off14
Off12 == v13 = Off /\ Off13
Off11 == v12 = Off /\ Off12
Off10 == v11 = Off /\ Off11
Off9 == v10 = Off /\ Off10
Off8 == v9 = Off /\ Off9
Off7 == v8 = Off /\ Off8
Off6 == v7 = Off /\ Off7

Init ==
  part \in Parts /\
  CASE part = "proxy" -> Prox!Init /\ Off6
    [] part = "fanout" -> Fan!Init /\ Off15
    [] part = "alerts" -> Alerts!Init /\ Off8
    [] part = "verify" -> Verify!Init /\ Off11
    [] part = "cafiles" -> Files!Init /\ Off6
    [] part = "rotation" -> Rotate!Init /\ Off12
    [] part = "process" -> Process!Init /\ Off16
    [] part = "listener" -> Accept!Init /\ Off17
    [] part = "body" -> Body!Init
    [] part = "handshake" -> Shake!Init /\ Off15
    [] part = "coverage" -> Cover!Init /\ Off9
    [] part = "identity" -> Identity!Init /\ Off9
    [] part = "idfiles" -> OnDisk!Init /\ Off10
    [] part = "facts" -> Collect!Init /\ Off12

ProxyNext == part = "proxy" /\ Prox!Next /\ UNCHANGED <<part, v7, v8, v9, v10, v11, v12, v13, v14, v15, v16, v17, v18, v19, v20, v21, v22>>
FanoutNext == part = "fanout" /\ Fan!Next /\ UNCHANGED <<part, v16, v17, v18, v19, v20, v21, v22>>
AlertsNext == part = "alerts" /\ Alerts!Next /\ UNCHANGED <<part, v9, v10, v11, v12, v13, v14, v15, v16, v17, v18, v19, v20, v21, v22>>
VerifyNext == part = "verify" /\ Verify!Next /\ UNCHANGED <<part, v12, v13, v14, v15, v16, v17, v18, v19, v20, v21, v22>>
CafilesNext == part = "cafiles" /\ Files!Next /\ UNCHANGED <<part, v7, v8, v9, v10, v11, v12, v13, v14, v15, v16, v17, v18, v19, v20, v21, v22>>
RotationNext == part = "rotation" /\ Rotate!Next /\ UNCHANGED <<part, v13, v14, v15, v16, v17, v18, v19, v20, v21, v22>>
ProcessNext == part = "process" /\ Process!Next /\ UNCHANGED <<part, v17, v18, v19, v20, v21, v22>>
ListenerNext == part = "listener" /\ Accept!Next /\ UNCHANGED <<part, v18, v19, v20, v21, v22>>
BodyNext == part = "body" /\ Body!Next /\ UNCHANGED <<part>>
HandshakeNext == part = "handshake" /\ Shake!Next /\ UNCHANGED <<part, v16, v17, v18, v19, v20, v21, v22>>
CoverageNext == part = "coverage" /\ Cover!Next /\ UNCHANGED <<part, v10, v11, v12, v13, v14, v15, v16, v17, v18, v19, v20, v21, v22>>
IdentityNext == part = "identity" /\ Identity!Next /\ UNCHANGED <<part, v10, v11, v12, v13, v14, v15, v16, v17, v18, v19, v20, v21, v22>>
IdfilesNext == part = "idfiles" /\ OnDisk!Next /\ UNCHANGED <<part, v11, v12, v13, v14, v15, v16, v17, v18, v19, v20, v21, v22>>
FactsNext == part = "facts" /\ Collect!Next /\ UNCHANGED <<part, v13, v14, v15, v16, v17, v18, v19, v20, v21, v22>>

Next ==
  ProxyNext \/ FanoutNext \/ AlertsNext \/ VerifyNext \/ CafilesNext \/ RotationNext \/
  ProcessNext \/ ListenerNext \/ BodyNext \/ HandshakeNext \/ CoverageNext \/
  IdentityNext \/ IdfilesNext \/ FactsNext

Spec == Init /\ [][Next]_vars

(* proxy.Proxy: a goroutine inside Do runs on; upstream calls end because   *)
(* their context does.  Nobody is obliged to call.                          *)
ProxyRuns ==
  \A c \in Callers : WF_(Prox!vars)(part = "proxy" /\ Prox!Do(c))

(* The fan-out: goroutines run, and the clock does. *)
FanoutRuns ==
  /\ WF_(Fan!vars)(part = "fanout" /\ (Fan!Select \/ Fan!GiveUp \/ Fan!CloseJobs \/ Fan!Collected \/ Fan!Merge))
  /\ WF_(Fan!vars)(part = "fanout" /\ Fan!Tick) /\ WF_(Fan!vars)(part = "fanout" /\ Fan!Working)

(* The alerts resource: goroutines run, calls return when their context     *)
(* ends, and time passes.                                                   *)
AlertsRuns ==
  /\ WF_(Alerts!vars)(part = "alerts" /\ Alerts!Begin) /\ WF_(Alerts!vars)(part = "alerts" /\ Alerts!Tick) /\ WF_(Alerts!vars)(part = "alerts" /\ Alerts!Merge)
  /\ \A c \in {1, 2, 3} : WF_(Alerts!vars)(part = "alerts" /\ Alerts!Acquire(c)) /\ WF_(Alerts!vars)(part = "alerts" /\ Alerts!TimesOut(c))

(* The verifier: a client that goes on asking, requests that run, a copy    *)
(* that is renewed and a clock that moves.                                  *)
VerifyRuns ==
  /\ WF_(Verify!vars)(part = "verify" /\ Verify!Tick) /\ WF_(Verify!vars)(part = "verify" /\ Verify!Refresh)
  /\ WF_(Verify!vars)(part = "verify" /\ Verify!Step("c1")) /\ WF_(Verify!vars)(part = "verify" /\ Verify!Asked("c1"))

(* The CA files: a process that was started runs. *)
FilesRuns ==
  \A p \in Procs : WF_(Files!vars)(part = "cafiles" /\ Files!Step(p))

(* The rotation: replicas poll, time passes, and sessions on the outgoing   *)
(* root end once their spokes have renewed.                                 *)
RotationRuns ==
  /\ WF_(Rotate!vars)(part = "rotation" /\ Rotate!Tick)
  /\ \A r \in Replicas : WF_(Rotate!vars)(part = "rotation" /\ Rotate!step(r)) /\ WF_(Rotate!vars)(part = "rotation" /\ Rotate!SessionsEnd(r))

(* The hub's process: run() and the goroutines it started keep being        *)
(* scheduled; a loop whose select finds its context done leaves sooner or   *)
(* later even if its timer is ready as well; a last-used write has a        *)
(* timeout; the endpoint controller keeps reading /readyz. A handler owes   *)
(* nothing: the grace bounds what waits for it.                             *)
ProcessRuns ==
  /\ WF_(Process!vars)(part = "process" /\ Process!main) /\ WF_(Process!vars)(part = "process" /\ Process!observe)
  /\ WF_(Process!vars)(part = "process" /\ Process!stopAccepting) /\ WF_(Process!vars)(part = "process" /\ Process!watchCertExpiry)
  /\ WF_(Process!vars)(part = "process" /\ Process!probeStore) /\ WF_(Process!vars)(part = "process" /\ Process!enterStore("probe"))
  /\ WF_(Process!vars)(part = "process" /\ Process!pruneOnce) /\ WF_(Process!vars)(part = "process" /\ Process!watch("s1"))
  /\ \A w \in Process!StoreWorkers : SF_(Process!vars)(part = "process" /\ Process!workerReturns(w))
  /\ \A w \in Process!Workers \ Process!StoreWorkers : WF_(Process!vars)(part = "process" /\ Process!workerReturns(w))

(* The listener: every goroutine that can take a step takes it; handshakes  *)
(* and offers are bounded by deadlines.  Requests, cancellation and         *)
(* shutdown need not come.                                                  *)
ListenerRuns ==
  /\ WF_(Accept!vars)(part = "listener" /\ Accept!Serving) /\ WF_(Accept!vars)(part = "listener" /\ Accept!StopAccepting) /\ WF_(Accept!vars)(part = "listener" /\ Accept!Shutting)
  /\ \A c \in Conns : /\ WF_(Accept!vars)(part = "listener" /\ Accept!Handle(c) /\ Accept!Underway(c))
                      /\ WF_(Accept!vars)(part = "listener" /\ Accept!Attach(c)) /\ WF_(Accept!vars)(part = "listener" /\ Accept!DeathWatch(c))
                      /\ WF_(Accept!vars)(part = "listener" /\ Accept!Watch(c))

(* A response body: the hub's goroutines run, and the spoke's handler       *)
(* honours its context; a stalled upstream need never answer.               *)
BodyRuns ==
  /\ WF_(Body!vars)(part = "body" /\ (Body!DoBegins \/ Body!DoReturns)) /\ WF_(Body!vars)(part = "body" /\ Body!ReadSteps)
  /\ WF_(Body!vars)(part = "body" /\ Body!CloseSteps) /\ WF_(Body!vars)(part = "body" /\ Body!SpokeCancelled)

(* The handshake: both ends run and their deadlines expire. *)
ShakeRuns ==
  WF_(Shake!vars)(part = "handshake" /\ Shake!Spoking) /\ WF_(Shake!vars)(part = "handshake" /\ Shake!Hubbing)

(* The dial loops: they run, lookups end and caches age; a duplicate and a  *)
(* tunnel to a replica that is gone end.  A dial loop that keeps dialling   *)
(* is offered every replica again and again.                                *)
CoverageRuns ==
  /\ \A d \in Dialers :
       /\ WF_(Cover!vars)(part = "coverage" /\ Cover!Supervise(d)) /\ WF_(Cover!vars)(part = "coverage" /\ Cover!Read(d)) /\ WF_(Cover!vars)(part = "coverage" /\ Cover!Publish(d))
       /\ WF_(Cover!vars)(part = "coverage" /\ Cover!Gone(d) /\ Cover!End(d)) /\ WF_(Cover!vars)(part = "coverage" /\ Cover!Redial(d))
       /\ WF_(Cover!vars)(part = "coverage" /\ Cover!Retire(d))
  /\ \A r \in Replicas : /\ SF_(Cover!vars)(part = "coverage" /\ \E d \in Dialers : Cover!Connect(d, r))
                         /\ WF_(Cover!vars)(part = "coverage" /\ Cover!Refresh(r)) /\ WF_(Cover!vars)(part = "coverage" /\ Cover!GoesStale(r))

(* The spoke's identity: the goroutines run, and a tunnel whose signal      *)
(* fired is torn down.                                                      *)
IdentityRuns ==
  \A p \in Procs :
    /\ WF_(Identity!vars)(part = "identity" /\ Identity!Step(p)) /\ WF_(Identity!vars)(part = "identity" /\ Identity!TakeSignalThenIdentity(p))
    /\ WF_(Identity!vars)(part = "identity" /\ Identity!Fired(p) /\ Identity!TunnelEnds(p))

(* The identity files: the renewal loop wakes for as long as the process    *)
(* lives.                                                                   *)
IdFilesRuns ==
  WF_(OnDisk!vars)(part = "idfiles" /\ (\/ OnDisk!EstablishIdentity \/ OnDisk!Enroll \/ OnDisk!Retry \/ OnDisk!Saved
                \/ \E n \in OnDisk!Names : OnDisk!RenameFile(n)))

(* The facts: the poll runs on a ticker and one of its Describes is         *)
(* answered in the end; a refresh that began goes on.                       *)
FactsRuns ==
  /\ WF_(Collect!vars)(part = "facts" /\ Collect!collect) /\ WF_(Collect!vars)(part = "facts" /\ Collect!pollFacts)
  /\ SF_(Collect!vars)(part = "facts" /\ Collect!readFingerprint) /\ SF_(Collect!vars)(part = "facts" /\ Collect!Describe)

HubFairSpec ==
  /\ Spec
  /\ ProxyRuns /\ FanoutRuns /\ AlertsRuns /\ VerifyRuns /\ FilesRuns /\ RotationRuns
  /\ ProcessRuns

SpokeFairSpec ==
  /\ Spec
  /\ ListenerRuns /\ BodyRuns /\ ShakeRuns /\ CoverageRuns /\ IdentityRuns /\ IdFilesRuns
  /\ FactsRuns

-----------------------------------------------------------------------------
Begun ==
  \/ part = "proxy" /\ Prox!Queued("big")
  \/ part = "fanout" /\ Fan!Dispatching
  \/ part = "alerts" /\ ~Alerts!Done
  \/ part = "cafiles" /\ ~ \A p \in Procs : Files!Settled(p)
  \/ part = "rotation" /\ Rotate!Rotating
  \/ part = "process" /\ Process!Signalled
  \/ part = "listener" /\ Accept!ShuttingDown
  \/ part = "body" /\ Body!Closing
  \/ part = "handshake" /\ Shake!Received
  \/ part = "idfiles" /\ OnDisk!Unsaved

Ended ==
  \/ part = "proxy" /\ Prox!Called("big")
  \/ part = "fanout" /\ Fan!Over
  \/ part = "alerts" /\ Alerts!Done
  \/ part = "cafiles" /\ \A p \in Procs : Files!Settled(p)
  \/ part = "rotation" /\ ~Rotate!Rotating
  \/ part = "process" /\ Process!Exited
  \/ part = "listener" /\ Accept!Drained
  \/ part = "body" /\ Body!Closed
  \/ part = "handshake" /\ Shake!Decided
  \/ part = "idfiles" /\ ~OnDisk!Unsaved

(* What is begun comes to its end.                                          *)
(*                                                                          *)
(* In the hub, a large reservation that waits is granted, although small    *)
(* ones keep coming (grantLocked). A fan-out and a read of the fleet's      *)
(* alerts answer, at the latest when their deadline has passed. The         *)
(* processes that initialise one CA directory come into service or give up  *)
(* (LoadOrCreate). A rotation completes, although a replica restarts in it  *)
(* (rotate.step). A signal ends the process, wherever run() stands: nothing *)
(* that drain() waits for is unbounded.                                     *)
(*                                                                          *)
(* In the tunnel and the spoke, what one end begins does not depend on the  *)
(* other to end. Shutdown of the listener ends every handler and session    *)
(* and Serve returns. Close of a response returns, although the reader      *)
(* waits for a spoke that never answers. The hub decides every handshake it *)
(* received. A renewed identity whose Save failed is on disk in the end, so *)
(* long as the process lives.                                               *)
WhatBeginsEnds == Begun ~> Ended

(* What changed in the store reaches its readers, with nothing restarted.   *)
(*                                                                          *)
(* A key that is live for good is let in again and again, however long the  *)
(* hub refused it before it was issued and however often its store failed:  *)
(* neither a remembered rejection nor the limiter keeps a client out.       *)
(*                                                                          *)
(* A document that stays unreadable makes the replica not ready, and one    *)
(* that is repaired makes it ready again (watchStoreHealth).                *)
StoreIsFollowed ==
  /\ <>[](part = "verify" /\ Verify!IsLive("k1")) => []<>(part = "verify" /\ Verify!LetIn(AgentToken))
  /\ <>[](part = "process" /\ Process!Readable /\ Process!Serving)
       => <>[](part = "process" /\ Process!ReadyIn("store"))
  /\ <>[](part = "process" /\ ~Process!Readable /\ Process!Serving)
       => <>[](part = "process" /\ ~Process!ReadyIn("store"))

Abandoned ==
  \/ part = "listener" /\ Accept!Dead("c1")
  \/ part = "body" /\ Body!Abandoned
  \/ part = "handshake" /\ Shake!SpokeLeft

Reclaimed ==
  \/ part = "listener" /\ Accept!Reclaimed("c1")
  \/ part = "body" /\ Body!SpokeDone
  \/ part = "handshake" /\ Shake!HubClosed

(* What one end abandons the other end gives up. A connection whose socket  *)
(* died loses its handler, its session and both its slots, whoever notices  *)
(* first. A body that is closed, or whose caller or session is gone, stops  *)
(* the request on the spoke. A hub whose spoke left the handshake closes.   *)
AbandonedIsReclaimed == Abandoned ~> Reclaimed

(* Once the outside stops changing, the spoke comes to rest where it        *)
(* should. It has a tunnel to every replica of the hub, although the        *)
(* balancer chooses and a new replica knows no count (the probe of          *)
(* coverage.dialers, the retiring of dialLoop). Pods that share a           *)
(* single-use token all run: one redeems it, the others adopt what it       *)
(* stored (awaitSiblingIdentity, Converge). A dial serves or has returned.  *)
(* The hub holds the facts the spoke published last, through polls that     *)
(* fail and answers that say unchanged.                                     *)
ComesToRest ==
  <>[](\/ part \in {"listener", "body", "idfiles"}
       \/ part = "coverage" /\ Cover!Covered
       \/ part = "identity" /\ \A p \in Procs : Identity!IsUp(p)
       \/ part = "handshake" /\ Shake!DialReturned
       \/ part = "facts" /\ Collect!HubHoldsIt)

=============================================================================
