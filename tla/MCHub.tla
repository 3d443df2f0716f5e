------------------------------- MODULE MCHub -------------------------------
(***************************************************************************)
(* The hub's components on small instances: what it keeps and hands out    *)
(* (the credential document, enrollment, the admin API, the verifier, the  *)
(* token grammar, the CA in files and in its Secret, its rotation, the     *)
(* life of the process), and the tools of its MCP server with the proxy    *)
(* they call through. The components do not share state, so one of them    *)
(* runs in every behaviour.                                                *)
(*                                                                         *)
(* Some instances leave out a case in which the code does not keep the     *)
(* property; README.md names them.                                         *)
(***************************************************************************)
EXTENDS Integers, Sequences, FiniteSets, TLC

CONSTANTS Parts, Off, NoCluster, NoSerial, None, BadCSR, Absent, Short, NoRoot, Never, NoCopy

VARIABLES
  part, \* the component that runs in this behaviour
  v1, v2, v3, v4, v5, v6, v7, v8, v9, v10, v11, v12, v13, v14, v15, v16 \* its variables

vars == <<part, v1, v2, v3, v4, v5, v6, v7, v8, v9, v10, v11, v12, v13, v14, v15, v16>>

Blank == [class |-> "agent", cluster |-> NoCluster, created |-> 0, expires |-> 0,
          revoked |-> FALSE, lastUsed |-> 0, reusable |-> FALSE, max |-> 0,
          redemptions |-> 0, used |-> FALSE, serial |-> NoSerial]
Grant(cluster, expires, reusable, max) ==
  [Blank EXCEPT !.class = "enrollment", !.cluster = cluster, !.expires = expires,
                !.reusable = reusable, !.max = max]
None0 == [k \in {} |-> 0]

(* Two grants for one cluster, an agent key that never expires and the      *)
(* bootstrap admin key.                                                     *)
LifeKeys == (1 :> Grant("c1", 0, FALSE, 0)) @@ (2 :> Grant("c1", 0, TRUE, 2))
              @@ (3 :> Blank) @@ (4 :> [Blank EXCEPT !.class = "admin"])
LifeTTL == (1 :> 1) @@ (2 :> 1) @@ (3 :> 0) @@ (4 :> 1)

(* A single-use grant and a capped one; certificates that are to be renewed. *)
Unburned(k) == [k EXCEPT !.serial = 0]
TwoGrants == (1 :> Unburned(Grant("c1", 1, FALSE, 0))) @@ (2 :> Unburned(Grant("c2", 1, TRUE, 2)))
Holder(cluster, key, notAfter) == [cluster |-> cluster, key |-> key, notAfter |-> notAfter, from |-> 0]
TwoHolders == (1 :> Holder("c1", "keyA", 1)) @@ (2 :> Holder("c2", "keyB", 2))
OneHolder == 1 :> Holder("c1", "keyA", 1)

(* One key, presented with its secret and with its class rewritten. *)
Good == [kid |-> "k1", class |-> "agent", good |-> TRUE]
Rewritten == [kid |-> "k1", class |-> "admin", good |-> TRUE]

(* Four callers of two clusters; "big" wants the whole byte budget. *)
CallerCluster == [c \in {"big", "small", "more", "other"} |-> IF c \in {"more", "other"} THEN 2 ELSE 1]
CallerWants == ("big" :> 0) @@ ("small" :> 3) @@ ("more" :> 1) @@ ("other" :> 5)
CallerBytes == [c \in {"big", "small", "more", "other"} |-> IF c = "small" THEN 1 ELSE 0]
CallerSlots == [c \in {"big", "small", "more", "other"} |-> IF c = "other" THEN 1 ELSE 0]

(* Scopes that differ in what selects a cluster, and in what grants a tool. *)
Scope(role, allowAll, allow, match, deny, tools, denyTools, max) ==
  [role |-> role, allowAll |-> allowAll, allow |-> allow, match |-> match, deny |-> deny,
   tools |-> tools, denyTools |-> denyTools, maxSeries |-> max]
ToolScopes ==
  {Scope("viewer", aa, al, m, d, {"*"}, {}, mx) :
     aa \in BOOLEAN, al \in {{}, {2}}, m \in {{}, {"prod"}}, d \in {{}, {3}}, mx \in {1}}
  \cup {Scope(r, TRUE, {}, {}, {}, t, dt, 0) : r \in {"viewer", "operator", "admin"},
          t \in {{}, {"*"}, {"targets"}}, dt \in {{}, {"targets"}}}
ToolCalls ==
  {[kind |-> "tool", tool |-> t] : t \in {"query", "targets"}}
  \cup {[kind |-> "resource", tool |-> t] : t \in {"describe_cluster", "list_clusters"}}

(* Series with and without a finite maximum, and with a cluster label of    *)
(* their own.                                                               *)
Row(labels, max, key, bytes) == [labels |-> labels, max |-> max, key |-> key, bytes |-> bytes]
RangeSeries ==
  {Row([job |-> "x"], 2, 1, 4), Row([job |-> "y"], 2, 2, 9), Row([job |-> "x", zone |-> "z"], -1, 3, 1),
   Row([job |-> "x", cluster |-> "here"], 1, 4, 3), Row([job |-> "x", cluster |-> "there"], -1, 5, 6)}

(* Time arguments: a second is two ticks and a day sixteen. *)
Rel(v) == [kind |-> "rel", v |-> v]
Abs(v) == [kind |-> "abs", v |-> v]
NoTime == [kind |-> "empty", v |-> 0]
BadTime == [kind |-> "bad", v |-> 0]
RangeModes == {"range", "fanout"}
AllModes == {"instant", "range", "fanout"}
AnyStart == {NoTime, BadTime, Rel(-7), Rel(-12), Rel(-20), Rel(-60), Abs(33), Abs(90)}
WholeStart == {NoTime, BadTime, Rel(-8), Rel(-12), Rel(-20), Rel(-60), Abs(32), Abs(90)}
RecentEnd == {NoTime, Rel(0)}
AnyEnd == {NoTime, BadTime, Rel(0), Rel(-6), Abs(50)}
Rungs == <<4, 8, 16>>
DurationUnits == <<16, 8, 2, 1>>

(* What upstream answers each tool with. *)
Item(tag, sub, group, name, ok, bytes) ==
  [tag |-> tag, sub |-> sub, group |-> group, name |-> name, ok |-> ok, bytes |-> bytes]
NameItems ==
  {Item("", "", "a", 1, TRUE, 3), Item("", "", "a", 2, TRUE, 9), Item("", "", "b", 3, TRUE, 4),
   Item("", "", "b", 4, FALSE, 2)}
ListTools ==
  {"targets", "alerts", "rules", "search_metrics", "metric_metadata", "target_metadata",
   "label_names", "label_values", "query_exemplars", "tsdb_stats", "list_clusters"}
MeasuredTools ==
  {"search_metrics", "metric_metadata", "target_metadata", "series", "label_values",
   "query_exemplars", "list_clusters"}
Upstreams == [t \in ListTools \cup {"series"} |->
  CASE t = "targets" -> {Item("up", "", "a", 1, TRUE, 3), Item("down", "", "b", 3, TRUE, 9),
                         Item("Down?", "", "a", 2, TRUE, 4), Item("down", "", "b", 4, TRUE, 2)}
    [] t = "alerts" ->
         {Item("firing", "critical", "b", 3, TRUE, 9), Item("firing", "warning", "a", 1, TRUE, 3),
          Item("pending", "critical", "a", 2, TRUE, 4), Item("inactive", "none", "b", 4, TRUE, 2)}
    [] t = "rules" -> {Item("ok", "firing", "a", 1, TRUE, 3), Item("err", "inactive", "b", 3, TRUE, 9),
                       Item("", "pending", "a", 2, TRUE, 4), Item("ok", "", "b", 4, TRUE, 2)}
    [] t \in {"query_exemplars", "tsdb_stats"} ->
         {Item(1, "", "any", 1, TRUE, 3), Item(2, "", "any", 2, TRUE, 9), Item(2, "", "any", 3, TRUE, 4)}
    [] t = "list_clusters" ->
         {Item("connected", "reachable", "a", 1, TRUE, 3), Item("connected", "", "b", 2, TRUE, 9),
          Item("degraded", "", "a", 3, TRUE, 4), Item("gone", "reachable", "b", 4, TRUE, 2)}
    [] OTHER -> NameItems]
FilterValues == [t \in ListTools \cup {"series"} |->
  CASE t = "targets" -> {"any", "up", "down"}
    [] t = "alerts" -> {"any", "firing"}
    [] t = "list_clusters" -> {"any", "degraded"}
    [] OTHER -> {"any"}]

ThreeProd == [c \in 1 .. 3 |-> "prod"]

Life == INSTANCE Document WITH
  Template <- LifeKeys, TTL <- LifeTTL, CertTTL <- 1, Retention <- 0, RenewGrace <- 1,
  WellKnown <- {4}, MaxTime <- 4, MaxEpoch <- 3,
  KIDs <- {1, 2, 3, 4}, Serials <- {9}, ClusterIDs <- {"c1"}, MaxRecords <- 4,
  doc <- v1, unpruned <- v2, now <- v3

Redeeming == INSTANCE Enrollment WITH
  Calls <- {"a", "b"}, PublicKeys <- {"keyA"}, Minted <- TwoGrants, Issued <- None0,
  SpokeCertTTL <- 2, RenewGrace <- 1, RenewChallengeTTL <- 1, StateRetention <- 1, Hold <- 0,
  MaxTime <- 1, MaxRevocations <- 0, MaxProofs <- 0, KIDs <- {1, 2}, Serials <- {1, 2, 3},
  ClusterIDs <- {"c1", "c2"}, MaxRecords <- 0, NoSerial <- 0,
  doc <- v1, now <- v2, certs <- v3, proofs <- v4, call <- v5, ever <- v6, told <- v7

Renewing == INSTANCE Enrollment WITH
  Calls <- {"a"}, PublicKeys <- {"keyA", "keyB"}, Minted <- None0, Issued <- TwoHolders,
  SpokeCertTTL <- 2, RenewGrace <- 1, RenewChallengeTTL <- 1, StateRetention <- 1, Hold <- 1,
  MaxTime <- 3, MaxRevocations <- 0, MaxProofs <- 2, KIDs <- {1, 2}, Serials <- {1, 2, 3, 4},
  ClusterIDs <- {"c1", "c2"}, MaxRecords <- 0, NoSerial <- 0,
  doc <- v1, now <- v2, certs <- v3, proofs <- v4, call <- v5, ever <- v6, told <- v7

Revoking == INSTANCE Enrollment WITH
  Calls <- {"a"}, PublicKeys <- {"keyA", "keyB"}, Minted <- None0, Issued <- OneHolder,
  SpokeCertTTL <- 2, RenewGrace <- 2, RenewChallengeTTL <- 1, StateRetention <- 1, Hold <- 1,
  MaxTime <- 7, MaxRevocations <- 1, MaxProofs <- 1, KIDs <- {1, 2}, Serials <- {1, 2},
  ClusterIDs <- {"c1", "c2"}, MaxRecords <- 0, NoSerial <- 0,
  doc <- v1, now <- v2, certs <- v3, proofs <- v4, call <- v5, ever <- v6, told <- v7

Admin == INSTANCE KeyAdmin WITH
  Requests <- {"x", "y"}, AgentKeyTTL <- 2, AdminKeyTTL <- 1, EnrollmentTTL <- 1,
  MintRetries <- 2, StoreMayLie <- TRUE, MaxTime <- 1,
  KIDs <- {1, 2, 3}, Serials <- {}, ClusterIDs <- {"c1"}, MaxRecords <- 0,
  doc <- v1, now <- v2, draining <- v3, req <- v4, secretOf <- v5, parent <- v6, shown <- v7

Verify == INSTANCE Verifier WITH
  Calls <- {"x", "y"}, Kids <- {"k1"}, Classes <- {"agent"}, Tokens <- {Good},
  StoredClass <- [k \in {"k1"} |-> "agent"], MayExpire <- {}, Presented <- [c \in {"x", "y"} |-> {Good}],
  CacheTTL <- 2, NegTTL <- 1, Monotone <- TRUE, Attributable <- FALSE, MaxAge <- 1,
  MaxEpoch <- 3, MaxFaults <- 0, Burst <- 1, Unit <- 1, Rate <- 1, FirstPenalty <- 1, MaxPenalty <- 2,
  hist <- v1, view <- v2, reads <- v3, expired <- v4, epoch <- v5, pos <- v6, neg <- v7,
  bucket <- v8, call <- v9, dead <- v10, faults <- v11

Classed == INSTANCE Verifier WITH
  Calls <- {"x", "y"}, Kids <- {"k1"}, Classes <- {"agent", "admin"}, Tokens <- {Good, Rewritten},
  StoredClass <- [k \in {"k1"} |-> "agent"], MayExpire <- {"k1"}, Presented <- [c \in {"x", "y"} |-> {Good, Rewritten}],
  CacheTTL <- 1, NegTTL <- 1, Monotone <- TRUE, Attributable <- FALSE, MaxAge <- 1,
  MaxEpoch <- 1, MaxFaults <- 0, Burst <- 1, Unit <- 1, Rate <- 1, FirstPenalty <- 1, MaxPenalty <- 2,
  hist <- v1, view <- v2, reads <- v3, expired <- v4, epoch <- v5, pos <- v6, neg <- v7,
  bucket <- v8, call <- v9, dead <- v10, faults <- v11

Lagging == INSTANCE Verifier WITH
  Calls <- {"x", "y"}, Kids <- {"k1"}, Classes <- {"agent"}, Tokens <- {Good},
  StoredClass <- [k \in {"k1"} |-> "agent"], MayExpire <- {}, Presented <- [c \in {"x", "y"} |-> {Good}],
  CacheTTL <- 1, NegTTL <- 1, Monotone <- FALSE, Attributable <- FALSE, MaxAge <- 1,
  MaxEpoch <- 2, MaxFaults <- 0, Burst <- 1, Unit <- 1, Rate <- 1, FirstPenalty <- 1, MaxPenalty <- 2,
  hist <- v1, view <- v2, reads <- v3, expired <- v4, epoch <- v5, pos <- v6, neg <- v7,
  bucket <- v8, call <- v9, dead <- v10, faults <- v11

Grammar == INSTANCE Tokens WITH
  Base <- 3, Classes <- {0, 2}, KIDLen <- 1, SecretLen <- 3, SecretRange <- 10, CRCLen <- 2,
  CRCRange <- 7, RandomByte <- 256, RandomLimit <- 248, RandomBase <- 62, MaxEdits <- 2,
  minted <- v1, raw <- v2, edits <- v3

Boot == INSTANCE Bootstrap WITH
  Replicas <- {"r1", "r2", "r3"}, Operator <- <<"operator", 0>>, Found <- {{}, {"cert", "key", "pepper"}}, MaxPods <- 2,
  secret <- v1, exists <- v2, pc <- v3, stored <- v4, pod <- v5, disk <- v6, loaded <- v7,
  base <- v8, current <- v9

PartBoot == INSTANCE Bootstrap WITH
  Replicas <- {"r1", "r2"}, Operator <- <<"operator", 0>>, Found <- SUBSET {"cert", "key", "pepper"}, MaxPods <- 2,
  secret <- v1, exists <- v2, pc <- v3, stored <- v4, pod <- v5, disk <- v6, loaded <- v7,
  base <- v8, current <- v9

Files == INSTANCE CAFiles WITH
  Procs <- {"p1", "p2", "p3"}, InitPollAttempts <- 2, MaxCrashes <- 1, Restored <- "backup",
  file <- v1, pc <- v2, tries <- v3, incomplete <- v4, result <- v5, crashes <- v6

Rotate == INSTANCE CARotation WITH
  Replicas <- {"r1", "r2"}, Serving <- {"r1"}, Restarting <- {"r2"}, Roots <- {1, 2, 3, 4},
  TTL <- 4, ShortTTL <- 2, Grace <- 1, ShortenIn <- {"signing"}, AgainAfterShortening <- FALSE,
  AnnotateIn <- {"steady", "signing"}, Edits <- {"phase", "since"}, MaySignerExpire <- FALSE,
  secret <- v1, current <- v2, seen <- v3, signer <- v4, trusted <- v5, ttl <- v6,
  uptime <- v7, lag <- v8, certs <- v9, holdouts <- v10, signerAge <- v11, edited <- v12

Process == INSTANCE HubLifecycle WITH
  Reqs <- {"r1"}, Kinds <- {"mutate", "enroll"}, Spokes <- {},
  pc <- v1, cancelled <- v2, health <- v3, draining <- v4, server <- v5, expired <- v6,
  store <- v7, running <- v8, inStore <- v9, req <- v10, touching <- v11, accepting <- v12,
  sessions <- v13, readable <- v14, caShort <- v15, routed <- v16

ProxyOf4 == INSTANCE Proxy WITH
  Callers <- DOMAIN CallerWants, Clusters <- {1, 2}, ClusterOf <- CallerCluster,
  Want <- CallerWants, LimitBytes <- CallerBytes, LimitInflight <- CallerSlots,
  MaxResponseBytes <- 3, Budget <- 3, MaxInflight <- 2, Patient <- {"big"},
  inflight <- v1, free <- v2, waiters <- v3, ready <- v4, pc <- v5, ended <- v6

Guard == INSTANCE ToolGuard WITH
  Clusters <- {2, 3}, Empty <- 0, Malformed <- 1, Labels <- {"prod", "dev"},
  Scopes <- ToolScopes, Calls <- ToolCalls,
  OperationalTools <- {"targets", "target_metadata", "alertmanagers", "tsdb_stats", "runtime_info"},
  MaxUpstream <- 2, DefaultLimit <- 2, DidYouMeanCount <- 1, NearestCount <- 2, MaxChanges <- 1,
  registry <- v1, changes <- v2, scope <- v3, call <- v4, step <- v5, result <- v6

FanoutTo3 == INSTANCE Fanout WITH
  Clusters <- 1 .. 3, Env <- ThreeProd, MaxClusters <- 2, Concurrency <- 2, Deadline <- 2,
  Second <- 1, MaxSeries <- 1, RowCeiling <- 2, OnErrors <- {"partial", "fail"},
  visible <- v1, in <- v2, phase <- v3, targets <- v4, failures <- v5, sent <- v6,
  closed <- v7, worker <- v8, started <- v9, results <- v10, clock <- v11, cancelled <- v12,
  held <- v13, stalled <- v14, out <- v15

SlowFleet == INSTANCE Fanout WITH
  Clusters <- 1 .. 2, Env <- [c \in 1 .. 2 |-> IF c = 1 THEN "dev" ELSE "prod"], MaxClusters <- 3,
  Concurrency <- 1, Deadline <- 4, Second <- 1, MaxSeries <- 1, RowCeiling <- 2, OnErrors <- {"partial"},
  visible <- v1, in <- v2, phase <- v3, targets <- v4, failures <- v5, sent <- v6,
  closed <- v7, worker <- v8, started <- v9, results <- v10, clock <- v11, cancelled <- v12,
  held <- v13, stalled <- v14, out <- v15

Alerts == INSTANCE FleetAlerts WITH
  Clusters <- {1, 2, 3}, MaxClustersCeiling <- 2, FanoutConcurrency <- 1, Deadline <- 2,
  MaxFleetAlerts <- 2, TokenCeiling <- 0, MaxFiring <- 2,
  visible <- v1, firing <- v2, now <- v3, worker <- v4, began <- v5, entries <- v6,
  step <- v7, out <- v8

Results == INSTANCE Encode WITH
  Series <- RangeSeries, MaxMatched <- 4, Limits <- {0, 1, 3}, DefaultLimit <- 2,
  Ceilings <- {-1, 0, 1, 3, 5}, DefaultCeiling <- 4, BytesPerToken <- 4, Envelope <- 2,
  NaN <- -1, Cluster <- "here",
  mode <- v1, matched <- v2, opts <- v3, step <- v4, res <- v5, rows <- v6

Plan == INSTANCE RangePlan WITH
  Modes <- RangeModes, Starts <- AnyStart, Ends <- RecentEnd, UserSteps <- {0, 1, 4, 17},
  Scrapes <- {0, 5, 24}, Points <- {1, 2, 5}, Limits <- {13, 40}, StepLadder <- Rungs,
  Units <- DurationUnits, Second <- 2, DefaultSpan <- 10, MaxInt <- 127, Now <- 60, MaxNow <- 62,
  mode <- v1, start <- v2, end <- v3, userStep <- v4, scrapes <- v5, points <- v6,
  limit <- v7, now <- v8, phase <- v9, at <- v10, plan <- v11, corrected <- v12,
  retried <- v13

Window == INSTANCE RangePlan WITH
  Modes <- AllModes, Starts <- WholeStart, Ends <- AnyEnd, UserSteps <- {0, 1, 4, 6, 16, 17, 100},
  Scrapes <- {0, 5, 24}, Points <- {1, 2, 5}, Limits <- {13, 40}, StepLadder <- Rungs,
  Units <- DurationUnits, Second <- 2, DefaultSpan <- 10, MaxInt <- 127, Now <- 60, MaxNow <- 60,
  mode <- v1, start <- v2, end <- v3, userStep <- v4, scrapes <- v5, points <- v6,
  limit <- v7, now <- v8, phase <- v9, at <- v10, plan <- v11, corrected <- v12,
  retried <- v13

List == INSTANCE Listing WITH
  Tools <- ListTools, Upstream <- Upstreams, MaxItems <- 3, Filters <- FilterValues,
  Groups <- {"any", "a"}, Limits <- {0, 5}, DefaultLimit <- 2, MaxLimit <- 3,
  Ceilings <- {0, 2, 4}, BytesPerToken <- 4, Envelope <- 2, ExtraBytes <- 5,
  tool <- v1, args <- v2, ceiling <- v3, answer <- v4, step <- v5, out <- v6

Measured == INSTANCE Listing WITH
  Tools <- MeasuredTools, Upstream <- Upstreams, MaxItems <- 3, Filters <- FilterValues,
  Groups <- {"any", "a"}, Limits <- {0, 5}, DefaultLimit <- 2, MaxLimit <- 3,
  Ceilings <- {0, 2, 4}, BytesPerToken <- 4, Envelope <- 2, ExtraBytes <- 5,
  tool <- v1, args <- v2, ceiling <- v3, answer <- v4, step <- v5, out <- v6

Parted == INSTANCE Sections WITH
  Lengths <- {0, 2, 3, 5}, TopNs <- {0, 1, 4}, DefaultTopN <- 2, MaxTopN <- 3,
  Ages <- {2, 3}, StaleFactsAfter <- 2,
  tool <- v1, include <- v2, topN <- v3, facts <- v4, age <- v5, todo <- v6, out <- v7

ASSUME HubInstances ==
  /\ Redeeming!EnrollmentConstants /\ Renewing!EnrollmentConstants
  /\ Revoking!EnrollmentConstants /\ Admin!KeyAdminConstants /\ Verify!VerifierConstants
  /\ Classed!VerifierConstants /\ Lagging!VerifierConstants /\ Grammar!TokensConstants
  /\ Boot!BootstrapConstants /\ PartBoot!BootstrapConstants /\ Files!CAFilesConstants
  /\ Rotate!CARotationConstants /\ ProxyOf4!ProxyConstants /\ Guard!ToolGuardConstants
  /\ FanoutTo3!FanoutConstants /\ SlowFleet!FanoutConstants /\ Alerts!FleetAlertsConstants
  /\ Results!EncodeConstants /\ Plan!RangePlanConstants /\ Window!RangePlanConstants
  /\ List!ListingConstants /\ Measured!ListingConstants /\ Parted!SectionsConstants

-----------------------------------------------------------------------------
(* The variables a component has no use for stay Off. *)
Off15 == v16 = Off
Off14 == v15 = Off /\ Off15
Off13 == v14 = Off /\ Off14
Off12 == v13 = Off /\ Off13
Off11 == v12 = Off /\ Off12
Off10 == v11 = Off /\ Off11
Off9 == v10 = Off /\ Off10
Off8 == v9 = Off /\ Off9
Off7 == v8 = Off /\ Off8
Off6 == v7 = Off /\ Off7
Off5 == v6 = Off /\ Off6
Off4 == v5 = Off /\ Off5
Off3 == v4 = Off /\ Off4

Init ==
  part \in Parts /\
  CASE part = "document" -> Life!DocInit /\ Off3
    [] part = "redeem" -> Redeeming!Init /\ Off7
    [] part = "renew" -> Renewing!Init /\ Off7
    [] part = "revoked" -> Revoking!Init /\ Off7
    [] part = "keys" -> Admin!Init /\ Off7
    [] part = "verify" -> Verify!Init /\ Off11
    [] part = "class" -> Classed!Init /\ Off11
    [] part = "latency" -> Lagging!Init /\ Off11
    [] part = "tokens" -> Grammar!Init /\ Off3
    [] part = "bootstrap" -> Boot!Init /\ Off9
    [] part = "partial" -> PartBoot!Init /\ Off9
    [] part = "files" -> Files!Init /\ Off6
    [] part = "rotation" -> Rotate!Init /\ Off12
    [] part = "lifecycle" -> Process!Init
    [] part = "proxy" -> ProxyOf4!Init /\ Off6
    [] part = "guard" -> Guard!Init /\ Off6
    [] part = "fanout" -> FanoutTo3!Init /\ Off15
    [] part = "slow" -> SlowFleet!Init /\ Off15
    [] part = "alerts" -> Alerts!Init /\ Off8
    [] part = "encode" -> Results!Init /\ Off6
    [] part = "plan" -> Plan!Init /\ Off13
    [] part = "window" -> Window!Init /\ Off13
    [] part = "listing" -> List!Init /\ Off6
    [] part = "measured" -> Measured!Init /\ Off6
    [] part = "sections" -> Parted!Init /\ Off7

DocumentNext == part = "document" /\ Life!DocNext /\ UNCHANGED <<part, v4, v5, v6, v7, v8, v9, v10, v11, v12, v13, v14, v15, v16>>
RedeemNext == part = "redeem" /\ Redeeming!Next /\ UNCHANGED <<part, v8, v9, v10, v11, v12, v13, v14, v15, v16>>
RenewNext == part = "renew" /\ Renewing!Next /\ UNCHANGED <<part, v8, v9, v10, v11, v12, v13, v14, v15, v16>>
RevokedNext == part = "revoked" /\ Revoking!Next /\ UNCHANGED <<part, v8, v9, v10, v11, v12, v13, v14, v15, v16>>
KeysNext == part = "keys" /\ Admin!Next /\ UNCHANGED <<part, v8, v9, v10, v11, v12, v13, v14, v15, v16>>
VerifyNext == part = "verify" /\ Verify!Next /\ UNCHANGED <<part, v12, v13, v14, v15, v16>>
ClassNext == part = "class" /\ Classed!Next /\ UNCHANGED <<part, v12, v13, v14, v15, v16>>
LatencyNext == part = "latency" /\ Lagging!Next /\ UNCHANGED <<part, v12, v13, v14, v15, v16>>
TokensNext == part = "tokens" /\ Grammar!Next /\ UNCHANGED <<part, v4, v5, v6, v7, v8, v9, v10, v11, v12, v13, v14, v15, v16>>
BootstrapNext == part = "bootstrap" /\ Boot!Next /\ UNCHANGED <<part, v10, v11, v12, v13, v14, v15, v16>>
PartialNext == part = "partial" /\ PartBoot!Next /\ UNCHANGED <<part, v10, v11, v12, v13, v14, v15, v16>>
FilesNext == part = "files" /\ Files!Next /\ UNCHANGED <<part, v7, v8, v9, v10, v11, v12, v13, v14, v15, v16>>
RotationNext == part = "rotation" /\ Rotate!Next /\ UNCHANGED <<part, v13, v14, v15, v16>>
LifecycleNext == part = "lifecycle" /\ Process!Next /\ UNCHANGED <<part>>
ProxyNext == part = "proxy" /\ ProxyOf4!Next /\ UNCHANGED <<part, v7, v8, v9, v10, v11, v12, v13, v14, v15, v16>>
GuardNext == part = "guard" /\ Guard!Next /\ UNCHANGED <<part, v7, v8, v9, v10, v11, v12, v13, v14, v15, v16>>
FanoutNext == part = "fanout" /\ FanoutTo3!Next /\ UNCHANGED <<part, v16>>
SlowNext == part = "slow" /\ SlowFleet!Next /\ UNCHANGED <<part, v16>>
AlertsNext == part = "alerts" /\ Alerts!Next /\ UNCHANGED <<part, v9, v10, v11, v12, v13, v14, v15, v16>>
EncodeNext == part = "encode" /\ Results!Next /\ UNCHANGED <<part, v7, v8, v9, v10, v11, v12, v13, v14, v15, v16>>
PlanNext == part = "plan" /\ Plan!Next /\ UNCHANGED <<part, v14, v15, v16>>
WindowNext == part = "window" /\ Window!Next /\ UNCHANGED <<part, v14, v15, v16>>
ListingNext == part = "listing" /\ List!Next /\ UNCHANGED <<part, v7, v8, v9, v10, v11, v12, v13, v14, v15, v16>>
MeasuredNext == part = "measured" /\ Measured!Next /\ UNCHANGED <<part, v7, v8, v9, v10, v11, v12, v13, v14, v15, v16>>
SectionsNext == part = "sections" /\ Parted!Next /\ UNCHANGED <<part, v8, v9, v10, v11, v12, v13, v14, v15, v16>>

Next ==
  DocumentNext \/ RedeemNext \/ RenewNext \/ RevokedNext \/ KeysNext \/ VerifyNext \/
  ClassNext \/ LatencyNext \/ TokensNext \/ BootstrapNext \/ PartialNext \/ FilesNext \/
  RotationNext \/ LifecycleNext \/ ProxyNext \/ GuardNext \/ FanoutNext \/ SlowNext \/
  AlertsNext \/ EncodeNext \/ PlanNext \/ WindowNext \/ ListingNext \/ MeasuredNext \/
  SectionsNext

Spec == Init /\ [][Next]_vars

-----------------------------------------------------------------------------
(* Every component keeps its variables in their types, and with them what   *)
(* the types say of the code: counters within their limits, a cache entry   *)
(* under the epoch it was made in, a goroutine in one place of its code.    *)
TypeOK ==
  /\ part = "document" => Life!DocTypeOK
  /\ part = "redeem" => Redeeming!TypeOK
  /\ part = "renew" => Renewing!TypeOK
  /\ part = "revoked" => Revoking!TypeOK
  /\ part = "keys" => Admin!TypeOK
  /\ part = "verify" => Verify!TypeOK
  /\ part = "class" => Classed!TypeOK
  /\ part = "latency" => Lagging!TypeOK
  /\ part = "bootstrap" => Boot!TypeOK
  /\ part = "partial" => PartBoot!TypeOK
  /\ part = "files" => Files!TypeOK
  /\ part = "rotation" => Rotate!TypeOK
  /\ part = "lifecycle" => Process!TypeOK
  /\ part = "proxy" => ProxyOf4!TypeOK
  /\ part = "fanout" => FanoutTo3!TypeOK
  /\ part = "slow" => SlowFleet!TypeOK
  /\ part = "alerts" => Alerts!TypeOK

(* What the hub decided stands. Pruning changes no later decision and every *)
(* change of one moves the epoch; a grant buys no more certificates than it *)
(* allows, from however many replicas at once; a certificate is renewed     *)
(* only for its holder, and never after its revocation was confirmed; a     *)
(* shown token opens its own key, a key has at most one successor, and      *)
(* lifetimes stay bounded. Every component keeps its types.                 *)
DecisionsStand ==
  /\ [](/\ TypeOK
        /\ part = "document" => Life!PruneKeepsAuthorization
        /\ part = "redeem" => Redeeming!RedeemedWithinGrant
        /\ part = "renew" => Renewing!RenewedByHolder
        /\ part = "revoked" => Revoking!RevokedNeverRenewed
        /\ part = "keys" =>
               /\ Admin!ShownOpensItsKey /\ Admin!OneSuccessor /\ Admin!LifetimesBounded)
  /\ [][part = "document" => Life!EpochTracksDecisions]_vars

(* The verifier accepts the right secret of a live key of the right class   *)
(* and nothing else, from its caches or not: a revocation lands on the next *)
(* request, no cached verdict crosses classes or outlives its TTL. A        *)
(* credential has one spelling, which reads back as itself; a typo stops    *)
(* before the store, and what is accepted the published pattern finds.      *)
CredentialsAreExact ==
  /\ part = "verify" => Verify!NextRequestRefused
  /\ part = "class" => Classed!AcceptedIsGenuine
  /\ part = "latency" => Lagging!LatencyBounded
  /\ part = "tokens" =>
         /\ Grammar!RoundTrip /\ Grammar!OneSpelling /\ Grammar!TypoStopsHere
         /\ Grammar!ScannerFindsIt /\ Grammar!UniformKID

(* Replicas that start together over a CA Secret that is full, empty or     *)
(* absent serve one CA and one pepper, and so do processes over files,      *)
(* although any of them may die in between: a field or file once complete   *)
(* is never overwritten, and half a CA is never completed with a generated  *)
(* half. Over a Secret that lacks only the pepper they may serve different  *)
(* peppers (complete() of bootstrap.go), so that start is checked for the   *)
(* rest alone. A rotation moves one phase per write, with the material the  *)
(* phase needs, and strands no certificate that may still connect or renew. *)
OneTrustRoot ==
  /\ [](/\ part = "bootstrap" => Boot!ServesSharedMaterial
        /\ part = "partial" => PartBoot!PairsOnly
        /\ part = "files" => Files!OneAuthority
        /\ part = "rotation" => Rotate!NoCertificateStranded /\ Rotate!PhaseHasItsMaterial)
  /\ [][/\ part = "bootstrap" => Boot!FieldsAreFinal
        /\ part = "partial" => PartBoot!FieldsAreFinal
        /\ part = "files" => Files!NeverOverwritten /\ Files!HalfPresentIsKept
        /\ part = "rotation" => Rotate!OnePhaseAtATime]_vars

(* The hub lets go of nothing that is still in use: the store is closed     *)
(* last, and readiness is reported only while the public server serves and  *)
(* is withdrawn before it refuses a routed connection.                      *)
NothingLeavesEarly ==
  /\ part = "lifecycle" =>
         /\ Process!StoreOutlivesWork /\ Process!ReadyIsServing /\ Process!ServesWhileRouted

(* The proxy shares the byte budget and the slots of a cluster exactly:     *)
(* every byte is free or owned by one call although a grant may race the    *)
(* end of a waiter's context, a slot is given back on every way out, nobody *)
(* waits for bytes that are there, and reservations are granted in arrival  *)
(* order (acquire, grantLocked, release).                                   *)
BudgetIsShared ==
  /\ [](part = "proxy" =>
            /\ ProxyOf4!BytesConserved /\ ProxyOf4!NoHeadStall /\ ProxyOf4!SlotsCounted)
  /\ [][part = "proxy" => ProxyOf4!NoOvertaking]_vars

(* What the scope of a caller withholds stays withheld: a withheld tool is  *)
(* refused whatever its arguments are, no call leaves for a spoke unless    *)
(* the scope allows the cluster with the labels it has at that moment, a    *)
(* cluster outside the scope looks like one that does not exist, and no     *)
(* result holds more series than the scope allows.                          *)
ScopeHolds ==
  /\ [](part = "guard" => Guard!WithheldLearnsNothing /\ Guard!MaxSeriesHolds)
  /\ [][part = "guard" => Guard!UpstreamInScope /\ Guard!DeniedLooksUnknown]_vars

(* A fan-out and the fleet's alerts report every cluster they were asked    *)
(* for exactly once, call nothing complete that is not, give every target   *)
(* its time when only one cluster is slow, advise a retry only when one     *)
(* could help, and never leave out an alert for a less severe one.          *)
FleetIsAccountedFor ==
  /\ part = "fanout" => FanoutTo3!EachOnce /\ FanoutTo3!CompleteIsComplete
  /\ part = "slow" => SlowFleet!OneSlowIsContained /\ SlowFleet!RetryAdvice
  /\ part = "alerts" => Alerts!NamedOrRead /\ Alerts!WorstSurvive

(* Nothing is dropped silently: a result, a list and a section say how much *)
(* matched, how much is shown and why the rest is missing; what is shown    *)
(* fits the token ceiling and ranks before what is not; labels and          *)
(* summaries are those of all that matched; and a failed call reports the   *)
(* first error it met.                                                      *)
CutsAreHonest ==
  /\ [](/\ part = "encode" =>
               /\ Results!TruncationIsHonest /\ Results!FitsOrEmpty /\ Results!RankDecides
               /\ Results!NothingRewritten
        /\ part = "listing" =>
               /\ List!ListingIsHonest /\ List!WorstSurvive /\ List!SummaryCountsAll
        /\ part = "measured" => Measured!CeilingHolds
        /\ part = "sections" => Parted!MissingIsNamed /\ Parted!LargestCutIsNamed)
  /\ [][part = "sections" => Parted!FirstErrorStays]_vars

(* A range query is sent with a step that is no finer than what was asked   *)
(* for or scraped and that fits the point budget, and with no time behind   *)
(* the lookback limit; a refused call repeated with the corrected arguments *)
(* is accepted; and the step an answer reports can be asked for again.      *)
RangesFit ==
  /\ part = "plan" => Plan!CorrectedIsAccepted /\ Plan!StepReadsBack
  /\ part = "window" => Window!StepFits /\ Window!InsideWindow

=============================================================================
