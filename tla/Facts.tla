------------------------------- MODULE Facts -------------------------------
(***************************************************************************)
(* The cluster facts: a spoke collects them from its Prometheus, one       *)
(* source after another (internal/clusterfacts), publishes them with a     *)
(* fingerprint, and the hub's poll asks for them by the fingerprint it     *)
(* already holds (internal/registry, pollFacts). Prometheus may go away    *)
(* between two sources of a refresh, and a refresh may be published        *)
(* between the two reads of a Describe.                                    *)
(***************************************************************************)
EXTENDS Integers, Sequences

CONSTANTS
  Worlds,        \* what Prometheus may hold; see IsWorld
  Operator,      \* the operator set PMF_CLUSTER_K8S_*
  TopN,          \* Config.TopN
  MaxFactsBytes, TextSize, ReasonSize, NoteSize, \* sizes, in list entries
  MaxFaults,     \* sources of one refresh that fail while Prometheus is up
  MaxRefreshes, MaxFlips   \* bounds: refreshes, and restarts of Prometheus

VARIABLES
  world,     \* what Prometheus holds
  up,        \* Prometheus answers
  todo,      \* sources the running refresh has still to ask; <<>> when none runs
  draft,     \* the facts it has assembled
  failed,    \* the sources of it that failed
  faults, refreshes, flips, \* bounds used so far
  pub,       \* Collector.cluster, the published snapshot
  last,      \* how it was collected: full, the fields whose source failed, lists as collected
  ask,       \* a Describe in progress: the fingerprint known, and the one read
  hub        \* the slot's facts and fingerprint

vars == <<world, up, todo, draft, failed, faults, refreshes, flips, pub, last, ask, hub>>
collector == <<todo, draft, failed, pub, last>>
bounds == <<faults, refreshes, flips>>

Lists == {"jobs", "namespaces", "prefixes"}
Sources == <<"buildinfo", "flags", "config", "extLabels", "interval", "tsdb", "names", "jobs",
             "namespaces", "rules", "alerts", "alertmanagers", "k8sVersion", "k8sNodes">>
(* The field each source is asked for. *)
FieldOf == [buildinfo |-> "version", flags |-> "retention", config |-> "extLabels",
            extLabels |-> "extLabels", interval |-> "interval", tsdb |-> "series", names |-> "prefixes",
            jobs |-> "jobs", namespaces |-> "namespaces", rules |-> "rules", alerts |-> "firing",
            alertmanagers |-> "hasAM", k8sVersion |-> "k8sVersion", k8sNodes |-> "k8sNodes"]
Fields == {FieldOf[s] : s \in DOMAIN FieldOf}

(* What Prometheus holds: a value for each field, whether the config        *)
(* endpoint is gated, and the order metric prefixes rank in.                *)
IsWorld(w) == DOMAIN w = Fields \cup {"gated", "rank"} /\ \A f \in Fields : w[f] \in Nat

FactsConstants ==
  /\ \A w \in Worlds : IsWorld(w)
  /\ Operator \in BOOLEAN
  /\ {TopN, MaxFactsBytes, TextSize, ReasonSize, NoteSize, MaxFaults, MaxRefreshes, MaxFlips} \subseteq Nat

-----------------------------------------------------------------------------
(* Facts. A count nobody could collect is -1, a string the empty one; rule  *)
(* groups, firing alerts and the Alertmanager have no such value.           *)
Unknown == [f \in Fields |-> IF f = "series" THEN -1 ELSE 0]
Blank == [detail |-> Unknown, rank |-> 0, names |-> -1, reachable |-> TRUE, reason |-> FALSE, note |-> FALSE]

(* applyOperatorKubernetes: what the operator set outranks what was found. *)
applyOperatorKubernetes(c) == IF Operator THEN [c EXCEPT !.detail["k8sVersion"] = 9] ELSE c

Placeholder == applyOperatorKubernetes([Blank EXCEPT !.reachable = FALSE, !.reason = TRUE])

(* Two snapshots that differ only in the order of a list have the same      *)
(* fingerprint; the time of the collection is not part of it.               *)
Fingerprint(c) == [c EXCEPT !.rank = 0]
NoFingerprint == [Blank EXCEPT !.rank = -1]

Least(a, b) == IF a < b THEN a ELSE b
capList(n) == Least(n, TopN)
halve(n) == IF n <= 1 THEN 0 ELSE n \div 2

Size(c) ==
  TextSize + c.detail["jobs"] + c.detail["namespaces"] + c.detail["prefixes"] + c.detail["extLabels"]
    + (IF c.reason THEN ReasonSize ELSE 0) + (IF c.note THEN NoteSize ELSE 0)

Sampled(c) == \E f \in Lists \cup {"extLabels"} : c.detail[f] > 0

shrinkSampled(c) ==
  LET d == c.detail
      least == CASE d["namespaces"] > 0 -> "namespaces" [] d["jobs"] > 0 -> "jobs" [] OTHER -> "prefixes"
  IN IF \E f \in Lists : d[f] > 0 THEN [c EXCEPT !.detail[least] = halve(@)]
     ELSE [c EXCEPT !.detail["extLabels"] = 0]

(* At most 32 rounds, each cutting the least valuable list that is left. *)
MaxRounds == 32
RECURSIVE shrink(_, _)
shrink(c, rounds) ==
  IF rounds = 0 \/ Size(c) <= MaxFactsBytes \/ ~Sampled(c) THEN c ELSE shrink(shrinkSampled(c), rounds - 1)
Shrunk(c) == shrink(c, MaxRounds)

capSize(c) == LET s == Shrunk(c) IN [s EXCEPT !.note = (s # c)]

-----------------------------------------------------------------------------
Idle == [at |-> "none", known |-> NoFingerprint, current |-> NoFingerprint]
NoLast == [full |-> FALSE, failed |-> {}, lists |-> [f \in Lists |-> 0]]

Init ==
  /\ world \in Worlds /\ up \in BOOLEAN
  /\ todo = <<>> /\ draft = Blank /\ failed = {}
  /\ faults = 0 /\ refreshes = 0 /\ flips = 0
  /\ pub = Placeholder /\ last = NoLast
  /\ ask = Idle /\ hub = [facts |-> Placeholder, fp |-> NoFingerprint]

(* Publish what has been assembled, shortened to the size cap. *)
publish(c, how) == pub' = capSize(c) /\ last' = how

(* Ping first. When it fails, what was published before is carried forward  *)
(* under the operator's own description, which carries no note.             *)

refreshDown ==
  /\ ~up /\ todo' = <<>> /\ UNCHANGED <<draft, failed>>
  /\ publish(applyOperatorKubernetes([pub EXCEPT !.reachable = FALSE, !.reason = TRUE, !.note = FALSE]),
             [last EXCEPT !.full = FALSE])

refreshUp ==
  /\ up /\ todo' = Sources /\ draft' = Blank /\ failed' = {}
  /\ UNCHANGED <<pub, last>>

Refresh ==
  /\ todo = <<>> /\ refreshes < MaxRefreshes
  /\ refreshes' = refreshes + 1 /\ faults' = 0
  /\ refreshDown \/ refreshUp
  /\ UNCHANGED <<world, up, flips, ask, hub>>

(* What one source that answers adds to the draft. A field that an earlier  *)
(* source filled is not asked for again.                                    *)
Answered(s, d) ==
  LET f == FieldOf[s]
      v == IF f \in Lists THEN capList(world[f]) ELSE world[f]
  IN CASE s = "names" -> [d EXCEPT !.detail[f] = v, !.rank = world["rank"], !.names = world[f]]
       [] s = "tsdb" -> [d EXCEPT !.detail[f] = v, !.names = world["prefixes"]]
       [] s = "config" -> IF world["gated"] THEN d
                            ELSE [d EXCEPT !.detail[f] = v, !.detail["interval"] = world["interval"]]
       [] OTHER -> [d EXCEPT !.detail[f] = v]

Skipped(s) == s \in {"extLabels", "interval"} /\ draft.detail[FieldOf[s]] # 0
Finished(d) == applyOperatorKubernetes(d)

(* A source fails when Prometheus is down, or on its own. *)
collect ==
  /\ todo # <<>>
  /\ LET s == Head(todo) IN
     \E ok \in IF ~up THEN {Skipped(s)} ELSE IF faults < MaxFaults THEN BOOLEAN ELSE {TRUE} :
       /\ draft' = IF ok /\ ~Skipped(s) THEN Answered(s, draft) ELSE draft
       /\ failed' = IF ok \/ (s = "config" /\ world["gated"]) THEN failed ELSE failed \cup {s}
       /\ faults' = IF ok \/ ~up THEN faults ELSE faults + 1
  /\ todo' = Tail(todo)
  /\ IF Len(todo) = 1
     THEN publish(Finished(draft'), [full |-> TRUE, failed |-> failed',
                                     lists |-> [f \in Lists |-> draft'.detail[f]]])
     ELSE UNCHANGED <<pub, last>>
  /\ UNCHANGED <<world, up, refreshes, flips, ask, hub>>

(* Prometheus restarts, or holds something else. *)
flip ==
  /\ flips < MaxFlips /\ flips' = flips + 1
  /\ \/ up' = ~up /\ UNCHANGED world
     \/ world' \in Worlds \ {world} /\ UNCHANGED up
  /\ UNCHANGED <<collector, faults, refreshes, ask, hub>>

-----------------------------------------------------------------------------
(* The hub's poll. Describe reads the fingerprint under the lock, and the   *)
(* snapshot under the lock again.                                           *)
pollFacts ==
  /\ ask.at = "none"
  /\ ask' = [at |-> "known", known |-> hub.fp, current |-> NoFingerprint]
  /\ UNCHANGED <<world, up, collector, bounds, hub>>

readFingerprint ==
  /\ ask.at = "known"
  /\ ask' = [ask EXCEPT !.at = "current", !.current = Fingerprint(pub)]
  /\ UNCHANGED <<world, up, collector, bounds, hub>>

DescribeTorn ==
  /\ ask.at = "current" /\ ask' = Idle
  /\ hub' = IF ask.known = ask.current THEN hub ELSE [facts |-> pub, fp |-> ask.current]
  /\ UNCHANGED <<world, up, collector, bounds>>

Describe ==
  /\ ask.at = "current" /\ ask' = Idle
  /\ hub' = IF ask.known = ask.current THEN hub ELSE [facts |-> pub, fp |-> Fingerprint(pub)]
  /\ UNCHANGED <<world, up, collector, bounds>>

(* A poll that times out changes nothing. *)
pollFails ==
  /\ ask.at # "none" /\ ask' = Idle
  /\ UNCHANGED <<world, up, collector, bounds, hub>>

(* The spoke restarts with the placeholder, and its new session asks afresh. *)
restart ==
  /\ refreshes < MaxRefreshes
  /\ todo' = <<>> /\ draft' = Blank /\ failed' = {}
  /\ pub' = Placeholder /\ last' = NoLast
  /\ ask' = Idle /\ hub' = [hub EXCEPT !.fp = NoFingerprint]
  /\ refreshes' = refreshes + 1
  /\ UNCHANGED <<world, up, faults, flips>>

Next == Refresh \/ collect \/ flip \/ pollFacts \/ readFingerprint \/ Describe \/ pollFails \/ restart

Spec == Init /\ [][Next]_vars

-----------------------------------------------------------------------------
(* What the hub holds under a fingerprint is the snapshot the spoke         *)
(* published under it, whatever was published while it asked: a torn answer *)
(* would never be corrected, because the next poll would say "unchanged".   *)
FingerprintNames == hub.fp # NoFingerprint => hub.fp = Fingerprint(hub.facts)

(* A refresh that shortened a list to fit the size cap says so, even when   *)
(* it gave up with the payload still too large (capSize).                   *)
RefreshNotesCut == last.full /\ (\E f \in Lists : pub.detail[f] < last.lists[f]) => pub.note

(* A refresh that cannot reach Prometheus keeps every fact collected before *)
(* ("carries the previously collected detail forward rather than blanking   *)
(* it", Refresh).                                                           *)
DownKeepsDetail ==
  Refresh => \A f \in Fields \ (Lists \cup {"extLabels"}) :
               pub'.detail[f] = pub.detail[f] \/ (f = "k8sVersion" /\ Operator)

HubHoldsIt == hub.fp = Fingerprint(pub)

=============================================================================
