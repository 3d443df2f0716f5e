---------------------------- MODULE FleetAlerts ----------------------------
(***************************************************************************)
(* The resource fleet://alerts/firing (readFiringAlerts of                 *)
(* internal/mcptools/resources.go): one goroutine per visible cluster, a   *)
(* semaphore, a deadline for all of them and half of it for each, the      *)
(* alerts tool on every cluster, and one list merged from the answers.     *)
(*                                                                         *)
(* Clusters are numbered in the order of their names. An alert is its rank *)
(* (0 critical, 1 warning, 2 other); every alert costs one token.          *)
(***************************************************************************)
EXTENDS Integers, Sequences, FiniteSets, SequencesExt

CONSTANTS
  Clusters,
  MaxClustersCeiling,  \* clusters one read asks
  FanoutConcurrency,   \* slots of the semaphore
  Deadline,            \* DefaultFanoutDeadline
  MaxFleetAlerts,      \* the cap of the list, and the limit of each alerts call
  TokenCeiling,        \* 0 is off
  MaxFiring            \* most alerts firing on one cluster

FleetAlertsConstants ==
  /\ Clusters \subseteq Nat /\ IsFiniteSet(Clusters)
  /\ {MaxClustersCeiling, FanoutConcurrency, Deadline, MaxFleetAlerts} \subseteq Nat \ {0}
  /\ TokenCeiling \in Nat /\ MaxFiring \in Nat

VARIABLES visible, firing, now, worker, began, entries, step, out

vars == <<visible, firing, now, worker, began, entries, step, out>>

Pending == [kind |-> "pending"]
NoEntry == [got |-> "none"]

Init ==
  /\ visible = {} /\ now = 0
  /\ firing \in [Clusters -> BoundedSeq(0 .. 1, MaxFiring)]
  /\ worker = [c \in Clusters |-> "off"] /\ began = [c \in Clusters |-> 0]
  /\ entries = [c \in Clusters |-> NoEntry]
  /\ step = "new" /\ out = Pending

-----------------------------------------------------------------------------
Least(a, b) == IF a < b THEN a ELSE b
perCluster == Deadline \div 2
FirstOf(S, n) == {c \in S : Cardinality({d \in S : d < c}) < n}

(* The clusters past the cap are named as failed without being asked. *)
Asked(S) == FirstOf(S, MaxClustersCeiling)

Ranked(items) ==
  LET at(i) == Cardinality({j \in DOMAIN items : items[j].rank < items[i].rank
                              \/ (items[j].rank = items[i].rank /\ (items[j].cluster < items[i].cluster
                                    \/ (items[j].cluster = items[i].cluster /\ j <= i)))})
  IN [k \in DOMAIN items |-> items[CHOOSE i \in DOMAIN items : at(i) = k]]

Cut(items, n) == SubSeq(items, 1, Least(Len(items), n))
fitted(items) == IF TokenCeiling = 0 THEN items ELSE Cut(items, TokenCeiling)

(* One cluster's answer: the alerts tool with the same cap and the same     *)
(* ceiling as the merged list.                                              *)
alerts(c) == fitted(Cut(Ranked([i \in DOMAIN firing[c] |-> [cluster |-> c, rank |-> firing[c][i]]]), MaxFleetAlerts))

(* The clusters the caller may see, each with a goroutine. *)
Begin ==
  /\ step = "new" /\ step' = "reading"
  /\ \E S \in SUBSET Clusters :
       /\ visible' = S
       /\ worker' = [c \in Clusters |-> IF c \in Asked(S) THEN "waiting" ELSE "off"]
  /\ UNCHANGED <<firing, now, began, entries, out>>

Holding == {c \in Clusters : worker[c] = "calling"}

(* A slot is taken without looking at the deadline. *)
Acquire(c) ==
  /\ worker[c] = "waiting" /\ Cardinality(Holding) < FanoutConcurrency
  /\ worker' = [worker EXCEPT ![c] = "calling"] /\ began' = [began EXCEPT ![c] = now]
  /\ UNCHANGED <<visible, firing, now, entries, step, out>>

ctxDone(c) == now >= Deadline \/ now >= began[c] + perCluster

Finish(c, e) ==
  /\ worker[c] = "calling" /\ worker' = [worker EXCEPT ![c] = "done"]
  /\ entries' = [entries EXCEPT ![c] = e]
  /\ UNCHANGED <<visible, firing, now, began, step, out>>

Answers(c) == ~ctxDone(c) /\ Finish(c, [got |-> "alerts", alerts |-> alerts(c)])

(* The spoke is gone, the cluster left the scope since it was listed, or    *)
(* the body cannot be read.                                                 *)
Fails(c) == ~ctxDone(c) /\ Finish(c, [got |-> "error", code |-> "UPSTREAM_ERROR"])

TimesOut(c) == ctxDone(c) /\ Finish(c, [got |-> "error", code |-> "TIMEOUT"])

(* An instant passes; calls past their deadline return first. *)
Tick ==
  /\ step = "reading" /\ now < Deadline /\ \A c \in Holding : ~ctxDone(c)
  /\ now' = now + 1
  /\ UNCHANGED <<visible, firing, worker, began, entries, step, out>>

Got(g) == {c \in Clusters : entries[c].got = g}
Flattened(S) == FlattenSeq([i \in 1 .. Cardinality(S) |->
                  entries[CHOOSE c \in S : Cardinality({d \in S : d <= c}) = i].alerts])

(* After wg.Wait: failures and answers are counted, alerts merged, ranked   *)
(* and cut twice, and the coverage stated.                                  *)
Merge ==
  /\ step = "reading" /\ \A c \in Clusters : worker[c] \in {"off", "done"}
  /\ LET all == Ranked(Flattened(Got("alerts")))
         kept == Cut(all, MaxFleetAlerts)
     IN out' = [kind |-> "alerts", alerts |-> fitted(kept), total |-> Len(all), truncated |-> Len(fitted(kept)) < Len(all),
                ok |-> Cardinality(Got("alerts")), failed |-> Got("error") \cup (visible \ Asked(visible)), timedOut |-> 0,
                requested |-> Cardinality(visible),
                complete |-> Cardinality(Got("alerts")) = Cardinality(visible)]
  /\ step' = "done"
  /\ UNCHANGED <<visible, firing, now, worker, began, entries>>

Next ==
  \/ Begin \/ Tick \/ Merge
  \/ \E c \in Clusters : Acquire(c) \/ Answers(c) \/ Fails(c) \/ TimesOut(c)

Spec == Init /\ [][Next]_vars

-----------------------------------------------------------------------------
Done == step = "done"

(* Types; a worker that returned left an entry; no more calls in flight     *)
(* than the semaphore has slots.                                            *)
TypeOK ==
  /\ visible \subseteq Clusters /\ now \in 0 .. Deadline /\ began \in [Clusters -> 0 .. Deadline]
  /\ worker \in [Clusters -> {"off", "waiting", "calling", "done"}]
  /\ \A c \in Clusters : entries[c].got # "none" <=> worker[c] = "done"
  /\ step \in {"new", "reading", "done"}
  /\ Cardinality(Holding) <= FanoutConcurrency

(* Every cluster the caller sees was read or is named as failed, and the    *)
(* result is called complete exactly when none is missing.                  *)
NamedOrRead ==
  Done => /\ out.requested = Cardinality(visible)
          /\ out.ok + Cardinality(out.failed) = out.requested
          /\ out.complete <=> (\A c \in visible : entries[c].got = "alerts")
          /\ \A c \in visible : c \in out.failed \/ entries[c].got = "alerts"

(* No alert a read cluster has firing is left out, by that cluster's own    *)
(* cut or by the merged one, while a less severe one is shown.              *)
WorstSurvive ==
  Done => \A c \in Got("alerts"), i \in 1 .. MaxFiring :
    i \in DOMAIN firing[c] /\ (\E j \in DOMAIN out.alerts : out.alerts[j].rank > firing[c][i]) =>
      Cardinality({k \in DOMAIN firing[c] : firing[c][k] = firing[c][i]})
        = Cardinality({j \in DOMAIN out.alerts : out.alerts[j] = [cluster |-> c, rank |-> firing[c][i]]})

=============================================================================
