------------------------------ MODULE Listing ------------------------------
(***************************************************************************)
(* The tools that answer with a list (internal/mcptools: targets.go,       *)
(* alerting.go, metadata.go, exemplars.go, clusters.go, tsdbStats of       *)
(* status.go). Each checks its arguments, makes one upstream call (list_   *)
(* clusters reads the registry instead), filters, counts, sorts and cuts   *)
(* the answer to the caller's limit and then to the hub's token ceiling.   *)
(*                                                                         *)
(* An upstream item is [tag, sub, group, name, ok, bytes]. tag and sub are *)
(* a target's health, an alert's state and severity, a rule's health and   *)
(* state, a cluster's connection and reachability, an exemplar's time.     *)
(* group is what the narrowing arguments select (job; alertname, severity  *)
(* and labels; rule group and name; pattern), name the order among equals, *)
(* ok whether the name is inside the grammar the tool accepts.             *)
(***************************************************************************)
EXTENDS Integers, Sequences, FiniteSets, SequencesExt

CONSTANTS
  Tools,           \* the tools called
  Upstream,        \* tool -> the items its answer may hold
  MaxItems,        \* longest answer
  Filters,         \* tool -> values of its state, health or status argument; "any" is all
  Groups,          \* values of its narrowing arguments; "any" is none given
  Limits, DefaultLimit, MaxLimit,
  Ceilings,        \* the hub's token ceilings; 0 is off
  BytesPerToken, Envelope, ExtraBytes

ListingConstants ==
  /\ {MaxItems, DefaultLimit, MaxLimit, BytesPerToken} \subseteq Nat \ {0}
  /\ Limits \cup Ceilings \cup {Envelope, ExtraBytes} \subseteq Nat

VARIABLES tool, args, ceiling, answer, step, out

vars == <<tool, args, ceiling, answer, step, out>>

Formatted == {"targets", "alerts", "rules", "list_clusters", "series"}
Formats(t) == IF t \in Formatted THEN {"compact", "table", "json"} ELSE {"compact"}
(* The others narrow upstream, with selectors. *)
Narrowing == {"targets", "alerts", "rules", "search_metrics", "label_values", "list_clusters"}
GroupsOf(t) == IF t \in Narrowing THEN Groups ELSE {"any"}
Pending == [kind |-> "pending"]

Init ==
  /\ tool \in Tools /\ ceiling \in Ceilings
  /\ args \in [filter : Filters[tool], group : GroupsOf(tool), limit : Limits, format : Formats(tool), valid : BOOLEAN]
  /\ answer \in BoundedSeq(Upstream[tool], MaxItems)
  /\ tool = "metric_metadata" => IsInjective(answer) \* the payload is an object
  /\ step = "new" /\ out = Pending

-----------------------------------------------------------------------------
Least(a, b) == IF a < b THEN a ELSE b
Most(a, b) == IF a > b THEN a ELSE b
clampInt(n, def, lo, hi) == Least(Most(IF n <= 0 THEN def ELSE n, lo), hi)

(* Everything upstream may say, as one of three words. *)
normalizeHealth(h) == IF h \in {"up", "down"} THEN h ELSE "unknown"
normalizeAlertState(s) == IF s \in {"firing", "pending"} THEN s ELSE "inactive"

healthRank(h) == CASE h = "down" -> 0 [] h = "unknown" -> 1 [] OTHER -> 2

alertRank(a) ==
  (IF a.tag = "firing" THEN 0 ELSE 10)
  + (CASE a.sub = "critical" -> 0 [] a.sub = "warning" -> 1 [] OTHER -> 2)

ruleRank(r) ==
  CASE r.tag \notin {"", "ok"} -> 0 [] r.sub = "firing" -> 1 [] r.sub = "pending" -> 2 [] OTHER -> 3

(* What decides first; the name decides between equals. *)
Rank(t, x) ==
  CASE t = "targets" -> healthRank(x.tag)
    [] t = "alerts" -> alertRank(x)
    [] t = "rules" -> ruleRank(x)
    [] t \in {"query_exemplars", "tsdb_stats"} -> 100 - x.tag
    [] OTHER -> 0

(* An exemplar keeps its place among those of the same moment; a series     *)
(* listing is in upstream's order.                                          *)
Key(t, x) == 1000 * Rank(t, x) + (IF t \in {"query_exemplars", "series"} THEN 0 ELSE x.name)

(* slices.SortStableFunc *)
Sorted(t, items) ==
  LET at(i) == Cardinality({j \in DOMAIN items :
                 \/ Key(t, items[j]) < Key(t, items[i])
                 \/ j <= i /\ Key(t, items[j]) = Key(t, items[i])})
  IN [k \in DOMAIN items |-> items[CHOOSE i \in DOMAIN items : at(i) = k]]

TruncateItems(items, limit) == SubSeq(items, 1, Least(limit, Len(items)))

TokensOf(bytes) == (bytes + BytesPerToken - 1) \div BytesPerToken
Bytes(items) == FoldLeft(LAMBDA n, x : n + x.bytes, 0, items)
EstimateTokens(items) == TokensOf(Envelope + Bytes(items))

FitTokens(items, c) ==
  LET size(n) == EstimateTokens(SubSeq(items, 1, n))
      fit[n \in 0 .. Len(items)] ==
        IF n = 0 \/ size(n) <= c THEN n ELSE fit[(n * c) \div Most(size(n), 1)]
  IN IF c <= 0 THEN items ELSE SubSeq(items, 1, fit[Len(items)])

(* The second cut replaces the reason and the count; every tool then puts   *)
(* the number that matched back as the total.                               *)
Escalate(t, returned, total) == [reason |-> "hub_token_ceiling", returned |-> returned, total |-> total]

Uncut == [reason |-> "none", returned |-> 0, total |-> 0]
ReasonLimit(kept, items) ==
  IF Len(kept) = Len(items) THEN Uncut
  ELSE [reason |-> "limit", returned |-> Len(kept), total |-> Len(items)]

limit == clampInt(args.limit, DefaultLimit, 1, MaxLimit)

(* The answer of a tool: what matched, cut twice; extra is what rides along *)
(* outside the list (rule groups, the counts by job or severity).           *)
Answer(matched, summary, extra) ==
  LET kept == TruncateItems(Sorted(tool, matched), limit)
      fitted == IF tool \in {"label_names", "tsdb_stats"} THEN kept ELSE FitTokens(kept, ceiling)
      cut == ReasonLimit(kept, matched)
  IN [kind |-> "list", items |-> fitted, total |-> Len(matched), summary |-> summary, extra |-> extra,
      trunc |-> IF Len(fitted) = Len(kept) THEN cut ELSE Escalate(cut, Len(fitted), Len(matched))]

Count(items, tags) == [s \in tags |-> Cardinality({i \in DOMAIN items : items[i].tag = s})]
Passes(word) == args.filter \in {"any", word}
InGroup(x) == args.group \in {"any", x.group}
Narrowed(items) == SelectSeq(items, InGroup)

-----------------------------------------------------------------------------
(* A format, state, mode, pattern, name or selector outside what the tool   *)
(* accepts is refused before anything is read; the raw format is series'    *)
(* alone.                                                                   *)
parseFormat == args.format # "json" \/ tool = "series"
Refused == ~args.valid \/ ~parseFormat

Refuse ==
  /\ step = "new" /\ Refused
  /\ step' = "done" /\ out' = [kind |-> "error", code |-> "INVALID_ARGUMENT"]
  /\ UNCHANGED <<tool, args, ceiling, answer>>

fetch(t) ==
  /\ tool = t /\ step = "new" /\ ~Refused
  /\ UNCHANGED <<tool, args, ceiling, answer>>
  /\ step' = "done"

(* The upstream call or the reading of its body fails. list_clusters makes  *)
(* no call.                                                                 *)
FetchFails ==
  \E t \in Tools \ {"list_clusters"} :
    fetch(t) /\ out' = [kind |-> "error", code |-> "UPSTREAM"]

redactTarget(x) == [x EXCEPT !.tag = normalizeHealth(x.tag)]

countTarget(items) == Count(items, {"up", "down", "unknown"})

(* The summary counts the targets of the job before the health filter. *)
targets ==
  /\ fetch("targets")
  /\ LET clean == [i \in DOMAIN Narrowed(answer) |-> redactTarget(Narrowed(answer)[i])]
         matched == SelectSeq(clean, LAMBDA x : Passes(x.tag))
     IN out' = Answer(matched, countTarget(clean), Cardinality({clean[i].group : i \in DOMAIN clean}))

convertAlert(x) == [x EXCEPT !.tag = normalizeAlertState(x.tag)]

alerts ==
  /\ fetch("alerts")
  /\ LET clean == [i \in DOMAIN Narrowed(answer) |-> convertAlert(Narrowed(answer)[i])]
         matched == SelectSeq(clean, LAMBDA x : Passes(x.tag))
     IN out' = Answer(matched, Count(matched, {"firing", "pending"}),
                      Cardinality({matched[i].sub : i \in DOMAIN matched}))

(* The groups themselves are listed whatever the limit. *)
rules ==
  /\ fetch("rules")
  /\ LET matched == Narrowed(answer)
     IN out' = Answer(matched, <<>>, Cardinality({matched[i].group : i \in DOMAIN matched}))

(* Names outside the grammar and values that sanitise to nothing are        *)
(* dropped before they are counted.                                         *)
labelValuesOf(items) == SelectSeq(items, LAMBDA x : x.ok)
metadataOf(items) == SelectSeq(items, LAMBDA x : x.ok)
validNames(items) == SelectSeq(items, LAMBDA x : x.ok)

(* The metadata that enriches a name (enriched bytes) may be missing; the   *)
(* search is not failed by it.                                              *)
searchMetrics ==
  /\ fetch("search_metrics")
  /\ LET matched == Narrowed(labelValuesOf(answer))
     IN \E meta \in BOOLEAN :
          out' = Answer([i \in DOMAIN matched |->
                   IF meta THEN [matched[i] EXCEPT !.bytes = @ + 2] ELSE matched[i]], <<>>, 0)

metricMetadata ==
  fetch("metric_metadata") /\ out' = Answer(metadataOf(answer), <<>>, 0)

targetMetadata == fetch("target_metadata") /\ out' = Answer(metadataOf(answer), <<>>, 0)

labelNames == fetch("label_names") /\ out' = Answer(validNames(answer), <<>>, 0)

labelValues ==
  /\ fetch("label_values")
  /\ out' = Answer(Narrowed(labelValuesOf(answer)), <<>>, 0)

queryExemplars == fetch("query_exemplars") /\ out' = Answer(answer, <<>>, 0)

(* Upstream was asked for limit entries; the total is what it returned. *)
tsdbStats == fetch("tsdb_stats") /\ out' = Answer(answer, <<>>, 0)

clusterStatus(x) ==
  CASE x.tag = "connected" /\ x.sub = "reachable" -> "healthy"
    [] x.tag \in {"connected", "degraded"} -> "degraded"
    [] OTHER -> "unreachable"

(* The registry lists clusters by name, and the listing keeps that order. *)
listClusters ==
  /\ fetch("list_clusters")
  /\ LET matched == SelectSeq(Narrowed(answer), LAMBDA x : Passes(clusterStatus(x)))
     IN out' = Answer(matched, <<>>, 0)

tokenCeilingTruncation(est) == [reason |-> "hub_token_ceiling", returned |-> 0, total |-> est]

(* The raw body is shown whole or not at all. *)
passthrough ==
  LET est == TokensOf(Bytes(answer))
      fits == ceiling = 0 \/ est <= ceiling
  IN [kind |-> "list", items |-> IF fits THEN answer ELSE <<>>, total |-> 0, summary |-> <<>>, extra |-> 0,
      trunc |-> IF fits THEN Uncut ELSE tokenCeilingTruncation(est)]

series ==
  /\ fetch("series")
  /\ out' = IF args.format = "json" THEN passthrough ELSE Answer(answer, <<>>, 0)

Next ==
  \/ Refuse \/ FetchFails
  \/ targets \/ alerts \/ rules
  \/ searchMetrics \/ metricMetadata \/ targetMetadata \/ series \/ labelNames \/ labelValues
  \/ queryExemplars \/ tsdbStats \/ listClusters

Spec == Init /\ [][Next]_vars

-----------------------------------------------------------------------------
Listed == out.kind = "list"

(* How many items the arguments select, whatever is shown of them. *)
Selected ==
  Cardinality({i \in DOMAIN answer :
    LET x == answer[i] IN
    /\ InGroup(x) /\ (tool \in {"search_metrics", "metric_metadata", "target_metadata", "label_names", "label_values"} => x.ok)
    /\ CASE tool = "targets" -> Passes(normalizeHealth(x.tag))
         [] tool = "alerts" -> Passes(normalizeAlertState(x.tag))
         [] tool = "list_clusters" -> Passes(clusterStatus(x))
         [] OTHER -> TRUE})

(* Nothing is dropped silently: the list says how many items the arguments  *)
(* select, how many of them it shows, and why the rest is missing.          *)
ListingIsHonest ==
  Listed =>
    /\ out.trunc.reason = "none" <=> Len(out.items) = Selected
    /\ out.trunc.reason # "none" => out.trunc.returned = Len(out.items) /\ out.trunc.total = Selected
    /\ args.format # "json" => out.total = Selected /\ Len(out.items) <= limit

(* Down targets, firing critical alerts and unhealthy rules: what the tool  *)
(* is called for.                                                           *)
Broken(x) ==
  CASE tool = "targets" -> x.tag = "down"
    [] tool = "alerts" -> x.tag = "firing" /\ x.sub = "critical"
    [] OTHER -> x.tag \notin {"", "ok"}

(* A cut never drops a broken item while it shows one that is not: both     *)
(* cuts come after the sort.                                                *)
WorstSurvive ==
  Listed /\ tool \in {"targets", "alerts", "rules"} /\ (\E i \in DOMAIN out.items : ~Broken(out.items[i])) =>
    Cardinality({i \in DOMAIN out.items : Broken(out.items[i])})
      = Cardinality({i \in DOMAIN answer : InGroup(answer[i]) /\ Broken(answer[i])
                        /\ (tool # "rules" => Passes(answer[i].tag))})

(* The summary counts every target of the job, also the ones the health     *)
(* filter, the limit or the ceiling hides; that of alerts every alert that  *)
(* matches.                                                                 *)
SummaryCountsAll ==
  Listed =>
    /\ tool = "targets" => \A h \in {"up", "down", "unknown"} :
         out.summary[h] = Cardinality({i \in DOMAIN answer : InGroup(answer[i]) /\ normalizeHealth(answer[i].tag) = h})
    /\ tool = "alerts" => \A s \in {"firing", "pending"} :
         out.summary[s] = IF Passes(s) THEN Cardinality({i \in DOMAIN answer : InGroup(answer[i]) /\ answer[i].tag = s}) ELSE 0

(* No answer exceeds the token ceiling, with what rides along outside the   *)
(* list; only the empty list may, for its envelope. A raw body is measured  *)
(* without one.                                                             *)
CeilingHolds ==
  Listed /\ ceiling > 0 =>
    out.items = <<>> \/ TokensOf((IF args.format = "json" THEN 0 ELSE Envelope)
                                 + Bytes(out.items) + ExtraBytes * out.extra) <= ceiling
=============================================================================
