------------------------------- MODULE Fanout -------------------------------
(***************************************************************************)
(* fanout_query: one expression on many clusters                           *)
(* (internal/mcptools/fanout.go), with the classification of what a        *)
(* cluster answers (fetch, mapProxyError and classifyUpstream of call.go). *)
(* Targets are handed to workers over an unbuffered channel while an       *)
(* overall deadline runs; what each cluster contributed is merged and      *)
(* accounted for.  A call to a cluster returns when its context is done.   *)
(***************************************************************************)
EXTENDS Integers, FiniteSets, Sequences, SequencesExt

CONSTANTS
  Clusters,      \* cluster ids, a set of numbers: their order is the sort order
  Env,           \* the label a selector is matched against
  MaxClusters,   \* clusters one call may query
  Concurrency,
  Deadline, Second, \* the overall budget and one second, in ticks
  MaxSeries,     \* maxSeriesPerCluster
  RowCeiling,    \* rows that fit the token ceiling
  OnErrors,      \* failure policies callers ask for
  None

FanoutConstants ==
  /\ Clusters \subseteq Nat /\ IsFiniteSet(Clusters) /\ DOMAIN Env = Clusters
  /\ {MaxClusters, Concurrency, Deadline, Second} \subseteq Nat \ {0}
  /\ {MaxSeries, RowCeiling} \subseteq Nat /\ OnErrors \subseteq {"partial", "fail"}

VARIABLES
  visible,    \* clusters the principal sees
  in,         \* the selection and the failure policy
  phase,      \* "select", "dispatch", "merge", "done"
  targets,    \* clusters to query, in order
  failures,   \* clusters given up before dispatch
  sent,       \* targets handed over, or accounted for
  closed,     \* the channel of jobs
  worker,     \* worker -> the index it queries, or 0
  started,    \* worker -> when it began
  results,    \* index -> a result, or None
  clock, cancelled,
  held,       \* clusters a tick passed on (history)
  stalled,    \* a tick passed with a job and a worker to take it (history)
  out         \* what the tool returns

vars == <<visible, in, phase, targets, failures, sent, closed, worker, started, results, clock,
          cancelled, held, stalled, out>>
request == <<visible, in>>

Least(a, b) == IF a < b THEN a ELSE b
Most(a, b) == IF a > b THEN a ELSE b

Workers == 1 .. Least(Concurrency, Len(targets))
ctxDone == clock >= Deadline \/ cancelled

(* Half of the budget for each cluster, but never less than a second. *)
perCluster == Most(Deadline \div 2, Second)

-----------------------------------------------------------------------------
(* What a cluster's answer becomes: the code, whether it may be retried,    *)
(* and whether it counts as late.                                           *)

ProxyErrors == {"forbidden", "notConnected", "busy", "tooLarge", "deadline", "canceled", "invalid", "gated", "other"}

mapProxyError(e) ==
  CASE e = "forbidden" -> [code |-> "UNKNOWN_CLUSTER", retryable |-> FALSE]
    [] e = "notConnected" -> [code |-> "SPOKE_UNREACHABLE", retryable |-> TRUE]
    [] e = "busy" -> [code |-> "HUB_BUSY", retryable |-> TRUE]
    [] e = "tooLarge" -> [code |-> "RESPONSE_TOO_LARGE", retryable |-> FALSE]
    [] e = "deadline" -> [code |-> "QUERY_TIMEOUT", retryable |-> TRUE]
    [] e = "canceled" -> [code |-> "CANCELED", retryable |-> FALSE]
    [] e \in {"invalid", "gated"} -> [code |-> "INVALID_ARGUMENT", retryable |-> FALSE]
    [] OTHER -> [code |-> "UPSTREAM_ERROR", retryable |-> TRUE]

UpstreamTypes == {"timeout", "canceled", "execution", "unavailable", "internal", "bad_data", "bad_data:parse"}

classifyUpstream(type) ==
  CASE type = "timeout" -> [code |-> "QUERY_TIMEOUT", retryable |-> TRUE]
    [] type = "canceled" -> [code |-> "CANCELED", retryable |-> FALSE]
    [] type \in {"unavailable", "internal"} -> [code |-> "UPSTREAM_ERROR", retryable |-> TRUE]
    [] type = "bad_data:parse" -> [code |-> "PROMQL_PARSE", retryable |-> FALSE]
    [] OTHER -> [code |-> "PROMQL_EXEC", retryable |-> FALSE]

(* Whether the same call could succeed later, by what went wrong. *)
Curable == {"notConnected", "busy", "deadline", "canceled", "other", "timeout", "unavailable", "internal"}

Answered(c, n) == [cluster |-> c, err |-> FALSE, timedOut |-> FALSE, retryable |-> FALSE, curable |-> FALSE, total |-> n]

Erred(c, e, why) ==
  [cluster |-> c, err |-> TRUE, timedOut |-> e.code \in {"QUERY_TIMEOUT", "CANCELED"},
   retryable |-> e.retryable, curable |-> why \in Curable, total |-> 0]

Unassigned(c) == [cluster |-> c, err |-> FALSE, timedOut |-> TRUE, retryable |-> FALSE, curable |-> TRUE, total |-> 0]

(* What a query may return: rows, a proxy or an upstream error, or an       *)
(* answer with no fleet-wide merge (a string, a range vector, garbage).     *)
queryOne(c, expired) ==
  (IF expired THEN {} ELSE
     {Answered(c, n) : n \in 0 .. MaxSeries + 1}
     \cup {Erred(c, mapProxyError(e), e) : e \in ProxyErrors \ {"deadline", "canceled"}}
     \cup {Erred(c, classifyUpstream(t), t) : t \in UpstreamTypes}
     \cup {Erred(c, [code |-> "INVALID_ARGUMENT", retryable |-> FALSE], "shape")})
  \cup (IF ~expired THEN {} ELSE {Erred(c, mapProxyError(e), e) : e \in {IF cancelled THEN "canceled" ELSE "deadline"}})

-----------------------------------------------------------------------------
(* selectClusters *)

dedupe(names) == ToSet(names)

matchesSelector(c, sel) == Env[c] = sel

Named == in.names # <<>>

Selected ==
  IF Named THEN dedupe(in.names) \cap visible
  ELSE IF in.selector # None THEN {c \in visible : matchesSelector(c, in.selector)}
  ELSE visible

Sorted(S) == SetToSortSeq(S, LAMBDA a, b : a < b)

PreFailure(c) == [cluster |-> c, err |-> TRUE, timedOut |-> FALSE, retryable |-> FALSE, curable |-> FALSE, total |-> 0]

Kept == SubSeq(Sorted(Selected), 1, Least(MaxClusters, Cardinality(Selected)))

GivenUpForgetful == IF Named THEN dedupe(in.names) \ visible ELSE {}

(* Names that reach no visible cluster, and targets beyond the bound. *)
GivenUp ==
  (IF Named THEN dedupe(in.names) \ visible ELSE {}) \cup (Selected \ ToSet(Kept))

Refused == Selected = {} \/ (~Named /\ in.selector = None /\ Cardinality(visible) > MaxClusters)

Init ==
  /\ visible \in SUBSET Clusters
  /\ in \in [names : {<<>>} \cup {<<a>> : a \in Clusters} \cup {<<a, b>> : a, b \in Clusters},
             selector : {None} \cup {Env[c] : c \in Clusters}, onError : OnErrors]
  /\ phase = "select" /\ targets = <<>> /\ failures = {} /\ sent = 0 /\ closed = FALSE
  /\ worker = <<>> /\ started = <<>> /\ results = <<>> /\ clock = 0 /\ cancelled = FALSE
  /\ held = {} /\ stalled = FALSE /\ out = None

(* A selection that matches nothing, or everything by accident, is refused. *)
Select ==
  /\ phase = "select"
  /\ IF Refused
     THEN /\ phase' = "done" /\ out' = [kind |-> "refused"]
          /\ UNCHANGED <<targets, failures, worker, started, results>>
     ELSE /\ phase' = "dispatch" /\ targets' = Kept /\ failures' = GivenUp
          /\ worker' = [w \in 1 .. Least(Concurrency, Len(Kept)) |-> 0]
          /\ started' = [w \in 1 .. Least(Concurrency, Len(Kept)) |-> 0]
          /\ results' = [i \in DOMAIN Kept |-> None]
          /\ UNCHANGED out
  /\ UNCHANGED <<request, sent, closed, clock, cancelled, held, stalled>>

-----------------------------------------------------------------------------
(* dispatch *)

Idle(w) == worker[w] = 0
Sending == phase = "dispatch" /\ ~closed /\ sent < Len(targets)

HandOver(w) ==
  /\ Sending /\ Idle(w)
  /\ sent' = sent + 1
  /\ worker' = [worker EXCEPT ![w] = sent + 1] /\ started' = [started EXCEPT ![w] = clock]
  /\ UNCHANGED <<request, phase, targets, failures, closed, results, clock, cancelled, held, stalled, out>>

(* The context ends while a job waits: every target not handed over timed   *)
(* out, and no more jobs follow.                                            *)
GiveUp ==
  /\ Sending /\ ctxDone
  /\ results' = [i \in DOMAIN targets |-> IF i > sent THEN Unassigned(targets[i]) ELSE results[i]]
  /\ sent' = Len(targets) /\ closed' = TRUE
  /\ UNCHANGED <<request, phase, targets, failures, worker, started, clock, cancelled, held, stalled, out>>

CloseJobs ==
  /\ phase = "dispatch" /\ ~closed /\ sent = Len(targets) /\ closed' = TRUE
  /\ UNCHANGED <<request, phase, targets, failures, sent, worker, started, results, clock, cancelled,
                 held, stalled, out>>

Expired(w) == ctxDone \/ clock >= started[w] + perCluster

Answer(w) ==
  /\ phase = "dispatch" /\ ~Idle(w)
  /\ \E r \in queryOne(targets[worker[w]], Expired(w)) : results' = [results EXCEPT ![worker[w]] = r]
  /\ worker' = [worker EXCEPT ![w] = 0] /\ started' = [started EXCEPT ![w] = 0]
  /\ UNCHANGED <<request, phase, targets, failures, sent, closed, clock, cancelled, held, stalled, out>>

(* wg.Wait, once the channel is closed and every worker is back. *)
Collected ==
  /\ phase = "dispatch" /\ closed /\ \A w \in Workers : Idle(w)
  /\ phase' = "merge"
  /\ UNCHANGED <<request, targets, failures, sent, closed, worker, started, results, clock, cancelled,
                 held, stalled, out>>

(* Time passes; a query whose context is done does not outlast it. *)
Tick ==
  /\ phase = "dispatch" /\ clock < Deadline /\ \A w \in Workers : Idle(w) \/ ~Expired(w)
  /\ clock' = clock + 1
  /\ held' = held \cup {targets[worker[w]] : w \in {v \in Workers : ~Idle(v)}}
  /\ stalled' = (stalled \/ ((Sending \/ ~closed) /\ \E w \in Workers : Idle(w)))
  /\ UNCHANGED <<request, phase, targets, failures, sent, closed, worker, started, results, cancelled, out>>

CallerCancels ==
  /\ phase = "dispatch" /\ ~cancelled /\ cancelled' = TRUE
  /\ UNCHANGED <<request, phase, targets, failures, sent, closed, worker, started, results, clock, held,
                 stalled, out>>

-----------------------------------------------------------------------------
(* mergeInstant, mergeRange and accountCoverage *)

Rows(rs) ==
  FlattenSeq([i \in DOMAIN rs |-> IF rs[i].err THEN <<>>
                                  ELSE [n \in 1 .. Least(rs[i].total, MaxSeries) |-> rs[i].cluster]])

Total(rs) == FoldLeft(LAMBDA n, r : n + (IF r.err THEN 0 ELSE r.total), 0, rs)

fitted(rows) == SubSeq(rows, 1, Least(RowCeiling, Len(rows)))

Truncated(rs) ==
  IF Len(Rows(rs)) > RowCeiling THEN "token_ceiling"
  ELSE IF Total(rs) > Len(Rows(rs)) THEN "max_series" ELSE "no"

Buckets(rs) ==
  [ok |-> SelectSeq(rs, LAMBDA r : ~r.timedOut /\ ~r.err),
   timedOut |-> SelectSeq(rs, LAMBDA r : r.timedOut),
   failed |-> SelectSeq(rs, LAMBDA r : ~r.timedOut /\ r.err)]

Ids(rs) == SortSeq([i \in DOMAIN rs |-> rs[i].cluster], LAMBDA a, b : a < b)

accountCoverage(rs) ==
  LET b == Buckets(rs)
      requested == Len(targets) + Cardinality(failures)
  IN [requested |-> requested, ok |-> Ids(b.ok), failed |-> Ids(b.failed), timedOut |-> Ids(b.timedOut),
      complete |-> Len(b.ok) = requested /\ requested > 0]

(* Nobody answered: worth a retry when some cluster may be. *)
allClustersFailed(rs) ==
  LET b == Buckets(rs) IN b.timedOut # <<>> \/ \E i \in DOMAIN b.failed : b.failed[i].retryable

All == results \o SetToSeq({PreFailure(c) : c \in failures})

Answering(all) ==
  LET cov == accountCoverage(all) IN
  IF ~cov.complete /\ in.onError = "fail" THEN [kind |-> "error", retryable |-> TRUE, cov |-> cov]
  ELSE IF cov.ok = <<>> /\ cov.requested > 0
  THEN [kind |-> "error", retryable |-> allClustersFailed(all), cov |-> cov]
  ELSE [kind |-> "result", rows |-> fitted(Rows(results)), total |-> Total(results),
        truncated |-> Truncated(results), cov |-> cov]

Merge ==
  /\ phase = "merge" /\ phase' = "done"
  /\ out' = Answering(All)
  /\ UNCHANGED <<request, targets, failures, sent, closed, worker, started, results, clock, cancelled,
                 held, stalled>>

-----------------------------------------------------------------------------
Working == \E w \in 1 .. Concurrency : w \in Workers /\ (HandOver(w) \/ Answer(w))

Next == Select \/ Working \/ GiveUp \/ CloseJobs \/ Collected \/ Tick \/ CallerCancels \/ Merge

Spec == Init /\ [][Next]_vars

-----------------------------------------------------------------------------
TypeOK ==
  /\ phase \in {"select", "dispatch", "merge", "done"} /\ sent \in 0 .. Len(targets)
  /\ phase # "select" /\ targets # <<>> => DOMAIN results = DOMAIN targets /\ Len(targets) <= MaxClusters
  /\ \A w \in DOMAIN worker : worker[w] \in 0 .. sent
  /\ phase \in {"merge", "done"} => \A i \in DOMAIN results : results[i] # None

Dispatching == phase = "dispatch"
Over == phase = "done"
Given == phase = "done" /\ out.kind # "refused"
Asked == IF Named THEN dedupe(in.names) ELSE Selected

(* Every cluster that was asked for is reported in exactly one bucket,      *)
(* whether it answered, failed, ran out of time, was never reached by a     *)
(* worker, is unknown or was beyond maxClusters.                            *)
EachOnce ==
  Given => LET all == out.cov.ok \o out.cov.failed \o out.cov.timedOut IN
           /\ ToSet(all) = Asked /\ Len(all) = Cardinality(Asked) /\ out.cov.requested = Len(all)

(* A result called complete has an answer from every cluster asked for; and *)
(* the rows it does not show are declared.                                  *)
CompleteIsComplete ==
  Given /\ out.kind = "result" =>
    /\ out.cov.complete => \A c \in Asked : \E i \in DOMAIN results :
                             results[i].cluster = c /\ ~results[i].err /\ ~results[i].timedOut
    /\ out.truncated = "no" <=> Len(out.rows) = out.total
    /\ \A c \in ToSet(out.rows) : c \in ToSet(out.cov.ok)

(* One slow cluster does not consume the whole fan-out's time: when only    *)
(* one made the workers wait, every target was given to a worker.           *)
OneSlowIsContained ==
  phase = "merge" /\ ~cancelled /\ ~stalled /\ Cardinality(held) <= 1 =>
    \A i \in DOMAIN results : results[i] # Unassigned(targets[i])

(* An error that advises a retry has a cluster a retry could help. *)
RetryAdvice ==
  Given /\ out.kind = "error" /\ out.retryable => \E i \in DOMAIN All : All[i].curable

=============================================================================
