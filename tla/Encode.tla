------------------------------- MODULE Encode -------------------------------
(***************************************************************************)
(* What a query result becomes before it is shown (EncodeRange of          *)
(* internal/render/range.go, EncodeInstant of instant.go, truncate.go and  *)
(* tokens.go): ranked, cut to the caller's limit, cut to the token         *)
(* ceiling, and its common labels factored out; and the row a fan-out      *)
(* makes of it (injectCluster of internal/mcptools/fanout.go).             *)
(***************************************************************************)
EXTENDS Integers, Sequences, FiniteSets, SequencesExt, Functions

CONSTANTS
  Series,          \* series upstream may return: labels, max, key (labelKey) and bytes
  MaxMatched,      \* longest result
  Limits,          \* values of MaxSeries and MaxItems; 0 is "not given"
  DefaultLimit,
  Ceilings,        \* values of TokenCeiling; 0 is "not given", negative is off
  DefaultCeiling,
  BytesPerToken, Envelope, \* bytes per token, and bytes around the items
  NaN,             \* the maximum of a series with no finite sample, below every number
  Cluster          \* the cluster the result came from

EncodeConstants ==
  /\ {MaxMatched, DefaultLimit, DefaultCeiling, BytesPerToken} \subseteq Nat \ {0}
  /\ Limits \cup Ceilings \cup {NaN} \subseteq Int /\ Envelope \in Nat
  /\ \A s, t \in Series : (s.key = t.key <=> s.labels = t.labels) /\ s.bytes \in Nat /\ s.max >= NaN

VARIABLES mode, matched, opts, step, res, rows

vars == <<mode, matched, opts, step, res, rows>>

Least(a, b) == IF a < b THEN a ELSE b
Most(a, b) == IF a > b THEN a ELSE b
Matches == {m \in BoundedSeq(Series, MaxMatched) : \A i, j \in DOMAIN m : m[i].key = m[j].key => i = j}

Init ==
  /\ mode \in {"range", "instant"} /\ matched \in Matches
  /\ opts \in [limit : Limits, ceiling : Ceilings]
  /\ step = "new" /\ res = <<>> /\ rows = <<>>

-----------------------------------------------------------------------------
WithDefaults(o) ==
  [limit |-> IF o.limit <= 0 THEN DefaultLimit ELSE o.limit,
   ceiling |-> IF o.ceiling = 0 THEN DefaultCeiling ELSE o.ceiling]

(* The largest maximum first, series without a finite value last, ties by   *)
(* the label set.                                                           *)
Before(s, t) == s.max > t.max \/ (s.max = t.max /\ s.key < t.key)

(* An instant vector compares two NaN as equal, and so leaves them where    *)
(* they were.                                                               *)
Precedes(s, t) == IF mode = "instant" /\ s.max = NaN /\ t.max = NaN THEN FALSE ELSE Before(s, t)

(* slices.SortStableFunc: series that do not precede one another keep their *)
(* order.                                                                   *)
rankByMax(m) ==
  LET at(i) == Cardinality({j \in DOMAIN m : Precedes(m[j], m[i])
                                \/ (j <= i /\ ~Precedes(m[i], m[j]))})
  IN [k \in DOMAIN m |-> m[CHOOSE i \in DOMAIN m : at(i) = k]]

TruncateItems(items, limit) == SubSeq(items, 1, Least(limit, Len(items)))

EstimateTokens(items) ==
  (Envelope + FoldLeft(LAMBDA n, s : n + s.bytes, 0, items) + BytesPerToken - 1) \div BytesPerToken

(* Shrink in proportion to the excess until it fits or nothing is left. *)
FitTokens(items, ceiling) ==
  LET size(n) == EstimateTokens(SubSeq(items, 1, n))
      fit[n \in 0 .. Len(items)] ==
        IF n = 0 \/ size(n) <= ceiling THEN n ELSE fit[(n * ceiling) \div Most(size(n), 1)]
  IN IF ceiling <= 0 THEN items ELSE SubSeq(items, 1, fit[Len(items)])

Common(items) ==
  {k \in DOMAIN items[1].labels :
     \A i \in DOMAIN items : k \in DOMAIN items[i].labels /\ items[i].labels[k] = items[1].labels[k]}

(* The labels every series has, with the same value; a single sample of an  *)
(* instant vector keeps its own.                                            *)
factorShared(items) == IF items = <<>> THEN {} ELSE Common(items)
sharedVectorLabels(items) == IF Len(items) < 2 THEN {} ELSE Common(items)

EscalateForgetful(t, returned) == [t EXCEPT !.reason = "hub_token_ceiling", !.returned = returned, !.total = returned]

(* The token ceiling replaces the reason and the count, not the total. *)
Escalate(t, returned) == [t EXCEPT !.reason = "hub_token_ceiling", !.returned = returned, !.total = Len(matched)]

Cut(kept) ==
  IF Len(kept) < Len(matched)
  THEN [reason |-> "limit", returned |-> Len(kept), total |-> Len(matched), selection |-> Len(kept)]
  ELSE [reason |-> "none", returned |-> Len(kept), total |-> Len(matched), selection |-> 0]

Shown(fitted, shared, trunc) ==
  [kept |-> fitted, trunc |-> trunc, shared |-> [k \in shared |-> fitted[1].labels[k]],
   series |-> [i \in DOMAIN fitted |-> Restrict(fitted[i].labels, DOMAIN fitted[i].labels \ shared)]]

(* A selection already named is not named again. *)
EncodeRange ==
  /\ mode = "range" /\ step = "new" /\ step' = "encoded"
  /\ LET o == WithDefaults(opts)
         kept == TruncateItems(rankByMax(matched), o.limit)
         fitted == FitTokens(kept, o.ceiling)
         cut == Cut(kept)
     IN res' = Shown(fitted, factorShared(fitted),
                 IF Len(fitted) = Len(kept) THEN cut
                 ELSE [Escalate(cut, Len(fitted)) EXCEPT !.selection = IF @ = 0 THEN Len(fitted) ELSE @])
  /\ UNCHANGED <<mode, matched, opts, rows>>

EncodeInstant ==
  /\ mode = "instant" /\ step = "new" /\ step' = "encoded"
  /\ LET o == WithDefaults(opts)
         kept == TruncateItems(rankByMax(matched), o.limit)
         fitted == FitTokens(kept, o.ceiling)
     IN res' = Shown(fitted, sharedVectorLabels(fitted),
                 IF Len(fitted) = Len(kept) THEN Cut(kept)
                 ELSE [Escalate(Cut(kept), Len(fitted)) EXCEPT !.selection = Len(fitted)])
  /\ UNCHANGED <<mode, matched, opts, rows>>

(* The shared labels are folded back in, and the cluster label the series   *)
(* already carried is kept beside the one that names the cluster.           *)

injectCluster(labels, shared) ==
  LET own == [k \in DOMAIN labels \cup DOMAIN shared |-> IF k \in DOMAIN labels THEN labels[k] ELSE shared[k]]
      orig == IF "cluster" \in DOMAIN own /\ own["cluster"] # Cluster
              THEN [k \in {"cluster_original"} |-> own["cluster"]] ELSE <<>>
  IN [k \in DOMAIN own \cup DOMAIN orig \cup {"cluster"} |->
        IF k = "cluster" THEN Cluster ELSE IF k \in DOMAIN orig THEN orig[k] ELSE own[k]]

Injecting ==
  /\ step = "encoded" /\ step' = "merged"
  /\ rows' = [i \in DOMAIN res.series |->
                LET labels == injectCluster(res.series[i], res.shared)
                IN Restrict(labels, DOMAIN labels \ {"cluster"})]
  /\ UNCHANGED <<mode, matched, opts, res>>

Next == EncodeRange \/ EncodeInstant \/ Injecting

Spec == Init /\ [][Next]_vars

-----------------------------------------------------------------------------
Encoded == step # "new"

(* Nothing is dropped silently: what is returned, what matched and why the  *)
(* rest is missing agree with the series shown.                             *)
TruncationIsHonest ==
  Encoded => LET n == Len(res.kept) IN
    /\ res.trunc.returned = n /\ res.trunc.total = Len(matched)
    /\ res.trunc.reason = "none" <=> n = Len(matched)
    /\ n <= WithDefaults(opts).limit

(* What is shown fits the token ceiling; only the empty result may not. *)
FitsOrEmpty ==
  Encoded /\ WithDefaults(opts).ceiling > 0 =>
    res.kept = <<>> \/ EstimateTokens(res.kept) <= WithDefaults(opts).ceiling

(* Two calls with the same series give the same result, in whatever order   *)
(* upstream listed them: no series that was dropped ranks before one that   *)
(* was kept, and the kept ones are in rank order.                           *)
RankDecides ==
  Encoded /\ (mode = "range" \/ \A i, j \in DOMAIN matched : matched[i].max = NaN /\ matched[j].max = NaN => i = j) =>
    /\ \A i, j \in DOMAIN res.kept : i < j => Before(res.kept[i], res.kept[j])
    /\ \A i \in DOMAIN matched, j \in DOMAIN res.kept :
         matched[i] \notin ToSet(res.kept) => Before(res.kept[j], matched[i])

(* A fan-out row carries every label of its series with its own value; only *)
(* the cluster label moves.                                                 *)
NothingRewritten ==
  step = "merged" => \A i \in DOMAIN rows :
    LET own == res.kept[i].labels IN
    /\ \A k \in DOMAIN own \ {"cluster"} : k \in DOMAIN rows[i] /\ rows[i][k] = own[k]
    /\ "cluster" \in DOMAIN own /\ own["cluster"] # Cluster => rows[i]["cluster_original"] = own["cluster"]
=============================================================================
