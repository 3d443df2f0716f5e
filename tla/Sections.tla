------------------------------ MODULE Sections ------------------------------
(***************************************************************************)
(* The two tools that answer in sections (internal/mcptools).              *)
(* describe_cluster (describe.go) copies lists from the published facts,   *)
(* cuts each to topN and reports one cut for all of them. runtime_info     *)
(* (status.go) makes one upstream call per section, one after another, and *)
(* the tunnel may fail between two of them.                                *)
(***************************************************************************)
EXTENDS Integers, Sequences, FiniteSets, SequencesExt

CONSTANTS
  Lengths,          \* lengths of a published list
  TopNs, DefaultTopN, MaxTopN,
  Ages, StaleFactsAfter \* ages of the facts

SectionsConstants ==
  /\ Lengths \cup TopNs \cup Ages \subseteq Nat
  /\ {DefaultTopN, MaxTopN, StaleFactsAfter} \subseteq Nat \ {0}

VARIABLES tool, include, topN, facts, age, todo, out

vars == <<tool, include, topN, facts, age, todo, out>>

Lists == <<"jobs", "metricPrefixes", "namespaces">>
allIncludes == {"jobs", "metricPrefixes", "namespaces", "kubernetes"}
defaultIncludes == {"jobs", "metricPrefixes"}
allSections == <<"build", "runtime", "flags">>
defaultSections == {"build", "runtime"}

Members(s) == {s[i] : i \in DOMAIN s}
Pending == [kind |-> "pending", shown |-> [s \in {} |-> 0], partial |-> {}, first |-> "none",
            cut |-> "none", returned |-> 0, total |-> 0, stale |-> FALSE]

(* What the caller asked for; nothing asked for is the tool's default. *)
Init ==
  /\ tool \in {"describe_cluster", "runtime_info"}
  /\ include \in SUBSET ({"bogus"} \cup (IF tool = "describe_cluster" THEN allIncludes ELSE Members(allSections)))
  /\ topN \in TopNs /\ age \in Ages
  /\ facts \in [Members(Lists) -> Lengths]
  /\ todo = <<"begin">> /\ out = Pending

Wanted ==
  CASE include # {} -> include
    [] tool = "describe_cluster" -> defaultIncludes
    [] OTHER -> defaultSections

-----------------------------------------------------------------------------
Least(a, b) == IF a < b THEN a ELSE b
clampInt(n, def, lo, hi) == LET m == IF n <= 0 THEN def ELSE n IN IF m < lo THEN lo ELSE Least(m, hi)
Top == clampInt(topN, DefaultTopN, 1, MaxTopN)

(* One list is cut; of several cuts the one that hides more is reported,    *)
(* the first of two that hide as much.                                      *)
clipList(o, section) ==
  LET n == facts[section]
      shown == [s \in DOMAIN o.shown \cup {section} |-> IF s = section THEN Least(n, Top) ELSE o.shown[s]]
  IN IF n <= Top \/ (o.cut # "none" /\ n - Top <= o.total - o.returned) THEN [o EXCEPT !.shown = shown]
     ELSE [o EXCEPT !.shown = shown, !.cut = section, !.returned = Top, !.total = n]

describeCluster ==
  /\ tool = "describe_cluster" /\ todo = <<"begin">> /\ todo' = <<>>
  /\ out' = IF Wanted \subseteq allIncludes
            THEN [FoldLeft(clipList, Pending, SelectSeq(Lists, LAMBDA s : s \in Wanted))
                    EXCEPT !.kind = "answer", !.stale = age > StaleFactsAfter]
            ELSE [Pending EXCEPT !.kind = "error", !.first = "INVALID_ARGUMENT"]
  /\ UNCHANGED <<tool, include, topN, facts, age>>

-----------------------------------------------------------------------------
(* Every value is checked before the first call. *)
BeginRuntime ==
  /\ tool = "runtime_info" /\ todo = <<"begin">>
  /\ IF Wanted \subseteq Members(allSections)
     THEN todo' = SelectSeq(allSections, LAMBDA s : s \in Wanted) \o <<"end">> /\ UNCHANGED out
     ELSE todo' = <<>> /\ out' = [Pending EXCEPT !.kind = "error", !.first = "INVALID_ARGUMENT"]
  /\ UNCHANGED <<tool, include, topN, facts, age>>

Collecting == tool = "runtime_info" /\ todo # <<>> /\ Head(todo) \in Members(allSections)

(* One status call succeeds. *)
status ==
  /\ Collecting /\ todo' = Tail(todo)
  /\ out' = [out EXCEPT !.shown = [s \in DOMAIN @ \cup {Head(todo)} |-> 1]]
  /\ UNCHANGED <<tool, include, topN, facts, age>>

(* The first failure is the one a call that collects nothing reports. *)
firstErr(first, next) == IF first = "none" THEN next ELSE first

statusFails ==
  /\ Collecting /\ todo' = Tail(todo)
  /\ \E code \in {"SPOKE_UNREACHABLE", "QUERY_TIMEOUT"} :
       out' = [out EXCEPT !.partial = @ \cup {Head(todo)}, !.first = firstErr(@, code)]
  /\ UNCHANGED <<tool, include, topN, facts, age>>

(* Nothing collected is a failure, not an empty success. *)
EndRuntime ==
  /\ tool = "runtime_info" /\ todo = <<"end">> /\ todo' = <<>>
  /\ out' = IF Cardinality(out.partial) = Cardinality(Wanted) THEN [out EXCEPT !.kind = "error"] ELSE [out EXCEPT !.kind = "answer"]
  /\ UNCHANGED <<tool, include, topN, facts, age>>

Next == describeCluster \/ BeginRuntime \/ status \/ statusFails \/ EndRuntime

Spec == Init /\ [][Next]_vars

-----------------------------------------------------------------------------
(* A section that was asked for and is not shown is named as partial, and a *)
(* call fails only when it has nothing to show.                             *)
MissingIsNamed ==
  tool = "runtime_info" =>
    /\ out.kind = "answer" => out.partial \cup DOMAIN out.shown = Wanted /\ DOMAIN out.shown # {}
    /\ out.kind = "error" => DOMAIN out.shown = {} /\ out.first # "none"
    /\ out.partial \cap DOMAIN out.shown = {}

(* The error a failed call reports is the first one it met. *)
FirstErrorStays == out.first # "none" => out'.first = out.first

(* A cut list is never silent, and the list named is one that hides the     *)
(* most, with its own numbers.                                              *)
LargestCutIsNamed ==
  tool = "describe_cluster" /\ out.kind = "answer" =>
    LET hidden(s) == facts[s] - out.shown[s]
        cut == {s \in DOMAIN out.shown : hidden(s) > 0}
    IN /\ out.cut = "none" <=> cut = {}
       /\ cut # {} => /\ out.cut \in cut /\ \A s \in cut : hidden(s) <= hidden(out.cut)
                      /\ out.total = facts[out.cut] /\ out.returned = out.shown[out.cut]
=============================================================================
