----------------------------- MODULE ToolGuard -----------------------------
(***************************************************************************)
(* One call of a tool, or one read of a resource, from the guards every    *)
(* tool shares (run, resolveCluster of internal/mcptools/guard.go,         *)
(* resourcePrincipal of resources.go, internal/fleet/scope.go) through the *)
(* tool (query.go, series of metadata.go, describe.go) to the check the    *)
(* proxy makes again before it calls the spoke (authorizeAndBuild and      *)
(* session of internal/promproxy/proxy.go), while clusters join, leave     *)
(* and are relabelled in between.                                          *)
(*                                                                         *)
(* Clusters are numbers, near to each other as numbers are. Registered     *)
(* tool names have no dot, so of the patterns of a deny list only "*" and  *)
(* a name itself can match one.                                            *)
(***************************************************************************)
EXTENDS Integers, Sequences, FiniteSets, SequencesExt

CONSTANTS
  Clusters, Empty, Malformed, \* cluster names, the empty name and one outside the grammar
  Labels,                     \* values of the label scopes match on
  Scopes,                     \* scopes of the caller
  Calls,                      \* tool calls and resource reads: [kind, tool]
  OperationalTools,
  MaxUpstream,                \* most series an upstream answer holds
  DefaultLimit, DidYouMeanCount, NearestCount,
  MaxChanges                  \* registry changes during the call

ToolGuardConstants ==
  /\ Clusters \subseteq Nat /\ IsFiniteSet(Clusters)
  /\ {Empty, Malformed} \cap Clusters = {}
  /\ {DefaultLimit, DidYouMeanCount, NearestCount} \subseteq Nat \ {0}

VARIABLES registry, changes, scope, call, step, result

vars == <<registry, changes, scope, call, step, result>>

Unset == [present |-> FALSE]
Entries == {Unset} \cup [present : {TRUE}, label : Labels, connected : BOOLEAN]
Known == {c \in Clusters : registry[c].present}

-----------------------------------------------------------------------------
(* Scopes *)
Validate(s) ==
  /\ s.role # "admin"
  /\ s.allowAll \/ s.allow # {} \/ s.match # {}
  /\ s.tools # {}

(* Deny first; then every label of the selector; then the list, which an    *)
(* empty list leaves to the selector.                                       *)
AllowsCluster(s, c, labels) ==
  /\ c \notin s.deny
  /\ s.match \subseteq labels
  /\ IF ~s.allowAll /\ s.allow = {} THEN s.match # {} ELSE s.allowAll \/ c \in s.allow

matchToolPattern(pattern, name) == pattern \in {"*", name}
AllowsTool(s, name) ==
  (\A d \in s.denyTools : ~matchToolPattern(d, name)) /\ s.tools \cap {"*", name} # {}
ToolExplicitlyAllowed(s, name) == AllowsTool(s, name) /\ name \in s.tools

(* An operational tool needs the operator's role or its name on the list. *)
roleAllows(s, name) ==
  name \in OperationalTools => s.role = "operator" \/ ToolExplicitlyAllowed(s, name)

-----------------------------------------------------------------------------
LabelsOf(c) == IF c \in Known THEN {registry[c].label} ELSE {}
Visible == {c \in Known : AllowsCluster(scope, c, LabelsOf(c))}

Distance(a, b) == IF a < b THEN b - a ELSE a - b
Closer(id, c, d) == Distance(id, c) < Distance(id, d) \/ (Distance(id, c) = Distance(id, d) /\ c < d)
Nearest(id, n, S) == {c \in S : Cardinality({d \in S : Closer(id, d, c)}) < n}

(* The nearest names of the whole fleet, those the caller may not see left out. *)
didYouMean(id) == Nearest(id, DidYouMeanCount, Nearest(id, NearestCount, Known) \cap Visible)

Failure(code) == [code |-> code, series |-> 0, didYouMean |-> {}]
unknownCluster == [Failure("UNKNOWN_CLUSTER") EXCEPT !.didYouMean = didYouMean(call.cluster)]
Pending == Failure("pending")

RawFormat == {"query", "query_range", "series"}
Formatted == RawFormat \cup {"targets", "alerts", "rules", "list_clusters"}

Init ==
  /\ registry \in [Clusters -> Entries] /\ changes = 0
  /\ scope \in {s \in Scopes : Validate(s)}
  /\ call \in [op : Calls, cluster : Clusters \cup {Empty, Malformed}, format : {"compact", "json"}, validArgs : BOOLEAN]
  /\ call.op.kind = "resource" => call.format = "compact" /\ call.validArgs \* a resource has no arguments
  /\ call.format = "json" => call.op.tool \in Formatted
  /\ step = "new" /\ result = Pending

kept == UNCHANGED <<registry, changes, scope, call>>
Go(s) == step' = s /\ kept /\ UNCHANGED result
End(r) == step' = "done" /\ result' = r /\ kept
Tool == call.op.tool

(* The key's rate limit comes before everything else; a call it refuses     *)
(* reaches nothing.                                                         *)
Rate == step = "new" /\ (Go("admitted") \/ End(Failure("RATE_LIMITED")))

(* Scope, then role. A resource asks for the tool it mirrors. *)
Authorize ==
  /\ step = "admitted"
  /\ IF AllowsTool(scope, Tool) /\ roleAllows(scope, Tool) THEN Go("authorized") ELSE End(Failure("FORBIDDEN"))

requireConnected(c) == registry[c].connected

(* list_clusters names no cluster; describe_cluster wants one whose spoke   *)
(* is connected, in the same copy of its entry.                             *)
resolveCluster ==
  /\ step = "authorized"
  /\ CASE Tool = "list_clusters" -> Go("resolved")
       [] call.cluster = Empty -> End(Failure("INVALID_ARGUMENT"))
       [] call.cluster \in Visible ->
            IF Tool = "describe_cluster" /\ ~requireConnected(call.cluster)
            THEN End(Failure("SPOKE_UNREACHABLE")) ELSE Go("resolved")
       [] OTHER -> End(unknownCluster)

(* A raw body cannot be cut, so a scope that limits the series of a result  *)
(* does not get one.                                                        *)
refuseRawUnderLimits ==
  call.format = "json" /\ Tool \in {"query", "query_range"} /\ scope.maxSeries > 0

parseFormat == call.format = "json" => Tool \in RawFormat

(* The format, then the limits of the scope, then expression, times and     *)
(* selectors.                                                               *)
CheckArguments ==
  /\ step = "resolved"
  /\ IF ~parseFormat \/ refuseRawUnderLimits \/ ~call.validArgs
     THEN End(Failure("INVALID_ARGUMENT")) ELSE Go("checked")

(* No upstream call: the answer is what the registry held. *)
AnswerFromRegistry ==
  step = "checked" /\ Tool \in {"list_clusters", "describe_cluster"} /\ End(Failure("OK"))

authorizeOnce ==
  /\ step = "checked" /\ Tool \notin {"list_clusters", "describe_cluster"}
  /\ IF call.cluster \notin Known THEN End(Failure("UPSTREAM_ERROR")) ELSE Go("allowed")

(* The proxy asks the registry and the scope again. A denied cluster is     *)
(* reported as an unknown one; one that is allowed and gone is an error     *)
(* mapProxyError has no case for.                                           *)
authorizeAndBuild ==
  /\ step = "checked" /\ Tool \notin {"list_clusters", "describe_cluster"}
  /\ CASE ~AllowsCluster(scope, call.cluster, LabelsOf(call.cluster)) -> End(unknownCluster)
       [] call.cluster \notin Known -> End(Failure("UPSTREAM_ERROR"))
       [] OTHER -> Go("allowed")

session ==
  /\ step = "allowed"
  /\ CASE call.cluster \notin Known -> End(Failure("UPSTREAM_ERROR"))
       [] ~registry[call.cluster].connected -> End(Failure("SPOKE_UNREACHABLE"))
       [] OTHER -> Go("calling")

Least(a, b) == IF a < b THEN a ELSE b

(* The scope tightens the limit of the query tools. *)
limit == IF Tool \in {"query", "query_range"} /\ scope.maxSeries > 0 THEN Least(DefaultLimit, scope.maxSeries) ELSE DefaultLimit

(* The spoke answers with n series, shown raw or cut to the limit; or fails. *)
Answer ==
  /\ step = "calling"
  /\ \/ \E n \in 0 .. MaxUpstream :
          End([Failure("OK") EXCEPT !.series = IF call.format = "json" THEN n ELSE Least(n, limit)])
     \/ End(Failure("UPSTREAM_ERROR"))

(* Spokes join and leave, are relabelled, lose and regain their tunnel. *)
RegistryChanges ==
  /\ step # "done" /\ changes < MaxChanges /\ changes' = changes + 1
  /\ \E c \in Clusters, e \in Entries : registry[c] # e /\ registry' = [registry EXCEPT ![c] = e]
  /\ UNCHANGED <<scope, call, step, result>>

Next ==
  \/ Rate \/ Authorize \/ resolveCluster \/ CheckArguments \/ AnswerFromRegistry
  \/ authorizeAndBuild \/ session \/ Answer \/ RegistryChanges

Spec == Init /\ [][Next]_vars

-----------------------------------------------------------------------------
(* No call leaves for a spoke unless the scope allows the cluster with the  *)
(* labels it has at that moment, whatever it was when the tool looked it up. *)
UpstreamInScope ==
  step = "checked" /\ step' = "allowed" =>
    call.cluster \notin scope.deny
    /\ scope.match \subseteq LabelsOf(call.cluster)
    /\ (scope.allowAll \/ call.cluster \in scope.allow \/ scope.allow = {})

(* A tool the scope or the role withholds is refused whatever the arguments *)
(* are: nothing about them or about the clusters is learned. A viewer's     *)
(* wildcard never reaches an operational tool, and deny beats every grant.  *)
WithheldLearnsNothing ==
  (\/ \E d \in scope.denyTools : d \in {"*", Tool}
   \/ scope.role = "viewer" /\ Tool \in OperationalTools /\ Tool \notin scope.tools) =>
     result.code \in {"pending", "RATE_LIMITED", "FORBIDDEN"}

(* A cluster outside the scope is answered as one that does not exist, and  *)
(* only visible clusters are suggested.                                     *)
DeniedLooksUnknown ==
  /\ (step = "authorized" /\ step' # step /\ Tool # "list_clusters" /\ call.cluster \in Clusters \ Visible
          => result'.code = "UNKNOWN_CLUSTER")
  /\ (result' # result => result'.didYouMean \subseteq Visible)

(* A result never holds more series than the scope allows, in any format. *)
MaxSeriesHolds == scope.maxSeries > 0 => result.series <= scope.maxSeries

=============================================================================
