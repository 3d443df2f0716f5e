------------------------------- MODULE Proxy -------------------------------
(***************************************************************************)
(* The hub's Prometheus proxy (internal/promproxy): every call takes a     *)
(* slot of its cluster's in-flight semaphore, which refuses when full, and *)
(* then reserves its worst case from the hub-wide byte semaphore, which    *)
(* queues first-in first-out under the call's own deadline.  A grant and   *)
(* the end of a waiter's context race; both semaphores are given back by   *)
(* deferred functions in reverse order.  A caller calls again and again.   *)
(***************************************************************************)
EXTENDS Integers, Sequences, FiniteSets, SequencesExt, FiniteSetsExt

CONSTANTS
  Callers,           \* goroutines that run Do
  Clusters,
  ClusterOf,         \* the cluster each caller calls
  Want,              \* Call.MaxBytes of each caller; 0 asks for the default
  LimitBytes,        \* the principal's MaxResponseBytes; 0 is unset
  LimitInflight,     \* the principal's MaxConcurrentPerCluster; 0 is unset
  MaxResponseBytes,  \* Options.MaxResponseBytes
  Budget,            \* Options.GlobalResponseBudget
  MaxInflight,       \* Options.MaxInflightPerCluster
  Patient            \* callers whose context is never ended while they queue

ProxyConstants ==
  /\ ClusterOf \in [Callers -> Clusters] /\ Patient \subseteq Callers
  /\ Want \in [Callers -> Nat] /\ LimitBytes \in [Callers -> Nat]
  /\ LimitInflight \in [Callers -> Nat]
  /\ MaxResponseBytes \in Nat \ {0} /\ MaxInflight \in Nat \ {0}
  /\ Budget \in Nat /\ Budget >= MaxResponseBytes      \* checked by New

VARIABLES
  inflight,  \* inflightSem.inflight; an absent key is 0
  free,      \* byteSem.free
  waiters,   \* byteSem.waiters, oldest first
  ready,     \* waiters whose ready channel has been closed
  pc,        \* where each caller's Do is
  ended      \* callers whose context is over: the call's deadline or the caller's own

vars == <<inflight, free, waiters, ready, pc, ended>>

Points == {"idle", "slot", "reserve", "wait", "handback", "call", "unreserve", "unslot"}

TypeOK ==
  /\ inflight \in [Clusters -> 0..Cardinality(Callers)]
  /\ free \in 0..Budget
  /\ waiters \in Seq(Callers) /\ ready \subseteq Callers
  /\ pc \in [Callers -> Points]
  /\ ended \subseteq Callers

Least(a, b) == IF a < b THEN a ELSE b
Tighten(n, limit) == IF limit > 0 THEN Least(n, limit) ELSE n

(* A scope can only ever tighten. *)
effectiveMaxBytes(c) ==
  Tighten(Tighten(MaxResponseBytes, Want[c]), LimitBytes[c])
effectiveInflight(c) == Tighten(MaxInflight, LimitInflight[c])

Init ==
  /\ inflight = [k \in Clusters |-> 0]
  /\ free = Budget
  /\ waiters = <<>> /\ ready = {}
  /\ pc = [c \in Callers |-> "idle"]
  /\ ended = {}

-----------------------------------------------------------------------------
(* byteSem: reservations granted head-first for as long as the head fits.   *)

Sums(q) ==
  LET sum[i \in 0..Len(q)] == IF i = 0 THEN 0 ELSE sum[i - 1] + effectiveMaxBytes(q[i])
  IN  sum

(* Every reservation is positive, so the loop stops after the longest       *)
(* prefix of the queue that fits.                                           *)
grantLocked(q, f) ==
  LET k == Max({i \in 0..Len(q) : Sums(q)[i] <= f})
  IN  [queue |-> SubSeq(q, k + 1, Len(q)), free |-> f - Sums(q)[k],
       granted |-> ToSet(SubSeq(q, 1, k))]

Granting(q, f) ==
  LET g == grantLocked(q, f)
  IN  waiters' = g.queue /\ free' = g.free /\ ready' = ready \cup g.granted

release(c) == Granting(waiters, free + effectiveMaxBytes(c))

-----------------------------------------------------------------------------
(* Do.                                                                      *)

Go(c, point) == pc' = [pc EXCEPT ![c] = point]

(* authorizeAndBuild and session have let the call through; a refusal       *)
(* returns before either semaphore is touched.                              *)
Call(c) ==
  /\ pc[c] = "idle"
  /\ Go(c, "slot")
  /\ ended' = ended \ {c}
  /\ UNCHANGED <<inflight, free, waiters, ready>>

(* inflightSem.acquire never blocks. *)
TakeSlot(c) ==
  /\ pc[c] = "slot"
  /\ IF inflight[ClusterOf[c]] < effectiveInflight(c)
     THEN /\ inflight' = [inflight EXCEPT ![ClusterOf[c]] = @ + 1]
          /\ Go(c, "reserve")
     ELSE Go(c, "idle") /\ UNCHANGED inflight
  /\ UNCHANGED <<free, waiters, ready, ended>>

(* A reservation that does not look at the queue. *)
ReserveBarging(c) ==
  /\ pc[c] = "reserve"
  /\ IF free >= effectiveMaxBytes(c)
     THEN free' = free - effectiveMaxBytes(c) /\ Go(c, "call") /\ UNCHANGED waiters
     ELSE waiters' = Append(waiters, c) /\ Go(c, "wait") /\ UNCHANGED free
  /\ UNCHANGED <<inflight, ready, ended>>

(* byteSem.acquire under its lock: at once only when nobody is queued. *)
Reserve(c) ==
  /\ pc[c] = "reserve"
  /\ IF waiters = <<>> /\ free >= effectiveMaxBytes(c)
     THEN free' = free - effectiveMaxBytes(c) /\ Go(c, "call") /\ UNCHANGED waiters
     ELSE waiters' = Append(waiters, c) /\ Go(c, "wait") /\ UNCHANGED free
  /\ UNCHANGED <<inflight, ready, ended>>

(* The select's first case. *)
Granted(c) ==
  /\ pc[c] = "wait" /\ c \in ready
  /\ ready' = ready \ {c}
  /\ Go(c, "call")
  /\ UNCHANGED <<inflight, free, waiters, ended>>

(* The lost race without the release. *)
KeepBytes(c) ==
  /\ pc[c] = "wait" /\ c \in ended
  /\ \/ /\ c \in ToSet(waiters)
        /\ Granting(Remove(waiters, c), free)
        /\ Go(c, "unslot")
     \/ /\ c \notin ToSet(waiters)
        /\ ready' = ready \ {c}
        /\ Go(c, "unslot")
        /\ UNCHANGED <<waiters, free>>
  /\ UNCHANGED <<inflight, ended>>

(* The select's second case, under the lock again: still queued, or granted *)
(* in the meantime.                                                         *)
Cancelled(c) ==
  /\ pc[c] = "wait" /\ c \in ended
  /\ \/ /\ c \in ToSet(waiters)
        /\ Granting(Remove(waiters, c), free)
        /\ Go(c, "unslot")
     \/ /\ c \notin ToSet(waiters)
        /\ Go(c, "handback")
        /\ UNCHANGED <<waiters, free, ready>>
  /\ UNCHANGED <<inflight, ended>>

HandBack(c) ==
  /\ pc[c] = "handback"
  /\ LET g == grantLocked(waiters, free + effectiveMaxBytes(c))
     IN  waiters' = g.queue /\ free' = g.free /\ ready' = (ready \ {c}) \cup g.granted
  /\ Go(c, "unslot")
  /\ UNCHANGED <<inflight, ended>>

(* The tunnel's answer, its failure or the end of the call's context. *)
Answered(c) ==
  /\ pc[c] = "call"
  /\ Go(c, "unreserve")
  /\ UNCHANGED <<inflight, free, waiters, ready, ended>>

(* The deferred functions, last deferred first. *)
Unreserve(c) ==
  /\ pc[c] = "unreserve"
  /\ release(c)
  /\ Go(c, "unslot")
  /\ UNCHANGED <<inflight, ended>>

Unslot(c) ==
  /\ pc[c] = "unslot"
  /\ inflight' = [inflight EXCEPT ![ClusterOf[c]] = @ - 1]
  /\ Go(c, "idle")
  /\ UNCHANGED <<free, waiters, ready, ended>>

(* The deadline set by Do, or the caller's own context. *)
ContextEnds(c) ==
  /\ pc[c] \in {"wait", "call"} /\ c \notin ended
  /\ c \in Patient => pc[c] # "wait"
  /\ ended' = ended \cup {c}
  /\ UNCHANGED <<inflight, free, waiters, ready, pc>>

Do(c) ==
  \/ TakeSlot(c) \/ Reserve(c) \/ Granted(c) \/ Cancelled(c)
  \/ HandBack(c) \/ Answered(c) \/ Unreserve(c) \/ Unslot(c)

Next == \E c \in Callers : Call(c) \/ Do(c) \/ ContextEnds(c)

Spec == Init /\ [][Next]_vars

-----------------------------------------------------------------------------
(* Properties. *)

(* Where a call stands. *)
Queued(c) == pc[c] = "wait"
Called(c) == pc[c] = "call"

(* The callers that own bytes: calling, giving them back, or granted and    *)
(* not yet awake.                                                           *)
Owners == {c \in Callers : \/ pc[c] \in {"call", "unreserve", "handback"}
                           \/ pc[c] = "wait" /\ c \in ready}

(* Every byte of the budget is either free or owned by exactly one call:    *)
(* the race between a grant and the end of a waiter's context (acquire's    *)
(* second case) neither leaks a reservation nor frees one twice.            *)
BytesConserved == free + MapThenSumSet(effectiveMaxBytes, Owners) = Budget

(* Nobody waits for bytes that are there: whenever the lock is free, the    *)
(* oldest waiter's reservation does not fit.  This is what acquire's grant  *)
(* after removing a cancelled head is for.                                  *)
NoHeadStall == waiters # <<>> => effectiveMaxBytes(Head(waiters)) > free

(* Reservations are granted in arrival order: whoever leaves the queue with *)
(* a grant leaves nobody behind who was ahead of it.                        *)
NoOvertaking ==
  \A i \in DOMAIN waiters : waiters[i] \in ready' \ ready =>
    \A j \in 1..i : waiters[j] \notin ToSet(waiters')

(* The in-flight counter of a cluster is the number of calls that hold a    *)
(* slot, so a call that gave up in the byte queue gives its slot back too.  *)
SlotsCounted ==
  \A k \in Clusters :
    inflight[k] = Cardinality({c \in Callers :
                                 ClusterOf[c] = k /\ pc[c] \notin {"idle", "slot"}})

=============================================================================
