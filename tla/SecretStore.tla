---------------------------- MODULE SecretStore ----------------------------
(***************************************************************************)
(* The Kubernetes-backed store (internal/store/secretstore): hub replicas  *)
(* share one Secret that holds the document, write it back conditionally   *)
(* on the resourceVersion they read, and serve reads from a short-lived    *)
(* cache each replica keeps.  Every request to the API server takes effect *)
(* at one moment and its answer is used at a later one, by which time the  *)
(* Secret or the replica's cache may have moved on.                        *)
(***************************************************************************)
EXTENDS State

CONSTANTS
  Callers,      \* calls, each made at most once
  OpsOf,        \* the mutations or reads each call may be
  Now,          \* the instant the calls are made at
  Replicas,     \* hub processes
  ReplicaOf,    \* the replica each call runs on
  InitServers,  \* what the API server may hold at the start
  MaxAttempts   \* Options.MaxAttempts

VARIABLES
  server,   \* the Secret at the API server; resourceVersion 0 is "not found"
  cached,   \* Store.cached of each replica, NoSecret once its TTL has passed
  closed,   \* replicas whose store is closed
  call      \* where each call is

vars == <<server, cached, closed, call>>

(* A read decides nothing and changes nothing. *)
Outcome(d, o) == IF o.op = "Read" THEN NoChange(d) ELSE Apply(d, o, Now)

Ops == UNION {OpsOf[c] : c \in Callers}
NoOp == [op |-> "none"]
NoSecret == [rv |-> 0, doc |-> NewState]
IsSecret(s) == s = [rv |-> s.rv, doc |-> s.doc] /\ s.rv \in Nat /\ IsDocument(s.doc)

ASSUME SecretStoreConstants ==
  /\ Now \in Nat
  /\ ReplicaOf \in [Callers -> Replicas]
  /\ NoOp \notin Ops /\ \A o \in Ops : o.op = "Read" \/ IsOp(o)
  /\ MaxAttempts \in Nat \ {0}
  /\ \A s \in InitServers : IsSecret(s) /\ (s.rv = 0 => s = NoSecret)

Minted(kid) == \E o \in Ops : Mints(o, kid)

(* A key id is drawn at random: no two calls issue the same one, and none   *)
(* that is in use already.  The one fixed id is the bootstrap key's, an     *)
(* admin key that has its lifetime before it when it is minted.             *)
ASSUME KeyIDs ==
  \A kid \in KIDs :
    /\ \A c \in Callers : \A o \in OpsOf[c] : Issues(o, kid) =>
         /\ ~Minted(kid)
         /\ \A s \in InitServers : kid \notin DOMAIN s.doc.keys
         /\ \A e \in Callers \ {c} : \A p \in OpsOf[e] : ~Issues(p, kid)
    /\ \A o \in Ops : Mints(o, kid) => ~IsGrant(o.key) /\ Usable(o.key, Now)
    /\ Minted(kid) => \A s \in InitServers :
         kid \in DOMAIN s.doc.keys => ~IsGrant(s.doc.keys[kid])

Idle == [at |-> "idle", op |-> NoOp, attempt |-> 0, sec |-> NoSecret,
         applied |-> FALSE, result |-> "none"]

Points == {"idle", "load", "create", "reget", "got", "decide", "update", "won",
           "lost", "done"}
Results == {"none", "stored", "unchanged", "exists", "notfound", "revoked", "invalid",
            "wrongclass", "notusable", "used", "toolarge", "unavailable", "conflict",
            "closed"}

TypeOK ==
  /\ IsSecret(server)
  /\ \A h \in Replicas : IsSecret(cached[h])
  /\ closed \subseteq Replicas
  /\ \A c \in Callers :
       /\ call[c].at \in Points /\ call[c].op \in Ops \cup {NoOp}
       /\ call[c].attempt \in 0..MaxAttempts - 1 /\ IsSecret(call[c].sec)
       /\ call[c].applied \in BOOLEAN /\ call[c].result \in Results

Init ==
  /\ server \in InitServers
  /\ cached = [h \in Replicas |-> NoSecret]
  /\ closed = {}
  /\ call = [c \in Callers |-> Idle]

-----------------------------------------------------------------------------
(* The pieces a call is made of. *)

Cached(c) == cached[ReplicaOf[c]]
cache(c, sec) == cached' = [cached EXCEPT ![ReplicaOf[c]] = sec]
Finish(c, result) == call' = [call EXCEPT ![c].at = "done", ![c].result = result]

(* The guard every method runs first. *)
Begin(c) ==
  /\ call[c].at = "idle"
  /\ \E o \in OpsOf[c] :
       call' = [call EXCEPT ![c] =
         IF ReplicaOf[c] \in closed
         THEN [Idle EXCEPT !.at = "done", !.op = o, !.result = "closed"]
         ELSE [Idle EXCEPT !.at = "load", !.op = o]]
  /\ UNCHANGED <<server, cached, closed>>

(* load: the first attempt may be served from the cache; every other one,   *)
(* and a miss, asks the API server.                                         *)
LoadCached(c) ==
  /\ call[c].at = "load"
  /\ call[c].attempt = 0 /\ Cached(c).rv # 0
  /\ call' = [call EXCEPT ![c].at = "decide", ![c].sec = Cached(c)]
  /\ UNCHANGED <<server, cached, closed>>

GetSecret(c) ==
  /\ call[c].at = "load"
  /\ call[c].attempt > 0 \/ Cached(c).rv = 0
  /\ call' = [call EXCEPT ![c].at = IF server.rv = 0 THEN "create" ELSE "got",
                          ![c].sec = server]
  /\ UNCHANGED <<server, cached, closed>>

(* First use: one replica creates the Secret, the others adopt it. *)
CreateSecret(c) ==
  /\ call[c].at = "create"
  /\ \/ /\ server.rv = 0
        /\ server' = [rv |-> 1, doc |-> NewState]
        /\ call' = [call EXCEPT ![c].at = "got", ![c].sec = server']
     \/ /\ server.rv # 0
        /\ call' = [call EXCEPT ![c].at = "reget"]
        /\ UNCHANGED server
  /\ UNCHANGED <<cached, closed>>

ReGet(c) ==
  /\ call[c].at = "reget"
  /\ call' = [call EXCEPT ![c].at = "got", ![c].sec = server]
  /\ UNCHANGED <<server, cached, closed>>

(* The answer arrives and is cached, however old it has become. *)
CacheLoaded(c) ==
  /\ call[c].at = "got"
  /\ cache(c, call[c].sec)
  /\ call' = [call EXCEPT ![c].at = "decide"]
  /\ UNCHANGED <<server, closed>>

(* Decide that re-reads when there is nothing to change. *)
DecideAgain(c) ==
  /\ call[c].at = "decide"
  /\ LET r == Outcome(call[c].sec.doc, call[c].op)
     IN  \/ r.changed /\ call' = [call EXCEPT ![c].at = "update"]
         \/ r.err # "none" /\ Finish(c, r.err)
         \/ r.err = "none" /\ ~r.changed /\ call' = [call EXCEPT ![c].at = "load"]
  /\ UNCHANGED <<server, cached, closed>>

(* mutate: fn's error or its "nothing changed" is returned at once. *)
Decide(c) ==
  /\ call[c].at = "decide"
  /\ LET r == Outcome(call[c].sec.doc, call[c].op)
     IN  \/ r.changed /\ call' = [call EXCEPT ![c].at = "update"]
         \/ r.err # "none" /\ Finish(c, r.err)
         \/ r.err = "none" /\ ~r.changed /\ Finish(c, "unchanged")
  /\ UNCHANGED <<server, cached, closed>>

(* A blind PUT. *)
AlwaysCurrent(c) == TRUE

(* UpdateSecret at the API server, conditional on the resourceVersion. *)
Current(c) == server.rv = call[c].sec.rv

UpdateSecret(c) ==
  /\ call[c].at = "update"
  /\ \/ /\ Current(c)
        /\ server' = [rv |-> server.rv + 1,
                      doc |-> Outcome(call[c].sec.doc, call[c].op).doc]
        /\ call' = [call EXCEPT ![c].at = "won", ![c].sec = server', ![c].applied = TRUE]
     \/ /\ ~Current(c)
        /\ call' = [call EXCEPT ![c].at = "lost"]
        /\ UNCHANGED server
  /\ UNCHANGED <<cached, closed>>

Updated(c) ==
  /\ call[c].at = "won"
  /\ cache(c, call[c].sec)
  /\ Finish(c, "stored")
  /\ UNCHANGED <<server, closed>>

(* A conflict with one attempt too many. *)
ConflictLate(c) ==
  /\ call[c].at = "lost"
  /\ cache(c, NoSecret)
  /\ IF call[c].attempt < MaxAttempts
     THEN call' = [call EXCEPT ![c].at = "load", ![c].attempt = @ + 1]
     ELSE Finish(c, "conflict")
  /\ UNCHANGED <<server, closed>>

(* A conflict drops the cache and, while attempts last, tries again. *)
Conflict(c) ==
  /\ call[c].at = "lost"
  /\ cache(c, NoSecret)
  /\ IF call[c].attempt + 1 < MaxAttempts
     THEN call' = [call EXCEPT ![c].at = "load", ![c].attempt = @ + 1]
     ELSE Finish(c, "conflict")
  /\ UNCHANGED <<server, closed>>

(* The request or its answer is lost, or the caller's context ends. *)
Unavailable(c) ==
  /\ call[c].at \in {"load", "create", "reget", "got", "update", "won", "lost"}
  /\ Finish(c, "unavailable")
  /\ UNCHANGED <<server, cached, closed>>

-----------------------------------------------------------------------------
(* The replica around the calls. *)

(* cachedSecret stops returning the Secret CacheTTL after it was cached. *)
Expire(h) ==
  /\ cached[h].rv # 0
  /\ cached' = [cached EXCEPT ![h] = NoSecret]
  /\ UNCHANGED <<server, closed, call>>

Close(h) ==
  /\ h \notin closed
  /\ closed' = closed \cup {h}
  /\ cached' = [cached EXCEPT ![h] = NoSecret]
  /\ UNCHANGED <<server, call>>

Running(h) == {c \in Callers : ReplicaOf[c] = h /\ call[c].at \notin {"idle", "done"}}

(* The process dies and is started again. *)
Restart(h) ==
  /\ Running(h) # {}
  /\ call' = [c \in Callers |-> IF c \in Running(h)
                THEN [call[c] EXCEPT !.at = "done", !.result = "unavailable"] ELSE call[c]]
  /\ cached' = [cached EXCEPT ![h] = NoSecret]
  /\ closed' = closed \ {h}
  /\ UNCHANGED server

mutate(c) ==
  \/ LoadCached(c) \/ GetSecret(c) \/ CreateSecret(c) \/ ReGet(c) \/ CacheLoaded(c)
  \/ Decide(c) \/ UpdateSecret(c) \/ Updated(c) \/ Conflict(c)

Next ==
  \/ \E c \in Callers : Begin(c) \/ mutate(c) \/ Unavailable(c)
  \/ \E h \in Replicas : Expire(h) \/ Close(h) \/ Restart(h)

(* A call that was made is carried on by its goroutine. *)
Fairness == \A c \in Callers : WF_vars(mutate(c))

Spec == Init /\ [][Next]_vars
FairSpec == Spec /\ Fairness

-----------------------------------------------------------------------------
(* Properties. *)

Done(c, kind) == call[c].at = "done" /\ call[c].op.op = kind
Winners(kind, kid) == {c \in Callers : /\ Done(c, kind) /\ call[c].op.kid = kid
                                       /\ call[c].result = "stored"}

(* BurnEnrollment's "exactly one wins", across replicas, stale caches, lost *)
(* answers and restarts: no two callers are told they redeemed a single-use *)
(* grant, and the winner's serial is the one on record.                     *)
BurnedOnce ==
  \A kid \in DOMAIN server.doc.keys :
    LET k == server.doc.keys[kid]
    IN  IsGrant(k) /\ ~k.reusable =>
          /\ Cardinality(Winners("BurnEnrollment", kid)) <= 1
          /\ \A c \in Winners("BurnEnrollment", kid) : k.serial = call[c].op.serial

(* No redemption was made before the calls of this model: the grants there  *)
(* are and the ones they issue start from zero.                             *)
Unredeemed ==
  /\ \A s \in InitServers : \A kid \in DOMAIN s.doc.keys :
       IsGrant(s.doc.keys[kid]) => s.doc.keys[kid].redemptions = 0
  /\ \A o \in Ops : Issues(o, o.kid) /\ IsGrant(o.key) => o.key.redemptions = 0

(* A capped reusable grant is never redeemed beyond its cap, and its        *)
(* counter is the number of redemptions the API server accepted.            *)
RedemptionsCounted ==
  \A kid \in DOMAIN server.doc.keys :
    LET k == server.doc.keys[kid]
        took == {c \in Callers : call[c].applied /\ call[c].op.op = "BurnEnrollment"
                                   /\ call[c].op.kid = kid}
    IN  IsGrant(k) => /\ k.redemptions = Cardinality(took)
                      /\ k.reusable /\ k.max > 0 => k.redemptions <= k.max

(* No pruning the calls may make reaches a revocation with this expiry. *)
Lasting(notAfter) == \A o \in Ops : o.op = "Prune" => ~Passed(notAfter, o.retain, Now)
Outlasts(serial) ==
  \A o \in Ops : o.op = "RevokeCert" /\ o.serial = serial => Lasting(o.notAfter)

(* No acknowledged write is lost to a concurrent one: a revocation that was *)
(* reported stored, or found already made, is in the document for good; the *)
(* bootstrap key's id is minted again after one, and the entry of a         *)
(* certificate stays until a pruning that is due.                           *)
RevocationsStick ==
  \A c \in Callers :
    /\ /\ Done(c, "RevokeKey") /\ call[c].result \in {"stored", "unchanged"}
       /\ call[c].op.kid \in DOMAIN server.doc.keys /\ ~Minted(call[c].op.kid)
       => server.doc.keys[call[c].op.kid].revoked
    /\ Done(c, "RevokeCert") /\ call[c].result = "stored" /\ Outlasts(call[c].op.serial)
       => call[c].op.serial \in DOMAIN server.doc.certs

(* mutate's comment on refusals: a grant refused as already used from a     *)
(* stale read would be refused by a fresh one too.                          *)
UsedIsFinal ==
  \A c \in Callers :
    Done(c, "BurnEnrollment") /\ call[c].result = "used"
      => Outcome(server.doc, call[c].op).err # "none"

(* PutKeyIfNoUsable's "exactly once": concurrent replicas mint one          *)
(* bootstrap key between them, and one more only for each call that         *)
(* withdraws it.                                                            *)
MintedOnce ==
  \A kid \in KIDs :
    LET withdrawn == {c \in Callers : call[c].applied /\ Withdraws(call[c].op, kid)}
    IN  Cardinality(Winners("PutKeyIfNoUsable", kid)) <= 1 + Cardinality(withdrawn)

(* Every call returns: contention ends in success or in ErrConflict after   *)
(* MaxAttempts, and never in a loop.                                        *)
CallsReturn == \A c \in Callers : (call[c].at # "idle") ~> (call[c].at = "done")

(* What the interface promises: each change is one atomic application of    *)
(* its mutation to the current document.                                    *)
status ==
  [c \in Callers |-> CASE call[c].at \in {"idle", "done"} -> call[c].at
                       [] OTHER -> IF call[c].applied THEN "committed" ELSE "pending"]
outcome ==
  [c \in Callers |-> CASE call[c].result \in {"none", "stored", "unchanged"} -> call[c].result
                       [] OTHER -> "failed"]
op == [c \in Callers |-> call[c].op]

Abstract == INSTANCE Store WITH doc <- server.doc, status <- status, op <- op, outcome <- outcome

ImplementsStore == Abstract!StoreSpec

=============================================================================
