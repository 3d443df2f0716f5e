----------------------------- MODULE Revocation -----------------------------
(***************************************************************************)
(* Certificate revocation on one hub replica: the revocation list cached   *)
(* in front of the credential store (internal/hub/tunnel.go), the check at *)
(* the tunnel handshake, the enforcer that sweeps the live sessions        *)
(* (internal/hubapi/revocation.go) and the admin call that revokes here.   *)
(*                                                                         *)
(* The list is refreshed by two store reads, Epoch and ListRevokedCerts.   *)
(* A store read is answered from the replica's cached document, or by a    *)
(* request whose answer is cached when it arrives.  The other goroutines   *)
(* of the replica that read the store share that cache.                    *)
(***************************************************************************)
EXTENDS Integers, FiniteSets

CONSTANTS
  Sessions,   \* tunnels that may be dialled, each once
  Serials,    \* certificate serials
  SerialOf,   \* the certificate behind each session
  Readers,    \* other goroutines of this replica that read the store
  LocalSerials, \* serials that may be revoked through this replica
  Enforcer,   \* the enforcer's goroutine
  NoCaller,   \* nobody holds refreshM
  Caching,    \* the store's CacheTTL is positive
  MaxEpoch    \* bound on the mutations of the document

ASSUME RevocationConstants ==
  /\ SerialOf \in [Sessions -> Serials] /\ LocalSerials \subseteq Serials
  /\ Enforcer \notin Sessions /\ NoCaller \notin Sessions \cup {Enforcer}
  /\ Caching \in BOOLEAN /\ MaxEpoch \in Nat \ {0}

VARIABLES
  server,   \* the stored document: its epoch and the revoked serials
  cached,   \* the store's cached document, NoDoc when there is none
  reads,    \* the answer a reader has received and not yet cached
  rc,       \* revocationCache: the list, its epoch, whether it is fresh
  refresh,  \* the refresh in progress: who holds refreshM and how far it is
  asks,     \* callers of refresh: waiting for it, or told how it went
  sess,     \* where each session is
  enforcer, \* the pass in progress: sessions seen, serials to judge, verdicts
  admin,    \* the handleRevokeCert in progress
  expired   \* certificates past their notAfter

vars == <<server, cached, reads, rc, refresh, asks, sess, enforcer, admin, expired>>
storeVars   == <<server, cached, reads>>
listVars    == <<rc, refresh, asks>>
sessionVars == <<sess, enforcer>>

Doc == [epoch : Nat \ {0}, revoked : SUBSET Serials]
NoDoc == [epoch |-> 0, revoked |-> {}]
First == [epoch |-> 1, revoked |-> {}]
Callers == Sessions \cup {Enforcer}
Free == [by |-> NoCaller, at |-> "idle", got |-> FALSE, doc |-> NoDoc, epoch |-> 0]
Resting == [at |-> "idle", seen |-> {}, todo |-> {}, victims |-> {}]
NoAdmin == [at |-> "idle", serials |-> {}, doc |-> NoDoc]

TypeOK ==
  /\ server \in Doc
  /\ cached \in Doc \cup {NoDoc}
  /\ reads \in [Readers -> Doc \cup {NoDoc}]
  /\ rc \in [serials : SUBSET Serials, epoch : Nat \ {0}, fresh : BOOLEAN]
  /\ refresh \in [by : Callers \cup {NoCaller}, at : {"idle", "epoch", "list"},
                  got : BOOLEAN, doc : Doc \cup {NoDoc}, epoch : Nat]
  /\ asks \in [Callers -> {"no", "wants", "ok", "failed"}]
  /\ sess \in [Sessions -> {"new", "checking", "admitted", "attached", "refused", "closed"}]
  /\ enforcer \in [at : {"idle", "refreshing", "judging"}, seen : SUBSET Sessions,
                   todo : SUBSET Serials, victims : SUBSET Serials]
  /\ admin \in [at : {"idle", "stored", "closing"}, serials : SUBSET Serials, doc : Doc \cup {NoDoc}]
  /\ expired \in SUBSET Serials

(* The hub starts only once a first refresh has succeeded. *)
Init ==
  /\ server = First
  /\ cached = IF Caching THEN First ELSE NoDoc
  /\ reads = [r \in Readers |-> NoDoc]
  /\ rc = [serials |-> {}, epoch |-> 1, fresh |-> TRUE]
  /\ refresh = Free
  /\ asks = [p \in Callers |-> "no"]
  /\ sess = [s \in Sessions |-> "new"]
  /\ enforcer = Resting
  /\ admin = NoAdmin
  /\ expired = {}

-----------------------------------------------------------------------------
(* The store as this replica sees it. *)

cache(d) == cached' = IF Caching THEN d ELSE NoDoc

ReaderGet(r) ==
  /\ reads[r] = NoDoc /\ cached = NoDoc
  /\ reads' = [reads EXCEPT ![r] = server]
  /\ UNCHANGED <<server, cached, listVars, sessionVars, admin, expired>>

(* However long the answer took, it is what the cache holds from now on. *)
ReaderCaches(r) ==
  /\ reads[r] # NoDoc
  /\ cache(reads[r])
  /\ reads' = [reads EXCEPT ![r] = NoDoc]
  /\ UNCHANGED <<server, listVars, sessionVars, admin, expired>>

CacheExpires ==
  /\ cached # NoDoc
  /\ cached' = NoDoc
  /\ UNCHANGED <<server, reads, listVars, sessionVars, admin, expired>>

(* Mutant: the epoch is not bumped. *)
RevokedQuietly(d, n) == [d EXCEPT !.revoked = @ \cup {n}]

Revoked(d, n) == [epoch |-> d.epoch + 1, revoked |-> d.revoked \cup {n}]

(* A mutation by another replica: a revocation, or anything else that bumps *)
(* the epoch.                                                               *)
MutatedElsewhere ==
  /\ server.epoch < MaxEpoch
  /\ \/ \E n \in Serials : server' = Revoked(server, n)
     \/ server' = [server EXCEPT !.epoch = @ + 1]
  /\ UNCHANGED <<cached, reads, listVars, sessionVars, admin, expired>>

CertificateExpires(n) ==
  /\ n \notin expired
  /\ expired' = expired \cup {n}
  /\ UNCHANGED <<storeVars, listVars, sessionVars, admin>>

-----------------------------------------------------------------------------
(* revocationCache.refresh, one caller at a time under refreshM. *)

Done(answer) ==
  /\ refresh' = Free
  /\ asks' = [asks EXCEPT ![refresh.by] = answer]

(* Freshness is looked at again once the lock is held. *)
RefreshLock(p) ==
  /\ asks[p] = "wants" /\ refresh.by = NoCaller
  /\ \/ /\ rc.fresh
        /\ asks' = [asks EXCEPT ![p] = "ok"]
        /\ UNCHANGED refresh
     \/ /\ ~rc.fresh
        /\ refresh' = [Free EXCEPT !.by = p, !.at = "epoch"]
        /\ UNCHANGED asks
  /\ UNCHANGED <<storeVars, rc, sessionVars, admin, expired>>

(* Mutant: the early return keeps the lock. *)
UnchangedLocked == asks' = [asks EXCEPT ![refresh.by] = "ok"] /\ UNCHANGED refresh

Unchanged == Done("ok")

(* What the refresh does with the document a read returned: an epoch that   *)
(* has not moved ends it, any other one is kept for the list that follows.  *)
Use(d) ==
  \/ /\ refresh.at = "epoch" /\ d.epoch = rc.epoch
     /\ rc' = [rc EXCEPT !.fresh = TRUE]
     /\ Unchanged
  \/ /\ refresh.at = "epoch" /\ d.epoch # rc.epoch
     /\ refresh' = [refresh EXCEPT !.at = "list", !.epoch = d.epoch, !.got = FALSE, !.doc = NoDoc]
     /\ UNCHANGED <<rc, asks>>
  \/ /\ refresh.at = "list"
     /\ rc' = [serials |-> d.revoked \ expired, epoch |-> refresh.epoch, fresh |-> TRUE]
     /\ Done("ok")

Reading == refresh.at \in {"epoch", "list"} /\ ~refresh.got

Hit == cached # NoDoc

RefreshHit ==
  /\ Reading /\ Hit
  /\ Use(cached)
  /\ UNCHANGED <<storeVars, sessionVars, admin, expired>>

RefreshGet ==
  /\ Reading /\ ~Hit
  /\ refresh' = [refresh EXCEPT !.got = TRUE, !.doc = server]
  /\ UNCHANGED <<storeVars, rc, asks, sessionVars, admin, expired>>

RefreshGot ==
  /\ refresh.got
  /\ cache(refresh.doc)
  /\ Use(refresh.doc)
  /\ UNCHANGED <<server, reads, sessionVars, admin, expired>>

(* Mutant: a failed refresh drops the list. *)
ForgetList == rc' = [rc EXCEPT !.serials = {}]

KeepList == UNCHANGED rc

(* The request fails or its answer is late: the last good list stays. *)
RefreshFails ==
  /\ refresh.got
  /\ Done("failed")
  /\ KeepList
  /\ UNCHANGED <<storeVars, sessionVars, admin, expired>>

(* The list is older than its time to live. *)
ListExpires ==
  /\ rc.fresh
  /\ rc' = [rc EXCEPT !.fresh = FALSE]
  /\ UNCHANGED <<storeVars, refresh, asks, sessionVars, admin, expired>>

(* isRevoked for caller p: answered at once by a hit or a fresh list, after *)
(* a refresh otherwise, and with "no" when that refresh failed.             *)
Answered(p, n) ==
  \/ asks[p] = "no" /\ (n \in rc.serials \/ rc.fresh)
  \/ asks[p] \in {"ok", "failed"}

(* Mutant: a refresh that failed counts against the certificate. *)
FailClosed(p, n) == asks[p] = "failed" \/ n \in rc.serials

Verdict(p, n) == asks[p] # "failed" /\ n \in rc.serials

MustRefresh(p, n) == asks[p] = "no" /\ n \notin rc.serials /\ ~rc.fresh

-----------------------------------------------------------------------------
(* Sessions. *)

(* The handshake authenticates the certificate, which must not have expired. *)
Dial(s) ==
  /\ sess[s] = "new" /\ SerialOf[s] \notin expired
  /\ sess' = [sess EXCEPT ![s] = "checking"]
  /\ UNCHANGED <<storeVars, listVars, enforcer, admin, expired>>

HandshakeRefreshes(s) ==
  /\ sess[s] = "checking" /\ MustRefresh(s, SerialOf[s])
  /\ asks' = [asks EXCEPT ![s] = "wants"]
  /\ UNCHANGED <<storeVars, rc, refresh, sessionVars, admin, expired>>

HandshakeDecides(s) ==
  /\ sess[s] = "checking" /\ Answered(s, SerialOf[s])
  /\ sess' = [sess EXCEPT ![s] = IF Verdict(s, SerialOf[s]) THEN "refused" ELSE "admitted"]
  /\ asks' = [asks EXCEPT ![s] = "no"]
  /\ UNCHANGED <<storeVars, rc, refresh, enforcer, admin, expired>>

(* The rest of the handshake, Describe and the registry's admission. *)
Attach(s) ==
  /\ sess[s] = "admitted"
  /\ sess' = [sess EXCEPT ![s] = "attached"]
  /\ UNCHANGED <<storeVars, listVars, enforcer, admin, expired>>

Attached == {s \in Sessions : sess[s] = "attached"}
CloseSessions(S) == sess' = [s \in Sessions |-> IF s \in S THEN "closed" ELSE sess[s]]

-----------------------------------------------------------------------------
(* RevocationEnforcer.Run: refresh, then CloseRevokedBy(isRevoked), which   *)
(* judges each serial of a snapshot once.                                   *)

EnforceTick ==
  /\ enforcer.at = "idle"
  /\ enforcer' = [Resting EXCEPT !.at = "refreshing"]
  /\ asks' = [asks EXCEPT ![Enforcer] = "wants"]
  /\ UNCHANGED <<storeVars, rc, refresh, sess, admin, expired>>

EnforceSnapshot ==
  /\ enforcer.at = "refreshing" /\ asks[Enforcer] \in {"ok", "failed"}
  /\ enforcer' = [at |-> "judging", seen |-> Attached, victims |-> {},
                  todo |-> {SerialOf[s] : s \in Attached}]
  /\ asks' = [asks EXCEPT ![Enforcer] = "no"]
  /\ UNCHANGED <<storeVars, rc, refresh, sess, admin, expired>>

JudgeRefreshes ==
  /\ enforcer.at = "judging" /\ \E n \in enforcer.todo : MustRefresh(Enforcer, n)
  /\ asks' = [asks EXCEPT ![Enforcer] = "wants"]
  /\ UNCHANGED <<storeVars, rc, refresh, sessionVars, admin, expired>>

Judge(n) ==
  /\ enforcer.at = "judging" /\ n \in enforcer.todo /\ Answered(Enforcer, n)
  /\ enforcer' = [enforcer EXCEPT !.todo = @ \ {n},
                    !.victims = IF Verdict(Enforcer, n) THEN @ \cup {n} ELSE @]
  /\ asks' = [asks EXCEPT ![Enforcer] = "no"]
  /\ UNCHANGED <<storeVars, rc, refresh, sess, admin, expired>>

EnforceClose ==
  /\ enforcer.at = "judging" /\ enforcer.todo = {}
  /\ CloseSessions({s \in enforcer.seen \cap Attached : SerialOf[s] \in enforcer.victims})
  /\ enforcer' = Resting
  /\ UNCHANGED <<storeVars, listVars, admin, expired>>

Enforce ==
  EnforceTick \/ EnforceSnapshot \/ JudgeRefreshes \/ EnforceClose \/ \E n \in Serials : Judge(n)

-----------------------------------------------------------------------------
(* handleRevokeCert on this replica: store the revocation, then close the   *)
(* sessions it names.                                                       *)

AdminStores(n) ==
  /\ admin.at = "idle" /\ server.epoch < MaxEpoch /\ n \notin expired
  /\ server' = Revoked(server, n)
  /\ admin' = [at |-> "stored", serials |-> {n}, doc |-> server']
  /\ UNCHANGED <<cached, reads, listVars, sessionVars, expired>>

AdminCaches ==
  /\ admin.at = "stored"
  /\ cache(admin.doc)
  /\ admin' = [admin EXCEPT !.at = "closing", !.doc = NoDoc]
  /\ UNCHANGED <<server, reads, listVars, sessionVars, expired>>

(* The answer is lost; the caller gets an error and nothing is closed. *)
AdminFails ==
  /\ admin.at = "stored"
  /\ admin' = NoAdmin
  /\ UNCHANGED <<storeVars, listVars, sessionVars, expired>>

AdminCloses ==
  /\ admin.at = "closing"
  /\ CloseSessions({s \in Attached : SerialOf[s] \in admin.serials})
  /\ admin' = NoAdmin
  /\ UNCHANGED <<storeVars, listVars, enforcer, expired>>

handleRevokeCert == (\E n \in LocalSerials : AdminStores(n)) \/ AdminCaches \/ AdminFails \/ AdminCloses

-----------------------------------------------------------------------------
Refreshing == (\E p \in Callers : RefreshLock(p)) \/ RefreshHit \/ RefreshGet \/ RefreshGot

Next ==
  \/ \E r \in Readers : ReaderGet(r) \/ ReaderCaches(r)
  \/ CacheExpires \/ MutatedElsewhere \/ \E n \in Serials : CertificateExpires(n)
  \/ Refreshing \/ RefreshFails \/ ListExpires
  \/ \E s \in Sessions : Dial(s) \/ HandshakeRefreshes(s) \/ HandshakeDecides(s) \/ Attach(s)
  \/ Enforce \/ handleRevokeCert

Spec == Init /\ [][Next]_vars

(* The enforcer's ticker goes on ticking, goroutines run on, cached data    *)
(* grows old, and the store is not out of reach for good.                   *)
Fairness ==
  /\ WF_vars(Enforce)
  /\ WF_vars(\E p \in Callers : RefreshLock(p))
  /\ SF_vars(RefreshLock(Enforcer))
  /\ WF_vars(RefreshHit \/ RefreshGet)
  /\ \A at \in {"epoch", "list"} : SF_vars(refresh.at = at /\ RefreshGot)
  /\ WF_vars(ListExpires) /\ WF_vars(CacheExpires)
  /\ \A s \in Sessions : WF_vars(HandshakeRefreshes(s) \/ HandshakeDecides(s) \/ Attach(s))

FairSpec == Spec /\ Fairness

-----------------------------------------------------------------------------
(* Properties. *)

(* The epoch filed with the list names it: while the store is still at that *)
(* epoch, every revocation of a certificate that could connect is on the    *)
(* list.  refresh relies on it when it takes an unmoved epoch for an        *)
(* unchanged list.                                                          *)
EpochNamesList == rc.epoch = server.epoch => server.revoked \ expired \subseteq rc.serials

(* isRevoked's "a serial never becomes un-revoked": a revocation this       *)
(* replica has learned of is not forgotten before the certificate expires,  *)
(* whatever refreshes, failures and store reads follow.                     *)
KnownStaysKnown == [][rc.serials \ expired' \subseteq rc'.serials]_vars

(* A hub that knows too little admits, and never the other way round: a     *)
(* session is refused or closed only if its own certificate was revoked,    *)
(* however old the cached document and whatever refreshes failed            *)
(* (isRevoked, CloseRevokedBy, handleRevokeCert).                           *)
OnlyRevokedAreClosed ==
  \A s \in Sessions : sess[s] \in {"refused", "closed"} => SerialOf[s] \in server.revoked

(* revokedSerials' "a revocation takes effect within one refresh interval   *)
(* at worst", without the clock: once a certificate is revoked, every       *)
(* session it admitted is closed and none is attached again.                *)
RevokedStaysOut ==
  \A s \in Sessions :
    (SerialOf[s] \in server.revoked) ~>
      (SerialOf[s] \in expired \/ [](sess[s] # "attached"))

=============================================================================
