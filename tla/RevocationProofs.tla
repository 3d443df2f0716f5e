------------------------- MODULE RevocationProofs -------------------------
(***************************************************************************)
(* Proofs about Revocation: its type, and, for a store that answers every  *)
(* read from the API server (Caching = FALSE), that the epoch filed with   *)
(* the list names it and that no revocation is forgotten, for any number   *)
(* of sessions, serials and concurrent readers.                            *)
(***************************************************************************)
EXTENDS Revocation, TLAPS

(* What TypeOK leaves out: a refresh that has an answer is under way and    *)
(* the answer is a document, as is the one an admin call has to cache.      *)
Answers ==
  /\ refresh.got => refresh.at \in {"epoch", "list"} /\ refresh.doc \in Doc
  /\ refresh.at = "list" => refresh.epoch # 0
  /\ admin.at = "stored" => admin.doc \in Doc

TInv == TypeOK /\ Answers

(* The hub starts with a list of the right type. *)
LEMMA TypeInit == Init => TInv
  BY RevocationConstants
  DEF Init, TInv, TypeOK, Answers, Doc, NoDoc, First, Callers, Free, Resting, NoAdmin

(* The steps of the store, of readers and of the clocks. *)
Outside ==
  \/ \E r \in Readers : ReaderGet(r) \/ ReaderCaches(r)
  \/ CacheExpires \/ MutatedElsewhere \/ \E n \in Serials : CertificateExpires(n)
  \/ ListExpires

(* The steps of sessions and of the enforcer: they leave the store and the  *)
(* list alone.                                                              *)
Judging ==
  \/ \E s \in Sessions : Dial(s) \/ HandshakeRefreshes(s) \/ HandshakeDecides(s) \/ Attach(s)
  \/ Enforce

(* Next, grouped by the part of the replica that takes the step. *)
LEMMA Steps ==
  ASSUME [Next]_vars
  PROVE  Outside \/ Judging \/ Refreshing \/ RefreshFails \/ handleRevokeCert \/ UNCHANGED vars
  BY DEF Next, Outside, Judging

(* The store's readers and other replicas keep the type. *)
LEMMA OutsideType == TInv /\ Outside => TInv'
  <1> SUFFICES ASSUME TInv, Outside PROVE TInv'
    OBVIOUS
  <1> USE DEF TInv, TypeOK, Answers, listVars, sessionVars, storeVars
  <1>1. ASSUME NEW r \in Readers, ReaderGet(r) PROVE TInv'
    BY <1>1 DEF ReaderGet
  <1>2. ASSUME NEW r \in Readers, ReaderCaches(r) PROVE TInv'
    BY <1>2 DEF ReaderCaches, cache
  <1>3. CASE CacheExpires
    BY <1>3 DEF CacheExpires
  <1>4. CASE MutatedElsewhere
    <2>1. server' \in Doc
      BY <1>4 DEF MutatedElsewhere, Revoked, Doc
    <2> QED BY <1>4, <2>1 DEF MutatedElsewhere
  <1>5. ASSUME NEW n \in Serials, CertificateExpires(n) PROVE TInv'
    BY <1>5 DEF CertificateExpires
  <1>6. CASE ListExpires
    BY <1>6, ZenonT(180) DEF ListExpires
  <1> QED BY <1>1, <1>2, <1>3, <1>4, <1>5, <1>6 DEF Outside

(* Handshakes and the enforcer keep the type. *)
LEMMA JudgingType == TInv /\ Judging => TInv'
  <1> SUFFICES ASSUME TInv, Judging PROVE TInv'
    OBVIOUS
  <1> USE DEF TInv, TypeOK, Answers, listVars, sessionVars, storeVars, Callers
  <1>1. ASSUME NEW s \in Sessions, Dial(s) PROVE TInv'
    BY <1>1 DEF Dial
  <1>2. ASSUME NEW s \in Sessions, HandshakeRefreshes(s) PROVE TInv'
    BY <1>2 DEF HandshakeRefreshes
  <1>3. ASSUME NEW s \in Sessions, HandshakeDecides(s) PROVE TInv'
    BY <1>3 DEF HandshakeDecides
  <1>4. ASSUME NEW s \in Sessions, Attach(s) PROVE TInv'
    BY <1>4 DEF Attach
  <1>5. CASE EnforceTick
    BY <1>5 DEF EnforceTick, Resting
  <1>6. CASE EnforceSnapshot
    BY <1>6, RevocationConstants DEF EnforceSnapshot, Attached
  <1>7. CASE JudgeRefreshes
    BY <1>7 DEF JudgeRefreshes
  <1>8. ASSUME NEW n \in Serials, Judge(n) PROVE TInv'
    BY <1>8, ZenonT(180) DEF Judge
  <1>9. CASE EnforceClose
    BY <1>9 DEF EnforceClose, CloseSessions, Resting
  <1> QED BY <1>1, <1>2, <1>3, <1>4, <1>5, <1>6, <1>7, <1>8, <1>9, Zenon DEF Judging, Enforce

(* A released refresh lock has its type. *)
LEMMA FreeType ==
  /\ Free \in [by : Callers \cup {NoCaller}, at : {"idle", "epoch", "list"},
               got : BOOLEAN, doc : Doc \cup {NoDoc}, epoch : Nat]
  /\ ~Free.got /\ Free.at = "idle" /\ Free.epoch = 0
  BY DEF Free

(* Use with a document keeps the type of what it changes. *)
LEMMA UseType ==
  ASSUME TInv, NEW d \in Doc, Use(d)
  PROVE  /\ rc' \in [serials : SUBSET Serials, epoch : Nat \ {0}, fresh : BOOLEAN]
         /\ refresh' \in [by : Callers \cup {NoCaller}, at : {"idle", "epoch", "list"},
                          got : BOOLEAN, doc : Doc \cup {NoDoc}, epoch : Nat]
         /\ asks' \in [Callers -> {"no", "wants", "ok", "failed"}]
         /\ ~refresh'.got /\ (refresh'.at = "list" => refresh'.epoch # 0)
  <1> USE DEF TInv, TypeOK, Answers
  <1>d. d.epoch \in Nat \ {0} /\ d.revoked \in SUBSET Serials
    BY DEF Doc
  <1>1. CASE refresh.at = "epoch" /\ d.epoch = rc.epoch
    <2>1. rc' = [rc EXCEPT !.fresh = TRUE] /\ refresh' = Free
          /\ asks' = [asks EXCEPT ![refresh.by] = "ok"]
      BY <1>1 DEF Use, Unchanged, Done
    <2> QED BY <2>1, FreeType, Zenon
  <1>2. CASE refresh.at = "epoch" /\ d.epoch # rc.epoch
    <2>1. /\ refresh' = [refresh EXCEPT !.at = "list", !.epoch = d.epoch, !.got = FALSE,
                                       !.doc = NoDoc]
          /\ UNCHANGED <<rc, asks>>
      BY <1>2 DEF Use
    <2> QED BY <1>d, <2>1, Zenon
  <1>3. CASE refresh.at = "list"
    <2>1. /\ rc' = [serials |-> d.revoked \ expired, epoch |-> refresh.epoch, fresh |-> TRUE]
          /\ refresh' = Free
          /\ asks' = [asks EXCEPT ![refresh.by] = "ok"]
      BY <1>3 DEF Use, Done
    <2> QED BY <1>3, <1>d, <2>1, FreeType, Zenon
  <1> QED BY <1>1, <1>2, <1>3 DEF Use

(* The refresh keeps the type, whether it succeeds or fails. *)
LEMMA RefreshType == TInv /\ (Refreshing \/ RefreshFails) => TInv'
  <1> SUFFICES ASSUME TInv, Refreshing \/ RefreshFails PROVE TInv'
    OBVIOUS
  <1> USE DEF TInv, TypeOK, Answers, listVars, sessionVars, storeVars
  <1>1. ASSUME NEW p \in Callers, RefreshLock(p) PROVE TInv'
    <2>1. [Free EXCEPT !.by = p, !.at = "epoch"]
            \in [by : Callers \cup {NoCaller}, at : {"idle", "epoch", "list"},
                 got : BOOLEAN, doc : Doc \cup {NoDoc}, epoch : Nat]
      BY FreeType, Zenon
    <2>2. ~[Free EXCEPT !.by = p, !.at = "epoch"].got
          /\ [Free EXCEPT !.by = p, !.at = "epoch"].at = "epoch"
      BY DEF Free
    <2> QED BY <1>1, <2>1, <2>2, ZenonT(180) DEF RefreshLock
  <1>2. CASE RefreshHit
    <2>1. cached \in Doc
      BY <1>2 DEF RefreshHit, Hit
    <2> QED BY <1>2, <2>1, UseType DEF RefreshHit
  <1>3. CASE RefreshGet
    BY <1>3, ZenonT(60) DEF RefreshGet, Reading
  <1>4. CASE RefreshGot
    <2>1. refresh.doc \in Doc
      BY <1>4 DEF RefreshGot
    <2> QED BY <1>4, <2>1, UseType DEF RefreshGot, cache
  <1>5. CASE RefreshFails
    BY <1>5, ZenonT(60) DEF RefreshFails, Done, KeepList, Free, Doc, NoDoc
  <1> QED BY <1>1, <1>2, <1>3, <1>4, <1>5 DEF Refreshing

(* handleRevokeCert keeps the type. *)
LEMMA AdminType == TInv /\ handleRevokeCert => TInv'
  <1> SUFFICES ASSUME TInv, handleRevokeCert PROVE TInv'
    OBVIOUS
  <1> USE DEF TInv, TypeOK, Answers, listVars, sessionVars, storeVars
  <1>1. ASSUME NEW n \in LocalSerials, AdminStores(n) PROVE TInv'
    <2>1. n \in Serials
      BY RevocationConstants
    <2>2. server' \in Doc
      BY <1>1, <2>1 DEF AdminStores, Revoked, Doc
    <2> QED BY <1>1, <2>1, <2>2 DEF AdminStores
  <1>2. CASE AdminCaches
    BY <1>2, ZenonT(60) DEF AdminCaches, cache
  <1>3. CASE AdminFails
    BY <1>3 DEF AdminFails, NoAdmin
  <1>4. CASE AdminCloses
    BY <1>4 DEF AdminCloses, CloseSessions, NoAdmin
  <1> QED BY <1>1, <1>2, <1>3, <1>4 DEF handleRevokeCert

(* Every step keeps the type. *)
LEMMA TypeStep == TInv /\ [Next]_vars => TInv'
  <1> SUFFICES ASSUME TInv, [Next]_vars PROVE TInv'
    OBVIOUS
  <1>1. CASE UNCHANGED vars
    BY <1>1 DEF TInv, TypeOK, Answers, vars
  <1> QED BY <1>1, Steps, OutsideType, JudgingType, RefreshType, AdminType

(* The type invariant holds in every reachable state. *)
LEMMA TypeInvariance == Spec => []TInv
  BY TypeInit, TypeStep, PTL DEF Spec

(* The state of the replica's revocation machinery keeps its type: the list *)
(* is never filed under an epoch no document has.                           *)
THEOREM TypeCorrect == Spec => []TypeOK
  <1>1. TInv => TypeOK
    BY DEF TInv
  <1> QED BY <1>1, TypeInvariance, PTL

-----------------------------------------------------------------------------
(* Without the store's cache every read is at least as new as the ones      *)
(* before it: the inductive invariant says how the list, the refresh in     *)
(* progress and the stored document are ordered.                            *)

Ordered ==
  /\ cached = NoDoc
  /\ rc.epoch <= server.epoch /\ rc.serials \subseteq server.revoked
  /\ refresh.at = "list" => refresh.epoch <= server.epoch
  /\ refresh.got =>
       /\ refresh.doc.epoch <= server.epoch
       /\ refresh.doc.epoch = server.epoch => refresh.doc = server
       /\ rc.serials \subseteq refresh.doc.revoked
       /\ refresh.at = "list" => refresh.epoch <= refresh.doc.epoch
       /\ refresh.doc.revoked \subseteq server.revoked

OInv == Ordered /\ EpochNamesList

(* Without a store cache the order holds at the start. *)
LEMMA OrderInit == Init /\ ~Caching => OInv
  BY DEF Init, OInv, Ordered, EpochNamesList, First, NoDoc, Free

(* What a mutation does to the order. *)
LEMMA Mutation ==
  ASSUME TInv, OInv, server'.epoch = server.epoch + 1, server.revoked \subseteq server'.revoked,
         UNCHANGED <<cached, rc, refresh, expired>>
  PROVE  OInv'
  BY DEF TInv, TypeOK, Answers, Doc, OInv, Ordered, EpochNamesList

(* What a read of the current list does to it. *)
LEMMA Reads ==
  ASSUME TInv, OInv, refresh.got, Use(refresh.doc), UNCHANGED <<server, cached, expired>>
  PROVE  OInv' /\ rc.serials \ expired \subseteq rc'.serials
  <1> USE DEF TInv, TypeOK, Answers, OInv, Ordered, EpochNamesList
  <1>1. CASE refresh.at = "epoch" /\ refresh.doc.epoch = rc.epoch
    <2>1. rc' = [rc EXCEPT !.fresh = TRUE] /\ refresh' = Free
      BY <1>1 DEF Use, Unchanged, Done
    <2>2. rc'.epoch = rc.epoch /\ rc'.serials = rc.serials
      BY <2>1
    <2> QED BY <2>1, <2>2, FreeType
  <1>2. CASE refresh.at = "epoch" /\ refresh.doc.epoch # rc.epoch
    <2>1. /\ refresh' = [refresh EXCEPT !.at = "list", !.epoch = refresh.doc.epoch,
                                       !.got = FALSE, !.doc = NoDoc]
          /\ UNCHANGED rc
      BY <1>2 DEF Use
    <2>2. refresh'.epoch = refresh.doc.epoch /\ ~refresh'.got
      BY <2>1, ZenonT(60)
    <2> QED BY <2>1, <2>2
  <1>3. CASE refresh.at = "list"
    <2>1. /\ rc' = [serials |-> refresh.doc.revoked \ expired, epoch |-> refresh.epoch,
                    fresh |-> TRUE]
          /\ refresh' = Free
      BY <1>3 DEF Use, Done
    <2>2. refresh.doc \in Doc /\ server \in Doc /\ refresh.epoch \in Nat
      OBVIOUS
    <2>3. rc'.epoch = server.epoch => refresh.doc = server
      BY <1>3, <2>1, <2>2, SMTT(60) DEF Doc
    <2>4. EpochNamesList'
      BY <2>1, <2>3, Zenon
    <2>5. Ordered'
      BY <1>3, <2>1, <2>2, Zenon DEF Free, Doc
    <2> QED BY <2>1, <2>4, <2>5
  <1> QED BY <1>1, <1>2, <1>3 DEF Use

(* Without a store cache every step keeps the order. *)
LEMMA OrderStep ==
  ASSUME TInv, OInv, ~Caching, [Next]_vars
  PROVE  OInv' /\ rc.serials \ expired' \subseteq rc'.serials
  <1> USE DEF listVars, sessionVars, storeVars
  <1>q. ASSUME UNCHANGED <<server, cached, rc, refresh, expired>>
        PROVE  OInv' /\ rc.serials \ expired' \subseteq rc'.serials
    BY <1>q DEF OInv, Ordered, EpochNamesList
  <1>1. ASSUME NEW r \in Readers, ReaderGet(r) \/ ReaderCaches(r)
        PROVE  OInv' /\ rc.serials \ expired' \subseteq rc'.serials
    <2>1. UNCHANGED <<server, cached, rc, refresh, expired>>
      BY <1>1 DEF ReaderGet, ReaderCaches, cache, OInv, Ordered
    <2> QED BY <1>q, <2>1
  <1>2. CASE CacheExpires
    BY <1>2 DEF CacheExpires, OInv, Ordered
  <1>3. CASE MutatedElsewhere
    <2>1. server'.epoch = server.epoch + 1 /\ server.revoked \subseteq server'.revoked
      BY <1>3 DEF MutatedElsewhere, Revoked, TInv, TypeOK, Doc
    <2> QED BY <1>3, <2>1, Mutation DEF MutatedElsewhere
  <1>4. ASSUME NEW n \in Serials, CertificateExpires(n)
        PROVE  OInv' /\ rc.serials \ expired' \subseteq rc'.serials
    BY <1>4 DEF CertificateExpires, OInv, Ordered, EpochNamesList
  <1>5. CASE ListExpires
    <2>1. rc'.epoch = rc.epoch /\ rc'.serials = rc.serials
      BY <1>5 DEF ListExpires, TInv, TypeOK
    <2> QED BY <1>5, <2>1 DEF ListExpires, OInv, Ordered, EpochNamesList
  <1>6. CASE Judging
    <2>1. UNCHANGED <<server, cached, rc, refresh, expired>>
      BY <1>6, Zenon DEF Judging, Enforce, Dial, HandshakeRefreshes, HandshakeDecides, Attach,
                  EnforceTick, EnforceSnapshot, JudgeRefreshes, Judge, EnforceClose
    <2> QED BY <1>q, <2>1
  <1>7. ASSUME NEW p \in Callers, RefreshLock(p)
        PROVE  OInv' /\ rc.serials \ expired' \subseteq rc'.serials
    <2>1. CASE UNCHANGED refresh
      BY <1>7, <2>1, <1>q DEF RefreshLock
    <2>2. CASE refresh' = [Free EXCEPT !.by = p, !.at = "epoch"]
      <3>1. ~refresh'.got /\ refresh'.at = "epoch"
        BY <2>2 DEF Free
      <3> QED BY <1>7, <3>1 DEF RefreshLock, OInv, Ordered, EpochNamesList
    <2> QED BY <1>7, <2>1, <2>2 DEF RefreshLock
  <1>8. CASE RefreshHit
    BY <1>8 DEF RefreshHit, Hit, OInv, Ordered
  <1>9. CASE RefreshGet
    <2>1. refresh' = [refresh EXCEPT !.got = TRUE, !.doc = server]
      BY <1>9 DEF RefreshGet
    <2>2. refresh'.doc = server /\ refresh'.at = refresh.at /\ refresh'.epoch = refresh.epoch
      BY <2>1 DEF TInv, TypeOK
    <2> QED BY <1>9, <2>2 DEF RefreshGet, OInv, Ordered, EpochNamesList, TInv, TypeOK, Doc
  <1>10. CASE RefreshGot
    <2>1. UNCHANGED <<server, cached, expired>>
      BY <1>10 DEF RefreshGot, cache, OInv, Ordered
    <2> QED BY <1>10, <2>1, Reads DEF RefreshGot
  <1>11. CASE RefreshFails
    BY <1>11 DEF RefreshFails, Done, KeepList, Free, OInv, Ordered, EpochNamesList
  <1>12. ASSUME NEW n \in LocalSerials, AdminStores(n)
         PROVE  OInv' /\ rc.serials \ expired' \subseteq rc'.serials
    <2>1. server'.epoch = server.epoch + 1 /\ server.revoked \subseteq server'.revoked
      BY <1>12 DEF AdminStores, Revoked
    <2> QED BY <1>12, <2>1, Mutation DEF AdminStores
  <1>13. CASE AdminCaches \/ AdminFails \/ AdminCloses
    <2>1. UNCHANGED <<server, cached, rc, refresh, expired>>
      BY <1>13 DEF AdminCaches, AdminFails, AdminCloses, cache, OInv, Ordered
    <2> QED BY <1>q, <2>1
  <1>14. CASE UNCHANGED vars
    BY <1>14, <1>q DEF vars
  <1> QED BY <1>1, <1>2, <1>3, <1>4, <1>5, <1>6, <1>7, <1>8, <1>9, <1>10, <1>11, <1>12, <1>13, Zenon,
             <1>14, Steps DEF Outside, Refreshing, handleRevokeCert

(* Without a store cache the order always holds. *)
LEMMA OrderInvariance == ASSUME ~Caching PROVE Spec => [](TInv /\ OInv)
  <1>1. Init => TInv /\ OInv
    BY TypeInit, OrderInit
  <1>2. TInv /\ OInv /\ [Next]_vars => (TInv /\ OInv)'
    BY TypeStep, OrderStep
  <1> QED BY <1>1, <1>2, PTL DEF Spec

(* A refresh may take an unmoved epoch for an unchanged list, whatever      *)
(* mutations, failures and concurrent reads there are, if no store read is  *)
(* served from the cache.                                                   *)
THEOREM ListNamed == ASSUME ~Caching PROVE Spec => []EpochNamesList
  <1>1. TInv /\ OInv => EpochNamesList
    BY DEF OInv
  <1> QED BY <1>1, OrderInvariance, PTL

(* Under the same assumption a replica forgets no revocation of a           *)
(* certificate that has not expired.                                        *)
THEOREM NothingForgotten == ASSUME ~Caching PROVE Spec => KnownStaysKnown
  <1> DEFINE Keeps == rc.serials \ expired' \subseteq rc'.serials
  <1>1. TInv /\ OInv /\ [Next]_vars => [Keeps]_vars
    BY OrderStep, Zenon
  <1> QED BY <1>1, OrderInvariance, PTL DEF Spec, KnownStaysKnown


-----------------------------------------------------------------------------
(* What the replica holds against certificates, with or without the store's *)
(* cache: every copy of the document, the list, the enforcer's verdicts and *)
(* the admin call name only serials that are revoked in the store.          *)

Backed ==
  /\ cached.revoked \subseteq server.revoked /\ refresh.doc.revoked \subseteq server.revoked
  /\ admin.doc.revoked \subseteq server.revoked
  /\ \A r \in Readers : reads[r].revoked \subseteq server.revoked
  /\ rc.serials \subseteq server.revoked /\ enforcer.victims \subseteq server.revoked
  /\ admin.serials \subseteq server.revoked

(* The hub starts with nothing revoked. *)
LEMMA BackedInit == Init => Backed /\ OnlyRevokedAreClosed
  BY DEF Init, Backed, OnlyRevokedAreClosed, First, NoDoc, Free, Resting, NoAdmin

(* A revocation only adds to the stored list. *)
LEMMA BackedMutation ==
  ASSUME Backed, OnlyRevokedAreClosed, server.revoked \subseteq server'.revoked,
         UNCHANGED <<cached, reads, rc, refresh, enforcer, sess>>,
         admin'.doc.revoked \subseteq server'.revoked, admin'.serials \subseteq server'.revoked
  PROVE  Backed' /\ OnlyRevokedAreClosed'
  BY DEF Backed, OnlyRevokedAreClosed

(* What a refresh makes of a document the store returned. *)
LEMMA BackedUse ==
  ASSUME TInv, Backed, NEW d, Use(d), d.revoked \subseteq server.revoked,
         cached'.revoked \subseteq server.revoked,
         UNCHANGED <<server, reads, sess, enforcer, admin, expired>>
  PROVE  Backed'
  <1>1. rc'.serials \subseteq server.revoked
    <2>1. CASE rc' = [rc EXCEPT !.fresh = TRUE]
      BY <2>1 DEF Backed, TInv, TypeOK
    <2>2. CASE rc' = [serials |-> d.revoked \ expired, epoch |-> refresh.epoch, fresh |-> TRUE]
      BY <2>2
    <2> QED BY <2>1, <2>2 DEF Use, Backed
  <1>2. refresh'.doc.revoked \subseteq server.revoked
    <2>1. CASE refresh' = Free
      BY <2>1 DEF Free, NoDoc
    <2>2. CASE refresh' = [refresh EXCEPT !.at = "list", !.epoch = d.epoch, !.got = FALSE, !.doc = NoDoc]
      <3>1. refresh'.doc = NoDoc
        BY <2>2 DEF TInv, TypeOK
      <3> QED BY <3>1 DEF NoDoc
    <2> QED BY <2>1, <2>2 DEF Use, Unchanged, Done
  <1> QED BY <1>1, <1>2 DEF Backed

LEMMA BackedStep ==
  ASSUME TInv, Backed, OnlyRevokedAreClosed, [Next]_vars PROVE Backed' /\ OnlyRevokedAreClosed'
  <1> USE DEF listVars, sessionVars, storeVars
  <1>s. ASSUME UNCHANGED <<server, sess>> PROVE OnlyRevokedAreClosed'
    BY <1>s DEF OnlyRevokedAreClosed
  <1>c. ASSUME NEW V, \A s \in V : SerialOf[s] \in server.revoked, CloseSessions(V), server' = server
        PROVE  OnlyRevokedAreClosed'
    BY <1>c, Zenon DEF OnlyRevokedAreClosed, CloseSessions
  <1>1. ASSUME NEW r \in Readers, ReaderGet(r) PROVE Backed' /\ OnlyRevokedAreClosed'
    BY <1>1, <1>s, ZenonT(60) DEF ReaderGet, Backed, TInv, TypeOK
  <1>2. ASSUME NEW r \in Readers, ReaderCaches(r) PROVE Backed' /\ OnlyRevokedAreClosed'
    BY <1>2, <1>s DEF ReaderCaches, cache, Backed, TInv, TypeOK, NoDoc
  <1>3. CASE CacheExpires
    BY <1>3, <1>s DEF CacheExpires, Backed, NoDoc
  <1>4. CASE MutatedElsewhere
    <2>1. server.revoked \subseteq server'.revoked
      BY <1>4 DEF MutatedElsewhere, Revoked, TInv, TypeOK, Doc
    <2> QED BY <1>4, <2>1, BackedMutation DEF MutatedElsewhere, Backed
  <1>5. CASE ListExpires \/ \E n \in Serials : CertificateExpires(n)
    <2>1. rc'.serials = rc.serials
      BY <1>5 DEF ListExpires, CertificateExpires, TInv, TypeOK
    <2> QED BY <1>5, <1>s, <2>1 DEF ListExpires, CertificateExpires, Backed
  <1>6. ASSUME NEW s \in Sessions, Dial(s) \/ HandshakeRefreshes(s) \/ HandshakeDecides(s) \/ Attach(s)
        PROVE  Backed' /\ OnlyRevokedAreClosed'
    <2>1. Backed'
      BY <1>6 DEF Dial, HandshakeRefreshes, HandshakeDecides, Attach, Backed
    <2>2. sess \in [Sessions -> {"new", "checking", "admitted", "attached", "refused", "closed"}]
      BY DEF TInv, TypeOK
    <2>3. CASE Dial(s) \/ Attach(s)
      BY <2>1, <2>2, <2>3 DEF Dial, Attach, OnlyRevokedAreClosed
    <2>4. CASE HandshakeRefreshes(s)
      BY <2>1, <2>4, <1>s, ZenonT(60) DEF HandshakeRefreshes
    <2>5. CASE HandshakeDecides(s)
      BY <2>1, <2>2, <2>5 DEF HandshakeDecides, Verdict, Backed, OnlyRevokedAreClosed
    <2> QED BY <1>6, <2>3, <2>4, <2>5, Zenon
  <1>7. CASE EnforceTick \/ EnforceSnapshot \/ JudgeRefreshes
    BY <1>7, <1>s DEF EnforceTick, EnforceSnapshot, JudgeRefreshes, Backed, Resting
  <1>8. ASSUME NEW n \in Serials, Judge(n) PROVE Backed' /\ OnlyRevokedAreClosed'
    <2>1. enforcer'.victims \subseteq enforcer.victims \cup rc.serials
      BY <1>8 DEF Judge, Verdict, TInv, TypeOK
    <2> QED BY <1>8, <1>s, <2>1 DEF Judge, Backed
  <1>9. CASE EnforceClose
    <2>1. Backed'
      BY <1>9, SMTT(60) DEF EnforceClose, Backed, Resting
    <2>2. OnlyRevokedAreClosed'
      BY <1>9, <1>c DEF EnforceClose, Backed
    <2> QED BY <2>1, <2>2
  <1>10. ASSUME NEW p \in Callers, RefreshLock(p) PROVE Backed' /\ OnlyRevokedAreClosed'
    <2>1. refresh'.doc.revoked \subseteq server.revoked
      <3>1. CASE UNCHANGED refresh
        BY <3>1 DEF Backed
      <3>2. CASE refresh' = [Free EXCEPT !.by = p, !.at = "epoch"]
        <4>1. refresh'.doc = NoDoc
          BY <3>2, ZenonT(60) DEF Free
        <4> QED BY <4>1 DEF NoDoc
      <3> QED BY <1>10, <3>1, <3>2 DEF RefreshLock
    <2> QED BY <1>10, <1>s, <2>1 DEF RefreshLock, Backed
  <1>11. CASE RefreshHit
    BY <1>11, <1>s, BackedUse DEF RefreshHit, Backed
  <1>12. CASE RefreshGet
    <2>1. refresh'.doc = server
      BY <1>12 DEF RefreshGet, TInv, TypeOK
    <2> QED BY <1>12, <1>s, <2>1 DEF RefreshGet, Backed
  <1>13. CASE RefreshGot
    <2>1. cached'.revoked \subseteq server.revoked
      BY <1>13, SMTT(60) DEF RefreshGot, cache, Backed, NoDoc
    <2> QED BY <1>13, <1>s, <2>1, BackedUse DEF RefreshGot, Backed
  <1>14. CASE RefreshFails
    BY <1>14, <1>s DEF RefreshFails, Done, KeepList, Free, NoDoc, Backed
  <1>15. ASSUME NEW n \in LocalSerials, AdminStores(n) PROVE Backed' /\ OnlyRevokedAreClosed'
    <2>1. /\ server.revoked \subseteq server'.revoked /\ n \in server'.revoked
          /\ admin'.doc = server' /\ admin'.serials = {n}
      BY <1>15 DEF AdminStores, Revoked
    <2> QED BY <1>15, <2>1, BackedMutation DEF AdminStores
  <1>16. CASE AdminCaches \/ AdminFails
    <2>1. /\ admin'.doc.revoked \subseteq server.revoked /\ admin'.serials \subseteq server.revoked
          /\ cached'.revoked \subseteq server.revoked
      <3>1. CASE AdminCaches
        <4>1. admin'.doc = NoDoc /\ admin'.serials = admin.serials
          BY <3>1 DEF AdminCaches, TInv, TypeOK
        <4> QED BY <3>1, <4>1 DEF AdminCaches, cache, NoDoc, Backed
      <3>2. CASE AdminFails
        BY <3>2 DEF AdminFails, NoAdmin, NoDoc, Backed
      <3> QED BY <1>16, <3>1, <3>2
    <2> QED BY <1>16, <1>s, <2>1 DEF AdminCaches, AdminFails, Backed
  <1>17. CASE AdminCloses
    <2>1. Backed'
      BY <1>17 DEF AdminCloses, NoAdmin, NoDoc, Backed
    <2>2. OnlyRevokedAreClosed'
      BY <1>17, <1>c, Zenon DEF AdminCloses, Backed
    <2> QED BY <2>1, <2>2
  <1>18. CASE UNCHANGED vars
    BY <1>18, Zenon DEF vars, Backed, OnlyRevokedAreClosed
  <1> QED BY <1>1, <1>2, <1>3, <1>4, <1>5, <1>6, <1>7, <1>8, <1>9, <1>10, <1>11, <1>12, <1>13,
             <1>14, <1>15, <1>16, <1>17, <1>18
          DEF Next, Enforce, Refreshing, handleRevokeCert

(* Whatever a replica cached and whichever refreshes failed, it never       *)
(* refuses or closes a session whose own certificate was not revoked.       *)
THEOREM OnlyTheRevoked == Spec => []OnlyRevokedAreClosed
  <1>1. TInv /\ Backed /\ OnlyRevokedAreClosed /\ [Next]_vars => (Backed /\ OnlyRevokedAreClosed)'
    BY BackedStep
  <1> QED BY <1>1, BackedInit, TypeInvariance, PTL DEF Spec

=============================================================================
