------------------------- MODULE SecretStoreSafety -------------------------
(***************************************************************************)
(* What the callers of the Secret-backed store may rely on, for any number *)
(* of replicas, calls and attempts: a single-use grant is redeemed once, a *)
(* counter counts, a revocation sticks, a refusal as used is final and the *)
(* bootstrap key is minted once.                                           *)
(*                                                                         *)
(* The argument has three layers.  A step either leaves the document or is *)
(* one call's mutation of the current document (Ledger).  Every document a *)
(* cache or a call holds is one the server held before, so what is true of *)
(* a record in it is true of the server's unless the record was withdrawn  *)
(* (KInv, which needs that a key id is never issued twice).  And what a    *)
(* call was told agrees with the copy it holds (FInv).                     *)
(***************************************************************************)
EXTENDS SecretStoreProofs, StateProofs, FiniteSetTheorems

(* The documents the server, the caches and the calls hold. *)
HeldDocs == {server.doc} \cup {cached[h].doc : h \in Replicas} \cup {call[c].sec.doc : c \in Callers}

Applied == {c \in Callers : call[c].applied}

(* A step that leaves the document, and one that is call c's mutation. *)
Rests ==
  /\ server'.doc = server.doc /\ Applied' = Applied
  /\ \A c \in Applied : call'[c].op = call[c].op
Commits(c) ==
  /\ c \notin Applied /\ Applied' = Applied \cup {c}
  /\ \A e \in Applied \cup {c} : call'[e].op = call[e].op
  /\ call[c].op \in Ops /\ Outcome(server.doc, call[c].op).changed
  /\ server'.doc = Outcome(server.doc, call[c].op).doc

(* What a revocation leaves in the document that was written. *)
Effected(d, o) ==
  /\ o.op = "RevokeKey" => o.kid \in DOMAIN d.keys /\ d.keys[o.kid].revoked
  /\ o.op = "RevokeCert" => o.serial \in DOMAIN d.certs /\ d.certs[o.serial] = o.notAfter

(* What a call was told agrees with the copy it holds. *)
CallFine(k) ==
  /\ IsSecret(k.sec) /\ k.attempt \in 0..MaxAttempts - 1 /\ k.result \in Results
  /\ k.result = "stored" => k.applied
  /\ k.applied => Effected(k.sec.doc, k.op)
  /\ k.result = "unchanged" /\ k.op.op = "RevokeKey" => Effected(k.sec.doc, k.op)
  /\ k.result = "used" => Outcome(k.sec.doc, k.op).err = "used"

FInv ==
  /\ IsSecret(server) /\ closed \subseteq Replicas
  /\ \A h \in Replicas : IsSecret(cached[h])
  /\ \A c \in Callers : CallFine(call[c]) /\ call[c].op \in OpsOf[c] \cup {NoOp}

-----------------------------------------------------------------------------
(* Outcomes of the operations the callers may ask for. *)

(* A read changes nothing; everything else is a sound mutation. *)
LEMMA OutcomeSound ==
  ASSUME NEW d, IsDocument(d), NEW o \in Ops
  PROVE  /\ Sound(Outcome(d, o), d, o, Now)
         /\ Outcome(d, o).changed => IsOp(o)
  <1>1. CASE o.op = "Read"
    BY <1>1, Quiet DEF Outcome, Errs, NoChange
  <1>2. CASE o.op # "Read"
    BY <1>2, ApplySound, SecretStoreConstants, ZenonT(60) DEF Outcome
  <1> QED BY <1>1, <1>2

(* A revocation that changed nothing found the key revoked. *)
LEMMA UnchangedRevocation ==
  ASSUME NEW d, NEW o, o.op = "RevokeKey", Outcome(d, o).err = "none", ~Outcome(d, o).changed
  PROVE  Effected(d, o)
  <1>1. Outcome(d, o) = Apply(d, o, Now) /\ Mutate(d, o, Now) = RevokeKey(d, o.kid)
    BY ZenonT(60) DEF Outcome, Mutate
  <1>2. o.kid \in DOMAIN d.keys /\ d.keys[o.kid].revoked
    BY <1>1 DEF Apply, RevokeKey, Refuse, NoChange, Accept
  <1> QED BY <1>2 DEF Effected

(* The empty store is a Secret. *)
LEMMA NoSecretTyped == IsSecret(NoSecret) /\ IsDocument(NewState) /\ NoSecret.doc = NewState
  BY ZenonT(60) DEF IsSecret, NoSecret, NewState, IsDocument

-----------------------------------------------------------------------------
(* A step of call c that leaves it as k. *)
LEMMA OneStep ==
  ASSUME CInv, FInv, NEW c \in Callers, NEW k, CallFine(k), call' = [call EXCEPT ![c] = k],
         k.op = call[c].op \/ k.op \in OpsOf[c],
         IsSecret(server'), closed' = closed,
         NEW z, IsSecret(z), z.doc \in {NewState, call[c].sec.doc},
         cached' = cached \/ cached' = [cached EXCEPT ![ReplicaOf[c]] = z],
         k.sec.doc \in {NewState, call[c].sec.doc, Cached(c).doc, server.doc, server'.doc},
         \/ /\ server'.doc = server.doc /\ k.applied = call[c].applied
            /\ k.applied => k.op = call[c].op
         \/ /\ ~call[c].applied /\ k.applied /\ k.op = call[c].op /\ k.op \in Ops
            /\ Outcome(server.doc, k.op).changed
            /\ server'.doc = Outcome(server.doc, k.op).doc
  PROVE  /\ FInv' /\ HeldDocs' \subseteq HeldDocs \cup {server'.doc, NewState}
         /\ Rests \/ \E e \in Callers : Commits(e)
  <1>0. ReplicaOf[c] \in Replicas
    BY SecretStoreConstants, ZenonT(60)
  <1>1. \A e \in Callers : call'[e] = IF e = c THEN k ELSE call[e]
    BY Zenon DEF CInv
  <1>2. \A h \in Replicas : cached'[h] = cached[h] \/ (h = ReplicaOf[c] /\ cached'[h] = z)
    BY ZenonT(60) DEF CInv
  <1>3. FInv'
    BY <1>1, <1>2, ZenonT(180) DEF FInv
  <1>4. HeldDocs' \subseteq HeldDocs \cup {server'.doc, NewState}
    <2>0. /\ server.doc \in HeldDocs /\ Cached(c).doc \in HeldDocs
          /\ \A h \in Replicas : cached[h].doc \in HeldDocs
          /\ \A e \in Callers : call[e].sec.doc \in HeldDocs
      BY <1>0, ZenonT(60) DEF HeldDocs, Cached
    <2>1. \A h \in Replicas : cached'[h].doc \in HeldDocs \cup {NewState}
      BY <1>2, <2>0, ZenonT(60)
    <2>2. \A e \in Callers : call'[e].sec.doc \in HeldDocs \cup {server'.doc, NewState}
      BY <1>1, <2>0, ZenonT(60)
    <2> QED BY <2>1, <2>2, ZenonT(180) DEF HeldDocs
  <1>5. CASE server'.doc = server.doc /\ k.applied = call[c].applied /\ (k.applied => k.op = call[c].op)
    BY <1>1, <1>3, <1>4, <1>5, SMTT(60) DEF Rests, Applied
  <1>6. CASE /\ ~call[c].applied /\ k.applied /\ k.op = call[c].op /\ k.op \in Ops
             /\ Outcome(server.doc, k.op).changed
             /\ server'.doc = Outcome(server.doc, k.op).doc
    <2>1. Applied' = Applied \cup {c} /\ c \notin Applied
      BY <1>1, <1>6, ZenonT(60) DEF Applied
    <2>2. \A e \in Applied \cup {c} : call'[e].op = call[e].op
      BY <1>1, <1>6, Zenon DEF Applied
    <2>3. Commits(c)
      BY <1>6, <2>1, <2>2, Zenon DEF Commits
    <2> QED BY <1>3, <1>4, <2>3, Zenon
  <1> QED BY <1>5, <1>6, ZenonT(60)

(* What every step keeps of the calls and the copies, and does to the       *)
(* document.                                                                *)
Steps ==
  /\ FInv' /\ HeldDocs' \subseteq HeldDocs \cup {server'.doc, NewState}
  /\ Rests \/ \E e \in Callers : Commits(e)

(* A call goes on, with nothing written and nothing told. *)
LEMMA Goes ==
  ASSUME CInv, FInv, NEW c \in Callers, NEW k, call' = [call EXCEPT ![c] = k],
         k.result = "none", k.applied = FALSE, call[c].applied = FALSE, k.op = call[c].op,
         k.attempt \in 0..MaxAttempts - 1, IsSecret(k.sec),
         IsSecret(server'), server'.doc = server.doc, closed' = closed,
         cached' = cached \/ cached' = [cached EXCEPT ![ReplicaOf[c]] = NoSecret]
                          \/ cached' = [cached EXCEPT ![ReplicaOf[c]] = call[c].sec],
         k.sec.doc \in {NewState, call[c].sec.doc, Cached(c).doc, server.doc}
  PROVE  Steps
  <1>1. CallFine(k)
    BY Zenon DEF CallFine, Results
  <1>2. IsSecret(call[c].sec)
    BY DEF FInv, CallFine
  <1>3. CASE cached' = [cached EXCEPT ![ReplicaOf[c]] = call[c].sec]
    <2> DEFINE z == call[c].sec
    <2>1. IsSecret(z) /\ z.doc = call[c].sec.doc /\ cached' = [cached EXCEPT ![ReplicaOf[c]] = z]
      BY <1>2, <1>3
    <2> HIDE DEF z
    <2>2. k.applied = call[c].applied /\ (k.applied => k.op = call[c].op)
      BY Zenon
    <2> QED BY <1>1, <2>1, <2>2, OneStep, ZenonT(60) DEF Steps
  <1>4. CASE cached' = cached \/ cached' = [cached EXCEPT ![ReplicaOf[c]] = NoSecret]
    BY <1>1, <1>4, NoSecretTyped, OneStep, ZenonT(60) DEF Steps
  <1> QED BY <1>3, <1>4, Zenon

(* A call ends, told r. *)
LEMMA Ends ==
  ASSUME CInv, FInv, NEW c \in Callers, NEW r \in Results, Finish(c, r),
         server' = server, closed' = closed,
         cached' = cached \/ cached' = [cached EXCEPT ![ReplicaOf[c]] = NoSecret]
                          \/ cached' = [cached EXCEPT ![ReplicaOf[c]] = call[c].sec],
         r = "stored" => call[c].applied,
         r = "unchanged" /\ call[c].op.op = "RevokeKey" => Effected(call[c].sec.doc, call[c].op),
         r = "used" => Outcome(call[c].sec.doc, call[c].op).err = "used"
  PROVE  Steps
  <1> DEFINE k == [call[c] EXCEPT !.at = "done", !.result = r]
  <1>0. CallOK(call[c]) /\ CallFine(call[c]) /\ IsSecret(server)
    BY DEF CInv, FInv
  <1>1. call' = [call EXCEPT ![c] = k]
    BY ZenonT(60) DEF Finish
  <1>2. /\ k.result = r /\ k.applied = call[c].applied /\ k.op = call[c].op
        /\ k.sec = call[c].sec /\ k.attempt = call[c].attempt
    BY <1>0, ZenonT(60) DEF CallOK
  <1> HIDE DEF k
  <1>3. CallFine(k) /\ IsSecret(call[c].sec)
    BY <1>0, <1>2 DEF CallFine
  <1>4. CASE cached' = [cached EXCEPT ![ReplicaOf[c]] = call[c].sec]
    BY <1>0, <1>1, <1>2, <1>3, <1>4, OneStep, ZenonT(60) DEF Steps
  <1>5. CASE cached' = cached \/ cached' = [cached EXCEPT ![ReplicaOf[c]] = NoSecret]
    BY <1>0, <1>1, <1>2, <1>3, <1>5, NoSecretTyped, OneStep, ZenonT(60) DEF Steps
  <1> QED BY <1>4, <1>5, ZenonT(60)

(* What is known of a call that is on its way. *)
LEMMA UnderWay ==
  ASSUME CInv, FInv, NEW c \in Callers
  PROVE  /\ CallOK(call[c]) /\ CallFine(call[c]) /\ IsSecret(call[c].sec) /\ IsSecret(Cached(c))
         /\ IsSecret(server) /\ call[c].attempt \in 0..MaxAttempts - 1
         /\ call[c].at \notin {"won", "done"} => call[c].applied = FALSE /\ call[c].result = "none"
         /\ call[c].at = "won" => call[c].applied
         /\ call[c].at # "idle" => call[c].op \in Ops
  BY CallShape, ZenonT(60) DEF CInv, FInv, CallFine, CallOK, Cached

(* The first steps of a call. *)
LEMMA FineBegin == ASSUME CInv, FInv, NEW c \in Callers, Begin(c) PROVE Steps
  <1>0. CallOK(call[c]) /\ IsSecret(server) /\ call[c].applied = FALSE
    BY UnderWay, Zenon DEF Begin
  <1>1. PICK o \in OpsOf[c] :
          call' = [call EXCEPT ![c] =
            IF ReplicaOf[c] \in closed
            THEN [Idle EXCEPT !.at = "done", !.op = o, !.result = "closed"]
            ELSE [Idle EXCEPT !.at = "load", !.op = o]]
    BY Zenon DEF Begin
  <1> DEFINE k == IF ReplicaOf[c] \in closed
                  THEN [Idle EXCEPT !.at = "done", !.op = o, !.result = "closed"]
                  ELSE [Idle EXCEPT !.at = "load", !.op = o]
  <1>2. /\ k.result \in {"closed", "none"} /\ k.applied = FALSE /\ k.sec = NoSecret
        /\ k.attempt = 0 /\ k.op = o
    BY DEF Idle
  <1>3. call' = [call EXCEPT ![c] = k]
    BY <1>1
  <1> HIDE DEF k
  <1>4. CallFine(k)
    BY <1>2, NoSecretTyped, SecretStoreConstants, SMTT(60) DEF CallFine, Results
  <1>5. k.sec.doc = NewState
    BY <1>2, NoSecretTyped
  <1> QED BY <1>0, <1>2, <1>3, <1>4, <1>5, NoSecretTyped, OneStep, ZenonT(180) DEF Begin, Steps

(* Reading the Secret, or the cache. *)
LEMMA FineLoad ==
  ASSUME CInv, FInv, NEW c \in Callers,
         LoadCached(c) \/ GetSecret(c) \/ ReGet(c) \/ CacheLoaded(c) \/ CreateSecret(c)
  PROVE  Steps
  <1>0. /\ CallOK(call[c]) /\ IsSecret(call[c].sec) /\ IsSecret(Cached(c)) /\ IsSecret(server)
        /\ call[c].attempt \in 0..MaxAttempts - 1
        /\ call[c].applied = FALSE /\ call[c].result = "none"
    BY UnderWay, Zenon DEF LoadCached, GetSecret, ReGet, CacheLoaded, CreateSecret
  <1>1. ASSUME NEW a, NEW s, call' = [call EXCEPT ![c] = [call[c] EXCEPT !.at = a, !.sec = s]],
               cached' = cached, closed' = closed, IsSecret(s), IsSecret(server'),
               server'.doc = server.doc,
               s.doc \in {NewState, call[c].sec.doc, Cached(c).doc, server.doc}
        PROVE  Steps
    <2> DEFINE k == [call[c] EXCEPT !.at = a, !.sec = s]
    <2>1. /\ k.result = "none" /\ k.applied = FALSE /\ k.attempt = call[c].attempt /\ k.sec = s
          /\ k.op = call[c].op
      BY <1>0 DEF CallOK
    <2>2. call' = [call EXCEPT ![c] = k]
      BY <1>1
    <2> HIDE DEF k
    <2> QED BY <1>0, <1>1, <2>1, <2>2, Goes, ZenonT(60)
  <1>2. ASSUME NEW a, call' = [call EXCEPT ![c] = [call[c] EXCEPT !.at = a]],
               closed' = closed, server' = server,
               cached' = cached \/ cached' = [cached EXCEPT ![ReplicaOf[c]] = call[c].sec]
        PROVE  Steps
    <2> DEFINE k == [call[c] EXCEPT !.at = a]
    <2>1. /\ k.result = "none" /\ k.applied = FALSE /\ k.attempt = call[c].attempt
          /\ k.sec = call[c].sec /\ k.op = call[c].op
      BY <1>0 DEF CallOK
    <2>2. call' = [call EXCEPT ![c] = k]
      BY <1>2
    <2> HIDE DEF k
    <2> QED BY <1>0, <1>2, <2>1, <2>2, Goes, ZenonT(60)
  <1>3. CASE LoadCached(c)
    BY <1>0, <1>1, <1>3, ZenonT(60) DEF LoadCached
  <1>4. CASE GetSecret(c)
    BY <1>0, <1>1, <1>4, ZenonT(60) DEF GetSecret
  <1>5. CASE ReGet(c)
    BY <1>0, <1>1, <1>5, ZenonT(60) DEF ReGet
  <1>6. CASE CacheLoaded(c)
    BY <1>2, <1>6, ZenonT(60) DEF CacheLoaded, cache
  <1>7. CASE CreateSecret(c) /\ server.rv = 0
    <2>1. /\ server' = [rv |-> 1, doc |-> NewState] /\ cached' = cached /\ closed' = closed
          /\ call' = [call EXCEPT ![c] = [call[c] EXCEPT !.at = "got", !.sec = server']]
      BY <1>7, Zenon DEF CreateSecret
    <2>2. IsSecret(server') /\ server'.doc = NewState /\ server.doc = NewState
      BY <1>7, <2>1, NoSecretTyped, Zenon DEF IsSecret, CInv
    <2> QED BY <1>1, <2>1, <2>2, Zenon
  <1>8. CASE CreateSecret(c) /\ server.rv # 0
    BY <1>2, <1>8 DEF CreateSecret
  <1> QED BY <1>3, <1>4, <1>5, <1>6, <1>7, <1>8, Zenon

(* The conditional write: accepted, it is the call's mutation of the        *)
(* current document; refused, it is nothing.                                *)
LEMMA FineUpdate ==
  ASSUME CInv, FInv, NEW c \in Callers, UpdateSecret(c) PROVE Steps
  <1>0. /\ CallOK(call[c]) /\ IsSecret(call[c].sec) /\ IsSecret(server)
        /\ call[c].attempt \in 0..MaxAttempts - 1 /\ call[c].op \in Ops
        /\ call[c].applied = FALSE /\ call[c].result = "none" /\ call[c].at = "update"
        /\ Known(call[c].sec, server)
    BY UnderWay, CallShape, Zenon DEF UpdateSecret
  <1>1. CASE Current(c)
    <2> DEFINE r == Outcome(call[c].sec.doc, call[c].op)
               k == [call[c] EXCEPT !.at = "won", !.sec = server', !.applied = TRUE]
    <2>1. /\ server' = [rv |-> server.rv + 1, doc |-> r.doc] /\ closed' = closed /\ cached' = cached
          /\ call' = [call EXCEPT ![c] = k]
      BY <1>1, ZenonT(60) DEF UpdateSecret
    <2>2. /\ k.result = "none" /\ k.applied = TRUE /\ k.attempt = call[c].attempt
          /\ k.sec = server' /\ k.op = call[c].op
      BY <1>0, Zenon DEF CallOK
    <2>3. r.changed /\ r = Outcome(server.doc, call[c].op)
      BY <1>0, <1>1, ZenonT(60) DEF CallOK, Known, Current
    <2>4. Sound(r, server.doc, call[c].op, Now)
      BY <1>0, <2>3, OutcomeSound, ZenonT(60) DEF IsSecret
    <2> HIDE DEF k, r
    <2>5. IsDocument(r.doc) /\ Effect(server.doc, r.doc, call[c].op, Now)
      BY <2>3, <2>4, ZenonT(60) DEF Sound
    <2>6. server'.doc = r.doc /\ IsSecret(server')
      BY <1>0, <2>1, <2>5 DEF IsSecret
    <2>7. CallFine(k)
      BY <1>0, <2>2, <2>5, <2>6, ZenonT(60) DEF CallFine, Effect, Effected, Results
    <2>8. k.sec.doc = server'.doc /\ k.op \in Ops /\ Outcome(server.doc, k.op) = r
      BY <1>0, <2>2, <2>3
    <2> QED BY <1>0, <2>1, <2>2, <2>3, <2>6, <2>7, <2>8, NoSecretTyped, OneStep, ZenonT(60) DEF Steps
  <1>2. CASE ~Current(c)
    <2> DEFINE k == [call[c] EXCEPT !.at = "lost"]
    <2>1. /\ server' = server /\ closed' = closed /\ cached' = cached
          /\ call' = [call EXCEPT ![c] = k]
      BY <1>2 DEF UpdateSecret
    <2>2. /\ k.result = "none" /\ k.applied = FALSE /\ k.attempt = call[c].attempt
          /\ k.sec = call[c].sec /\ k.op = call[c].op
      BY <1>0 DEF CallOK
    <2> HIDE DEF k
    <2> QED BY <1>0, <2>1, <2>2, Goes, ZenonT(60)
  <1> QED BY <1>1, <1>2

(* What an operation reports is a result a call may have. *)
LEMMA ErrsAreResults == Errs \subseteq Results
  BY DEF Errs, Results

(* The steps that end a call, or send it round again. *)
LEMMA FineEnd ==
  ASSUME CInv, FInv, NEW c \in Callers, Decide(c) \/ Updated(c) \/ Conflict(c) \/ Unavailable(c)
  PROVE  Steps
  <1>0. /\ CallOK(call[c]) /\ IsSecret(call[c].sec) /\ IsSecret(server)
        /\ call[c].attempt \in 0..MaxAttempts - 1 /\ call[c].op \in Ops
        /\ server' = server /\ closed' = closed
    BY UnderWay, ZenonT(60) DEF Decide, Updated, Conflict, Unavailable
  <1>1. CASE Decide(c)
    <2> DEFINE r == Outcome(call[c].sec.doc, call[c].op)
    <2>1. r.err \in Errs /\ r.err \notin {"stored", "unchanged"} /\ cached' = cached
      BY <1>0, <1>1, OutcomeSound, ZenonT(60) DEF IsSecret, Sound, Errs, Decide
    <2>2. call[c].applied = FALSE /\ call[c].result = "none"
      BY <1>1, UnderWay, Zenon DEF Decide
    <2>3. CASE call' = [call EXCEPT ![c].at = "update"]
      <3> DEFINE k == [call[c] EXCEPT !.at = "update"]
      <3>1. call' = [call EXCEPT ![c] = k]
        BY <2>3
      <3>2. /\ k.result = "none" /\ k.applied = FALSE /\ k.attempt = call[c].attempt
            /\ k.sec = call[c].sec /\ k.op = call[c].op
        BY <1>0, <2>2, Zenon DEF CallOK
      <3> HIDE DEF k, r
      <3> QED BY <1>0, <2>1, <2>2, <3>1, <3>2, Goes, ZenonT(60)
    <2>4. CASE Finish(c, r.err)
      <3> DEFINE w == r.err
      <3>1. w \in Results /\ w = Outcome(call[c].sec.doc, call[c].op).err /\ Finish(c, w)
            /\ w \notin {"stored", "unchanged"}
        BY <2>1, <2>4, ErrsAreResults, ZenonT(60)
      <3> HIDE DEF w, r
      <3> QED BY <1>0, <2>1, <3>1, Ends, ZenonT(60)
    <2>5. CASE r.err = "none" /\ ~r.changed /\ Finish(c, "unchanged")
      <3>1. call[c].op.op = "RevokeKey" => Effected(call[c].sec.doc, call[c].op)
        BY <2>5, UnchangedRevocation
      <3>2. "unchanged" \in Results
        BY DEF Results
      <3> HIDE DEF r
      <3> QED BY <1>0, <2>1, <2>5, <3>1, <3>2, Ends, ZenonT(60)
    <2> QED BY <1>1, <2>3, <2>4, <2>5, ZenonT(60) DEF Decide
  <1>2. CASE Updated(c)
    <2>1. call[c].applied /\ "stored" \in Results
      BY <1>2, UnderWay, ZenonT(60) DEF Updated, Results
    <2> QED BY <1>0, <1>2, <2>1, Ends, Zenon DEF Updated, cache
  <1>3. CASE Unavailable(c)
    <2>1. "unavailable" \in Results
      BY DEF Results
    <2> QED BY <1>0, <1>3, <2>1, Ends, ZenonT(60) DEF Unavailable
  <1>4. CASE Conflict(c) /\ call[c].attempt + 1 < MaxAttempts
    <2> DEFINE k == [call[c] EXCEPT !.at = "load", !.attempt = @ + 1]
    <2>1. /\ call' = [call EXCEPT ![c] = k] /\ cached' = [cached EXCEPT ![ReplicaOf[c]] = NoSecret]
          /\ call[c].applied = FALSE /\ call[c].result = "none"
      BY <1>4, UnderWay, ZenonT(60) DEF Conflict, cache
    <2>2. /\ k.result = "none" /\ k.applied = FALSE /\ k.attempt = call[c].attempt + 1
          /\ k.sec = call[c].sec /\ k.op = call[c].op
      BY <1>0, <2>1, ZenonT(60) DEF CallOK
    <2> HIDE DEF k
    <2>3. k.attempt \in 0..MaxAttempts - 1
      BY <1>0, <1>4, <2>2, SecretStoreConstants, SMTT(60)
    <2> QED BY <1>0, <2>1, <2>2, <2>3, Goes, ZenonT(60)
  <1>5. CASE Conflict(c) /\ ~(call[c].attempt + 1 < MaxAttempts)
    <2>1. "conflict" \in Results
      BY DEF Results
    <2> QED BY <1>0, <1>5, <2>1, Ends, Zenon DEF Conflict, cache
  <1> QED BY <1>1, <1>2, <1>3, <1>4, <1>5, ZenonT(60)

(* Expiry, Close and a restart drop copies and end calls. *)
LEMMA FineReplica ==
  ASSUME CInv, FInv, NEW h \in Replicas, Expire(h) \/ Close(h) \/ Restart(h)
  PROVE  Steps
  <1>1. /\ server' = server /\ cached' = [cached EXCEPT ![h] = NoSecret]
        /\ closed' \subseteq Replicas
    BY Zenon DEF Expire, Close, Restart, FInv
  <1>2. \A c \in Callers : /\ CallFine(call'[c]) /\ call'[c].sec = call[c].sec
                           /\ call'[c].applied = call[c].applied /\ call'[c].op = call[c].op
    <2> TAKE c \in Callers
    <2>0. CallOK(call[c]) /\ CallFine(call[c])
      BY DEF CInv, FInv
    <2>1. CASE call' = call
      BY <2>0, <2>1
    <2>2. CASE Restart(h) /\ c \in Running(h)
      <3> DEFINE k == [call[c] EXCEPT !.at = "done", !.result = "unavailable"]
      <3>1. call'[c] = k
        BY <2>2, Zenon DEF Restart
      <3>2. /\ k.sec = call[c].sec /\ k.applied = call[c].applied /\ k.op = call[c].op
            /\ k.attempt = call[c].attempt /\ k.result = "unavailable"
        BY <2>0 DEF CallOK
      <3> HIDE DEF k
      <3>3. CallFine(k)
        BY <2>0, <3>2 DEF CallFine, Results
      <3> QED BY <3>1, <3>2, <3>3
    <2>3. CASE Restart(h) /\ c \notin Running(h)
      BY <2>0, <2>3, Zenon DEF Restart
    <2> QED BY <2>1, <2>2, <2>3, ZenonT(60) DEF Expire, Close
  <1>3. \A g \in Replicas : cached'[g] = IF g = h THEN NoSecret ELSE cached[g]
    BY <1>1 DEF CInv
  <1>4. FInv'
    BY <1>1, <1>2, <1>3, NoSecretTyped, ZenonT(60) DEF FInv
  <1>5. HeldDocs' \subseteq HeldDocs \cup {server'.doc, NewState}
    <2>1. \A g \in Replicas : cached'[g].doc \in HeldDocs \cup {NewState}
      BY <1>3, NoSecretTyped DEF HeldDocs
    <2>2. \A c \in Callers : call'[c].sec.doc \in HeldDocs
      BY <1>2 DEF HeldDocs
    <2> QED BY <1>1, <2>1, <2>2, ZenonT(60) DEF HeldDocs
  <1>6. Rests
    BY <1>1, <1>2 DEF Rests, Applied
  <1> QED BY <1>4, <1>5, <1>6, ZenonT(60) DEF Steps

(* Every step. *)
LEMMA Ledger == ASSUME CInv, FInv, [Next]_vars PROVE Steps
  <1>1. CASE UNCHANGED vars
    <2>1. FInv' /\ HeldDocs' = HeldDocs /\ Rests
      BY <1>1 DEF vars, FInv, HeldDocs, Rests, Applied
    <2> QED BY <2>1 DEF Steps
  <1>2. CASE Next
    BY <1>2, FineBegin, FineLoad, FineUpdate, FineEnd, FineReplica, ZenonT(60) DEF Next, mutate
  <1> QED BY <1>1, <1>2

(* At the start nobody was told anything. *)
LEMMA FineInit == Init => FInv
  <1> SUFFICES ASSUME Init PROVE FInv
    OBVIOUS
  <1>1. CallFine(Idle) /\ Idle.op = NoOp
    BY NoSecretTyped, SecretStoreConstants DEF CallFine, Idle, Results
  <1>2. IsSecret(server)
    BY SecretStoreConstants DEF Init
  <1> QED BY <1>1, <1>2, NoSecretTyped, Zenon DEF Init, FInv

LEMMA FineInvariance == Spec => [](CInv /\ FInv)
  <1>1. CInv /\ FInv /\ [Next]_vars => FInv'
    BY Ledger DEF Steps
  <1> QED BY <1>1, FineInit, CopiesInvariance, PTL DEF Spec

(* Every copy of the Secret is a well-formed document, attempts stay below  *)
(* Options.MaxAttempts and a call reports only what the methods return.     *)
THEOREM TypeCorrect == Spec => []TypeOK
  <1>1. CInv /\ FInv => TypeOK
    <2> SUFFICES ASSUME CInv, FInv PROVE TypeOK
      OBVIOUS
    <2>1. \A c \in Callers : CallOK(call[c]) /\ CallFine(call[c])
      BY DEF CInv, FInv
    <2> QED BY <2>1 DEF TypeOK, FInv, CallOK, CallFine
  <1> QED BY <1>1, FineInvariance, PTL

-----------------------------------------------------------------------------
(* What the server's document keeps of the ones it was. *)

(* Every call that might issue a record under kid has done so. *)
Issued(kid) == \A c \in Callers : \A o \in OpsOf[c] : Issues(o, kid) => c \in Applied

(* A record k that became m, redeemed or revoked on the way. *)
Evolved(k, m) ==
  /\ m.class = k.class /\ m.cluster = k.cluster /\ m.expires = k.expires
  /\ m.reusable = k.reusable /\ m.max = k.max /\ m.redemptions >= k.redemptions
  /\ k.used => m.used
  /\ k.revoked => m.revoked

(* The keys of d that e still has, and the revocations it must have. *)
KeysEvolve(d, e) ==
  \A kid \in DOMAIN d.keys :
    kid \in DOMAIN e.keys => Minted(kid) \/ Evolved(d.keys[kid], e.keys[kid])
CertsStay(d, e) ==
  \A s \in DOMAIN d.certs :
    Lasting(d.certs[s]) /\ Outlasts(s) => s \in DOMAIN e.certs /\ Lasting(e.certs[s])

(* The records of d are accounted for, and none under the fixed id is a     *)
(* grant.                                                                   *)
Accounted(d) ==
  \A kid \in DOMAIN d.keys : Issued(kid) /\ (Minted(kid) => ~IsGrant(d.keys[kid]))

KInv ==
  /\ \A d \in HeldDocs : Accounted(d) /\ KeysEvolve(d, server.doc) /\ CertsStay(d, server.doc)
  /\ \A c \in Applied : call[c].op.op = "BurnEnrollment" => Issued(call[c].op.kid)

(* What is held is well formed. *)
LEMMA HeldTyped ==
  ASSUME FInv
  PROVE  server.doc \in HeldDocs /\ \A d \in HeldDocs : IsDocument(d)
  BY ZenonT(60) DEF FInv, HeldDocs, IsSecret, CallFine

(* A call's mutation is sound, and the call's own. *)
LEMMA Committed ==
  ASSUME FInv, NEW c \in Callers, Commits(c)
  PROVE  /\ IsOp(call[c].op) /\ call[c].op \in OpsOf[c] /\ call[c].op \in Ops
         /\ IsDocument(server.doc) /\ IsDocument(server'.doc)
         /\ KeysFollow(server.doc, server'.doc, call[c].op, Now)
         /\ CertsFollow(server.doc, server'.doc, call[c].op, Now)
         /\ Remains(server.doc, server'.doc, call[c].op, Now)
         /\ Effect(server.doc, server'.doc, call[c].op, Now)
  <1> DEFINE o == call[c].op
             r == Outcome(server.doc, o)
  <1>1. o \in Ops /\ r.changed /\ server'.doc = r.doc /\ IsDocument(server.doc)
    BY HeldTyped DEF Commits
  <1>2. Sound(r, server.doc, o, Now) /\ IsOp(o)
    BY <1>1, OutcomeSound, Zenon
  <1>3. o \in OpsOf[c]
    BY <1>1, SecretStoreConstants DEF FInv
  <1> HIDE DEF r
  <1> QED BY <1>1, <1>2, <1>3, ZenonT(60) DEF Sound

(* Issuing is forever. *)
LEMMA IssuedStays ==
  ASSUME NEW kid, Issued(kid), Applied \subseteq Applied' PROVE Issued(kid)'
  BY DEF Issued

(* Evolution is a preorder, and every mutation is a step of it. *)
LEMMA EvolvedStep ==
  ASSUME NEW j \in Key, NEW k \in Key, NEW m \in Key, NEW serial, Evolved(j, k),
         Kept(k, m) \/ Redeemed(k, m, serial)
  PROVE  Evolved(j, m)
  <1>1. j.redemptions \in Nat /\ k.redemptions \in Nat /\ m.redemptions \in Nat
    BY DEF Key
  <1>2. m.redemptions >= j.redemptions
    BY <1>1 DEF Evolved, Kept, Redeemed
  <1> QED BY <1>2 DEF Evolved, Kept, Redeemed

(* A record that appears under an id that is not the fixed one was issued   *)
(* just now, and never before.                                              *)
LEMMA Appears ==
  ASSUME FInv, NEW c \in Callers, Commits(c), NEW kid \in DOMAIN server'.doc.keys,
         kid \notin DOMAIN server.doc.keys, ~Minted(kid)
  PROVE  /\ Issues(call[c].op, kid) /\ server'.doc.keys[kid] = call[c].op.key
         /\ ~Issued(kid) /\ Issued(kid)'
  <1> DEFINE o == call[c].op
             d == server.doc
             e == server'.doc
  <1>1. /\ KeysFollow(d, e, o, Now) /\ o \in Ops /\ o \in OpsOf[c] /\ IsDocument(e)
    BY Committed
  <1>2. Applied' = Applied \cup {c} /\ c \notin Applied
    BY DEF Commits
  <1>3. ~Mints(o, kid)
    BY <1>1, SMTT(60) DEF Minted
  <1> HIDE DEF o, d, e
  <1>4. Issues(o, kid) /\ e.keys[kid] = o.key
    BY <1>1, <1>3, Zenon DEF KeysFollow, d, e
  <1>5. kid \in KIDs
    BY <1>1, Zenon DEF IsDocument, e
  <1>6. \A x \in Callers \ {c} : \A p \in OpsOf[x] : ~Issues(p, kid)
    BY <1>1, <1>4, <1>5, KeyIDs, ZenonT(60)
  <1>7. ~Issued(kid)
    BY <1>1, <1>2, <1>4, Zenon DEF Issued
  <1>8. Issued(kid)'
    BY <1>2, <1>6 DEF Issued
  <1> QED BY <1>4, <1>7, <1>8, ZenonT(60) DEF o, e

(* The server's next document is accounted for. *)
LEMMA NextAccounted ==
  ASSUME FInv, KInv, NEW c \in Callers, Commits(c) PROVE Accounted(server.doc)'
  <1> DEFINE o == call[c].op
             d == server.doc
             e == server'.doc
  <1>1. /\ KeysFollow(d, e, o, Now) /\ o \in Ops /\ IsDocument(e) /\ Accounted(d)
    BY Committed, HeldTyped, Zenon DEF KInv
  <1>2. Applied \subseteq Applied'
    BY DEF Commits
  <1> HIDE DEF o, d, e
  <1> SUFFICES ASSUME NEW kid \in DOMAIN e.keys
               PROVE  Issued(kid)' /\ (Minted(kid) => ~IsGrant(e.keys[kid]))
    BY DEF Accounted, e
  <1>3. kid \in KIDs
    BY <1>1 DEF IsDocument
  <1>4. Issued(kid)'
    <2>1. CASE kid \in DOMAIN d.keys
      BY <1>1, <1>2, <2>1, IssuedStays, ZenonT(60) DEF Accounted
    <2>2. CASE Minted(kid)
      BY <1>3, <2>2, KeyIDs, ZenonT(60) DEF Issued
    <2>3. CASE kid \notin DOMAIN d.keys /\ ~Minted(kid)
      BY <2>3, Appears DEF d, e
    <2> QED BY <2>1, <2>2, <2>3
  <1>5. ASSUME Minted(kid) PROVE ~IsGrant(e.keys[kid])
    <2>1. \A p \in Ops : ~Issues(p, kid)
      BY <1>3, <1>5, KeyIDs, SMTT(60) DEF Ops
    <2>2. kid \in DOMAIN d.keys => ~IsGrant(d.keys[kid])
      BY <1>1, <1>5, Zenon DEF Accounted
    <2>3. Mints(o, kid) => ~IsGrant(o.key)
      BY <1>1, <1>3, KeyIDs, ZenonT(60)
    <2> QED BY <1>1, <2>1, <2>2, <2>3, ZenonT(60) DEF KeysFollow, Kept, Redeemed, IsGrant
  <1> QED BY <1>4, <1>5, Zenon

(* What the caches and calls hold evolves into the next document. *)
LEMMA NextEvolves ==
  ASSUME FInv, KInv, NEW c \in Callers, Commits(c), NEW x \in HeldDocs
  PROVE  KeysEvolve(x, server'.doc)
  <1> DEFINE o == call[c].op
             d == server.doc
             e == server'.doc
  <1>1. /\ KeysFollow(d, e, o, Now) /\ o \in Ops /\ IsDocument(d) /\ IsDocument(e) /\ IsDocument(x)
        /\ KeysEvolve(x, d) /\ Accounted(x)
    BY Committed, HeldTyped DEF KInv
  <1> HIDE DEF o, d, e
  <1> SUFFICES ASSUME NEW kid \in DOMAIN x.keys, kid \in DOMAIN e.keys, ~Minted(kid)
               PROVE  Evolved(x.keys[kid], e.keys[kid])
    BY Zenon DEF KeysEvolve, e
  <1>2. kid \in DOMAIN d.keys
    BY <1>1, Appears DEF Accounted, d, e
  <1>3. ~Mints(o, kid)
    BY <1>1 DEF Minted
  <1>4. x.keys[kid] \in Key /\ d.keys[kid] \in Key /\ e.keys[kid] \in Key
    BY <1>1, <1>2 DEF IsDocument
  <1>5. Evolved(x.keys[kid], d.keys[kid])
    BY <1>1, <1>2 DEF KeysEvolve
  <1>6. Kept(d.keys[kid], e.keys[kid]) \/ Redeemed(d.keys[kid], e.keys[kid], o.serial)
    BY <1>1, <1>2, <1>3, ZenonT(60) DEF KeysFollow
  <1> QED BY <1>4, <1>5, <1>6, EvolvedStep, ZenonT(60)

(* A revocation that no pruning reaches stays on the list. *)
LEMMA NextCerts ==
  ASSUME FInv, KInv, NEW c \in Callers, Commits(c), NEW x \in HeldDocs
  PROVE  CertsStay(x, server'.doc)
  <1> DEFINE o == call[c].op
             d == server.doc
             e == server'.doc
  <1>1. CertsFollow(d, e, o, Now) /\ o \in Ops /\ CertsStay(x, d)
    BY Committed, Zenon DEF KInv
  <1> HIDE DEF o, d, e
  <1> SUFFICES ASSUME NEW s \in DOMAIN x.certs, Lasting(x.certs[s]), Outlasts(s)
               PROVE  s \in DOMAIN e.certs /\ Lasting(e.certs[s])
    BY DEF CertsStay, e
  <1>2. s \in DOMAIN d.certs /\ Lasting(d.certs[s])
    BY <1>1 DEF CertsStay
  <1>3. o.op = "RevokeCert" /\ o.serial = s => Lasting(o.notAfter)
    BY <1>1 DEF Outlasts
  <1>4. o.op = "Prune" => ~Passed(d.certs[s], o.retain, Now)
    BY <1>1, <1>2 DEF Lasting
  <1> QED BY <1>1, <1>2, <1>3, <1>4, ZenonT(60) DEF CertsFollow

(* A document evolves into itself, and the empty one into any. *)
LEMMA Reflexive ==
  ASSUME NEW d, IsDocument(d)
  PROVE  /\ KeysEvolve(d, d) /\ CertsStay(d, d)
         /\ KeysEvolve(NewState, d) /\ CertsStay(NewState, d)
  <1>1. \A kid \in DOMAIN d.keys : d.keys[kid].redemptions \in Nat
    BY Zenon DEF IsDocument, Key
  <1>2. KeysEvolve(d, d)
    BY <1>1 DEF KeysEvolve, Evolved
  <1>3. DOMAIN NewState.keys = {} /\ DOMAIN NewState.certs = {}
    BY DEF NewState
  <1> QED BY <1>2, <1>3, ZenonT(60) DEF KeysEvolve, CertsStay

(* At the start the documents are the server's and the empty one. *)
LEMMA KInit == Init => KInv
  <1> SUFFICES ASSUME Init PROVE KInv
    OBVIOUS
  <1>1. server \in InitServers /\ IsDocument(server.doc)
    BY SecretStoreConstants DEF Init, IsSecret
  <1>2. Applied = {}
    BY DEF Init, Applied, Idle
  <1>3. HeldDocs \subseteq {server.doc, NewState}
    <2>1. \A h \in Replicas : cached[h].doc = NewState
      BY NoSecretTyped DEF Init
    <2>2. \A c \in Callers : call[c].sec.doc = NewState
      BY NoSecretTyped, Zenon DEF Init, Idle
    <2> QED BY <2>1, <2>2 DEF HeldDocs
  <1>4. Accounted(server.doc)
    <2> SUFFICES ASSUME NEW kid \in DOMAIN server.doc.keys
                 PROVE  Issued(kid) /\ (Minted(kid) => ~IsGrant(server.doc.keys[kid]))
      BY Zenon DEF Accounted
    <2>1. kid \in KIDs
      BY <1>1 DEF IsDocument
    <2> QED BY <1>1, <2>1, KeyIDs, Zenon DEF Issued
  <1>5. Accounted(NewState)
    BY DEF Accounted, NewState
  <1> QED BY <1>1, <1>2, <1>3, <1>4, <1>5, Reflexive, ZenonT(60) DEF KInv

LEMMA KStep == ASSUME CInv, FInv, KInv, [Next]_vars PROVE KInv'
  <1>1. /\ FInv' /\ HeldDocs' \subseteq HeldDocs \cup {server'.doc, NewState}
        /\ Rests \/ \E e \in Callers : Commits(e)
    BY Ledger DEF Steps
  <1>2. IsDocument(server'.doc)
    BY <1>1 DEF FInv, IsSecret
  <1>3. Applied \subseteq Applied'
    BY <1>1 DEF Rests, Commits
  <1>4. \A x \in HeldDocs : Accounted(x)'
    BY <1>3, IssuedStays DEF KInv, Accounted
  <1>5. Accounted(NewState)'
    BY DEF Accounted, NewState
  <1>6. CASE Rests
    <2>1. server'.doc = server.doc /\ Applied' = Applied /\ \A c \in Applied : call'[c].op = call[c].op
      BY <1>6 DEF Rests
    <2>2. server'.doc \in HeldDocs
      BY <2>1, HeldTyped, Zenon
    <2>3. \A x \in HeldDocs' :
            Accounted(x)' /\ KeysEvolve(x, server'.doc) /\ CertsStay(x, server'.doc)
      BY <1>1, <1>2, <1>4, <1>5, <2>1, <2>2, Reflexive, ZenonT(60) DEF KInv
    <2>4. \A c \in Applied' : (call[c].op.op = "BurnEnrollment" => Issued(call[c].op.kid))'
      BY <1>3, <2>1, ZenonT(60) DEF KInv, Issued
    <2> QED BY <2>3, <2>4 DEF KInv
  <1>7. ASSUME NEW c \in Callers, Commits(c) PROVE KInv'
    <2>1. \A x \in HeldDocs' :
            Accounted(x)' /\ KeysEvolve(x, server'.doc) /\ CertsStay(x, server'.doc)
      <3>1. ASSUME NEW x \in HeldDocs
            PROVE  Accounted(x)' /\ KeysEvolve(x, server'.doc) /\ CertsStay(x, server'.doc)
        BY <1>4, <1>7, NextEvolves, NextCerts, SMTT(60)
      <3>2. Accounted(server.doc)'
        BY <1>7, NextAccounted, SMTT(60)
      <3> QED BY <1>1, <1>2, <1>5, <3>1, <3>2, Reflexive, ZenonT(60)
    <2>2. Applied' = Applied \cup {c} /\ \A e \in Applied \cup {c} : call'[e].op = call[e].op
      BY <1>7 DEF Commits
    <2>3. call[c].op.op = "BurnEnrollment" => Issued(call[c].op.kid)
      BY <1>7, Committed, HeldTyped, ZenonT(60) DEF Effect, KInv, Accounted
    <2>4. \A e \in Applied' : (call[e].op.op = "BurnEnrollment" => Issued(call[e].op.kid))'
      BY <1>3, <2>2, <2>3 DEF KInv, Issued
    <2> QED BY <2>1, <2>4, SMTT(60) DEF KInv
  <1> QED BY <1>1, <1>6, <1>7

LEMMA KInvariance == Spec => [](CInv /\ FInv /\ KInv)
  <1>1. CInv /\ FInv /\ KInv /\ [Next]_vars => KInv'
    BY KStep
  <1> QED BY <1>1, KInit, FineInvariance, PTL DEF Spec

-----------------------------------------------------------------------------
(* What follows from the copies alone. *)

(* A redemption refused as used found a spent grant. *)
LEMMA UsedRefusal ==
  ASSUME NEW d, NEW o, o.op = "BurnEnrollment", Outcome(d, o).err = "used"
  PROVE  o.kid \in DOMAIN d.keys /\ IsGrant(d.keys[o.kid]) /\ Spent(d.keys[o.kid])
  <1>1. Outcome(d, o) = Apply(d, o, Now) /\ Mutate(d, o, Now) = BurnEnrollment(d, o.kid, o.serial, Now)
    BY DEF Outcome, Mutate
  <1>2. BurnEnrollment(d, o.kid, o.serial, Now).err = "used"
    BY <1>1, SMTT(60) DEF Apply, Refuse
  <1> QED BY <1>2 DEF BurnEnrollment, Refuse, Accept

(* A redemption of a spent grant, or of none, is refused. *)
LEMMA SpentRefused ==
  ASSUME NEW d, NEW o, o.op = "BurnEnrollment", o.kid \in DOMAIN d.keys => Spent(d.keys[o.kid])
  PROVE  Outcome(d, o).err # "none"
  <1>1. Outcome(d, o) = Apply(d, o, Now) /\ Mutate(d, o, Now) = BurnEnrollment(d, o.kid, o.serial, Now)
    BY DEF Outcome, Mutate
  <1>2. /\ BurnEnrollment(d, o.kid, o.serial, Now).err # "none"
        /\ BurnEnrollment(d, o.kid, o.serial, Now).changed = FALSE
    BY DEF BurnEnrollment, Refuse, Accept
  <1> QED BY <1>1, <1>2 DEF Apply

(* mutate may return a refusal as used from a stale cache: a grant spent in *)
(* any copy is spent, or gone, at the server.                               *)
THEOREM RefusalsAreFinal == Spec => []UsedIsFinal
  <1>1. CInv /\ FInv /\ KInv => UsedIsFinal
    <2> SUFFICES ASSUME CInv, FInv, KInv, NEW c \in Callers,
                        Done(c, "BurnEnrollment"), call[c].result = "used"
                 PROVE  Outcome(server.doc, call[c].op).err # "none"
      BY Zenon DEF UsedIsFinal
    <2> DEFINE o == call[c].op
               x == call[c].sec.doc
               d == server.doc
    <2>1. o.op = "BurnEnrollment" /\ Outcome(x, o).err = "used"
      BY Zenon DEF Done, FInv, CallFine
    <2>2. x \in HeldDocs /\ IsDocument(x) /\ IsDocument(d)
      BY HeldTyped, Zenon DEF HeldDocs
    <2>3. Accounted(x) /\ KeysEvolve(x, d)
      BY <2>2, Zenon DEF KInv
    <2> HIDE DEF o, x, d
    <2>4. o.kid \in DOMAIN x.keys /\ IsGrant(x.keys[o.kid]) /\ Spent(x.keys[o.kid])
      BY <2>1, UsedRefusal
    <2>5. ~Minted(o.kid)
      BY <2>3, <2>4, Zenon DEF Accounted
    <2>6. ASSUME o.kid \in DOMAIN d.keys PROVE Spent(d.keys[o.kid])
      <3>1. Evolved(x.keys[o.kid], d.keys[o.kid])
        BY <2>3, <2>4, <2>5, <2>6, SMTT(60) DEF KeysEvolve
      <3>2. x.keys[o.kid] \in Key /\ d.keys[o.kid] \in Key
        BY <2>2, <2>4, <2>6, ZenonT(60) DEF IsDocument
      <3>3. /\ x.keys[o.kid].redemptions \in Nat /\ d.keys[o.kid].redemptions \in Nat
            /\ x.keys[o.kid].max \in Nat
        BY <3>2 DEF Key
      <3> QED BY <2>4, <3>1, <3>3, SMTT(60) DEF Spent, Evolved
    <2>7. Outcome(d, o).err # "none"
      BY <2>1, <2>6, SpentRefused, ZenonT(60)
    <2> QED BY <2>7 DEF o, d
  <1> QED BY <1>1, KInvariance, PTL

(* A revocation its caller was told of is there for good, whatever the      *)
(* other replicas write from older copies.                                  *)
THEOREM RevocationsAreFinal == Spec => []RevocationsStick
  <1>1. CInv /\ FInv /\ KInv => RevocationsStick
    <2> SUFFICES ASSUME CInv, FInv, KInv, NEW c \in Callers
                 PROVE  /\ /\ Done(c, "RevokeKey") /\ call[c].result \in {"stored", "unchanged"}
                           /\ call[c].op.kid \in DOMAIN server.doc.keys /\ ~Minted(call[c].op.kid)
                           => server.doc.keys[call[c].op.kid].revoked
                        /\ Done(c, "RevokeCert") /\ call[c].result = "stored"
                             /\ Outlasts(call[c].op.serial)
                           => call[c].op.serial \in DOMAIN server.doc.certs
      BY DEF RevocationsStick
    <2> DEFINE o == call[c].op
               x == call[c].sec.doc
               d == server.doc
    <2>1. x \in HeldDocs
      BY DEF HeldDocs
    <2>2. KeysEvolve(x, d) /\ CertsStay(x, d)
      BY <2>1 DEF KInv
    <2>3. CallFine(call[c]) /\ CallOK(call[c])
      BY ZenonT(60) DEF FInv, CInv
    <2> HIDE DEF x, d
    <2>4. ASSUME Done(c, "RevokeKey"), call[c].result \in {"stored", "unchanged"},
                 o.kid \in DOMAIN d.keys, ~Minted(o.kid)
          PROVE  d.keys[o.kid].revoked
      <3>1. o.kid \in DOMAIN x.keys /\ x.keys[o.kid].revoked
        BY <2>3, <2>4, ZenonT(60) DEF CallFine, Effected, Done, x
      <3> QED BY <2>2, <2>4, <3>1 DEF KeysEvolve, Evolved
    <2>5. ASSUME Done(c, "RevokeCert"), call[c].result = "stored", Outlasts(o.serial)
          PROVE  o.serial \in DOMAIN d.certs
      <3>1. o.serial \in DOMAIN x.certs /\ x.certs[o.serial] = o.notAfter
        BY <2>3, <2>5, Zenon DEF CallFine, Effected, Done, x
      <3>2. o \in Ops /\ o.op = "RevokeCert"
        BY <2>3, <2>5, ZenonT(60) DEF CallOK, Done
      <3>3. Lasting(o.notAfter)
        BY <2>5, <3>2 DEF Outlasts
      <3> QED BY <2>2, <2>5, <3>1, <3>3, ZenonT(60) DEF CertsStay
    <2> QED BY <2>4, <2>5, ZenonT(60) DEF d
  <1> QED BY <1>1, KInvariance, PTL

-----------------------------------------------------------------------------
(* Redemptions. *)

(* The calls whose redemption of kid the server accepted. *)
Took(kid) == {c \in Applied : Burns(call[c].op, kid)}

(* What a call's mutation does to a grant, and to the calls that redeemed   *)
(* it: it redeems it, leaves it, or issues it.                              *)
LEMMA GrantStep ==
  ASSUME FInv, KInv, NEW c \in Callers, Commits(c), NEW kid \in DOMAIN server'.doc.keys,
         IsGrant(server'.doc.keys[kid])
  PROVE  LET d == server.doc
             e == server'.doc
             o == call[c].op
         IN  \/ /\ Burns(o, kid) /\ kid \in DOMAIN d.keys
                /\ Redeemed(d.keys[kid], e.keys[kid], o.serial)
                /\ Took(kid)' = Took(kid) \cup {c} /\ c \notin Took(kid)
             \/ /\ ~Burns(o, kid) /\ kid \in DOMAIN d.keys /\ Kept(d.keys[kid], e.keys[kid])
                /\ Took(kid)' = Took(kid)
             \/ /\ kid \notin DOMAIN d.keys /\ Issues(o, kid) /\ e.keys[kid] = o.key
                /\ Took(kid)' = {}
  <1> DEFINE d == server.doc
             e == server'.doc
             o == call[c].op
  <1>1. /\ KeysFollow(d, e, o, Now) /\ Effect(d, e, o, Now) /\ o \in Ops
    BY Committed, Zenon
  <1>2. ~Minted(kid)
    BY NextAccounted DEF Accounted
  <1>3. ~Mints(o, kid)
    BY <1>1, <1>2, ZenonT(60) DEF Minted
  <1>4. /\ c \notin Applied /\ Applied' = Applied \cup {c}
        /\ \A x \in Applied \cup {c} : call'[x].op = call[x].op
    BY DEF Commits
  <1>5. c \notin Took(kid) /\ Took(kid)' = IF Burns(o, kid) THEN Took(kid) \cup {c} ELSE Took(kid)
    BY <1>4, Zenon DEF Took
  <1>6. CASE Burns(o, kid)
    <2>1. kid \in DOMAIN d.keys /\ Redeemed(d.keys[kid], e.keys[kid], o.serial)
      BY <1>1, <1>6, ZenonT(60) DEF Effect, Burns
    <2> QED BY <1>5, <1>6, <2>1, ZenonT(60)
  <1>7. CASE ~Burns(o, kid) /\ kid \in DOMAIN d.keys
    <2>1. Kept(d.keys[kid], e.keys[kid])
      BY <1>1, <1>3, <1>7, ZenonT(60) DEF KeysFollow
    <2> QED BY <1>5, <1>7, <2>1, ZenonT(60)
  <1>8. CASE ~Burns(o, kid) /\ kid \notin DOMAIN d.keys
    <2>1. Issues(o, kid) /\ e.keys[kid] = o.key /\ ~Issued(kid)
      BY <1>2, <1>8, Appears, ZenonT(60)
    <2>2. Took(kid) = {}
      BY <2>1, ZenonT(60) DEF KInv, Took, Burns
    <2> QED BY <1>5, <1>8, <2>1, <2>2, ZenonT(60)
  <1> QED BY <1>6, <1>7, <1>8, ZenonT(60)

(* A single-use grant that a call redeemed is used, and its serial is that  *)
(* call's.                                                                  *)
Single(k, kid) ==
  IsGrant(k) /\ ~k.reusable =>
    \A c \in Took(kid) : k.used /\ k.serial = call[c].op.serial /\ \A e \in Took(kid) : e = c

BInv == \A kid \in DOMAIN server.doc.keys : Single(server.doc.keys[kid], kid)

LEMMA BStep == ASSUME CInv, FInv, KInv, BInv, [Next]_vars PROVE BInv'
  <1>1. Rests \/ \E c \in Callers : Commits(c)
    BY Ledger, ZenonT(60) DEF Steps
  <1>2. CASE Rests
    <2>1. server'.doc = server.doc /\ Applied' = Applied /\ \A c \in Applied : call'[c].op = call[c].op
      BY <1>2 DEF Rests
    <2> QED BY <2>1 DEF BInv, Single, Took
  <1>3. ASSUME NEW c \in Callers, Commits(c) PROVE BInv'
    <2> SUFFICES ASSUME NEW kid \in DOMAIN server'.doc.keys,
                        IsGrant(server'.doc.keys[kid]), ~server'.doc.keys[kid].reusable,
                        NEW x \in Took(kid)'
                 PROVE  /\ server'.doc.keys[kid].used
                        /\ server'.doc.keys[kid].serial = call'[x].op.serial
                        /\ \A y \in Took(kid)' : y = x
      BY Zenon DEF BInv, Single
    <2> DEFINE k == server.doc.keys[kid]
               m == server'.doc.keys[kid]
               o == call[c].op
    <2>1. \A y \in Applied \cup {c} : call'[y].op = call[y].op
      BY <1>3, Zenon DEF Commits
    <2>2. CASE /\ Redeemed(k, m, o.serial) /\ kid \in DOMAIN server.doc.keys
               /\ Took(kid)' = Took(kid) \cup {c}
      <3>1. IsGrant(k) /\ ~k.reusable /\ ~k.used /\ m.used /\ m.serial = o.serial
        BY <2>2, Zenon DEF Redeemed, Spent
      <3>2. Took(kid) = {}
        BY <2>2, <3>1, ZenonT(60) DEF BInv, Single
      <3> QED BY <2>1, <2>2, <3>1, <3>2, ZenonT(60)
    <2>3. CASE Kept(k, m) /\ Took(kid)' = Took(kid) /\ kid \in DOMAIN server.doc.keys
      <3>1. IsGrant(k) /\ ~k.reusable /\ m.used = k.used /\ m.serial = k.serial
        BY <2>3, Zenon DEF Kept, IsGrant
      <3>2. k.used /\ k.serial = call[x].op.serial /\ \A y \in Took(kid) : y = x
        BY <2>3, <3>1, ZenonT(60) DEF BInv, Single
      <3>3. x \in Applied
        BY <2>3 DEF Took
      <3> QED BY <2>1, <2>3, <3>1, <3>2, <3>3, ZenonT(60)
    <2> QED BY <1>3, <2>2, <2>3, GrantStep, ZenonT(60)
  <1> QED BY <1>1, <1>2, <1>3, ZenonT(60)

(* Two replicas never both report a single-use grant redeemed, and the      *)
(* serial on record is the winner's.                                        *)
THEOREM OneWinner == Spec => []BurnedOnce
  <1>1. Init => BInv
    BY DEF Init, BInv, Single, Took, Applied, Idle
  <1>2. CInv /\ FInv /\ KInv /\ BInv /\ [Next]_vars => BInv'
    BY BStep, Zenon
  <1>3. FInv /\ BInv => BurnedOnce
    <2> SUFFICES ASSUME FInv, BInv, NEW kid \in DOMAIN server.doc.keys,
                        IsGrant(server.doc.keys[kid]), ~server.doc.keys[kid].reusable
                 PROVE  /\ Cardinality(Winners("BurnEnrollment", kid)) <= 1
                        /\ \A c \in Winners("BurnEnrollment", kid) :
                             server.doc.keys[kid].serial = call[c].op.serial
      BY Zenon DEF BurnedOnce
    <2> DEFINE W == Winners("BurnEnrollment", kid)
    <2>1. W \subseteq Took(kid)
      BY Zenon DEF Winners, Took, Applied, Burns, Done, FInv, CallFine
    <2>2. \A c \in W : server.doc.keys[kid].serial = call[c].op.serial /\ \A e \in W : e = c
      BY <2>1, Zenon DEF BInv, Single
    <2> HIDE DEF W
    <2>3. W = {} \/ \E c \in W : W = {c}
      BY <2>2
    <2>4. Cardinality(W) <= 1
      <3>1. CASE W = {}
        BY <3>1, FS_EmptySet
      <3>2. CASE \E c \in W : W = {c}
        <4>1. Cardinality(W) = 1
          BY <3>2, FS_Singleton, SMTT(60)
        <4> QED BY <4>1
      <3> QED BY <2>3, <3>1, <3>2, ZenonT(60)
    <2> QED BY <2>2, <2>4, ZenonT(60) DEF W
  <1> QED BY <1>1, <1>2, <1>3, KInvariance, PTL DEF Spec

(* Finitely many calls have changed the document, so they can be counted. *)
LEMMA FiniteApplied == Spec => []IsFiniteSet(Applied)
  <1>1. Init => IsFiniteSet(Applied)
    <2>1. Init => Applied = {}
      BY DEF Init, Applied, Idle
    <2> QED BY <2>1, FS_EmptySet, ZenonT(60)
  <1>2. CInv /\ FInv /\ IsFiniteSet(Applied) /\ [Next]_vars => IsFiniteSet(Applied)'
    <2> SUFFICES ASSUME CInv, FInv, IsFiniteSet(Applied), [Next]_vars PROVE IsFiniteSet(Applied')
      BY SMTT(60)
    <2>1. Applied' = Applied \/ \E c : Applied' = Applied \cup {c}
      BY Ledger DEF Steps, Rests, Commits
    <2> QED BY <2>1, FS_AddElement
  <1> QED BY <1>1, <1>2, FineInvariance, PTL DEF Spec

(* The counter of a grant counts the calls that redeemed it, up to its cap. *)
Counted(k, kid) ==
  IsGrant(k) => /\ k.redemptions = Cardinality(Took(kid))
                /\ k.reusable /\ k.max > 0 => k.redemptions <= k.max

NInv == \A kid \in DOMAIN server.doc.keys : Counted(server.doc.keys[kid], kid)

LEMMA NStep ==
  ASSUME Unredeemed, CInv, FInv, KInv, NInv, IsFiniteSet(Applied), [Next]_vars PROVE NInv'
  <1>1. Rests \/ \E c \in Callers : Commits(c)
    BY Ledger, ZenonT(60) DEF Steps
  <1>2. CASE Rests
    <2>1. server'.doc = server.doc /\ Applied' = Applied /\ \A c \in Applied : call'[c].op = call[c].op
      BY <1>2, SMTT(60) DEF Rests
    <2>2. \A kid : Took(kid)' = Took(kid)
      BY <2>1 DEF Took
    <2> QED BY <2>1, <2>2, SMTT(60) DEF NInv, Counted
  <1>3. ASSUME NEW c \in Callers, Commits(c) PROVE NInv'
    <2> SUFFICES ASSUME NEW kid \in DOMAIN server'.doc.keys, IsGrant(server'.doc.keys[kid])
                 PROVE  /\ server'.doc.keys[kid].redemptions = Cardinality(Took(kid)')
                        /\ server'.doc.keys[kid].reusable /\ server'.doc.keys[kid].max > 0
                             => server'.doc.keys[kid].redemptions <= server'.doc.keys[kid].max
      BY DEF NInv, Counted
    <2> DEFINE k == server.doc.keys[kid]
               m == server'.doc.keys[kid]
               o == call[c].op
    <2>1. IsFiniteSet(Took(kid))
      BY FS_Subset DEF Took
    <2>2. m \in Key /\ (kid \in DOMAIN server.doc.keys => k \in Key)
      BY <1>3, Committed, ZenonT(60) DEF IsDocument
    <2>3. m.redemptions \in Nat /\ m.max \in Nat
      BY <2>2, Zenon DEF Key
    <2>4. CASE /\ Redeemed(k, m, o.serial) /\ kid \in DOMAIN server.doc.keys
               /\ Took(kid)' = Took(kid) \cup {c} /\ c \notin Took(kid)
      <3>1. /\ IsGrant(k) /\ m.redemptions = k.redemptions + 1 /\ m.reusable = k.reusable
            /\ m.max = k.max /\ ~Spent(k) /\ k.redemptions \in Nat
        BY <2>2, <2>4, ZenonT(60) DEF Redeemed, Key
      <3>2. k.redemptions = Cardinality(Took(kid))
        BY <2>4, <3>1, ZenonT(60) DEF NInv, Counted
      <3>3. Cardinality(Took(kid)') = Cardinality(Took(kid)) + 1
        BY <2>1, <2>4, FS_AddElement, ZenonT(60)
      <3>4. m.reusable /\ m.max > 0 => m.redemptions <= m.max
        BY <2>3, <3>1 DEF Spent
      <3> QED BY <3>1, <3>2, <3>3, <3>4, ZenonT(60)
    <2>5. CASE Kept(k, m) /\ Took(kid)' = Took(kid) /\ kid \in DOMAIN server.doc.keys
      <3>1. /\ IsGrant(k) /\ m.redemptions = k.redemptions /\ m.reusable = k.reusable /\ m.max = k.max
        BY <2>5, Zenon DEF Kept, IsGrant
      <3> QED BY <2>5, <3>1, ZenonT(60) DEF NInv, Counted
    <2>6. CASE Issues(o, kid) /\ m = o.key /\ Took(kid)' = {}
      <3>1. m.redemptions = 0
        BY <1>3, <2>6, Committed, ZenonT(60) DEF Unredeemed, Issues
      <3> QED BY <2>3, <2>6, <3>1, FS_EmptySet, SMTT(60)
    <2> QED BY <1>3, <2>4, <2>5, <2>6, GrantStep, ZenonT(60)
  <1> QED BY <1>1, <1>2, <1>3, ZenonT(60)

(* A grant's counter is exact and stays within its cap, for calls that are  *)
(* all there ever were.                                                     *)
THEOREM CountersAreExact == ASSUME Unredeemed PROVE Spec => []RedemptionsCounted
  <1>1. Init => NInv
    <2> SUFFICES ASSUME Init, NEW kid \in DOMAIN server.doc.keys, IsGrant(server.doc.keys[kid])
                 PROVE  /\ server.doc.keys[kid].redemptions = Cardinality(Took(kid))
                        /\ server.doc.keys[kid].reusable /\ server.doc.keys[kid].max > 0
                             => server.doc.keys[kid].redemptions <= server.doc.keys[kid].max
      BY DEF NInv, Counted
    <2>1. Took(kid) = {}
      BY DEF Init, Took, Applied, Idle
    <2>2. server.doc.keys[kid].redemptions = 0 /\ server.doc.keys[kid].max \in Nat
      BY SecretStoreConstants, ZenonT(60) DEF Init, Unredeemed, IsSecret, IsDocument, Key
    <2> QED BY <2>1, <2>2, FS_EmptySet, SMTT(60)
  <1>2. CInv /\ FInv /\ KInv /\ NInv /\ IsFiniteSet(Applied) /\ [Next]_vars => NInv'
    BY NStep
  <1>3. NInv => RedemptionsCounted
    <2>1. \A kid : Took(kid) = {c \in Callers : call[c].applied /\ call[c].op.op = "BurnEnrollment"
                                                  /\ call[c].op.kid = kid}
      BY DEF Took, Applied, Burns
    <2> QED BY <2>1, ZenonT(60) DEF NInv, Counted, RedemptionsCounted
  <1> QED BY <1>1, <1>2, <1>3, KInvariance, FiniteApplied, PTL DEF Spec

-----------------------------------------------------------------------------
(* The bootstrap key. *)

Minters(kid)   == {c \in Applied : Mints(call[c].op, kid)}
Withdrawn(kid) == {c \in Applied : Withdraws(call[c].op, kid)}
Live(d, kid)   == kid \in DOMAIN d.keys /\ Usable(d.keys[kid], Now)

(* Each mint beyond the one that is usable now was made good by a call that *)
(* withdrew a key.                                                          *)
MInv == \A kid \in KIDs :
  Cardinality(Minters(kid)) <= Cardinality(Withdrawn(kid)) + IF Live(server.doc, kid) THEN 1 ELSE 0

LEMMA MStep == ASSUME CInv, FInv, MInv, IsFiniteSet(Applied), [Next]_vars PROVE MInv'
  <1>1. Rests \/ \E c \in Callers : Commits(c)
    BY Ledger, ZenonT(60) DEF Steps
  <1>2. CASE Rests
    <2>1. server'.doc = server.doc /\ Applied' = Applied /\ \A c \in Applied : call'[c].op = call[c].op
      BY <1>2, ZenonT(60) DEF Rests
    <2>2. \A kid : Minters(kid)' = Minters(kid) /\ Withdrawn(kid)' = Withdrawn(kid)
      BY <2>1 DEF Minters, Withdrawn
    <2> QED BY <2>1, <2>2, ZenonT(60) DEF MInv
  <1>3. ASSUME NEW c \in Callers, Commits(c) PROVE MInv'
    <2> SUFFICES ASSUME NEW kid \in KIDs
                 PROVE  Cardinality(Minters(kid)') <= Cardinality(Withdrawn(kid)')
                          + IF Live(server'.doc, kid) THEN 1 ELSE 0
      BY Zenon DEF MInv
    <2> DEFINE o == call[c].op
               d == server.doc
               e == server'.doc
    <2>1. /\ c \notin Applied /\ Applied' = Applied \cup {c}
          /\ \A x \in Applied \cup {c} : call'[x].op = call[x].op
      BY <1>3, ZenonT(60) DEF Commits
    <2>2. /\ c \notin Minters(kid) /\ c \notin Withdrawn(kid)
          /\ Minters(kid)' = IF Mints(o, kid) THEN Minters(kid) \cup {c} ELSE Minters(kid)
          /\ Withdrawn(kid)' = IF Withdraws(o, kid) THEN Withdrawn(kid) \cup {c} ELSE Withdrawn(kid)
      BY <2>1 DEF Minters, Withdrawn
    <2>3. IsFiniteSet(Minters(kid)) /\ IsFiniteSet(Withdrawn(kid))
      BY FS_Subset DEF Minters, Withdrawn
    <2>4. Cardinality(Minters(kid)) \in Nat /\ Cardinality(Withdrawn(kid)) \in Nat
      BY <2>3, FS_CardinalityType
    <2>5. /\ Cardinality(Minters(kid) \cup {c}) = Cardinality(Minters(kid)) + 1
          /\ Cardinality(Withdrawn(kid) \cup {c}) = Cardinality(Withdrawn(kid)) + 1
      BY <2>2, <2>3, FS_AddElement, ZenonT(60)
    <2>6. /\ o \in Ops /\ Remains(d, e, o, Now) /\ Effect(d, e, o, Now)
      BY <1>3, Committed, ZenonT(60)
    <2>7. Cardinality(Minters(kid)) <= Cardinality(Withdrawn(kid)) + IF Live(d, kid) THEN 1 ELSE 0
      BY SMTT(60) DEF MInv
    <2> HIDE DEF o, d, e
    <2>8. CASE Mints(o, kid)
      <3>1. ~Live(d, kid) /\ Live(e, kid)
        BY <2>6, <2>8, KeyIDs, ZenonT(60) DEF Effect, Mints, Live
      <3>2. ~Withdraws(o, kid)
        BY <2>8, Zenon DEF Mints, Withdraws
      <3> QED BY <2>2, <2>4, <2>5, <2>7, <2>8, <3>1, <3>2, SMTT(60) DEF e
    <2>9. CASE Withdraws(o, kid)
      <3>1. ~Mints(o, kid)
        BY <2>9, Zenon DEF Mints, Withdraws
      <3> QED BY <2>2, <2>4, <2>5, <2>7, <2>9, <3>1, SMTT(60)
    <2>10. CASE ~Mints(o, kid) /\ ~Withdraws(o, kid)
      <3>1. Live(d, kid) => Live(e, kid)
        BY <2>6, <2>10 DEF Remains, Live
      <3> QED BY <2>2, <2>4, <2>7, <2>10, <3>1, SMTT(60) DEF e
    <2> QED BY <2>8, <2>9, <2>10, ZenonT(60)
  <1> QED BY <1>1, <1>2, <1>3, ZenonT(60)

(* Replicas that start together mint one bootstrap key between them, and    *)
(* another only after a call withdrew it.                                   *)
THEOREM MintedExactlyOnce == Spec => []MintedOnce
  <1>1. Init => MInv
    <2>1. Init => \A kid : Minters(kid) = {} /\ Withdrawn(kid) = {}
      BY DEF Init, Minters, Withdrawn, Applied, Idle
    <2> QED BY <2>1, FS_EmptySet, SMTT(60) DEF MInv
  <1>2. CInv /\ FInv /\ MInv /\ IsFiniteSet(Applied) /\ [Next]_vars => MInv'
    BY MStep
  <1>3. FInv /\ MInv /\ IsFiniteSet(Applied) => MintedOnce
    <2> SUFFICES ASSUME FInv, MInv, IsFiniteSet(Applied), NEW kid \in KIDs
                 PROVE  Cardinality(Winners("PutKeyIfNoUsable", kid))
                          <= 1 + Cardinality(Withdrawn(kid))
      BY Zenon DEF MintedOnce, Withdrawn, Applied
    <2> DEFINE W == Winners("PutKeyIfNoUsable", kid)
    <2>1. W \subseteq Minters(kid)
      BY DEF Winners, Minters, Applied, Mints, Done, FInv, CallFine
    <2> HIDE DEF W
    <2>2. IsFiniteSet(Minters(kid)) /\ IsFiniteSet(Withdrawn(kid))
      BY FS_Subset, SMTT(60) DEF Minters, Withdrawn
    <2>3. IsFiniteSet(W) /\ Cardinality(W) <= Cardinality(Minters(kid))
      BY <2>1, <2>2, FS_Subset, Zenon
    <2>4. /\ Cardinality(W) \in Nat /\ Cardinality(Minters(kid)) \in Nat
          /\ Cardinality(Withdrawn(kid)) \in Nat
      BY <2>2, <2>3, FS_CardinalityType, Zenon
    <2>5. Cardinality(Minters(kid)) <= Cardinality(Withdrawn(kid)) + 1
      BY <2>4 DEF MInv
    <2> QED BY <2>3, <2>4, <2>5, SMTT(60) DEF W
  <1> QED BY <1>1, <1>2, <1>3, FineInvariance, FiniteApplied, PTL DEF Spec

=============================================================================
