---------------------------- MODULE StateProofs ----------------------------
(***************************************************************************)
(* What a mutation of the credential document may do to a record, for      *)
(* every document, operation and time: the facts the proofs about the two  *)
(* stores rest on.                                                         *)
(***************************************************************************)
EXTENDS State, TLAPS

(* The record k of a key became m without being replaced or redeemed: its   *)
(* grant is the same, and a revocation stays.                               *)
Kept(k, m) ==
  /\ m.class = k.class /\ m.cluster = k.cluster /\ m.expires = k.expires
  /\ m.reusable = k.reusable /\ m.max = k.max /\ m.redemptions = k.redemptions
  /\ m.used = k.used /\ m.serial = k.serial
  /\ k.revoked => m.revoked

(* The record k of a grant became m by a redemption for serial. *)
Redeemed(k, m, serial) ==
  /\ IsGrant(k) /\ ~Spent(k)
  /\ m.class = k.class /\ m.cluster = k.cluster /\ m.expires = k.expires
  /\ m.reusable = k.reusable /\ m.max = k.max /\ m.revoked = k.revoked
  /\ m.redemptions = k.redemptions + 1 /\ m.used /\ m.serial = serial

(* The keys of e after operation o on d: a record is kept, redeemed, new    *)
(* under an id that was free, or minted over one that was not usable.       *)
KeysFollow(d, e, o, t) ==
  \A kid \in DOMAIN e.keys :
    \/ kid \in DOMAIN d.keys /\ Kept(d.keys[kid], e.keys[kid])
    \/ kid \in DOMAIN d.keys /\ Burns(o, kid) /\ Redeemed(d.keys[kid], e.keys[kid], o.serial)
    \/ kid \notin DOMAIN d.keys /\ Issues(o, kid) /\ e.keys[kid] = o.key
    \/ /\ Mints(o, kid) /\ e.keys[kid] = o.key
       /\ kid \in DOMAIN d.keys => ~Usable(d.keys[kid], t)

(* A revoked certificate stays on the list until a pruning that it is       *)
(* old enough for; a second revocation may restate its expiry.              *)
CertsFollow(d, e, o, t) ==
  \A s \in DOMAIN d.certs :
    \/ s \in DOMAIN e.certs /\ e.certs[s] = d.certs[s]
    \/ s \in DOMAIN e.certs /\ o.op = "RevokeCert" /\ o.serial = s /\ e.certs[s] = o.notAfter
    \/ o.op = "Prune" /\ Passed(d.certs[s], o.retain, t)

(* A usable key stays usable until an operation withdraws it: pruning takes *)
(* only expired ones.                                                       *)
Remains(d, e, o, t) ==
  \A kid \in DOMAIN d.keys :
    Usable(d.keys[kid], t) =>
      Withdraws(o, kid) \/ (kid \in DOMAIN e.keys /\ Usable(e.keys[kid], t))

(* What an accepted operation did to its own record. *)
Effect(d, e, o, t) ==
  /\ o.op = "BurnEnrollment" =>
       /\ o.kid \in DOMAIN d.keys /\ o.kid \in DOMAIN e.keys
       /\ Redeemed(d.keys[o.kid], e.keys[o.kid], o.serial)
  /\ o.op = "RevokeKey" => o.kid \in DOMAIN e.keys /\ e.keys[o.kid].revoked
  /\ o.op = "RevokeCert" => o.serial \in DOMAIN e.certs /\ e.certs[o.serial] = o.notAfter
  /\ o.op = "PutKeyIfNoUsable" =>
       /\ o.kid \in DOMAIN e.keys /\ e.keys[o.kid] = o.key
       /\ o.kid \in DOMAIN d.keys => ~Usable(d.keys[o.kid], t)

Errs == {"none", "exists", "notfound", "revoked", "invalid", "wrongclass", "notusable", "used",
         "toolarge"}

(* The outcome r of operation o on document d is well formed and only does  *)
(* what o may do.                                                           *)
Sound(r, d, o, t) ==
  /\ r.err \in Errs /\ r.changed \in BOOLEAN
  /\ ~r.changed => r.doc = d
  /\ r.changed => /\ r.err = "none" /\ IsDocument(r.doc)
                  /\ KeysFollow(d, r.doc, o, t) /\ CertsFollow(d, r.doc, o, t)
                  /\ Remains(d, r.doc, o, t) /\ Effect(d, r.doc, o, t)

-----------------------------------------------------------------------------
(* Helpers on documents. *)

(* A document with one key set is a document. *)
LEMMA SetKeyTyped ==
  ASSUME NEW d, IsDocument(d), NEW kid \in KIDs, NEW k \in Key
  PROVE  /\ IsDocument(SetKey(d, kid, k)) /\ IsDocument(bump(SetKey(d, kid, k)))
         /\ SetKey(d, kid, k).keys = With(d.keys, kid, k)
         /\ bump(SetKey(d, kid, k)).keys = With(d.keys, kid, k)
         /\ SetKey(d, kid, k).certs = d.certs /\ bump(SetKey(d, kid, k)).certs = d.certs
  <1>1. /\ DOMAIN With(d.keys, kid, k) = DOMAIN d.keys \cup {kid}
        /\ DOMAIN With(d.keys, kid, k) \subseteq KIDs
        /\ With(d.keys, kid, k) \in [DOMAIN With(d.keys, kid, k) -> Key]
    BY DEF With, IsDocument
  <1>2. /\ d = [epoch |-> d.epoch, keys |-> d.keys, certs |-> d.certs] /\ d.epoch \in Nat
    BY DEF IsDocument
  <1>3. SetKey(d, kid, k) = [epoch |-> d.epoch, keys |-> With(d.keys, kid, k), certs |-> d.certs]
    BY <1>2 DEF SetKey
  <1>4. bump(SetKey(d, kid, k)) = [epoch |-> d.epoch + 1, keys |-> With(d.keys, kid, k), certs |-> d.certs]
    BY <1>3 DEF bump
  <1> HIDE DEF With
  <1> QED BY <1>1, <1>2, <1>3, <1>4 DEF IsDocument

(* An outcome that changes nothing is sound. *)
LEMMA Quiet ==
  ASSUME NEW d, NEW o, NEW t, NEW e \in Errs
  PROVE  Sound(Refuse(d, e), d, o, t) /\ Sound(NoChange(d), d, o, t)
  BY DEF Sound, Refuse, NoChange, Errs

(* A record set in place of one it keeps leaves the others alone. *)
LEMMA ResetKey ==
  ASSUME NEW d, IsDocument(d), NEW o, NEW t, NEW kid \in DOMAIN d.keys, NEW k \in Key,
         Kept(d.keys[kid], k), NEW e, IsDocument(e), e.keys = With(d.keys, kid, k), e.certs = d.certs
  PROVE  /\ KeysFollow(d, e, o, t) /\ CertsFollow(d, e, o, t)
         /\ kid \in DOMAIN e.keys /\ e.keys[kid] = k
         /\ (Withdraws(o, kid) \/ k.revoked = d.keys[kid].revoked) => Remains(d, e, o, t)
  <1>1. DOMAIN e.keys = DOMAIN d.keys
    BY DEF With
  <1>2. \A x \in DOMAIN d.keys : e.keys[x] = IF x = kid THEN k ELSE d.keys[x]
    BY DEF With
  <1>3. \A x \in DOMAIN d.keys : Kept(d.keys[x], d.keys[x])
    BY DEF Kept
  <1>4. ASSUME Withdraws(o, kid) \/ k.revoked = d.keys[kid].revoked PROVE Remains(d, e, o, t)
    <2> SUFFICES ASSUME NEW x \in DOMAIN d.keys, Usable(d.keys[x], t)
                 PROVE  Withdraws(o, x) \/ Usable(e.keys[x], t)
      BY <1>1 DEF Remains
    <2>1. CASE x = kid
      BY <1>2, <1>4, <2>1 DEF Usable, Expired, Kept
    <2>2. CASE x # kid
      BY <1>2, <2>2
    <2> QED BY <2>1, <2>2
  <1> QED BY <1>1, <1>2, <1>3, <1>4 DEF KeysFollow, CertsFollow

(* A record set under a free id, or by a mint, leaves the others alone. *)
LEMMA NewKey ==
  ASSUME NEW d, IsDocument(d), NEW o, NEW t, NEW kid, NEW e, IsDocument(e),
         \/ Issues(o, kid) /\ kid \notin DOMAIN d.keys
         \/ Mints(o, kid) /\ (kid \in DOMAIN d.keys => ~Usable(d.keys[kid], t)),
         e.keys = With(d.keys, kid, o.key), e.certs = d.certs
  PROVE  /\ KeysFollow(d, e, o, t) /\ CertsFollow(d, e, o, t)
         /\ kid \in DOMAIN e.keys /\ e.keys[kid] = o.key /\ Remains(d, e, o, t)
  <1>1. DOMAIN e.keys = DOMAIN d.keys \cup {kid}
    BY DEF With
  <1>2. \A x \in DOMAIN e.keys : e.keys[x] = IF x = kid THEN o.key ELSE d.keys[x]
    BY DEF With
  <1>3. \A x \in DOMAIN d.keys : Kept(d.keys[x], d.keys[x])
    BY DEF Kept
  <1>4. Remains(d, e, o, t)
    BY <1>1, <1>2 DEF Remains
  <1> QED BY <1>1, <1>2, <1>3, <1>4 DEF KeysFollow, CertsFollow

(* PutKey refuses an id that is taken. *)
LEMMA PutKeySound ==
  ASSUME NEW d, IsDocument(d), NEW o, IsOp(o), NEW t, o.op = "PutKey"
  PROVE  Sound(PutKey(d, o.kid, o.key), d, o, t)
  <1>1. CASE o.kid \in DOMAIN d.keys
    BY <1>1, Quiet DEF PutKey, Errs
  <1>2. CASE o.kid \notin DOMAIN d.keys
    <2> DEFINE e == bump(SetKey(d, o.kid, o.key))
    <2>1. PutKey(d, o.kid, o.key) = Accept(e)
      BY <1>2 DEF PutKey
    <2>2. IsDocument(e) /\ e.keys = With(d.keys, o.kid, o.key) /\ e.certs = d.certs
      BY SetKeyTyped DEF IsOp
    <2> HIDE DEF e
    <2>3. KeysFollow(d, e, o, t) /\ CertsFollow(d, e, o, t) /\ Remains(d, e, o, t)
      BY <1>2, <2>2, NewKey DEF Issues
    <2> QED BY <2>1, <2>2, <2>3 DEF Sound, Accept, Effect, Errs
  <1> QED BY <1>1, <1>2

(* PutKeyIfNoUsable replaces only a record that is not usable. *)
LEMMA MintSound ==
  ASSUME NEW d, IsDocument(d), NEW o, IsOp(o), NEW t, o.op = "PutKeyIfNoUsable"
  PROVE  Sound(PutKeyIfNoUsable(d, o.kid, o.key, t), d, o, t)
  <1>1. CASE o.kid \in DOMAIN d.keys /\ Usable(d.keys[o.kid], t)
    BY <1>1, Quiet DEF PutKeyIfNoUsable, Errs
  <1>2. CASE ~(o.kid \in DOMAIN d.keys /\ Usable(d.keys[o.kid], t))
    <2> DEFINE e == bump(SetKey(d, o.kid, o.key))
    <2>1. PutKeyIfNoUsable(d, o.kid, o.key, t) = Accept(e)
      BY <1>2 DEF PutKeyIfNoUsable
    <2>2. IsDocument(e) /\ e.keys = With(d.keys, o.kid, o.key) /\ e.certs = d.certs
      BY SetKeyTyped DEF IsOp
    <2> HIDE DEF e
    <2>3. /\ KeysFollow(d, e, o, t) /\ CertsFollow(d, e, o, t)
          /\ o.kid \in DOMAIN e.keys /\ e.keys[o.kid] = o.key /\ Remains(d, e, o, t)
      BY <1>2, <2>2, NewKey DEF Mints
    <2> QED BY <1>2, <2>1, <2>2, <2>3 DEF Sound, Accept, Effect, Errs
  <1> QED BY <1>1, <1>2

(* A record with its revocation, last use or redemption rewritten. *)
LEMMA KeyEdits ==
  ASSUME NEW k \in Key
  PROVE  /\ [k EXCEPT !.revoked = TRUE] \in Key /\ Kept(k, [k EXCEPT !.revoked = TRUE])
         /\ [k EXCEPT !.revoked = TRUE].revoked
         /\ \A n \in Nat : /\ [k EXCEPT !.lastUsed = n] \in Key
                           /\ Kept(k, [k EXCEPT !.lastUsed = n])
         /\ \A s \in Serials :
              LET m == [k EXCEPT !.used = TRUE, !.serial = s, !.redemptions = @ + 1]
              IN  m \in Key /\ (IsGrant(k) /\ ~Spent(k) => Redeemed(k, m, s))
  <1>1. /\ [k EXCEPT !.revoked = TRUE] \in Key /\ Kept(k, [k EXCEPT !.revoked = TRUE])
        /\ [k EXCEPT !.revoked = TRUE].revoked
    BY Zenon DEF Key, Kept
  <1>2. ASSUME NEW n \in Nat
        PROVE  [k EXCEPT !.lastUsed = n] \in Key /\ Kept(k, [k EXCEPT !.lastUsed = n])
    BY DEF Key, Kept
  <1>3. ASSUME NEW s \in Serials
        PROVE  LET m == [k EXCEPT !.used = TRUE, !.serial = s, !.redemptions = @ + 1]
               IN  m \in Key /\ (IsGrant(k) /\ ~Spent(k) => Redeemed(k, m, s))
    <2> DEFINE m == [k EXCEPT !.used = TRUE, !.serial = s, !.redemptions = @ + 1]
    <2>1. k.redemptions + 1 \in Nat
      BY DEF Key
    <2>2. m \in Key
      BY <2>1, Zenon DEF Key
    <2>3. /\ m.class = k.class /\ m.cluster = k.cluster /\ m.expires = k.expires
          /\ m.reusable = k.reusable /\ m.max = k.max /\ m.revoked = k.revoked
          /\ m.redemptions = k.redemptions + 1 /\ m.used /\ m.serial = s
      BY DEF Key
    <2> HIDE DEF m
    <2> QED BY <2>2, <2>3 DEF Redeemed, m
  <1> QED BY <1>1, <1>2, <1>3, Zenon

(* A revocation keeps everything else. *)
LEMMA RevokeKeySound ==
  ASSUME NEW d, IsDocument(d), NEW o, IsOp(o), NEW t, o.op = "RevokeKey"
  PROVE  Sound(RevokeKey(d, o.kid), d, o, t)
  <1>1. CASE o.kid \notin DOMAIN d.keys
    BY <1>1, Quiet DEF RevokeKey, Errs
  <1>2. CASE o.kid \in DOMAIN d.keys /\ d.keys[o.kid].revoked
    BY <1>2, Quiet, SMTT(60) DEF RevokeKey, Errs
  <1>3. CASE o.kid \in DOMAIN d.keys /\ ~d.keys[o.kid].revoked
    <2> DEFINE k == [d.keys[o.kid] EXCEPT !.revoked = TRUE]
               e == bump(SetKey(d, o.kid, k))
    <2>1. RevokeKey(d, o.kid) = Accept(e)
      BY <1>3 DEF RevokeKey
    <2>0. d.keys[o.kid] \in Key
      BY <1>3 DEF IsDocument
    <2>5. Withdraws(o, o.kid)
      BY DEF Withdraws
    <2>2. k \in Key /\ Kept(d.keys[o.kid], k) /\ k.revoked
      BY <2>0, KeyEdits, Zenon
    <2> HIDE DEF k
    <2>3. IsDocument(e) /\ e.keys = With(d.keys, o.kid, k) /\ e.certs = d.certs
      BY <2>2, SetKeyTyped DEF IsOp
    <2> HIDE DEF e
    <2>4. /\ KeysFollow(d, e, o, t) /\ CertsFollow(d, e, o, t)
          /\ o.kid \in DOMAIN e.keys /\ e.keys[o.kid] = k
          /\ Remains(d, e, o, t)
      BY <1>3, <2>2, <2>3, <2>5, ResetKey
    <2> QED BY <2>1, <2>2, <2>3, <2>4, <2>5 DEF Sound, Accept, Effect, Errs
  <1> QED BY <1>1, <1>2, <1>3

(* So does a last use. *)
LEMMA TouchKeySound ==
  ASSUME NEW d, IsDocument(d), NEW o, IsOp(o), NEW t \in Nat, o.op = "TouchKey"
  PROVE  Sound(TouchKey(d, o.kid, t), d, o, t)
  <1>1. CASE o.kid \notin DOMAIN d.keys
    BY <1>1, Quiet, ZenonT(60) DEF TouchKey, Errs
  <1>2. CASE o.kid \in DOMAIN d.keys
    <2> DEFINE k == [d.keys[o.kid] EXCEPT !.lastUsed = t]
               e == SetKey(d, o.kid, k)
    <2>1. TouchKey(d, o.kid, t) = Accept(e)
      BY <1>2 DEF TouchKey
    <2>0. d.keys[o.kid] \in Key
      BY <1>2 DEF IsDocument
    <2>2. k \in Key /\ Kept(d.keys[o.kid], k)
      BY <2>0, KeyEdits, Zenon
    <2>5. k.revoked = d.keys[o.kid].revoked
      BY <2>0 DEF Key
    <2> HIDE DEF k
    <2>3. IsDocument(e) /\ e.keys = With(d.keys, o.kid, k) /\ e.certs = d.certs
      BY <2>2, SetKeyTyped DEF IsOp
    <2> HIDE DEF e
    <2>4. /\ KeysFollow(d, e, o, t) /\ CertsFollow(d, e, o, t)
          /\ k.revoked = d.keys[o.kid].revoked => Remains(d, e, o, t)
      BY <1>2, <2>2, <2>3, ResetKey, SMTT(60)
    <2> QED BY <2>1, <2>3, <2>4, <2>5 DEF Sound, Accept, Effect, Errs
  <1> QED BY <1>1, <1>2

(* A replacement puts the new record under a free id and revokes the old. *)
LEMMA ReplaceKeySound ==
  ASSUME NEW d, IsDocument(d), NEW o, IsOp(o), NEW t, o.op = "ReplaceKey"
  PROVE  Sound(ReplaceKey(d, o.kid, o.key, o.old), d, o, t)
  <1>1. CASE o.old \notin DOMAIN d.keys
    BY <1>1, Quiet DEF ReplaceKey, Errs
  <1>2. CASE o.old \in DOMAIN d.keys /\ d.keys[o.old].revoked
    BY <1>2, Quiet DEF ReplaceKey, Errs
  <1>3. CASE o.old \in DOMAIN d.keys /\ ~d.keys[o.old].revoked /\ o.kid \in DOMAIN d.keys
    BY <1>3, Quiet, ZenonT(60) DEF ReplaceKey, Errs
  <1>4. CASE o.old \in DOMAIN d.keys /\ ~d.keys[o.old].revoked /\ o.kid \notin DOMAIN d.keys
    <2> DEFINE k == [d.keys[o.old] EXCEPT !.revoked = TRUE]
               f == bump(SetKey(d, o.kid, o.key))
               e == SetKey(f, o.old, k)
    <2>1. ReplaceKey(d, o.kid, o.key, o.old) = Accept(e)
      BY <1>4 DEF ReplaceKey, PutKey, Accept
    <2>0. d.keys[o.old] \in Key
      BY <1>4 DEF IsDocument
    <2>2. k \in Key /\ Kept(d.keys[o.old], k)
      BY <2>0, KeyEdits, Zenon
    <2> HIDE DEF k
    <2>3. IsDocument(f) /\ f.keys = With(d.keys, o.kid, o.key) /\ f.certs = d.certs
      BY SetKeyTyped DEF IsOp
    <2> HIDE DEF f
    <2>4. IsDocument(e) /\ e.keys = With(f.keys, o.old, k) /\ e.certs = f.certs
      BY <2>2, <2>3, SetKeyTyped, ZenonT(60) DEF IsOp
    <2> HIDE DEF e
    <2>5. /\ DOMAIN e.keys = DOMAIN d.keys \cup {o.kid}
          /\ \A x \in DOMAIN e.keys : e.keys[x] = IF x = o.old THEN k ELSE
                                                  IF x = o.kid THEN o.key ELSE d.keys[x]
      BY <1>4, <2>3, <2>4 DEF With
    <2>6. \A x \in DOMAIN d.keys : Kept(d.keys[x], d.keys[x])
      BY DEF Kept
    <2>7. KeysFollow(d, e, o, t) /\ CertsFollow(d, e, o, t)
      BY <1>4, <2>2, <2>3, <2>4, <2>5, <2>6 DEF KeysFollow, CertsFollow, Issues
    <2>8. Remains(d, e, o, t)
      BY <1>4, <2>5 DEF Remains, Withdraws
    <2> QED BY <2>1, <2>4, <2>7, <2>8 DEF Sound, Accept, Effect, Errs
  <1> QED BY <1>1, <1>2, <1>3, <1>4

(* A document rewritten field by field. *)
LEMMA Fields ==
  ASSUME NEW d, IsDocument(d), NEW K, NEW C
  PROVE  /\ [d EXCEPT !.keys = K] = [epoch |-> d.epoch, keys |-> K, certs |-> d.certs]
         /\ [d EXCEPT !.certs = C] = [epoch |-> d.epoch, keys |-> d.keys, certs |-> C]
  <1> DEFINE e == d.epoch
             k == d.keys
             c == d.certs
  <1>1. d = [epoch |-> e, keys |-> k, certs |-> c]
    BY DEF IsDocument
  <1> HIDE DEF e, k, c
  <1>2. [d EXCEPT !.keys = K] = [epoch |-> e, keys |-> K, certs |-> c]
    BY <1>1
  <1>4. [d EXCEPT !.certs = C] = [epoch |-> e, keys |-> k, certs |-> C]
    BY <1>1
  <1> QED BY <1>2, <1>4 DEF e, k, c

(* The next epoch of a document. *)
LEMMA Bumped ==
  ASSUME NEW n, NEW K, NEW C
  PROVE  bump([epoch |-> n, keys |-> K, certs |-> C]) = [epoch |-> n + 1, keys |-> K, certs |-> C]
  BY DEF bump

(* A record with the fields of a document. *)
Fielded(e) == e = [epoch |-> e.epoch, keys |-> e.keys, certs |-> e.certs]

(* Fewer records of a document, with every one of them as it was. *)
LEMMA Fewer ==
  ASSUME NEW d, IsDocument(d), NEW e, Fielded(e), e.epoch \in Nat,
         e.keys = [kid \in DOMAIN e.keys |-> d.keys[kid]], DOMAIN e.keys \subseteq DOMAIN d.keys,
         e.certs = [s \in DOMAIN e.certs |-> d.certs[s]], DOMAIN e.certs \subseteq DOMAIN d.certs
  PROVE  /\ IsDocument(e)
         /\ \A kid \in DOMAIN e.keys : e.keys[kid] = d.keys[kid]
         /\ \A s \in DOMAIN e.certs : e.certs[s] = d.certs[s]
  <1>1. /\ \A kid \in DOMAIN e.keys : e.keys[kid] = d.keys[kid]
        /\ e.keys \in [DOMAIN e.keys -> Key] /\ DOMAIN e.keys \subseteq KIDs
    BY DEF IsDocument
  <1>2. /\ \A s \in DOMAIN e.certs : e.certs[s] = d.certs[s]
        /\ e.certs \in [DOMAIN e.certs -> Nat] /\ DOMAIN e.certs \subseteq Serials
    BY DEF IsDocument
  <1>3. IsDocument(e)
    BY <1>1, <1>2 DEF IsDocument, Fielded
  <1> QED BY <1>1, <1>2, <1>3

(* Deletion takes one record away. *)
LEMMA DeleteKeySound ==
  ASSUME NEW d, IsDocument(d), NEW o, IsOp(o), NEW t, o.op = "DeleteKey"
  PROVE  Sound(DeleteKey(d, o.kid), d, o, t)
  <1>1. CASE o.kid \notin DOMAIN d.keys
    BY <1>1, Quiet DEF DeleteKey, Errs
  <1>2. CASE o.kid \in DOMAIN d.keys
    <2> DEFINE e == bump([d EXCEPT !.keys = Without(@, {o.kid})])
               n == d.epoch + 1
               K == Without(d.keys, {o.kid})
               C == Without(d.certs, {})
    <2>1. DeleteKey(d, o.kid) = Accept(e)
      BY <1>2 DEF DeleteKey
    <2>2. n \in Nat /\ C = d.certs
      BY DEF IsDocument, Without
    <2>6. K = Without(d.keys, {o.kid}) /\ C = Without(d.certs, {}) /\ e = bump([d EXCEPT !.keys = K])
      OBVIOUS
    <2> HIDE DEF e, K, C
    <2>7. [d EXCEPT !.keys = K] = [epoch |-> d.epoch, keys |-> K, certs |-> C]
      BY <2>2, Fields, Zenon
    <2>8. bump([epoch |-> d.epoch, keys |-> K, certs |-> C]) = [epoch |-> n, keys |-> K, certs |-> C]
      BY Bumped
    <2>3. e = [epoch |-> n, keys |-> K, certs |-> C]
      BY <2>6, <2>7, <2>8
    <2>9. /\ Fielded(e) /\ e.epoch \in Nat
          /\ e.keys = Without(d.keys, {o.kid}) /\ e.certs = Without(d.certs, {})
      BY <2>2, <2>3, <2>6 DEF Fielded
    <2> HIDE DEF n
    <2>4. /\ IsDocument(e) /\ DOMAIN e.keys \subseteq DOMAIN d.keys
          /\ DOMAIN e.certs = DOMAIN d.certs
          /\ \A kid \in DOMAIN e.keys : e.keys[kid] = d.keys[kid]
          /\ \A s \in DOMAIN e.certs : e.certs[s] = d.certs[s]
          /\ DOMAIN e.keys = DOMAIN d.keys \ {o.kid}
      <3>1. DOMAIN e.keys = DOMAIN d.keys \ {o.kid} /\ e.keys = [kid \in DOMAIN e.keys |-> d.keys[kid]]
        BY <2>9 DEF Without
      <3>2. DOMAIN e.certs = DOMAIN d.certs /\ e.certs = [s \in DOMAIN e.certs |-> d.certs[s]]
        BY <2>9, ZenonT(60) DEF Without
      <3> QED BY <2>9, <3>1, <3>2, Fewer, Zenon
    <2>5. KeysFollow(d, e, o, t) /\ CertsFollow(d, e, o, t)
      BY <2>4 DEF KeysFollow, CertsFollow, Kept
    <2>10. Remains(d, e, o, t)
      BY <2>4 DEF Remains, Withdraws
    <2> QED BY <2>1, <2>4, <2>5, <2>10 DEF Sound, Accept, Effect, Errs
  <1> QED BY <1>1, <1>2

(* A redemption is refused on a record that is no grant, or is spent. *)
LEMMA BurnSound ==
  ASSUME NEW d, IsDocument(d), NEW o, IsOp(o), NEW t, o.op = "BurnEnrollment"
  PROVE  Sound(BurnEnrollment(d, o.kid, o.serial, t), d, o, t)
  <1> DEFINE k == d.keys[o.kid]
             r == BurnEnrollment(d, o.kid, o.serial, t)
  <1>1. CASE ~( /\ o.serial # NoSerial /\ o.kid \in DOMAIN d.keys /\ IsGrant(k)
                /\ Usable(k, t) /\ ~Spent(k))
    <2>1. \E x \in Errs : r = Refuse(d, x)
      BY <1>1 DEF BurnEnrollment, Errs
    <2> QED BY <2>1, Quiet, ZenonT(60)
  <1>2. CASE /\ o.serial # NoSerial /\ o.kid \in DOMAIN d.keys /\ IsGrant(k)
             /\ Usable(k, t) /\ ~Spent(k)
    <2> DEFINE m == [k EXCEPT !.used = TRUE, !.serial = o.serial, !.redemptions = @ + 1]
               e == bump(SetKey(d, o.kid, m))
    <2>1. r = Accept(e)
      BY <1>2 DEF BurnEnrollment
    <2>2. k \in Key /\ o.serial \in Serials
      BY <1>2 DEF IsDocument, IsOp
    <2>3. m \in Key /\ Redeemed(k, m, o.serial)
      BY <1>2, <2>2, KeyEdits, Zenon
    <2> HIDE DEF m
    <2>4. IsDocument(e) /\ e.keys = With(d.keys, o.kid, m) /\ e.certs = d.certs
      BY <2>3, SetKeyTyped DEF IsOp
    <2> HIDE DEF e
    <2>5. /\ DOMAIN e.keys = DOMAIN d.keys
          /\ \A x \in DOMAIN e.keys : e.keys[x] = IF x = o.kid THEN m ELSE d.keys[x]
      BY <1>2, <2>4 DEF With
    <2>6. \A x \in DOMAIN d.keys : Kept(d.keys[x], d.keys[x])
      BY DEF Kept
    <2>7. KeysFollow(d, e, o, t)
      BY <2>3, <2>5, <2>6 DEF KeysFollow, Burns
    <2>8. CertsFollow(d, e, o, t)
      BY <2>4 DEF CertsFollow
    <2>9. Effect(d, e, o, t)
      BY <1>2, <2>3, <2>5, ZenonT(60) DEF Effect
    <2>10. Remains(d, e, o, t)
      BY <1>2, <2>3, <2>5 DEF Remains, Redeemed, Usable, Expired
    <2> HIDE DEF k, r
    <2> QED BY <2>1, <2>4, <2>7, <2>8, <2>9, <2>10 DEF Sound, Accept, Errs, r
  <1> QED BY <1>1, <1>2

(* A certificate is put on the list, and none is taken off it. *)
LEMMA RevokeCertSound ==
  ASSUME NEW d, IsDocument(d), NEW o, IsOp(o), NEW t, o.op = "RevokeCert"
  PROVE  Sound(RevokeCert(d, o.serial, o.notAfter), d, o, t)
  <1>1. CASE o.serial = NoSerial
    BY <1>1, Quiet DEF RevokeCert, Errs
  <1>2. CASE o.serial # NoSerial
    <2> DEFINE C == With(d.certs, o.serial, o.notAfter)
               e == bump([d EXCEPT !.certs = With(@, o.serial, o.notAfter)])
    <2>1. RevokeCert(d, o.serial, o.notAfter) = Accept(e)
      BY <1>2 DEF RevokeCert
    <2>2. /\ DOMAIN C = DOMAIN d.certs \cup {o.serial} /\ DOMAIN C \subseteq Serials
          /\ C \in [DOMAIN C -> Nat]
          /\ \A s \in DOMAIN C : C[s] = IF s = o.serial THEN o.notAfter ELSE d.certs[s]
      BY <1>2 DEF With, IsDocument, IsOp
    <2>3. d.epoch + 1 \in Nat /\ DOMAIN d.keys \subseteq KIDs /\ d.keys \in [DOMAIN d.keys -> Key]
      BY DEF IsDocument
    <2>8. e = bump([d EXCEPT !.certs = C])
      OBVIOUS
    <2> HIDE DEF C, e
    <2>9. [d EXCEPT !.certs = C] = [epoch |-> d.epoch, keys |-> d.keys, certs |-> C]
      BY Fields, Zenon
    <2>10. bump([epoch |-> d.epoch, keys |-> d.keys, certs |-> C])
             = [epoch |-> d.epoch + 1, keys |-> d.keys, certs |-> C]
      BY Bumped
    <2>4. e = [epoch |-> d.epoch + 1, keys |-> d.keys, certs |-> C]
      BY <2>8, <2>9, <2>10
    <2>5. IsDocument(e) /\ e.keys = d.keys /\ e.certs = C
      BY <2>2, <2>3, <2>4 DEF IsDocument
    <2>6. KeysFollow(d, e, o, t)
      BY <2>5 DEF KeysFollow, Kept
    <2>7. CertsFollow(d, e, o, t) /\ Effect(d, e, o, t)
      BY <2>2, <2>5 DEF CertsFollow, Effect
    <2>11. Remains(d, e, o, t)
      BY <2>5 DEF Remains
    <2> QED BY <2>1, <2>5, <2>6, <2>7, <2>11 DEF Sound, Accept, Errs
  <1> QED BY <1>1, <1>2

(* Pruning takes records away, certificates only when they are old enough. *)
LEMMA PruneSound ==
  ASSUME NEW d, IsDocument(d), NEW o, IsOp(o), NEW t \in Nat, o.op = "Prune"
  PROVE  Sound(Prune(d, o.retain, t), d, o, t)
  <1> DEFINE C == {s \in DOMAIN d.certs : Passed(d.certs[s], o.retain, t)}
             K == {kid \in DOMAIN d.keys : Passed(d.keys[kid].expires, o.retain, t)}
                    \ labelAuthorities(d)
  <1>1. CASE C \cup K = {}
    BY <1>1, Quiet DEF Prune, Errs
  <1>2. CASE C \cup K # {}
    <2> DEFINE DK == Without(d.keys, K)
               DC == Without(d.certs, C)
               e == [epoch |-> d.epoch, keys |-> DK, certs |-> DC]
    <2>1. Prune(d, o.retain, t) = Accept(e)
      BY <1>2 DEF Prune
    <2>2. \A s \in C : Passed(d.certs[s], o.retain, t)
      OBVIOUS
    <2>10. \A kid \in K : ~Usable(d.keys[kid], t)
      <3> TAKE kid \in K
      <3>1. d.keys[kid].expires \in Nat /\ o.retain \in Nat
        BY DEF IsDocument, Key, IsOp
      <3> QED BY <3>1 DEF Passed, Usable, Expired
    <2> HIDE DEF C, K
    <2>3. d.epoch \in Nat
      BY DEF IsDocument
    <2>4. DK = Without(d.keys, K) /\ DC = Without(d.certs, C)
      OBVIOUS
    <2> HIDE DEF DK, DC
    <2>8. e = [epoch |-> d.epoch, keys |-> DK, certs |-> DC]
      OBVIOUS
    <2> HIDE DEF e
    <2>9. /\ Fielded(e) /\ e.epoch \in Nat
          /\ e.keys = Without(d.keys, K) /\ e.certs = Without(d.certs, C)
      BY <2>3, <2>4, <2>8 DEF Fielded
    <2>5. /\ IsDocument(e) /\ DOMAIN e.keys \subseteq DOMAIN d.keys
          /\ DOMAIN e.certs = DOMAIN d.certs \ C
          /\ \A kid \in DOMAIN e.keys : e.keys[kid] = d.keys[kid]
          /\ \A s \in DOMAIN e.certs : e.certs[s] = d.certs[s]
          /\ DOMAIN e.keys = DOMAIN d.keys \ K
      <3>1. DOMAIN e.keys = DOMAIN d.keys \ K /\ e.keys = [kid \in DOMAIN e.keys |-> d.keys[kid]]
        BY <2>9 DEF Without
      <3>2. DOMAIN e.certs = DOMAIN d.certs \ C /\ e.certs = [s \in DOMAIN e.certs |-> d.certs[s]]
        BY <2>9 DEF Without
      <3> QED BY <2>9, <3>1, <3>2, Fewer
    <2>6. KeysFollow(d, e, o, t)
      BY <2>5 DEF KeysFollow, Kept
    <2>7. CertsFollow(d, e, o, t) /\ Effect(d, e, o, t)
      BY <2>2, <2>5 DEF CertsFollow, Effect
    <2>11. Remains(d, e, o, t)
      BY <2>5, <2>10 DEF Remains
    <2> QED BY <2>1, <2>5, <2>6, <2>7, <2>11 DEF Sound, Accept, Errs
  <1> QED BY <1>1, <1>2

(* Every mutation of the document is sound, with EncodeWithin's limit. *)
THEOREM ApplySound ==
  ASSUME NEW d, IsDocument(d), NEW o, IsOp(o), NEW t \in Nat
  PROVE  Sound(Apply(d, o, t), d, o, t)
  <1>1. Sound(Mutate(d, o, t), d, o, t)
    <2>1. CASE o.op = "PutKey"           BY <2>1, PutKeySound DEF Mutate
    <2>2. CASE o.op = "PutKeyIfNoUsable" BY <2>2, MintSound DEF Mutate
    <2>3. CASE o.op = "RevokeKey"        BY <2>3, RevokeKeySound DEF Mutate
    <2>4. CASE o.op = "ReplaceKey"       BY <2>4, ReplaceKeySound DEF Mutate
    <2>5. CASE o.op = "DeleteKey"        BY <2>5, DeleteKeySound DEF Mutate
    <2>6. CASE o.op = "TouchKey"         BY <2>6, TouchKeySound DEF Mutate
    <2>7. CASE o.op = "BurnEnrollment"   BY <2>7, BurnSound DEF Mutate
    <2>8. CASE o.op = "RevokeCert"       BY <2>8, RevokeCertSound DEF Mutate
    <2>9. CASE o.op = "Prune"            BY <2>9, PruneSound DEF Mutate
    <2> QED BY <2>1, <2>2, <2>3, <2>4, <2>5, <2>6, <2>7, <2>8, <2>9 DEF IsOp, Mutations
  <1>2. Apply(d, o, t) \in {Mutate(d, o, t), Refuse(d, "toolarge")}
    BY DEF Apply
  <1>3. Sound(Refuse(d, "toolarge"), d, o, t)
    BY Quiet DEF Errs
  <1> QED BY <1>1, <1>2, <1>3

=============================================================================
