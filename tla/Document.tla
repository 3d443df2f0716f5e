------------------------------ MODULE Document ------------------------------
(***************************************************************************)
(* The life of one credential document: any sequence of the mutations the  *)
(* admin API, enrollment, revocation and the prune pass apply to it while  *)
(* time passes.  unpruned is the document the same calls would have left   *)
(* had the prune pass never run; it is there to say what pruning changes.  *)
(***************************************************************************)
EXTENDS State

CONSTANTS
  Template,    \* the key that is stored under each KID
  TTL,         \* lifetime of each key; 0 never expires
  CertTTL,     \* lifetime of a certificate that may be revoked
  Retention,   \* StateRetention
  RenewGrace,  \* how long past its expiry /renew honours a certificate
  WellKnown,   \* KIDs that are put with PutKeyIfNoUsable (the bootstrap key)
  MaxTime,     \* bound on the clock
  MaxEpoch     \* bound on the number of mutations

VARIABLES doc, unpruned, now

docVars == <<doc, unpruned, now>>

(* What handleCreateKey, handleCreateEnrollment and bootstrapAdminKey mint. *)
Minted(kid) ==
  [Template[kid] EXCEPT !.created = now, !.expires = IF TTL[kid] = 0 THEN 0 ELSE now + TTL[kid]]

(* The calls that may come.  Random KIDs are never minted twice. *)
Calls ==
  [op : {"PutKey"}, kid : (KIDs \ WellKnown) \ DOMAIN unpruned.keys]
    \cup [op : {"PutKeyIfNoUsable"}, kid : WellKnown]
    \cup [op : {"RevokeKey", "DeleteKey", "TouchKey"}, kid : KIDs]
    \cup [op : {"ReplaceKey"}, kid : (KIDs \ WellKnown) \ DOMAIN unpruned.keys, old : KIDs]
    \cup [op : {"BurnEnrollment"}, kid : KIDs, serial : Serials \cup {NoSerial}]
    \cup [op : {"RevokeCert"}, serial : Serials \cup {NoSerial}, notAfter : {0, CertTTL}]

Minting == {"PutKey", "PutKeyIfNoUsable", "ReplaceKey"}

Keyed(o) ==
  IF o.op \in Minting
  THEN [x \in DOMAIN o \cup {"key"} |-> IF x = "key" THEN Minted(o.kid) ELSE o[x]]
  ELSE o

DocInit ==
  /\ doc = NewState
  /\ unpruned = NewState
  /\ now = 1

Call(c) ==
  LET o == Keyed(c)
      r == Apply(doc, o, now)
  IN  /\ doc.epoch < MaxEpoch
      /\ r.changed
      /\ doc' = r.doc
      /\ unpruned' = Mutate(unpruned, o, now).doc
      /\ UNCHANGED now

(* runStatePrune: the pass keeps a record for the retention and the renew   *)
(* grace past the moment it stopped mattering.                              *)
pruneOnce ==
  LET r == Apply(doc, [op |-> "Prune", retain |-> Retention + RenewGrace], now)
  IN  /\ r.changed
      /\ doc' = r.doc
      /\ UNCHANGED <<unpruned, now>>

Tick ==
  /\ now < MaxTime
  /\ now' = now + 1
  /\ UNCHANGED <<doc, unpruned>>

DocNext == (\E c \in Calls : Call(c)) \/ pruneOnce \/ Tick

DocSpec == DocInit /\ [][DocNext]_docVars

-----------------------------------------------------------------------------
(* What the hub decides from a document. *)

Authenticates(d, t) == {kid \in DOMAIN d.keys : Usable(d.keys[kid], t)}
Redeemable(d, t) == {kid \in Authenticates(d, t) : IsGrant(d.keys[kid]) /\ ~Spent(d.keys[kid])}
Refuses(d, t) == {s \in DOMAIN d.certs : ~Passed(d.certs[s], RenewGrace, t)}
LabelSource(d) == [c \in ClusterIDs |-> Newest(d, c)]

(* The document keeps its shape. *)
DocTypeOK == IsDocument(doc) /\ IsDocument(unpruned) /\ now \in Nat

(* Pruning never changes who authenticates, which grant can be redeemed or  *)
(* which unexpired or still renewable certificate is refused, whatever      *)
(* calls come before and after it: Prune's "records that can no longer      *)
(* affect any decision".                                                    *)
PruneKeepsAuthorization ==
  /\ Authenticates(doc, now) = Authenticates(unpruned, now)
  /\ Redeemable(doc, now) = Redeemable(unpruned, now)
  /\ Refuses(doc, now) = Refuses(unpruned, now)

(* Every mutation that changes a decision moves the epoch, and none moves   *)
(* it back: verifier and revocation caches are keyed on it (bump, Prune,    *)
(* TouchKey, ReplaceKey).                                                   *)
EpochTracksDecisions ==
  /\ doc'.epoch >= doc.epoch
  /\ now' = now /\ doc'.epoch = doc.epoch =>
       /\ Authenticates(doc', now) = Authenticates(doc, now)
       /\ Redeemable(doc', now) = Redeemable(doc, now)
       /\ Refuses(doc', now) = Refuses(doc, now)
       /\ LabelSource(doc') = LabelSource(doc)

=============================================================================
