------------------------------- MODULE State -------------------------------
(***************************************************************************)
(* The hub's credential document (internal/store/state.go): keys by KID,   *)
(* revoked certificates by serial and the revocation epoch, with every     *)
(* mutation a store may apply to it.  A mutation is a function of the      *)
(* document and the time to an outcome: the document it leaves, whether it *)
(* changed anything, and the error it returns.                             *)
(***************************************************************************)
EXTENDS Integers, FiniteSets

CONSTANTS
  KIDs,        \* key ids, ordered as their strings are
  Serials,     \* certificate serials
  NoSerial,    \* the empty serial
  ClusterIDs,  \* clusters an enrollment grant may be bound to
  NoCluster,   \* a key that carries no enrollment grant
  MaxRecords   \* EncodeWithin's limit, counted in records; 0 is unbounded

ASSUME StateConstants ==
  /\ KIDs \subseteq Nat /\ IsFiniteSet(KIDs) /\ IsFiniteSet(Serials)
  /\ NoSerial \notin Serials /\ NoCluster \notin ClusterIDs
  /\ MaxRecords \in Nat

Classes == {"agent", "admin", "enrollment"}

(* fleet.Key and its grant.  A zero expiry never expires; redemptions and   *)
(* serial are Enrollment.Redemptions and Enrollment.CertSerial, and used    *)
(* says whether UsedAt is set.                                              *)
Key == [class : Classes, cluster : ClusterIDs \cup {NoCluster}, created : Nat,
        expires : Nat, revoked : BOOLEAN, lastUsed : Nat, reusable : BOOLEAN,
        max : Nat, redemptions : Nat, used : BOOLEAN, serial : Serials \cup {NoSerial}]

IsDocument(d) ==
  /\ d = [epoch |-> d.epoch, keys |-> d.keys, certs |-> d.certs]
  /\ d.epoch \in Nat
  /\ DOMAIN d.keys \subseteq KIDs /\ d.keys \in [DOMAIN d.keys -> Key]
  /\ DOMAIN d.certs \subseteq Serials /\ d.certs \in [DOMAIN d.certs -> Nat]

NewState == [epoch |-> 0, keys |-> [k \in {} |-> 0], certs |-> [s \in {} |-> 0]]

With(f, x, v) == [y \in DOMAIN f \cup {x} |-> IF y = x THEN v ELSE f[y]]
Without(f, X) == [y \in DOMAIN f \ X |-> f[y]]

Expired(k, t) == k.expires # 0 /\ t > k.expires
Usable(k, t) == ~k.revoked /\ ~Expired(k, t)
IsGrant(k) == k.class = "enrollment" /\ k.cluster # NoCluster

Refuse(d, e) == [doc |-> d, changed |-> FALSE, err |-> e]
NoChange(d)  == [doc |-> d, changed |-> FALSE, err |-> "none"]
Accept(d)    == [doc |-> d, changed |-> TRUE, err |-> "none"]

bump(d) == [d EXCEPT !.epoch = @ + 1]

-----------------------------------------------------------------------------
(* Keys. *)

SetKey(d, kid, k) == [d EXCEPT !.keys = With(@, kid, k)]

PutKey(d, kid, k) ==
  IF kid \in DOMAIN d.keys THEN Refuse(d, "exists") ELSE Accept(bump(SetKey(d, kid, k)))

PutKeyIfNoUsable(d, kid, k, t) ==
  IF kid \in DOMAIN d.keys /\ Usable(d.keys[kid], t)
  THEN NoChange(d)
  ELSE Accept(bump(SetKey(d, kid, k)))

(* A second revocation rewrites nothing and does not move the epoch. *)
RevokeKey(d, kid) ==
  IF kid \notin DOMAIN d.keys THEN Refuse(d, "notfound")
  ELSE IF d.keys[kid].revoked THEN NoChange(d)
  ELSE Accept(bump(SetKey(d, kid, [d.keys[kid] EXCEPT !.revoked = TRUE])))

(* Fresh key in and old key revoked as one mutation with one bump. *)
ReplaceKey(d, fresh, k, old) ==
  IF old \notin DOMAIN d.keys THEN Refuse(d, "notfound")
  ELSE IF d.keys[old].revoked THEN Refuse(d, "revoked")
  ELSE IF fresh \in DOMAIN d.keys THEN Refuse(d, "exists")
  ELSE Accept(SetKey(PutKey(d, fresh, k).doc, old, [d.keys[old] EXCEPT !.revoked = TRUE]))

DeleteKey(d, kid) ==
  IF kid \notin DOMAIN d.keys THEN Refuse(d, "notfound")
  ELSE Accept(bump([d EXCEPT !.keys = Without(@, {kid})]))

(* Deliberately no bump. *)
TouchKey(d, kid, t) ==
  IF kid \notin DOMAIN d.keys THEN Refuse(d, "notfound")
  ELSE Accept(SetKey(d, kid, [d.keys[kid] EXCEPT !.lastUsed = t]))

(* Spent with an off-by-one at the cap. *)
SpentLate(k) == IF k.reusable THEN k.max > 0 /\ k.redemptions > k.max ELSE k.used

(* A single-use grant is spent by its first redemption, a reusable one by   *)
(* its last permitted one.                                                  *)
Spent(k) == IF k.reusable THEN k.max > 0 /\ k.redemptions >= k.max ELSE k.used

BurnEnrollment(d, kid, serial, t) ==
  LET k == d.keys[kid]
  IN  IF serial = NoSerial THEN Refuse(d, "invalid")
      ELSE IF kid \notin DOMAIN d.keys THEN Refuse(d, "notfound")
      ELSE IF ~IsGrant(k) THEN Refuse(d, "wrongclass")
      ELSE IF ~Usable(k, t) THEN Refuse(d, "notusable")
      ELSE IF Spent(k) THEN Refuse(d, "used")
      ELSE Accept(bump(SetKey(d, kid, [k EXCEPT !.used = TRUE, !.serial = serial,
                                                !.redemptions = @ + 1])))

-----------------------------------------------------------------------------
(* Revoked certificates and pruning. *)

(* Replaces an entry that is there already; always bumps. *)
RevokeCert(d, serial, notAfter) ==
  IF serial = NoSerial THEN Refuse(d, "invalid")
  ELSE Accept(bump([d EXCEPT !.certs = With(@, serial, notAfter)]))

(* The record whose labels the hub applies to cluster c: the newest grant   *)
(* not revoked, the smallest KID among equals.                              *)
Grants(d, c) ==
  {kid \in DOMAIN d.keys : /\ IsGrant(d.keys[kid]) /\ d.keys[kid].cluster = c
                           /\ ~d.keys[kid].revoked}

Newest(d, c) ==
  {kid \in Grants(d, c) : \A o \in Grants(d, c) :
     \/ d.keys[o].created < d.keys[kid].created
     \/ d.keys[o].created = d.keys[kid].created /\ kid <= o}

labelAuthorities(d) == UNION {Newest(d, c) : c \in ClusterIDs}

(* Past t: a zero never passes. *)
Passed(at, retain, t) == at # 0 /\ t > at + retain

Prune(d, retain, t) ==
  LET certs == {s \in DOMAIN d.certs : Passed(d.certs[s], retain, t)}
      keys  == {kid \in DOMAIN d.keys : Passed(d.keys[kid].expires, retain, t)}
                 \ labelAuthorities(d)
  IN  IF certs \cup keys = {} THEN NoChange(d)
      ELSE Accept([epoch |-> d.epoch, keys |-> Without(d.keys, keys), certs |-> Without(d.certs, certs)])

-----------------------------------------------------------------------------
Mutations == {"PutKey", "PutKeyIfNoUsable", "RevokeKey", "ReplaceKey", "DeleteKey", "TouchKey",
              "BurnEnrollment", "RevokeCert", "Prune"}

(* A mutation as the store's methods take it. *)
IsOp(o) ==
  /\ o.op \in Mutations
  /\ o.op \in {"PutKey", "PutKeyIfNoUsable", "ReplaceKey"} => o.kid \in KIDs /\ o.key \in Key
  /\ o.op \in {"RevokeKey", "DeleteKey", "TouchKey", "BurnEnrollment"} => o.kid \in KIDs
  /\ o.op = "ReplaceKey" => o.old \in KIDs
  /\ o.op \in {"BurnEnrollment", "RevokeCert"} => o.serial \in Serials \cup {NoSerial}
  /\ o.op = "RevokeCert" => o.notAfter \in Nat
  /\ o.op = "Prune" => o.retain \in Nat

(* Which operations put a record under a key id, redeem it, or take it back. *)
Issues(o, kid) == o.op \in {"PutKey", "ReplaceKey"} /\ o.kid = kid
Mints(o, kid)  == o.op = "PutKeyIfNoUsable" /\ o.kid = kid
Burns(o, kid)  == o.op = "BurnEnrollment" /\ o.kid = kid
Withdraws(o, kid) ==
  \/ o.op \in {"RevokeKey", "DeleteKey"} /\ o.kid = kid
  \/ o.op = "ReplaceKey" /\ o.old = kid

(* One mutation o at time t, and EncodeWithin's verdict on what it leaves.  *)
Mutate(d, o, t) ==
  CASE o.op = "PutKey"           -> PutKey(d, o.kid, o.key)
    [] o.op = "PutKeyIfNoUsable" -> PutKeyIfNoUsable(d, o.kid, o.key, t)
    [] o.op = "RevokeKey"        -> RevokeKey(d, o.kid)
    [] o.op = "ReplaceKey"       -> ReplaceKey(d, o.kid, o.key, o.old)
    [] o.op = "DeleteKey"        -> DeleteKey(d, o.kid)
    [] o.op = "TouchKey"         -> TouchKey(d, o.kid, t)
    [] o.op = "BurnEnrollment"   -> BurnEnrollment(d, o.kid, o.serial, t)
    [] o.op = "RevokeCert"       -> RevokeCert(d, o.serial, o.notAfter)
    [] o.op = "Prune"            -> Prune(d, o.retain, t)

Records(d) == Cardinality(DOMAIN d.keys) + Cardinality(DOMAIN d.certs)

Apply(d, o, t) ==
  LET r == Mutate(d, o, t)
  IN  IF r.changed /\ MaxRecords > 0 /\ Records(r.doc) > MaxRecords
      THEN Refuse(d, "toolarge") ELSE r

=============================================================================
