------------------------------ MODULE KeyAdmin ------------------------------
(***************************************************************************)
(* The admin API's credential routes (internal/hubapi/admin.go): create,   *)
(* rotate, revoke or purge a key, mint and revoke an enrollment token,     *)
(* from several operators at once on any replica.  Each handler is one     *)
(* step per store call.  Key ids are random: a mint may draw one that is   *)
(* taken and then draws again, at most MintRetries times.                  *)
(***************************************************************************)
EXTENDS State

CONSTANTS
  Requests,
  None,           \* no request
  AgentKeyTTL, AdminKeyTTL, EnrollmentTTL,  \* default and maximum lifetimes
  MintRetries,
  StoreMayLie,    \* a store call may be applied and still answer an error
  MaxTime

KeyAdminConstants ==
  /\ {AgentKeyTTL, AdminKeyTTL, EnrollmentTTL, MintRetries} \subseteq Nat \ {0}
  /\ 0 \notin KIDs /\ None \notin Requests /\ StoreMayLie \in BOOLEAN /\ MaxTime \in Nat

VARIABLES
  doc, now, draining,
  req,      \* each request: what it will do next and with what
  secretOf, \* the request whose secret the record under a key id verifies
  parent,   \* the key a record was minted to replace, 0 for none
  shown     \* tokens returned: the key id and the request they went to

vars == <<doc, now, draining, req, secretOf, parent, shown>>

NewRequest == [pc |-> "new", class |-> "agent", kid |-> 0, expires |-> 0, cluster |-> NoCluster,
               reusable |-> FALSE, max |-> 0, attempt |-> 0]
Done == [NewRequest EXCEPT !.pc = "done"]

MaxTTL(class) ==
  CASE class = "agent" -> AgentKeyTTL
    [] class = "admin" -> AdminKeyTTL
    [] class = "enrollment" -> EnrollmentTTL

(* resolveTTL: zero takes the maximum, a longer one is refused. *)
resolveTTL(want, max) ==
  IF want = 0 THEN {max} ELSE IF want \in 1 .. max THEN {want} ELSE {}

(* resolveExpiry: the expiry, or no value for a refusal.  Zero is never.    *)
resolveExpiry(want, noExpiry, class, t) ==
  IF ~noExpiry THEN {t + ttl : ttl \in resolveTTL(want, MaxTTL(class))}
  ELSE IF class # "agent" \/ want # 0 THEN {} ELSE {0}

NewKey(r, t) ==
  [class |-> r.class, cluster |-> r.cluster, created |-> t, expires |-> r.expires,
   revoked |-> FALSE, lastUsed |-> 0, reusable |-> r.reusable, max |-> r.max,
   redemptions |-> 0, used |-> FALSE, serial |-> NoSerial]

(* An operator's first key, minted at bootstrap. *)
Init ==
  /\ doc = [NewState EXCEPT !.keys = [k \in {1} |->
              NewKey([NewRequest EXCEPT !.class = "admin", !.expires = AdminKeyTTL], 0)]]
  /\ now = 0 /\ draining = FALSE
  /\ req = [r \in Requests |-> NewRequest]
  /\ secretOf = [k \in KIDs |-> IF k = 1 THEN "bootstrap" ELSE None]
  /\ parent = [k \in KIDs |-> 0]
  /\ shown = {}

Become(r, v) == req' = [req EXCEPT ![r] = v]

-----------------------------------------------------------------------------
(* handleCreateKey up to its mint; a refused body ends the request. *)
CreateKey(r, class, ttl, noExpiry) ==
  /\ req[r].pc = "new" /\ ~draining
  /\ class \in {"agent", "admin"}
  /\ \E e \in resolveExpiry(ttl, noExpiry, class, now) :
       Become(r, [NewRequest EXCEPT !.pc = "mint", !.class = class, !.expires = e])
  /\ UNCHANGED <<doc, now, draining, secretOf, parent, shown>>

(* handleCreateEnrollment: a cap is for a reusable token only. *)
CreateEnrollment(r, cluster, ttl, reusable, max) ==
  /\ req[r].pc = "new" /\ ~draining
  /\ max > 0 => reusable
  /\ \E d \in resolveTTL(ttl, EnrollmentTTL) :
       Become(r, [NewRequest EXCEPT !.pc = "mint", !.class = "enrollment", !.expires = now + d,
                                    !.cluster = cluster, !.reusable = reusable, !.max = max])
  /\ UNCHANGED <<doc, now, draining, secretOf, parent, shown>>

(* handleRotateKey up to its mint: 404, 400 for an enrollment token, 409    *)
(* for a key it sees revoked.                                               *)
RotateLoad(r, kid, ttl, noExpiry) ==
  /\ req[r].pc = "new" /\ ~draining
  /\ kid \in DOMAIN doc.keys
  /\ doc.keys[kid].class # "enrollment" /\ ~doc.keys[kid].revoked
  /\ \E e \in resolveExpiry(ttl, noExpiry, doc.keys[kid].class, now) :
       Become(r, [NewRequest EXCEPT !.pc = "mint", !.kid = kid, !.expires = e,
                                    !.class = doc.keys[kid].class])
  /\ UNCHANGED <<doc, now, draining, secretOf, parent, shown>>

Stored(r, kid) ==
  /\ secretOf' = [secretOf EXCEPT ![kid] = r]
  /\ parent' = [parent EXCEPT ![kid] = req[r].kid]

(* mintKeyWith's commit: PutKey, or ReplaceKey for a rotation. *)
Commit(r, kid) ==
  IF req[r].kid = 0 THEN PutKey(doc, kid, NewKey(req[r], now))
  ELSE ReplaceKey(doc, kid, NewKey(req[r], now), req[r].kid)

Redraw(r) ==
  IF req[r].attempt + 1 = MintRetries THEN Become(r, Done)
  ELSE Become(r, [req[r] EXCEPT !.attempt = @ + 1])

(* One turn of mintKeyWith's loop.  A taken key id is drawn again; any      *)
(* other refusal ends the request.  No draw repeats the id of a purged key. *)
Mint(r, kid) ==
  /\ req[r].pc = "mint"
  /\ kid \in DOMAIN doc.keys \/ secretOf[kid] = None
  /\ LET c == Commit(r, kid)
     IN  \/ /\ c.err = "none"
            /\ doc' = c.doc /\ Stored(r, kid)
            /\ Become(r, [NewRequest EXCEPT !.pc = "minted", !.kid = kid])
         \/ /\ c.err = "exists"
            /\ Redraw(r)
            /\ UNCHANGED <<doc, secretOf, parent>>
         \/ /\ c.err \notin {"none", "exists"}
            /\ Become(r, Done)
            /\ UNCHANGED <<doc, secretOf, parent>>
         \/ /\ StoreMayLie /\ c.err = "none"
            /\ doc' = c.doc /\ Stored(r, kid)
            /\ Become(r, Done)
  /\ UNCHANGED <<now, draining, shown>>

(* The 201 that carries the only copy of the token. *)
ShowToken(r) ==
  /\ req[r].pc = "minted"
  /\ shown' = shown \cup {[kid |-> req[r].kid, to |-> r]}
  /\ Become(r, Done)
  /\ UNCHANGED <<doc, now, draining, secretOf, parent>>

-----------------------------------------------------------------------------
(* handleRevokeKey and handleRevokeEnrollment: load (404), then the store.  *)
RevokeLoad(r, kid, how) ==
  /\ req[r].pc = "new" /\ ~draining
  /\ kid \in DOMAIN doc.keys
  /\ how = "revokeEnrollment" => doc.keys[kid].class = "enrollment"
  /\ Become(r, [NewRequest EXCEPT !.pc = IF how = "purge" THEN "purge" ELSE "revoke", !.kid = kid])
  /\ UNCHANGED <<doc, now, draining, secretOf, parent, shown>>

RevokeStore(r) ==
  /\ req[r].pc \in {"revoke", "purge"}
  /\ doc' = IF req[r].pc = "purge" THEN DeleteKey(doc, req[r].kid).doc
            ELSE RevokeKey(doc, req[r].kid).doc
  /\ Become(r, Done)
  /\ UNCHANGED <<now, draining, secretOf, parent, shown>>

Drain == ~draining /\ draining' = TRUE /\ UNCHANGED <<doc, now, req, secretOf, parent, shown>>
Tick == now < MaxTime /\ now' = now + 1
        /\ UNCHANGED <<doc, draining, req, secretOf, parent, shown>>

Lifetimes == 0 .. AgentKeyTTL + 1

Next ==
  \/ \E r \in Requests, ttl \in Lifetimes, no \in BOOLEAN :
       \/ \E class \in Classes : CreateKey(r, class, ttl, no)
       \/ \E kid \in KIDs : RotateLoad(r, kid, ttl, no)
  \/ \E r \in Requests, c \in ClusterIDs, ttl \in Lifetimes, re \in BOOLEAN, max \in 0 .. 1 :
       CreateEnrollment(r, c, ttl, re, max)
  \/ \E r \in Requests, kid \in KIDs : Mint(r, kid)
  \/ \E r \in Requests : ShowToken(r) \/ RevokeStore(r)
  \/ \E r \in Requests, kid \in KIDs, how \in {"revoke", "purge", "revokeEnrollment"} :
       RevokeLoad(r, kid, how)
  \/ Drain
  \/ Tick

Spec == Init /\ [][Next]_vars

-----------------------------------------------------------------------------
TypeOK ==
  /\ IsDocument(doc) /\ now \in 0 .. MaxTime /\ draining \in BOOLEAN
  /\ \A r \in Requests : /\ req[r].pc \in {"new", "mint", "minted", "revoke", "purge", "done"}
                         /\ req[r].attempt \in 0 .. MintRetries - 1
                         /\ req[r].kid \in KIDs \cup {0}
  /\ secretOf \in [KIDs -> Requests \cup {None, "bootstrap"}]
  /\ parent \in [KIDs -> KIDs \cup {0}]
  /\ shown \subseteq [kid : KIDs, to : Requests]

(* A token an operator was shown opens the record under its key id for as   *)
(* long as there is one: no later mint that drew the same id has put its    *)
(* own secret there (mintKeyWith draws again rather than overwrite).        *)
ShownOpensItsKey == \A s \in shown : secretOf[s.kid] = s.to

Replacements(old) == {k \in DOMAIN doc.keys : parent[k] = old}

(* However many rotations of one key race, with each other and with its     *)
(* revocation, at most one replacement is minted, and only while the key    *)
(* it replaces was live: a replaced key is revoked (ReplaceKey is one       *)
(* mutation, and refuses a key revoked since handleRotateKey loaded it).    *)
OneSuccessor ==
  \A old \in DOMAIN doc.keys :
    /\ Cardinality(Replacements(old)) <= 1
    /\ Replacements(old) # {} => doc.keys[old].revoked

(* Every key the routes mint lives at most the maximum of its class, and    *)
(* only an agent key may live forever, across any chain of rotations: a     *)
(* rotation restates the lifetime and never inherits it.                    *)
LifetimesBounded ==
  \A kid \in DOMAIN doc.keys :
    LET k == doc.keys[kid]
    IN  IF k.expires = 0 THEN k.class = "agent" ELSE k.expires <= k.created + MaxTTL(k.class)

=============================================================================
