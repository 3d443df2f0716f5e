----------------------------- MODULE Enrollment -----------------------------
(***************************************************************************)
(* How a spoke gets and keeps its certificate: POST /enroll, GET           *)
(* /renew/challenge and POST /renew (internal/hubapi/public.go) with the   *)
(* certificate authority's part (internal/ca) and the proof of possession  *)
(* (internal/certproof), served by several replicas over one credential    *)
(* document, while operators revoke and the pruner prunes.                 *)
(*                                                                         *)
(* A handler is a sequence of steps, one per store call, so that everything*)
(* it read may be out of date at the next.  A store call may also be       *)
(* applied and still answer with an error.  A CSR is the public key in it: *)
(* everything else it asks for is discarded.  A challenge is its expiry.   *)
(***************************************************************************)
EXTENDS State

CONSTANTS
  Calls,           \* requests in flight, on any replica
  PublicKeys,      \* key pairs of the spokes
  BadCSR,          \* a request no certificate is issued for
  Minted,          \* keys of the document at the start, by KID
  Issued,          \* certificates issued before the start, by serial
  SpokeCertTTL, RenewGrace, RenewChallengeTTL, StateRetention,
  Hold,            \* longest a renewal handler runs, in ticks
  MaxTime, MaxRevocations, MaxProofs

EnrollmentConstants ==
  /\ Serials = 1 .. Cardinality(Serials) /\ NoSerial = 0
  /\ DOMAIN Minted \subseteq KIDs /\ DOMAIN Issued \subseteq Serials
  /\ {SpokeCertTTL, RenewGrace, RenewChallengeTTL, StateRetention, Hold} \subseteq Nat
  /\ BadCSR \notin PublicKeys

VARIABLES
  doc,     \* the credential document
  now,
  certs,   \* every certificate signed, by serial
  proofs,  \* every transcript a spoke has signed
  call,    \* what each request has read and decided so far
  ever,    \* serials an operator was told are revoked
  told     \* enrollments answered 201: the grant and the serial

vars == <<doc, now, certs, proofs, call, ever, told>>

CSRs == PublicKeys \cup {BadCSR}
Versions == {"tunnel", "renew"}
Certificate == [cluster : ClusterIDs, key : PublicKeys, notAfter : Nat, from : Nat]
Proof == [key : PublicKeys, nonce : Nat, version : Versions, cluster : ClusterIDs,
          csr : CSRs]

Idle == [pc |-> "idle", kid |-> 0, csr |-> BadCSR, cluster |-> NoCluster, serial |-> NoSerial,
         proof |-> {}, held |-> 0, clean |-> TRUE]

-----------------------------------------------------------------------------
(* ca.CA. *)

Signed(cluster, key, from) ==
  [cluster |-> cluster, key |-> key, notAfter |-> now + SpokeCertTTL, from |-> from]

(* Serials are random; taking them in order loses nothing but the collision *)
(* of two 128-bit draws.                                                    *)
NextSerial == Cardinality(DOMAIN certs) + 1
CanSign == NextSerial \in Serials

(* It parses, is signed by the key in it, and that key has the accepted profile. *)
checkCSRPublicKey(csr) == csr # BadCSR

(* sign and IssueSpokeFromCSR: identity from the caller, key from the CSR. *)
IssueSpokeFromCSR(csr, cluster, from) ==
  /\ CanSign
  /\ checkCSRPublicKey(csr)
  /\ certs' = With(certs, NextSerial, Signed(cluster, csr, from))

VerifyChain(s) == now <= certs[s].notAfter

VerifyChainAllowingExpiry(s) ==
  \/ VerifyChain(s)
  \/ RenewGrace > 0 /\ now <= certs[s].notAfter + RenewGrace

(* certproof.Verify: the transcript is injective, so a proof verifies for   *)
(* exactly the fields it was made over.                                     *)

VerifyProof(leaf, p, nonce, version, cluster, csr) ==
  /\ p.key = leaf.key /\ p.nonce = nonce /\ p.version = version
  /\ p.cluster = cluster /\ p.csr = csr

-----------------------------------------------------------------------------
Init ==
  /\ doc = [NewState EXCEPT !.keys = Minted]
  /\ now = 0
  /\ certs = Issued
  /\ proofs = {}
  /\ call = [c \in Calls |-> Idle]
  /\ ever = {} /\ told = {}

Goto(c, pc) == call' = [call EXCEPT ![c].pc = pc]
Finish(c) == call' = [call EXCEPT ![c] = Idle]

(* handleEnroll behind enrollmentGate and the verifier, up to the read of   *)
(* the grant.  An absent key, a grant bound to no cluster and a single-use  *)
(* grant already seen spent are answered here.                              *)
EnrollLoad(c, kid, csr) ==
  /\ call[c].pc = "idle"
  /\ kid \in DOMAIN doc.keys
  /\ IsGrant(doc.keys[kid])
  /\ ~(~doc.keys[kid].reusable /\ doc.keys[kid].used)
  /\ call' = [call EXCEPT ![c] = [Idle EXCEPT !.pc = "loaded", !.kid = kid, !.csr = csr,
                                              !.cluster = doc.keys[kid].cluster]]
  /\ UNCHANGED <<doc, now, certs, proofs, ever, told>>

EnrollSign(c) ==
  /\ call[c].pc = "loaded"
  /\ \/ /\ IssueSpokeFromCSR(call[c].csr, call[c].cluster, 0)
        /\ call' = [call EXCEPT ![c].pc = "signed", ![c].serial = NextSerial]
     \/ ~checkCSRPublicKey(call[c].csr) /\ Finish(c) /\ UNCHANGED certs
  /\ UNCHANGED <<doc, now, proofs, ever, told>>

(* 409, and a security event. *)
replay(c) == Finish(c)

(* A burn that answers before it asks the store. *)
EnrollBurnLate(c) ==
  /\ call[c].pc = "signed"
  /\ LET r == BurnEnrollment(doc, call[c].kid, call[c].serial, now)
     IN  /\ doc' = r.doc
         /\ IF r.err \in {"none", "used"} THEN Goto(c, "burned") ELSE Finish(c)
  /\ UNCHANGED <<now, certs, proofs, ever, told>>

(* The burn: applied, refused (409 for a spent grant, 500 for the rest), or *)
(* an error whether or not it was applied.                                  *)
EnrollBurn(c) ==
  /\ call[c].pc = "signed"
  /\ LET r == BurnEnrollment(doc, call[c].kid, call[c].serial, now)
     IN  \/ r.err = "none" /\ doc' = r.doc /\ Goto(c, "burned")
         \/ r.err = "used" /\ doc' = doc /\ replay(c)
         \/ doc' \in {doc, r.doc} /\ Finish(c)
  /\ UNCHANGED <<now, certs, proofs, ever, told>>

(* writeJSON 201, or the replica dies first. *)
EnrollRespond(c) ==
  /\ call[c].pc = "burned"
  /\ told' \in {told, told \cup {[kid |-> call[c].kid, serial |-> call[c].serial]}}
  /\ Finish(c)
  /\ UNCHANGED <<doc, now, certs, proofs, ever>>

-----------------------------------------------------------------------------
(* handleRenewChallenge, then the spoke signs for the CSR it built.         *)
SignRenewal(s, csr) ==
  /\ s \in DOMAIN certs /\ Cardinality(proofs) < MaxProofs
  /\ proofs' = proofs \cup {[key |-> certs[s].key, nonce |-> now + RenewChallengeTTL,
                             version |-> "renew", cluster |-> certs[s].cluster, csr |-> csr]}
  /\ UNCHANGED <<doc, now, certs, call, ever, told>>

(* The tunnel handshake has the spoke sign whatever challenge it is handed. *)
SignTunnel(s) ==
  /\ s \in DOMAIN certs /\ Cardinality(proofs) < MaxProofs
  /\ proofs' = proofs \cup {[key |-> certs[s].key, nonce |-> now + RenewChallengeTTL,
                             version |-> "tunnel", cluster |-> certs[s].cluster,
                             csr |-> BadCSR]}
  /\ UNCHANGED <<doc, now, certs, call, ever, told>>

(* verifyRenewNonce: any replica verifies what any other issued. *)
verifyRenewNonce(nonce) == now <= nonce

(* handleRenew up to its read of the revocation list.  What the request     *)
(* pairs with what is the network's choice.                                 *)
RenewPost(c, s, p, csr) ==
  /\ call[c].pc = "idle"
  /\ s \in DOMAIN certs /\ p \in proofs
  /\ verifyRenewNonce(p.nonce)
  /\ VerifyChainAllowingExpiry(s)
  /\ call' = [call EXCEPT ![c] = [Idle EXCEPT !.pc = "verified", !.csr = csr, !.proof = {p},
                                              !.cluster = certs[s].cluster, !.serial = s]]
  /\ UNCHANGED <<doc, now, certs, proofs, ever, told>>

revokedSerials == DOMAIN doc.certs

(* The revocation list, then the proof over the identity the chain gave and the  *)
(* CSR that came along.                                                     *)
RenewRevoked(c) ==
  /\ call[c].pc = "verified"
  /\ IF /\ call[c].serial \notin revokedSerials
        /\ \A p \in call[c].proof : VerifyProof(certs[call[c].serial], p, p.nonce, "renew",
                                                 call[c].cluster, call[c].csr)
     THEN call' = [call EXCEPT ![c].pc = "proven", ![c].proof = {},
                               ![c].clean = call[c].serial \notin ever]
     ELSE Finish(c)
  /\ UNCHANGED <<doc, now, certs, proofs, ever, told>>

RenewIssue(c) ==
  /\ call[c].pc = "proven"
  /\ IssueSpokeFromCSR(call[c].csr, call[c].cluster, call[c].serial)
  /\ Finish(c)
  /\ UNCHANGED <<doc, now, proofs, ever, told>>

-----------------------------------------------------------------------------
(* handleRevokeCert.  The operator leaves notAfter out or copies it from    *)
(* the certificate; one in the past is refused.                             *)
RevokedUntil(s) == {now + SpokeCertTTL, certs[s].notAfter} \cap now .. now + SpokeCertTTL

RevokeSpoke(s) ==
  /\ s \in DOMAIN certs /\ Cardinality(ever) < MaxRevocations
  /\ \E until \in RevokedUntil(s) : doc' = RevokeCert(doc, s, until).doc
  /\ ever' = ever \cup {s}
  /\ UNCHANGED <<now, certs, proofs, call, told>>

(* handleRevokeEnrollment. *)
RevokeEnrollment(kid) ==
  /\ RevokeKey(doc, kid).changed
  /\ doc' = RevokeKey(doc, kid).doc
  /\ UNCHANGED <<now, certs, proofs, call, ever, told>>

(* runStatePrune keeps what /renew can still be asked about. *)
Retain == StateRetention + RenewGrace

PruneOnce ==
  /\ Prune(doc, Retain, now).changed
  /\ doc' = Prune(doc, Retain, now).doc
  /\ UNCHANGED <<now, certs, proofs, call, ever, told>>

Renewing(c) == call[c].pc \in {"verified", "proven"}

Tick ==
  /\ now < MaxTime
  /\ \A c \in Calls : Renewing(c) => call[c].held < Hold
  /\ now' = now + 1
  /\ call' = [c \in Calls |-> IF Renewing(c) THEN [call[c] EXCEPT !.held = @ + 1] ELSE call[c]]
  /\ UNCHANGED <<doc, certs, proofs, ever, told>>

Next ==
  \/ \E c \in Calls, kid \in KIDs, csr \in CSRs : EnrollLoad(c, kid, csr)
  \/ \E c \in Calls : EnrollSign(c) \/ EnrollBurn(c) \/ EnrollRespond(c)
  \/ \E s \in Serials : SignTunnel(s) \/ \E csr \in PublicKeys : SignRenewal(s, csr)
  \/ \E c \in Calls, s \in Serials, csr \in PublicKeys, p \in proofs : RenewPost(c, s, p, csr)
  \/ \E c \in Calls : RenewRevoked(c) \/ RenewIssue(c)
  \/ \E s \in Serials : RevokeSpoke(s)
  \/ \E kid \in KIDs : RevokeEnrollment(kid)
  \/ PruneOnce
  \/ Tick

Spec == Init /\ [][Next]_vars

-----------------------------------------------------------------------------
TypeOK ==
  /\ IsDocument(doc) /\ now \in 0 .. MaxTime
  /\ DOMAIN certs \subseteq Serials /\ certs \in [DOMAIN certs -> Certificate]
  /\ proofs \subseteq Proof
  /\ \A c \in Calls :
       /\ call[c].pc \in {"idle", "loaded", "signed", "burned", "verified", "proven"}
       /\ call[c].csr \in CSRs /\ call[c].held \in 0 .. Hold
       /\ call[c].serial \in Serials \cup {NoSerial} /\ call[c].proof \subseteq proofs
  /\ ever \subseteq Serials
  /\ told \subseteq [kid : KIDs, serial : Serials]

ToldFor(kid) == {t \in told : t.kid = kid}

(* A grant never buys more certificates than it allows: one, or its cap     *)
(* when it is reusable, however many replicas redeem it at once from reads  *)
(* that are out of date; and the document counts every certificate handed   *)
(* out and names the one a single-use grant bought (handleEnroll signs      *)
(* first, burns with the serial, and answers only if the burn won).         *)
RedeemedWithinGrant ==
  \A kid \in DOMAIN doc.keys :
    LET k == doc.keys[kid]
        n == Cardinality(ToldFor(kid))
    IN  /\ n <= k.redemptions
        /\ ~k.reusable => n <= 1 /\ \A t \in ToldFor(kid) : t.serial = k.serial
        /\ k.reusable /\ k.max > 0 => n <= k.max

(* A renewed certificate has the identity of the certificate it replaces,   *)
(* and a key that the holder of that certificate named itself, in a proof   *)
(* made for a renewal: no proof made for the tunnel, for another cluster or *)
(* for another CSR buys a certificate (certproof.Transcript binds nonce,    *)
(* version, cluster and CSR).                                               *)
RenewedByHolder ==
  \A s \in DOMAIN certs : certs[s].from # 0 =>
    LET old == certs[certs[s].from]
    IN  /\ certs[s].cluster = old.cluster
        /\ \E p \in proofs : /\ p.key = old.key /\ p.version = "renew"
                             /\ p.cluster = old.cluster /\ p.csr = certs[s].key

(* A certificate an operator was told is revoked is never renewed by a      *)
(* request that reads the revocation list after that, in particular not     *)
(* inside the grace a renewal allows after expiry, when the entry is a      *)
(* candidate for pruning (handleRenew step 3 against runStatePrune).        *)
RevokedNeverRenewed == \A c \in Calls : call[c].clean

=============================================================================
