----------------------------- MODULE CARotation -----------------------------
(***************************************************************************)
(* The rotation of the hub's signing root (internal/hub/carotation.go,     *)
(* caissuers.go).  Every replica polls the CA Secret, adopts the signer    *)
(* and the trusted roots it names, and then may advance the rotation with  *)
(* one conditional write: steady -> publishing (a successor is trusted)    *)
(* -> signing (the successor signs, the old root is still trusted)         *)
(* -> steady (the old root is dropped).                                    *)
(*                                                                         *)
(* Time is kept as ages and countdowns in ticks of one poll interval, each *)
(* capped where nothing tells larger values apart, so there is no horizon. *)
(***************************************************************************)
EXTENDS Integers, FiniteSets, FiniteSetsExt

CONSTANTS
  Replicas,
  Serving,      \* the replicas spokes connect to
  Restarting,   \* the replicas that are restarted now and then
  Roots,        \* root certificates, numbered; recycled once nothing names them
  TTL,          \* SpokeCertTTL at the start
  ShortTTL,     \* SpokeCertTTL after an operator shortened it
  Grace,        \* RenewGrace
  ShortenIn,    \* the phases in which an operator may shorten the TTL
  AgainAfterShortening, \* whether another rotation may follow a shortened TTL
  AnnotateIn,   \* the phases in which an operator asks for a rotation
  Edits,        \* what a hand edit or another build may do to the Secret
  MaySignerExpire,
  NoRoot, Never, NoCopy

CARotationConstants ==
  /\ Roots \subseteq Nat /\ Roots # {} /\ NoRoot \notin Nat /\ Never \notin Nat
  /\ TTL \in Nat /\ ShortTTL \in 2..TTL /\ Grace \in Nat
  /\ Edits \subseteq {"phase", "since", "material"} /\ MaySignerExpire \in BOOLEAN
  /\ AgainAfterShortening \in BOOLEAN

VARIABLES
  secret,    \* the CA Secret
  current,   \* replicas whose copy has the Secret's resourceVersion
  seen,      \* the copy each replica's poll is working from, or NoCopy
  signer,    \* CA.material: the root each replica signs with
  trusted,   \* CA.material: the roots each replica verifies against
  ttl,       \* the SpokeCertTTL each replica was started with
  uptime,    \* ticks since each replica started
  lag,       \* ticks since each replica last adopted the Secret
  certs,     \* the longest time some spoke's certificate of a root can still be renewed
  holdouts,  \* replicas with a live session admitted by the outgoing root
  signerAge, \* the signing root: "young", "due" or "expired"
  edited     \* a hand edit has been made

vars == <<secret, current, seen, signer, trusted, ttl, uptime, lag, certs,
          holdouts, signerAge, edited>>
replicaVars == <<signer, trusted, ttl, uptime, lag, holdouts>>

Poll == 1                                   \* CARotationPollInterval
retirementHold(t) == t + Grace + 2 * Poll
holdoutQuiet == 2 * Poll
Longest == retirementHold(TTL)

Phases == {"steady", "publishing", "signing", "other"}
Secrets ==
  [phase : Phases, since : 0..Longest \cup {Never}, cert : Roots,
   next : Roots \cup {NoRoot}, prev : Roots \cup {NoRoot},
   holdout : 0..holdoutQuiet \cup {Never}, retireAfter : 0..Longest \cup {Never},
   force : BOOLEAN]

TypeOK ==
  /\ secret \in Secrets /\ current \subseteq Replicas
  /\ seen \in [Replicas -> Secrets \cup {NoCopy}]
  /\ signer \in [Replicas -> Roots] /\ trusted \in [Replicas -> SUBSET Roots]
  /\ ttl \in [Replicas -> {TTL, ShortTTL}]
  /\ uptime \in [Replicas -> 0..holdoutQuiet] /\ lag \in [Replicas -> 0..Poll]
  /\ certs \in [Roots -> 0..TTL + Grace]
  /\ holdouts \subseteq Replicas
  /\ signerAge \in {"young", "due", "expired"} /\ edited \in BOOLEAN

Stored(st) == {st.cert, st.next, st.prev} \ {NoRoot}

(* Trust never narrows on a phase this build does not know. *)
additionalRoots(st) ==
  {r \in CASE st.phase = "publishing" -> {st.next}
           [] st.phase = "signing"    -> {st.prev}
           [] st.phase = "other"      -> {st.next, st.prev}
           [] OTHER                   -> {}
     : r # NoRoot}
TrustOf(st) == {st.cert} \cup additionalRoots(st)

Init ==
  /\ secret = [phase |-> "steady", since |-> Longest, cert |-> Min(Roots), next |-> NoRoot,
               prev |-> NoRoot, holdout |-> Never, retireAfter |-> Never, force |-> FALSE]
  /\ current = {} /\ seen = [r \in Replicas |-> NoCopy]
  /\ signer = [r \in Replicas |-> secret.cert]
  /\ trusted = [r \in Replicas |-> TrustOf(secret)]
  /\ ttl = [r \in Replicas |-> TTL]
  /\ uptime = [r \in Replicas |-> holdoutQuiet] /\ lag = [r \in Replicas |-> 0]
  /\ certs = [r \in Roots |-> IF r = secret.cert THEN TTL + Grace ELSE 0]
  /\ holdouts = {}
  /\ signerAge = "young" /\ edited = FALSE

-----------------------------------------------------------------------------
(* What a poll decides (plan and the operators below it): the Secret it     *)
(* would write, or the copy itself when nothing is to be written.           *)

InUse == Stored(secret) \cup UNION {trusted[r] : r \in Replicas}
           \cup {r \in Roots : certs[r] > 0}
(* ca.NewRootPEM: a root nobody has seen before. *)
NewRoot == Min(Roots \ InUse)

Enter(st, phase) == [st EXCEPT !.phase = phase, !.since = 0]
Cleared(st) == [st EXCEPT !.next = NoRoot, !.holdout = Never, !.retireAfter = Never]

Stray(st) == st.next # NoRoot \/ st.prev # NoRoot \/ st.holdout # Never \/ st.retireAfter # Never
rotationDue(st) == st.force \/ signerAge # "young"
planSteady(st) ==
  IF Stray(st) THEN [Cleared(st) EXCEPT !.prev = NoRoot]
  ELSE IF rotationDue(st) THEN [Enter(st, "publishing") EXCEPT !.next = NewRoot, !.force = FALSE]
  ELSE st

(* The promotion itself; the retirement horizon is fixed with it. *)
Promoted(st, t) ==
  [Enter(st, "signing") EXCEPT !.cert = st.next, !.prev = st.cert, !.next = NoRoot,
                               !.holdout = Never, !.retireAfter = retirementHold(t)]

planPublishing(st, t) ==
  IF st.next = NoRoot THEN Cleared(Enter(st, "steady"))
  ELSE IF st.since = Never THEN Enter(st, st.phase)              \* repairSince
  ELSE IF st.since < t /\ signerAge # "expired" THEN st
  ELSE Promoted(st, t)

(* The gate is the later of the live and the persisted horizon. *)
RetireGate(st, t) == st.since >= retirementHold(t) /\ st.retireAfter \in {0, Never}
planSigning(st, r) ==
  IF st.prev = NoRoot THEN Cleared(Enter(st, "steady"))
  ELSE IF st.since = Never THEN Enter(st, st.phase)              \* repairSince
  ELSE IF ~RetireGate(st, ttl[r]) \/ uptime[r] < holdoutQuiet THEN st
  ELSE IF r \in holdouts
       THEN IF st.holdout # Never /\ st.holdout < Poll THEN st ELSE [st EXCEPT !.holdout = 0]
  ELSE IF st.holdout # Never /\ st.holdout < holdoutQuiet THEN st
  ELSE [Cleared(Enter(st, "steady")) EXCEPT !.prev = NoRoot]

plan(r) ==
  LET st == seen[r]
  IN  IF st.phase = "other" THEN st
      ELSE IF st.force /\ st.phase # "steady" THEN [st EXCEPT !.force = FALSE]
      ELSE CASE st.phase = "steady"     -> planSteady(st)
             [] st.phase = "publishing" -> planPublishing(st, ttl[r])
             [] st.phase = "signing"    -> planSigning(st, r)

-----------------------------------------------------------------------------
(* One poll.  What matters between its steps is what other replicas write   *)
(* between this one's GET and its conditional PUT.                          *)

(* ca.sign.  Spokes enroll and renew on every replica all the time, so a    *)
(* root's longest-lived certificate is as old as the last moment a replica  *)
(* signed with it; an expired signer issues nothing.                        *)
Signed(left, sig, life) ==
  [root \in Roots |->
     Max({left[root]} \cup {life[r] + Grace : r \in {x \in Replicas : sig[x] = root /\ signerAge # "expired"}})]

sync(r, st) ==
  /\ signer' = [signer EXCEPT ![r] = st.cert]
  /\ certs' = Signed(certs, signer', ttl)
  /\ trusted' = [trusted EXCEPT ![r] = TrustOf(st)]

GetAndSync(r) ==
  /\ seen[r] = NoCopy /\ lag[r] > 0
  /\ seen' = [seen EXCEPT ![r] = secret]
  /\ current' = current \cup {r}
  /\ sync(r, secret)
  /\ lag' = [lag EXCEPT ![r] = 0]
  /\ UNCHANGED <<secret, ttl, uptime, holdouts, signerAge, edited>>

(* The API server compares the resourceVersion of the PUT with its own. *)
Conflict(r) == r \notin current

(* The conditional write is refused when the copy is out of date; the       *)
(* winner's result is then adopted by the next poll.                        *)
advance(r) ==
  /\ seen[r] # NoCopy
  /\ seen' = [seen EXCEPT ![r] = NoCopy]
  /\ LET st == plan(r)
     IN  IF st # seen[r] /\ ~Conflict(r)
         THEN /\ secret' = st
              /\ current' = {}
              /\ signerAge' = IF st.cert # secret.cert THEN "young" ELSE signerAge
              /\ holdouts' = IF st.prev = NoRoot THEN {} ELSE holdouts
              /\ sync(r, st)
         ELSE /\ current' = current \ {r}
              /\ UNCHANGED <<secret, signerAge, signer, trusted, certs, holdouts>>
  /\ UNCHANGED <<ttl, uptime, lag, edited>>

(* A replica is restarted, possibly with another SpokeCertTTL: it starts    *)
(* from the Secret (bootstrap.load) and without sessions.                   *)
Restart(r) ==
  /\ r \in Restarting
  /\ \E t \in {ttl[r]} \cup (IF secret.phase \in ShortenIn THEN {ShortTTL} ELSE {}) :
       ttl' = [ttl EXCEPT ![r] = t]
  /\ sync(r, secret)
  /\ seen' = [seen EXCEPT ![r] = NoCopy]
  /\ current' = current \ {r}
  /\ uptime' = [uptime EXCEPT ![r] = 0]
  /\ lag' = [lag EXCEPT ![r] = 0]
  /\ holdouts' = holdouts \ {r}
  /\ UNCHANGED <<secret, signerAge, edited>>

-----------------------------------------------------------------------------
(* Sessions.                                                                *)

(* The handshake verifies the chain and the tracker records its issuer;     *)
(* only sessions on the outgoing root are ever asked about.                 *)
Verify(r) ==
  /\ r \in Serving \ holdouts
  /\ secret.prev # NoRoot /\ certs[secret.prev] > Grace /\ secret.prev \in trusted[r]
  /\ holdouts' = holdouts \cup {r}
  /\ UNCHANGED <<secret, current, seen, signer, trusted, ttl, uptime, lag, certs,
                 signerAge, edited>>

SessionsEnd(r) ==
  /\ r \in holdouts
  /\ holdouts' = holdouts \ {r}
  /\ UNCHANGED <<secret, current, seen, signer, trusted, ttl, uptime, lag, certs,
                 signerAge, edited>>

-----------------------------------------------------------------------------
(* The environment. *)

Older(n, cap) == IF n = Never THEN Never ELSE Min({n + 1, cap})
Sooner(n) == IF n = Never THEN Never ELSE Max({n - 1, 0})

(* Polls take less than a tick, and every replica completes one per tick:   *)
(* a replica cut off from the API server for longer is outside the model.   *)
Tick ==
  /\ \A r \in Replicas : seen[r] = NoCopy /\ lag[r] < Poll
  /\ secret' = [secret EXCEPT !.since = Older(@, Longest), !.holdout = Older(@, holdoutQuiet),
                              !.retireAfter = Sooner(@)]
  /\ uptime' = [r \in Replicas |-> Older(uptime[r], holdoutQuiet)]
  /\ lag' = [r \in Replicas |-> lag[r] + 1]
  /\ certs' = Signed([r \in Roots |-> Sooner(certs[r])], signer, ttl)
  /\ UNCHANGED <<current, seen, signer, trusted, ttl, holdouts, signerAge, edited>>

MayRotate == AgainAfterShortening \/ \A r \in Replicas : ttl[r] = TTL

Written(st) == secret' = st /\ current' = {}

(* kubectl annotate ... promfleet.io/rotate-now *)
RotateNow ==
  /\ MayRotate /\ secret.phase \in AnnotateIn /\ ~secret.force
  /\ Written([secret EXCEPT !.force = TRUE])
  /\ UNCHANGED <<seen, replicaVars, certs, signerAge, edited>>

(* A timestamp made unreadable, a phase only another build knows, or the    *)
(* other root of a rotation in flight deleted.                              *)
HandEdit ==
  /\ ~edited /\ edited' = TRUE
  /\ \/ "since" \in Edits /\ Written([secret EXCEPT !.since = Never])
     \/ /\ "phase" \in Edits /\ secret.phase \in {"publishing", "signing"}
        /\ Written([secret EXCEPT !.phase = "other"])
     \/ "material" \in Edits /\ Written([secret EXCEPT !.next = NoRoot, !.prev = NoRoot])
  /\ holdouts' = IF secret'.prev = NoRoot THEN {} ELSE holdouts
  /\ UNCHANGED <<seen, signer, trusted, ttl, uptime, lag, certs, signerAge>>

SignerAges ==
  /\ \/ signerAge = "young" /\ secret.phase = "steady" /\ MayRotate /\ signerAge' = "due"
     \/ signerAge = "due" /\ MaySignerExpire /\ signerAge' = "expired"
  /\ UNCHANGED <<secret, current, seen, replicaVars, certs, edited>>

step(r) == GetAndSync(r) \/ advance(r)

Next ==
  \/ \E r \in Replicas : step(r) \/ Restart(r) \/ Verify(r) \/ SessionsEnd(r)
  \/ Tick \/ RotateNow \/ HandEdit \/ SignerAges

Spec == Init /\ [][Next]_vars

-----------------------------------------------------------------------------
(* Properties. *)

(* Whatever replica a spoke reaches, its certificate verifies there for as  *)
(* long as the hub would connect or renew it: every replica trusts every    *)
(* root with a certificate within its lifetime and renewal grace.  This is  *)
(* what the publishing wait and the retirement hold are for.                *)
NoCertificateStranded ==
  \A r \in Replicas, root \in Roots : certs[root] > 0 => root \in trusted[r]

(* A phase and the material it needs are written together: the successor is *)
(* stored exactly while publishing, the outgoing root exactly while         *)
(* signing, and the private key of the signer is never out of trust.        *)
PhaseHasItsMaterial ==
  /\ secret.phase = "publishing" => secret.next # NoRoot /\ secret.prev = NoRoot
  /\ secret.phase = "signing" => secret.prev # NoRoot /\ secret.next = NoRoot
  /\ secret.phase = "steady" => Stored(secret) = {secret.cert}
  /\ secret.cert \notin {secret.next, secret.prev}

(* Replicas that take the same decision at the same moment do not repeat    *)
(* it: one write moves the rotation by one phase, never replaces a          *)
(* published successor and never brings a retired root back.                *)
OnePhaseAtATime ==
  /\ secret'.cert # secret.cert => secret.phase = "publishing" /\ secret'.cert = secret.next
  /\ secret.next # NoRoot /\ secret'.next # secret.next => secret'.cert = secret.next
  /\ secret'.prev # secret.prev => secret'.prev \in {NoRoot, secret.cert}

Rotating == secret.phase # "steady"

=============================================================================
