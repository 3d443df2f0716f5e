----------------------------- MODULE Handshake -----------------------------
(***************************************************************************)
(* One dial of a spoke: the upgrade, the challenge and the proof           *)
(* (internal/tunnel/wstun/client.go, handshake.go and authenticate of      *)
(* server.go) and serving the tunnel until it ends                         *)
(* (internal/tunnel/grpctun/serveconn.go), against a link that may break,  *)
(* deadlines on both ends, a revocation at any moment and a cancelled      *)
(* spoke.  The reason Dial returns is what the spoke's metrics count.      *)
(***************************************************************************)
EXTENDS Integers, Sequences

CONSTANTS
  Clusters,      \* cluster identities
  MaxReplicas,   \* largest replica count the hub may report
  None           \* nothing yet

HandshakeConstants == None \notin Clusters /\ MaxReplicas \in Nat

VARIABLES
  spokeCfg,   \* the spoke's certificate, key, cluster, version and instance id
  hubCfg,     \* the hub's replica count
  full,       \* the hub is at its session limit
  revoked,    \* the certificate is on the denylist
  spoke,      \* Dial
  hub,        \* serveHTTP of this connection
  toSpoke, toHub,
  link,       \* "none", "up" or "down"
  cancelled,  \* the dial context
  identity,   \* what authenticate derived
  verdict,    \* what authenticate said
  checked,    \* the certificate was not revoked when the hub asked
  info,       \* HubInfo
  reason      \* DialError.Reason

vars == <<spokeCfg, hubCfg, full, revoked, spoke, hub, toSpoke, toHub, link, cancelled, identity,
          verdict, checked, info, reason>>
world == <<spokeCfg, hubCfg>>

Certs == {"none", "garbled", "untrusted", "issued"}

Init ==
  /\ spokeCfg \in [cert : Certs, certCluster : Clusters, ownKey : BOOLEAN, cluster : Clusters,
                   version : {"same", "other"}, instance : {"absent", "valid", "invalid"}]
  /\ hubCfg \in [replicas : 0 .. MaxReplicas]
  /\ full \in BOOLEAN /\ revoked \in BOOLEAN
  /\ spoke = "start" /\ hub = "idle" /\ toSpoke = <<>> /\ toHub = <<>> /\ link = "none"
  /\ cancelled = FALSE /\ identity = None /\ verdict = "none" /\ checked = FALSE /\ info = None /\ reason = "none"

End(r) == spoke' = "ended" /\ reason' = r

-----------------------------------------------------------------------------
(* The spoke *)

(* signerFor: without a certificate there is nothing to dial with. *)
SignerMissing ==
  /\ spoke = "start" /\ spokeCfg.cert = "none"
  /\ End("auth-rejected")
  /\ UNCHANGED <<world, full, revoked, hub, toSpoke, toHub, link, cancelled, identity, verdict, checked, info>>

(* upgradeReason: cancelled first, then an HTTP answer that is not 101,     *)
(* then TLS, then everything that never connected.                          *)
upgradeReason(answered, tls) ==
  CASE cancelled -> "context-cancelled"
    [] ~cancelled /\ answered -> "upgrade-rejected"
    [] ~cancelled /\ ~answered /\ tls -> "tls-handshake"
    [] OTHER -> "dial"

(* The hub is full (503), or something between the two ends refuses or      *)
(* breaks the upgrade.                                                      *)
UpgradeFails ==
  /\ spoke = "start" /\ spokeCfg.cert # "none"
  /\ \E answered, tls \in BOOLEAN : End(upgradeReason(answered, tls))
  /\ UNCHANGED <<world, full, revoked, hub, toSpoke, toHub, link, cancelled, identity, verdict, checked, info>>

Upgrade ==
  /\ spoke = "start" /\ spokeCfg.cert # "none" /\ ~full /\ ~cancelled
  /\ spoke' = "challenge" /\ hub' = "hello" /\ link' = "up"
  /\ UNCHANGED <<world, full, revoked, toSpoke, toHub, cancelled, identity, verdict, checked, info, reason>>

(* A handshake that fails is a rejection unless the spoke itself gave up.   *)
handshakeReason == IF cancelled THEN "context-cancelled" ELSE "auth-rejected"

HandshakeFails == End(handshakeReason) /\ link' = "down"

(* clientHandshake: read the challenge, sign it for this cluster and answer.*)
Answer ==
  /\ spoke = "challenge" /\ toSpoke # <<>> /\ link = "up"
  /\ toSpoke' = Tail(toSpoke)
  /\ IF spokeCfg.version = "other" THEN HandshakeFails /\ UNCHANGED <<toHub, info>>
     ELSE /\ spoke' = "verdict"
          /\ info' = [hub |-> "this", replicas |-> Head(toSpoke).replicas]
          /\ toHub' = Append(toHub, [nonce |-> Head(toSpoke).nonce, cluster |-> spokeCfg.cluster])
          /\ UNCHANGED <<link, reason>>
  /\ UNCHANGED <<world, full, revoked, hub, cancelled, identity, verdict, checked>>

(* The verdict: refused, accepted as another cluster, or accepted. *)
Verdict ==
  /\ spoke = "verdict" /\ toSpoke # <<>> /\ link = "up"
  /\ toSpoke' = Tail(toSpoke)
  /\ IF Head(toSpoke).accepted /\ Head(toSpoke).cluster = spokeCfg.cluster
     THEN spoke' = "serving" /\ UNCHANGED <<link, reason>>
     ELSE HandshakeFails
  /\ UNCHANGED <<world, full, revoked, hub, toHub, cancelled, identity, verdict, checked, info>>

(* The link is gone, or the spoke's own deadline passes. *)
SpokeGivesUp ==
  /\ spoke \in {"challenge", "verdict"}
  /\ HandshakeFails
  /\ UNCHANGED <<world, full, revoked, hub, toSpoke, toHub, cancelled, identity, verdict, checked, info>>

(* ServeConn returns when the connection dies or the context is done. *)
ServeConn ==
  /\ spoke = "serving" /\ (link = "down" \/ cancelled)
  /\ \/ link = "down" /\ End("conn-closed")
     \/ cancelled /\ End("context-cancelled")
  /\ link' = "down"
  /\ UNCHANGED <<world, full, revoked, hub, toSpoke, toHub, cancelled, identity, verdict, checked, info>>

-----------------------------------------------------------------------------
(* The hub *)

Hello ==
  /\ hub = "hello" /\ link = "up"
  /\ toSpoke' = Append(toSpoke, [nonce |-> "own", replicas |-> hubCfg.replicas]) /\ hub' = "auth"
  /\ UNCHANGED <<world, full, revoked, spoke, toHub, link, cancelled, identity, verdict, checked, info, reason>>

Signed(auth) == spokeCfg.ownKey /\ auth.nonce = "own"

(* What authenticate says of an answer, in the order it asks. *)
authenticate(auth) ==
  IF spokeCfg.cert # "issued" THEN "untrusted"
  ELSE IF spokeCfg.instance = "invalid" THEN "failed"
  ELSE IF revoked THEN "revoked"
  ELSE IF ~Signed(auth) THEN "signature"
  ELSE IF auth.cluster # spokeCfg.certCluster THEN "mismatch"
  ELSE "accepted"

(* The verdict is remembered, then written: a hub that filled up meanwhile  *)
(* refuses a spoke it has authenticated.                                    *)
Authenticate ==
  /\ hub = "auth" /\ toHub # <<>>
  /\ toHub' = Tail(toHub)
  /\ verdict' = authenticate(Head(toHub)) /\ checked' = ~revoked
  /\ IF verdict' = "accepted" THEN hub' = "reserve" /\ identity' = spokeCfg.certCluster
     ELSE hub' = "refuse" /\ UNCHANGED identity
  /\ UNCHANGED <<world, full, revoked, spoke, toSpoke, link, cancelled, info, reason>>

Refusals == {"untrusted", "failed", "revoked", "signature", "mismatch"}

Refuse ==
  /\ hub = "refuse" \/ (hub = "reserve" /\ full)
  /\ toSpoke' = IF link = "up" THEN Append(toSpoke, [accepted |-> FALSE, cluster |-> None]) ELSE toSpoke
  /\ hub' = "closed"
  /\ UNCHANGED <<world, full, revoked, spoke, toHub, link, cancelled, identity, verdict, checked, info, reason>>

Accept ==
  /\ hub = "reserve" /\ ~full
  /\ IF link = "up"
     THEN toSpoke' = Append(toSpoke, [accepted |-> TRUE, cluster |-> identity]) /\ hub' = "session"
     ELSE UNCHANGED toSpoke /\ hub' = "closed"
  /\ UNCHANGED <<world, full, revoked, spoke, toHub, link, cancelled, identity, verdict, checked, info, reason>>

(* The deadline over the whole exchange, or a link that died. *)
HubGivesUp ==
  /\ hub \in {"hello", "auth"}
  /\ hub' = "closed" /\ link' = "down"
  /\ UNCHANGED <<world, full, revoked, spoke, toSpoke, toHub, cancelled, identity, verdict, checked, info, reason>>

SessionEnds ==
  /\ hub = "session" /\ link = "down" /\ hub' = "closed"
  /\ UNCHANGED <<world, full, revoked, spoke, toSpoke, toHub, link, cancelled, identity, verdict, checked, info, reason>>

-----------------------------------------------------------------------------
(* The world *)

LinkBreaks ==
  /\ link = "up" /\ link' = "down"
  /\ UNCHANGED <<world, full, revoked, spoke, hub, toSpoke, toHub, cancelled, identity, verdict, checked, info, reason>>

Cancel ==
  /\ ~cancelled /\ spoke # "ended" /\ cancelled' = TRUE
  /\ UNCHANGED <<world, full, revoked, spoke, hub, toSpoke, toHub, link, identity, verdict, checked, info, reason>>

Revoke ==
  /\ ~revoked /\ revoked' = TRUE
  /\ UNCHANGED <<world, full, spoke, hub, toSpoke, toHub, link, cancelled, identity, verdict, checked, info, reason>>

HubFills ==
  /\ ~full /\ full' = TRUE
  /\ UNCHANGED <<world, revoked, spoke, hub, toSpoke, toHub, link, cancelled, identity, verdict, checked, info, reason>>

Spoking == SignerMissing \/ UpgradeFails \/ Upgrade \/ Answer \/ Verdict \/ SpokeGivesUp \/ ServeConn
Hubbing == Hello \/ Authenticate \/ Refuse \/ Accept \/ HubGivesUp \/ SessionEnds

Next == Spoking \/ Hubbing \/ LinkBreaks \/ Cancel \/ Revoke \/ HubFills

Spec == Init /\ [][Next]_vars

-----------------------------------------------------------------------------
Reasons == {"none", "dial", "tls-handshake", "upgrade-rejected", "auth-rejected", "conn-closed", "context-cancelled"}

TypeOK ==
  /\ spoke \in {"start", "challenge", "verdict", "serving", "ended"} /\ reason \in Reasons
  /\ hub \in {"idle", "hello", "auth", "reserve", "refuse", "session", "closed"}
  /\ verdict \in {"none", "accepted"} \cup Refusals
  /\ link \in {"none", "up", "down"} /\ (reason = "none" <=> spoke # "ended")
  /\ identity \in Clusters \cup {None}

(* A session is one cluster's: the certificate the hub trusts, the cluster  *)
(* the spoke is configured as and the identity the session carries agree,   *)
(* the key was proved and the certificate was not revoked when asked.       *)
SessionIsTheCertificates ==
  hub = "session" => /\ spokeCfg.cert = "issued" /\ spokeCfg.ownKey /\ checked
                     /\ identity = spokeCfg.certCluster /\ identity = spokeCfg.cluster

(* A spoke serves only a hub that accepted it, and knows that hub's count.  *)
ServingWasAccepted ==
  spoke = "serving" => /\ hub \in {"session", "closed"} /\ identity = spokeCfg.cluster
                       /\ info.replicas = hubCfg.replicas

(* The closed set of reasons tells the failures apart that it can: a lost   *)
(* connection is one that served, a cancelled dial was cancelled, and an    *)
(* upgrade that failed never reached a handshake.                           *)
ReasonsTellApart ==
  /\ reason = "conn-closed" => link = "down" /\ info # None
  /\ reason = "context-cancelled" => cancelled
  /\ reason \in {"dial", "tls-handshake", "upgrade-rejected"} => link = "none" /\ hub = "idle"

DialReturned == spoke \in {"serving", "ended"}
Received == hub # "idle"
Decided == hub \in {"session", "closed"}
SpokeLeft == spoke = "ended" /\ link = "down"
HubClosed == hub = "closed"

=============================================================================
