--------------------------- MODULE SpokeIdentity ---------------------------
(***************************************************************************)
(* The identity the pods of a spoke share: how it is established at start, *)
(* renewed and written back (establishIdentity, renewLoop and              *)
(* adoptStoredIdentity of internal/spoke/spoke.go, the Secret backend of   *)
(* internal/spoke/identity.go, internal/spoke/enroll.go), and how a new    *)
(* certificate reaches the tunnel (dialOnce, signalReconnect).  Every call *)
(* to the hub or to the Secret is a step; pods crash and restart.          *)
(***************************************************************************)
EXTENDS Integers, FiniteSets

CONSTANTS
  Pods,        \* pods that share one identity Secret
  ClusterOf,   \* the cluster each is configured as
  Stored,      \* what the Secret may hold at the start: "absent", "damaged", "old"
  TokenUses,   \* certificates an enrollment token may be redeemed for
  Life, Grace, \* lifetime of a certificate, the hub's renewal window after it
  None,        \* no certificate
  Startup,     \* whether the Save of establishIdentity may fail too
  MaxTime, MaxIssued, MaxFaults, MaxCrashes

SpokeIdentityConstants ==
  /\ IsFiniteSet(Pods) /\ Pods # {}
  /\ Stored \subseteq {"absent", "damaged", "old"} /\ Stored # {}
  /\ {TokenUses, Life, Grace, MaxTime, MaxIssued, MaxFaults, MaxCrashes} \subseteq Nat /\ Life > 1
  /\ Startup \in BOOLEAN

VARIABLES
  now,
  secret,      \* the identity Secret: its version (0: absent) and certificate
  tokens,      \* redemptions left, per cluster
  issued,      \* certificates issued, the last serial number
  pod,         \* each pod: where it is and what it holds
  dial,        \* its dial loop: the reconnect signal and the certificate it took
  everStored,  \* certificates the Secret has held
  faults, crashes

vars == <<now, secret, tokens, issued, pod, dial, everStored, faults, crashes>>

Clusters == {ClusterOf[p] : p \in Pods}
Cert(sn, c) == [sn |-> sn, cluster |-> c, born |-> now]

Down == [pc |-> "start", from |-> "start", id |-> None, new |-> None, view |-> 0, unpersisted |-> FALSE]
NotDialling == [st |-> "idle", fired |-> FALSE, cert |-> None]

-----------------------------------------------------------------------------
(* identity.go and the readers of the store in spoke.go *)

NeedsRenewal(c) == now > c.born + Life \div 2
Expired(c) == now > c.born + Life
OwnCluster(p, c) == c.cluster = ClusterOf[p]

(* Load finds something, and loadIdentity makes a key and certificate of it. *)
Load == secret.ver > 0
loadIdentity == secret.cert # None
Usable == Load /\ loadIdentity
StoredIdentity == Usable /\ ~Expired(secret.cert)

(* adoptStoredIdentity: later than the one in memory, fresh, and this cluster's. *)
Adoptable(p) ==
  /\ Usable
  /\ ~NeedsRenewal(secret.cert)
  /\ secret.cert.born > pod[p].id.born
  /\ OwnCluster(p, secret.cert)

Init ==
  /\ now = 0
  /\ secret \in {[ver |-> IF s = "absent" THEN 0 ELSE 1,
                  cert |-> IF s = "old" THEN [sn |-> 0, cluster |-> c, born |-> 0] ELSE None] :
                   s \in Stored, c \in Clusters}
  /\ tokens = [c \in Clusters |-> TokenUses]
  /\ issued = 0
  /\ pod = [p \in Pods |-> Down]
  /\ dial = [p \in Pods |-> NotDialling]
  /\ everStored = {secret.cert} \ {None}
  /\ faults = 0 /\ crashes = 0

Fault == faults < MaxFaults /\ faults' = faults + 1

At(p, pc) == pod[p].pc = pc
Goto(p, r) == pod' = [pod EXCEPT ![p] = r]
Running(p, c) == [Down EXCEPT !.pc = "run", !.id = c]

-----------------------------------------------------------------------------
(* establishIdentity *)

(* Load.  A store that cannot be read, or a foreign certificate, ends the   *)
(* process, which is restarted.                                             *)
StartLoad(p) ==
  /\ At(p, "start")
  /\ Goto(p, IF ~Usable THEN [Down EXCEPT !.pc = "enroll"]
             ELSE IF ~OwnCluster(p, secret.cert) THEN Down
             ELSE IF Expired(secret.cert) THEN [Down EXCEPT !.pc = "renewExpired", !.id = secret.cert]
             ELSE Running(p, secret.cert))
  /\ UNCHANGED <<now, secret, tokens, issued, dial, everStored, faults, crashes>>

Issue == issued < MaxIssued /\ issued' = issued + 1

Saving(p, from, c) == [pod[p] EXCEPT !.pc = "saveGet", !.from = from, !.new = c]

(* enroller.renew: the hub renews within the grace window; an error may     *)
(* hide a certificate that was issued.                                      *)
Renewable(c) == now <= c.born + Life + Grace

RenewExpired(p) ==
  /\ At(p, "renewExpired")
  /\ \/ /\ Renewable(pod[p].id) /\ Issue
        /\ Goto(p, Saving(p, "expired", Cert(issued', ClusterOf[p])))
        /\ UNCHANGED faults
     \/ /\ IF Renewable(pod[p].id) THEN Fault ELSE UNCHANGED faults
        /\ Goto(p, [Down EXCEPT !.pc = "enroll"]) /\ UNCHANGED issued
  /\ UNCHANGED <<now, secret, tokens, dial, everStored, crashes>>

Redeemable(c) == tokens[c] > 0

(* enroll.go: what the spoke makes of the hub's answer.  Only a conflict is  *)
(* told apart, as a token that is spent.                                    *)
statusError(status) == IF status = 409 THEN "used" ELSE "rejected"
post(status) == IF status \in {200, 201} THEN "certificate" ELSE statusError(status)

(* enroller.enroll answered: a certificate for the key generated here; a    *)
(* sibling got there first; or an error, which ends the process.            *)
Enrolled(p, outcome, c) ==
  CASE outcome = "certificate" -> Saving(p, "enrolled", c)
    [] outcome = "used"        -> [pod[p] EXCEPT !.pc = "await"]
    [] OTHER                   -> Down

(* The hub redeems the token, and its answer may be lost; it refuses a      *)
(* spent one; or the request fails before it is handled.                    *)
Enroll(p) ==
  /\ At(p, "enroll")
  /\ LET c == ClusterOf[p] IN
     \/ /\ Redeemable(c) /\ Issue
        /\ tokens' = [tokens EXCEPT ![c] = @ - 1]
        /\ \/ Goto(p, Enrolled(p, post(201), Cert(issued', c))) /\ UNCHANGED faults
           \/ Fault /\ Goto(p, Enrolled(p, "lost", None))
     \/ ~Redeemable(c) /\ Goto(p, Enrolled(p, post(409), None)) /\ UNCHANGED <<tokens, issued, faults>>
     \/ Fault /\ Goto(p, Enrolled(p, post(503), None)) /\ UNCHANGED <<tokens, issued>>
  /\ UNCHANGED <<now, secret, dial, everStored, crashes>>

(* awaitSiblingIdentity: poll until something usable is stored, or give up. *)
Await(p) ==
  /\ At(p, "await")
  /\ Goto(p, IF StoredIdentity /\ OwnCluster(p, secret.cert) THEN Running(p, secret.cert) ELSE Down)
  /\ UNCHANGED <<now, secret, tokens, issued, dial, everStored, faults, crashes>>

(* Converge on whatever the Secret ended up holding. *)
Converge(p) ==
  /\ At(p, "converge")
  /\ LET id == IF StoredIdentity THEN secret.cert ELSE pod[p].new
     IN  Goto(p, IF OwnCluster(p, id) THEN Running(p, id) ELSE Down)
  /\ UNCHANGED <<now, secret, tokens, issued, dial, everStored, faults, crashes>>

-----------------------------------------------------------------------------
(* secretIdentityStore.Save: read, then create or update under              *)
(* compare-and-swap, and what each caller does next.                        *)

Due(p, r) == [r EXCEPT !.pc = IF NeedsRenewal(r.id) THEN "adopt" ELSE "run",
                       !.from = IF NeedsRenewal(r.id) THEN "due" ELSE "start"]

AfterSave(p, ok) ==
  LET r == [pod[p] EXCEPT !.view = 0]
      old == [r EXCEPT !.new = None]
  IN  CASE r.from = "expired"  -> Running(p, r.new)
        [] r.from = "enrolled" -> [r EXCEPT !.pc = "converge"]
        [] r.from = "unsaved"  -> Due(p, IF ok THEN [old EXCEPT !.unpersisted = FALSE] ELSE old)
        [] r.from = "renewed"  -> IF ok THEN [old EXCEPT !.pc = "signal", !.id = r.new]
                                  ELSE [r EXCEPT !.pc = "adopt", !.from = "late"]

MaySaveFail(p) == Startup \/ pod[p].from \in {"unsaved", "renewed"}

SaveGet(p) ==
  /\ At(p, "saveGet")
  /\ \/ Goto(p, [pod[p] EXCEPT !.pc = "savePut", !.view = secret.ver]) /\ UNCHANGED faults
     \/ MaySaveFail(p) /\ Fault /\ Goto(p, AfterSave(p, FALSE))
  /\ UNCHANGED <<now, secret, tokens, issued, dial, everStored, crashes>>

Write(c) ==
  /\ secret' = [ver |-> secret.ver + 1, cert |-> c]
  /\ everStored' = everStored \cup {c}

SavePut(p) ==
  /\ At(p, "savePut")
  /\ \/ /\ secret.ver = pod[p].view
        /\ Write(pod[p].new)
        /\ \/ Goto(p, AfterSave(p, TRUE)) /\ UNCHANGED faults
           \/ MaySaveFail(p) /\ Fault /\ Goto(p, AfterSave(p, FALSE))
     \/ /\ secret.ver # pod[p].view
        /\ Goto(p, IF pod[p].view = 0 THEN [pod[p] EXCEPT !.pc = "saveGet"] ELSE AfterSave(p, FALSE))
        /\ UNCHANGED <<secret, everStored, faults>>
     \/ /\ MaySaveFail(p) /\ Fault /\ Goto(p, AfterSave(p, FALSE))
        /\ UNCHANGED <<secret, everStored>>
  /\ UNCHANGED <<now, tokens, issued, dial, crashes>>

-----------------------------------------------------------------------------
(* renewLoop *)

Wake(p) ==
  /\ At(p, "run")
  /\ pod[p].unpersisted \/ NeedsRenewal(pod[p].id)
  /\ Goto(p, [pod[p] EXCEPT !.pc = "adopt", !.from = IF pod[p].unpersisted THEN "unsaved" ELSE "due"])
  /\ UNCHANGED <<now, secret, tokens, issued, dial, everStored, faults, crashes>>

(* Nothing to adopt: save what failed to save; renew; or run on the new     *)
(* certificate and remember that the Secret does not have it.               *)
NotAdopted(p) ==
  CASE pod[p].from = "unsaved" -> Saving(p, "unsaved", pod[p].id)
    [] pod[p].from = "due"     -> [pod[p] EXCEPT !.pc = "renew"]
    [] pod[p].from = "late"    -> [pod[p] EXCEPT !.pc = "signal", !.id = pod[p].new, !.new = None,
                                                 !.unpersisted = TRUE]

(* adoptStoredIdentity, which answers nil when the store cannot be read. *)
Adopt(p) ==
  /\ At(p, "adopt")
  /\ \/ /\ Adoptable(p) /\ UNCHANGED faults
        /\ Goto(p, [pod[p] EXCEPT !.pc = "signal", !.id = secret.cert, !.new = None,
                      !.unpersisted = IF pod[p].from = "unsaved" THEN FALSE ELSE @])
     \/ /\ IF Adoptable(p) THEN Fault ELSE UNCHANGED faults
        /\ Goto(p, NotAdopted(p))
  /\ UNCHANGED <<now, secret, tokens, issued, dial, everStored, crashes>>

Renew(p) ==
  /\ At(p, "renew")
  /\ \/ /\ Renewable(pod[p].id) /\ Issue
        /\ Goto(p, Saving(p, "renewed", Cert(issued', pod[p].id.cluster)))
        /\ UNCHANGED faults
     \/ /\ IF Renewable(pod[p].id) THEN Fault ELSE UNCHANGED faults
        /\ Goto(p, [pod[p] EXCEPT !.pc = "run", !.from = "start"]) /\ UNCHANGED issued
  /\ UNCHANGED <<now, secret, tokens, dial, everStored, crashes>>

(* signalReconnect closes the channel every dial loop took and replaces it. *)
SignalReconnect(p) ==
  /\ At(p, "signal")
  /\ Goto(p, [pod[p] EXCEPT !.pc = "run", !.from = "start"])
  /\ dial' = [dial EXCEPT ![p].fired = dial[p].st # "idle"]
  /\ UNCHANGED <<now, secret, tokens, issued, everStored, faults, crashes>>

-----------------------------------------------------------------------------
(* dialOnce *)

IsUp(p) ==
  \/ pod[p].pc \in {"run", "adopt", "renew", "signal"}
  \/ pod[p].pc \in {"saveGet", "savePut"} /\ pod[p].from \in {"unsaved", "renewed"}

(* The identity read first, the signal after it. *)
TakeIdentityFirst(p) ==
  /\ IsUp(p)
  /\ \/ dial[p].st = "idle" /\ dial[p].cert = None
        /\ dial' = [dial EXCEPT ![p] = [NotDialling EXCEPT !.cert = pod[p].id]]
     \/ dial[p].st = "idle" /\ dial[p].cert # None
        /\ dial' = [dial EXCEPT ![p].st = "up"]
  /\ UNCHANGED <<now, secret, tokens, issued, pod, everStored, faults, crashes>>

(* The signal is taken before the identity. *)
TakeSignalThenIdentity(p) ==
  /\ IsUp(p)
  /\ \/ dial[p].st = "idle" /\ dial' = [dial EXCEPT ![p].st = "signal"]
     \/ dial[p].st = "signal" /\ dial' = [dial EXCEPT ![p].st = "up", ![p].cert = pod[p].id]
  /\ UNCHANGED <<now, secret, tokens, issued, pod, everStored, faults, crashes>>

(* The tunnel ends, because the signal fired or for a reason of its own. *)
TunnelEnds(p) ==
  /\ dial[p].st = "up"
  /\ dial' = [dial EXCEPT ![p] = NotDialling]
  /\ UNCHANGED <<now, secret, tokens, issued, pod, everStored, faults, crashes>>

-----------------------------------------------------------------------------
Crash(p) ==
  /\ crashes < MaxCrashes /\ crashes' = crashes + 1
  /\ pod[p] # Down
  /\ Goto(p, Down)
  /\ dial' = [dial EXCEPT ![p] = NotDialling]
  /\ UNCHANGED <<now, secret, tokens, issued, everStored, faults>>

Tick == now < MaxTime /\ now' = now + 1
        /\ UNCHANGED <<secret, tokens, issued, pod, dial, everStored, faults, crashes>>

Step(p) ==
  \/ StartLoad(p) \/ RenewExpired(p) \/ Enroll(p) \/ Await(p) \/ Converge(p)
  \/ SaveGet(p) \/ SavePut(p) \/ Wake(p) \/ Adopt(p) \/ Renew(p) \/ SignalReconnect(p)

Next == Tick \/ \E p \in Pods : Step(p) \/ TakeSignalThenIdentity(p) \/ TunnelEnds(p) \/ Crash(p)

Spec == Init /\ [][Next]_vars

-----------------------------------------------------------------------------
Fired(p) == dial[p].fired

Certs == [sn : 0 .. MaxIssued, cluster : Clusters, born : 0 .. MaxTime]
Where == {"start", "renewExpired", "enroll", "await", "converge", "saveGet", "savePut", "run",
          "adopt", "renew", "signal"}

TypeOK ==
  /\ now \in 0 .. MaxTime /\ issued \in 0 .. MaxIssued
  /\ secret.ver \in Nat /\ secret.cert \in Certs \cup {None}
  /\ tokens \in [Clusters -> 0 .. TokenUses]
  /\ \A p \in Pods : /\ pod[p].pc \in Where /\ pod[p].id \in Certs \cup {None}
                     /\ pod[p].new \in Certs \cup {None} /\ pod[p].view \in Nat
                     /\ dial[p].st \in {"idle", "signal", "up"}
  /\ everStored \subseteq Certs

(* A tunnel that was not told to reconnect presents the identity in force:  *)
(* no interleaving of a renewal with a dial leaves a tunnel on the old      *)
(* certificate (the order of dialOnce, of setIdentity and signalReconnect). *)
TunnelFollowsIdentity ==
  \A p \in Pods : dial[p].st = "up" /\ ~dial[p].fired /\ pod[p].pc # "signal"
                    => dial[p].cert = pod[p].id

(* Whatever the Secret holds, was overwritten with or is read back as, no   *)
(* pod ever runs on another cluster's certificate (assertOwnCluster at      *)
(* every way into the identity).                                            *)
OwnClusterOnly == \A p \in Pods : IsUp(p) => OwnCluster(p, pod[p].id)

(* A running pod whose certificate never reached the Secret remembers it,   *)
(* and so keeps trying to settle the pool (identityUnpersisted).            *)
UnsavedIsRemembered ==
  \A p \in Pods : pod[p].pc = "run" /\ ~pod[p].unpersisted => pod[p].id \in everStored

(* While a pod runs its certificate is only ever replaced by a later one,   *)
(* however adoptions, renewals and lost writes interleave.                  *)
IdentityAdvances ==
  \A p \in Pods : IsUp(p) /\ IsUp(p)' /\ pod[p].id # pod[p].id'
                    => pod'[p].id.born > pod[p].id.born \/ pod'[p].id.sn > pod[p].id.sn

=============================================================================
