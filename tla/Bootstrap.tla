----------------------------- MODULE Bootstrap -----------------------------
(***************************************************************************)
(* How hub replicas come to share one CA and one pepper                    *)
(* (internal/hub/bootstrap.go, openState in hub.go, the loaders of         *)
(* internal/ca and internal/token).  Each replica copies the CA Secret to  *)
(* its own scratch directory, loads or generates what is missing there,    *)
(* and writes back only what the Secret lacked.                            *)
(*                                                                         *)
(* Material carries the name of its maker: the operator, or a replica and  *)
(* the number of the scratch directory it generated it in.  A certificate  *)
(* and a key match when they carry the same name.                          *)
(***************************************************************************)
EXTENDS Naturals, FiniteSets

CONSTANTS
  Replicas,
  Operator,     \* who made the material found in a Secret at the start
  Found,        \* the sets of fields a Secret may hold before the first start
  MaxPods,      \* bound: pods a replica may have
  None

Makers == (Replicas \X (1..MaxPods)) \cup {Operator}

BootstrapConstants ==
  /\ IsFiniteSet(Replicas) /\ Operator \notin Replicas \X (1..MaxPods) /\ None \notin Makers
  /\ MaxPods \in Nat \ {0}
  /\ Found \subseteq SUBSET {"cert", "key", "pepper"}

Fields == {"cert", "key", "pepper"}
Material == [Fields -> Makers \cup {None}]       \* caMaterial
Nothing == [f \in Fields |-> None]

VARIABLES
  secret,    \* the CA Secret's fields; all None when there is no Secret
  exists,    \* the Secret exists
  pc,        \* where each replica's start-up is
  stored,    \* caMaterial each replica loaded first
  pod,       \* which pod of a replica this is: its scratch directory is new
  disk,      \* each replica's scratch directory
  loaded,    \* the CA and pepper each replica's process holds
  base,      \* the copy complete() is about to write back
  current    \* replicas whose copy has the Secret's resourceVersion

vars == <<secret, exists, pc, stored, pod, disk, loaded, base, current>>

Steps == {"down", "load", "ca", "cert", "pepper", "persist", "merge", "put", "adopt", "reload",
          "up", "failed"}

empty(m) == m = Nothing
complete(m) == \A f \in Fields : m[f] # None

(* The type of the state; a replica in service holds a whole CA and pepper. *)
TypeOK ==
  /\ secret \in Material /\ exists \in BOOLEAN
  /\ pc \in [Replicas -> Steps]
  /\ \A v \in {stored, disk, loaded, base} : v \in [Replicas -> Material]
  /\ pod \in [Replicas -> 1..MaxPods] /\ current \subseteq Replicas
  /\ \A r \in Replicas : pc[r] = "up" => complete(loaded[r])

(* materialise: stored fields replace whatever the scratch directory holds. *)
Overlay(m, d) == [f \in Fields |-> IF m[f] # None THEN m[f] ELSE d[f]]

Init ==
  /\ \E fs \in Found : secret = [f \in Fields |-> IF f \in fs THEN Operator ELSE None]
  /\ exists \in {secret # Nothing, TRUE}      \* an empty Secret may have been made beforehand
  /\ pc = [r \in Replicas |-> "load"]
  /\ pod = [r \in Replicas |-> 1]
  /\ stored = [r \in Replicas |-> Nothing] /\ disk = stored /\ loaded = stored /\ base = stored
  /\ current = {}

Made(r) == <<r, pod[r]>>
Goto(r, s) == pc' = [pc EXCEPT ![r] = s]
LoadedWith(r, fs, d) ==
  loaded' = [loaded EXCEPT ![r] = [f \in Fields |-> IF f \in fs THEN d[f] ELSE loaded[r][f]]]

-----------------------------------------------------------------------------
(* load and materialise.  A missing Secret means first boot. *)
load(r) ==
  /\ pc[r] = "load"
  /\ stored' = [stored EXCEPT ![r] = secret]
  /\ disk' = [disk EXCEPT ![r] = Overlay(secret, disk[r])]
  /\ Goto(r, "ca")
  /\ UNCHANGED <<pod, secret, exists, loaded, base, current>>

(* ca.LoadOrCreate on the scratch directory.  Exactly one of the two files  *)
(* is an error, never a reason to generate; the key is committed before the *)
(* certificate (ca.Create).                                                 *)
LoadOrCreate(r) ==
  /\ pc[r] = "ca"
  /\ CASE disk[r].cert # None /\ disk[r].key # None ->
            /\ IF disk[r].cert = disk[r].key
               THEN LoadedWith(r, {"cert", "key"}, disk[r]) /\ Goto(r, "pepper")
               ELSE Goto(r, "failed") /\ UNCHANGED loaded
            /\ UNCHANGED disk
       [] (disk[r].cert # None) # (disk[r].key # None) ->
            Goto(r, "failed") /\ UNCHANGED <<disk, loaded>>
       [] OTHER ->
            /\ disk' = [disk EXCEPT ![r].key = Made(r)]
            /\ Goto(r, "cert") /\ UNCHANGED loaded
  /\ UNCHANGED <<pod, secret, exists, stored, base, current>>

CommitCert(r) ==
  /\ pc[r] = "cert"
  /\ disk' = [disk EXCEPT ![r].cert = Made(r)]
  /\ LoadedWith(r, {"cert", "key"}, disk'[r])
  /\ Goto(r, "pepper")
  /\ UNCHANGED <<pod, secret, exists, stored, base, current>>

loadPepper(r) ==
  /\ pc[r] = "pepper"
  /\ disk' = [disk EXCEPT ![r].pepper = IF @ = None THEN Made(r) ELSE @]
  /\ LoadedWith(r, {"pepper"}, disk'[r])
  /\ Goto(r, IF complete(stored[r]) THEN "up" ELSE IF empty(stored[r]) THEN "persist" ELSE "merge")
  /\ UNCHANGED <<pod, secret, exists, stored, base, current>>

-----------------------------------------------------------------------------
(* persist *)

(* The answer to a write that was made may be lost: start-up then fails. *)
Answered(r) == Goto(r, "up") \/ Goto(r, "failed")

(* persist on first boot: creating replaces nothing. *)
CreateSecret(r) ==
  /\ pc[r] = "persist"
  /\ IF exists
     THEN Goto(r, "adopt") /\ UNCHANGED <<secret, exists, current>>
     ELSE /\ secret' = loaded[r] /\ exists' = TRUE /\ current' = {}
          /\ Answered(r)
  /\ UNCHANGED <<pod, stored, disk, loaded, base>>

(* A loser of the create that goes on with its own material. *)
KeepOwn(r) ==
  /\ pc[r] = "adopt"
  /\ Goto(r, "up")
  /\ UNCHANGED <<pod, secret, exists, stored, disk, loaded, base, current>>

(* The loser of the create takes the winner's material. *)
AdoptWinner(r) ==
  /\ pc[r] = "adopt"
  /\ IF empty(secret)
     THEN Goto(r, "failed") /\ UNCHANGED disk
     ELSE /\ disk' = [disk EXCEPT ![r] = Overlay(secret, disk[r])]
          /\ Goto(r, "reload")
  /\ UNCHANGED <<pod, secret, exists, stored, loaded, base, current>>

(* reloadAfterAdoption, and the pepper again. *)
Reload(r) ==
  /\ pc[r] = "reload"
  /\ IF disk[r].cert = disk[r].key
     THEN LoadedWith(r, Fields, disk[r]) /\ Goto(r, "up")
     ELSE Goto(r, "failed") /\ UNCHANGED loaded
  /\ UNCHANGED <<pod, secret, exists, stored, disk, base, current>>

(* complete(): GET the Secret again, fill only the absent fields, PUT. *)
MergeGenerated(r) ==
  /\ pc[r] = "merge"
  /\ base' = [base EXCEPT ![r] = Overlay(secret, loaded[r])]
  /\ IF complete(secret) THEN Goto(r, "up") /\ UNCHANGED current
     ELSE Goto(r, "put") /\ current' = current \cup {r}
  /\ UNCHANGED <<pod, secret, exists, stored, disk, loaded>>

(* A conflict reports adoption, but nothing is copied down before the reload. *)
PutCompleted(r) ==
  /\ pc[r] = "put"
  /\ IF r \in current
     THEN secret' = base[r] /\ current' = {} /\ Answered(r)
     ELSE Goto(r, "reload") /\ UNCHANGED <<secret, current>>
  /\ UNCHANGED <<pod, exists, stored, disk, loaded, base>>

-----------------------------------------------------------------------------
(* A process ends at any point: by a crash, by an error it reports, or      *)
(* because its pod is replaced, which takes the scratch directory with it.  *)
Restart(r) ==
  /\ pc[r] # "load"
  /\ Goto(r, "load")
  /\ \/ UNCHANGED <<pod, disk>>
     \/ /\ pod[r] < MaxPods
        /\ pod' = [pod EXCEPT ![r] = @ + 1]
        /\ disk' = [disk EXCEPT ![r] = Nothing]
  /\ stored' = [stored EXCEPT ![r] = Nothing]
  /\ loaded' = [loaded EXCEPT ![r] = Nothing]
  /\ base' = [base EXCEPT ![r] = Nothing]
  /\ current' = current \ {r}
  /\ UNCHANGED <<secret, exists>>

prepare(r) ==
  \/ load(r) \/ LoadOrCreate(r) \/ CommitCert(r) \/ loadPepper(r)
  \/ CreateSecret(r) \/ AdoptWinner(r) \/ Reload(r) \/ MergeGenerated(r) \/ PutCompleted(r)

Next == \E r \in Replicas : prepare(r) \/ Restart(r)

Spec == Init /\ [][Next]_vars

-----------------------------------------------------------------------------
(* Properties. *)

(* A replica serves only with the material every other replica uses: the    *)
(* Secret's CA and the Secret's pepper.  "continuing with it would mean     *)
(* signing spoke certificates with a CA no other replica trusts, and        *)
(* verifying API keys against the wrong pepper" (prepare).                  *)
ServesSharedMaterial ==
  \A r \in Replicas : pc[r] = "up" => loaded[r] = secret

(* A field of the Secret that has a value keeps it, whatever replicas       *)
(* generated and in whichever order they wrote: "a hub that overwrote a     *)
(* live CA key would orphan every spoke in the fleet" (complete).           *)
FieldsAreFinal ==
  \A f \in Fields : secret[f] # None => secret'[f] = secret[f]

(* A half-present CA is never completed with a generated half: the Secret,  *)
(* filled by whichever replicas, holds one pair, and so does every process  *)
(* that loaded a CA.                                                        *)
PairsOnly ==
  /\ secret.cert # None /\ secret.key # None => secret.cert = secret.key
  /\ \A r \in Replicas : loaded[r].cert = loaded[r].key

=============================================================================
