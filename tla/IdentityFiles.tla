--------------------------- MODULE IdentityFiles ---------------------------
(***************************************************************************)
(* The spoke's identity on local disk (fileIdentityStore): a key, a        *)
(* certificate and a CA bundle, each replaced by a rename of its own, in   *)
(* the random order Go ranges over a map.  A rename may fail and the       *)
(* process may die between two of them.  The identity in use is a number:  *)
(* identity n is key n with certificate n, and every renewal makes a new   *)
(* key.                                                                    *)
(***************************************************************************)
EXTENDS Integers

CONSTANTS MaxIssued, MaxFaults, MaxCrashes

Names == {"tls.key", "tls.crt", "ca.crt"}
NoIdentity == 0

VARIABLES
  files,        \* the identity each file belongs to, NoIdentity while it does not exist
  phase,        \* start, enroll, save, run or stranded: no identity and no token
  todo,         \* the files the Save in progress has not renamed yet
  new,          \* the identity being saved
  from,         \* who called Save: enroll, renew or retry
  running,      \* the identity in use
  unpersisted,  \* identityUnpersisted
  issued,       \* certificates the hub has issued; the first spends the token
  faults, crashes

vars == <<files, phase, todo, new, from, running, unpersisted, issued, faults, crashes>>
counters == <<faults, crashes>>

Init ==
  /\ files = [n \in Names |-> NoIdentity] /\ phase = "start" /\ todo = {} /\ new = NoIdentity
  /\ from = "enroll" /\ running = NoIdentity /\ unpersisted = FALSE /\ issued = 0
  /\ faults = 0 /\ crashes = 0

-----------------------------------------------------------------------------
(* Load returns what is there once both files exist; the CA bundle may be   *)
(* of another identity.                                                     *)
Load == files["tls.key"] # NoIdentity /\ files["tls.crt"] # NoIdentity

loadIdentity == Load /\ files["tls.key"] = files["tls.crt"]

Save(id, by) == phase' = "save" /\ todo' = Names /\ new' = id /\ from' = by

EstablishIdentity ==
  /\ phase = "start"
  /\ IF loadIdentity
     THEN phase' = "run" /\ running' = files["tls.crt"]
     ELSE phase' = "enroll" /\ UNCHANGED running
  /\ UNCHANGED <<files, todo, new, from, unpersisted, issued, counters>>

(* The enrollment token is single use. *)
Enroll ==
  /\ phase = "enroll"
  /\ \/ issued = 0 /\ issued' = 1 /\ Save(1, "enroll")
     \/ issued > 0 /\ phase' = "stranded" /\ UNCHANGED <<issued, todo, new, from>>
  /\ UNCHANGED <<files, running, unpersisted, counters>>

(* renewLoop: a fresh key and a certificate for it, after the retry of an   *)
(* earlier Save, whether that worked or not.                                *)
Renew ==
  /\ phase = "run" /\ (unpersisted => from = "retry")
  /\ issued < MaxIssued /\ issued' = issued + 1
  /\ Save(issued', "renew")
  /\ UNCHANGED <<files, running, unpersisted, counters>>

(* The next wake-up of renewLoop after a Save that failed. *)
Retry ==
  /\ phase = "run" /\ unpersisted
  /\ Save(running, "retry")
  /\ UNCHANGED <<files, running, unpersisted, issued, counters>>

Whole(fs) == fs["tls.key"] = fs["tls.crt"] /\ fs["tls.key"] # NoIdentity

(* One pass of the loop: a temporary file written and renamed. *)
RenameFile(n) ==
  /\ phase = "save" /\ n \in todo
  /\ files' = [files EXCEPT ![n] = new] /\ todo' = todo \ {n}
  /\ UNCHANGED <<phase, new, from, running, unpersisted, issued, counters>>

(* Save returned nil. *)
Saved ==
  /\ phase = "save" /\ todo = {}
  /\ phase' = "run" /\ running' = new /\ unpersisted' = (unpersisted /\ from # "retry")
  /\ UNCHANGED <<files, todo, new, from, issued, counters>>

(* A write or a rename fails.  The identity is used all the same; renewLoop *)
(* remembers to save it unless the pair is on disk and can be adopted.      *)
(* Enrollment does not remember.                                            *)
SaveFailed ==
  /\ phase = "save" /\ todo # {} /\ faults < MaxFaults
  /\ faults' = faults + 1
  /\ phase' = "run" /\ todo' = {} /\ running' = new
  /\ unpersisted' = (unpersisted \/ (from = "renew" /\ ~(Whole(files) /\ files["tls.key"] = new)))
  /\ UNCHANGED <<files, new, from, issued, crashes>>

Crash ==
  /\ phase \in {"save", "run"} /\ crashes < MaxCrashes
  /\ crashes' = crashes + 1
  /\ phase' = "start" /\ todo' = {} /\ running' = NoIdentity /\ unpersisted' = FALSE
  /\ UNCHANGED <<files, new, from, issued, faults>>

Next ==
  \/ EstablishIdentity \/ Enroll \/ Renew \/ Retry \/ Saved \/ SaveFailed \/ Crash
  \/ \E n \in Names : RenameFile(n)

Spec == Init /\ [][Next]_vars

-----------------------------------------------------------------------------
(* Properties. *)

Unsaved == running > 1 /\ ~Whole(files)

(* loadIdentity pairs the two files: what a restart takes into use is never *)
(* a certificate with another certificate's key, whatever a crash between   *)
(* two renames left behind.                                                 *)
StartsOnAPair ==
  phase = "start" /\ phase' = "run" => files["tls.key"] = running'

=============================================================================
