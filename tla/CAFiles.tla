------------------------------ MODULE CAFiles ------------------------------
(***************************************************************************)
(* Processes that initialise one data directory at the same time           *)
(* (ca.LoadOrCreate, Create and linkFileExclusive in internal/ca/ca.go,    *)
(* LoadOrCreatePepper in internal/token/pepper.go).  The CA's two files    *)
(* are each linked into place whole, key first; the pepper is created      *)
(* exclusively and written afterwards.                                     *)
(***************************************************************************)
EXTENDS Naturals, TLC

CONSTANTS
  Procs,
  InitPollAttempts,   \* initPollAttempts, scaled down
  MaxCrashes,         \* bound: crashes and restored files
  Restored,           \* who made a certificate restored from a backup
  Absent, Short       \* no file; a pepper file nothing was written to yet

CAFilesConstants ==
  /\ InitPollAttempts \in Nat \ {0} /\ MaxCrashes \in Nat
  /\ {Absent, Short, Restored} \cap Procs = {} /\ Absent # Short /\ Restored # Absent

VARIABLES
  file,      \* the directory: the maker of each file's content
  pc, tries, \* where each process is, and the polls it has made
  incomplete,\* lastIncomplete is set
  result,    \* the CA and pepper each process got
  crashes

vars == <<file, pc, tries, incomplete, result, crashes>>

Errors == {"ErrCAIncomplete", "ErrCAExists", "ErrShortPepper", "ErrInvalidCA", "ErrCANotFound"}
Contents == Procs \cup {Absent, Restored}
Init ==
  /\ file = [cert |-> Absent, key |-> Absent, pepper |-> Absent]
  /\ pc = [p \in Procs |-> "poll"] /\ tries = [p \in Procs |-> 0]
  /\ incomplete = [p \in Procs |-> FALSE]
  /\ result = [p \in Procs |-> [cert |-> Absent, key |-> Absent, pepper |-> Absent]]
  /\ crashes = 0

(* The type of the state; a process in service has a CA and a pepper. *)
TypeOK ==
  /\ file \in [cert : Contents, key : Contents, pepper : Contents \cup {Short}]
  /\ pc \in [Procs -> {"poll", "nocert", "cert?", "load", "create", "key", "cert", "undo", "pepper",
                       "open", "write", "up"} \cup Errors]
  /\ tries \in [Procs -> 0..InitPollAttempts] /\ incomplete \in [Procs -> BOOLEAN]
  /\ result \in [Procs -> [cert : Contents, key : Contents, pepper : Contents]]
  /\ crashes \in 0..MaxCrashes
  /\ \A p \in Procs : pc[p] = "up" => Absent \notin {result[p].cert, result[p].pepper}

Goto(p, s) == pc' = [pc EXCEPT ![p] = s]
Got(p, f) == result' = [result EXCEPT ![p] = f @@ @]
Put(f, c) == file' = [file EXCEPT ![f] = c]

(* The loop goes round until the budget is spent. *)
Retry(p, half) ==
  IF tries[p] < InitPollAttempts
  THEN tries' = [tries EXCEPT ![p] = @ + 1] /\ Goto(p, "poll")
  ELSE Goto(p, IF half THEN "ErrCAIncomplete" ELSE "ErrCAExists") /\ UNCHANGED tries

-----------------------------------------------------------------------------
(* LoadOrCreate: the two stats are separate system calls. *)

StatCert(p) ==
  /\ pc[p] = "poll"
  /\ Goto(p, IF file.cert = Absent THEN "nocert" ELSE "cert?")
  /\ UNCHANGED <<file, tries, incomplete, result, crashes>>

StatKey(p) ==
  /\ pc[p] \in {"nocert", "cert?"}
  /\ IF (pc[p] = "cert?") # (file.key # Absent)
     THEN incomplete' = [incomplete EXCEPT ![p] = TRUE] /\ Retry(p, TRUE)
     ELSE Goto(p, IF pc[p] = "cert?" THEN "load" ELSE "create") /\ UNCHANGED <<incomplete, tries>>
  /\ UNCHANGED <<file, result, crashes>>

(* Load refuses a key that does not match the certificate. *)
Load(p) ==
  /\ pc[p] = "load"
  /\ CASE Absent \in {file.cert, file.key} -> Goto(p, "ErrCANotFound") /\ UNCHANGED result
       [] file.cert # file.key /\ Absent \notin {file.cert, file.key} ->
            Goto(p, "ErrInvalidCA") /\ UNCHANGED result
       [] OTHER -> Got(p, [cert |-> file.cert, key |-> file.key]) /\ Goto(p, "pepper")
  /\ UNCHANGED <<file, tries, incomplete, crashes>>

(* Create: the advisory check, then the exclusive links, key first. *)
Create(p) ==
  /\ pc[p] = "create"
  /\ IF file.cert # Absent \/ file.key # Absent
     THEN Retry(p, incomplete[p])
     ELSE Goto(p, "key") /\ UNCHANGED tries
  /\ UNCHANGED <<file, incomplete, result, crashes>>

linkKey(p) ==
  /\ pc[p] = "key"
  /\ IF file.key # Absent
     THEN Retry(p, incomplete[p]) /\ UNCHANGED file
     ELSE Put("key", p) /\ Goto(p, "cert") /\ UNCHANGED tries
  /\ UNCHANGED <<incomplete, result, crashes>>

linkCert(p) ==
  /\ pc[p] = "cert"
  /\ IF file.cert # Absent
     THEN Goto(p, "undo") /\ UNCHANGED <<file, result>>
     ELSE /\ Put("cert", p)
          /\ Got(p, [cert |-> p, key |-> p])
          /\ Goto(p, "pepper")
  /\ UNCHANGED <<tries, incomplete, crashes>>

(* A certificate that is already there: take the key away again. *)
RemoveKey(p) ==
  /\ pc[p] = "undo"
  /\ Put("key", Absent) /\ Retry(p, incomplete[p])
  /\ UNCHANGED <<incomplete, result, crashes>>

-----------------------------------------------------------------------------
(* LoadOrCreatePepper *)

readPepper(p, missing) ==
  CASE file.pepper = Absent -> Goto(p, missing) /\ UNCHANGED result
    [] file.pepper = Short  -> Goto(p, "ErrShortPepper") /\ UNCHANGED result
    [] OTHER -> Got(p, [pepper |-> file.pepper]) /\ Goto(p, "up")

LoadPepper(p) ==
  /\ pc[p] = "pepper"
  /\ readPepper(p, "open")
  /\ UNCHANGED <<file, tries, incomplete, crashes>>

OpenPepper(p) ==
  /\ pc[p] = "open"
  /\ IF file.pepper = Absent
     THEN Put("pepper", Short) /\ Goto(p, "write") /\ UNCHANGED result
     ELSE readPepper(p, "ErrShortPepper") /\ UNCHANGED file
  /\ UNCHANGED <<tries, incomplete, crashes>>

WritePepper(p) ==
  /\ pc[p] = "write"
  /\ Put("pepper", p)
  /\ Got(p, [pepper |-> p]) /\ Goto(p, "up")
  /\ UNCHANGED <<tries, incomplete, crashes>>

-----------------------------------------------------------------------------
(* A process dies and is started again. *)
Crash(p) ==
  /\ crashes < MaxCrashes /\ crashes' = crashes + 1
  /\ Goto(p, "poll")
  /\ tries' = [tries EXCEPT ![p] = 0] /\ incomplete' = [incomplete EXCEPT ![p] = FALSE]
  /\ result' = [result EXCEPT ![p] = [cert |-> Absent, key |-> Absent, pepper |-> Absent]]
  /\ UNCHANGED file

Step(p) ==
  \/ StatCert(p) \/ StatKey(p) \/ Load(p) \/ Create(p) \/ linkKey(p) \/ linkCert(p) \/ RemoveKey(p)
  \/ LoadPepper(p) \/ OpenPepper(p) \/ WritePepper(p)

(* A certificate is restored from a backup that lacked its key. *)
Restore ==
  /\ file.cert = Absent /\ crashes < MaxCrashes /\ crashes' = crashes + 1
  /\ Put("cert", Restored)
  /\ UNCHANGED <<pc, tries, incomplete, result>>

Next == (\E p \in Procs : Step(p) \/ Crash(p)) \/ Restore

Spec == Init /\ [][Next]_vars

-----------------------------------------------------------------------------
(* Properties. *)

Settled(p) == pc[p] \in {"up"} \cup Errors

(* "Exactly one wins": processes that come into service share one CA, whose *)
(* certificate and key match, and one pepper, although any of them may die  *)
(* and start again in between.                                              *)
OneAuthority ==
  \A p, q \in Procs :
    pc[p] = "up" /\ pc[q] = "up" => result[p] = result[q] /\ result[p].cert = result[p].key

(* "A CA is never overwritten": a file once complete keeps its content.     *)
NeverOverwritten ==
  /\ file.cert # Absent => file'.cert = file.cert
  /\ file.key # Absent /\ file.key = file.cert => file'.key = file.key
  /\ file.pepper \in Procs => file'.pepper = file.pepper

(* A key without a certificate, left by a process that died between its two *)
(* links, is reported and never replaced by a fresh CA.                     *)
HalfPresentIsKept ==
  file.key # Absent /\ file.cert = Absent => file'.cert \in {Absent, Restored, file.key}

=============================================================================
