----------------------------- MODULE FileStore -----------------------------
(***************************************************************************)
(* The file-backed store (internal/store/filestore): one process, one      *)
(* mutex, a decoded document in memory and a state file replaced through a *)
(* temporary file and a rename.  A write can fail, the process can die and *)
(* the power can go between any two of its system calls.                   *)
(***************************************************************************)
EXTENDS State

CONSTANTS
  Callers,    \* calls, each made at most once
  OpsOf,      \* the mutations or reads each call may be
  Now,        \* the instant the calls are made at
  InitFiles,  \* what the state file may be at the start
  Opener      \* Open, as the writer of a fresh file

VARIABLES
  file,      \* what the path names, as this machine sees it
  flushed,   \* the data of file has reached the disk
  durable,   \* what the path names on the disk
  unsynced,  \* a directory sync has failed, and nobody was told
  mem,       \* Store.data
  phase,     \* down, up or closed
  call,      \* where each call is
  write      \* the write in progress, which holds Store.mu

vars == <<file, flushed, durable, unsynced, mem, phase, call, write>>
disk == <<file, flushed, durable, unsynced>>

(* A read decides nothing and changes nothing. *)
Outcome(d, o) == IF o.op = "Read" THEN NoChange(d) ELSE Apply(d, o, Now)

Ops == UNION {OpsOf[c] : c \in Callers}
NoOp == [op |-> "none"]

(* A corrupt file is one Open refuses: it does not decode, or its mode      *)
(* exposes it.                                                              *)
Absent    == [kind |-> "absent", doc |-> NewState]
Corrupt   == [kind |-> "corrupt", doc |-> NewState]
Holding(d) == [kind |-> "document", doc |-> d]
IsFile(f) == f = [kind |-> f.kind, doc |-> f.doc] /\ IsDocument(f.doc)
               /\ f.kind \in {"absent", "corrupt", "document"}

ASSUME FileStoreConstants ==
  /\ Now \in Nat /\ Opener \notin Callers
  /\ NoOp \notin Ops /\ \A o \in Ops : o.op = "Read" \/ IsOp(o)
  /\ \A f \in InitFiles : IsFile(f) /\ (f.kind # "document" => f \in {Absent, Corrupt})

Minted(kid) == \E o \in Ops : Mints(o, kid)

(* A key id is drawn at random: no two calls issue the same one, and none   *)
(* that is in use already.  The one fixed id is the bootstrap key's, which  *)
(* is no grant.                                                             *)
ASSUME KeyIDs ==
  \A kid \in KIDs :
    /\ \A c \in Callers : \A o \in OpsOf[c] : Issues(o, kid) =>
         /\ ~Minted(kid)
         /\ \A f \in InitFiles : kid \notin DOMAIN f.doc.keys
         /\ \A e \in Callers \ {c} : \A p \in OpsOf[e] : ~Issues(p, kid)
    /\ \A o \in Ops : Mints(o, kid) => ~IsGrant(o.key)

Idle == [at |-> "idle", op |-> NoOp, applied |-> FALSE, result |-> "none"]
NoWrite == [by |-> Opener, at |-> "none", doc |-> NewState, synced |-> FALSE]

Init ==
  /\ file \in InitFiles /\ durable = file /\ flushed = TRUE /\ unsynced = FALSE
  /\ mem = NewState /\ phase = "down"
  /\ call = [c \in Callers |-> Idle]
  /\ write = NoWrite

-----------------------------------------------------------------------------
(* Open and the calls, up to the decision to write. *)

Unlocked == write.at = "none"
Start(by, d) == write' = [by |-> by, at |-> "temp", doc |-> d, synced |-> FALSE]
Finish(c, result) == call' = [call EXCEPT ![c].at = "done", ![c].result = result]

(* An absent file is written fresh; one that does not decode is refused and *)
(* left as it is.                                                           *)
Open ==
  /\ phase = "down" /\ Unlocked
  /\ \/ /\ file.kind = "document"
        /\ mem' = file.doc /\ phase' = "up" /\ UNCHANGED write
     \/ file.kind = "absent" /\ Start(Opener, NewState) /\ UNCHANGED <<mem, phase>>
  /\ UNCHANGED <<disk, call>>

Begin(c) ==
  /\ phase # "down" /\ call[c].at = "idle"
  /\ \E o \in OpsOf[c] : call' = [call EXCEPT ![c].at = "lock", ![c].op = o]
  /\ UNCHANGED <<disk, mem, phase, write>>

(* CheckContext, once the mutex is held. *)
Refused(c) ==
  /\ call[c].at = "lock" /\ Unlocked
  /\ \/ phase = "closed" /\ Finish(c, "closed")
     \/ Finish(c, "canceled")
  /\ UNCHANGED <<disk, mem, phase, write>>

(* mutate: the mutation is decided on the document in memory. *)
mutate(c) ==
  /\ call[c].at = "lock" /\ Unlocked /\ phase = "up"
  /\ LET r == Outcome(mem, call[c].op)
     IN  \/ /\ r.changed /\ Start(c, r.doc)
            /\ call' = [call EXCEPT ![c].at = "write"]
         \/ r.err # "none" /\ Finish(c, r.err) /\ UNCHANGED write
         \/ r.err = "none" /\ ~r.changed /\ Finish(c, "unchanged") /\ UNCHANGED write
  /\ UNCHANGED <<disk, mem, phase>>

Close ==
  /\ phase = "up" /\ Unlocked
  /\ phase' = "closed"
  /\ UNCHANGED <<disk, mem, call, write>>

-----------------------------------------------------------------------------
(* write, one system call at a time. *)

Goto(at) == write' = [write EXCEPT !.at = at]

(* Before the rename a write that fails leaves everything as it was. *)
WriteFails ==
  /\ write.at \in {"temp", "sync", "rename"}
  /\ write' = NoWrite
  /\ IF write.by = Opener THEN UNCHANGED call ELSE Finish(write.by, "unavailable")
  /\ UNCHANGED <<disk, mem, phase>>

WriteTemp ==
  /\ write.at = "temp" /\ Goto("sync")
  /\ UNCHANGED <<disk, mem, phase, call>>

(* The temporary file closed without a sync. *)
NoSyncTemp ==
  /\ write.at = "sync" /\ Goto("rename")
  /\ UNCHANGED <<disk, mem, phase, call>>

SyncTemp ==
  /\ write.at = "sync"
  /\ write' = [write EXCEPT !.at = "rename", !.synced = TRUE]
  /\ UNCHANGED <<disk, mem, phase, call>>

Applied == IF write.by = Opener THEN UNCHANGED call
           ELSE call' = [call EXCEPT ![write.by].applied = TRUE]

Rename ==
  /\ write.at = "rename"
  /\ file' = Holding(write.doc) /\ flushed' = write.synced
  /\ Goto("syncdir") /\ Applied
  /\ UNCHANGED <<durable, unsynced, mem, phase>>

OnDisk == IF flushed THEN file ELSE Corrupt

(* No directory sync at all. *)
NoSyncDir ==
  /\ write.at = "syncdir" /\ Goto("memory")
  /\ UNCHANGED <<disk, mem, phase, call>>

(* A failed directory sync does not fail the write. *)
SyncDir ==
  /\ write.at = "syncdir" /\ Goto("memory")
  /\ \/ durable' = OnDisk /\ UNCHANGED unsynced
     \/ unsynced' = TRUE /\ UNCHANGED durable
  /\ UNCHANGED <<file, flushed, mem, phase, call>>

(* The copy in memory left as it was. *)
ReturnStale ==
  /\ write.at = "memory" /\ write' = NoWrite
  /\ IF write.by = Opener THEN phase' = "up" /\ UNCHANGED call
     ELSE Finish(write.by, "stored") /\ UNCHANGED phase
  /\ UNCHANGED <<disk, mem>>

Return ==
  /\ write.at = "memory" /\ write' = NoWrite /\ mem' = write.doc
  /\ IF write.by = Opener THEN phase' = "up" /\ UNCHANGED call
     ELSE Finish(write.by, "stored") /\ UNCHANGED phase
  /\ UNCHANGED disk

-----------------------------------------------------------------------------
(* What ends the process. *)

Lost == call' = [c \in Callers |-> IF call[c].at \in {"lock", "write"}
                   THEN [call[c] EXCEPT !.at = "done", !.result = "unavailable"] ELSE call[c]]
Stopped == phase' = "down" /\ mem' = NewState /\ write' = NoWrite /\ Lost

(* The process dies; what it renamed stays renamed. *)
Crash ==
  /\ phase # "down" \/ ~Unlocked
  /\ Stopped /\ UNCHANGED disk

(* The machine loses power: a rename that was not synced may be undone, and *)
(* data that was not synced is gone.                                        *)
PowerLoss ==
  /\ file' \in {OnDisk, durable}
  /\ durable' = file' /\ flushed' = TRUE
  /\ Stopped /\ UNCHANGED unsynced

Writing == WriteFails \/ WriteTemp \/ SyncTemp \/ Rename \/ SyncDir \/ Return

Next ==
  \/ Open \/ Writing \/ Close \/ Crash
  \/ \E c \in Callers : Begin(c) \/ Refused(c) \/ mutate(c)

Spec == Init /\ [][Next]_vars
PowerSpec == Init /\ [][Next \/ PowerLoss]_vars

-----------------------------------------------------------------------------
(* Properties. *)

(* Whenever the mutex is free, the document every method decodes is the one *)
(* in the file: no failed write leaves a change in memory that the next     *)
(* call builds on, and no successful one is missing from it.                *)
MemoryIsFile == Unlocked /\ phase # "down" => file = Holding(mem)

(* Open's "silently re-initialising would discard every issued credential   *)
(* and every revocation": a power cut at any system call leaves a file Open *)
(* accepts, a document that reached the disk is only ever replaced by       *)
(* another, and a file Open refuses is never written over.                  *)
NeverReinitialised ==
  [][/\ file.kind # "corrupt" => file'.kind # "corrupt"
     /\ durable.kind = "document" => file'.kind = "document"
     /\ file.kind = "corrupt" => file' = file]_vars

Winners(kind, kid) == {c \in Callers : /\ call[c].at = "done" /\ call[c].op.op = kind
                                       /\ call[c].op.kid = kid /\ call[c].result = "stored"}

(* write's "so that the rename itself is durable rather than merely the     *)
(* data": while no directory sync has failed, a redemption or revocation    *)
(* reported stored is there after any number of crashes and power cuts, and *)
(* a single-use grant is reported redeemed once.  (A revoked bootstrap key  *)
(* is minted anew by the next start.)                                       *)
AcknowledgedIsDurable ==
  ~unsynced =>
    \A f \in {file, durable} : \A kid \in DOMAIN f.doc.keys :
      LET k == f.doc.keys[kid]
      IN  /\ ~Minted(kid) /\ Winners("RevokeKey", kid) # {} => k.revoked
          /\ IsGrant(k) /\ ~k.reusable =>
               /\ Cardinality(Winners("BurnEnrollment", kid)) <= 1
               /\ \A c \in Winners("BurnEnrollment", kid) : k.serial = call[c].op.serial

(* What the interface promises: each change is one atomic application of    *)
(* its mutation to the current document.                                    *)
status ==
  [c \in Callers |-> CASE call[c].at \in {"idle", "done"} -> call[c].at
                       [] OTHER -> IF call[c].applied THEN "committed" ELSE "pending"]
outcome ==
  [c \in Callers |-> CASE call[c].result \in {"none", "stored", "unchanged"} -> call[c].result
                       [] OTHER -> "failed"]
op == [c \in Callers |-> call[c].op]

Abstract == INSTANCE Store WITH doc <- file.doc, status <- status, op <- op, outcome <- outcome

ImplementsStore == Abstract!StoreSpec

=============================================================================
