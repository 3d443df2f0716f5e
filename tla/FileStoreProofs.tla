-------------------------- MODULE FileStoreProofs --------------------------
(***************************************************************************)
(* FileStore implements Store for any number of calls and any mutations,   *)
(* and keeps its memory and its file together through crashes and power    *)
(* cuts, what a caller was told included.                                  *)
(*                                                                         *)
(* The argument is the mutex: a write in progress belongs to one call,     *)
(* until its rename the file still is the document the call decided on,    *)
(* and from the rename on it is the document the call is about to put in   *)
(* memory.  The rename is therefore Store's Commit.                        *)
(***************************************************************************)
EXTENDS FileStore, StateProofs, FiniteSetTheorems

Before == {"temp", "sync", "rename"}
After == {"syncdir", "memory"}

CallOK(k) ==
  /\ DOMAIN k = {"at", "op", "applied", "result"}
  /\ k.at \in {"idle", "lock", "write", "done"}
  /\ IF k.at = "idle" THEN k.op = NoOp ELSE k.op \in Ops
  /\ k.applied \in BOOLEAN
  /\ k.at \in {"idle", "lock"} => ~k.applied
  /\ k.at # "done" => k.result = "none"

FileOK(f) ==
  /\ DOMAIN f = {"kind", "doc"} /\ f = [kind |-> f.kind, doc |-> f.doc]
  /\ f.kind \in {"absent", "corrupt", "document"}
  /\ f.kind # "document" => f.doc = NewState

DiskOK ==
  /\ FileOK(file) /\ FileOK(durable) /\ flushed = TRUE
  /\ file.kind = "corrupt" <=> durable.kind = "corrupt"
  /\ file.kind = "absent" => durable.kind = "absent"
  /\ file.kind = "corrupt" => phase = "down" /\ write.at = "none"

CallsOK ==
  /\ DOMAIN call = Callers /\ call = [c \in Callers |-> call[c]]
  /\ \A c \in Callers : CallOK(call[c])
  /\ \A c \in Callers : call[c].at = "write" => write.at # "none" /\ write.by = c
  /\ phase = "down" => \A c \in Callers : call[c].at # "lock"

WriteOK ==
  /\ DOMAIN write = {"by", "at", "doc", "synced"}
  /\ write.by \in Callers \cup {Opener}
  /\ write.at \in {"none"} \cup Before \cup After
  /\ write.at = "rename" => write.synced = TRUE
  /\ write.at \in After => file = Holding(write.doc)
  /\ write.at # "none" /\ write.by = Opener =>
       phase = "down" /\ (write.at \in Before => file.kind = "absent" /\ write.doc = NewState)
  /\ write.at # "none" /\ write.by # Opener =>
       /\ phase = "up" /\ call[write.by].at = "write"
       /\ call[write.by].applied <=> write.at \in After
       /\ write.at \in Before => /\ Outcome(mem, call[write.by].op).changed
                                 /\ Outcome(mem, call[write.by].op).doc = write.doc
  /\ phase \in {"down", "up", "closed"}
  /\ phase # "down" /\ write.at \notin After => file = Holding(mem)

FInv == DiskOK /\ CallsOK /\ WriteOK

(* The mutex is free and nothing is written when the process starts. *)
LEMMA InitOK == Init => FInv
  <1> SUFFICES ASSUME Init PROVE FInv
    OBVIOUS
  <1>1. FileOK(file)
    BY FileStoreConstants DEF Init, IsFile, FileOK, Absent, Corrupt
  <1>2. CallOK(Idle)
    BY DEF Idle, CallOK
  <1>3. DiskOK
    BY <1>1 DEF Init, DiskOK, NoWrite
  <1>4. CallsOK
    BY <1>2 DEF Init, CallsOK, Idle
  <1>5. WriteOK
    BY DEF Init, WriteOK, NoWrite, Before, After
  <1> QED BY <1>3, <1>4, <1>5 DEF FInv

(* Open takes the file as it is, or starts the write of a fresh one. *)
LEMMA OpenStep == ASSUME FInv, Open PROVE FInv'
  <1>1. DiskOK'
    BY DEF FInv, DiskOK, Open, disk, Unlocked, Start
  <1>2. CallsOK'
    BY DEF FInv, CallsOK, Open, Unlocked, Start
  <1>3. WriteOK'
    <2>1. CASE file.kind = "document"
      <3>1. file' = Holding(mem')
        BY <2>1, ZenonT(60) DEF Open, FInv, DiskOK, FileOK, Holding, disk
      <3> QED BY <2>1, <3>1 DEF FInv, WriteOK, Open, Unlocked, disk
    <2>2. CASE file.kind # "document"
      BY <2>2, FileStoreConstants DEF FInv, WriteOK, Open, Unlocked, Start, disk, Before, After
    <2> QED BY <2>1, <2>2, ZenonT(60)
  <1> QED BY <1>1, <1>2, <1>3 DEF FInv

(* A step that moves one call and writes nothing. *)
LEMMA CallOnly ==
  ASSUME FInv, NEW c \in Callers, NEW k, CallOK(k), k.at # "write",
         call[c].at # "write", phase = "down" => k.at # "lock",
         call' = [call EXCEPT ![c] = k], UNCHANGED <<disk, mem, phase, write>>
  PROVE  FInv'
  <1>1. DiskOK'
    BY DEF FInv, DiskOK, disk
  <1>2. CallsOK'
    BY ZenonT(180) DEF FInv, CallsOK
  <1>3. WriteOK'
    BY DEF FInv, WriteOK, disk
  <1> QED BY <1>1, <1>2, <1>3, ZenonT(60) DEF FInv

(* Calls that are made, refused or change nothing. *)
LEMMA BeginStep == ASSUME FInv, NEW c \in Callers, Begin(c) PROVE FInv'
  <1>1. PICK o \in OpsOf[c] : call' = [call EXCEPT ![c].at = "lock", ![c].op = o]
    BY Zenon DEF Begin
  <1> DEFINE k == [call[c] EXCEPT !.at = "lock", !.op = o]
  <1>2. call' = [call EXCEPT ![c] = k]
    BY <1>1, ZenonT(60) DEF FInv, CallsOK
  <1>3. CallOK(k) /\ k.at = "lock"
    BY DEF FInv, CallsOK, CallOK, Begin, Ops
  <1> QED BY <1>2, <1>3, CallOnly, ZenonT(60) DEF Begin

LEMMA FinishOK ==
  ASSUME FInv, NEW c \in Callers, NEW result, call[c].at # "idle"
  PROVE  CallOK([call[c] EXCEPT !.at = "done", !.result = result])
  BY DEF FInv, CallsOK, CallOK

LEMMA FinishOnly ==
  ASSUME FInv, NEW c \in Callers, NEW result, call[c].at = "lock", Finish(c, result),
         UNCHANGED <<disk, mem, phase, write>>
  PROVE  FInv'
  <1> DEFINE k == [call[c] EXCEPT !.at = "done", !.result = result]
  <1>1. call' = [call EXCEPT ![c] = k]
    BY ZenonT(60) DEF Finish, FInv, CallsOK
  <1>2. CallOK(k)
    BY FinishOK, Zenon
  <1>3. k.at = "done"
    BY DEF FInv, CallsOK, CallOK
  <1> HIDE DEF k
  <1> QED BY <1>1, <1>2, <1>3, CallOnly, ZenonT(60)

LEMMA RefusedStep == ASSUME FInv, NEW c \in Callers, Refused(c) PROVE FInv'
  BY FinishOnly, ZenonT(60) DEF Refused

(* A decision to write takes the mutex. *)
LEMMA MutateStep == ASSUME FInv, NEW c \in Callers, mutate(c) PROVE FInv'
  <1> DEFINE r == Outcome(mem, call[c].op)
  <1> HIDE DEF r
  <1>1. CASE r.changed /\ Start(c, r.doc) /\ call' = [call EXCEPT ![c].at = "write"]
    <2>0. UNCHANGED <<disk, mem, phase>> /\ call[c].at = "lock" /\ Unlocked /\ phase = "up"
      BY DEF mutate
    <2>1. DiskOK'
      BY <2>0, <1>1, ZenonT(60) DEF FInv, DiskOK, disk, Unlocked
    <2>2. \A e \in Callers : CallOK(call'[e])
      BY <2>0, <1>1 DEF FInv, CallsOK, CallOK
    <2>3. \A e \in Callers : e # c => call'[e] = call[e] /\ call[e].at # "write"
      BY <2>0, <1>1, ZenonT(60) DEF FInv, CallsOK, Unlocked
    <2>4. CallsOK'
      BY <2>0, <2>2, <2>3, <1>1, ZenonT(60) DEF FInv, CallsOK, Start
    <2>5. call'[c].at = "write" /\ call'[c].op = call[c].op /\ ~call'[c].applied
      BY <2>0, <1>1 DEF FInv, CallsOK, CallOK
    <2>6. write' = [by |-> c, at |-> "temp", doc |-> r.doc, synced |-> FALSE]
      BY <1>1 DEF Start
    <2>7. c # Opener
      BY FileStoreConstants
    <2>8. file' = Holding(mem')
      BY <2>0 DEF FInv, WriteOK, disk, Unlocked, After
    <2>9. Outcome(mem', call'[c].op) = r /\ r.changed
      BY <2>0, <2>5, <1>1, ZenonT(60) DEF r
    <2>10. WriteOK'
      BY <2>0, <2>5, <2>6, <2>7, <2>8, <2>9, ZenonT(60) DEF WriteOK, Before, After
    <2> QED BY <2>1, <2>4, <2>10, ZenonT(60) DEF FInv
  <1>2. CASE Finish(c, r.err) /\ UNCHANGED write
    BY <1>2, FinishOnly, ZenonT(60) DEF mutate
  <1>3. CASE Finish(c, "unchanged") /\ UNCHANGED write
    BY <1>3, FinishOnly, ZenonT(60) DEF mutate
  <1> QED BY <1>1, <1>2, <1>3, ZenonT(60) DEF mutate, r

LEMMA CloseStep == ASSUME FInv, Close PROVE FInv'
  <1>1. DiskOK'
    BY DEF FInv, DiskOK, disk, Close
  <1>2. CallsOK'
    BY DEF FInv, CallsOK, Close
  <1>3. WriteOK'
    BY DEF FInv, WriteOK, Close, disk, Unlocked
  <1> QED BY <1>1, <1>2, <1>3 DEF FInv

-----------------------------------------------------------------------------
(* The system calls of a write. *)

LEMMA WriteFailsStep == ASSUME FInv, WriteFails PROVE FInv'
  <1> USE FileStoreConstants
  <1>1. DiskOK'
    BY DEF FInv, DiskOK, disk, WriteFails, NoWrite
  <1>2. CallsOK'
    <2>1. CASE write.by = Opener
      BY <2>1 DEF FInv, CallsOK, WriteOK, WriteFails, NoWrite, Before, After
    <2>2. CASE write.by # Opener
      <3> DEFINE c == write.by
      <3>1. c \in Callers /\ call[c].at = "write" /\ Finish(c, "unavailable")
        BY <2>2 DEF FInv, WriteOK, WriteFails, Before, After
      <3> DEFINE k == [call[c] EXCEPT !.at = "done", !.result = "unavailable"]
      <3>2. CallOK(k) /\ k.at = "done"
        BY <3>1, FinishOK DEF FInv, CallsOK, CallOK
      <3>3. call' = [call EXCEPT ![c] = k]
        BY <3>1, Zenon DEF Finish, FInv, CallsOK
      <3> HIDE DEF k
      <3>4. \A e \in Callers : e # c => call[e].at # "write"
        BY SMTT(60) DEF FInv, CallsOK
      <3> QED BY <3>1, <3>2, <3>3, <3>4, ZenonT(60) DEF FInv, CallsOK, WriteFails
    <2> QED BY <2>1, <2>2, ZenonT(60)
  <1>3. WriteOK'
    BY DEF FInv, WriteOK, WriteFails, disk, NoWrite, Before, After
  <1> QED BY <1>1, <1>2, <1>3, ZenonT(60) DEF FInv

LEMMA TempStep == ASSUME FInv, WriteTemp \/ SyncTemp PROVE FInv'
  <1> USE DEF WriteTemp, SyncTemp, Goto, disk
  <1>1. DiskOK'
    BY Zenon DEF FInv, DiskOK
  <1>2. write'.at # "none" /\ write'.by = write.by /\ UNCHANGED <<call, phase>>
    BY Zenon DEF FInv, WriteOK
  <1>3. CallsOK'
    BY <1>2 DEF FInv, CallsOK
  <1>4. WriteOK'
    BY ZenonT(60) DEF FInv, WriteOK, Before, After
  <1> QED BY <1>1, <1>3, <1>4 DEF FInv

(* The rename: what the call decided becomes the file. *)
LEMMA RenameStep == ASSUME FInv, Rename PROVE FInv'
  <1> USE FileStoreConstants
  <1>1. write.at = "rename" /\ write.synced = TRUE /\ file.kind # "corrupt"
    BY DEF Rename, FInv, WriteOK, DiskOK
  <1>2. write' = [write EXCEPT !.at = "syncdir"] /\ file' = Holding(write.doc) /\ flushed' = TRUE
        /\ UNCHANGED <<durable, unsynced, mem, phase>>
    BY <1>1 DEF Rename, Goto
  <1>3. DiskOK'
    BY <1>1, <1>2, SMTT(60) DEF FInv, DiskOK, FileOK, Holding, WriteOK
  <1>4. CASE write.by = Opener
    <2>1. UNCHANGED call
      BY <1>4 DEF Rename, Applied
    <2>2. CallsOK'
      BY <1>1, <1>2, <2>1, <1>4, ZenonT(180) DEF FInv, CallsOK, WriteOK
    <2>3. WriteOK'
      BY <1>1, <1>2, <2>1, <1>4, Zenon DEF FInv, WriteOK, Before, After
    <2> QED BY <1>3, <2>2, <2>3, Zenon DEF FInv
  <1>5. CASE write.by # Opener
    <2> DEFINE c == write.by
    <2>1. c \in Callers /\ call[c].at = "write" /\ phase = "up"
      BY <1>1, <1>5 DEF FInv, WriteOK
    <2>2. call' = [call EXCEPT ![c].applied = TRUE]
      BY <1>5 DEF Rename, Applied
    <2> DEFINE k == [call[c] EXCEPT !.applied = TRUE]
    <2>3. CallOK(k) /\ k.at = "write" /\ k.applied
      BY <2>1 DEF FInv, CallsOK, CallOK
    <2>7. call' = [call EXCEPT ![c] = k]
      BY <2>2 DEF FInv, CallsOK
    <2>8. write'.at # "none" /\ write'.by = c
      BY <1>1, <1>2 DEF FInv, WriteOK
    <2> HIDE DEF k
    <2>4. CallsOK'
      BY <1>2, <2>1, <2>3, <2>7, <2>8, SMTT(60) DEF FInv, CallsOK
    <2>5. call'[c].at = "write" /\ call'[c].applied
      BY <2>1, <2>3, <2>7 DEF FInv, CallsOK
    <2>6. WriteOK'
      BY <1>1, <1>2, <1>5, <2>1, <2>5, ZenonT(60) DEF FInv, WriteOK, Before, After
    <2> QED BY <1>3, <2>4, <2>6 DEF FInv
  <1> QED BY <1>4, <1>5

LEMMA SyncDirStep == ASSUME FInv, SyncDir PROVE FInv'
  <1>1. UNCHANGED <<file, flushed, mem, phase, call>> /\ durable' \in {durable, file}
    BY DEF SyncDir, FInv, DiskOK, OnDisk
  <1>2. write.at = "syncdir" /\ write' = [write EXCEPT !.at = "memory"]
    BY DEF SyncDir, Goto
  <1>3. DiskOK'
    BY <1>1, <1>2 DEF FInv, DiskOK, WriteOK
  <1>4. write'.at # "none" /\ write'.by = write.by
    BY <1>2 DEF FInv, WriteOK
  <1>5. CallsOK'
    BY <1>1, <1>4 DEF FInv, CallsOK
  <1>6. WriteOK'
    BY <1>1, <1>2, ZenonT(60) DEF FInv, WriteOK, Before, After
  <1> QED BY <1>3, <1>5, <1>6 DEF FInv

LEMMA ReturnStep == ASSUME FInv, Return PROVE FInv'
  <1> USE FileStoreConstants
  <1>1. UNCHANGED disk /\ write' = NoWrite /\ mem' = write.doc /\ file = Holding(write.doc)
        /\ write.at = "memory"
    BY SMTT(60) DEF Return, FInv, WriteOK, After
  <1>2. CASE write.by = Opener
    <2>1. phase' = "up" /\ UNCHANGED call /\ phase = "down"
      BY <1>1, <1>2 DEF Return, FInv, WriteOK
    <2>2. DiskOK'
      BY <1>1, <2>1 DEF FInv, DiskOK, disk, Holding, NoWrite
    <2>3. \A e \in Callers : call[e].at # "write"
      BY <1>2 DEF FInv, CallsOK
    <2>4. CallsOK'
      BY <2>1, <2>3 DEF FInv, CallsOK
    <2>5. WriteOK'
      BY <1>1, <2>1, ZenonT(60) DEF WriteOK, disk, NoWrite, Before, After
    <2> QED BY <2>2, <2>4, <2>5 DEF FInv
  <1>3. CASE write.by # Opener
    <2> DEFINE c == write.by
            k == [call[c] EXCEPT !.at = "done", !.result = "stored"]
    <2>1. c \in Callers /\ call[c].at = "write" /\ phase = "up" /\ UNCHANGED phase
      BY <1>1, <1>3 DEF Return, FInv, WriteOK
    <2>2. CallOK(k) /\ k.at = "done"
      BY <2>1, FinishOK DEF FInv, CallsOK, CallOK
    <2>3. call' = [call EXCEPT ![c] = k]
      BY <1>3, ZenonT(60) DEF Return, Finish, FInv, CallsOK
    <2> HIDE DEF k
    <2>4. DiskOK'
      BY <1>1, <2>1 DEF FInv, DiskOK, disk, NoWrite
    <2>5. \A e \in Callers : e # c => call[e].at # "write"
      BY DEF FInv, CallsOK
    <2>6. CallsOK'
      BY <2>1, <2>2, <2>3, <2>5, ZenonT(60) DEF FInv, CallsOK
    <2>7. WriteOK'
      BY <1>1, <2>1 DEF WriteOK, disk, NoWrite, Before, After
    <2> QED BY <2>4, <2>6, <2>7 DEF FInv
  <1> QED BY <1>2, <1>3

-----------------------------------------------------------------------------
(* The end of the process takes every running call with it. *)

LEMMA StoppedOK == ASSUME FInv, Stopped PROVE CallsOK' /\ (write' = NoWrite /\ phase' = "down")
  <1>1. \A c \in Callers : CallOK(call'[c]) /\ call'[c].at \notin {"lock", "write"}
    <2> TAKE c \in Callers
    <2>1. CASE call[c].at \in {"lock", "write"}
      <3>1. call'[c] = [call[c] EXCEPT !.at = "done", !.result = "unavailable"]
        BY <2>1, ZenonT(60) DEF Stopped, Lost
      <3> QED BY <2>1, <3>1, FinishOK DEF FInv, CallsOK, CallOK
    <2>2. CASE call[c].at \notin {"lock", "write"}
      BY <2>2, ZenonT(60) DEF Stopped, Lost, FInv, CallsOK
    <2> QED BY <2>1, <2>2
  <1>2. DOMAIN call' = Callers /\ call' = [c \in Callers |-> call'[c]]
    BY Zenon DEF Stopped, Lost
  <1> QED BY <1>1, <1>2 DEF CallsOK, Stopped

LEMMA DownOK == ASSUME write' = NoWrite, phase' = "down" PROVE WriteOK'
  BY DEF WriteOK, NoWrite, Before, After

LEMMA CrashStep == ASSUME FInv, Crash PROVE FInv'
  <1>1. Stopped /\ UNCHANGED disk
    BY DEF Crash
  <1>2. DiskOK'
    BY <1>1, StoppedOK DEF FInv, DiskOK, disk, NoWrite
  <1> QED BY <1>1, <1>2, StoppedOK, DownOK DEF FInv

LEMMA PowerLossStep == ASSUME FInv, PowerLoss PROVE FInv'
  <1>1. Stopped
    BY DEF PowerLoss
  <1>2. file' \in {file, durable} /\ durable' = file' /\ flushed' = TRUE
    BY DEF PowerLoss, FInv, DiskOK, OnDisk
  <1>3. DiskOK'
    BY <1>1, <1>2, StoppedOK DEF FInv, DiskOK, NoWrite
  <1> QED BY <1>1, <1>3, StoppedOK, DownOK DEF FInv

LEMMA NextStep == ASSUME FInv, [Next \/ PowerLoss]_vars PROVE FInv'
  <1>1. CASE Next
    BY <1>1, OpenStep, BeginStep, RefusedStep, MutateStep, CloseStep, WriteFailsStep, TempStep,
       RenameStep, SyncDirStep, ReturnStep, CrashStep, ZenonT(60) DEF Next, Writing
  <1>2. CASE UNCHANGED vars
    BY <1>2 DEF FInv, DiskOK, CallsOK, WriteOK, vars
  <1> QED BY <1>1, <1>2, PowerLossStep

(* The invariant holds through crashes, failed writes and power cuts. *)
THEOREM StaysTogether == PowerSpec => []FInv
  BY InitOK, NextStep, PTL DEF PowerSpec

(* Whenever no write is in progress the document every method decodes is    *)
(* the one in the file, whatever writes failed and wherever the process or  *)
(* the machine stopped.                                                     *)
THEOREM MemoryMatchesFile == PowerSpec => []MemoryIsFile
  <1>1. FInv => MemoryIsFile
    BY DEF FInv, WriteOK, MemoryIsFile, Unlocked, After
  <1> QED BY <1>1, StaysTogether, PTL

(* A power cut at any system call leaves a file Open accepts, a document    *)
(* that reached the disk is replaced only by another, and a file Open       *)
(* refuses is never written over.                                           *)
THEOREM NothingReinitialised == PowerSpec => NeverReinitialised
  <1> DEFINE A == /\ file.kind # "corrupt" => file'.kind # "corrupt"
                  /\ durable.kind = "document" => file'.kind = "document"
                  /\ file.kind = "corrupt" => file' = file
  <1>1. FInv /\ [Next \/ PowerLoss]_vars => [A]_vars
    <2> SUFFICES ASSUME FInv, Next \/ PowerLoss PROVE A
      OBVIOUS
    <2>1. FileOK(file) /\ FileOK(durable)
      BY DEF FInv, DiskOK
    <2>2. CASE UNCHANGED file
      BY <2>1, <2>2 DEF FInv, DiskOK, FileOK
    <2>3. CASE Rename
      <3>1. file.kind # "corrupt"
        BY <2>3 DEF Rename, FInv, DiskOK
      <3> QED BY <2>3, <3>1 DEF Rename, Holding
    <2>4. CASE PowerLoss
      <3>1. file' \in {file, durable}
        BY <2>4 DEF PowerLoss, FInv, DiskOK, OnDisk
      <3>2. file.kind = "corrupt" => file = durable
        BY <2>1 DEF FInv, DiskOK, FileOK
      <3> QED BY <2>1, <3>1, <3>2 DEF FInv, DiskOK, FileOK
    <2> QED BY <2>2, <2>3, <2>4, ZenonT(60) DEF Next, Writing, Open, WriteFails, WriteTemp, SyncTemp, SyncDir,
              Return, Close, Crash, Begin, Refused, mutate, disk
  <1> QED BY <1>1, StaysTogether, PTL DEF PowerSpec, NeverReinitialised

-----------------------------------------------------------------------------
(* No mutation reports one of the words a call is reported done with. *)
LEMMA Errors ==
  ASSUME NEW d, NEW o, o.op \in Mutations \cup {"Read"}
  PROVE  Outcome(d, o).err \notin {"stored", "unchanged"}
  <1> USE DEF Refuse, NoChange, Accept
  <1>1. CASE o.op = "Read"
    BY <1>1 DEF Outcome
  <1>2. ASSUME o.op \in Mutations PROVE Mutate(d, o, Now).err \notin {"stored", "unchanged"}
    <2>1. CASE o.op = "PutKey"
      BY <2>1 DEF Mutate, PutKey
    <2>2. CASE o.op = "PutKeyIfNoUsable"
      BY <2>2 DEF Mutate, PutKeyIfNoUsable
    <2>3. CASE o.op = "RevokeKey"
      BY <2>3 DEF Mutate, RevokeKey
    <2>4. CASE o.op = "ReplaceKey"
      BY <2>4 DEF Mutate, ReplaceKey
    <2>5. CASE o.op = "DeleteKey"
      BY <2>5 DEF Mutate, DeleteKey
    <2>6. CASE o.op = "TouchKey"
      BY <2>6 DEF Mutate, TouchKey
    <2>7. CASE o.op = "BurnEnrollment"
      BY <2>7 DEF Mutate, BurnEnrollment
    <2>8. CASE o.op = "RevokeCert"
      BY <2>8 DEF Mutate, RevokeCert
    <2>9. CASE o.op = "Prune"
      BY <2>9 DEF Mutate, Prune
    <2> QED BY <1>2, <2>1, <2>2, <2>3, <2>4, <2>5, <2>6, <2>7, <2>8, <2>9, ZenonT(60) DEF Mutations
  <1>3. CASE o.op \in Mutations
    BY <1>2, <1>3 DEF Outcome, Apply, Mutations
  <1> QED BY <1>1, <1>3

-----------------------------------------------------------------------------
(* The refinement.  What Store sees of one call. *)

St(k) == CASE k.at \in {"idle", "done"} -> k.at
           [] OTHER -> IF k.applied THEN "committed" ELSE "pending"
Oc(k) == CASE k.result \in {"none", "stored", "unchanged"} -> k.result
           [] OTHER -> "failed"

(* A step of one call changes what Store sees of that call only. *)
LEMMA MapOne ==
  ASSUME FInv, NEW c \in Callers, NEW k, call' = [call EXCEPT ![c] = k]
  PROVE  /\ status' = [status EXCEPT ![c] = St(k)]
         /\ outcome' = [outcome EXCEPT ![c] = Oc(k)]
         /\ op' = [op EXCEPT ![c] = k.op]
         /\ status[c] = St(call[c]) /\ outcome[c] = Oc(call[c]) /\ op[c] = call[c].op
         /\ Oc(k) = Oc(call[c]) => outcome' = outcome
         /\ St(k) = St(call[c]) => status' = status
         /\ k.op = call[c].op => op' = op
  <1>1. /\ status = [e \in Callers |-> St(call[e])] /\ status' = [e \in Callers |-> St(call'[e])]
        /\ outcome = [e \in Callers |-> Oc(call[e])] /\ outcome' = [e \in Callers |-> Oc(call'[e])]
        /\ op = [e \in Callers |-> call[e].op] /\ op' = [e \in Callers |-> call'[e].op]
    BY DEF status, outcome, op, St, Oc
  <1>2. \A e \in Callers : call'[e] = IF e = c THEN k ELSE call[e]
    BY DEF FInv, CallsOK
  <1>3. \A e \in Callers : /\ St(call'[e]) = IF e = c THEN St(k) ELSE St(call[e])
                           /\ Oc(call'[e]) = IF e = c THEN Oc(k) ELSE Oc(call[e])
    BY <1>2
  <1>4. status' = [status EXCEPT ![c] = St(k)] /\ (St(k) = St(call[c]) => status' = status)
    BY <1>1, <1>3
  <1>5. outcome' = [outcome EXCEPT ![c] = Oc(k)] /\ (Oc(k) = Oc(call[c]) => outcome' = outcome)
    BY <1>1, <1>3
  <1>6. op' = [op EXCEPT ![c] = k.op] /\ (k.op = call[c].op => op' = op)
    BY <1>1, <1>2
  <1> QED BY <1>1, <1>4, <1>5, <1>6, Zenon

(* Store's Return, from the call's last step. *)
LEMMA MapReturn ==
  ASSUME FInv, NEW c \in Callers, NEW r, Finish(c, r), file' = file,
         call[c].at \in {"lock", "write"}, r # "none",
         r = "stored" => call[c].applied,
         r = "unchanged" => ~call[c].applied
  PROVE  Abstract!Return(c)
  <1> DEFINE k == [call[c] EXCEPT !.at = "done", !.result = r]
  <1>1. call' = [call EXCEPT ![c] = k] /\ CallOK(call[c])
    BY ZenonT(60) DEF Finish, FInv, CallsOK
  <1>2. St(k) = "done" /\ k.op = call[c].op /\ k.result = r
    BY <1>1 DEF CallOK, St
  <1>3. St(call[c]) = IF call[c].applied THEN "committed" ELSE "pending"
    BY <1>1 DEF CallOK, St
  <1>4. Oc(k) = IF r \in {"stored", "unchanged"} THEN r ELSE "failed"
    BY <1>2 DEF Oc
  <1> HIDE DEF k
  <1>5. op' = op
    BY <1>1, <1>2, MapOne, Zenon
  <1>6. /\ status' = [status EXCEPT ![c] = St(k)]
        /\ outcome' = [outcome EXCEPT ![c] = Oc(k)] /\ status[c] = St(call[c])
    BY <1>1, MapOne, Zenon
  <1> QED BY <1>2, <1>3, <1>4, <1>5, <1>6, Zenon DEF Abstract!Return

(* Begin is Store's Invoke. *)
LEMMA MapBegin == ASSUME FInv, NEW c \in Callers, Begin(c) PROVE Abstract!Invoke(c)
  <1>1. PICK o \in OpsOf[c] : call' = [call EXCEPT ![c].at = "lock", ![c].op = o]
    BY Zenon DEF Begin
  <1>2. /\ file' = file /\ St(call[c]) = "idle" /\ CallOK(call[c]) /\ call[c].at = "idle"
    BY DEF Begin, FInv, CallsOK, CallOK, St, disk
  <1> DEFINE k == [call[c] EXCEPT !.at = "lock", !.op = o]
  <1>3. call' = [call EXCEPT ![c] = k]
    BY <1>1, Zenon DEF FInv, CallsOK
  <1>4. St(k) = "pending" /\ Oc(k) = Oc(call[c]) /\ k.op = o
    BY <1>2 DEF St, Oc, CallOK
  <1> HIDE DEF k
  <1>5. /\ status' = [status EXCEPT ![c] = St(k)] /\ op' = [op EXCEPT ![c] = k.op]
        /\ Oc(k) = Oc(call[c]) => outcome' = outcome
        /\ status[c] = St(call[c])
    BY <1>3, MapOne, ZenonT(60)
  <1> QED BY <1>2, <1>4, <1>5, Zenon DEF Abstract!Invoke

(* A decision is Store's Return, or no step of Store when it starts a       *)
(* write.                                                                   *)
LEMMA MapMutate ==
  ASSUME FInv, NEW c \in Callers, mutate(c) \/ Refused(c)
  PROVE  Abstract!Return(c) \/ UNCHANGED Abstract!storeVars
  <1>0. CallOK(call[c]) /\ file' = file /\ call[c].at = "lock" /\ ~call[c].applied
    BY DEF mutate, Refused, FInv, CallsOK, CallOK, disk
  <1>1. CASE Refused(c)
    BY <1>0, <1>1, MapReturn, ZenonT(60) DEF Refused
  <1>2. CASE mutate(c)
    <2> DEFINE r == Outcome(mem, call[c].op)
    <2>1. r.err \notin {"stored", "unchanged"}
      BY <1>0, Errors, FileStoreConstants, Zenon DEF CallOK, IsOp
    <2> HIDE DEF r
    <2>2. CASE call' = [call EXCEPT ![c].at = "write"]
      <3> DEFINE k == [call[c] EXCEPT !.at = "write"]
      <3>1. call' = [call EXCEPT ![c] = k]
        BY <2>2
      <3>2. St(k) = St(call[c]) /\ Oc(k) = Oc(call[c]) /\ k.op = call[c].op
        BY <1>0 DEF CallOK, St, Oc
      <3> HIDE DEF k
      <3>3. status' = status /\ outcome' = outcome /\ op' = op
        BY <3>1, <3>2, MapOne, ZenonT(60)
      <3> QED BY <1>0, <3>3 DEF Abstract!storeVars
    <2>3. CASE r.err # "none" /\ Finish(c, r.err)
      BY <1>0, <2>1, <2>3, MapReturn, ZenonT(60)
    <2>4. CASE Finish(c, "unchanged")
      BY <1>0, <2>4, MapReturn
    <2> QED BY <1>2, <2>2, <2>3, <2>4, ZenonT(60) DEF mutate, r
  <1> QED BY <1>1, <1>2

(* The rename of a call's write is Store's Commit: the file still was the   *)
(* document the call decided on.  Open's is no step of Store.               *)
LEMMA MapRename ==
  ASSUME FInv, Rename
  PROVE  Abstract!StoreNext \/ UNCHANGED Abstract!storeVars
  <1>1. write.at = "rename" /\ file' = Holding(write.doc)
    BY DEF Rename
  <1>2. CASE write.by = Opener
    <2>1. UNCHANGED call /\ file.kind = "absent" /\ write.doc = NewState
      BY <1>1, <1>2 DEF Rename, Applied, FInv, WriteOK, Before
    <2>2. file'.doc = file.doc
      BY <1>1, <2>1 DEF FInv, DiskOK, FileOK, Holding
    <2> QED BY <2>1, <2>2 DEF Abstract!storeVars, status, outcome, op
  <1>3. CASE write.by # Opener
    <2> DEFINE c == write.by
               k == [call[c] EXCEPT !.applied = TRUE]
               d == Outcome(mem, call[c].op)
    <2>1. c \in Callers /\ call[c].at = "write" /\ ~call[c].applied /\ CallOK(call[c])
      BY <1>1, <1>3, ZenonT(60) DEF FInv, WriteOK, CallsOK, After
    <2>2. d.changed /\ d.doc = write.doc
      BY <1>1, <1>3, ZenonT(60) DEF FInv, WriteOK, Before
    <2>3. file.doc = mem
      BY <1>1, <1>3 DEF FInv, WriteOK, Before, After, Holding
    <2>4. call' = [call EXCEPT ![c] = k]
      BY <1>3 DEF Rename, Applied, FInv, CallsOK
    <2>5. St(call[c]) = "pending" /\ St(k) = "committed" /\ Oc(k) = Oc(call[c]) /\ k.op = call[c].op
      BY <2>1 DEF CallOK, St, Oc
    <2> HIDE DEF k, d
    <2>6. /\ status' = [status EXCEPT ![c] = St(k)] /\ status[c] = St(call[c])
          /\ op[c] = call[c].op
          /\ Oc(k) = Oc(call[c]) => outcome' = outcome
          /\ k.op = call[c].op => op' = op
      BY <2>1, <2>4, MapOne, ZenonT(60)
    <2>7. d = Outcome(file.doc, op[c]) /\ file'.doc = d.doc
      BY <1>1, <2>2, <2>3, <2>6, ZenonT(60) DEF d, Holding
    <2>8. Abstract!Commit(c)
      BY <2>2, <2>5, <2>6, <2>7 DEF Abstract!Commit
    <2> QED BY <2>1, <2>8, ZenonT(60) DEF Abstract!StoreNext
  <1> QED BY <1>2, <1>3

(* A write that fails, and one that is done, is Store's Return. *)
LEMMA MapWriteEnd ==
  ASSUME FInv, WriteFails \/ Return
  PROVE  Abstract!StoreNext \/ UNCHANGED Abstract!storeVars
  <1>1. file' = file
    BY DEF WriteFails, Return, disk
  <1>2. CASE write.by = Opener
    BY <1>1, <1>2 DEF WriteFails, Return, Abstract!storeVars, status, outcome, op
  <1>3. CASE write.by # Opener
    <2> DEFINE c == write.by
    <2>1. /\ write.at # "none" /\ c \in Callers /\ call[c].at = "write"
          /\ call[c].applied <=> write.at \in After
      BY <1>3 DEF WriteFails, Return, FInv, WriteOK
    <2>2. CASE WriteFails
      BY <1>1, <1>3, <2>1, <2>2, MapReturn, ZenonT(60) DEF WriteFails, Abstract!StoreNext
    <2>3. CASE Return
      BY <1>1, <1>3, <2>1, <2>3, MapReturn, ZenonT(60) DEF Return, After, Abstract!StoreNext
    <2> QED BY <2>2, <2>3, ZenonT(60)
  <1> QED BY <1>2, <1>3

(* The end of the process is Store's Lose. *)
LEMMA MapCrash == ASSUME FInv, Crash PROVE Abstract!StoreNext
  <1> DEFINE C == {c \in Callers : call[c].at \in {"lock", "write"}}
  <1>1. /\ file' = file
        /\ call' = [c \in Callers |-> IF c \in C
                      THEN [call[c] EXCEPT !.at = "done", !.result = "unavailable"]
                      ELSE call[c]]
    BY Zenon DEF Crash, Stopped, Lost, disk
  <1>2. C \in SUBSET Callers /\ \A c \in C : call[c].at \in {"lock", "write"}
    OBVIOUS
  <1> HIDE DEF C
  <1>3. \A c \in Callers :
          /\ status'[c] = IF c \in C THEN "done" ELSE status[c]
          /\ outcome'[c] = IF c \in C THEN "failed" ELSE outcome[c]
          /\ op'[c] = op[c]
          /\ c \in C => status[c] \in {"pending", "committed"}
    <2> TAKE c \in Callers
    <2>1. CallOK(call[c])
      BY DEF FInv, CallsOK
    <2>2. CASE c \in C
      <3>1. call'[c] = [call[c] EXCEPT !.at = "done", !.result = "unavailable"]
        BY <1>1, <2>2, Zenon
      <3>2. call'[c].at = "done" /\ call'[c].result = "unavailable" /\ call'[c].op = call[c].op
        BY <2>1, <3>1 DEF CallOK
      <3> QED BY <1>2, <2>2, <3>2 DEF status, outcome, op
    <2>3. CASE c \notin C
      <3>1. call'[c] = call[c]
        BY <1>1, <2>3, Zenon
      <3> QED BY <2>3, <3>1 DEF status, outcome, op
    <2> QED BY <2>2, <2>3
  <1>4. /\ status' = [c \in Callers |-> status'[c]] /\ outcome' = [c \in Callers |-> outcome'[c]]
        /\ op = [c \in Callers |-> op[c]] /\ op' = [c \in Callers |-> op'[c]]
    BY DEF status, outcome, op
  <1>5. /\ status' = [c \in Callers |-> IF c \in C THEN "done" ELSE status[c]]
        /\ outcome' = [c \in Callers |-> IF c \in C THEN "failed" ELSE outcome[c]]
        /\ op' = op
    BY <1>3, <1>4
  <1>6. Abstract!Lose(C)
    BY <1>1, <1>2, <1>3, <1>5, Zenon DEF Abstract!Lose
  <1> QED BY <1>2, <1>6 DEF Abstract!StoreNext

(* The file-backed store implements the store.Store contract for every set  *)
(* of calls: the mutex and the rename make each mutation one atomic change  *)
(* of the current document, and a call reports success only for a change    *)
(* that was made, whatever writes fail and wherever the process dies.       *)
THEOREM FileStoreImplementsStore == Spec => ImplementsStore
  <1>1. Init => Abstract!StoreInit
    BY DEF Init, Abstract!StoreInit, status, outcome, op, Idle
  <1>2. FInv /\ [Next]_vars => [Abstract!StoreNext]_(Abstract!storeVars)
    <2> SUFFICES ASSUME FInv, [Next]_vars
                 PROVE  Abstract!StoreNext \/ UNCHANGED Abstract!storeVars
      OBVIOUS
    <2>1. CASE UNCHANGED <<file, call>>
      BY <2>1 DEF Abstract!storeVars, status, outcome, op
    <2>2. CASE UNCHANGED vars \/ Open \/ Close \/ WriteTemp \/ SyncTemp \/ SyncDir
      BY <2>1, <2>2 DEF vars, Open, Close, WriteTemp, SyncTemp, SyncDir, disk
    <2>3. ASSUME NEW c \in Callers, Begin(c) \/ Refused(c) \/ mutate(c)
          PROVE  Abstract!StoreNext \/ UNCHANGED Abstract!storeVars
      BY <2>3, MapBegin, MapMutate DEF Abstract!StoreNext
    <2> QED BY <2>2, <2>3, MapRename, MapWriteEnd, MapCrash DEF Next, Writing
  <1>3. FInv /\ [Next]_vars => FInv'
    BY NextStep
  <1> QED BY <1>1, <1>2, <1>3, InitOK, PTL DEF Spec, ImplementsStore, Abstract!StoreSpec


-----------------------------------------------------------------------------
(* What a caller was told survives.  Both documents a power cut may leave   *)
(* keep what was promised; the file keeps, besides, what the write past its *)
(* rename is about to promise.                                              *)

Told == {c \in Callers : call[c].at = "done" /\ call[c].result = "stored"}
Due  == Told \cup {c \in Callers : write.at \in After /\ write.by = c}

Revokes(o, kid) == o.op = "RevokeKey" /\ o.kid = kid

(* Document d keeps what the calls of C, with operations p, were promised. *)
Keeps(d, C, p) ==
  \A kid \in DOMAIN d.keys : \A c \in C :
    /\ Revokes(p[c], kid) /\ ~Minted(kid) => d.keys[kid].revoked
    /\ Burns(p[c], kid) /\ IsGrant(d.keys[kid]) /\ ~d.keys[kid].reusable =>
         /\ d.keys[kid].used /\ d.keys[kid].serial = p[c].serial
         /\ \A e \in C : Burns(p[e], kid) => e = c

(* The key id was in use: from the start, by the bootstrap key, or by a     *)
(* call whose rename took place.                                            *)
Seen(kid) ==
  \/ \E f \in InitFiles : kid \in DOMAIN f.doc.keys
  \/ Minted(kid)
  \/ \E e \in Callers : call[e].applied /\ Issues(call[e].op, kid)

DInv ==
  /\ IsDocument(file.doc) /\ IsDocument(durable.doc)
  /\ write.at # "none" => IsDocument(write.doc)
  /\ \A c \in Callers : call[c].op \in OpsOf[c] \cup {NoOp} /\ (c \in Told => call[c].applied)
  /\ \A kid \in DOMAIN file.doc.keys \cup DOMAIN durable.doc.keys : Seen(kid)
  /\ \A c \in Callers : call[c].applied =>
       \A kid \in KIDs : Burns(call[c].op, kid) \/ Revokes(call[c].op, kid) => Seen(kid)
  /\ ~unsynced => /\ Keeps(file.doc, Due, op) /\ Keeps(durable.doc, Told, op)
                  /\ write.at = "memory" => durable = file

(* Fewer promises are kept too. *)
LEMMA KeepsFewer ==
  ASSUME NEW d, NEW C, NEW D, NEW p, NEW q, Keeps(d, C, p), D \subseteq C, \A c \in D : q[c] = p[c]
  PROVE  Keeps(d, D, q)
  BY ZenonT(180) DEF Keeps

(* Nothing is promised at the start. *)
LEMMA DurableInit == Init => DInv
  <1> SUFFICES ASSUME Init PROVE DInv
    OBVIOUS
  <1>1. IsDocument(file.doc) /\ durable = file /\ file \in InitFiles
    BY FileStoreConstants DEF Init, IsFile
  <1>2. \A c \in Callers : call[c].op = NoOp /\ ~call[c].applied /\ call[c].at = "idle"
    BY DEF Init, Idle
  <1>3. Told = {} /\ Due = {} /\ write.at = "none"
    BY <1>2 DEF Told, Due, Init, NoWrite, After
  <1>4. \A kid \in DOMAIN file.doc.keys : Seen(kid)
    BY <1>1, Zenon DEF Seen
  <1> QED BY <1>1, <1>2, <1>3, <1>4, SMTT(60) DEF DInv, Keeps

(* A step that renames nothing: the two documents change places at most,    *)
(* and nothing is promised that the document concerned does not keep.       *)
LEMMA Quietly ==
  ASSUME FInv, DInv, file' \in {file, durable}, durable' \in {file, durable},
         write'.at # "none" => IsDocument(write'.doc),
         \A c \in Callers : /\ call'[c].applied = call[c].applied
                            /\ call'[c].op \in OpsOf[c] \cup {NoOp}
                            /\ call[c].applied => call'[c].op = call[c].op,
         Told' \subseteq Due, \A c \in Due : call[c].applied,
         ~unsynced' => /\ ~unsynced
                       /\ (file' = file /\ Due' \subseteq Due) \/ Due' \subseteq Told
                       /\ Told' \subseteq Told \/ durable' = file
                       /\ write'.at = "memory" => durable' = file'
  PROVE  DInv'
  <1>1. \A kid \in KIDs : Seen(kid) => Seen(kid)'
    BY SMTT(60) DEF Seen
  <1>2. \A kid \in DOMAIN file'.doc.keys \cup DOMAIN durable'.doc.keys : kid \in KIDs /\ Seen(kid)'
    <2>1. \A kid \in DOMAIN file.doc.keys \cup DOMAIN durable.doc.keys : kid \in KIDs /\ Seen(kid)
      BY ZenonT(60) DEF DInv, IsDocument
    <2>2. /\ file' = file \/ file' = durable
          /\ durable' = file \/ durable' = durable
      BY Zenon
    <2> QED BY <1>1, <2>1, <2>2, ZenonT(60)
  <1>3. \A c \in Callers : call'[c].applied =>
          \A kid \in KIDs : Burns(call'[c].op, kid) \/ Revokes(call'[c].op, kid) => Seen(kid)'
    BY <1>1, ZenonT(60) DEF DInv
  <1>4. \A c \in Due : op'[c] = op[c]
    BY DEF op, Due, Told
  <1>5. ASSUME ~unsynced' PROVE Keeps(file'.doc, Due', op') /\ Keeps(durable'.doc, Told', op')
    <2>1. Keeps(file.doc, Due, op) /\ Keeps(durable.doc, Told, op) /\ Told \subseteq Due
      BY <1>5 DEF DInv, Due
    <2>2. Keeps(file.doc, Told, op)
      BY <2>1, KeepsFewer, Zenon
    <2>3. Keeps(file'.doc, Due', op')
      <3>1. CASE file' = file /\ Due' \subseteq Due
        BY <1>4, <2>1, <3>1, KeepsFewer, Zenon
      <3>2. CASE Due' \subseteq Told
        BY <1>4, <2>1, <2>2, <3>2, KeepsFewer, ZenonT(60)
      <3> QED BY <1>5, <3>1, <3>2, Zenon
    <2>4. Keeps(durable'.doc, Told', op')
      <3>1. CASE Told' \subseteq Told
        BY <1>4, <2>1, <2>2, <3>1, KeepsFewer, ZenonT(60)
      <3>2. CASE durable' = file
        BY <1>4, <2>1, <3>2, KeepsFewer, Zenon
      <3> QED BY <1>5, <3>1, <3>2, Zenon
    <2> QED BY <2>3, <2>4, ZenonT(60)
  <1>6. \A c \in Callers : c \in Told' => call'[c].applied
    BY Zenon
  <1>7. IsDocument(file'.doc) /\ IsDocument(durable'.doc)
    BY Zenon DEF DInv
  <1> QED BY <1>2, <1>3, <1>5, <1>6, <1>7, Zenon DEF DInv

(* Whoever is promised something has had its rename. *)
LEMMA DueApplied == ASSUME FInv, DInv PROVE \A c \in Due : c \in Callers /\ call[c].applied
  BY FileStoreConstants, Zenon DEF FInv, WriteOK, DInv, Due, Told, After

(* One call moves on, with nothing renamed and nothing promised. *)
LEMMA DurableCall ==
  ASSUME FInv, DInv, NEW c \in Callers, NEW k, call' = [call EXCEPT ![c] = k],
         ~call[c].applied, k.applied = call[c].applied, k.op \in OpsOf[c] \cup {NoOp},
         k.result # "stored", UNCHANGED disk,
         write' = write \/ write'.at = "none" \/ (write'.at \in Before /\ IsDocument(write'.doc))
  PROVE  DInv'
  <1>1. \A e \in Callers : call'[e] = IF e = c THEN k ELSE call[e]
    BY DEF FInv, CallsOK
  <1>2. Told' \subseteq Told
    BY <1>1 DEF Told
  <1>3. Due' \subseteq Due
    BY <1>2, Zenon DEF Due, Before, After
  <1>4. \A e \in Callers : /\ call'[e].applied = call[e].applied
                           /\ call'[e].op \in OpsOf[e] \cup {NoOp}
                           /\ call[e].applied => call'[e].op = call[e].op
    BY <1>1, ZenonT(60) DEF DInv
  <1>5. write'.at # "none" => IsDocument(write'.doc)
    BY DEF DInv
  <1>6. write'.at = "memory" => write' = write
    BY DEF Before
  <1>7. Told \subseteq Due
    BY DEF Due
  <1> QED BY <1>2, <1>3, <1>4, <1>5, <1>6, <1>7, DueApplied, Quietly, ZenonT(60) DEF disk, DInv

(* No call moves. *)
LEMMA DurableRest ==
  ASSUME FInv, DInv, UNCHANGED <<disk, call>>,
         write' = write \/ write'.at = "none" \/ (write'.at \in Before /\ IsDocument(write'.doc))
  PROVE  DInv'
  <1>1. Told' = Told
    BY DEF Told
  <1>2. Due' \subseteq Due
    BY <1>1, Zenon DEF Due, Before, After
  <1>3. \A e \in Callers : /\ call'[e].applied = call[e].applied
                           /\ call'[e].op \in OpsOf[e] \cup {NoOp}
                           /\ call[e].applied => call'[e].op = call[e].op
    BY Zenon DEF DInv
  <1>4. write'.at # "none" => IsDocument(write'.doc)
    BY DEF DInv
  <1>5. write'.at = "memory" => write' = write
    BY DEF Before
  <1>6. Told \subseteq Due
    BY DEF Due
  <1> QED BY <1>1, <1>2, <1>3, <1>4, <1>5, <1>6, DueApplied, Quietly, ZenonT(60) DEF disk, DInv

(* Calls are made, refused and decided, up to the start of a write. *)
LEMMA DurableBegin ==
  ASSUME FInv, DInv, NEW c \in Callers, Begin(c) \/ Refused(c) PROVE DInv'
  <1>0. CallOK(call[c]) /\ ~call[c].applied /\ call[c].op \in OpsOf[c] \cup {NoOp}
    BY Zenon DEF FInv, CallsOK, CallOK, DInv, Begin, Refused
  <1>1. CASE Begin(c)
    <2>1. PICK o \in OpsOf[c] : call' = [call EXCEPT ![c].at = "lock", ![c].op = o]
      BY <1>1, Zenon DEF Begin
    <2> DEFINE k == [call[c] EXCEPT !.at = "lock", !.op = o]
    <2>2. call' = [call EXCEPT ![c] = k]
      BY <2>1, Zenon DEF FInv, CallsOK
    <2>3. k.applied = call[c].applied /\ k.op = o /\ k.result = "none"
      BY <1>0, <1>1 DEF CallOK, Begin
    <2> HIDE DEF k
    <2> QED BY <1>0, <1>1, <2>2, <2>3, DurableCall, ZenonT(60) DEF Begin
  <1>2. ASSUME NEW r, r # "stored", Finish(c, r), UNCHANGED <<disk, write>> PROVE DInv'
    <2> DEFINE k == [call[c] EXCEPT !.at = "done", !.result = r]
    <2>2. call' = [call EXCEPT ![c] = k]
      BY <1>2, Zenon DEF Finish, FInv, CallsOK
    <2>3. k.applied = call[c].applied /\ k.op = call[c].op /\ k.result = r
      BY <1>0 DEF CallOK
    <2> HIDE DEF k
    <2> QED BY <1>0, <1>2, <2>2, <2>3, DurableCall, Zenon
  <1> QED BY <1>1, <1>2 DEF Refused

(* The outcome of an operation the callers may ask for. *)
LEMMA OutcomeSound ==
  ASSUME NEW d, IsDocument(d), NEW o \in Ops
  PROVE  Sound(Outcome(d, o), d, o, Now)
  <1>1. CASE o.op = "Read"
    BY <1>1, Quiet DEF Outcome, Errs, NoChange
  <1>2. CASE o.op # "Read"
    BY <1>2, ApplySound, FileStoreConstants, Zenon DEF Outcome
  <1> QED BY <1>1, <1>2

LEMMA DurableMutate == ASSUME FInv, DInv, NEW c \in Callers, mutate(c) PROVE DInv'
  <1> DEFINE r == Outcome(mem, call[c].op)
  <1>0. /\ CallOK(call[c]) /\ ~call[c].applied /\ call[c].op \in Ops
        /\ call[c].op \in OpsOf[c] \cup {NoOp} /\ UNCHANGED disk
    BY DEF FInv, CallsOK, CallOK, DInv, mutate
  <1>1. mem = file.doc /\ IsDocument(mem)
    BY DEF FInv, WriteOK, DInv, mutate, Unlocked, After, Holding
  <1>2. Sound(r, mem, call[c].op, Now)
    BY <1>0, <1>1, OutcomeSound, ZenonT(60)
  <1>3. r.err # "stored" /\ (r.changed => IsDocument(r.doc))
    BY <1>2 DEF Sound, Errs
  <1> HIDE DEF r
  <1>4. CASE r.changed /\ Start(c, r.doc) /\ call' = [call EXCEPT ![c].at = "write"]
    <2> DEFINE k == [call[c] EXCEPT !.at = "write"]
    <2>1. call' = [call EXCEPT ![c] = k]
      BY <1>4 DEF FInv, CallsOK
    <2>2. k.applied = call[c].applied /\ k.op = call[c].op /\ k.result = "none"
      BY <1>0 DEF CallOK, mutate
    <2>3. write'.at \in Before /\ IsDocument(write'.doc)
      BY <1>3, <1>4 DEF Start, Before
    <2> HIDE DEF k
    <2> QED BY <1>0, <2>1, <2>2, <2>3, DurableCall, Zenon
  <1>5. ASSUME NEW w, w # "stored", Finish(c, w), UNCHANGED write PROVE DInv'
    <2> DEFINE k == [call[c] EXCEPT !.at = "done", !.result = w]
    <2>1. call' = [call EXCEPT ![c] = k]
      BY <1>5, Zenon DEF Finish, FInv, CallsOK
    <2>2. k.applied = call[c].applied /\ k.op = call[c].op /\ k.result = w
      BY <1>0 DEF CallOK
    <2> HIDE DEF k
    <2> QED BY <1>0, <1>5, <2>1, <2>2, DurableCall, Zenon
  <1> QED BY <1>3, <1>4, <1>5, ZenonT(60) DEF mutate, r

(* A write up to its rename, and one that fails there. *)
LEMMA DurableBefore ==
  ASSUME FInv, DInv, WriteFails \/ WriteTemp \/ SyncTemp PROVE DInv'
  <1>1. CASE WriteTemp \/ SyncTemp
    <2>1. write'.at \in Before /\ write'.doc = write.doc /\ IsDocument(write.doc)
      BY <1>1, Zenon DEF FInv, WriteOK, DInv, WriteTemp, SyncTemp, Goto, Before
    <2> QED BY <1>1, <2>1, DurableRest DEF WriteTemp, SyncTemp
  <1>2. CASE WriteFails /\ write.by = Opener
    BY <1>2, DurableRest DEF WriteFails, NoWrite
  <1>3. CASE WriteFails /\ write.by # Opener
    <2> DEFINE c == write.by
               k == [call[c] EXCEPT !.at = "done", !.result = "unavailable"]
    <2>1. c \in Callers /\ ~call[c].applied /\ Finish(c, "unavailable")
      BY <1>3 DEF FInv, WriteOK, WriteFails, Before, After
    <2>2. call' = [call EXCEPT ![c] = k]
      BY <2>1, ZenonT(60) DEF Finish, FInv, CallsOK
    <2>3. k.applied = call[c].applied /\ k.op = call[c].op /\ k.result = "unavailable"
      BY <2>1, ZenonT(180) DEF FInv, CallsOK, CallOK
    <2>4. call[c].op \in OpsOf[c] \cup {NoOp} /\ write'.at = "none" /\ UNCHANGED disk
      BY <1>3, <2>1, SMTT(60) DEF DInv, WriteFails, NoWrite
    <2> HIDE DEF c, k
    <2> QED BY <2>1, <2>2, <2>3, <2>4, DurableCall, ZenonT(60)
  <1> QED BY <1>1, <1>2, <1>3

(* A directory sync that worked makes the two documents one. *)
LEMMA DurableSyncDir == ASSUME FInv, DInv, SyncDir PROVE DInv'
  <1>1. /\ UNCHANGED <<file, call>>
        /\ \/ durable' = file /\ unsynced' = unsynced
           \/ durable' = durable /\ unsynced' = TRUE
    <2>1. OnDisk = file
      BY DEF FInv, DiskOK, OnDisk
    <2> QED BY <2>1 DEF SyncDir
  <1>2. /\ write'.at = "memory" /\ write'.by = write.by /\ write'.doc = write.doc
        /\ write.at = "syncdir"
    BY DEF SyncDir, Goto, FInv, WriteOK
  <1>3. Told' = Told /\ Due' = Due
    BY <1>1, <1>2, SMTT(60) DEF Told, Due, After
  <1>4. IsDocument(write'.doc)
    BY <1>2, ZenonT(60) DEF DInv
  <1>5. \A e \in Callers : /\ call'[e].applied = call[e].applied
                           /\ call'[e].op \in OpsOf[e] \cup {NoOp}
                           /\ call[e].applied => call'[e].op = call[e].op
    BY <1>1 DEF DInv
  <1>6. Told \subseteq Due
    BY DEF Due
  <1> QED BY <1>1, <1>3, <1>4, <1>5, <1>6, DueApplied, Quietly, SMTT(60)

(* The promise is made once both documents keep it. *)
LEMMA DurableReturn == ASSUME FInv, DInv, Return PROVE DInv'
  <1>1. UNCHANGED disk /\ write' = NoWrite /\ write.at = "memory"
    BY DEF Return
  <1>2. CASE write.by = Opener
    BY <1>1, <1>2, DurableRest, SMTT(60) DEF Return, NoWrite
  <1>3. CASE write.by # Opener
    <2> DEFINE c == write.by
               k == [call[c] EXCEPT !.at = "done", !.result = "stored"]
    <2>1. c \in Callers /\ call[c].applied /\ c \in Due
      BY <1>1, <1>3 DEF FInv, WriteOK, After, Due
    <2>2. call' = [call EXCEPT ![c] = k]
      BY <1>3, Zenon DEF Return, Finish, FInv, CallsOK
    <2>3. k.applied = call[c].applied /\ k.op = call[c].op
      BY <2>1 DEF FInv, CallsOK, CallOK
    <2> HIDE DEF k
    <2>4. \A e \in Callers : call'[e] = IF e = c THEN k ELSE call[e]
      BY <2>2 DEF FInv, CallsOK
    <2>5. Told' \subseteq Due
      BY <2>1, <2>4 DEF Told, Due
    <2>6. Due' = Told'
      BY <1>1, ZenonT(60) DEF Due, NoWrite, After
    <2>7. \A e \in Callers : /\ call'[e].applied = call[e].applied
                             /\ call'[e].op \in OpsOf[e] \cup {NoOp}
                             /\ call[e].applied => call'[e].op = call[e].op
      BY <2>3, <2>4 DEF DInv
    <2>8. write'.at = "none"
      BY <1>1, Zenon DEF NoWrite
    <2>9. ~unsynced => durable = file
      BY <1>1, Zenon DEF DInv
    <2> QED BY <1>1, <2>5, <2>6, <2>7, <2>8, <2>9, DueApplied, Quietly, ZenonT(60) DEF disk
  <1> QED BY <1>2, <1>3

(* A crash or a power cut promises nothing to the calls it ends. *)
LEMMA DurableStop == ASSUME FInv, DInv, Crash \/ PowerLoss PROVE DInv'
  <1>1. Stopped /\ unsynced' = unsynced
    BY DEF Crash, PowerLoss, disk
  <1>2. \/ UNCHANGED <<file, durable>>
        \/ file' \in {file, durable} /\ durable' = file'
    BY ZenonT(60) DEF Crash, PowerLoss, disk, FInv, DiskOK, OnDisk
  <1>3. write'.at = "none"
    BY <1>1, Zenon DEF Stopped, NoWrite
  <1>4. \A c \in Callers : /\ call'[c].applied = call[c].applied /\ call'[c].op = call[c].op
                           /\ c \in Told' => c \in Told
    <2> TAKE c \in Callers
    <2>1. CASE call[c].at \in {"lock", "write"}
      <3> DEFINE k == [call[c] EXCEPT !.at = "done", !.result = "unavailable"]
      <3>1. call'[c] = k
        BY <1>1, <2>1, Zenon DEF Stopped, Lost
      <3>2. k.applied = call[c].applied /\ k.op = call[c].op /\ k.result = "unavailable"
        BY DEF FInv, CallsOK, CallOK
      <3> HIDE DEF k
      <3> QED BY <3>1, <3>2 DEF Told
    <2>2. CASE call[c].at \notin {"lock", "write"}
      BY <1>1, <2>2, ZenonT(60) DEF Stopped, Lost, Told
    <2> QED BY <2>1, <2>2
  <1>5. Told' \subseteq Told /\ Due' \subseteq Told /\ Told \subseteq Due
    BY <1>3, <1>4, ZenonT(60) DEF Told, Due, After
  <1>6. \A c \in Callers : call'[c].op \in OpsOf[c] \cup {NoOp}
    BY <1>4 DEF DInv
  <1>7. file' \in {file, durable} /\ durable' \in {file, durable}
    BY <1>2
  <1> QED BY <1>1, <1>3, <1>4, <1>5, <1>6, <1>7, DueApplied, Quietly, ZenonT(60)

(* A mutation keeps what was promised and what it promises itself: a spent  *)
(* grant is not redeemed again, and no id is issued that a promise is about. *)
LEMMA KeepsMore ==
  ASSUME NEW d, NEW e, NEW C, NEW p, NEW c, IsDocument(d), IsDocument(e), Keeps(d, C, p),
         p[c] \in Ops, KeysFollow(d, e, p[c], Now), Effect(d, e, p[c], Now),
         \A kid \in KIDs : Issues(p[c], kid) =>
           \A x \in C : ~Burns(p[x], kid) /\ ~Revokes(p[x], kid)
  PROVE  Keeps(e, C \cup {c}, p)
  <1> SUFFICES ASSUME NEW kid \in DOMAIN e.keys, NEW x \in C \cup {c}
               PROVE  /\ Revokes(p[x], kid) /\ ~Minted(kid) => e.keys[kid].revoked
                      /\ Burns(p[x], kid) /\ IsGrant(e.keys[kid]) /\ ~e.keys[kid].reusable =>
                           /\ e.keys[kid].used /\ e.keys[kid].serial = p[x].serial
                           /\ \A y \in C \cup {c} : Burns(p[y], kid) => y = x
    BY ZenonT(60) DEF Keeps
  <1>0. kid \in KIDs /\ ~(Revokes(p[c], kid) /\ Burns(p[c], kid))
    BY DEF IsDocument, Revokes, Burns
  <1>1. Revokes(p[c], kid) => e.keys[kid].revoked
    BY ZenonT(60) DEF Effect, Revokes
  <1>2. Burns(p[c], kid) => kid \in DOMAIN d.keys /\ Redeemed(d.keys[kid], e.keys[kid], p[c].serial)
    BY ZenonT(60) DEF Effect, Burns
  <1>3. CASE kid \in DOMAIN d.keys /\ Burns(p[c], kid)
    <2>1. Redeemed(d.keys[kid], e.keys[kid], p[c].serial)
      BY <1>2, <1>3
    <2>2. ~d.keys[kid].reusable => \A y \in C : ~Burns(p[y], kid)
      BY <1>3, <2>1, ZenonT(60) DEF Redeemed, Spent, Keeps
    <2>3. x # c => (Revokes(p[x], kid) /\ ~Minted(kid) => d.keys[kid].revoked)
      BY <1>3, ZenonT(60) DEF Keeps
    <2> QED BY <1>0, <1>3, <2>1, <2>2, <2>3, ZenonT(60) DEF Redeemed
  <1>4. CASE kid \in DOMAIN d.keys /\ Kept(d.keys[kid], e.keys[kid]) /\ ~Burns(p[c], kid)
    <2>1. x # c => /\ Revokes(p[x], kid) /\ ~Minted(kid) => d.keys[kid].revoked
                   /\ Burns(p[x], kid) /\ IsGrant(d.keys[kid]) /\ ~d.keys[kid].reusable =>
                        /\ d.keys[kid].used /\ d.keys[kid].serial = p[x].serial
                        /\ \A y \in C : Burns(p[y], kid) => y = x
      BY <1>4, ZenonT(60) DEF Keeps
    <2> QED BY <1>1, <1>4, <2>1, ZenonT(60) DEF Kept, IsGrant
  <1>5. CASE Issues(p[c], kid)
    <2>1. ~Burns(p[c], kid) /\ ~Revokes(p[c], kid)
      BY <1>5, SMTT(60) DEF Issues, Burns, Revokes
    <2>2. ~Burns(p[x], kid) /\ ~Revokes(p[x], kid)
      <3>1. CASE x = c
        BY <2>1, <3>1, Zenon
      <3>2. CASE x \in C
        BY <1>0, <1>5, <3>2, Zenon
      <3> QED BY <3>1, <3>2, Zenon
    <2> QED BY <2>2, Zenon
  <1>6. CASE Mints(p[c], kid) /\ e.keys[kid] = p[c].key
    <2>1. Minted(kid)
      BY <1>6, Zenon DEF Minted
    <2>2. ~IsGrant(e.keys[kid])
      BY <1>0, <1>6, KeyIDs, Zenon
    <2> QED BY <2>1, <2>2, Zenon
  <1> QED BY <1>3, <1>4, <1>5, <1>6, ZenonT(60) DEF KeysFollow

(* The rename of a fresh file promises nothing. *)
LEMMA DurableFresh == ASSUME FInv, DInv, Rename, write.by = Opener PROVE DInv'
  <1>1. /\ file' = Holding(NewState) /\ UNCHANGED <<durable, unsynced, call>>
        /\ write'.at = "syncdir" /\ write'.doc = NewState /\ write'.by = Opener
    BY ZenonT(60) DEF Rename, Applied, FInv, WriteOK, Before, Goto
  <1>2. file'.doc = NewState /\ IsDocument(NewState) /\ DOMAIN NewState.keys = {}
    BY <1>1 DEF Holding, NewState, IsDocument
  <1>3. Told' = Told /\ op' = op /\ \A kid : Seen(kid)' <=> Seen(kid)
    BY <1>1 DEF Told, op, Seen
  <1>4. ~unsynced' => Keeps(file'.doc, Due', op') /\ Keeps(durable'.doc, Told', op')
    BY <1>1, <1>2, <1>3, ZenonT(180) DEF DInv, Keeps
  <1> QED BY <1>1, <1>2, <1>3, <1>4, ZenonT(120) DEF DInv

(* The rename of a call's document. *)
LEMMA DurableRename == ASSUME FInv, DInv, Rename, write.by # Opener PROVE DInv'
  <1> DEFINE c == write.by
             o == call[c].op
             e == write.doc
             k == [call[c] EXCEPT !.applied = TRUE]
  <1>1. /\ c \in Callers /\ call[c].at = "write" /\ ~call[c].applied /\ mem = file.doc
        /\ Outcome(mem, o).changed /\ Outcome(mem, o).doc = e
    BY DEF Rename, FInv, WriteOK, Before, After, Holding
  <1>2. /\ file'.doc = e /\ UNCHANGED <<durable, unsynced>> /\ IsDocument(e)
        /\ write'.at = "syncdir" /\ write'.doc = e /\ write'.by = c
    BY DEF Rename, FInv, WriteOK, Goto, Holding, DInv
  <1>3. call' = [call EXCEPT ![c] = k]
    BY DEF Rename, Applied, FInv, CallsOK
  <1>4. k.applied /\ k.op = o /\ k.at = "write" /\ o \in Ops /\ o \in OpsOf[c] \cup {NoOp}
    BY <1>1 DEF FInv, CallsOK, CallOK, DInv
  <1>5. o \in OpsOf[c]
    BY <1>4, FileStoreConstants
  <1>6. Sound(Outcome(file.doc, o), file.doc, o, Now)
    BY <1>4, OutcomeSound DEF DInv
  <1>7. KeysFollow(file.doc, e, o, Now) /\ Effect(file.doc, e, o, Now)
    BY <1>1, <1>6, Zenon DEF Sound
  <1> HIDE DEF k, o, e, c
  <1>8. \A x \in Callers : call'[x] = IF x = c THEN k ELSE call[x]
    BY <1>3 DEF FInv, CallsOK
  <1>9. op' = op /\ op[c] = o
    <2>1. \A x \in Callers : call'[x].op = call[x].op
      BY <1>4, <1>8, ZenonT(60) DEF o
    <2> QED BY <1>1, <2>1 DEF op, o
  <1>10. Told' = Told /\ c \notin Told
    BY <1>1, <1>4, <1>8, ZenonT(60) DEF Told
  <1>11. Due' = Told \cup {c} /\ Told \subseteq Due
    BY <1>1, <1>2, <1>10, ZenonT(60) DEF Due, After
  <1>12. \A kid : Seen(kid) => Seen(kid)'
    <2> TAKE kid
    <2>1. \A x \in Callers : call[x].applied => call'[x].applied /\ call'[x].op = call[x].op
      BY <1>1, <1>8
    <2> QED BY <2>1 DEF Seen
  <1>13. \A kid \in KIDs : Issues(o, kid) => ~Seen(kid) /\ Seen(kid)'
    <2> TAKE kid \in KIDs
    <2> HAVE Issues(o, kid)
    <2>1. \A x \in Callers : call[x].applied => ~Issues(call[x].op, kid)
      <3> SUFFICES ASSUME NEW x \in Callers, call[x].applied, Issues(call[x].op, kid) PROVE FALSE
        OBVIOUS
      <3>1. x # c
        BY <1>1, ZenonT(60)
      <3>2. call[x].op \in OpsOf[x]
        BY DEF DInv, NoOp, Issues
      <3> QED BY <1>1, <1>5, <3>1, <3>2, KeyIDs, ZenonT(60)
    <2>2. ~Seen(kid)
      BY <1>1, <1>5, <2>1, KeyIDs, ZenonT(60) DEF Seen
    <2>3. Seen(kid)'
      BY <1>1, <1>4, <1>8 DEF Seen
    <2> QED BY <2>2, <2>3
  <1>14. \A kid \in DOMAIN e.keys : Seen(kid)'
    <2> TAKE kid \in DOMAIN e.keys
    <2>0. kid \in KIDs
      BY <1>2 DEF IsDocument
    <2>1. CASE kid \in DOMAIN file.doc.keys
      BY <1>12, <2>1, Zenon DEF DInv
    <2>2. CASE Issues(o, kid)
      BY <1>13, <2>0, <2>2, Zenon
    <2>3. CASE Mints(o, kid)
      BY <1>4, <2>3, ZenonT(60) DEF Seen, Minted
    <2> QED BY <1>7, <2>1, <2>2, <2>3, ZenonT(60) DEF KeysFollow
  <1>15. \A kid \in KIDs : Burns(o, kid) \/ Revokes(o, kid) => Seen(kid)'
    BY <1>7, <1>14 DEF Effect, Burns, Revokes
  <1>16. \A x \in Callers : call'[x].applied =>
           \A kid \in KIDs : Burns(call'[x].op, kid) \/ Revokes(call'[x].op, kid) => Seen(kid)'
    BY <1>4, <1>8, <1>12, <1>15, ZenonT(60) DEF DInv
  <1>17. ASSUME ~unsynced PROVE Keeps(e, Told \cup {c}, op)
    <2>1. Keeps(file.doc, Told, op)
      BY <1>11, <1>17, KeepsFewer DEF DInv
    <2>2. \A kid \in KIDs : Issues(o, kid) =>
            \A x \in Told : ~Burns(op[x], kid) /\ ~Revokes(op[x], kid)
      BY <1>13, Zenon DEF DInv, Told, op
    <2>3. IsDocument(file.doc)
      BY Zenon DEF DInv
    <2> QED BY <1>2, <1>4, <1>7, <1>9, <2>1, <2>2, <2>3, KeepsMore, ZenonT(60)
  <1>18. \A x \in Callers : /\ call'[x].op \in OpsOf[x] \cup {NoOp}
                            /\ x \in Told' => call'[x].applied
    BY <1>4, <1>8, <1>10, Zenon DEF DInv
  <1>19. \A kid \in DOMAIN file'.doc.keys \cup DOMAIN durable'.doc.keys : Seen(kid)'
    BY <1>2, <1>12, <1>14, ZenonT(60) DEF DInv
  <1>20. ~unsynced' => Keeps(file'.doc, Due', op') /\ Keeps(durable'.doc, Told', op')
    BY <1>2, <1>9, <1>10, <1>11, <1>17, ZenonT(60) DEF DInv
  <1>21. /\ IsDocument(file'.doc) /\ IsDocument(durable'.doc) /\ IsDocument(write'.doc)
         /\ write'.at # "memory"
    BY <1>2, Zenon DEF DInv
  <1> QED BY <1>16, <1>18, <1>19, <1>20, <1>21, Zenon DEF DInv

LEMMA DurableStep == ASSUME FInv, DInv, [Next \/ PowerLoss]_vars PROVE DInv'
  <1>1. CASE Open
    <2>1. IsDocument(NewState)
      BY DEF NewState, IsDocument
    <2> QED BY <1>1, <2>1, DurableRest, SMTT(60) DEF Open, Start, Before
  <1>2. CASE Close \/ UNCHANGED vars
    BY <1>2, DurableRest DEF Close, vars, disk
  <1> QED BY <1>1, <1>2, DurableBegin, DurableMutate, DurableBefore, DurableSyncDir, DurableReturn,
             DurableStop, DurableFresh, DurableRename, ZenonT(60) DEF Next, Writing

(* While no directory sync has failed, every redemption and revocation a    *)
(* caller was told is stored is in the file and on the disk, and a          *)
(* single-use grant is reported redeemed once, through any number of        *)
(* crashes and power cuts at any system call.                               *)
THEOREM WhatIsToldIsDurable == PowerSpec => []AcknowledgedIsDurable
  <1>1. DInv => AcknowledgedIsDurable
    <2> SUFFICES ASSUME DInv, ~unsynced, NEW f \in {file, durable}, NEW kid \in DOMAIN f.doc.keys
                 PROVE  LET k == f.doc.keys[kid]
                        IN  /\ ~Minted(kid) /\ Winners("RevokeKey", kid) # {} => k.revoked
                            /\ IsGrant(k) /\ ~k.reusable =>
                                 /\ Cardinality(Winners("BurnEnrollment", kid)) <= 1
                                 /\ \A c \in Winners("BurnEnrollment", kid) : k.serial = call[c].op.serial
      BY Zenon DEF AcknowledgedIsDurable
    <2>1. Keeps(f.doc, Told, op)
      <3>1. Told \subseteq Due
        BY DEF Due
      <3> QED BY <3>1, KeepsFewer DEF DInv
    <2> DEFINE W == Winners("BurnEnrollment", kid)
    <2>2. \A c \in W : c \in Told /\ Burns(op[c], kid) /\ op[c] = call[c].op
      BY DEF Winners, Told, Burns, op
    <2>3. \A c \in Winners("RevokeKey", kid) : c \in Told /\ Revokes(op[c], kid)
      BY DEF Winners, Told, Revokes, op
    <2>4. ASSUME IsGrant(f.doc.keys[kid]), ~f.doc.keys[kid].reusable PROVE Cardinality(W) <= 1
      <3>1. \A c \in W : \A x \in W : x = c
        BY <2>1, <2>2, <2>4 DEF Keeps
      <3> HIDE DEF W
      <3>2. CASE W = {}
        BY <3>2, FS_EmptySet
      <3>3. CASE W # {}
        <4>1. PICK c \in W : W = {c}
          BY <3>1, <3>3
        <4> QED BY <4>1, FS_Singleton
      <3> QED BY <3>2, <3>3, ZenonT(60)
    <2> QED BY <2>1, <2>2, <2>3, <2>4, ZenonT(60) DEF Keeps
  <1>2. FInv /\ DInv /\ [Next \/ PowerLoss]_vars => DInv'
    BY DurableStep
  <1> QED BY <1>1, <1>2, DurableInit, StaysTogether, PTL DEF PowerSpec
=============================================================================
