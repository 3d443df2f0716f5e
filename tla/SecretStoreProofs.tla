------------------------- MODULE SecretStoreProofs -------------------------
(***************************************************************************)
(* SecretStore implements Store, for any number of replicas, calls and     *)
(* attempts and any mutations.                                             *)
(*                                                                         *)
(* The argument is the one behind every compare-and-swap: whatever copy of *)
(* the Secret a cache or a call holds, its resourceVersion is not ahead of *)
(* the server's, and if the two are equal so are the documents.  A PUT     *)
(* that the server accepts is therefore the mutation applied to the        *)
(* current document, which is Store's Commit.                              *)
(***************************************************************************)
EXTENDS SecretStore, TLAPS

(* s is a copy of the Secret that is no newer than sv. *)
Known(s, sv) == s.rv \in Nat /\ s.rv <= sv.rv /\ (s.rv = sv.rv => s.doc = sv.doc)

CallOK(k) ==
  /\ DOMAIN k = {"at", "op", "attempt", "sec", "applied", "result"}
  /\ k.at \in Points
  /\ k.at # "idle" => k.op \in Ops
  /\ k.at = "idle" => k.op = NoOp
  /\ k.applied \in BOOLEAN
  /\ k.applied => k.at \in {"won", "done"}
  /\ k.at = "won" => k.applied
  /\ k.at # "done" => k.result = "none"
  /\ k.at = "update" => Outcome(k.sec.doc, k.op).changed

CInv ==
  /\ server.rv \in Nat
  /\ server.rv = 0 => server.doc = NewState
  /\ DOMAIN cached = Replicas /\ \A h \in Replicas : Known(cached[h], server)
  /\ DOMAIN call = Callers /\ call = [c \in Callers |-> call[c]]
  /\ \A c \in Callers : Known(call[c].sec, server) /\ CallOK(call[c])

(* No mutation reports one of the words a call is reported done with. *)
LEMMA Errors ==
  ASSUME NEW d, NEW o, o.op \in Mutations \cup {"Read"}
  PROVE  Outcome(d, o).err \notin {"stored", "unchanged"}
  <1> USE DEF Refuse, NoChange, Accept
  <1>1. CASE o.op = "Read"
    BY <1>1 DEF Outcome
  <1>2. ASSUME o.op \in Mutations PROVE Mutate(d, o, Now).err \notin {"stored", "unchanged"}
    <2>1. CASE o.op = "PutKey"
      BY <2>1 DEF Mutate, PutKey
    <2>2. CASE o.op = "PutKeyIfNoUsable"
      BY <2>2 DEF Mutate, PutKeyIfNoUsable
    <2>3. CASE o.op = "RevokeKey"
      BY <2>3 DEF Mutate, RevokeKey
    <2>4. CASE o.op = "ReplaceKey"
      BY <2>4 DEF Mutate, ReplaceKey
    <2>5. CASE o.op = "DeleteKey"
      BY <2>5 DEF Mutate, DeleteKey
    <2>6. CASE o.op = "TouchKey"
      BY <2>6 DEF Mutate, TouchKey
    <2>7. CASE o.op = "BurnEnrollment"
      BY <2>7 DEF Mutate, BurnEnrollment
    <2>8. CASE o.op = "RevokeCert"
      BY <2>8 DEF Mutate, RevokeCert
    <2>9. CASE o.op = "Prune"
      BY <2>9 DEF Mutate, Prune
    <2> QED BY <1>2, <2>1, <2>2, <2>3, <2>4, <2>5, <2>6, <2>7, <2>8, <2>9 DEF Mutations
  <1>3. CASE o.op \in Mutations
    BY <1>2, <1>3 DEF Outcome, Apply, Mutations
  <1> QED BY <1>1, <1>3

(* A fresh process has no copies at all. *)
LEMMA InitOK == Init => CInv
  <1> SUFFICES ASSUME Init PROVE CInv
    OBVIOUS
  <1>1. server.rv \in Nat /\ (server.rv = 0 => server.doc = NewState)
    BY SecretStoreConstants DEF Init, IsSecret, NoSecret
  <1>2. Known(NoSecret, server)
    BY <1>1 DEF Known, NoSecret
  <1>3. Idle.sec = NoSecret /\ CallOK(Idle)
    BY DEF Idle, CallOK, Points
  <1> QED BY <1>1, <1>2, <1>3 DEF Init, CInv


-----------------------------------------------------------------------------
(* The server's resourceVersion only grows, so copies stay copies. *)
LEMMA CopiesStay ==
  ASSUME NEW s, NEW sv, NEW new, Known(s, sv), sv.rv \in Nat, new.rv \in Nat,
         new = sv \/ new.rv > sv.rv
  PROVE  Known(s, new)
  BY DEF Known

(* A step of one call, with or without a write at the server. *)
LEMMA OneCall ==
  ASSUME CInv, NEW c \in Callers, NEW k, CallOK(k), call' = [call EXCEPT ![c] = k],
         server' = server \/ server'.rv > server.rv, server'.rv \in Nat,
         server'.rv = 0 => server'.doc = NewState,
         Known(k.sec, server'),
         NEW z, Known(z, server'),
         cached' = cached \/ cached' = [cached EXCEPT ![ReplicaOf[c]] = z]
  PROVE  CInv'
  <1>1. \A h \in Replicas : Known(cached'[h], server') /\ DOMAIN cached' = Replicas
    <2> TAKE h \in Replicas
    <2>1. Known(cached[h], server')
      BY CopiesStay DEF CInv
    <2> QED BY <2>1 DEF CInv
  <1>2. DOMAIN cached' = Replicas
    BY DEF CInv
  <1>3. \A e \in Callers : Known(call'[e].sec, server') /\ CallOK(call'[e])
    <2> TAKE e \in Callers
    <2>1. CASE e = c
      BY <2>1 DEF CInv
    <2>2. CASE e # c
      <3>1. Known(call[e].sec, server')
        BY CopiesStay DEF CInv
      <3> QED BY <2>2, <3>1 DEF CInv
    <2> QED BY <2>1, <2>2
  <1>4. DOMAIN call' = Callers /\ call' = [e \in Callers |-> call'[e]]
    BY DEF CInv
  <1> QED BY <1>1, <1>2, <1>3, <1>4 DEF CInv

(* An empty cache is a copy of anything. *)
LEMMA NoSecretKnown == ASSUME CInv PROVE Known(NoSecret, server)
  BY DEF CInv, Known, NoSecret

(* What the invariant says of one call. *)
LEMMA CallShape ==
  ASSUME CInv, NEW c \in Callers
  PROVE  /\ CallOK(call[c]) /\ Known(call[c].sec, server) /\ Known(Cached(c), server)
         /\ ReplicaOf[c] \in Replicas
  BY SecretStoreConstants DEF CInv, Cached

(* Begin installs no copy. *)
LEMMA BeginStep == ASSUME CInv, NEW c \in Callers, Begin(c) PROVE CInv'
  <1>1. PICK o \in OpsOf[c] :
          call' = [call EXCEPT ![c] =
            IF ReplicaOf[c] \in closed
            THEN [Idle EXCEPT !.at = "done", !.op = o, !.result = "closed"]
            ELSE [Idle EXCEPT !.at = "load", !.op = o]]
    BY Zenon DEF Begin
  <1>2. o \in Ops
    BY DEF Ops
  <1>3. CallOK([Idle EXCEPT !.at = "done", !.op = o, !.result = "closed"])
    BY <1>2 DEF CallOK, Idle, Points
  <1>4. CallOK([Idle EXCEPT !.at = "load", !.op = o])
    BY <1>2 DEF CallOK, Idle, Points
  <1>5. /\ [Idle EXCEPT !.at = "done", !.op = o, !.result = "closed"].sec = NoSecret
        /\ [Idle EXCEPT !.at = "load", !.op = o].sec = NoSecret
    BY DEF Idle
  <1>6. UNCHANGED <<server, cached>> /\ server.rv \in Nat /\ (server.rv = 0 => server.doc = NewState)
    BY DEF Begin, CInv
  <1>7. CASE ReplicaOf[c] \in closed
    <2>1. call' = [call EXCEPT ![c] = [Idle EXCEPT !.at = "done", !.op = o, !.result = "closed"]]
      BY <1>1, <1>7
    <2> QED BY <1>3, <1>5, <1>6, <2>1, NoSecretKnown, OneCall, Zenon
  <1>8. CASE ReplicaOf[c] \notin closed
    <2>1. call' = [call EXCEPT ![c] = [Idle EXCEPT !.at = "load", !.op = o]]
      BY <1>1, <1>8
    <2> QED BY <1>4, <1>5, <1>6, <2>1, NoSecretKnown, OneCall, Zenon
  <1> QED BY <1>7, <1>8

(* Loading copies the server's Secret, or the cache's copy of it. *)
LEMMA LoadStep ==
  ASSUME CInv, NEW c \in Callers, LoadCached(c) \/ GetSecret(c) \/ ReGet(c) \/ CacheLoaded(c)
  PROVE  CInv'
  <1>0. server.rv \in Nat /\ (server.rv = 0 => server.doc = NewState) /\ Known(server, server)
    BY DEF CInv, Known
  <1>1. CASE LoadCached(c)
    <2>1. call' = [call EXCEPT ![c] = [call[c] EXCEPT !.at = "decide", !.sec = Cached(c)]]
      BY <1>1, Zenon DEF LoadCached
    <2>2. CallOK([call[c] EXCEPT !.at = "decide", !.sec = Cached(c)])
      BY <1>1, CallShape DEF LoadCached, CallOK, Points, Idle
    <2>3. [call[c] EXCEPT !.at = "decide", !.sec = Cached(c)].sec = Cached(c)
      BY CallShape DEF CallOK
    <2> QED BY <1>0, <1>1, <2>1, <2>2, <2>3, CallShape, NoSecretKnown, OneCall, ZenonT(120) DEF LoadCached
  <1>2. CASE GetSecret(c)
    <2> DEFINE at == IF server.rv = 0 THEN "create" ELSE "got"
    <2>1. call' = [call EXCEPT ![c] = [call[c] EXCEPT !.at = at, !.sec = server]]
      BY <1>2, Zenon DEF GetSecret
    <2>2. CallOK([call[c] EXCEPT !.at = at, !.sec = server])
      BY <1>2, CallShape DEF GetSecret, CallOK, Points, Idle
    <2>3. [call[c] EXCEPT !.at = at, !.sec = server].sec = server
      BY CallShape DEF CallOK
    <2> HIDE DEF at
    <2> QED BY <1>0, <1>2, <2>1, <2>2, <2>3, NoSecretKnown, OneCall, ZenonT(120) DEF GetSecret
  <1>3. CASE ReGet(c)
    <2>1. call' = [call EXCEPT ![c] = [call[c] EXCEPT !.at = "got", !.sec = server]]
      BY <1>3, Zenon DEF ReGet
    <2>2. CallOK([call[c] EXCEPT !.at = "got", !.sec = server])
      BY <1>3, CallShape DEF ReGet, CallOK, Points, Idle
    <2>3. [call[c] EXCEPT !.at = "got", !.sec = server].sec = server
      BY CallShape DEF CallOK
    <2> QED BY <1>0, <1>3, <2>1, <2>2, <2>3, NoSecretKnown, OneCall, ZenonT(60) DEF ReGet
  <1>4. CASE CacheLoaded(c)
    <2>1. call' = [call EXCEPT ![c] = [call[c] EXCEPT !.at = "decide"]]
      BY <1>4 DEF CacheLoaded
    <2>2. CallOK([call[c] EXCEPT !.at = "decide"])
      BY <1>4, CallShape DEF CacheLoaded, CallOK, Points, Idle
    <2>3. [call[c] EXCEPT !.at = "decide"].sec = call[c].sec
      BY CallShape DEF CallOK
    <2>4. /\ server' = server /\ Known(call[c].sec, server)
          /\ cached' = [cached EXCEPT ![ReplicaOf[c]] = call[c].sec]
      BY <1>4, CallShape DEF CacheLoaded, cache
    <2> QED BY <1>0, <2>1, <2>2, <2>3, <2>4, OneCall, Zenon
  <1> QED BY <1>1, <1>2, <1>3, <1>4

(* A write that is accepted moves the resourceVersion on; a refused one    *)
(* changes nothing.                                                         *)
LEMMA WriteStep ==
  ASSUME CInv, NEW c \in Callers, CreateSecret(c) \/ UpdateSecret(c)
  PROVE  CInv'
  <1>0. server.rv \in Nat /\ (server.rv = 0 => server.doc = NewState) /\ CallOK(call[c])
    BY CallShape DEF CInv
  <1>1. CASE CreateSecret(c) /\ server.rv = 0
    <2>1. /\ server' = [rv |-> 1, doc |-> NewState] /\ cached' = cached
          /\ call' = [call EXCEPT ![c] = [call[c] EXCEPT !.at = "got", !.sec = server']]
      BY <1>1, Zenon DEF CreateSecret
    <2>2. CallOK([call[c] EXCEPT !.at = "got", !.sec = server'])
      BY <1>0, <1>1 DEF CreateSecret, CallOK, Points
    <2>3. [call[c] EXCEPT !.at = "got", !.sec = server'].sec = server'
      BY <1>0 DEF CallOK
    <2>4. server'.rv \in Nat /\ server'.rv > server.rv /\ server'.rv # 0 /\ Known(server', server')
      BY <1>1, <2>1 DEF Known
    <2> QED BY <2>1, <2>2, <2>3, <2>4, OneCall, Zenon
  <1>2. CASE CreateSecret(c) /\ server.rv # 0
    <2>1. /\ server' = server /\ cached' = cached
          /\ call' = [call EXCEPT ![c] = [call[c] EXCEPT !.at = "reget"]]
      BY <1>2 DEF CreateSecret
    <2>2. CallOK([call[c] EXCEPT !.at = "reget"])
      BY <1>0, <1>2 DEF CreateSecret, CallOK, Points
    <2>3. [call[c] EXCEPT !.at = "reget"].sec = call[c].sec
      BY <1>0 DEF CallOK
    <2> QED BY <1>0, <2>1, <2>2, <2>3, CallShape, OneCall, Zenon
  <1>3. CASE UpdateSecret(c) /\ Current(c)
    <2> DEFINE d == Outcome(call[c].sec.doc, call[c].op).doc
    <2>1. /\ server' = [rv |-> server.rv + 1, doc |-> d] /\ cached' = cached
          /\ call' = [call EXCEPT ![c] = [call[c] EXCEPT !.at = "won", !.sec = server',
                                                         !.applied = TRUE]]
      BY <1>3, ZenonT(60) DEF UpdateSecret
    <2> HIDE DEF d
    <2>2. CallOK([call[c] EXCEPT !.at = "won", !.sec = server', !.applied = TRUE])
      BY <1>0, <1>3 DEF UpdateSecret, CallOK, Points
    <2>3. [call[c] EXCEPT !.at = "won", !.sec = server', !.applied = TRUE].sec = server'
      BY <1>0 DEF CallOK
    <2>4. server'.rv \in Nat /\ server'.rv > server.rv /\ server'.rv # 0 /\ Known(server', server')
      BY <1>0, <2>1 DEF Known
    <2> QED BY <2>1, <2>2, <2>3, <2>4, OneCall, Zenon
  <1>4. CASE UpdateSecret(c) /\ ~Current(c)
    <2>1. /\ server' = server /\ cached' = cached
          /\ call' = [call EXCEPT ![c] = [call[c] EXCEPT !.at = "lost"]]
      BY <1>4, ZenonT(60) DEF UpdateSecret
    <2>2. CallOK([call[c] EXCEPT !.at = "lost"])
      BY <1>0, <1>4 DEF UpdateSecret, CallOK, Points
    <2>3. [call[c] EXCEPT !.at = "lost"].sec = call[c].sec
      BY <1>0, Zenon DEF CallOK
    <2> QED BY <1>0, <2>1, <2>2, <2>3, CallShape, OneCall, ZenonT(60)
  <1> QED BY <1>1, <1>2, <1>3, <1>4

(* The steps that end a call, or send it round again. *)
LEMMA EndStep ==
  ASSUME CInv, NEW c \in Callers, Decide(c) \/ Updated(c) \/ Conflict(c) \/ Unavailable(c)
  PROVE  CInv'
  <1>0. /\ server.rv \in Nat /\ (server.rv = 0 => server.doc = NewState)
        /\ CallOK(call[c]) /\ Known(call[c].sec, server) /\ server' = server
    BY CallShape, ZenonT(60) DEF CInv, Decide, Updated, Conflict, Unavailable
  <1>1. \/ cached' = cached \/ cached' = [cached EXCEPT ![ReplicaOf[c]] = call[c].sec]
        \/ cached' = [cached EXCEPT ![ReplicaOf[c]] = NoSecret]
    BY DEF Decide, Updated, Conflict, Unavailable, cache
  <1>f. ASSUME NEW r, Finish(c, r), call[c].at # "idle" PROVE CInv'
    <2>1. call' = [call EXCEPT ![c] = [call[c] EXCEPT !.at = "done", !.result = r]]
      BY <1>f, Zenon DEF Finish
    <2>2. CallOK([call[c] EXCEPT !.at = "done", !.result = r])
      BY <1>0, <1>f DEF CallOK, Points
    <2>3. [call[c] EXCEPT !.at = "done", !.result = r].sec = call[c].sec
      BY <1>0 DEF CallOK
    <2> QED BY <1>0, <1>1, <2>1, <2>2, <2>3, NoSecretKnown, OneCall, ZenonT(60)
  <1>2. CASE Decide(c) /\ call' = [call EXCEPT ![c].at = "update"]
                       /\ Outcome(call[c].sec.doc, call[c].op).changed
    <2>1. call' = [call EXCEPT ![c] = [call[c] EXCEPT !.at = "update"]]
      BY <1>2
    <2>2. CallOK([call[c] EXCEPT !.at = "update"])
      BY <1>0, <1>2 DEF Decide, CallOK, Points
    <2>3. [call[c] EXCEPT !.at = "update"].sec = call[c].sec
      BY <1>0, ZenonT(60) DEF CallOK
    <2> QED BY <1>0, <1>1, <2>1, <2>2, <2>3, NoSecretKnown, OneCall, ZenonT(60)
  <1>3. CASE Decide(c) /\ \E r : Finish(c, r)
    BY <1>3, <1>f DEF Decide
  <1>4. CASE Updated(c) \/ Unavailable(c)
    BY <1>4, <1>f DEF Updated, Unavailable
  <1>5. CASE Conflict(c)
    <2>1. CASE call[c].attempt + 1 < MaxAttempts
      <3>1. call' = [call EXCEPT ![c] = [call[c] EXCEPT !.at = "load", !.attempt = @ + 1]]
        BY <1>5, <2>1, Zenon DEF Conflict
      <3>2. CallOK([call[c] EXCEPT !.at = "load", !.attempt = @ + 1])
        BY <1>0, <1>5 DEF Conflict, CallOK, Points
      <3>3. [call[c] EXCEPT !.at = "load", !.attempt = @ + 1].sec = call[c].sec
        BY <1>0 DEF CallOK
      <3> QED BY <1>0, <1>1, <3>1, <3>2, <3>3, NoSecretKnown, OneCall, ZenonT(60)
    <2>2. CASE ~(call[c].attempt + 1 < MaxAttempts)
      BY <1>5, <1>f, <2>2 DEF Conflict
    <2> QED BY <2>1, <2>2
  <1> QED BY <1>2, <1>3, <1>4, <1>5, ZenonT(60) DEF Decide

(* Expiry, Close and a restart drop the replica's copy. *)
LEMMA ReplicaStep ==
  ASSUME CInv, NEW h \in Replicas, Expire(h) \/ Close(h) \/ Restart(h)
  PROVE  CInv'
  <1>1. server' = server /\ cached' = [cached EXCEPT ![h] = NoSecret]
    BY Zenon DEF Expire, Close, Restart
  <1>2. DOMAIN cached' = Replicas /\ \A g \in Replicas : Known(cached'[g], server')
    BY <1>1, NoSecretKnown DEF CInv
  <1>3. CASE UNCHANGED call
    BY <1>1, <1>2, <1>3 DEF CInv
  <1>4. CASE Restart(h)
    <2>1. call' = [c \in Callers |-> IF c \in Running(h)
                    THEN [call[c] EXCEPT !.at = "done", !.result = "unavailable"] ELSE call[c]]
      BY <1>4, Zenon DEF Restart
    <2>2. \A c \in Callers : CallOK(call'[c]) /\ call'[c].sec = call[c].sec
      <3> TAKE c \in Callers
      <3>1. CallOK(call[c])
        BY DEF CInv
      <3>2. CASE c \in Running(h)
        <4>1. call'[c] = [call[c] EXCEPT !.at = "done", !.result = "unavailable"]
          BY <2>1, <3>2, Zenon
        <4>2. CallOK([call[c] EXCEPT !.at = "done", !.result = "unavailable"])
          BY <3>1, <3>2 DEF CallOK, Points, Running
        <4> QED BY <3>1, <4>1, <4>2 DEF CallOK
      <3>3. CASE c \notin Running(h)
        BY <2>1, <3>1, <3>3, Zenon
      <3> QED BY <3>2, <3>3
    <2> QED BY <1>1, <1>2, <2>1, <2>2, ZenonT(120) DEF CInv
  <1> QED BY <1>3, <1>4 DEF Expire, Close

(* The invariant holds: no cache and no call ever holds a copy of the       *)
(* Secret that claims the server's resourceVersion for another document.    *)
LEMMA CopiesInvariance == Spec => []CInv
  <1>1. CInv /\ [Next]_vars => CInv'
    <2> SUFFICES ASSUME CInv, [Next]_vars PROVE CInv'
      OBVIOUS
    <2>1. CASE UNCHANGED vars
      BY <2>1 DEF vars, CInv
    <2>2. CASE Next
      BY <2>2, BeginStep, LoadStep, WriteStep, EndStep, ReplicaStep DEF Next, mutate
    <2> QED BY <2>1, <2>2
  <1> QED BY <1>1, InitOK, PTL DEF Spec

-----------------------------------------------------------------------------
(* The refinement.  What Store sees of one call. *)

St(k) == CASE k.at \in {"idle", "done"} -> k.at
           [] OTHER -> IF k.applied THEN "committed" ELSE "pending"
Oc(k) == CASE k.result \in {"none", "stored", "unchanged"} -> k.result
           [] OTHER -> "failed"

(* A step of one call changes what Store sees of that call only. *)
LEMMA MapOne ==
  ASSUME CInv, NEW c \in Callers, NEW k, call' = [call EXCEPT ![c] = k]
  PROVE  /\ status' = [status EXCEPT ![c] = St(k)]
         /\ outcome' = [outcome EXCEPT ![c] = Oc(k)]
         /\ op' = [op EXCEPT ![c] = k.op]
         /\ status[c] = St(call[c]) /\ outcome[c] = Oc(call[c]) /\ op[c] = call[c].op
         /\ Oc(k) = Oc(call[c]) => outcome' = outcome
         /\ St(k) = St(call[c]) => status' = status
         /\ k.op = call[c].op => op' = op
  <1>1. status = [e \in Callers |-> St(call[e])] /\ status' = [e \in Callers |-> St(call'[e])]
    BY DEF status, St
  <1>2. outcome = [e \in Callers |-> Oc(call[e])] /\ outcome' = [e \in Callers |-> Oc(call'[e])]
    BY DEF outcome, Oc
  <1>3. op = [e \in Callers |-> call[e].op] /\ op' = [e \in Callers |-> call'[e].op]
    BY DEF op
  <1>4. \A e \in Callers : call'[e] = IF e = c THEN k ELSE call[e]
    BY DEF CInv
  <1>5. \A e \in Callers : /\ St(call'[e]) = IF e = c THEN St(k) ELSE St(call[e])
                           /\ Oc(call'[e]) = IF e = c THEN Oc(k) ELSE Oc(call[e])
    BY <1>4
  <1>6. status' = [status EXCEPT ![c] = St(k)] /\ (St(k) = St(call[c]) => status' = status)
    BY <1>1, <1>5
  <1>7. outcome' = [outcome EXCEPT ![c] = Oc(k)] /\ (Oc(k) = Oc(call[c]) => outcome' = outcome)
    BY <1>2, <1>5
  <1>8. op' = [op EXCEPT ![c] = k.op] /\ (k.op = call[c].op => op' = op)
    BY <1>3, <1>4
  <1> QED BY <1>1, <1>2, <1>3, <1>6, <1>7, <1>8, Zenon

(* A step Store does not see. *)
LEMMA MapSame ==
  ASSUME CInv, NEW c \in Callers, NEW k, call' = [call EXCEPT ![c] = k],
         St(k) = St(call[c]), Oc(k) = Oc(call[c]), k.op = call[c].op,
         server'.doc = server.doc
  PROVE  UNCHANGED Abstract!storeVars
  <1>1. status' = status /\ outcome' = outcome /\ op' = op
    BY MapOne, Zenon
  <1> QED BY <1>1 DEF Abstract!storeVars

(* Store's Return, from the call's last step. *)
LEMMA MapReturn ==
  ASSUME CInv, NEW c \in Callers, NEW r, Finish(c, r), server' = server,
         call[c].at \notin {"idle", "done"}, r # "none",
         r = "stored" => call[c].at = "won",
         r = "unchanged" => call[c].at # "won"
  PROVE  Abstract!Return(c)
  <1> DEFINE k == [call[c] EXCEPT !.at = "done", !.result = r]
  <1>1. call' = [call EXCEPT ![c] = k] /\ CallOK(call[c])
    BY CallShape, Zenon DEF Finish
  <1>2. St(k) = "done" /\ k.op = call[c].op /\ k.result = r
    BY <1>1 DEF CallOK, St
  <1>3. St(call[c]) = IF call[c].at = "won" THEN "committed" ELSE "pending"
    BY <1>1 DEF CallOK, St
  <1>4. Oc(k) = IF r \in {"stored", "unchanged"} THEN r ELSE "failed"
    BY <1>2 DEF Oc
  <1> HIDE DEF k
  <1>5. op' = op
    BY <1>1, <1>2, MapOne, Zenon
  <1>6. /\ status' = [status EXCEPT ![c] = St(k)]
        /\ outcome' = [outcome EXCEPT ![c] = Oc(k)] /\ status[c] = St(call[c])
    BY <1>1, MapOne, Zenon
  <1> QED BY <1>2, <1>3, <1>4, <1>5, <1>6, Zenon DEF Abstract!Return

(* Begin is Store's Invoke. *)
LEMMA MapBegin ==
  ASSUME CInv, NEW c \in Callers, Begin(c) PROVE Abstract!Invoke(c)
  <1>1. PICK o \in OpsOf[c] :
          call' = [call EXCEPT ![c] =
            IF ReplicaOf[c] \in closed
            THEN [Idle EXCEPT !.at = "done", !.op = o, !.result = "closed"]
            ELSE [Idle EXCEPT !.at = "load", !.op = o]]
    BY Zenon DEF Begin
  <1>2. /\ server' = server /\ St(call[c]) = "idle" /\ Oc(call[c]) = "none"
        /\ CallOK(call[c])
    BY CallShape DEF Begin, CallOK, St, Oc
  <1>3. CASE ReplicaOf[c] \in closed
    <2> DEFINE k == [Idle EXCEPT !.at = "done", !.op = o, !.result = "closed"]
    <2>1. call' = [call EXCEPT ![c] = k]
      BY <1>1, <1>3
    <2>2. St(k) = "done" /\ Oc(k) = "failed" /\ k.op = o
      BY DEF St, Oc, Idle
    <2> HIDE DEF k
    <2>3. /\ status' = [status EXCEPT ![c] = St(k)] /\ op' = [op EXCEPT ![c] = k.op]
          /\ outcome' = [outcome EXCEPT ![c] = Oc(k)] /\ status[c] = St(call[c])
      BY <2>1, MapOne, Zenon
    <2> QED BY <1>2, <2>2, <2>3, Zenon DEF Abstract!Invoke
  <1>4. CASE ReplicaOf[c] \notin closed
    <2> DEFINE k == [Idle EXCEPT !.at = "load", !.op = o]
    <2>1. call' = [call EXCEPT ![c] = k]
      BY <1>1, <1>4
    <2>2. St(k) = "pending" /\ Oc(k) = "none" /\ k.op = o
      BY DEF St, Oc, Idle
    <2> HIDE DEF k
    <2>3. /\ status' = [status EXCEPT ![c] = St(k)] /\ op' = [op EXCEPT ![c] = k.op]
          /\ Oc(k) = Oc(call[c]) => outcome' = outcome
          /\ status[c] = St(call[c])
      BY <2>1, MapOne, Zenon
    <2> QED BY <1>2, <2>2, <2>3, Zenon DEF Abstract!Invoke
  <1> QED BY <1>3, <1>4

(* The steps before the write are none of Store's. *)
LEMMA MapLoad ==
  ASSUME CInv, NEW c \in Callers,
         LoadCached(c) \/ GetSecret(c) \/ ReGet(c) \/ CacheLoaded(c) \/ CreateSecret(c)
  PROVE  UNCHANGED Abstract!storeVars
  <1>0. CallOK(call[c]) /\ (server.rv = 0 => server.doc = NewState)
    BY CallShape DEF CInv
  <1>1. server'.doc = server.doc /\ call[c].at \in {"load", "create", "reget", "got"}
    BY <1>0 DEF LoadCached, GetSecret, ReGet, CacheLoaded, CreateSecret
  <1>2. ASSUME NEW a \in {"decide", "create", "got", "reget"}, NEW s,
               call' = [call EXCEPT ![c] = [call[c] EXCEPT !.at = a, !.sec = s]]
        PROVE  UNCHANGED Abstract!storeVars
    <2> DEFINE k == [call[c] EXCEPT !.at = a, !.sec = s]
    <2>1. k.at = a /\ k.op = call[c].op /\ k.applied = call[c].applied /\ k.result = call[c].result
      BY <1>0 DEF CallOK
    <2>2. call' = [call EXCEPT ![c] = k]
      BY <1>2
    <2> HIDE DEF k
    <2>3. St(k) = St(call[c]) /\ Oc(k) = Oc(call[c])
      BY <1>1, <2>1 DEF St, Oc
    <2> QED BY <1>1, <2>1, <2>2, <2>3, MapSame, Zenon
  <1>3. ASSUME NEW a \in {"decide", "reget"},
               call' = [call EXCEPT ![c] = [call[c] EXCEPT !.at = a]]
        PROVE  UNCHANGED Abstract!storeVars
    <2> DEFINE k == [call[c] EXCEPT !.at = a]
    <2>1. k.at = a /\ k.op = call[c].op /\ k.applied = call[c].applied /\ k.result = call[c].result
      BY <1>0 DEF CallOK
    <2>2. call' = [call EXCEPT ![c] = k]
      BY <1>3
    <2> HIDE DEF k
    <2>3. St(k) = St(call[c]) /\ Oc(k) = Oc(call[c])
      BY <1>1, <2>1 DEF St, Oc
    <2> QED BY <1>1, <2>1, <2>2, <2>3, MapSame, Zenon
  <1>4. CASE LoadCached(c)
    BY <1>2, <1>4, ZenonT(60) DEF LoadCached
  <1>5. CASE GetSecret(c)
    <2>1. call' = [call EXCEPT ![c] = [call[c] EXCEPT
                     !.at = IF server.rv = 0 THEN "create" ELSE "got", !.sec = server]]
      BY <1>5, Zenon DEF GetSecret
    <2> QED BY <1>2, <2>1, Zenon
  <1>6. CASE ReGet(c)
    BY <1>2, <1>6, Zenon DEF ReGet
  <1>7. CASE CacheLoaded(c)
    BY <1>3, <1>7 DEF CacheLoaded
  <1>8. CASE CreateSecret(c)
    BY <1>2, <1>3, <1>8, ZenonT(120) DEF CreateSecret
  <1> QED BY <1>4, <1>5, <1>6, <1>7, <1>8

(* An accepted PUT is Store's Commit: the resourceVersion matched, so the   *)
(* document the mutation was applied to is the current one.                 *)
LEMMA MapUpdate ==
  ASSUME CInv, NEW c \in Callers, UpdateSecret(c)
  PROVE  Abstract!Commit(c) \/ UNCHANGED Abstract!storeVars
  <1>0. CallOK(call[c]) /\ Known(call[c].sec, server) /\ call[c].at = "update"
    BY CallShape DEF UpdateSecret
  <1>1. St(call[c]) = "pending"
    BY <1>0 DEF CallOK, St
  <1>2. CASE Current(c)
    <2> DEFINE d == Outcome(call[c].sec.doc, call[c].op)
               k == [call[c] EXCEPT !.at = "won", !.sec = server', !.applied = TRUE]
    <2>0. server' = [rv |-> server.rv + 1, doc |-> d.doc] /\ call' = [call EXCEPT ![c] = k]
      BY <1>2, Zenon DEF UpdateSecret
    <2>1. server'.doc = d.doc /\ call' = [call EXCEPT ![c] = k]
      <3> HIDE DEF d, k
      <3> QED BY <2>0
    <2>2. St(k) = "committed" /\ Oc(k) = Oc(call[c]) /\ k.op = call[c].op
      BY <1>0 DEF CallOK, St, Oc
    <2>3. d.changed /\ d = Outcome(server.doc, call[c].op)
      BY <1>0, <1>2 DEF CallOK, Known, Current
    <2> HIDE DEF k, d
    <2>4. /\ status' = [status EXCEPT ![c] = St(k)] /\ status[c] = St(call[c])
          /\ op[c] = call[c].op
      BY <2>1, MapOne, Zenon
    <2>5. /\ Oc(k) = Oc(call[c]) => outcome' = outcome
          /\ k.op = call[c].op => op' = op
      BY <2>1, MapOne, Zenon
    <2> QED BY <1>1, <2>1, <2>2, <2>3, <2>4, <2>5 DEF Abstract!Commit
  <1>3. CASE ~Current(c)
    <2> DEFINE k == [call[c] EXCEPT !.at = "lost"]
    <2>1. server' = server /\ call' = [call EXCEPT ![c] = k]
      BY <1>3 DEF UpdateSecret
    <2>2. St(k) = "pending" /\ Oc(k) = Oc(call[c]) /\ k.op = call[c].op
      BY <1>0 DEF CallOK, St, Oc
    <2> HIDE DEF k
    <2> QED BY <1>1, <2>1, <2>2, MapSame, Zenon
  <1> QED BY <1>2, <1>3

(* A decision, an answer, a conflict or a lost request is Store's Return,   *)
(* or no step of Store when the call goes on.                               *)
LEMMA MapEnd ==
  ASSUME CInv, NEW c \in Callers, Decide(c) \/ Updated(c) \/ Conflict(c) \/ Unavailable(c)
  PROVE  Abstract!Return(c) \/ UNCHANGED Abstract!storeVars
  <1>0. CallOK(call[c]) /\ server' = server /\ call[c].at \notin {"idle", "done"}
    BY CallShape, Zenon DEF Decide, Updated, Conflict, Unavailable
  <1>2. CASE Decide(c)
    <2> DEFINE r == Outcome(call[c].sec.doc, call[c].op)
    <2>1. r.err \notin {"stored", "unchanged"}
      BY <1>0, Errors, SecretStoreConstants DEF CallOK, IsOp
    <2> HIDE DEF r
    <2>2. CASE call' = [call EXCEPT ![c].at = "update"]
      <3> DEFINE k == [call[c] EXCEPT !.at = "update"]
      <3>1. call' = [call EXCEPT ![c] = k]
        BY <2>2, ZenonT(60)
      <3>2. St(k) = St(call[c]) /\ Oc(k) = Oc(call[c]) /\ k.op = call[c].op
        BY <1>0, <1>2 DEF Decide, CallOK, St, Oc
      <3> HIDE DEF k
      <3> QED BY <1>0, <3>1, <3>2, MapSame, Zenon
    <2>3. CASE r.err # "none" /\ Finish(c, r.err)
      BY <1>0, <2>1, <2>3, MapReturn, ZenonT(60)
    <2>4. CASE Finish(c, "unchanged")
      BY <1>0, <1>2, <2>4, MapReturn DEF Decide
    <2> QED BY <1>2, <2>2, <2>3, <2>4, Zenon DEF Decide, r
  <1>3. CASE Updated(c)
    BY <1>0, <1>3, MapReturn DEF Updated
  <1>4. CASE Conflict(c)
    <2>1. CASE call[c].attempt + 1 < MaxAttempts
      <3> DEFINE k == [call[c] EXCEPT !.at = "load", !.attempt = @ + 1]
      <3>1. call' = [call EXCEPT ![c] = k]
        BY <1>4, <2>1, Zenon DEF Conflict
      <3>2. St(k) = St(call[c]) /\ Oc(k) = Oc(call[c]) /\ k.op = call[c].op
        BY <1>0, <1>4 DEF Conflict, CallOK, St, Oc
      <3> HIDE DEF k
      <3> QED BY <1>0, <3>1, <3>2, MapSame, Zenon
    <2>2. CASE ~(call[c].attempt + 1 < MaxAttempts)
      BY <1>0, <1>4, <2>2, MapReturn DEF Conflict
    <2> QED BY <2>1, <2>2
  <1>5. CASE Unavailable(c)
    BY <1>0, <1>5, MapReturn DEF Unavailable
  <1> QED BY <1>2, <1>3, <1>4, <1>5

(* The replica's own steps: only a restart is seen, as Store's Lose. *)
LEMMA MapReplica ==
  ASSUME CInv, NEW h \in Replicas, Expire(h) \/ Close(h) \/ Restart(h)
  PROVE  Abstract!StoreNext \/ UNCHANGED Abstract!storeVars
  <1>1. CASE UNCHANGED <<server, call>>
    BY <1>1 DEF Abstract!storeVars, status, outcome, op
  <1>2. CASE Restart(h)
    <2> DEFINE C == Running(h)
    <2>1. /\ server' = server
          /\ call' = [c \in Callers |-> IF c \in C
                        THEN [call[c] EXCEPT !.at = "done", !.result = "unavailable"]
                        ELSE call[c]]
      BY <1>2, Zenon DEF Restart
    <2>2. C \in SUBSET Callers /\ \A c \in C : call[c].at \notin {"idle", "done"}
      BY DEF Running
    <2> HIDE DEF C
    <2>3. \A c \in Callers :
            /\ status'[c] = IF c \in C THEN "done" ELSE status[c]
            /\ outcome'[c] = IF c \in C THEN "failed" ELSE outcome[c]
            /\ op'[c] = op[c]
            /\ c \in C => status[c] \in {"pending", "committed"}
      <3> TAKE c \in Callers
      <3>1. CallOK(call[c])
        BY DEF CInv
      <3>2. CASE c \in C
        <4>1. call'[c] = [call[c] EXCEPT !.at = "done", !.result = "unavailable"]
          BY <2>1, <3>2, Zenon
        <4>2. call'[c].at = "done" /\ call'[c].result = "unavailable" /\ call'[c].op = call[c].op
          BY <3>1, <4>1 DEF CallOK
        <4> QED BY <2>2, <3>2, <4>2 DEF status, outcome, op
      <3>3. CASE c \notin C
        <4>1. call'[c] = call[c]
          BY <2>1, <3>3, Zenon
        <4> QED BY <3>3, <4>1 DEF status, outcome, op
      <3> QED BY <3>2, <3>3
    <2>4. /\ status' = [c \in Callers |-> status'[c]] /\ outcome' = [c \in Callers |-> outcome'[c]]
          /\ op = [c \in Callers |-> op[c]] /\ op' = [c \in Callers |-> op'[c]]
      BY DEF status, outcome, op
    <2>5. /\ status' = [c \in Callers |-> IF c \in C THEN "done" ELSE status[c]]
          /\ outcome' = [c \in Callers |-> IF c \in C THEN "failed" ELSE outcome[c]]
          /\ op' = op
      BY <2>3, <2>4
    <2>6. Abstract!Lose(C)
      BY <2>1, <2>2, <2>3, <2>5, Zenon DEF Abstract!Lose
    <2> QED BY <2>2, <2>6 DEF Abstract!StoreNext
  <1> QED BY <1>1, <1>2 DEF Expire, Close

(* The Secret-backed store implements the store.Store contract for every    *)
(* set of replicas and calls: its conditional writes make each mutation one *)
(* atomic change of the current document, and a call reports success only   *)
(* for a change that was made, whatever caches, conflicts, lost answers and *)
(* restarts do.                                                             *)
THEOREM StoreImplemented == Spec => ImplementsStore
  <1>1. Init => Abstract!StoreInit
    BY DEF Init, Abstract!StoreInit, status, outcome, op, Idle
  <1>2. CInv /\ [Next]_vars => [Abstract!StoreNext]_(Abstract!storeVars)
    <2> SUFFICES ASSUME CInv, [Next]_vars
                 PROVE  Abstract!StoreNext \/ UNCHANGED Abstract!storeVars
      OBVIOUS
    <2>1. CASE UNCHANGED vars
      BY <2>1 DEF vars, Abstract!storeVars, status, outcome, op
    <2>2. ASSUME NEW c \in Callers, Begin(c) \/ mutate(c) \/ Unavailable(c)
          PROVE  Abstract!StoreNext \/ UNCHANGED Abstract!storeVars
      <3>1. CASE Begin(c)
        BY <3>1, MapBegin DEF Abstract!StoreNext
      <3>2. CASE LoadCached(c) \/ GetSecret(c) \/ ReGet(c) \/ CacheLoaded(c) \/ CreateSecret(c)
        BY <3>2, MapLoad
      <3>3. CASE UpdateSecret(c)
        BY <3>3, MapUpdate DEF Abstract!StoreNext
      <3>4. CASE Decide(c) \/ Updated(c) \/ Conflict(c) \/ Unavailable(c)
        BY <3>4, MapEnd DEF Abstract!StoreNext
      <3> QED BY <2>2, <3>1, <3>2, <3>3, <3>4 DEF mutate
    <2> QED BY <2>1, <2>2, MapReplica DEF Next
  <1> QED BY <1>1, <1>2, CopiesInvariance, PTL DEF Spec, ImplementsStore, Abstract!StoreSpec

=============================================================================
