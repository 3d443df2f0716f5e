--------------------------- MODULE RegistryProofs ---------------------------
(***************************************************************************)
(* Proofs that the registry's invariants hold for any number of sessions,  *)
(* clusters and concurrent revocation sweeps.                              *)
(***************************************************************************)
EXTENDS Registry, TLAPS

-----------------------------------------------------------------------------
(* Type correctness. *)

(* New builds a well-typed registry. *)
LEMMA TypeInit == Init => TypeOK
<1> SUFFICES ASSUME Init PROVE TypeOK
  OBVIOUS
<1>1. /\ slots \in [Clusters -> [Keys -> Sessions \cup {NoSession}]]
      /\ reply \in [Sessions -> [busy : BOOLEAN, fp : Nat, labels : Nat]]
      /\ facts \in [Sessions -> [fp : Nat, labels : Nat]]
  BY DEF Init
<1>2. revoker \in [Revokers -> [at : {"idle", "judging", "detaching", "reporting",
                                      "closing"}, set : SUBSET Sessions]]
  BY DEF Init
<1> QED
  BY <1>1, <1>2, Zenon DEF Init, TypeOK

(* detachLocked keeps the shape of the pool. *)
LEMMA DetachType ==
  ASSUME TypeOK, NEW S \in SUBSET Sessions, detach(S)
  PROVE  /\ slots' \in [Clusters -> [Keys -> Sessions \cup {NoSession}]]
         /\ entries' \in SUBSET Clusters
         /\ lastSeen' \in [Clusters -> Nat]
<1>1. slots' \in [Clusters -> [Keys -> Sessions \cup {NoSession}]]
  BY DEF TypeOK, detach, Freed
<1>2. entries' \in SUBSET Clusters
  BY DEF TypeOK, detach
<1>3. lastSeen' \in [Clusters -> Nat]
  BY DEF TypeOK, detach
<1> QED
  BY <1>1, <1>2, <1>3

(* The steps of OnSession and of release keep the type. *)
LEMMA SessionType ==
  ASSUME TypeOK, NEW s \in Sessions,
         OnSession(s) \/ CloseDisplaced(s) \/ Release(s) \/ AfterRelease(s)
  PROVE  TypeOK'
<1>1. slotKey(s) \in Keys /\ ClusterOf[s] \in Clusters
  BY RegistryConstants DEF Keys
<1>2. CASE Arrive(s)
  BY <1>2, Zenon DEF Arrive, Reject, TypeOK, poolVars, pollVars, worldVars
<1>3. CASE DescribeOK(s)
  BY <1>3 DEF DescribeOK, TypeOK, poolVars, worldVars
<1>4. CASE DescribeFails(s)
  BY <1>4 DEF DescribeFails, Reject, TypeOK, poolVars, pollVars, worldVars
<1>5. CASE Admit(s)
  <2>1. SlotOf(slots, s) \in Sessions \cup {NoSession}
    BY <1>1 DEF TypeOK, SlotOf
  <2>2. slots' \in [Clusters -> [Keys -> Sessions \cup {NoSession}]]
    BY <1>1, <1>5 DEF Admit, Install, TypeOK
  <2>3. entries' \in SUBSET Clusters
    BY <1>1, <1>5 DEF Admit, TypeOK
  <2> QED
    BY <1>5, <2>1, <2>2, <2>3 DEF Admit, TypeOK, worldVars
<1>6. CASE AdmitRefused(s)
  BY <1>6 DEF AdmitRefused, Reject, TypeOK, poolVars, pollVars, worldVars
<1>7. CASE AfterAdmit(s)
  <2>1. Prev(s) \in SUBSET Sessions
    BY DEF Prev, TypeOK
  <2> QED
    BY <1>7, <2>1 DEF AfterAdmit, TypeOK, poolVars, worldVars
<1>8. CASE CloseDisplaced(s)
  BY <1>8 DEF CloseDisplaced, TypeOK, poolVars, pollVars, worldVars
<1>9. CASE Release(s)
  <2>1. /\ slots' \in [Clusters -> [Keys -> Sessions \cup {NoSession}]]
        /\ entries' \in SUBSET Clusters
        /\ lastSeen' \in [Clusters -> Nat]
    <3>1. CASE detach({s})
      BY <3>1, DetachType
    <3>2. CASE UNCHANGED poolVars
      BY <3>2 DEF TypeOK, poolVars
    <3> QED
      BY <1>9, <3>1, <3>2 DEF Release
  <2>2. pc' \in [Sessions -> {"new", "describing", "admitting", "installed", "attached",
                              "releasing", "gone", "rejected"}]
    <3>1. \E at \in {"releasing", "gone"} : pc' = [pc EXCEPT ![s] = at]
      BY <1>9, Zenon DEF Release
    <3> QED BY <3>1 DEF TypeOK
  <2> QED
    BY <1>9, <2>1, <2>2 DEF Release, TypeOK, worldVars
<1>10. CASE AfterRelease(s)
  BY <1>10 DEF AfterRelease, TypeOK, poolVars, pollVars, worldVars
<1> QED
  BY <1>2, <1>3, <1>4, <1>5, <1>6, <1>7, <1>8, <1>9, <1>10 DEF OnSession

(* The facts poller keeps the type. *)
LEMMA PollerType ==
  ASSUME TypeOK, NEW s \in Sessions, pollFacts(s)
  PROVE  TypeOK'
<1>1. CASE PollDescribe(s)
  BY <1>1 DEF PollDescribe, TypeOK, poolVars, sessionVars, worldVars
<1>2. CASE PollApply(s)
  <2>1. applyFacts(s) \in [fp : Nat, labels : Nat]
    BY DEF applyFacts, TypeOK
  <2> QED
    BY <1>2, <2>1, ZenonT(180) DEF PollApply, TypeOK, poolVars, sessionVars, worldVars
<1>3. CASE PollFails(s)
  BY <1>3, ZenonT(180) DEF PollFails, TypeOK, poolVars, sessionVars, worldVars
<1>4. CASE PollStop(s)
  BY <1>4 DEF PollStop, TypeOK, poolVars, sessionVars, worldVars
<1> QED
  BY <1>1, <1>2, <1>3, <1>4 DEF pollFacts

(* CloseRevokedBy keeps the type. *)
LEMMA RevokerType ==
  ASSUME TypeOK, NEW r \in Revokers, CloseRevokedBy(r)
  PROVE  TypeOK'
<1>1. revoker[r].set \in SUBSET Sessions
  BY DEF TypeOK
<1>2. CASE RevokeSnapshot(r)
  BY <1>2 DEF RevokeSnapshot, TypeOK, poolVars, sessionVars, pollVars, worldVars
<1>3. CASE RevokeJudge(r)
  BY <1>1, <1>3, ZenonT(60) DEF RevokeJudge, TypeOK, poolVars, sessionVars, pollVars, worldVars
<1>4. CASE RevokeDetach(r)
  <2>1. StillHeld(revoker[r].set) \in SUBSET Sessions
    BY <1>1 DEF StillHeld
  <2>2. detach(StillHeld(revoker[r].set))
    BY <1>4 DEF RevokeDetach
  <2>3. revoker' \in [Revokers -> [at : {"idle", "judging", "detaching", "reporting",
                                         "closing"}, set : SUBSET Sessions]]
    BY <1>4, <2>1 DEF RevokeDetach, TypeOK
  <2> QED
    BY <1>4, <2>1, <2>2, <2>3, DetachType
       DEF RevokeDetach, TypeOK, sessionVars, pollVars, worldVars
<1>5. CASE RevokeReport(r)
  BY <1>1, <1>5, ZenonT(180) DEF RevokeReport, TypeOK, poolVars, sessionVars, worldVars
<1>6. CASE RevokeClose(r)
  BY <1>1, <1>6 DEF RevokeClose, TypeOK, poolVars, pollVars, worldVars
<1> QED
  BY <1>2, <1>3, <1>4, <1>5, <1>6 DEF CloseRevokedBy

(* Close keeps the type. *)
LEMMA CloseType ==
  ASSUME TypeOK, Close
  PROVE  TypeOK'
<1>1. CASE CloseStart
  BY <1>1 DEF CloseStart, TypeOK, sessionVars, worldVars
<1>2. CASE CloseTargets
  BY <1>2, Zenon DEF CloseTargets, TypeOK, poolVars, pollVars, worldVars
<1>3. CASE CloseDone
  BY <1>3, Zenon DEF CloseDone, TypeOK, poolVars, sessionVars, pollVars, worldVars
<1> QED
  BY <1>1, <1>2, <1>3 DEF Close

(* The sweeper and the world outside the registry. *)
Outside ==
  \/ \E s \in Sessions : TransportEnds(s) \/ FactsChange(s)
  \/ \E n \in Serials : Revoke(n)
  \/ Sweep \/ LabelsEdited \/ Tick

(* What the spokes, the operators and the sweeper do keeps it. *)
LEMMA OutsideType ==
  ASSUME TypeOK, Outside
  PROVE  TypeOK'
<1>1. ASSUME NEW s \in Sessions, TransportEnds(s) PROVE TypeOK'
  BY <1>1 DEF TransportEnds, TypeOK, poolVars, pollVars, worldVars
<1>2. ASSUME NEW s \in Sessions, FactsChange(s) PROVE TypeOK'
  BY <1>2 DEF FactsChange, TypeOK, poolVars, sessionVars, pollVars
<1>3. ASSUME NEW n \in Serials, Revoke(n) PROVE TypeOK'
  BY <1>3 DEF Revoke, TypeOK, poolVars, sessionVars, pollVars
<1>4. CASE Sweep
  BY <1>4 DEF Sweep, TypeOK, sessionVars, pollVars, worldVars
<1>5. CASE LabelsEdited
  BY <1>5 DEF LabelsEdited, TypeOK, poolVars, sessionVars, pollVars
<1>6. CASE Tick
  BY <1>6 DEF Tick, TypeOK, poolVars, sessionVars, pollVars, worldVars
<1> QED
  BY <1>1, <1>2, <1>3, <1>4, <1>5, <1>6 DEF Outside

(* One step of the specification, by who takes it. *)
LEMMA Steps ==
  ASSUME Next
  PROVE  \/ \E s \in Sessions : \/ OnSession(s) \/ CloseDisplaced(s)
                                \/ Release(s) \/ AfterRelease(s)
         \/ \E s \in Sessions : pollFacts(s)
         \/ \E r \in Revokers : CloseRevokedBy(r)
         \/ Close
         \/ Outside
BY DEF Next, Outside

(* Every step keeps the type. *)
LEMMA TypeStep == TypeOK /\ [Next]_vars => TypeOK'
<1> SUFFICES ASSUME TypeOK, [Next]_vars PROVE TypeOK'
  OBVIOUS
<1>1. CASE Next
  BY <1>1, Steps, SessionType, PollerType, RevokerType, CloseType, OutsideType, ZenonT(60)
<1>2. CASE UNCHANGED vars
  BY <1>2 DEF TypeOK, vars, poolVars, sessionVars, pollVars, worldVars
<1> QED
  BY <1>1, <1>2

(* The registry's state keeps its shape: in particular no nil session is    *)
(* ever queued to be closed, and lastSeen never precedes the epoch.         *)
THEOREM TypeCorrect == Spec => []TypeOK
BY TypeInit, TypeStep, PTL DEF Spec

-----------------------------------------------------------------------------
(* The inductive invariant.  NoOrphanedSession and ClosedIsQuiescent are     *)
(* not inductive alone: they also need to know who may still start a poller, *)
(* what a sweep about to detach has established, and how far Close has got.  *)

Pollers ==
  \A s \in Sessions :
    /\ pc[s] \in {"new", "describing", "admitting"} => poller[s] = "none"
    /\ pc[s] = "installed" => poller[s] = "due"
    /\ reply[s].busy => poller[s] = "running"

Judged ==
  \A r \in Revokers :
    revoker[r].at = "detaching" => \A s \in revoker[r].set : SerialOf[s] \in revoked

Shutdown ==
  /\ closer.at = "idle" <=> ~closed
  /\ closed => \A c \in Clusters, k \in Keys : slots[c][k] = NoSession
  /\ closer.at \in {"waiting", "done"} => closer.targets \subseteq ended
  /\ closer.at = "done" => \A s \in Sessions : poller[s] \in {"none", "stopped"}

Inv ==
  /\ TypeOK /\ SlotsHoldTheirOwn /\ NoOrphanedSession
  /\ Pollers /\ Judged /\ Shutdown

(* New's registry satisfies the inductive invariant. *)
LEMMA InvInit == Init => Inv
<1> SUFFICES ASSUME Init PROVE Inv
  OBVIOUS
<1>1. TypeOK
  BY TypeInit
<1>2. SlotsHoldTheirOwn /\ NoOrphanedSession
  BY DEF Init, SlotsHoldTheirOwn, NoOrphanedSession
<1>3. Pollers /\ Judged /\ Shutdown
  BY ZenonT(60) DEF Init, Pollers, Judged, Shutdown
<1> QED
  BY <1>1, <1>2, <1>3 DEF Inv

(* What detachLocked leaves of one slot. *)
LEMMA DetachSlot ==
  ASSUME NEW S, detach(S), NEW c \in Clusters, NEW k \in Keys
  PROVE  slots'[c][k] = IF \E s \in S : ClusterOf[s] = c /\ slotKey(s) = k
                        THEN NoSession ELSE slots[c][k]
BY DEF detach, Freed

(* What an admission leaves of one slot. *)
LEMMA AdmitSlot ==
  ASSUME TypeOK, NEW s \in Sessions, Admit(s), NEW c \in Clusters, NEW k \in Keys
  PROVE  slots'[c][k] = IF c = ClusterOf[s] /\ k = slotKey(s) THEN s ELSE slots[c][k]
<1>1. slotKey(s) \in Keys /\ ClusterOf[s] \in Clusters
  BY RegistryConstants DEF Keys
<1> QED
  BY <1>1 DEF Admit, Install, TypeOK

(* The slot of a session is one of the registry's. *)
LEMMA PlaceOf ==
  ASSUME NEW s \in Sessions
  PROVE  slotKey(s) \in Keys /\ ClusterOf[s] \in Clusters
BY RegistryConstants, SMTT(60) DEF Keys

(* Slots are written by Admit, detachLocked and Close, and a session that   *)
(* holds one leaves "installed" and "attached" only through release.        *)
LEMMA SlotsStep == Inv /\ [Next]_vars => SlotsHoldTheirOwn'
<1> SUFFICES ASSUME Inv, [Next]_vars,
                    NEW c \in Clusters, NEW k \in Keys, slots'[c][k] # NoSession
             PROVE  /\ ClusterOf[slots'[c][k]] = c /\ slotKey(slots'[c][k]) = k
                    /\ pc'[slots'[c][k]] \in {"installed", "attached"}
  BY ZenonT(60) DEF SlotsHoldTheirOwn
<1> USE DEF Inv
<1>1. slots[c][k] # NoSession => /\ ClusterOf[slots[c][k]] = c /\ slotKey(slots[c][k]) = k
                                 /\ pc[slots[c][k]] \in {"installed", "attached"}
                                 /\ slots[c][k] \in Sessions
  BY DEF SlotsHoldTheirOwn, TypeOK
<1>2. ASSUME NEW s \in Sessions, Admit(s)
      PROVE  /\ ClusterOf[slots'[c][k]] = c /\ slotKey(slots'[c][k]) = k
             /\ pc'[slots'[c][k]] \in {"installed", "attached"}
  <2>1. slots'[c][k] = IF c = ClusterOf[s] /\ k = slotKey(s) THEN s ELSE slots[c][k]
    BY <1>2, AdmitSlot, ZenonT(60)
  <2>2. pc'[s] = "installed" /\ \A t \in Sessions \ {s} : pc'[t] = pc[t]
    BY <1>2, SMTT(60) DEF Admit, TypeOK
  <2> QED
    BY <1>1, <2>1, <2>2, Zenon
<1>3. ASSUME NEW s \in Sessions, Release(s)
      PROVE  /\ ClusterOf[slots'[c][k]] = c /\ slotKey(slots'[c][k]) = k
             /\ pc'[slots'[c][k]] \in {"installed", "attached"}
  <2>1. CASE detach({s})
    <3>1. slots'[c][k] = slots[c][k] /\ ~(ClusterOf[s] = c /\ slotKey(s) = k)
      BY <2>1, DetachSlot
    <3>2. slots[c][k] \in Sessions \ {s}
      BY <1>1, <3>1
    <3>3. \A t \in Sessions \ {s} : pc'[t] = pc[t]
      BY <1>3, Zenon DEF Release, TypeOK
    <3> QED
      BY <1>1, <3>1, <3>2, <3>3
  <2>2. CASE ~Holds(s) /\ UNCHANGED poolVars
    <3>1. slots' = slots
      BY <2>2, ZenonT(60) DEF poolVars
    <3>2. slots[c][k] # s
      BY <1>1, <2>2, <3>1 DEF Holds, SlotOf
    <3> QED
      BY <1>1, <1>3, <3>1, <3>2 DEF Release, TypeOK
  <2> QED
    BY <1>3, <2>1, <2>2, ZenonT(60) DEF Release
<1>4. ASSUME NEW s \in Sessions, OnSession(s) \/ CloseDisplaced(s) \/ AfterRelease(s), ~Admit(s)
      PROVE  /\ ClusterOf[slots'[c][k]] = c /\ slotKey(slots'[c][k]) = k
             /\ pc'[slots'[c][k]] \in {"installed", "attached"}
  <2>1. slots' = slots
    BY <1>4, ZenonT(60) DEF OnSession, Arrive, DescribeOK, DescribeFails, AdmitRefused, AfterAdmit,
                CloseDisplaced, AfterRelease, poolVars
  <2>2. \A t \in Sessions : pc[t] \in {"installed", "attached"}
                             => pc'[t] \in {"installed", "attached"}
    BY <1>4, ZenonT(180) DEF OnSession, Arrive, DescribeOK, DescribeFails, AdmitRefused, AfterAdmit,
                CloseDisplaced, AfterRelease, Reject, TypeOK
  <2> QED
    BY <1>1, <2>1, <2>2
<1>5. ASSUME NEW r \in Revokers, CloseRevokedBy(r)
      PROVE  /\ ClusterOf[slots'[c][k]] = c /\ slotKey(slots'[c][k]) = k
             /\ pc'[slots'[c][k]] \in {"installed", "attached"}
  <2>1. pc' = pc
    BY <1>5 DEF CloseRevokedBy, RevokeSnapshot, RevokeJudge, RevokeDetach, RevokeReport,
                RevokeClose, sessionVars
  <2>2. slots'[c][k] = slots[c][k]
    <3>1. CASE RevokeDetach(r)
      BY <3>1, DetachSlot DEF RevokeDetach
    <3>2. CASE ~RevokeDetach(r)
      BY <1>5, <3>2, Zenon DEF CloseRevokedBy, RevokeSnapshot, RevokeJudge, RevokeReport,
                RevokeClose, poolVars
    <3> QED
      BY <3>1, <3>2, ZenonT(60)
  <2> QED
    BY <1>1, <2>1, <2>2
<1>6. CASE Close
  <2>1. pc' = pc
    BY <1>6 DEF Close, CloseStart, CloseTargets, CloseDone, sessionVars
  <2>2. slots'[c][k] = slots[c][k]
    BY <1>6 DEF Close, CloseStart, CloseTargets, CloseDone, poolVars
  <2> QED
    BY <1>1, <2>1, <2>2
<1>7. CASE \/ \E s \in Sessions : pollFacts(s)
           \/ Outside \/ UNCHANGED vars
  <2>1. slots' = slots /\ pc' = pc
    BY <1>7, Zenon DEF pollFacts, PollDescribe, PollApply, PollFails, PollStop, Outside,
                TransportEnds, FactsChange, Revoke, Sweep, LabelsEdited, Tick, vars,
                poolVars, sessionVars
  <2> QED
    BY <1>1, <2>1, ZenonT(60)
<1> QED
  BY <1>2, <1>3, <1>4, <1>5, <1>6, <1>7, Steps, ZenonT(60)

(* An orphan would need its slot taken by somebody who has not committed to *)
(* closing it.                                                              *)
LEMMA OrphanStep == Inv /\ [Next]_vars => NoOrphanedSession'
<1> SUFFICES ASSUME Inv, [Next]_vars,
                    NEW s \in Sessions, pc'[s] \in {"installed", "attached"}, s \notin ended'
             PROVE  Holds(s)' \/ CloseIsDue(s)'
  BY DEF NoOrphanedSession
<1> USE DEF Inv
<1>1. pc[s] \in {"installed", "attached"} /\ s \notin ended => Holds(s) \/ CloseIsDue(s)
  BY DEF NoOrphanedSession
<1>2. ASSUME NEW t \in Sessions, Admit(t)
      PROVE  Holds(s)' \/ CloseIsDue(s)'
  <2>1. /\ pc' = [pc EXCEPT ![t] = "installed"] /\ pc[t] = "admitting"
        /\ displaced' = [displaced EXCEPT ![t] = SlotOf(slots, t)]
        /\ closing' = closing /\ revoker' = revoker /\ closer' = closer /\ ended' = ended
    BY <1>2 DEF Admit
  <2>2. pc'[t] = "installed" /\ displaced'[t] = SlotOf(slots, t)
    BY <2>1, Zenon DEF TypeOK
  <2>3. \A u \in Sessions : SlotOf(slots', u) =
          IF ClusterOf[u] = ClusterOf[t] /\ slotKey(u) = slotKey(t) THEN t ELSE SlotOf(slots, u)
    BY <1>2, AdmitSlot, PlaceOf, SMTT(60) DEF SlotOf
  <2>4. CASE s = t
    BY <2>3, <2>4 DEF Holds
  <2>5. CASE s # t /\ CloseIsDue(s)
    <3>1. \A u \in Sessions : pc[u] = "installed" /\ displaced[u] = s
                              => pc'[u] = "installed" /\ displaced'[u] = s
      BY <2>1 DEF TypeOK
    <3> QED
      BY <2>1, <2>5, <3>1 DEF CloseIsDue
  <2>6. CASE s # t /\ Holds(s)
    <3>1. CASE ClusterOf[s] = ClusterOf[t] /\ slotKey(s) = slotKey(t)
      BY <2>2, <2>6, <3>1 DEF Holds, SlotOf, CloseIsDue
    <3>2. CASE ~(ClusterOf[s] = ClusterOf[t] /\ slotKey(s) = slotKey(t))
      BY <2>3, <2>6, <3>2 DEF Holds
    <3> QED
      BY <3>1, <3>2
  <2> QED
    BY <1>1, <2>1, <2>4, <2>5, <2>6, ZenonT(60) DEF TypeOK
<1>3. ASSUME NEW t \in Sessions, AfterAdmit(t)
      PROVE  Holds(s)' \/ CloseIsDue(s)'
  <2>1. /\ slots' = slots /\ revoker' = revoker /\ closer' = closer /\ ended' = ended
        /\ pc' = [pc EXCEPT ![t] = "attached"] /\ pc[t] = "installed"
        /\ displaced' = [displaced EXCEPT ![t] = NoSession]
        /\ closing' = closing \cup ({displaced[t]} \ {NoSession})
    BY <1>3 DEF AfterAdmit, Prev, poolVars
  <2>2. pc[s] \in {"installed", "attached"}
    BY <2>1 DEF TypeOK
  <2>3. CASE Holds(s)
    BY <2>1, <2>3 DEF Holds, SlotOf
  <2>4. CASE CloseIsDue(s)
    <3>1. \A u \in Sessions : pc[u] = "installed" /\ displaced[u] = s
                              => s \in closing' \/ (pc'[u] = "installed" /\ displaced'[u] = s)
      BY <2>1, RegistryConstants DEF TypeOK
    <3> QED
      BY <2>1, <2>4, <3>1 DEF CloseIsDue
  <2> QED
    BY <1>1, <2>1, <2>2, <2>3, <2>4
<1>4. ASSUME NEW t \in Sessions, Release(t)
      PROVE  Holds(s)' \/ CloseIsDue(s)'
  <2>1. /\ t \in ended /\ pc[t] = "attached" /\ ended' = ended
        /\ \A u \in Sessions \ {t} : pc'[u] = pc[u]
        /\ displaced' = displaced /\ closing' = closing
        /\ revoker' = revoker /\ closer' = closer
    BY <1>4 DEF Release, TypeOK
  <2>2. s # t
    BY <2>1
  <2>3. CASE Holds(s)
    <3>1. CASE Holds(t) /\ detach({t})
      <4>1. ~(ClusterOf[s] = ClusterOf[t] /\ slotKey(s) = slotKey(t))
        BY <2>2, <2>3, <3>1 DEF Holds, SlotOf
      <4> QED
        BY <2>3, <3>1, <4>1, DetachSlot, PlaceOf DEF Holds, SlotOf
    <3>2. CASE UNCHANGED poolVars
      BY <2>3, <3>2 DEF Holds, SlotOf, poolVars
    <3> QED
      BY <1>4, <3>1, <3>2, Zenon DEF Release
  <2>4. CASE CloseIsDue(s)
    <3>1. \A u \in Sessions : pc[u] = "installed" => pc'[u] = "installed"
      BY <2>1, Zenon
    <3> QED
      BY <2>1, <2>4, <3>1 DEF CloseIsDue
  <2> QED
    BY <1>1, <2>1, <2>2, <2>3, <2>4
<1>5. ASSUME NEW t \in Sessions,
             \/ Arrive(t) \/ DescribeOK(t) \/ DescribeFails(t) \/ AdmitRefused(t)
             \/ CloseDisplaced(t) \/ AfterRelease(t) \/ TransportEnds(t)
      PROVE  Holds(s)' \/ CloseIsDue(s)'
  <2>1. /\ slots' = slots /\ revoker' = revoker /\ closer' = closer
        /\ displaced' = displaced /\ closing \subseteq closing' \cup ended'
        /\ ended \subseteq ended'
        /\ \A u \in Sessions : pc[u] = "installed" => pc'[u] = "installed"
        /\ \A u \in Sessions : pc'[u] \in {"installed", "attached"} => pc'[u] = pc[u]
    BY <1>5, ZenonT(60) DEF Arrive, DescribeOK, DescribeFails, AdmitRefused, CloseDisplaced, AfterRelease,
                TransportEnds, Reject, poolVars, TypeOK
  <2>2. CASE Holds(s)
    BY <2>1, <2>2, Zenon DEF Holds, SlotOf
  <2>3. CASE CloseIsDue(s)
    BY <2>1, <2>3, Zenon DEF CloseIsDue
  <2> QED
    BY <1>1, <2>1, <2>2, <2>3, Zenon
<1>6. ASSUME NEW r \in Revokers, CloseRevokedBy(r)
      PROVE  Holds(s)' \/ CloseIsDue(s)'
  <2>1. /\ pc' = pc /\ displaced' = displaced /\ closing' = closing /\ closer' = closer
        /\ ended \subseteq ended'
    BY <1>6 DEF CloseRevokedBy, RevokeSnapshot, RevokeJudge, RevokeDetach, RevokeReport,
                RevokeClose, sessionVars
  <2>2. \A q \in Revokers : /\ revoker[q].at \in {"reporting", "closing"}
                            /\ s \in revoker[q].set
                            => /\ revoker'[q].at \in {"reporting", "closing"}
                               /\ s \in revoker'[q].set
    <3>1. CASE RevokeSnapshot(r) \/ RevokeJudge(r) \/ RevokeDetach(r)
      BY <3>1, ZenonT(60) DEF RevokeSnapshot, RevokeJudge, RevokeDetach, TypeOK
    <3>2. CASE RevokeReport(r)
      BY <3>2 DEF RevokeReport, TypeOK
    <3>3. CASE RevokeClose(r)
      BY <3>3, Zenon DEF RevokeClose, TypeOK
    <3> QED
      BY <1>6, <3>1, <3>2, <3>3 DEF CloseRevokedBy
  <2>3. CASE CloseIsDue(s)
    BY <2>1, <2>2, <2>3 DEF CloseIsDue
  <2>4. CASE Holds(s) /\ RevokeDetach(r)
    <3>1. detach(StillHeld(revoker[r].set))
      BY <2>4 DEF RevokeDetach
    <3>2. CASE s \in StillHeld(revoker[r].set)
      <4>1. revoker'[r].at = "reporting" /\ revoker'[r].set = StillHeld(revoker[r].set)
        BY <2>4, <3>2 DEF RevokeDetach, TypeOK
      <4> QED
        BY <3>2, <4>1, ZenonT(60) DEF CloseIsDue
    <3>3. CASE s \notin StillHeld(revoker[r].set)
      <4>1. \A u \in StillHeld(revoker[r].set) :
              ~(ClusterOf[u] = ClusterOf[s] /\ slotKey(u) = slotKey(s))
        BY <2>4, <3>3, ZenonT(60) DEF StillHeld, Holds, SlotOf
      <4>2. slotKey(s) \in Keys /\ ClusterOf[s] \in Clusters
        BY PlaceOf, Zenon
      <4>3. slots'[ClusterOf[s]][slotKey(s)] = slots[ClusterOf[s]][slotKey(s)]
        BY <3>1, <4>1, <4>2, DetachSlot, SMTT(60)
      <4> QED
        BY <2>4, <4>3, ZenonT(60) DEF Holds, SlotOf
    <3> QED
      BY <3>2, <3>3
  <2>5. CASE Holds(s) /\ ~RevokeDetach(r)
    <3>1. slots' = slots
      BY <1>6, <2>5 DEF CloseRevokedBy, RevokeSnapshot, RevokeJudge, RevokeReport,
                        RevokeClose, poolVars
    <3> QED
      BY <2>5, <3>1 DEF Holds, SlotOf
  <2> QED
    BY <1>1, <2>1, <2>3, <2>4, <2>5
<1>7. CASE Close
  <2>1. /\ pc' = pc /\ displaced' = displaced /\ closing' = closing /\ revoker' = revoker
        /\ ended \subseteq ended'
    BY <1>7 DEF Close, CloseStart, CloseTargets, CloseDone, sessionVars
  <2>2. CASE CloseStart
    <3>1. closer.at = "idle" /\ closer'.at = "closing"
          /\ closer'.targets = {u \in Sessions : Holds(u)}
      BY <2>2, Zenon DEF CloseStart, Shutdown
    <3> QED
      BY <1>1, <2>1, <3>1, Zenon DEF CloseIsDue
  <2>3. CASE CloseTargets
    <3>1. slots' = slots /\ ended' = ended \cup closer.targets
      BY <2>3, ZenonT(60) DEF CloseTargets, poolVars
    <3> QED
      BY <1>1, <2>1, <3>1 DEF CloseIsDue, Holds, SlotOf
  <2>4. CASE CloseDone
    <3>1. slots' = slots /\ closer.at = "waiting"
      BY <2>4, ZenonT(60) DEF CloseDone, poolVars
    <3> QED
      BY <1>1, <2>1, <3>1 DEF CloseIsDue, Holds, SlotOf
  <2> QED
    BY <1>7, <2>2, <2>3, <2>4 DEF Close
<1>8. CASE \/ \E t \in Sessions : pollFacts(t) \/ FactsChange(t)
           \/ \E n \in Serials : Revoke(n)
           \/ Sweep \/ LabelsEdited \/ Tick \/ UNCHANGED vars
  <2>1. /\ slots' = slots /\ revoker' = revoker /\ closer' = closer
        /\ pc' = pc /\ displaced' = displaced /\ ended' = ended /\ closing' = closing
    BY <1>8 DEF pollFacts, PollDescribe, PollApply, PollFails, PollStop, FactsChange, Revoke,
                Sweep, LabelsEdited, Tick, vars, poolVars, sessionVars
  <2> QED
    BY <1>1, <2>1 DEF Holds, SlotOf, CloseIsDue
<1> QED
  BY <1>2, <1>3, <1>4, <1>5, <1>6, <1>7, <1>8, Steps DEF OnSession, Outside

(* Only the admission critical section takes a poller out of "none", and it *)
(* leaves the session "installed" until the poller is started.              *)
LEMMA PollersStep == Inv /\ [Next]_vars => Pollers'
<1> SUFFICES ASSUME Inv, [Next]_vars PROVE Pollers'
  OBVIOUS
<1> USE DEF Inv
<1>1. ASSUME NEW t \in Sessions, OnSession(t) PROVE Pollers'
  <2>1. CASE Arrive(t) \/ DescribeOK(t)
    BY <2>1 DEF Arrive, DescribeOK, Reject, Pollers, TypeOK, pollVars
  <2>2. CASE DescribeFails(t) \/ AdmitRefused(t)
    BY <2>2, Zenon DEF DescribeFails, AdmitRefused, Reject, Pollers, TypeOK, pollVars
  <2>3. CASE Admit(t)
    BY <2>3, Zenon DEF Admit, Pollers, TypeOK
  <2>4. CASE AfterAdmit(t)
    BY <2>4, ZenonT(60) DEF AfterAdmit, Pollers, TypeOK
  <2> QED
    BY <1>1, <2>1, <2>2, <2>3, <2>4, ZenonT(60) DEF OnSession
<1>2. ASSUME NEW t \in Sessions, CloseDisplaced(t) \/ Release(t) \/ AfterRelease(t)
      PROVE  Pollers'
  BY <1>2 DEF CloseDisplaced, Release, AfterRelease, Pollers, TypeOK, pollVars
<1>3. ASSUME NEW t \in Sessions, pollFacts(t) PROVE Pollers'
  <2>1. pc' = pc
    BY <1>3, ZenonT(60) DEF pollFacts, PollDescribe, PollApply, PollFails, PollStop, sessionVars
  <2>2. CASE PollDescribe(t)
    BY <2>1, <2>2 DEF PollDescribe, Pollers, TypeOK
  <2>3. CASE PollApply(t) \/ PollFails(t)
    BY <2>1, <2>3, Zenon DEF PollApply, PollFails, Pollers, TypeOK
  <2>4. CASE PollStop(t)
    BY <2>1, <2>4 DEF PollStop, Pollers, TypeOK
  <2> QED
    BY <1>3, <2>2, <2>3, <2>4 DEF pollFacts
<1>4. CASE \/ \E r \in Revokers : CloseRevokedBy(r)
           \/ Close \/ Outside \/ UNCHANGED vars
  <2>1. pc' = pc /\ poller' = poller /\ reply' = reply
    BY <1>4, Zenon DEF CloseRevokedBy, RevokeSnapshot, RevokeJudge, RevokeDetach, RevokeReport,
                RevokeClose, Close, CloseStart, CloseTargets, CloseDone, Outside,
                TransportEnds, FactsChange, Revoke, Sweep, LabelsEdited, Tick, vars,
                sessionVars, pollVars
  <2> QED
    BY <2>1, Zenon DEF Pollers
<1> QED
  BY <1>1, <1>2, <1>3, <1>4, Steps

(* The revocation list only grows, so a judgement stays true. *)
LEMMA JudgedStep == Inv /\ [Next]_vars => Judged'
<1> SUFFICES ASSUME Inv, [Next]_vars PROVE Judged'
  OBVIOUS
<1> USE DEF Inv
<1>1. ASSUME NEW r \in Revokers, CloseRevokedBy(r) PROVE Judged'
  <2>1. revoked' = revoked
    BY <1>1, ZenonT(60) DEF CloseRevokedBy, RevokeSnapshot, RevokeJudge, RevokeDetach, RevokeReport,
                RevokeClose, worldVars
  <2>2. CASE RevokeJudge(r)
    BY <2>1, <2>2 DEF RevokeJudge, Judged, TypeOK
  <2>3. CASE RevokeSnapshot(r) \/ RevokeClose(r)
    <3>1. CASE RevokeSnapshot(r)
      BY <2>1, <3>1, Zenon DEF RevokeSnapshot, Judged, TypeOK
    <3>2. CASE RevokeClose(r)
      BY <2>1, <3>2, Zenon DEF RevokeClose, Judged, TypeOK
    <3> QED
      BY <2>3, <3>1, <3>2, Zenon
  <2>4. CASE RevokeDetach(r)
    BY <2>1, <2>4, Zenon DEF RevokeDetach, Judged, TypeOK
  <2>5. CASE RevokeReport(r)
    BY <2>1, <2>5 DEF RevokeReport, Judged, TypeOK
  <2> QED
    BY <1>1, <2>2, <2>3, <2>4, <2>5 DEF CloseRevokedBy
<1>2. CASE \/ \E s \in Sessions : \/ OnSession(s) \/ CloseDisplaced(s)
                                  \/ Release(s) \/ AfterRelease(s) \/ pollFacts(s)
           \/ Close \/ Outside \/ UNCHANGED vars
  <2>1. revoker' = revoker /\ revoked \subseteq revoked'
    BY <1>2, ZenonT(60) DEF OnSession, Arrive, DescribeOK, DescribeFails, Admit, AdmitRefused, AfterAdmit,
                CloseDisplaced, Release, AfterRelease, pollFacts, PollDescribe, PollApply,
                PollFails, PollStop, Close, CloseStart, CloseTargets, CloseDone, Outside,
                TransportEnds, FactsChange, Revoke, Sweep, LabelsEdited, Tick, vars, worldVars
  <2> QED
    BY <2>1 DEF Judged
<1> QED
  BY <1>1, <1>2, Steps

(* Once closed, nothing enters a slot and nothing starts a poller that      *)
(* Close has not waited for.                                                *)
LEMMA ShutdownStep == Inv /\ [Next]_vars => Shutdown'
<1> SUFFICES ASSUME Inv, [Next]_vars PROVE Shutdown'
  OBVIOUS
<1> USE DEF Inv
<1>1. CASE CloseStart
  BY <1>1 DEF CloseStart, Shutdown
<1>2. CASE CloseTargets
  BY <1>2 DEF CloseTargets, Shutdown, TypeOK, poolVars
<1>3. CASE CloseDone
  BY <1>3 DEF CloseDone, Shutdown, TypeOK, poolVars, sessionVars, pollVars
<1>4. ASSUME closed' = closed, closer' = closer, ended \subseteq ended',
             closed => \A c \in Clusters, k \in Keys : slots'[c][k] = NoSession,
             closed => \A s \in Sessions : poller[s] \in {"none", "stopped"}
                                         => poller'[s] \in {"none", "stopped"}
      PROVE  Shutdown'
  BY <1>4 DEF Shutdown
<1>5. ASSUME NEW s \in Sessions, OnSession(s) PROVE Shutdown'
  <2>1. CASE Admit(s)
    BY <1>4, <2>1, Zenon DEF Admit, Refused
  <2>2. CASE AfterAdmit(s)
    <3>1. poller[s] = "due" /\ poller' = [poller EXCEPT ![s] = "running"]
      BY <2>2 DEF AfterAdmit, Pollers
    <3>2. closed' = closed /\ closer' = closer /\ ended' = ended /\ slots' = slots
      BY <2>2 DEF AfterAdmit, poolVars
    <3>3. \A t \in Sessions : poller[t] \in {"none", "stopped"}
                              => poller'[t] \in {"none", "stopped"}
      BY <3>1 DEF TypeOK
    <3> QED
      BY <1>4, <3>2, <3>3, ZenonT(60) DEF Shutdown
  <2>3. CASE Arrive(s) \/ DescribeOK(s) \/ DescribeFails(s) \/ AdmitRefused(s)
    BY <1>4, <2>3, Zenon DEF Arrive, DescribeOK, DescribeFails, AdmitRefused, Reject, Shutdown,
                      poolVars, pollVars
  <2> QED
    BY <1>5, <2>1, <2>2, <2>3, Zenon DEF OnSession
<1>6. ASSUME NEW s \in Sessions, Release(s) PROVE Shutdown'
  <2>1. closed => \A c \in Clusters, k \in Keys : slots'[c][k] = NoSession
    <3>1. CASE detach({s})
      <4> SUFFICES ASSUME closed, NEW c \in Clusters, NEW k \in Keys
                   PROVE  slots'[c][k] = NoSession
        OBVIOUS
      <4>1. slots[c][k] = NoSession
        BY Zenon DEF Shutdown
      <4> QED
        BY <3>1, <4>1, DetachSlot, Zenon
    <3>2. CASE UNCHANGED poolVars
      BY <3>2 DEF Shutdown, poolVars
    <3> QED
      BY <1>6, <3>1, <3>2 DEF Release
  <2> QED
    BY <1>4, <1>6, <2>1 DEF Release
<1>7. ASSUME NEW r \in Revokers, CloseRevokedBy(r) PROVE Shutdown'
  <2>1. closed' = closed /\ closer' = closer /\ ended \subseteq ended' /\ poller' = poller
    BY <1>7 DEF CloseRevokedBy, RevokeSnapshot, RevokeJudge, RevokeDetach, RevokeReport,
                RevokeClose, sessionVars, pollVars
  <2>2. closed => \A c \in Clusters, k \in Keys : slots'[c][k] = NoSession
    <3>1. CASE RevokeDetach(r)
      <4> SUFFICES ASSUME closed, NEW c \in Clusters, NEW k \in Keys
                   PROVE  slots'[c][k] = NoSession
        OBVIOUS
      <4>1. slots[c][k] = NoSession
        BY DEF Shutdown
      <4>2. detach(StillHeld(revoker[r].set))
        BY <3>1 DEF RevokeDetach
      <4> QED
        BY <4>1, <4>2, DetachSlot, Zenon
    <3>2. CASE ~RevokeDetach(r)
      BY <1>7, <3>2, ZenonT(60) DEF CloseRevokedBy, RevokeSnapshot, RevokeJudge, RevokeReport,
                        RevokeClose, Shutdown, poolVars
    <3> QED
      BY <3>1, <3>2, Zenon
  <2> QED
    BY <1>4, <2>1, <2>2
<1>8. ASSUME NEW s \in Sessions, pollFacts(s) PROVE Shutdown'
  <2>1. /\ closed' = closed /\ closer' = closer /\ ended' = ended /\ slots' = slots
        /\ \A t \in Sessions : poller[t] \in {"none", "stopped"}
                                => poller'[t] \in {"none", "stopped"}
    BY <1>8, SMTT(60) DEF pollFacts, PollDescribe, PollApply, PollFails, PollStop, TypeOK, poolVars,
                sessionVars
  <2> QED
    BY <1>4, <2>1 DEF Shutdown
<1>9. CASE \/ \E s \in Sessions : CloseDisplaced(s) \/ AfterRelease(s)
           \/ Outside \/ UNCHANGED vars
  <2>1. /\ closed' = closed /\ closer' = closer /\ ended \subseteq ended' /\ slots' = slots
        /\ poller' = poller
    BY <1>9, Zenon DEF CloseDisplaced, AfterRelease, Outside, TransportEnds, FactsChange, Revoke,
                Sweep, LabelsEdited, Tick, vars, poolVars, sessionVars, pollVars
  <2> QED
    BY <1>4, <2>1 DEF Shutdown
<1> QED
  BY <1>1, <1>2, <1>3, <1>5, <1>6, <1>7, <1>8, <1>9, Steps DEF Close

(* Every step keeps the inductive invariant. *)
LEMMA InvStep == Inv /\ [Next]_vars => Inv'
BY TypeStep, SlotsStep, OrphanStep, PollersStep, JudgedStep, ShutdownStep DEF Inv

(* The inductive invariant holds in every reachable state. *)
LEMMA Invariance == Spec => []Inv
BY InvInit, InvStep, PTL DEF Spec

-----------------------------------------------------------------------------
(* The theorems. *)

(* A slot is only ever held by an admitted, unreleased session of that very *)
(* slot and cluster (OnSession, detachLocked).                              *)
THEOREM SlotsCorrect == Spec => []SlotsHoldTheirOwn
<1>1. Inv => SlotsHoldTheirOwn
  BY DEF Inv
<1> QED
  BY <1>1, Invariance, PTL

(* However admissions, releases, revocation sweeps and shutdown interleave, *)
(* no open tunnel is left that nobody can route to and nobody will close.   *)
THEOREM NoOrphans == Spec => []NoOrphanedSession
<1>1. Inv => NoOrphanedSession
  BY DEF Inv
<1> QED
  BY <1>1, Invariance, PTL

(* When Close returns every slot is empty, what it closed has ended and no  *)
(* facts poller runs: WaitGroup.Add under the lock is enough.               *)
THEOREM CloseIsFinal == Spec => []ClosedIsQuiescent
<1>1. ASSUME Inv PROVE ClosedIsQuiescent
  <2> SUFFICES ASSUME closer.at = "done"
               PROVE  /\ \A c \in Clusters : Pool(slots, c) = {}
                      /\ closer.targets \subseteq ended
                      /\ \A s \in Sessions : poller[s] \in {"none", "stopped"} /\ ~reply[s].busy
    BY DEF ClosedIsQuiescent
  <2> USE <1>1 DEF Inv
  <2>1. \A c \in Clusters, k \in Keys : slots[c][k] = NoSession
    BY DEF Shutdown
  <2>2. \A c \in Clusters : Pool(slots, c) = {}
    BY <2>1 DEF Pool
  <2>3. closer.targets \subseteq ended /\ \A s \in Sessions : poller[s] \in {"none", "stopped"}
    BY DEF Shutdown
  <2>4. \A s \in Sessions : ~reply[s].busy
    BY <2>3 DEF Pollers
  <2> QED
    BY <2>2, <2>3, <2>4
<1> QED
  BY <1>1, Invariance, PTL

(* A slot changes hands only because its session ended, was revoked, the    *)
(* registry closed, or a session of the same pod at least as new came: a    *)
(* slow release or revocation sweep never evicts a successor.               *)
THEOREM SlotsLeaveForAReason == Spec => LeavesForAReason
<1> DEFINE Reason(c, k) ==
      LET s == slots[c][k]
          t == slots'[c][k]
      IN  s # NoSession /\ t # s =>
            \/ s \in ended
            \/ SerialOf[s] \in revoked
            \/ closed'
            \/ t # NoSession /\ GenerationOf[t] >= GenerationOf[s]
<1>1. Inv /\ [Next]_vars => [\A c \in Clusters, k \in Keys : Reason(c, k)]_vars
  <2> SUFFICES ASSUME Inv, Next, NEW c \in Clusters, NEW k \in Keys
               PROVE  Reason(c, k)
    BY SMTT(60)
  <2> USE DEF Inv
  <2>1. ASSUME NEW t \in Sessions, Admit(t) PROVE Reason(c, k)
    <3>1. slots'[c][k] = IF c = ClusterOf[t] /\ k = slotKey(t) THEN t ELSE slots[c][k]
      BY <2>1, AdmitSlot
    <3>2. CASE c = ClusterOf[t] /\ k = slotKey(t) /\ slots[c][k] # NoSession
      <4>1. slots[c][k] \in Sessions
        BY <3>2, SMTT(60) DEF TypeOK
      <4>2. ~(GenerationOf[t] < GenerationOf[slots[c][k]])
        BY <2>1, <3>2 DEF Admit, Refused, Stale, SlotOf
      <4>3. GenerationOf[t] \in Nat /\ GenerationOf[slots[c][k]] \in Nat
        BY <4>1, RegistryConstants, SMTT(60)
      <4>4. GenerationOf[t] >= GenerationOf[slots[c][k]]
        BY <4>2, <4>3, SMTT(60)
      <4>5. slots'[c][k] = t /\ t # NoSession
        BY <3>1, <3>2, RegistryConstants
      <4> QED
        BY <4>4, <4>5
    <3> QED
      BY <3>1, <3>2, ZenonT(60)
  <2>2. ASSUME NEW t \in Sessions, Release(t) PROVE Reason(c, k)
    <3>1. CASE Holds(t) /\ detach({t})
      <4>1. slots'[c][k] = IF ClusterOf[t] = c /\ slotKey(t) = k THEN NoSession ELSE slots[c][k]
        BY <3>1, DetachSlot
      <4>2. ClusterOf[t] = c /\ slotKey(t) = k => slots[c][k] = t
        BY <3>1 DEF Holds, SlotOf
      <4>3. t \in ended
        BY <2>2 DEF Release
      <4> QED
        BY <4>1, <4>2, <4>3, ZenonT(60)
    <3>2. CASE UNCHANGED poolVars
      BY <3>2, Zenon DEF poolVars
    <3> QED
      BY <2>2, <3>1, <3>2, ZenonT(60) DEF Release
  <2>3. ASSUME NEW r \in Revokers, RevokeDetach(r) PROVE Reason(c, k)
    <3> DEFINE V == StillHeld(revoker[r].set)
    <3>1. detach(V)
      BY <2>3 DEF RevokeDetach
    <3>2. \A s \in V : Holds(s) /\ SerialOf[s] \in revoked
      BY <2>3 DEF RevokeDetach, Judged, StillHeld
    <3> HIDE DEF V
    <3>3. slots'[c][k] = IF \E s \in V : ClusterOf[s] = c /\ slotKey(s) = k
                         THEN NoSession ELSE slots[c][k]
      BY <3>1, DetachSlot
    <3>4. \A s \in V :
            ClusterOf[s] = c /\ slotKey(s) = k => slots[c][k] = s /\ SerialOf[s] \in revoked
      BY <3>2, Zenon DEF Holds, SlotOf
    <3> QED
      BY <3>3, <3>4
  <2>4. CASE CloseStart
    BY <2>4 DEF CloseStart
  <2>5. ASSUME slots' = slots PROVE Reason(c, k)
    BY <2>5, SMTT(60)
  <2>6. CASE \/ \E s \in Sessions :
                  \/ Arrive(s) \/ DescribeOK(s) \/ DescribeFails(s) \/ AdmitRefused(s)
                  \/ AfterAdmit(s) \/ CloseDisplaced(s) \/ AfterRelease(s) \/ pollFacts(s)
             \/ \E r \in Revokers : \/ RevokeSnapshot(r) \/ RevokeJudge(r)
                                     \/ RevokeReport(r) \/ RevokeClose(r)
             \/ CloseTargets \/ CloseDone \/ Outside
    <3>1. slots' = slots
      BY <2>6, ZenonT(60) DEF Arrive, DescribeOK, DescribeFails, AdmitRefused, AfterAdmit, CloseDisplaced,
           AfterRelease, pollFacts, PollDescribe, PollApply, PollFails, PollStop,
           RevokeSnapshot, RevokeJudge, RevokeReport, RevokeClose, CloseTargets, CloseDone,
           Outside, TransportEnds, FactsChange, Revoke, Sweep, LabelsEdited, Tick, poolVars
    <3> QED
      BY <2>5, <3>1, SMTT(60)
  <2> QED
    BY <2>1, <2>2, <2>3, <2>4, <2>6, Steps, ZenonT(60) DEF OnSession, CloseRevokedBy, Close
<1> QED
  BY <1>1, Invariance, PTL DEF Spec, LeavesForAReason

(* detachLocked keeps a cluster listed unless it disables the window. *)
LEMMA DetachKeepsListed ==
  ASSUME TypeOK, NEW S \in SUBSET Sessions, detach(S), now' = now,
         NEW c \in Clusters, present(c)
  PROVE  present(c)' \/ (Pool(slots', c) = {} /\ Grace = 0)
<1>1. c \in entries /\ (Pool(slots, c) # {} \/ now - lastSeen[c] <= Grace)
  BY DEF present
<1>2. CASE Pool(slots', c) # {}
  <2>1. c \in entries'
    BY <1>1, <1>2, Zenon DEF detach
  <2> QED
    BY <1>2, <2>1 DEF present
<1>3. CASE Pool(slots', c) = {} /\ Pool(slots, c) # {} /\ Grace # 0
  <2>1. lastSeen'[c] = now /\ entries' = entries
    BY <1>3 DEF detach
  <2>2. now \in Nat /\ Grace \in Nat
    BY RegistryConstants DEF TypeOK
  <2>3. now' - lastSeen'[c] <= Grace
    BY <2>1, <2>2
  <2> QED
    BY <1>1, <2>1, <2>3 DEF present
<1>4. CASE Pool(slots', c) = {} /\ Pool(slots, c) = {}
  <2>1. lastSeen'[c] = lastSeen[c] /\ c \in entries'
    BY <1>1, <1>4 DEF detach
  <2> QED
    BY <1>1, <1>4, <2>1, Zenon DEF present
<1> QED
  BY <1>2, <1>3, <1>4

(* A listed cluster disappears only with the registry, with its last slot   *)
(* when the window is disabled, or after the window (presentLocked, sweep). *)
THEOREM ListedThroughGrace == Spec => ForgottenOnlyAfterGrace
<1>1. Inv /\ [Next]_vars => [\A c \in Clusters : ForgetsAfterGrace(c)]_vars
  <2> SUFFICES ASSUME Inv, Next, NEW c \in Clusters, present(c)
               PROVE  \/ present(c)' \/ closed'
                      \/ Pool(slots', c) = {} /\ Grace = 0
                      \/ Pool(slots, c) \cup Pool(slots', c) = {} /\ now' > lastSeen[c] + Grace
    BY DEF ForgetsAfterGrace
  <2> USE DEF Inv
  <2>1. ASSUME NEW t \in Sessions, Admit(t) PROVE present(c)'
    <3>1. /\ entries' = entries \cup {ClusterOf[t]} /\ now' = now /\ lastSeen' = lastSeen
      BY <2>1 DEF Admit
    <3>2. CASE c = ClusterOf[t]
      <4>1. slots'[c][slotKey(t)] = t /\ t # NoSession /\ slotKey(t) \in Keys
        BY <2>1, <3>2, AdmitSlot, PlaceOf, RegistryConstants, Zenon
      <4> QED
        BY <3>1, <3>2, <4>1, Zenon DEF present, Pool
    <3>3. CASE c # ClusterOf[t]
      <4>1. \A k \in Keys : slots'[c][k] = slots[c][k]
        BY <2>1, <3>3, AdmitSlot
      <4> QED
        BY <3>1, <4>1 DEF present, Pool
    <3> QED
      BY <3>2, <3>3
  <2>2. ASSUME NEW S \in SUBSET Sessions, detach(S), now' = now
        PROVE  present(c)' \/ (Pool(slots', c) = {} /\ Grace = 0)
    BY <2>2, DetachKeepsListed, Zenon
  <2>3. ASSUME NEW t \in Sessions, Release(t), ~UNCHANGED poolVars
        PROVE  present(c)' \/ (Pool(slots', c) = {} /\ Grace = 0)
    BY <2>2, <2>3, Zenon DEF Release
  <2>4. ASSUME NEW r \in Revokers, RevokeDetach(r)
        PROVE  present(c)' \/ (Pool(slots', c) = {} /\ Grace = 0)
    <3>1. StillHeld(revoker[r].set) \in SUBSET Sessions
      BY DEF StillHeld, TypeOK
    <3> QED
      BY <2>2, <2>4, <3>1 DEF RevokeDetach
  <2>5. CASE CloseStart
    BY <2>5 DEF CloseStart
  <2>6. CASE Sweep
    <3>1. c \in entries' /\ slots' = slots /\ lastSeen' = lastSeen /\ now' = now
      BY <2>6 DEF Sweep, present
    <3> QED
      BY <3>1 DEF present
  <2>7. CASE Tick
    <3>1. slots' = slots /\ lastSeen' = lastSeen /\ entries' = entries
      BY <2>7, Zenon DEF Tick, poolVars
    <3>2. now' \in Nat /\ lastSeen[c] \in Nat /\ Grace \in Nat
      BY TypeStep, RegistryConstants, Zenon DEF TypeOK
    <3> QED
      BY <3>1, <3>2 DEF present
  <2>8. ASSUME UNCHANGED poolVars, now' = now PROVE present(c)'
    BY <2>8 DEF present, poolVars, Pool
  <2>9. CASE \/ \E s \in Sessions :
                  \/ Arrive(s) \/ DescribeOK(s) \/ DescribeFails(s) \/ AdmitRefused(s)
                  \/ AfterAdmit(s) \/ CloseDisplaced(s) \/ AfterRelease(s) \/ pollFacts(s)
                  \/ Release(s) /\ UNCHANGED poolVars
                  \/ TransportEnds(s) \/ FactsChange(s)
             \/ \E r \in Revokers : \/ RevokeSnapshot(r) \/ RevokeJudge(r)
                                     \/ RevokeReport(r) \/ RevokeClose(r)
             \/ \E n \in Serials : Revoke(n)
             \/ CloseTargets \/ CloseDone \/ LabelsEdited
    <3>1. UNCHANGED poolVars /\ now' = now
      BY <2>9, Zenon DEF Arrive, DescribeOK, DescribeFails, AdmitRefused, AfterAdmit, CloseDisplaced,
           AfterRelease, pollFacts, PollDescribe, PollApply, PollFails, PollStop, Release,
           RevokeSnapshot, RevokeJudge, RevokeReport, RevokeClose, CloseTargets, CloseDone,
           TransportEnds, FactsChange, Revoke, LabelsEdited
    <3> QED
      BY <2>8, <3>1
  <2> QED
    BY <2>1, <2>3, <2>4, <2>5, <2>6, <2>7, <2>9, Steps, Zenon DEF OnSession, CloseRevokedBy, Close, Outside
<1> QED
  BY <1>1, Invariance, PTL DEF Spec, ForgottenOnlyAfterGrace

=============================================================================
