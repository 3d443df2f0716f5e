------------------------------ MODULE Registry ------------------------------
(***************************************************************************)
(* The hub's in-memory session registry (internal/registry).  A cluster    *)
(* owns a pool of slots, one per spoke pod; a session is admitted into the *)
(* slot its identity names, may be displaced there by a session of the     *)
(* same pod, and leaves it by release, by revocation or by shutdown.       *)
(*                                                                         *)
(* Every critical section of Registry.mu is one action.  What the code     *)
(* does after it unlocks (cancel, asynchronous close, metrics) is another, *)
(* so that other goroutines may run in between.  A session is admitted at  *)
(* most once, so the pointer to its slot is represented by the session.    *)
(***************************************************************************)
EXTENDS Integers, FiniteSets

CONSTANTS
  Sessions,      \* tunnel sessions a transport may offer
  Clusters,      \* cluster ids the CA has issued certificates for
  Revokers,      \* goroutines that may run CloseRevokedBy
  NoSession,     \* an empty slot
  NoInstance,    \* an identity that carries no InstanceID
  NoSerial,      \* an identity that carries no CertSerial
  ClusterOf,     \* Identity().ClusterID of each session
  InstanceOf,    \* Identity().InstanceID
  SerialOf,      \* Identity().CertSerial
  GenerationOf,  \* process start time of the spoke behind the session
  Grace,         \* Options.DisconnectGrace in ticks; 0 is "disabled"
  MaxTime,       \* bound on the clock
  MaxFacts,      \* bound on the changes of the facts behind each session
  MaxEdits       \* bound on the operator's label edits

Serials == {SerialOf[s] : s \in Sessions} \ {NoSerial}

(* slotKey: the pod's own identity, else its certificate, else a fresh     *)
(* value of anonSeq, which no other session shares.                        *)
slotKey(s) ==
  IF InstanceOf[s] # NoInstance THEN <<"instance", InstanceOf[s]>>
  ELSE IF SerialOf[s] # NoSerial THEN <<"cert", SerialOf[s]>>
  ELSE <<"anon", s>>

Keys == {slotKey(s) : s \in Sessions}

ASSUME RegistryConstants ==
  /\ IsFiniteSet(Sessions) /\ IsFiniteSet(Clusters)
  /\ NoSession \notin Sessions
  /\ ClusterOf \in [Sessions -> Clusters]
  /\ GenerationOf \in [Sessions -> Nat]
  /\ Grace \in Nat /\ MaxTime \in Nat /\ MaxEdits \in Nat /\ MaxFacts \in [Sessions -> Nat]

VARIABLES
  slots,      \* slots[c][k]: the session holding slot k of cluster c's entry
  entries,    \* clusters that have an entry
  lastSeen,   \* lastCluster.LastSeen, frozen when the last slot leaves
  closed,     \* Registry.closed
  closer,     \* where the caller of Close is, and the sessions it must close
  pc,         \* where each session is in OnSession and release
  displaced,  \* the session an admission displaced and has yet to cancel
  ended,      \* sessions whose Done channel is closed
  closing,    \* sessions an asynchronous closeSession(ReplacedReason) is due on
  poller,     \* facts poller of each session
  cancelled,  \* sessions whose poller context has been cancelled
  reply,      \* the Describe reply and merged labels a poller is applying
  facts,      \* what the slot of a session holds: fingerprint and labels
  spokeFacts, \* the fingerprint the spoke would report now
  opLabels,   \* version of the operator's labels in the credential store
  revoked,    \* serials on the revocation list
  revoker,    \* where each CloseRevokedBy is
  now         \* the clock

sessionVars == <<pc, displaced, ended, closing>>
pollVars    == <<poller, cancelled, reply, facts>>
poolVars    == <<slots, entries, lastSeen>>
worldVars   == <<spokeFacts, opLabels, revoked>>
vars == <<poolVars, closed, closer, sessionVars, pollVars, worldVars, revoker,
          now>>

SlotOf(sl, s) == sl[ClusterOf[s]][slotKey(s)]
Pool(sl, c) == {sl[c][k] : k \in Keys} \ {NoSession}

(* presentLocked, as the read paths and the sweeper both apply it. *)
present(c) ==
  /\ c \in entries
  /\ Pool(slots, c) # {} \/ now - lastSeen[c] <= Grace

(* Mutant: the delete is forgotten. *)
FreedNothing(S) == slots

(* detachLocked for the sessions in S: their keys leave the map whoever is  *)
(* there now, so callers check first.  A pool this empties is frozen, or    *)
(* forgotten when the window is disabled.                                   *)
Freed(S) ==
  [c \in Clusters |-> [k \in Keys |->
     IF \E s \in S : ClusterOf[s] = c /\ slotKey(s) = k THEN NoSession ELSE slots[c][k]]]

(* Mutant: an emptied pool keeps the time it was frozen at before. *)
detachUnfrozen(S) ==
  /\ slots' = Freed(S)
  /\ UNCHANGED <<lastSeen, entries>>

detach(S) ==
  LET emptied == {c \in Clusters : Pool(slots, c) # {} /\ Pool(Freed(S), c) = {}}
  IN  /\ slots' = Freed(S)
      /\ lastSeen' = [c \in Clusters |-> IF c \in emptied THEN now ELSE lastSeen[c]]
      /\ entries' = IF Grace = 0 THEN entries \ emptied ELSE entries

Holds(s) == SlotOf(slots, s) = s

TypeOK ==
  /\ slots \in [Clusters -> [Keys -> Sessions \cup {NoSession}]]
  /\ entries \in SUBSET Clusters
  /\ lastSeen \in [Clusters -> Nat]
  /\ closed \in BOOLEAN
  /\ closer \in [at : {"idle", "closing", "waiting", "done"}, targets : SUBSET Sessions]
  /\ pc \in [Sessions -> {"new", "describing", "admitting", "installed", "attached",
                          "releasing", "gone", "rejected"}]
  /\ displaced \in [Sessions -> Sessions \cup {NoSession}]
  /\ ended \in SUBSET Sessions
  /\ closing \in SUBSET Sessions
  /\ poller \in [Sessions -> {"none", "due", "running", "stopped"}]
  /\ cancelled \in SUBSET Sessions
  /\ reply \in [Sessions -> [busy : BOOLEAN, fp : Nat, labels : Nat]]
  /\ facts \in [Sessions -> [fp : Nat, labels : Nat]]
  /\ spokeFacts \in [Sessions -> Nat]
  /\ opLabels \in Nat
  /\ revoked \in SUBSET Serials
  /\ revoker \in [Revokers -> [at : {"idle", "judging", "detaching", "reporting", "closing"},
                               set : SUBSET Sessions]]
  /\ now \in Nat

Init ==
  /\ slots = [c \in Clusters |-> [k \in Keys |-> NoSession]]
  /\ entries = {}
  /\ lastSeen = [c \in Clusters |-> 0]
  /\ closed = FALSE
  /\ closer = [at |-> "idle", targets |-> {}]
  /\ pc = [s \in Sessions |-> "new"]
  /\ displaced = [s \in Sessions |-> NoSession]
  /\ ended = {}
  /\ closing = {}
  /\ poller = [s \in Sessions |-> "none"]
  /\ cancelled = {}
  /\ reply = [s \in Sessions |-> [busy |-> FALSE, fp |-> 0, labels |-> 0]]
  /\ facts = [s \in Sessions |-> [fp |-> 0, labels |-> 0]]
  /\ spokeFacts = [s \in Sessions |-> 0]
  /\ opLabels = 0
  /\ revoked = {}
  /\ revoker = [r \in Revokers |-> [at |-> "idle", set |-> {}]]
  /\ now = 0

-----------------------------------------------------------------------------
(* OnSession.  A refusal returns an error to the listener, which closes     *)
(* the session.                                                             *)

Reject(s) ==
  /\ pc' = [pc EXCEPT ![s] = "rejected"]
  /\ ended' = ended \cup {s}

(* The first, unlocked look at closed. *)
Arrive(s) ==
  /\ pc[s] = "new"
  /\ \/ /\ closed
        /\ Reject(s)
     \/ /\ ~closed
        /\ pc' = [pc EXCEPT ![s] = "describing"]
        /\ UNCHANGED ended
  /\ UNCHANGED <<poolVars, closed, closer, displaced, closing, pollVars,
                 worldVars, revoker, now>>

(* Describe and the authoritative labels, both outside the lock. *)
DescribeOK(s) ==
  /\ pc[s] = "describing" /\ s \notin ended
  /\ pc' = [pc EXCEPT ![s] = "admitting"]
  /\ facts' = [facts EXCEPT ![s] = [fp |-> spokeFacts[s], labels |-> opLabels]]
  /\ UNCHANGED <<poolVars, closed, closer, displaced, ended, closing, poller,
                 cancelled, reply, worldVars, revoker, now>>

(* Either of the two failed or timed out. *)
DescribeFails(s) ==
  /\ pc[s] = "describing"
  /\ Reject(s)
  /\ UNCHANGED <<poolVars, closed, closer, displaced, closing, pollVars,
                 worldVars, revoker, now>>

(* The critical section: closed again, the generation guard, the slot and   *)
(* the poller's WaitGroup.Add.                                              *)
Stale(s) ==
  LET prev == SlotOf(slots, s)
  IN  prev # NoSession /\ GenerationOf[s] < GenerationOf[prev]

(* Mutant: closed is not looked at again under the lock. *)
RefusedIfStale(s) == Stale(s)

Refused(s) == closed \/ Stale(s)

Install(s) ==
  [slots EXCEPT ![ClusterOf[s]] = [@ EXCEPT ![slotKey(s)] = s]]

Admit(s) ==
  /\ pc[s] = "admitting"
  /\ ~Refused(s)
  /\ entries' = entries \cup {ClusterOf[s]}
  /\ slots' = Install(s)
  /\ displaced' = [displaced EXCEPT ![s] = SlotOf(slots, s)]
  /\ poller' = [poller EXCEPT ![s] = "due"]
  /\ pc' = [pc EXCEPT ![s] = "installed"]
  /\ UNCHANGED <<lastSeen, closed, closer, ended, closing, cancelled, reply, facts,
                 worldVars, revoker, now>>

(* Mutant: the WaitGroup.Add comes before the checks. *)
AdmitRefusedCounted(s) ==
  /\ pc[s] = "admitting"
  /\ Refused(s)
  /\ Reject(s)
  /\ poller' = [poller EXCEPT ![s] = "due"]
  /\ UNCHANGED <<poolVars, closed, closer, displaced, closing, cancelled, reply,
                 facts, worldVars, revoker, now>>

AdmitRefused(s) ==
  /\ pc[s] = "admitting"
  /\ Refused(s)
  /\ Reject(s)
  /\ UNCHANGED <<poolVars, closed, closer, displaced, closing, pollVars,
                 worldVars, revoker, now>>

(* Mutant: prev is not looked at. *)
PrevForgotten(s) == {}

(* The displaced session, if there was one. *)
Prev(s) == {displaced[s]} \ {NoSession}

(* After the lock: cancel and close what was displaced, start the poller,   *)
(* hand release to the transport.                                           *)
AfterAdmit(s) ==
  /\ pc[s] = "installed"
  /\ cancelled' = cancelled \cup Prev(s)
  /\ closing' = closing \cup Prev(s)
  /\ poller' = [poller EXCEPT ![s] = "running"]
  /\ displaced' = [displaced EXCEPT ![s] = NoSession]
  /\ pc' = [pc EXCEPT ![s] = "attached"]
  /\ UNCHANGED <<poolVars, closed, closer, ended, reply, facts, worldVars,
                 revoker, now>>

(* closeSession(prev, ReplacedReason) on its own goroutine. *)
CloseDisplaced(s) ==
  /\ s \in closing
  /\ closing' = closing \ {s}
  /\ ended' = ended \cup {s}
  /\ UNCHANGED <<poolVars, closed, closer, pc, displaced, pollVars, worldVars,
                 revoker, now>>

-----------------------------------------------------------------------------
(* release, which the listener calls once the session has ended. *)

Release(s) ==
  /\ pc[s] = "attached" /\ s \in ended
  /\ cancelled' = cancelled \cup {s}
  /\ \/ /\ Holds(s)
        /\ detach({s})
        /\ pc' = [pc EXCEPT ![s] = "releasing"]
     \/ /\ ~Holds(s)
        /\ pc' = [pc EXCEPT ![s] = "gone"]
        /\ UNCHANGED poolVars
  /\ UNCHANGED <<closed, closer, displaced, ended, closing, poller, reply, facts,
                 worldVars, revoker, now>>

AfterRelease(s) ==
  /\ pc[s] = "releasing"
  /\ pc' = [pc EXCEPT ![s] = "gone"]
  /\ UNCHANGED <<poolVars, closed, closer, displaced, ended, closing, pollVars,
                 worldVars, revoker, now>>

-----------------------------------------------------------------------------
(* pollFacts: Describe with the known fingerprint and the label lookup run   *)
(* outside the lock, applyFacts under it if the slot is still this one's.  A *)
(* poll that finds nothing new would only refresh LastSeen, and is left out. *)

PollDescribe(s) ==
  /\ poller[s] = "running" /\ ~reply[s].busy
  /\ s \notin ended \cup cancelled
  /\ spokeFacts[s] # facts[s].fp \/ opLabels # facts[s].labels
  /\ reply' = [reply EXCEPT ![s] = [busy |-> TRUE, fp |-> spokeFacts[s], labels |-> opLabels]]
  /\ UNCHANGED <<poolVars, closed, closer, sessionVars, poller, cancelled, facts, worldVars,
                 revoker, now>>

(* Mutant: an unchanged fingerprint ends the refresh. *)
applyChangedFacts(s) ==
  IF Holds(s) /\ reply[s].fp # facts[s].fp
  THEN [fp |-> reply[s].fp, labels |-> reply[s].labels] ELSE facts[s]

(* An unchanged fingerprint still re-merges the operator's labels. *)
applyFacts(s) ==
  IF Holds(s) THEN [fp |-> reply[s].fp, labels |-> reply[s].labels] ELSE facts[s]

PollApply(s) ==
  /\ reply[s].busy
  /\ facts' = [facts EXCEPT ![s] = applyFacts(s)]
  /\ reply' = [reply EXCEPT ![s].busy = FALSE]
  /\ UNCHANGED <<poolVars, closed, closer, sessionVars, poller, cancelled, worldVars,
                 revoker, now>>

(* The label lookup failed, or its context was cancelled. *)
PollFails(s) ==
  /\ reply[s].busy
  /\ reply' = [reply EXCEPT ![s].busy = FALSE]
  /\ UNCHANGED <<poolVars, closed, closer, sessionVars, poller, cancelled, facts, worldVars,
                 revoker, now>>

(* The loop's select saw the cancel, the session's Done or Registry.done. *)
PollStop(s) ==
  /\ poller[s] = "running" /\ ~reply[s].busy
  /\ s \in ended \cup cancelled \/ closed
  /\ poller' = [poller EXCEPT ![s] = "stopped"]
  /\ UNCHANGED <<poolVars, closed, closer, sessionVars, cancelled, reply, facts, worldVars,
                 revoker, now>>

-----------------------------------------------------------------------------
(* CloseRevokedBy: snapshot, judge with no lock held, detach those still in  *)
(* their slots, then report and close them.                                  *)

RevokeSnapshot(r) ==
  /\ revoker[r].at = "idle"
  /\ LET candidates == {s \in Sessions : Holds(s) /\ SerialOf[s] # NoSerial}
     IN  /\ candidates # {}
         /\ revoker' = [revoker EXCEPT ![r] = [at |-> "judging", set |-> candidates]]
  /\ UNCHANGED <<poolVars, closed, closer, sessionVars, pollVars, worldVars, now>>

RevokeJudge(r) ==
  /\ revoker[r].at = "judging"
  /\ LET victims == {s \in revoker[r].set : SerialOf[s] \in revoked}
     IN  revoker' = [revoker EXCEPT ![r] =
           [at |-> IF victims = {} THEN "idle" ELSE "detaching", set |-> victims]]
  /\ UNCHANGED <<poolVars, closed, closer, sessionVars, pollVars, worldVars, now>>

(* Mutant: the slot is not compared again under the write lock. *)
AllVictims(S) == S

(* closeVictims' critical section. *)
StillHeld(S) == {s \in S : Holds(s)}

RevokeDetach(r) ==
  /\ revoker[r].at = "detaching"
  /\ LET closures == StillHeld(revoker[r].set)
     IN  /\ detach(closures)
         /\ revoker' = [revoker EXCEPT ![r] =
              [at |-> IF closures = {} THEN "idle" ELSE "reporting",
               set |-> closures]]
  /\ UNCHANGED <<closed, closer, sessionVars, pollVars, worldVars, now>>

RevokeReport(r) ==
  /\ revoker[r].at = "reporting"
  /\ revoker' = [revoker EXCEPT ![r].at = "closing"]
  /\ cancelled' = cancelled \cup revoker[r].set
  /\ UNCHANGED <<poolVars, closed, closer, sessionVars, poller, reply, facts, worldVars, now>>

RevokeClose(r) ==
  /\ revoker[r].at = "closing"
  /\ ended' = ended \cup revoker[r].set
  /\ revoker' = [revoker EXCEPT ![r] = [at |-> "idle", set |-> {}]]
  /\ UNCHANGED <<poolVars, closed, closer, pc, displaced, closing, pollVars,
                 worldVars, now>>

-----------------------------------------------------------------------------
(* Close: empty the registry under the lock, close every session, wait for   *)
(* the pollers, report zero.                                                 *)

CloseStart ==
  /\ ~closed
  /\ closed' = TRUE
  /\ LET targets == {s \in Sessions : Holds(s)}
     IN  /\ closer' = [at |-> "closing", targets |-> targets]
         /\ cancelled' = cancelled \cup targets
  /\ slots' = [c \in Clusters |-> [k \in Keys |-> NoSession]]
  /\ entries' = {}
  /\ UNCHANGED <<lastSeen, sessionVars, poller, reply, facts, worldVars, revoker,
                 now>>

CloseTargets ==
  /\ closer.at = "closing"
  /\ ended' = ended \cup closer.targets
  /\ closer' = [closer EXCEPT !.at = "waiting"]
  /\ UNCHANGED <<poolVars, closed, pc, displaced, closing, pollVars, worldVars,
                 revoker, now>>

CloseDone ==
  /\ closer.at = "waiting"
  /\ \A s \in Sessions : poller[s] \in {"none", "stopped"}
  /\ closer' = [closer EXCEPT !.at = "done"]
  /\ UNCHANGED <<poolVars, closed, sessionVars, pollVars, worldVars, revoker, now>>

-----------------------------------------------------------------------------
(* Run's sweeper, and the world outside the registry. *)

Sweep ==
  /\ \E c \in entries : ~present(c)
  /\ entries' = {c \in entries : present(c)}
  /\ UNCHANGED <<slots, lastSeen, closed, closer, sessionVars, pollVars, worldVars,
                 revoker, now>>

(* A tunnel drops: the spoke left, the network failed, the hub shut down. *)
TransportEnds(s) ==
  /\ pc[s] \in {"describing", "admitting", "installed", "attached"} /\ s \notin ended
  /\ ended' = ended \cup {s}
  /\ UNCHANGED <<poolVars, closed, closer, pc, displaced, closing, pollVars,
                 worldVars, revoker, now>>

FactsChange(s) ==
  /\ spokeFacts[s] < MaxFacts[s]
  /\ spokeFacts' = [spokeFacts EXCEPT ![s] = @ + 1]
  /\ UNCHANGED <<poolVars, closed, closer, sessionVars, pollVars, opLabels, revoked,
                 revoker, now>>

LabelsEdited ==
  /\ opLabels < MaxEdits
  /\ opLabels' = opLabels + 1
  /\ UNCHANGED <<poolVars, closed, closer, sessionVars, pollVars, spokeFacts, revoked,
                 revoker, now>>

Revoke(n) ==
  /\ n \notin revoked
  /\ revoked' = revoked \cup {n}
  /\ UNCHANGED <<poolVars, closed, closer, sessionVars, pollVars, spokeFacts, opLabels,
                 revoker, now>>

(* The clock is read only against lastSeen of a listed cluster without      *)
(* sessions: at other times it may as well stand still.                     *)
Tick ==
  /\ now < MaxTime /\ \E c \in entries : Pool(slots, c) = {}
  /\ now' = now + 1
  /\ UNCHANGED <<poolVars, closed, closer, sessionVars, pollVars, worldVars, revoker>>

-----------------------------------------------------------------------------
OnSession(s) ==
  \/ Arrive(s) \/ DescribeOK(s) \/ DescribeFails(s) \/ Admit(s)
  \/ AdmitRefused(s) \/ AfterAdmit(s)

pollFacts(s) == PollDescribe(s) \/ PollApply(s) \/ PollFails(s) \/ PollStop(s)

CloseRevokedBy(r) ==
  \/ RevokeSnapshot(r) \/ RevokeJudge(r) \/ RevokeDetach(r)
  \/ RevokeReport(r) \/ RevokeClose(r)

Close == CloseStart \/ CloseTargets \/ CloseDone

Next ==
  \/ \E s \in Sessions :
       \/ OnSession(s) \/ CloseDisplaced(s) \/ Release(s) \/ AfterRelease(s)
       \/ pollFacts(s) \/ TransportEnds(s) \/ FactsChange(s)
  \/ \E r \in Revokers : CloseRevokedBy(r)
  \/ \E n \in Serials : Revoke(n)
  \/ Close \/ Sweep \/ LabelsEdited \/ Tick

(* A goroutine that has been started runs on, a session whose labels can be *)
(* looked up again and again gets an answer, and nobody is obliged to dial, *)
(* drop, edit, revoke or shut down.                                         *)
Fairness ==
  /\ \A s \in Sessions :
       /\ WF_vars(DescribeOK(s) \/ Admit(s) \/ AdmitRefused(s) \/ AfterAdmit(s))
       /\ WF_vars(CloseDisplaced(s))
       /\ WF_vars(Release(s) \/ AfterRelease(s))
       /\ WF_vars(PollDescribe(s) \/ PollStop(s))
       /\ SF_vars(PollApply(s))
  /\ WF_vars(CloseTargets \/ CloseDone)

Spec == Init /\ [][Next]_vars
FairSpec == Spec /\ Fairness

-----------------------------------------------------------------------------
(* Properties. *)

(* Whoever occupies a slot was admitted for exactly that slot, under the    *)
(* cluster of its own certificate, and has not been released.               *)
SlotsHoldTheirOwn ==
  \A c \in Clusters, k \in Keys :
    slots[c][k] # NoSession =>
      /\ ClusterOf[slots[c][k]] = c /\ slotKey(slots[c][k]) = k
      /\ pc[slots[c][k]] \in {"installed", "attached"}

(* Somebody has committed to closing session s. *)
CloseIsDue(s) ==
  \/ s \in closing
  \/ \E t \in Sessions : pc[t] = "installed" /\ displaced[t] = s
  \/ \E r \in Revokers : revoker[r].at \in {"reporting", "closing"} /\ s \in revoker[r].set
  \/ closer.at = "closing" /\ s \in closer.targets

(* No session is orphaned: one that was admitted and is still open is       *)
(* either routable through its slot or about to be closed by whoever took   *)
(* the slot from it (OnSession's displacement, closeVictims, Close).        *)
NoOrphanedSession ==
  \A s \in Sessions :
    pc[s] \in {"installed", "attached"} /\ s \notin ended => Holds(s) \/ CloseIsDue(s)

(* When Close has returned the registry is quiescent: no slot, no live      *)
(* admitted session it knew of, no running poller, and nothing admitted     *)
(* afterwards.                                                              *)
ClosedIsQuiescent ==
  closer.at = "done" =>
    /\ \A c \in Clusters : Pool(slots, c) = {}
    /\ closer.targets \subseteq ended
    /\ \A s \in Sessions : poller[s] \in {"none", "stopped"} /\ ~reply[s].busy

(* A slot changes hands only for a reason: its session ended, its           *)
(* certificate is on the revocation list, the registry closed, or a session *)
(* of the same pod that is at least as new took over.  In particular a slow *)
(* release or a slow revocation sweep never evicts a successor.             *)
LeavesForAReason ==
  [][\A c \in Clusters, k \in Keys :
       LET s == slots[c][k]
           t == slots'[c][k]
       IN  s # NoSession /\ t # s =>
             \/ s \in ended
             \/ SerialOf[s] \in revoked
             \/ closed'
             \/ t # NoSession /\ GenerationOf[t] >= GenerationOf[s]]_vars

ForgetsAfterGrace(c) ==
  present(c) /\ ~present(c)' =>
    \/ closed'
    \/ Pool(slots', c) = {} /\ Grace = 0
    \/ Pool(slots, c) \cup Pool(slots', c) = {} /\ now' > lastSeen[c] + Grace

(* A cluster that was listed is forgotten only when the registry closes or  *)
(* its pool has been empty for longer than the grace window: the step that  *)
(* drops its last session never forgets it, unless the window is disabled   *)
(* (detachLocked, presentLocked, sweep).                                    *)
ForgottenOnlyAfterGrace == [][\A c \in Clusters : ForgetsAfterGrace(c)]_vars

(* The operator's labels reach every session that stays in its slot, even   *)
(* when the spoke's own facts never change.                                 *)
LabelsConverge ==
  \A s \in Sessions : \A v \in 1..MaxEdits :
    (opLabels >= v /\ Holds(s)) ~> (facts[s].labels >= v \/ s \in ended \/ ~Holds(s))

(* What ends is let go: a session that ended does not keep its slot, and    *)
(* Close returns, because it never waits for a poller that cannot stop.     *)
EndingsComplete ==
  /\ \A s \in Sessions : (s \in ended /\ Holds(s)) ~> ~Holds(s)
  /\ closed ~> (closer.at = "done")

=============================================================================
