------------------------------ MODULE Verifier ------------------------------
(***************************************************************************)
(* The credential verifier of the hub (internal/authn/verifier.go): its    *)
(* positive and negative caches, tagged with the revocation epoch, over a  *)
(* store whose reads come from this replica's copy of the document.  Every *)
(* document that differs in a key has an epoch of its own (State), so      *)
(* version n of the keys is the one with epoch n.  A request is a sequence *)
(* of steps between which other requests, the store and the clock move.    *)
(* All requests come from one address, if they carry one.                  *)
(*                                                                         *)
(* The buckets are those of the failure limiter (authn/ratelimit.go), with *)
(* time in ticks.  A budget is kept in units of 1/Unit of a failure, of    *)
(* which Rate come back with every tick; "left" is penaltyUntil - now, -1  *)
(* once now is after it.  Refilling at every tick is refilling when the    *)
(* bucket is next read, because the budget only grows to its cap.          *)
(***************************************************************************)
EXTENDS Integers, Sequences, FiniteSets

CONSTANTS
  Calls,         \* requests that may be in progress at once
  Kids, Classes,
  Tokens,        \* credentials presented: [kid, class, good]
  StoredClass,   \* kid -> the class its record has
  MayExpire,     \* kids with an expiry that may come to pass
  Presented,     \* call -> the tokens it presents
  CacheTTL, NegTTL,
  None,
  Monotone,      \* reads of the store do not overlap
  Attributable,  \* the requests carry a source address
  MaxAge,        \* ticks a request lasts at most
  Burst, Unit, Rate, FirstPenalty, MaxPenalty,   \* the failure limiter's budget and windows
  MaxEpoch, MaxFaults   \* bounds for checking

KeyStates == {"absent", "live", "revoked"}

VARIABLES
  hist,      \* epoch -> the keys of that document
  view,      \* the epoch of the copy this replica reads
  reads,     \* documents a slow read of the store is about to deliver
  expired,   \* kids whose expiry has passed
  epoch,     \* the epoch last observed, 0 before the first
  pos,       \* token -> the verified entry, or None
  neg,       \* token -> the age of its rejection, or None
  bucket,    \* kid -> its failure bucket
  call,      \* the requests
  dead,      \* kid -> 0 while the copy shows it live, else 1 + ticks since (saturating)
  faults     \* store failures so far

vars == <<hist, view, reads, expired, epoch, pos, neg, bucket, call, dead, faults>>

failureBucket == [tokens : 0..Burst * Unit, penalty : 0..MaxPenalty, left : -1..MaxPenalty]

Smaller(a, b) == IF a < b THEN a ELSE b
Larger(a, b) == IF a > b THEN a ELSE b

newBucket == [tokens |-> Burst * Unit, penalty |-> 0, left |-> -1]

refill(b) ==
  [tokens |-> Smaller(b.tokens + Rate, Burst * Unit),
   penalty |-> b.penalty,
   left |-> Larger(b.left - 1, -1)]

Allowed(b) == b.left <= 0

(* One failure: the budget first, then a penalty window. *)
Debited(b) ==
  IF b.tokens >= Unit THEN [b EXCEPT !.tokens = @ - Unit]
  ELSE LET p == IF b.penalty = 0 THEN FirstPenalty
                ELSE IF b.left = -1 THEN Smaller(b.penalty * 2, MaxPenalty)
                ELSE b.penalty
       IN  [b EXCEPT !.penalty = p, !.left = Larger(b.left, p)]

Cleared(b) == newBucket

-----------------------------------------------------------------------------
TokenSet == [kid : Kids, class : Classes, good : BOOLEAN]

VerifierConstants ==
  /\ Burst \in Nat /\ Unit \in Nat \ {0} /\ Rate \in Nat \ {0}
  /\ FirstPenalty \in Nat \ {0} /\ MaxPenalty \in Nat /\ FirstPenalty <= MaxPenalty
  /\ Tokens \subseteq TokenSet
  /\ StoredClass \in [Kids -> Classes]
  /\ Presented \in [Calls -> SUBSET Tokens]
  /\ CacheTTL \in Nat \ {0} /\ NegTTL \in Nat \ {0}
  /\ None \notin Nat \cup failureBucket \cup [epoch : Nat, age : Nat]
  /\ Monotone \in BOOLEAN /\ Attributable \in BOOLEAN /\ MaxEpoch \in Nat \ {0}
  /\ MaxFaults \in Nat /\ MaxAge \in Nat

PCs == {"idle", "sync", "purge", "purgeneg", "lookup", "getkey", "settle", "done"}
Results == {None, "ok", "refused", "wrongclass", "limited"}
Reads == KeyStates \cup {None, "err"}

TypeOK ==
  /\ hist \in Seq([Kids -> KeyStates]) /\ view \in 1..Len(hist) /\ Len(hist) <= MaxEpoch
  /\ reads \subseteq 1..Len(hist) /\ expired \subseteq Kids /\ epoch \in 0..MaxEpoch
  /\ pos \in [Tokens -> {None} \cup [epoch : 1..MaxEpoch, age : 0..CacheTTL + MaxAge]]
  /\ neg \in [Tokens -> {None} \cup 0..NegTTL + MaxAge]
  /\ bucket \in [Kids -> {None} \cup failureBucket]
  /\ dead \in [Kids -> 0..CacheTTL + 1] /\ faults \in 0..MaxFaults
  /\ \A c \in Calls :
       /\ call[c].pc \in PCs /\ call[c].tok \in Tokens /\ call[c].want \in Classes
       /\ call[c].epoch \in 0..MaxEpoch /\ call[c].age \in 0..MaxAge
       /\ call[c].expired \in BOOLEAN /\ call[c].key \in Reads
       /\ call[c].dead \in 0..CacheTTL + 1 /\ call[c].res \in Results

Init ==
  /\ hist \in {<<k>> : k \in [Kids -> {"absent", "live"}]}
  /\ view = 1 /\ reads = {} /\ expired = {} /\ epoch = 0
  /\ pos = [t \in Tokens |-> None] /\ neg = [t \in Tokens |-> None]
  /\ bucket = [k \in Kids |-> None]
  /\ dead = [k \in Kids |-> IF hist[1][k] = "live" THEN 0 ELSE CacheTTL + 1]
  /\ call \in [Calls -> {[pc |-> "idle", tok |-> t, want |-> t.class, epoch |-> 0, age |-> 0,
                          expired |-> FALSE, key |-> None, dead |-> 0, res |-> None] : t \in Tokens}]
  /\ \A c \in Calls : call[c].tok \in Presented[c]
  /\ faults = 0

-----------------------------------------------------------------------------
(* The store: a mutation of the document by any replica, and the reads that *)
(* renew this replica's copy.  A read that overlaps another and arrives     *)
(* after it may take the copy back to an older document.                    *)

Shown(v, k) == hist[v][k]
DeadWith(v) == [k \in Kids |-> IF Shown(v, k) = "live" THEN 0
                               ELSE IF dead[k] = 0 THEN 1 ELSE dead[k]]

Mutated(k, s) ==
  LET now == hist[Len(hist)][k]
  IN  /\ Len(hist) < MaxEpoch
      /\ <<now, s>> \in {<<"absent", "live">>, <<"live", "revoked">>, <<"live", "absent">>,
                         <<"revoked", "absent">>}
      /\ hist' = Append(hist, [hist[Len(hist)] EXCEPT ![k] = s])
      /\ UNCHANGED <<view, reads, expired, epoch, pos, neg, bucket, call, dead, faults>>

(* A request during which the copy comes to show its key live may use it.   *)
SeesDocument(v) ==
  /\ view' = v /\ dead' = DeadWith(v)
  /\ call' = [c \in Calls |-> IF call[c].pc # "done" /\ Shown(v, call[c].tok.kid) = "live"
                              THEN [call[c] EXCEPT !.dead = 0] ELSE call[c]]

Refresh ==
  /\ view # Len(hist)
  /\ SeesDocument(Len(hist))
  /\ UNCHANGED <<hist, reads, expired, epoch, pos, neg, bucket, faults>>

ReadStarts ==
  /\ ~ Monotone /\ reads = {}
  /\ reads' = {Len(hist)}
  /\ UNCHANGED <<hist, view, expired, epoch, pos, neg, bucket, call, dead, faults>>

ReadArrives ==
  /\ \E v \in reads : SeesDocument(v)
  /\ reads' = {}
  /\ UNCHANGED <<hist, expired, epoch, pos, neg, bucket, faults>>

Fault == faults < MaxFaults /\ faults' = faults + 1

-----------------------------------------------------------------------------
(* A request.  Its "now" is the moment it starts: its age is subtracted     *)
(* wherever the code compares a time with now.                              *)

At(c, pc) == call[c].pc = pc
Finished(c, res) ==
  call' = [call EXCEPT ![c] = [@ EXCEPT !.pc = "done", !.res = res, !.epoch = 0, !.age = 0, !.key = None]]
Goes(c, pc) == call' = [call EXCEPT ![c].pc = pc]
kid(c) == call[c].tok.kid
tok(c) == call[c].tok

(* Parse and the class segment, then the epoch read of syncEpoch.           *)
Start(c, t, want) ==
  LET begun == [pc |-> "sync", tok |-> t, want |-> want, epoch |-> view, age |-> 0,
                expired |-> t.kid \in expired, key |-> None, dead |-> dead[t.kid], res |-> None]
  IN  /\ call[c].pc \in {"idle", "done"}
      /\ \/ /\ t.class # want
            /\ call' = [call EXCEPT ![c] = [begun EXCEPT !.pc = "done", !.epoch = 0, !.res = "wrongclass"]]
            /\ UNCHANGED faults
         \/ /\ t.class = want
            /\ call' = [call EXCEPT ![c] = begun] /\ UNCHANGED faults
         \/ /\ t.class = want /\ Fault    \* the epoch cannot be read: no cache is consulted
            /\ call' = [call EXCEPT ![c] = [begun EXCEPT !.pc = "lookup", !.epoch = 0]]
      /\ UNCHANGED <<hist, view, reads, expired, epoch, pos, neg, bucket, dead>>

syncEpoch(c) ==
  /\ At(c, "sync")
  /\ epoch' = call[c].epoch
  /\ Goes(c, IF epoch # call[c].epoch THEN "purge" ELSE "lookup")
  /\ UNCHANGED <<hist, view, reads, expired, pos, neg, bucket, dead, faults>>

(* The two caches have locks of their own: another request may come between. *)
PurgePos(c) ==
  /\ At(c, "purge")
  /\ pos' = [t \in Tokens |-> None]
  /\ Goes(c, "purgeneg")
  /\ UNCHANGED <<hist, view, reads, expired, epoch, neg, bucket, dead, faults>>

PurgeNeg(c) ==
  /\ At(c, "purgeneg")
  /\ neg' = [t \in Tokens |-> None]
  /\ Goes(c, "lookup")
  /\ UNCHANGED <<hist, view, reads, expired, epoch, pos, bucket, dead, faults>>

SinceAt(c, age) == age - call[c].age    \* now.Sub(cachedAt)

PosHit(c) ==
  LET e == pos[tok(c)]
  IN  /\ call[c].epoch # 0 /\ e # None
      /\ e.epoch = call[c].epoch /\ SinceAt(c, e.age) < CacheTTL

(* A rejection that is remembered until the next purge. *)
NegHitForever(c) == call[c].epoch # 0 /\ neg[tok(c)] # None

NegHit(c) == LET a == neg[tok(c)] IN call[c].epoch # 0 /\ a # None /\ SinceAt(c, a) < NegTTL

Limited(c) == bucket[kid(c)] # None /\ ~ Allowed(bucket[kid(c)])
Failed(k) ==
  bucket' = IF Attributable
            THEN [bucket EXCEPT ![k] = Debited(IF @ = None THEN newBucket ELSE @)] ELSE bucket

(* fromCache, then the limiter, then the denial when the epoch was not read. *)
Lookup(c) ==
  /\ At(c, "lookup")
  /\ \/ /\ PosHit(c) /\ ~ call[c].expired
        /\ Finished(c, "ok") /\ UNCHANGED <<pos, neg, bucket>>
     \/ /\ PosHit(c) /\ call[c].expired
        /\ pos' = [pos EXCEPT ![tok(c)] = None]
        /\ Finished(c, "refused") /\ UNCHANGED <<neg, bucket>>
     \/ /\ ~ PosHit(c)
        /\ pos' = IF call[c].epoch # 0 THEN [pos EXCEPT ![tok(c)] = None] ELSE pos
        /\ neg' = IF call[c].epoch # 0 /\ ~ NegHit(c) THEN [neg EXCEPT ![tok(c)] = None] ELSE neg
        /\ \/ NegHit(c) /\ Finished(c, "refused") /\ UNCHANGED bucket
           \/ ~ NegHit(c) /\ Limited(c) /\ Finished(c, "limited") /\ UNCHANGED bucket
           \/ /\ ~ NegHit(c) /\ ~ Limited(c) /\ call[c].epoch = 0
              /\ Failed(kid(c)) /\ Finished(c, "refused")
           \/ /\ ~ NegHit(c) /\ ~ Limited(c) /\ call[c].epoch # 0
              /\ Goes(c, "getkey") /\ UNCHANGED bucket
  /\ UNCHANGED <<hist, view, reads, expired, epoch, dead, faults>>

GetKey(c) ==
  /\ At(c, "getkey")
  /\ \/ UNCHANGED faults /\ call' = [call EXCEPT ![c].pc = "settle", ![c].key = Shown(view, kid(c))]
     \/ Fault /\ call' = [call EXCEPT ![c].pc = "settle", ![c].key = "err"]
  /\ UNCHANGED <<hist, view, reads, expired, epoch, pos, neg, bucket, dead>>

(* The digest, the stored class, the revocation and the expiry, in order. *)
Verified(c) ==
  /\ call[c].key \in {"live", "revoked"}
  /\ tok(c).good
  /\ StoredClass[kid(c)] = call[c].want
  /\ call[c].key # "revoked"
  /\ ~ call[c].expired

(* An entry that carries the epoch of the moment it is stored. *)
EntryLate(c) == [epoch |-> epoch, age |-> call[c].age]

EntryOf(c) == [epoch |-> call[c].epoch, age |-> call[c].age]

Settle(c) ==
  /\ At(c, "settle")
  /\ \/ /\ Verified(c)
        /\ pos' = [pos EXCEPT ![tok(c)] = EntryOf(c)]
        /\ neg' = [neg EXCEPT ![tok(c)] = None]
        /\ bucket' = IF bucket[kid(c)] = None THEN bucket
                     ELSE [bucket EXCEPT ![kid(c)] = Cleared(@)]
        /\ Finished(c, "ok")
     \/ /\ ~ Verified(c)
        /\ neg' = [neg EXCEPT ![tok(c)] = call[c].age]
        /\ Failed(kid(c))
        /\ Finished(c, "refused") /\ UNCHANGED pos
  /\ UNCHANGED <<hist, view, reads, expired, epoch, dead, faults>>

Step(c) ==
  \/ syncEpoch(c) \/ PurgePos(c) \/ PurgeNeg(c) \/ Lookup(c) \/ GetKey(c) \/ Settle(c)

-----------------------------------------------------------------------------
(* The capacity of a cache drops entries; the clock ages everything. *)

Evict(t) ==
  /\ pos[t] # None
  /\ pos' = [pos EXCEPT ![t] = None]
  /\ UNCHANGED <<hist, view, reads, expired, epoch, neg, bucket, call, dead, faults>>

Tick ==
  /\ \A c \in Calls : call[c].age < MaxAge
  /\ pos' = [t \in Tokens |-> IF pos[t] = None THEN None
                              ELSE [pos[t] EXCEPT !.age = Smaller(@ + 1, CacheTTL + MaxAge)]]
  /\ neg' = [t \in Tokens |-> IF neg[t] = None THEN None ELSE Smaller(neg[t] + 1, NegTTL + MaxAge)]
  /\ bucket' = [k \in Kids |-> IF bucket[k] = None THEN None ELSE refill(bucket[k])]
  /\ call' = [c \in Calls |-> IF call[c].pc \in {"idle", "done"} THEN call[c]
                              ELSE [call[c] EXCEPT !.age = @ + 1]]
  /\ dead' = [k \in Kids |-> IF dead[k] = 0 THEN 0 ELSE Smaller(dead[k] + 1, CacheTTL + 1)]
  /\ UNCHANGED <<hist, view, reads, expired, epoch, faults>>

Expires(k) ==
  /\ k \in MayExpire \ expired
  /\ expired' = expired \cup {k}
  /\ UNCHANGED <<hist, view, reads, epoch, pos, neg, bucket, call, dead, faults>>

Asked(c) == \E t \in Presented[c], w \in Classes : Start(c, t, w)

Next ==
  \/ \E k \in Kids, s \in KeyStates : Mutated(k, s)
  \/ Refresh \/ ReadStarts \/ ReadArrives
  \/ \E c \in Calls : Asked(c) \/ Step(c)
  \/ \E t \in Tokens : Evict(t)
  \/ \E k \in Kids : Expires(k)
  \/ Tick

Spec == Init /\ [][Next]_vars

-----------------------------------------------------------------------------
Accepted(c) == At(c, "done") /\ call[c].res = "ok"
IsLive(k) == hist[Len(hist)][k] = "live" /\ k \notin expired
LetIn(t) == \E c \in Calls : Accepted(c) /\ tok(c) = t

(* A revocation lands on the very next request: a request during the whole  *)
(* of which this replica's copy shows the key not live is not accepted,     *)
(* whatever older requests, purges and insertions it interleaves with       *)
(* (verify step 3).                                                         *)
NextRequestRefused == \A c \in Calls : Accepted(c) => call[c].dead = 0

(* What is accepted, from a cache or not, is the right secret for a key     *)
(* whose stored class is the one the listener wants and that had not        *)
(* expired when the request began: no cached verdict crosses classes.       *)
AcceptedIsGenuine ==
  \A c \in Calls :
     Accepted(c) => /\ tok(c).good /\ ~ call[c].expired
                    /\ StoredClass[kid(c)] = call[c].want /\ tok(c).class = call[c].want

(* Even when the copy goes back to an older document, nothing is accepted   *)
(* that the copy has not shown live for a whole CacheTTL ("the worst-case   *)
(* revocation latency" of DefaultCacheTTL).                                 *)
LatencyBounded == \A c \in Calls : Accepted(c) => call[c].dead <= CacheTTL

=============================================================================
