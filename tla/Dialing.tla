------------------------------ MODULE Dialing ------------------------------
(***************************************************************************)
(* The pace of a spoke's dial loop (dialLoop and redundantCeiling of       *)
(* internal/spoke/spoke.go, fullJitter of internal/spoke/util.go) and the  *)
(* endpoint it dials (NormalizeEndpoint of internal/tunnel/wstun/client.go,*)
(* which the loop and the dial both apply).  Delays are in quarters of the *)
(* default minimum.                                                        *)
(***************************************************************************)
EXTENDS Integers

CONSTANTS
  Bases, Maxes,     \* configured minimum and maximum delays
  DefaultBase, DefaultMax,
  Slow,             \* timing.coverageProbe
  SearchMultiple,   \* redundantSearchMultiple
  SearchLimit,      \* redundantSearchLimit
  MaxAttempt        \* bound on counted attempts

DialingConstants ==
  /\ Bases \cup Maxes \subseteq Nat \ {0}
  /\ {DefaultBase, DefaultMax, Slow, SearchMultiple, SearchLimit, MaxAttempt} \subseteq Nat \ {0}

VARIABLES
  endpoint,    \* the configured hub endpoint
  cfg,         \* ReconnectMinBackoff and ReconnectMaxBackoff
  loop,        \* "start", "dial", "sleep" or "unusable"
  target,      \* the URL the loop dials
  attempt, redundant,
  delay, window, \* the last delay, and what it was drawn from
  kind,        \* why it slept: "stagger", "failure", "search" or "probe"
  streak       \* failures since a tunnel last lasted (history)

vars == <<endpoint, cfg, loop, target, attempt, redundant, delay, window, kind, streak>>

Min(a, b) == IF a < b THEN a ELSE b

-----------------------------------------------------------------------------
(* NormalizeEndpoint *)

Forms == {"authority", "authority+path", "bare host", "url"}
Schemes == {"wss", "https", "ws", "http", "ftp", "none"}
Paths == {"none", "/", "/tunnel", "/other"}

Endpoints ==
  {e \in [form : Forms, scheme : Schemes, host : BOOLEAN, path : Paths, extra : BOOLEAN] :
     e.form = "url" <=> e.scheme # "none"}

Invalid == [form |-> "invalid", scheme |-> "none", host |-> FALSE, path |-> "none", extra |-> FALSE]

(* A bare host:port is read as wss; extra stands for credentials, a query   *)
(* or a fragment, which are refused.                                        *)
NormalizeEndpoint(e) ==
  LET u == IF e.form = "authority"
           THEN [form |-> "url", scheme |-> "wss", host |-> TRUE, path |-> "none", extra |-> FALSE]
           ELSE e
  IN IF u.form # "url" \/ u.scheme = "ftp" \/ ~u.host \/ u.extra THEN Invalid
     ELSE [u EXCEPT !.scheme = IF u.scheme \in {"wss", "https"} THEN "wss" ELSE "ws",
                    !.path = IF u.path \in {"none", "/"} THEN "/tunnel" ELSE u.path]

-----------------------------------------------------------------------------
(* fullJitter *)

base == IF cfg.min = 0 THEN DefaultBase ELSE cfg.min

(* A missing cap, or one below the minimum, is replaced; and the minimum is *)
(* a floor of the replacement too.                                          *)
cap(max) ==
  LET c == IF max = 0 \/ max < base THEN DefaultMax ELSE max
  IN IF c < base THEN base ELSE c

(* The window doubles with every attempt until the cap. *)
windowOf(max, n) ==
  LET w[i \in 0 .. n] == IF i = 0 THEN base ELSE Min(2 * w[i - 1], cap(max)) IN w[n]

fullJitter(max, n) ==
  /\ window' = windowOf(max, n)
  /\ \E r \in {0, windowOf(max, n) - 1} : delay' = r + base \div 4

(* The ceiling of a redundant redial: mild while coverage is incomplete and *)
(* the search is young, slow once it is complete or the search hopeless.    *)

redundantCeiling(covered, want, n) ==
  IF (covered >= want /\ want > 0) \/ n >= SearchLimit THEN Slow
  ELSE Min(SearchMultiple * cfg.min, cfg.max)

-----------------------------------------------------------------------------
Init ==
  /\ endpoint \in Endpoints
  /\ cfg \in {c \in [min : Bases, max : Maxes] : c.min <= c.max}
  /\ loop = "start" /\ target = Invalid /\ attempt = 0 /\ redundant = 0
  /\ delay = 0 /\ window = 0 /\ kind = "stagger" /\ streak = 0

(* An endpoint that cannot be normalised will never work: the loop ends. *)
Start ==
  /\ loop = "start"
  /\ target' = NormalizeEndpoint(endpoint)
  /\ loop' = IF target' = Invalid THEN "unusable" ELSE "sleep"
  /\ UNCHANGED <<endpoint, cfg, attempt, redundant, delay, window, kind, streak>>

Wake ==
  /\ loop = "sleep" /\ loop' = "dial"
  /\ UNCHANGED <<endpoint, cfg, target, attempt, redundant, delay, window, kind, streak>>

(* A tunnel that landed on a covered replica is not a failure, nor does it  *)
(* forgive one.                                                             *)
Redundant ==
  /\ loop = "dial" /\ redundant < MaxAttempt
  /\ \E covered, want \in 0 .. 2 :
       /\ fullJitter(redundantCeiling(covered, want, redundant), redundant)
       /\ kind' = IF covered >= want /\ want > 0 THEN "probe" ELSE "search"
  /\ redundant' = redundant + 1 /\ loop' = "sleep"
  /\ UNCHANGED <<endpoint, cfg, target, attempt, streak>>

(* A tunnel that ended or never came up; only one that lasted resets the    *)
(* failure count.                                                           *)
Failed(lasted) ==
  /\ loop = "dial"
  /\ redundant' = 0
  /\ LET n == IF lasted THEN 0 ELSE attempt IN
       /\ n < MaxAttempt /\ attempt' = n + 1
       /\ fullJitter(cfg.max, n)
  /\ streak' = IF lasted THEN 1 ELSE streak + 1
  /\ loop' = "sleep" /\ kind' = "failure"
  /\ UNCHANGED <<endpoint, cfg, target>>

Next == Start \/ Wake \/ Redundant \/ \E lasted \in BOOLEAN : Failed(lasted)

Spec == Init /\ [][Next]_vars

-----------------------------------------------------------------------------
TypeOK ==
  /\ loop \in {"start", "sleep", "dial", "unusable"}
  /\ attempt \in 0 .. MaxAttempt /\ redundant \in 0 .. MaxAttempt
  /\ {delay, window} \subseteq Nat /\ (loop = "sleep" /\ kind # "stagger" => window > 0)

(* What the loop dials is a websocket URL with a host and a path, and the   *)
(* dial, which normalises it again, leaves it as it is.                     *)
TargetIsSettled ==
  target # Invalid => /\ target.scheme \in {"ws", "wss"} /\ target.host /\ target.path # "none"
                      /\ NormalizeEndpoint(target) = target

(* The window never falls below the configured minimum nor exceeds the      *)
(* configured maximum, even when the probe's pace is below the minimum.     *)
WindowWithinCap ==
  kind # "stagger" => window >= cfg.min /\ (kind = "failure" => window <= cfg.max)

(* A hub that keeps dropping connections is dialled from a window that      *)
(* doubled with every failure since a tunnel last lasted, whatever          *)
(* redundant redials came between.                                          *)
CrashLoopBacksOff ==
  kind = "failure" => window >= Min(cfg.min * 2 ^ (streak - 1), cfg.max)

(* A search that does not converge slows down towards the probe's pace.     *)
HopelessSearchSlows ==
  kind = "search" /\ redundant > SearchLimit => window >= Min(cfg.min * 2 ^ (redundant - 1), Slow)

=============================================================================
