------------------------------ MODULE RangePlan ------------------------------
(***************************************************************************)
(* The window and the step a query is sent upstream with: the times and    *)
(* durations of mcptools/times.go, resolveRange and checkLookback of       *)
(* query.go, SelectStep of render/step.go, and the common step and start   *)
(* of a fan-out (commonStep and alignUp of fanout.go).  A refused caller   *)
(* may come back with the corrected arguments it was given.  Times and     *)
(* durations are in ticks, durations of a bounded width.                   *)
(***************************************************************************)
EXTENDS Integers, Sequences, FiniteSets, SequencesExt

CONSTANTS
  Modes,         \* subset of {"instant", "range", "fanout"}
  Starts, Ends,  \* time arguments: [kind, v]; the time of an instant query is its start
  UserSteps,     \* step arguments, 0 is "not given"
  Scrapes,       \* scrape intervals a cluster reports, 0 is unknown
  Points,        \* values of maxPoints
  Limits,        \* lookback limits
  StepLadder,    \* ascending; its last rung is a day
  Units,         \* units of the duration syntax, descending
  Second,        \* ticks in a second
  DefaultSpan,
  MaxInt,        \* largest duration
  Now, MaxNow

RangePlanConstants ==
  /\ Modes \subseteq {"instant", "range", "fanout"}
  /\ {Second, DefaultSpan, MaxInt, Now, MaxNow} \subseteq Nat \ {0}
  /\ UserSteps \cup Scrapes \cup Limits \cup Points \subseteq 0 .. MaxInt
  /\ 0 \notin Limits \cup Points
  /\ \A i \in 1 .. Len(StepLadder) - 1 : StepLadder[i] < StepLadder[i + 1]

VARIABLES mode, start, end, userStep, scrapes, points, limit, now, phase, at, plan, corrected, retried

vars == <<mode, start, end, userStep, scrapes, points, limit, now, phase, at, plan, corrected, retried>>
args == <<mode, userStep, scrapes, points, limit>>

NoPlan == [kind |-> "none"]
Empty == [kind |-> "empty", v |-> 0]
Day == StepLadder[Len(StepLadder)]

Init ==
  /\ mode \in Modes /\ start \in Starts /\ end \in (IF mode = "instant" THEN {Empty} ELSE Ends)
  /\ userStep \in (IF mode = "instant" THEN {0} ELSE UserSteps)
  /\ scrapes \in (IF mode = "fanout" THEN {<<a, b>> : a, b \in Scrapes}
                  ELSE IF mode = "range" THEN {<<a>> : a \in Scrapes} ELSE {<<0>>})
  /\ points \in Points /\ limit \in Limits /\ now = Now
  /\ phase = "new" /\ at = 0 /\ plan = NoPlan /\ corrected = NoPlan /\ retried = FALSE

-----------------------------------------------------------------------------
(* Durations *)

(* Two's complement. *)
Wrap(d) == ((d + MaxInt + 1) % (2 * (MaxInt + 1))) - (MaxInt + 1)

(* Go divides towards zero. *)
Div(a, b) == IF a < 0 THEN -((-a) \div b) ELSE a \div b

(* A count of the largest unit that divides it, or Go's own rendering. *)
FormatDuration(d) ==
  IF d <= 0 THEN [n |-> 0, unit |-> 1]
  ELSE LET clean == {u \in ToSet(Units) : d >= u /\ d % u = 0}
       IN IF clean = {} THEN [n |-> d, unit |-> 0]
          ELSE LET u == CHOOSE u \in clean : \A w \in clean : w <= u IN [n |-> d \div u, unit |-> u]

(* Go's rendering of what no unit divides has a fraction or a smaller unit, *)
(* which the grammar does not have: an error, here 0.                       *)
ParsePromDuration(text) == IF text.unit = 0 THEN 0 ELSE Wrap(text.n * text.unit)

(* "now", a signed offset to it, or an absolute time. *)
ParseTime(arg, t) == IF arg.kind = "rel" THEN t + arg.v ELSE arg.v

Unreadable(arg) == arg.kind = "bad"

-----------------------------------------------------------------------------
(* The window *)

BackTo(l) == [kind |-> "rel", v |-> -ParsePromDuration(FormatDuration(l))]

Refuse(c) == phase' = "refused" /\ corrected' = c /\ UNCHANGED <<plan, at>>

ParseInstant ==
  /\ mode = "instant" /\ phase = "new"
  /\ IF Unreadable(start) THEN Refuse(NoPlan)
     ELSE /\ at' = (IF start = Empty THEN now ELSE ParseTime(start, now))
          /\ phase' = "check" /\ UNCHANGED <<plan, corrected>>
  /\ UNCHANGED <<args, start, end, now, retried>>

(* The clock is read again. *)
CheckLookback ==
  /\ mode = "instant" /\ phase = "check"
  /\ IF now - at > limit THEN Refuse([kind |-> "corrected", start |-> BackTo(limit), end |-> Empty])
     ELSE /\ phase' = "done" /\ plan' = [kind |-> "instant", start |-> at, end |-> at, step |-> 0, floor |-> now - limit]
          /\ UNCHANGED <<at, corrected>>
  /\ UNCHANGED <<args, start, end, now, retried>>

(* One reading of the clock; a span above the limit and a start behind it   *)
(* are refused, each with its own correction.                               *)
resolveRange ==
  /\ mode # "instant" /\ phase = "new"
  /\ LET e == IF end = Empty THEN now ELSE ParseTime(end, now)
         s == IF start = Empty THEN e - DefaultSpan ELSE ParseTime(start, now)
     IN IF Unreadable(end) \/ Unreadable(start) \/ e <= s THEN Refuse(NoPlan)
        ELSE IF e - s > limit
        THEN Refuse([kind |-> "corrected", start |-> BackTo(limit), end |-> [kind |-> "rel", v |-> 0]])
        ELSE IF now - s > limit THEN Refuse([kind |-> "corrected", start |-> BackTo(limit), end |-> end])
        ELSE /\ phase' = "resolved"
             /\ plan' = [kind |-> mode, start |-> s, end |-> e, step |-> 0, floor |-> now - limit]
             /\ UNCHANGED <<at, corrected>>
  /\ UNCHANGED <<args, start, end, now, retried>>

-----------------------------------------------------------------------------
(* The step *)

(* The lowest rung that is not below, or whole days. *)
snapUp(d) ==
  LET rungs == {i \in DOMAIN StepLadder : d <= StepLadder[i]}
  IN IF rungs # {} THEN StepLadder[CHOOSE i \in rungs : \A j \in rungs : i <= j]
     ELSE Wrap(Div(Wrap(d + Day - 1), Day) * Day)

Least(a, b) == IF a < b THEN a ELSE b
Most(a, b) == IF a > b THEN a ELSE b

(* Above span/maxPoints, for both ends are samples; on the ladder; then not *)
(* below the scrape interval.                                               *)
SelectStep(span, user, scrape) ==
  LET needed == span \div points + 1
      asked == IF span > 0 /\ needed > user THEN needed ELSE user
      step == snapUp(IF asked <= 0 THEN StepLadder[1] ELSE asked)
  IN IF scrape > 0 /\ step < scrape THEN scrape ELSE step

commonStepFirst(span) == SelectStep(span, userStep, scrapes[1])

(* The largest of the clusters' own steps. *)
commonStep(span) ==
  FoldLeft(LAMBDA best, s : Most(best, SelectStep(span, userStep, s)), 0, scrapes)

(* Up to a multiple of the step, in whole seconds; what is already on one   *)
(* loses its fraction.                                                      *)
alignUp(t, step) ==
  LET sec == step \div Second
      unix == t \div Second
      rem == unix % sec
  IN IF rem = 0 THEN unix * Second ELSE (unix - rem + sec) * Second

Choose ==
  /\ phase = "resolved" /\ phase' = "done"
  /\ LET step == commonStep(plan.end - plan.start)
         aligned == IF step > 0 THEN alignUp(plan.start, step) ELSE plan.start
     IN plan' = [plan EXCEPT !.step = step,
                             !.start = IF mode = "range" THEN @ ELSE Least(aligned, plan.end)]
  /\ UNCHANGED <<args, start, end, now, at, corrected, retried>>

-----------------------------------------------------------------------------
(* The caller repeats the call with the arguments it was given. *)
Retry ==
  /\ phase = "refused" /\ corrected # NoPlan /\ ~retried
  /\ start' = corrected.start /\ end' = corrected.end
  /\ phase' = "new" /\ corrected' = NoPlan /\ retried' = TRUE
  /\ UNCHANGED <<args, now, at, plan>>

Tick == /\ now < MaxNow /\ phase \in {"new", "check", "refused"} /\ now' = now + 1
        /\ UNCHANGED <<args, start, end, phase, at, plan, corrected, retried>>

Next == ParseInstant \/ CheckLookback \/ resolveRange \/ Choose \/ Retry \/ Tick

Spec == Init /\ [][Next]_vars

-----------------------------------------------------------------------------
Chosen == phase = "done" /\ mode # "instant"

(* The step is positive, not finer than was asked for nor than any cluster  *)
(* was scraped, and coarse enough for the point budget, however the ladder, *)
(* the budget and the floors of the clusters disagree.                      *)
StepFits ==
  Chosen => /\ plan.step > 0 /\ plan.step >= userStep
            /\ \A i \in DOMAIN scrapes : plan.step >= scrapes[i]
            /\ (plan.end - plan.start) \div plan.step + 1 <= points

(* What is sent upstream lies behind no principal's lookback limit, after   *)
(* the start was moved to the common grid too.                              *)
InsideWindow ==
  phase = "done" => plan.start >= plan.floor /\ plan.start <= plan.end

(* A caller that repeats a refused call with the corrected arguments is not *)
(* refused again.                                                           *)
CorrectedIsAccepted == retried => phase # "refused"

(* The step an answer reports is a step the next call can ask for. *)
StepReadsBack == Chosen /\ userStep > 0 => ParsePromDuration(FormatDuration(userStep)) = userStep
=============================================================================
