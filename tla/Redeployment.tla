---------------------------- MODULE Redeployment ----------------------------
(***************************************************************************)
(* What the monitoring loop of orchestrator_pool promises, without prices, *)
(* streams, timers or exits: a deployment is given up for a new one only   *)
(* when a low price was looked at, or when it was out of range for the     *)
(* whole wait; otherwise it ends only with an error.  A price that is out  *)
(* of range and never seen back does end it.                               *)
(***************************************************************************)
EXTENDS Naturals

CONSTANT MinRestart   \* the wait, in ticks: a natural number

VARIABLES
  state,     \* "watched", "closing" for a new deployment, or "failed"
  out,       \* the last price that was looked at was out of range
  outFor,    \* time since a price in range was looked at, up to MinRestart
  hurried    \* a low price was looked at: the wait is over

vars == <<state, out, outFor, hurried>>

Init == state = "watched" /\ out = FALSE /\ outFor = 0 /\ hurried = FALSE

TimePasses ==
  /\ state = "watched"
  /\ outFor' = IF outFor < MinRestart THEN outFor + 1 ELSE MinRestart
  /\ UNCHANGED <<state, out, hurried>>

LooksInside ==
  /\ state = "watched"
  /\ out' = FALSE /\ outFor' = 0
  /\ UNCHANGED <<state, hurried>>

\* A look outside finds the price low, or not.
Hurries == hurried' \in {hurried, TRUE}

LooksOutside ==
  /\ state = "watched"
  /\ out' = TRUE /\ Hurries
  /\ UNCHANGED <<state, outFor>>

Redeploys ==
  /\ state = "watched"
  /\ out' = TRUE /\ Hurries
  /\ hurried' \/ (out /\ outFor = MinRestart)
  /\ state' = "closing"
  /\ UNCHANGED outFor

Fails ==
  /\ state = "watched"
  /\ state' = "failed"
  /\ UNCHANGED <<out, outFor, hurried>>

Next == TimePasses \/ LooksInside \/ LooksOutside \/ Redeploys \/ Fails

Safety == Init /\ [][Next]_vars

\* A deployment does not stay out of range for ever.
Persistence == (state = "watched" /\ out) ~> ~(state = "watched" /\ out)

Spec == Safety /\ Persistence

=============================================================================
