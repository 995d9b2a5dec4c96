-------------------------------- MODULE Feed --------------------------------
(***************************************************************************)
(* The Pyth price feed (pyth_ws.rs): a task that keeps a stream of server  *)
(* events open and publishes its prices to a watch channel.  Hermes is     *)
(* external.  Time passes in ticks; of a price only its age matters.  A    *)
(* chunk without a price is a comment, a part of a block, or a block that  *)
(* does not parse.                                                         *)
(***************************************************************************)
EXTENDS Naturals

CONSTANTS
  Idle,        \* SSE_IDLE_TIMEOUT: 60 s
  MaxBackoff,  \* 30 s
  MaxAge       \* ages are counted up to here (a bound)

ASSUME FeedAssumption ==
  /\ Idle \in Nat \ {0} /\ MaxBackoff \in Nat \ {0} /\ MaxAge \in Nat /\ MaxAge > Idle

VARIABLES
  feed,      \* where the task is
  live,      \* the channel holds Some(price)
  age,       \* history: ticks since the price was published
  silence,   \* ticks since the last chunk
  backoff,   \* pause after the next failure
  pause,     \* what is left of the pause
  mute       \* history: a chunk without a price came since the last price

feedVars == <<feed, live, age, silence, backoff, pause, mute>>

FeedTypeOK ==
  /\ feed \in {"connecting", "streaming", "pausing"}
  /\ live \in BOOLEAN /\ mute \in BOOLEAN
  /\ age \in 0..MaxAge /\ silence \in 0..Idle
  /\ backoff \in 1..MaxBackoff /\ pause \in 0..MaxBackoff

FeedInit ==
  /\ feed = "connecting" /\ live = FALSE /\ mute = FALSE
  /\ age = 0 /\ silence = 0 /\ backoff = 1 /\ pause = 0

Least(a, b) == IF a < b THEN a ELSE b

\* A response of success resets the back-off.
StreamOpens ==
  /\ feed = "connecting" /\ feed' = "streaming"
  /\ backoff' = 1 /\ silence' = 0
  /\ UNCHANGED <<live, age, pause, mute>>

PriceArrives ==
  /\ feed = "streaming"
  /\ live' = TRUE /\ age' = 0 /\ silence' = 0 /\ mute' = FALSE
  /\ UNCHANGED <<feed, backoff, pause>>

NoiseArrives ==
  /\ feed = "streaming"
  /\ silence' = 0 /\ mute' = TRUE
  /\ UNCHANGED <<feed, live, age, backoff, pause>>

\* Mutant: the last price stays in the channel.
DropsKeepingPrice ==
  /\ feed' = "pausing"
  /\ age' = 0 /\ silence' = 0 /\ mute' = FALSE
  /\ pause' = backoff /\ backoff' = Least(2 * backoff, MaxBackoff)
  /\ UNCHANGED live

\* Mutant: the pause doubles without end.
DropsDoubling ==
  /\ feed' = "pausing" /\ live' = FALSE
  /\ age' = 0 /\ silence' = 0 /\ mute' = FALSE
  /\ pause' = backoff /\ backoff' = 2 * backoff

\* The consumer is told, and the next attempt waits twice as long.
Drops ==
  /\ feed' = "pausing" /\ live' = FALSE
  /\ age' = 0 /\ silence' = 0 /\ mute' = FALSE
  /\ pause' = backoff /\ backoff' = Least(2 * backoff, MaxBackoff)

ConnectFails == feed = "connecting" /\ Drops
StreamBreaks == feed = "streaming" /\ Drops

\* Nothing has arrived for a minute.
IdleTimeout == feed = "streaming" /\ silence = Idle /\ Drops

\* Mutant: after the pause the task has ended.
PauseEndsForGood == feed = "ended" /\ UNCHANGED feedVars

PauseEnds ==
  /\ feed = "pausing" /\ pause = 0
  /\ feed' = "connecting"
  /\ UNCHANGED <<live, age, silence, backoff, pause, mute>>

\* Time does not run past a timer that is due.
Second ==
  /\ feed = "pausing" => pause > 0
  /\ feed = "streaming" => silence < Idle
  /\ age' = IF live THEN Least(age + 1, MaxAge) ELSE 0
  /\ silence' = IF feed = "streaming" THEN silence + 1 ELSE 0
  /\ pause' = IF feed = "pausing" THEN pause - 1 ELSE pause
  /\ UNCHANGED <<feed, live, backoff, mute>>

FeedNext ==
  \/ StreamOpens \/ PriceArrives \/ NoiseArrives \/ ConnectFails \/ StreamBreaks
  \/ IdleTimeout \/ PauseEnds \/ Second

FeedFairness ==
  WF_feedVars(Second) /\ WF_feedVars(PauseEnds) /\ SF_feedVars(StreamOpens)

\* Timers run.  Hermes is not out of reach for ever.
FeedSpec == FeedInit /\ [][FeedNext]_feedVars /\ FeedFairness

-----------------------------------------------------------------------------

\* subscribe: Some is a fresh price (pyth_ws.rs:25).  It is at most a minute
\* old as long as the chunks that arrive carry prices; any other chunk puts the
\* idle timeout off and leaves the old price in the channel.
PriceIsFresh == live => feed = "streaming" /\ (~mute => age <= Idle)

\* The stream comes back: no pause grows without end, and no failure ends the task.
StreamComesBack == feed # "streaming" ~> feed = "streaming"

=============================================================================
