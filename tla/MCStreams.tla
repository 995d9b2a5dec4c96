----------------------------- MODULE MCStreams ------------------------------
(* The candle stream, the price feed and the Telegram thread, for TLC.     *)
(* They share no state: a behaviour is one of a single one of the three,   *)
(* and the other two rest.                                                 *)
EXTENDS Candles, Feed, Telegram

VARIABLE moving

vars == <<candleVars, feedVars, telegramVars, moving>>

StreamsInit ==
  /\ CandlesInit /\ FeedInit /\ TelegramInit
  /\ moving \in {"candles", "feed", "telegram"}
  /\ moving # "candles" => bar = NewBar(1, CHOOSE p \in Prices : TRUE)

StreamsNext ==
  /\ UNCHANGED moving
  /\ \/ moving = "candles" /\ CandlesNext /\ UNCHANGED <<feedVars, telegramVars>>
     \/ moving = "feed" /\ FeedNext /\ UNCHANGED <<candleVars, telegramVars>>
     \/ moving = "telegram" /\ TelegramNext /\ UNCHANGED <<candleVars, feedVars>>

\* FeedFairness and the fairness of TelegramSpec, for the one that moves.
StreamsSpec ==
  /\ StreamsInit /\ [][StreamsNext]_vars
  /\ WF_feedVars(moving = "feed" /\ Second)
  /\ WF_feedVars(moving = "feed" /\ PauseEnds)
  /\ SF_feedVars(moving = "feed" /\ StreamOpens)
  /\ WF_telegramVars(moving = "telegram" /\ Loop)
  /\ SF_telegramVars(moving = "telegram" /\ PollAnswered)

\* StreamComesBack, of the feed when it moves.
FeedComesBack == moving = "feed" /\ feed # "streaming" ~> feed = "streaming"
=============================================================================
