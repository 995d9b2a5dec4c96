------------------------------ MODULE Candles ------------------------------
(***************************************************************************)
(* The candles behind the entry decision: stream_candles and handle_ws_msg *)
(* (comp_strategy.rs) and the part of run_pool_with_restart that waits for *)
(* a quiet market (main.rs).                                               *)
(*                                                                         *)
(* The exchange is external.  A minute's candle is open while trades move  *)
(* it, and then closed; the socket carries its states in order, the last   *)
(* one marked closed, and what is under way is lost with the connection.   *)
(* Minutes stand for timestamps.  The ATR is a free choice.                *)
(***************************************************************************)
EXTENDS Indicators

CONSTANTS
  Prices,       \* the prices trades are made at (a bound)
  MaxMinutes,   \* minutes of a behaviour (a bound)
  Limit,        \* candles that are kept: 300
  Lookback,     \* LOOKBACK_1M: 30
  Period,       \* of range_coefficient: 70
  Up, Down,     \* distance of the bounds from the price
  MaxWire       \* messages under way (a bound)

ASSUME CandlesAssumption ==
  /\ Prices \subseteq Nat /\ Prices # {} /\ MaxMinutes \in Nat \ {0}
  /\ Limit \in Nat \ {0} /\ Lookback \in Nat \ {0} /\ Period \in Nat \ {0}
  /\ Up \in Nat /\ Down \in Nat /\ MaxWire \in Nat

\* The period covers what is looked at, and of a hundred candles one outside is
\* already 1 percent: range_coefficient > 0.99 then admits none.
ASSUME LookbackAssumption == Lookback <= Period /\ Lookback <= 100

VARIABLES
  bar,        \* the open candle of the exchange
  past,       \* its closed candles, oldest first: past[t] is that of minute t
  connected,  \* the socket is open
  wire,       \* messages under way
  watching,   \* candles_arc is there
  store,      \* what it holds
  snap,       \* history: the minute that was open when the history was downloaded
  lost,       \* history: minutes since then whose closing message was lost
  entry       \* history: what the last entry was decided from

candleVars == <<bar, past, connected, wire, watching, store, snap, lost, entry>>

Minutes == 1..MaxMinutes
Candle == [ts: Minutes, high: Prices, low: Prices, close: Prices]
Message == [candle: Candle, closed: BOOLEAN]
NoEntry == [judged |-> <<>>, snap |-> 0]

CandlesTypeOK ==
  /\ bar \in Candle /\ past \in Seq(Candle)
  /\ connected \in BOOLEAN /\ watching \in BOOLEAN
  /\ wire \in Seq(Message) /\ Len(wire) <= MaxWire
  /\ store \in Seq(Candle) /\ Len(store) <= Limit
  /\ snap \in 0..MaxMinutes /\ lost \subseteq Minutes
  /\ entry \in [judged: Seq(Candle), snap: 0..MaxMinutes]

NewBar(t, p) == [ts |-> t, high |-> p, low |-> p, close |-> p]

CandlesInit ==
  /\ \E p \in Prices : bar = NewBar(1, p)
  /\ past = <<>>
  /\ connected = FALSE /\ wire = <<>>
  /\ watching = FALSE /\ store = <<>> /\ snap = 0 /\ lost = {}
  /\ entry = NoEntry

-----------------------------------------------------------------------------
(***************************************************************************)
(* The exchange and the socket.                                            *)
(***************************************************************************)

Higher(a, b) == IF a > b THEN a ELSE b
Lower(a, b) == IF a < b THEN a ELSE b

\* A trade moves the open candle, and the socket may carry its new state.
Trade ==
  /\ \E p \in Prices :
       bar' = [bar EXCEPT !.high = Higher(@, p), !.low = Lower(@, p), !.close = p]
  /\ \/ UNCHANGED wire
     \/ /\ connected /\ Len(wire) < MaxWire
        /\ wire' = Append(wire, [candle |-> bar', closed |-> FALSE])
  /\ UNCHANGED <<past, connected, watching, store, snap, lost, entry>>

MinuteEnds ==
  /\ bar.ts < MaxMinutes /\ (connected => Len(wire) < MaxWire)
  /\ past' = Append(past, bar)
  /\ \E p \in Prices : bar' = NewBar(bar.ts + 1, p)
  /\ IF connected THEN wire' = Append(wire, [candle |-> bar, closed |-> TRUE]) /\ UNCHANGED lost
                  ELSE lost' = lost \cup {bar.ts} /\ UNCHANGED wire
  /\ UNCHANGED <<connected, watching, store, snap, entry>>

ClosedOnWire == {wire[i].candle.ts : i \in {j \in DOMAIN wire : wire[j].closed}}

Disconnect ==
  /\ connected /\ connected' = FALSE
  /\ lost' = lost \cup ClosedOnWire
  /\ wire' = <<>>
  /\ UNCHANGED <<bar, past, watching, store, snap, entry>>

\* The task tries again every five seconds, for ever.
Connect ==
  /\ watching /\ ~connected /\ connected' = TRUE
  /\ UNCHANGED <<bar, past, wire, watching, store, snap, lost, entry>>

-----------------------------------------------------------------------------
(***************************************************************************)
(* The store.                                                              *)
(***************************************************************************)

LastOf(s) == s[Len(s)]

\* stream_candles: the history, which ends with the open candle.  (A stream
\* that was started before goes on for ever, with a store nobody reads.)
Download ==
  /\ ~watching /\ watching' = TRUE
  /\ store' = Recent(Append(past, bar), Limit)
  /\ snap' = bar.ts /\ lost' = {}
  /\ UNCHANGED <<bar, past, connected, wire, entry>>

SameMinute(m) == store # <<>> /\ LastOf(store).ts = m.candle.ts
Merged(m) ==
  LET c == LastOf(store)
  IN [store EXCEPT ![Len(store)] =
        [c EXCEPT !.high = Higher(c.high, m.candle.high), !.low = Lower(c.low, m.candle.low),
                  !.close = m.candle.close]]
Appended(m) == Recent(Append(store, m.candle), Limit)

\* Mutant: the candle of a new minute is stored while it is open.
StoredOpen(m) == IF SameMinute(m) THEN Merged(m) ELSE Appended(m)

\* Mutant: only the candle that follows the last one is stored.
StoredNext(m) ==
  IF SameMinute(m) THEN Merged(m)
  ELSE IF m.closed /\ (store # <<>> => LastOf(store).ts + 1 = m.candle.ts) THEN Appended(m)
  ELSE store

\* Mutant: a closed candle is stored whether or not its minute is there.
StoredTwice(m) ==
  IF m.closed THEN Appended(m) ELSE IF SameMinute(m) THEN Merged(m) ELSE store

\* Mutant: nothing is dropped.
StoredUntrimmed(m) ==
  IF SameMinute(m) THEN Merged(m) ELSE IF m.closed THEN Append(store, m.candle) ELSE store

\* handle_ws_msg: the last candle is merged with a message of the same minute;
\* of another minute only the closed candle is stored, and the oldest dropped.
Stored(m) ==
  IF SameMinute(m) THEN Merged(m) ELSE IF m.closed THEN Appended(m) ELSE store

Receive ==
  /\ wire # <<>>
  /\ store' = Stored(Head(wire))
  /\ wire' = Tail(wire)
  /\ UNCHANGED <<bar, past, connected, watching, snap, lost, entry>>

-----------------------------------------------------------------------------
(***************************************************************************)
(* The decision.                                                           *)
(***************************************************************************)

\* Mutant: a candle that only touches the range counts.
QuietTouching(cs) ==
  LET price == LastOf(cs).close
  IN \A i \in DOMAIN cs : Touches(cs[i], price - Down, price + Up)

\* centre_kof > 0.99, around the last close.
Quiet(cs) ==
  LET price == LastOf(cs).close
  IN CoefficientExceeds(cs, Period, price - Down, price + Up, 99)

\* With enough candles, a quiet market and a low ATR the pool task enters, and
\* drops the candles.  Otherwise it looks again later.
Enter ==
  /\ watching
  /\ LET src == Recent(store, Lookback)
     IN Len(src) = Lookback /\ Quiet(src) /\ entry' = [judged |-> src, snap |-> snap]
  /\ watching' = FALSE /\ store' = <<>> /\ snap' = 0 /\ lost' = {}
  /\ connected' = FALSE /\ wire' = <<>>
  /\ UNCHANGED <<bar, past>>

CandlesNext ==
  Trade \/ MinuteEnds \/ Disconnect \/ Connect \/ Download \/ Receive \/ Enter

CandlesSpec == CandlesInit /\ [][CandlesNext]_candleVars

-----------------------------------------------------------------------------
(***************************************************************************)
(* Properties.                                                             *)
(***************************************************************************)

\* stream_candles: over any number of reconnects the candles stay in order,
\* each minute once.
StoreOrdered == \A i, j \in DOMAIN store : i < j => store[i].ts < store[j].ts

\* A candle of a minute that is over is what the exchange made of it, except
\* the one that was open in the downloaded history: its end may have been
\* missed, and it then stays too small for good.
StoreTrue ==
  \A i \in DOMAIN store :
    LET c == store[i]
    IN c.ts <= Len(past) =>
         IF c.ts = snap THEN past[c.ts].low <= c.low /\ c.high <= past[c.ts].high
                        ELSE c = past[c.ts]

\* The only minutes that are missing between the oldest candle and now are
\* those whose end passed without a connection.
StoreComplete ==
  watching =>
    \A t \in snap..Len(past) :
      \/ t \in lost \cup ClosedOnWire
      \/ store # <<>> /\ t < store[1].ts
      \/ \E i \in DOMAIN store : store[i].ts = t

\* The entry rests on a market that really stayed in the range: every minute
\* it judged lies around the last price, the last minute of the download aside.
EntryInQuietMarket ==
  \A i \in DOMAIN entry.judged :
    LET t == entry.judged[i].ts
        price == LastOf(entry.judged).close
    IN t <= Len(past) /\ t # entry.snap => Inside(past[t], price - Down, price + Up)

\* The candles that fall into the bar i frames before the end, and what a bar
\* made of these is.
Falling(cs, frame, i) == {cs[k] : k \in {j \in 1..Len(cs) : (Len(cs) - j) \div frame = i}}
MadeOf(c, fallen) ==
  /\ \A x \in fallen : c.low <= x.low /\ x.high <= c.high /\ c.ts <= x.ts
  /\ \E x, y, z \in fallen : x.low = c.low /\ y.high = c.high /\ z.ts = c.ts
  /\ \E x \in fallen : x.close = c.close /\ \A y \in fallen : y.ts <= x.ts

\* convert_timeframe: counted from the end, candle k falls into the bar that a
\* whole division says; the bars are made of these, and none is empty unless
\* more bars are asked for than there are candles for (then it panics).  With
\* `ln` = 0 every candle falls into one of the bars.
ConvertAgrees ==
  \A frame \in 1..MaxMinutes, ln \in 0..MaxMinutes :
    LET length == Groups(Len(past), frame, ln)
    IN /\ ConvertPanics(past, frame, ln) <=> ln > 0 /\ (ln - 1) * frame >= Len(past)
       /\ ln > 0 => length = ln
       /\ ln = 0 => \A k \in 1..Len(past) : (Len(past) - k) \div frame \in 0..length - 1
       /\ ~ConvertPanics(past, frame, ln) =>
            \A d \in 1..length :
              MadeOf(Converted(past, frame, ln)[d], Falling(past, frame, length - d))

=============================================================================
