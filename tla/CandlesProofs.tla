--------------------------- MODULE CandlesProofs ---------------------------
(***************************************************************************)
(* Proofs about the candles behind the entry decision: what the store      *)
(* holds is in order, true to the exchange, and misses only what passed    *)
(* without a connection; the entry rests on a market that was quiet; and   *)
(* the candles of a longer frame are made of the right ones.               *)
(***************************************************************************)
EXTENDS Candles, SequenceTheorems, FiniteSetTheorems, WellFoundedInduction, TLAPS

-----------------------------------------------------------------------------
(***************************************************************************)
(* The operators on sequences.                                             *)
(***************************************************************************)

\* How many candles are missing at the front.
Dropped(s, n) == Saturating(Len(s), n)

\* The last candles of a sequence.
LEMMA RecentIs ==
  ASSUME NEW S, NEW s \in Seq(S), NEW n \in Nat
  PROVE  /\ Dropped(s, n) \in 0..Len(s) /\ (Dropped(s, n) > 0 => Len(s) - Dropped(s, n) = n)
         /\ Recent(s, n) \in Seq(S)
         /\ Len(Recent(s, n)) = Len(s) - Dropped(s, n) /\ Len(Recent(s, n)) <= n
         /\ \A i \in 1..Len(Recent(s, n)) : Recent(s, n)[i] = s[i + Dropped(s, n)]
  <1> DEFINE k == Dropped(s, n)
  <1>1. Len(s) \in Nat
    BY LenProperties
  <1>2. k \in 0..Len(s) /\ Len(s) - k <= n /\ (k > 0 => Len(s) - k = n)
    BY <1>1 DEF Saturating, Dropped
  <1>3. Recent(s, n) = SubSeq(s, k + 1, Len(s))
    BY DEF Recent, Dropped
  <1> HIDE DEF k
  <1>4. \A i \in k + 1..Len(s) : s[i] \in S
    BY <1>2, <1>1, ElementOfSeq
  <1>5. /\ SubSeq(s, k + 1, Len(s)) \in Seq(S)
        /\ Len(SubSeq(s, k + 1, Len(s))) = IF k + 1 <= Len(s) THEN Len(s) - (k + 1) + 1 ELSE 0
        /\ \A i \in 1..Len(s) - (k + 1) + 1 : SubSeq(s, k + 1, Len(s))[i] = s[k + 1 + i - 1]
    <2>1. k + 1 \in Int /\ Len(s) \in Int
      BY <1>1, <1>2
    <2> QED
      BY <2>1, <1>4, SubSeqProperties
  <1>6. Len(Recent(s, n)) = Len(s) - k
    BY <1>1, <1>2, <1>3, <1>5
  <1>7. ASSUME NEW i \in 1..Len(Recent(s, n))
        PROVE  Recent(s, n)[i] = s[i + k]
    <2>1. i \in 1..Len(s) - (k + 1) + 1 /\ k + 1 + i - 1 = i + k
      BY <1>1, <1>2, <1>6
    <2>2. SubSeq(s, k + 1, Len(s))[i] = s[k + 1 + i - 1]
      BY <2>1, <1>5, Zenon
    <2> QED
      BY <2>1, <2>2, <1>3, Zenon
  <1> QED
    BY <1>2, <1>3, <1>5, <1>6, <1>7 DEF k

\* A closed candle is stored last, and at most the oldest dropped.
LEMMA AppendedIs ==
  ASSUME store \in Seq(Candle), Len(store) <= Limit, NEW m \in Message
  PROVE  LET k == Dropped(Append(store, m.candle), Limit)
         IN /\ Appended(m) \in Seq(Candle)
            /\ k \in 0..1 /\ Len(Appended(m)) = Len(store) + 1 - k
            /\ Len(Appended(m)) >= 1 /\ Len(Appended(m)) <= Limit
            /\ \A i \in 1..Len(store) - k : Appended(m)[i] = store[i + k]
            /\ Appended(m)[Len(Appended(m))] = m.candle
  <1> DEFINE s == Append(store, m.candle)
             k == Dropped(s, Limit)
  <1>1. m.candle \in Candle
    BY DEF Message
  <1>2. /\ s \in Seq(Candle) /\ Len(s) = Len(store) + 1
        /\ \A i \in 1..Len(store) : s[i] = store[i]
        /\ s[Len(store) + 1] = m.candle
    BY <1>1, AppendProperties
  <1>3. Limit \in Nat /\ Limit > 0 /\ Len(store) \in Nat
    BY CandlesAssumption, LenProperties DEF CandlesAssumption
  <1>4. Appended(m) = Recent(s, Limit)
    BY DEF Appended
  <1> HIDE DEF s
  <1>5. /\ k \in 0..Len(s) /\ (k > 0 => Len(s) - k = Limit)
        /\ Recent(s, Limit) \in Seq(Candle)
        /\ Len(Recent(s, Limit)) = Len(s) - k /\ Len(Recent(s, Limit)) <= Limit
        /\ \A i \in 1..Len(Recent(s, Limit)) : Recent(s, Limit)[i] = s[i + k]
    BY <1>2, <1>3, RecentIs
  <1> HIDE DEF k
  <1>6. /\ k \in 0..1
        /\ Len(Appended(m)) = Len(store) + 1 - k /\ Len(Appended(m)) >= 1
    BY <1>2, <1>3, <1>4, <1>5
  <1>7. ASSUME NEW i \in 1..Len(store) - k
        PROVE  Appended(m)[i] = store[i + k]
    <2>1. i \in 1..Len(Recent(s, Limit)) /\ i + k \in 1..Len(store)
      BY <1>2, <1>3, <1>5, <1>6
    <2>2. Recent(s, Limit)[i] = s[i + k] /\ s[i + k] = store[i + k]
      BY <2>1, <1>2, <1>5, Zenon
    <2> QED
      BY <2>2, <1>4, Zenon
  <1>8. Appended(m)[Len(Appended(m))] = m.candle
    <2>1. /\ Len(Appended(m)) \in 1..Len(Recent(s, Limit))
          /\ Len(Appended(m)) + k = Len(store) + 1
      BY <1>3, <1>4, <1>6
    <2>2. Recent(s, Limit)[Len(Appended(m))] = s[Len(Appended(m)) + k]
      BY <2>1, <1>5, Zenon
    <2> QED
      BY <2>1, <2>2, <1>2, <1>4
  <1> QED
    BY <1>4, <1>5, <1>6, <1>7, <1>8 DEF k, s

\* A merge touches the last candle only.
LEMMA MergedIs ==
  ASSUME store \in Seq(Candle), NEW m \in Message, SameMinute(m)
  PROVE  /\ Merged(m) \in Seq(Candle)
         /\ Len(store) \in Nat \ {0} /\ Len(Merged(m)) = Len(store)
         /\ \A i \in 1..Len(store) - 1 : Merged(m)[i] = store[i]
         /\ LET old == store[Len(store)]
                new == Merged(m)[Len(store)]
            IN /\ new.ts = old.ts /\ m.candle.ts = old.ts
               /\ new.low = Lower(old.low, m.candle.low)
               /\ new.high = Higher(old.high, m.candle.high)
  <1> DEFINE old == store[Len(store)]
             new == [old EXCEPT !.high = Higher(old.high, m.candle.high),
                                !.low = Lower(old.low, m.candle.low),
                                !.close = m.candle.close]
  <1>1. Len(store) \in Nat \ {0} /\ store # <<>> /\ m.candle.ts = old.ts
    BY EmptySeq DEF SameMinute, LastOf
  <1>2. Len(store) \in 1..Len(store) /\ old \in Candle
    BY <1>1, ElementOfSeq
  <1>3. m.candle \in Candle
    BY DEF Message
  <1>4. /\ new \in Candle /\ new.ts = old.ts
        /\ new.low = Lower(old.low, m.candle.low)
        /\ new.high = Higher(old.high, m.candle.high)
    BY <1>2, <1>3 DEF Candle, Higher, Lower
  <1>5. Merged(m) = [store EXCEPT ![Len(store)] = new]
    BY DEF Merged, LastOf
  <1> HIDE DEF old, new
  <1>6. /\ Merged(m) \in Seq(Candle) /\ Len(Merged(m)) = Len(store)
        /\ \A j \in 1..Len(store) :
             Merged(m)[j] = IF j = Len(store) THEN new ELSE store[j]
    <2>1. store \in Seq(Candle) /\ Len(store) \in 1..Len(store) /\ new \in Candle
      BY <1>2, <1>4
    <2> QED
      BY <2>1, <1>5, ExceptSeq
  <1>7. \A i \in 1..Len(store) - 1 : Merged(m)[i] = store[i]
    BY <1>1, <1>6
  <1>8. Merged(m)[Len(store)] = new
    BY <1>2, <1>6, Zenon
  <1> QED
    BY <1>1, <1>4, <1>6, <1>7, <1>8 DEF old

-----------------------------------------------------------------------------
(***************************************************************************)
(* The inductive invariant.  A message is about a minute that is not over, *)
(* or lies within what that minute was in the end, and a closing message   *)
(* is exactly that; so is a stored candle of a minute that is over, unless *)
(* it came open from the download.  Messages come in the order of minutes, *)
(* none after the closing one, and none is older than the store.           *)
(***************************************************************************)

Within(c, d) == d.low <= c.low /\ c.high <= d.high

Types ==
  /\ bar \in Candle /\ past \in Seq(Candle)
  /\ connected \in {TRUE, FALSE} /\ watching \in {TRUE, FALSE}
  /\ wire \in Seq(Message) /\ Len(wire) <= MaxWire
  /\ store \in Seq(Candle) /\ Len(store) <= Limit
  /\ snap \in 0..MaxMinutes /\ lost \subseteq Minutes
  /\ entry \in [judged: Seq(Candle), snap: 0..MaxMinutes]

Dated == bar.ts = Len(past) + 1 /\ \A t \in 1..Len(past) : past[t].ts = t

Linked ==
  /\ connected = FALSE => wire = <<>>
  /\ watching = FALSE => connected = FALSE /\ store = <<>>

WireTrue ==
  \A i \in 1..Len(wire) :
    LET c == wire[i].candle
    IN /\ c.ts <= bar.ts
       /\ c.ts <= Len(past) => Within(c, past[c.ts])
       /\ c.ts = bar.ts => Within(c, bar)
       /\ wire[i].closed = TRUE => c.ts <= Len(past) /\ c = past[c.ts]

WireInOrder ==
  \A i, j \in 1..Len(wire) : i < j =>
    /\ wire[i].candle.ts <= wire[j].candle.ts
    /\ wire[i].closed = TRUE => wire[i].candle.ts < wire[j].candle.ts

StoreInOrder == \A i, j \in 1..Len(store) : i < j => store[i].ts < store[j].ts

StoreSound ==
  \A i \in 1..Len(store) :
    LET c == store[i]
    IN /\ c.ts <= bar.ts
       /\ c.ts <= Len(past) =>
            IF c.ts = snap THEN Within(c, past[c.ts]) ELSE c = past[c.ts]
       /\ c.ts = bar.ts => c.ts = snap /\ Within(c, bar)

WireAhead ==
  \A i \in 1..Len(wire), j \in 1..Len(store) :
    /\ store[j].ts <= wire[i].candle.ts
    /\ store[j].ts # snap => store[j].ts < wire[i].candle.ts

Inv ==
  /\ Types /\ Dated /\ Linked
  /\ WireTrue /\ WireInOrder /\ StoreInOrder /\ StoreSound /\ WireAhead

LEMMA Lengths ==
  ASSUME Types
  PROVE  Len(past) \in Nat /\ Len(wire) \in Nat /\ Len(store) \in Nat
  BY LenProperties DEF Types

LEMMA Elements ==
  ASSUME Types
  PROVE  /\ \A i \in 1..Len(past) : past[i] \in Candle
         /\ \A i \in 1..Len(store) : store[i] \in Candle
         /\ \A i \in 1..Len(wire) : wire[i] \in Message /\ wire[i].candle \in Candle
  <1>1. past \in Seq(Candle) /\ store \in Seq(Candle) /\ wire \in Seq(Message)
    BY DEF Types
  <1>2. \A i \in 1..Len(past) : past[i] \in Candle
    BY <1>1, ElementOfSeq
  <1>3. \A i \in 1..Len(store) : store[i] \in Candle
    BY <1>1, ElementOfSeq
  <1>4. \A i \in 1..Len(wire) : wire[i] \in Message
    BY <1>1, ElementOfSeq
  <1>5. \A m \in Message : m.candle \in Candle
    BY DEF Message
  <1> QED
    BY <1>2, <1>3, <1>4, <1>5

LEMMA CandleIs ==
  ASSUME NEW c \in Candle
  PROVE  c.ts \in Nat /\ c.low \in Nat /\ c.high \in Nat
  <1>1. c.ts \in Minutes /\ c.low \in Prices /\ c.high \in Prices
    BY DEF Candle
  <1>2. Prices \subseteq Nat /\ MaxMinutes \in Nat
    BY CandlesAssumption DEF CandlesAssumption
  <1>3. c.ts \in Nat
    BY <1>1, <1>2 DEF Minutes
  <1> QED
    BY <1>1, <1>2, <1>3, Zenon

\* A message of the open candle, or its closing one, goes on the wire last.
LEMMA SentLast ==
  ASSUME Types, NEW m \in Message, wire' = Append(wire, m)
  PROVE  /\ wire' \in Seq(Message) /\ Len(wire') = Len(wire) + 1
         /\ \A i \in 1..Len(wire) : wire'[i] = wire[i]
         /\ wire'[Len(wire')] = m
  BY AppendProperties DEF Types

-----------------------------------------------------------------------------
(***************************************************************************)
(* One lemma for each action.                                              *)
(***************************************************************************)

LEMMA TradeKeeps ==
  ASSUME Inv, Trade
  PROVE  Inv'
  <1> DEFINE sent == [candle |-> bar', closed |-> FALSE]
  <1>1. Types
    BY DEF Inv
  <1>2. /\ bar' \in Candle /\ bar'.ts = bar.ts
        /\ bar'.low <= bar.low /\ bar.high <= bar'.high
    <2>1. PICK p \in Prices :
            bar' = [bar EXCEPT !.high = Higher(bar.high, p), !.low = Lower(bar.low, p),
                               !.close = p]
      BY DEF Trade
    <2>2. bar \in Candle /\ bar.high \in Nat /\ bar.low \in Nat /\ p \in Nat
      BY <1>1, CandleIs, CandlesAssumption DEF CandlesAssumption, Types
    <2>3. Higher(bar.high, p) \in Prices /\ Lower(bar.low, p) \in Prices
      BY <2>2 DEF Candle, Higher, Lower
    <2>4. bar' \in Candle
      BY <2>1, <2>2, <2>3 DEF Candle
    <2>5. /\ bar'.ts = bar.ts
          /\ bar'.high = Higher(bar.high, p) /\ bar'.low = Lower(bar.low, p)
      BY <2>1, <2>2 DEF Candle
    <2> QED
      BY <2>2, <2>4, <2>5 DEF Higher, Lower
  <1>3. \A c \in Candle : Within(c, bar) => Within(c, bar')
    <2> TAKE c \in Candle
    <2>1. /\ bar.low \in Nat /\ bar.high \in Nat /\ bar'.low \in Nat /\ bar'.high \in Nat
          /\ c.low \in Nat /\ c.high \in Nat
      BY <1>1, <1>2, CandleIs DEF Types
    <2> QED
      BY <2>1, <1>2 DEF Within
  <1>4. UNCHANGED <<past, connected, watching, store, snap, lost, entry>>
    BY DEF Trade
  <1>5. Dated' /\ StoreInOrder' /\ StoreSound'
    <2>1. Dated'
      BY <1>2, <1>4 DEF Inv, Dated
    <2>2. StoreInOrder'
      BY <1>4 DEF Inv, StoreInOrder
    <2>3. StoreSound'
      BY <1>1, <1>2, <1>3, <1>4, Elements DEF Inv, StoreSound
    <2> QED
      BY <2>1, <2>2, <2>3
  <1>6. CASE UNCHANGED wire
    <2>1. Types'
      BY <1>1, <1>2, <1>4, <1>6 DEF Types
    <2>2. Linked' /\ WireInOrder' /\ WireAhead'
      BY <1>4, <1>6 DEF Inv, Linked, WireInOrder, WireAhead
    <2>3. WireTrue'
      BY <1>1, <1>2, <1>3, <1>4, <1>6, Elements DEF Inv, WireTrue
    <2> QED
      BY <1>5, <2>1, <2>2, <2>3 DEF Inv
  <1>7. CASE connected /\ Len(wire) < MaxWire /\ wire' = Append(wire, sent)
    <2>1. sent \in Message /\ sent.candle = bar' /\ sent.closed = FALSE
      BY <1>2 DEF Message
    <2> HIDE DEF sent
    <2>2. /\ wire' \in Seq(Message) /\ Len(wire') = Len(wire) + 1
          /\ \A i \in 1..Len(wire) : wire'[i] = wire[i]
          /\ wire'[Len(wire')] = sent
      BY <1>1, <1>7, <2>1, SentLast
    <2>3. Len(past) \in Nat /\ Len(wire) \in Nat /\ Len(store) \in Nat /\ MaxWire \in Nat
      BY <1>1, Lengths, CandlesAssumption DEF CandlesAssumption
    <2>4. Types'
      <3>1. Len(wire') <= MaxWire
        BY <1>7, <2>2, <2>3
      <3> QED
        BY <1>1, <1>2, <1>4, <2>2, <3>1 DEF Types
    <2>5. Linked'
      BY <1>4, <1>7 DEF Inv, Linked
    <2>6. \A i \in 1..Len(wire') :
            \/ i \in 1..Len(wire) /\ wire'[i] = wire[i]
            \/ i = Len(wire') /\ wire'[i] = sent
      BY <2>2, <2>3
    <2>7. bar.ts = Len(past) + 1 /\ Within(bar', bar')
      <3>1. bar'.low \in Nat /\ bar'.high \in Nat
        BY <1>2, CandleIs
      <3> QED
        BY <3>1 DEF Inv, Dated, Within
    <2>8. WireTrue'
      BY <1>1, <1>2, <1>3, <1>4, <2>1, <2>3, <2>6, <2>7, Elements DEF Inv, WireTrue
    <2>9. WireInOrder'
      <3>1. \A i \in 1..Len(wire) :
              /\ wire[i].candle.ts <= bar.ts
              /\ wire[i].closed = TRUE => wire[i].candle.ts < bar.ts
        <4>1. \A i \in 1..Len(wire) : wire[i].candle.ts \in Nat
          BY <1>1, Elements, CandleIs
        <4> QED
          BY <4>1, <2>3, <2>7 DEF Inv, WireTrue
      <3> QED
        BY <3>1, <1>2, <2>1, <2>3, <2>2, <2>6 DEF Inv, WireInOrder
    <2>10. WireAhead'
      <3>1. \A j \in 1..Len(store) :
              store[j].ts <= bar.ts /\ (store[j].ts # snap => store[j].ts < bar.ts)
        <4>1. \A j \in 1..Len(store) : store[j].ts \in Nat
          BY <1>1, Elements, CandleIs
        <4> QED
          BY <4>1, <2>3, <2>7 DEF Inv, StoreSound
      <3> QED
        BY <3>1, <1>2, <1>4, <2>1, <2>6 DEF Inv, WireAhead
    <2> QED
      BY <1>5, <2>4, <2>5, <2>8, <2>9, <2>10 DEF Inv
  <1> QED
    BY <1>6, <1>7 DEF Trade

LEMMA MinuteEndsKeeps ==
  ASSUME Inv, MinuteEnds
  PROVE  Inv'
  <1> DEFINE sent == [candle |-> bar, closed |-> TRUE]
  <1>1. Types /\ bar.ts = Len(past) + 1
    BY DEF Inv, Dated
  <1>2. Len(past) \in Nat /\ Len(wire) \in Nat /\ Len(store) \in Nat /\ MaxWire \in Nat
    BY <1>1, Lengths, CandlesAssumption DEF CandlesAssumption
  <1>3. /\ past' \in Seq(Candle) /\ Len(past') = Len(past) + 1
        /\ \A i \in 1..Len(past) : past'[i] = past[i]
        /\ past'[bar.ts] = bar
    BY <1>1, AppendProperties DEF MinuteEnds, Types
  <1>4. bar' \in Candle /\ bar'.ts = bar.ts + 1
    <2>1. PICK p \in Prices : bar' = NewBar(bar.ts + 1, p)
      BY DEF MinuteEnds
    <2>2. bar.ts + 1 \in Minutes
      BY <1>1, <1>2, CandlesAssumption DEF CandlesAssumption, MinuteEnds, Minutes
    <2> QED
      BY <2>1, <2>2 DEF NewBar, Candle
  <1>5. UNCHANGED <<connected, watching, store, snap, entry>>
    BY DEF MinuteEnds
  <1>6. Dated'
    BY <1>1, <1>2, <1>3, <1>4 DEF Inv, Dated
  <1>7. StoreInOrder' /\ StoreSound'
    <2>1. StoreInOrder'
      BY <1>5 DEF Inv, StoreInOrder
    <2>2. ASSUME NEW i \in 1..Len(store)
          PROVE  LET c == store[i]
                 IN /\ c.ts <= bar'.ts
                    /\ c.ts <= Len(past') =>
                         IF c.ts = snap THEN Within(c, past'[c.ts]) ELSE c = past'[c.ts]
                    /\ c.ts = bar'.ts => c.ts = snap /\ Within(c, bar')
      <3>1. store[i].ts \in Nat /\ store[i].ts >= 1
        <4>1. store[i].ts \in Minutes
          BY <1>1, Elements DEF Candle
        <4> QED
          BY <4>1, CandlesAssumption DEF CandlesAssumption, Minutes
      <3>2. CASE store[i].ts <= Len(past)
        <4>1. store[i].ts \in 1..Len(past)
          BY <3>1, <3>2, <1>2
        <4> QED
          BY <3>1, <3>2, <4>1, <1>1, <1>2, <1>3, <1>4 DEF Inv, StoreSound
      <3>3. CASE store[i].ts = bar.ts
        BY <3>1, <3>3, <1>1, <1>2, <1>3, <1>4 DEF Inv, StoreSound
      <3> QED
        BY <3>1, <3>2, <3>3, <1>1, <1>2 DEF Inv, StoreSound
    <2>3. StoreSound'
      BY <2>2, <1>5 DEF StoreSound
    <2> QED
      BY <2>1, <2>3
  <1>8. ASSUME NEW i \in 1..Len(wire)
        PROVE  LET c == wire[i].candle
               IN /\ c.ts <= bar'.ts
                  /\ c.ts <= Len(past') => Within(c, past'[c.ts])
                  /\ c.ts = bar'.ts => Within(c, bar')
                  /\ wire[i].closed = TRUE => c.ts <= Len(past') /\ c = past'[c.ts]
    <2>1. wire[i].candle.ts \in Nat /\ wire[i].candle.ts >= 1
      <3>1. wire[i].candle.ts \in Minutes
        BY <1>1, Elements DEF Candle
      <3> QED
        BY <3>1, CandlesAssumption DEF CandlesAssumption, Minutes
    <2>2. CASE wire[i].candle.ts <= Len(past)
      <3>1. wire[i].candle.ts \in 1..Len(past)
        BY <2>1, <2>2, <1>2
      <3> QED
        BY <2>1, <2>2, <3>1, <1>1, <1>2, <1>3, <1>4 DEF Inv, WireTrue
    <2>3. CASE wire[i].candle.ts = bar.ts
      BY <2>1, <2>3, <1>1, <1>2, <1>3, <1>4 DEF Inv, WireTrue
    <2>4. wire[i].candle.ts <= bar.ts
      BY DEF Inv, WireTrue
    <2>5. wire[i].candle.ts <= Len(past) \/ wire[i].candle.ts = bar.ts
      BY <2>1, <2>4, <1>1, <1>2
    <2> QED
      BY <2>2, <2>3, <2>5
  <1>9. CASE connected = FALSE
    <2>1. UNCHANGED wire /\ lost' = lost \cup {bar.ts} /\ wire = <<>>
      BY <1>9 DEF MinuteEnds, Inv, Linked
    <2>2. bar.ts \in Minutes
      BY <1>1 DEF Types, Candle
    <2>3. Types'
      BY <1>1, <1>3, <1>4, <1>5, <2>1, <2>2 DEF Types
    <2>4. Linked' /\ WireInOrder' /\ WireAhead'
      BY <1>5, <2>1 DEF Inv, Linked, WireInOrder, WireAhead
    <2>5. WireTrue'
      BY <1>8, <2>1 DEF WireTrue
    <2> QED
      BY <1>6, <1>7, <2>3, <2>4, <2>5 DEF Inv
  <1>10. CASE connected = TRUE
    <2>1. Len(wire) < MaxWire /\ wire' = Append(wire, sent) /\ UNCHANGED lost
      BY <1>10 DEF MinuteEnds
    <2>2. sent \in Message /\ sent.candle = bar /\ sent.closed = TRUE
      BY <1>1 DEF Message, Types
    <2> HIDE DEF sent
    <2>3. /\ wire' \in Seq(Message) /\ Len(wire') = Len(wire) + 1
          /\ \A i \in 1..Len(wire) : wire'[i] = wire[i]
          /\ wire'[Len(wire')] = sent
      BY <1>1, <2>1, <2>2, SentLast
    <2>4. Types'
      <3>1. Len(wire') <= MaxWire
        BY <1>2, <2>1, <2>3
      <3> QED
        BY <1>1, <1>3, <1>4, <1>5, <2>1, <2>3, <3>1 DEF Types
    <2>5. Linked'
      BY <1>5, <1>10 DEF Inv, Linked
    <2>6. \A i \in 1..Len(wire') :
            \/ i \in 1..Len(wire) /\ wire'[i] = wire[i]
            \/ i = Len(wire') /\ wire'[i] = sent
      BY <1>2, <2>3
    <2>7. WireTrue'
      <3>1. bar.low \in Nat /\ bar.high \in Nat
        BY <1>1, CandleIs DEF Types
      <3>2. Within(bar, past'[bar.ts]) /\ bar = past'[bar.ts]
        BY <3>1, <1>3 DEF Within
      <3>3. /\ sent.candle.ts <= bar'.ts /\ sent.candle.ts # bar'.ts
            /\ sent.candle.ts <= Len(past') /\ Within(sent.candle, past'[sent.candle.ts])
            /\ sent.candle = past'[sent.candle.ts]
        BY <3>2, <1>1, <1>2, <1>3, <1>4, <2>2
      <3>4. ASSUME NEW i \in 1..Len(wire')
            PROVE  LET c == wire'[i].candle
                   IN /\ c.ts <= bar'.ts
                      /\ c.ts <= Len(past') => Within(c, past'[c.ts])
                      /\ c.ts = bar'.ts => Within(c, bar')
                      /\ wire'[i].closed = TRUE => c.ts <= Len(past') /\ c = past'[c.ts]
        <4>1. CASE i \in 1..Len(wire) /\ wire'[i] = wire[i]
          BY <4>1, <1>8
        <4>2. CASE wire'[i] = sent
          BY <4>2, <3>3
        <4> QED
          BY <4>1, <4>2, <2>6
      <3> QED
        BY <3>4 DEF WireTrue
    <2>8. WireInOrder'
      <3>1. \A i \in 1..Len(wire) :
              /\ wire[i].candle.ts <= bar.ts
              /\ wire[i].closed = TRUE => wire[i].candle.ts < bar.ts
        <4>1. \A i \in 1..Len(wire) : wire[i].candle.ts \in Nat
          BY <1>1, Elements, CandleIs
        <4> QED
          BY <4>1, <1>1, <1>2 DEF Inv, WireTrue
      <3> QED
        BY <3>1, <1>2, <2>2, <2>3, <2>6 DEF Inv, WireInOrder
    <2>9. WireAhead'
      <3>1. \A j \in 1..Len(store) :
              store[j].ts <= bar.ts /\ (store[j].ts # snap => store[j].ts < bar.ts)
        <4>1. \A j \in 1..Len(store) : store[j].ts \in Nat
          BY <1>1, Elements, CandleIs
        <4> QED
          BY <4>1, <1>1, <1>2 DEF Inv, StoreSound
      <3> QED
        BY <3>1, <1>5, <2>2, <2>6 DEF Inv, WireAhead
    <2> QED
      BY <1>6, <1>7, <2>4, <2>5, <2>7, <2>8, <2>9 DEF Inv
  <1> QED
    BY <1>1, <1>9, <1>10 DEF Types

LEMMA SocketKeeps ==
  ASSUME Inv, Disconnect \/ Connect
  PROVE  Inv'
  <1>1. CASE Disconnect
    <2>1. /\ connected' = FALSE /\ wire' = <<>> /\ lost' = lost \cup ClosedOnWire
          /\ UNCHANGED <<bar, past, watching, store, snap, entry>>
      BY <1>1 DEF Disconnect
    <2>2. ClosedOnWire \subseteq Minutes
      <3>1. \A i \in 1..Len(wire) : wire[i].candle.ts \in Minutes
        BY Elements DEF Inv, Candle
      <3>2. DOMAIN wire = 1..Len(wire)
        BY LenProperties DEF Inv, Types
      <3> QED
        BY <3>1, <3>2 DEF ClosedOnWire
    <2>3. wire' \in Seq(Message) /\ Len(wire') = 0 /\ Len(wire') <= MaxWire
      BY <2>1, EmptySeq, CandlesAssumption DEF CandlesAssumption
    <2>4. Types'
      BY <2>1, <2>2, <2>3 DEF Inv, Types
    <2>5. Dated' /\ Linked' /\ StoreInOrder' /\ StoreSound'
      BY <2>1 DEF Inv, Dated, Linked, StoreInOrder, StoreSound
    <2>6. WireTrue' /\ WireInOrder' /\ WireAhead'
      BY <2>3 DEF WireTrue, WireInOrder, WireAhead
    <2> QED
      BY <2>4, <2>5, <2>6 DEF Inv
  <1>2. CASE Connect
    BY <1>2 DEF Connect, Inv, Types, Dated, Linked, WireTrue, WireInOrder, StoreInOrder,
       StoreSound, WireAhead
  <1> QED
    BY <1>1, <1>2

LEMMA DownloadKeeps ==
  ASSUME Inv, Download
  PROVE  Inv'
  <1> DEFINE s == Append(past, bar)
             k == Dropped(s, Limit)
  <1>1. Types /\ bar.ts = Len(past) + 1 /\ wire = <<>>
    BY DEF Inv, Dated, Linked, Download
  <1>2. Len(past) \in Nat /\ Limit \in Nat
    BY <1>1, Lengths, CandlesAssumption DEF CandlesAssumption
  <1>3. /\ s \in Seq(Candle) /\ Len(s) = Len(past) + 1
        /\ \A i \in 1..Len(past) : s[i] = past[i]
        /\ s[Len(past) + 1] = bar
    BY <1>1, AppendProperties DEF Types
  <1>4. /\ watching' = TRUE /\ store' = Recent(s, Limit) /\ snap' = bar.ts /\ lost' = {}
        /\ UNCHANGED <<bar, past, connected, wire, entry>>
    BY DEF Download
  <1> HIDE DEF s
  <1>5. /\ k \in 0..Len(s) /\ store' \in Seq(Candle)
        /\ Len(store') = Len(s) - k /\ Len(store') <= Limit
        /\ \A i \in 1..Len(store') : store'[i] = s[i + k]
    BY <1>2, <1>3, <1>4, RecentIs
  <1> HIDE DEF k
  <1>6. ASSUME NEW i \in 1..Len(store')
        PROVE  /\ store'[i].ts = i + k
               /\ \/ i + k \in 1..Len(past) /\ store'[i] = past[i + k]
                  \/ i + k = Len(past) + 1 /\ store'[i] = bar
    <2>1. i + k \in 1..Len(past) \/ i + k = Len(past) + 1
      <3>1. k \in Nat /\ Len(store') = Len(past) + 1 - k
        BY <1>2, <1>3, <1>5
      <3> QED
        BY <3>1, <1>2
    <2>2. CASE i + k \in 1..Len(past)
      BY <2>2, <1>3, <1>5 DEF Inv, Dated
    <2>3. CASE i + k = Len(past) + 1
      BY <2>3, <1>1, <1>3, <1>5
    <2> QED
      BY <2>1, <2>2, <2>3
  <1>7. Types'
    <2>1. bar.ts \in 0..MaxMinutes
      BY <1>1, CandlesAssumption DEF CandlesAssumption, Types, Candle, Minutes
    <2> QED
      BY <2>1, <1>1, <1>4, <1>5 DEF Types
  <1>8. Dated' /\ Linked' /\ WireTrue' /\ WireInOrder'
    BY <1>4 DEF Inv, Dated, Linked, WireTrue, WireInOrder
  <1>9. StoreInOrder'
    <2>1. k \in Nat /\ Len(store') \in Nat
      BY <1>2, <1>3, <1>5
    <2> QED
      BY <2>1, <1>6 DEF StoreInOrder
  <1>10. StoreSound'
    <2>1. Within(bar, bar)
      <3>1. bar.low \in Nat /\ bar.high \in Nat
        BY <1>1, CandleIs DEF Types
      <3> QED
        BY <3>1 DEF Within
    <2>2. ASSUME NEW i \in 1..Len(store')
          PROVE  LET c == store'[i]
                 IN /\ c.ts <= bar.ts
                    /\ c.ts <= Len(past) => c = past[c.ts] /\ c.ts # bar.ts
                    /\ c.ts = bar.ts => Within(c, bar)
      <3>1. CASE i + k \in 1..Len(past) /\ store'[i] = past[i + k]
        BY <3>1, <1>1, <1>2, <1>6
      <3>2. CASE i + k = Len(past) + 1 /\ store'[i] = bar
        BY <3>2, <2>1, <1>1, <1>2, <1>6
      <3> QED
        BY <3>1, <3>2, <1>6
    <2> QED
      BY <2>2, <1>4 DEF StoreSound
  <1>11. WireAhead'
    BY <1>1, <1>4 DEF WireAhead
  <1> QED
    BY <1>7, <1>8, <1>9, <1>10, <1>11 DEF Inv

\* What is left on the wire once its first message is taken.
LEMMA WireTail ==
  ASSUME Inv, wire # <<>>, wire' = Tail(wire), UNCHANGED <<bar, past>>
  PROVE  /\ Head(wire) = wire[1] /\ 1 \in 1..Len(wire) /\ Head(wire) \in Message
         /\ wire' \in Seq(Message) /\ Len(wire') = Len(wire) - 1
         /\ \A i \in 1..Len(wire') : i + 1 \in 1..Len(wire) /\ wire'[i] = wire[i + 1]
         /\ WireTrue' /\ WireInOrder'
  <1>1. wire \in Seq(Message) /\ Len(wire) \in Nat \ {0}
    BY EmptySeq DEF Inv, Types
  <1>2. /\ wire' \in Seq(Message) /\ Len(wire') = Len(wire) - 1
        /\ \A i \in 1..Len(wire') : wire'[i] = wire[i + 1]
        /\ Head(wire) \in Message
    BY <1>1, HeadTailProperties
  <1>3. Head(wire) = wire[1] /\ 1 \in 1..Len(wire)
    BY <1>1
  <1>4. \A i \in 1..Len(wire') : i + 1 \in 1..Len(wire)
    BY <1>1, <1>2
  <1>5. WireTrue'
    <2>1. ASSUME NEW i \in 1..Len(wire')
          PROVE  LET c == wire'[i].candle
                 IN /\ c.ts <= bar.ts
                    /\ c.ts <= Len(past) => Within(c, past[c.ts])
                    /\ c.ts = bar.ts => Within(c, bar)
                    /\ wire'[i].closed = TRUE => c.ts <= Len(past) /\ c = past[c.ts]
      BY <1>2, <1>4 DEF Inv, WireTrue
    <2> QED
      BY <2>1 DEF WireTrue
  <1>6. WireInOrder'
    <2>1. ASSUME NEW i \in 1..Len(wire'), NEW j \in 1..Len(wire'), i < j
          PROVE  /\ wire'[i].candle.ts <= wire'[j].candle.ts
                 /\ wire'[i].closed = TRUE => wire'[i].candle.ts < wire'[j].candle.ts
      <3>1. i + 1 \in 1..Len(wire) /\ j + 1 \in 1..Len(wire) /\ i + 1 < j + 1
        BY <1>4, <2>1
      <3>2. wire'[i] = wire[i + 1] /\ wire'[j] = wire[j + 1]
        BY <1>2
      <3> QED
        BY <3>1, <3>2 DEF Inv, WireInOrder
    <2> QED
      BY <2>1 DEF WireInOrder
  <1> QED
    BY <1>2, <1>3, <1>4, <1>5, <1>6

\* The first message is not older than the store, and what follows is not
\* older than the message, which may only repeat the downloaded minute.
LEMMA HeadIs ==
  ASSUME Inv, wire # <<>>, wire' = Tail(wire), UNCHANGED <<bar, past>>
  PROVE  LET m == Head(wire)
         IN /\ \A j \in 1..Len(store) : store[j].ts <= m.candle.ts
            /\ \A i \in 1..Len(wire') :
                 /\ m.candle.ts <= wire'[i].candle.ts
                 /\ m.closed = TRUE => m.candle.ts < wire'[i].candle.ts
            /\ SameMinute(m) => store[Len(store)].ts = snap
            /\ ~SameMinute(m) => \A j \in 1..Len(store) : store[j].ts < m.candle.ts
            /\ \A i \in 1..Len(wire'), j \in 1..Len(store) :
                 /\ store[j].ts <= wire'[i].candle.ts
                 /\ store[j].ts # snap => store[j].ts < wire'[i].candle.ts
  <1> DEFINE m == Head(wire)
  <1>1. /\ m = wire[1] /\ 1 \in 1..Len(wire) /\ m \in Message
        /\ \A i \in 1..Len(wire') : i + 1 \in 1..Len(wire) /\ wire'[i] = wire[i + 1]
    BY WireTail
  <1>2. \A j \in 1..Len(store) :
          store[j].ts <= m.candle.ts /\ (store[j].ts # snap => store[j].ts < m.candle.ts)
    BY <1>1 DEF Inv, WireAhead
  <1>3. ASSUME NEW i \in 1..Len(wire')
        PROVE  /\ m.candle.ts <= wire'[i].candle.ts
               /\ m.closed = TRUE => m.candle.ts < wire'[i].candle.ts
    <2>1. i + 1 \in 1..Len(wire) /\ 1 < i + 1 /\ wire'[i] = wire[i + 1]
      BY <1>1
    <2> QED
      BY <2>1, <1>1 DEF Inv, WireInOrder
  <1>4. Len(store) \in Nat /\ m.candle.ts \in Nat /\ \A j \in 1..Len(store) : store[j].ts \in Nat
    BY <1>1, Lengths, Elements, CandleIs DEF Inv
  <1>5. store # <<>> => Len(store) \in 1..Len(store)
    BY EmptySeq DEF Inv, Types
  <1>6. SameMinute(m) => store[Len(store)].ts = snap
    BY <1>2, <1>4, <1>5 DEF SameMinute, LastOf
  <1>7. ASSUME ~SameMinute(m), NEW j \in 1..Len(store)
        PROVE  store[j].ts < m.candle.ts
    <2>1. store # <<>> /\ Len(store) \in 1..Len(store)
      BY <1>4, EmptySeq DEF Inv, Types
    <2>2. store[Len(store)].ts < m.candle.ts
      BY <1>2, <1>4, <1>7, <2>1 DEF SameMinute, LastOf
    <2>3. j = Len(store) \/ store[j].ts < store[Len(store)].ts
      BY <1>4, <2>1 DEF Inv, StoreInOrder
    <2> QED
      BY <1>4, <2>1, <2>2, <2>3
  <1>8. ASSUME NEW i \in 1..Len(wire'), NEW j \in 1..Len(store)
        PROVE  /\ store[j].ts <= wire'[i].candle.ts
               /\ store[j].ts # snap => store[j].ts < wire'[i].candle.ts
    BY <1>1 DEF Inv, WireAhead
  <1> QED
    BY <1>2, <1>3, <1>6, <1>7, <1>8

\* What lies within a candle merged with what lies within it lies within it.
LEMMA MergeWithin ==
  ASSUME NEW c \in Candle, NEW d \in Candle, NEW e \in Candle, NEW f,
         f.low = Lower(c.low, d.low), f.high = Higher(c.high, d.high),
         Within(c, e), Within(d, e)
  PROVE  Within(f, e)
  <1>1. /\ c.low \in Nat /\ c.high \in Nat /\ d.low \in Nat /\ d.high \in Nat
        /\ e.low \in Nat /\ e.high \in Nat
    BY CandleIs
  <1> QED
    BY <1>1 DEF Within, Lower, Higher

LEMMA MergeKeeps ==
  ASSUME Inv, Receive, SameMinute(Head(wire))
  PROVE  Types' /\ StoreInOrder' /\ StoreSound' /\ WireAhead'
  <1> DEFINE m == Head(wire)
             n == Len(store)
  <1>1. /\ wire # <<>> /\ wire' = Tail(wire) /\ store' = Merged(m)
        /\ UNCHANGED <<bar, past, connected, watching, snap, lost, entry>>
    BY DEF Receive, Stored
  <1>2. /\ m = wire[1] /\ 1 \in 1..Len(wire) /\ m \in Message
        /\ wire' \in Seq(Message) /\ Len(wire') = Len(wire) - 1
    BY <1>1, WireTail
  <1>3. /\ store' \in Seq(Candle) /\ n \in Nat \ {0} /\ Len(store') = n
        /\ \A i \in 1..n - 1 : store'[i] = store[i]
        /\ store'[n].ts = store[n].ts /\ m.candle.ts = store[n].ts
        /\ store'[n].low = Lower(store[n].low, m.candle.low)
        /\ store'[n].high = Higher(store[n].high, m.candle.high)
    BY <1>1, <1>2, MergedIs DEF Inv, Types
  <1>4. \A i \in 1..n : store'[i].ts = store[i].ts
    BY <1>3
  <1>5. store[n].ts = snap /\ n \in 1..n
    BY <1>1, <1>3, HeadIs
  <1>6. Types'
    <2>1. Len(wire') <= MaxWire /\ Len(store') <= Limit
      BY <1>2, <1>3, Lengths, CandlesAssumption DEF CandlesAssumption, Inv, Types
    <2> QED
      BY <2>1, <1>1, <1>2, <1>3 DEF Inv, Types
  <1>7. StoreInOrder'
    BY <1>3, <1>4 DEF Inv, StoreInOrder
  <1>8. WireAhead'
    BY <1>1, <1>3, <1>4, HeadIs DEF WireAhead
  <1>9. m.candle \in Candle /\ store[n] \in Candle /\ bar \in Candle
    BY <1>2, <1>5, Elements DEF Inv, Types, Message
  <1>10. store[n].ts <= Len(past) => Within(store'[n], past[store[n].ts])
    <2> HAVE store[n].ts <= Len(past)
    <2>1. store[n].ts \in 1..Len(past)
      <3>1. store[n].ts \in Nat /\ store[n].ts >= 1 /\ Len(past) \in Nat
        BY <1>9, Lengths, CandlesAssumption DEF CandlesAssumption, Inv, Candle, Minutes
      <3> QED
        BY <3>1
    <2>2. past[store[n].ts] \in Candle
      BY <2>1, Elements DEF Inv
    <2>3. Within(store[n], past[store[n].ts]) /\ Within(m.candle, past[store[n].ts])
      BY <1>2, <1>3, <1>5 DEF Inv, StoreSound, WireTrue
    <2> QED
      BY <1>3, <1>9, <2>2, <2>3, MergeWithin
  <1>11. store[n].ts = bar.ts => Within(store'[n], bar)
    <2> HAVE store[n].ts = bar.ts
    <2>1. Within(store[n], bar) /\ Within(m.candle, bar)
      BY <1>2, <1>3, <1>5 DEF Inv, StoreSound, WireTrue
    <2> QED
      BY <1>3, <1>9, <2>1, MergeWithin
  <1>12. ASSUME NEW i \in 1..n
         PROVE  LET c == store'[i]
                IN /\ c.ts <= bar.ts
                   /\ c.ts <= Len(past) =>
                        IF c.ts = snap THEN Within(c, past[c.ts]) ELSE c = past[c.ts]
                   /\ c.ts = bar.ts => c.ts = snap /\ Within(c, bar)
    <2>1. CASE i \in 1..n - 1
      BY <2>1, <1>3 DEF Inv, StoreSound
    <2>2. CASE i = n
      BY <2>2, <1>3, <1>5, <1>10, <1>11 DEF Inv, StoreSound
    <2> QED
      BY <1>3, <2>1, <2>2
  <1>13. StoreSound'
    BY <1>1, <1>3, <1>12 DEF StoreSound
  <1> QED
    BY <1>6, <1>7, <1>8, <1>13

LEMMA AppendKeeps ==
  ASSUME Inv, Receive, ~SameMinute(Head(wire)), Head(wire).closed = TRUE
  PROVE  Types' /\ StoreInOrder' /\ StoreSound' /\ WireAhead'
  <1> DEFINE m == Head(wire)
             k == Dropped(Append(store, m.candle), Limit)
  <1>1. /\ wire # <<>> /\ wire' = Tail(wire) /\ store' = Appended(m)
        /\ UNCHANGED <<bar, past, connected, watching, snap, lost, entry>>
    BY DEF Receive, Stored
  <1>2. /\ m = wire[1] /\ 1 \in 1..Len(wire) /\ m \in Message
        /\ wire' \in Seq(Message) /\ Len(wire') = Len(wire) - 1
    BY <1>1, WireTail
  <1>3. /\ store' \in Seq(Candle) /\ k \in 0..1 /\ Len(store') = Len(store) + 1 - k
        /\ Len(store') >= 1 /\ Len(store') <= Limit
        /\ \A i \in 1..Len(store) - k : store'[i] = store[i + k]
        /\ store'[Len(store')] = m.candle
    BY <1>1, <1>2, AppendedIs DEF Inv, Types
  <1> HIDE DEF k
  <1>4. Len(store) \in Nat /\ Len(wire) \in Nat /\ Len(past) \in Nat
    BY Lengths DEF Inv
  <1>5. \A i \in 1..Len(store') :
          \/ i + k \in 1..Len(store) /\ i < Len(store') /\ store'[i] = store[i + k]
          \/ i = Len(store') /\ store'[i] = m.candle
    BY <1>3, <1>4
  <1>6. Types'
    <2>1. Len(wire') <= MaxWire
      BY <1>2, <1>4, CandlesAssumption DEF CandlesAssumption, Inv, Types
    <2> QED
      BY <2>1, <1>1, <1>2, <1>3 DEF Inv, Types
  <1>7. \A j \in 1..Len(store) : store[j].ts < m.candle.ts
    BY <1>1, HeadIs
  <1>8. StoreInOrder'
    <2>1. ASSUME NEW i \in 1..Len(store'), NEW j \in 1..Len(store'), i < j
          PROVE  store'[i].ts < store'[j].ts
      <3>1. i + k \in 1..Len(store) /\ store'[i] = store[i + k]
        BY <1>3, <1>4, <1>5, <2>1
      <3>2. CASE j + k \in 1..Len(store) /\ store'[j] = store[j + k]
        <4>1. i + k < j + k
          BY <1>3, <2>1
        <4> QED
          BY <3>1, <3>2, <4>1 DEF Inv, StoreInOrder
      <3>3. CASE store'[j] = m.candle
        BY <3>1, <3>3, <1>7
      <3> QED
        BY <1>5, <3>2, <3>3
    <2> QED
      BY <2>1 DEF StoreInOrder
  <1>9. m.candle.ts <= bar.ts /\ m.candle.ts <= Len(past) /\ m.candle = past[m.candle.ts]
    BY <1>2 DEF Inv, WireTrue
  <1>10. m.candle.ts \in Nat /\ m.candle.ts # bar.ts /\ Within(m.candle, m.candle)
    <2>1. /\ m.candle.ts \in Nat /\ m.candle.low \in Nat /\ m.candle.high \in Nat
      BY <1>2, Elements, CandleIs DEF Inv
    <2> QED
      BY <2>1, <1>4, <1>9 DEF Inv, Dated, Within
  <1>11. ASSUME NEW i \in 1..Len(store')
         PROVE  LET c == store'[i]
                IN /\ c.ts <= bar.ts
                   /\ c.ts <= Len(past) =>
                        IF c.ts = snap THEN Within(c, past[c.ts]) ELSE c = past[c.ts]
                   /\ c.ts = bar.ts => c.ts = snap /\ Within(c, bar)
    <2>1. CASE i + k \in 1..Len(store) /\ store'[i] = store[i + k]
      BY <2>1 DEF Inv, StoreSound
    <2>2. CASE store'[i] = m.candle
      BY <2>2, <1>9, <1>10
    <2> QED
      BY <1>5, <2>1, <2>2
  <1>12. StoreSound'
    BY <1>1, <1>11 DEF StoreSound
  <1>13. WireAhead'
    <2>1. ASSUME NEW i \in 1..Len(wire'), NEW j \in 1..Len(store')
          PROVE  /\ store'[j].ts <= wire'[i].candle.ts
                 /\ store'[j].ts # snap => store'[j].ts < wire'[i].candle.ts
      <3>1. CASE j + k \in 1..Len(store) /\ store'[j] = store[j + k]
        BY <3>1, <1>1, HeadIs
      <3>2. CASE store'[j] = m.candle
        BY <3>2, <1>1, HeadIs
      <3> QED
        BY <1>5, <3>1, <3>2
    <2> QED
      BY <2>1, <1>1 DEF WireAhead
  <1> QED
    BY <1>6, <1>8, <1>12, <1>13

LEMMA ReceiveKeeps ==
  ASSUME Inv, Receive
  PROVE  Inv'
  <1>1. /\ wire # <<>> /\ wire' = Tail(wire) /\ store' = Stored(Head(wire))
        /\ UNCHANGED <<bar, past, connected, watching, snap, lost, entry>>
    BY DEF Receive
  <1>2. Dated' /\ Linked' /\ WireTrue' /\ WireInOrder'
    <2>1. connected = TRUE /\ watching = TRUE
      BY <1>1 DEF Inv, Types, Linked
    <2> QED
      BY <1>1, <2>1, WireTail DEF Inv, Dated, Linked
  <1>3. CASE SameMinute(Head(wire))
    BY <1>2, <1>3, MergeKeeps DEF Inv
  <1>4. CASE ~SameMinute(Head(wire)) /\ Head(wire).closed = TRUE
    BY <1>2, <1>4, AppendKeeps DEF Inv
  <1>5. CASE ~SameMinute(Head(wire)) /\ Head(wire).closed # TRUE
    <2>1. Head(wire) \in Message /\ wire' \in Seq(Message) /\ Len(wire') = Len(wire) - 1
      BY <1>1, WireTail
    <2>2. Head(wire).closed = FALSE
      BY <2>1, <1>5 DEF Message
    <2>3. store' = store
      BY <1>1, <1>5, <2>2 DEF Stored
    <2>4. Len(wire') <= MaxWire
      BY <2>1, Lengths, CandlesAssumption DEF CandlesAssumption, Inv, Types
    <2>5. Types'
      BY <1>1, <2>1, <2>3, <2>4 DEF Inv, Types
    <2>6. StoreInOrder' /\ StoreSound'
      BY <1>1, <2>3 DEF Inv, StoreInOrder, StoreSound
    <2>7. WireAhead'
      BY <1>1, <2>3, HeadIs DEF WireAhead
    <2> QED
      BY <1>2, <2>5, <2>6, <2>7 DEF Inv
  <1> QED
    BY <1>3, <1>4, <1>5

LEMMA EnterKeeps ==
  ASSUME Inv, Enter
  PROVE  Inv'
  <1>1. /\ entry' = [judged |-> Recent(store, Lookback), snap |-> snap]
        /\ watching' = FALSE /\ store' = <<>> /\ snap' = 0 /\ lost' = {}
        /\ connected' = FALSE /\ wire' = <<>> /\ UNCHANGED <<bar, past>>
    BY DEF Enter
  <1>2. Recent(store, Lookback) \in Seq(Candle)
    BY RecentIs, CandlesAssumption DEF CandlesAssumption, Inv, Types
  <1>3. /\ wire' \in Seq(Message) /\ Len(wire') = 0 /\ Len(wire') <= MaxWire
        /\ store' \in Seq(Candle) /\ Len(store') = 0 /\ Len(store') <= Limit
        /\ snap' \in 0..MaxMinutes
    BY <1>1, EmptySeq, CandlesAssumption DEF CandlesAssumption
  <1>4. Types'
    BY <1>1, <1>2, <1>3 DEF Inv, Types
  <1>5. Dated' /\ Linked'
    BY <1>1 DEF Inv, Dated, Linked
  <1>6. WireTrue' /\ WireInOrder' /\ StoreInOrder' /\ StoreSound' /\ WireAhead'
    BY <1>3 DEF WireTrue, WireInOrder, StoreInOrder, StoreSound, WireAhead
  <1> QED
    BY <1>4, <1>5, <1>6 DEF Inv

LEMMA InvInit ==
  ASSUME CandlesInit
  PROVE  Inv
  <1>1. PICK p \in Prices : bar = NewBar(1, p)
    BY DEF CandlesInit
  <1>2. bar \in Candle /\ bar.ts = 1
    BY <1>1, CandlesAssumption DEF CandlesAssumption, NewBar, Candle, Minutes
  <1>3. /\ past \in Seq(Candle) /\ Len(past) = 0
        /\ wire \in Seq(Message) /\ Len(wire) = 0 /\ Len(wire) <= MaxWire
        /\ store \in Seq(Candle) /\ Len(store) = 0 /\ Len(store) <= Limit
        /\ snap \in 0..MaxMinutes
    BY EmptySeq, CandlesAssumption DEF CandlesAssumption, CandlesInit
  <1>4. entry \in [judged: Seq(Candle), snap: 0..MaxMinutes]
    BY <1>3, EmptySeq DEF CandlesInit, NoEntry
  <1>5. Types
    BY <1>2, <1>3, <1>4 DEF CandlesInit, Types
  <1>6. Dated /\ Linked
    BY <1>2, <1>3 DEF CandlesInit, Dated, Linked
  <1>7. WireTrue /\ WireInOrder /\ StoreInOrder /\ StoreSound /\ WireAhead
    BY <1>3 DEF WireTrue, WireInOrder, StoreInOrder, StoreSound, WireAhead
  <1> QED
    BY <1>5, <1>6, <1>7 DEF Inv

LEMMA InvStep ==
  ASSUME Inv, [CandlesNext]_candleVars
  PROVE  Inv'
  <1>1. CASE UNCHANGED candleVars
    BY <1>1 DEF candleVars, Inv, Types, Dated, Linked, WireTrue, WireInOrder, StoreInOrder,
       StoreSound, WireAhead
  <1> QED
    BY <1>1, TradeKeeps, MinuteEndsKeeps, SocketKeeps, DownloadKeeps, ReceiveKeeps, EnterKeeps
       DEF CandlesNext

LEMMA InvAlways == CandlesSpec => []Inv
  BY InvInit, InvStep, PTL DEF CandlesSpec

-----------------------------------------------------------------------------

\* The streams carry candles and messages, and the store never holds more
\* candles than the limit (handle_ws_msg drops the oldest).
THEOREM CandleTypes == CandlesSpec => []CandlesTypeOK
  <1>1. Inv => CandlesTypeOK
    BY DEF Inv, Types, CandlesTypeOK
  <1> QED
    BY <1>1, InvAlways, PTL

\* Over any number of reconnects the stored candles stay in order, each minute once.
THEOREM StoreStaysOrdered == CandlesSpec => []StoreOrdered
  <1>1. Inv => StoreOrdered
    <2>1. Inv => DOMAIN store = 1..Len(store)
      BY LenProperties DEF Inv, Types
    <2> QED
      BY <2>1 DEF Inv, StoreInOrder, StoreOrdered
  <1> QED
    BY <1>1, InvAlways, PTL

\* A stored candle of a minute that is over is what the exchange made of it;
\* only the one that came open from the download may stay too small.
THEOREM StoreStaysTrue == CandlesSpec => []StoreTrue
  <1>1. Inv => StoreTrue
    <2>1. Inv => DOMAIN store = 1..Len(store)
      BY LenProperties DEF Inv, Types
    <2> QED
      BY <2>1 DEF Inv, StoreSound, StoreTrue, Within
  <1> QED
    BY <1>1, InvAlways, PTL

-----------------------------------------------------------------------------
(***************************************************************************)
(* Completeness.  A minute is accounted for when its end was lost, is      *)
(* under way, is in the store, or is older than the store.                 *)
(***************************************************************************)

Sent(t) == \E i \in 1..Len(wire) : wire[i].closed = TRUE /\ wire[i].candle.ts = t
Held(t) == \E i \in 1..Len(store) : store[i].ts = t
Older(t) == Len(store) >= 1 /\ t < store[1].ts
Accounted(t) == t \in lost \/ Sent(t) \/ Older(t) \/ Held(t)

Complete == watching = TRUE => \A t \in snap..Len(past) : Accounted(t)

LEMMA SentIs ==
  ASSUME Types, NEW t
  PROVE  t \in ClosedOnWire <=> Sent(t)
  <1>1. DOMAIN wire = 1..Len(wire)
    BY LenProperties DEF Types
  <1>2. \A i \in 1..Len(wire) : wire[i].closed \in BOOLEAN
    BY Elements DEF Message
  <1>3. \A i \in 1..Len(wire) : wire[i].closed <=> wire[i].closed = TRUE
    BY <1>2
  <1> QED
    BY <1>1, <1>3 DEF ClosedOnWire, Sent

LEMMA TradeAccounts ==
  ASSUME Inv, Complete, Trade
  PROVE  Complete'
  <1>1. UNCHANGED <<past, watching, store, snap, lost>>
    BY DEF Trade
  <1>2. \A t : Sent(t) => Sent(t)'
    <2>1. CASE UNCHANGED wire
      BY <2>1 DEF Sent
    <2>2. CASE wire' = Append(wire, [candle |-> bar', closed |-> FALSE])
      <3>1. bar' \in Candle
        BY TradeKeeps DEF Inv, Types
      <3>2. [candle |-> bar', closed |-> FALSE] \in Message
        BY <3>1 DEF Message
      <3>3. Len(wire') = Len(wire) + 1 /\ \A i \in 1..Len(wire) : wire'[i] = wire[i]
        BY <2>2, <3>2, SentLast DEF Inv
      <3>4. Len(wire) \in Nat
        BY Lengths DEF Inv
      <3> QED
        BY <3>3, <3>4 DEF Sent
    <2> QED
      BY <2>1, <2>2 DEF Trade
  <1> QED
    BY <1>1, <1>2 DEF Complete, Accounted, Held, Older

LEMMA MinuteEndsAccounts ==
  ASSUME Inv, Complete, MinuteEnds
  PROVE  Complete'
  <1>1. UNCHANGED <<connected, watching, store, snap>>
    BY DEF MinuteEnds
  <1>2. Len(past) \in Nat /\ Len(past') = Len(past) + 1 /\ bar.ts = Len(past')
    BY Lengths, AppendProperties DEF MinuteEnds, Inv, Types, Dated
  <1>3. \A t : t \in lost \/ Sent(t) \/ t = bar.ts => t \in lost' \/ Sent(t)'
    <2>1. CASE connected = FALSE
      <3>1. UNCHANGED wire /\ lost' = lost \cup {bar.ts}
        BY <2>1 DEF MinuteEnds
      <3> QED
        BY <3>1 DEF Sent
    <2>2. CASE connected = TRUE
      <3>1. wire' = Append(wire, [candle |-> bar, closed |-> TRUE]) /\ UNCHANGED lost
        BY <2>2 DEF MinuteEnds
      <3>2. [candle |-> bar, closed |-> TRUE] \in Message
        BY DEF Message, Inv, Types
      <3>3. /\ Len(wire') = Len(wire) + 1 /\ \A i \in 1..Len(wire) : wire'[i] = wire[i]
            /\ wire'[Len(wire')] = [candle |-> bar, closed |-> TRUE]
        BY <3>1, <3>2, SentLast DEF Inv
      <3>4. Len(wire) \in Nat
        BY Lengths DEF Inv
      <3>5. Len(wire') \in 1..Len(wire') /\ \A i \in 1..Len(wire) : i \in 1..Len(wire')
        BY <3>3, <3>4
      <3>6. \A t : Sent(t) => Sent(t)'
        BY <3>3, <3>5 DEF Sent
      <3>7. \A t : t = bar.ts => Sent(t)'
        BY <3>3, <3>5 DEF Sent
      <3> QED
        BY <3>1, <3>6, <3>7
    <2> QED
      BY <2>1, <2>2 DEF Inv, Types
  <1>4. snap \in Int
    BY CandlesAssumption DEF CandlesAssumption, Inv, Types
  <1>5. \A t \in snap..Len(past') : t \in snap..Len(past) \/ t = bar.ts
    BY <1>2, <1>4
  <1> QED
    BY <1>1, <1>3, <1>5 DEF Complete, Accounted, Held, Older

LEMMA SocketAccounts ==
  ASSUME Inv, Complete, Disconnect \/ Connect
  PROVE  Complete'
  <1>1. CASE Disconnect
    <2>1. \A t : Sent(t) \/ t \in lost => t \in lost'
      BY <1>1, SentIs DEF Disconnect, Inv
    <2> QED
      BY <1>1, <2>1 DEF Disconnect, Complete, Accounted, Held, Older
  <1>2. CASE Connect
    BY <1>2 DEF Connect, Complete, Accounted, Sent, Held, Older
  <1> QED
    BY <1>1, <1>2

LEMMA ReceiveAccounts ==
  ASSUME Inv, Complete, Receive
  PROVE  Complete'
  <1> DEFINE m == Head(wire)
             k == Dropped(Append(store, m.candle), Limit)
  <1>1. /\ wire # <<>> /\ wire' = Tail(wire) /\ store' = Stored(m)
        /\ UNCHANGED <<bar, past, connected, watching, snap, lost, entry>>
    BY DEF Receive
  <1>2. /\ m = wire[1] /\ m \in Message /\ Len(wire') = Len(wire) - 1
        /\ \A i \in 1..Len(wire') : wire'[i] = wire[i + 1]
    BY <1>1, WireTail
  <1>3. Len(wire) \in Nat /\ Len(store) \in Nat
    BY Lengths DEF Inv
  <1>4. \A t : Sent(t) => Sent(t)' \/ (m.closed = TRUE /\ t = m.candle.ts)
    <2>1. ASSUME NEW t, NEW i \in 1..Len(wire), wire[i].closed = TRUE, wire[i].candle.ts = t
          PROVE  Sent(t)' \/ (m.closed = TRUE /\ t = m.candle.ts)
      <3>1. CASE i = 1
        BY <3>1, <2>1, <1>2
      <3>2. CASE i > 1
        <4>1. i - 1 \in 1..Len(wire') /\ i - 1 + 1 = i
          BY <3>2, <1>2, <1>3
        <4>2. wire'[i - 1] = wire[i]
          BY <4>1, <1>2
        <4> QED
          BY <4>1, <4>2, <2>1 DEF Sent
      <3>3. i = 1 \/ i > 1
        BY <1>3
      <3> QED
        BY <3>1, <3>2, <3>3
    <2> QED
      BY <2>1 DEF Sent
  <1>5. CASE SameMinute(m)
    <2>1. /\ Len(store) \in Nat \ {0} /\ Len(Merged(m)) = Len(store)
          /\ \A i \in 1..Len(store) - 1 : Merged(m)[i] = store[i]
          /\ Merged(m)[Len(store)].ts = store[Len(store)].ts
          /\ m.candle.ts = store[Len(store)].ts
      BY <1>2, <1>5, MergedIs DEF Inv, Types
    <2>2. store' = Merged(m)
      BY <1>1, <1>5 DEF Stored
    <2>3. /\ Len(store') = Len(store) /\ 1 \in 1..Len(store) /\ Len(store) \in 1..Len(store)
          /\ \A i \in 1..Len(store) : store'[i].ts = store[i].ts
      BY <2>1, <2>2
    <2>4. \A t : (Older(t) => Older(t)') /\ (Held(t) => Held(t)')
      BY <2>3 DEF Older, Held
    <2>5. \A t : t = m.candle.ts => Held(t)'
      BY <2>1, <2>3 DEF Held
    <2> QED
      BY <1>1, <1>4, <2>4, <2>5 DEF Complete, Accounted
  <1>6. CASE ~SameMinute(m) /\ m.closed = TRUE
    <2>1. /\ store' = Appended(m) /\ k \in 0..1 /\ Len(store') = Len(store) + 1 - k
          /\ Len(store') >= 1
          /\ \A i \in 1..Len(store) - k : store'[i] = store[i + k]
          /\ store'[Len(store')] = m.candle
      BY <1>1, <1>2, <1>6, AppendedIs DEF Inv, Types, Stored
    <2> HIDE DEF k
    <2>2. \A t : t = m.candle.ts => Held(t)'
      <3>1. Len(store') \in 1..Len(store')
        BY <2>1, <1>3
      <3> QED
        BY <2>1, <3>1 DEF Held
    <2>3. \A j \in 1..Len(store) : store[j].ts < m.candle.ts
      BY <1>1, <1>6, HeadIs
    <2>4. m.candle.ts \in Nat /\ \A j \in 1..Len(store) : store[j].ts \in Nat
      BY <1>2, Elements, CandleIs DEF Inv, Message
    <2>5. ASSUME Len(store) >= 1
          PROVE  /\ store[1].ts <= store'[1].ts /\ store'[1].ts \in Nat
                 /\ k = 1 => store[1].ts < store'[1].ts
      <3>1. CASE Len(store) - k >= 1
        <4>1. 1 \in 1..Len(store) - k /\ 1 + k \in 1..Len(store)
          BY <3>1, <1>3, <2>1
        <4>2. store'[1] = store[1 + k]
          BY <4>1, <2>1
        <4> QED
          BY <4>1, <4>2, <2>1, <2>4 DEF Inv, StoreInOrder
      <3>2. CASE ~(Len(store) - k >= 1)
        <4>1. Len(store) \in Nat /\ k \in 0..1 /\ Len(store') = Len(store) + 1 - k
          BY <1>3, <2>1
        <4>2. Len(store) = 1 /\ k = 1
          <5>1. k = 0 \/ k = 1
            BY <4>1
          <5>2. CASE k = 0
            BY <3>2, <2>5, <4>1, <5>2
          <5>3. CASE k = 1
            BY <3>2, <2>5, <4>1, <5>3
          <5> QED
            BY <5>1, <5>2, <5>3
        <4>3. Len(store') = 1 /\ 1 \in 1..Len(store)
          BY <4>1, <4>2
        <4> QED
          BY <4>3, <2>1, <2>3, <2>4
      <3> QED
        BY <3>1, <3>2
    <2>6. ASSUME NEW t \in Int, Older(t)
          PROVE  Older(t)'
      <3>1. Len(store) >= 1 /\ t < store[1].ts /\ 1 \in 1..Len(store)
        BY <2>6, <1>3 DEF Older
      <3> QED
        BY <3>1, <2>1, <2>4, <2>5 DEF Older
    <2>7. ASSUME NEW t, NEW i \in 1..Len(store), store[i].ts = t
          PROVE  Held(t)' \/ Older(t)'
      <3>1. CASE i - k >= 1
        <4>1. i - k \in 1..Len(store) - k /\ i - k \in 1..Len(store') /\ i - k + k = i
          BY <3>1, <1>3, <2>1
        <4>2. store'[i - k] = store[i]
          BY <4>1, <2>1
        <4> QED
          BY <4>1, <4>2, <2>7 DEF Held
      <3>2. CASE i - k < 1
        <4>1. i = 1 /\ k = 1 /\ Len(store) >= 1
          BY <3>2, <1>3, <2>1
        <4> QED
          BY <4>1, <2>1, <2>5, <2>7 DEF Older
      <3> QED
        BY <2>1, <3>1, <3>2
    <2>8. snap \in Int /\ Len(past) \in Int
      BY Lengths, CandlesAssumption DEF CandlesAssumption, Inv, Types
    <2>9. \A t \in snap..Len(past) : Accounted(t) => Accounted(t)'
      <3>1. \A t : Held(t) => Held(t)' \/ Older(t)'
        BY <2>7 DEF Held
      <3> QED
        BY <1>1, <1>4, <2>2, <2>6, <2>8, <3>1 DEF Accounted
    <2> QED
      BY <1>1, <2>9 DEF Complete
  <1>7. CASE ~SameMinute(m) /\ m.closed # TRUE
    <2>1. m.closed = FALSE
      BY <1>2, <1>7 DEF Message
    <2>2. store' = store
      BY <1>1, <1>7, <2>1 DEF Stored
    <2> QED
      BY <1>1, <1>4, <1>7, <2>2 DEF Complete, Accounted, Held, Older
  <1> QED
    BY <1>5, <1>6, <1>7

LEMMA CompleteStep ==
  ASSUME Inv, Complete, [CandlesNext]_candleVars
  PROVE  Complete'
  <1>1. CASE Download
    <2>1. snap' = Len(past) + 1 /\ past' = past /\ Len(past) \in Nat
      BY <1>1, Lengths DEF Download, Inv, Dated
    <2> QED
      BY <2>1 DEF Complete
  <1>2. CASE Enter
    BY <1>2 DEF Enter, Complete
  <1>3. CASE UNCHANGED candleVars
    BY <1>3 DEF candleVars, Complete, Accounted, Sent, Held, Older
  <1> QED
    BY <1>1, <1>2, <1>3, TradeAccounts, MinuteEndsAccounts, SocketAccounts, ReceiveAccounts
       DEF CandlesNext

\* The only minutes missing between the oldest stored candle and now are those
\* whose end passed without a connection.
THEOREM StoreStaysComplete == CandlesSpec => []StoreComplete
  <1>1. CandlesInit => Complete
    BY DEF CandlesInit, Complete
  <1>2. Inv /\ Complete => StoreComplete
    <2> SUFFICES ASSUME Inv, Complete, watching, NEW t \in snap..Len(past)
                 PROVE  \/ t \in lost \cup ClosedOnWire
                        \/ store # <<>> /\ t < store[1].ts
                        \/ \E i \in DOMAIN store : store[i].ts = t
      BY DEF StoreComplete
    <2>1. Accounted(t)
      BY DEF Complete, Inv, Types
    <2>2. DOMAIN store = 1..Len(store) /\ (Len(store) >= 1 => store # <<>>)
      BY LenProperties, EmptySeq DEF Inv, Types
    <2> QED
      BY <2>1, <2>2, SentIs DEF Inv, Accounted, Older, Held
  <1> QED
    BY <1>1, <1>2, InvAlways, CompleteStep, PTL DEF CandlesSpec

-----------------------------------------------------------------------------
(***************************************************************************)
(* The entry.                                                              *)
(***************************************************************************)

\* With more than 99 percent of at most a hundred candles inside, all are.
LEMMA QuietIs ==
  ASSUME NEW cs \in Seq(Candle), Len(cs) = Lookback, Quiet(cs)
  PROVE  \A i \in 1..Len(cs) :
           Inside(cs[i], LastOf(cs).close - Down, LastOf(cs).close + Up)
  <1> DEFINE lower == LastOf(cs).close - Down
             upper == LastOf(cs).close + Up
             recent == Recent(cs, Period)
             inside == {i \in DOMAIN recent : Inside(recent[i], lower, upper)}
  <1>1. /\ Lookback \in Nat \ {0} /\ Period \in Nat
        /\ Lookback <= Period /\ Lookback <= 100
    BY CandlesAssumption, LookbackAssumption DEF CandlesAssumption
  <1>2. Dropped(cs, Period) = 0
    BY <1>1 DEF Dropped, Saturating
  <1>3. /\ recent \in Seq(Candle) /\ Len(recent) = Lookback
        /\ \A i \in 1..Lookback : recent[i] = cs[i]
    <2>1. /\ recent \in Seq(Candle) /\ Len(recent) = Len(cs) - Dropped(cs, Period)
          /\ \A i \in 1..Len(recent) : recent[i] = cs[i + Dropped(cs, Period)]
      BY <1>1, RecentIs
    <2> HIDE DEF recent
    <2>2. Len(recent) = Lookback
      BY <1>1, <1>2, <2>1
    <2>3. \A i \in 1..Lookback : i + Dropped(cs, Period) = i
      BY <1>1, <1>2
    <2> QED
      BY <2>1, <2>2, <2>3
  <1>4. DOMAIN recent = 1..Lookback
    BY <1>3, LenProperties
  <1>5. 100 * Cardinality(inside) > 99 * Lookback
    <2>1. 100 * InsideCount(cs, Period, lower, upper) > 99 * Len(recent)
      BY DEF Quiet, CoefficientExceeds
    <2> QED
      BY <2>1, <1>3 DEF InsideCount
  <1> HIDE DEF recent, lower, upper
  <1>6. IsFiniteSet(1..Lookback) /\ Cardinality(1..Lookback) = Lookback
    BY <1>1, FS_Interval
  <1>7. inside \in SUBSET (1..Lookback)
    BY <1>4
  <1> HIDE DEF inside
  <1>8. /\ IsFiniteSet(inside) /\ Cardinality(inside) <= Lookback
        /\ Cardinality(inside) = Lookback => inside = 1..Lookback
    BY <1>6, <1>7, FS_Subset, Zenon
  <1>9. Cardinality(inside) \in Nat
    BY <1>8, FS_CardinalityType
  <1>10. inside = 1..Lookback
    BY <1>1, <1>5, <1>8, <1>9
  <1> QED
    BY <1>3, <1>10 DEF inside, lower, upper

\* A candle that was judged is about a minute that had begun; if that is over,
\* the candle is what the exchange made of it, unless it came open from the
\* download.  It lies around the price of the entry.
JudgedSound ==
  \A i \in 1..Len(entry.judged) :
    LET c == entry.judged[i]
        price == LastOf(entry.judged).close
    IN /\ c.ts <= bar.ts
       /\ c.ts = bar.ts => c.ts = entry.snap
       /\ c.ts <= Len(past) /\ c.ts # entry.snap => c = past[c.ts]
       /\ Inside(c, price - Down, price + Up)

LEMMA EnterJudges ==
  ASSUME Inv, Enter
  PROVE  JudgedSound'
  <1> DEFINE src == Recent(store, Lookback)
             k == Dropped(store, Lookback)
  <1>1. /\ entry' = [judged |-> src, snap |-> snap] /\ UNCHANGED <<bar, past>>
        /\ Len(src) = Lookback /\ Quiet(src)
    BY DEF Enter
  <1>2. /\ k \in 0..Len(store) /\ src \in Seq(Candle) /\ Len(src) = Len(store) - k
        /\ \A i \in 1..Len(src) : src[i] = store[i + k]
    BY RecentIs, CandlesAssumption DEF CandlesAssumption, Inv, Types
  <1> HIDE DEF src, k
  <1>3. \A i \in 1..Len(src) : Inside(src[i], LastOf(src).close - Down, LastOf(src).close + Up)
    BY <1>1, <1>2, QuietIs
  <1>4. \A i \in 1..Len(src) : i + k \in 1..Len(store)
    BY <1>2, Lengths DEF Inv
  <1>5. entry'.judged = src /\ entry'.snap = snap
    BY <1>1
  <1>6. bar.ts = Len(past) + 1 /\ Len(past) \in Nat
    BY Lengths DEF Inv, Dated
  <1>7. ASSUME NEW i \in 1..Len(src)
        PROVE  /\ src[i].ts <= bar.ts
               /\ src[i].ts = bar.ts => src[i].ts = snap
               /\ src[i].ts <= Len(past) /\ src[i].ts # snap => src[i] = past[src[i].ts]
    <2>1. src[i] = store[i + k] /\ i + k \in 1..Len(store)
      BY <1>2, <1>4
    <2> QED
      BY <2>1 DEF Inv, StoreSound
  <1> QED
    BY <1>1, <1>3, <1>5, <1>7 DEF JudgedSound

LEMMA JudgedStep ==
  ASSUME Inv, Inv', JudgedSound, [CandlesNext]_candleVars
  PROVE  JudgedSound'
  <1>1. /\ bar.ts = Len(past) + 1 /\ bar'.ts = Len(past') + 1 /\ Len(past) \in Nat
        /\ \A i \in 1..Len(entry.judged) : entry.judged[i].ts \in Nat
    <2>1. entry.judged \in Seq(Candle)
      BY DEF Inv, Types
    <2>2. \A i \in 1..Len(entry.judged) : entry.judged[i] \in Candle
      BY <2>1, ElementOfSeq
    <2> QED
      BY <2>2, Lengths, CandleIs DEF Inv, Dated
  <1>2. CASE UNCHANGED <<past, entry>>
    <2>1. bar'.ts = bar.ts
      BY <1>1, <1>2
    <2> QED
      BY <1>2, <2>1 DEF JudgedSound
  <1>3. CASE MinuteEnds
    <2>1. /\ UNCHANGED entry /\ Len(past') = Len(past) + 1
          /\ \A t \in 1..Len(past) : past'[t] = past[t]
      BY <1>3, AppendProperties DEF MinuteEnds, Inv, Types
    <2>2. \A i \in 1..Len(entry.judged) : entry.judged[i].ts \in Minutes
      <3>1. entry.judged \in Seq(Candle)
        BY DEF Inv, Types
      <3>2. \A i \in 1..Len(entry.judged) : entry.judged[i] \in Candle
        BY <3>1, ElementOfSeq
      <3>3. \A c \in Candle : c.ts \in Minutes
        BY DEF Candle
      <3> QED
        BY <3>2, <3>3
    <2>3. ASSUME NEW i \in 1..Len(entry.judged)
          PROVE  LET c == entry.judged[i]
                 IN /\ c.ts <= bar'.ts /\ c.ts # bar'.ts
                    /\ c.ts <= Len(past') /\ c.ts # entry.snap => c = past'[c.ts]
      <3> DEFINE t == entry.judged[i].ts
      <3>1. /\ t \in Nat \ {0} /\ t <= bar.ts
            /\ t = bar.ts => t = entry.snap
            /\ t <= Len(past) /\ t # entry.snap => entry.judged[i] = past[t]
        BY <1>1, <2>2 DEF JudgedSound, Minutes
      <3> HIDE DEF t
      <3>2. t <= bar'.ts /\ t # bar'.ts
        BY <1>1, <2>1, <3>1
      <3>3. t # entry.snap => t \in 1..Len(past)
        BY <1>1, <3>1
      <3> QED
        BY <2>1, <3>1, <3>2, <3>3 DEF t
    <2> QED
      BY <2>1, <2>3 DEF JudgedSound
  <1>4. CASE Trade \/ Disconnect \/ Connect \/ Download \/ Receive \/ UNCHANGED candleVars
    BY <1>2, <1>4 DEF Trade, Disconnect, Connect, Download, Receive, candleVars
  <1> QED
    BY <1>3, <1>4, EnterJudges DEF CandlesNext

\* The bot enters only on a market that really stayed in the range: every minute
\* the entry was decided from, and that is over, lies around the last price, the
\* one that came open with the download aside.
THEOREM EntryWasQuiet == CandlesSpec => []EntryInQuietMarket
  <1>1. CandlesInit => JudgedSound
    BY EmptySeq DEF CandlesInit, NoEntry, JudgedSound
  <1>2. JudgedSound /\ Inv => EntryInQuietMarket
    <2>1. Inv => DOMAIN entry.judged = 1..Len(entry.judged)
      BY LenProperties DEF Inv, Types
    <2> QED
      BY <2>1 DEF JudgedSound, EntryInQuietMarket
  <1> QED
    BY <1>1, <1>2, InvAlways, InvStep, JudgedStep, PTL DEF CandlesSpec

-----------------------------------------------------------------------------
(***************************************************************************)
(* Candles of a longer frame.                                              *)
(***************************************************************************)

\* A set of natural numbers that is not empty has a least element: the initial
\* segments of the numbers are well ordered by inclusion.
LEMMA LeastNumber ==
  ASSUME NEW S \in SUBSET Nat, S # {}
  PROVE  \E least \in S : \A n \in S : least <= n
  <1> DEFINE Segments == {1..n : n \in S}
  <1>1. \A n \in Nat : 1..n \in FiniteSubsetsOf(Nat)
    BY FS_Interval DEF FiniteSubsetsOf
  <1>2. \E x \in Segments : \A y \in Segments : <<y, x>> \notin StrictSubsetOrdering(Nat)
    <2>1. Segments \subseteq FiniteSubsetsOf(Nat) /\ Segments # {}
      BY <1>1
    <2> QED
      BY <2>1, FS_StrictSubsetOrderingWellFounded, WFMin
  <1>3. PICK least \in S :
          \A y \in Segments : <<y, 1..least>> \notin StrictSubsetOrdering(Nat)
    BY <1>2
  <1>4. ASSUME NEW n \in S, n < least
        PROVE  FALSE
    <2>1. 1..n \subseteq 1..least /\ 1..least \subseteq Nat /\ 1..n # 1..least
      <3>1. least \in 1..least /\ least \notin 1..n
        BY <1>4
      <3> QED
        BY <1>4, <3>1
    <2>2. <<1..n, 1..least>> \in StrictSubsetOrdering(Nat)
      BY <2>1 DEF StrictSubsetOrdering
    <2> QED
      BY <1>3, <2>2
  <1> QED
    BY <1>4

LEMMA Minimum ==
  ASSUME NEW n \in Nat \ {0}, NEW h \in [1..n -> Nat]
  PROVE  \E m \in 1..n : \A i \in 1..n : h[m] <= h[i]
  <1> DEFINE values == {h[i] : i \in 1..n}
  <1>1. values \in SUBSET Nat /\ values # {}
    <2>1. 1 \in 1..n
      OBVIOUS
    <2> QED
      BY <2>1
  <1>2. PICK least \in values : \A x \in values : least <= x
    BY <1>1, LeastNumber
  <1> QED
    BY <1>2

\* The shortest beginning without a maximum would get one from its last element
\* and the maximum of the rest.
LEMMA Maximum ==
  ASSUME NEW n \in Nat \ {0}, NEW h \in [1..n -> Nat]
  PROVE  \E m \in 1..n : \A i \in 1..n : h[i] <= h[m]
  <1> DEFINE Has(k) == \E m \in 1..k : \A i \in 1..k : h[i] <= h[m]
             without == {k \in 1..n : ~Has(k)}
  <1>1. SUFFICES without = {}
    <2>1. n \in 1..n
      OBVIOUS
    <2> QED
      BY <1>1, <2>1
  <1>2. SUFFICES ASSUME without # {}
                 PROVE  FALSE
    OBVIOUS
  <1>3. without \in SUBSET Nat
    OBVIOUS
  <1>4. PICK k \in without : \A j \in without : k <= j
    BY <1>2, <1>3, LeastNumber
  <1>5. k \in 1..n /\ ~Has(k)
    OBVIOUS
  <1>6. k # 1
    <2>1. Has(1)
      BY 1 \in 1..n
    <2> QED
      BY <1>5, <2>1
  <1>7. k - 1 \in 1..n /\ k - 1 \notin without
    <2>1. k - 1 \in 1..n /\ ~(k <= k - 1)
      BY <1>5, <1>6
    <2> HIDE DEF without
    <2> QED
      BY <1>4, <2>1
  <1>8. PICK m \in 1..k - 1 : \A i \in 1..k - 1 : h[i] <= h[m]
    BY <1>7
  <1>9. /\ m \in 1..k /\ k \in 1..k /\ h[m] \in Nat /\ h[k] \in Nat
        /\ \A i \in 1..k : h[i] \in Nat /\ (i \in 1..k - 1 \/ i = k)
    BY <1>5, <1>8
  <1>10. CASE h[k] <= h[m]
    <2>1. \A i \in 1..k : h[i] <= h[m]
      BY <1>8, <1>9, <1>10
    <2> QED
      BY <1>5, <1>9, <2>1
  <1>11. CASE h[m] <= h[k]
    <2>1. \A i \in 1..k : h[i] <= h[k]
      BY <1>8, <1>9, <1>11
    <2> QED
      BY <1>5, <1>9, <2>1
  <1> QED
    BY <1>9, <1>10, <1>11

\* The extremes of a sequence of candles are those of some of them.
LEMMA ExtremesAre ==
  ASSUME NEW cs \in Seq(Candle), Len(cs) # 0
  PROVE  /\ \E m \in 1..Len(cs) : cs[m].high = Highest(cs)
         /\ \A i \in 1..Len(cs) : cs[i].high <= Highest(cs)
         /\ \E m \in 1..Len(cs) : cs[m].low = Lowest(cs)
         /\ \A i \in 1..Len(cs) : Lowest(cs) <= cs[i].low
  <1> DEFINE n == Len(cs)
             highs == [i \in 1..n |-> cs[i].high]
             lows == [i \in 1..n |-> cs[i].low]
  <1>1. n \in Nat \ {0} /\ DOMAIN cs = 1..n
    BY LenProperties
  <1>2. \A i \in 1..n : cs[i].high \in Nat /\ cs[i].low \in Nat
    BY ElementOfSeq, CandleIs
  <1>3. highs \in [1..n -> Nat] /\ lows \in [1..n -> Nat]
    BY <1>2
  <1> HIDE DEF n
  <1>4. \E h \in {cs[i].high : i \in DOMAIN cs} : \A i \in DOMAIN cs : cs[i].high <= h
    <2>1. PICK m \in 1..n : \A i \in 1..n : highs[i] <= highs[m]
      BY <1>1, <1>3, Maximum
    <2> QED
      BY <1>1, <2>1
  <1>5. /\ Highest(cs) \in {cs[i].high : i \in DOMAIN cs}
        /\ \A i \in DOMAIN cs : cs[i].high <= Highest(cs)
    BY <1>4 DEF Highest
  <1>6. \E l \in {cs[i].low : i \in DOMAIN cs} : \A i \in DOMAIN cs : l <= cs[i].low
    <2>1. PICK m \in 1..n : \A i \in 1..n : lows[m] <= lows[i]
      BY <1>1, <1>3, Minimum
    <2> QED
      BY <1>1, <2>1
  <1>7. /\ Lowest(cs) \in {cs[i].low : i \in DOMAIN cs}
        /\ \A i \in DOMAIN cs : Lowest(cs) <= cs[i].low
    BY <1>6 DEF Lowest
  <1> QED
    BY <1>1, <1>5, <1>7 DEF n

\* What a whole division is.
LEMMA DivisionIs ==
  ASSUME NEW a \in Nat, NEW b \in Nat \ {0}, NEW q \in Nat
  PROVE  a \div b = q <=> q * b <= a /\ a < q * b + b
  <1> DEFINE d == a \div b
  <1>1. d \in Nat /\ d * b <= a /\ a < d * b + b
    OBVIOUS
  <1> HIDE DEF d
  <1>2. ASSUME NEW x \in Nat, NEW y \in Nat, x < y
        PROVE  x * b + b <= y * b
    <2>1. PICK z \in Nat : y = x + 1 + z
      BY <1>2
    <2>2. y * b = x * b + b + z * b /\ z * b \in Nat /\ x * b \in Nat
      BY <2>1
    <2> QED
      BY <2>2
  <1>3. ASSUME q * b <= a, a < q * b + b
        PROVE  d = q
    <2>1. q * b \in Nat /\ d * b \in Nat
      BY <1>1
    <2>2. ~(d < q)
      BY <1>1, <1>2, <1>3, <2>1
    <2>3. ~(q < d)
      BY <1>1, <1>2, <1>3, <2>1
    <2> QED
      BY <1>1, <2>2, <2>3
  <1> QED
    BY <1>1, <1>3 DEF d

\* Group i, counted from the end, when it is not empty: it ends i frames before
\* the end, and is one frame long or begins with the first candle.
LEMMA GroupIs ==
  ASSUME NEW cs \in Seq(Candle), NEW frame \in Nat \ {0}, NEW i \in Nat,
         GroupEnd(Len(cs), frame, i) # 0
  PROVE  LET group == Group(cs, frame, i)
             start == GroupStart(Len(cs), frame, i)
             end == GroupEnd(Len(cs), frame, i)
         IN /\ start \in Nat /\ end \in 1..Len(cs) /\ start < end
            /\ group \in Seq(Candle) /\ Len(group) = end - start
            /\ \A k \in 1..end - start : group[k] = cs[start + k]
            /\ \A k \in 1..Len(cs) : (Len(cs) - k) \div frame = i <=> start < k /\ k <= end
  <1> DEFINE n == Len(cs)
             group == Group(cs, frame, i)
             start == GroupStart(n, frame, i)
             end == GroupEnd(n, frame, i)
             back == i * frame
  <1>1. n \in Nat /\ back \in Nat
    BY LenProperties
  <1>2. /\ end = IF n > back THEN n - back ELSE 0
        /\ start = IF end > frame THEN end - frame ELSE 0
    BY DEF GroupEnd, GroupStart, Saturating
  <1>3. group = SubSeq(cs, start + 1, end)
    BY DEF Group
  <1>4. end # 0
    OBVIOUS
  <1> HIDE DEF start, end, group, back
  <1>5. /\ start \in Nat /\ end \in 1..n /\ start < end /\ end = n - back
    BY <1>1, <1>2, <1>4
  <1>6. /\ group \in Seq(Candle) /\ Len(group) = end - start
        /\ \A k \in 1..end - start : group[k] = cs[start + k]
    <2>1. \A k \in start + 1..end : cs[k] \in Candle
      BY <1>1, <1>5, ElementOfSeq
    <2>2. /\ group \in Seq(Candle)
          /\ Len(group) = IF start + 1 <= end THEN end - (start + 1) + 1 ELSE 0
          /\ \A k \in 1..end - (start + 1) + 1 : group[k] = cs[start + 1 + k - 1]
      <3>1. start + 1 \in Int /\ end \in Int
        BY <1>5
      <3> QED
        BY <1>3, <2>1, <3>1, SubSeqProperties
    <2>3. end - (start + 1) + 1 = end - start /\ start + 1 <= end
      BY <1>5
    <2>4. \A k \in 1..end - start : start + 1 + k - 1 = start + k
      BY <1>5
    <2> QED
      BY <2>2, <2>3, <2>4
  <1>7. ASSUME NEW k \in 1..n
        PROVE  (n - k) \div frame = i <=> start < k /\ k <= end
    <2>1. n - k \in Nat
      BY <1>1
    <2> HIDE DEF n
    <2>2. (n - k) \div frame = i <=> back <= n - k /\ n - k < back + frame
      BY <2>1, DivisionIs DEF back
    <2> QED
      BY <1>1, <1>2, <1>5, <2>2
  <1> QED
    BY <1>5, <1>6, <1>7 DEF start, end, group, n

\* A group is empty only when more are asked for than there are candles for.
LEMMA PanicsWhen ==
  ASSUME NEW cs \in Seq(Candle), NEW frame \in Nat \ {0}, NEW ln \in Nat
  PROVE  /\ Groups(Len(cs), frame, ln) \in Nat
         /\ ln > 0 => Groups(Len(cs), frame, ln) = ln
         /\ ConvertPanics(cs, frame, ln) <=> ln > 0 /\ (ln - 1) * frame >= Len(cs)
  <1> DEFINE n == Len(cs)
             groups == Groups(n, frame, ln)
  <1>1. n \in Nat
    BY LenProperties
  <1> HIDE DEF n
  <1>2. groups \in Nat /\ (ln > 0 => groups = ln)
    <2>1. CASE ln = 0
      <3>1. n + frame - 1 \in Nat /\ groups = (n + frame - 1) \div frame
        BY <1>1, <2>1 DEF Groups
      <3> QED
        BY <2>1, <3>1
    <2>2. CASE ln # 0
      BY <2>2 DEF Groups
    <2> QED
      BY <2>1, <2>2
  <1>3. \A i \in Nat : GroupEnd(n, frame, i) = 0 <=> i * frame >= n
    <2> TAKE i \in Nat
    <2> DEFINE back == i * frame
    <2>1. back \in Nat /\ GroupEnd(n, frame, i) = IF n > back THEN n - back ELSE 0
      BY DEF GroupEnd, Saturating
    <2> HIDE DEF back
    <2>2. GroupEnd(n, frame, i) = 0 <=> back >= n
      BY <1>1, <2>1
    <2> QED
      BY <2>2 DEF back
  <1>4. ConvertPanics(cs, frame, ln) <=> \E i \in 0..groups - 1 : i * frame >= n
    <2>1. \A i \in 0..groups - 1 : i \in Nat
      BY <1>2
    <2> QED
      BY <1>3, <2>1 DEF ConvertPanics, n
  <1>5. ASSUME ln = 0
        PROVE  ~ConvertPanics(cs, frame, ln)
    <2>1. n + frame - 1 \in Nat /\ groups = (n + frame - 1) \div frame
      BY <1>1, <1>5 DEF Groups
    <2>2. groups * frame <= n + frame - 1
      BY <1>2, <2>1, DivisionIs
    <2> HIDE DEF groups
    <2>3. ASSUME NEW i \in 0..groups - 1
          PROVE  ~(i * frame >= n)
      <3>1. PICK z \in Nat : groups = i + 1 + z
        BY <1>2
      <3>2. groups * frame = i * frame + frame + z * frame
        BY <3>1
      <3>3. z * frame \in Nat /\ i * frame \in Nat
        BY <3>1
      <3> QED
        BY <1>1, <2>2, <3>2, <3>3
    <2> QED
      BY <1>4, <2>3
  <1>6. ASSUME ln # 0
        PROVE  ConvertPanics(cs, frame, ln) <=> (ln - 1) * frame >= n
    <2>1. groups = ln /\ ln - 1 \in 0..groups - 1
      BY <1>2, <1>6
    <2>2. ASSUME NEW i \in 0..groups - 1
          PROVE  i * frame <= (ln - 1) * frame
      <3>1. PICK z \in Nat : ln - 1 = i + z
        BY <1>6, <2>1
      <3>2. (ln - 1) * frame = i * frame + z * frame
        BY <3>1
      <3>3. z * frame \in Nat /\ i * frame \in Nat
        BY <3>1
      <3> QED
        BY <3>2, <3>3
    <2>3. (\E i \in 0..groups - 1 : i * frame >= n) <=> (ln - 1) * frame >= n
      <3>1. \A i \in 0..groups - 1 : i * frame \in Nat
        BY <2>1
      <3>2. (ln - 1) * frame \in Nat
        BY <2>1, <3>1
      <3> HIDE DEF groups
      <3> QED
        BY <1>1, <2>1, <2>2, <3>1, <3>2
    <2> QED
      BY <1>4, <2>3
  <1>7. ConvertPanics(cs, frame, ln) <=> ln > 0 /\ (ln - 1) * frame >= n
    BY <1>5, <1>6
  <1> QED
    BY <1>2, <1>7 DEF groups, n

\* As many bars as there are candles for leave no candle out.
LEMMA AllFall ==
  ASSUME NEW n \in Nat, NEW frame \in Nat \ {0}
  PROVE  \A k \in 1..n : (n - k) \div frame \in 0..Groups(n, frame, 0) - 1
  <1> TAKE k \in 1..n
  <1> DEFINE groups == Groups(n, frame, 0)
             place == (n - k) \div frame
  <1>1. n + frame - 1 \in Nat /\ n - k \in Nat
    OBVIOUS
  <1>2. groups \in Nat /\ place \in Nat
    <2>1. \A a \in Nat : a \div frame \in Nat
      OBVIOUS
    <2> QED
      BY <1>1, <2>1 DEF Groups
  <1>3. n + frame - 1 < groups * frame + frame
    BY <1>1, <1>2, DivisionIs DEF Groups
  <1>4. place * frame <= n - k
    BY <1>1, <1>2, DivisionIs
  <1> HIDE DEF groups, place
  <1>5. ASSUME groups <= place
        PROVE  FALSE
    <2>1. PICK z \in Nat : place = groups + z
      BY <1>2, <1>5
    <2>2. place * frame = groups * frame + z * frame
      BY <1>2, <2>1
    <2>3. z * frame \in Nat /\ groups * frame \in Nat
      BY <1>2
    <2> QED
      BY <1>3, <1>4, <2>2, <2>3
  <1>6. place \in 0..groups - 1
    BY <1>2, <1>5
  <1> QED
    BY <1>6 DEF groups, place

\* A candle of the longer frame is made of its group.
LEMMA ConvertedIs ==
  ASSUME NEW cs \in Seq(Candle), NEW frame \in Nat \ {0}, NEW ln \in Nat,
         \A k \in 1..Len(cs) : cs[k].ts = k,
         ~ConvertPanics(cs, frame, ln), NEW d \in 1..Groups(Len(cs), frame, ln)
  PROVE  MadeOf(Converted(cs, frame, ln)[d],
                Falling(cs, frame, Groups(Len(cs), frame, ln) - d))
  <1> DEFINE n == Len(cs)
             i == Groups(n, frame, ln) - d
             group == Group(cs, frame, i)
             start == GroupStart(n, frame, i)
             end == GroupEnd(n, frame, i)
             c == [ts |-> group[1].ts, high |-> Highest(group), low |-> Lowest(group),
                   close |-> group[Len(group)].close]
             bars == Falling(cs, frame, i)
  <1>1. Converted(cs, frame, ln)[d] = c
    BY DEF Converted
  <1>2. Groups(n, frame, ln) \in Nat
    BY PanicsWhen
  <1>3. i \in Nat /\ i \in 0..Groups(n, frame, ln) - 1 /\ n \in Nat
    BY <1>2, LenProperties
  <1>4. end # 0
    BY <1>3 DEF ConvertPanics
  <1> HIDE DEF i
  <1>5. /\ start \in Nat /\ end \in 1..n /\ start < end
        /\ group \in Seq(Candle) /\ Len(group) = end - start
        /\ \A k \in 1..end - start : group[k] = cs[start + k]
        /\ \A k \in 1..n : (n - k) \div frame = i <=> start < k /\ k <= end
    BY <1>3, <1>4, GroupIs
  <1>6. Len(group) # 0
    BY <1>3, <1>5
  <1>7. /\ \E m \in 1..Len(group) : group[m].high = c.high
        /\ \A k \in 1..Len(group) : group[k].high <= c.high
        /\ \E m \in 1..Len(group) : group[m].low = c.low
        /\ \A k \in 1..Len(group) : c.low <= group[k].low
    <2>1. c.high = Highest(group) /\ c.low = Lowest(group)
      OBVIOUS
    <2> HIDE DEF c, group
    <2> QED
      BY <1>5, <1>6, <2>1, ExtremesAre
  <1>8. /\ c.ts = group[1].ts /\ c.close = group[Len(group)].close
        /\ \A k \in 1..n : cs[k].ts = k
    OBVIOUS
  <1> HIDE DEF c, group, start, end
  <1>9. \A k \in 1..end - start : start + k \in 1..n /\ start < start + k /\ start + k <= end
    BY <1>3, <1>5
  <1>10. \A k \in 1..Len(group) : group[k] \in bars /\ group[k].ts = start + k
    <2> TAKE k \in 1..Len(group)
    <2>1. k \in 1..end - start
      BY <1>5
    <2>2. /\ group[k] = cs[start + k] /\ start + k \in 1..n
          /\ (n - (start + k)) \div frame = i
      BY <2>1, <1>5, <1>9
    <2> QED
      BY <2>2, <1>8 DEF Falling
  <1>11. \A x \in bars : \E k \in 1..Len(group) : x = group[k]
    <2> TAKE x \in bars
    <2>1. PICK j \in 1..n : x = cs[j] /\ start < j /\ j <= end
      BY <1>5 DEF Falling
    <2>2. j - start \in 1..end - start /\ start + (j - start) = j
      BY <1>5, <2>1
    <2> QED
      BY <1>5, <2>1, <2>2
  <1> HIDE DEF bars
  <1>12. 1 \in 1..Len(group) /\ Len(group) \in 1..Len(group)
    BY <1>3, <1>5
  <1>13. \A x \in bars : c.low <= x.low /\ x.high <= c.high /\ c.ts <= x.ts
    <2> TAKE x \in bars
    <2>1. PICK k \in 1..Len(group) : x = group[k]
      BY <1>11
    <2>2. c.ts = start + 1 /\ x.ts = start + k
      BY <1>8, <1>10, <1>12, <2>1
    <2>3. c.ts <= x.ts
      BY <1>3, <1>5, <2>2
    <2> QED
      BY <1>7, <2>1, <2>3
  <1>14. \E x, y, z \in bars : x.low = c.low /\ y.high = c.high /\ z.ts = c.ts
    BY <1>7, <1>8, <1>10, <1>12
  <1>15. \E x \in bars : x.close = c.close /\ \A y \in bars : y.ts <= x.ts
    <2>1. ASSUME NEW y \in bars
          PROVE  y.ts <= group[Len(group)].ts
      <3>1. PICK k \in 1..Len(group) : y = group[k]
        BY <1>11
      <3>2. y.ts = start + k /\ group[Len(group)].ts = start + Len(group)
        BY <1>10, <1>12, <3>1
      <3> QED
        BY <1>3, <1>5, <3>2
    <2> QED
      BY <1>8, <1>10, <1>12, <2>1
  <1> QED
    BY <1>1, <1>13, <1>14, <1>15 DEF MadeOf, bars, i

\* convert_timeframe: over the closed candles of the exchange, for every frame
\* and every number of bars asked for, each bar is made of the candles a whole
\* division counted from the end assigns to it, and it panics only when a bar
\* would have none.
THEOREM ConvertsRightly == CandlesSpec => []ConvertAgrees
  <1>1. Inv => ConvertAgrees
    <2> SUFFICES ASSUME Inv
                 PROVE  ConvertAgrees
      OBVIOUS
    <2>1. past \in Seq(Candle) /\ \A k \in 1..Len(past) : past[k].ts = k
      BY DEF Inv, Types, Dated
    <2>2. \A frame \in 1..MaxMinutes, ln \in 0..MaxMinutes :
            frame \in Nat \ {0} /\ ln \in Nat
      BY CandlesAssumption DEF CandlesAssumption
    <2>3. Len(past) \in Nat
      BY Lengths DEF Inv
    <2>4. ASSUME NEW frame \in 1..MaxMinutes, NEW ln \in 0..MaxMinutes
          PROVE  /\ ConvertPanics(past, frame, ln) <=> ln > 0 /\ (ln - 1) * frame >= Len(past)
                 /\ ln > 0 => Groups(Len(past), frame, ln) = ln
      BY <2>1, <2>2, PanicsWhen
    <2>5. ASSUME NEW frame \in 1..MaxMinutes, NEW ln \in 0..MaxMinutes, ln = 0
          PROVE  \A k \in 1..Len(past) :
                   (Len(past) - k) \div frame \in 0..Groups(Len(past), frame, ln) - 1
      BY <2>2, <2>3, <2>5, AllFall
    <2>6. ASSUME NEW frame \in 1..MaxMinutes, NEW ln \in 0..MaxMinutes,
                 ~ConvertPanics(past, frame, ln),
                 NEW d \in 1..Groups(Len(past), frame, ln)
          PROVE  MadeOf(Converted(past, frame, ln)[d],
                        Falling(past, frame, Groups(Len(past), frame, ln) - d))
      BY <2>1, <2>2, <2>6, ConvertedIs
    <2> QED
      BY <2>4, <2>5, <2>6 DEF ConvertAgrees
  <1> QED
    BY <1>1, InvAlways, PTL

=============================================================================
