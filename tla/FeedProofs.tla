----------------------------- MODULE FeedProofs -----------------------------
(***************************************************************************)
(* Proofs about the price feed.  As long as every chunk carries a price    *)
(* its age is what the stream has been silent for, and that is what the    *)
(* idle timeout bounds.                                                    *)
(***************************************************************************)
EXTENDS Feed, TLAPS

Flags == live \in {TRUE, FALSE} /\ mute \in {TRUE, FALSE}

Counters ==
  /\ feed \in {"connecting", "streaming", "pausing"}
  /\ age \in 0..MaxAge /\ silence \in 0..Idle
  /\ backoff \in 1..MaxBackoff /\ pause \in 0..MaxBackoff

AgeIsSilence == live = TRUE => feed = "streaming" /\ (mute = FALSE => age <= silence)

FeedInv == Flags /\ Counters /\ AgeIsSilence

LEMMA FlagsKept ==
  ASSUME FeedInv, FeedNext
  PROVE  Flags'
  BY Zenon DEF FeedInv, Flags, FeedNext, StreamOpens, PriceArrives, NoiseArrives,
     ConnectFails, StreamBreaks, IdleTimeout, Drops, PauseEnds, Second

LEMMA DropsKeeps ==
  ASSUME FeedInv, Drops
  PROVE  Counters' /\ AgeIsSilence'
  BY FeedAssumption DEF FeedAssumption, FeedInv, Counters, AgeIsSilence, Drops, Least

LEMMA StreamKeeps ==
  ASSUME FeedInv, StreamOpens \/ PriceArrives \/ NoiseArrives \/ PauseEnds
  PROVE  Counters' /\ AgeIsSilence'
  <1> USE FeedAssumption DEF FeedAssumption, FeedInv, Counters, AgeIsSilence
  <1>1. CASE StreamOpens
    BY <1>1 DEF StreamOpens
  <1>2. CASE PriceArrives
    BY <1>2 DEF PriceArrives
  <1>3. CASE NoiseArrives
    BY <1>3 DEF NoiseArrives
  <1>4. CASE PauseEnds
    BY <1>4 DEF PauseEnds
  <1> QED
    BY <1>1, <1>2, <1>3, <1>4

LEMMA SecondKeeps ==
  ASSUME FeedInv, Second
  PROVE  Counters' /\ AgeIsSilence'
  <1> USE FeedAssumption DEF FeedAssumption, FeedInv, Flags, Counters, AgeIsSilence
  <1>1. CASE live = TRUE
    BY <1>1 DEF Second, Least
  <1>2. CASE live = FALSE
    BY <1>2 DEF Second, Least
  <1> QED
    BY <1>1, <1>2

LEMMA FeedStep ==
  ASSUME FeedInv, [FeedNext]_feedVars
  PROVE  FeedInv'
  <1>1. CASE FeedNext
    <2>1. Counters' /\ AgeIsSilence'
      BY <1>1, DropsKeeps, StreamKeeps, SecondKeeps
         DEF FeedNext, ConnectFails, StreamBreaks, IdleTimeout
    <2> QED
      BY <1>1, <2>1, FlagsKept DEF FeedInv
  <1>2. CASE UNCHANGED feedVars
    BY <1>2 DEF feedVars, FeedInv, Flags, Counters, AgeIsSilence
  <1> QED
    BY <1>1, <1>2

LEMMA FeedInductive == FeedSpec => []FeedInv
  <1>1. FeedInit => Flags
    BY Zenon DEF FeedInit, Flags
  <1>2. FeedInit => Counters /\ AgeIsSilence
    BY FeedAssumption DEF FeedAssumption, FeedInit, Counters, AgeIsSilence
  <1> QED
    BY <1>1, <1>2, FeedStep, PTL DEF FeedSpec, FeedInv

\* The counters of the feed stay within their bounds: no pause is longer than
\* the largest back-off, and no silence longer than the idle timeout.
THEOREM FeedTypes == FeedSpec => []FeedTypeOK
  <1>1. FeedInv => FeedTypeOK
    BY Zenon DEF FeedInv, Flags, Counters, FeedTypeOK
  <1> QED
    BY <1>1, FeedInductive, PTL

\* subscribe: a price in the channel is at most as old as the idle timeout as
\* long as every chunk carries one.
THEOREM PriceStaysFresh == FeedSpec => []PriceIsFresh
  <1>1. FeedInv => (age <= silence => age <= Idle)
    BY FeedAssumption DEF FeedAssumption, FeedInv, Counters
  <1>2. FeedInv => PriceIsFresh
    BY <1>1, Zenon DEF FeedInv, Flags, AgeIsSilence, PriceIsFresh
  <1> QED
    BY <1>2, FeedInductive, PTL

=============================================================================
