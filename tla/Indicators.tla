----------------------------- MODULE Indicators -----------------------------
(***************************************************************************)
(* The pure functions of exchange/helpers.rs that the entry decision and   *)
(* the pool report use, over candles [ts, high, low, close] whose prices   *)
(* are whole numbers.  Volumes, and the ATR and RSI of the `ta` crate, are *)
(* left out.                                                               *)
(***************************************************************************)
EXTENDS Integers, Sequences, FiniteSets

Highest(cs) == CHOOSE h \in {cs[i].high : i \in DOMAIN cs} :
                 \A i \in DOMAIN cs : cs[i].high <= h
Lowest(cs) == CHOOSE l \in {cs[i].low : i \in DOMAIN cs} :
                \A i \in DOMAIN cs : l <= cs[i].low

\* Saturating subtraction of usize.
Saturating(a, b) == IF a > b THEN a - b ELSE 0

-----------------------------------------------------------------------------
(***************************************************************************)
(* convert_timeframe: every `frame` candles become one, counted from the   *)
(* end; `ln` = 0 asks for as many as there are.                            *)
(***************************************************************************)

Groups(n, frame, ln) == IF ln = 0 THEN (n + frame - 1) \div frame ELSE ln

\* Mutant: a group ends one candle too early.
GroupEndEarly(n, frame, i) == Saturating(n, i * frame + 1)

\* Group i, counted from the end, is made of the candles after `start` and up
\* to `end`.
GroupEnd(n, frame, i) == Saturating(n, i * frame)
GroupStart(n, frame, i) == Saturating(GroupEnd(n, frame, i), frame)

Group(cs, frame, i) ==
  SubSeq(cs, GroupStart(Len(cs), frame, i) + 1, GroupEnd(Len(cs), frame, i))

\* closes[end - 1] underflows when a group is empty: the task panics.
ConvertPanics(cs, frame, ln) ==
  \E i \in 0..Groups(Len(cs), frame, ln) - 1 : GroupEnd(Len(cs), frame, i) = 0

Converted(cs, frame, ln) ==
  LET length == Groups(Len(cs), frame, ln)
  IN [dst \in 1..length |->
        LET group == Group(cs, frame, length - dst)
        IN [ts |-> group[1].ts, high |-> Highest(group), low |-> Lowest(group),
            close |-> group[Len(group)].close]]

-----------------------------------------------------------------------------
(***************************************************************************)
(* range_coefficient and calculate_price_bounds.                           *)
(***************************************************************************)

\* Mode::Full and Mode::Intersect.
Inside(c, lower, upper) == lower <= c.low /\ c.high <= upper
Touches(c, lower, upper) == lower <= c.high /\ c.low <= upper

\* The candles that are counted: the last `period`, or all of them.
Recent(cs, period) == SubSeq(cs, Saturating(Len(cs), period) + 1, Len(cs))

InsideCount(cs, period, lower, upper) ==
  Cardinality({i \in DOMAIN Recent(cs, period) : Inside(Recent(cs, period)[i], lower, upper)})

\* Its result, in percent, exceeds `pct`.
CoefficientExceeds(cs, period, lower, upper, pct) ==
  100 * InsideCount(cs, period, lower, upper) > pct * Len(Recent(cs, period))

=============================================================================
