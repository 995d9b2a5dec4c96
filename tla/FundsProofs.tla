----------------------------- MODULE FundsProofs -----------------------------
(***************************************************************************)
(* Proofs about the money of the wallet, for every price, grid of amounts, *)
(* number of steps, parts, pending transactions, calls and troubles.       *)
(***************************************************************************)
EXTENDS Funds, FiniteSetTheorems, TLAPS

-----------------------------------------------------------------------------
(***************************************************************************)
(* Arithmetic.                                                             *)
(***************************************************************************)

LEMMA Times ==
  ASSUME NEW a \in Nat, NEW b \in Nat
  PROVE  a * b \in Nat
OBVIOUS

\* What a division makes of a natural number, and what is left of it.
LEMMA Quotient ==
  ASSUME NEW a \in Nat, NEW b \in Nat \ {0}
  PROVE  a \div b \in Nat /\ (a \div b) * b <= a
<1>1. (a \div b) * b <= a
  OBVIOUS
<1>2. a \div b \in Nat
  OBVIOUS
<1> QED
  BY <1>1, <1>2

LEMMA Margins ==
  ASSUME NEW x \in Nat, NEW y \in Nat
  PROVE  Over(x) \in Nat /\ Buffered(x) \in Nat /\ Monus(x, y) \in Nat /\ Monus(x, y) <= x
BY DEF Over, Buffered, Monus

LEMMA InSolType ==
  ASSUME NEW x \in Nat
  PROVE  InSol(x) \in Nat
BY Quotient, FundsAssumption DEF FundsAssumption, InSol

LEMMA UnitType ==
  /\ UnitValue \in Nat \ {0}
  /\ \A mode \in Modes :
       /\ Unit(mode).sol \in Nat /\ Unit(mode).usdc \in Nat
       /\ Unit(mode).usdc + Unit(mode).sol * Price = UnitValue
BY FundsAssumption DEF FundsAssumption, UnitValue, Modes, Unit, Coins

-----------------------------------------------------------------------------
(***************************************************************************)
(* Type correctness.                                                       *)
(***************************************************************************)

\* Where an operation goes on after its readings, and after a swap.
Thens == {"idle", "decide", "measured", "freed", "fund"}
Backs == {"idle", "buyUsdc", "readSol", "quote", "send"}

Frames == [op: Operations, then: Thens, attempt: 1..3, free: Balances,
           need: Balances, before: Balances, budget: Nat, pos: Positions,
           to: Positions, mode: Modes, kind: Kinds, units: Nat, asked: Nat,
           step: 1..SlipSteps]
Swaps == [sell: {"sol", "usdc"}, amount: Nat, step: 1..3, retry: 0..2,
          parts: 1..MaxParts, done: 0..MaxParts, back: Backs]
Logs == [sold: Nat, missed: 0..3, moved: Nat, withdrawn: Nat,
         disturbed: BOOLEAN, blind: BOOLEAN]

\* What the current swap or ladder has sent: it sells no less than nothing.
Transactions == {e \in Effects : e.current => SoldBy(e) \in Nat}

Chained ==
  wallet \in Balances /\ liq \in [Positions -> Nat] /\ pending \in [Slots -> Transactions]
Counted == calls \in 0..MaxCalls /\ troubles \in 0..MaxTroubles

\* A swap in hand has missed a confirmation only at earlier steps.
Steps ==
  /\ at = "swap" => log.missed < sw.step /\ sw.done = 0
  /\ at = "part" => log.missed <= 2 /\ sw.done < sw.parts

Types ==
  /\ Chained /\ Counted /\ Steps
  /\ at \in Labels /\ f \in Frames /\ sw \in Swaps /\ log \in Logs

LEMMA TypesOK == Types => FundsTypeOK
BY DEF Types, Chained, Transactions, Counted, FundsTypeOK, Frames, Swaps, Logs, Thens, Backs, Labels

LEMMA Constants ==
  /\ NoFrame \in Frames /\ NoSwap \in Swaps /\ NoLog \in Logs
  /\ Nothing \in Effects /\ Nothing \in Transactions /\ SomePosition \in Positions
<1>1. SomePosition \in Positions
  BY FundsAssumption DEF FundsAssumption, SomePosition
<1>2. Coins(0, 0) \in Balances
  BY DEF Coins, Balances
<1>3. NoFrame \in Frames
  BY <1>1, <1>2, FundsAssumption
     DEF FundsAssumption, NoFrame, Frames, Operations, Thens, Modes, Kinds
<1>4. NoSwap \in Swaps
  BY FundsAssumption DEF FundsAssumption, NoSwap, Swaps, Backs
<1>5. NoLog \in Logs
  BY DEF NoLog, Logs
<1>6. Nothing \in Effects
  BY <1>1 DEF Nothing, Effects
<1>7. Nothing.current = FALSE
  BY DEF Nothing
<1> QED
  BY <1>1, <1>3, <1>4, <1>5, <1>6, <1>7 DEF Transactions

LEMMA EndTypes ==
  ASSUME f \in Frames, End
  PROVE  f' \in Frames /\ at' = "idle"
BY Constants DEF End, Frames

LEMMA AgedTypes ==
  ASSUME pending \in [Slots -> Transactions]
  PROVE  Aged \in [Slots -> Transactions] /\ \A s \in Slots : Aged[s].current = FALSE
<1> SUFFICES ASSUME NEW s \in Slots
             PROVE  Aged[s] \in Transactions /\ Aged[s].current = FALSE
  BY DEF Aged
<1>1. Aged[s] = [pending[s] EXCEPT !.current = FALSE] /\ pending[s] \in Effects
  BY DEF Aged, Transactions
<1>2. Aged[s] \in Effects /\ Aged[s].current = FALSE
  BY <1>1, Zenon DEF Effects
<1> QED
  BY <1>2 DEF Transactions

\* Numbers of the log may be reset.
LEMMA LogReset ==
  ASSUME log \in Logs
  PROVE  /\ [log EXCEPT !.sold = 0, !.missed = 0] \in Logs
         /\ [log EXCEPT !.moved = 0, !.sold = 0, !.missed = 0] \in Logs
<1>1. 0 \in Nat /\ 0 \in 0..3
  OBVIOUS
<1>2. [log EXCEPT !.sold = 0, !.missed = 0] \in Logs
  BY <1>1, Zenon DEF Logs
<1>3. [log EXCEPT !.moved = 0, !.sold = 0, !.missed = 0] \in Logs
  BY <1>1, Zenon DEF Logs
<1> QED
  BY <1>2, <1>3

LEMMA StartSwapTypes ==
  ASSUME Types, NEW sell \in {"sol", "usdc"}, NEW amount \in Nat,
         NEW back \in Backs, StartSwap(sell, amount, back)
  PROVE  /\ sw' \in Swaps /\ log' \in Logs /\ pending' \in [Slots -> Transactions]
         /\ at' \in Labels /\ Steps'
<1>1. sw' \in Swaps /\ sw'.step = 1 /\ sw'.done = 0
  BY Constants DEF StartSwap, Swaps, NoSwap
<1>2. log' \in Logs /\ log'.missed = 0
  <2>1. log \in Logs /\ log' = [log EXCEPT !.sold = 0, !.missed = 0]
    BY DEF StartSwap, Types
  <2> QED
    BY <2>1, LogReset DEF Logs
<1>3. pending' \in [Slots -> Transactions]
  BY AgedTypes DEF StartSwap, Types, Chained
<1>4. at' = "swap"
  BY DEF StartSwap
<1> QED
  BY <1>1, <1>2, <1>3, <1>4 DEF Steps, Labels

LEMMA StartLadderTypes ==
  ASSUME Types, NEW frame \in Frames, NEW next \in {"send", "readSol"},
         StartLadder(frame, next)
  PROVE  /\ f' \in Frames /\ sw' \in Swaps /\ log' \in Logs
         /\ pending' \in [Slots -> Transactions] /\ at' \in Labels /\ Steps'
<1>1. log' \in Logs
  BY LogReset DEF StartLadder, Types
<1>2. pending' \in [Slots -> Transactions]
  BY AgedTypes DEF StartLadder, Types, Chained
<1>3. at' = next
  BY DEF StartLadder
<1> QED
  BY <1>1, <1>2, <1>3, Constants DEF StartLadder, Steps, Labels

LEMMA LandsTypes ==
  ASSUME Types, NEW e \in Effects, Lands(e)
  PROVE  wallet' \in Balances /\ liq' \in [Positions -> Nat]
BY DEF Types, Chained, Lands, Coins, Balances, Effects

LEMMA MissesTypes ==
  ASSUME Types, NEW e \in Transactions, Misses(e)
  PROVE  Chained' /\ Counted'
<1>1. pending' \in [Slots -> Transactions]
  BY DEF Misses, Types, Chained
<1>2. troubles' \in 0..MaxTroubles
  BY FundsAssumption DEF Misses, Types, Counted, FundsAssumption
<1> QED
  BY <1>1, <1>2 DEF Misses, Types, Chained, Counted

LEMMA LogAdds ==
  ASSUME log \in Logs, NEW n \in Nat
  PROVE  /\ [log EXCEPT !.sold = @ + n] \in Logs
         /\ [log EXCEPT !.disturbed = TRUE] \in Logs
         /\ log.missed <= 2 => [log EXCEPT !.missed = @ + 1, !.disturbed = TRUE] \in Logs
         /\ [log EXCEPT !.moved = @ + n, !.withdrawn = log.withdrawn] \in Logs
         /\ [log EXCEPT !.moved = @ + n, !.withdrawn = @ + n] \in Logs
         /\ \A truth \in BOOLEAN : [log EXCEPT !.blind = truth] \in Logs
<1>1. log.sold + n \in Nat /\ log.moved + n \in Nat /\ log.withdrawn + n \in Nat
  BY DEF Logs
<1>2. log.missed <= 2 => log.missed + 1 \in 0..3
  BY DEF Logs
<1>3. [log EXCEPT !.sold = @ + n] \in Logs
  BY <1>1, Zenon DEF Logs
<1>4. [log EXCEPT !.disturbed = TRUE] \in Logs
  BY Zenon DEF Logs
<1>5. log.missed <= 2 => [log EXCEPT !.missed = @ + 1, !.disturbed = TRUE] \in Logs
  BY <1>2, Zenon DEF Logs
<1>6. [log EXCEPT !.moved = @ + n, !.withdrawn = log.withdrawn] \in Logs
  BY <1>1, Zenon DEF Logs
<1>7. [log EXCEPT !.moved = @ + n, !.withdrawn = @ + n] \in Logs
  BY <1>1, Zenon DEF Logs
<1>8. \A truth \in BOOLEAN : [log EXCEPT !.blind = truth] \in Logs
  BY Zenon DEF Logs
<1> QED
  BY <1>3, <1>4, <1>5, <1>6, <1>7, <1>8

LEMMA MissedOnce ==
  ASSUME log \in Logs, log.missed <= 2,
         log' = [log EXCEPT !.missed = @ + 1, !.disturbed = TRUE]
  PROVE  log' \in Logs /\ log'.missed = log.missed + 1 /\ log'.missed <= log.missed + 1
<1>1. log' \in Logs
  BY LogAdds
<1>2. log'.missed = log.missed + 1
  BY Zenon DEF Logs
<1> QED
  BY <1>1, <1>2 DEF Logs

LEMMA SaleTypes ==
  ASSUME sw \in Swaps, NEW amount \in Nat, NEW loss \in {0, 1}
  PROVE  /\ Sale(amount, loss) \in Effects /\ Sale(amount, loss) \in Transactions
         /\ Sale(amount, loss).current /\ Sale(amount, loss).units = 0
         /\ SoldBy(Sale(amount, loss)) = amount
<1>1. Monus(amount * Price, loss) \in Nat /\ Monus(amount, loss) \div Price \in Nat
  <2>1. amount * Price \in Nat
    BY Times, FundsAssumption DEF FundsAssumption
  <2> QED
    BY <2>1, Margins, Quotient, FundsAssumption DEF FundsAssumption
<1>2. Received(amount, loss) \in Nat
  BY <1>1 DEF Received
<1>int. Received(amount, loss) \in Int
  BY <1>2
<1>3. \A x, y \in Int : [Nothing EXCEPT !.sol = x, !.usdc = y, !.current = TRUE] \in Effects
  BY Constants, Zenon DEF Effects
<1>4. \A x, y \in Int : [Nothing EXCEPT !.usdc = y, !.sol = x, !.current = TRUE] \in Effects
  BY Constants, Zenon DEF Effects
<1>5. -amount \in Int
  OBVIOUS
<1>6. Sale(amount, loss) \in Effects
  <2>1. CASE sw.sell = "sol"
    BY <1>int, <1>3, <1>5, <2>1, Zenon DEF Sale
  <2>2. CASE sw.sell # "sol"
    BY <1>int, <1>4, <1>5, <2>2, Zenon DEF Sale
  <2> QED
    BY <2>1, <2>2
<1>7. Sale(amount, loss).current /\ Sale(amount, loss).units = 0
  BY DEF Sale, Nothing
<1>8. SoldBy(Sale(amount, loss)) = amount
  <2>1. CASE sw.sell = "sol"
    <3>1. Sale(amount, loss).sol = -amount
      BY <2>1 DEF Sale, Nothing
    <3>2. CASE amount = 0
      <4>1. Sale(amount, loss).usdc = 0
        <5>1. Received(amount, loss) = 0
          BY <2>1, <3>2, FundsAssumption DEF Received, Monus, FundsAssumption
        <5> QED
          BY <2>1, <5>1 DEF Sale, Nothing
      <4> QED
        BY <1>7, <3>1, <3>2, <4>1 DEF SoldBy
    <3>3. CASE amount # 0
      BY <1>7, <3>1, <3>3 DEF SoldBy
    <3> QED
      BY <3>2, <3>3
  <2>2. CASE sw.sell # "sol"
    <3>1. Sale(amount, loss).sol = Received(amount, loss) /\ Sale(amount, loss).usdc = -amount
      BY <2>2 DEF Sale, Nothing
    <3> QED
      BY <1>2, <1>7, <3>1 DEF SoldBy
  <2> QED
    BY <2>1, <2>2
<1> QED
  BY <1>6, <1>7, <1>8 DEF Transactions

LEMMA SwapOverTypes ==
  ASSUME sw \in Swaps, SwapOver
  PROVE  sw' \in Swaps
BY Constants DEF SwapOver, Swaps

LEMMA SwapFailsTypes ==
  ASSUME Types, SwapFails
  PROVE  sw' \in Swaps /\ f' \in Frames /\ at' \in {"idle", "start"}
<1>1. sw' \in Swaps
  BY SwapOverTypes DEF SwapFails, Types
<1>2. CASE f.op = "excess" /\ f.attempt < 3
  <2>1. f.attempt + 1 \in 1..3
    BY <1>2 DEF Types, Frames
  <2>2. f' = [f EXCEPT !.attempt = @ + 1] /\ at' = "start"
    BY <1>2 DEF SwapFails
  <2>3. f' \in Frames
    BY <2>1, <2>2 DEF Types, Frames
  <2> QED
    BY <1>1, <2>2, <2>3
<1>3. CASE ~(f.op = "excess" /\ f.attempt < 3)
  BY <1>1, <1>3, EndTypes DEF SwapFails, Types
<1> QED
  BY <1>2, <1>3

LEMMA SwapSucceedsTypes ==
  ASSUME Types, SwapSucceeds
  PROVE  sw' \in Swaps /\ f' \in Frames /\ at' \in Backs
<1>1. sw' \in Swaps
  BY SwapOverTypes DEF SwapSucceeds, Types
<1>2. sw.back \in Backs
  BY DEF Types, Swaps
<1> QED
  BY <1>1, <1>2, EndTypes DEF SwapSucceeds, Types, Backs

LEMMA NextStepTypes ==
  ASSUME Types, NEW retry \in 0..2, NextStep(retry)
  PROVE  /\ sw' \in Swaps /\ f' \in Frames
         /\ \/ at' = at /\ sw'.step = sw.step + 1 /\ sw'.done = sw.done
            \/ at' = "panicked"
<1>1. CASE sw.step < 3
  <2>1. sw' = [sw EXCEPT !.step = @ + 1, !.retry = retry] /\ at' = at /\ f' = f
    BY <1>1 DEF NextStep
  <2>2. sw.step + 1 \in 1..3
    BY <1>1 DEF Types, Swaps
  <2> QED
    BY <2>1, <2>2 DEF Types, Swaps
<1>2. CASE ~(sw.step < 3)
  BY <1>2, SwapOverTypes DEF NextStep, Types
<1> QED
  BY <1>1, <1>2

\* A step of a swap that ends it or leads to its next step keeps the types.
SwapGoesOn == SwapSucceeds \/ SwapFails \/ \E retry \in 0..2 : NextStep(retry)

LEMMA SwapGoesOnTypes ==
  ASSUME Types, at \in {"swap", "part"}, SwapGoesOn,
         at = "part" => SwapSucceeds \/ SwapFails,
         log' \in Logs, log'.missed <= log.missed + 1,
         Chained', Counted'
  PROVE  Types'
<1>1. CASE SwapFails
  BY <1>1, SwapFailsTypes DEF Types, Steps, Labels
<1>2. CASE SwapSucceeds
  BY <1>2, SwapSucceedsTypes DEF Types, Steps, Labels, Backs
<1>3. CASE at = "swap" /\ \E retry \in 0..2 : NextStep(retry)
  <2>1. PICK retry \in 0..2 : NextStep(retry)
    BY <1>3
  <2>2. CASE at' = "panicked"
    BY <2>1, <2>2, NextStepTypes DEF Types, Steps, Labels
  <2>3. CASE at' = at /\ sw'.step = sw.step + 1 /\ sw'.done = sw.done
    <3>1. log'.missed < sw'.step /\ sw'.done = 0
      BY <1>3, <2>3, NextStepTypes DEF Types, Steps, Swaps, Logs
    <3> QED
      BY <1>3, <2>1, <2>3, <3>1, NextStepTypes DEF Types, Steps, Labels
  <2> QED
    BY <2>1, <2>2, <2>3, NextStepTypes
<1> QED
  BY <1>1, <1>2, <1>3 DEF SwapGoesOn

LEMMA ChunkType ==
  ASSUME sw \in Swaps
  PROVE  Chunk \in Nat
BY Quotient DEF Swaps, Chunk

LEMMA SwapTypes ==
  ASSUME Types, SwapStep
  PROVE  Types'
<1> USE DEF Bounds, Chain
<1>1. sw \in Swaps /\ sw.amount \in Nat /\ sw.retry \in 0..2 /\ log \in Logs /\ Chained /\ Counted
  BY DEF Types, Swaps
<1>2. UNCHANGED <<wallet, liq, pending>> => Chained'
  BY <1>1 DEF Chained
<1>3. UNCHANGED <<calls, troubles>> => Counted'
  BY <1>1 DEF Counted
<1>4. log' = log => log' \in Logs /\ log'.missed <= log.missed + 1
  BY <1>1 DEF Logs
<1>5. CASE SwapWithoutSale
  BY <1>2, <1>3, <1>4, <1>5, SwapGoesOnTypes DEF SwapWithoutSale, SwapGoesOn
<1>6. CASE SwapNotBuilt
  BY <1>1, <1>2, <1>3, <1>4, <1>6, SwapGoesOnTypes DEF SwapNotBuilt, SwapGoesOn
<1>7. CASE SwapConfirmed
  <2>1. PICK loss \in {0, 1} : Lands(Sale(sw.amount, loss))
    BY <1>7 DEF SwapConfirmed
  <2>2. wallet' \in Balances /\ liq' \in [Positions -> Nat]
    BY <1>1, <2>1, SaleTypes, LandsTypes
  <2>3. Chained'
    BY <1>1, <1>7, <2>2 DEF SwapConfirmed, Chained
  <2>4. log' \in Logs /\ log'.missed = log.missed
    BY <1>1, <1>7, LogAdds DEF SwapConfirmed, Logs
  <2>5. log'.missed <= log.missed + 1
    BY <1>1, <2>4 DEF Logs
  <2> QED
    BY <1>3, <1>7, <2>3, <2>4, <2>5, SwapGoesOnTypes DEF SwapConfirmed, SwapGoesOn
<1>8. CASE SwapRefused
  <2>1. (IF sw.retry < 2 THEN sw.retry + 1 ELSE 2) \in 0..2
    BY <1>1
  <2>2. SwapGoesOn
    BY <1>8, <2>1 DEF SwapRefused, SwapGoesOn
  <2> QED
    BY <1>2, <1>3, <1>4, <1>8, <2>2, SwapGoesOnTypes DEF SwapRefused
<1>9. CASE SwapUnconfirmed
  <2>1. Chained' /\ Counted'
    BY <1>1, <1>9, SaleTypes, MissesTypes DEF SwapUnconfirmed
  <2>2. log.missed <= 2
    BY <1>1, <1>9 DEF SwapUnconfirmed, Types, Steps, Swaps, Logs
  <2>3. log' \in Logs /\ log'.missed <= log.missed + 1
    BY <1>9, <2>2, MissedOnce DEF SwapUnconfirmed, Types
  <2>4. SwapGoesOn
    <3>1. CASE sw.retry < 2
      <4>1. sw.retry + 1 \in 0..2
        BY <1>1, <3>1
      <4> QED
        BY <1>9, <3>1, <4>1 DEF SwapUnconfirmed, SwapGoesOn
    <3> QED
      BY <1>9, <3>1 DEF SwapUnconfirmed, SwapGoesOn
  <2> QED
    BY <1>9, <2>1, <2>3, <2>4, SwapGoesOnTypes DEF SwapUnconfirmed
<1>10. CASE SwapSplits
  <2>1. PICK n \in 1..MaxParts : sw' = [sw EXCEPT !.parts = n]
    BY <1>10 DEF SwapSplits
  <2>2. sw' \in Swaps
    BY <1>1, <2>1 DEF Swaps
  <2> QED
    BY <1>1, <1>10, <2>1, <2>2 DEF SwapSplits, Types, Steps, Labels, Swaps, Chained, Counted, Logs
<1>11. CASE PartSold
  <2>1. PICK loss \in {0, 1} : Lands(Sale(Chunk, loss))
    BY <1>11 DEF PartSold
  <2>2. wallet' \in Balances /\ liq' \in [Positions -> Nat]
    BY <1>1, <2>1, SaleTypes, LandsTypes, ChunkType
  <2>3. Chained'
    BY <1>1, <1>11, <2>2 DEF PartSold, Chained
  <2>4. log' \in Logs /\ log'.missed = log.missed
    BY <1>1, <1>11, LogAdds, ChunkType DEF PartSold, Logs
  <2>5. log'.missed <= log.missed + 1
    BY <1>1, <2>4 DEF Logs
  <2>6. CASE sw.done + 1 < sw.parts
    <3>1. sw' = [sw EXCEPT !.done = @ + 1] /\ at' = at /\ f' = f /\ at = "part"
      BY <1>11, <2>6 DEF PartSold
    <3>2. sw.done + 1 \in 0..MaxParts
      BY <1>1, <2>6, FundsAssumption DEF Swaps, FundsAssumption
    <3>3. sw' \in Swaps /\ sw'.done < sw'.parts
      BY <1>1, <2>6, <3>1, <3>2 DEF Swaps
    <3>4. log'.missed <= 2
      BY <2>4, <3>1 DEF Types, Steps
    <3> QED
      BY <1>3, <1>11, <2>3, <2>4, <3>1, <3>3, <3>4 DEF PartSold, Types, Steps
  <2>7. CASE ~(sw.done + 1 < sw.parts)
    BY <1>3, <1>11, <2>3, <2>4, <2>5, <2>7, SwapGoesOnTypes DEF PartSold, SwapGoesOn
  <2> QED
    BY <2>6, <2>7
<1>12. CASE PartFails
  <2>1. Chained' /\ Counted' /\ log' \in Logs /\ log'.missed <= log.missed + 1
    <3>1. CASE Chain /\ Bounds /\ UNCHANGED log
      BY <1>2, <1>3, <1>4, <3>1
    <3>2. CASE /\ Chunk >= MinSwap /\ Misses(Sale(Chunk, 0))
               /\ log' = [log EXCEPT !.missed = @ + 1, !.disturbed = TRUE]
      <4>1. log.missed <= 2
        BY <1>12 DEF PartFails, Types, Steps
      <4> QED
        BY <1>1, <3>2, <4>1, SaleTypes, ChunkType, MissesTypes, MissedOnce
    <3> QED
      BY <1>12, <3>1, <3>2 DEF PartFails
  <2> QED
    BY <1>12, <2>1, SwapGoesOnTypes DEF PartFails, SwapGoesOn
<1> QED
  BY <1>5, <1>6, <1>7, <1>8, <1>9, <1>10, <1>11, <1>12 DEF SwapStep

\* What a step that ends or goes on without a swap needs.
LEMMA Elsewhere ==
  ASSUME Types, Chained', Counted', at' \in Labels \ {"swap", "part"},
         f' \in Frames, sw' \in Swaps, log' \in Logs
  PROVE  Types'
BY DEF Types, Steps

LEMMA StaysTypes ==
  ASSUME Types, Here
  PROVE  Chained' /\ Counted' /\ sw' \in Swaps /\ log' \in Logs
BY DEF Here, Types, Chained, Counted

LEMMA MovedTypes ==
  ASSUME Types, NEW mode \in Modes
  PROVE  /\ Moved(mode) \in Effects /\ Moved(mode) \in Transactions
         /\ Moved(mode).current /\ SoldBy(Moved(mode)) = 0
         /\ Magnitude(Moved(mode).units) = f.units
<1>1. f.units \in Nat /\ f.pos \in Positions
  BY DEF Types, Frames
<1>2. Unit(mode).sol \in Nat /\ Unit(mode).usdc \in Nat
  BY UnitType
<1>3. /\ f.units * Unit(mode).sol \in Nat /\ f.units * Unit(mode).usdc \in Nat
  BY <1>1, <1>2, Times
<1> DEFINE sign == IF f.kind = "decrease" THEN 1 ELSE -1
<1>4. /\ sign * f.units * Unit(mode).sol \in Int /\ sign * f.units * Unit(mode).usdc \in Int
      /\ -sign * f.units \in Int
  BY <1>1, <1>2, <1>3
<1>5. Moved(mode) \in Effects /\ Moved(mode).current = TRUE
  BY <1>1, <1>4 DEF Moved, Effects
<1>6. Magnitude(Moved(mode).units) = f.units
  BY <1>1 DEF Moved, Magnitude
<1>7. SoldBy(Moved(mode)) = 0
  <2>1. CASE f.units = 0
    <3>1. Moved(mode).sol = 0 /\ Moved(mode).usdc = 0
      BY <1>2, <2>1 DEF Moved
    <3>2. SoldBy(Moved(mode)) \in {0, -Moved(mode).usdc}
      BY <3>1 DEF SoldBy
    <3> QED
      BY <3>1, <3>2
  <2>2. CASE f.units # 0
    <3>1. Moved(mode).units # 0
      BY <1>1, <2>2 DEF Moved
    <3> QED
      BY <3>1 DEF SoldBy
  <2> QED
    BY <2>1, <2>2
<1> QED
  BY <1>5, <1>6, <1>7 DEF Transactions

LEMMA OutcomeModes ==
  ASSUME Types
  PROVE  Outcomes \subseteq Modes
BY DEF Types, Frames, Outcomes

LEMMA HalveTypes ==
  ASSUME Types, Halve
  PROVE  f' \in Frames /\ at' \in {at, "idle"}
<1>1. CASE f.units \div 2 > 0
  <2>1. f' = [f EXCEPT !.units = @ \div 2, !.step = 1] /\ at' = at
    BY <1>1 DEF Halve
  <2>2. f.units \div 2 \in Nat /\ 1 \in 1..SlipSteps
    BY FundsAssumption DEF Types, Frames, FundsAssumption
  <2> QED
    BY <2>1, <2>2 DEF Types, Frames
<1>2. CASE ~(f.units \div 2 > 0)
  BY <1>2, EndTypes DEF Halve, Types
<1> QED
  BY <1>1, <1>2

LEMMA LadderTypes ==
  ASSUME Types, LadderStep
  PROVE  Types'
<1>1. Chained /\ Counted /\ sw \in Swaps /\ log \in Logs /\ f \in Frames /\ f.units \in Nat
  BY DEF Types, Frames
<1>2. End => f' \in Frames /\ at' = "idle"
  BY <1>1, EndTypes
<1>3. CASE SendConfirmed
  <2>1. PICK mode \in Modes : Lands(Moved(mode))
    BY <1>3, OutcomeModes DEF SendConfirmed
  <2>2. Chained'
    BY <1>1, <1>3, <2>1, MovedTypes, LandsTypes DEF SendConfirmed, Chained
  <2>3. log' \in Logs
    <3>1. CASE f.kind = "decrease"
      BY <1>1, <1>3, <3>1, LogAdds DEF SendConfirmed
    <3>2. CASE f.kind # "decrease"
      BY <1>1, <1>3, <3>2, LogAdds DEF SendConfirmed
    <3> QED
      BY <3>1, <3>2
  <2>4. f' \in Frames /\ at' \in {"idle", "readSol"}
    <3>1. CASE f.op = "inc" /\ f.kind = "decrease"
      BY <1>1, <1>3, <3>1 DEF SendConfirmed, LadderEnds, Frames, Thens
    <3>2. CASE ~(f.op = "inc" /\ f.kind = "decrease")
      BY <1>2, <1>3, <3>2 DEF SendConfirmed, LadderEnds
    <3> QED
      BY <3>1, <3>2
  <2>5. sw' \in Swaps /\ Counted'
    BY <1>1, <1>3 DEF SendConfirmed, Bounds, Counted
  <2> QED
    BY <2>2, <2>3, <2>4, <2>5, Elsewhere DEF Labels
<1>4. CASE SendSlips
  <2>1. f' \in Frames /\ at' \in {"send", "idle"}
    <3>1. CASE f.step < SlipSteps /\ f' = [f EXCEPT !.step = @ + 1] /\ UNCHANGED at
      <4>1. f.step + 1 \in 1..SlipSteps
        BY <1>1, <3>1, FundsAssumption DEF Frames, FundsAssumption
      <4> QED
        BY <1>1, <1>4, <3>1, <4>1 DEF SendSlips, Frames
    <3>2. CASE Halve
      BY <1>4, <3>2, HalveTypes DEF SendSlips
    <3>3. CASE End
      BY <1>2, <3>3
    <3> QED
      BY <1>4, <3>1, <3>2, <3>3 DEF SendSlips
  <2> QED
    BY <1>4, <2>1, StaysTypes, Elsewhere DEF SendSlips, Labels
<1>5. CASE SendTooLarge
  BY <1>5, HalveTypes, StaysTypes, Elsewhere DEF SendTooLarge, Labels
<1>6. CASE SendRefused
  BY <1>2, <1>6, StaysTypes, Elsewhere DEF SendRefused, Labels
<1>7. CASE SendUnconfirmed
  <2>1. PICK mode \in Modes : Misses(Moved(mode))
    BY <1>7, OutcomeModes DEF SendUnconfirmed
  <2>2. Chained' /\ Counted'
    BY <2>1, MovedTypes, MissesTypes
  <2>3. log' \in Logs
    BY <1>1, <1>7, LogAdds DEF SendUnconfirmed
  <2> QED
    BY <1>1, <1>2, <1>7, <2>2, <2>3, Elsewhere DEF SendUnconfirmed, Labels
<1> QED
  BY <1>3, <1>4, <1>5, <1>6, <1>7 DEF LadderStep

LEMMA BeginTypes ==
  ASSUME Types, NEW frame \in Frames,
         NEW label \in {"start", "readSol", "measured", "target"}, Begin(frame, label)
  PROVE  Types'
<1>1. Chained'
  BY AgedTypes DEF Begin, Types, Chained
<1>2. Counted'
  BY FundsAssumption DEF Begin, Types, Counted, FundsAssumption
<1> QED
  BY <1>1, <1>2, Constants, Elsewhere DEF Begin, Labels

LEMMA CallTypes ==
  ASSUME Types, Calls
  PROVE  Types'
<1>1. \A a, b \in Nat : Coins(a, b) \in Balances
  BY DEF Coins, Balances
<1>2. SolAtFirst \subseteq Nat /\ UsdcAtFirst \subseteq Nat
  BY FundsAssumption DEF FundsAssumption
<1>3. CASE CallExcess
  <2>1. [NoFrame EXCEPT !.op = "excess"] \in Frames
    BY Constants DEF Frames, Operations
  <2> QED
    BY <1>3, <2>1, BeginTypes DEF CallExcess
<1>4. CASE CallUser
  <2>1. PICK need \in Balances : Begin([NoFrame EXCEPT !.op = "user", !.need = need], "start")
    BY <1>1, <1>2, <1>4 DEF CallUser
  <2>2. [NoFrame EXCEPT !.op = "user", !.need = need] \in Frames
    BY Constants DEF Frames, Operations
  <2> QED
    BY <2>1, <2>2, BeginTypes
<1>5. CASE CallOpen
  <2>1. PICK mode \in Modes :
          Begin([NoFrame EXCEPT !.op = "open", !.mode = mode, !.then = "decide",
                   !.need = Coins(Over(Unit(mode).sol), Over(Unit(mode).usdc))], "readSol")
    BY <1>5 DEF CallOpen
  <2>2. Coins(Over(Unit(mode).sol), Over(Unit(mode).usdc)) \in Balances
    BY <1>1, UnitType, Margins
  <2>3. [NoFrame EXCEPT !.op = "open", !.mode = mode, !.then = "decide",
           !.need = Coins(Over(Unit(mode).sol), Over(Unit(mode).usdc))] \in Frames
    BY <2>2, Constants DEF Frames, Operations, Thens
  <2> QED
    BY <2>1, <2>3, BeginTypes
<1>6. CASE CallDecrease
  <2>1. PICK p \in Positions :
          Begin([NoFrame EXCEPT !.op = "decrease", !.pos = p], "measured")
    BY <1>6 DEF CallDecrease
  <2>2. [NoFrame EXCEPT !.op = "decrease", !.pos = p] \in Frames
    BY Constants DEF Frames, Operations
  <2> QED
    BY <2>1, <2>2, BeginTypes
<1>7. CASE CallIncrease
  <2>1. PICK p \in Positions, budget \in Nat :
          Begin([NoFrame EXCEPT !.op = "increase", !.to = p, !.budget = budget], "target")
    <3>1. UnitValue \in Nat /\ 2 * UnitValue \in Nat
      BY UnitType
    <3> QED
      BY <1>7, <3>1 DEF CallIncrease
  <2>2. [NoFrame EXCEPT !.op = "increase", !.to = p, !.budget = budget] \in Frames
    BY Constants DEF Frames, Operations
  <2> QED
    BY <2>1, <2>2, BeginTypes
<1>8. CASE CallInc
  <2>1. PICK p, q \in Positions :
          Begin([NoFrame EXCEPT !.op = "inc", !.pos = p, !.to = q, !.then = "measured"],
                "readSol")
    BY <1>8 DEF CallInc
  <2>2. [NoFrame EXCEPT !.op = "inc", !.pos = p, !.to = q, !.then = "measured"] \in Frames
    BY Constants DEF Frames, Operations, Thens
  <2> QED
    BY <2>1, <2>2, BeginTypes
<1> QED
  BY <1>3, <1>4, <1>5, <1>6, <1>7, <1>8 DEF Calls

LEMMA KeptTypes ==
  ASSUME f \in Frames
  PROVE  Kept \in Nat
<1>1. FeeBuffer * f.attempt \in Nat
  BY Times, FundsAssumption DEF FundsAssumption, Frames
<1> QED
  BY <1>1, FundsAssumption DEF FundsAssumption, Kept

\* The frame and the place after a step that may have begun a swap.
LEMMA MaybeSwapTypes ==
  ASSUME Types, Chained', Counted', f' \in Frames,
         \/ \E sell \in {"sol", "usdc"}, amount \in Nat, back \in Backs :
              StartSwap(sell, amount, back)
         \/ UNCHANGED <<pending, sw, log>> /\ at' \in Labels \ {"swap", "part"}
  PROVE  Types'
<1>1. CASE UNCHANGED <<pending, sw, log>> /\ at' \in Labels \ {"swap", "part"}
  BY <1>1, Elsewhere DEF Types
<1>2. CASE \E sell \in {"sol", "usdc"}, amount \in Nat, back \in Backs :
             StartSwap(sell, amount, back)
  BY <1>2, StartSwapTypes DEF Types
<1> QED
  BY <1>1, <1>2

\* Such a step leaves balances and bounds alone.
LEMMA AgedOrSame ==
  ASSUME Types, UNCHANGED <<wallet, liq>>, Bounds, pending' = pending \/ pending' = Aged
  PROVE  Chained' /\ Counted'
BY AgedTypes DEF Types, Chained, Counted, Bounds

LEMMA ReadsTypes ==
  ASSUME Types, ExcessReads \/ UserReads \/ ReadSol \/ ReadUsdc
  PROVE  Types'
<1>1. /\ f \in Frames /\ sw \in Swaps /\ log \in Logs /\ Chained /\ Counted
      /\ wallet.sol \in Nat /\ wallet.usdc \in Nat /\ f.free \in Balances /\ f.then \in Thens
      /\ f.need \in Balances
  BY DEF Types, Chained, Balances, Frames
<1>2. End => f' \in Frames /\ at' = "idle"
  BY <1>1, EndTypes
<1>3. CASE ExcessReads
  <2>1. Chained' /\ Counted'
    BY <1>3, AgedOrSame DEF ExcessReads, StartSwap
  <2>2. CASE wallet.sol > Kept /\ StartSwap("sol", wallet.sol - Kept, "idle") /\ UNCHANGED f
    <3>1. wallet.sol - Kept \in Nat
      BY <1>1, <2>2, KeptTypes
    <3>2. f' \in Frames
      BY <1>1, <2>2
    <3> QED
      BY <2>1, <2>2, <3>1, <3>2, MaybeSwapTypes DEF Backs
  <2>3. CASE End /\ UNCHANGED <<pending, sw, log>>
    BY <1>2, <2>1, <2>3, MaybeSwapTypes DEF Labels
  <2>4. CASE /\ f.attempt < 3
             /\ f' = [f EXCEPT !.attempt = @ + 1] /\ UNCHANGED <<at, pending, sw, log>>
    <3>1. f' \in Frames
      BY <1>1, <2>4 DEF Frames
    <3> QED
      BY <1>3, <2>1, <2>4, <3>1, MaybeSwapTypes DEF ExcessReads, Labels
  <2> QED
    BY <1>3, <2>2, <2>3, <2>4 DEF ExcessReads
<1>4. CASE UserReads
  <2>1. Chained' /\ Counted'
    BY <1>4, AgedOrSame DEF UserReads, StartSwap
  <2>2. f.need.sol \in Nat /\ f.need.usdc \in Nat
    BY <1>1 DEF Balances
  <2> QED
    BY <1>1, <1>2, <1>4, <2>1, <2>2, MaybeSwapTypes DEF UserReads, Labels, Backs
<1>5. CASE ReadSol
  <2>1. SolSeen \in Nat
    BY <1>1, Margins, FundsAssumption DEF SolSeen, FundsAssumption
  <2>2. [f EXCEPT !.free.sol = SolSeen] \in Frames
    BY <1>1, <2>1 DEF Frames, Balances
  <2>3. f' \in Frames /\ at' \in {"readUsdc", "panicked", "idle"}
    BY <1>1, <1>2, <1>5, <2>2 DEF ReadSol
  <2> QED
    BY <1>5, <2>3, StaysTypes, Elsewhere DEF ReadSol, Labels
<1>6. CASE ReadUsdc
  <2>1. PICK seen \in Nat :
          /\ f' = [f EXCEPT !.free.usdc = seen]
          /\ log' = [log EXCEPT !.blind = @ \/ (f.then = "measured" /\ seen # wallet.usdc)]
    BY <1>1, <1>6 DEF ReadUsdc
  <2>2. f' \in Frames
    BY <1>1, <2>1 DEF Frames, Balances
  <2>3. log' \in Logs
    <3>1. (log.blind \/ (f.then = "measured" /\ seen # wallet.usdc)) \in BOOLEAN
      OBVIOUS
    <3> QED
      BY <1>1, <2>1, <3>1, LogAdds
  <2>4. at' \in Labels \ {"swap", "part"} /\ Chained' /\ Counted' /\ sw' \in Swaps
    BY <1>1, <1>6 DEF ReadUsdc, Thens, Labels, Chain, Bounds, Chained, Counted
  <2> QED
    BY <2>2, <2>3, <2>4, Elsewhere
<1> QED
  BY <1>3, <1>4, <1>5, <1>6

\* A ladder begins with a frame of its own.
LEMMA LadderFrame ==
  ASSUME f \in Frames, NEW kind \in Kinds, NEW pos \in Positions, NEW mode \in Modes,
         NEW units \in Nat
  PROVE  Ladder(kind, pos, mode, units) \in Frames
<1>1. Coins(0, 0) \in Balances /\ 1 \in 1..SlipSteps
  BY FundsAssumption DEF Coins, Balances, FundsAssumption
<1>2. 0 \in Nat
  OBVIOUS
<1> QED
  BY <1>1, <1>2, Zenon DEF Frames, Ladder

LEMMA AfterLadder ==
  ASSUME Types, NEW frame \in Frames, NEW next \in {"send", "readSol"},
         StartLadder(frame, next), UNCHANGED <<wallet, liq>>, Bounds
  PROVE  Types'
BY StartLadderTypes DEF Types, Chained, Counted, Bounds

LEMMA MissingTypes ==
  ASSUME f \in Frames
  PROVE  /\ LacksSol => MissingSol \in Nat /\ Over(MissingSol * Price) \in Nat
         /\ LacksUsdc => /\ MissingUsdc \in Nat
                         /\ InSol(MissingUsdc) \in Nat /\ Over(InSol(MissingUsdc)) \in Nat
<1>1. LacksSol => MissingSol \in Nat
  BY DEF Frames, Balances, LacksSol, MissingSol
<1>2. LacksUsdc => MissingUsdc \in Nat
  BY DEF Frames, Balances, LacksUsdc, MissingUsdc
<1>3. LacksSol => Over(MissingSol * Price) \in Nat
  BY <1>1, Times, Margins, FundsAssumption DEF FundsAssumption
<1>4. LacksUsdc => InSol(MissingUsdc) \in Nat /\ Over(InSol(MissingUsdc)) \in Nat
  BY <1>2, InSolType, Margins
<1> QED
  BY <1>1, <1>2, <1>3, <1>4

LEMMA OpenTypes ==
  ASSUME Types, OpenStep
  PROVE  Types'
<1>1. f \in Frames /\ f.mode \in Modes /\ f.attempt \in 1..3
  BY DEF Types, Frames
<1>2. End => f' \in Frames /\ at' = "idle"
  BY <1>1, EndTypes
<1>3. CASE OpenDecides
  <2>1. CASE \E p \in Positions : StartLadder(Ladder("open", p, f.mode, 1), "send")
    BY <1>1, <1>3, <2>1, LadderFrame, AfterLadder DEF OpenDecides, Kinds
  <2>2. CASE /\ IF f.attempt < 3 THEN f' = [f EXCEPT !.attempt = @ + 1] /\ at' = "buySol"
                                 ELSE End
             /\ UNCHANGED <<pending, sw, log>>
    <3>1. f' \in Frames /\ at' \in {"buySol", "idle"}
      BY <1>1, <1>2, <2>2 DEF Frames
    <3> QED
      BY <1>3, <2>2, <3>1, AgedOrSame, MaybeSwapTypes DEF OpenDecides, Labels
  <2> QED
    BY <1>3, <2>1, <2>2 DEF OpenDecides
<1>4. CASE BuySol
  <2>1. Chained' /\ Counted'
    BY <1>4, AgedOrSame DEF BuySol, StartSwap
  <2> QED
    BY <1>1, <1>4, <2>1, MissingTypes, MaybeSwapTypes DEF BuySol, Labels, Backs
<1>5. CASE OpenBuysUsdc
  <2>1. Chained' /\ Counted'
    BY <1>5, AgedOrSame DEF OpenBuysUsdc, StartSwap
  <2> QED
    BY <1>1, <1>2, <1>5, <2>1, MissingTypes, MaybeSwapTypes DEF OpenBuysUsdc, Labels, Backs
<1> QED
  BY <1>3, <1>4, <1>5 DEF OpenStep

LEMMA ShareType ==
  ASSUME NEW units \in Nat, NEW pct \in {50, 100}
  PROVE  Share(units, pct) \in Nat
<1>1. units * pct + 50 \in Nat
  BY Times
<1> QED
  BY <1>1, Quotient DEF Share

LEMMA WithdrawalTypes ==
  ASSUME Types, DecreaseStarts \/ IncBudget
  PROVE  Types'
<1>1. /\ f \in Frames /\ f.mode \in Modes /\ f.pos \in Positions /\ liq[f.pos] \in Nat
      /\ f.free \in Balances /\ f.before \in Balances
  BY DEF Types, Frames, Chained
<1>2. End => f' \in Frames /\ at' = "idle"
  BY <1>1, EndTypes
<1>3. CASE DecreaseStarts
  <2>1. CASE End /\ UNCHANGED <<pending, sw, log>>
    BY <1>2, <1>3, <2>1, AgedOrSame, MaybeSwapTypes DEF DecreaseStarts, Labels
  <2>2. CASE \E pct \in {50, 100} :
               StartLadder([Ladder("decrease", f.pos, f.mode, Share(liq[f.pos], pct))
                              EXCEPT !.before = f.free], "send")
    <3>1. PICK pct \in {50, 100} :
            StartLadder([Ladder("decrease", f.pos, f.mode, Share(liq[f.pos], pct))
                           EXCEPT !.before = f.free], "send")
      BY <2>2
    <3>2. Ladder("decrease", f.pos, f.mode, Share(liq[f.pos], pct)) \in Frames
      BY <1>1, ShareType, LadderFrame DEF Kinds
    <3>3. [Ladder("decrease", f.pos, f.mode, Share(liq[f.pos], pct))
             EXCEPT !.before = f.free] \in Frames
      BY <1>1, <3>2, Zenon DEF Frames
    <3> QED
      BY <1>3, <3>1, <3>3, AfterLadder DEF DecreaseStarts
  <2> QED
    BY <1>3, <2>1, <2>2 DEF DecreaseStarts
<1>4. CASE IncBudget
  <2>1. Freed.sol \in Nat /\ Freed.usdc \in Nat
    BY <1>1, Margins DEF Freed, Coins, Balances
  <2>2. Freed.usdc + Freed.sol * Price \in Nat
    BY <2>1, Times, FundsAssumption DEF FundsAssumption
  <2>3. Coins(0, 0) \in Balances
    BY DEF Coins, Balances
  <2>4. [f EXCEPT !.budget = Freed.usdc + Freed.sol * Price,
                  !.free = Coins(0, 0), !.before = Coins(0, 0)] \in Frames
    BY <1>1, <2>2, <2>3, Zenon DEF Frames
  <2>5. f' \in Frames /\ at' \in {"idle", "target"}
    BY <1>2, <1>4, <2>4 DEF IncBudget
  <2> QED
    BY <1>4, <2>5, StaysTypes, Elsewhere DEF IncBudget, Labels
<1> QED
  BY <1>3, <1>4

\* The units of a deposit: numbers that the budget with its margin pays for.
LEMMA UnitsBounds ==
  ASSUME NEW budget \in Nat
  PROVE  /\ UnitsFor(budget) \in Nat /\ UnitsFor(budget) * UnitValue <= Buffered(budget)
         /\ Shrunk(budget) \in Nat /\ Shrunk(budget) * UnitValue <= Buffered(budget)
<1>1. Buffered(budget) \in Nat
  BY Margins
<1>2. UnitsFor(budget) \in Nat /\ UnitsFor(budget) * UnitValue <= Buffered(budget)
  BY <1>1, UnitType, Quotient DEF UnitsFor
<1>3. 995 * Buffered(budget) \in Nat /\ 1000 * UnitValue \in Nat \ {0}
  BY <1>1, UnitType
<1>4. /\ Shrunk(budget) \in Nat
      /\ Shrunk(budget) * (1000 * UnitValue) <= 995 * Buffered(budget)
  BY <1>3, Quotient DEF Shrunk
<1>5. Shrunk(budget) * UnitValue \in Nat
  BY <1>4, UnitType, Times
<1>6. Shrunk(budget) * (1000 * UnitValue) = 1000 * (Shrunk(budget) * UnitValue)
  BY <1>4, UnitType
<1>7. Shrunk(budget) * UnitValue <= Buffered(budget)
  BY <1>1, <1>4, <1>5, <1>6
<1> QED
  BY <1>2, <1>4, <1>7

LEMMA QuotedBounds ==
  ASSUME f \in Frames
  PROVE  Quoted \in Nat /\ Quoted * UnitValue <= Buffered(f.budget)
<1>1. f.budget \in Nat /\ f.need.usdc \div Price \in Nat
  BY Quotient, FundsAssumption DEF FundsAssumption, Frames, Balances
<1>2. (f.need.usdc \div Price) * UnitValue \in Nat /\ Buffered(f.budget) \in Nat
  BY <1>1, Times, UnitType, Margins
<1> QED
  BY <1>1, <1>2, UnitsBounds DEF Quoted

LEMMA IncreaseTypes ==
  ASSUME Types, IncreaseStep
  PROVE  Types'
<1>1. /\ f \in Frames /\ f.mode \in Modes /\ f.to \in Positions /\ f.budget \in Nat
      /\ f.attempt \in 1..3
  BY DEF Types, Frames
<1>2. End => f' \in Frames /\ at' = "idle"
  BY <1>1, EndTypes
<1>3. \A a, b \in Nat : Coins(a, b) \in Balances
  BY DEF Coins, Balances
<1>4. CASE TargetOnlyA
  <2>1. f' \in Frames
    BY <1>1, <1>3, <1>4 DEF TargetOnlyA, Frames, Modes
  <2>2. Over(f.budget) \in Nat
    BY <1>1, Margins
  <2>3. Chained' /\ Counted'
    BY <1>4, AgedOrSame DEF TargetOnlyA, StartSwap
  <2> QED
    BY <1>4, <2>1, <2>2, <2>3, MaybeSwapTypes DEF TargetOnlyA, Backs
<1>5. CASE TargetOther
  <2>1. PICK need \in Balances, mode \in Modes :
          f' = [f EXCEPT !.mode = mode, !.need = need, !.then = "fund", !.attempt = 1]
    <3>1. Buffered(f.budget) \in Nat
      BY <1>1, Margins
    <3>2. CASE f' = [f EXCEPT !.mode = "OnlyB", !.need = Coins(0, Buffered(f.budget)),
                              !.then = "fund", !.attempt = 1]
      BY <1>3, <3>1, <3>2 DEF Modes
    <3>3. CASE \E n \in 0..Buffered(f.budget) \div Price :
                 f' = [f EXCEPT !.mode = "Mixed", !.then = "fund", !.attempt = 1,
                                !.need = Coins(n, Buffered(f.budget) - n * Price)]
      <4>1. PICK n \in 0..Buffered(f.budget) \div Price :
              f' = [f EXCEPT !.mode = "Mixed", !.then = "fund", !.attempt = 1,
                             !.need = Coins(n, Buffered(f.budget) - n * Price)]
        BY <3>3
      <4>2. Price \in Nat \ {0}
        BY FundsAssumption DEF FundsAssumption
      <4>3. /\ Buffered(f.budget) \div Price \in Nat
            /\ (Buffered(f.budget) \div Price) * Price <= Buffered(f.budget)
        BY <3>1, <4>2, Quotient
      <4>4. n \in Nat /\ n <= Buffered(f.budget) \div Price
        BY <4>3
      <4>5. n * Price \in Nat /\ n * Price <= (Buffered(f.budget) \div Price) * Price
        BY <4>2, <4>3, <4>4
      <4>6. (Buffered(f.budget) \div Price) * Price \in Nat
        BY <4>2, <4>3, Times
      <4>7. Buffered(f.budget) - n * Price \in Nat
        BY <3>1, <4>3, <4>5, <4>6
      <4>8. Coins(n, Buffered(f.budget) - n * Price) \in Balances
        BY <1>3, <4>4, <4>7
      <4>9. f' = [f EXCEPT !.mode = "Mixed", !.then = "fund", !.attempt = 1,
                           !.need = Coins(n, Buffered(f.budget) - n * Price)]
        BY <4>1
      <4> QED
        BY <4>8, <4>9 DEF Modes, Frames
    <3> QED
      BY <1>5, <3>2, <3>3 DEF TargetOther
  <2>2. f' \in Frames
    <3>1. "fund" \in Thens /\ 1 \in 1..3
      BY DEF Thens
    <3> QED
      BY <1>1, <2>1, <3>1, Zenon DEF Frames
  <2> QED
    BY <1>5, <2>2, StaysTypes, Elsewhere DEF TargetOther, Labels
<1>6. CASE TargetFails
  BY <1>2, <1>6, StaysTypes, Elsewhere DEF TargetFails, Labels
<1>7. CASE FundOnlyB
  <2>1. Chained' /\ Counted'
    BY <1>7, AgedOrSame DEF FundOnlyB, StartSwap
  <2> QED
    BY <1>1, <1>2, <1>7, <2>1, MissingTypes, MaybeSwapTypes DEF FundOnlyB, Labels, Backs
<1>8. CASE FundMixed
  BY <1>1, <1>8, StaysTypes, Elsewhere DEF FundMixed, Labels
<1>9. CASE IncreaseBuysUsdc
  <2>1. Chained' /\ Counted'
    BY <1>9, AgedOrSame DEF IncreaseBuysUsdc, StartSwap
  <2>2. (IF f.attempt < 3 THEN f.attempt + 1 ELSE 3) \in 1..3
    BY <1>1
  <2>3. f' \in Frames
    BY <1>1, <1>9, <2>2 DEF IncreaseBuysUsdc, Frames
  <2>4. AfterFunding \in {"quote", "readSol", "send"}
    BY DEF AfterFunding
  <2>5. AfterFunding \in Backs /\ AfterFunding \in Labels \ {"swap", "part"}
    BY <2>4 DEF Backs, Labels
  <2> QED
    BY <1>1, <1>9, <2>1, <2>3, <2>5, MissingTypes, MaybeSwapTypes DEF IncreaseBuysUsdc
<1>10. CASE Quote
  <2>1. CASE /\ f.mode = "Mixed"
             /\ StartLadder([Ladder("increase", f.to, "Mixed", Quoted)
                               EXCEPT !.need = Coins(Quoted, Quoted * Price)], "readSol")
    <3>1. Ladder("increase", f.to, "Mixed", Quoted) \in Frames
      BY <1>1, QuotedBounds, LadderFrame DEF Kinds, Modes
    <3>2. Quoted * Price \in Nat /\ Quoted \in Nat
      BY <1>1, QuotedBounds, Times, FundsAssumption DEF FundsAssumption
    <3>3. [Ladder("increase", f.to, "Mixed", Quoted)
             EXCEPT !.need = Coins(Quoted, Quoted * Price)] \in Frames
      BY <1>3, <3>1, <3>2, Zenon DEF Frames
    <3> QED
      BY <1>10, <2>1, <3>3, AfterLadder DEF Quote
  <2>2. CASE /\ f.mode # "Mixed"
             /\ StartLadder(Ladder("increase", f.to, f.mode, UnitsFor(f.budget)), "send")
    <3>1. Ladder("increase", f.to, f.mode, UnitsFor(f.budget)) \in Frames
      BY <1>1, UnitsBounds, LadderFrame DEF Kinds
    <3> QED
      BY <1>10, <2>2, <3>1, AfterLadder DEF Quote
  <2>3. CASE End /\ UNCHANGED <<pending, sw, log>>
    BY <1>2, <1>10, <2>3, AgedOrSame, MaybeSwapTypes DEF Quote, Labels
  <2> QED
    BY <1>10, <2>1, <2>2, <2>3 DEF Quote
<1> QED
  BY <1>4, <1>5, <1>6, <1>7, <1>8, <1>9, <1>10 DEF IncreaseStep

\* The rest of the bot moves whole units.
LEMMA OthersTypes ==
  ASSUME Types, OthersMove
  PROVE  Types'
<1>1. log \in Logs /\ f \in Frames /\ sw \in Swaps /\ at \in Labels /\ Price \in Int
  BY FundsAssumption DEF Types, FundsAssumption
<1>2. \A x, y, z \in Int, p \in Positions :
        [Nothing EXCEPT !.pos = p, !.units = z, !.sol = x, !.usdc = y] \in Effects
  BY Constants, Zenon DEF Effects
<1>3. \A x, y \in Int : [Nothing EXCEPT !.sol = x, !.usdc = y] \in Effects
  BY Constants, Zenon DEF Effects
<1>4. \A p \in Positions : liq[p] \in Int /\ -liq[p] \in Int /\ liq[p] * Price \in Int
  BY <1>1 DEF Types, Chained
<1>5. -Price \in Int /\ 1 \in Int /\ -1 \in Int
  BY <1>1
<1>6. PICK p \in Positions :
        \/ Lands([Nothing EXCEPT !.pos = p, !.units = -liq[p],
                                 !.sol = liq[p], !.usdc = liq[p] * Price])
        \/ Lands([Nothing EXCEPT !.pos = p, !.units = 1, !.sol = -1, !.usdc = -Price])
        \/ Lands([Nothing EXCEPT !.sol = -1, !.usdc = Price])
        \/ Lands([Nothing EXCEPT !.sol = 1, !.usdc = -Price])
  BY DEF OthersMove
<1>7. \E e \in Effects : Lands(e)
  <2>1. [Nothing EXCEPT !.pos = p, !.units = -liq[p], !.sol = liq[p],
                        !.usdc = liq[p] * Price] \in Effects
    BY <1>2, <1>4, Zenon
  <2>2. [Nothing EXCEPT !.pos = p, !.units = 1, !.sol = -1, !.usdc = -Price] \in Effects
    BY <1>2, <1>5, Zenon
  <2>3. /\ [Nothing EXCEPT !.sol = -1, !.usdc = Price] \in Effects
        /\ [Nothing EXCEPT !.sol = 1, !.usdc = -Price] \in Effects
    BY <1>1, <1>3, <1>5, Zenon
  <2> QED
    BY <1>6, <2>1, <2>2, <2>3, Zenon
<1>8. Chained'
  BY <1>7, LandsTypes DEF OthersMove, Types, Chained
<1>9. Counted'
  BY FundsAssumption DEF OthersMove, Types, Counted, FundsAssumption
<1>10. log' \in Logs /\ log'.missed = log.missed
  BY <1>1, LogAdds DEF OthersMove, Logs
<1> QED
  BY <1>1, <1>8, <1>9, <1>10 DEF OthersMove, Types, Steps

\* What a late landing adds to the history of its swap or ladder.
LEMMA SettleTypes ==
  ASSUME Types, NEW s \in Slots, Settle(s)
  PROVE  Types'
<1>1. /\ log \in Logs /\ f \in Frames /\ sw \in Swaps /\ at \in Labels
      /\ pending[s] \in Transactions /\ pending[s] \in Effects
  BY DEF Types, Chained, Transactions
<1>2. pending' \in [Slots -> Transactions]
  BY Constants DEF Settle, Types, Chained
<1>3. Counted'
  BY DEF Settle, Bounds, Types, Counted
<1>4. CASE UNCHANGED <<wallet, liq, log>>
  BY <1>1, <1>2, <1>3, <1>4 DEF Settle, Types, Chained, Steps
<1>5. CASE Lands(pending[s])
           /\ log' = [log EXCEPT
                        !.disturbed = TRUE,
                        !.sold = IF pending[s].current THEN @ + SoldBy(pending[s]) ELSE @,
                        !.moved = IF pending[s].current THEN @ + Magnitude(pending[s].units)
                                                        ELSE @]
  <2>1. Chained'
    BY <1>1, <1>2, <1>5, LandsTypes DEF Chained
  <2>2. pending[s].current => SoldBy(pending[s]) \in Nat
    BY <1>1 DEF Transactions
  <2>3. Magnitude(pending[s].units) \in Nat
    BY <1>1 DEF Magnitude, Effects
  <2>4. /\ (IF pending[s].current THEN log.sold + SoldBy(pending[s]) ELSE log.sold) \in Nat
        /\ (IF pending[s].current THEN log.moved + Magnitude(pending[s].units)
                                  ELSE log.moved) \in Nat
    BY <1>1, <2>2, <2>3 DEF Logs
  <2>5. log' \in Logs /\ log'.missed = log.missed
    BY <1>1, <1>5, <2>4, Zenon DEF Logs
  <2> QED
    BY <1>1, <1>3, <2>1, <2>5 DEF Settle, Types, Steps
<1> QED
  BY <1>4, <1>5 DEF Settle

LEMMA InitTypes ==
  ASSUME FundsInit
  PROVE  Types
<1>1. wallet \in Balances /\ liq \in [Positions -> Nat]
  BY FundsAssumption DEF FundsInit, Balances, FundsAssumption
<1>2. Chained
  BY <1>1, Constants DEF FundsInit, Chained
<1> QED
  BY <1>2, Constants, FundsAssumption
     DEF FundsInit, Types, Counted, Steps, Labels, FundsAssumption

LEMMA NextTypes ==
  ASSUME Types, [FundsNext]_vars
  PROVE  Types'
<1>1. CASE UNCHANGED vars
  BY <1>1 DEF vars, Types, Chained, Counted, Steps
<1>2. CASE Step
  BY <1>2, SwapTypes, LadderTypes, ReadsTypes, OpenTypes, WithdrawalTypes, IncreaseTypes
     DEF Step
<1>3. CASE Calls \/ OthersMove \/ \E s \in Slots : Settle(s)
  BY <1>3, CallTypes, OthersTypes, SettleTypes
<1> QED
  BY <1>1, <1>2, <1>3 DEF FundsNext

LEMMA TypesAlways == FundsSpec => []Types
BY InitTypes, NextTypes, PTL DEF FundsSpec

\* Balances, liquidity, pending transactions and the locals of every operation
\* keep their types: no transaction spends what the wallet has not got.
THEOREM FundsTypes == FundsSpec => []FundsTypeOK
BY TypesOK, TypesAlways, PTL

-----------------------------------------------------------------------------
(***************************************************************************)
(* What an operation may come to: its place tells what it is about.        *)
(***************************************************************************)

Control ==
  /\ f.then = "decide" => f.op = "open"
  /\ f.then \in {"measured", "freed"} => f.op = "inc"
  /\ f.then = "fund" => f.op \in {"increase", "inc"}
  /\ at = "decide" => f.then = "decide"
  /\ at = "fund" => f.then = "fund"
  /\ at = "freed" => f.then = "freed"
  /\ at = "target" => f.op \in {"increase", "inc"}
  /\ at \in {"buySol", "buyUsdc"} \/ (Swapping /\ sw.back = "buyUsdc")
       => f.then \in {"decide", "fund"}
  /\ Swapping /\ sw.back = "send" => f.then = "fund" /\ f.attempt >= 2
  /\ f.op = "excess" => at \in {"idle", "start", "swap", "part", "panicked"}
  /\ f.op = "excess" /\ Swapping => sw.back = "idle" /\ sw.sell = "sol"

\* How a step of a swap leaves its operation.
SwapStays == f' = f /\ at' \in {"swap", "part"} /\ sw'.back = sw.back /\ sw'.sell = sw.sell
SwapReturns == f' = f /\ sw.back # "idle" /\ at' = sw.back
SwapRepeats == f.op = "excess" /\ f' = [f EXCEPT !.attempt = @ + 1] /\ at' = "start"
SwapPanics == f' = f /\ at' = "panicked"
SwapLeaves == SwapStays \/ SwapReturns \/ End \/ SwapRepeats \/ SwapPanics

LEMMA SwapFates ==
  ASSUME Types, SwapStep
  PROVE  Swapping /\ sw'.amount = sw.amount /\ SwapLeaves
<1>1. sw \in Swaps
  BY DEF Types
<1>2. SwapOver => sw'.amount = sw.amount
  BY DEF SwapOver, NoSwap
<1>3. SwapFails => sw'.amount = sw.amount /\ SwapLeaves
  BY <1>2 DEF SwapFails, SwapLeaves, SwapRepeats
<1>4. SwapSucceeds => sw'.amount = sw.amount /\ SwapLeaves
  BY <1>2 DEF SwapSucceeds, SwapLeaves, SwapReturns
<1>5. ASSUME at = "swap", NEW retry, NextStep(retry)
      PROVE  sw'.amount = sw.amount /\ SwapLeaves
  <2>1. CASE sw.step < 3 /\ UNCHANGED at /\ sw' = [sw EXCEPT !.step = @ + 1, !.retry = retry]
    BY <1>1, <1>5, <2>1 DEF NextStep, SwapLeaves, SwapStays, Swaps
  <2>2. CASE sw.step = 3 /\ at' = "panicked" /\ SwapOver
    BY <1>2, <1>5, <2>2 DEF NextStep, SwapLeaves, SwapPanics
  <2> QED
    BY <1>5, <2>1, <2>2 DEF NextStep
<1>6. CASE SwapWithoutSale
  BY <1>3, <1>4, <1>6 DEF SwapWithoutSale, Swapping
<1>7. CASE SwapNotBuilt
  BY <1>5, <1>7 DEF SwapNotBuilt, Swapping
<1>8. CASE SwapConfirmed
  BY <1>3, <1>4, <1>8 DEF SwapConfirmed, Swapping
<1>9. CASE SwapRefused
  BY <1>3, <1>5, <1>9 DEF SwapRefused, Swapping
<1>10. CASE SwapUnconfirmed
  BY <1>3, <1>5, <1>10 DEF SwapUnconfirmed, Swapping
<1>11. CASE SwapSplits
  <2>1. PICK n \in 1..MaxParts : sw' = [sw EXCEPT !.parts = n]
    BY <1>11 DEF SwapSplits
  <2>2. sw'.amount = sw.amount /\ sw'.back = sw.back /\ sw'.sell = sw.sell
    BY <1>1, <2>1 DEF Swaps
  <2> QED
    BY <1>11, <2>2 DEF SwapSplits, Swapping, SwapLeaves, SwapStays
<1>12. CASE PartSold
  <2>1. CASE sw.done + 1 < sw.parts
    <3>1. sw' = [sw EXCEPT !.done = @ + 1] /\ at' = at /\ f' = f /\ at = "part"
      BY <1>12, <2>1 DEF PartSold
    <3>2. sw'.amount = sw.amount /\ sw'.back = sw.back /\ sw'.sell = sw.sell
      BY <1>1, <3>1 DEF Swaps
    <3> QED
      BY <3>1, <3>2 DEF Swapping, SwapLeaves, SwapStays
  <2>2. CASE ~(sw.done + 1 < sw.parts)
    BY <1>3, <1>4, <1>12, <2>2 DEF PartSold, Swapping
  <2> QED
    BY <2>1, <2>2
<1>13. CASE PartFails
  BY <1>3, <1>13 DEF PartFails, Swapping
<1> QED
  BY <1>6, <1>7, <1>8, <1>9, <1>10, <1>11, <1>12, <1>13 DEF SwapStep

\* The frames operations go on with.
LEMMA EndFrame ==
  ASSUME f \in Frames, End
  PROVE  /\ at' = "idle" /\ f'.op = f.op /\ f'.kind = f.kind /\ f'.asked = f.asked
         /\ f'.then = "idle" /\ f'.attempt = 1 /\ f'.units = 0 /\ f'.budget = 0
BY DEF End, NoFrame

LEMMA LadderIs ==
  ASSUME f \in Frames, NEW kind, NEW pos, NEW mode, NEW units
  PROVE  LET frame == Ladder(kind, pos, mode, units)
         IN /\ frame.op = f.op /\ frame.then = f.then /\ frame.attempt = f.attempt
            /\ frame.need = f.need /\ frame.budget = 0
            /\ frame.kind = kind /\ frame.asked = units /\ frame.units = units
BY DEF Ladder, Frames

LEMMA SwapIs ==
  ASSUME NEW sell, NEW amount, NEW back, StartSwap(sell, amount, back)
  PROVE  /\ at' = "swap" /\ pending' = Aged
         /\ sw'.sell = sell /\ sw'.amount = amount /\ sw'.back = back /\ sw'.done = 0
BY DEF StartSwap, NoSwap

LEMMA EndControl ==
  ASSUME Types, Control, End
  PROVE  Control'
BY EndFrame DEF Types, Control, Swapping

LEMMA SwapControl ==
  ASSUME Types, Control, SwapStep
  PROVE  Control'
<1>1. Swapping /\ SwapLeaves
  BY SwapFates
<1>2. f.attempt \in 1..3 /\ sw.back \in Backs /\ f \in Frames
  BY DEF Types, Frames, Swaps
<1>3. CASE SwapStays
  BY <1>1, <1>3 DEF SwapStays, Control, Swapping
<1>4. CASE SwapReturns
  BY <1>1, <1>2, <1>4 DEF SwapReturns, Control, Swapping, Backs
<1>5. CASE End
  BY <1>5, EndControl
<1>6. CASE SwapRepeats
  <2>1. f'.op = f.op /\ f'.then = f.then /\ at' = "start"
    BY <1>2, <1>6 DEF SwapRepeats, Frames
  <2> QED
    BY <2>1 DEF Control, Swapping
<1>7. CASE SwapPanics
  BY <1>7 DEF SwapPanics, Control, Swapping
<1> QED
  BY <1>1, <1>3, <1>4, <1>5, <1>6, <1>7 DEF SwapLeaves

\* At these places nothing is asked of the frame but what it is about.
LEMMA PlainControl ==
  ASSUME Types, Control, f'.op = f.op, f'.then = f.then, f.op # "excess",
         at' \in {"idle", "panicked", "start", "readSol", "readUsdc", "quote", "measured", "send"}
  PROVE  Control'
BY DEF Control, Swapping

LEMMA HalveFrame ==
  ASSUME Types, Halve
  PROVE  \/ End
         \/ /\ at' = at /\ f'.op = f.op /\ f'.then = f.then /\ f'.attempt = f.attempt
            /\ f'.kind = f.kind /\ f'.asked = f.asked /\ f'.units <= f.units
            /\ f'.need = f.need /\ f'.before = f.before /\ f'.budget = f.budget
<1>1. f \in Frames /\ f.units \in Nat /\ f.units \div 2 <= f.units
  BY DEF Types, Frames
<1>2. CASE f.units \div 2 > 0
  <2>1. f' = [f EXCEPT !.units = @ \div 2, !.step = 1] /\ at' = at
    BY <1>2 DEF Halve
  <2> QED
    BY <1>1, <2>1 DEF Frames
<1>3. CASE ~(f.units \div 2 > 0)
  BY <1>3 DEF Halve
<1> QED
  BY <1>2, <1>3

LEMMA LadderControl ==
  ASSUME Types, Control, LadderStep
  PROVE  Control'
<1>1. f \in Frames
  BY DEF Types
<1>2. at = "send" /\ f.op # "excess"
  BY DEF LadderStep, SendConfirmed, SendSlips, SendTooLarge, SendRefused, SendUnconfirmed, Control
<1>3. CASE SendConfirmed
  <2>1. CASE f.op = "inc" /\ f.kind = "decrease"
    <3>1. at' = "readSol" /\ f'.op = "inc" /\ f'.then = "freed"
      BY <1>1, <1>3, <2>1 DEF SendConfirmed, LadderEnds, Frames
    <3> QED
      BY <3>1 DEF Control, Swapping
  <2>2. CASE ~(f.op = "inc" /\ f.kind = "decrease")
    BY <1>3, <2>2, EndControl DEF SendConfirmed, LadderEnds
  <2> QED
    BY <2>1, <2>2
<1>4. CASE Halve
  BY <1>2, <1>4, HalveFrame, EndControl, PlainControl
<1>5. CASE f' = [f EXCEPT !.step = @ + 1] /\ UNCHANGED at
  <2>1. f'.op = f.op /\ f'.then = f.then
    BY <1>1, <1>5 DEF Frames
  <2> QED
    BY <1>2, <1>5, <2>1, PlainControl
<1>6. CASE End
  BY <1>6, EndControl
<1> QED
  BY <1>3, <1>4, <1>5, <1>6
     DEF LadderStep, SendSlips, SendTooLarge, SendRefused, SendUnconfirmed

LEMMA BeginControl ==
  ASSUME NEW frame \in Frames, NEW label, Begin(frame, label),
         label \in {"start", "readSol", "measured", "target"},
         /\ frame.then = "idle" \/ (frame.then = "decide" /\ frame.op = "open")
              \/ (frame.then = "measured" /\ frame.op = "inc")
         /\ label = "target" => frame.op = "increase"
         /\ frame.op = "excess" => label = "start"
  PROVE  Control'
BY DEF Begin, Control, Swapping

LEMMA CallControl ==
  ASSUME Calls
  PROVE  Control'
<1> USE BeginControl
<1>1. /\ NoFrame.then = "idle" /\ NoFrame.op = "user" /\ NoFrame \in Frames
  BY Constants DEF NoFrame
<1>2. CASE CallExcess
  BY <1>2 DEF CallExcess, Begin, NoFrame, Control, Swapping
<1>3. CASE CallUser
  BY <1>3 DEF CallUser, Begin, NoFrame, Control, Swapping
<1>4. CASE CallOpen
  BY <1>4 DEF CallOpen, Begin, NoFrame, Control, Swapping
<1>5. CASE CallDecrease
  BY <1>5 DEF CallDecrease, Begin, NoFrame, Control, Swapping
<1>6. CASE CallIncrease
  BY <1>6 DEF CallIncrease, Begin, NoFrame, Control, Swapping
<1>7. CASE CallInc
  BY <1>7 DEF CallInc, Begin, NoFrame, Control, Swapping
<1> QED
  BY <1>2, <1>3, <1>4, <1>5, <1>6, <1>7 DEF Calls

LEMMA ReadsControl ==
  ASSUME Types, Control, ExcessReads \/ UserReads \/ ReadSol \/ ReadUsdc
  PROVE  Control'
<1>1. f \in Frames /\ f.then \in Thens
  BY DEF Types, Frames
<1>2. End => Control'
  BY EndControl
<1>3. CASE ExcessReads
  <2>1. f.op = "excess" /\ at = "start"
    BY <1>3 DEF ExcessReads
  <2>2. CASE StartSwap("sol", wallet.sol - Kept, "idle") /\ UNCHANGED f
    BY <2>1, <2>2, SwapIs DEF Control, Swapping
  <2>3. CASE f' = [f EXCEPT !.attempt = @ + 1] /\ UNCHANGED <<at, pending, sw, log>>
    <3>1. f'.op = f.op /\ f'.then = f.then
      BY <1>1, <2>3 DEF Frames
    <3> QED
      BY <2>1, <2>3, <3>1 DEF Control, Swapping
  <2> QED
    BY <1>2, <1>3, <2>2, <2>3 DEF ExcessReads
<1>4. CASE UserReads
  <2>1. f.op = "user" /\ at = "start"
    BY <1>4 DEF UserReads
  <2>2. CASE f' = f /\ \E sell, amount : StartSwap(sell, amount, "idle")
    BY <2>1, <2>2, SwapIs DEF Control, Swapping
  <2> QED
    BY <1>2, <1>4, <2>2 DEF UserReads
<1>5. CASE ReadSol
  <2>1. f.op # "excess"
    BY <1>5 DEF ReadSol, Control
  <2>2. CASE f' = [f EXCEPT !.free.sol = SolSeen] /\ at' = "readUsdc"
    <3>1. f'.op = f.op /\ f'.then = f.then
      BY <1>1, <2>2 DEF Frames
    <3> QED
      BY <2>1, <2>2, <3>1, PlainControl
  <2> QED
    BY <1>2, <1>5, <2>1, <2>2, PlainControl DEF ReadSol
<1>6. CASE ReadUsdc
  <2>1. PICK seen : f' = [f EXCEPT !.free.usdc = seen]
    BY <1>6 DEF ReadUsdc
  <2>2. f'.op = f.op /\ f'.then = f.then /\ at' = f.then /\ f.op # "excess"
    BY <1>1, <1>6, <2>1 DEF Frames, ReadUsdc, Control
  <2> QED
    BY <1>1, <2>2 DEF Control, Swapping, Thens
<1> QED
  BY <1>3, <1>4, <1>5, <1>6

LEMMA StartLadderControl ==
  ASSUME Types, Control, f.op # "excess", NEW frame, NEW next \in {"send", "readSol"},
         StartLadder(frame, next), frame.op = f.op, frame.then = f.then
  PROVE  Control'
BY DEF Control, Swapping, StartLadder

LEMMA OpenControl ==
  ASSUME Types, Control, OpenStep
  PROVE  Control'
<1>1. f \in Frames /\ f.op # "excess"
  BY DEF Types, OpenStep, OpenDecides, BuySol, OpenBuysUsdc, Control
<1>2. End => Control'
  BY EndControl
<1>3. CASE OpenDecides
  <2>1. CASE \E p \in Positions : StartLadder(Ladder("open", p, f.mode, 1), "send")
    BY <1>1, <2>1, LadderIs, StartLadderControl
  <2>2. CASE f' = [f EXCEPT !.attempt = @ + 1] /\ at' = "buySol"
    <3>1. f'.op = f.op /\ f'.then = f.then /\ f.then = "decide"
      BY <1>1, <1>3, <2>2 DEF Frames, OpenDecides, Control
    <3> QED
      BY <2>2, <3>1 DEF Control, Swapping
  <2> QED
    BY <1>2, <1>3, <2>1, <2>2 DEF OpenDecides
<1>4. CASE BuySol
  <2>1. f' = f /\ f.then \in {"decide", "fund"}
    BY <1>4 DEF BuySol, Control
  <2>2. at' = "buyUsdc" \/ (at' = "swap" /\ sw'.back = "buyUsdc")
    BY <1>4, SwapIs DEF BuySol
  <2> QED
    BY <1>1, <2>1, <2>2 DEF Control, Swapping
<1>5. CASE OpenBuysUsdc
  <2>1. CASE f' = f /\ (at' = "readSol" \/ (at' = "swap" /\ sw'.back = "readSol"))
    BY <1>1, <2>1 DEF Control, Swapping
  <2> QED
    BY <1>2, <1>5, <2>1, SwapIs DEF OpenBuysUsdc
<1> QED
  BY <1>3, <1>4, <1>5 DEF OpenStep

LEMMA WithdrawalControl ==
  ASSUME Types, Control, DecreaseStarts \/ IncBudget
  PROVE  Control'
<1>1. f \in Frames /\ f.op # "excess"
  BY DEF Types, DecreaseStarts, IncBudget, Control
<1>2. End => Control'
  BY EndControl
<1>3. CASE DecreaseStarts
  <2>1. ASSUME NEW pct \in {50, 100},
               StartLadder([Ladder("decrease", f.pos, f.mode, Share(liq[f.pos], pct))
                              EXCEPT !.before = f.free], "send")
        PROVE  Control'
    <3> DEFINE ladder == Ladder("decrease", f.pos, f.mode, Share(liq[f.pos], pct))
    <3>1. ladder.op = f.op /\ ladder.then = f.then
      BY <1>1, LadderIs
    <3>2. [ladder EXCEPT !.before = f.free].op = f.op /\ [ladder EXCEPT !.before = f.free].then = f.then
      BY <3>1 DEF Ladder
    <3> QED
      BY <1>1, <2>1, <3>2, StartLadderControl
  <2> QED
    BY <1>2, <1>3, <2>1 DEF DecreaseStarts
<1>4. CASE IncBudget
  <2>1. f.then = "freed" /\ f.op = "inc"
    BY <1>4 DEF IncBudget, Control
  <2>2. CASE f' = [f EXCEPT !.budget = Freed.usdc + Freed.sol * Price,
                            !.free = Coins(0, 0), !.before = Coins(0, 0)] /\ at' = "target"
    <3>1. f'.op = f.op /\ f'.then = f.then
      BY <1>1, <2>2 DEF Frames
    <3> QED
      BY <2>1, <2>2, <3>1 DEF Control, Swapping
  <2> QED
    BY <1>2, <1>4, <2>2 DEF IncBudget
<1> QED
  BY <1>3, <1>4

\* A deposit is funded with readings of its own.
LEMMA Funding ==
  ASSUME Types, Control, IncreaseBuysUsdc
  PROVE  /\ f.then = "fund" /\ f'.then = "fund" /\ f'.op = f.op /\ f'.attempt >= 2
         /\ f'.kind = f.kind /\ f'.asked = f.asked /\ f'.units = f.units
         /\ f'.budget = f.budget /\ f'.need = f.need
         /\ f.attempt < 2 => AfterFunding = "quote"
         /\ AfterFunding \in {"quote", "readSol", "send"}
         /\ \/ at' = AfterFunding
            \/ at' = "swap" /\ sw'.back = AfterFunding
<1>1. f \in Frames /\ f.attempt \in 1..3
  BY DEF Types, Frames
<1>2. f.then = "fund"
  BY DEF IncreaseBuysUsdc, Control
<1>3. PICK more \in 2..3 : f' = [f EXCEPT !.attempt = more]
  <2>1. (IF f.attempt < 3 THEN f.attempt + 1 ELSE 3) \in 2..3
    BY <1>1
  <2> QED
    BY <2>1 DEF IncreaseBuysUsdc
<1>4. /\ f'.then = f.then /\ f'.op = f.op /\ f'.attempt = more /\ f'.need = f.need
      /\ f'.kind = f.kind /\ f'.asked = f.asked /\ f'.units = f.units /\ f'.budget = f.budget
  BY <1>1, <1>3 DEF Frames
<1>5. /\ AfterFunding \in {"quote", "readSol", "send"}
      /\ f.attempt < 2 => AfterFunding = "quote"
  BY <1>1 DEF AfterFunding
<1>6. at' = AfterFunding \/ (at' = "swap" /\ sw'.back = AfterFunding)
  BY SwapIs DEF IncreaseBuysUsdc
<1> QED
  BY <1>2, <1>4, <1>5, <1>6

LEMMA TargetIs ==
  ASSUME Types, TargetOnlyA \/ TargetOther
  PROVE  /\ f'.op = f.op /\ f'.kind = f.kind /\ f'.asked = f.asked /\ f'.units = f.units
         /\ f'.budget = f.budget
         /\ \/ at' = "swap" /\ sw'.back = "quote" /\ f'.then = f.then
            \/ at' = "readSol" /\ f'.then = "fund" /\ f'.attempt = 1
<1>1. f \in Frames
  BY DEF Types
<1>2. CASE TargetOnlyA
  BY <1>1, <1>2, SwapIs DEF TargetOnlyA, Frames
<1>3. CASE TargetOther
  <2>1. PICK need, mode :
          f' = [f EXCEPT !.mode = mode, !.need = need, !.then = "fund", !.attempt = 1]
    <3>1. CASE f' = [f EXCEPT !.mode = "OnlyB", !.need = Coins(0, Buffered(f.budget)),
                              !.then = "fund", !.attempt = 1]
      BY <3>1
    <3>2. CASE \E n \in 0..Buffered(f.budget) \div Price :
                 f' = [f EXCEPT !.mode = "Mixed", !.then = "fund", !.attempt = 1,
                                !.need = Coins(n, Buffered(f.budget) - n * Price)]
      <4>1. PICK n \in 0..Buffered(f.budget) \div Price :
                 f' = [f EXCEPT !.mode = "Mixed", !.then = "fund", !.attempt = 1,
                                !.need = Coins(n, Buffered(f.budget) - n * Price)]
        BY <3>2
      <4> DEFINE need == Coins(n, Buffered(f.budget) - n * Price)
      <4>2. f' = [f EXCEPT !.mode = "Mixed", !.need = need, !.then = "fund", !.attempt = 1]
        BY <1>1, <4>1 DEF Frames
      <4> QED
        BY <4>2
    <3> QED
      BY <1>3, <3>1, <3>2 DEF TargetOther
  <2> QED
    BY <1>1, <1>3, <2>1 DEF Frames, TargetOther
<1> QED
  BY <1>2, <1>3

LEMMA IncreaseControl ==
  ASSUME Types, Control, IncreaseStep
  PROVE  Control'
<1>1. f \in Frames /\ f.op # "excess"
  BY DEF Types, IncreaseStep, TargetOnlyA, TargetOther, TargetFails, FundOnlyB, FundMixed,
         IncreaseBuysUsdc, Quote, Control
<1>2. End => Control'
  BY EndControl
<1>3. CASE TargetOnlyA \/ TargetOther
  <2>1. f.op \in {"increase", "inc"}
    BY <1>3 DEF TargetOnlyA, TargetOther, Control
  <2> QED
    BY <1>3, <2>1, TargetIs DEF Control, Swapping
<1>4. CASE TargetFails
  BY <1>2, <1>4 DEF TargetFails
<1>5. CASE FundOnlyB
  <2>1. CASE f' = f /\ (at' = "quote" \/ (at' = "swap" /\ sw'.back = "quote"))
    BY <1>1, <2>1 DEF Control, Swapping
  <2> QED
    BY <1>2, <1>5, <2>1, SwapIs DEF FundOnlyB
<1>6. CASE FundMixed
  BY <1>1, <1>6 DEF FundMixed, Control, Swapping
<1>7. CASE IncreaseBuysUsdc
  BY <1>1, <1>7, Funding DEF Control, Swapping
<1>8. CASE Quote
  <2>1. ASSUME StartLadder([Ladder("increase", f.to, "Mixed", Quoted)
                              EXCEPT !.need = Coins(Quoted, Quoted * Price)], "readSol")
        PROVE  Control'
    <3> DEFINE ladder == Ladder("increase", f.to, "Mixed", Quoted)
               need == Coins(Quoted, Quoted * Price)
    <3>1. ladder.op = f.op /\ ladder.then = f.then
      BY <1>1, LadderIs
    <3>2. [ladder EXCEPT !.need = need].op = f.op /\ [ladder EXCEPT !.need = need].then = f.then
      BY <3>1 DEF Ladder
    <3> QED
      BY <1>1, <2>1, <3>2, StartLadderControl
  <2>2. ASSUME StartLadder(Ladder("increase", f.to, f.mode, UnitsFor(f.budget)), "send")
        PROVE  Control'
    BY <1>1, <2>2, LadderIs, StartLadderControl
  <2> QED
    BY <1>2, <1>8, <2>1, <2>2 DEF Quote
<1> QED
  BY <1>3, <1>4, <1>5, <1>6, <1>7, <1>8 DEF IncreaseStep

LEMMA NextControl ==
  ASSUME Types, Control, [FundsNext]_vars
  PROVE  Control'
<1>1. CASE UNCHANGED <<at, f, sw>>
  BY <1>1 DEF Control, Swapping
<1>2. CASE Step
  BY <1>2, SwapControl, LadderControl, ReadsControl, OpenControl, WithdrawalControl,
     IncreaseControl DEF Step
<1>3. CASE Calls
  BY <1>3, CallControl
<1>4. CASE OthersMove \/ (\E s \in Slots : Settle(s)) \/ UNCHANGED vars
  BY <1>1, <1>4 DEF OthersMove, Settle, vars
<1> QED
  BY <1>2, <1>3, <1>4 DEF FundsNext

LEMMA ControlAlways == FundsSpec => [](Types /\ Control)
<1>1. FundsInit => Types /\ Control
  BY InitTypes DEF FundsInit, NoFrame, Control, Swapping
<1>2. Types /\ Control /\ [FundsNext]_vars => (Types /\ Control)'
  BY NextTypes, NextControl
<1> QED
  BY <1>1, <1>2, PTL DEF FundsSpec

-----------------------------------------------------------------------------
(***************************************************************************)
(* Ladders.  Before a transaction of a ladder is sent, nothing of it has   *)
(* moved and nothing is pending that could: this holds from the quote of a *)
(* mixed deposit on, over the readings and swaps that fund it.             *)
(***************************************************************************)

Moving(e) == e.current /\ e.units # 0

Clean == log.moved = 0 /\ \A s \in Slots : ~Moving(pending[s])

\* A mixed deposit that was quoted and is not yet sent.
Second ==
  /\ f.then = "fund" /\ f.attempt >= 2
  /\ \/ at \in {"readSol", "readUsdc", "fund", "buySol", "buyUsdc"}
     \/ Swapping /\ sw.back # "quote"

Ledger ==
  /\ f.units <= f.asked /\ log.moved <= f.asked
  /\ \A s \in Slots :
       Moving(pending[s]) => log.moved = 0 /\ Magnitude(pending[s].units) <= f.asked
  /\ \A s, t \in Slots : Moving(pending[s]) /\ Moving(pending[t]) => s = t

Ladders ==
  /\ Ledger
  /\ at = "send" => Clean
  /\ Second => Clean /\ f.kind = "increase"

FrameKept == f'.kind = f.kind /\ f'.asked = f.asked /\ f'.units <= f.units
NothingMoves ==
  /\ log'.moved = log.moved
  /\ \A s \in Slots : Moving(pending'[s]) => pending'[s] = pending[s]

\* A step that moves nothing carries the ledger on.
LEMMA Carries ==
  ASSUME Types, Types', Ladders, FrameKept, NothingMoves,
         Second' => Second, at' = "send" => at = "send" \/ Second
  PROVE  Ladders'
<1>1. f.units \in Nat /\ f'.units \in Nat /\ f.asked \in Nat
  BY DEF Types, Frames
<1>2. Ledger'
  BY <1>1 DEF Ladders, Ledger, FrameKept, NothingMoves
<1>3. Clean => Clean'
  BY DEF Clean, NothingMoves
<1> QED
  BY <1>2, <1>3 DEF Ladders, FrameKept

LEMMA EndCarries ==
  ASSUME Types, Types', Ladders, NothingMoves, End
  PROVE  Ladders'
<1>1. f \in Frames
  BY DEF Types
<1>2. FrameKept /\ at' = "idle" /\ ~Second'
  BY <1>1, EndFrame DEF Types, Frames, FrameKept, Second, Swapping
<1> QED
  BY <1>2, Carries

LEMMA AgedRests ==
  ASSUME Types
  PROVE  \A s \in Slots : ~Moving(Aged[s])
BY AgedTypes DEF Types, Chained, Moving

LEMMA StartSwapRests ==
  ASSUME Types, NEW sell, NEW amount, NEW back, StartSwap(sell, amount, back)
  PROVE  NothingMoves
<1>1. log \in Logs /\ log' = [log EXCEPT !.sold = 0, !.missed = 0]
  BY DEF Types, StartSwap
<1>2. log'.moved = log.moved
  BY <1>1 DEF Logs
<1> QED
  BY <1>2, SwapIs, AgedRests DEF NothingMoves

\* A new ladder has moved nothing.
LEMMA StartLadderClean ==
  ASSUME Types, Types', NEW frame \in Frames, NEW next, StartLadder(frame, next),
         frame.units = frame.asked, next = "readSol" => frame.kind = "increase",
         next \in {"send", "readSol"}
  PROVE  Ladders'
<1>1. log'.moved = 0
  BY DEF StartLadder, Types, Logs
<1>2. Clean'
  BY <1>1, AgedRests DEF Clean, StartLadder
<1>3. f' = frame /\ at' = next /\ frame.asked \in Nat
  BY DEF StartLadder, Frames
<1>4. Ledger'
  BY <1>1, <1>2, <1>3 DEF Ledger, Clean
<1>5. Second' => f'.kind = "increase"
  BY <1>3 DEF Second, Swapping
<1> QED
  BY <1>2, <1>4, <1>5 DEF Ladders

LEMMA SwapRests ==
  ASSUME Types, SwapStep
  PROVE  NothingMoves /\ log'.withdrawn = log.withdrawn /\ log'.blind = log.blind
<1>1. log \in Logs /\ sw \in Swaps /\ sw.amount \in Nat /\ Chunk \in Nat
  BY ChunkType DEF Types, Swaps
<1>3. UNCHANGED <<pending, log>> => NothingMoves /\ log'.withdrawn = log.withdrawn /\ log'.blind = log.blind
  BY DEF NothingMoves
<1>4. ASSUME NEW n \in Nat, log' = [log EXCEPT !.sold = @ + n], UNCHANGED pending
      PROVE  NothingMoves /\ log'.withdrawn = log.withdrawn /\ log'.blind = log.blind
  BY <1>1, <1>4 DEF NothingMoves, Logs
<1>5. ASSUME NEW n \in Nat, Misses(Sale(n, 0)),
             log' = [log EXCEPT !.missed = @ + 1, !.disturbed = TRUE]
      PROVE  NothingMoves /\ log'.withdrawn = log.withdrawn /\ log'.blind = log.blind
  <2>1. PICK s \in Slots : pending' = [pending EXCEPT ![s] = Sale(n, 0)]
    BY <1>5 DEF Misses
  <2>2. ~Moving(Sale(n, 0))
    BY <1>1, SaleTypes DEF Moving
  <2>3. \A t \in Slots : Moving(pending'[t]) => pending'[t] = pending[t]
    BY <2>1, <2>2 DEF Types, Chained
  <2>4. /\ log'.moved = log.moved /\ log'.withdrawn = log.withdrawn /\ log'.blind = log.blind
    BY <1>1, <1>5, Zenon DEF Logs
  <2> QED
    BY <2>3, <2>4 DEF NothingMoves
<1>6. CASE SwapConfirmed
  BY <1>1, <1>4, <1>6 DEF SwapConfirmed
<1>7. CASE PartSold
  BY <1>1, <1>4, <1>7 DEF PartSold
<1>8. CASE SwapUnconfirmed
  BY <1>1, <1>5, <1>8 DEF SwapUnconfirmed
<1>9. CASE PartFails
  BY <1>1, <1>3, <1>5, <1>9 DEF PartFails, Chain
<1>10. CASE SwapWithoutSale \/ SwapNotBuilt \/ SwapRefused \/ SwapSplits
  BY <1>3, <1>10 DEF SwapWithoutSale, SwapNotBuilt, SwapRefused, SwapSplits, Chain
<1> QED
  BY <1>6, <1>7, <1>8, <1>9, <1>10 DEF SwapStep

LEMMA SwapLadders ==
  ASSUME Types, Types', Control, Ladders, SwapStep
  PROVE  Ladders'
<1>1. Swapping /\ SwapLeaves /\ NothingMoves /\ f \in Frames /\ sw.back \in Backs
  BY SwapFates, SwapRests DEF Types, Swaps
<1>2. f' = f => FrameKept
  BY DEF FrameKept, Types, Frames
<1>3. CASE SwapStays
  <2>1. Second' => Second
    BY <1>1, <1>3 DEF SwapStays, Second, Swapping
  <2> QED
    BY <1>1, <1>2, <1>3, <2>1, Carries DEF SwapStays
<1>4. CASE SwapReturns
  <2>1. Second' => Second
    BY <1>1, <1>4 DEF SwapReturns, Second, Swapping, Backs
  <2>2. at' = "send" => Second
    BY <1>1, <1>4 DEF SwapReturns, Second, Control
  <2> QED
    BY <1>1, <1>2, <1>4, <2>1, <2>2, Carries DEF SwapReturns
<1>5. CASE End
  BY <1>1, <1>5, EndCarries
<1>6. CASE SwapRepeats
  <2>1. f' = [f EXCEPT !.attempt = @ + 1] /\ at' = "start"
    BY <1>6 DEF SwapRepeats
  <2>2. FrameKept
    BY <1>1, <2>1 DEF FrameKept, Frames
  <2> QED
    BY <1>1, <2>1, <2>2, Carries DEF Second, Swapping
<1>7. CASE SwapPanics
  BY <1>1, <1>2, <1>7, Carries DEF SwapPanics, Second, Swapping
<1> QED
  BY <1>1, <1>3, <1>4, <1>5, <1>6, <1>7 DEF SwapLeaves

LEMMA LadderLadders ==
  ASSUME Types, Types', Ladders, LadderStep
  PROVE  Ladders'
<1>1. f \in Frames /\ f.units \in Nat /\ f.asked \in Nat /\ log \in Logs
  BY DEF Types, Frames
<1>2. at = "send" /\ Clean /\ f.units <= f.asked
  BY DEF Ladders, Ledger, LadderStep, SendConfirmed, SendSlips, SendTooLarge, SendRefused,
         SendUnconfirmed
<1>3. UNCHANGED <<pending, log>> => NothingMoves
  BY DEF NothingMoves
<1>4. CASE SendConfirmed
  <2>1. log'.moved = f.units
    BY <1>1, <1>2, <1>4 DEF SendConfirmed, Clean, Logs
  <2>2. f'.asked = f.asked /\ f'.units <= f.units /\ at' # "send" /\ ~Second'
    <3>1. CASE End
      BY <1>1, <3>1, EndFrame DEF Second, Swapping
    <3>2. CASE at' = "readSol" /\ f' = [f EXCEPT !.then = "freed"]
      BY <1>1, <3>2 DEF Frames, Second, Swapping
    <3> QED
      BY <1>4, <3>1, <3>2 DEF SendConfirmed, LadderEnds
  <2>3. pending' = pending
    BY <1>4 DEF SendConfirmed
  <2>4. f'.units \in Nat
    BY DEF Types, Frames
  <2>5. Ledger'
    BY <1>1, <1>2, <2>1, <2>2, <2>3, <2>4 DEF Ledger, Clean
  <2> QED
    BY <2>2, <2>5 DEF Ladders
<1>5. CASE SendUnconfirmed
  <2>1. PICK mode \in Modes, s \in Slots : pending' = [pending EXCEPT ![s] = Moved(mode)]
    BY <1>5, OutcomeModes DEF SendUnconfirmed, Misses
  <2>2. Magnitude(Moved(mode).units) = f.units
    BY MovedTypes
  <2>3. log'.moved = 0
    BY <1>1, <1>2, <1>5, Zenon DEF SendUnconfirmed, Clean, Logs
  <2>4. f'.asked = f.asked /\ f'.units = 0 /\ at' = "idle" /\ f'.then = "idle"
    BY <1>1, <1>5, EndFrame DEF SendUnconfirmed
  <2>5. \A t \in Slots : pending'[t] = IF t = s THEN Moved(mode) ELSE pending[t]
    BY <2>1 DEF Types, Chained
  <2>6. \A t \in Slots : Moving(pending'[t]) => t = s
    BY <1>2, <2>5 DEF Clean
  <2>7. Ledger'
    BY <1>1, <1>2, <2>2, <2>3, <2>4, <2>5, <2>6 DEF Ledger
  <2> QED
    BY <2>4, <2>7 DEF Ladders, Second, Swapping
<1>6. CASE End /\ UNCHANGED <<pending, log>>
  BY <1>3, <1>6, EndCarries
<1>7. CASE Halve /\ UNCHANGED <<pending, log>>
  <2>1. CASE End
    BY <1>3, <1>7, <2>1, EndCarries
  <2>2. CASE at' = at /\ f'.kind = f.kind /\ f'.asked = f.asked /\ f'.units <= f.units
    BY <1>2, <1>3, <1>7, <2>2, Carries DEF FrameKept, Second, Swapping
  <2> QED
    BY <1>7, <2>1, <2>2, HalveFrame
<1>8. CASE f' = [f EXCEPT !.step = @ + 1] /\ UNCHANGED at /\ UNCHANGED <<pending, log>>
  <2>1. FrameKept
    BY <1>1, <1>8 DEF FrameKept, Frames
  <2> QED
    BY <1>2, <1>3, <1>8, <2>1, Carries DEF Second, Swapping
<1> QED
  BY <1>4, <1>5, <1>6, <1>7, <1>8
     DEF LadderStep, SendSlips, SendTooLarge, SendRefused, Here

LEMMA CallLadders ==
  ASSUME Types, Types', Calls
  PROVE  Ladders'
<1>1. PICK frame, label : Begin(frame, label) /\ frame.asked = 0 /\ frame.units = 0
                          /\ frame.attempt = 1 /\ label # "send"
  <2>1. CASE CallExcess
    BY <2>1 DEF CallExcess, NoFrame
  <2>2. CASE CallUser
    BY <2>2 DEF CallUser, NoFrame
  <2>3. CASE CallOpen
    BY <2>3 DEF CallOpen, NoFrame
  <2>4. CASE CallDecrease
    BY <2>4 DEF CallDecrease, NoFrame
  <2>5. CASE CallIncrease
    BY <2>5 DEF CallIncrease, NoFrame
  <2>6. CASE CallInc
    BY <2>6 DEF CallInc, NoFrame
  <2> QED
    BY <2>1, <2>2, <2>3, <2>4, <2>5, <2>6 DEF Calls
<1>2. f'.asked = 0 /\ f'.units = 0 /\ f'.attempt = 1 /\ at' # "send" /\ log'.moved = 0
      /\ pending' = Aged
  BY <1>1 DEF Begin, NoLog
<1> QED
  BY <1>2, AgedRests DEF Ladders, Ledger, Clean, Second

LEMMA ReadsLadders ==
  ASSUME Types, Types', Control, Ladders, ExcessReads \/ UserReads \/ ReadSol \/ ReadUsdc
  PROVE  Ladders'
<1>1. f \in Frames /\ f.then \in Thens
  BY DEF Types, Frames
<1>2. UNCHANGED <<pending, log>> => NothingMoves
  BY DEF NothingMoves
<1>3. f' = f => FrameKept
  BY DEF FrameKept, Types, Frames
<1>4. f.op \in {"excess", "user"} => f.then # "fund"
  BY DEF Control
<1>5. CASE ExcessReads
  <2>1. CASE StartSwap("sol", wallet.sol - Kept, "idle") /\ UNCHANGED f
    BY <1>3, <1>4, <1>5, <2>1, SwapIs, StartSwapRests, Carries DEF ExcessReads, Second
  <2>2. CASE End /\ UNCHANGED <<pending, sw, log>>
    BY <1>2, <2>2, EndCarries
  <2>3. CASE f' = [f EXCEPT !.attempt = @ + 1] /\ UNCHANGED <<at, pending, sw, log>>
    <3>1. FrameKept
      BY <1>1, <2>3 DEF FrameKept, Frames
    <3> QED
      BY <1>2, <1>5, <2>3, <3>1, Carries DEF ExcessReads, Second, Swapping
  <2> QED
    BY <1>5, <2>1, <2>2, <2>3 DEF ExcessReads
<1>6. CASE UserReads
  <2>1. CASE f' = f /\ \E sell, amount : StartSwap(sell, amount, "idle")
    BY <1>3, <1>4, <1>6, <2>1, SwapIs, StartSwapRests, Carries DEF UserReads, Second
  <2> QED
    BY <1>2, <1>6, <2>1, EndCarries DEF UserReads
<1>7. CASE ReadSol
  <2>1. CASE f' = [f EXCEPT !.free.sol = SolSeen] /\ at' = "readUsdc"
    <3>1. FrameKept /\ f'.then = f.then /\ f'.attempt = f.attempt
      BY <1>1, <2>1 DEF FrameKept, Frames
    <3> QED
      BY <1>2, <1>7, <2>1, <3>1, Carries DEF ReadSol, Here, Second, Swapping
  <2>2. CASE at' = "panicked" /\ UNCHANGED f
    BY <1>2, <1>3, <1>7, <2>2, Carries DEF ReadSol, Here, Second, Swapping
  <2> QED
    BY <1>2, <1>7, <2>1, <2>2, EndCarries DEF ReadSol, Here
<1>8. CASE ReadUsdc
  <2>1. PICK seen : f' = [f EXCEPT !.free.usdc = seen]
    BY <1>8 DEF ReadUsdc
  <2>2. FrameKept /\ f'.then = f.then /\ f'.attempt = f.attempt /\ at' = f.then
    BY <1>1, <1>8, <2>1 DEF FrameKept, Frames, ReadUsdc
  <2>3. log'.moved = log.moved
    BY <1>8, Zenon DEF ReadUsdc, Types, Logs
  <2>4. NothingMoves
    BY <1>8, <2>3 DEF NothingMoves, ReadUsdc, Chain
  <2>5. Second' => Second
    BY <1>1, <1>8, <2>2 DEF Second, Swapping, Thens, ReadUsdc
  <2> QED
    BY <1>1, <2>2, <2>4, <2>5, Carries DEF Thens
<1> QED
  BY <1>5, <1>6, <1>7, <1>8

LEMMA OpenLadders ==
  ASSUME Types, Types', Control, Ladders, OpenStep
  PROVE  Ladders'
<1>1. f \in Frames /\ f.mode \in Modes
  BY DEF Types, Frames
<1>2. UNCHANGED <<pending, log>> => NothingMoves
  BY DEF NothingMoves
<1>3. f' = f => FrameKept
  BY DEF FrameKept, Types, Frames
<1>4. f.op = "open" => f.then # "fund"
  BY DEF Control
<1>5. CASE OpenDecides
  <2>1. CASE \E p \in Positions : StartLadder(Ladder("open", p, f.mode, 1), "send")
    BY <1>1, <2>1, LadderFrame, LadderIs, StartLadderClean DEF Kinds
  <2>2. CASE f' = [f EXCEPT !.attempt = @ + 1] /\ at' = "buySol" /\ UNCHANGED <<pending, log>>
    <3>1. FrameKept /\ f'.then = "decide"
      BY <1>1, <1>5, <2>2 DEF FrameKept, Frames, OpenDecides, Control
    <3> QED
      BY <1>2, <2>2, <3>1, Carries DEF Second
  <2> QED
    BY <1>2, <1>5, <2>1, <2>2, EndCarries DEF OpenDecides
<1>6. CASE BuySol
  <2>1. at' = "buyUsdc" \/ (at' = "swap" /\ sw'.back = "buyUsdc")
    BY <1>6, SwapIs DEF BuySol
  <2>2. NothingMoves
    BY <1>2, <1>6, StartSwapRests DEF BuySol
  <2>3. Second' => Second
    BY <1>6, <2>1 DEF BuySol, Second, Swapping
  <2> QED
    BY <1>3, <1>6, <2>1, <2>2, <2>3, Carries DEF BuySol
<1>7. CASE OpenBuysUsdc
  <2>1. CASE End /\ UNCHANGED <<pending, log>>
    BY <1>2, <2>1, EndCarries
  <2>2. CASE f' = f /\ (at' = "readSol" \/ at' = "swap") /\ NothingMoves
    BY <1>3, <1>4, <1>7, <2>2, Carries DEF OpenBuysUsdc, Second
  <2> QED
    BY <1>2, <1>7, <2>1, <2>2, SwapIs, StartSwapRests DEF OpenBuysUsdc
<1> QED
  BY <1>5, <1>6, <1>7 DEF OpenStep

LEMMA WithdrawalLadders ==
  ASSUME Types, Types', Ladders, DecreaseStarts \/ IncBudget
  PROVE  Ladders'
<1>1. f \in Frames /\ f.mode \in Modes /\ f.pos \in Positions /\ liq[f.pos] \in Nat
      /\ f.free \in Balances
  BY DEF Types, Frames, Chained
<1>2. UNCHANGED <<pending, log>> => NothingMoves
  BY DEF NothingMoves
<1>3. CASE DecreaseStarts
  <2>1. ASSUME NEW pct \in {50, 100},
               StartLadder([Ladder("decrease", f.pos, f.mode, Share(liq[f.pos], pct))
                              EXCEPT !.before = f.free], "send")
        PROVE  Ladders'
    <3> DEFINE ladder == Ladder("decrease", f.pos, f.mode, Share(liq[f.pos], pct))
    <3>1. ladder \in Frames
      BY <1>1, ShareType, LadderFrame DEF Kinds
    <3>2. ladder.units = ladder.asked
      BY <1>1, LadderIs
    <3> HIDE DEF ladder
    <3>3. [ladder EXCEPT !.before = f.free] \in Frames
      BY <1>1, <3>1, Zenon DEF Frames
    <3>4. [ladder EXCEPT !.before = f.free].units = [ladder EXCEPT !.before = f.free].asked
      BY <3>1, <3>2 DEF Frames
    <3> QED
      BY <2>1, <3>3, <3>4, StartLadderClean DEF ladder
  <2> QED
    BY <1>2, <1>3, <2>1, EndCarries DEF DecreaseStarts
<1>4. CASE IncBudget
  <2>1. CASE f' = [f EXCEPT !.budget = Freed.usdc + Freed.sol * Price,
                            !.free = Coins(0, 0), !.before = Coins(0, 0)] /\ at' = "target"
    <3>1. FrameKept
      BY <1>1, <2>1 DEF FrameKept, Frames
    <3> QED
      BY <1>2, <1>4, <2>1, <3>1, Carries DEF IncBudget, Here, Second, Swapping
  <2> QED
    BY <1>2, <1>4, <2>1, EndCarries DEF IncBudget, Here
<1> QED
  BY <1>3, <1>4

\* What Quote leaves: a deposit that nothing was moved for, or nothing.
LEMMA QuoteIs ==
  ASSUME Types, Quote
  PROVE  \/ End /\ UNCHANGED <<pending, sw, log>>
         \/ \E frame \in Frames :
              /\ \/ StartLadder(frame, "readSol")
                 \/ StartLadder(frame, "send")
              /\ frame.kind = "increase" /\ frame.units = frame.asked /\ frame.op = f.op
              /\ frame.budget = 0 /\ frame.then = f.then
              /\ frame.asked * UnitValue <= Buffered(f.budget)
<1>1. f \in Frames /\ f.mode \in Modes /\ f.to \in Positions /\ f.budget \in Nat
  BY DEF Types, Frames
<1>2. CASE StartLadder([Ladder("increase", f.to, "Mixed", Quoted)
                          EXCEPT !.need = Coins(Quoted, Quoted * Price)], "readSol")
  <2> DEFINE ladder == Ladder("increase", f.to, "Mixed", Quoted)
             need == Coins(Quoted, Quoted * Price)
             frame == [ladder EXCEPT !.need = need]
  <2>1. ladder \in Frames
    BY <1>1, QuotedBounds, LadderFrame DEF Kinds, Modes
  <2>2. /\ ladder.units = Quoted /\ ladder.asked = Quoted /\ ladder.kind = "increase"
        /\ ladder.op = f.op /\ ladder.budget = 0 /\ ladder.then = f.then
    BY <1>1, LadderIs
  <2>3. need \in Balances
    BY <1>1, QuotedBounds, Times, FundsAssumption DEF FundsAssumption, Coins, Balances
  <2>4. StartLadder(frame, "readSol")
    BY <1>2
  <2> HIDE DEF ladder, need
  <2>5. frame \in Frames
    BY <2>1, <2>3, Zenon DEF Frames
  <2>6. /\ frame.units = Quoted /\ frame.asked = Quoted /\ frame.kind = "increase"
        /\ frame.op = f.op /\ frame.budget = 0 /\ frame.then = f.then
    BY <2>1, <2>2 DEF Frames
  <2> HIDE DEF frame
  <2> QED
    BY <1>1, <2>4, <2>5, <2>6, QuotedBounds
<1>3. CASE StartLadder(Ladder("increase", f.to, f.mode, UnitsFor(f.budget)), "send")
  BY <1>1, <1>3, UnitsBounds, LadderFrame, LadderIs DEF Kinds
<1> QED
  BY <1>2, <1>3 DEF Quote

LEMMA IncreaseLadders ==
  ASSUME Types, Types', Control, Ladders, IncreaseStep
  PROVE  Ladders'
<1>1. f \in Frames
  BY DEF Types
<1>2. UNCHANGED <<pending, log>> => NothingMoves
  BY DEF NothingMoves
<1>3. f' = f => FrameKept
  BY DEF FrameKept, Types, Frames
<1>4. CASE TargetOnlyA \/ TargetOther
  <2>1. FrameKept
    BY <1>1, <1>4, TargetIs DEF FrameKept, Frames
  <2>2. NothingMoves
    BY <1>2, <1>4, StartSwapRests DEF TargetOnlyA, TargetOther, Here
  <2> QED
    BY <1>4, <2>1, <2>2, TargetIs, Carries DEF Second, Swapping
<1>5. CASE TargetFails
  BY <1>2, <1>5, EndCarries DEF TargetFails, Here
<1>6. CASE FundOnlyB
  <2>1. CASE /\ f' = f /\ NothingMoves
             /\ at' = "quote" \/ (at' = "swap" /\ sw'.back = "quote")
    BY <1>3, <2>1, Carries DEF Second, Swapping
  <2> QED
    BY <1>2, <1>6, <2>1, SwapIs, StartSwapRests, EndCarries DEF FundOnlyB
<1>7. CASE FundMixed
  <2>1. Second' => Second
    BY <1>7 DEF FundMixed, Second, Swapping
  <2> QED
    BY <1>2, <1>3, <1>7, <2>1, Carries DEF FundMixed, Here
<1>8. CASE IncreaseBuysUsdc
  <2>1. FrameKept
    BY <1>1, <1>8, Funding DEF FrameKept, Frames
  <2>2. NothingMoves
    BY <1>2, <1>8, StartSwapRests DEF IncreaseBuysUsdc
  <2>3. at = "buyUsdc" /\ f.attempt \in 1..3
    BY <1>1, <1>8 DEF IncreaseBuysUsdc, Frames
  <2>4. Second' => Second
    BY <1>8, <2>3, Funding DEF Second, Swapping
  <2>5. at' = "send" => Second
    BY <1>8, <2>3, Funding DEF Second
  <2> QED
    BY <2>1, <2>2, <2>4, <2>5, Carries
<1>9. CASE Quote
  <2>1. CASE End /\ UNCHANGED <<pending, sw, log>>
    BY <1>2, <2>1, EndCarries
  <2>2. CASE \E frame \in Frames :
               /\ \/ StartLadder(frame, "readSol")
                  \/ StartLadder(frame, "send")
               /\ frame.kind = "increase" /\ frame.units = frame.asked
    BY <2>2, StartLadderClean
  <2> QED
    BY <1>9, <2>1, <2>2, QuoteIs
<1> QED
  BY <1>4, <1>5, <1>6, <1>7, <1>8, <1>9 DEF IncreaseStep

LEMMA SettleLadders ==
  ASSUME Types, Types', Ladders, NEW s \in Slots, Settle(s)
  PROVE  Ladders'
<1>1. /\ log \in Logs /\ f.asked \in Nat /\ pending[s] \in Effects
      /\ Magnitude(pending[s].units) \in Nat
  BY DEF Types, Frames, Chained, Transactions, Effects, Magnitude
<1>2. \A t \in Slots : pending'[t] = IF t = s THEN Nothing ELSE pending[t]
  BY DEF Settle, Types, Chained
<1>3. ~Moving(Nothing)
  BY DEF Moving, Nothing
<1>4. Second' => Second
  BY DEF Settle, Second, Swapping
<1>5. CASE log' = log
  <2>1. Ledger'
    BY <1>2, <1>3, <1>5 DEF Settle, Ladders, Ledger
  <2>2. Clean => Clean'
    BY <1>2, <1>3, <1>5 DEF Clean
  <2> QED
    BY <1>4, <2>1, <2>2 DEF Settle, Ladders
<1>6. CASE log' = [log EXCEPT
                     !.disturbed = TRUE,
                     !.sold = IF pending[s].current THEN @ + SoldBy(pending[s]) ELSE @,
                     !.moved = IF pending[s].current THEN @ + Magnitude(pending[s].units)
                                                     ELSE @]
  <2>1. log'.moved = IF pending[s].current THEN log.moved + Magnitude(pending[s].units)
                                           ELSE log.moved
    BY <1>1, <1>6, Zenon DEF Logs
  <2>2. CASE Moving(pending[s])
    <3>1. log'.moved <= f.asked
      BY <1>1, <2>1, <2>2 DEF Ladders, Ledger, Moving
    <3>2. \A t \in Slots : ~Moving(pending'[t])
      BY <1>2, <1>3, <2>2 DEF Ladders, Ledger
    <3>3. Ledger'
      BY <3>1, <3>2 DEF Settle, Ladders, Ledger
    <3>4. ~Clean
      BY <2>2 DEF Clean
    <3> QED
      BY <1>4, <3>3, <3>4 DEF Settle, Ladders
  <2>3. CASE ~Moving(pending[s])
    <3>1. log'.moved = log.moved
      BY <1>1, <2>1, <2>3 DEF Moving, Magnitude, Logs, Effects
    <3>2. Ledger'
      BY <1>2, <1>3, <3>1 DEF Settle, Ladders, Ledger
    <3>3. Clean => Clean'
      BY <1>2, <1>3, <3>1 DEF Clean
    <3> QED
      BY <1>4, <3>2, <3>3 DEF Settle, Ladders
  <2> QED
    BY <2>2, <2>3
<1> QED
  BY <1>5, <1>6 DEF Settle

LEMMA LaddersAlways == FundsSpec => [](Types /\ Control /\ Ladders)
<1>1. FundsInit => Ladders
  BY DEF FundsInit, NoFrame, NoLog, Nothing, Ladders, Ledger, Clean, Second, Moving
<1>2. Types /\ Control /\ Ladders /\ [FundsNext]_vars => Ladders'
  <2> SUFFICES ASSUME Types, Types', Control, Ladders, [FundsNext]_vars PROVE Ladders'
    BY NextTypes
  <2>1. CASE UNCHANGED vars
    BY <2>1 DEF vars, Ladders, Ledger, Clean, Second, Swapping
  <2>2. CASE Step
    BY <2>2, SwapLadders, LadderLadders, ReadsLadders, OpenLadders, WithdrawalLadders,
       IncreaseLadders DEF Step
  <2>3. CASE Calls
    BY <2>3, CallLadders
  <2>4. CASE OthersMove
    <3>1. log'.moved = log.moved
      BY <2>4, Zenon DEF OthersMove, Types, Logs
    <3> QED
      BY <2>4, <3>1 DEF OthersMove, Ladders, Ledger, Clean, Second, Swapping
  <2>5. CASE \E s \in Slots : Settle(s)
    BY <2>5, SettleLadders
  <2> QED
    BY <2>1, <2>2, <2>3, <2>4, <2>5 DEF FundsNext
<1> QED
  BY <1>1, <1>2, ControlAlways, NextTypes, PTL DEF FundsSpec

\* The ladders of opening, increase and decrease (wirlpool.rs) move no more
\* than was asked for, whatever lands late.
THEOREM LadderMovesOnceOnly == FundsSpec => []LadderMovesOnce
<1>1. Ladders => LadderMovesOnce
  BY DEF Ladders, Ledger, LadderMovesOnce
<1> QED
  BY <1>1, LaddersAlways, PTL

-----------------------------------------------------------------------------
(***************************************************************************)
(* Swaps.  What was sold and what may still be sold by transactions that   *)
(* land late is paid for by the missed confirmations and by the one sale   *)
(* that a swap, or the parts of it, may make.                              *)
(***************************************************************************)

\* Sales of the current swap that may still land.
Unsettled == {s \in Slots : pending[s].current /\ SoldBy(pending[s]) # 0}

\* What the swap in hand may have sold with a confirmation.
Spent == IF at = "swap" THEN 0 ELSE IF at = "part" THEN sw.done * Chunk ELSE sw.amount

Sales ==
  /\ IsFiniteSet(Unsettled)
  /\ \A s \in Unsettled : SoldBy(pending[s]) <= sw.amount
  /\ log.sold + sw.amount * Cardinality(Unsettled) <= sw.amount * log.missed + Spent

LEMMA SpentBounds ==
  ASSUME Types
  PROVE  /\ Spent \in Nat /\ Spent <= sw.amount
         /\ at = "part" => /\ (sw.done + 1) * Chunk <= sw.amount
                           /\ (sw.done + 1) * Chunk = sw.done * Chunk + Chunk
<1>1. /\ sw \in Swaps /\ sw.amount \in Nat /\ sw.parts \in Nat \ {0} /\ sw.done \in Nat
      /\ Chunk \in Nat
  BY ChunkType DEF Types, Swaps
<1>2. Chunk * sw.parts <= sw.amount
  BY <1>1, Quotient DEF Chunk
<1>3. Chunk * sw.parts = sw.parts * Chunk /\ sw.parts * Chunk \in Nat
  BY <1>1, Times
<1>4. sw.done * Chunk \in Nat /\ (sw.done + 1) * Chunk = sw.done * Chunk + Chunk
  BY <1>1, Times
<1>5. ASSUME at = "part" PROVE (sw.done + 1) * Chunk <= sw.amount
  <2>1. sw.done + 1 <= sw.parts
    BY <1>1, <1>5 DEF Types, Steps
  <2>2. PICK rest \in Nat : sw.parts = sw.done + 1 + rest
    <3>1. sw.parts - (sw.done + 1) \in Nat
      BY <1>1, <2>1
    <3>2. sw.parts = sw.done + 1 + (sw.parts - (sw.done + 1))
      BY <1>1
    <3> QED
      BY <3>1, <3>2
  <2>3. sw.parts * Chunk = (sw.done + 1) * Chunk + rest * Chunk
    BY <1>1, <2>2
  <2>4. rest * Chunk \in Nat /\ (sw.done + 1) * Chunk \in Nat
    BY <1>1, <2>2, Times
  <2> QED
    BY <1>1, <1>2, <1>3, <2>3, <2>4
<1>6. Spent \in Nat /\ Spent <= sw.amount
  BY <1>1, <1>4, <1>5 DEF Spent
<1> QED
  BY <1>4, <1>5, <1>6

LEMMA SpentIsNat ==
  ASSUME Types'
  PROVE  Spent' \in Nat
<1>1. /\ sw' \in Swaps /\ sw'.amount \in Nat /\ sw'.parts \in Nat \ {0} /\ sw'.done \in Nat
  BY FundsAssumption DEF Types, Swaps, FundsAssumption
<1>2. Chunk' \in Nat
  BY <1>1, Quotient DEF Chunk
<1>3. sw'.done * Chunk' \in Nat
  BY <1>1, <1>2, Times
<1> QED
  BY <1>1, <1>3 DEF Spent

\* A step that neither sells nor sends.
Quiet ==
  /\ UNCHANGED <<pending, sw>> /\ log'.sold = log.sold /\ log'.missed = log.missed
  /\ ~Swapping /\ ~Swapping'

OtherSteps ==
  LadderStep \/ ExcessReads \/ UserReads \/ ReadSol \/ ReadUsdc \/ OpenStep
    \/ DecreaseStarts \/ IncBudget \/ IncreaseStep

StartsSwap == ~Swapping /\ \E sell, amount, back : StartSwap(sell, amount, back)
StartsLadder == \E frame \in Frames : StartLadder(frame, "send") \/ StartLadder(frame, "readSol")

LEMMA Otherwise ==
  ASSUME Types, Control, OtherSteps
  PROVE  Quiet \/ StartsSwap \/ StartsLadder \/ SendUnconfirmed
<1>1. f \in Frames /\ f.then \in Thens /\ f.mode \in Modes /\ f.pos \in Positions
      /\ f.free \in Balances /\ liq[f.pos] \in Nat /\ log \in Logs /\ f.units \in Nat
  BY DEF Types, Frames, Chained
<1>2. ~Swapping
  BY DEF OtherSteps, LadderStep, SendConfirmed, SendSlips, SendTooLarge, SendRefused,
         SendUnconfirmed, ExcessReads, UserReads, ReadSol, ReadUsdc, OpenStep, OpenDecides,
         BuySol, OpenBuysUsdc, DecreaseStarts, IncBudget, IncreaseStep, TargetOnlyA,
         TargetOther, TargetFails, FundOnlyB, FundMixed, IncreaseBuysUsdc, Quote, Swapping
<1>3. ASSUME UNCHANGED <<pending, sw, log>>, at' \notin {"swap", "part"}
      PROVE  Quiet
  BY <1>2, <1>3 DEF Quiet, Swapping
<1>4. End => at' = "idle"
  BY DEF End
<1>5. CASE LadderStep
  <2>1. CASE SendConfirmed
    <3>1. log'.sold = log.sold /\ log'.missed = log.missed
      BY <1>1, <2>1, Zenon DEF SendConfirmed, Logs
    <3>2. at' \in {"readSol", "idle"}
      BY <1>4, <2>1 DEF SendConfirmed, LadderEnds
    <3> QED
      BY <1>2, <2>1, <3>1, <3>2 DEF SendConfirmed, Quiet, Swapping
  <2>2. Halve => at' \in {at, "idle"}
    BY <1>4 DEF Halve
  <2> QED
    BY <1>3, <1>4, <1>5, <2>1, <2>2
       DEF LadderStep, SendSlips, SendTooLarge, SendRefused, Here
<1>6. CASE ExcessReads \/ UserReads
  BY <1>2, <1>3, <1>4, <1>6 DEF ExcessReads, UserReads, StartsSwap
<1>7. CASE ReadSol
  BY <1>3, <1>4, <1>7 DEF ReadSol, Here
<1>8. CASE ReadUsdc
  <2>1. log'.sold = log.sold /\ log'.missed = log.missed
    BY <1>1, <1>8, Zenon DEF ReadUsdc, Logs
  <2> QED
    BY <1>1, <1>2, <1>8, <2>1 DEF ReadUsdc, Chain, Quiet, Swapping, Thens
<1>9. CASE OpenStep
  <2>1. CASE OpenDecides
    BY <1>1, <1>3, <1>4, <2>1, LadderFrame DEF OpenDecides, StartsLadder, Kinds
  <2> QED
    BY <1>2, <1>3, <1>4, <1>9, <2>1 DEF OpenStep, BuySol, OpenBuysUsdc, StartsSwap
<1>10. CASE DecreaseStarts
  <2>1. ASSUME NEW pct \in {50, 100},
               StartLadder([Ladder("decrease", f.pos, f.mode, Share(liq[f.pos], pct))
                              EXCEPT !.before = f.free], "send")
        PROVE  StartsLadder
    <3>1. Ladder("decrease", f.pos, f.mode, Share(liq[f.pos], pct)) \in Frames
      BY <1>1, ShareType, LadderFrame DEF Kinds
    <3>2. [Ladder("decrease", f.pos, f.mode, Share(liq[f.pos], pct))
             EXCEPT !.before = f.free] \in Frames
      BY <1>1, <3>1, Zenon DEF Frames
    <3> QED
      BY <2>1, <3>2 DEF StartsLadder
  <2> QED
    BY <1>3, <1>4, <1>10, <2>1 DEF DecreaseStarts
<1>11. CASE IncBudget
  BY <1>3, <1>4, <1>11 DEF IncBudget, Here
<1>12. CASE IncreaseStep
  <2>1. CASE Quote
    BY <1>3, <1>4, <2>1, QuoteIs DEF StartsLadder
  <2>2. CASE TargetOnlyA \/ TargetOther \/ TargetFails \/ FundMixed
    BY <1>2, <1>3, <1>4, <2>2
       DEF TargetOnlyA, TargetOther, TargetFails, FundMixed, Here, StartsSwap
  <2>3. CASE FundOnlyB
    BY <1>2, <1>3, <1>4, <2>3 DEF FundOnlyB, StartsSwap
  <2>4. CASE IncreaseBuysUsdc
    <3>1. AfterFunding \notin {"swap", "part"}
      BY DEF AfterFunding
    <3> QED
      BY <1>2, <1>3, <2>4, <3>1 DEF IncreaseBuysUsdc, StartsSwap
  <2> QED
    BY <1>12, <2>1, <2>2, <2>3, <2>4 DEF IncreaseStep
<1> QED
  BY <1>5, <1>6, <1>7, <1>8, <1>9, <1>10, <1>11, <1>12 DEF OtherSteps

LEMMA UnsettledEmpty ==
  ASSUME Types, pending' = Aged
  PROVE  Unsettled' = {}
BY AgedTypes DEF Types, Chained, Unsettled

\* The inequality with numbers only.
LEMMA SalesFrom ==
  ASSUME Types, Types', IsFiniteSet(Unsettled'), sw'.amount = sw.amount,
         \A s \in Unsettled' : SoldBy(pending'[s]) <= sw.amount,
         NEW missing \in Nat, log'.missed = log.missed + missing,
         Cardinality(Unsettled') <= Cardinality(Unsettled) + missing,
         IsFiniteSet(Unsettled),
         log'.sold + sw.amount * Cardinality(Unsettled) <= sw.amount * log.missed + Spent'
  PROVE  Sales'
<1>1. /\ sw.amount \in Nat /\ log.missed \in Nat /\ log'.sold \in Nat
  BY DEF Types, Swaps, Logs
<1>2. Cardinality(Unsettled) \in Nat /\ Cardinality(Unsettled') \in Nat /\ Spent' \in Nat
  BY SpentIsNat, FS_CardinalityType
<1>3. PICK less \in Nat : Cardinality(Unsettled') + less = Cardinality(Unsettled) + missing
  <2>1. Cardinality(Unsettled) + missing - Cardinality(Unsettled') \in Nat
    BY <1>2
  <2>2. Cardinality(Unsettled') + (Cardinality(Unsettled) + missing - Cardinality(Unsettled'))
          = Cardinality(Unsettled) + missing
    BY <1>2
  <2> QED
    BY <2>1, <2>2
<1> DEFINE old == sw.amount * Cardinality(Unsettled)
           new == sw.amount * Cardinality(Unsettled')
           paid == sw.amount * missing
<1>4. /\ new + sw.amount * less = old + paid /\ sw.amount * less \in Nat
      /\ sw.amount * (log.missed + missing) = sw.amount * log.missed + paid
      /\ new \in Nat /\ old \in Nat /\ paid \in Nat /\ sw.amount * log.missed \in Nat
  <2>1. sw.amount * (Cardinality(Unsettled') + less) = sw.amount * (Cardinality(Unsettled) + missing)
    BY <1>3
  <2>2. sw.amount * (Cardinality(Unsettled') + less) = new + sw.amount * less
    BY <1>1, <1>2
  <2>3. sw.amount * (Cardinality(Unsettled) + missing) = old + paid
    BY <1>1, <1>2
  <2>4. sw.amount * (log.missed + missing) = sw.amount * log.missed + paid
    BY <1>1
  <2> QED
    BY <1>1, <1>2, <2>1, <2>2, <2>3, <2>4, Times
<1> HIDE DEF old, new, paid
<1>5. log'.sold + new <= sw.amount * (log.missed + missing) + Spent'
  BY <1>1, <1>2, <1>4 DEF old
<1> QED
  BY <1>5 DEF Sales, new

\* A step of a swap has sold so much more, or has missed one confirmation.
Sells(n) ==
  /\ pending' = pending /\ log'.sold = log.sold + n /\ log'.missed = log.missed
  /\ Spent + n <= Spent'
MissesSale(n) ==
  /\ n <= sw.amount
  /\ \E s \in Slots : pending' = [pending EXCEPT ![s] = Sale(n, 0)]
  /\ log'.sold = log.sold /\ log'.missed = log.missed + 1
  /\ Spent <= Spent'

LEMMA SwapSells ==
  ASSUME Types, Types', SwapStep
  PROVE  \E n \in Nat : Sells(n) \/ MissesSale(n)
<1>1. /\ sw \in Swaps /\ sw.amount \in Nat /\ sw.done \in Nat /\ sw.parts \in Nat \ {0}
      /\ Chunk \in Nat /\ log \in Logs /\ log.sold \in Nat /\ log.missed \in Nat
      /\ sw.back \in Backs /\ sw'.amount = sw.amount
  BY ChunkType, SwapFates DEF Types, Swaps, Logs
<1>2. /\ Spent \in Nat /\ Spent <= sw.amount
      /\ at = "swap" => Spent = 0
      /\ at = "part" => Spent = sw.done * Chunk /\ (sw.done + 1) * Chunk = Spent + Chunk
                        /\ Spent + Chunk <= sw.amount
  BY SpentBounds DEF Spent
<1>3. at' \notin {"swap", "part"} => Spent' = sw.amount
  BY <1>1 DEF Spent
<1>4. SwapFails \/ SwapSucceeds => Spent' = sw.amount
  BY <1>1, <1>3, EndTypes DEF SwapFails, SwapSucceeds, Backs, Types
<1>5. ASSUME at = "swap", NEW retry, NextStep(retry)
      PROVE  Spent' \in {0, sw.amount}
  BY <1>1, <1>3, <1>5 DEF NextStep, Spent
<1>6. ASSUME Spent' \in {0, sw.amount}, at = "swap", pending' = pending, log' = log
      PROVE  Sells(0)
  BY <1>1, <1>2, <1>6 DEF Sells
<1>7. ASSUME NEW n \in Nat, log' = [log EXCEPT !.sold = @ + n]
      PROVE  log'.sold = log.sold + n /\ log'.missed = log.missed
  BY <1>1, <1>7, Zenon DEF Logs
<1>8. ASSUME log' = [log EXCEPT !.missed = @ + 1, !.disturbed = TRUE]
      PROVE  log'.sold = log.sold /\ log'.missed = log.missed + 1
  BY <1>1, <1>8, Zenon DEF Logs
<1>9. CASE SwapWithoutSale \/ SwapNotBuilt \/ SwapRefused
  BY <1>4, <1>5, <1>6, <1>9 DEF SwapWithoutSale, SwapNotBuilt, SwapRefused, Chain
<1>10. CASE SwapConfirmed
  BY <1>1, <1>2, <1>4, <1>7, <1>10 DEF SwapConfirmed, Sells
<1>11. CASE SwapUnconfirmed
  <2>1. Spent' \in {0, sw.amount} /\ Spent = 0
    BY <1>2, <1>4, <1>5, <1>11 DEF SwapUnconfirmed
  <2>2. log'.sold = log.sold /\ log'.missed = log.missed + 1
    BY <1>8, <1>11 DEF SwapUnconfirmed
  <2>3. \E s \in Slots : pending' = [pending EXCEPT ![s] = Sale(sw.amount, 0)]
    BY <1>11 DEF SwapUnconfirmed, Misses
  <2>4. Spent <= Spent' /\ sw.amount <= sw.amount
    BY <1>1, <2>1
  <2>5. MissesSale(sw.amount)
    BY <2>2, <2>3, <2>4 DEF MissesSale
  <2> QED
    BY <1>1, <2>5
<1>12. CASE SwapSplits
  <2>1. PICK n \in 1..MaxParts : sw' = [sw EXCEPT !.parts = n]
    BY <1>12 DEF SwapSplits
  <2>2. sw'.done = 0 /\ at' = "part"
    BY <1>1, <1>12, <2>1 DEF SwapSplits, Types, Steps, Swaps
  <2>3. sw' \in Swaps /\ Chunk' \in Nat
    BY Quotient, FundsAssumption DEF Types, Swaps, Chunk, FundsAssumption
  <2>4. 0 * Chunk' = 0
    <3>1. \A x \in Nat : 0 * x = 0
      OBVIOUS
    <3> QED
      BY <2>3, <3>1
  <2>5. Spent' = 0
    BY <2>2, <2>4 DEF Spent
  <2> QED
    BY <1>6, <1>12, <2>5 DEF SwapSplits, Chain
<1>13. CASE PartSold
  <2>1. at = "part" /\ pending' = pending /\ log'.sold = log.sold + Chunk
        /\ log'.missed = log.missed
    BY <1>1, <1>7, <1>13 DEF PartSold
  <2>2. CASE sw.done + 1 < sw.parts
    <3>1. sw' = [sw EXCEPT !.done = @ + 1] /\ at' = at
      BY <1>13, <2>2 DEF PartSold
    <3>2. sw'.done = sw.done + 1 /\ sw'.parts = sw.parts
      BY <1>1, <3>1 DEF Swaps
    <3>3. Chunk' = Chunk
      BY <1>1, <3>2 DEF Chunk
    <3>4. Spent' = (sw.done + 1) * Chunk
      BY <2>1, <3>1, <3>2, <3>3 DEF Spent
    <3>5. Spent + Chunk <= Spent'
      BY <1>1, <1>2, <2>1, <3>4
    <3> QED
      BY <1>1, <2>1, <3>5 DEF Sells
  <2>3. CASE ~(sw.done + 1 < sw.parts)
    <3>1. Spent + Chunk <= Spent'
      BY <1>2, <1>4, <1>13, <2>1, <2>3 DEF PartSold
    <3> QED
      BY <1>1, <2>1, <3>1 DEF Sells
  <2> QED
    BY <2>2, <2>3
<1>14. CASE PartFails
  <2>1. Spent' = sw.amount /\ at = "part"
    BY <1>4, <1>14 DEF PartFails
  <2>2. CASE Chain /\ UNCHANGED log
    BY <1>1, <1>2, <2>1, <2>2 DEF Sells, Chain
  <2>3. CASE /\ Misses(Sale(Chunk, 0))
             /\ log' = [log EXCEPT !.missed = @ + 1, !.disturbed = TRUE]
    <3>1. Chunk <= sw.amount
      BY <1>1, <1>2, <2>1
    <3>2. MissesSale(Chunk)
      BY <1>2, <1>8, <2>1, <2>3, <3>1 DEF MissesSale, Misses
    <3> QED
      BY <1>1, <3>2
  <2> QED
    BY <1>14, <2>2, <2>3 DEF PartFails
<1> QED
  BY <1>9, <1>10, <1>11, <1>12, <1>13, <1>14 DEF SwapStep

LEMMA SalesSold ==
  ASSUME Types, Types', Sales, sw'.amount = sw.amount, NEW n \in Nat, Sells(n)
  PROVE  Sales'
<1>1. Unsettled' = Unsettled
  BY DEF Sells, Unsettled
<1>2. /\ sw.amount \in Nat /\ log.missed \in Nat /\ log.sold \in Nat
      /\ Cardinality(Unsettled) \in Nat /\ Spent \in Nat /\ Spent' \in Nat
  BY SpentBounds, SpentIsNat, FS_CardinalityType DEF Sales, Types, Swaps, Logs
<1>3. /\ sw.amount * Cardinality(Unsettled) \in Nat /\ sw.amount * log.missed \in Nat
  BY <1>2, Times
<1>4. log'.sold + sw.amount * Cardinality(Unsettled) <= sw.amount * log.missed + Spent'
  BY <1>2, <1>3 DEF Sales, Sells
<1> QED
  BY <1>1, <1>4 DEF Sales, Sells

LEMMA SalesMissed ==
  ASSUME Types, Types', Sales, sw'.amount = sw.amount, NEW n \in Nat, MissesSale(n)
  PROVE  Sales'
<1>1. PICK s \in Slots : pending' = [pending EXCEPT ![s] = Sale(n, 0)]
  BY DEF MissesSale
<1>2. /\ sw.amount \in Nat /\ log.missed \in Nat /\ log.sold \in Nat
      /\ Cardinality(Unsettled) \in Nat /\ Spent \in Nat /\ Spent' \in Nat
  BY SpentBounds, SpentIsNat, FS_CardinalityType DEF Sales, Types, Swaps, Logs
<1>3. SoldBy(Sale(n, 0)) = n
  BY SaleTypes DEF Types
<1>4. \A t \in Slots : pending'[t] = IF t = s THEN Sale(n, 0) ELSE pending[t]
  BY <1>1 DEF Types, Chained
<1>5. Unsettled' \subseteq Unsettled \cup {s}
  BY <1>4 DEF Unsettled
<1>6. IsFiniteSet(Unsettled \cup {s}) /\ Cardinality(Unsettled \cup {s}) <= Cardinality(Unsettled) + 1
  <2>1. /\ IsFiniteSet(Unsettled \cup {s})
        /\ Cardinality(Unsettled \cup {s}) =
             IF s \in Unsettled THEN Cardinality(Unsettled) ELSE Cardinality(Unsettled) + 1
    <3>1. IsFiniteSet(Unsettled)
      BY DEF Sales
    <3> QED
      BY <3>1, FS_AddElement, Zenon
  <2> QED
    BY <1>2, <2>1
<1>7. /\ IsFiniteSet(Unsettled') /\ Cardinality(Unsettled') <= Cardinality(Unsettled \cup {s})
      /\ Cardinality(Unsettled') \in Nat /\ Cardinality(Unsettled \cup {s}) \in Nat
  BY <1>5, <1>6, FS_Subset, FS_CardinalityType
<1>8. Cardinality(Unsettled') <= Cardinality(Unsettled) + 1
  BY <1>2, <1>6, <1>7
<1>9. \A t \in Unsettled' : SoldBy(pending'[t]) <= sw.amount
  BY <1>3, <1>4 DEF Unsettled, Sales, MissesSale
<1>10. /\ sw.amount * Cardinality(Unsettled) \in Nat /\ sw.amount * log.missed \in Nat
  BY <1>2, Times
<1>11. log'.sold + sw.amount * Cardinality(Unsettled) <= sw.amount * log.missed + Spent'
  BY <1>2, <1>10 DEF Sales, MissesSale
<1>12. log'.missed = log.missed + 1 /\ 1 \in Nat /\ IsFiniteSet(Unsettled)
  BY DEF MissesSale, Sales
<1> QED
  BY <1>7, <1>8, <1>9, <1>11, <1>12, SalesFrom

\* Nothing of the new swap, or of none, is pending.
LEMMA SalesAnew ==
  ASSUME Types, Types', pending' = Aged, log'.sold = 0
  PROVE  Sales'
<1>1. Unsettled' = {}
  BY UnsettledEmpty
<1>2. sw'.amount \in Nat /\ log'.missed \in Nat /\ Spent' \in Nat
  BY SpentIsNat DEF Types, Swaps, Logs
<1>3. Cardinality(Unsettled') = 0 /\ IsFiniteSet(Unsettled')
  BY <1>1, FS_EmptySet
<1>4. sw'.amount * log'.missed \in Nat /\ sw'.amount * 0 = 0
  BY <1>2, Times
<1>5. log'.sold + sw'.amount * Cardinality(Unsettled') <= sw'.amount * log'.missed + Spent'
  BY <1>2, <1>3, <1>4
<1> QED
  BY <1>1, <1>3, <1>5 DEF Sales

LEMMA SalesStep ==
  ASSUME Types, Types', Control, Sales, Step
  PROVE  Sales'
<1>1. CASE SwapStep
  BY <1>1, SwapFates, SwapSells, SalesSold, SalesMissed
<1>2. CASE OtherSteps
  <2>1. CASE Quiet
    <3>1. /\ pending' = pending /\ sw' = sw /\ log'.sold = log.sold /\ log'.missed = log.missed
          /\ Spent' = sw.amount /\ Spent = sw.amount
      BY <2>1 DEF Quiet, Spent, Swapping
    <3>2. sw.amount \in Nat /\ log.sold \in Nat
      BY DEF Types, Swaps, Logs
    <3>3. Sells(0)
      BY <3>1, <3>2 DEF Sells
    <3> QED
      BY <3>1, <3>3, SalesSold
  <2>2. CASE StartsSwap
    <3>1. pending' = Aged /\ log' = [log EXCEPT !.sold = 0, !.missed = 0]
      BY <2>2 DEF StartsSwap, StartSwap
    <3>2. log'.sold = 0
      BY <3>1 DEF Types, Logs
    <3> QED
      BY <3>1, <3>2, SalesAnew
  <2>3. CASE StartsLadder
    <3>1. pending' = Aged /\ log' = [log EXCEPT !.moved = 0, !.sold = 0, !.missed = 0]
      BY <2>3 DEF StartsLadder, StartLadder
    <3>2. log'.sold = 0
      BY <3>1 DEF Types, Logs
    <3> QED
      BY <3>1, <3>2, SalesAnew
  <2>4. CASE SendUnconfirmed
    <3>1. PICK mode \in Modes, s \in Slots : pending' = [pending EXCEPT ![s] = Moved(mode)]
                                               /\ pending[s] = Nothing
      BY <2>4, OutcomeModes DEF SendUnconfirmed, Misses
    <3>2. SoldBy(Moved(mode)) = 0
      BY MovedTypes
    <3>3. \A t \in Slots : pending'[t] = IF t = s THEN Moved(mode) ELSE pending[t]
      BY <3>1 DEF Types, Chained
    <3>4. \A t \in Unsettled : t # s
      BY <3>1 DEF Unsettled, Nothing
    <3>5. Unsettled' = Unsettled /\ \A t \in Unsettled : pending'[t] = pending[t]
      BY <3>2, <3>3, <3>4 DEF Unsettled
    <3>6. log'.sold = log.sold /\ log'.missed = log.missed
      BY <2>4, Zenon DEF SendUnconfirmed, Types, Logs
    <3>7. sw' = sw /\ Spent' = Spent
      <4>1. at = "send" /\ at' = "idle" /\ sw' = sw
        BY <2>4 DEF SendUnconfirmed, End
      <4> QED
        BY <4>1 DEF Spent
    <3> QED
      BY <3>5, <3>6, <3>7 DEF Sales
  <2> QED
    BY <1>2, <2>1, <2>2, <2>3, <2>4, Otherwise
<1> QED
  BY <1>1, <1>2 DEF Step, OtherSteps

LEMMA SalesCall ==
  ASSUME Types, Types', Calls
  PROVE  Sales'
<1>1. pending' = Aged /\ log' = NoLog
  BY DEF Calls, CallExcess, CallUser, CallOpen, CallDecrease, CallIncrease, CallInc, Begin
<1> QED
  BY <1>1, SalesAnew DEF NoLog

LEMMA SalesSettle ==
  ASSUME Types, Types', Sales, NEW s \in Slots, Settle(s)
  PROVE  Sales'
<1>1. /\ sw' = sw /\ at' = at /\ sw.amount \in Nat /\ log.missed \in Nat /\ log.sold \in Nat
      /\ Cardinality(Unsettled) \in Nat /\ log \in Logs /\ IsFiniteSet(Unsettled)
  BY FS_CardinalityType DEF Sales, Types, Swaps, Logs, Settle
<1>2. Spent' = Spent /\ Spent \in Nat
  BY <1>1, SpentBounds DEF Spent, Chunk
<1>3. \A t \in Slots : pending'[t] = IF t = s THEN Nothing ELSE pending[t]
  BY DEF Settle, Types, Chained
<1>4. Unsettled' = Unsettled \ {s}
  BY <1>3 DEF Unsettled, Nothing
<1>5. \A t \in Unsettled' : SoldBy(pending'[t]) <= sw.amount
  <2>1. \A t \in Unsettled' : t \in Unsettled /\ pending'[t] = pending[t]
    BY <1>3, <1>4 DEF Unsettled
  <2> QED
    BY <2>1, Zenon DEF Sales
<1>6. IsFiniteSet(Unsettled')
  BY <1>1, <1>4, FS_RemoveElement
<1>7. sw.amount * log.missed \in Nat /\ sw.amount * Cardinality(Unsettled) \in Nat
  BY <1>1, Times
<1>8. /\ log'.missed = log.missed
      /\ \/ log'.sold = log.sold
         \/ pending[s].current /\ log'.sold = log.sold + SoldBy(pending[s])
  <2>1. CASE log' = log
    BY <2>1
  <2>2. CASE log' = [log EXCEPT
                      !.disturbed = TRUE,
                      !.sold = IF pending[s].current THEN @ + SoldBy(pending[s]) ELSE @,
                      !.moved = IF pending[s].current THEN @ + Magnitude(pending[s].units)
                                                      ELSE @]
    <3>1. log'.sold = IF pending[s].current THEN log.sold + SoldBy(pending[s]) ELSE log.sold
      BY <1>1, <2>2, Zenon DEF Logs
    <3>2. log'.missed = log.missed
      BY <1>1, <2>2, Zenon DEF Logs
    <3> QED
      BY <3>1, <3>2
  <2> QED
    BY <2>1, <2>2 DEF Settle
<1>9. CASE s \in Unsettled
  <2>1. /\ SoldBy(pending[s]) \in Nat /\ SoldBy(pending[s]) <= sw.amount
    BY <1>9 DEF Unsettled, Sales, Types, Chained, Transactions
  <2>2. PICK rest \in Nat : Cardinality(Unsettled') = rest /\ Cardinality(Unsettled) = rest + 1
    BY <1>1, <1>4, <1>6, <1>9, FS_RemoveElement, FS_CardinalityType
  <2>3. sw.amount * (rest + 1) = sw.amount * rest + sw.amount /\ sw.amount * rest \in Nat
    BY <1>1, Times
  <2>4. log'.sold + sw.amount * rest <= sw.amount * log.missed + Spent
    BY <1>1, <1>2, <1>7, <1>8, <2>1, <2>2, <2>3 DEF Sales
  <2> QED
    BY <1>1, <1>2, <1>5, <1>6, <1>8, <2>2, <2>4 DEF Sales
<1>10. CASE s \notin Unsettled
  <2>1. Unsettled' = Unsettled
    BY <1>4, <1>10
  <2>2. pending[s].current => SoldBy(pending[s]) = 0
    BY <1>10 DEF Unsettled
  <2>3. log'.sold = log.sold
    BY <1>1, <1>8, <2>2
  <2> QED
    BY <1>1, <1>2, <1>5, <1>6, <1>8, <2>1, <2>3 DEF Sales
<1> QED
  BY <1>9, <1>10

LEMMA SalesAlways == FundsSpec => [](Types /\ Sales)
<1>1. FundsInit => Sales
  <2> SUFFICES ASSUME FundsInit PROVE Sales
    OBVIOUS
  <2>1. Unsettled = {}
    BY DEF FundsInit, Unsettled, Nothing
  <2>2. log.sold = 0 /\ log.missed = 0 /\ sw.amount = 0 /\ Spent = 0
    BY DEF FundsInit, NoLog, NoSwap, Spent
  <2>3. IsFiniteSet(Unsettled) /\ Cardinality(Unsettled) = 0
    BY <2>1, FS_EmptySet
  <2> QED
    BY <2>1, <2>2, <2>3 DEF Sales
<1>2. Types /\ Control /\ Sales /\ [FundsNext]_vars => Sales'
  <2> SUFFICES ASSUME Types, Types', Control, Sales, [FundsNext]_vars PROVE Sales'
    BY NextTypes
  <2>1. CASE UNCHANGED vars
    BY <2>1 DEF vars, Sales, Unsettled, Spent, Chunk
  <2>2. CASE Step
    BY <2>2, SalesStep
  <2>3. CASE Calls
    BY <2>3, SalesCall
  <2>4. CASE OthersMove
    <3>1. log'.sold = log.sold /\ log'.missed = log.missed
      BY <2>4, Zenon DEF OthersMove, Types, Logs
    <3> QED
      BY <2>4, <3>1 DEF OthersMove, Sales, Unsettled, Spent, Chunk
  <2>5. CASE \E s \in Slots : Settle(s)
    BY <2>5, SalesSettle
  <2> QED
    BY <2>1, <2>2, <2>3, <2>4, <2>5 DEF FundsNext
<1> QED
  BY <1>1, <1>2, ControlAlways, NextTypes, PTL DEF FundsSpec

\* execute_swap_tokens (swap.rs): whatever the steps, parts and late landings,
\* a swap sells its amount once, and once more for each confirmation it missed.
THEOREM SwapSellsOncePerMiss == FundsSpec => []SoldOncePerMiss
<1>1. Types /\ Sales => SoldOncePerMiss
  <2> SUFFICES ASSUME Types, Sales PROVE SoldOncePerMiss
    OBVIOUS
  <2>1. /\ sw.amount \in Nat /\ log.missed \in Nat /\ log.sold \in Nat
        /\ Cardinality(Unsettled) \in Nat /\ Spent \in Nat /\ Spent <= sw.amount
    BY SpentBounds, FS_CardinalityType DEF Sales, Types, Swaps, Logs
  <2>2. sw.amount * Cardinality(Unsettled) \in Nat /\ sw.amount * log.missed \in Nat
    BY <2>1, Times
  <2>3. log.sold <= sw.amount * log.missed + sw.amount
    BY <2>1, <2>2 DEF Sales
  <2>4. sw.amount * (1 + log.missed) = sw.amount * log.missed + sw.amount
    BY <2>1
  <2> QED
    BY <2>3, <2>4 DEF SoldOncePerMiss
<1> QED
  BY <1>1, SalesAlways, PTL

-----------------------------------------------------------------------------
(***************************************************************************)
(* What the wallet keeps.  These facts hold as long as nothing moves funds *)
(* behind the operation's back.                                            *)
(***************************************************************************)

\* A step stays with its operation, and a disturbance is not forgotten.
LEMMA SameOperation ==
  ASSUME Types, Control, Step
  PROVE  f'.op = f.op
<1>1. f \in Frames
  BY DEF Types
<1>2. End => f'.op = f.op
  BY <1>1, EndFrame
<1>3. CASE SwapStep
  <2>1. f' = [f EXCEPT !.attempt = @ + 1] => f'.op = f.op
    BY <1>1 DEF Frames
  <2> QED
    BY <1>2, <1>3, <2>1, SwapFates
       DEF SwapLeaves, SwapStays, SwapReturns, SwapRepeats, SwapPanics
<1>4. CASE LadderStep
  <2>1. Halve => f'.op = f.op
    BY <1>1, <1>2 DEF Halve, Frames
  <2>2. LadderEnds => f'.op = f.op
    BY <1>1, <1>2 DEF LadderEnds, Frames
  <2>3. f' = [f EXCEPT !.step = @ + 1] => f'.op = f.op
    BY <1>1 DEF Frames
  <2> QED
    BY <1>2, <1>4, <2>1, <2>2, <2>3
       DEF LadderStep, SendConfirmed, SendSlips, SendTooLarge, SendRefused, SendUnconfirmed
<1>5. CASE ExcessReads \/ UserReads \/ ReadSol \/ ReadUsdc
  BY <1>1, <1>2, <1>5 DEF ExcessReads, UserReads, ReadSol, ReadUsdc, Frames
<1>6. CASE OpenStep
  <2>1. ASSUME NEW p \in Positions, StartLadder(Ladder("open", p, f.mode, 1), "send")
        PROVE  f'.op = f.op
    BY <1>1, <2>1, LadderIs DEF StartLadder
  <2>2. f' = [f EXCEPT !.attempt = @ + 1] => f'.op = f.op
    BY <1>1 DEF Frames
  <2> QED
    BY <1>2, <1>6, <2>1, <2>2 DEF OpenStep, OpenDecides, BuySol, OpenBuysUsdc
<1>7. CASE DecreaseStarts
  <2>1. ASSUME NEW pct, StartLadder([Ladder("decrease", f.pos, f.mode, Share(liq[f.pos], pct))
                                       EXCEPT !.before = f.free], "send")
        PROVE  f'.op = f.op
    BY <1>1, <2>1 DEF StartLadder, Ladder, Frames
  <2> QED
    BY <1>2, <1>7, <2>1 DEF DecreaseStarts
<1>8. CASE IncBudget
  <2>1. CASE f' = [f EXCEPT !.budget = Freed.usdc + Freed.sol * Price,
                            !.free = Coins(0, 0), !.before = Coins(0, 0)]
    BY <1>1, <2>1 DEF Frames
  <2> QED
    BY <1>2, <1>8, <2>1 DEF IncBudget
<1>9. CASE IncreaseStep
  <2>1. CASE Quote
    BY <1>2, <2>1, QuoteIs DEF StartLadder
  <2>2. CASE TargetFails \/ FundOnlyB \/ FundMixed
    BY <1>2, <2>2 DEF TargetFails, FundOnlyB, FundMixed
  <2> QED
    BY <1>9, <2>1, <2>2, TargetIs, Funding DEF IncreaseStep
<1> QED
  BY <1>3, <1>4, <1>5, <1>6, <1>7, <1>8, <1>9 DEF Step

\* With its buffer, which grows with the attempts.
LEMMA KeptBounds ==
  ASSUME Types
  PROVE  Kept \in Nat /\ Kept >= Keep + FeeBuffer
<1>1. f.attempt \in Nat /\ f.attempt >= 1 /\ FeeBuffer \in Nat /\ Keep \in Nat
  BY FundsAssumption DEF Types, Frames, FundsAssumption
<1>2. PICK more \in Nat : f.attempt = 1 + more
  <2>1. f.attempt - 1 \in Nat /\ f.attempt = 1 + (f.attempt - 1)
    BY <1>1
  <2> QED
    BY <2>1
<1>3. FeeBuffer * (1 + more) = FeeBuffer + FeeBuffer * more /\ FeeBuffer * more \in Nat
  BY <1>1, Times
<1> QED
  BY <1>1, <1>2, <1>3 DEF Kept

\* While the excess is swapped, what is not yet sold is all above the buffer.
Excess ==
  f.op = "excess" /\ ~log.disturbed =>
    /\ at = "swap" => wallet.sol = sw.amount + Kept
    /\ at = "part" => wallet.sol + sw.done * Chunk = sw.amount + Kept
    /\ log.sold > 0 => wallet.sol >= Keep + FeeBuffer

LEMMA ExcessSwaps ==
  ASSUME Types, Types', Control, Excess, SwapStep, f.op = "excess", ~log'.disturbed
  PROVE  Excess'
<1>1. /\ sw \in Swaps /\ sw.amount \in Nat /\ sw.done \in Nat /\ sw.parts \in Nat \ {0}
      /\ Chunk \in Nat /\ log \in Logs /\ log.sold \in Nat /\ f \in Frames
      /\ wallet \in Balances /\ wallet.sol \in Nat /\ Keep \in Nat /\ FeeBuffer \in Nat
      /\ sw.sell = "sol" /\ sw.back = "idle" /\ Swapping /\ sw'.amount = sw.amount
  BY ChunkType, SwapFates, FundsAssumption
     DEF Types, Swaps, Logs, Chained, Balances, Control, FundsAssumption
<1>2. Kept \in Nat /\ Kept >= Keep + FeeBuffer
  BY KeptBounds
<1>3. SwapFails \/ SwapSucceeds => at' \in {"idle", "start"}
  BY <1>1, EndTypes DEF SwapFails, SwapSucceeds
<1>4. f' = f => Kept' = Kept
  BY DEF Kept
<1>5. ASSUME UNCHANGED <<wallet, log>>
      PROVE  log'.sold > 0 => wallet'.sol >= Keep + FeeBuffer
  BY <1>5 DEF Excess
<1>6. ASSUME UNCHANGED <<wallet, log>>, at' \notin {"swap", "part"}
      PROVE  Excess'
  BY <1>5, <1>6 DEF Excess
<1>7. ASSUME at = "swap", NEW retry, NextStep(retry), UNCHANGED <<wallet, log>>
      PROVE  Excess'
  <2>1. at' # "panicked" => at' = "swap" /\ f' = f
    BY <1>7 DEF NextStep
  <2>2. CASE at' = "panicked"
    BY <1>6, <1>7, <2>2
  <2>3. CASE at' = "swap" /\ f' = f
    BY <1>1, <1>4, <1>5, <1>7, <2>3 DEF Excess
  <2> QED
    BY <2>1, <2>2, <2>3
<1>8. ASSUME NEW n \in Nat, NEW loss \in {0, 1}, Lands(Sale(n, loss))
      PROVE  wallet'.sol = wallet.sol - n
  <2>1. Sale(n, loss).sol = -n
    BY <1>1 DEF Sale, Nothing
  <2> QED
    BY <1>1, <1>8, <2>1 DEF Lands, Coins
<1>9. CASE SwapWithoutSale \/ SwapNotBuilt \/ SwapRefused
  BY <1>3, <1>6, <1>7, <1>9 DEF SwapWithoutSale, SwapNotBuilt, SwapRefused, Chain
<1>10. CASE SwapConfirmed
  <2>1. wallet.sol = sw.amount + Kept
    <3>1. log'.disturbed = log.disturbed
      BY <1>1, <1>10, Zenon DEF SwapConfirmed, Logs
    <3> QED
      BY <1>10, <3>1 DEF SwapConfirmed, Excess
  <2>2. wallet'.sol = wallet.sol - sw.amount
    BY <1>1, <1>8, <1>10 DEF SwapConfirmed
  <2>3. wallet'.sol >= Keep + FeeBuffer
    BY <1>1, <1>2, <2>1, <2>2
  <2> QED
    BY <1>3, <1>10, <2>3 DEF SwapConfirmed, Excess
<1>11. CASE SwapUnconfirmed
  <2>1. log'.disturbed = TRUE
    BY <1>1, <1>11, Zenon DEF SwapUnconfirmed, Logs
  <2> QED
    BY <2>1
<1>12. CASE SwapSplits
  <2>1. PICK n \in 1..MaxParts : sw' = [sw EXCEPT !.parts = n]
    BY <1>12 DEF SwapSplits
  <2>2. sw'.done = 0 /\ at' = "part" /\ at = "swap" /\ f' = f /\ UNCHANGED <<wallet, log>>
    BY <1>1, <1>12, <2>1 DEF SwapSplits, Types, Steps, Swaps, Chain
  <2>3. Chunk' \in Nat
    BY Quotient, FundsAssumption DEF Types, Swaps, Chunk, FundsAssumption
  <2>4. sw'.done * Chunk' = 0
    <3>1. \A x \in Nat : 0 * x = 0
      OBVIOUS
    <3> QED
      BY <2>2, <2>3, <3>1
  <2>5. wallet.sol = sw.amount + Kept
    BY <2>2 DEF Excess
  <2>6. wallet'.sol + sw'.done * Chunk' = sw'.amount + Kept'
    BY <1>1, <1>2, <1>4, <2>2, <2>4, <2>5
  <2> QED
    BY <1>5, <2>2, <2>6 DEF Excess
<1>13. CASE PartSold
  <2>1. PICK loss \in {0, 1} : Lands(Sale(Chunk, loss))
    BY <1>13 DEF PartSold
  <2>2. wallet'.sol = wallet.sol - Chunk
    BY <1>1, <1>8, <2>1
  <2>3. log'.disturbed = log.disturbed
    BY <1>1, <1>13, Zenon DEF PartSold, Logs
  <2>4. wallet.sol + sw.done * Chunk = sw.amount + Kept
    BY <1>13, <2>3 DEF PartSold, Excess
  <2>5. /\ (sw.done + 1) * Chunk = sw.done * Chunk + Chunk /\ (sw.done + 1) * Chunk <= sw.amount
        /\ sw.done * Chunk \in Nat
    BY <1>1, <1>13, SpentBounds, Times DEF PartSold
  <2>6. wallet'.sol >= Keep + FeeBuffer
    BY <1>1, <1>2, <2>2, <2>4, <2>5
  <2>7. CASE sw.done + 1 < sw.parts
    <3>1. sw' = [sw EXCEPT !.done = @ + 1] /\ at' = "part" /\ f' = f
      BY <1>13, <2>7 DEF PartSold
    <3>2. sw'.done = sw.done + 1 /\ sw'.parts = sw.parts
      BY <1>1, <3>1 DEF Swaps
    <3>3. Chunk' = Chunk
      BY <1>1, <3>2 DEF Chunk
    <3>4. sw'.done * Chunk' = sw.done * Chunk + Chunk
      BY <2>5, <3>2, <3>3
    <3>5. wallet'.sol + sw'.done * Chunk' = sw'.amount + Kept'
      BY <1>1, <1>2, <1>4, <2>2, <2>4, <2>5, <3>1, <3>4
    <3> QED
      BY <2>6, <3>1, <3>5 DEF Excess
  <2>8. CASE ~(sw.done + 1 < sw.parts)
    BY <1>3, <1>13, <2>6, <2>8 DEF PartSold, Excess
  <2> QED
    BY <2>7, <2>8
<1>14. CASE PartFails
  <2>1. CASE Chain /\ UNCHANGED log
    BY <1>3, <1>6, <1>14, <2>1 DEF PartFails, Chain
  <2>2. CASE log' = [log EXCEPT !.missed = @ + 1, !.disturbed = TRUE]
    <3>1. log'.disturbed = TRUE
      BY <1>1, <2>2, Zenon DEF Logs
    <3> QED
      BY <3>1
  <2> QED
    BY <1>14, <2>1, <2>2 DEF PartFails
<1> QED
  BY <1>9, <1>10, <1>11, <1>12, <1>13, <1>14 DEF SwapStep

LEMMA ExcessStep ==
  ASSUME Types, Types', Control, Control', Excess, Step
  PROVE  Excess'
<1>1. f'.op = f.op
  BY SameOperation
<1> SUFFICES ASSUME f.op = "excess", ~log'.disturbed PROVE Excess'
  BY <1>1 DEF Excess
<1>2. at \in {"idle", "start", "swap", "part", "panicked"}
  BY DEF Control
<1>3. CASE SwapStep
  BY <1>3, ExcessSwaps
<1>4. CASE ExcessReads
  <2>1. wallet' = wallet
    BY <1>4 DEF ExcessReads
  <2>2. CASE wallet.sol > Kept /\ StartSwap("sol", wallet.sol - Kept, "idle") /\ UNCHANGED f
    <3>1. sw'.amount = wallet.sol - Kept /\ at' = "swap"
      BY <2>2, SwapIs
    <3>2. log'.sold = 0
      BY <2>2 DEF StartSwap, Types, Logs
    <3>3. wallet.sol \in Nat /\ Kept \in Nat /\ Kept' = Kept
      BY <2>2, KeptBounds DEF Types, Chained, Balances, Kept
    <3>4. wallet'.sol = sw'.amount + Kept'
      BY <2>1, <3>1, <3>3
    <3> QED
      BY <3>1, <3>2, <3>4 DEF Excess
  <2>3. CASE UNCHANGED log /\ at' \in {"idle", "start"}
    BY <2>1, <2>3 DEF Excess
  <2>4. End => at' = "idle"
    BY DEF End
  <2> QED
    BY <1>4, <2>2, <2>3, <2>4 DEF ExcessReads
<1>5. CASE Step /\ ~SwapStep /\ ~ExcessReads
  <2>1. at \notin {"idle", "start", "swap", "part", "panicked"} \/ f.op # "excess"
    BY <1>5 DEF Step, LadderStep, SendConfirmed, SendSlips, SendTooLarge, SendRefused,
         SendUnconfirmed, UserReads, ReadSol, ReadUsdc, OpenStep, OpenDecides,
         BuySol, OpenBuysUsdc, DecreaseStarts, IncBudget, IncreaseStep, TargetOnlyA,
         TargetOther, TargetFails, FundOnlyB, FundMixed, IncreaseBuysUsdc, Quote
  <2> QED
    BY <1>2, <2>1
<1> QED
  BY <1>3, <1>4, <1>5

\* A call begins anew; what settles or is moved by others is a disturbance.
LEMMA Undisturbed ==
  ASSUME Types, OthersMove \/ \E s \in Slots : Settle(s), ~log'.disturbed
  PROVE  UNCHANGED <<wallet, liq, at, f, sw, log>>
<1>1. CASE OthersMove
  <2>1. log'.disturbed = TRUE
    BY <1>1, Zenon DEF OthersMove, Types, Logs
  <2> QED
    BY <2>1
<1>2. ASSUME NEW s \in Slots, Settle(s)
      PROVE  UNCHANGED <<wallet, liq, at, f, sw, log>>
  <2>1. CASE log' = [log EXCEPT
                      !.disturbed = TRUE,
                      !.sold = IF pending[s].current THEN @ + SoldBy(pending[s]) ELSE @,
                      !.moved = IF pending[s].current THEN @ + Magnitude(pending[s].units)
                                                      ELSE @]
    <3>1. log'.disturbed = TRUE
      BY <2>1, Zenon DEF Types, Logs
    <3> QED
      BY <3>1
  <2> QED
    BY <1>2, <2>1 DEF Settle
<1> QED
  BY <1>1, <1>2

LEMMA ExcessAlways == FundsSpec => [](Types /\ Control /\ Excess)
<1>1. FundsInit => Excess
  BY DEF FundsInit, NoFrame, Excess
<1>2. Types /\ Control /\ Excess /\ [FundsNext]_vars => Excess'
  <2> SUFFICES ASSUME Types, Types', Control, Control', Excess, [FundsNext]_vars PROVE Excess'
    BY NextTypes, NextControl
  <2>1. CASE UNCHANGED vars
    BY <2>1 DEF vars, Excess, Chunk, Kept
  <2>2. CASE Step
    BY <2>2, ExcessStep
  <2>3. CASE Calls
    <3>1. at' \notin {"swap", "part"} /\ log' = NoLog
      BY <2>3 DEF Calls, CallExcess, CallUser, CallOpen, CallDecrease, CallIncrease, CallInc,
                  Begin
    <3> QED
      BY <3>1 DEF Excess, NoLog
  <2>4. CASE OthersMove \/ \E s \in Slots : Settle(s)
    <3>1. CASE log'.disturbed
      BY <3>1 DEF Excess
    <3>2. CASE ~log'.disturbed
      BY <2>4, <3>2, Undisturbed DEF Excess, Chunk, Kept
    <3> QED
      BY <3>1, <3>2
  <2> QED
    BY <2>1, <2>2, <2>3, <2>4 DEF FundsNext
<1> QED
  BY <1>1, <1>2, ControlAlways, NextTypes, PTL DEF FundsSpec

\* swap_excess_to_usdc (utils.rs): over all its attempts the wallet keeps
\* keep_amount and the buffer, unless funds moved behind its back.
THEOREM ExcessKeeps == FundsSpec => []ExcessKeepsBuffer
<1>1. Excess => ExcessKeepsBuffer
  BY DEF Excess, ExcessKeepsBuffer
<1> QED
  BY <1>1, ExcessAlways, PTL

\* What an opening has read is there, and when it is sent its needs are.
Covered ==
  ~log.disturbed =>
    /\ at = "readUsdc" => f.free.sol <= wallet.sol
    /\ at = "decide" => f.free.sol <= wallet.sol /\ f.free.usdc <= wallet.usdc
    /\ at = "send" /\ f.kind = "open"
         => f.need.sol <= wallet.sol /\ f.need.usdc <= wallet.usdc

LEMMA CoveredReads ==
  ASSUME Types, Covered, ReadSol \/ ReadUsdc
  PROVE  Covered'
<1>1. /\ f \in Frames /\ f.then \in Thens /\ f.free \in Balances /\ f.free.sol \in Nat
      /\ f.free.usdc \in Nat /\ log \in Logs
      /\ wallet.sol \in Nat /\ wallet.usdc \in Nat /\ wallet' = wallet
  BY DEF Types, Frames, Balances, Chained, ReadSol, ReadUsdc, Here, Chain
<1>2. End => at' = "idle"
  BY DEF End
<1>3. CASE ReadSol
  <2>1. CASE f' = [f EXCEPT !.free.sol = SolSeen] /\ at' = "readUsdc"
    <3>1. f'.free.sol = SolSeen
      BY <1>1, <2>1 DEF Frames, Balances
    <3>2. SolSeen <= wallet.sol
      <4>1. Monus(wallet.sol, Reserve) <= wallet.sol
        BY <1>1, FundsAssumption DEF Monus, FundsAssumption
      <4> QED
        BY <1>1, <4>1 DEF SolSeen
    <3> QED
      BY <1>1, <2>1, <3>1, <3>2 DEF Covered
  <2> QED
    BY <1>2, <1>3, <2>1 DEF ReadSol, Covered
<1>4. CASE ReadUsdc
  <2>1. PICK seen \in {wallet.usdc, 0} : f' = [f EXCEPT !.free.usdc = seen]
    BY <1>4 DEF ReadUsdc
  <2>2. f'.free.sol = f.free.sol /\ f'.free.usdc = seen
    BY <1>1, <2>1 DEF Frames, Balances
  <2>3. log'.disturbed = log.disturbed
    BY <1>1, <1>4, Zenon DEF ReadUsdc, Logs
  <2>4. at = "readUsdc" /\ at' = f.then
    BY <1>4 DEF ReadUsdc
  <2>5. ~log.disturbed => f'.free.sol <= wallet'.sol /\ f'.free.usdc <= wallet'.usdc
    BY <1>1, <2>2, <2>4 DEF Covered
  <2> QED
    BY <1>1, <2>3, <2>4, <2>5 DEF Covered, Thens
<1> QED
  BY <1>3, <1>4

LEMMA CoveredOpens ==
  ASSUME Types, Covered, OpenStep
  PROVE  Covered'
<1>1. /\ f \in Frames /\ f.mode \in Modes /\ f.free \in Balances /\ f.free.sol \in Nat
      /\ f.free.usdc \in Nat /\ log \in Logs /\ f.need \in Balances /\ f.need.sol \in Nat
      /\ f.need.usdc \in Nat /\ wallet.sol \in Nat /\ wallet.usdc \in Nat
      /\ wallet' = wallet
  BY DEF Types, Frames, Balances, Chained, OpenStep, OpenDecides, BuySol, OpenBuysUsdc
<1>2. End => at' = "idle"
  BY DEF End
<1>3. ASSUME ~LacksSol, ~LacksUsdc, at = "decide", NEW p \in Positions,
             StartLadder(Ladder("open", p, f.mode, 1), "send")
      PROVE  Covered'
  <2>1. f'.need = f.need /\ at' = "send"
    BY <1>1, <1>3, LadderIs DEF StartLadder
  <2>2. log'.disturbed = log.disturbed
    BY <1>1, <1>3, Zenon DEF StartLadder, Logs
  <2>3. f.need.sol <= f.free.sol /\ f.need.usdc <= f.free.usdc
    BY <1>1, <1>3 DEF LacksSol, LacksUsdc
  <2> QED
    BY <1>1, <1>3, <2>1, <2>2, <2>3 DEF Covered
<1>4. at' \notin {"readUsdc", "decide", "send"} => Covered'
  BY DEF Covered
<1> QED
  BY <1>2, <1>3, <1>4, SwapIs DEF OpenStep, OpenDecides, BuySol, OpenBuysUsdc

LEMMA CoveredStep ==
  ASSUME Types, Types', Control, Ladders, Covered, Step
  PROVE  Covered'
<1>1. f \in Frames /\ log \in Logs
  BY DEF Types
<1>2. End => at' = "idle"
  BY DEF End
<1>3. at' \notin {"readUsdc", "decide", "send"} => Covered'
  BY DEF Covered
<1>4. at' = "send" /\ f'.kind # "open" => Covered'
  BY DEF Covered
<1>5. CASE SwapStep
  <2>1. Swapping /\ SwapLeaves /\ sw.back \in Backs
    BY <1>5, SwapFates DEF Types, Swaps
  <2>2. Swapping /\ sw.back = "send" => f.kind = "increase"
    BY DEF Ladders, Second, Control
  <2> QED
    BY <1>2, <1>3, <1>4, <2>1, <2>2
       DEF SwapLeaves, SwapStays, SwapReturns, SwapRepeats, SwapPanics, Backs
<1>6. CASE LadderStep
  <2>1. CASE at' = "send" /\ f'.kind = "open"
    <3>1. f'.need = f.need /\ UNCHANGED <<wallet, log>> /\ at = "send" /\ f.kind = "open"
      <4>1. CASE SendConfirmed
        BY <1>2, <2>1, <4>1 DEF SendConfirmed, LadderEnds
      <4>2. CASE Halve
        BY <1>1, <1>2, <2>1, <4>2, HalveFrame DEF Halve
      <4>3. CASE f' = [f EXCEPT !.step = @ + 1] /\ UNCHANGED at /\ Here
        BY <1>1, <2>1, <4>3 DEF Frames, Here
      <4> QED
        BY <1>2, <1>6, <2>1, <4>1, <4>2, <4>3
           DEF LadderStep, SendSlips, SendTooLarge, SendRefused, SendUnconfirmed
    <3> QED
      BY <2>1, <3>1 DEF Covered
  <2>2. at' \in {"idle", "readSol", "send"}
    <3>1. Halve => at' \in {at, "idle"}
      BY <1>2 DEF Halve
    <3> QED
      BY <1>2, <1>6, <3>1 DEF LadderStep, SendConfirmed, SendSlips, SendTooLarge,
         SendRefused, SendUnconfirmed, LadderEnds
  <2> QED
    BY <1>3, <1>4, <2>1, <2>2
<1>7. CASE ExcessReads \/ UserReads
  BY <1>2, <1>3, <1>7, SwapIs DEF ExcessReads, UserReads
<1>8. CASE DecreaseStarts
  <2>1. ASSUME NEW pct, StartLadder([Ladder("decrease", f.pos, f.mode, Share(liq[f.pos], pct))
                                       EXCEPT !.before = f.free], "send")
        PROVE  at' = "send" /\ f'.kind = "decrease"
    BY <1>1, <2>1 DEF StartLadder, Ladder, Frames
  <2> QED
    BY <1>2, <1>3, <1>4, <1>8, <2>1 DEF DecreaseStarts
<1>9. CASE IncBudget
  BY <1>2, <1>3, <1>9 DEF IncBudget
<1>10. CASE IncreaseStep
  <2>1. CASE Quote
    <3>1. at' = "idle" \/ at' = "readSol" \/ (at' = "send" /\ f'.kind = "increase")
      BY <1>2, <2>1, QuoteIs DEF StartLadder
    <3> QED
      BY <1>3, <1>4, <3>1
  <2>2. CASE TargetOnlyA \/ TargetOther
    BY <1>3, <2>2, TargetIs
  <2>3. CASE TargetFails \/ FundOnlyB \/ FundMixed
    BY <1>2, <1>3, <2>3, SwapIs DEF TargetFails, FundOnlyB, FundMixed
  <2>4. CASE IncreaseBuysUsdc
    <3>1. at' = "send" => f'.kind = "increase"
      <4>1. f.attempt \in 1..3
        BY <1>1 DEF Frames
      <4>2. at' = "send" => AfterFunding = "send"
        BY <2>4, Funding
      <4>3. AfterFunding = "send" => f.attempt >= 2
        BY <4>1 DEF AfterFunding
      <4>4. at' = "send" => Second
        BY <2>4, <4>2, <4>3, Funding DEF Second, IncreaseBuysUsdc
      <4> QED
        BY <2>4, <4>4, Funding DEF Ladders
    <3> QED
      BY <1>3, <1>4, <2>4, <3>1, Funding
  <2> QED
    BY <1>10, <2>1, <2>2, <2>3, <2>4 DEF IncreaseStep
<1> QED
  BY <1>5, <1>6, <1>7, <1>8, <1>9, <1>10, CoveredReads, CoveredOpens DEF Step

LEMMA CoveredAlways == FundsSpec => [](Types /\ Control /\ Ladders /\ Covered)
<1>1. FundsInit => Covered
  BY DEF FundsInit, Covered
<1>2. Types /\ Control /\ Ladders /\ Covered /\ [FundsNext]_vars => Covered'
  <2> SUFFICES ASSUME Types, Types', Control, Ladders, Covered, [FundsNext]_vars
               PROVE  Covered'
    BY NextTypes
  <2>1. CASE UNCHANGED vars
    BY <2>1 DEF vars, Covered
  <2>2. CASE Step
    BY <2>2, CoveredStep
  <2>3. CASE Calls
    <3>1. at' \notin {"readUsdc", "decide", "send"}
      BY <2>3 DEF Calls, CallExcess, CallUser, CallOpen, CallDecrease, CallIncrease, CallInc,
                  Begin
    <3> QED
      BY <3>1 DEF Covered
  <2>4. CASE OthersMove \/ \E s \in Slots : Settle(s)
    <3>1. CASE log'.disturbed
      BY <3>1 DEF Covered
    <3>2. CASE ~log'.disturbed
      BY <2>4, <3>2, Undisturbed DEF Covered
    <3> QED
      BY <3>1, <3>2
  <2> QED
    BY <2>1, <2>2, <2>3, <2>4 DEF FundsNext
<1> QED
  BY <1>1, <1>2, LaddersAlways, NextTypes, PTL DEF FundsSpec

\* rebalance_before_open and the final check (wirlpool.rs): an opening is sent
\* only when the wallet has what it needs, unless it changed behind its back.
THEOREM OpeningCovered == FundsSpec => []OpeningIsCovered
<1>1. Types /\ Covered => OpeningIsCovered
  <2> SUFFICES ASSUME Types, Covered PROVE OpeningIsCovered
    OBVIOUS
  <2>1. /\ f.need.sol \in Nat /\ f.need.usdc \in Nat
        /\ wallet.sol \in Nat /\ wallet.usdc \in Nat
    BY DEF Types, Frames, Balances, Chained
  <2> QED
    BY <2>1 DEF Covered, OpeningIsCovered
<1> QED
  BY <1>1, CoveredAlways, PTL

-----------------------------------------------------------------------------
(***************************************************************************)
(* inc.  What it deposits is worth no more than its budget, and its budget *)
(* no more than what it withdrew: until the second reading the wallet      *)
(* differs from the first one by the withdrawal alone.                     *)
(***************************************************************************)

\* Where a swap and a quote belong, and what the withdrawal of inc follows.
Places ==
  /\ Swapping /\ sw.back = "readSol" => f.then \in {"decide", "fund"}
  /\ (at = "quote" \/ (Swapping /\ sw.back = "quote")) /\ f.mode = "Mixed" => f.then = "fund"
  /\ f.op = "inc" /\ at = "measured" => f.then = "measured"

LEMMA PlacesStep ==
  ASSUME Types, Control, Places, Step
  PROVE  Places'
<1>1. f \in Frames /\ f.then \in Thens /\ f.attempt \in 1..3 /\ sw.back \in Backs
  BY DEF Types, Frames, Swaps
<1>2. at' \notin {"quote", "measured", "swap", "part"} => Places'
  BY DEF Places, Swapping
<1>3. End => at' = "idle"
  BY DEF End
<1>4. CASE SwapStep
  <2>1. Swapping /\ SwapLeaves
    BY <1>4, SwapFates
  <2>2. CASE SwapStays
    BY <2>1, <2>2 DEF SwapStays, Places, Swapping
  <2>3. CASE SwapReturns
    BY <1>1, <2>1, <2>3 DEF SwapReturns, Places, Swapping, Backs
  <2> QED
    BY <1>2, <1>3, <2>1, <2>2, <2>3 DEF SwapLeaves, SwapRepeats, SwapPanics
<1>5. CASE LadderStep
  <2>1. Halve => at' \in {at, "idle"}
    BY <1>3 DEF Halve
  <2> QED
    BY <1>2, <1>3, <1>5, <2>1 DEF LadderStep, SendConfirmed, SendSlips, SendTooLarge,
       SendRefused, SendUnconfirmed, LadderEnds
<1>6. CASE ExcessReads \/ UserReads
  <2>1. ASSUME NEW sell, NEW amount, StartSwap(sell, amount, "idle")
        PROVE  Places'
    BY <2>1, SwapIs DEF Places
  <2> QED
    BY <1>2, <1>3, <1>6, <2>1 DEF ExcessReads, UserReads
<1>7. CASE ReadSol
  BY <1>2, <1>3, <1>7 DEF ReadSol
<1>8. CASE ReadUsdc
  <2>1. at' = f.then /\ f'.then = f.then
    BY <1>1, <1>8 DEF ReadUsdc, Frames
  <2> QED
    BY <1>1, <2>1 DEF Places, Swapping, Thens
<1>9. CASE OpenStep
  <2>1. CASE BuySol
    <3>1. ASSUME NEW sell, NEW amount, StartSwap(sell, amount, "buyUsdc")
          PROVE  Places'
      BY <3>1, SwapIs DEF Places
    <3> QED
      BY <1>2, <2>1, <3>1 DEF BuySol
  <2>2. CASE OpenBuysUsdc
    <3>1. f.then \in {"decide", "fund"}
      BY <2>2 DEF OpenBuysUsdc, Control
    <3>2. ASSUME NEW sell, NEW amount, StartSwap(sell, amount, "readSol"), f' = f
          PROVE  Places'
      BY <3>1, <3>2, SwapIs DEF Places
    <3> QED
      BY <1>2, <1>3, <2>2, <3>2 DEF OpenBuysUsdc
  <2>3. CASE OpenDecides
    BY <1>2, <1>3, <2>3 DEF OpenDecides, StartLadder
  <2> QED
    BY <1>9, <2>1, <2>2, <2>3 DEF OpenStep
<1>10. CASE DecreaseStarts \/ IncBudget
  BY <1>2, <1>3, <1>10 DEF DecreaseStarts, IncBudget, StartLadder
<1>11. CASE IncreaseStep
  <2>1. CASE TargetOnlyA
    <3>1. f'.mode = "OnlyA"
      BY <1>1, <2>1 DEF TargetOnlyA, Frames
    <3> QED
      BY <2>1, <3>1, SwapIs DEF TargetOnlyA, Places
  <2>2. CASE FundOnlyB
    <3>1. f.mode = "OnlyB"
      BY <2>2 DEF FundOnlyB
    <3>2. ASSUME NEW sell, NEW amount, StartSwap(sell, amount, "quote"), f' = f
          PROVE  Places'
      BY <3>1, <3>2, SwapIs DEF Places
    <3>3. CASE at' = "quote" /\ f' = f
      BY <3>1, <3>3 DEF Places, Swapping
    <3> QED
      BY <1>2, <1>3, <2>2, <3>2, <3>3 DEF FundOnlyB
  <2>3. CASE IncreaseBuysUsdc
    BY <2>3, Funding DEF Places
  <2>4. CASE TargetOther \/ TargetFails \/ FundMixed \/ Quote
    BY <1>2, <1>3, <2>4 DEF TargetOther, TargetFails, FundMixed, Quote, StartLadder
  <2> QED
    BY <1>11, <2>1, <2>2, <2>3, <2>4 DEF IncreaseStep
<1> QED
  BY <1>4, <1>5, <1>6, <1>7, <1>8, <1>9, <1>10, <1>11 DEF Step

LEMMA PlacesAlways == FundsSpec => [](Types /\ Control /\ Ladders /\ Places)
<1>1. FundsInit => Places
  BY DEF FundsInit, Places, Swapping
<1>2. Types /\ Control /\ Places /\ [FundsNext]_vars => Places'
  <2> SUFFICES ASSUME Types, Control, Places, [FundsNext]_vars
               PROVE  Places'
    OBVIOUS
  <2>1. CASE UNCHANGED <<at, f, sw>>
    BY <2>1 DEF Places, Swapping
  <2>2. CASE Step
    BY <2>2, PlacesStep
  <2>3. CASE Calls
    <3>1. ASSUME NEW p, Begin([NoFrame EXCEPT !.op = "decrease", !.pos = p], "measured")
          PROVE  Places'
      BY <3>1 DEF Begin, NoFrame, Places, Swapping
    <3>2. CASE CallDecrease
      BY <3>1, <3>2 DEF CallDecrease
    <3>3. CASE ~CallDecrease
      <4>1. at' \notin {"quote", "measured", "swap", "part"}
        BY <2>3, <3>3 DEF Calls, CallExcess, CallUser, CallOpen, CallIncrease, CallInc, Begin
      <4> QED
        BY <4>1 DEF Places, Swapping
    <3> QED
      BY <3>2, <3>3
  <2> QED
    BY <2>1, <2>2, <2>3 DEF FundsNext, OthersMove, Settle, vars
<1> QED
  BY <1>1, <1>2, LaddersAlways, PTL DEF FundsSpec

Measured ==
  f.then = "measured" =>
    /\ log.withdrawn = 0
    /\ at \in {"readUsdc", "measured"} => f.free.sol = wallet.sol
    /\ at = "measured" => f.free.usdc = wallet.usdc

Withdrawing ==
  at = "send" /\ f.kind = "decrease" =>
    log.withdrawn = 0 /\ f.before.sol = wallet.sol /\ f.before.usdc = wallet.usdc

Gained ==
  f.then = "freed" /\ at \in {"readSol", "readUsdc", "freed"} =>
    /\ \E mode \in Modes :
         /\ wallet.sol = f.before.sol + log.withdrawn * Unit(mode).sol
         /\ wallet.usdc = f.before.usdc + log.withdrawn * Unit(mode).usdc
    /\ at \in {"readUsdc", "freed"} => f.free.sol = wallet.sol
    /\ at = "freed" => f.free.usdc <= wallet.usdc

Worth ==
  /\ f.budget <= log.withdrawn * UnitValue
  /\ f.kind = "increase" => f.asked * UnitValue <= Buffered(log.withdrawn * UnitValue)

Alone == f.op = "inc" /\ ~log.disturbed /\ ~log.blind
Paid == Alone => Measured /\ Withdrawing /\ Gained /\ Worth

\* What a step may do to the log.
LogKept ==
  /\ log.disturbed => log'.disturbed
  /\ log.blind => log'.blind
  /\ log'.withdrawn = log.withdrawn

LEMMA LogForms ==
  ASSUME log \in Logs
  PROVE  /\ log' = log => LogKept
         /\ log' = [log EXCEPT !.sold = 0, !.missed = 0] => LogKept
         /\ log' = [log EXCEPT !.moved = 0, !.sold = 0, !.missed = 0] => LogKept
         /\ log' = [log EXCEPT !.disturbed = TRUE] => LogKept
         /\ \A n : log' = [log EXCEPT !.sold = @ + n] => LogKept
         /\ log' = [log EXCEPT !.missed = @ + 1, !.disturbed = TRUE] => LogKept
<1>1. log' = log => LogKept
  BY DEF LogKept
<1>2. log' = [log EXCEPT !.sold = 0, !.missed = 0] => LogKept
  BY Zenon DEF LogKept, Logs
<1>3. log' = [log EXCEPT !.moved = 0, !.sold = 0, !.missed = 0] => LogKept
  BY Zenon DEF LogKept, Logs
<1>4. log' = [log EXCEPT !.disturbed = TRUE] => LogKept
  BY Zenon DEF LogKept, Logs
<1>5. \A n : log' = [log EXCEPT !.sold = @ + n] => LogKept
  BY Zenon DEF LogKept, Logs
<1>6. log' = [log EXCEPT !.missed = @ + 1, !.disturbed = TRUE] => LogKept
  BY Zenon DEF LogKept, Logs
<1> QED
  BY <1>1, <1>2, <1>3, <1>4, <1>5, <1>6

\* A withdrawal and the readings of balances apart, the log keeps its facts.
LEMMA LogIsKept ==
  ASSUME Types, Step, ~SendConfirmed, ~ReadUsdc
  PROVE  LogKept
<1>1. log \in Logs
  BY DEF Types
<1>2. ASSUME NEW sell, NEW amount, NEW back, StartSwap(sell, amount, back)
      PROVE  LogKept
  BY <1>1, <1>2, LogForms DEF StartSwap
<1>3. ASSUME NEW frame, NEW next, StartLadder(frame, next)
      PROVE  LogKept
  BY <1>1, <1>3, LogForms DEF StartLadder
<1>4. CASE SwapStep
  BY <1>1, <1>4, LogForms
     DEF SwapStep, SwapWithoutSale, SwapNotBuilt, SwapConfirmed, SwapRefused, SwapUnconfirmed,
         SwapSplits, PartSold, PartFails
<1>5. CASE LadderStep
  BY <1>1, <1>5, LogForms
     DEF LadderStep, SendSlips, SendTooLarge, SendRefused, SendUnconfirmed, Here
<1>6. CASE ExcessReads \/ UserReads \/ ReadSol
  BY <1>1, <1>2, <1>6, LogForms DEF ExcessReads, UserReads, ReadSol, Here
<1>7. CASE OpenStep
  BY <1>1, <1>2, <1>3, <1>7, LogForms DEF OpenStep, OpenDecides, BuySol, OpenBuysUsdc
<1>8. CASE DecreaseStarts \/ IncBudget
  BY <1>1, <1>3, <1>8, LogForms DEF DecreaseStarts, IncBudget, Here
<1>9. CASE IncreaseStep
  <2>1. CASE Quote
    BY <1>1, <1>3, <2>1, LogForms DEF Quote
  <2>2. CASE TargetOnlyA \/ FundOnlyB \/ IncreaseBuysUsdc
    BY <1>1, <1>2, <2>2, LogForms DEF TargetOnlyA, FundOnlyB, IncreaseBuysUsdc
  <2>3. CASE TargetOther \/ TargetFails \/ FundMixed
    BY <1>1, <2>3, LogForms DEF TargetOther, TargetFails, FundMixed, Here
  <2> QED
    BY <1>9, <2>1, <2>2, <2>3 DEF IncreaseStep
<1> QED
  BY <1>4, <1>5, <1>6, <1>7, <1>8, <1>9 DEF Step

\* A step that leads away from the readings and from a withdrawal.
LEMMA PaidAway ==
  ASSUME Types, Types', Paid, LogKept, f'.op = f.op,
         f'.then = f.then \/ f'.then \in {"idle", "decide", "fund"},
         f'.budget \in {f.budget, 0}, f'.kind = f.kind, f'.asked = f.asked,
         at' \in {"readSol", "readUsdc", "measured", "freed"} =>
           f'.then \notin {"measured", "freed"},
         at' = "send" => f'.kind # "decrease"
  PROVE  Paid'
<1> SUFFICES ASSUME Alone' PROVE (Measured /\ Withdrawing /\ Gained /\ Worth)'
  BY DEF Paid
<1>1. Measured /\ Withdrawing /\ Gained /\ Worth
  BY DEF Paid, Alone, LogKept
<1>2. Measured' /\ Withdrawing' /\ Gained'
  BY <1>1 DEF Measured, Withdrawing, Gained, LogKept
<1>3. Worth'
  <2>1. 0 <= log.withdrawn * UnitValue
    <3>1. log.withdrawn \in Nat
      BY DEF Types, Logs
    <3>2. log.withdrawn * UnitValue \in Nat
      BY <3>1, UnitType, Times
    <3> QED
      BY <3>2
  <2> QED
    BY <1>1, <2>1 DEF Worth, LogKept
<1> QED
  BY <1>2, <1>3

LEMMA PaidEnds ==
  ASSUME Types, Types', Paid, LogKept, End
  PROVE  Paid'
<1>1. f \in Frames
  BY DEF Types
<1> QED
  BY <1>1, EndFrame, PaidAway

\* The readings: of what there was, and of what there is more.
LEMMA PaidReads ==
  ASSUME Types, Types', Control, Paid, ReadSol \/ ReadUsdc
  PROVE  Paid'
<1>1. /\ f \in Frames /\ f.then \in Thens /\ f.free \in Balances /\ log \in Logs
      /\ wallet.sol \in Nat /\ wallet.usdc \in Nat /\ wallet' = wallet
  BY DEF Types, Frames, Balances, Chained, ReadSol, ReadUsdc, Here, Chain
<1>2. CASE ReadSol
  <2>1. LogKept
    BY <1>1, <1>2, LogForms DEF ReadSol, Here
  <2>2. CASE End
    BY <2>1, <2>2, PaidEnds
  <2>3. CASE at' = "panicked" /\ f' = f
    BY <2>1, <2>3, PaidAway
  <2>4. CASE f' = [f EXCEPT !.free.sol = SolSeen] /\ at' = "readUsdc"
    <3>1. /\ f'.free.sol = SolSeen /\ f'.free.usdc = f.free.usdc /\ f'.op = f.op
          /\ f'.then = f.then /\ f'.before = f.before /\ f'.budget = f.budget
          /\ f'.kind = f.kind /\ f'.asked = f.asked
      BY <1>1, <2>4 DEF Frames, Balances
    <3> SUFFICES ASSUME Alone' PROVE (Measured /\ Withdrawing /\ Gained /\ Worth)'
      BY DEF Paid
    <3>2. Measured /\ Withdrawing /\ Gained /\ Worth
      BY <2>1, <3>1 DEF Paid, Alone, LogKept
    <3>3. SolSeen = wallet.sol
      BY <3>1 DEF SolSeen, Alone
    <3>4. Measured' /\ Withdrawing' /\ Worth'
      BY <1>1, <2>1, <2>4, <3>1, <3>2, <3>3 DEF Measured, Withdrawing, Worth, LogKept
    <3>5. Gained'
      BY <1>1, <1>2, <2>1, <2>4, <3>1, <3>2, <3>3 DEF Gained, LogKept, ReadSol
    <3> QED
      BY <3>4, <3>5
  <2> QED
    BY <1>2, <2>2, <2>3, <2>4 DEF ReadSol
<1>3. CASE ReadUsdc
  <2>1. PICK seen \in {wallet.usdc, 0} :
          /\ f' = [f EXCEPT !.free.usdc = seen]
          /\ log' = [log EXCEPT !.blind = @ \/ (f.then = "measured" /\ seen # wallet.usdc)]
    BY <1>3 DEF ReadUsdc
  <2>2. at = "readUsdc" /\ at' = f.then
    BY <1>3 DEF ReadUsdc
  <2>3. /\ f'.free.sol = f.free.sol /\ f'.free.usdc = seen /\ f'.op = f.op
        /\ f'.then = f.then /\ f'.before = f.before /\ f'.budget = f.budget
        /\ f'.kind = f.kind /\ f'.asked = f.asked
    BY <1>1, <2>1 DEF Frames, Balances
  <2>4. /\ log'.disturbed = log.disturbed /\ log'.withdrawn = log.withdrawn
        /\ log'.blind <=> (log.blind \/ (f.then = "measured" /\ seen # wallet.usdc))
    <3>1. log'.disturbed = log.disturbed /\ log'.withdrawn = log.withdrawn
      BY <1>1, <2>1, Zenon DEF Logs
    <3>2. log'.blind = (log.blind \/ (f.then = "measured" /\ seen # wallet.usdc))
      BY <1>1, <2>1, Zenon DEF Logs
    <3> QED
      BY <3>1, <3>2, Zenon
  <2> SUFFICES ASSUME Alone' PROVE (Measured /\ Withdrawing /\ Gained /\ Worth)'
    BY DEF Paid
  <2>5. Measured /\ Withdrawing /\ Gained /\ Worth
    BY <2>3, <2>4 DEF Paid, Alone
  <2>6. f.then = "measured" => seen = wallet.usdc
    BY <2>4 DEF Alone
  <2>7. Measured' /\ Withdrawing' /\ Worth'
    BY <1>1, <2>2, <2>3, <2>4, <2>5, <2>6 DEF Measured, Withdrawing, Worth, Thens
  <2>8. Gained'
    <3>1. seen <= wallet.usdc
      BY <1>1, <2>1
    <3> QED
      BY <1>1, <2>2, <2>3, <2>4, <2>5, <3>1 DEF Gained
  <2> QED
    BY <2>7, <2>8
<1> QED
  BY <1>2, <1>3

\* The withdrawal: what the wallet gains is what was withdrawn.
LEMMA PaidSends ==
  ASSUME Types, Types', Paid, LadderStep
  PROVE  Paid'
<1>1. /\ f \in Frames /\ log \in Logs /\ f.units \in Nat /\ log.withdrawn \in Nat
      /\ wallet.sol \in Nat /\ wallet.usdc \in Nat
      /\ f.before.sol \in Nat /\ f.before.usdc \in Nat
  BY DEF Types, Frames, Logs, Balances, Chained
<1>2. at = "send"
  BY DEF LadderStep, SendConfirmed, SendSlips, SendTooLarge, SendRefused, SendUnconfirmed
<1>3. CASE SendConfirmed
  <2>1. PICK mode \in Modes : Lands(Moved(mode))
    BY <1>3, OutcomeModes DEF SendConfirmed
  <2>2. log'.disturbed = log.disturbed /\ log'.blind = log.blind
    BY <1>1, <1>3, Zenon DEF SendConfirmed, Logs
  <2>3. CASE f.kind = "decrease"
    <3>1. log'.withdrawn = log.withdrawn + f.units
      <4>1. log'.withdrawn = IF f.kind = "decrease" THEN log.withdrawn + f.units
                                                    ELSE log.withdrawn
        BY <1>1, <1>3, Zenon DEF SendConfirmed, Logs
      <4> QED
        BY <2>3, <4>1
    <3>2. /\ Unit(mode).sol \in Nat /\ Unit(mode).usdc \in Nat /\ UnitValue \in Nat
      BY UnitType
    <3>3. /\ wallet'.sol = wallet.sol + f.units * Unit(mode).sol
          /\ wallet'.usdc = wallet.usdc + f.units * Unit(mode).usdc
      <4>1. /\ Moved(mode).sol = 1 * f.units * Unit(mode).sol
            /\ Moved(mode).usdc = 1 * f.units * Unit(mode).usdc
        BY <2>3 DEF Moved
      <4>2. 1 * f.units = f.units
        BY <1>1
      <4> QED
        BY <2>1, <4>1, <4>2 DEF Lands, Coins
    <3> SUFFICES ASSUME Alone' PROVE (Measured /\ Withdrawing /\ Gained /\ Worth)'
      BY DEF Paid
    <3>4. /\ f'.op = f.op /\ f'.kind = f.kind /\ at' \in {"readSol", "idle"}
          /\ f'.then \in {"freed", "idle"} /\ f'.budget \in {f.budget, 0}
          /\ at' = "readSol" => f'.before = f.before
      BY <1>1, <1>3, EndFrame DEF SendConfirmed, LadderEnds, Frames
    <3>5. Measured /\ Withdrawing /\ Gained /\ Worth
      BY <2>2, <3>4 DEF Paid, Alone
    <3>6. /\ log.withdrawn = 0 /\ log'.withdrawn = f.units
          /\ f.before.sol = wallet.sol /\ f.before.usdc = wallet.usdc
      BY <1>1, <1>2, <2>3, <3>1, <3>5 DEF Withdrawing
    <3>7. Measured' /\ Withdrawing'
      BY <3>4 DEF Measured, Withdrawing
    <3>8. Gained'
      BY <3>3, <3>4, <3>6 DEF Gained
    <3>9. Worth'
      <4>1. 0 * UnitValue = 0 /\ f.units * UnitValue \in Nat /\ f.budget \in Nat
        BY <1>1, <3>2, Times DEF Frames
      <4>2. f'.budget <= f.units * UnitValue
        BY <3>4, <3>5, <3>6, <4>1 DEF Worth
      <4> QED
        BY <2>3, <3>4, <3>6, <4>2 DEF Worth
    <3> QED
      BY <3>7, <3>8, <3>9
  <2>4. CASE f.kind # "decrease"
    <3>1. log'.withdrawn = log.withdrawn
      <4>1. log'.withdrawn = IF f.kind = "decrease" THEN log.withdrawn + f.units
                                                    ELSE log.withdrawn
        BY <1>1, <1>3, Zenon DEF SendConfirmed, Logs
      <4> QED
        BY <2>4, <4>1
    <3>2. LogKept
      BY <2>2, <3>1 DEF LogKept
    <3> QED
      BY <1>3, <2>4, <3>2, PaidEnds DEF SendConfirmed, LadderEnds
  <2> QED
    BY <2>3, <2>4
<1>4. CASE ~SendConfirmed
  <2>1. LogKept
    BY <1>1, <1>4, LogForms
       DEF LadderStep, SendSlips, SendTooLarge, SendRefused, SendUnconfirmed, Here
  <2>2. CASE End
    BY <2>1, <2>2, PaidEnds
  <2>3. ASSUME f' = [f EXCEPT !.step = @ + 1] \/ f' = [f EXCEPT !.units = @ \div 2, !.step = 1],
               UNCHANGED at, Here
        PROVE  Paid'
    <3>1. /\ f'.op = f.op /\ f'.then = f.then /\ f'.budget = f.budget /\ f'.kind = f.kind
          /\ f'.asked = f.asked /\ f'.before = f.before /\ f'.free = f.free
      BY <1>1, <2>3 DEF Frames
    <3> QED
      BY <2>3, <3>1 DEF Paid, Alone, Measured, Withdrawing, Gained, Worth, Here
  <2> QED
    BY <1>4, <2>2, <2>3 DEF LadderStep, SendSlips, SendTooLarge, SendRefused, SendUnconfirmed,
       Halve
<1> QED
  BY <1>3, <1>4

\* The budget: what the readings differ by, which is worth what was withdrawn.
LEMMA PaidBudget ==
  ASSUME Types, Types', Control, Places, Paid, DecreaseStarts \/ IncBudget
  PROVE  Paid'
<1>1. /\ f \in Frames /\ log \in Logs /\ log.withdrawn \in Nat /\ wallet' = wallet
      /\ wallet.sol \in Nat /\ wallet.usdc \in Nat
      /\ f.before.sol \in Nat /\ f.before.usdc \in Nat
      /\ f.free.sol \in Nat /\ f.free.usdc \in Nat /\ f.free \in Balances
  BY DEF Types, Frames, Logs, Balances, Chained, DecreaseStarts, IncBudget, Here
<1>2. LogKept
  BY LogIsKept DEF Step, SendConfirmed, ReadUsdc, DecreaseStarts, IncBudget
<1>3. End => Paid'
  BY <1>2, PaidEnds
<1>4. CASE DecreaseStarts
  <2>1. ASSUME NEW pct \in {50, 100},
               StartLadder([Ladder("decrease", f.pos, f.mode, Share(liq[f.pos], pct))
                              EXCEPT !.before = f.free], "send")
        PROVE  Paid'
    <3>1. /\ f'.op = f.op /\ f'.then = f.then /\ f'.kind = "decrease" /\ f'.before = f.free
          /\ f'.budget = 0 /\ at' = "send"
      <4> DEFINE ladder == Ladder("decrease", f.pos, f.mode, Share(liq[f.pos], pct))
      <4>1. /\ ladder.op = f.op /\ ladder.then = f.then /\ ladder.kind = "decrease"
            /\ ladder.budget = 0
        BY <1>1, LadderIs
      <4>2. f' = [ladder EXCEPT !.before = f.free] /\ at' = "send"
        BY <2>1 DEF StartLadder
      <4>3. [ladder EXCEPT !.before = f.free].before = f.free
        BY <1>1 DEF Ladder, Frames
      <4>4. /\ [ladder EXCEPT !.before = f.free].op = ladder.op
            /\ [ladder EXCEPT !.before = f.free].then = ladder.then
            /\ [ladder EXCEPT !.before = f.free].kind = ladder.kind
            /\ [ladder EXCEPT !.before = f.free].budget = ladder.budget
        BY <1>1 DEF Ladder, Frames
      <4> QED
        BY <4>1, <4>2, <4>3, <4>4
    <3> SUFFICES ASSUME Alone' PROVE (Measured /\ Withdrawing /\ Gained /\ Worth)'
      BY DEF Paid
    <3>2. Measured /\ Worth
      BY <1>2, <3>1 DEF Paid, Alone, LogKept
    <3>3. f.then = "measured" /\ at = "measured"
      BY <1>4, <3>1 DEF DecreaseStarts, Places, Alone
    <3>4. log'.withdrawn = 0 /\ f.free.sol = wallet.sol /\ f.free.usdc = wallet.usdc
      BY <1>2, <3>2, <3>3 DEF Measured, LogKept
    <3>5. Measured' /\ Withdrawing' /\ Gained'
      BY <1>1, <3>1, <3>3, <3>4 DEF Measured, Withdrawing, Gained
    <3>6. Worth'
      <4>1. \A x \in Nat : 0 <= 0 * x
        OBVIOUS
      <4> QED
        BY <3>1, <3>4, <4>1, UnitType DEF Worth
    <3> QED
      BY <3>5, <3>6
  <2> QED
    BY <1>3, <1>4, <2>1 DEF DecreaseStarts
<1>5. CASE IncBudget
  <2>1. CASE f' = [f EXCEPT !.budget = Freed.usdc + Freed.sol * Price,
                            !.free = Coins(0, 0), !.before = Coins(0, 0)] /\ at' = "target"
    <3>1. /\ f'.op = f.op /\ f'.then = f.then /\ f'.kind = f.kind /\ f'.asked = f.asked
          /\ f'.budget = Freed.usdc + Freed.sol * Price
      BY <1>1, <2>1 DEF Frames
    <3> SUFFICES ASSUME Alone' PROVE (Measured /\ Withdrawing /\ Gained /\ Worth)'
      BY DEF Paid
    <3>2. Measured /\ Withdrawing /\ Gained /\ Worth
      BY <1>2, <3>1 DEF Paid, Alone, LogKept
    <3>3. at = "freed" /\ f.then = "freed"
      BY <1>5 DEF IncBudget, Control
    <3>4. Measured' /\ Withdrawing' /\ Gained'
      BY <2>1, <3>1, <3>3 DEF Measured, Withdrawing, Gained
    <3>5. f'.budget <= log.withdrawn * UnitValue
      <4>1. PICK mode \in Modes :
              /\ wallet.sol = f.before.sol + log.withdrawn * Unit(mode).sol
              /\ wallet.usdc = f.before.usdc + log.withdrawn * Unit(mode).usdc
        BY <3>2, <3>3 DEF Gained
      <4>2. f.free.sol = wallet.sol /\ f.free.usdc <= wallet.usdc
        BY <3>2, <3>3 DEF Gained
      <4> DEFINE sol == log.withdrawn * Unit(mode).sol
                 usdc == log.withdrawn * Unit(mode).usdc
      <4>3. /\ Unit(mode).sol \in Nat /\ Unit(mode).usdc \in Nat /\ Price \in Nat
            /\ Unit(mode).usdc + Unit(mode).sol * Price = UnitValue
        BY UnitType, FundsAssumption DEF FundsAssumption
      <4>4. sol \in Nat /\ usdc \in Nat
        BY <1>1, <4>3, Times
      <4>5. Freed.sol = sol
        BY <1>1, <4>1, <4>2, <4>4 DEF Freed, Coins, Monus
      <4>6. Freed.usdc \in Nat /\ Freed.usdc <= usdc
        BY <1>1, <4>1, <4>2, <4>4 DEF Freed, Coins, Monus
      <4>7. log.withdrawn * UnitValue = usdc + sol * Price /\ sol * Price \in Nat
        <5>1. Unit(mode).sol * Price \in Nat
          BY <4>3, Times
        <5>2. log.withdrawn * (Unit(mode).usdc + Unit(mode).sol * Price)
                = usdc + log.withdrawn * (Unit(mode).sol * Price)
          BY <1>1, <4>3, <5>1
        <5>3. log.withdrawn * (Unit(mode).sol * Price) = sol * Price
          BY <1>1, <4>3
        <5> QED
          BY <4>3, <4>4, <5>2, <5>3, Times
      <4> HIDE DEF sol, usdc
      <4> QED
        BY <3>1, <4>4, <4>5, <4>6, <4>7
    <3>6. Worth'
      BY <1>2, <3>1, <3>2, <3>5 DEF Worth, LogKept
    <3> QED
      BY <3>4, <3>6
  <2> QED
    BY <1>3, <1>5, <2>1 DEF IncBudget
<1> QED
  BY <1>4, <1>5

LEMMA PaidSwaps ==
  ASSUME Types, Types', Control, Ladders, Places, Paid, SwapStep
  PROVE  Paid'
<1>1. /\ f \in Frames /\ sw.back \in Backs /\ Swapping /\ SwapLeaves
  BY SwapFates DEF Types, Swaps
<1>2. LogKept
  BY <1>1, LogIsKept DEF Step, SendConfirmed, ReadUsdc, Swapping
<1>3. f' = f => /\ f'.op = f.op /\ f'.then = f.then /\ f'.budget = f.budget /\ f'.kind = f.kind
                /\ f'.asked = f.asked
  OBVIOUS
<1>4. CASE SwapStays
  BY <1>2, <1>3, <1>4, PaidAway DEF SwapStays
<1>5. CASE SwapReturns
  <2>1. sw.back = "readSol" => f.then \notin {"measured", "freed"}
    BY <1>1 DEF Places
  <2>2. sw.back = "send" => f.kind = "increase"
    BY <1>1 DEF Control, Second, Ladders
  <2> QED
    BY <1>1, <1>2, <1>3, <1>5, <2>1, <2>2, PaidAway DEF SwapReturns, Backs
<1>6. CASE End
  BY <1>2, <1>6, PaidEnds
<1>7. CASE SwapRepeats
  <2>1. /\ f'.op = f.op /\ f'.then = f.then /\ f'.budget = f.budget /\ f'.kind = f.kind
        /\ f'.asked = f.asked
    BY <1>1, <1>7 DEF SwapRepeats, Frames
  <2> QED
    BY <1>2, <1>7, <2>1, PaidAway DEF SwapRepeats
<1>8. CASE SwapPanics
  BY <1>2, <1>3, <1>8, PaidAway DEF SwapPanics
<1> QED
  BY <1>1, <1>4, <1>5, <1>6, <1>7, <1>8 DEF SwapLeaves

\* The deposit: its units are worth no more than the budget with its margin.
LEMMA PaidQuotes ==
  ASSUME Types, Types', Places, Paid, Quote
  PROVE  Paid'
<1>1. LogKept
  BY LogIsKept DEF Step, IncreaseStep, SendConfirmed, ReadUsdc, Quote
<1>2. CASE End
  BY <1>1, <1>2, PaidEnds
<1>3. ASSUME NEW frame \in Frames,
             StartLadder(frame, "readSol") \/ StartLadder(frame, "send"),
             frame.kind = "increase", frame.op = f.op, frame.budget = 0, frame.then = f.then,
             frame.asked * UnitValue <= Buffered(f.budget)
      PROVE  Paid'
  <2>1. f' = frame /\ at' \in {"readSol", "send"}
    BY <1>3 DEF StartLadder
  <2>2. at' = "readSol" => f.then = "fund"
    <3>1. at' = "readSol" => f.mode = "Mixed"
      BY DEF Quote, StartLadder, End
    <3> QED
      BY <3>1 DEF Quote, Places
  <2> SUFFICES ASSUME Alone' PROVE (Measured /\ Withdrawing /\ Gained /\ Worth)'
    BY DEF Paid
  <2>3. Measured /\ Worth
    BY <1>1, <1>3, <2>1 DEF Paid, Alone, LogKept
  <2>4. Measured' /\ Withdrawing' /\ Gained'
    BY <1>1, <1>3, <2>1, <2>2, <2>3 DEF Measured, Withdrawing, Gained, LogKept
  <2>5. /\ log.withdrawn * UnitValue \in Nat /\ f.budget \in Nat
        /\ frame.asked * UnitValue \in Nat
    <3>1. log.withdrawn \in Nat /\ f.budget \in Nat /\ frame.asked \in Nat
      BY DEF Types, Logs, Frames
    <3> QED
      BY <3>1, UnitType, Times
  <2>6. frame.asked * UnitValue <= Buffered(log.withdrawn * UnitValue)
    BY <1>3, <2>3, <2>5 DEF Worth, Buffered
  <2>7. Worth'
    BY <1>1, <1>3, <2>1, <2>5, <2>6 DEF Worth, LogKept
  <2> QED
    BY <2>4, <2>7
<1> QED
  BY <1>2, <1>3, QuoteIs

LEMMA PaidIncrease ==
  ASSUME Types, Types', Control, Ladders, Places, Paid, IncreaseStep
  PROVE  Paid'
<1>1. f \in Frames /\ f.attempt \in 1..3
  BY DEF Types, Frames
<1>2. LogKept
  BY LogIsKept DEF Step, IncreaseStep, SendConfirmed, ReadUsdc, TargetOnlyA, TargetOther,
     TargetFails, FundOnlyB, FundMixed, IncreaseBuysUsdc, Quote
<1>3. f' = f => /\ f'.op = f.op /\ f'.then = f.then /\ f'.budget = f.budget /\ f'.kind = f.kind
                /\ f'.asked = f.asked
  OBVIOUS
<1>4. CASE TargetOnlyA \/ TargetOther
  BY <1>2, <1>4, TargetIs, PaidAway
<1>5. CASE TargetFails \/ FundOnlyB \/ FundMixed
  <2>1. CASE End
    BY <1>2, <2>1, PaidEnds
  <2>2. CASE f' = f /\ at' \in {"swap", "quote", "buySol"}
    BY <1>2, <1>3, <2>2, PaidAway
  <2> QED
    BY <1>5, <2>1, <2>2, SwapIs DEF TargetFails, FundOnlyB, FundMixed
<1>6. CASE IncreaseBuysUsdc
  <2>1. at' = "send" => f.kind = "increase"
    <3>1. at' = "send" => AfterFunding = "send"
      BY <1>6, Funding
    <3>2. AfterFunding = "send" => f.attempt >= 2
      BY <1>1 DEF AfterFunding
    <3>3. at' = "send" => Second
      BY <1>6, <3>1, <3>2, Funding DEF Second, IncreaseBuysUsdc
    <3> QED
      BY <3>3 DEF Ladders
  <2> QED
    BY <1>2, <1>6, <2>1, Funding, PaidAway
<1>7. CASE Quote
  BY <1>7, PaidQuotes
<1> QED
  BY <1>4, <1>5, <1>6, <1>7 DEF IncreaseStep

LEMMA PaidStep ==
  ASSUME Types, Types', Control, Ladders, Places, Paid, Step
  PROVE  Paid'
<1>1. CASE SwapStep
  BY <1>1, PaidSwaps
<1>2. CASE LadderStep
  BY <1>2, PaidSends
<1>3. CASE ReadSol \/ ReadUsdc
  BY <1>3, PaidReads
<1>4. CASE DecreaseStarts \/ IncBudget
  BY <1>4, PaidBudget
<1>5. CASE IncreaseStep
  BY <1>5, PaidIncrease
<1>6. CASE BuySol
  <2>1. LogKept
    BY <1>6, LogIsKept DEF Step, OpenStep, SendConfirmed, ReadUsdc, BuySol
  <2>2. f' = f /\ at' \in {"buyUsdc", "swap"}
    BY <1>6, SwapIs DEF BuySol
  <2> QED
    BY <2>1, <2>2, PaidAway
<1>7. CASE ExcessReads \/ UserReads \/ OpenDecides \/ OpenBuysUsdc
  <2>1. f.op # "inc"
    BY <1>7 DEF ExcessReads, UserReads, OpenDecides, OpenBuysUsdc, Control
  <2> QED
    BY <2>1, SameOperation DEF Paid, Alone
<1> QED
  BY <1>1, <1>2, <1>3, <1>4, <1>5, <1>6, <1>7 DEF Step, OpenStep

LEMMA PaidAlways == FundsSpec => [](Types /\ Control /\ Ladders /\ Paid)
<1>1. FundsInit => Paid
  BY DEF FundsInit, NoFrame, Paid, Alone
<1>2. Types /\ Control /\ Ladders /\ Places /\ Paid /\ [FundsNext]_vars => Paid'
  <2> SUFFICES ASSUME Types, Types', Control, Ladders, Places, Paid, [FundsNext]_vars
               PROVE  Paid'
    BY NextTypes
  <2>1. CASE UNCHANGED <<wallet, at, f, log>>
    BY <2>1 DEF Paid, Alone, Measured, Withdrawing, Gained, Worth
  <2>2. CASE Step
    BY <2>2, PaidStep
  <2>3. CASE Calls
    <3>1. CASE CallInc
      <4>1. /\ f'.then = "measured" /\ f'.kind = "open" /\ f'.budget = 0 /\ at' = "readSol"
            /\ log'.withdrawn = 0
        BY <3>1 DEF CallInc, Begin, NoFrame, NoLog
      <4>2. 0 <= 0 * UnitValue
        BY UnitType
      <4> QED
        BY <4>1, <4>2 DEF Paid, Measured, Withdrawing, Gained, Worth
    <3>2. CASE ~CallInc
      <4>1. f'.op # "inc"
        BY <2>3, <3>2 DEF Calls, CallExcess, CallUser, CallOpen, CallDecrease, CallIncrease,
           Begin, NoFrame
      <4> QED
        BY <4>1 DEF Paid, Alone
    <3> QED
      BY <3>1, <3>2
  <2>4. CASE OthersMove \/ \E s \in Slots : Settle(s)
    <3>1. CASE log'.disturbed
      BY <3>1 DEF Paid, Alone
    <3>2. CASE ~log'.disturbed
      BY <2>1, <2>4, <3>2, Undisturbed
    <3> QED
      BY <3>1, <3>2
  <2> QED
    BY <2>1, <2>2, <2>3, <2>4 DEF FundsNext, vars
<1> QED
  BY <1>1, <1>2, PlacesAlways, NextTypes, PTL DEF FundsSpec

\* run_inc_command (registry.rs): what inc adds is worth what it withdrew, with
\* the margin, unless funds moved behind its back or its first reading failed.
THEOREM IncStaysWithin == FundsSpec => []IncStaysWithinFreed
<1>1. Types /\ Ladders /\ Paid => IncStaysWithinFreed
  <2> SUFFICES ASSUME Types, Ladders, Paid,
                      f.op = "inc", f.kind = "increase", ~log.disturbed, ~log.blind
               PROVE  log.moved * UnitValue <= Buffered(log.withdrawn * UnitValue)
    BY DEF IncStaysWithinFreed
  <2>1. log.moved \in Nat /\ f.asked \in Nat /\ log.withdrawn \in Nat /\ UnitValue \in Nat
    BY UnitType DEF Types, Logs, Frames
  <2>2. PICK rest \in Nat : f.asked = log.moved + rest
    <3>1. log.moved <= f.asked
      BY DEF Ladders, Ledger
    <3>2. f.asked - log.moved \in Nat /\ f.asked = log.moved + (f.asked - log.moved)
      BY <2>1, <3>1
    <3> QED
      BY <3>2
  <2>3. /\ f.asked * UnitValue = log.moved * UnitValue + rest * UnitValue
        /\ rest * UnitValue \in Nat /\ log.moved * UnitValue \in Nat
        /\ log.withdrawn * UnitValue \in Nat
    BY <2>1, <2>2, Times
  <2>4. f.asked * UnitValue <= Buffered(log.withdrawn * UnitValue)
    BY DEF Paid, Alone, Worth
  <2> QED
    BY <2>3, <2>4 DEF Buffered
<1> QED
  BY <1>1, PaidAlways, PTL

-----------------------------------------------------------------------------
(***************************************************************************)
(* The end of an operation.  At each place the route that the operation is *)
(* on has that place, and what follows lies nearer to its end.             *)
(***************************************************************************)

\* Only an opening and a mixed deposit buy what they lack.
Buys == f.then = "decide" \/ (f.then = "fund" /\ f.mode = "Mixed")

Routed ==
  /\ at \in {"buySol", "buyUsdc"} => Buys
  /\ Swapping /\ sw.back \in {"buyUsdc", "readSol", "send"} => Buys
  /\ at = "start" => f.then = "idle"
  /\ Swapping /\ sw.back = "idle" => f.then = "idle"
  /\ at = "quote" => f.then # "decide"
  /\ Swapping /\ sw.back = "quote" => f.then # "decide"
  /\ at = "measured" => f.then \in {"idle", "measured"}
  /\ at = "target" => f.then \in {"idle", "freed"}
  /\ at = "send" /\ f.op = "inc" /\ f.kind = "decrease" => f.then = "measured"

Ordinary == {"idle", "panicked", "readSol", "readUsdc", "decide", "freed", "fund"}

LEMMA OrdinaryRouted ==
  ASSUME at' \in Ordinary
  PROVE  Routed'
BY DEF Ordinary, Routed, Swapping

LEMMA EndRouted ==
  ASSUME End
  PROVE  Routed'
BY OrdinaryRouted DEF End, Ordinary

LEMMA SwapRouted ==
  ASSUME Types, Control, Ladders, Routed, SwapStep
  PROVE  Routed'
<1>1. Swapping /\ SwapLeaves /\ sw.back \in Backs /\ f \in Frames /\ f.then \in Thens
  BY SwapFates DEF Types, Swaps, Frames
<1>2. CASE SwapStays
  BY <1>1, <1>2 DEF SwapStays, Routed, Swapping, Buys
<1>3. CASE SwapReturns
  <2>1. f' = f /\ at' = sw.back /\ at' \in {"buyUsdc", "readSol", "quote", "send"}
    BY <1>1, <1>3 DEF SwapReturns, Backs
  <2>2. at' = "send" => f.kind = "increase"
    BY <1>1, <2>1 DEF Control, Ladders, Second
  <2> QED
    BY <1>1, <2>1, <2>2 DEF Routed, Swapping, Buys
<1>4. CASE SwapRepeats
  <2>1. at' = "start" /\ f'.then = f.then /\ sw.back = "idle"
    BY <1>1, <1>4 DEF SwapRepeats, Control, Frames
  <2> QED
    BY <1>1, <2>1 DEF Routed, Swapping
<1>5. CASE SwapPanics
  BY <1>5, OrdinaryRouted DEF SwapPanics, Ordinary
<1> QED
  BY <1>1, <1>2, <1>3, <1>4, <1>5, EndRouted DEF SwapLeaves

LEMMA LadderRouted ==
  ASSUME Types, Control, Routed, LadderStep
  PROVE  Routed'
<1>1. f \in Frames
  BY DEF Types
<1>2. at = "send"
  BY DEF LadderStep, SendConfirmed, SendSlips, SendTooLarge, SendRefused, SendUnconfirmed
<1>3. ASSUME at' = at, f'.then = f.then, f'.op = f.op, f'.kind = f.kind
      PROVE  Routed'
  BY <1>2, <1>3 DEF Routed, Swapping
<1>4. CASE SendConfirmed
  <2>1. LadderEnds => End \/ at' = "readSol"
    BY DEF LadderEnds
  <2> QED
    BY <1>4, <2>1, EndRouted, OrdinaryRouted DEF SendConfirmed, Ordinary
<1>5. Halve => Routed'
  BY <1>3, HalveFrame, EndRouted
<1>6. CASE SendSlips
  <2>1. CASE f' = [f EXCEPT !.step = @ + 1] /\ UNCHANGED at
    <3>1. f'.then = f.then /\ f'.op = f.op /\ f'.kind = f.kind
      BY <1>1, <2>1 DEF Frames
    <3> QED
      BY <1>3, <2>1, <3>1
  <2> QED
    BY <1>5, <1>6, <2>1, EndRouted DEF SendSlips
<1> QED
  BY <1>4, <1>5, <1>6, EndRouted DEF LadderStep, SendTooLarge, SendRefused, SendUnconfirmed

LEMMA ReadsRouted ==
  ASSUME Types, Control, Routed, ExcessReads \/ UserReads \/ ReadSol \/ ReadUsdc
  PROVE  Routed'
<1>1. f \in Frames /\ f.then \in Thens
  BY DEF Types, Frames
<1>2. ASSUME NEW sell, NEW amount, at = "start", StartSwap(sell, amount, "idle"), f' = f
      PROVE  Routed'
  BY <1>2, SwapIs DEF Routed
<1>3. CASE ExcessReads
  <2>1. CASE f' = [f EXCEPT !.attempt = @ + 1] /\ UNCHANGED at
    <3>1. f'.then = f.then /\ at' = "start"
      BY <1>1, <1>3, <2>1 DEF ExcessReads, Frames
    <3> QED
      BY <1>3, <3>1 DEF ExcessReads, Routed, Swapping
  <2> QED
    BY <1>2, <1>3, <2>1, EndRouted DEF ExcessReads
<1>4. CASE UserReads
  BY <1>2, <1>4, EndRouted DEF UserReads
<1>5. CASE ReadSol
  BY <1>5, EndRouted, OrdinaryRouted DEF ReadSol, Ordinary
<1>6. CASE ReadUsdc
  <2>1. at' = f.then /\ f'.then = f.then
    BY <1>1, <1>6 DEF ReadUsdc, Frames
  <2> QED
    BY <1>1, <2>1, OrdinaryRouted DEF Routed, Swapping, Thens, Ordinary
<1> QED
  BY <1>3, <1>4, <1>5, <1>6

LEMMA OpenRouted ==
  ASSUME Types, Control, Routed, OpenStep
  PROVE  Routed'
<1>1. f \in Frames
  BY DEF Types
<1>2. CASE OpenDecides
  <2>1. ASSUME NEW p \in Positions, StartLadder(Ladder("open", p, f.mode, 1), "send")
        PROVE  Routed'
    <3>1. at' = "send" /\ f'.kind = "open"
      BY <1>1, <2>1, LadderIs DEF StartLadder
    <3> QED
      BY <3>1 DEF Routed, Swapping
  <2>2. CASE f' = [f EXCEPT !.attempt = @ + 1] /\ at' = "buySol"
    <3>1. f'.then = "decide"
      BY <1>1, <1>2, <2>2 DEF Frames, OpenDecides, Control
    <3> QED
      BY <2>2, <3>1 DEF Routed, Swapping, Buys
  <2> QED
    BY <1>2, <2>1, <2>2, EndRouted DEF OpenDecides
<1>3. CASE BuySol
  <2>1. at' = "buyUsdc" \/ (at' = "swap" /\ sw'.back = "buyUsdc")
    BY <1>3, SwapIs DEF BuySol
  <2> QED
    BY <1>3, <2>1 DEF BuySol, Routed, Swapping, Buys
<1>4. CASE OpenBuysUsdc
  <2>1. ASSUME NEW sell, NEW amount, StartSwap(sell, amount, "readSol"), f' = f
        PROVE  Routed'
    BY <1>4, <2>1, SwapIs DEF OpenBuysUsdc, Routed, Buys
  <2> QED
    BY <1>4, <2>1, EndRouted, OrdinaryRouted DEF OpenBuysUsdc, Ordinary
<1> QED
  BY <1>2, <1>3, <1>4 DEF OpenStep

LEMMA WithdrawalRouted ==
  ASSUME Types, Control, Places, Routed, DecreaseStarts \/ IncBudget
  PROVE  Routed'
<1>1. f \in Frames
  BY DEF Types
<1>2. CASE DecreaseStarts
  <2>1. ASSUME NEW units,
               StartLadder([Ladder("decrease", f.pos, f.mode, units) EXCEPT !.before = f.free],
                           "send")
        PROVE  Routed'
    <3> DEFINE ladder == Ladder("decrease", f.pos, f.mode, units)
    <3>1. ladder.op = f.op /\ ladder.then = f.then
      BY <1>1, LadderIs
    <3>2. [ladder EXCEPT !.before = f.free].op = f.op /\ [ladder EXCEPT !.before = f.free].then = f.then
      BY <3>1 DEF Ladder
    <3>3. at' = "send" /\ f'.op = f.op /\ f'.then = f.then
      BY <2>1, <3>2 DEF StartLadder
    <3>4. f.op = "inc" => f.then = "measured"
      BY <1>2 DEF DecreaseStarts, Places
    <3> QED
      BY <3>3, <3>4 DEF Routed, Swapping
  <2> QED
    BY <1>2, <2>1, EndRouted DEF DecreaseStarts
<1>3. CASE IncBudget
  <2>1. f.then = "freed"
    BY <1>3 DEF IncBudget, Control
  <2>2. CASE f' = [f EXCEPT !.budget = Freed.usdc + Freed.sol * Price,
                            !.free = Coins(0, 0), !.before = Coins(0, 0)] /\ at' = "target"
    <3>1. f'.then = f.then
      BY <1>1, <2>2 DEF Frames
    <3> QED
      BY <2>1, <2>2, <3>1 DEF Routed, Swapping
  <2> QED
    BY <1>3, <2>2, EndRouted DEF IncBudget
<1> QED
  BY <1>2, <1>3

LEMMA IncreaseRouted ==
  ASSUME Types, Control, Ladders, Routed, IncreaseStep
  PROVE  Routed'
<1>1. f \in Frames
  BY DEF Types
<1>2. CASE TargetOnlyA
  <2>1. at' = "swap" /\ sw'.back = "quote" /\ f'.then = f.then
    BY <1>1, <1>2, SwapIs DEF TargetOnlyA, Frames
  <2> QED
    BY <1>2, <2>1 DEF TargetOnlyA, Routed
<1>3. CASE FundOnlyB
  <2>1. f.then = "fund"
    BY <1>3 DEF FundOnlyB, Control
  <2>2. CASE f' = f /\ (at' = "quote" \/ (at' = "swap" /\ sw'.back = "quote"))
    BY <2>1, <2>2 DEF Routed, Swapping
  <2> QED
    BY <1>3, <2>2, SwapIs, EndRouted DEF FundOnlyB
<1>4. CASE FundMixed
  BY <1>4 DEF FundMixed, Control, Routed, Swapping, Buys
<1>5. CASE IncreaseBuysUsdc
  <2>1. /\ f.then = "fund" /\ f'.then = "fund" /\ f'.kind = f.kind
        /\ AfterFunding \in {"quote", "readSol", "send"}
        /\ at' = AfterFunding \/ (at' = "swap" /\ sw'.back = AfterFunding)
    BY <1>5, Funding
  <2>2. f'.mode = f.mode /\ f.mode = "Mixed"
    <3>1. PICK more : f' = [f EXCEPT !.attempt = more]
      BY <1>5 DEF IncreaseBuysUsdc
    <3> QED
      BY <1>1, <1>5, <2>1, <3>1 DEF Frames, IncreaseBuysUsdc, Routed, Buys
  <2>3. at' = "send" => f'.kind = "increase"
    <3>1. f.attempt \in 1..3
      BY <1>1 DEF Frames
    <3>2. at' = "send" => f.attempt >= 2
      BY <2>1, <3>1 DEF AfterFunding
    <3> QED
      BY <1>5, <2>1, <3>2 DEF IncreaseBuysUsdc, Ladders, Second
  <2> QED
    BY <2>1, <2>2, <2>3 DEF Routed, Swapping, Buys
<1>6. CASE Quote
  <2>1. ASSUME StartLadder(Ladder("increase", f.to, f.mode, UnitsFor(f.budget)), "send")
        PROVE  Routed'
    <3>1. at' = "send" /\ f'.kind = "increase"
      BY <1>1, <2>1, LadderIs DEF StartLadder
    <3> QED
      BY <3>1 DEF Routed, Swapping
  <2>2. ASSUME NEW frame, StartLadder(frame, "readSol")
        PROVE  Routed'
    BY <2>2, OrdinaryRouted DEF StartLadder, Ordinary
  <2> QED
    BY <1>6, <2>1, <2>2, EndRouted DEF Quote
<1>7. CASE TargetOther \/ TargetFails
  BY <1>7, EndRouted, OrdinaryRouted DEF TargetOther, TargetFails, Ordinary
<1> QED
  BY <1>2, <1>3, <1>4, <1>5, <1>6, <1>7 DEF IncreaseStep

LEMMA CallRouted ==
  ASSUME Calls
  PROVE  Routed'
<1>1. CASE CallExcess
  BY <1>1 DEF CallExcess, Begin, NoFrame, Routed, Swapping
<1>2. CASE CallUser
  BY <1>2 DEF CallUser, Begin, NoFrame, Routed, Swapping
<1>3. CASE CallOpen \/ CallInc
  BY <1>3, OrdinaryRouted DEF CallOpen, CallInc, Begin, Ordinary
<1>4. CASE CallDecrease
  BY <1>4 DEF CallDecrease, Begin, NoFrame, Routed, Swapping
<1>5. CASE CallIncrease
  BY <1>5 DEF CallIncrease, Begin, NoFrame, Routed, Swapping
<1> QED
  BY <1>1, <1>2, <1>3, <1>4, <1>5 DEF Calls

LEMMA RoutedAlways == FundsSpec => [](Types /\ Control /\ Ladders /\ Places /\ Routed)
<1>1. FundsInit => Routed
  BY DEF FundsInit, NoFrame, Routed, Swapping
<1>2. Types /\ Control /\ Ladders /\ Places /\ Routed /\ [FundsNext]_vars => Routed'
  <2> SUFFICES ASSUME Types, Control, Ladders, Places, Routed, [FundsNext]_vars
               PROVE  Routed'
    OBVIOUS
  <2>1. CASE Step
    BY <2>1, SwapRouted, LadderRouted, ReadsRouted, OpenRouted, WithdrawalRouted,
       IncreaseRouted DEF Step
  <2>2. CASE UNCHANGED <<at, f, sw>>
    BY <2>2 DEF Routed, Swapping, Buys
  <2> QED
    BY <2>1, <2>2, CallRouted DEF FundsNext, OthersMove, Settle, vars
<1> QED
  BY <1>1, <1>2, PlacesAlways, PTL DEF FundsSpec

LEMMA Lexicographic ==
  ASSUME NEW a, NEW b, NEW c, NEW d, NEW e, NEW u, NEW v, NEW w, NEW x, NEW y,
         \/ a < u
         \/ a = u /\ b < v
         \/ a = u /\ b = v /\ c < w
         \/ a = u /\ b = v /\ c = w /\ d < x
         \/ a = u /\ b = v /\ c = w /\ d = x /\ e < y
  PROVE  Below(<<a, b, c, d, e>>, <<u, v, w, x, y>>)
BY DEF Below

Units == IF at = "send" THEN f.units ELSE 0

\* The ways to come nearer to the end.
LEMMA Nearer ==
  ASSUME ~Ended, ~Ended',
         \/ Stage[f'.then] < Stage[f.then]
         \/ f'.then = f.then /\ 3 - f'.attempt < 3 - f.attempt
         \/ f'.then = f.then /\ f'.attempt = f.attempt /\ Place' < Place
         \/ f'.then = f.then /\ f'.attempt = f.attempt /\ Place' = Place /\ Units' < Units
         \/ /\ f'.then = f.then /\ f'.attempt = f.attempt /\ Place' = Place /\ Units' = Units
            /\ Tries' < Tries
  PROVE  Below(Rank', Rank)
BY Lexicographic DEF Rank, Units

LEMMA EndIsNearer ==
  ASSUME Types, ~Ended, at' \in {"idle", "panicked"}
  PROVE  Below(Rank', Rank)
<1>1. 0 < Stage[f.then]
  BY DEF Types, Frames, Thens, Stage
<1> QED
  BY <1>1, Lexicographic DEF Rank, Ended

\* The places of a route, wherever an operation can be.
LEMMA PlaceIsNat ==
  ASSUME Types, Control, Routed, ~Ended
  PROVE  Place \in Nat
<1>1. at \in Labels /\ f.then \in Thens /\ sw.back \in Backs
  BY DEF Types, Frames, Swaps
<1>2. CASE Swapping
  <2>1. Route[sw.back] \in Nat
    BY <1>1, <1>2 DEF Backs, Route, OpenRoute, MixedRoute, PlainRoute, Control, Routed, Buys
  <2> QED
    BY <1>2, <2>1 DEF Place
<1>3. CASE ~Swapping
  <2>1. Route[at] \in Nat
    BY <1>1, <1>3 DEF Labels, Ended, Swapping, Route, OpenRoute, MixedRoute, PlainRoute, Control,
       Routed, Buys
  <2> QED
    BY <1>3, <2>1 DEF Place
<1> QED
  BY <1>2, <1>3

LEMMA RankIsNat ==
  ASSUME Types, Control, Routed
  PROVE  Rank \in Ranks
<1>1. CASE Ended
  BY <1>1 DEF Rank, Ranks
<1>2. CASE ~Ended
  <2>1. Stage[f.then] \in Nat /\ 3 - f.attempt \in Nat
    BY DEF Types, Frames, Thens, Stage
  <2>2. Units \in Nat
    BY DEF Types, Frames, Units
  <2>3. Tries \in Nat
    BY FundsAssumption DEF FundsAssumption, Types, Steps, Frames, Swaps, Tries
  <2> QED
    BY <1>2, <2>1, <2>2, <2>3, PlaceIsNat DEF Rank, Ranks, Units
<1> QED
  BY <1>1, <1>2

\* A swap that goes on has a step or a part less ahead.
LEMMA SwapTries ==
  ASSUME Types, SwapStep, at' \in {"swap", "part"}
  PROVE  Tries' < Tries
<1>1. /\ sw \in Swaps /\ sw.step \in 1..3 /\ sw.done \in Nat /\ sw.parts \in Nat
      /\ sw.back \in Backs /\ MaxParts \in Nat
  BY FundsAssumption DEF FundsAssumption, Types, Swaps
<1>2. ~SwapFails /\ ~SwapSucceeds
  BY <1>1 DEF SwapFails, SwapSucceeds, End, Backs
<1>3. ASSUME at = "swap", NEW retry, NextStep(retry)
      PROVE  Tries' < Tries
  <2>1. sw' = [sw EXCEPT !.step = @ + 1, !.retry = retry] /\ at' = "swap"
    BY <1>3 DEF NextStep
  <2>2. sw'.step = sw.step + 1
    BY <1>1, <2>1 DEF Swaps
  <2> QED
    BY <1>1, <1>3, <2>1, <2>2 DEF Tries
<1>4. CASE SwapSplits
  <2>1. PICK n \in 1..MaxParts : sw' = [sw EXCEPT !.parts = n]
    BY <1>4 DEF SwapSplits
  <2>2. sw'.parts = n /\ sw'.done = 0 /\ at = "swap" /\ at' = "part"
    BY <1>1, <1>4, <2>1 DEF SwapSplits, Types, Steps, Swaps
  <2> QED
    BY <1>1, <2>2 DEF Tries
<1>5. CASE PartSold
  <2>1. sw' = [sw EXCEPT !.done = @ + 1] /\ at = "part" /\ at' = "part"
    BY <1>2, <1>5 DEF PartSold
  <2>2. sw'.done = sw.done + 1 /\ sw'.parts = sw.parts
    BY <1>1, <2>1 DEF Swaps
  <2> QED
    BY <1>1, <2>1, <2>2 DEF Tries
<1> QED
  BY <1>2, <1>3, <1>4, <1>5 DEF SwapStep, SwapWithoutSale, SwapNotBuilt, SwapConfirmed, SwapRefused,
     SwapUnconfirmed, PartFails

LEMMA SwapNearer ==
  ASSUME Types, Control, Routed, SwapStep
  PROVE  Below(Rank', Rank)
<1>1. Swapping /\ SwapLeaves /\ f \in Frames /\ f.attempt \in 1..3 /\ ~Ended
  BY SwapFates DEF Types, Frames, Swapping, Ended
<1>2. CASE SwapStays
  <2>1. Place' = Place
    BY <1>1, <1>2 DEF SwapStays, Place, Swapping, Route
  <2>2. Units' = Units /\ ~Ended' /\ f' = f
    BY <1>1, <1>2 DEF SwapStays, Swapping, Units, Ended
  <2> QED
    BY <1>1, <1>2, <2>1, <2>2, SwapTries, Nearer DEF SwapStays
<1>3. CASE SwapReturns
  <2>1. f' = f /\ at' = sw.back /\ sw.back \in Backs /\ sw.back # "idle"
    BY <1>3 DEF SwapReturns, Types, Swaps
  <2>2. ~Swapping' /\ ~Ended'
    BY <2>1 DEF Swapping, Ended, Backs
  <2>3. Route' = Route
    BY <2>1 DEF Route
  <2>4. Place = 2 * Route[sw.back] + 1 /\ Place' = 2 * Route[sw.back]
    BY <1>1, <2>1, <2>2, <2>3 DEF Place
  <2>5. Place \in Nat /\ Route[sw.back] \in Nat
    BY <1>1, <2>1, <2>4, PlaceIsNat DEF Backs, Route, OpenRoute, MixedRoute, PlainRoute, Control,
       Routed, Buys, Types, Frames, Thens
  <2>6. Place' < Place
    BY <2>4, <2>5
  <2> QED
    BY <1>1, <2>1, <2>2, <2>6, Nearer
<1>4. CASE SwapRepeats
  <2>1. f'.then = f.then /\ f'.attempt = f.attempt + 1 /\ ~Ended'
    BY <1>1, <1>4 DEF SwapRepeats, Frames, Ended
  <2> QED
    BY <1>1, <2>1, Nearer
<1> QED
  BY <1>1, <1>2, <1>3, <1>4, EndIsNearer DEF SwapLeaves, SwapPanics, End

LEMMA LadderNearer ==
  ASSUME Types, Control, Routed, LadderStep
  PROVE  Below(Rank', Rank)
<1>1. f \in Frames /\ f.units \in Nat /\ f.step \in Nat /\ SlipSteps \in Nat
  BY FundsAssumption DEF FundsAssumption, Types, Frames
<1>2. at = "send" /\ ~Ended
  BY DEF LadderStep, SendConfirmed, SendSlips, SendTooLarge, SendRefused, SendUnconfirmed, Ended
<1>3. End => Below(Rank', Rank)
  BY <1>2, EndIsNearer DEF End
<1>4. ASSUME at' = at, f'.then = f.then, f'.attempt = f.attempt, f'.mode = f.mode
      PROVE  Place' = Place /\ ~Ended'
  BY <1>2, <1>4 DEF Place, Swapping, Route, Ended
<1>5. CASE SendConfirmed
  <2>1. CASE f.op = "inc" /\ f.kind = "decrease"
    <3>1. f' = [f EXCEPT !.then = "freed"] /\ at' = "readSol"
      BY <1>5, <2>1 DEF SendConfirmed, LadderEnds
    <3>2. f.then = "measured" /\ f'.then = "freed" /\ ~Ended'
      BY <1>1, <1>2, <2>1, <3>1 DEF Routed, Frames, Ended
    <3>3. Stage[f'.then] < Stage[f.then]
      BY <3>2 DEF Stage
    <3> QED
      BY <1>2, <3>2, <3>3, Nearer
  <2> QED
    BY <1>3, <1>5, <2>1 DEF SendConfirmed, LadderEnds
<1>6. ASSUME Halve
      PROVE  Below(Rank', Rank)
  <2>1. CASE f.units \div 2 > 0
    <3>1. f' = [f EXCEPT !.units = @ \div 2, !.step = 1] /\ at' = at
      BY <1>6, <2>1 DEF Halve
    <3>2. /\ f'.units = f.units \div 2 /\ f'.then = f.then /\ f'.attempt = f.attempt
          /\ f'.mode = f.mode
      BY <1>1, <3>1 DEF Frames
    <3>3. f.units \div 2 < f.units
      BY <1>1, <2>1
    <3> QED
      BY <1>2, <1>4, <3>1, <3>2, <3>3, Nearer DEF Units
  <2> QED
    BY <1>3, <1>6, <2>1 DEF Halve
<1>7. CASE SendSlips
  <2>1. CASE f' = [f EXCEPT !.step = @ + 1] /\ at' = at
    <3>1. /\ f'.step = f.step + 1 /\ f'.units = f.units /\ f'.then = f.then
          /\ f'.attempt = f.attempt /\ f'.mode = f.mode
      BY <1>1, <2>1 DEF Frames
    <3>2. Tries' < Tries /\ Units' = Units
      BY <1>1, <1>2, <2>1, <3>1 DEF Tries, Units
    <3> QED
      BY <1>2, <1>4, <2>1, <3>1, <3>2, Nearer
  <2> QED
    BY <1>3, <1>6, <1>7, <2>1 DEF SendSlips
<1> QED
  BY <1>3, <1>5, <1>6, <1>7 DEF LadderStep, SendTooLarge, SendRefused, SendUnconfirmed

LEMMA ReadsNearer ==
  ASSUME Types, Control, Routed, ExcessReads \/ UserReads \/ ReadSol \/ ReadUsdc
  PROVE  Below(Rank', Rank)
<1>1. f \in Frames /\ f.attempt \in 1..3 /\ f.then \in Thens
  BY DEF Types, Frames
<1>2. at \in {"start", "readSol", "readUsdc"} /\ ~Ended
  BY DEF ExcessReads, UserReads, ReadSol, ReadUsdc, Ended
<1>3. at' \in {"idle", "panicked"} => Below(Rank', Rank)
  BY <1>2, EndIsNearer
<1>4. End => Below(Rank', Rank)
  BY <1>3 DEF End
<1>5. ASSUME NEW sell, NEW amount, at = "start", StartSwap(sell, amount, "idle"), f' = f
      PROVE  Below(Rank', Rank)
  <2>1. at' = "swap" /\ sw'.back = "idle" /\ ~Ended' /\ f.then = "idle"
    BY <1>5, SwapIs DEF Routed, Ended
  <2>2. Place' < Place
    BY <1>5, <2>1 DEF Place, Route, Swapping, PlainRoute
  <2> QED
    BY <1>2, <1>5, <2>1, <2>2, Nearer
<1>6. CASE ExcessReads
  <2>1. CASE f' = [f EXCEPT !.attempt = @ + 1] /\ UNCHANGED at
    <3>1. f'.then = f.then /\ f'.attempt = f.attempt + 1 /\ ~Ended'
      BY <1>1, <1>2, <2>1 DEF Frames, Ended
    <3> QED
      BY <1>1, <1>2, <3>1, Nearer
  <2> QED
    BY <1>4, <1>5, <1>6, <2>1 DEF ExcessReads
<1>7. CASE UserReads
  BY <1>4, <1>5, <1>7 DEF UserReads
<1>8. CASE ReadSol
  <2>1. CASE f' = [f EXCEPT !.free.sol = SolSeen] /\ at' = "readUsdc"
    <3>1. f'.then = f.then /\ f'.attempt = f.attempt /\ f'.mode = f.mode /\ ~Ended'
      BY <1>1, <2>1 DEF Frames, Ended
    <3>2. Place' < Place
      BY <1>8, <2>1, <3>1
         DEF ReadSol, Place, Route, Swapping, OpenRoute, MixedRoute, PlainRoute
    <3> QED
      BY <1>2, <3>1, <3>2, Nearer
  <2> QED
    BY <1>3, <1>4, <1>8, <2>1 DEF ReadSol
<1>9. CASE ReadUsdc
  <2>1. PICK seen : f' = [f EXCEPT !.free.usdc = seen]
    BY <1>9 DEF ReadUsdc
  <2>2. f'.then = f.then /\ f'.attempt = f.attempt /\ f'.mode = f.mode /\ at' = f.then
    BY <1>1, <1>9, <2>1 DEF ReadUsdc, Frames
  <2>3. CASE f.then # "idle"
    <3>1. ~Ended' /\ Place' < Place
      BY <1>1, <1>9, <2>2, <2>3
         DEF ReadUsdc, Thens, Ended, Place, Route, Swapping, OpenRoute, MixedRoute, PlainRoute
    <3> QED
      BY <1>2, <2>2, <3>1, Nearer
  <2> QED
    BY <1>3, <2>2, <2>3
<1> QED
  BY <1>6, <1>7, <1>8, <1>9

LEMMA OpenNearer ==
  ASSUME Types, Control, Routed, OpenStep
  PROVE  Below(Rank', Rank)
<1>1. f \in Frames /\ f.attempt \in 1..3 /\ f.then \in Thens
  BY DEF Types, Frames
<1>2. at \in {"decide", "buySol", "buyUsdc"} /\ ~Ended
  BY DEF OpenStep, OpenDecides, BuySol, OpenBuysUsdc, Ended
<1>3. End => Below(Rank', Rank)
  BY <1>2, EndIsNearer DEF End
<1>4. CASE OpenDecides
  <2>1. f.then = "decide" /\ at = "decide"
    BY <1>4 DEF OpenDecides, Control
  <2>2. ASSUME NEW p, StartLadder(Ladder("open", p, f.mode, 1), "send")
        PROVE  Below(Rank', Rank)
    <3>1. at' = "send" /\ f'.then = f.then /\ f'.attempt = f.attempt /\ ~Ended'
      BY <1>1, <2>2, LadderIs DEF StartLadder, Ended
    <3>2. Place' < Place
      BY <2>1, <3>1 DEF Place, Route, Swapping, OpenRoute
    <3> QED
      BY <1>2, <3>1, <3>2, Nearer
  <2>3. CASE f' = [f EXCEPT !.attempt = @ + 1] /\ at' = "buySol"
    <3>1. f'.then = f.then /\ f'.attempt = f.attempt + 1 /\ ~Ended'
      BY <1>1, <2>3 DEF Frames, Ended
    <3> QED
      BY <1>1, <1>2, <3>1, Nearer
  <2> QED
    BY <1>3, <1>4, <2>2, <2>3 DEF OpenDecides
<1>5. CASE BuySol
  <2>1. /\ at = "buySol" /\ f' = f /\ ~Ended' /\ Buys
        /\ at' = "buyUsdc" \/ (at' = "swap" /\ sw'.back = "buyUsdc")
    BY <1>5, SwapIs DEF BuySol, Routed, Ended
  <2>2. Place' < Place
    BY <2>1 DEF Place, Buys, Route, Swapping, OpenRoute, MixedRoute
  <2> QED
    BY <1>2, <2>1, <2>2, Nearer
<1>6. CASE OpenBuysUsdc
  <2>1. f.then = "decide" /\ at = "buyUsdc"
    BY <1>6 DEF OpenBuysUsdc, Routed, Buys, Control
  <2>2. ASSUME f' = f, at' = "readSol" \/ (at' = "swap" /\ sw'.back = "readSol")
        PROVE  Below(Rank', Rank)
    <3>1. ~Ended' /\ Place' < Place
      BY <2>1, <2>2 DEF Ended, Place, Route, Swapping, OpenRoute
    <3> QED
      BY <1>2, <2>2, <3>1, Nearer
  <2> QED
    BY <1>3, <1>6, <2>2, SwapIs DEF OpenBuysUsdc
<1> QED
  BY <1>4, <1>5, <1>6 DEF OpenStep

LEMMA WithdrawalNearer ==
  ASSUME Types, Control, Routed, DecreaseStarts \/ IncBudget
  PROVE  Below(Rank', Rank)
<1>1. f \in Frames
  BY DEF Types
<1>2. at \in {"measured", "freed"} /\ ~Ended
  BY DEF DecreaseStarts, IncBudget, Ended
<1>3. End => Below(Rank', Rank)
  BY <1>2, EndIsNearer DEF End
<1>4. CASE DecreaseStarts
  <2>1. ASSUME NEW units,
               StartLadder([Ladder("decrease", f.pos, f.mode, units) EXCEPT !.before = f.free],
                           "send")
        PROVE  Below(Rank', Rank)
    <3> DEFINE ladder == Ladder("decrease", f.pos, f.mode, units)
    <3>1. ladder.then = f.then /\ ladder.attempt = f.attempt
      BY <1>1, LadderIs
    <3>2. /\ [ladder EXCEPT !.before = f.free].then = f.then
          /\ [ladder EXCEPT !.before = f.free].attempt = f.attempt
      BY <3>1 DEF Ladder
    <3>3. at' = "send" /\ f'.then = f.then /\ f'.attempt = f.attempt /\ ~Ended'
      BY <2>1, <3>2 DEF StartLadder, Ended
    <3>4. at = "measured" /\ f.then \in {"idle", "measured"}
      BY <1>4 DEF DecreaseStarts, Routed
    <3>5. Place' < Place
      BY <3>3, <3>4 DEF Place, Route, Swapping, PlainRoute
    <3> QED
      BY <1>2, <3>3, <3>5, Nearer
  <2> QED
    BY <1>3, <1>4, <2>1 DEF DecreaseStarts
<1>5. CASE IncBudget
  <2>1. at = "freed" /\ f.then = "freed"
    BY <1>5 DEF IncBudget, Control
  <2>2. CASE f' = [f EXCEPT !.budget = Freed.usdc + Freed.sol * Price,
                            !.free = Coins(0, 0), !.before = Coins(0, 0)] /\ at' = "target"
    <3>1. f'.then = f.then /\ f'.attempt = f.attempt /\ ~Ended'
      BY <1>1, <2>2 DEF Frames, Ended
    <3>2. Place' < Place
      BY <2>1, <2>2, <3>1 DEF Place, Route, Swapping, PlainRoute
    <3> QED
      BY <1>2, <3>1, <3>2, Nearer
  <2> QED
    BY <1>3, <1>5, <2>2 DEF IncBudget
<1> QED
  BY <1>4, <1>5

LEMMA IncreaseNearer ==
  ASSUME Types, Control, Places, Routed, IncreaseStep
  PROVE  Below(Rank', Rank)
<1>1. f \in Frames /\ f.attempt \in 1..3 /\ f.then \in Thens /\ f.mode \in Modes
  BY DEF Types, Frames
<1>2. at \in {"target", "fund", "buyUsdc", "quote"} /\ ~Ended
  BY DEF IncreaseStep, TargetOnlyA, TargetOther, TargetFails, FundOnlyB, FundMixed,
     IncreaseBuysUsdc, Quote, Ended
<1>3. End => Below(Rank', Rank)
  BY <1>2, EndIsNearer DEF End
<1>4. CASE TargetOnlyA
  <2>1. /\ f'.then = f.then /\ f'.attempt = f.attempt /\ at' = "swap" /\ sw'.back = "quote"
        /\ ~Ended'
    BY <1>1, <1>4, SwapIs DEF TargetOnlyA, Frames, Ended
  <2>2. at = "target" /\ f.then \in {"idle", "freed"}
    BY <1>4 DEF TargetOnlyA, Routed
  <2>3. Place' < Place
    BY <2>1, <2>2 DEF Place, Route, Swapping, PlainRoute
  <2> QED
    BY <1>2, <2>1, <2>3, Nearer
<1>5. CASE TargetOther
  <2>1. at' = "readSol" /\ f'.then = "fund"
    BY <1>5, TargetIs DEF TargetOther
  <2>2. f.then \in {"idle", "freed"}
    BY <1>5 DEF TargetOther, Routed
  <2>3. Stage[f'.then] < Stage[f.then] /\ ~Ended'
    BY <2>1, <2>2 DEF Stage, Ended
  <2> QED
    BY <1>2, <2>3, Nearer
<1>6. CASE FundOnlyB
  <2>1. at = "fund" /\ f.then = "fund" /\ f.mode = "OnlyB"
    BY <1>6 DEF FundOnlyB, Control
  <2>2. ASSUME f' = f, at' = "quote" \/ (at' = "swap" /\ sw'.back = "quote")
        PROVE  Below(Rank', Rank)
    <3>1. ~Ended' /\ Place' < Place
      BY <2>1, <2>2 DEF Ended, Place, Route, Swapping, PlainRoute
    <3> QED
      BY <1>2, <2>2, <3>1, Nearer
  <2> QED
    BY <1>3, <1>6, <2>2, SwapIs DEF FundOnlyB
<1>7. CASE FundMixed
  <2>1. /\ at = "fund" /\ f.then = "fund" /\ f.mode = "Mixed" /\ f' = f /\ at' = "buySol"
        /\ ~Ended'
    BY <1>7 DEF FundMixed, Control, Ended
  <2>2. Place' < Place
    BY <2>1 DEF Place, Route, Swapping, MixedRoute
  <2> QED
    BY <1>2, <2>1, <2>2, Nearer
<1>8. CASE IncreaseBuysUsdc
  <2>1. /\ at = "buyUsdc" /\ f.then = "fund" /\ f'.then = "fund"
        /\ AfterFunding \in {"quote", "readSol", "send"}
        /\ at' = AfterFunding \/ (at' = "swap" /\ sw'.back = AfterFunding)
    BY <1>8, Funding DEF IncreaseBuysUsdc
  <2>2. ~Ended'
    BY <2>1 DEF Ended
  <2>3. f' = [f EXCEPT !.attempt = IF @ < 3 THEN @ + 1 ELSE 3]
    BY <1>8 DEF IncreaseBuysUsdc
  <2>4. CASE f.attempt < 3
    <3>1. f'.attempt = f.attempt + 1
      BY <1>1, <2>3, <2>4 DEF Frames
    <3> QED
      BY <1>1, <1>2, <2>1, <2>2, <3>1, Nearer
  <2>5. CASE f.attempt = 3
    <3>1. f'.attempt = f.attempt /\ f'.mode = f.mode /\ AfterFunding = "send"
      BY <1>1, <2>3, <2>5 DEF Frames, AfterFunding
    <3>2. f.mode = "Mixed"
      BY <2>1 DEF Routed, Buys
    <3>3. Place' < Place
      BY <2>1, <3>1, <3>2 DEF Place, Route, Swapping, MixedRoute
    <3> QED
      BY <1>2, <2>1, <2>2, <3>1, <3>3, Nearer
  <2> QED
    BY <1>1, <2>4, <2>5
<1>9. CASE Quote
  <2>1. at = "quote" /\ f.then # "decide" /\ (f.mode = "Mixed" => f.then = "fund")
    BY <1>9 DEF Quote, Routed, Places
  <2>2. CASE f.mode = "Mixed" /\
             StartLadder([Ladder("increase", f.to, "Mixed", Quoted)
                            EXCEPT !.need = Coins(Quoted, Quoted * Price)], "readSol")
    <3> DEFINE ladder == Ladder("increase", f.to, "Mixed", Quoted)
               need == Coins(Quoted, Quoted * Price)
    <3>1. ladder.then = f.then /\ ladder.attempt = f.attempt /\ ladder.mode = "Mixed"
      BY <1>1, LadderIs DEF Ladder, Frames
    <3>2. /\ [ladder EXCEPT !.need = need].then = f.then
          /\ [ladder EXCEPT !.need = need].attempt = f.attempt
          /\ [ladder EXCEPT !.need = need].mode = "Mixed"
      BY <3>1 DEF Ladder
    <3>3. /\ at' = "readSol" /\ f'.then = f.then /\ f'.attempt = f.attempt
          /\ f'.mode = "Mixed" /\ ~Ended'
      BY <2>2, <3>2 DEF StartLadder, Ended
    <3>4. Place' < Place
      BY <2>1, <2>2, <3>3 DEF Place, Route, Swapping, MixedRoute
    <3> QED
      BY <1>2, <3>3, <3>4, Nearer
  <2>3. CASE f.mode # "Mixed" /\
             StartLadder(Ladder("increase", f.to, f.mode, UnitsFor(f.budget)), "send")
    <3>1. Ladder("increase", f.to, f.mode, UnitsFor(f.budget)).mode = f.mode
      BY <1>1 DEF Ladder, Frames
    <3>2. /\ at' = "send" /\ f'.then = f.then /\ f'.attempt = f.attempt /\ f'.mode = f.mode
          /\ ~Ended'
      BY <1>1, <2>3, <3>1, LadderIs DEF StartLadder, Ended
    <3>3. Place' < Place
      BY <2>1, <2>3, <3>2 DEF Place, Route, Swapping, PlainRoute
    <3> QED
      BY <1>2, <3>2, <3>3, Nearer
  <2> QED
    BY <1>3, <1>9, <2>2, <2>3 DEF Quote
<1> QED
  BY <1>3, <1>4, <1>5, <1>6, <1>7, <1>8, <1>9 DEF IncreaseStep, TargetFails

LEMMA StepNearer ==
  ASSUME Types, Control, Places, Routed, Step
  PROVE  Rank \in Ranks /\ Below(Rank', Rank)
BY RankIsNat, SwapNearer, LadderNearer, ReadsNearer, OpenNearer, WithdrawalNearer, IncreaseNearer
   DEF Step

\* Whatever Jupiter, the nodes and the chain answer, no operation goes in a
\* circle: the attempts of swap_excess_to_usdc, the three steps and the parts
\* of execute_swap_tokens, the rounds of rebalance_before_open, the slippage
\* ladders with their halvings and the three fundings of a mixed deposit each
\* use up something that no later step gives back.
THEOREM OperationNearsItsEnd == FundsSpec => NearsItsEnd
<1>1. Types /\ Control /\ Ladders /\ Places /\ Routed /\ [FundsNext]_vars
        => [Step => Rank \in Ranks /\ Below(Rank', Rank)]_vars
  BY StepNearer
<1> QED
  BY <1>1, RoutedAlways, PTL DEF FundsSpec, NearsItsEnd

=============================================================================
