------------------------------- MODULE Funds -------------------------------
(***************************************************************************)
(* The money of the wallet: the operations that swap, deposit and withdraw *)
(* (dex_services/swap.rs, dex_services/wirlpool.rs, utils.rs and the       *)
(* Telegram commands su, us, safe, mliq, pliq and inc of registry.rs).     *)
(*                                                                         *)
(* One task runs one operation at a time, await by await.  No operation    *)
(* here but the opening holds WALLET_MUTEX, and a swap never asks for it,  *)
(* so the rest of the bot may move funds between any two awaits            *)
(* (OthersMove).  A transaction whose confirmation failed stays pending:   *)
(* it lands or expires at any later time.                                  *)
(*                                                                         *)
(* Amounts are whole units of a grid, SOL is worth Price USDC, and a       *)
(* percentage margin is one unit.  Fees are left out, and so is the        *)
(* wrapped SOL account, which the SDK empties in every transaction.        *)
(* Jupiter, the RPC nodes and the chain are external.                      *)
(***************************************************************************)
EXTENDS Integers

CONSTANTS
  Price,        \* USDC per SOL
  Positions,    \* liquidity positions
  SolAtFirst, UsdcAtFirst,  \* what the wallet may begin with (bounds)
  MaxUnits,     \* what each position begins with (a bound)
  MinSwap,      \* MIN_SWAP_ATOMS
  Reserve,      \* SOL kept back by the opening and by an increase
  Keep,         \* keep_amount of swap_excess_to_usdc
  FeeBuffer,    \* FEE_BUFFER_SOL
  SlipSteps,    \* slippage steps of a ladder: 4, and up to 5 when opening
  MaxParts,     \* parts of a split swap: 4
  Slots,        \* transactions pending at once (a bound)
  MaxCalls,     \* operations per behaviour (a bound)
  MaxTroubles   \* missed confirmations and moves of other tasks (a bound)

ASSUME FundsAssumption ==
  /\ Price \in Nat \ {0} /\ SlipSteps \in Nat \ {0} /\ MaxParts \in Nat \ {0}
  /\ SolAtFirst \subseteq Nat /\ UsdcAtFirst \subseteq Nat /\ MaxUnits \in Nat /\ MinSwap \in Nat
  /\ Reserve \in Nat /\ Keep \in Nat /\ FeeBuffer \in Nat
  /\ MaxCalls \in Nat /\ MaxTroubles \in Nat
  /\ Positions # {} /\ Slots # {}

VARIABLES
  wallet,    \* balances
  liq,       \* units of liquidity of each position
  pending,   \* effects of the transactions that may still land, by slot
  at,        \* the await the operation is at
  f,         \* locals of the operation
  sw,        \* locals of execute_swap_tokens
  log,       \* history of the current swap, ladder and operation
  calls,     \* operations so far
  troubles   \* missed confirmations and moves of other tasks so far

vars == <<wallet, liq, pending, at, f, sw, log, calls, troubles>>

Operations == {"excess", "user", "open", "decrease", "increase", "inc"}
Labels == {"idle", "panicked", "start", "readSol", "readUsdc", "decide",
  "buySol", "buyUsdc", "fund", "quote", "measured", "freed", "swap", "part",
  "send", "target"}

Balances == [sol: Nat, usdc: Nat]
Coins(s, u) == [sol |-> s, usdc |-> u]

\* What a unit of liquidity is made of: a range above the price (OnlyA), around
\* it (Mixed) or below it (OnlyB).  All are worth the same.
Unit(mode) ==
  IF mode = "OnlyA" THEN Coins(2, 0)
  ELSE IF mode = "Mixed" THEN Coins(1, Price) ELSE Coins(0, 2 * Price)
Modes == {"OnlyA", "Mixed", "OnlyB"}
UnitValue == 2 * Price

\* The margins OVR and BUFFER, and saturating subtraction.
Over(x) == IF x > 0 THEN x + 1 ELSE 0
Buffered(x) == IF x > 0 THEN x + 1 ELSE 0
Monus(x, y) == IF x > y THEN x - y ELSE 0
InSol(x) == (x + Price - 1) \div Price

Effects == [sol: Int, usdc: Int, pos: Positions, units: Int, current: BOOLEAN]
SomePosition == CHOOSE p \in Positions : TRUE
Nothing == [sol |-> 0, usdc |-> 0, pos |-> SomePosition, units |-> 0, current |-> FALSE]

Kinds == {"open", "decrease", "increase"}
NoFrame == [op |-> "user", then |-> "idle", attempt |-> 1, free |-> Coins(0, 0),
            need |-> Coins(0, 0), before |-> Coins(0, 0), budget |-> 0,
            pos |-> SomePosition, to |-> SomePosition, mode |-> "Mixed",
            kind |-> "open", units |-> 0, asked |-> 0, step |-> 1]
NoSwap == [sell |-> "sol", amount |-> 0, step |-> 1, retry |-> 0, parts |-> 1,
           done |-> 0, back |-> "idle"]
NoLog == [sold |-> 0, missed |-> 0, moved |-> 0, withdrawn |-> 0,
          disturbed |-> FALSE, blind |-> FALSE]

FundsTypeOK ==
  /\ wallet \in Balances
  /\ liq \in [Positions -> Nat]
  /\ pending \in [Slots -> Effects]
  /\ at \in Labels
  /\ f \in [op: Operations, then: Labels, attempt: 1..3, free: Balances,
            need: Balances, before: Balances, budget: Nat, pos: Positions,
            to: Positions, mode: Modes, kind: Kinds, units: Nat, asked: Nat,
            step: 1..SlipSteps]
  /\ sw \in [sell: {"sol", "usdc"}, amount: Nat, step: 1..3, retry: 0..2,
             parts: 1..MaxParts, done: 0..MaxParts, back: Labels]
  /\ log \in [sold: Nat, missed: 0..3, moved: Nat, withdrawn: Nat,
              disturbed: BOOLEAN, blind: BOOLEAN]
  /\ calls \in 0..MaxCalls /\ troubles \in 0..MaxTroubles

FundsInit ==
  /\ wallet \in [sol: SolAtFirst, usdc: UsdcAtFirst]
  /\ liq = [p \in Positions |-> MaxUnits]
  /\ pending = [s \in Slots |-> Nothing]
  /\ at = "idle"
  /\ f = NoFrame
  /\ sw = NoSwap
  /\ log = NoLog
  /\ calls = 0 /\ troubles = 0

-----------------------------------------------------------------------------
(***************************************************************************)
(* Transactions.                                                           *)
(***************************************************************************)

Bounds == UNCHANGED <<calls, troubles>>
Chain == UNCHANGED <<wallet, liq, pending>>
Here == UNCHANGED <<wallet, liq, pending, sw, log, calls, troubles>>

Lands(e) ==
  /\ wallet.sol + e.sol >= 0 /\ wallet.usdc + e.usdc >= 0
  /\ liq[e.pos] + e.units >= 0
  /\ wallet' = Coins(wallet.sol + e.sol, wallet.usdc + e.usdc)
  /\ liq' = [liq EXCEPT ![e.pos] = @ + e.units]

\* A transaction of earlier swaps or ladders does not count as theirs.
Aged == [s \in Slots |-> [pending[s] EXCEPT !.current = FALSE]]

\* The confirmation failed or gave up, although the transaction was sent.
Misses(e) ==
  /\ troubles < MaxTroubles
  /\ troubles' = troubles + 1
  /\ \E s \in Slots :
       pending[s] = Nothing /\ pending' = [pending EXCEPT ![s] = e]
  /\ UNCHANGED <<wallet, liq, calls>>

\* The operation returns; its frame keeps only what it was about.
End ==
  /\ at' = "idle"
  /\ f' = [NoFrame EXCEPT !.op = f.op, !.kind = f.kind, !.asked = f.asked]

-----------------------------------------------------------------------------
(***************************************************************************)
(* execute_swap_tokens: three steps of slippage.                           *)
(***************************************************************************)

StartSwap(sell, amount, back) ==
  /\ sw' = [NoSwap EXCEPT !.sell = sell, !.amount = amount, !.back = back]
  /\ log' = [log EXCEPT !.sold = 0, !.missed = 0]
  /\ pending' = Aged
  /\ at' = "swap"

SwapOver == sw' = [NoSwap EXCEPT !.sell = sw.sell, !.amount = sw.amount]

\* Its result: swap_excess_to_usdc tries again, with a balance it reads again;
\* every other caller returns the error.
SwapFails ==
  /\ SwapOver
  /\ IF f.op = "excess" /\ f.attempt < 3
     THEN at' = "start" /\ f' = [f EXCEPT !.attempt = @ + 1]
     ELSE End

SwapSucceeds ==
  /\ SwapOver
  /\ IF sw.back = "idle" THEN End ELSE at' = sw.back /\ UNCHANGED f

\* After the third step the loop runs into unreachable!(): the task panics.
NextStep(retry) ==
  /\ UNCHANGED f
  /\ \/ sw.step < 3 /\ UNCHANGED at
        /\ sw' = [sw EXCEPT !.step = @ + 1, !.retry = retry]
     \/ sw.step = 3 /\ at' = "panicked" /\ SwapOver

Received(amount, loss) ==
  IF sw.sell = "sol" THEN Monus(amount * Price, loss) ELSE Monus(amount, loss) \div Price

Sale(amount, loss) ==
  IF sw.sell = "sol"
  THEN [Nothing EXCEPT !.sol = -amount, !.usdc = Received(amount, loss), !.current = TRUE]
  ELSE [Nothing EXCEPT !.usdc = -amount, !.sol = Received(amount, loss), !.current = TRUE]

\* Nothing is sold, and that is an error (no quote, no price) or a success: the
\* amount is below MIN_SWAP_ATOMS, or the node "could not find account".
SwapWithoutSale ==
  /\ at = "swap"
  /\ SwapSucceeds \/ SwapFails
  /\ Chain /\ Bounds /\ UNCHANGED log

\* No transaction in the answer: `slippage_bps == 150` never holds.
SwapNotBuilt ==
  /\ at = "swap" /\ sw.amount >= MinSwap
  /\ NextStep(sw.retry)
  /\ Chain /\ Bounds /\ UNCHANGED log

\* Confirmed; the balances that are read afterwards may fail the call.
SwapConfirmed ==
  /\ at = "swap" /\ sw.amount >= MinSwap
  /\ \E loss \in {0, 1} : Lands(Sale(sw.amount, loss))
  /\ log' = [log EXCEPT !.sold = @ + sw.amount]
  /\ SwapSucceeds \/ SwapFails
  /\ UNCHANGED pending /\ Bounds

\* A program error.  A retryable one counts up to MAX_RETRY, which three steps
\* never reach; of the others the third one is returned.
SwapRefused ==
  /\ at = "swap" /\ sw.amount >= MinSwap
  /\ \/ NextStep(IF sw.retry < 2 THEN sw.retry + 1 ELSE 2)
     \/ sw.retry = 2 /\ SwapFails
  /\ Chain /\ Bounds /\ UNCHANGED log

\* Any other error includes one of the confirmation.
SwapUnconfirmed ==
  /\ at = "swap" /\ sw.amount >= MinSwap
  /\ Misses(Sale(sw.amount, 0))
  /\ log' = [log EXCEPT !.missed = @ + 1, !.disturbed = TRUE]
  /\ IF sw.retry < 2 THEN NextStep(sw.retry + 1) ELSE SwapFails

\* A liquidity error: the amount is sold in equal parts, by its worth in USD.
SwapSplits ==
  /\ at = "swap" /\ sw.amount >= MinSwap
  /\ \E n \in 1..MaxParts :
       /\ sw.amount % n = 0
       /\ sw' = [sw EXCEPT !.parts = n]
  /\ at' = "part"
  /\ Chain /\ Bounds /\ UNCHANGED <<f, log>>

\* Mutant: each part is the whole amount.
ChunkWhole == sw.amount

Chunk == sw.amount \div sw.parts

\* swap_once_wrap for one part; any error ends the swap half sold.
PartSold ==
  /\ at = "part" /\ Chunk >= MinSwap
  /\ \E loss \in {0, 1} : Lands(Sale(Chunk, loss))
  /\ log' = [log EXCEPT !.sold = @ + Chunk]
  /\ IF sw.done + 1 < sw.parts
     THEN sw' = [sw EXCEPT !.done = @ + 1] /\ UNCHANGED <<at, f>>
     ELSE SwapSucceeds \/ SwapFails
  /\ UNCHANGED pending /\ Bounds

PartFails ==
  /\ at = "part"
  /\ \/ Chain /\ Bounds /\ UNCHANGED log
     \/ /\ Chunk >= MinSwap /\ Misses(Sale(Chunk, 0))
        /\ log' = [log EXCEPT !.missed = @ + 1, !.disturbed = TRUE]
  /\ SwapFails

SwapStep ==
  \/ SwapWithoutSale \/ SwapNotBuilt \/ SwapConfirmed \/ SwapRefused
  \/ SwapUnconfirmed \/ SwapSplits \/ PartSold \/ PartFails

-----------------------------------------------------------------------------
(***************************************************************************)
(* Ladders: a transaction that moves liquidity is built and sent again     *)
(* with more slippage.                                                     *)
(***************************************************************************)

\* Only these errors, which show that nothing was executed, lead to the next
\* step; any other error is returned.
Ladder(kind, pos, mode, units) ==
  [f EXCEPT !.kind = kind, !.pos = pos, !.mode = mode, !.units = units,
            !.asked = units, !.step = 1, !.free = Coins(0, 0), !.before = Coins(0, 0),
            !.budget = 0]

StartLadder(frame, next) ==
  /\ f' = frame
  /\ log' = [log EXCEPT !.moved = 0, !.sold = 0, !.missed = 0]
  /\ sw' = NoSwap
  /\ pending' = Aged
  /\ at' = next

Moved(mode) ==
  LET sign == IF f.kind = "decrease" THEN 1 ELSE -1
  IN [sol |-> sign * f.units * Unit(mode).sol, usdc |-> sign * f.units * Unit(mode).usdc,
      pos |-> f.pos, units |-> -sign * f.units, current |-> TRUE]

\* The composition of a withdrawal depends on the price at which it lands.
Outcomes == IF f.kind = "decrease" THEN Modes ELSE {f.mode}

\* The operation goes on after a withdrawal of inc; else it has ended.
LadderEnds ==
  IF f.op = "inc" /\ f.kind = "decrease"
  THEN at' = "readSol" /\ f' = [f EXCEPT !.then = "freed"]
  ELSE End

SendConfirmed ==
  /\ at = "send"
  /\ \E mode \in Outcomes : Lands(Moved(mode))
  /\ log' = [log EXCEPT !.moved = @ + f.units,
                        !.withdrawn = IF f.kind = "decrease" THEN @ + f.units ELSE @]
  /\ LadderEnds
  /\ UNCHANGED <<pending, sw>> /\ Bounds

\* Mutant: the last unit is tried again and again.
HalveForever ==
  /\ f.kind = "decrease"
  /\ f' = [f EXCEPT !.units = IF @ \div 2 > 0 THEN @ \div 2 ELSE 1, !.step = 1]
  /\ UNCHANGED at

\* Half of a withdrawal that is too large, until nothing is left of it.
Halve ==
  /\ f.kind = "decrease"
  /\ IF f.units \div 2 > 0
     THEN f' = [f EXCEPT !.units = @ \div 2, !.step = 1] /\ UNCHANGED at
     ELSE End

\* Mutant: one step more than there are slippages.
SendSlipsPastTheLast ==
  /\ at = "send"
  /\ \/ f.step <= SlipSteps /\ f' = [f EXCEPT !.step = @ + 1] /\ UNCHANGED at
     \/ f.step > SlipSteps /\ f.kind = "decrease" /\ Halve
     \/ f.step > SlipSteps /\ f.kind # "decrease" /\ End
  /\ Here

\* Too little slippage (or, for a withdrawal, no instructions).
SendSlips ==
  /\ at = "send"
  /\ \/ f.step < SlipSteps /\ f' = [f EXCEPT !.step = @ + 1] /\ UNCHANGED at
     \/ f.step = SlipSteps /\ f.kind = "decrease" /\ Halve
     \/ f.step = SlipSteps /\ f.kind # "decrease" /\ End
  /\ Here

\* LiquidityUnderflow, or an amount that exceeds u64.
SendTooLarge == at = "send" /\ Halve /\ Here

\* Any other error.
SendRefused == at = "send" /\ End /\ Here

\* Mutant: a missed confirmation leads to the next step too.
SendUnconfirmedAgain ==
  /\ at = "send"
  /\ \E mode \in Outcomes : Misses(Moved(mode))
  /\ log' = [log EXCEPT !.disturbed = TRUE]
  /\ IF f.step < SlipSteps THEN f' = [f EXCEPT !.step = @ + 1] /\ UNCHANGED at ELSE End
  /\ UNCHANGED sw

SendUnconfirmed ==
  /\ at = "send"
  /\ \E mode \in Outcomes : Misses(Moved(mode))
  /\ log' = [log EXCEPT !.disturbed = TRUE]
  /\ End
  /\ UNCHANGED sw

LadderStep ==
  SendConfirmed \/ SendSlips \/ SendTooLarge \/ SendRefused \/ SendUnconfirmed

-----------------------------------------------------------------------------
(***************************************************************************)
(* Calls, and the reads of balances they begin with.                       *)
(***************************************************************************)

Begin(frame, label) ==
  /\ at = "idle" /\ calls < MaxCalls
  /\ calls' = calls + 1
  /\ f' = frame /\ at' = label
  /\ sw' = NoSwap
  /\ log' = NoLog
  /\ pending' = Aged
  /\ UNCHANGED <<wallet, liq, troubles>>

CallExcess == Begin([NoFrame EXCEPT !.op = "excess"], "start")

\* su and us.
CallUser ==
  \E need \in {Coins(n, 0) : n \in SolAtFirst \ {0}}
                \cup {Coins(0, n) : n \in UsdcAtFirst \ {0}} :
    Begin([NoFrame EXCEPT !.op = "user", !.need = need], "start")

CallOpen ==
  \E mode \in Modes :
    Begin([NoFrame EXCEPT !.op = "open", !.mode = mode, !.then = "decide",
             !.need = Coins(Over(Unit(mode).sol), Over(Unit(mode).usdc))], "readSol")

CallDecrease ==
  \E p \in Positions : Begin([NoFrame EXCEPT !.op = "decrease", !.pos = p], "measured")

\* pliq: its check of the free capital only warns.
CallIncrease ==
  \E p \in Positions, budget \in {UnitValue, 2 * UnitValue} :
    Begin([NoFrame EXCEPT !.op = "increase", !.to = p, !.budget = budget], "target")

CallInc ==
  \E p, q \in Positions :
    /\ p # q
    /\ Begin([NoFrame EXCEPT !.op = "inc", !.pos = p, !.to = q, !.then = "measured"],
             "readSol")

\* Mutant: nothing is left for the fees.
KeptBare == Keep

Kept == Keep + FeeBuffer * f.attempt

\* swap_excess_to_usdc: one attempt, with a buffer that grows.
ExcessReads ==
  /\ at = "start" /\ f.op = "excess"
  /\ \/ wallet.sol > Kept /\ StartSwap("sol", wallet.sol - Kept, "idle") /\ UNCHANGED f
     \/ wallet.sol <= Kept /\ End /\ UNCHANGED <<pending, sw, log>>
     \/ /\ f.attempt < 3                          \* the read failed
        /\ f' = [f EXCEPT !.attempt = @ + 1] /\ UNCHANGED <<at, pending, sw, log>>
     \/ f.attempt = 3 /\ End /\ UNCHANGED <<pending, sw, log>>
  /\ UNCHANGED <<wallet, liq>> /\ Bounds

\* A command swaps only what the wallet has; a failed read ends it.
UserReads ==
  /\ at = "start" /\ f.op = "user"
  /\ \/ /\ wallet.sol >= f.need.sol /\ wallet.usdc >= f.need.usdc
        /\ IF f.need.sol > 0 THEN StartSwap("sol", f.need.sol, "idle")
                             ELSE StartSwap("usdc", f.need.usdc, "idle")
        /\ UNCHANGED f
     \/ End /\ UNCHANGED <<pending, sw, log>>
  /\ UNCHANGED <<wallet, liq>> /\ Bounds

\* The first reading of an opening leaves the reserve out, later ones do not.
SolSeen == IF f.op = "open" /\ f.attempt = 1 THEN Monus(wallet.sol, Reserve)
                                              ELSE wallet.sol

\* inc expects its two measurements to succeed, and panics if one fails.
Expects == f.op = "inc" /\ f.then \in {"measured", "freed"}

ReadSol ==
  /\ at = "readSol"
  /\ \/ f' = [f EXCEPT !.free.sol = SolSeen] /\ at' = "readUsdc"
     \/ Expects /\ at' = "panicked" /\ UNCHANGED f
     \/ ~Expects /\ End
  /\ Here

\* A token balance that cannot be read counts as zero.
ReadUsdc ==
  /\ at = "readUsdc"
  /\ \E seen \in {wallet.usdc, 0} :
       /\ f' = [f EXCEPT !.free.usdc = seen]
       /\ log' = [log EXCEPT !.blind = @ \/ (f.then = "measured" /\ seen # wallet.usdc)]
  /\ at' = f.then
  /\ Chain /\ Bounds /\ UNCHANGED sw

LacksSol == f.need.sol > f.free.sol
LacksUsdc == f.need.usdc > f.free.usdc
MissingSol == f.need.sol - f.free.sol
MissingUsdc == f.need.usdc - f.free.usdc

-----------------------------------------------------------------------------
(***************************************************************************)
(* open_with_funds_check_universal with rebalance_before_open: at most two *)
(* rounds of swaps (attempts 2 and 3), each followed by new readings.      *)
(***************************************************************************)

\* Mutant: after the last round the opening is sent, whatever is missing.
OpenDecidesUnchecked ==
  /\ at = "decide"
  /\ \/ /\ f.attempt = 3 \/ (~LacksSol /\ ~LacksUsdc)
        /\ \E p \in Positions : StartLadder(Ladder("open", p, f.mode, 1), "send")
     \/ /\ LacksSol \/ LacksUsdc
        /\ f.attempt < 3 /\ f' = [f EXCEPT !.attempt = @ + 1] /\ at' = "buySol"
        /\ UNCHANGED <<pending, sw, log>>
  /\ UNCHANGED <<wallet, liq>> /\ Bounds

\* Mutant: the rounds are not counted.
OpenDecidesUncounted ==
  /\ at = "decide"
  /\ \/ /\ ~LacksSol /\ ~LacksUsdc
        /\ \E p \in Positions : StartLadder(Ladder("open", p, f.mode, 1), "send")
     \/ (LacksSol \/ LacksUsdc) /\ at' = "buySol" /\ UNCHANGED <<f, pending, sw, log>>
  /\ UNCHANGED <<wallet, liq>> /\ Bounds

\* Everything is there: the transaction is sent.  (The new position is any one.)
OpenDecides ==
  /\ at = "decide"
  /\ \/ /\ ~LacksSol /\ ~LacksUsdc
        /\ \E p \in Positions : StartLadder(Ladder("open", p, f.mode, 1), "send")
     \/ /\ LacksSol \/ LacksUsdc
        /\ IF f.attempt < 3 THEN f' = [f EXCEPT !.attempt = @ + 1] /\ at' = "buySol"
                            ELSE End
        /\ UNCHANGED <<pending, sw, log>>
  /\ UNCHANGED <<wallet, liq>> /\ Bounds

\* Both ways to buy SOL sell USDC, the other token of the pool.
BuySol ==
  /\ at = "buySol"
  /\ IF LacksSol THEN StartSwap("usdc", Over(MissingSol * Price), "buyUsdc")
                 ELSE at' = "buyUsdc" /\ UNCHANGED <<pending, sw, log>>
  /\ UNCHANGED <<wallet, liq, f>> /\ Bounds

\* USDC is bought only with SOL that is not needed itself; with nothing bought
\* the opening fails.
OpenBuysUsdc ==
  /\ at = "buyUsdc" /\ f.op = "open"
  /\ \/ /\ LacksUsdc /\ f.free.sol >= f.need.sol + InSol(MissingUsdc)
        /\ StartSwap("sol", Over(InSol(MissingUsdc)), "readSol") /\ UNCHANGED f
     \/ /\ ~(LacksUsdc /\ f.free.sol >= f.need.sol + InSol(MissingUsdc))
        /\ IF LacksSol THEN at' = "readSol" /\ UNCHANGED f ELSE End
        /\ UNCHANGED <<pending, sw, log>>
  /\ UNCHANGED <<wallet, liq>> /\ Bounds

OpenStep == OpenDecides \/ BuySol \/ OpenBuysUsdc

-----------------------------------------------------------------------------
(***************************************************************************)
(* decrease_liquidity_partial, and the steps of inc around it.             *)
(***************************************************************************)

\* The share of the liquidity, rounded, and at least one unit.
Share(units, pct) ==
  LET rounded == (units * pct + 50) \div 100 IN IF rounded = 0 THEN 1 ELSE rounded

\* The position is read.  inc keeps the balances it read before.
DecreaseStarts ==
  /\ at = "measured"
  /\ \/ End /\ UNCHANGED <<pending, sw, log>>           \* an error, or it is empty
     \/ /\ liq[f.pos] > 0
        /\ \E pct \in {50, 100} :
             StartLadder([Ladder("decrease", f.pos, f.mode, Share(liq[f.pos], pct))
                            EXCEPT !.before = f.free], "send")
  /\ UNCHANGED <<wallet, liq>> /\ Bounds

\* Mutant: what the wallet has now is taken for what was freed.
FreedAll == f.free

\* What the wallet has gained since the first reading.
Freed == Coins(Monus(f.free.sol, f.before.sol), Monus(f.free.usdc, f.before.usdc))

IncBudget ==
  /\ at = "freed"
  /\ \/ Freed = Coins(0, 0) /\ End
     \/ End                                            \* no price
     \/ /\ Freed # Coins(0, 0)
        /\ f' = [f EXCEPT !.budget = Freed.usdc + Freed.sol * Price,
                          !.free = Coins(0, 0), !.before = Coins(0, 0)]
        /\ at' = "target"
  /\ Here

-----------------------------------------------------------------------------
(***************************************************************************)
(* increase_liquidity_partial.                                             *)
(***************************************************************************)

\* Whole units that cost no more than the budget with its margin.  A quote
\* that is worth more is shrunk to that, less half a percent.
UnitsFor(budget) == Buffered(budget) \div UnitValue
Shrunk(budget) == (995 * Buffered(budget)) \div (1000 * UnitValue)
Quoted ==
  LET full == f.need.usdc \div Price
  IN IF full * UnitValue > Buffered(f.budget) THEN Shrunk(f.budget) ELSE full

\* The target is read; where the price lies in it decides what is needed.  Only
\* for SOL alone is the swap made without a look at the balances.
TargetOnlyA ==
  /\ at = "target"
  /\ f' = [f EXCEPT !.mode = "OnlyA", !.need = Coins(0, 0)]
  /\ StartSwap("usdc", Over(f.budget), "quote")
  /\ UNCHANGED <<wallet, liq>> /\ Bounds

TargetOther ==
  /\ at = "target"
  /\ \/ f' = [f EXCEPT !.mode = "OnlyB", !.need = Coins(0, Buffered(f.budget)),
                       !.then = "fund", !.attempt = 1]
     \/ \E n \in 0..Buffered(f.budget) \div Price :
          f' = [f EXCEPT !.mode = "Mixed", !.then = "fund", !.attempt = 1,
                         !.need = Coins(n, Buffered(f.budget) - n * Price)]
  /\ at' = "readSol"
  /\ Here

TargetFails == at = "target" /\ End /\ Here

\* Only for USDC alone is the reserve of SOL respected.
FundOnlyB ==
  /\ at = "fund" /\ f.mode = "OnlyB"
  /\ LET selling == Over(InSol(MissingUsdc))
     IN \/ ~LacksUsdc /\ at' = "quote" /\ UNCHANGED <<f, pending, sw, log>>
        \/ /\ LacksUsdc /\ selling + Reserve <= f.free.sol
           /\ StartSwap("sol", selling, "quote") /\ UNCHANGED f
        \/ /\ LacksUsdc /\ selling + Reserve > f.free.sol
           /\ End /\ UNCHANGED <<pending, sw, log>>
  /\ UNCHANGED <<wallet, liq>> /\ Bounds

FundMixed == at = "fund" /\ f.mode = "Mixed" /\ at' = "buySol" /\ UNCHANGED f /\ Here

\* A mixed deposit is funded three times: for the formula, for the quote, and
\* once more for the quote.  The second swap relies on readings of before the
\* first one.
AfterFunding == IF f.attempt = 1 THEN "quote" ELSE IF f.attempt = 2 THEN "readSol" ELSE "send"

IncreaseBuysUsdc ==
  /\ at = "buyUsdc" /\ f.op # "open"
  /\ IF LacksUsdc THEN StartSwap("sol", Over(InSol(MissingUsdc)), AfterFunding)
                  ELSE at' = AfterFunding /\ UNCHANGED <<pending, sw, log>>
  /\ f' = [f EXCEPT !.attempt = IF @ < 3 THEN @ + 1 ELSE 3]
  /\ UNCHANGED <<wallet, liq>> /\ Bounds

Quote ==
  /\ at = "quote"
  /\ \/ /\ f.mode = "Mixed"
        /\ StartLadder([Ladder("increase", f.to, "Mixed", Quoted)
                          EXCEPT !.need = Coins(Quoted, Quoted * Price)], "readSol")
     \/ /\ f.mode # "Mixed"
        /\ StartLadder(Ladder("increase", f.to, f.mode, UnitsFor(f.budget)), "send")
     \/ End /\ UNCHANGED <<pending, sw, log>>
  /\ UNCHANGED <<wallet, liq>> /\ Bounds

IncreaseStep ==
  \/ TargetOnlyA \/ TargetOther \/ TargetFails \/ FundOnlyB \/ FundMixed
  \/ IncreaseBuysUsdc \/ Quote

-----------------------------------------------------------------------------
(***************************************************************************)
(* The chain and the rest of the bot.                                      *)
(***************************************************************************)

Magnitude(n) == IF n < 0 THEN -n ELSE n
SoldBy(e) == IF e.units # 0 THEN 0 ELSE IF e.sol < 0 THEN -e.sol ELSE -e.usdc

\* A pending transaction lands after all, or its blockhash expires.
Settle(s) ==
  /\ pending[s] # Nothing
  /\ pending' = [pending EXCEPT ![s] = Nothing]
  /\ \/ UNCHANGED <<wallet, liq, log>>
     \/ /\ Lands(pending[s])
        /\ log' = [log EXCEPT
                     !.disturbed = TRUE,
                     !.sold = IF pending[s].current THEN @ + SoldBy(pending[s]) ELSE @,
                     !.moved = IF pending[s].current THEN @ + Magnitude(pending[s].units)
                                                     ELSE @]
  /\ UNCHANGED <<at, f, sw>> /\ Bounds

\* While the operation runs, another task closes or opens a position, or swaps.
OthersMove ==
  /\ at # "idle" /\ troubles < MaxTroubles
  /\ troubles' = troubles + 1
  /\ \E p \in Positions :
       \/ Lands([Nothing EXCEPT !.pos = p, !.units = -liq[p],
                                !.sol = liq[p], !.usdc = liq[p] * Price])
       \/ Lands([Nothing EXCEPT !.pos = p, !.units = 1, !.sol = -1, !.usdc = -Price])
       \/ Lands([Nothing EXCEPT !.sol = -1, !.usdc = Price])
       \/ Lands([Nothing EXCEPT !.sol = 1, !.usdc = -Price])
  /\ log' = [log EXCEPT !.disturbed = TRUE]
  /\ UNCHANGED <<pending, at, f, sw, calls>>

Calls == CallExcess \/ CallUser \/ CallOpen \/ CallDecrease \/ CallIncrease \/ CallInc

Step ==
  \/ SwapStep \/ LadderStep \/ ExcessReads \/ UserReads \/ ReadSol \/ ReadUsdc
  \/ OpenStep \/ DecreaseStarts \/ IncBudget \/ IncreaseStep

FundsNext == Calls \/ Step \/ OthersMove \/ \E s \in Slots : Settle(s)

\* tokio runs the task: every await is answered.
FundsSpec == FundsInit /\ [][FundsNext]_vars /\ WF_vars(Step)

-----------------------------------------------------------------------------
(***************************************************************************)
(* Properties.                                                             *)
(***************************************************************************)

\* execute_swap_tokens: whatever the steps, parts and late landings, a swap
\* sells its amount once, and once more for each confirmation it missed.
SoldOncePerMiss == log.sold <= sw.amount * (1 + log.missed)

\* swap_excess_to_usdc: over all its attempts the wallet keeps keep_amount and
\* the buffer, unless a confirmation was missed or another task moved funds.
ExcessKeepsBuffer ==
  f.op = "excess" /\ log.sold > 0 /\ ~log.disturbed => wallet.sol >= Keep + FeeBuffer

\* The ladders of opening, increase and decrease repeat only what is known to
\* have failed: late landings included, no more than what was asked is moved.
LadderMovesOnce == log.moved <= f.asked

\* rebalance_before_open and the final check: an opening is sent only when the
\* wallet really has what it needs, unless it changed behind the task's back.
OpeningIsCovered ==
  at = "send" /\ f.kind = "open" /\ ~log.disturbed
    => wallet.sol >= f.need.sol /\ wallet.usdc >= f.need.usdc

\* run_inc_command: what inc adds to one position is worth what it took from
\* the other, with the 12 % margin, whatever was swapped in between; unless the
\* wallet changed behind its back or the first reading of USDC failed.
IncStaysWithinFreed ==
  f.op = "inc" /\ f.kind = "increase" /\ ~log.disturbed /\ ~log.blind
    => log.moved * UnitValue <= Buffered(log.withdrawn * UnitValue)

-----------------------------------------------------------------------------
(***************************************************************************)
(* How far an operation is from its end: the stages that are ahead, the    *)
(* rounds, the places of the round, the units a withdrawal may still       *)
(* halve, and the steps and parts of the swap or the ladder at hand.       *)
(***************************************************************************)

Ended == at \in {"idle", "panicked"}
Swapping == at \in {"swap", "part"}

Stage == [idle |-> 2, decide |-> 1, measured |-> 3, freed |-> 2, fund |-> 1]

\* The places that follow in a round: of an opening, of the mixed deposit, and
\* of everything else.
OpenRoute == [buySol |-> 6, buyUsdc |-> 5, readSol |-> 4, readUsdc |-> 3, decide |-> 2,
              send |-> 1]
MixedRoute == [quote |-> 7, readSol |-> 6, readUsdc |-> 5, fund |-> 4, buySol |-> 3,
               buyUsdc |-> 2, send |-> 1]
PlainRoute == [start |-> 9, readSol |-> 8, readUsdc |-> 7, measured |-> 6, freed |-> 5,
               target |-> 4, fund |-> 3, quote |-> 2, send |-> 1, idle |-> 0]
Route ==
  IF f.then = "decide" THEN OpenRoute
  ELSE IF f.then = "fund" /\ f.mode = "Mixed" THEN MixedRoute ELSE PlainRoute

\* A swap is made on the way to the place where it returns.
Place == IF Swapping THEN 2 * Route[sw.back] + 1 ELSE 2 * Route[at]

Tries ==
  IF at = "swap" THEN MaxParts + 4 - sw.step
  ELSE IF at = "part" THEN sw.parts - sw.done
  ELSE IF at = "send" THEN SlipSteps - f.step ELSE 0

Rank ==
  IF Ended THEN <<0, 0, 0, 0, 0>>
  ELSE <<Stage[f.then], 3 - f.attempt, Place, IF at = "send" THEN f.units ELSE 0, Tries>>

\* The first difference decides.
Below(r, s) == \E i \in 1..5 : r[i] < s[i] /\ \A j \in 1..i - 1 : r[j] = s[j]

Ranks == Nat \X Nat \X Nat \X Nat \X Nat

\* Every answered await brings the operation nearer to its end, whatever the
\* answer is: no retry, split, halving or round of funding goes in a circle.
NearsItsEnd == [][Step => Rank \in Ranks /\ Below(Rank', Rank)]_vars

\* The bounded attempts, rounds, steps and halvings end every operation.
OperationEnds == at # "idle" ~> at \in {"idle", "panicked"}

=============================================================================
