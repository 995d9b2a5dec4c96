--------------------------- MODULE ExposureProofs ---------------------------
(***************************************************************************)
(* Proofs about the composed bot: its type invariant, and the bound on the *)
(* positions that exist at once.                                           *)
(***************************************************************************)
EXTENDS LiqBotProofs, FiniteSetTheorems, WellFoundedInduction

\* A set of natural numbers that is not empty has a least element: the initial
\* segments of the numbers are well ordered by inclusion.
LEMMA LeastNumber ==
  ASSUME NEW S \in SUBSET Nat, S # {}
  PROVE  \E least \in S : \A n \in S : least <= n
<1> DEFINE Segments == {1..n : n \in S}
<1>1. Segments \subseteq FiniteSubsetsOf(Nat) /\ Segments # {}
  <2>1. \A n \in Nat : IsFiniteSet(1..n) /\ 1..n \in SUBSET Nat
    BY FS_Interval
  <2>2. \A n \in Nat : 1..n \in FiniteSubsetsOf(Nat)
    BY <2>1 DEF FiniteSubsetsOf
  <2> QED
    BY <2>2
<1>2. \E x \in Segments : \A y \in Segments : ~ (<<y, x>> \in StrictSubsetOrdering(Nat))
  BY <1>1, FS_StrictSubsetOrderingWellFounded, WFMin
<1>3. PICK least \in S : \A y \in Segments : ~ (<<y, 1..least>> \in StrictSubsetOrdering(Nat))
  BY <1>2
<1>4. ASSUME NEW n \in S, n < least PROVE FALSE
  <2>1. /\ 1..n \subseteq 1..least /\ least \in 1..least /\ least \notin 1..n
        /\ 1..n \in SUBSET Nat /\ 1..least \in SUBSET Nat
    BY <1>4
  <2>2. 1..n # 1..least
    BY <2>1
  <2>3. <<1..n, 1..least>> \in StrictSubsetOrdering(Nat)
    BY <2>1, <2>2 DEF StrictSubsetOrdering
  <2> HIDE DEF Segments
  <2>4. 1..n \in Segments
    BY DEF Segments
  <2> QED
    BY <1>3, <2>3, <2>4
<1> QED
  BY <1>4

\* NextTurn finds a role that was not minted, or ends the round.
LEMMA NextTurnIs ==
  ASSUME NEW turn \in 0..NRanges, NEW minted \in SUBSET Ranges
  PROVE  NextTurn(turn, minted) \in (1..NRanges + 1) \ minted /\ NextTurn(turn, minted) > turn
<1> USE LiqBotAssumption DEF Ranges
<1> DEFINE Free == {r \in 1..NRanges + 1 : r > turn /\ r \notin minted}
<1>1. Free \in SUBSET Nat /\ NRanges + 1 \in Free
  OBVIOUS
<1>2. PICK least \in Free : \A n \in Free : least <= n
  BY <1>1, LeastNumber
<1>3. \A s \in Ranges : turn < s /\ s < least => s \in minted
  BY <1>2
<1> QED
  BY <1>2, <1>3 DEF NextTurn

-----------------------------------------------------------------------------
(***************************************************************************)
(* Type correctness.                                                       *)
(***************************************************************************)

Places == PoolLabels \cup ReporterLabels \cup CommandLabels
PoolLocals == [auto: BOOLEAN, needNew: BOOLEAN, minted: SUBSET Ranges,
               turn: 1..NRanges + 1, round: 1..MaxRounds,
               attempt: 1..MaxCloseAttempts, notified: BOOLEAN, kept: BOOLEAN]
ReporterLocals == [auto: BOOLEAN, reset: BOOLEAN, closing: BOOLEAN]
Triggers == [DOMAIN BootTriggers -> BOOLEAN]

\* The types of what the bot adds to the wallet.
TasksTypeOK ==
  /\ trig \in Triggers
  /\ pc \in [Tasks -> Places]
  /\ pool \in PoolLocals
  /\ rep \in ReporterLocals
  /\ cmd \in [Commands -> CloseCommands]
  /\ orders \in 0..MaxOrders
  /\ doubtful \subseteq Mints

LEMMA TypeParts == LiqBotTypeOK <=> WalletTypeOK /\ TasksTypeOK
BY DEF LiqBotTypeOK, TasksTypeOK, Places, PoolLocals, ReporterLocals, Triggers

LEMMA MoveType ==
  ASSUME pc \in [Tasks -> Places], NEW t \in Tasks, NEW label \in Places, Move(t, label)
  PROVE  pc' \in [Tasks -> Places]
BY DEF Move

LEMMA SetType ==
  ASSUME trig \in Triggers, NEW n \in DOMAIN BootTriggers, NEW value \in BOOLEAN,
         Set(n, value)
  PROVE  trig' \in Triggers
BY DEF Set, Triggers

\* What every task starts from.
LEMMA BootTypes ==
  /\ BootTriggers \in Triggers /\ BootPc \in [Tasks -> Places]
  /\ NewCycle \in PoolLocals /\ BootReporter \in ReporterLocals
  /\ BootCommands \in [Commands -> CloseCommands]
<1>1. BootTriggers \in Triggers
  <2>1. \A n \in DOMAIN BootTriggers : BootTriggers[n] \in {TRUE, FALSE}
    <3>1. /\ BootTriggers["auto_trade"] = TRUE /\ BootTriggers["opening"] = FALSE
          /\ BootTriggers["pool_report_run"] = TRUE
          /\ BootTriggers["report_info_reset"] = TRUE /\ BootTriggers["limit"] = FALSE
      BY DEF BootTriggers
    <3> QED
      BY <3>1, TriggerNames, Zenon
  <2>2. BootTriggers = [n \in DOMAIN BootTriggers |-> BootTriggers[n]]
    BY DEF BootTriggers
  <2> QED
    BY <2>1, <2>2, Zenon DEF Triggers
<1>2. BootPc \in [Tasks -> Places]
  <2>1. "top" \in Places /\ "boot" \in Places /\ "idle" \in Places
    BY DEF Places, PoolLabels, ReporterLabels, CommandLabels
  <2> QED
    BY <2>1 DEF BootPc
<1>3. NewCycle \in PoolLocals
  BY LiqBotAssumption DEF NewCycle, PoolLocals
<1>4. BootReporter \in ReporterLocals
  BY DEF BootReporter, ReporterLocals
<1>5. BootCommands \in [Commands -> CloseCommands]
  BY DEF BootCommands, CloseCommands
<1> QED
  BY <1>1, <1>2, <1>3, <1>4, <1>5

\* A role is opened once: the one whose turn it is was not minted, and nothing
\* counts as minted outside of the rounds.
Turns ==
  /\ pc[Pool] \notin {"rounds", "opened"} => pool.minted = {}
  /\ pc[Pool] \in {"rounds", "opened"} => pool.turn \notin pool.minted
  /\ pc[Pool] = "opened" => pool.turn \in Ranges

BotInv == TasksTypeOK /\ Turns

PoolKept == pool' \in PoolLocals /\ pc' \in [Tasks -> Places] /\ Turns'

LEMMA PoolMove ==
  ASSUME pc \in [Tasks -> Places], NEW label \in PoolLabels, Move(Pool, label)
  PROVE  pc' \in [Tasks -> Places] /\ pc'[Pool] = label
BY TasksOfTheBot DEF Move, Places

\* A new cycle keeps only need_new.
LEMMA NextCycleTypes ==
  ASSUME BotInv, NEW kept \in BOOLEAN, NextCycleAfter(kept)
  PROVE  PoolKept
<1>1. pool' \in PoolLocals /\ pool'.minted = {}
  BY BootTypes DEF BotInv, TasksTypeOK, NextCycleAfter, PoolLocals, NewCycle
<1>2. pc' \in [Tasks -> Places] /\ pc'[Pool] = "top"
  BY PoolMove DEF BotInv, TasksTypeOK, NextCycleAfter, PoolLabels
<1> QED
  BY <1>1, <1>2 DEF PoolKept, Turns

\* A step outside of the rounds that only sets locals other than `minted`.
LEMMA LocalsTypes ==
  ASSUME BotInv, pool' \in PoolLocals, pool'.minted = pool.minted,
         NEW label \in PoolLabels \ {"opened"}, Move(Pool, label),
         pc[Pool] \notin {"rounds", "opened"}
  PROVE  PoolKept
<1>1. pc' \in [Tasks -> Places] /\ pc'[Pool] = label
  BY PoolMove DEF BotInv, TasksTypeOK
<1> QED
  BY <1>1 DEF BotInv, PoolKept, Turns

\* The deploying half of the pool task.
LEMMA PoolDeployTypes ==
  ASSUME BotInv,
         \/ PoolSwept \/ PoolOpen \/ PoolOpened \/ PoolNextRound \/ PoolAllOpen
         \/ PoolGivesUp \/ PoolMeta \/ PoolAdopts \/ PoolListed
  PROVE  PoolKept
<1> USE LiqBotAssumption, BootTypes
<1>0. TasksTypeOK
  BY DEF BotInv
<1>1. CASE PoolSwept \/ PoolMeta
  BY <1>0, <1>1, LocalsTypes DEF PoolSwept, PoolMeta, Returned, PoolLabels, PoolLocals, TasksTypeOK
<1>2. CASE PoolOpen
  BY <1>0, <1>2, PoolMove DEF PoolOpen, PoolLabels, PoolKept, BotInv, Turns, TasksTypeOK
<1>3. CASE PoolOpened
  <2>1. PICK minted \in {pool.minted, pool.minted \cup {pool.turn}} :
          pool' = [pool EXCEPT !.minted = minted, !.turn = NextTurn(pool.turn, minted)]
    BY <1>3 DEF PoolOpened
  <2>2. pool.turn \in Ranges /\ minted \in SUBSET Ranges /\ pool.turn \in 0..NRanges
    BY <1>0, <1>3 DEF PoolOpened, Returned, BotInv, Turns, TasksTypeOK, PoolLocals, Ranges
  <2>3. NextTurn(pool.turn, minted) \in (1..NRanges + 1) \ minted
    BY <2>2, NextTurnIs
  <2>4. pool' \in PoolLocals /\ pool'.turn \notin pool'.minted
    BY <1>0, <2>1, <2>2, <2>3 DEF TasksTypeOK, PoolLocals
  <2>5. pc' \in [Tasks -> Places] /\ pc'[Pool] = "rounds"
    BY <1>0, <1>3, PoolMove DEF PoolOpened, PoolLabels, TasksTypeOK
  <2> QED
    BY <2>4, <2>5 DEF PoolKept, Turns
<1>4. CASE PoolNextRound
  <2>1. pool.minted \in SUBSET Ranges /\ 0 \in 0..NRanges
    BY <1>0 DEF TasksTypeOK, PoolLocals
  <2>2. NextTurn(0, pool.minted) \in (1..NRanges + 1) \ pool.minted
    BY <2>1, NextTurnIs
  <2>3. PICK turn \in (1..NRanges + 1) \ pool.minted :
          pool' = [pool EXCEPT !.round = pool.round + 1, !.turn = turn]
    BY <1>4, <2>2 DEF PoolNextRound
  <2>4. pool.round + 1 \in 1..MaxRounds
    BY <1>0, <1>4 DEF PoolNextRound, TasksTypeOK, PoolLocals
  <2>5. pool' \in PoolLocals /\ pool'.turn \notin pool'.minted
    BY <1>0, <2>3, <2>4 DEF TasksTypeOK, PoolLocals
  <2> QED
    BY <1>0, <1>4, <2>5 DEF PoolNextRound, PoolKept, Turns, TasksTypeOK
<1>5. CASE PoolAllOpen
  <2>1. pool' \in PoolLocals /\ pool'.minted = {}
    BY <1>0, <1>5 DEF PoolAllOpen, TasksTypeOK, PoolLocals, NewCycle
  <2>2. pc' \in [Tasks -> Places] /\ pc'[Pool] = "listed"
    BY <1>0, <1>5, PoolMove DEF PoolAllOpen, PoolLabels, TasksTypeOK
  <2> QED
    BY <2>1, <2>2 DEF PoolKept, Turns
<1>6. CASE PoolGivesUp
  <2>1. CASE NextCycle
    BY <2>1, NextCycleTypes DEF NextCycle
  <2>2. CASE Move(Pool, "panicked") /\ pool' = NewCycle
    BY <1>0, <2>2, PoolMove DEF PoolLabels, PoolKept, Turns, TasksTypeOK, NewCycle
  <2> QED
    BY <1>6, <2>1, <2>2 DEF PoolGivesUp
<1>7. CASE PoolAdopts
  BY <1>0, <1>7, LocalsTypes DEF PoolAdopts, Returned, PoolLabels, TasksTypeOK
<1>8. CASE PoolListed
  <2>1. pool' \in PoolLocals /\ pool'.minted = pool.minted
    BY <1>0, <1>8 DEF PoolListed, TasksTypeOK, PoolLocals
  <2> QED
    BY <1>8, <2>1, LocalsTypes DEF PoolListed, Returned, PoolLabels
<1> QED
  BY <1>1, <1>2, <1>3, <1>4, <1>5, <1>6, <1>7, <1>8

\* The other half of the pool task.
LEMMA PoolOtherTypes ==
  ASSUME BotInv, PoolNext,
         ~(\/ PoolSwept \/ PoolOpen \/ PoolOpened \/ PoolNextRound \/ PoolAllOpen
           \/ PoolGivesUp \/ PoolMeta \/ PoolAdopts \/ PoolListed)
  PROVE  PoolKept
<1> USE LiqBotAssumption, BootTypes
<1>0. TasksTypeOK
  BY DEF BotInv
<1>1. CASE \/ PoolReadAuto \/ PoolLimitHit \/ PoolLimitOff \/ PoolReady \/ PoolReset
  BY <1>0, <1>1, LocalsTypes DEF PoolReadAuto, PoolLimitHit, PoolLimitOff, PoolReady,
     PoolReset, PoolLabels, PoolLocals, TasksTypeOK, Triggers, BootTriggers
<1>2. CASE PoolNoLimit
  <2>1. CASE pool.auto
    BY <1>0, <1>2, <2>1, LocalsTypes DEF PoolNoLimit, PoolLabels, TasksTypeOK
  <2>2. CASE ~pool.auto
    BY <1>0, <1>2, <2>2, LocalsTypes DEF PoolNoLimit, PoolLabels, TasksTypeOK
  <2> QED
    BY <2>1, <2>2
<1>3. CASE PoolNotReady \/ PoolRpcDown \/ PoolFails \/ PoolNotified \/ PoolRedeployed
  BY <1>3, NextCycleTypes DEF PoolNotReady, PoolRpcDown, PoolFails, PoolNotified,
     PoolRedeployed, NextCycle
<1>4. CASE PoolDies
  BY <1>0, <1>4, PoolMove DEF PoolDies, PoolLabels, PoolKept, Turns, TasksTypeOK, NewCycle
<1>5. CASE PoolStart
  BY <1>0, <1>5, LocalsTypes DEF PoolStart, PoolLabels, TasksTypeOK
<1>6. CASE PoolReportOn \/ PoolOpeningOff \/ PoolTicked \/ PoolReportOff \/ PoolAutoOn
  BY <1>0, <1>6, LocalsTypes DEF PoolReportOn, PoolOpeningOff, PoolTicked, PoolReportOff,
     PoolAutoOn, PoolLabels, TasksTypeOK
<1>7. CASE PoolTick \/ PoolRedeploys
  <2>1. pool' \in PoolLocals /\ pool'.minted = pool.minted
    <3>1. CASE PoolTick
      BY <1>0, <3>1 DEF PoolTick, PoolLocals, TasksTypeOK
    <3>2. CASE PoolRedeploys
      <4>1. 1 \in 1..MaxCloseAttempts /\ pool' = [pool EXCEPT !.attempt = 1, !.notified = FALSE]
        BY <3>2 DEF PoolRedeploys
      <4> QED
        BY <1>0, <4>1 DEF PoolLocals, TasksTypeOK
    <3> QED
      BY <1>7, <3>1, <3>2
  <2> QED
    BY <1>7, <2>1, LocalsTypes DEF PoolTick, PoolRedeploys, PoolLabels
<1>8. CASE PoolPrice
  BY <1>0, <1>8 DEF PoolPrice, PoolKept, BotInv, Turns, PoolLocals, TasksTypeOK
<1>9. CASE PoolClosed \/ PoolResetOn \/ PoolSwapped
  BY <1>0, <1>9, LocalsTypes DEF PoolClosed, PoolResetOn, PoolSwapped, Returned, PoolLabels,
     TasksTypeOK
<1>10. CASE PoolClosesAgain
  BY <1>0, <1>10, LocalsTypes DEF PoolClosesAgain, StillOpen, Returned, PoolLabels,
     PoolLocals, TasksTypeOK
<1>11. CASE PoolEndsClosing
  <2>1. pool' \in PoolLocals /\ pool'.minted = {}
    BY <1>0, <1>11 DEF PoolEndsClosing, TasksTypeOK, PoolLocals, NewCycle
  <2>2. pc' \in [Tasks -> Places] /\ pc'[Pool] = "reportOff"
    BY <1>0, <1>11, PoolMove DEF PoolEndsClosing, PoolLabels, TasksTypeOK
  <2> QED
    BY <2>1, <2>2 DEF PoolKept, Turns
<1> QED
  BY <1>1, <1>2, <1>3, <1>4, <1>5, <1>6, <1>7, <1>8, <1>9, <1>10, <1>11 DEF PoolNext

\* The pool task sets one trigger at most, and leaves the other tasks alone.
LEMMA PoolSets ==
  ASSUME PoolNext
  PROVE  /\ OnlyPool
         /\ \/ UNCHANGED trig
            \/ \E n \in DOMAIN BootTriggers, value \in BOOLEAN : Set(n, value)
<1> USE TriggerNames
<1>1. CASE \/ PoolReadAuto \/ PoolNoLimit \/ PoolNotReady \/ PoolDies \/ PoolRpcDown
           \/ PoolFails \/ PoolSwept \/ PoolOpen \/ PoolOpened \/ PoolNextRound
  BY <1>1 DEF PoolReadAuto, PoolNoLimit, PoolNotReady, PoolDies, PoolRpcDown, PoolFails,
     PoolSwept, PoolOpen, PoolOpened, PoolNextRound
<1>2. CASE \/ PoolAllOpen \/ PoolGivesUp \/ PoolMeta \/ PoolAdopts \/ PoolListed \/ PoolTick
           \/ PoolTicked \/ PoolPrice \/ PoolNotified \/ PoolRedeploys \/ PoolClosed
  BY <1>2 DEF PoolAllOpen, PoolGivesUp, PoolMeta, PoolAdopts, PoolListed, PoolTick, PoolTicked,
     PoolPrice, PoolNotified, PoolRedeploys, PoolClosed
<1>3. CASE PoolClosesAgain \/ PoolEndsClosing \/ PoolSwapped \/ PoolRedeployed
  BY <1>3 DEF PoolClosesAgain, PoolEndsClosing, PoolSwapped, PoolRedeployed
<1>4. CASE \/ PoolLimitHit \/ PoolLimitOff \/ PoolReady \/ PoolReset \/ PoolStart
           \/ PoolReportOn \/ PoolOpeningOff \/ PoolReportOff \/ PoolAutoOn \/ PoolResetOn
  BY <1>4 DEF PoolLimitHit, PoolLimitOff, PoolReady, PoolReset, PoolStart, PoolReportOn,
     PoolOpeningOff, PoolReportOff, PoolAutoOn, PoolResetOn
<1> QED
  BY <1>1, <1>2, <1>3, <1>4 DEF PoolNext

LEMMA PoolKeepsInv ==
  ASSUME BotInv, PoolNext
  PROVE  BotInv'
<1>1. PoolKept
  BY PoolDeployTypes, PoolOtherTypes
<1>2. trig' \in Triggers
  BY PoolSets, SetType DEF BotInv, TasksTypeOK
<1> QED
  BY <1>1, <1>2, PoolSets DEF BotInv, TasksTypeOK, PoolKept, OnlyPool

\* A task other than the pool task moves; the locals of the pool task keep
\* what Turns speaks of.
LEMMA OthersTurns ==
  ASSUME BotInv, NEW t \in Tasks \ {Pool}, NEW label \in Places, Move(t, label),
         pool'.minted = pool.minted, pool'.turn = pool.turn
  PROVE  pc' \in [Tasks -> Places] /\ Turns'
<1>1. pc' \in [Tasks -> Places] /\ pc'[Pool] = pc[Pool]
  BY TasksOfTheBot DEF Move, BotInv, TasksTypeOK
<1> QED
  BY <1>1 DEF BotInv, Turns

LEMMA ReporterKeepsInv ==
  ASSUME WalletTypeOK, BotInv, ReporterNext
  PROVE  BotInv'
<1> USE LiqBotAssumption, BootTypes
<1>0. TasksTypeOK /\ OnlyReporter
  BY DEF BotInv, ReporterNext, ReporterBoot, ReporterBooted, ReporterReadReset,
     ReporterReadOpening, ReporterReadRun, ReporterReadClosing, ReporterFixes, ReporterFixed,
     ReporterMeasures, ReporterEnds, ReporterDone
<1>1. \E label \in ReporterLabels : Move(Reporter, label)
  <2>1. CASE \/ ReporterBoot \/ ReporterReadReset \/ ReporterReadClosing \/ ReporterFixes
             \/ ReporterFixed \/ ReporterMeasures \/ ReporterEnds \/ ReporterDone
    BY <2>1 DEF ReporterBoot, ReporterReadReset, ReporterReadClosing, ReporterFixes,
       ReporterFixed, ReporterMeasures, ReporterEnds, ReporterDone, ReporterLabels
  <2>2. CASE ReporterBooted
    BY <2>2 DEF ReporterBooted, ReporterLabels
  <2>3. CASE ReporterReadOpening
    BY <2>3 DEF ReporterReadOpening, ReporterLabels
  <2>4. CASE ReporterReadRun
    BY <2>4 DEF ReporterReadRun, ReporterLabels
  <2> QED
    BY <2>1, <2>2, <2>3, <2>4 DEF ReporterNext
<1>2. pc' \in [Tasks -> Places] /\ Turns'
  BY <1>0, <1>1, OthersTurns DEF OnlyReporter, Places
<1>3. rep' \in ReporterLocals
  <2>1. CASE ReporterBoot
    BY <1>0, <2>1, TriggerNames DEF ReporterBoot, TasksTypeOK, ReporterLocals, Triggers
  <2>2. CASE ReporterReadReset
    BY <1>0, <2>2, TriggerNames DEF ReporterReadReset, TasksTypeOK, ReporterLocals, Triggers
  <2>3. CASE ReporterReadClosing
    BY <1>0, <2>3 DEF ReporterReadClosing, TasksTypeOK, ReporterLocals, WalletTypeOK
  <2>4. CASE ReporterMeasures \/ ReporterEnds
    BY <1>0, <2>4 DEF ReporterMeasures, ReporterEnds, TasksTypeOK, ReporterLocals
  <2>5. CASE \/ ReporterBooted \/ ReporterReadOpening \/ ReporterReadRun \/ ReporterFixes
             \/ ReporterFixed \/ ReporterDone
    BY <1>0, <2>5 DEF ReporterBooted, ReporterReadOpening, ReporterReadRun, ReporterFixes,
       ReporterFixed, ReporterDone, TasksTypeOK
  <2> QED
    BY <2>1, <2>2, <2>3, <2>4, <2>5 DEF ReporterNext
<1>4. trig' \in Triggers
  <2>1. CASE ReporterDone
    BY <1>0, <2>1, SetType, TriggerNames DEF ReporterDone, TasksTypeOK
  <2>2. CASE ~ReporterDone
    BY <1>0, <2>2 DEF ReporterNext, ReporterBoot, ReporterBooted, ReporterReadReset,
       ReporterReadOpening, ReporterReadRun, ReporterReadClosing, ReporterFixes,
       ReporterFixed, ReporterMeasures, ReporterEnds, TasksTypeOK
  <2> QED
    BY <2>1, <2>2
<1> QED
  BY <1>0, <1>2, <1>3, <1>4 DEF BotInv, TasksTypeOK, OnlyReporter

LEMMA BootKeepsInv ==
  ASSUME TasksTypeOK, Boot
  PROVE  BotInv'
<1>1. TasksTypeOK'
  BY BootTypes DEF Boot, TasksTypeOK
<1>2. pc'[Pool] = "top" /\ pool'.minted = {}
  BY TasksOfTheBot DEF Boot, BootPc, NewCycle
<1> QED
  BY <1>1, <1>2 DEF BotInv, Turns

LEMMA CommandsKeepInv ==
  ASSUME BotInv, CommandsNext
  PROVE  BotInv'
<1> USE LiqBotAssumption, BootTypes, TriggerNames
<1>0. TasksTypeOK
  BY DEF BotInv
<1>1. ASSUME NEW c \in Commands, NEW label \in CommandLabels, Move(c, label),
             pool' = pool
      PROVE  pc' \in [Tasks -> Places] /\ Turns'
  BY <1>1, OthersTurns DEF Places
<1>2. ASSUME NEW c \in Commands, NEW kind \in CloseCommands, CloseCommand(c, kind)
      PROVE  BotInv'
  <2>1. pc' \in [Tasks -> Places] /\ Turns'
    BY <1>1, <1>2 DEF CloseCommand, CommandLabels
  <2>2. trig' \in Triggers
    BY <1>0, <1>2, SetType DEF CloseCommand, TasksTypeOK
  <2>3. cmd' \in [Commands -> CloseCommands] /\ orders' \in 0..MaxOrders
    BY <1>0, <1>2 DEF CloseCommand, TasksTypeOK
  <2> QED
    BY <1>0, <1>2, <2>1, <2>2, <2>3 DEF BotInv, TasksTypeOK, CloseCommand
<1>3. ASSUME NEW c \in Commands, CommandOpeningOn(c) \/ CommandSwaps(c)
      PROVE  BotInv'
  <2>1. pc' \in [Tasks -> Places] /\ Turns'
    BY <1>1, <1>3 DEF CommandOpeningOn, CommandSwaps, CommandLabels
  <2>2. trig' \in Triggers
    BY <1>0, <1>3, SetType DEF CommandOpeningOn, CommandSwaps, TasksTypeOK
  <2> QED
    BY <1>0, <1>3, <2>1, <2>2 DEF BotInv, TasksTypeOK, CommandOpeningOn, CommandSwaps
<1>4. ASSUME NEW c \in Commands, CommandNotifies(c)
      PROVE  BotInv'
  <2>1. /\ pool' \in PoolLocals
        /\ pool'.minted = pool.minted /\ pool'.turn = pool.turn
    BY <1>0, <1>4 DEF CommandNotifies, TasksTypeOK, PoolLocals
  <2>2. pc' \in [Tasks -> Places] /\ Turns'
    BY <1>4, <2>1, OthersTurns DEF CommandNotifies, CommandLabels, Places
  <2> QED
    BY <1>0, <1>4, <2>1, <2>2 DEF BotInv, TasksTypeOK, CommandNotifies
<1>5. ASSUME NEW c \in Commands, CommandEnds(c)
      PROVE  BotInv'
  <2>1. pc' \in [Tasks -> Places] /\ Turns'
    BY <1>1, <1>5 DEF CommandEnds, CommandLabels
  <2>2. trig' \in Triggers
    BY <1>0, <1>5 DEF CommandEnds, TasksTypeOK, Triggers
  <2>3. cmd' \in [Commands -> CloseCommands]
    BY <1>0, <1>5 DEF CommandEnds, TasksTypeOK, CloseCommands
  <2> QED
    BY <1>0, <1>5, <2>1, <2>2, <2>3 DEF BotInv, TasksTypeOK, CommandEnds
<1>6. ASSUME NEW c \in Commands, CommandExits(c)
      PROVE  BotInv'
  BY <1>0, <1>6, BootKeepsInv DEF CommandExits
<1>7. ASSUME NEW trigger \in {"auto_trade", "limit"}, NEW value \in BOOLEAN,
             TriggerCommand(trigger, value)
      PROVE  BotInv'
  <2>1. trig' \in Triggers
    BY <1>0, <1>7, SetType DEF TriggerCommand, TasksTypeOK
  <2> QED
    BY <1>0, <1>7, <2>1 DEF BotInv, Turns, TasksTypeOK, TriggerCommand
<1> QED
  BY <1>2, <1>3, <1>4, <1>5, <1>6, <1>7 DEF CommandsNext

LEMMA NextKeepsInv ==
  ASSUME WalletTypeOK, BotInv, [LiqBotNext]_vars
  PROVE  BotInv'
<1>1. CASE \E t \in Tasks : WalletStep(t)
  BY <1>1 DEF WalletStep, taskVars, BotInv, TasksTypeOK, Turns
<1>2. CASE \E m \in Mints : Chain(m)
  BY <1>2 DEF Chain, taskVars, BotInv, TasksTypeOK, Turns
<1>3. CASE Crash
  BY <1>3, BootKeepsInv DEF Crash, BotInv
<1>4. CASE UNCHANGED vars
  BY <1>4 DEF vars, taskVars, BotInv, TasksTypeOK, Turns
<1> QED
  BY <1>1, <1>2, <1>3, <1>4, PoolKeepsInv, ReporterKeepsInv, CommandsKeepInv DEF LiqBotNext

LEMMA BotInvAlways == LiqBotSpec => [](WalletTypeOK /\ BotInv)
<1>1. LiqBotInit => BotInv
  <2>1. BootPc[Pool] = "top" /\ NewCycle.minted = {}
    BY TasksOfTheBot DEF BootPc, NewCycle
  <2> QED
    BY <2>1, BootTypes, LiqBotAssumption DEF LiqBotInit, BotInv, TasksTypeOK, Turns
<1>2. WalletTypeOK /\ BotInv /\ [LiqBotNext]_vars => BotInv'
  BY NextKeepsInv
<1> QED
  BY <1>1, <1>2, BotImplementsWallet, TypeCorrect, PTL DEF LiqBotSpec

\* The triggers, the places of the tasks and their locals keep to their types.
THEOREM BotTypes == LiqBotSpec => []LiqBotTypeOK
BY BotInvAlways, TypeParts, PTL DEF BotInv

-----------------------------------------------------------------------------
(***************************************************************************)
(* The exposure.  Only the pool task opens, and only in a round.  When the *)
(* sweep ends well no position is left but doubtful ones, and from then on *)
(* each position stands for a role that was minted.                        *)
(***************************************************************************)

Healthy == OnChain \ doubtful
AtMost(n) == IsFiniteSet(Healthy) /\ Cardinality(Healthy) <= n

\* An opening that was never confirmed counts as doubtful already.
Doubted == \A m \in Mints : status[m] = "openSent" => m \in doubtful

Opening == {"openWait", "openTx"}

\* What the pool task is doing in the wallet while it sweeps and opens.
Calls ==
  /\ \A t \in Tasks : call[t].op \in Opening => t = Pool /\ pc[Pool] = "opened"
  /\ pc[Pool] = "opened" => call[Pool].op \in Opening \cup {"idle"}
  /\ pc[Pool] = "sweep" => call[Pool].op \in {"sweepListing", "sweeping", "idle"}

JustOpened == At(Pool, "idle") /\ call[Pool].ok = TRUE

Exposure ==
  /\ AtMost(NRanges)
  /\ pc[Pool] = "sweep" /\ At(Pool, "sweeping") => Healthy \subseteq call[Pool].todo
  /\ pc[Pool] = "sweep" /\ At(Pool, "idle") /\ call[Pool].ok = TRUE => Healthy = {}
  /\ pc[Pool] = "rounds" => AtMost(Cardinality(pool.minted))
  /\ pc[Pool] = "opened" => AtMost(Cardinality(pool.minted) + IF JustOpened THEN 1 ELSE 0)

ExposureInv == Doubted /\ Calls /\ Exposure

\* Everything is typed and the roles are opened in turn.
Known == WalletTypeOK /\ BotInv

LEMMA Fewer ==
  ASSUME NEW n \in Nat, AtMost(n), Healthy' \subseteq Healthy
  PROVE  AtMost(n)'
<1>1. IsFiniteSet(Healthy') /\ Cardinality(Healthy') <= Cardinality(Healthy)
  BY FS_Subset DEF AtMost
<1>2. Cardinality(Healthy) \in Nat /\ Cardinality(Healthy') \in Nat
  BY <1>1, FS_CardinalityType DEF AtMost
<1> QED
  BY <1>1, <1>2 DEF AtMost

LEMMA OneMore ==
  ASSUME NEW n \in Nat, AtMost(n), NEW m, Healthy' \subseteq Healthy \cup {m}
  PROVE  AtMost(n + 1)'
<1>1. /\ IsFiniteSet(Healthy \cup {m})
      /\ Cardinality(Healthy \cup {m}) <= Cardinality(Healthy) + 1
  <2>1. IsFiniteSet(Healthy) /\ Cardinality(Healthy) \in Nat
    BY FS_CardinalityType DEF AtMost
  <2>2. /\ IsFiniteSet(Healthy \cup {m})
        /\ Cardinality(Healthy \cup {m}) =
             IF m \in Healthy THEN Cardinality(Healthy) ELSE Cardinality(Healthy) + 1
    BY <2>1, FS_AddElement
  <2> QED
    BY <2>1, <2>2
<1>2. /\ IsFiniteSet(Healthy')
      /\ Cardinality(Healthy') <= Cardinality(Healthy \cup {m})
  BY <1>1, FS_Subset
<1>3. /\ Cardinality(Healthy) \in Nat /\ Cardinality(Healthy') \in Nat
      /\ Cardinality(Healthy \cup {m}) \in Nat
  BY <1>1, <1>2, FS_CardinalityType DEF AtMost
<1> QED
  BY <1>1, <1>2, <1>3 DEF AtMost

LEMMA RangesCount ==
  ASSUME NEW minted \in SUBSET Ranges
  PROVE  /\ IsFiniteSet(minted) /\ Cardinality(minted) \in 0..NRanges
         /\ \A r \in Ranges \ minted :
              Cardinality(minted \cup {r}) = Cardinality(minted) + 1
<1>1. IsFiniteSet(Ranges) /\ Cardinality(Ranges) = NRanges
  BY FS_Interval, LiqBotAssumption DEF Ranges
<1>2. IsFiniteSet(minted) /\ Cardinality(minted) <= NRanges
  BY <1>1, FS_Subset
<1> QED
  BY <1>2, FS_CardinalityType, FS_AddElement, LiqBotAssumption

-----------------------------------------------------------------------------

\* What a return leaves in the frame.
LEMMA FinishLeaves ==
  ASSUME WalletTypeOK, NEW t \in Tasks, NEW succeeded \in BOOLEAN, Finish(t, succeeded)
  PROVE  call'[t].op = "idle" /\ call'[t].ok = succeeded /\ OthersKept(t)
<1>1. /\ [Idle EXCEPT !.ok = succeeded].op = "idle"
      /\ [Idle EXCEPT !.ok = succeeded].ok = succeeded
  BY DEF Idle
<1>2. call'[t] = [Idle EXCEPT !.ok = succeeded]
  BY DEF Finish, WalletTypeOK
<1> QED
  BY <1>1, <1>2, FinishEffect

\* The frame after the listing of the sweep.
LEMMA SweepListed ==
  ASSUME NEW c \in Frame, c.op = "sweepListing", NEW found
  PROVE  AfterList(c, found).op = "sweeping" /\ AfterList(c, found).todo = found
BY DEF AfterList, Frame

LEMMA ListedPlaces ==
  ASSUME NEW c \in Frame, NEW found \in SUBSET Mints
  PROVE  AfterList(c, found).op \notin Opening
<1>1. CASE c.op = "querying"
  BY <1>1 DEF AfterList, Idle, Opening
<1>2. CASE c.op = "sweepListing"
  BY <1>2 DEF AfterList, Frame, Opening
<1>3. CASE c.op = "listing"
  BY <1>3 DEF AfterList, ToClose, Idle, Frame, Opening
<1>4. CASE c.op \notin {"querying", "sweepListing", "listing"}
  BY <1>4 DEF AfterList, ToRetry, Frame, Opening
<1> QED
  BY <1>1, <1>2, <1>3, <1>4

\* What a step of an operation does to the frame of its task: it begins no
\* opening, and the sweep and the opening go through their steps.
LEMMA StepFrame ==
  ASSUME WalletTypeOK, NEW t \in Tasks, Step(t)
  PROVE  /\ call'[t].op \in Opening => call[t].op = "openWait"
         /\ At(t, "sweepListing")
              => \/ call'[t].op = "sweeping" /\ call'[t].todo = OnChain
                 \/ call'[t].op = "idle" /\ call'[t].ok = FALSE
         /\ At(t, "sweeping")
              => \/ call'[t].op = "sweeping"
                 \/ call'[t].op = "idle" /\ call[t].todo = {}
         /\ At(t, "openWait") => call'[t].op = "openTx"
         /\ At(t, "openTx") => call'[t].op = "idle"
<1> USE DEF At, Opening
<1>1. ASSUME NEW o \in Ops, GoTo(t, o) PROVE call'[t].op = o
  BY <1>1, GoToEffect
<1>2. ASSUME NEW succeeded \in BOOLEAN, Finish(t, succeeded)
      PROVE  call'[t].op = "idle"
  BY <1>2, FinishLeaves
<1>3. {"listing", "closePass", "relisting", "recording", "deleting", "openTx",
       "inserting"} \subseteq Ops
  BY DEF Ops, Guarded, Listing
<1>4. CASE ListPositions(t)
  <2>1. CASE call' = [call EXCEPT ![t] = AfterList(call[t], OnChain)]
    <3>1. call'[t] = AfterList(call[t], OnChain)
      BY <2>1 DEF WalletTypeOK
    <3>2. call'[t].op \notin Opening
      BY <3>1, OnChainType, ListedPlaces DEF WalletTypeOK
    <3>3. At(t, "sweepListing") => call'[t].op = "sweeping" /\ call'[t].todo = OnChain
      BY <3>1, SweepListed DEF WalletTypeOK
    <3> QED
      BY <1>4, <3>2, <3>3 DEF ListPositions, Listing
  <2>2. CASE Finish(t, FALSE)
    <3>1. call'[t].op = "idle" /\ call'[t].ok = FALSE
      BY <2>2, FinishLeaves
    <3> QED
      BY <1>4, <3>1 DEF ListPositions, Listing
  <2> QED
    BY <1>4, <2>1, <2>2 DEF ListPositions
<1>5. CASE ClosePosition(t)
  <2>1. PICK m \in call[t].todo : \E out \in CloseOutcomes(status[m]) : CloseOne(t, m, out)
    BY <1>5 DEF ClosePosition
  <2>2. PICK out \in CloseOutcomes(status[m]) : CloseOne(t, m, out)
    BY <2>1
  <2>3. /\ call[t].op \in {"closePass", "sweeping"}
        /\ call'[t].op = IF Noted(t, out) THEN "lowering" ELSE call[t].op
    BY <2>2 DEF CloseOne, WalletTypeOK, Frame
  <2> QED
    BY <2>3 DEF Noted
<1>6. CASE RaiseClosing(t) \/ LowerClosing(t) \/ EndPass(t) \/ TakeGuardToOpen(t)
  BY <1>1, <1>3, <1>6 DEF RaiseClosing, LowerClosing, EndPass, TakeGuardToOpen
<1>7. CASE TakeGuard(t)
  BY <1>1, <1>2, <1>3, <1>7 DEF TakeGuard
<1>8. CASE EndSweep(t)
  BY <1>2, <1>8 DEF EndSweep
<1>9. CASE RecordSession(t) \/ DeleteRow(t) \/ OpenPosition(t)
  BY <1>1, <1>2, <1>3, <1>9 DEF RecordSession, DeleteRow, OpenPosition
<1>10. CASE Swap(t) \/ ReadBalances(t) \/ ReadRow(t) \/ InsertRow(t)
  BY <1>1, <1>2, <1>3, <1>10 DEF Swap, ReadBalances, ReadRow, InsertRow
<1> QED
  BY <1>4, <1>5, <1>6, <1>7, <1>8, <1>9, <1>10 DEF Step

\* Which steps change what exists: a close, by a task that then has done it,
\* and an opening.
LEMMA StepStatus ==
  ASSUME WalletTypeOK, NEW t \in Tasks, Step(t)
  PROVE  /\ ~At(t, "openTx") =>
              \A m \in Mints :
                /\ status'[m] = "openSent" => status[m] = "openSent"
                /\ status'[m] # status[m]
                     => m \in call[t].todo \ call'[t].todo \/ status'[m] = "gone"
         /\ At(t, "openTx") =>
              \/ UNCHANGED status
              \/ \E m \in Mints :
                   /\ \A n \in Mints \ {m} : status'[n] = status[n]
                   /\ \/ status'[m] = "openSent"
                      \/ status'[m] = "open" /\ call'[t].ok = TRUE
<1> USE DEF At
<1>1. CASE UNCHANGED status
  BY <1>1
<1>2. CASE ClosePosition(t)
  <2>1. PICK m \in call[t].todo : \E out \in CloseOutcomes(status[m]) : CloseOne(t, m, out)
    BY <1>2 DEF ClosePosition
  <2>2. PICK out \in CloseOutcomes(status[m]) : CloseOne(t, m, out)
    BY <2>1
  <2>3. m \in Mints /\ m \notin call'[t].todo /\ call[t].op # "openTx"
    BY <2>2 DEF CloseOne, WalletTypeOK, Frame
  <2>4. out.status = "openSent" => status[m] = "openSent"
    BY <2>2 DEF CloseOutcomes
  <2> QED
    BY <2>1, <2>2, <2>3, <2>4 DEF CloseOne, WalletTypeOK
<1>3. CASE OpenPosition(t)
  <2>1. ASSUME NEW m \in Mints, status' = [status EXCEPT ![m] = "open"], Finish(t, TRUE)
        PROVE  status'[m] = "open" /\ call'[t].ok = TRUE
    BY <2>1, FinishLeaves DEF WalletTypeOK
  <2> QED
    BY <1>3, <2>1 DEF OpenPosition, WalletTypeOK
<1>4. CASE \/ ListPositions(t) \/ RaiseClosing(t) \/ TakeGuard(t) \/ LowerClosing(t)
           \/ EndPass(t) \/ EndSweep(t)
  BY <1>1, <1>4 DEF ListPositions, RaiseClosing, TakeGuard, LowerClosing, EndPass, EndSweep,
     chainVars
<1>5. CASE RecordSession(t) \/ DeleteRow(t) \/ TakeGuardToOpen(t) \/ Swap(t)
  BY <1>1, <1>5 DEF RecordSession, DeleteRow, TakeGuardToOpen, Swap, chainVars
<1>6. CASE ReadBalances(t) \/ ReadRow(t) \/ InsertRow(t)
  BY <1>1, <1>6 DEF ReadBalances, ReadRow, InsertRow, chainVars
<1> QED
  BY <1>2, <1>3, <1>4, <1>5, <1>6 DEF Step

\* A step of an operation adds nothing to what exists undoubted, except an
\* opening that was confirmed; what it is done with is closed or doubtful.
LEMMA StepHealthy ==
  ASSUME Known, Doubted, NEW t \in Tasks, WalletStep(t)
  PROVE  /\ Doubted'
         /\ \A m \in Healthy' : m \notin call[t].todo \ call'[t].todo
         /\ ~At(t, "openTx") => Healthy' \subseteq Healthy
         /\ At(t, "openTx") =>
              \/ Healthy' \subseteq Healthy
              \/ call'[t].ok = TRUE /\ \E m \in Mints : Healthy' \subseteq Healthy \cup {m}
<1>1. /\ Step(t) /\ WalletTypeOK
      /\ \A m \in Mints :
           m \in doubtful' <=>
             /\ \/ m \in doubtful \/ status'[m] = "openSent"
                \/ m \in call[t].todo \ call'[t].todo
             /\ status'[m] # "gone"
  BY DEF WalletStep, Known, BotInv, TasksTypeOK
<1>2. \A m \in Healthy' :
        /\ m \in Mints /\ status'[m] \in {"open", "closeSent"}
        /\ m \notin doubtful /\ m \notin call[t].todo \ call'[t].todo
  BY <1>1 DEF Healthy, OnChain
<1>3. \A m \in Mints : status[m] \in {"open", "closeSent"} /\ m \notin doubtful => m \in Healthy
  BY DEF Healthy, OnChain
<1>4. Doubted'
  BY <1>1 DEF Doubted
<1>5. CASE ~At(t, "openTx")
  BY <1>1, <1>2, <1>3, <1>4, <1>5, StepStatus
<1>6. CASE At(t, "openTx")
  <2>1. CASE UNCHANGED status
    BY <1>2, <1>3, <1>4, <1>6, <2>1
  <2>2. CASE ~ UNCHANGED status
    <3>1. PICK m \in Mints :
            /\ \A n \in Mints \ {m} : status'[n] = status[n]
            /\ status'[m] = "openSent" \/ (status'[m] = "open" /\ call'[t].ok = TRUE)
      BY <1>1, <1>6, <2>2, StepStatus
    <3> QED
      BY <1>2, <1>3, <1>4, <1>6, <3>1
  <2> QED
    BY <2>1, <2>2
<1> QED
  BY <1>5, <1>6

\* A transaction that was given up on lands or expires: nothing new is healthy.
LEMMA ChainHealthy ==
  ASSUME Known, Doubted, NEW m \in Mints, Chain(m)
  PROVE  Doubted' /\ Healthy' \subseteq Healthy
<1>1. /\ status[m] \in {"openSent", "closeSent"} /\ status'[m] \in {"open", "gone"}
      /\ \A n \in Mints \ {m} : status'[n] = status[n]
      /\ doubtful' = {d \in doubtful : status'[d] # "gone"}
  BY DEF Chain, Settle, Known, WalletTypeOK
<1>2. Doubted'
  BY <1>1 DEF Doubted
<1>3. \A n \in Healthy' : n \in Mints /\ status'[n] \in {"open", "closeSent"} /\ n \notin doubtful
  BY <1>1 DEF Healthy, OnChain
<1>4. \A n \in Healthy' : status[n] \in {"open", "closeSent"}
  BY <1>1, <1>3 DEF Doubted
<1> QED
  BY <1>2, <1>3, <1>4 DEF Healthy, OnChain

\* The pool task is where it was, and there is no more than before.
LEMMA KeptExposure ==
  ASSUME Known, Exposure, Healthy' \subseteq Healthy, pc'[Pool] = pc[Pool],
         pool'.minted = pool.minted, call'[Pool] = call[Pool]
  PROVE  Exposure'
<1> USE DEF At, JustOpened
<1>1. /\ IsFiniteSet(pool.minted) /\ Cardinality(pool.minted) \in Nat /\ NRanges \in Nat
      /\ Cardinality(pool.minted) + 1 \in Nat
  BY RangesCount, LiqBotAssumption DEF Known, BotInv, TasksTypeOK, PoolLocals
<1>2. AtMost(NRanges)'
  BY <1>1, Fewer DEF Exposure
<1>3. pc'[Pool] = "rounds" => AtMost(Cardinality(pool.minted))'
  BY <1>1, Fewer DEF Exposure
<1>4. pc'[Pool] = "opened" =>
        (AtMost(Cardinality(pool.minted) + IF JustOpened THEN 1 ELSE 0))'
  BY <1>1, Fewer DEF Exposure
<1> QED
  BY <1>2, <1>3, <1>4 DEF Exposure

\* How many roles can still be minted.
LEMMA MintedCount ==
  ASSUME Known
  PROVE  /\ Cardinality(pool.minted) \in Nat /\ Cardinality(pool.minted) <= NRanges
         /\ pc[Pool] = "opened" =>
              /\ Cardinality(pool.minted \cup {pool.turn}) = Cardinality(pool.minted) + 1
              /\ Cardinality(pool.minted) + 1 <= NRanges
<1>1. pool.minted \in SUBSET Ranges
  BY DEF Known, BotInv, TasksTypeOK, PoolLocals
<1>2. pc[Pool] = "opened" => pool.turn \in Ranges \ pool.minted
  BY DEF Known, BotInv, Turns
<1>3. pc[Pool] = "opened" => pool.minted \cup {pool.turn} \in SUBSET Ranges
  BY <1>1, <1>2
<1>4. /\ Cardinality(pool.minted) \in 0..NRanges
      /\ pc[Pool] = "opened" =>
           /\ Cardinality(pool.minted \cup {pool.turn}) = Cardinality(pool.minted) + 1
           /\ Cardinality(pool.minted \cup {pool.turn}) \in 0..NRanges
  BY <1>1, <1>2, <1>3, RangesCount
<1> QED
  BY <1>4, LiqBotAssumption

\* A step inside an operation.
LEMMA StepExposure ==
  ASSUME Known, ExposureInv, NEW t \in Tasks, WalletStep(t)
  PROVE  ExposureInv'
<1> USE DEF At
<1>0. /\ Step(t) /\ WalletTypeOK /\ Doubted /\ Calls /\ Exposure
      /\ UNCHANGED pc /\ UNCHANGED pool
  BY DEF WalletStep, taskVars, Known, ExposureInv
<1>1. /\ Doubted'
      /\ \A m \in Healthy' : m \notin call[t].todo \ call'[t].todo
      /\ call[t].op # "openTx" => Healthy' \subseteq Healthy
  BY <1>0, StepHealthy
<1>2. OthersKept(t)
  BY <1>0, StepOthersKept
<1>3. CASE t # Pool
  <2>1. call'[Pool] = call[Pool] /\ call[t].op \notin Opening /\ call'[t].op \notin Opening
    BY <1>0, <1>2, <1>3, TasksOfTheBot, StepFrame DEF OthersKept, Calls, Opening
  <2>2. Calls'
    BY <1>0, <1>2, <2>1 DEF Calls, OthersKept
  <2>3. Exposure'
    BY <1>0, <1>1, <2>1, KeptExposure DEF Opening
  <2> QED
    BY <1>1, <2>2, <2>3 DEF ExposureInv
<1>4. CASE t = Pool
  <2> USE <1>4
  <2>0. call[Pool].op # "idle"
    BY <1>0 DEF Step, ListPositions, Listing, RaiseClosing, TakeGuard,
       ClosePosition, CloseOne, LowerClosing, EndPass, EndSweep, RecordSession, DeleteRow,
       TakeGuardToOpen, OpenPosition, Swap, ReadBalances, ReadRow, InsertRow
  <2>1. Calls'
    <3>1. \A u \in Tasks : call'[u].op \in Opening => u = Pool /\ pc'[Pool] = "opened"
      BY <1>0, <1>2, StepFrame, TasksOfTheBot DEF Calls, OthersKept, Opening
    <3>2. pc[Pool] = "opened" => call'[Pool].op \in Opening \cup {"idle"}
      BY <1>0, <2>0, StepFrame DEF Calls, Opening
    <3>3. pc[Pool] = "sweep" => call'[Pool].op \in {"sweepListing", "sweeping", "idle"}
      BY <1>0, <2>0, StepFrame DEF Calls
    <3> QED
      BY <1>0, <3>1, <3>2, <3>3 DEF Calls
  <2>2. CASE call[Pool].op # "openTx"
    <3>1. Healthy' \subseteq Healthy
      BY <1>1, <2>2
    <3>2. AtMost(NRanges)'
      BY <1>0, <3>1, Fewer, LiqBotAssumption DEF Exposure
    <3>3. (pc[Pool] = "sweep" /\ At(Pool, "sweeping") => Healthy \subseteq call[Pool].todo)'
      <4>1. CASE call[Pool].op = "sweepListing"
        BY <1>0, <3>1, <4>1, StepFrame DEF Healthy
      <4>2. CASE call[Pool].op = "sweeping"
        BY <1>0, <1>1, <3>1, <4>2 DEF Exposure
      <4>3. CASE call[Pool].op \notin {"sweepListing", "sweeping"}
        BY <1>0, <2>0, <4>3 DEF Calls
      <4> QED
        BY <4>1, <4>2, <4>3
    <3>4. (pc[Pool] = "sweep" /\ At(Pool, "idle") /\ call[Pool].ok = TRUE => Healthy = {})'
      <4>1. CASE call[Pool].op = "sweepListing"
        BY <1>0, <4>1, StepFrame
      <4>2. CASE call[Pool].op = "sweeping"
        BY <1>0, <3>1, <4>2, StepFrame DEF Exposure
      <4>3. CASE call[Pool].op \notin {"sweepListing", "sweeping"}
        BY <1>0, <2>0, <4>3 DEF Calls
      <4> QED
        BY <4>1, <4>2, <4>3
    <3>5. (pc[Pool] = "rounds" => AtMost(Cardinality(pool.minted)))'
      BY <1>0, <3>1, Fewer, MintedCount DEF Exposure
    <3>6. pc[Pool] = "opened" => call[Pool].op = "openWait" /\ call'[Pool].op = "openTx"
      <4>1. pc[Pool] = "opened" => call[Pool].op \in {"openWait", "idle"}
        BY <1>0, <2>2 DEF Calls, Opening
      <4> QED
        BY <1>0, <2>0, <4>1, StepFrame
    <3>7. pc[Pool] = "opened" => AtMost(Cardinality(pool.minted) + 0)'
      BY <1>0, <3>1, <3>6, Fewer, MintedCount DEF Exposure, JustOpened
    <3>8. (pc[Pool] = "opened"
             => AtMost(Cardinality(pool.minted) + IF JustOpened THEN 1 ELSE 0))'
      BY <1>0, <3>6, <3>7 DEF JustOpened
    <3> QED
      BY <1>1, <2>1, <3>2, <3>3, <3>4, <3>5, <3>8 DEF ExposureInv, Exposure
  <2>3. CASE call[Pool].op = "openTx"
    <3>1. pc[Pool] = "opened" /\ pc'[Pool] = "opened" /\ call'[Pool].op = "idle"
      BY <1>0, <2>3, StepFrame, TasksOfTheBot DEF Calls, Opening
    <3>2. AtMost(Cardinality(pool.minted))
      <4>1. AtMost(Cardinality(pool.minted) + 0)
        BY <1>0, <2>3, <3>1 DEF Exposure, JustOpened
      <4> QED
        BY <4>1, MintedCount
    <3>3. CASE Healthy' \subseteq Healthy
      <4>1. AtMost(Cardinality(pool.minted))' /\ AtMost(NRanges)'
        BY <1>0, <3>2, <3>3, Fewer, MintedCount, LiqBotAssumption DEF Exposure
      <4>2. (AtMost(Cardinality(pool.minted) + IF JustOpened THEN 1 ELSE 0))'
        BY <1>0, <4>1, MintedCount, FS_CardinalityType DEF AtMost
      <4> QED
        BY <1>1, <2>1, <3>1, <4>1, <4>2 DEF ExposureInv, Exposure
    <3>4. CASE call'[Pool].ok = TRUE /\ \E m \in Mints : Healthy' \subseteq Healthy \cup {m}
      <4>1. AtMost(Cardinality(pool.minted) + 1)'
        BY <1>0, <3>2, <3>4, OneMore, MintedCount
      <4>2. AtMost(NRanges)'
        BY <1>0, <3>1, <4>1, MintedCount, FS_CardinalityType, LiqBotAssumption DEF AtMost
      <4>3. JustOpened'
        BY <3>1, <3>4 DEF JustOpened
      <4> QED
        BY <1>1, <2>1, <3>1, <4>1, <4>2, <4>3 DEF ExposureInv, Exposure
    <3> QED
      BY <1>0, <2>3, <3>3, <3>4, StepHealthy
  <2> QED
    BY <2>2, <2>3
<1> QED
  BY <1>3, <1>4

\* The pool task changes nothing that exists, and no other task's operation.
LEMMA PoolLeaves ==
  ASSUME Known, PoolNext
  PROVE  /\ Healthy' = Healthy /\ UNCHANGED <<status, doubtful>>
         /\ OthersKept(Pool)
<1>1. UNCHANGED walletVars \/ \E o \in Entries \cup {"idle"} : Begin(Pool, o)
  BY PoolStepsWallet DEF WalletStutters, CallsOrDrops
<1>2. UNCHANGED status /\ OthersKept(Pool)
  <2>1. CASE UNCHANGED walletVars
    BY <2>1 DEF walletVars, OthersKept
  <2>2. CASE \E o \in Entries \cup {"idle"} : Begin(Pool, o)
    BY <2>2, BeginEffect, TasksOfTheBot DEF Known, chainVars
  <2> QED
    BY <1>1, <2>1, <2>2
<1> QED
  BY <1>2, PoolSets DEF OnlyPool, Healthy, OnChain

LEMMA PoolElsewhere ==
  ASSUME Known, ExposureInv, PoolNext, pc'[Pool] \notin {"sweep", "rounds", "opened"},
         call'[Pool].op \notin Opening
  PROVE  ExposureInv'
<1>1. Healthy' = Healthy /\ UNCHANGED <<status, doubtful>> /\ OthersKept(Pool)
  BY PoolLeaves
<1>2. Doubted' /\ AtMost(NRanges)'
  BY <1>1 DEF ExposureInv, Doubted, Exposure, AtMost
<1>3. Calls'
  BY <1>1, TasksOfTheBot DEF ExposureInv, Calls, OthersKept
<1> QED
  BY <1>2, <1>3 DEF ExposureInv, Exposure

\* The steps of the pool task outside of the sweep and the rounds.
LEMMA PoolOtherExposure ==
  ASSUME Known, ExposureInv, PoolNext,
         ~(PoolStart \/ PoolSwept \/ PoolOpen \/ PoolOpened \/ PoolNextRound)
  PROVE  ExposureInv'
<1>0. WalletTypeOK /\ pc \in [Tasks -> Places] /\ Calls
  BY DEF Known, BotInv, TasksTypeOK, ExposureInv
<1>1. ASSUME NEW label \in PoolLabels \ {"sweep", "rounds", "opened"}, Move(Pool, label),
             NEW o \in (Entries \cup {"idle"}) \ Opening, Begin(Pool, o)
      PROVE  ExposureInv'
  BY <1>0, <1>1, PoolMove, BeginEffect, PoolElsewhere, TasksOfTheBot
<1>2. ASSUME NEW label \in PoolLabels \ {"sweep", "rounds", "opened"}, Move(Pool, label),
             UNCHANGED walletVars, pc[Pool] # "opened"
      PROVE  ExposureInv'
  <2>1. pc'[Pool] = label /\ call'[Pool].op \notin Opening
    BY <1>0, <1>2, PoolMove, TasksOfTheBot DEF walletVars, Calls
  <2> QED
    BY <2>1, PoolElsewhere
<1>3. ASSUME NEW kept, NextCycleAfter(kept) PROVE ExposureInv'
  BY <1>1, <1>3 DEF NextCycleAfter, Drop, PoolLabels, Opening
<1>4. CASE \/ PoolReadAuto \/ PoolLimitHit \/ PoolLimitOff \/ PoolReady \/ PoolDies \/ PoolReset
           \/ PoolReportOn \/ PoolOpeningOff \/ PoolTick \/ PoolTicked \/ PoolReportOff
           \/ PoolAutoOn
  BY <1>2, <1>4 DEF PoolReadAuto, PoolLimitHit, PoolLimitOff, PoolReady, PoolDies, PoolReset,
     PoolReportOn, PoolOpeningOff, PoolTick, PoolTicked, PoolReportOff, PoolAutoOn, PoolLabels
<1>5. CASE PoolNoLimit
  <2>1. CASE pool.auto
    BY <1>2, <1>5, <2>1 DEF PoolNoLimit, PoolLabels
  <2>2. CASE ~pool.auto
    BY <1>2, <1>5, <2>2 DEF PoolNoLimit, PoolLabels
  <2> QED
    BY <2>1, <2>2
<1>6. CASE PoolPrice
  BY <1>0, <1>6, PoolElsewhere, TasksOfTheBot DEF PoolPrice, walletVars, Calls
<1>7. CASE PoolNotReady \/ PoolRpcDown \/ PoolFails \/ PoolNotified \/ PoolRedeployed
  BY <1>3, <1>7 DEF PoolNotReady, PoolRpcDown, PoolFails, PoolNotified, PoolRedeployed,
     NextCycle
<1>8. CASE PoolGivesUp
  BY <1>1, <1>3, <1>8 DEF PoolGivesUp, NextCycle, Drop, PoolLabels, Opening
<1>9. CASE PoolListed \/ PoolEndsClosing
  BY <1>1, <1>9 DEF PoolListed, PoolEndsClosing, Drop, PoolLabels, Opening
<1>10. CASE \/ PoolAllOpen \/ PoolMeta \/ PoolAdopts \/ PoolRedeploys \/ PoolClosed
            \/ PoolClosesAgain \/ PoolResetOn \/ PoolSwapped
  BY <1>1, <1>10 DEF PoolAllOpen, PoolMeta, PoolAdopts, PoolRedeploys, PoolClosed,
     PoolClosesAgain, PoolResetOn, PoolSwapped, PoolLabels, Opening, Entries
<1> QED
  BY <1>4, <1>5, <1>6, <1>7, <1>8, <1>9, <1>10 DEF PoolNext

\* The sweep and the rounds: every opening that was confirmed took its turn.
LEMMA PoolRoundExposure ==
  ASSUME Known, ExposureInv, PoolNext,
         PoolStart \/ PoolSwept \/ PoolOpen \/ PoolOpened \/ PoolNextRound
  PROVE  ExposureInv'
<1> USE DEF At
<1>0. /\ WalletTypeOK /\ pc \in [Tasks -> Places] /\ Calls /\ Exposure /\ pool \in PoolLocals
      /\ pool.minted \in SUBSET Ranges
  BY DEF Known, BotInv, TasksTypeOK, PoolLocals, ExposureInv
<1>1. Healthy' = Healthy /\ UNCHANGED <<status, doubtful>> /\ OthersKept(Pool)
  BY PoolLeaves
<1>2. Doubted' /\ AtMost(NRanges)'
  BY <1>1 DEF ExposureInv, Doubted, Exposure, AtMost
<1>3. \A n : AtMost(n) => AtMost(n)'
  BY <1>1 DEF AtMost
<1>4. \A u \in Tasks \ {Pool} : call'[u].op \notin Opening
  BY <1>0, <1>1 DEF Calls, OthersKept
<1>5. CASE PoolStart
  <2>1. CASE Begin(Pool, "sweepListing") /\ Move(Pool, "sweep")
    <3>1. call'[Pool].op = "sweepListing" /\ pc'[Pool] = "sweep"
      BY <1>0, <2>1, BeginEffect, PoolMove, TasksOfTheBot DEF Entries, PoolLabels
    <3> QED
      BY <1>2, <1>4, <3>1 DEF ExposureInv, Exposure, Calls, Opening
  <2>2. CASE Move(Pool, "meta") /\ UNCHANGED walletVars
    <3>1. pc'[Pool] = "meta" /\ call'[Pool].op \notin Opening
      BY <1>0, <1>5, <2>2, PoolMove, TasksOfTheBot DEF PoolStart, PoolLabels, walletVars, Calls
    <3> QED
      BY <3>1, PoolElsewhere
  <2> QED
    BY <1>5, <2>1, <2>2 DEF PoolStart
<1>6. CASE PoolSwept
  <2>1. call'[Pool].op = "idle" /\ pc'[Pool] = "rounds" /\ pool'.minted = pool.minted
    BY <1>0, <1>6, BeginEffect, PoolMove, TasksOfTheBot
       DEF PoolSwept, Drop, PoolLabels, PoolLocals
  <2>2. Healthy = {}
    BY <1>0, <1>6 DEF PoolSwept, Returned, Ok, Exposure
  <2>3. AtMost(Cardinality(pool.minted))'
    BY <1>1, <2>1, <2>2, MintedCount, FS_EmptySet DEF AtMost
  <2> QED
    BY <1>2, <1>4, <2>1, <2>3 DEF ExposureInv, Exposure, Calls, Opening
<1>7. CASE PoolOpen
  <2>1. call'[Pool].op = "openWait" /\ pc'[Pool] = "opened" /\ pool'.minted = pool.minted
    BY <1>0, <1>7, BeginEffect, PoolMove, TasksOfTheBot DEF PoolOpen, PoolLabels, Entries
  <2>2. AtMost(Cardinality(pool.minted))
    BY <1>0, <1>7 DEF PoolOpen, Exposure
  <2>3. AtMost(Cardinality(pool.minted) + 0)' /\ ~JustOpened'
    BY <1>3, <2>1, <2>2, MintedCount DEF JustOpened
  <2> QED
    BY <1>2, <1>4, <2>1, <2>3 DEF ExposureInv, Exposure, Calls, Opening
<1>8. CASE PoolOpened
  <2>1. call'[Pool].op = "idle" /\ pc'[Pool] = "rounds"
    BY <1>0, <1>8, BeginEffect, PoolMove, TasksOfTheBot DEF PoolOpened, Drop, PoolLabels
  <2>2. pool'.minted = IF Ok(Pool) THEN pool.minted \cup {pool.turn} ELSE pool.minted
    BY <1>0, <1>8 DEF PoolOpened, PoolLocals
  <2>3. AtMost(Cardinality(pool.minted) + IF JustOpened THEN 1 ELSE 0)
    BY <1>0, <1>8 DEF PoolOpened, Returned, Exposure
  <2>4. JustOpened <=> Ok(Pool)
    BY <1>8 DEF PoolOpened, Returned, JustOpened, Ok
  <2>5. AtMost(Cardinality(pool.minted))'
    <3>1. CASE Ok(Pool)
      BY <1>1, <1>8, <2>2, <2>3, <2>4, <3>1, MintedCount DEF AtMost, PoolOpened, Returned
    <3>2. CASE ~Ok(Pool)
      BY <1>1, <2>2, <2>3, <2>4, <3>2, MintedCount DEF AtMost
    <3> QED
      BY <3>1, <3>2
  <2> QED
    BY <1>2, <1>4, <2>1, <2>5 DEF ExposureInv, Exposure, Calls, Opening
<1>9. CASE PoolNextRound
  <2>1. pc'[Pool] = "rounds" /\ call' = call /\ pc[Pool] = "rounds"
    BY <1>9 DEF PoolNextRound, walletVars
  <2>2. pool'.minted = pool.minted
    BY <1>0, <1>9 DEF PoolNextRound, PoolLocals
  <2>3. AtMost(Cardinality(pool.minted))'
    BY <1>0, <1>3, <2>1, <2>2 DEF Exposure
  <2>4. Calls'
    BY <1>0, <2>1 DEF Calls
  <2> QED
    BY <1>2, <2>1, <2>3, <2>4 DEF ExposureInv, Exposure
<1> QED
  BY <1>5, <1>6, <1>7, <1>8, <1>9

\* The reporter and the commands call no opening and no sweep.
LEMMA ReporterCalls ==
  ReporterNext =>
    /\ UNCHANGED walletVars \/ \E o \in (Entries \cup {"idle"}) \ Opening : Begin(Reporter, o)
    /\ UNCHANGED pool /\ UNCHANGED doubtful
    /\ \E label : Move(Reporter, label)
<1> USE DEF Entries, Opening, OnlyReporter
<1>1. CASE \/ ReporterBoot \/ ReporterBooted \/ ReporterReadReset \/ ReporterReadOpening
           \/ ReporterReadRun \/ ReporterDone
  BY <1>1 DEF ReporterBoot, ReporterBooted, ReporterReadReset, ReporterReadOpening,
     ReporterReadRun, ReporterDone
<1>2. CASE \/ ReporterReadClosing \/ ReporterFixes \/ ReporterFixed \/ ReporterMeasures
           \/ ReporterEnds
  BY <1>2 DEF ReporterReadClosing, ReporterFixes, ReporterFixed, ReporterMeasures,
     ReporterEnds, Drop
<1> QED
  BY <1>1, <1>2 DEF ReporterNext

LEMMA CommandCalls ==
  ASSUME NEW c \in Commands,
         \/ \E kind \in CloseCommands : CloseCommand(c, kind)
         \/ CommandOpeningOn(c) \/ CommandNotifies(c) \/ CommandSwaps(c) \/ CommandEnds(c)
  PROVE  /\ UNCHANGED walletVars \/ \E o \in (Entries \cup {"idle"}) \ Opening : Begin(c, o)
         /\ pool' \in {pool, [pool EXCEPT !.notified = TRUE], [pool EXCEPT !.notified = FALSE]}
         /\ UNCHANGED doubtful
         /\ \E label : Move(c, label)
<1> USE DEF Entries, Opening
<1>1. CASE CommandNotifies(c)
  <2>1. \/ pool' = [pool EXCEPT !.notified = TRUE]
        \/ pool' = [pool EXCEPT !.notified = FALSE]
    BY <1>1, Zenon DEF CommandNotifies
  <2> QED
    BY <1>1, <2>1 DEF CommandNotifies
<1>2. CASE \E kind \in CloseCommands : CloseCommand(c, kind)
  BY <1>2 DEF CloseCommand
<1>3. CASE CommandOpeningOn(c) \/ CommandSwaps(c) \/ CommandEnds(c)
  BY <1>3 DEF CommandOpeningOn, CommandSwaps, CommandEnds, Drop
<1> QED
  BY <1>1, <1>2, <1>3

\* A task other than the pool task begins or drops an operation.
LEMMA OthersExposure ==
  ASSUME Known, ExposureInv, NEW t \in Tasks \ {Pool},
         UNCHANGED walletVars \/ \E o \in (Entries \cup {"idle"}) \ Opening : Begin(t, o),
         UNCHANGED doubtful, pool'.minted = pool.minted, \E label : Move(t, label)
  PROVE  ExposureInv'
<1>1. WalletTypeOK /\ pc \in [Tasks -> Places] /\ Calls /\ Exposure
  BY DEF Known, BotInv, TasksTypeOK, ExposureInv
<1>2. UNCHANGED status /\ OthersKept(t) /\ call'[t].op \notin Opening
  <2>1. CASE UNCHANGED walletVars
    BY <1>1, <2>1 DEF walletVars, OthersKept, Calls
  <2>2. ASSUME NEW o \in (Entries \cup {"idle"}) \ Opening, Begin(t, o)
        PROVE  UNCHANGED status /\ OthersKept(t) /\ call'[t].op \notin Opening
    BY <1>1, <2>2, BeginEffect DEF chainVars
  <2> QED
    BY <2>1, <2>2
<1>3. pc'[Pool] = pc[Pool] /\ call'[Pool] = call[Pool]
  BY <1>1, <1>2, TasksOfTheBot DEF Move, OthersKept
<1>4. Healthy' \subseteq Healthy /\ Doubted'
  BY <1>2 DEF Healthy, OnChain, Doubted, ExposureInv
<1>5. Calls'
  BY <1>1, <1>2, <1>3 DEF Calls, OthersKept
<1> QED
  BY <1>1, <1>3, <1>4, <1>5, KeptExposure DEF ExposureInv

\* The process starts over: nothing runs, what was sent may land later, and an
\* opening that was sent is doubtful from then on.
LEMMA BootExposure ==
  ASSUME Known, ExposureInv, Boot
  PROVE  ExposureInv'
<1>1. /\ pc'[Pool] = "top" /\ LeaveUnderWay
      /\ doubtful' = doubtful \cup {m \in Mints : status'[m] = "openSent"}
      /\ \A t \in Tasks : call'[t].op = "idle"
  BY TasksOfTheBot DEF Boot, BootPc, Restart, Idle
<1>2. Doubted' /\ AtMost(NRanges)'
  <2>1. PICK sent \in SUBSET Mints :
          /\ \A m \in sent : \E t \in Tasks : m \in UnderWay(t)
          /\ status' = [m \in Mints |->
                          IF m \notin sent THEN status[m]
                          ELSE IF status[m] = "free" THEN "openSent" ELSE "closeSent"]
    BY <1>1 DEF LeaveUnderWay
  <2>2. \A m \in sent : status[m] \in {"free", "open"}
    BY <2>1 DEF UnderWay
  <2>3. \A m \in Mints : status'[m] \in {"open", "closeSent"}
                           => status[m] \in {"open", "closeSent"}
    BY <2>1, <2>2
  <2>4. Healthy' \subseteq Healthy
    BY <1>1, <2>3 DEF Healthy, OnChain
  <2>5. Doubted'
    BY <1>1 DEF Doubted
  <2> QED
    BY <2>4, <2>5, Fewer, LiqBotAssumption DEF ExposureInv, Exposure
<1>3. Calls'
  BY <1>1 DEF Calls, Opening
<1> QED
  BY <1>1, <1>2, <1>3 DEF ExposureInv, Exposure

LEMMA NextExposure ==
  ASSUME Known, ExposureInv, [LiqBotNext]_vars
  PROVE  ExposureInv'
<1> USE LiqBotAssumption
<1>1. CASE PoolNext
  BY <1>1, PoolOtherExposure, PoolRoundExposure
<1>2. CASE ReporterNext
  BY <1>2, ReporterCalls, OthersExposure
<1>3. ASSUME NEW c \in Commands,
             \/ \E kind \in CloseCommands : CloseCommand(c, kind)
             \/ CommandOpeningOn(c) \/ CommandNotifies(c) \/ CommandSwaps(c) \/ CommandEnds(c)
      PROVE  ExposureInv'
  <2>1. pool'.minted = pool.minted
    BY <1>3, CommandCalls DEF Known, BotInv, TasksTypeOK, PoolLocals
  <2>2. c \in Tasks \ {Pool}
    OBVIOUS
  <2>3. /\ UNCHANGED walletVars \/ \E o \in (Entries \cup {"idle"}) \ Opening : Begin(c, o)
        /\ UNCHANGED doubtful /\ \E label : Move(c, label)
    BY <1>3, CommandCalls
  <2> QED
    BY <2>1, <2>2, <2>3, OthersExposure
<1>4. ASSUME NEW trigger \in {"auto_trade", "limit"}, NEW value \in BOOLEAN,
             TriggerCommand(trigger, value)
      PROVE  ExposureInv'
  BY <1>4, KeptExposure DEF TriggerCommand, walletVars, ExposureInv, Doubted, Calls, Healthy, OnChain
<1>5. CASE CommandsNext
  BY <1>3, <1>4, <1>5, BootExposure DEF CommandsNext, CommandExits
<1>6. CASE \E t \in Tasks : WalletStep(t)
  BY <1>6, StepExposure
<1>7. ASSUME NEW m \in Mints, Chain(m) PROVE ExposureInv'
  <2>1. Doubted' /\ Healthy' \subseteq Healthy
    BY <1>7, ChainHealthy DEF ExposureInv
  <2> QED
    BY <1>7, <2>1, KeptExposure DEF Chain, Settle, taskVars, ExposureInv, Calls
<1>8. CASE Crash
  BY <1>8, BootExposure DEF Crash
<1>9. CASE UNCHANGED vars
  BY <1>9, KeptExposure DEF vars, walletVars, taskVars, ExposureInv, Doubted, Calls, Healthy, OnChain
<1> QED
  BY <1>1, <1>2, <1>5, <1>6, <1>7, <1>8, <1>9 DEF LiqBotNext

\* run_pool_with_restart and orchestrator_pool: whatever fails or is ordered in
\* between, more than one deployment exists only if an open or a close of the
\* excess positions returned an error, or the process ended while
\* send_and_confirm waited for their opening.
THEOREM ExposureBounded == LiqBotSpec => []ExposureBound
<1>1. LiqBotInit => ExposureInv
  <2> SUFFICES ASSUME LiqBotInit PROVE ExposureInv
    OBVIOUS
  <2>1. /\ pc[Pool] = "top" /\ \A t \in Tasks : call[t].op = "idle"
        /\ \A m \in Mints : status[m] = "free"
    BY TasksOfTheBot DEF LiqBotInit, WalletInit, BootPc, Idle
  <2>2. Healthy = {}
    BY <2>1 DEF Healthy, OnChain
  <2> QED
    BY <2>1, <2>2, FS_EmptySet, LiqBotAssumption
       DEF ExposureInv, Doubted, Calls, Opening, Exposure, AtMost
<1>2. Known /\ ExposureInv /\ [LiqBotNext]_vars => ExposureInv'
  BY NextExposure
<1>3. ExposureInv => ExposureBound
  BY DEF ExposureInv, Exposure, AtMost, Healthy, ExposureBound
<1> QED
  BY <1>1, <1>2, <1>3, BotInvAlways, PTL DEF LiqBotSpec, Known

-----------------------------------------------------------------------------
(***************************************************************************)
(* The end of a deployment, an adoption or a redeployment.                 *)
(***************************************************************************)

\* Where the pool task waits for the market, or has stopped for good.
Resting == {"top", "limit", "wait", "monitor", "http", "dead", "panicked"}

\* The places ahead until the monitoring loop, and after it until the next cycle.
Left ==
  [limitOff |-> 8, reset |-> 7, start |-> 6, sweep |-> 5, meta |-> 5, adopt |-> 4,
   rounds |-> 4, opened |-> 4, listed |-> 3, reportOn |-> 2, openingOff |-> 1,
   close |-> 6, closeList |-> 6, reportOff |-> 5, autoOn |-> 4, resetOn |-> 3,
   swap |-> 2, balances |-> 1]

\* The rounds and close attempts that are left, the turns of the round, and
\* whether the operation of the turn or attempt was called.
CycleRank ==
  IF pc[Pool] \in Resting THEN <<0, 0, 0, 0>>
  ELSE <<Left[pc[Pool]], MaxRounds - pool.round + MaxCloseAttempts - pool.attempt,
         NRanges + 1 - pool.turn, IF pc[Pool] \in {"rounds", "close"} THEN 1 ELSE 0>>

\* The first difference decides.
LowerThan(r, s) == \E i \in 1..4 : r[i] < s[i] /\ \A j \in 1..i - 1 : r[j] = s[j]

\* Once the pool task has decided to deploy, to adopt or to redeploy, each of
\* its steps lowers this rank: the rounds with their turns and the attempts to
\* close, with the errors, retries and early returns in between, do not go in
\* a circle, and `opening` is not raised for ever by a running task.
ComesToRest ==
  [][PoolNext /\ pc[Pool] \notin Resting =>
       CycleRank \in Nat \X Nat \X Nat \X Nat /\ LowerThan(CycleRank', CycleRank)]_vars

LEMMA LowerBy ==
  ASSUME NEW a, NEW b, NEW c, NEW d, NEW u, NEW v, NEW w, NEW x,
         \/ a < u
         \/ a = u /\ b < v
         \/ a = u /\ b = v /\ c < w
         \/ a = u /\ b = v /\ c = w /\ d < x
  PROVE  LowerThan(<<a, b, c, d>>, <<u, v, w, x>>)
BY DEF LowerThan

LEMMA LeftIs == \A label \in PoolLabels \ Resting : Left[label] \in Nat /\ Left[label] > 0
BY DEF PoolLabels, Resting, Left

LEMMA LeftOrder ==
  /\ Left["reset"] < Left["limitOff"] /\ Left["start"] < Left["reset"]
  /\ Left["sweep"] < Left["start"] /\ Left["meta"] < Left["start"]
  /\ Left["reportOn"] < Left["listed"] /\ Left["openingOff"] < Left["listed"]
  /\ Left["openingOff"] < Left["reportOn"] /\ "monitor" \in Resting
  /\ Left["autoOn"] < Left["reportOff"] /\ Left["resetOn"] < Left["autoOn"]
  /\ Left["swap"] < Left["resetOn"] /\ Left["balances"] < Left["swap"]
  /\ {"reset", "start", "sweep", "meta", "reportOn", "openingOff", "monitor", "autoOn",
      "resetOn", "swap", "balances"} \subseteq PoolLabels
BY DEF Left, Resting, PoolLabels

LEMMA PoolPlaces ==
  ASSUME BotInv, PoolNext
  PROVE  pc[Pool] \in PoolLabels
BY DEF PoolNext, PoolReadAuto, PoolLimitHit, PoolLimitOff, PoolNoLimit, PoolNotReady, PoolReady,
   PoolDies, PoolReset, PoolStart, PoolRpcDown, PoolFails, PoolSwept, PoolOpen, PoolOpened,
   PoolNextRound, PoolAllOpen, PoolGivesUp, PoolMeta, PoolAdopts, PoolListed, PoolReportOn,
   PoolOpeningOff, PoolTick, PoolTicked, PoolPrice, PoolNotified, PoolRedeploys, PoolClosed,
   PoolClosesAgain, PoolEndsClosing, PoolReportOff, PoolAutoOn, PoolResetOn, PoolSwapped,
   PoolRedeployed, Returned, StillOpen, PoolLabels

\* The pool task passes on, or comes to rest.
LEMMA PassesOn ==
  ASSUME BotInv, pc[Pool] \in PoolLabels \ Resting, NEW label \in PoolLabels, Move(Pool, label),
         label \in Resting \/ Left[label] < Left[pc[Pool]]
  PROVE  LowerThan(CycleRank', CycleRank)
<1>1. pc'[Pool] = label
  BY PoolMove DEF BotInv, TasksTypeOK
<1> QED
  BY <1>1, LeftIs, LowerBy DEF CycleRank

LEMMA DeploymentPassesOn ==
  ASSUME BotInv, pc[Pool] \in PoolLabels \ Resting,
         \/ PoolLimitOff \/ PoolReset \/ PoolStart \/ PoolSwept \/ PoolAllOpen \/ PoolMeta
         \/ PoolAdopts \/ PoolListed \/ PoolReportOn \/ PoolOpeningOff
  PROVE  LowerThan(CycleRank', CycleRank)
<1>1. CASE PoolLimitOff \/ PoolReset \/ PoolStart
  BY <1>1, PassesOn, LeftOrder DEF PoolLimitOff, PoolReset, PoolStart
<1>2. CASE PoolSwept \/ PoolAllOpen \/ PoolMeta \/ PoolAdopts
  BY <1>2, PassesOn DEF PoolSwept, PoolAllOpen, PoolMeta, PoolAdopts, Returned, Left, PoolLabels
<1>3. CASE PoolListed \/ PoolReportOn \/ PoolOpeningOff
  BY <1>3, PassesOn, LeftOrder DEF PoolListed, PoolReportOn, PoolOpeningOff, Returned
<1> QED
  BY <1>1, <1>2, <1>3

LEMMA RedeploymentPassesOn ==
  ASSUME BotInv, pc[Pool] \in PoolLabels \ Resting,
         PoolEndsClosing \/ PoolReportOff \/ PoolAutoOn \/ PoolResetOn \/ PoolSwapped
  PROVE  LowerThan(CycleRank', CycleRank)
<1>1. CASE PoolEndsClosing
  BY <1>1, PassesOn DEF PoolEndsClosing, StillOpen, Returned, Left, PoolLabels
<1>2. CASE PoolReportOff \/ PoolAutoOn \/ PoolResetOn \/ PoolSwapped
  BY <1>2, PassesOn, LeftOrder DEF PoolReportOff, PoolAutoOn, PoolResetOn, PoolSwapped, Returned
<1> QED
  BY <1>1, <1>2

\* An error, or the last step of a cycle, leads back to its head.
LEMMA EndsPassOn ==
  ASSUME BotInv, pc[Pool] \in PoolLabels \ Resting,
         \/ PoolRpcDown \/ PoolFails \/ PoolGivesUp \/ PoolRedeployed \/ PoolNotReady
         \/ PoolNotified \/ PoolDies
  PROVE  LowerThan(CycleRank', CycleRank)
<1>1. "top" \in PoolLabels \cap Resting /\ "panicked" \in PoolLabels \cap Resting
      /\ "dead" \in PoolLabels \cap Resting
  BY DEF PoolLabels, Resting
<1>2. ASSUME NEW kept, NextCycleAfter(kept)
      PROVE  LowerThan(CycleRank', CycleRank)
  BY <1>1, <1>2, PassesOn DEF NextCycleAfter
<1> QED
  BY <1>1, <1>2, PassesOn DEF PoolRpcDown, PoolFails, PoolGivesUp, PoolRedeployed, PoolNotReady,
     PoolNotified, PoolDies, NextCycle

\* The rounds.
LEMMA RoundsPassOn ==
  ASSUME BotInv, PoolOpen \/ PoolOpened \/ PoolNextRound
  PROVE  LowerThan(CycleRank', CycleRank)
<1> USE LiqBotAssumption
<1>1. /\ pool \in PoolLocals /\ pool.turn \in 1..NRanges + 1 /\ pool.round \in 1..MaxRounds
      /\ pool.attempt \in 1..MaxCloseAttempts /\ pool.minted \in SUBSET Ranges
      /\ pc \in [Tasks -> Places]
  BY DEF BotInv, TasksTypeOK, PoolLocals
<1>2. Left["rounds"] = 4 /\ Left["opened"] = 4 /\ {"rounds", "opened"} \subseteq PoolLabels \ Resting
  BY DEF Left, PoolLabels, Resting
<1>3. CASE PoolOpen
  <2>1. pc[Pool] = "rounds" /\ pc'[Pool] = "opened" /\ pool' = pool
    BY <1>1, <1>2, <1>3, PoolMove DEF PoolOpen
  <2> QED
    BY <1>1, <1>2, <2>1, LowerBy DEF CycleRank
<1>4. CASE PoolOpened
  <2>1. pc[Pool] = "opened" /\ pc'[Pool] = "rounds" /\ pool.turn \in Ranges
    BY <1>1, <1>2, <1>4, PoolMove DEF PoolOpened, Returned, BotInv, Turns
  <2>2. PICK minted \in SUBSET Ranges :
          pool' = [pool EXCEPT !.minted = minted, !.turn = NextTurn(@, minted)]
    BY <1>1, <1>4, <2>1 DEF PoolOpened
  <2>3. /\ pool'.turn = NextTurn(pool.turn, minted) /\ pool'.round = pool.round
        /\ pool'.attempt = pool.attempt
    BY <1>1, <2>2 DEF PoolLocals
  <2>4. pool'.turn > pool.turn /\ pool'.turn \in 1..NRanges + 1
    BY <1>1, <2>1, <2>3, NextTurnIs DEF Ranges
  <2> QED
    BY <1>1, <1>2, <2>1, <2>3, <2>4, LowerBy DEF CycleRank
<1>5. CASE PoolNextRound
  <2>1. pc[Pool] = "rounds" /\ pc'[Pool] = "rounds"
    BY <1>5 DEF PoolNextRound
  <2>2. pool'.round = pool.round + 1 /\ pool'.attempt = pool.attempt
    BY <1>1, <1>5 DEF PoolNextRound, PoolLocals
  <2> QED
    BY <1>1, <1>2, <2>1, <2>2, LowerBy DEF CycleRank
<1> QED
  BY <1>3, <1>4, <1>5

\* The attempts to close.
LEMMA AttemptsPassOn ==
  ASSUME BotInv, PoolClosed \/ PoolClosesAgain
  PROVE  LowerThan(CycleRank', CycleRank)
<1> USE LiqBotAssumption
<1>1. /\ pool \in PoolLocals /\ pool.turn \in 1..NRanges + 1 /\ pool.round \in 1..MaxRounds
      /\ pool.attempt \in 1..MaxCloseAttempts /\ pc \in [Tasks -> Places]
  BY DEF BotInv, TasksTypeOK, PoolLocals
<1>2. Left["close"] = 6 /\ Left["closeList"] = 6 /\ {"close", "closeList"} \subseteq PoolLabels \ Resting
  BY DEF Left, PoolLabels, Resting
<1>3. CASE PoolClosed
  <2>1. pc[Pool] = "close" /\ pc'[Pool] = "closeList" /\ pool' = pool
    BY <1>1, <1>2, <1>3, PoolMove DEF PoolClosed, Returned
  <2> QED
    BY <1>1, <1>2, <2>1, LowerBy DEF CycleRank
<1>4. CASE PoolClosesAgain
  <2>1. pc[Pool] \in {"close", "closeList"} /\ pc'[Pool] = "close"
    BY <1>1, <1>2, <1>4, PoolMove DEF PoolClosesAgain, StillOpen, Returned
  <2>2. pool'.attempt = pool.attempt + 1 /\ pool'.round = pool.round
    BY <1>1, <1>4 DEF PoolClosesAgain, PoolLocals
  <2> QED
    BY <1>1, <1>2, <2>1, <2>2, LowerBy DEF CycleRank
<1> QED
  BY <1>3, <1>4

LEMMA PoolPassesOn ==
  ASSUME BotInv, PoolNext, pc[Pool] \notin Resting
  PROVE  CycleRank \in Nat \X Nat \X Nat \X Nat /\ LowerThan(CycleRank', CycleRank)
<1>1. pc[Pool] \in PoolLabels \ Resting
  BY PoolPlaces
<1>2. CycleRank \in Nat \X Nat \X Nat \X Nat
  <2>1. /\ MaxRounds - pool.round + MaxCloseAttempts - pool.attempt \in Nat
        /\ NRanges + 1 - pool.turn \in Nat
    BY LiqBotAssumption DEF BotInv, TasksTypeOK, PoolLocals
  <2> QED
    BY <1>1, <2>1, LeftIs DEF CycleRank
<1>3. ~(PoolReadAuto \/ PoolLimitHit \/ PoolNoLimit \/ PoolReady \/ PoolTick \/ PoolTicked
        \/ PoolPrice \/ PoolRedeploys)
  BY DEF PoolReadAuto, PoolLimitHit, PoolNoLimit, PoolReady, PoolTick, PoolTicked, PoolPrice,
     PoolRedeploys, Resting
<1> QED
  BY <1>1, <1>2, <1>3, DeploymentPassesOn, RedeploymentPassesOn, EndsPassOn, RoundsPassOn,
     AttemptsPassOn DEF PoolNext

\* Whatever fails in it, a cycle of the pool task takes boundedly many steps of
\* its own from its decision to the monitoring loop, and from there to the next
\* cycle.
THEOREM CycleComesToRest == LiqBotSpec => ComesToRest
<1>1. BotInv /\ [LiqBotNext]_vars
        => [PoolNext /\ pc[Pool] \notin Resting =>
              /\ CycleRank \in Nat \X Nat \X Nat \X Nat
              /\ LowerThan(CycleRank', CycleRank)]_vars
  BY PoolPassesOn
<1> QED
  BY <1>1, BotInvAlways, PTL DEF LiqBotSpec, ComesToRest

=============================================================================
