---------------------------- MODULE LiqBotProofs ----------------------------
(***************************************************************************)
(* The bot implements the wallet component: every step of its tasks is a   *)
(* step of the component or leaves it alone.  So all that module           *)
(* WalletProofs proves of the component holds in the running bot.          *)
(***************************************************************************)
EXTENDS LiqBot, WalletProofs

\* What a step of the bot means for the wallet.
WalletStutters == UNCHANGED walletVars
CallsOrDrops(t) == \E o \in Entries \cup {"idle"} : Begin(t, o)

LEMMA TasksOfTheBot ==
  /\ Pool \in Tasks /\ Reporter \in Tasks
  /\ \A c \in Commands : c \in Tasks
BY LiqBotAssumption

\* The pool task.
LEMMA PoolStepsWallet == PoolNext => WalletStutters \/ CallsOrDrops(Pool)
<1> SUFFICES ASSUME PoolNext PROVE WalletStutters \/ CallsOrDrops(Pool)
  OBVIOUS
<1> USE DEF WalletStutters, CallsOrDrops, Entries
<1>1. CASE \/ PoolReadAuto \/ PoolLimitHit \/ PoolLimitOff \/ PoolNoLimit
           \/ PoolReady \/ PoolDies \/ PoolReset
  BY <1>1 DEF PoolReadAuto, PoolLimitHit, PoolLimitOff, PoolNoLimit, PoolReady,
     PoolDies, PoolReset
<1>2. CASE PoolNotReady \/ PoolRpcDown \/ PoolFails \/ PoolNotified \/ PoolRedeployed
  BY <1>2 DEF PoolNotReady, PoolRpcDown, PoolFails, PoolNotified, PoolRedeployed,
     NextCycle, NextCycleAfter, Drop
<1>3. CASE PoolStart \/ PoolSwept \/ PoolOpen \/ PoolOpened \/ PoolNextRound \/ PoolAllOpen
  BY <1>3 DEF PoolStart, PoolSwept, PoolOpen, PoolOpened, PoolNextRound, PoolAllOpen, Drop
<1>4. CASE PoolGivesUp
  BY <1>4 DEF PoolGivesUp, NextCycle, NextCycleAfter, Drop
<1>5. CASE PoolMeta \/ PoolAdopts \/ PoolListed \/ PoolReportOn \/ PoolOpeningOff
  BY <1>5 DEF PoolMeta, PoolAdopts, PoolListed, PoolReportOn, PoolOpeningOff, Drop
<1>6. CASE PoolTick \/ PoolTicked \/ PoolPrice \/ PoolRedeploys \/ PoolClosed
  BY <1>6 DEF PoolTick, PoolTicked, PoolPrice, PoolRedeploys, PoolClosed
<1>7. CASE \/ PoolClosesAgain \/ PoolEndsClosing \/ PoolReportOff \/ PoolAutoOn
           \/ PoolResetOn \/ PoolSwapped
  BY <1>7 DEF PoolClosesAgain, PoolEndsClosing, PoolReportOff, PoolAutoOn, PoolResetOn,
     PoolSwapped, Drop
<1> QED
  BY <1>1, <1>2, <1>3, <1>4, <1>5, <1>6, <1>7 DEF PoolNext

\* The reporter.
LEMMA ReporterStepsWallet == ReporterNext => WalletStutters \/ CallsOrDrops(Reporter)
<1> SUFFICES ASSUME ReporterNext PROVE WalletStutters \/ CallsOrDrops(Reporter)
  OBVIOUS
<1> USE DEF WalletStutters, CallsOrDrops, Entries
<1>1. CASE \/ ReporterBoot \/ ReporterBooted \/ ReporterReadReset \/ ReporterReadOpening
           \/ ReporterReadRun \/ ReporterDone
  BY <1>1 DEF ReporterBoot, ReporterBooted, ReporterReadReset, ReporterReadOpening,
     ReporterReadRun, ReporterDone
<1>2. CASE \/ ReporterReadClosing \/ ReporterFixes \/ ReporterFixed \/ ReporterMeasures
           \/ ReporterEnds
  BY <1>2 DEF ReporterReadClosing, ReporterFixes, ReporterFixed, ReporterMeasures,
     ReporterEnds, Drop
<1> QED
  BY <1>1, <1>2 DEF ReporterNext

\* The commands: they call, drop, leave alone, or restart the process.
LEMMA CommandsStepsWallet ==
  CommandsNext => WalletStutters \/ Restart \/ \E c \in Commands : CallsOrDrops(c)
<1> SUFFICES ASSUME CommandsNext
             PROVE  WalletStutters \/ Restart \/ \E c \in Commands : CallsOrDrops(c)
  OBVIOUS
<1> USE DEF WalletStutters, CallsOrDrops, Entries
<1>1. ASSUME NEW c \in Commands, NEW kind \in CloseCommands, CloseCommand(c, kind)
      PROVE  WalletStutters \/ CallsOrDrops(c)
  BY <1>1 DEF CloseCommand
<1>2. ASSUME NEW c \in Commands,
             CommandOpeningOn(c) \/ CommandNotifies(c) \/ CommandSwaps(c) \/ CommandEnds(c)
      PROVE  CallsOrDrops(c)
  BY <1>2 DEF CommandOpeningOn, CommandNotifies, CommandSwaps, CommandEnds, Drop
<1>3. ASSUME NEW c \in Commands, CommandExits(c)
      PROVE  Restart
  BY <1>3 DEF CommandExits, Boot
<1>4. ASSUME NEW trigger \in {"auto_trade", "limit"}, NEW value \in BOOLEAN,
             TriggerCommand(trigger, value)
      PROVE  WalletStutters
  BY <1>4 DEF TriggerCommand
<1> QED
  BY <1>1, <1>2, <1>3, <1>4 DEF CommandsNext

\* Every step of the bot is a step of the wallet component, or a stutter.
LEMMA StepImplements == [LiqBotNext]_vars => [WalletNext]_walletVars
<1> SUFFICES ASSUME [LiqBotNext]_vars PROVE WalletNext \/ UNCHANGED walletVars
  OBVIOUS
<1>1. ASSUME NEW t \in Tasks, CallsOrDrops(t)
      PROVE  WalletNext
  BY <1>1 DEF CallsOrDrops, WalletNext, Drop
<1>2. CASE PoolNext
  BY <1>1, <1>2, PoolStepsWallet, TasksOfTheBot DEF WalletStutters
<1>3. CASE ReporterNext
  BY <1>1, <1>3, ReporterStepsWallet, TasksOfTheBot DEF WalletStutters
<1>4. CASE CommandsNext
  BY <1>1, <1>4, CommandsStepsWallet, TasksOfTheBot DEF WalletStutters, WalletNext
<1>5. CASE \E t \in Tasks : WalletStep(t)
  BY <1>5 DEF WalletStep, WalletNext
<1>6. CASE \E m \in Mints : Chain(m)
  BY <1>6 DEF Chain, WalletNext
<1>7. CASE Crash
  BY <1>7 DEF Crash, Boot, WalletNext
<1>8. CASE UNCHANGED vars
  BY <1>8 DEF vars
<1> QED
  BY <1>2, <1>3, <1>4, <1>5, <1>6, <1>7, <1>8 DEF LiqBotNext

\* The running bot implements the wallet component.
THEOREM BotImplementsWallet == LiqBotSpec => WalletSpec
<1>1. LiqBotInit => WalletInit
  BY DEF LiqBotInit
<1> QED
  BY <1>1, StepImplements, PTL DEF LiqBotSpec, WalletSpec

\* In the running bot: the guard excludes; a session is recorded once, and again
\* only after a failed delete or the end of the process left its row behind;
\* ending it means its positions are closed; and no wallet operation of any task
\* goes in a circle.
THEOREM BotWalletSafety ==
  LiqBotSpec =>
    /\ [](GuardOwnedExactly /\ SessionRecordedOnce /\ RecordedMeansClosed)
    /\ CallsGetOn
BY BotImplementsWallet, GuardCorrect, RecordedOnce, ClosedWhenRecorded, OperationsGetOn, PTL

\* In the running bot one failed close blocks the wallet until the process is
\* restarted, the retry is never made, and a deployment that ended well leaves
\* `closing` up, with which the reporter never heals again.
THEOREM BotBlockedByFailedClose ==
  LiqBotSpec => KeptForLife /\ []RetryNeverRuns /\ ClosingFallsByFailure
BY BotImplementsWallet, FailedCloseBlocks, RetryIsDead, ClosingOutlivesSuccess, PTL

-----------------------------------------------------------------------------
(***************************************************************************)
(* The reporter is held back.  It passes its gate when `opening` is down,  *)
(* so the invariant to prove is that `opening` is up while the pool task   *)
(* deploys.                                                                *)
(***************************************************************************)

Functions == /\ pc = [t \in Tasks |-> pc[t]]
             /\ trig = [n \in DOMAIN BootTriggers |-> trig[n]]

OpeningCovers == Functions /\ (Deploying => trig["opening"] = TRUE)

LEMMA TriggerNames ==
  DOMAIN BootTriggers =
    {"auto_trade", "opening", "pool_report_run", "report_info_reset", "limit"}
BY DEF BootTriggers

\* A step of another task, or one of the pool task outside of a deployment.
LEMMA MoveKeeps ==
  ASSUME Functions, NEW t \in Tasks, NEW label, Move(t, label)
  PROVE  /\ pc' = [u \in Tasks |-> pc'[u]]
         /\ pc'[t] = label
         /\ \A u \in Tasks \ {t} : pc'[u] = pc[u]
BY DEF Move, Functions

LEMMA SetKeeps ==
  ASSUME Functions, NEW n \in DOMAIN BootTriggers, NEW value, Set(n, value)
  PROVE  /\ trig' = [k \in DOMAIN BootTriggers |-> trig'[k]]
         /\ trig'[n] = value
         /\ \A k \in DOMAIN BootTriggers \ {n} : trig'[k] = trig[k]
BY DEF Set, Functions

\* The pool task raises `opening` when it starts and lowers it when it is done.
LEMMA PoolCovers ==
  ASSUME OpeningCovers, PoolNext
  PROVE  OpeningCovers'
<1> USE TasksOfTheBot, TriggerNames
<1>0. Functions
  BY DEF OpeningCovers
<1>1. ASSUME NEW label, Move(Pool, label), UNCHANGED trig, ~Deploying' \/ Deploying
      PROVE  OpeningCovers'
  BY <1>0, <1>1, MoveKeeps DEF OpeningCovers, Functions
<1>2. ASSUME NEW label, NEW n \in DOMAIN BootTriggers, NEW value, Move(Pool, label),
             Set(n, value), ~Deploying' \/ (Deploying /\ n # "opening")
      PROVE  OpeningCovers'
  BY <1>0, <1>2, MoveKeeps, SetKeeps DEF OpeningCovers, Functions
<1>3. ASSUME NEW label, Move(Pool, label) PROVE pc'[Pool] = label
  BY <1>0, <1>3, MoveKeeps
<1>4. CASE PoolReadAuto \/ PoolNoLimit \/ PoolDies
  BY <1>1, <1>3, <1>4 DEF PoolReadAuto, PoolNoLimit, PoolDies, Deploying
<1>5. CASE PoolLimitHit \/ PoolLimitOff \/ PoolReady \/ PoolReset
  BY <1>2, <1>3, <1>5 DEF PoolLimitHit, PoolLimitOff, PoolReady, PoolReset, Deploying
<1>6. CASE PoolNotReady \/ PoolRpcDown \/ PoolFails \/ PoolNotified \/ PoolRedeployed
  BY <1>1, <1>3, <1>6 DEF PoolNotReady, PoolRpcDown, PoolFails, PoolNotified,
     PoolRedeployed, NextCycle, NextCycleAfter, Deploying
<1>7. CASE PoolStart
  <2>1. Set("opening", TRUE) /\ \E label : Move(Pool, label)
    BY <1>7 DEF PoolStart
  <2> QED
    BY <1>0, <2>1, MoveKeeps, SetKeeps DEF OpeningCovers, Functions
<1>8. CASE PoolSwept \/ PoolOpen \/ PoolOpened \/ PoolAllOpen \/ PoolMeta \/ PoolAdopts
  BY <1>1, <1>8 DEF PoolSwept, PoolOpen, PoolOpened, PoolAllOpen, PoolMeta, PoolAdopts,
     Returned, Deploying
<1>9. CASE PoolNextRound
  BY <1>9 DEF PoolNextRound, OpeningCovers, Functions, Deploying
<1>10. CASE PoolGivesUp
  BY <1>1, <1>3, <1>10 DEF PoolGivesUp, NextCycle, NextCycleAfter, Deploying
<1>11. CASE PoolListed
  BY <1>1, <1>11 DEF PoolListed, Returned, Deploying
<1>12. CASE PoolReportOn \/ PoolOpeningOff
  BY <1>2, <1>3, <1>12 DEF PoolReportOn, PoolOpeningOff, Deploying
<1>13. CASE PoolTick \/ PoolTicked \/ PoolRedeploys \/ PoolClosed \/ PoolClosesAgain
  BY <1>1, <1>3, <1>13 DEF PoolTick, PoolTicked, PoolRedeploys, PoolClosed,
     PoolClosesAgain, Deploying
<1>14. CASE PoolPrice
  BY <1>14 DEF PoolPrice, OpeningCovers, Functions, Deploying
<1>15. CASE PoolEndsClosing \/ PoolSwapped
  BY <1>1, <1>3, <1>15 DEF PoolEndsClosing, PoolSwapped, Deploying
<1>16. CASE PoolReportOff \/ PoolAutoOn \/ PoolResetOn
  BY <1>2, <1>3, <1>16 DEF PoolReportOff, PoolAutoOn, PoolResetOn, Deploying
<1> QED
  BY <1>4, <1>5, <1>6, <1>7, <1>8, <1>9, <1>10, <1>11, <1>12, <1>13, <1>14, <1>15,
     <1>16 DEF PoolNext

\* A task other than the pool task moves, and does not lower `opening`.
LEMMA OthersCover ==
  ASSUME OpeningCovers, NEW t \in Tasks \ {Pool}, NEW label, Move(t, label),
         \/ UNCHANGED trig
         \/ \E n \in DOMAIN BootTriggers, value \in BOOLEAN :
              Set(n, value) /\ (n = "opening" => value = TRUE)
  PROVE  OpeningCovers'
<1>1. Functions /\ pc'[Pool] = pc[Pool] /\ pc' = [u \in Tasks |-> pc'[u]]
  BY MoveKeeps, TasksOfTheBot DEF OpeningCovers
<1>2. CASE UNCHANGED trig
  BY <1>1, <1>2 DEF OpeningCovers, Functions, Deploying
<1>3. CASE \E n \in DOMAIN BootTriggers, value \in BOOLEAN :
             Set(n, value) /\ (n = "opening" => value = TRUE)
  <2>1. PICK n \in DOMAIN BootTriggers, value \in BOOLEAN :
          Set(n, value) /\ (n = "opening" => value = TRUE)
    BY <1>3
  <2> QED
    BY <1>1, <2>1, SetKeeps, TriggerNames DEF OpeningCovers, Functions, Deploying
<1> QED
  BY <1>2, <1>3

LEMMA ReporterCovers ==
  ASSUME OpeningCovers, ReporterNext
  PROVE  OpeningCovers'
<1> USE LiqBotAssumption, TriggerNames
<1>1. ASSUME NEW label, Move(Reporter, label), UNCHANGED trig
      PROVE  OpeningCovers'
  BY <1>1, OthersCover
<1>2. CASE ReporterDone
  BY <1>2, OthersCover DEF ReporterDone
<1>3. CASE \/ ReporterBoot \/ ReporterBooted \/ ReporterReadReset \/ ReporterReadOpening
           \/ ReporterReadRun
  BY <1>1, <1>3 DEF ReporterBoot, ReporterBooted, ReporterReadReset, ReporterReadOpening,
     ReporterReadRun
<1>4. CASE \/ ReporterReadClosing \/ ReporterFixes \/ ReporterFixed \/ ReporterMeasures
           \/ ReporterEnds
  BY <1>1, <1>4 DEF ReporterReadClosing, ReporterFixes, ReporterFixed, ReporterMeasures,
     ReporterEnds
<1> QED
  BY <1>2, <1>3, <1>4 DEF ReporterNext

\* The process starts over: no deployment is underway.
LEMMA BootCovers == Boot => OpeningCovers'
<1> SUFFICES ASSUME Boot PROVE OpeningCovers'
  OBVIOUS
<1>1. pc' = BootPc /\ trig' = BootTriggers
  BY DEF Boot
<1>2. BootPc[Pool] = "top"
  BY TasksOfTheBot DEF BootPc
<1> QED
  BY <1>1, <1>2 DEF OpeningCovers, Functions, Deploying, BootPc, BootTriggers

LEMMA CommandsCover ==
  ASSUME OpeningCovers, CommandsNext
  PROVE  OpeningCovers'
<1> USE LiqBotAssumption, TriggerNames
<1>1. ASSUME NEW c \in Commands, NEW kind \in CloseCommands, CloseCommand(c, kind)
      PROVE  OpeningCovers'
  BY <1>1, OthersCover DEF CloseCommand
<1>2. ASSUME NEW c \in Commands, CommandOpeningOn(c)
      PROVE  OpeningCovers'
  BY <1>2, OthersCover DEF CommandOpeningOn
<1>3. ASSUME NEW c \in Commands, CommandNotifies(c) \/ CommandSwaps(c)
      PROVE  OpeningCovers'
  BY <1>3, OthersCover DEF CommandNotifies, CommandSwaps
<1>4. ASSUME NEW c \in Commands, CommandEnds(c)
      PROVE  OpeningCovers'
  <2>1. Functions /\ Move(c, "idle")
    BY <1>4 DEF CommandEnds, OpeningCovers
  <2>2. pc'[Pool] = pc[Pool] /\ pc' = [u \in Tasks |-> pc'[u]]
    BY <2>1, MoveKeeps, TasksOfTheBot, c # Pool
  <2>3. trig' = [n \in DOMAIN BootTriggers |-> trig'[n]] /\ trig'["opening"] = trig["opening"]
    BY <1>4, <2>1 DEF CommandEnds, Functions
  <2> QED
    BY <2>2, <2>3 DEF OpeningCovers, Functions, Deploying
<1>5. ASSUME NEW c \in Commands, CommandExits(c)
      PROVE  OpeningCovers'
  BY <1>5, BootCovers DEF CommandExits
<1>6. ASSUME NEW trigger \in {"auto_trade", "limit"}, NEW value \in BOOLEAN,
             TriggerCommand(trigger, value)
      PROVE  OpeningCovers'
  BY <1>6, SetKeeps DEF TriggerCommand, OpeningCovers, Functions, Deploying
<1> QED
  BY <1>1, <1>2, <1>3, <1>4, <1>5, <1>6 DEF CommandsNext

LEMMA NextCovers ==
  ASSUME OpeningCovers, [LiqBotNext]_vars
  PROVE  OpeningCovers'
<1>1. CASE \E t \in Tasks : WalletStep(t)
  BY <1>1 DEF WalletStep, taskVars, OpeningCovers, Functions, Deploying
<1>2. CASE \E m \in Mints : Chain(m)
  BY <1>2 DEF Chain, taskVars, OpeningCovers, Functions, Deploying
<1>3. CASE Crash
  BY <1>3, BootCovers DEF Crash
<1>4. CASE UNCHANGED vars
  BY <1>4 DEF vars, taskVars, OpeningCovers, Functions, Deploying
<1> QED
  BY <1>1, <1>2, <1>3, <1>4, PoolCovers, ReporterCovers, CommandsCover DEF LiqBotNext

\* A step of the pool task leaves the program counters of the others alone.
LEMMA PoolMoves == PoolNext => UNCHANGED pc \/ \E label : Move(Pool, label)
<1>1. ASSUME NEW label, Move(Pool, label) PROVE \E l : Move(Pool, l)
  BY <1>1
<1>2. CASE \/ PoolReadAuto \/ PoolLimitHit \/ PoolLimitOff \/ PoolNoLimit \/ PoolNotReady
           \/ PoolReady \/ PoolDies \/ PoolReset \/ PoolStart \/ PoolRpcDown \/ PoolFails
           \/ PoolSwept
  BY <1>1, <1>2 DEF PoolReadAuto, PoolLimitHit, PoolLimitOff, PoolNoLimit, PoolNotReady,
     PoolReady, PoolDies, PoolReset, PoolStart, PoolRpcDown, PoolFails, PoolSwept,
     NextCycle, NextCycleAfter
<1>3. CASE \/ PoolOpen \/ PoolOpened \/ PoolNextRound \/ PoolAllOpen \/ PoolGivesUp
           \/ PoolMeta \/ PoolAdopts \/ PoolListed \/ PoolReportOn \/ PoolOpeningOff
           \/ PoolTick
  BY <1>1, <1>3 DEF PoolOpen, PoolOpened, PoolNextRound, PoolAllOpen, PoolGivesUp, PoolMeta,
     PoolAdopts, PoolListed, PoolReportOn, PoolOpeningOff, PoolTick, NextCycle,
     NextCycleAfter
<1>4. CASE \/ PoolTicked \/ PoolPrice \/ PoolNotified \/ PoolRedeploys \/ PoolClosed
           \/ PoolClosesAgain \/ PoolEndsClosing \/ PoolReportOff \/ PoolAutoOn
           \/ PoolResetOn \/ PoolSwapped \/ PoolRedeployed
  BY <1>1, <1>4 DEF PoolTicked, PoolPrice, PoolNotified, PoolRedeploys, PoolClosed,
     PoolClosesAgain, PoolEndsClosing, PoolReportOff, PoolAutoOn, PoolResetOn, PoolSwapped,
     PoolRedeployed, NextCycle, NextCycleAfter
<1> QED
  BY <1>2, <1>3, <1>4 DEF PoolNext

\* A step of a command moves that command alone, or starts the process over.
LEMMA CommandsMove ==
  CommandsNext => \/ UNCHANGED pc
                  \/ \E c \in Commands : \E label : Move(c, label)
                  \/ pc' = BootPc
<1>1. ASSUME NEW c \in Commands, NEW label, Move(c, label)
      PROVE  \E d \in Commands : \E l : Move(d, l)
  BY <1>1
<1> QED
  BY <1>1 DEF CommandsNext, CloseCommand, CommandOpeningOn, CommandNotifies, CommandSwaps,
     CommandEnds, CommandExits, TriggerCommand, Boot

\* The reporter never passes its gate while the pool task deploys, or after
\* that task panicked in the middle of a deployment.
THEOREM ReporterWaits == LiqBotSpec => ReporterHeldBack
<1>1. LiqBotInit => OpeningCovers
  <2>1. BootPc[Pool] = "top"
    BY TasksOfTheBot DEF BootPc
  <2> QED
    BY <2>1 DEF LiqBotInit, OpeningCovers, Functions, Deploying, BootPc, BootTriggers
<1>2. OpeningCovers /\ [LiqBotNext]_vars => OpeningCovers'
  BY NextCovers
<1>3. OpeningCovers /\ [LiqBotNext]_vars
      => [pc[Reporter] = "opening" /\ pc'[Reporter] = "run" => ~Deploying]_vars
  <2> SUFFICES ASSUME OpeningCovers, LiqBotNext, pc[Reporter] = "opening",
                      pc'[Reporter] = "run"
               PROVE  ~Deploying
    OBVIOUS
  <2> USE LiqBotAssumption
  <2>0. /\ pc = [u \in Tasks |-> pc[u]]
        /\ \A t \in Tasks \ {Reporter} : \A label : Move(t, label) => pc'[Reporter] = "opening"
    BY MoveKeeps, TasksOfTheBot DEF OpeningCovers, Functions
  <2>1. CASE ReporterNext
    <3>1. ReporterReadOpening
      BY <2>0, <2>1, TasksOfTheBot DEF ReporterNext, ReporterBoot, ReporterBooted,
         ReporterReadReset, ReporterReadRun, ReporterReadClosing, ReporterFixes,
         ReporterFixed, ReporterMeasures, ReporterEnds, ReporterDone, Returned
    <3>2. pc'[Reporter] = IF trig.opening THEN "top" ELSE "run"
      BY <2>0, <3>1, TasksOfTheBot DEF ReporterReadOpening, Move
    <3> QED
      BY <3>2 DEF OpeningCovers
  <2>2. CASE PoolNext
    BY <2>0, <2>2, PoolMoves
  <2>3. CASE CommandsNext
    BY <2>0, <2>3, CommandsMove, TasksOfTheBot DEF BootPc
  <2>4. CASE Crash \/ (\E t \in Tasks : WalletStep(t)) \/ (\E m \in Mints : Chain(m))
    BY <2>4, TasksOfTheBot DEF Crash, Boot, BootPc, WalletStep, Chain, taskVars
  <2> QED
    BY <2>1, <2>2, <2>3, <2>4 DEF LiqBotNext
<1> QED
  BY <1>1, <1>2, <1>3, PTL DEF LiqBotSpec, ReporterHeldBack

=============================================================================
