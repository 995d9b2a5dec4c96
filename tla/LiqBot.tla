------------------------------- MODULE LiqBot -------------------------------
(***************************************************************************)
(* The running bot: the pool task (main.rs run_pool_with_restart and       *)
(* orchestrator_pool), the reporter task (main.rs, build_pool_report) and  *)
(* the background tasks of the Telegram close commands (registry.rs),      *)
(* composed over the wallet component.                                     *)
(*                                                                         *)
(* The tasks share the triggers table, one read or write per step, and the *)
(* wallet.  pc[t] is where task t is; a task that called a wallet          *)
(* operation goes on when its frame is idle again.  RANGE is Range::Three  *)
(* at compile time, so only the branches for several ranges exist; their   *)
(* number is the constant NRanges.                                         *)
(***************************************************************************)
EXTENDS Wallet

CONSTANTS
  Pool, Reporter,    \* the two tasks that main spawns
  Commands,          \* slots for the tasks that close commands spawn
  NRanges,           \* positions of a full deployment: 3 in the code
  MaxRounds,         \* opening rounds: 2 in the code
  MaxCloseAttempts,  \* MAX_CLOSE_ATTEMPTS: 4 in the code
  MaxOrders,         \* Telegram commands per behaviour (a bound)
  MaxCrashes         \* restarts by which a crash may still happen (a bound)

ASSUME LiqBotAssumption ==
  /\ Tasks = {Pool, Reporter} \cup Commands
  /\ Pool # Reporter /\ Pool \notin Commands /\ Reporter \notin Commands
  /\ NRanges \in Nat \ {0} /\ MaxRounds \in Nat \ {0}
  /\ MaxCloseAttempts \in Nat \ {0} /\ MaxOrders \in Nat /\ MaxCrashes \in Nat

VARIABLES
  trig,     \* the other triggers; `limit` stands for its stored thresholds
  pc,       \* where each task is
  pool,     \* locals of the pool task, need_new, and `kept`: the last cycle
            \* had its positions when it ended because the RPC was unreachable
  rep,      \* locals of the reporter: trigger values it read earlier
  cmd,      \* which close command each slot runs
  orders,   \* commands received so far
  doubtful  \* history: positions an open or a close of which returned an error,
            \* or whose opening was under way when the process ended

taskVars == <<pc, pool, rep, cmd, orders>>
vars == <<walletVars, trig, taskVars, doubtful>>

Ranges == 1..NRanges
PoolLabels == {"top", "limit", "limitOff", "wait", "reset", "start", "sweep",
  "rounds", "opened", "meta", "adopt", "listed", "reportOn", "openingOff", "monitor",
  "http", "close", "closeList", "reportOff", "autoOn", "resetOn", "swap",
  "balances", "dead", "panicked"}
ReporterLabels == {"boot", "boot2", "top", "opening", "run", "report", "list",
  "fix", "fixSwap", "metrics", "done"}
CommandLabels == {"idle", "openingOn", "close", "list", "swap", "exitSwap"}
CloseCommands == {"on", "all", "off"}

BootTriggers == [auto_trade |-> TRUE, opening |-> FALSE, pool_report_run |-> TRUE,
                 report_info_reset |-> TRUE, limit |-> FALSE]
BootPc == [t \in Tasks |-> IF t = Pool THEN "top"
                          ELSE IF t = Reporter THEN "boot" ELSE "idle"]
NewCycle == [auto |-> FALSE, needNew |-> FALSE, minted |-> {}, turn |-> 1,
             round |-> 1, attempt |-> 1, notified |-> FALSE, kept |-> FALSE]
BootReporter == [auto |-> FALSE, reset |-> FALSE, closing |-> FALSE]
BootCommands == [c \in Commands |-> "all"]

LiqBotTypeOK ==
  /\ WalletTypeOK
  /\ trig \in [DOMAIN BootTriggers -> BOOLEAN]
  /\ pc \in [Tasks -> PoolLabels \cup ReporterLabels \cup CommandLabels]
  /\ pool \in [auto: BOOLEAN, needNew: BOOLEAN, minted: SUBSET Ranges,
               turn: 1..NRanges + 1, round: 1..MaxRounds,
               attempt: 1..MaxCloseAttempts, notified: BOOLEAN, kept: BOOLEAN]
  /\ rep \in [auto: BOOLEAN, reset: BOOLEAN, closing: BOOLEAN]
  /\ cmd \in [Commands -> CloseCommands]
  /\ orders \in 0..MaxOrders
  /\ doubtful \subseteq Mints

\* init_default_triggers, with need_new = false and auto_trade = true.
LiqBotInit ==
  /\ WalletInit
  /\ trig = BootTriggers
  /\ pc = BootPc
  /\ pool = NewCycle
  /\ rep = BootReporter
  /\ cmd = BootCommands
  /\ orders = 0
  /\ doubtful = {}

-----------------------------------------------------------------------------

Move(t, label) == pc' = [pc EXCEPT ![t] = label]
Returned(t, label) == pc[t] = label /\ At(t, "idle")
Ok(t) == call[t].ok
Found(t) == call[t].listed
Set(trigger, value) == trig' = [trig EXCEPT ![trigger] = value]

OnlyPool == UNCHANGED <<rep, cmd, orders, doubtful>>
OnlyReporter == UNCHANGED <<pool, cmd, orders, doubtful>>

\* Back to the head of the loop of run_pool_with_restart, after Ok or any error.
NextCycleAfter(kept) ==
  /\ Drop(Pool)
  /\ Move(Pool, "top")
  /\ pool' = [NewCycle EXCEPT !.needNew = pool.needNew, !.kept = kept]

NextCycle == NextCycleAfter(FALSE)

-----------------------------------------------------------------------------
(***************************************************************************)
(* run_pool_with_restart: when to deploy.                                  *)
(***************************************************************************)

PoolReadAuto ==
  /\ pc[Pool] = "top"
  /\ pool' = [pool EXCEPT !.auto = trig.auto_trade]
  /\ Move(Pool, "limit")
  /\ UNCHANGED <<walletVars, trig>> /\ OnlyPool

PoolLimitHit ==
  /\ pc[Pool] = "limit" /\ trig.limit /\ pool.auto
  /\ pool' = [pool EXCEPT !.auto = FALSE, !.needNew = TRUE, !.kept = FALSE]
  /\ Set("auto_trade", FALSE)
  /\ Move(Pool, "limitOff")
  /\ UNCHANGED walletVars /\ OnlyPool

PoolLimitOff ==
  /\ pc[Pool] = "limitOff"
  /\ Set("limit", FALSE)
  /\ Move(Pool, "reset")
  /\ UNCHANGED <<walletVars, pool>> /\ OnlyPool

\* The limit does not hold (or auto trading is off, and it decides nothing).
PoolNoLimit ==
  /\ pc[Pool] = "limit"
  /\ Move(Pool, IF pool.auto THEN "wait" ELSE "reset")
  /\ UNCHANGED <<walletVars, trig, pool>> /\ OnlyPool

PoolNotReady ==
  /\ pc[Pool] = "wait"
  /\ NextCycle
  /\ UNCHANGED trig /\ OnlyPool

PoolReady ==
  /\ pc[Pool] = "wait"
  /\ pool' = [pool EXCEPT !.auto = FALSE, !.needNew = TRUE, !.kept = FALSE]
  /\ Set("auto_trade", FALSE)
  /\ Move(Pool, "reset")
  /\ UNCHANGED walletVars /\ OnlyPool

\* The price for a limit, the candle download and the ATR are fetched with `?`
\* outside of any retry, and so are the settings read before the deployment: an
\* error ends the pool task.
PoolDies ==
  /\ \/ pc[Pool] = "limit" /\ trig.limit
     \/ pc[Pool] \in {"wait", "start"}
  /\ Move(Pool, "dead")
  /\ pool' = NewCycle
  /\ UNCHANGED <<walletVars, trig>> /\ OnlyPool

PoolReset ==
  /\ pc[Pool] = "reset"
  /\ Set("report_info_reset", TRUE)
  /\ Move(Pool, "start")
  /\ pool' = [pool EXCEPT !.auto = FALSE]
  /\ UNCHANGED walletVars /\ OnlyPool

\* Mutant: a new deployment does not close what is there.
PoolStartUnswept ==
  /\ pc[Pool] = "start"
  /\ Set("opening", TRUE)
  /\ Move(Pool, IF pool.needNew THEN "rounds" ELSE "meta")
  /\ UNCHANGED <<walletVars, pool>> /\ OnlyPool

\* opening_switcher(true), and orchestrator_pool reads need_new.
PoolStart ==
  /\ pc[Pool] = "start"
  /\ Set("opening", TRUE)
  /\ \/ pool.needNew /\ Begin(Pool, "sweepListing") /\ Move(Pool, "sweep")
     \/ ~pool.needNew /\ Move(Pool, "meta") /\ UNCHANGED walletVars
  /\ UNCHANGED pool /\ OnlyPool

-----------------------------------------------------------------------------
(***************************************************************************)
(* orchestrator_pool: open the ranges, or adopt those that exist.          *)
(***************************************************************************)

NextTurn(turn, minted) ==
  CHOOSE r \in 1..NRanges + 1 :
    /\ r > turn /\ r \notin minted
    /\ \A s \in Ranges : turn < s /\ s < r => s \in minted

\* orchestrator_pool ends with an error: an unreachable RPC, or another.
PoolRpcDown ==
  /\ \/ Returned(Pool, "sweep")                  \* listing, or pool accounts
     \/ pc[Pool] = "meta"                         \* pool accounts
     \/ pc[Pool] \in {"adopt", "listed"} /\ At(Pool, "idle") /\ ~Ok(Pool)
  /\ NextCycleAfter(pc[Pool] = "listed")
  /\ UNCHANGED trig /\ OnlyPool

PoolFails ==
  /\ \/ Returned(Pool, "sweep") \/ pc[Pool] = "meta"
     \/ Returned(Pool, "adopt")                  \* or too few positions
     \/ Returned(Pool, "listed") /\ ~Ok(Pool)
     \/ pc[Pool] = "http"                        \* undecodable account
  /\ NextCycle
  /\ UNCHANGED trig /\ OnlyPool

PoolSwept ==
  /\ Returned(Pool, "sweep") /\ Ok(Pool)
  /\ Drop(Pool)
  /\ Move(Pool, "rounds")
  /\ pool' = [pool EXCEPT !.kept = FALSE]
  /\ UNCHANGED trig /\ OnlyPool

PoolOpen ==
  /\ pc[Pool] = "rounds" /\ pool.turn \in Ranges
  /\ Begin(Pool, "openWait")
  /\ Move(Pool, "opened")
  /\ UNCHANGED <<trig, pool>> /\ OnlyPool

\* An error of one range is only reported to the chat.
PoolOpened ==
  /\ Returned(Pool, "opened")
  /\ LET minted == IF Ok(Pool) THEN pool.minted \cup {pool.turn} ELSE pool.minted
     IN pool' = [pool EXCEPT !.minted = minted, !.turn = NextTurn(@, minted)]
  /\ Drop(Pool)
  /\ Move(Pool, "rounds")
  /\ UNCHANGED trig /\ OnlyPool

\* Mutant: the round counter is checked after it was raised too far.
PoolNextRoundTooFar ==
  /\ pc[Pool] = "rounds" /\ pool.turn \notin Ranges
  /\ pool.minted # Ranges /\ pool.round <= MaxRounds
  /\ pool' = [pool EXCEPT !.round = @ + 1, !.turn = NextTurn(0, pool.minted)]
  /\ UNCHANGED <<walletVars, trig, pc>> /\ OnlyPool

PoolNextRound ==
  /\ pc[Pool] = "rounds" /\ pool.turn \notin Ranges
  /\ pool.minted # Ranges /\ pool.round < MaxRounds
  /\ pool' = [pool EXCEPT !.round = @ + 1, !.turn = NextTurn(0, pool.minted)]
  /\ UNCHANGED <<walletVars, trig, pc>> /\ OnlyPool

PoolAllOpen ==
  /\ pc[Pool] = "rounds" /\ pool.minted = Ranges
  /\ Begin(Pool, "querying")
  /\ Move(Pool, "listed")
  /\ pool' = [NewCycle EXCEPT !.needNew = pool.needNew]
  /\ UNCHANGED trig /\ OnlyPool

\* The rounds are over.  With nothing open the cycle fails.  Otherwise the
\* rollback unwraps position_nft, which is None for every range opened here:
\* the task panics.
PoolGivesUp ==
  /\ pc[Pool] = "rounds" /\ pool.turn \notin Ranges
  /\ pool.minted # Ranges /\ pool.round = MaxRounds
  /\ \/ pool.minted = {} /\ NextCycle
     \/ pool.minted # {} /\ Drop(Pool) /\ Move(Pool, "panicked") /\ pool' = NewCycle
  /\ UNCHANGED trig /\ OnlyPool

PoolMeta ==
  /\ pc[Pool] = "meta"
  /\ Begin(Pool, "querying")
  /\ Move(Pool, "adopt")
  /\ pool' = [pool EXCEPT !.kept = FALSE]
  /\ UNCHANGED trig /\ OnlyPool

\* A position whose data cannot be fetched is passed over: NRanges have to be left.
PoolAdopts ==
  /\ Returned(Pool, "adopt") /\ Ok(Pool) /\ Cardinality(Found(Pool)) >= NRanges
  /\ Begin(Pool, "querying")
  /\ Move(Pool, "listed")
  /\ UNCHANGED <<trig, pool>> /\ OnlyPool

PoolListed ==
  /\ Returned(Pool, "listed") /\ Ok(Pool)
  /\ Drop(Pool)
  /\ \/ Found(Pool) = {} /\ Move(Pool, "openingOff") /\ UNCHANGED pool
     \/ /\ Found(Pool) # {} /\ Move(Pool, "reportOn")
        /\ pool' = [pool EXCEPT !.needNew = TRUE]
  /\ UNCHANGED trig /\ OnlyPool

PoolReportOn ==
  /\ pc[Pool] = "reportOn"
  /\ Set("pool_report_run", TRUE)
  /\ Move(Pool, "openingOff")
  /\ UNCHANGED <<walletVars, pool>> /\ OnlyPool

PoolOpeningOff ==
  /\ pc[Pool] = "openingOff"
  /\ Set("opening", FALSE)
  /\ Move(Pool, "monitor")
  /\ UNCHANGED <<walletVars, pool>> /\ OnlyPool

-----------------------------------------------------------------------------
(***************************************************************************)
(* The monitoring loop and close_and_report.  notify_waiters reaches only  *)
(* a task that waits in the select; when another branch wins, the          *)
(* notification it had received is dropped with the future.  When to close *)
(* is the matter of module ExitMonitor: here it may be at any price.       *)
(***************************************************************************)

PoolTick ==
  /\ pc[Pool] = "monitor"
  /\ Move(Pool, "http")
  /\ pool' = [pool EXCEPT !.notified = FALSE]
  /\ UNCHANGED <<walletVars, trig>> /\ OnlyPool

PoolTicked ==
  /\ pc[Pool] = "http"
  /\ Move(Pool, "monitor")
  /\ UNCHANGED <<walletVars, trig, pool>> /\ OnlyPool

PoolPrice ==
  /\ pc[Pool] = "monitor" /\ pool.notified
  /\ pool' = [pool EXCEPT !.notified = FALSE]
  /\ UNCHANGED <<walletVars, trig, pc>> /\ OnlyPool

PoolNotified ==
  /\ pc[Pool] = "monitor" /\ pool.notified
  /\ NextCycle
  /\ UNCHANGED trig /\ OnlyPool

\* Mutant: the close starts without raising `closing`.
PoolRedeploysQuietly ==
  /\ pc[Pool] \in {"monitor", "http"}
  /\ Begin(Pool, "listing")
  /\ Move(Pool, "close")
  /\ pool' = [pool EXCEPT !.attempt = 1, !.notified = FALSE]
  /\ UNCHANGED trig /\ OnlyPool

PoolRedeploys ==
  /\ pc[Pool] \in {"monitor", "http"}
  /\ Begin(Pool, "raising")
  /\ Move(Pool, "close")
  /\ pool' = [pool EXCEPT !.attempt = 1, !.notified = FALSE]
  /\ UNCHANGED trig /\ OnlyPool

PoolClosed ==
  /\ Returned(Pool, "close") /\ Ok(Pool)
  /\ Begin(Pool, "querying")
  /\ Move(Pool, "closeList")
  /\ UNCHANGED <<trig, pool>> /\ OnlyPool

\* close_all_positions failed, or positions are still listed.
StillOpen ==
  \/ Returned(Pool, "close") /\ ~Ok(Pool)
  \/ Returned(Pool, "closeList") /\ Found(Pool) # {}

PoolClosesAgain ==
  /\ StillOpen /\ pool.attempt < MaxCloseAttempts
  /\ Begin(Pool, "raising")
  /\ Move(Pool, "close")
  /\ pool' = [pool EXCEPT !.attempt = @ + 1]
  /\ UNCHANGED trig /\ OnlyPool

\* Nothing is listed (a failed listing counts as empty), or the attempts are
\* used up.
PoolEndsClosing ==
  /\ \/ Returned(Pool, "closeList") /\ Found(Pool) = {}
     \/ StillOpen /\ pool.attempt = MaxCloseAttempts
  /\ Drop(Pool)
  /\ Move(Pool, "reportOff")
  /\ pool' = [NewCycle EXCEPT !.needNew = pool.needNew]
  /\ UNCHANGED trig /\ OnlyPool

PoolReportOff ==
  /\ pc[Pool] = "reportOff"
  /\ Set("pool_report_run", FALSE)
  /\ Move(Pool, "autoOn")
  /\ UNCHANGED <<walletVars, pool>> /\ OnlyPool

PoolAutoOn ==
  /\ pc[Pool] = "autoOn"
  /\ Set("auto_trade", TRUE)
  /\ Move(Pool, "resetOn")
  /\ UNCHANGED <<walletVars, pool>> /\ OnlyPool

PoolResetOn ==
  /\ pc[Pool] = "resetOn"
  /\ Set("report_info_reset", TRUE)
  /\ Begin(Pool, "swapping")
  /\ Move(Pool, "swap")
  /\ UNCHANGED pool /\ OnlyPool

PoolSwapped ==
  /\ Returned(Pool, "swap") /\ Ok(Pool)
  /\ Begin(Pool, "balancing")
  /\ Move(Pool, "balances")
  /\ UNCHANGED <<trig, pool>> /\ OnlyPool

\* check_bounds_and_maybe_close swallows an error of close_and_report.
PoolRedeployed ==
  /\ \/ Returned(Pool, "swap") /\ ~Ok(Pool)
     \/ Returned(Pool, "balances")
  /\ NextCycle
  /\ UNCHANGED trig /\ OnlyPool

PoolNext ==
  \/ PoolReadAuto \/ PoolLimitHit \/ PoolLimitOff \/ PoolNoLimit \/ PoolNotReady
  \/ PoolReady \/ PoolDies \/ PoolReset \/ PoolStart \/ PoolRpcDown \/ PoolFails
  \/ PoolSwept
  \/ PoolOpen \/ PoolOpened \/ PoolNextRound \/ PoolAllOpen \/ PoolGivesUp
  \/ PoolMeta \/ PoolAdopts \/ PoolListed \/ PoolReportOn \/ PoolOpeningOff \/ PoolTick
  \/ PoolTicked \/ PoolPrice \/ PoolNotified \/ PoolRedeploys \/ PoolClosed
  \/ PoolClosesAgain \/ PoolEndsClosing \/ PoolReportOff \/ PoolAutoOn
  \/ PoolResetOn \/ PoolSwapped \/ PoolRedeployed

-----------------------------------------------------------------------------
(***************************************************************************)
(* The reporter of main.rs with build_pool_report.                         *)
(***************************************************************************)

\* Before its loop the reporter waits for a deployment to begin.
ReporterBoot ==
  /\ pc[Reporter] = "boot"
  /\ rep' = [rep EXCEPT !.auto = trig.auto_trade]
  /\ Move(Reporter, "boot2")
  /\ UNCHANGED <<walletVars, trig>> /\ OnlyReporter

ReporterBooted ==
  /\ pc[Reporter] = "boot2"
  /\ Move(Reporter, IF trig.pool_report_run /\ ~rep.auto THEN "top" ELSE "boot")
  /\ rep' = BootReporter
  /\ UNCHANGED <<walletVars, trig>> /\ OnlyReporter

ReporterReadReset ==
  /\ pc[Reporter] = "top"
  /\ rep' = [BootReporter EXCEPT !.reset = trig.report_info_reset]
  /\ Move(Reporter, "opening")
  /\ UNCHANGED <<walletVars, trig>> /\ OnlyReporter

\* `opening` is read before the report interval is slept, and not again.
ReporterReadOpening ==
  /\ pc[Reporter] = "opening"
  /\ Move(Reporter, IF trig.opening THEN "top" ELSE "run")
  /\ UNCHANGED <<walletVars, trig, rep>> /\ OnlyReporter

ReporterReadRun ==
  /\ pc[Reporter] = "run"
  /\ Move(Reporter, IF trig.pool_report_run THEN "report" ELSE "top")
  /\ UNCHANGED <<walletVars, trig, rep>> /\ OnlyReporter

ReporterReadClosing ==
  /\ pc[Reporter] = "report"
  /\ rep' = [rep EXCEPT !.closing = closing]
  /\ Begin(Reporter, "querying")
  /\ Move(Reporter, "list")
  /\ UNCHANGED trig /\ OnlyReporter

\* Too few positions and nobody closing: the reporter closes what is left.
ReporterFixes ==
  /\ Returned(Reporter, "list") /\ Ok(Reporter)
  /\ Found(Reporter) # {} /\ Cardinality(Found(Reporter)) < NRanges
  /\ ~rep.closing
  /\ Begin(Reporter, "raising")
  /\ Move(Reporter, "fix")
  /\ UNCHANGED <<trig, rep>> /\ OnlyReporter

ReporterFixed ==
  /\ Returned(Reporter, "fix") /\ Ok(Reporter)
  /\ Begin(Reporter, "swapping")
  /\ Move(Reporter, "fixSwap")
  /\ UNCHANGED <<trig, rep>> /\ OnlyReporter

\* The report goes on with the listing it has, which the fix made stale.
ReporterMeasures ==
  /\ \/ /\ Returned(Reporter, "list") /\ Found(Reporter) # {}
        /\ Cardinality(Found(Reporter)) >= NRanges \/ rep.closing
     \/ Returned(Reporter, "fixSwap") /\ Ok(Reporter)
  /\ Begin(Reporter, "measuring")
  /\ Move(Reporter, "metrics")
  /\ rep' = [rep EXCEPT !.closing = FALSE]
  /\ UNCHANGED trig /\ OnlyReporter

\* The report is complete, empty, or failed at one of its calls.
ReporterEnds ==
  /\ \/ Returned(Reporter, "metrics")
     \/ Returned(Reporter, "fix") /\ ~Ok(Reporter)
     \/ Returned(Reporter, "fixSwap")
     \/ /\ Returned(Reporter, "list")
        /\ \/ Found(Reporter) = {}
           \/ Cardinality(Found(Reporter)) >= NRanges
           \/ rep.closing
  /\ Drop(Reporter)
  /\ Move(Reporter, "done")
  /\ rep' = [rep EXCEPT !.closing = FALSE]
  /\ UNCHANGED trig /\ OnlyReporter

\* The reset is acknowledged by the value read before the report.
ReporterDone ==
  /\ pc[Reporter] = "done"
  /\ IF rep.reset THEN Set("report_info_reset", FALSE) ELSE UNCHANGED trig
  /\ Move(Reporter, "top")
  /\ rep' = BootReporter
  /\ UNCHANGED walletVars /\ OnlyReporter

ReporterNext ==
  \/ ReporterBoot \/ ReporterBooted \/ ReporterReadReset \/ ReporterReadOpening
  \/ ReporterReadRun \/ ReporterReadClosing \/ ReporterFixes \/ ReporterFixed
  \/ ReporterMeasures \/ ReporterEnds \/ ReporterDone

-----------------------------------------------------------------------------
(***************************************************************************)
(* Telegram.  The engine runs one handler at a time; a close command does  *)
(* its work in a spawned task, so several of them can run at once.         *)
(***************************************************************************)

EngineIdle == \A c \in Commands : pc[c] # "openingOn"

\* close on / close all / close off.
CloseCommand(c, kind) ==
  /\ pc[c] = "idle" /\ EngineIdle /\ orders < MaxOrders
  /\ orders' = orders + 1
  /\ cmd' = [cmd EXCEPT ![c] = kind]
  /\ \/ /\ kind = "on"
        /\ Set("auto_trade", TRUE)
        /\ Move(c, "openingOn")
        /\ UNCHANGED walletVars
     \/ /\ kind # "on"
        /\ Begin(c, "raising")
        /\ Move(c, "close")
        /\ UNCHANGED trig
  /\ UNCHANGED <<pool, rep, doubtful>>

CommandOpeningOn(c) ==
  /\ pc[c] = "openingOn"
  /\ Set("opening", TRUE)
  /\ Begin(c, "raising")
  /\ Move(c, "close")
  /\ UNCHANGED <<pool, rep, cmd, orders, doubtful>>

\* notify_waiters after a successful close on / close all.
CommandNotifies(c) ==
  /\ Returned(c, "close") /\ Ok(c) /\ cmd[c] # "off"
  /\ pool' = [pool EXCEPT !.notified = @ \/ pc[Pool] = "monitor"]
  /\ Begin(c, "querying")
  /\ Move(c, "list")
  /\ UNCHANGED <<trig, rep, cmd, orders, doubtful>>

CommandSwaps(c) ==
  /\ \/ Returned(c, "list") /\ Ok(c) /\ Found(c) = {} /\ Move(c, "swap")
     \/ Returned(c, "close") /\ cmd[c] = "off" /\ Move(c, "exitSwap")
  /\ Begin(c, "swapping")
  /\ UNCHANGED <<trig, pool, rep, cmd, orders, doubtful>>

\* Mutant: the command that raised `opening` also lowers it when it is done.
CommandEndsLowering(c) ==
  /\ \/ Returned(c, "close") /\ (cmd[c] = "off" <=> Ok(c))
     \/ Returned(c, "list") /\ (Ok(c) => Found(c) # {})
     \/ Returned(c, "swap")
  /\ trig' = [trig EXCEPT !.opening = @ /\ cmd[c] # "on",
                          !.auto_trade = @ \/ (cmd[c] = "on" /\ pc[c] # "list")]
  /\ Drop(c)
  /\ Move(c, "idle")
  /\ cmd' = [cmd EXCEPT ![c] = "all"]
  /\ UNCHANGED <<pool, rep, orders, doubtful>>

\* The task ends; close on turns auto trading on again after its swap and
\* after a failed close.  close off ends early if the balances cannot be read.
CommandEnds(c) ==
  /\ \/ Returned(c, "close") /\ (cmd[c] = "off" <=> Ok(c))
     \/ Returned(c, "list") /\ (Ok(c) => Found(c) # {})
     \/ Returned(c, "swap")
  /\ trig' = [trig EXCEPT !.auto_trade = @ \/ (cmd[c] = "on" /\ pc[c] # "list")]
  /\ Drop(c)
  /\ Move(c, "idle")
  /\ cmd' = [cmd EXCEPT ![c] = "all"]
  /\ UNCHANGED <<pool, rep, orders, doubtful>>

\* auto on / auto off / limit / limit off.
TriggerCommand(trigger, value) ==
  /\ EngineIdle /\ orders < MaxOrders
  /\ orders' = orders + 1
  /\ trig[trigger] # value
  /\ Set(trigger, value)
  /\ UNCHANGED <<walletVars, pc, pool, rep, cmd, doubtful>>

-----------------------------------------------------------------------------

\* main runs again: the triggers are reset, every task starts over.
Boot ==
  /\ Restart
  /\ trig' = BootTriggers
  /\ pc' = BootPc
  /\ pool' = NewCycle
  /\ rep' = BootReporter
  /\ cmd' = BootCommands
  /\ doubtful' = doubtful \cup {m \in Mints : status'[m] = "openSent"}
  /\ UNCHANGED orders

Crash == restarts < MaxCrashes /\ Boot

\* close off ends with std::process::exit.
CommandExits(c) == Returned(c, "exitSwap") /\ Boot

\* A step of a wallet operation; positions it gave up on become doubtful.
WalletStep(t) ==
  /\ Step(t)
  /\ LET tried == {m \in Mints : status'[m] = "openSent" \/ m \in call[t].todo \ call'[t].todo}
     IN doubtful' = {m \in doubtful \cup tried : status'[m] # "gone"}
  /\ UNCHANGED <<trig, taskVars>>

Chain(m) ==
  /\ Settle(m)
  /\ doubtful' = {d \in doubtful : status'[d] # "gone"}
  /\ UNCHANGED <<trig, taskVars>>

CommandsNext ==
  \/ \E c \in Commands :
       \/ \E kind \in CloseCommands : CloseCommand(c, kind)
       \/ CommandOpeningOn(c) \/ CommandNotifies(c) \/ CommandSwaps(c)
       \/ CommandEnds(c) \/ CommandExits(c)
  \/ \E trigger \in {"auto_trade", "limit"}, value \in BOOLEAN :
       TriggerCommand(trigger, value)

LiqBotNext ==
  \/ PoolNext
  \/ ReporterNext
  \/ CommandsNext
  \/ \E t \in Tasks : WalletStep(t)
  \/ \E m \in Mints : Chain(m)
  \/ Crash

LiqBotSpec == LiqBotInit /\ [][LiqBotNext]_vars

-----------------------------------------------------------------------------
(***************************************************************************)
(* Properties.                                                             *)
(***************************************************************************)

\* run_pool_with_restart, orchestrator.rs:155-158 and 286-346: sweeping before
\* the first round and opening each role at most once keep the exposure to one
\* deployment.  Whatever fails or is ordered in between, more than NRanges
\* positions exist only if an open or a close of the excess ones returned an
\* error, or the process ended while send_and_confirm waited for their opening.
ExposureBound == Cardinality(OnChain \ doubtful) <= NRanges

\* The pool task is between opening_switcher(true) and opening_switcher(false).
Deploying == pc[Pool] \in {"sweep", "rounds", "opened", "meta", "adopt", "listed",
                           "reportOn", "openingOff", "panicked"}

\* main.rs:107-111: the `opening` trigger holds back the reporter.  It never
\* passes that gate during a deployment, nor after one that panicked halfway,
\* whatever the commands, failed cycles and restarts wrote before.  (It may
\* have passed it earlier and act on it later: that is not excluded.)
ReporterHeldBack ==
  [][pc[Reporter] = "opening" /\ pc'[Reporter] = "run" => ~Deploying]_vars

\* orchestrator.rs:351, "Закрываю то, что было" (closing what there was): after
\* the rounds failed, the ranges opened in them are closed.
RollbackClosesWhatWasOpened ==
  pc[Pool] = "panicked" => OnChain \subseteq doubtful

\* main.rs:304-309: when the RPC is unreachable the cycle restarts and the
\* positions are not closed, "НЕ закрываем позиции".
RpcErrorKeepsPositions == pool.kept => ~At(Pool, "sweeping")

=============================================================================
