------------------------------- MODULE Wallet -------------------------------
(***************************************************************************)
(* The wallet component: WALLET_MUTEX (params.rs), the operations that     *)
(* open, list and close positions (dex_services/wirlpool.rs), the wallet   *)
(* sweep of the orchestrator, and the two session tables they touch        *)
(* (database/positions.rs, database/history.rs).                           *)
(*                                                                         *)
(* A task of the bot is inside at most one of these operations at a time.  *)
(* `call[t]` is the frame of that operation; when it returns, the frame is *)
(* idle again and holds the result.  Every await at which another task can *)
(* see or change something is a step of its own.                           *)
(*                                                                         *)
(* The chain, its RPC nodes and tokio's Mutex are external.  A transaction *)
(* that send_and_confirm gives up on after 18 polls may still land.        *)
(***************************************************************************)
EXTENDS Integers, FiniteSets

CONSTANTS
  Tasks,       \* the tasks that call the operations
  NoTask,      \* "nobody holds the guard"
  Mints,       \* position mints there can ever be (a bound)
  MaxRows,     \* pool_configs rows ever inserted (a bound)
  MaxRestarts  \* process restarts (a bound)

ASSUME WalletAssumption ==
  /\ NoTask \notin Tasks
  /\ MaxRows \in Nat
  /\ MaxRestarts \in Nat

VARIABLES
  lock,      \* holder of WALLET_MUTEX, or NoTask
  status,    \* what the chain knows of each position mint
  closing,   \* state of the `closing` trigger
  row,       \* session of the pool_configs row id = 1; 0: there is none
  rows,      \* sessions inserted so far: the next row is session rows + 1
  recorded,  \* session_history: the number of rows written for each session
  survived,  \* history: the records of each session that its row outlived
  restarts,  \* restarts of the process so far
  call       \* frame of the operation each task is in

chainVars == <<status>>
dbVars    == <<closing, row, rows, recorded, survived>>
walletVars == <<lock, status, closing, row, rows, recorded, survived, restarts, call>>

Sessions == 1..MaxRows

\* "openSent" and "closeSent": a transaction was sent, never confirmed, and may
\* still land or expire.
Statuses == {"free", "openSent", "open", "closeSent", "gone"}

\* What fetch_positions_for_owner returns: the positions that exist on chain.
OnChain == {m \in Mints : status[m] \in {"open", "closeSent"}}

\* Entry points: what a task can call.
Entries == {"raising", "querying", "sweepListing", "openWait", "swapping",
            "balancing", "measuring"}
\* Calls of list_positions_for_owner, which locks WALLET_MUTEX.
Listing == {"listing", "relisting", "querying", "sweepListing"}
\* Steps that run while the task owns the guard.
Guarded == {"closePass", "lowering", "relisting", "recording", "deleting", "openTx"}
Ops == Entries \cup Listing \cup Guarded
         \cup {"idle", "closeWait", "sweeping", "inserting"}

Frame == [op: Ops, listed: SUBSET Mints, todo: SUBSET Mints,
          failed: SUBSET Mints, pass: {1, 2}, ok: BOOLEAN]

Idle == [op |-> "idle", listed |-> {}, todo |-> {}, failed |-> {},
         pass |-> 1, ok |-> TRUE]

WalletTypeOK ==
  /\ lock \in Tasks \cup {NoTask}
  /\ status \in [Mints -> Statuses]
  /\ closing \in BOOLEAN
  /\ row \in 0..MaxRows
  /\ rows \in 0..MaxRows
  /\ recorded \in [Sessions -> Nat]
  /\ survived \in [Sessions -> Nat]
  /\ restarts \in 0..MaxRestarts
  /\ call \in [Tasks -> Frame]

WalletInit ==
  /\ lock = NoTask
  /\ status = [m \in Mints |-> "free"]
  /\ closing = FALSE
  /\ row = 0
  /\ rows = 0
  /\ recorded = [s \in Sessions |-> 0]
  /\ survived = [s \in Sessions |-> 0]
  /\ restarts = 0
  /\ call = [t \in Tasks |-> Idle]

-----------------------------------------------------------------------------
(***************************************************************************)
(* Calling and returning.                                                  *)
(***************************************************************************)

At(t, o) == call[t].op = o

Begin(t, o) ==
  /\ At(t, "idle")
  /\ call' = [call EXCEPT ![t] = [Idle EXCEPT !.op = o]]
  /\ UNCHANGED <<lock, chainVars, dbVars, restarts>>

\* The caller is done with the result of its last operation.
Drop(t) == Begin(t, "idle")

GoTo(t, o) == call' = [call EXCEPT ![t].op = o]

\* Return: the frame keeps the outcome, and the guard is dropped with it.
Finish(t, succeeded) ==
  /\ call' = [call EXCEPT ![t] = [Idle EXCEPT !.ok = succeeded]]
  /\ lock' = IF lock = t THEN NoTask ELSE lock

-----------------------------------------------------------------------------
(***************************************************************************)
(* list_positions_for_owner: lock, fetch, unlock.  The guard is held only  *)
(* for the fetch, so the whole call is one step, taken when the guard is   *)
(* free.  A caller that holds the guard itself never takes it.             *)
(***************************************************************************)

\* In close_all_positions: the first listing, and the one before the retry.
ToClose(c, found) ==
  IF found = {} THEN Idle
  ELSE [c EXCEPT !.op = "closeWait", !.listed = found, !.todo = found]

ToRetry(c, found) ==
  IF found \cap c.failed = {} THEN [c EXCEPT !.op = "recording"]
  ELSE [c EXCEPT !.op = "closePass", !.todo = found \cap c.failed, !.pass = 2]

AfterList(c, found) ==
  IF c.op = "querying" THEN [Idle EXCEPT !.listed = found]
  ELSE IF c.op = "sweepListing"
       THEN [c EXCEPT !.op = "sweeping", !.todo = found]
       ELSE IF c.op = "listing" THEN ToClose(c, found) ELSE ToRetry(c, found)

ListPositions(t) ==
  /\ call[t].op \in Listing
  /\ lock = NoTask
  /\ \/ call' = [call EXCEPT ![t] = AfterList(@, OnChain)] /\ UNCHANGED lock
     \/ Finish(t, FALSE)                 \* RPC error
  /\ UNCHANGED <<chainVars, dbVars, restarts>>

-----------------------------------------------------------------------------
(***************************************************************************)
(* close_all_positions.                                                    *)
(***************************************************************************)

\* closing_switcher(true), the first line of close_all_positions.
RaiseClosing(t) ==
  /\ At(t, "raising")
  /\ closing' = TRUE
  /\ GoTo(t, "listing")
  /\ UNCHANGED <<lock, chainVars, row, rows, recorded, survived, restarts>>

\* Mutant: the passes are counted from 0.
TakeGuardPassZero(t) ==
  /\ At(t, "closeWait")
  /\ lock = NoTask
  /\ call' = [call EXCEPT ![t].op = "closePass", ![t].pass = 0]
  /\ lock' = t
  /\ UNCHANGED <<chainVars, dbVars, restarts>>

\* The guard is taken after the listing; creating the WSOL account may fail.
TakeGuard(t) ==
  /\ At(t, "closeWait")
  /\ lock = NoTask
  /\ \/ GoTo(t, "closePass") /\ lock' = t
     \/ Finish(t, FALSE)
  /\ UNCHANGED <<chainVars, dbVars, restarts>>

\* Outcomes of close_whirlpool_position: the status afterwards, and whether it
\* returned Ok.  No close can be built for a position that is gone already.
CloseOutcomes(s) ==
  IF s = "gone" THEN {[status |-> "gone", ok |-> FALSE]}
  ELSE {[status |-> "gone", ok |-> TRUE], [status |-> s, ok |-> FALSE],
        [status |-> "closeSent", ok |-> FALSE]}

\* Mutant: a close that fails is not noted.
NotedNever(t, out) == FALSE

\* Only the first pass notes its failures.
Noted(t, out) == ~out.ok /\ At(t, "closePass") /\ call[t].pass = 1

CloseOne(t, m, out) ==
  /\ call[t].op \in {"closePass", "sweeping"}
  /\ status' = [status EXCEPT ![m] = out.status]
  /\ call' = [call EXCEPT
                ![t].op = IF Noted(t, out) THEN "lowering" ELSE @,
                ![t].todo = @ \ {m},
                ![t].failed = IF Noted(t, out) THEN @ \cup {m} ELSE @]
  /\ UNCHANGED <<lock, dbVars, restarts>>

\* One position of a pass of close_all_positions, or of
\* close_existing_owner_positions, which holds no guard and ignores errors.
ClosePosition(t) ==
  \E m \in call[t].todo : \E out \in CloseOutcomes(status[m]) : CloseOne(t, m, out)

\* closing_switcher(false), after each close of the first pass that failed.
LowerClosing(t) ==
  /\ At(t, "lowering")
  /\ closing' = FALSE
  /\ GoTo(t, "closePass")
  /\ UNCHANGED <<lock, chainVars, row, rows, recorded, survived, restarts>>

\* Mutant: the guard is dropped when the last position is closed.
EndPassUnlocking(t) ==
  /\ At(t, "closePass")
  /\ call[t].todo = {}
  /\ GoTo(t, IF call[t].failed = {} \/ call[t].pass = 2
             THEN "recording" ELSE "relisting")
  /\ lock' = NoTask
  /\ UNCHANGED <<chainVars, dbVars, restarts>>

EndPass(t) ==
  /\ At(t, "closePass")
  /\ call[t].todo = {}
  /\ GoTo(t, IF call[t].failed = {} \/ call[t].pass = 2
             THEN "recording" ELSE "relisting")
  /\ UNCHANGED <<lock, chainVars, dbVars, restarts>>

EndSweep(t) ==
  /\ At(t, "sweeping")
  /\ call[t].todo = {}
  /\ Finish(t, TRUE)
  /\ UNCHANGED <<chainVars, dbVars, restarts>>

\* Mutant: the error return keeps the guard.
RecordSessionLeaking(t) ==
  /\ At(t, "recording")
  /\ \/ /\ call' = [call EXCEPT ![t] = [Idle EXCEPT !.ok = FALSE]]
        /\ UNCHANGED recorded
     \/ /\ row # 0
        /\ recorded' = [recorded EXCEPT ![row] = @ + 1]
        /\ GoTo(t, "deleting")
  /\ UNCHANGED <<lock, chainVars, closing, row, rows, survived, restarts>>

\* record_session_history: an error when there is no pool_configs row, or of
\* one of its statements; then nothing is recorded.
RecordSession(t) ==
  /\ At(t, "recording")
  /\ \/ Finish(t, FALSE) /\ UNCHANGED recorded
     \/ /\ row # 0
        /\ recorded' = [recorded EXCEPT ![row] = @ + 1]
        /\ GoTo(t, "deleting")
        /\ UNCHANGED lock
  /\ UNCHANGED <<chainVars, closing, row, rows, survived, restarts>>

\* The session of the row is still there, with the records it has.
RowSurvives ==
  survived' = IF row = 0 THEN survived ELSE [survived EXCEPT ![row] = recorded[row]]

\* Mutant: the row is kept when the session has been recorded.
DeleteRowKept(t) ==
  /\ At(t, "deleting")
  /\ \/ /\ closing' = (closing /\ call[t].pass = 1)
        /\ Finish(t, TRUE)
        /\ UNCHANGED survived
     \/ Finish(t, FALSE) /\ RowSurvives /\ UNCHANGED closing
  /\ UNCHANGED <<chainVars, row, rows, recorded, restarts>>

\* delete_pool_config, and Ok(()): only the second pass lowers `closing`.  An
\* error of the delete is returned, and the recorded session keeps its row.
DeleteRow(t) ==
  /\ At(t, "deleting")
  /\ \/ /\ row' = 0
        /\ closing' = (closing /\ call[t].pass = 1)
        /\ Finish(t, TRUE)
        /\ UNCHANGED survived
     \/ Finish(t, FALSE) /\ RowSurvives /\ UNCHANGED <<closing, row>>
  /\ UNCHANGED <<chainVars, rows, recorded, restarts>>

-----------------------------------------------------------------------------
(***************************************************************************)
(* open_with_funds_check_universal: the guard is held from before the      *)
(* quotes until the transaction is confirmed.                              *)
(***************************************************************************)

TakeGuardToOpen(t) ==
  /\ At(t, "openWait")
  /\ lock = NoTask
  /\ lock' = t
  /\ GoTo(t, "openTx")
  /\ UNCHANGED <<chainVars, dbVars, restarts>>

OpenPosition(t) ==
  /\ At(t, "openTx")
  /\ \/ Finish(t, FALSE) /\ UNCHANGED status
     \/ \E m \in Mints :
          /\ status[m] = "free"
          /\ \/ status' = [status EXCEPT ![m] = "open"] /\ Finish(t, TRUE)
             \/ status' = [status EXCEPT ![m] = "openSent"] /\ Finish(t, FALSE)
  /\ UNCHANGED <<dbVars, restarts>>

\* An unconfirmed transaction lands, or its blockhash expires.
Settle(m) ==
  /\ status[m] \in {"openSent", "closeSent"}
  /\ \E s \in {"open", "gone"} : status' = [status EXCEPT ![m] = s]
  /\ UNCHANGED <<lock, dbVars, restarts, call>>

-----------------------------------------------------------------------------
(***************************************************************************)
(* Operations around the positions: execute_swap_tokens (no guard), the    *)
(* balances that close_and_report reads (guarded), and                     *)
(* record_position_metrics, which reads the row and then inserts or        *)
(* updates it without the guard.                                           *)
(***************************************************************************)

Swap(t) ==
  /\ At(t, "swapping")
  /\ \E succeeded \in BOOLEAN : Finish(t, succeeded)
  /\ UNCHANGED <<chainVars, dbVars, restarts>>

ReadBalances(t) ==
  /\ At(t, "balancing")
  /\ lock = NoTask
  /\ \E succeeded \in BOOLEAN : Finish(t, succeeded)
  /\ UNCHANGED <<chainVars, dbVars, restarts>>

\* An existing row is updated: it stays the row of its session.
ReadRow(t) ==
  /\ At(t, "measuring")
  /\ \/ row = 0 /\ GoTo(t, "inserting") /\ UNCHANGED lock
     \/ row # 0 /\ \E succeeded \in BOOLEAN : Finish(t, succeeded)
  /\ UNCHANGED <<chainVars, dbVars, restarts>>

\* insert_pool_config, or its error.
InsertRow(t) ==
  /\ At(t, "inserting")
  /\ \/ /\ rows < MaxRows
        /\ rows' = rows + 1
        /\ row' = rows + 1
        /\ Finish(t, TRUE)
     \/ Finish(t, FALSE) /\ UNCHANGED <<row, rows>>
  /\ UNCHANGED <<chainVars, closing, recorded, survived, restarts>>

-----------------------------------------------------------------------------

\* The positions of which task t may have sent a transaction that it still waits
\* for in send_and_confirm.  It waits for one at a time.
UnderWay(t) ==
  IF At(t, "openTx") THEN {m \in Mints : status[m] = "free"}
  ELSE IF call[t].op \in {"closePass", "sweeping"}
       THEN {m \in call[t].todo : status[m] = "open"} ELSE {}

\* The end of the process does not call back what was sent: as after a missed
\* confirmation, it may land at any later time.
LeaveUnderWay ==
  \E sent \in SUBSET Mints : \E by \in [sent -> Tasks] :
    /\ \A m \in sent : m \in UnderWay(by[m])
    /\ \A m, n \in sent : by[m] = by[n] => m = n
    /\ status' = [m \in Mints |->
                    IF m \notin sent THEN status[m]
                    ELSE IF status[m] = "free" THEN "openSent" ELSE "closeSent"]

\* std::process::exit or a crash, and the next boot: init_default_triggers
\* lowers `closing`; the chain and the tables survive.
Restart ==
  /\ restarts < MaxRestarts
  /\ restarts' = restarts + 1
  /\ lock' = NoTask
  /\ call' = [t \in Tasks |-> Idle]
  /\ closing' = FALSE
  /\ LeaveUnderWay
  /\ RowSurvives
  /\ UNCHANGED <<row, rows, recorded>>

\* A step of the operation task t is in.
Step(t) ==
  \/ ListPositions(t)
  \/ RaiseClosing(t)
  \/ TakeGuard(t)
  \/ ClosePosition(t)
  \/ LowerClosing(t)
  \/ EndPass(t)
  \/ EndSweep(t)
  \/ RecordSession(t)
  \/ DeleteRow(t)
  \/ TakeGuardToOpen(t)
  \/ OpenPosition(t)
  \/ Swap(t)
  \/ ReadBalances(t)
  \/ ReadRow(t)
  \/ InsertRow(t)

WalletNext ==
  \/ \E t \in Tasks : Step(t) \/ Drop(t) \/ \E o \in Entries : Begin(t, o)
  \/ \E m \in Mints : Settle(m)
  \/ Restart

\* The component under its most general client.
WalletSpec == WalletInit /\ [][WalletNext]_walletVars

\* tokio runs every ready task, and its Mutex queues waiters in FIFO order: a
\* task that is enabled again and again, as a waiter on the guard is, runs.
WalletFairness == \A t \in Tasks : SF_walletVars(Step(t))

FairWalletSpec == WalletSpec /\ WalletFairness

-----------------------------------------------------------------------------
(***************************************************************************)
(* Properties.                                                             *)
(***************************************************************************)

\* The guard is owned by exactly the task that is inside a guarded step: no
\* two tasks open or close under it at once, and no return path of
\* close_all_positions or of the opening (errors included) leaks it.
GuardOwnedExactly ==
  \A t \in Tasks : lock = t <=> call[t].op \in Guarded

\* record_session_history and delete_pool_config are two database calls, several
\* tasks may close at once, and reports insert rows meanwhile: a session is
\* written to the history once, and once more only for each record that its row
\* outlived, because the delete failed or the process ended before it.
SessionRecordedOnce ==
  \A s \in Sessions : recorded[s] <= survived[s] + 1

\* close_all_positions ends a session only if every position it listed has
\* really been closed, whatever other tasks and late transactions did between
\* the listing and the closes.
RecordedMeansClosed ==
  \A t \in Tasks :
    call[t].op \in {"recording", "deleting"} /\ call[t].pass = 1
      => \A m \in call[t].listed : status[m] = "gone"

\* A task that waits for the guard to close gets it, unless the guard is kept
\* by a task whose first pass failed and that asks for a second listing.
WaiterServedOrSelfDeadlock ==
  \A t \in Tasks :
    At(t, "closeWait") ~> (~At(t, "closeWait") \/ \E u \in Tasks : At(u, "relisting"))

\* wirlpool.rs:536-543, the second pass: positions that failed to close in the
\* first pass are listed again and retried.
FailedClosesAreRetried ==
  \A t \in Tasks : At(t, "relisting") ~> ~At(t, "relisting")

=============================================================================
