---------------------------- MODULE WalletProofs ----------------------------
(***************************************************************************)
(* Proofs about the wallet component, for every set of tasks and of mints  *)
(* and every bound.  The inductive invariant is the conjunction            *)
(*   WalletTypeOK /\ GuardOwnedExactly /\ CountInv /\ ClosedInv             *)
(*     /\ RetryNeverRuns /\ FailureNoted                                    *)
(* and each of the six is inductive relative to those before it.           *)
(***************************************************************************)
EXTENDS Wallet, TLAPS

\* A session with a record that its row has not outlived is the one being
\* deleted, and a session that was not inserted yet has no record.
CountInv ==
  /\ row <= rows
  /\ \A s \in Sessions :
       /\ recorded[s] <= survived[s] + 1
       /\ s > rows => recorded[s] = 0
       /\ s = row /\ recorded[s] = survived[s] + 1 => \E t \in Tasks : At(t, "deleting")

Closing == {"closeWait", "closePass", "lowering", "relisting", "recording", "deleting"}

\* In the first pass every listed position is still to be closed, has failed,
\* or is gone; the session is not ended before the first two are used up.
FrameClosed(t) ==
  /\ call[t].op \in Closing /\ call[t].pass = 1
       => \A m \in call[t].listed :
            m \in call[t].todo \/ m \in call[t].failed \/ status[m] = "gone"
  /\ call[t].op \in {"recording", "deleting"} /\ call[t].pass = 1
       => call[t].todo = {} /\ call[t].failed = {}

ClosedInv == \A t \in Tasks : FrameClosed(t)

-----------------------------------------------------------------------------
(***************************************************************************)
(* What the helpers do.                                                    *)
(***************************************************************************)

\* The steps of one task leave the frames of the other tasks alone.
OthersKept(t) == \A u \in Tasks \ {t} : call'[u] = call[u]

\* GoTo changes only the place of the task.
LEMMA GoToEffect ==
  ASSUME WalletTypeOK, NEW t \in Tasks, NEW o \in Ops, GoTo(t, o)
  PROVE  /\ call' \in [Tasks -> Frame]
         /\ OthersKept(t)
         /\ call'[t].op = o
         /\ call'[t].listed = call[t].listed
         /\ call'[t].todo = call[t].todo
         /\ call'[t].failed = call[t].failed
         /\ call'[t].pass = call[t].pass
BY DEF WalletTypeOK, GoTo, OthersKept, Frame

\* Finish leaves an idle frame and no guard.
LEMMA FinishEffect ==
  ASSUME WalletTypeOK, NEW t \in Tasks, NEW succeeded \in BOOLEAN,
         Finish(t, succeeded)
  PROVE  /\ call' \in [Tasks -> Frame]
         /\ OthersKept(t)
         /\ call'[t].op = "idle"
         /\ lock' = IF lock = t THEN NoTask ELSE lock
<1>1. [Idle EXCEPT !.ok = succeeded] \in Frame
  BY DEF Idle, Frame, Ops
<1>2. [Idle EXCEPT !.ok = succeeded].op = "idle"
  BY DEF Idle
<1> QED
  BY <1>1, <1>2 DEF WalletTypeOK, Finish, OthersKept

\* Begin leaves an idle task with an idle frame at an unguarded entry.
LEMMA BeginEffect ==
  ASSUME WalletTypeOK, NEW t \in Tasks, NEW o \in Entries \cup {"idle"}, Begin(t, o)
  PROVE  /\ call' \in [Tasks -> Frame]
         /\ OthersKept(t)
         /\ call'[t].op = o
         /\ At(t, "idle")
         /\ UNCHANGED <<lock, chainVars, dbVars, restarts>>
<1>1. [Idle EXCEPT !.op = o] \in Frame /\ [Idle EXCEPT !.op = o].op = o
  BY DEF Idle, Frame, Ops, Entries
<1> QED
  BY <1>1 DEF WalletTypeOK, Begin, OthersKept

\* The frame after a listing.
LEMMA AfterListEffect ==
  ASSUME NEW c \in Frame, NEW found \in SUBSET Mints, c.op \in Listing,
         c.op # "relisting"
  PROVE  /\ AfterList(c, found) \in Frame
         /\ AfterList(c, found).op \in {"idle", "sweeping", "closeWait"}
         /\ AfterList(c, found).op = "closeWait"
              => AfterList(c, found).listed = AfterList(c, found).todo
<1>1. CASE c.op = "querying"
  BY <1>1 DEF AfterList, Idle, Frame, Ops
<1>2. CASE c.op = "sweepListing"
  BY <1>2 DEF AfterList, Frame, Ops
<1>3. CASE c.op = "listing"
  BY <1>3 DEF AfterList, ToClose, Idle, Frame, Ops, Entries
<1> QED
  BY <1>1, <1>2, <1>3 DEF Listing

LEMMA AfterRelistType ==
  ASSUME NEW c \in Frame, NEW found \in SUBSET Mints, c.op = "relisting"
  PROVE  AfterList(c, found) \in Frame
BY DEF AfterList, ToRetry, Frame, Ops, Guarded

\* A row that survives keeps the count of its session a number.
LEMMA SurvivalType ==
  ASSUME WalletTypeOK, RowSurvives
  PROVE  survived' \in [Sessions -> Nat]
<1>1. row # 0 => row \in Sessions /\ recorded[row] \in Nat
  BY WalletAssumption DEF WalletTypeOK, Sessions
<1> QED
  BY <1>1 DEF RowSurvives, WalletTypeOK

LEMMA OnChainType == OnChain \in SUBSET Mints
BY DEF OnChain

-----------------------------------------------------------------------------
(***************************************************************************)
(* Type correctness.                                                       *)
(***************************************************************************)

LEMMA InitType == WalletInit => WalletTypeOK
<1>1. Idle \in Frame
  BY DEF Idle, Frame, Ops
<1>2. 0 \in 0..MaxRows /\ 0 \in 0..MaxRestarts
  BY WalletAssumption
<1> SUFFICES ASSUME WalletInit PROVE WalletTypeOK
  OBVIOUS
<1>3. status \in [Mints -> Statuses]
  BY DEF WalletInit, Statuses
<1>4. recorded \in [Sessions -> Nat] /\ survived \in [Sessions -> Nat]
  BY DEF WalletInit
<1>5. call \in [Tasks -> Frame]
  BY <1>1 DEF WalletInit
<1> QED
  BY <1>2, <1>3, <1>4, <1>5 DEF WalletInit, WalletTypeOK

\* One step of the operation of a task keeps the types.
LEMMA StepType ==
  ASSUME WalletTypeOK, NEW t \in Tasks, Step(t)
  PROVE  WalletTypeOK'
<1> USE DEF chainVars, dbVars
<1> USE WalletAssumption
<1>0. call[t] \in Frame
  BY DEF WalletTypeOK
<1>1. CASE ListPositions(t)
  <2>1. AfterList(call[t], OnChain) \in Frame
    BY <1>0, <1>1, AfterListEffect, AfterRelistType, OnChainType DEF ListPositions
  <2> QED
    BY <1>1, <2>1, FinishEffect DEF ListPositions, WalletTypeOK
<1>2. CASE RaiseClosing(t)
  BY <1>2, GoToEffect DEF RaiseClosing, WalletTypeOK, Ops, Listing
<1>3. CASE TakeGuard(t)
  <2>1. "closePass" \in Ops
    BY DEF Ops, Guarded
  <2> QED
    BY <1>3, <2>1, GoToEffect, FinishEffect DEF TakeGuard, WalletTypeOK
<1>4. CASE ClosePosition(t)
  <2>1. PICK m \in call[t].todo : \E out \in CloseOutcomes(status[m]) : CloseOne(t, m, out)
    BY <1>4 DEF ClosePosition
  <2>2. PICK out \in CloseOutcomes(status[m]) : CloseOne(t, m, out)
    BY <2>1
  <2>3. m \in Mints /\ status[m] \in Statuses
    BY <1>0 DEF Frame, WalletTypeOK
  <2>4. out.status \in Statuses
    BY <2>3 DEF CloseOutcomes, Statuses
  <2>5. status' \in [Mints -> Statuses]
    BY <2>2, <2>4 DEF CloseOne, WalletTypeOK
  <2>6. call' \in [Tasks -> Frame]
    <3>1. "lowering" \in Ops
      BY DEF Ops, Guarded
    <3> QED
      BY <2>2, <2>3, <3>1, <1>0 DEF CloseOne, WalletTypeOK, Frame
  <2> QED
    BY <2>2, <2>5, <2>6 DEF CloseOne, WalletTypeOK
<1>5. CASE EndPass(t)
  <2>1. "recording" \in Ops /\ "relisting" \in Ops
    BY DEF Ops, Guarded
  <2> QED
    BY <1>5, <2>1, GoToEffect DEF EndPass, WalletTypeOK
<1>6. CASE EndSweep(t)
  BY <1>0, <1>6, FinishEffect DEF EndSweep, WalletTypeOK, Frame
<1>7. CASE RecordSession(t)
  <2>1. "deleting" \in Ops
    BY DEF Ops, Guarded
  <2>2. lock' \in Tasks \cup {NoTask} /\ call' \in [Tasks -> Frame]
    BY <1>7, <2>1, GoToEffect, FinishEffect DEF RecordSession, WalletTypeOK
  <2>3. row # 0 => recorded[row] + 1 \in Nat
    BY DEF WalletTypeOK, Sessions
  <2>4. recorded' \in [Sessions -> Nat]
    BY <1>7, <2>3 DEF RecordSession, WalletTypeOK
  <2> QED
    BY <1>7, <2>2, <2>4 DEF RecordSession, WalletTypeOK
<1>8. CASE DeleteRow(t)
  <2>1. closing' \in BOOLEAN
    BY <1>8 DEF DeleteRow, WalletTypeOK
  <2>2. row' \in 0..MaxRows
    <3>1. row' = 0 \/ row' = row
      BY <1>8 DEF DeleteRow
    <3>2. 0 \in 0..MaxRows /\ row \in 0..MaxRows
      BY DEF WalletTypeOK
    <3> QED
      BY <3>1, <3>2
  <2>3. lock' \in Tasks \cup {NoTask} /\ call' \in [Tasks -> Frame]
    BY <1>8, FinishEffect DEF DeleteRow, WalletTypeOK
  <2>4. survived' \in [Sessions -> Nat]
    BY <1>8, SurvivalType DEF DeleteRow, WalletTypeOK
  <2> QED
    BY <1>8, <2>1, <2>2, <2>3, <2>4 DEF DeleteRow, WalletTypeOK
<1>9. CASE TakeGuardToOpen(t)
  <2>1. "openTx" \in Ops
    BY DEF Ops, Guarded
  <2> QED
    BY <1>9, <2>1, GoToEffect DEF TakeGuardToOpen, WalletTypeOK
<1>10. CASE OpenPosition(t)
  BY <1>10, FinishEffect DEF OpenPosition, WalletTypeOK, Statuses
<1>11. CASE Swap(t)
  BY <1>11, FinishEffect DEF Swap, WalletTypeOK
<1>12. CASE ReadBalances(t)
  BY <1>12, FinishEffect DEF ReadBalances, WalletTypeOK
<1>13. CASE ReadRow(t)
  <2>1. "inserting" \in Ops
    BY DEF Ops
  <2> QED
    BY <1>13, <2>1, GoToEffect, FinishEffect DEF ReadRow, WalletTypeOK
<1>14. CASE InsertRow(t)
  <2>0. rows \in 0..MaxRows /\ row \in 0..MaxRows
    BY DEF WalletTypeOK
  <2>1. row' \in 0..MaxRows /\ rows' \in 0..MaxRows
    <3>1. CASE rows < MaxRows /\ rows' = rows + 1 /\ row' = rows + 1
      BY <3>1, <2>0
    <3>2. CASE UNCHANGED <<row, rows>>
      BY <3>2, <2>0
    <3> QED
      BY <1>14, <3>1, <3>2 DEF InsertRow
  <2>2. lock' \in Tasks \cup {NoTask} /\ call' \in [Tasks -> Frame]
    BY <1>14, FinishEffect DEF InsertRow, WalletTypeOK
  <2> QED
    BY <1>14, <2>1, <2>2 DEF InsertRow, WalletTypeOK
<1>15. CASE LowerClosing(t)
  <2>1. "closePass" \in Ops
    BY DEF Ops, Guarded
  <2> QED
    BY <1>15, <2>1, GoToEffect DEF LowerClosing, WalletTypeOK
<1> QED
  BY <1>1, <1>2, <1>3, <1>4, <1>5, <1>6, <1>7, <1>8, <1>9, <1>10, <1>11, <1>12,
     <1>13, <1>14, <1>15 DEF Step

LEMMA NextType ==
  ASSUME WalletTypeOK, [WalletNext]_walletVars
  PROVE  WalletTypeOK'
<1> USE DEF chainVars, dbVars
<1>1. ASSUME NEW t \in Tasks, Step(t)
      PROVE  WalletTypeOK'
  BY <1>1, StepType
<1>2. ASSUME NEW t \in Tasks, NEW o \in Entries \cup {"idle"}, Begin(t, o)
      PROVE  WalletTypeOK'
  BY <1>2, BeginEffect DEF WalletTypeOK
<1>3. ASSUME NEW m \in Mints, Settle(m)
      PROVE  WalletTypeOK'
  BY <1>3 DEF Settle, WalletTypeOK, Statuses
<1>4. CASE Restart
  <2>1. Idle \in Frame
    BY DEF Idle, Frame, Ops
  <2>2. restarts' \in 0..MaxRestarts
    BY <1>4, WalletAssumption DEF Restart, WalletTypeOK
  <2>3. call' \in [Tasks -> Frame]
    BY <1>4, <2>1 DEF Restart
  <2>4. status' \in [Mints -> Statuses]
    BY <1>4 DEF Restart, LeaveUnderWay, WalletTypeOK, Statuses
  <2>5. survived' \in [Sessions -> Nat]
    BY <1>4, SurvivalType DEF Restart
  <2> QED
    BY <1>4, <2>2, <2>3, <2>4, <2>5 DEF Restart, WalletTypeOK
<1>5. CASE UNCHANGED walletVars
  BY <1>5 DEF walletVars, WalletTypeOK
<1> QED
  BY <1>1, <1>2, <1>3, <1>4, <1>5 DEF WalletNext, Drop

\* Every variable of the wallet component keeps to its type.
THEOREM TypeCorrect == WalletSpec => []WalletTypeOK
<1>1. WalletInit => WalletTypeOK
  BY InitType
<1>2. WalletTypeOK /\ [WalletNext]_walletVars => WalletTypeOK'
  BY NextType
<1> QED
  BY <1>1, <1>2, PTL DEF WalletSpec

-----------------------------------------------------------------------------
(***************************************************************************)
(* The guard.                                                              *)
(***************************************************************************)

\* The three ways in which a task may treat the guard: keep it as it is, take
\* a free one, or leave the guarded steps and release what it holds.
LEMMA GuardTransfer ==
  ASSUME GuardOwnedExactly, NEW t \in Tasks, OthersKept(t),
         \/ lock' = lock /\ (call'[t].op \in Guarded <=> call[t].op \in Guarded)
         \/ lock = NoTask /\ lock' = t /\ call'[t].op \in Guarded
         \/ lock' = (IF lock = t THEN NoTask ELSE lock) /\ call'[t].op \notin Guarded
  PROVE  GuardOwnedExactly'
<1> SUFFICES ASSUME NEW u \in Tasks PROVE (lock = u <=> call[u].op \in Guarded)'
  BY DEF GuardOwnedExactly
<1>1. CASE u = t
  BY <1>1, WalletAssumption DEF GuardOwnedExactly
<1>2. CASE u # t
  BY <1>2, WalletAssumption DEF GuardOwnedExactly, OthersKept
<1> QED
  BY <1>1, <1>2

LEMMA StepGuard ==
  ASSUME WalletTypeOK, GuardOwnedExactly, NEW t \in Tasks, Step(t)
  PROVE  GuardOwnedExactly'
<1>0. /\ call[t] \in Frame
      /\ "idle" \notin Guarded
  BY DEF WalletTypeOK, Guarded
<1>1. CASE ListPositions(t)
  <2>1. lock = NoTask /\ call[t].op \in Listing /\ call[t].op # "relisting"
    BY <1>1, WalletAssumption DEF ListPositions, GuardOwnedExactly, Guarded
  <2>2. CASE Finish(t, FALSE)
    BY <2>2, <1>0, FinishEffect, GuardTransfer
  <2>3. CASE call' = [call EXCEPT ![t] = AfterList(@, OnChain)] /\ UNCHANGED lock
    <3>1. AfterList(call[t], OnChain).op \notin Guarded
      BY <1>0, <2>1, AfterListEffect, OnChainType DEF Guarded
    <3>2. call'[t].op \notin Guarded /\ OthersKept(t)
      BY <2>3, <3>1 DEF WalletTypeOK, OthersKept
    <3> QED
      BY <2>1, <2>3, <3>2, GuardTransfer, WalletAssumption DEF GuardOwnedExactly
  <2> QED
    BY <1>1, <2>2, <2>3 DEF ListPositions
<1>2. CASE RaiseClosing(t)
  <2>1. "listing" \in Ops
    BY DEF Ops, Listing
  <2> QED
    BY <1>0, <1>2, <2>1, GoToEffect, GuardTransfer DEF RaiseClosing, At, Guarded
<1>3. CASE TakeGuard(t)
  <2>1. "closePass" \in Ops
    BY DEF Ops, Guarded
  <2> QED
    BY <1>0, <1>3, <2>1, GoToEffect, FinishEffect, GuardTransfer
    DEF TakeGuard, At, Guarded
<1>4. CASE ClosePosition(t)
  <2>1. \E m \in call[t].todo : \E out : CloseOne(t, m, out)
    BY <1>4 DEF ClosePosition
  <2>2. /\ call'[t].op = call[t].op \/ (call[t].op = "closePass" /\ call'[t].op = "lowering")
        /\ OthersKept(t) /\ lock' = lock
    BY <2>1, <1>0 DEF CloseOne, Noted, At, WalletTypeOK, OthersKept, Frame
  <2> QED
    BY <2>2, GuardTransfer DEF Guarded
<1>5. CASE EndPass(t)
  <2>1. "recording" \in Ops /\ "relisting" \in Ops
    BY DEF Ops, Guarded
  <2> QED
    BY <1>0, <1>5, <2>1, GoToEffect, GuardTransfer DEF EndPass, At, Guarded
<1>6. CASE EndSweep(t)
  BY <1>0, <1>6, FinishEffect, GuardTransfer DEF EndSweep, Frame
<1>7. CASE RecordSession(t)
  <2>1. "deleting" \in Ops
    BY DEF Ops, Guarded
  <2> QED
    BY <1>0, <1>7, <2>1, GoToEffect, FinishEffect, GuardTransfer
    DEF RecordSession, At, Guarded
<1>8. CASE DeleteRow(t)
  BY <1>0, <1>8, FinishEffect, GuardTransfer DEF DeleteRow
<1>9. CASE TakeGuardToOpen(t)
  <2>1. "openTx" \in Ops
    BY DEF Ops, Guarded
  <2> QED
    BY <1>0, <1>9, <2>1, GoToEffect, GuardTransfer DEF TakeGuardToOpen, Guarded
<1>10. CASE OpenPosition(t)
  BY <1>0, <1>10, FinishEffect, GuardTransfer DEF OpenPosition
<1>11. CASE Swap(t)
  BY <1>0, <1>11, FinishEffect, GuardTransfer DEF Swap
<1>12. CASE ReadBalances(t)
  BY <1>0, <1>12, FinishEffect, GuardTransfer DEF ReadBalances
<1>13. CASE ReadRow(t)
  <2>1. "inserting" \in Ops
    BY DEF Ops
  <2> QED
    BY <1>0, <1>13, <2>1, GoToEffect, FinishEffect, GuardTransfer
    DEF ReadRow, At, Guarded
<1>14. CASE InsertRow(t)
  BY <1>0, <1>14, FinishEffect, GuardTransfer DEF InsertRow
<1>15. CASE LowerClosing(t)
  <2>1. "closePass" \in Ops
    BY DEF Ops, Guarded
  <2> QED
    BY <1>0, <1>15, <2>1, GoToEffect, GuardTransfer DEF LowerClosing, At, Guarded
<1> QED
  BY <1>1, <1>2, <1>3, <1>4, <1>5, <1>6, <1>7, <1>8, <1>9, <1>10, <1>11, <1>12,
     <1>13, <1>14, <1>15 DEF Step

LEMMA NextGuard ==
  ASSUME WalletTypeOK, GuardOwnedExactly, [WalletNext]_walletVars
  PROVE  GuardOwnedExactly'
<1> USE DEF chainVars, dbVars
<1>1. ASSUME NEW t \in Tasks, Step(t)
      PROVE  GuardOwnedExactly'
  BY <1>1, StepGuard
<1>2. ASSUME NEW t \in Tasks, NEW o \in Entries \cup {"idle"}, Begin(t, o)
      PROVE  GuardOwnedExactly'
  BY <1>2, BeginEffect, GuardTransfer DEF At, Entries, Guarded
<1>3. ASSUME NEW m \in Mints, Settle(m)
      PROVE  GuardOwnedExactly'
  BY <1>3 DEF Settle, GuardOwnedExactly
<1>4. CASE Restart
  BY <1>4, WalletAssumption DEF Restart, GuardOwnedExactly, Idle, Guarded
<1>5. CASE UNCHANGED walletVars
  BY <1>5 DEF walletVars, GuardOwnedExactly
<1> QED
  BY <1>1, <1>2, <1>3, <1>4, <1>5 DEF WalletNext, Drop

\* WALLET_MUTEX is held by exactly the task that is inside a guarded step: it
\* excludes, and no path leaks it.
THEOREM GuardCorrect == WalletSpec => []GuardOwnedExactly
<1>1. WalletInit => GuardOwnedExactly
  BY WalletAssumption DEF WalletInit, GuardOwnedExactly, Idle, Guarded
<1>2. WalletTypeOK /\ GuardOwnedExactly /\ [WalletNext]_walletVars => GuardOwnedExactly'
  BY NextGuard
<1> QED
  BY <1>1, <1>2, TypeCorrect, PTL DEF WalletSpec

-----------------------------------------------------------------------------
(***************************************************************************)
(* The sessions.                                                           *)
(***************************************************************************)

\* A step that leaves the tables alone, of a task that is not deleting.
LEMMA CountTransfer ==
  ASSUME CountInv, NEW t \in Tasks, OthersKept(t), ~At(t, "deleting"),
         UNCHANGED <<row, rows, recorded, survived>>
  PROVE  CountInv'
BY DEF CountInv, OthersKept, At

\* A row that survives has no record it has not outlived.
LEMMA CountSurvives ==
  ASSUME WalletTypeOK, CountInv, RowSurvives, UNCHANGED <<row, rows, recorded>>
  PROVE  CountInv'
<1> SUFFICES ASSUME NEW s \in Sessions
             PROVE  /\ recorded[s] <= survived'[s] + 1
                    /\ s = row => recorded[s] # survived'[s] + 1
  BY DEF CountInv
<1>1. recorded[s] \in Nat /\ recorded[s] <= survived[s] + 1
  BY DEF WalletTypeOK, CountInv
<1>2. CASE s = row
  <2>1. survived'[s] = recorded[s]
    BY <1>2 DEF RowSurvives, WalletTypeOK, Sessions
  <2> QED
    BY <1>1, <2>1
<1>3. CASE s # row
  <2>1. survived'[s] = survived[s]
    BY <1>3 DEF RowSurvives, WalletTypeOK
  <2> QED
    BY <1>1, <1>3, <2>1
<1> QED
  BY <1>2, <1>3

\* What a step of each task does to everything but the tables.
LEMMA StepOthersKept ==
  ASSUME WalletTypeOK, NEW t \in Tasks, Step(t)
  PROVE  OthersKept(t)
<1>1. CASE \E o \in Ops : GoTo(t, o)
  BY <1>1, GoToEffect
<1>2. CASE \E succeeded \in BOOLEAN : Finish(t, succeeded)
  BY <1>2, FinishEffect
<1>3. CASE ListPositions(t)
  BY <1>3, FinishEffect DEF ListPositions, WalletTypeOK, OthersKept
<1>4. CASE ClosePosition(t)
  BY <1>4 DEF ClosePosition, CloseOne, WalletTypeOK, OthersKept
<1>5. {"listing", "closePass", "relisting", "recording", "deleting", "openTx",
       "inserting"} \subseteq Ops
  BY DEF Ops, Guarded, Listing
<1>6. call[t].listed \in SUBSET Mints
  BY DEF WalletTypeOK, Frame
<1>7. CASE RaiseClosing(t) \/ TakeGuard(t) \/ LowerClosing(t) \/ EndPass(t) \/ EndSweep(t)
  BY <1>1, <1>2, <1>5, <1>6, <1>7 DEF RaiseClosing, TakeGuard, LowerClosing, EndPass, EndSweep
<1>8. CASE RecordSession(t) \/ DeleteRow(t) \/ TakeGuardToOpen(t) \/ OpenPosition(t)
  BY <1>1, <1>2, <1>5, <1>8 DEF RecordSession, DeleteRow, TakeGuardToOpen, OpenPosition
<1>9. CASE Swap(t) \/ ReadBalances(t) \/ ReadRow(t) \/ InsertRow(t)
  BY <1>1, <1>2, <1>5, <1>9 DEF Swap, ReadBalances, ReadRow, InsertRow
<1> QED
  BY <1>3, <1>4, <1>7, <1>8, <1>9 DEF Step

LEMMA StepCount ==
  ASSUME WalletTypeOK, GuardOwnedExactly, CountInv, NEW t \in Tasks, Step(t)
  PROVE  CountInv'
<1>0. OthersKept(t)
  BY StepOthersKept
<1>1. CASE RecordSession(t)
  <2>1. CASE UNCHANGED recorded
    BY <1>0, <1>1, <2>1, CountTransfer DEF RecordSession, At
  <2>2. CASE recorded' # recorded
    <3>1. /\ recorded' = [recorded EXCEPT ![row] = @ + 1] /\ row # 0
          /\ GoTo(t, "deleting") /\ At(t, "recording")
          /\ UNCHANGED <<row, rows, survived>>
      BY <1>1, <2>2 DEF RecordSession
    <3>2. lock = t
      BY <3>1 DEF GuardOwnedExactly, Guarded, At
    <3>3. ~ \E u \in Tasks : At(u, "deleting")
      BY <3>1, <3>2 DEF GuardOwnedExactly, Guarded, At
    <3>4. row \in Sessions /\ row <= rows
      BY <3>1 DEF WalletTypeOK, Sessions, CountInv
    <3>5. recorded[row] <= survived[row]
      BY <3>3, <3>4 DEF CountInv, WalletTypeOK
    <3>6. At(t, "deleting")'
      BY <3>1 DEF GoTo, At, WalletTypeOK, Frame
    <3> QED
      BY <3>1, <3>4, <3>5, <3>6 DEF CountInv, WalletTypeOK
  <2> QED
    BY <2>1, <2>2
<1>2. CASE DeleteRow(t)
  <2>1. CASE row' = 0 /\ UNCHANGED survived
    <3>1. UNCHANGED <<rows, recorded>> /\ 0 <= rows
      BY <1>2 DEF DeleteRow, WalletTypeOK
    <3> QED
      BY <2>1, <3>1 DEF CountInv, Sessions
  <2>2. CASE RowSurvives /\ UNCHANGED row
    BY <1>2, <2>2, CountSurvives DEF DeleteRow
  <2> QED
    BY <1>2, <2>1, <2>2 DEF DeleteRow
<1>3. CASE InsertRow(t)
  <2>1. CASE UNCHANGED <<row, rows>>
    BY <1>0, <1>3, <2>1, CountTransfer DEF InsertRow, At
  <2>2. CASE rows' = rows + 1 /\ row' = rows + 1
    <3>1. UNCHANGED <<recorded, survived>>
      BY <1>3 DEF InsertRow
    <3>2. rows \in Nat /\ \A s \in Sessions : survived[s] \in Nat
      BY DEF WalletTypeOK
    <3> QED
      BY <2>2, <3>1, <3>2 DEF CountInv, Sessions
  <2> QED
    BY <1>3, <2>1, <2>2 DEF InsertRow
<1>4. CASE ListPositions(t) \/ RaiseClosing(t) \/ TakeGuard(t) \/ LowerClosing(t) \/ EndPass(t)
  BY <1>0, <1>4, CountTransfer
  DEF ListPositions, RaiseClosing, TakeGuard, LowerClosing, EndPass, At, Listing, dbVars
<1>5. CASE EndSweep(t) \/ TakeGuardToOpen(t) \/ OpenPosition(t) \/ Swap(t)
  BY <1>0, <1>5, CountTransfer DEF EndSweep, TakeGuardToOpen, OpenPosition, Swap, At, dbVars
<1>6. CASE ReadBalances(t) \/ ReadRow(t)
  BY <1>0, <1>6, CountTransfer DEF ReadBalances, ReadRow, At, dbVars
<1>7. CASE ClosePosition(t)
  BY <1>0, <1>7, CountTransfer DEF ClosePosition, CloseOne, At, dbVars
<1> QED
  BY <1>1, <1>2, <1>3, <1>4, <1>5, <1>6, <1>7 DEF Step

LEMMA NextCount ==
  ASSUME WalletTypeOK, GuardOwnedExactly, CountInv, [WalletNext]_walletVars
  PROVE  CountInv'
<1>1. ASSUME NEW t \in Tasks, Step(t)
      PROVE  CountInv'
  BY <1>1, StepCount
<1>2. ASSUME NEW t \in Tasks, NEW o \in Entries \cup {"idle"}, Begin(t, o)
      PROVE  CountInv'
  BY <1>2, BeginEffect, CountTransfer DEF At, dbVars
<1>3. ASSUME NEW m \in Mints, Settle(m)
      PROVE  CountInv'
  BY <1>3 DEF Settle, CountInv, At, dbVars
<1>4. CASE Restart
  BY <1>4, CountSurvives DEF Restart
<1>5. CASE UNCHANGED walletVars
  BY <1>5 DEF walletVars, CountInv, At
<1> QED
  BY <1>1, <1>2, <1>3, <1>4, <1>5 DEF WalletNext, Drop

\* record_session_history and delete_pool_config are not one transaction, but
\* the guard makes them one for the other tasks: a session has at most one record
\* more than its row has outlived, by a failed delete or by the end of a process.
THEOREM RecordedOnce == WalletSpec => []SessionRecordedOnce
<1>1. WalletInit => CountInv
  BY DEF WalletInit, CountInv, Sessions
<1>2. /\ WalletTypeOK /\ GuardOwnedExactly /\ CountInv
      /\ [WalletNext]_walletVars
      => CountInv'
  BY NextCount
<1>3. CountInv => SessionRecordedOnce
  BY DEF CountInv, SessionRecordedOnce
<1> QED
  BY <1>1, <1>2, <1>3, TypeCorrect, GuardCorrect, PTL DEF WalletSpec

-----------------------------------------------------------------------------
(***************************************************************************)
(* The positions.                                                          *)
(***************************************************************************)

\* A closed position stays closed.
GoneStays == \A m \in Mints : status[m] = "gone" => status'[m] = "gone"

\* Only the frame of the task that steps is of interest.
LEMMA ClosedTransfer ==
  ASSUME WalletTypeOK, ClosedInv, NEW t \in Tasks, OthersKept(t), GoneStays,
         FrameClosed(t)'
  PROVE  ClosedInv'
<1> SUFFICES ASSUME NEW u \in Tasks PROVE FrameClosed(u)'
  BY DEF ClosedInv
<1>1. CASE u # t
  <2>1. call'[u] = call[u] /\ FrameClosed(u)
    BY <1>1 DEF OthersKept, ClosedInv
  <2>2. call[u].listed \subseteq Mints
    BY DEF WalletTypeOK, Frame
  <2> QED
    BY <2>1, <2>2 DEF FrameClosed, GoneStays
<1> QED
  BY <1>1

\* A frame outside of close_all_positions claims nothing.
LEMMA NotClosing ==
  ASSUME NEW t \in Tasks, call'[t].op \notin Closing
  PROVE  FrameClosed(t)'
BY DEF FrameClosed, Closing

\* No step of a task brings a closed position back.
LEMMA StepGoneStays ==
  ASSUME WalletTypeOK, NEW t \in Tasks, Step(t)
  PROVE  GoneStays
<1>1. CASE ClosePosition(t)
  <2>1. PICK m \in call[t].todo : \E out \in CloseOutcomes(status[m]) : CloseOne(t, m, out)
    BY <1>1 DEF ClosePosition
  <2>2. PICK out \in CloseOutcomes(status[m]) : CloseOne(t, m, out)
    BY <2>1
  <2>3. m \in Mints
    BY DEF WalletTypeOK, Frame
  <2>4. status[m] = "gone" => out.status = "gone"
    BY <2>2 DEF CloseOutcomes
  <2> QED
    BY <2>2, <2>3, <2>4 DEF CloseOne, GoneStays, WalletTypeOK
<1>2. CASE OpenPosition(t)
  BY <1>2 DEF OpenPosition, GoneStays, WalletTypeOK
<1>3. CASE UNCHANGED status
  BY <1>3 DEF GoneStays
<1>4. CASE ListPositions(t) \/ RaiseClosing(t) \/ TakeGuard(t) \/ EndPass(t) \/ EndSweep(t)
  BY <1>3, <1>4 DEF ListPositions, RaiseClosing, TakeGuard, EndPass, EndSweep, chainVars
<1>7. CASE LowerClosing(t)
  BY <1>3, <1>7 DEF LowerClosing, chainVars
<1>5. CASE RecordSession(t) \/ DeleteRow(t) \/ TakeGuardToOpen(t) \/ Swap(t)
  BY <1>3, <1>5 DEF RecordSession, DeleteRow, TakeGuardToOpen, Swap, chainVars
<1>6. CASE ReadBalances(t) \/ ReadRow(t) \/ InsertRow(t)
  BY <1>3, <1>6 DEF ReadBalances, ReadRow, InsertRow, chainVars
<1> QED
  BY <1>1, <1>2, <1>4, <1>5, <1>6, <1>7 DEF Step

LEMMA StepClosed ==
  ASSUME WalletTypeOK, GuardOwnedExactly, ClosedInv, NEW t \in Tasks, Step(t)
  PROVE  ClosedInv'
<1> SUFFICES FrameClosed(t)'
  BY StepOthersKept, StepGoneStays, ClosedTransfer
<1>0. call[t] \in Frame /\ FrameClosed(t) /\ GoneStays /\ "idle" \notin Closing
  BY StepGoneStays DEF WalletTypeOK, ClosedInv, Closing
<1>1. CASE ListPositions(t)
  <2>1. call[t].op \in Listing /\ call[t].op # "relisting"
    BY <1>1, WalletAssumption DEF ListPositions, GuardOwnedExactly, Guarded
  <2>2. CASE Finish(t, FALSE)
    BY <1>0, <2>2, FinishEffect, NotClosing
  <2>3. CASE call' = [call EXCEPT ![t] = AfterList(@, OnChain)]
    <3>1. call'[t] = AfterList(call[t], OnChain)
      BY <2>3 DEF WalletTypeOK
    <3> QED
      BY <1>0, <2>1, <3>1, AfterListEffect, OnChainType DEF FrameClosed, Closing
  <2> QED
    BY <1>1, <2>2, <2>3 DEF ListPositions
<1>2. CASE RaiseClosing(t)
  <2>1. "listing" \in Ops /\ "listing" \notin Closing
    BY DEF Ops, Listing, Closing
  <2> QED
    BY <1>2, <2>1, GoToEffect, NotClosing DEF RaiseClosing
<1>3. CASE TakeGuard(t)
  <2>1. CASE Finish(t, FALSE)
    BY <1>0, <2>1, FinishEffect, NotClosing
  <2>2. CASE GoTo(t, "closePass")
    <3>1. "closePass" \in Ops
      BY DEF Ops, Guarded
    <3> QED
      BY <1>0, <1>3, <2>2, <3>1, GoToEffect DEF TakeGuard, FrameClosed, Closing, At, chainVars
  <2> QED
    BY <1>3, <2>1, <2>2 DEF TakeGuard
<1>4. CASE ClosePosition(t)
  <2>1. PICK m \in call[t].todo : \E out \in CloseOutcomes(status[m]) : CloseOne(t, m, out)
    BY <1>4 DEF ClosePosition
  <2>2. PICK out \in CloseOutcomes(status[m]) : CloseOne(t, m, out)
    BY <2>1
  <2>3. /\ call'[t].op = IF Noted(t, out) THEN "lowering" ELSE call[t].op
        /\ call'[t].listed = call[t].listed
        /\ call'[t].pass = call[t].pass
        /\ call'[t].todo = call[t].todo \ {m}
        /\ call'[t].failed = IF Noted(t, out) THEN call[t].failed \cup {m} ELSE call[t].failed
    BY <1>0, <2>2 DEF CloseOne, WalletTypeOK, Frame
  <2>4. m \in Mints /\ call[t].op \in {"closePass", "sweeping"} /\ call[t].listed \subseteq Mints
    BY <2>2 DEF WalletTypeOK, Frame, CloseOne
  <2>5. CASE call[t].op = "sweeping"
    BY <2>3, <2>5, NotClosing DEF Closing, Noted, At
  <2>6. CASE call[t].op = "closePass" /\ call[t].pass = 1
    <3>1. ~Noted(t, out) => status'[m] = "gone"
      BY <2>2, <2>4, <2>6 DEF Noted, CloseOutcomes, CloseOne, WalletTypeOK, At
    <3> QED
      BY <1>0, <2>3, <2>4, <2>6, <3>1 DEF FrameClosed, Closing, GoneStays
  <2>7. CASE call[t].op = "closePass" /\ call[t].pass # 1
    BY <2>3, <2>7 DEF FrameClosed
  <2> QED
    BY <2>4, <2>5, <2>6, <2>7
<1>11. CASE LowerClosing(t)
  <2>1. "closePass" \in Ops
    BY DEF Ops, Guarded
  <2> QED
    BY <1>0, <1>11, <2>1, GoToEffect DEF LowerClosing, FrameClosed, Closing, At, chainVars
<1>5. CASE EndPass(t)
  <2>1. "recording" \in Ops /\ "relisting" \in Ops
    BY DEF Ops, Guarded
  <2>2. /\ call[t].op = "closePass" /\ call[t].todo = {}
        /\ GoTo(t, IF call[t].failed = {} \/ call[t].pass = 2 THEN "recording" ELSE "relisting")
        /\ status' = status
    BY <1>5 DEF EndPass, At, chainVars
  <2> QED
    BY <1>0, <2>1, <2>2, GoToEffect DEF FrameClosed, Closing
<1>6. CASE EndSweep(t)
  BY <1>0, <1>6, FinishEffect, NotClosing DEF EndSweep, Frame
<1>7. CASE RecordSession(t)
  <2>1. CASE Finish(t, FALSE)
    BY <1>0, <2>1, FinishEffect, NotClosing
  <2>2. CASE GoTo(t, "deleting")
    <3>1. "deleting" \in Ops
      BY DEF Ops, Guarded
    <3> QED
      BY <1>0, <1>7, <2>2, <3>1, GoToEffect DEF RecordSession, FrameClosed, Closing, At, chainVars
  <2> QED
    BY <1>7, <2>1, <2>2 DEF RecordSession
<1>8. CASE DeleteRow(t) \/ OpenPosition(t) \/ Swap(t) \/ ReadBalances(t) \/ InsertRow(t)
  BY <1>0, <1>8, FinishEffect, NotClosing
  DEF DeleteRow, OpenPosition, Swap, ReadBalances, InsertRow
<1>9. CASE TakeGuardToOpen(t)
  <2>1. "openTx" \in Ops /\ "openTx" \notin Closing
    BY DEF Ops, Guarded, Closing
  <2> QED
    BY <1>9, <2>1, GoToEffect, NotClosing DEF TakeGuardToOpen
<1>10. CASE ReadRow(t)
  <2>1. "inserting" \in Ops /\ "inserting" \notin Closing
    BY DEF Ops, Closing
  <2> QED
    BY <1>0, <1>10, <2>1, GoToEffect, FinishEffect, NotClosing DEF ReadRow
<1> QED
  BY <1>1, <1>2, <1>3, <1>4, <1>5, <1>6, <1>7, <1>8, <1>9, <1>10, <1>11 DEF Step

LEMMA NextClosed ==
  ASSUME WalletTypeOK, GuardOwnedExactly, ClosedInv, [WalletNext]_walletVars
  PROVE  ClosedInv'
<1>1. ASSUME NEW t \in Tasks, Step(t)
      PROVE  ClosedInv'
  BY <1>1, StepClosed
<1>2. ASSUME NEW t \in Tasks, NEW o \in Entries \cup {"idle"}, Begin(t, o)
      PROVE  ClosedInv'
  <2>1. OthersKept(t) /\ call'[t].op \notin Closing /\ status' = status
    BY <1>2, BeginEffect DEF Entries, Closing, chainVars
  <2> QED
    BY <2>1, NotClosing, ClosedTransfer DEF GoneStays
<1>3. ASSUME NEW m \in Mints, Settle(m)
      PROVE  ClosedInv'
  <2>1. GoneStays /\ call' = call
    BY <1>3 DEF Settle, GoneStays, WalletTypeOK
  <2>2. \A t \in Tasks : call[t].listed \subseteq Mints
    BY DEF WalletTypeOK, Frame
  <2> QED
    BY <2>1, <2>2 DEF ClosedInv, FrameClosed, GoneStays
<1>4. CASE Restart
  <2>1. \A t \in Tasks : call'[t].op \notin Closing
    BY <1>4 DEF Restart, Idle, Closing
  <2> QED
    BY <2>1, NotClosing DEF ClosedInv
<1>5. CASE UNCHANGED walletVars
  BY <1>5 DEF walletVars, ClosedInv, FrameClosed
<1> QED
  BY <1>1, <1>2, <1>3, <1>4, <1>5 DEF WalletNext, Drop

\* close_all_positions ends a session in its first pass only if every position
\* it listed is closed on chain.
THEOREM ClosedWhenRecorded == WalletSpec => []RecordedMeansClosed
<1>1. WalletInit => ClosedInv
  BY DEF WalletInit, ClosedInv, FrameClosed, Closing, Idle
<1>2. /\ WalletTypeOK /\ GuardOwnedExactly /\ ClosedInv
      /\ [WalletNext]_walletVars
      => ClosedInv'
  BY NextClosed
<1>3. ClosedInv => RecordedMeansClosed
  BY DEF ClosedInv, FrameClosed, RecordedMeansClosed, Closing
<1> QED
  BY <1>1, <1>2, <1>3, TypeCorrect, GuardCorrect, PTL DEF WalletSpec

-----------------------------------------------------------------------------
(***************************************************************************)
(* What a failed close costs: the second pass of close_all_positions.      *)
(***************************************************************************)

\* wirlpool.rs:544: the task that lists again after a failed close owns the
\* guard and keeps it, at the same place, for the life of the process.
KeptForLife ==
  [][\A t \in Tasks :
       At(t, "relisting") => restarts' > restarts \/ (At(t, "relisting")' /\ lock' = t)]_walletVars

\* wirlpool.rs:546-583: what follows the second listing is dead code.
RetryNeverRuns == \A t \in Tasks : call[t].pass = 1

\* The reporter heals a deployment only while `closing` is down.  Once up, only
\* a close that fails takes it down, or a restart: neither a successful
\* close_all_positions does, nor one that finds nothing to close.
ClosingFallsByFailure ==
  [][closing /\ ~closing' =>
       \/ restarts' > restarts
       \/ \E t \in Tasks : At(t, "lowering") /\ call[t].failed # {}]_walletVars

\* The switch after a failed close follows a failed close.
FailureNoted == \A t \in Tasks : At(t, "lowering") => call[t].failed # {}

\* No task steps out of the second listing, because it waits for itself; and
\* without that listing no step begins a second pass.
LEMMA StepInFirstPass ==
  ASSUME WalletTypeOK, GuardOwnedExactly, RetryNeverRuns, NEW t \in Tasks, Step(t)
  PROVE  call[t].op # "relisting" /\ call'[t].pass = 1
<1>1. call[t] \in Frame /\ call[t].pass = 1 /\ call[t].listed \in SUBSET Mints
  BY DEF WalletTypeOK, Frame, RetryNeverRuns
<1>2. ASSUME NEW succeeded, Finish(t, succeeded)
      PROVE  call'[t].pass = 1
  BY <1>2 DEF Finish, Idle, WalletTypeOK
<1>3. ASSUME NEW o \in Ops, GoTo(t, o)
      PROVE  call'[t].pass = 1
  BY <1>1, <1>3, GoToEffect
<1>4. {"listing", "closePass", "relisting", "recording", "deleting", "openTx",
       "inserting"} \subseteq Ops
  BY DEF Ops, Guarded, Listing
<1>5. CASE ListPositions(t)
  <2>1. call[t].op # "relisting"
    BY <1>5, WalletAssumption DEF ListPositions, GuardOwnedExactly, Guarded
  <2>2. AfterList(call[t], OnChain).pass = 1
    BY <1>1, <2>1, <1>5 DEF ListPositions, Listing, AfterList, ToClose, Idle, Frame
  <2>3. CASE call' = [call EXCEPT ![t] = AfterList(@, OnChain)]
    <3>1. call'[t] = AfterList(call[t], OnChain)
      BY <2>3 DEF WalletTypeOK
    <3> QED
      BY <2>1, <2>2, <3>1
  <2> QED
    BY <1>2, <1>5, <2>1, <2>3 DEF ListPositions
<1>6. CASE ClosePosition(t)
  <2>1. call'[t].pass = call[t].pass /\ call[t].op # "relisting"
    BY <1>1, <1>6 DEF ClosePosition, CloseOne, WalletTypeOK, Frame
  <2> QED
    BY <1>1, <2>1
<1>7. CASE RaiseClosing(t) \/ TakeGuard(t) \/ LowerClosing(t) \/ EndPass(t) \/ EndSweep(t)
  BY <1>2, <1>3, <1>4, <1>7 DEF RaiseClosing, TakeGuard, LowerClosing, EndPass, EndSweep, At
<1>8. CASE RecordSession(t) \/ DeleteRow(t) \/ TakeGuardToOpen(t) \/ OpenPosition(t)
  BY <1>2, <1>3, <1>4, <1>8 DEF RecordSession, DeleteRow, TakeGuardToOpen, OpenPosition, At
<1>9. CASE Swap(t) \/ ReadBalances(t) \/ ReadRow(t) \/ InsertRow(t)
  BY <1>2, <1>3, <1>4, <1>9 DEF Swap, ReadBalances, ReadRow, InsertRow, At
<1> QED
  BY <1>5, <1>6, <1>7, <1>8, <1>9 DEF Step

LEMMA NextInFirstPass ==
  ASSUME WalletTypeOK, GuardOwnedExactly, RetryNeverRuns, [WalletNext]_walletVars
  PROVE  RetryNeverRuns'
<1>1. ASSUME NEW t \in Tasks, Step(t)
      PROVE  RetryNeverRuns'
  BY <1>1, StepInFirstPass, StepOthersKept DEF RetryNeverRuns, OthersKept
<1>2. ASSUME NEW t \in Tasks, NEW o, Begin(t, o)
      PROVE  RetryNeverRuns'
  BY <1>2 DEF Begin, Idle, RetryNeverRuns, WalletTypeOK
<1>3. CASE Restart
  BY <1>3 DEF Restart, Idle, RetryNeverRuns
<1>4. CASE UNCHANGED call
  BY <1>4 DEF RetryNeverRuns
<1> QED
  BY <1>1, <1>2, <1>3, <1>4 DEF WalletNext, Drop, Settle, walletVars

\* A position that fails to close is never tried again.
THEOREM RetryIsDead == WalletSpec => []RetryNeverRuns
<1>1. WalletInit => RetryNeverRuns
  BY DEF WalletInit, RetryNeverRuns, Idle
<1>2. WalletTypeOK /\ GuardOwnedExactly /\ RetryNeverRuns /\ [WalletNext]_walletVars
        => RetryNeverRuns'
  BY NextInFirstPass
<1> QED
  BY <1>1, <1>2, TypeCorrect, GuardCorrect, PTL DEF WalletSpec

LEMMA StepKeeps ==
  ASSUME WalletTypeOK, GuardOwnedExactly, RetryNeverRuns, [WalletNext]_walletVars,
         NEW t \in Tasks, At(t, "relisting")
  PROVE  restarts' > restarts \/ (At(t, "relisting")' /\ lock' = t)
<1>1. lock = t /\ t # NoTask
  BY WalletAssumption DEF GuardOwnedExactly, At, Guarded
<1>2. ASSUME NEW u \in Tasks, Step(u)
      PROVE  At(t, "relisting")' /\ lock' = t
  <2>1. u # t /\ call'[t] = call[t]
    BY <1>2, StepInFirstPass, StepOthersKept DEF At, OthersKept
  <2>2. At(t, "relisting")'
    BY <2>1 DEF At
  <2>3. GuardOwnedExactly'
    BY <1>2, StepGuard
  <2> QED
    BY <2>2, <2>3 DEF GuardOwnedExactly, At, Guarded
<1>3. ASSUME NEW u \in Tasks, NEW o, Begin(u, o)
      PROVE  At(t, "relisting")' /\ lock' = t
  <2>1. u # t
    BY <1>3 DEF Begin, At
  <2> QED
    BY <1>1, <1>3, <2>1 DEF Begin, At, WalletTypeOK
<1>4. CASE Restart
  BY <1>4 DEF Restart, WalletTypeOK
<1>5. CASE UNCHANGED <<lock, call>>
  BY <1>1, <1>5 DEF At
<1> QED
  BY <1>2, <1>3, <1>4, <1>5 DEF WalletNext, Drop, Settle, walletVars

\* One failed close blocks the wallet until the process is restarted.
THEOREM FailedCloseBlocks == WalletSpec => KeptForLife
<1>1. /\ WalletTypeOK /\ GuardOwnedExactly /\ RetryNeverRuns /\ [WalletNext]_walletVars
      => [\A t \in Tasks :
            At(t, "relisting") => restarts' > restarts \/ (At(t, "relisting")' /\ lock' = t)]_walletVars
  BY StepKeeps
<1> QED
  BY <1>1, TypeCorrect, GuardCorrect, RetryIsDead, PTL DEF WalletSpec, KeptForLife

LEMMA StepNoted ==
  ASSUME WalletTypeOK, FailureNoted, NEW t \in Tasks, Step(t), At(t, "lowering")'
  PROVE  call'[t].failed # {}
<1>1. call[t] \in Frame
  BY DEF WalletTypeOK
<1>2. CASE ClosePosition(t)
  <2>1. PICK m \in call[t].todo : \E out : CloseOne(t, m, out)
    BY <1>2 DEF ClosePosition
  <2>2. PICK out : CloseOne(t, m, out)
    BY <2>1
  <2>3. Noted(t, out)
    BY <1>1, <2>2 DEF CloseOne, At, WalletTypeOK, Frame
  <2> QED
    BY <1>1, <2>2, <2>3 DEF CloseOne, WalletTypeOK, Frame
<1>3. ASSUME NEW o \in Ops \ {"lowering"}, GoTo(t, o)
      PROVE  FALSE
  BY <1>3, GoToEffect DEF At
<1>4. ASSUME NEW succeeded \in BOOLEAN, Finish(t, succeeded)
      PROVE  FALSE
  BY <1>4, FinishEffect DEF At
<1>5. {"listing", "closePass", "relisting", "recording", "deleting", "openTx",
       "inserting"} \subseteq Ops \ {"lowering"}
  BY DEF Ops, Guarded, Listing
<1>6. CASE ListPositions(t)
  <2>1. AfterList(call[t], OnChain).op # "lowering"
    BY <1>1, <1>6 DEF ListPositions, Listing, AfterList, ToClose, ToRetry, Idle, Frame
  <2>2. CASE call' = [call EXCEPT ![t] = AfterList(@, OnChain)]
    <3>1. call'[t] = AfterList(call[t], OnChain)
      BY <2>2 DEF WalletTypeOK
    <3> QED
      BY <2>1, <3>1 DEF At
  <2> QED
    BY <1>4, <1>6, <2>2 DEF ListPositions
<1>7. CASE RaiseClosing(t) \/ TakeGuard(t) \/ LowerClosing(t) \/ EndPass(t) \/ EndSweep(t)
  BY <1>3, <1>4, <1>5, <1>7 DEF RaiseClosing, TakeGuard, LowerClosing, EndPass, EndSweep
<1>8. CASE RecordSession(t) \/ DeleteRow(t) \/ TakeGuardToOpen(t) \/ OpenPosition(t)
  BY <1>3, <1>4, <1>5, <1>8 DEF RecordSession, DeleteRow, TakeGuardToOpen, OpenPosition
<1>9. CASE Swap(t) \/ ReadBalances(t) \/ ReadRow(t) \/ InsertRow(t)
  BY <1>3, <1>4, <1>5, <1>9 DEF Swap, ReadBalances, ReadRow, InsertRow
<1> QED
  BY <1>2, <1>6, <1>7, <1>8, <1>9 DEF Step

LEMMA NextNoted ==
  ASSUME WalletTypeOK, FailureNoted, [WalletNext]_walletVars
  PROVE  FailureNoted'
<1>1. ASSUME NEW t \in Tasks, Step(t)
      PROVE  FailureNoted'
  BY <1>1, StepNoted, StepOthersKept DEF FailureNoted, OthersKept, At
<1>2. ASSUME NEW t \in Tasks, NEW o \in Entries \cup {"idle"}, Begin(t, o)
      PROVE  FailureNoted'
  BY <1>2, BeginEffect DEF FailureNoted, OthersKept, At, Entries
<1>3. CASE Restart
  BY <1>3 DEF Restart, Idle, FailureNoted, At
<1>4. CASE UNCHANGED call
  BY <1>4 DEF FailureNoted, At
<1> QED
  BY <1>1, <1>2, <1>3, <1>4 DEF WalletNext, Drop, Settle, walletVars

LEMMA StepLowers ==
  ASSUME WalletTypeOK, RetryNeverRuns, FailureNoted, [WalletNext]_walletVars, closing, ~closing'
  PROVE  \/ restarts' > restarts
         \/ \E t \in Tasks : At(t, "lowering") /\ call[t].failed # {}
<1>1. ASSUME NEW t \in Tasks, LowerClosing(t)
      PROVE  At(t, "lowering") /\ call[t].failed # {}
  BY <1>1 DEF LowerClosing, FailureNoted
<1>2. ASSUME NEW t \in Tasks, DeleteRow(t)
      PROVE  FALSE
  BY <1>2 DEF DeleteRow, RetryNeverRuns
<1>3. CASE Restart
  BY <1>3 DEF Restart, WalletTypeOK
<1>4. ASSUME NEW t \in Tasks, Step(t)
      PROVE  LowerClosing(t)
  BY <1>2, <1>4 DEF Step, ListPositions, RaiseClosing, TakeGuard, ClosePosition, CloseOne,
     EndPass, EndSweep, RecordSession, TakeGuardToOpen, OpenPosition, Swap, ReadBalances,
     ReadRow, InsertRow, dbVars
<1> QED
  BY <1>1, <1>3, <1>4 DEF WalletNext, Drop, Begin, Settle, walletVars, dbVars

\* `closing` outlives every close that succeeds.
THEOREM ClosingOutlivesSuccess == WalletSpec => ClosingFallsByFailure
<1>1. WalletInit => FailureNoted
  BY DEF WalletInit, FailureNoted, At, Idle
<1>2. WalletTypeOK /\ FailureNoted /\ [WalletNext]_walletVars => FailureNoted'
  BY NextNoted
<1>3. /\ WalletTypeOK /\ RetryNeverRuns /\ FailureNoted /\ [WalletNext]_walletVars
      => [closing /\ ~closing' =>
            \/ restarts' > restarts
            \/ \E t \in Tasks : At(t, "lowering") /\ call[t].failed # {}]_walletVars
  BY StepLowers
<1> QED
  BY <1>1, <1>2, <1>3, TypeCorrect, RetryIsDead, PTL DEF WalletSpec, ClosingFallsByFailure

-----------------------------------------------------------------------------
(***************************************************************************)
(* The end of an operation.                                                *)
(***************************************************************************)

\* What an operation has ahead at each of its places.
Ahead ==
  [raising |-> 7, listing |-> 6, closeWait |-> 5, closePass |-> 4, lowering |-> 4, relisting |-> 3,
   recording |-> 2, deleting |-> 1, openWait |-> 2, openTx |-> 1, sweepListing |-> 2,
   sweeping |-> 1, measuring |-> 2, inserting |-> 1, querying |-> 1, swapping |-> 1,
   balancing |-> 1, idle |-> 0]

\* The operation passes a place for good, or has one position less to close, or
\* goes on with the pass after `closing` was lowered.
GetsOn(t) ==
  \/ Ahead[call'[t].op] < Ahead[call[t].op]
  \/ /\ Ahead[call'[t].op] = Ahead[call[t].op]
     /\ call'[t].todo \subseteq call[t].todo /\ call'[t].todo # call[t].todo
  \/ At(t, "lowering") /\ At(t, "closePass")' /\ call'[t].todo = call[t].todo

\* Every step that a task takes in an operation gets on with it, whatever the
\* chain, the tables and the other tasks do meanwhile: the guard is held for a
\* bounded number of steps of its holder.
CallsGetOn == [][\A t \in Tasks : Step(t) => GetsOn(t)]_walletVars

LEMMA Order ==
  /\ \A o \in Ops \ {"idle"} : Ahead["idle"] < Ahead[o]
  /\ Ahead["listing"] < Ahead["raising"] /\ Ahead["closePass"] < Ahead["closeWait"]
  /\ Ahead["recording"] < Ahead["closePass"] /\ Ahead["relisting"] < Ahead["closePass"]
  /\ Ahead["deleting"] < Ahead["recording"] /\ Ahead["openTx"] < Ahead["openWait"]
  /\ Ahead["inserting"] < Ahead["measuring"]
  /\ Ahead["lowering"] = Ahead["closePass"]
BY DEF Ahead, Ops, Entries, Listing, Guarded

LEMMA StepGetsOn ==
  ASSUME WalletTypeOK, GuardOwnedExactly, RetryNeverRuns, NEW t \in Tasks, Step(t)
  PROVE  GetsOn(t)
<1>1. call[t] \in Frame /\ call[t].listed \in SUBSET Mints
  BY DEF WalletTypeOK, Frame
<1>2. ASSUME NEW succeeded, Finish(t, succeeded), call[t].op # "idle"
      PROVE  GetsOn(t)
  <2>1. call'[t].op = "idle" /\ call[t].op \in Ops
    BY <1>1, <1>2 DEF Finish, Idle, WalletTypeOK, Frame
  <2> QED
    BY <1>2, <2>1, Order DEF GetsOn
<1>3. ASSUME NEW o \in Ops, GoTo(t, o), Ahead[o] < Ahead[call[t].op]
      PROVE  GetsOn(t)
  BY <1>1, <1>3, GoToEffect DEF GetsOn
<1>4. {"listing", "closePass", "relisting", "recording", "deleting", "openTx",
       "inserting"} \subseteq Ops
  BY DEF Ops, Guarded, Listing
<1>5. CASE ListPositions(t)
  <2>1. call[t].op \in {"listing", "querying", "sweepListing"}
    BY <1>5, StepInFirstPass DEF ListPositions, Listing
  <2>2. /\ call[t].op = "listing" => AfterList(call[t], OnChain).op \in {"idle", "closeWait"}
        /\ call[t].op = "querying" => AfterList(call[t], OnChain).op = "idle"
        /\ call[t].op = "sweepListing" => AfterList(call[t], OnChain).op = "sweeping"
    BY <1>1 DEF AfterList, ToClose, Idle, Frame
  <2>3. CASE call' = [call EXCEPT ![t] = AfterList(@, OnChain)]
    <3>1. call'[t] = AfterList(call[t], OnChain)
      BY <2>3 DEF WalletTypeOK
    <3> QED
      BY <2>1, <2>2, <3>1 DEF GetsOn, Ahead
  <2>4. CASE Finish(t, FALSE)
    BY <1>2, <2>1, <2>4
  <2> QED
    BY <1>5, <2>3, <2>4 DEF ListPositions
<1>6. CASE ClosePosition(t)
  <2>1. PICK m \in call[t].todo : \E out : CloseOne(t, m, out)
    BY <1>6 DEF ClosePosition
  <2>2. /\ call'[t].op = call[t].op \/ (call[t].op = "closePass" /\ call'[t].op = "lowering")
        /\ call'[t].todo = call[t].todo \ {m}
    BY <1>1, <2>1 DEF CloseOne, Noted, At, WalletTypeOK, Frame
  <2> QED
    BY <2>1, <2>2, Order DEF GetsOn
<1>12. CASE LowerClosing(t)
  BY <1>1, <1>4, <1>12, GoToEffect DEF LowerClosing, GetsOn, At
<1>7. CASE RaiseClosing(t) \/ TakeGuard(t)
  BY <1>2, <1>3, <1>4, <1>7, Order DEF RaiseClosing, TakeGuard, At
<1>8. CASE EndPass(t) \/ EndSweep(t)
  BY <1>2, <1>3, <1>4, <1>8, Order DEF EndPass, EndSweep, At
<1>9. CASE RecordSession(t) \/ DeleteRow(t)
  BY <1>2, <1>3, <1>4, <1>9, Order DEF RecordSession, DeleteRow, At
<1>10. CASE TakeGuardToOpen(t) \/ OpenPosition(t)
  BY <1>2, <1>3, <1>4, <1>10, Order DEF TakeGuardToOpen, OpenPosition, At
<1>11. CASE Swap(t) \/ ReadBalances(t) \/ ReadRow(t) \/ InsertRow(t)
  BY <1>2, <1>3, <1>4, <1>11, Order DEF Swap, ReadBalances, ReadRow, InsertRow, At
<1> QED
  BY <1>5, <1>6, <1>7, <1>8, <1>9, <1>10, <1>11, <1>12 DEF Step

\* No wallet operation goes in a circle.
THEOREM OperationsGetOn == WalletSpec => CallsGetOn
<1>1. /\ WalletTypeOK /\ GuardOwnedExactly /\ RetryNeverRuns /\ [WalletNext]_walletVars
      => [\A t \in Tasks : Step(t) => GetsOn(t)]_walletVars
  BY StepGetsOn
<1> QED
  BY <1>1, TypeCorrect, GuardCorrect, RetryIsDead, PTL DEF WalletSpec, CallsGetOn

=============================================================================
