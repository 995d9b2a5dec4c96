-------------------------- MODULE ExitMonitorProofs -------------------------
(***************************************************************************)
(* The redeployment decision for every grid of prices and every wait.      *)
(* Two facts carry it: the timer never runs longer than the price has been *)
(* out of range (TimerHonest), and only a low price shortens the wait      *)
(* (WaitHonest).                                                           *)
(***************************************************************************)
EXTENDS ExitMonitor, TLAPS

Clock == Nat \cap 0..MinRestart

TimerTypes ==
  /\ since = NotOut \/ since \in Clock
  /\ outside \in Clock
  /\ wait \in {0, MinRestart}
  /\ phase \in {"select", "fetching", "closing", "failed"}
  /\ lowSeen \in BOOLEAN

TimerHonest == since # NotOut => since <= outside
WaitHonest == wait # MinRestart => lowSeen

WaitInv == TimerTypes /\ TimerHonest /\ WaitHonest /\ UpperExitIsWaitedOut

\* A tick keeps the clock within its bound and never turns it back.
LEMMA LaterInClock ==
  ASSUME NEW a \in Clock, NEW b \in Clock, a <= b
  PROVE  Later(a) \in Clock /\ Later(a) <= Later(b)
BY ExitMonitorAssumption DEF Later, Least, Clock

\* check_bounds_and_maybe_close, whatever price it is given.
LEMMA CheckKeeps ==
  ASSUME WaitInv, NEW p, Check(p), Watched
  PROVE  WaitInv'
<1> USE ExitMonitorAssumption DEF WaitInv, TimerTypes, TimerHonest, WaitHonest,
     UpperExitIsWaitedOut, NotOut, Clock, Watched
<1>1. CASE CheckInside(p)
  BY <1>1 DEF CheckInside
<1>2. CASE CheckFirstOut(p)
  <2>1. wait' \in {0, MinRestart} /\ (wait' # MinRestart => lowSeen')
    BY <1>2 DEF CheckFirstOut, WaitAfter
  <2>2. since' = 0 /\ outside' = outside /\ phase' = "select" /\ lowSeen' \in BOOLEAN
    BY <1>2 DEF CheckFirstOut
  <2> QED
    BY <2>1, <2>2
<1>3. CASE CheckStillOut(p)
  <2>1. WaitAfter(p) \in {0, MinRestart} /\ (WaitAfter(p) # MinRestart => lowSeen')
    BY <1>3 DEF CheckStillOut, WaitAfter
  <2>2. phase' = "closing" => since >= WaitAfter(p)
    BY <1>3 DEF CheckStillOut
  <2> QED
    BY <1>3, <2>1, <2>2 DEF CheckStillOut
<1> QED
  BY <1>1, <1>2, <1>3 DEF Check

LEMMA WaitInvInit == Init => WaitInv
<1>1. Init => /\ since = NotOut /\ outside = 0 /\ wait = MinRestart
              /\ phase = "select" /\ lowSeen = FALSE
  BY DEF Init, Monitoring
<1>2. 0 \in Clock /\ MinRestart \in Nat
  BY ExitMonitorAssumption DEF Clock
<1>3. Init => TimerTypes
  BY <1>1, <1>2 DEF TimerTypes
<1>4. Init => TimerHonest /\ WaitHonest /\ UpperExitIsWaitedOut
  BY <1>1 DEF TimerHonest, WaitHonest, UpperExitIsWaitedOut
<1> QED
  BY <1>3, <1>4 DEF WaitInv

LEMMA WaitInvStep == WaitInv /\ [Next]_vars => WaitInv'
<1> SUFFICES ASSUME WaitInv, [Next]_vars PROVE WaitInv'
  OBVIOUS
<1> USE DEF WaitInv, TimerTypes, TimerHonest, WaitHonest, UpperExitIsWaitedOut, Watched
<1>1. CASE MarketMoves \/ PythSends \/ UNCHANGED vars
  BY <1>1 DEF MarketMoves, PythSends, vars
<1>2. CASE Tick
  <2>1. outside' \in Clock
    BY <1>2, LaterInClock, ExitMonitorAssumption DEF Tick, Clock
  <2>2. since' = NotOut \/ (since' \in Clock /\ since' <= outside')
    <3>1. CASE since = NotOut
      <4>1. since' = NotOut
        BY ONLY <1>2, <3>1 DEF Tick
      <4> QED
        BY <4>1
    <3>2. CASE since # NotOut
      <4>1. since \in Clock /\ since <= outside
        BY <3>2
      <4>2. Later(since) \in Clock /\ Later(since) <= Later(outside)
        BY <4>1, LaterInClock
      <4> QED
        BY <1>2, <3>2, <4>2 DEF Tick
    <3> QED
      BY <3>1, <3>2
  <2>3. UNCHANGED <<wait, phase, lowSeen>> /\ Watched
    BY <1>2 DEF Tick
  <2> QED
    BY <2>1, <2>2, <2>3
<1>3. CASE PythBranch
  <2>1. ASSUME Check(pyth.value) PROVE WaitInv'
    BY <1>3, <2>1, CheckKeeps DEF PythBranch
  <2> QED
    BY <1>3, <2>1 DEF PythBranch
<1>4. CASE HttpFetches
  BY <1>4 DEF HttpFetches
<1>5. CASE HttpBranch
  <2>1. CASE Check(fetched)
    BY <1>5, <2>1, CheckKeeps DEF HttpBranch
  <2>2. CASE ~Check(fetched)
    BY <1>5, <2>2 DEF HttpBranch
  <2> QED
    BY <2>1, <2>2
<1> QED
  BY <1>1, <1>2, <1>3, <1>4, <1>5 DEF Next

THEOREM AlwaysWaitInv == Spec => []WaitInv
BY WaitInvInit, WaitInvStep, PTL DEF Spec

\* orchestrator.rs:769-834: a deployment that was never low is closed only
\* after the whole wait, for every value of min_restart.
THEOREM WaitedOut == Spec => []UpperExitIsWaitedOut
<1>1. WaitInv => UpperExitIsWaitedOut
  BY DEF WaitInv
<1> QED
  BY <1>1, AlwaysWaitInv, PTL

-----------------------------------------------------------------------------
(***************************************************************************)
(* Every step of the loop is a step of Redeployment, or none.              *)
(***************************************************************************)

\* A check is a look inside, a look outside or a redeployment.
LEMMA CheckLooks ==
  ASSUME WaitInv, NEW p, Check(p), Watched
  PROVE  Promise!Next
<1> USE DEF Watched
<1>1. CASE CheckInside(p)
  <2>1. Promise!LooksInside
    BY <1>1 DEF CheckInside, Promise!LooksInside
  <2> QED
    BY <2>1 DEF Promise!Next
<1>2. CASE CheckFirstOut(p)
  <2>1. lowSeen' \in {lowSeen, TRUE}
    BY <1>2 DEF CheckFirstOut, WaitInv, TimerTypes, Low, OutOfRange
  <2>2. since' = 0 /\ outside' = outside /\ phase' = "select"
    BY <1>2 DEF CheckFirstOut
  <2>3. since' # NotOut
    BY <2>2 DEF NotOut
  <2>4. Promise!LooksOutside
    BY <2>1, <2>2, <2>3 DEF Promise!LooksOutside, Promise!Hurries
  <2> QED
    BY <2>4 DEF Promise!Next
<1>3. CASE CheckStillOut(p)
  <2>1. since # NotOut /\ UNCHANGED <<since, outside>> /\ lowSeen' \in {lowSeen, TRUE}
    BY <1>3 DEF CheckStillOut, WaitInv, TimerTypes, Low, OutOfRange
  <2>2. CASE phase' = "closing"
    <3>1. since >= WaitAfter(p)
      BY <1>3, <2>2 DEF CheckStillOut
    <3>2. Low(p) => lowSeen'
      BY <1>3 DEF CheckStillOut
    <3>3. since \in Clock /\ outside \in Clock /\ since <= outside
      BY <2>1 DEF WaitInv, TimerTypes, TimerHonest
    <3>4. lowSeen' \/ outside = MinRestart
      <4>1. CASE WaitAfter(p) = MinRestart
        BY <3>1, <3>3, <4>1, ExitMonitorAssumption DEF Clock
      <4>2. CASE WaitAfter(p) # MinRestart
        BY <1>3, <4>2 DEF WaitAfter, WaitInv, WaitHonest, CheckStillOut
      <4> QED
        BY <4>1, <4>2
    <3>5. Promise!Redeploys
      BY <2>1, <2>2, <3>4 DEF Promise!Redeploys, Promise!Hurries
    <3> QED
      BY <3>5 DEF Promise!Next
  <2>3. CASE phase' # "closing"
    <3>1. phase' = "select"
      BY <1>3, <2>3 DEF CheckStillOut
    <3>2. Promise!LooksOutside
      BY <2>1, <3>1 DEF Promise!LooksOutside, Promise!Hurries
    <3> QED
      BY <3>2 DEF Promise!Next
  <2> QED
    BY <2>2, <2>3
<1> QED
  BY <1>1, <1>2, <1>3 DEF Check

\* The safety half of KeepsPromise, for every grid and every wait: no step of
\* the loop does what Redeployment does not.
THEOREM LoopKeepsPromise == Spec => Promise!Safety
<1>1. Init => Promise!Init
  BY DEF Init, Monitoring, Promise!Init, Watched
<1>2. WaitInv /\ [Next]_vars => [Promise!Next]_(Promise!vars)
  <2> SUFFICES ASSUME WaitInv, [Next]_vars PROVE Promise!Next \/ UNCHANGED Promise!vars
    OBVIOUS
  <2>1. CASE MarketMoves \/ PythSends \/ UNCHANGED vars
    BY <2>1 DEF MarketMoves, PythSends, vars, Promise!vars, Watched
  <2>2. CASE Tick
    <3>1. outside' = IF outside < MinRestart THEN outside + 1 ELSE MinRestart
      BY <2>2, ExitMonitorAssumption DEF Tick, Later, Least, WaitInv, TimerTypes, Clock
    <3>2. (since' # NotOut) = (since # NotOut)
      BY <2>2, ExitMonitorAssumption
      DEF Tick, Later, Least, NotOut, WaitInv, TimerTypes, Clock
    <3>3. Watched /\ phase' = phase /\ lowSeen' = lowSeen
      BY <2>2 DEF Tick
    <3>4. Promise!TimePasses
      BY <3>1, <3>2, <3>3 DEF Promise!TimePasses, Watched
    <3> QED
      BY <3>4 DEF Promise!Next
  <2>3. CASE PythBranch
    <3>1. Watched
      BY <2>3 DEF PythBranch, Watched
    <3>2. CASE Check(pyth.value)
      BY <3>1, <3>2, CheckLooks
    <3>3. CASE ~Check(pyth.value)
      BY <2>3, <3>3 DEF PythBranch, Promise!vars, Watched
    <3> QED
      BY <3>2, <3>3
  <2>4. CASE HttpFetches
    BY <2>4 DEF HttpFetches, Promise!vars, Watched
  <2>5. CASE HttpBranch
    <3>1. Watched
      BY <2>5 DEF HttpBranch, Watched
    <3>2. CASE Check(fetched)
      BY <3>1, <3>2, CheckLooks
    <3>3. CASE ~Check(fetched)
      <4>1. phase' = "failed" /\ UNCHANGED <<since, outside, lowSeen>>
        BY <2>5, <3>3 DEF HttpBranch
      <4>2. Promise!Fails
        BY <3>1, <4>1 DEF Promise!Fails, Watched
      <4> QED
        BY <4>2 DEF Promise!Next
    <3> QED
      BY <3>2, <3>3
  <2> QED
    BY <2>1, <2>2, <2>3, <2>4, <2>5 DEF Next
<1> QED
  BY <1>1, <1>2, AlwaysWaitInv, PTL DEF Spec, Promise!Safety

-----------------------------------------------------------------------------

\* The layouts of calc_range_allocation_struct, one bound at a time.
LEMMA LayoutBounds ==
  ASSUME NEW l \in Layouts
  PROVE  /\ \A role \in {"Up", "Middle", "Down"} :
              l[role].lower \in Int /\ l[role].upper \in Int
         /\ l.Down.upper <= l.Up.upper \/ l.Down.upper <= l.Middle.upper
         /\ l.Down.lower <= l.Up.lower \/ l.Middle.lower <= l.Up.lower
<1>0. PICK base \in Prices, compress \in BOOLEAN :
        l \in {Layout(base, b, compress) : b \in Bounds(base, compress)}
  BY DEF Layouts
<1>1. PICK b \in Bounds(base, compress) : l = Layout(base, b, compress)
  BY <1>0
<1>2. base \in Int /\ b[1] \in Int /\ b[2] \in Int /\ b[3] \in Int /\ b[4] \in Int
  BY DEF Prices, Bounds
<1> QED
  BY <1>1, <1>2 DEF Range, Layout, Bounds

\* orchestrator.rs:366-367: the exits derived from a layout span its ranges.
LEMMA ExitsSpan ==
  ASSUME NEW l \in Layouts
  PROVE  \A role \in {"Up", "Middle", "Down"} :
           l[role].upper <= OpenedExits(l).upper /\ OpenedExits(l).lower <= l[role].lower
BY LayoutBounds DEF OpenedExits, Greatest, Least

\* No position of a deployment opened by this process lies outside its exits.
THEOREM OpenedSpan == Spec => []OpenedExitsSpanPositions
<1>1. Init => OpenedExitsSpanPositions
  BY ExitsSpan DEF Init, Monitoring, OpenedExitsSpanPositions, ExitsSpanPositions
<1>2. OpenedExitsSpanPositions /\ [Next]_vars => OpenedExitsSpanPositions'
  <2> SUFFICES ASSUME [Next]_vars
               PROVE  UNCHANGED <<positions, exits, adopted>>
    BY DEF OpenedExitsSpanPositions, ExitsSpanPositions
  <2>1. CASE MarketMoves \/ PythSends \/ Tick \/ HttpFetches \/ UNCHANGED vars
    BY <2>1 DEF MarketMoves, PythSends, Tick, HttpFetches, vars
  <2>2. CASE PythBranch \/ HttpBranch
    BY <2>2 DEF PythBranch, HttpBranch, Check
  <2> QED
    BY <2>1, <2>2 DEF Next
<1> QED
  BY <1>1, <1>2, PTL DEF Spec

-----------------------------------------------------------------------------

Ranges == [lower: Prices, upper: Prices]

LEMMA LayoutInPrices ==
  ASSUME NEW l \in Layouts
  PROVE  l.Up \in Ranges /\ l.Middle \in Ranges /\ l.Down \in Ranges
<1>0. PICK base \in Prices, compress \in BOOLEAN :
        l \in {Layout(base, b, compress) : b \in Bounds(base, compress)}
  BY DEF Layouts
<1>1. PICK b \in Bounds(base, compress) : l = Layout(base, b, compress)
  BY <1>0
<1>2. b[1] \in Prices /\ b[2] \in Prices /\ b[3] \in Prices /\ b[4] \in Prices
  BY DEF Bounds
<1> QED
  BY <1>1, <1>2 DEF Range, Layout, Ranges

LEMMA ExitsInPrices ==
  ASSUME NEW l \in Layouts
  PROVE  /\ OpenedExits(l) \in [upper: Prices, lower: Prices]
         /\ \A infos \in Orders(l) : AdoptedExits(infos) \in [upper: Prices, lower: Prices]
<1>1. l.Up \in Ranges /\ l.Middle \in Ranges /\ l.Down \in Ranges
  BY LayoutInPrices
<1>2. OpenedExits(l) \in [upper: Prices, lower: Prices]
  BY <1>1 DEF OpenedExits, Greatest, Least, Ranges
<1>3. ASSUME NEW infos \in Orders(l)
      PROVE  AdoptedExits(infos) \in [upper: Prices, lower: Prices]
  <2>1. infos[1] \in Ranges /\ infos[2] \in Ranges /\ infos[3] \in Ranges
    BY <1>1 DEF Orders
  <2> QED
    BY <2>1 DEF AdoptedExits, Greatest, Ranges
<1> QED
  BY <1>2, <1>3

\* No check leaves the types.
LEMMA CheckTypes ==
  ASSUME TypeOK, NEW p, Check(p)
  PROVE  /\ phase' \in {"select", "closing"}
         /\ since' \in {NotOut} \cup 0..MinRestart
         /\ wait' \in {0, MinRestart} /\ outside' \in 0..MinRestart
         /\ lowSeen' \in BOOLEAN
         /\ UNCHANGED <<positions, exits, price, adopted>>
<1>1. WaitAfter(p) \in {0, MinRestart} /\ 0 \in 0..MinRestart
  BY ExitMonitorAssumption DEF WaitAfter, TypeOK
<1>2. Low(p) \in BOOLEAN
  BY DEF Low, OutOfRange
<1>3. CASE CheckInside(p)
  BY <1>1, <1>3 DEF CheckInside, Check, TypeOK
<1>4. CASE CheckFirstOut(p)
  BY <1>1, <1>2, <1>4 DEF CheckFirstOut, Check, TypeOK
<1>5. CASE CheckStillOut(p)
  BY <1>1, <1>2, <1>5 DEF CheckStillOut, Check, TypeOK
<1> QED
  BY <1>3, <1>4, <1>5 DEF Check

\* The state keeps its types for every grid of prices: both ways to derive the
\* exits give prices of the grid, and no check runs the timer past the wait.
THEOREM Types == Spec => []TypeOK
<1>1. Init => TypeOK
  <2> SUFFICES ASSUME Init PROVE TypeOK
    OBVIOUS
  <2>1. PICK l \in Layouts :
          \/ Monitoring(l, OpenedExits(l), FALSE)
          \/ \E infos \in Orders(l) : Monitoring(l, AdoptedExits(infos), TRUE)
    BY DEF Init
  <2>2. /\ phase = "select" /\ wait = MinRestart /\ since = NotOut /\ outside = 0
        /\ pyth = [value |-> NoPrice, unread |-> FALSE] /\ fetched = NoPrice
        /\ price \in Prices /\ lowSeen = FALSE /\ adopted \in BOOLEAN
    BY <2>1 DEF Monitoring
  <2>3. exits \in [upper: Prices, lower: Prices]
    BY <2>1, ExitsInPrices DEF Monitoring
  <2>4. 0 \in 0..MinRestart
    BY ExitMonitorAssumption
  <2> QED
    BY <2>2, <2>3, <2>4 DEF TypeOK
<1>2. TypeOK /\ [Next]_vars => TypeOK'
  <2> SUFFICES ASSUME TypeOK, [Next]_vars PROVE TypeOK'
    OBVIOUS
  <2>1. CASE MarketMoves
    BY <2>1 DEF MarketMoves, TypeOK
  <2>2. CASE PythSends
    BY <2>2 DEF PythSends, TypeOK
  <2>3. CASE Tick
    <3>1. outside' \in 0..MinRestart
      BY <2>3, ExitMonitorAssumption DEF Tick, Later, Least, TypeOK
    <3>2. since' \in {NotOut} \cup 0..MinRestart
      BY <2>3, ExitMonitorAssumption DEF Tick, Later, Least, TypeOK, NotOut
    <3> QED
      BY <2>3, <3>1, <3>2 DEF Tick, TypeOK
  <2>4. CASE PythBranch
    <3>1. pyth' \in [value: Prices \cup {NoPrice}, unread: BOOLEAN] /\ fetched' = fetched
      BY <2>4 DEF PythBranch, TypeOK
    <3>2. CASE Check(pyth.value)
      <4>1. phase' \in {"select", "fetching", "closing", "failed"}
        BY <3>2, CheckTypes
      <4> QED
        BY <3>1, <3>2, <4>1, CheckTypes DEF TypeOK
    <3>3. CASE ~Check(pyth.value)
      BY <2>4, <3>1, <3>3 DEF PythBranch, TypeOK
    <3> QED
      BY <3>2, <3>3
  <2>5. CASE HttpFetches
    BY <2>5 DEF HttpFetches, TypeOK
  <2>6. CASE HttpBranch
    <3>1. CASE Check(fetched)
      BY <2>6, <3>1, CheckTypes DEF HttpBranch, TypeOK
    <3>2. CASE ~Check(fetched)
      BY <2>6, <3>2 DEF HttpBranch, TypeOK
    <3> QED
      BY <3>1, <3>2
  <2>7. CASE UNCHANGED vars
    BY <2>7 DEF vars, TypeOK
  <2> QED
    BY <2>1, <2>2, <2>3, <2>4, <2>5, <2>6, <2>7 DEF Next
<1> QED
  BY <1>1, <1>2, PTL DEF Spec

=============================================================================
