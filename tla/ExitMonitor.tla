---------------------------- MODULE ExitMonitor ----------------------------
(***************************************************************************)
(* When the pool task redeploys: the exit prices that orchestrator_pool    *)
(* derives from the positions, its monitoring loop over the Pyth channel   *)
(* and the HTTP fallback, and check_bounds_and_maybe_close.                *)
(*                                                                         *)
(* Prices are levels of a grid.  `elapsed` is t0.elapsed() in ticks of     *)
(* time, and saturates at the longest wait.  Pyth's price and the price of *)
(* the pool are two prices.  The market, the Pyth stream and the RPC node  *)
(* are external.                                                           *)
(***************************************************************************)
EXTENDS Integers, FiniteSets

CONSTANTS
  MaxPrice,    \* prices are levels 1..MaxPrice (a bound)
  MinRestart,  \* min_restart, in ticks
  LowMargin    \* the factor 1.007 of lower_exit, in levels

ASSUME ExitMonitorAssumption ==
  MaxPrice \in Nat \ {0} /\ MinRestart \in Nat /\ LowMargin \in Nat

Prices == 1..MaxPrice
NoPrice == 0      \* None in the watch channel: the Pyth stream is dead
NotOut == -1      \* out_of_range_since is None

VARIABLES
  positions,  \* the three ranges of the deployment, by role
  exits,      \* upper_exit and lower_exit
  phase,      \* "select", "fetching" (HTTP branch), "closing", or "failed": the
              \* cycle ended with an error, and the next one sweeps and redeploys
  pyth,       \* the watch channel: its value, and whether it was read
  fetched,    \* the price of the HTTP branch
  since,      \* out_of_range_since, as the time elapsed, or NotOut
  wait,       \* wait_before_redeploy
  price,      \* the price of the pool
  adopted,    \* history: the positions were adopted, not opened
  outside,    \* history: time since a price inside was last seen (saturates)
  lowSeen     \* history: a price below the margin was seen out of range

vars == <<positions, exits, phase, pyth, fetched, since, wait, price,
          adopted, outside, lowSeen>>

Watched == phase \in {"select", "fetching"}

Least(a, b) == IF a < b THEN a ELSE b
Greatest(a, b) == IF a > b THEN a ELSE b
Later(time) == Least(time + 1, MinRestart)

-----------------------------------------------------------------------------

Range(low, high) == [lower |-> low, upper |-> high]

\* calc_bound_prices_struct: upper outer, upper inner, lower inner, lower outer.
\* Only without compression are the outer bounds taken from the inner ones.
Bounds(base, compress) ==
  {b \in [1..4 -> Prices] :
     /\ b[1] > base /\ b[2] > base /\ b[3] < base /\ b[4] < base
     /\ ~compress => b[1] > b[2] /\ b[4] < b[3]}

\* calc_range_allocation_struct: compressed, the outer ranges start at the price.
Layout(base, b, compress) ==
  [Up |-> Range(IF compress THEN base ELSE b[2], b[1]),
   Middle |-> Range(b[3], b[2]),
   Down |-> Range(b[4], IF compress THEN base ELSE b[3])]

Layouts == UNION {{Layout(base, b, z) : b \in Bounds(base, z)} : base \in Prices, z \in BOOLEAN}

\* Mutant: only the outer ranges are looked at.
OpenedExitsOuter(layout) == [upper |-> layout.Up.upper, lower |-> layout.Down.lower]

OpenedExits(layout) ==
  [upper |-> Greatest(layout.Up.upper, layout.Middle.upper),
   lower |-> Least(layout.Down.lower, layout.Middle.lower)]

\* The three ranges listed on chain, by descending lower price.
Orders(layout) ==
  {infos \in [1..3 -> {layout.Up, layout.Middle, layout.Down}] :
     /\ {infos[i] : i \in 1..3} = {layout.Up, layout.Middle, layout.Down}
     /\ infos[1].lower >= infos[2].lower /\ infos[2].lower >= infos[3].lower}

AdoptedExits(infos) ==
  [upper |-> Greatest(infos[1].upper, infos[2].upper),
   lower |-> IF infos[3].lower < infos[2].lower THEN infos[1].lower
                                                ELSE infos[2].lower]

TypeOK ==
  /\ phase \in {"select", "fetching", "closing", "failed"}
  /\ pyth \in [value: Prices \cup {NoPrice}, unread: BOOLEAN]
  /\ fetched \in Prices \cup {NoPrice}
  /\ since \in {NotOut} \cup 0..MinRestart
  /\ wait \in {0, MinRestart}
  /\ price \in Prices
  /\ outside \in 0..MinRestart
  /\ adopted \in BOOLEAN /\ lowSeen \in BOOLEAN
  /\ exits \in [upper: Prices, lower: Prices]

Monitoring(layout, bounds, old) ==
  /\ positions = layout
  /\ exits = bounds
  /\ adopted = old
  /\ phase = "select"
  /\ pyth = [value |-> NoPrice, unread |-> FALSE]
  /\ fetched = NoPrice
  /\ since = NotOut
  /\ wait = MinRestart
  /\ price \in Prices
  /\ outside = 0
  /\ lowSeen = FALSE

Init ==
  \E l \in Layouts :
    \/ Monitoring(l, OpenedExits(l), FALSE)
    \/ \E infos \in Orders(l) : Monitoring(l, AdoptedExits(infos), TRUE)

-----------------------------------------------------------------------------
(***************************************************************************)
(* The environment.                                                        *)
(***************************************************************************)

MarketMoves ==
  /\ Watched
  /\ price' \in Prices
  /\ UNCHANGED <<positions, exits, phase, pyth, fetched, since, wait,
                 adopted, outside, lowSeen>>

\* send_replace(Some(p)) or send_replace(None): only the latest value is kept.
PythSends ==
  /\ Watched
  /\ \E value \in Prices \cup {NoPrice} : pyth' = [value |-> value, unread |-> TRUE]
  /\ UNCHANGED <<positions, exits, phase, fetched, since, wait, price,
                 adopted, outside, lowSeen>>

Tick ==
  /\ Watched
  /\ outside' = Later(outside)
  /\ since' = IF since = NotOut THEN NotOut ELSE Later(since)
  /\ UNCHANGED <<positions, exits, phase, pyth, fetched, wait, price,
                 adopted, lowSeen>>

-----------------------------------------------------------------------------
(***************************************************************************)
(* check_bounds_and_maybe_close.                                           *)
(***************************************************************************)

OutOfRange(p) == p > exits.upper \/ p < exits.lower
Low(p) == OutOfRange(p) /\ p < exits.lower + LowMargin
\* Mutant: each low price shortens the wait further.
WaitAfterShorter(p) == IF Low(p) THEN wait - MinRestart ELSE wait

WaitAfter(p) == IF Low(p) THEN 0 ELSE wait

\* Mutant: the timer goes on when the price is back.
CheckInsideTiming(p) ==
  /\ ~OutOfRange(p)
  /\ outside' = 0
  /\ phase' = "select"
  /\ UNCHANGED <<since, wait, lowSeen>>

\* Back in range: the timer is stopped, but a shortened wait stays.
CheckInside(p) ==
  /\ ~OutOfRange(p)
  /\ since' = NotOut
  /\ outside' = 0
  /\ phase' = "select"
  /\ UNCHANGED <<wait, lowSeen>>

\* Mutant: a low price ends the wait but does not start the timer.
CheckFirstOutTimeless(p) ==
  /\ OutOfRange(p) /\ since = NotOut
  /\ wait' = WaitAfter(p)
  /\ since' = IF Low(p) THEN NotOut ELSE 0
  /\ phase' = "select"
  /\ lowSeen' = (lowSeen \/ Low(p))
  /\ UNCHANGED outside

\* The first time out of range only starts the timer.
CheckFirstOut(p) ==
  /\ OutOfRange(p) /\ since = NotOut
  /\ wait' = WaitAfter(p)
  /\ since' = 0
  /\ phase' = "select"
  /\ lowSeen' = (lowSeen \/ Low(p))
  /\ UNCHANGED outside

\* Mutant: every price out of range starts the timer again.
CheckStillOutRestarting(p) ==
  /\ OutOfRange(p) /\ since # NotOut
  /\ wait' = WaitAfter(p)
  /\ since' = 0
  /\ phase' = IF since >= WaitAfter(p) THEN "closing" ELSE "select"
  /\ lowSeen' = (lowSeen \/ Low(p))
  /\ UNCHANGED outside

CheckStillOut(p) ==
  /\ OutOfRange(p) /\ since # NotOut
  /\ wait' = WaitAfter(p)
  /\ phase' = IF since >= WaitAfter(p) THEN "closing" ELSE "select"
  /\ lowSeen' = (lowSeen \/ Low(p))
  /\ UNCHANGED <<since, outside>>

Check(p) ==
  /\ CheckInside(p) \/ CheckFirstOut(p) \/ CheckStillOut(p)
  /\ UNCHANGED <<positions, exits, price, adopted>>

-----------------------------------------------------------------------------
(***************************************************************************)
(* The select loop.                                                        *)
(***************************************************************************)

\* pyth_rx.changed(): None is skipped.
PythBranch ==
  /\ phase = "select" /\ pyth.unread
  /\ pyth' = [pyth EXCEPT !.unread = FALSE]
  /\ \/ /\ pyth.value = NoPrice
        /\ UNCHANGED <<positions, exits, phase, since, wait, price, adopted,
                       outside, lowSeen>>
     \/ pyth.value # NoPrice /\ Check(pyth.value)
  /\ UNCHANGED fetched

\* http_itv.tick(): the account is fetched, while the market goes on; an RPC
\* error waits for the next tick, which is no change at all.
HttpFetches ==
  /\ phase = "select"
  /\ fetched' = price
  /\ phase' = "fetching"
  /\ UNCHANGED <<positions, exits, pyth, since, wait, price, adopted, outside,
                 lowSeen>>

\* An account that cannot be decoded ends the cycle.
HttpBranch ==
  /\ phase = "fetching"
  /\ \/ Check(fetched)
     \/ /\ phase' = "failed"
        /\ UNCHANGED <<positions, exits, since, wait, price, adopted, outside,
                       lowSeen>>
  /\ fetched' = NoPrice
  /\ UNCHANGED pyth

Next ==
  \/ MarketMoves \/ PythSends \/ Tick
  \/ PythBranch \/ HttpFetches \/ HttpBranch

\* select! polls its branches in random order, the interval keeps ticking, the
\* RPC node answers again and again, and time passes.
Fairness ==
  /\ WF_vars(Tick)
  /\ SF_vars(HttpFetches)
  /\ WF_vars(HttpBranch)

Spec == Init /\ [][Next]_vars /\ Fairness

-----------------------------------------------------------------------------
(***************************************************************************)
(* Properties.                                                             *)
(***************************************************************************)

\* check_bounds_and_maybe_close closes a deployment that the price left upwards
\* only when every price seen for min_restart minutes, from either source, was
\* out of range: a price inside starts the wait anew.  Once a price was low,
\* the wait is over for good.
UpperExitIsWaitedOut ==
  phase = "closing" => lowSeen \/ outside = MinRestart

\* The prices of both sources are out of range; the Pyth stream may be dead.
AllOutOfRange == OutOfRange(price) /\ (pyth.value # NoPrice => OutOfRange(pyth.value))

\* Prices that leave the exits for good end in a redeployment, by this loop or
\* by the next cycle, even if the Pyth stream stays dead and whatever old price
\* of the pool is still being looked at.
LastingExitRedeploys == <>[]AllOutOfRange => <>~Watched

Promise == INSTANCE Redeployment
             WITH state <- IF Watched THEN "watched" ELSE phase,
                  out <- since # NotOut, outFor <- outside, hurried <- lowSeen

\* The whole loop, with its two price sources, stale prices and dead streams,
\* does what Redeployment promises, its liveness included.
KeepsPromise == Promise!Spec

\* orchestrator.rs:787, "если цена ушла ниже — немедленно выполняем redeploy": the
\* first low price is redeployed at once.  (Of a deployment that this process
\* opened: the lower exit of an adopted one may be wrong by itself.)
LowPriceRedeploysAtOnce ==
  [][~adopted /\ lowSeen' /\ ~lowSeen => phase' = "closing"]_vars

\* No position lies outside of the two exit prices that are watched.
ExitsSpanPositions ==
  \A role \in {"Up", "Middle", "Down"} :
    positions[role].upper <= exits.upper /\ exits.lower <= positions[role].lower

\* orchestrator.rs:366-367: the exits of the ranges just opened span all three,
\* also when compression makes an outer range end inside the middle one.
OpenedExitsSpanPositions == ~adopted => ExitsSpanPositions

\* orchestrator.rs:481-482: the lower exit of an adopted deployment is watched at
\* the lower bound of its lowest range.
AdoptedLowerExitIsLowest ==
  adopted => \A role \in {"Up", "Middle", "Down"} : exits.lower <= positions[role].lower

=============================================================================
