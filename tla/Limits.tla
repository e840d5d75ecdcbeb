------------------------------ MODULE Limits ------------------------------
(***************************************************************************)
(* The risk limits of trader/limits.rs and the two tasks that share them:  *)
(* the consumer, which runs `check` before a buy and counts the buy after  *)
(* its broadcast, and the daily-loss poller of start_live_only, which      *)
(* turns the wallet's drop below a baseline into `sync_realized_loss`.     *)
(*                                                                         *)
(* The mutex around DailyState is taken once per definition below; between *)
(* two of them the other task, the clock and the wallet may move.  BNB and *)
(* USD are whole units at one to one.                                      *)
(***************************************************************************)
EXTENDS Integers

CONSTANTS
    DailyLoss,   \* daily_loss_usd
    MaxTrades,   \* max_trades_per_day
    Funds,       \* bound: the most the wallet ever holds
    LastDay,     \* bound: the last UTC day
    MaxRestarts  \* bound: restarts of the process

ASSUME ConstantsAssumption ==
    /\ DailyLoss \in Nat \ {0}
    /\ MaxTrades \in Nat
    /\ Funds \in Nat
    /\ LastDay \in Nat
    /\ MaxRestarts \in Nat

VARIABLES
    today,     \* the UTC day on the clock
    wallet,    \* the wallet's balance on chain
    daily,     \* LimitsRuntime.state: DailyState
    consumer,  \* where execute is with respect to the limits
    poller,    \* the kill-switch task
    fired,     \* history: trades recorded since the start, by the clock's day
    haltDay,   \* history: the clock's day when the halt was set
    restarts

limvars == <<today, wallet, daily, consumer, poller, fired, haltDay, restarts>>
Days == 0..LastDay

\* DailyState::default() for a day.  last_loss_unix_ms is assigned nowhere else.
FreshDay(d) == [day |-> d, loss |-> 0, trades |-> 0, last_loss |-> 0, halted |-> FALSE]

NoPoll == [pc |-> "boot", baseline |-> 0, day |-> 0, now |-> 0, loss |-> 0]

Init ==
    /\ today = 0
    /\ wallet \in 0..Funds
    /\ daily = FreshDay(0)
    /\ consumer = "idle"
    /\ poller = NoPoll
    /\ fired = [d \in Days |-> 0]
    /\ haltDay = 0
    /\ restarts = 0

---------------------------------------------------------------------------
(* LimitsRuntime, as the consumer uses it.                                 *)

\* maybe_reset_day, the first thing check does.
CheckReset ==
    /\ consumer = "idle"
    /\ consumer' = "gate"
    /\ daily' = IF daily.day # today THEN FreshDay(today) ELSE daily
    /\ UNCHANGED <<today, wallet, poller, fired, haltDay, restarts>>

\* cooldown_remaining: no cooldown until a loss has been stamped.
InCooldown == daily.last_loss # 0

\* Mutant: one trade too many.
UnderTradeCapLoose == daily.trades <= MaxTrades

UnderTradeCap == daily.trades < MaxTrades

\* The rest of check: the halt, the cooldown and the daily count; the gates that
\* depend on the trade alone may refuse as well.
CheckGate ==
    /\ consumer = "gate"
    /\ \/ consumer' = "idle"
       \/ /\ ~daily.halted
          /\ ~InCooldown
          /\ UnderTradeCap
          /\ consumer' = "sending"
    /\ UNCHANGED <<today, wallet, daily, poller, fired, haltDay, restarts>>

\* record_trade_fired, once the broadcast was accepted.
Fire ==
    /\ consumer = "sending"
    /\ consumer' = "idle"
    /\ daily' = [daily EXCEPT !.trades = @ + 1]
    /\ fired' = [fired EXCEPT ![today] = @ + 1]
    /\ UNCHANGED <<today, wallet, poller, haltDay, restarts>>

\* No route, sell tax, or a refused broadcast.
NotSent ==
    /\ consumer = "sending"
    /\ consumer' = "idle"
    /\ UNCHANGED <<today, wallet, daily, poller, fired, haltDay, restarts>>

---------------------------------------------------------------------------
(* The kill-switch poller.                                                 *)

\* The baseline is the balance after startup; without it the task ends and there
\* is no kill switch.
PollBoot ==
    /\ poller.pc = "boot"
    /\ poller' \in {[poller EXCEPT !.pc = "wait", !.baseline = wallet, !.day = today],
                    [poller EXCEPT !.pc = "dead"]}
    /\ UNCHANGED <<today, wallet, daily, consumer, fired, haltDay, restarts>>

\* A tick: the balance, or the baseline when it cannot be read.
PollRead ==
    /\ poller.pc = "wait"
    /\ poller' \in {[poller EXCEPT !.pc = "price", !.now = n] : n \in {wallet, poller.baseline}}
    /\ UNCHANGED <<today, wallet, daily, consumer, fired, haltDay, restarts>>

\* No BNB price: the tick is dropped.
PollNoPrice ==
    /\ poller.pc = "price"
    /\ poller' = [poller EXCEPT !.pc = "wait", !.now = 0]
    /\ UNCHANGED <<today, wallet, daily, consumer, fired, haltDay, restarts>>

Drop(from, to) == IF from > to THEN from - to ELSE 0

\* The first tick of a new day takes a new baseline and reports no loss.
PollDecide ==
    /\ poller.pc = "price"
    /\ poller' = IF today # poller.day
                 THEN [poller EXCEPT !.pc = "sync", !.baseline = poller.now, !.day = today,
                                     !.now = 0, !.loss = 0]
                 ELSE [poller EXCEPT !.pc = "sync", !.now = 0,
                                     !.loss = Drop(poller.baseline, poller.now)]
    /\ UNCHANGED <<today, wallet, daily, consumer, fired, haltDay, restarts>>

\* Mutants: the halt follows the loss down again; the halt needs more than the cap.
SyncedFollows(loss) == [daily EXCEPT !.loss = loss, !.halted = loss >= DailyLoss]
SyncedLoose(loss) == [daily EXCEPT !.loss = loss, !.halted = @ \/ loss > DailyLoss]

\* sync_realized_loss; an unchanged figure changes nothing.
Synced(loss) ==
    IF loss = daily.loss THEN daily
    ELSE [daily EXCEPT !.loss = loss, !.halted = @ \/ loss >= DailyLoss]

PollSync ==
    /\ poller.pc = "sync"
    /\ daily' = Synced(poller.loss)
    /\ haltDay' = IF daily'.halted /\ ~daily.halted THEN today ELSE haltDay
    /\ poller' = [poller EXCEPT !.pc = "wait", !.loss = 0]
    /\ UNCHANGED <<today, wallet, consumer, fired, restarts>>

---------------------------------------------------------------------------
Midnight ==
    /\ today < LastDay
    /\ today' = today + 1
    /\ UNCHANGED <<wallet, daily, consumer, poller, fired, haltDay, restarts>>

\* Buys, sells, gas, deposits.
WalletMoves ==
    /\ wallet' \in 0..Funds
    /\ UNCHANGED <<today, daily, consumer, poller, fired, haltDay, restarts>>

\* A restart begins with no loss, no trades, no halt and no baseline.
Restart ==
    /\ restarts < MaxRestarts
    /\ restarts' = restarts + 1
    /\ daily' = FreshDay(today)
    /\ consumer' = "idle"
    /\ poller' = NoPoll
    /\ fired' = [d \in Days |-> 0]
    /\ UNCHANGED <<today, wallet, haltDay>>

Next ==
    \/ CheckReset \/ CheckGate \/ Fire \/ NotSent
    \/ PollBoot \/ PollRead \/ PollNoPrice \/ PollDecide \/ PollSync
    \/ Midnight \/ WalletMoves \/ Restart

Spec == Init /\ [][Next]_limvars

\* The interval keeps ticking, and it is not so that in every tick from some point
\* on the balance or the price is unavailable.
Fairness ==
    /\ WF_limvars(PollBoot)
    /\ SF_limvars(PollRead /\ poller'.now = wallet)
    /\ SF_limvars(PollDecide /\ poller.now = wallet)
    /\ WF_limvars(PollDecide \/ PollNoPrice)
    /\ WF_limvars(PollSync)

FairSpec == Spec /\ Fairness

---------------------------------------------------------------------------
\* Types of the limits and of the tasks around them.
TypeOK ==
    /\ today \in Days
    /\ wallet \in Nat
    /\ daily \in [day: Days, loss: Nat, trades: Nat, last_loss: {0}, halted: BOOLEAN]
    /\ consumer \in {"idle", "gate", "sending"}
    /\ poller \in [pc: {"boot", "wait", "price", "sync", "dead"}, baseline: Nat, day: Days,
                   now: Nat, loss: Nat]
    /\ fired \in [Days -> Nat]
    /\ haltDay \in Days
    /\ restarts \in Nat

\* However checks, broadcasts and midnight interleave, a calendar day sees at most
\* one trade more than max_trades_per_day: the one whose check came before
\* midnight, which is counted on the day just ended.
TradesWithinCap == \A d \in Days : fired[d] <= MaxTrades + 1

\* Within one bucket of DailyState only a restart lifts a halt: not a recovering
\* wallet, a failed balance read or the poller's own midnight reset.
HaltSticks ==
    [][daily.halted /\ daily'.day = daily.day /\ restarts' = restarts => daily'.halted]_limvars

\* A drain that lasts is caught: if from some point on the wallet stays at least
\* daily_loss_usd below the poller's baseline, the limits end up halted for good.
DrainEventuallyHalts ==
    (<>[](/\ poller.pc \notin {"boot", "dead"}
          /\ poller.day = today
          /\ Drop(poller.baseline, wallet) >= DailyLoss)) => <>[]daily.halted

---------------------------------------------------------------------------
\* "Seed the day counter to TODAY so the first `sync_realized_loss` lives in the
\* right bucket (else maybe_reset_day would wipe it)" (LimitsRuntime::new): a halt
\* set today is not wiped today.
HaltLastsTheDay ==
    [][daily.halted /\ haltDay = today /\ today' = today /\ restarts' = restarts
       => daily'.halted]_limvars
===========================================================================
