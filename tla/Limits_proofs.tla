--------------------------- MODULE Limits_proofs ---------------------------
(***************************************************************************)
(* Proofs about Limits, for every cap, every number of days and restarts.  *)
(***************************************************************************)
EXTENDS Limits, TLAPS

\* What the limits record about the clock's own day: nothing is recorded for a day
\* to come; a bucket of today has counted every trade of today but the one whose
\* check came before midnight; a bucket of an earlier day can have at most that one
\* trade of today outside it, and the consumer is then past it.
Counted ==
    /\ daily.day <= today
    /\ \A d \in Days : d > today => fired[d] = 0
    /\ daily.day = today => fired[today] <= daily.trades + 1
    /\ daily.day < today => \/ fired[today] = 0
                            \/ fired[today] = 1 /\ consumer = "idle"

\* A trade that passed the gate has a free slot in the bucket it passed it in, and
\* no bucket holds more trades than the cap.
Capped ==
    /\ daily.trades <= MaxTrades
    /\ consumer = "sending" => daily.trades < MaxTrades

Inv == TypeOK /\ Counted /\ Capped /\ TradesWithinCap

\* The actions that leave the bucket, the consumer, the clock and the count alone.
Elsewhere == PollBoot \/ PollRead \/ PollNoPrice \/ PollDecide \/ WalletMoves

---------------------------------------------------------------------------
LEMMA DaysFacts ==
    /\ 0 \in Days
    /\ \A d \in Days : d \in Nat /\ d <= LastDay
    /\ \A d \in Nat : d < LastDay => d + 1 \in Days
BY ConstantsAssumption DEF Days

\* Every bucket a day starts with is well typed and empty.
LEMMA FreshDayFacts ==
    ASSUME NEW d \in Days
    PROVE  /\ FreshDay(d) \in [day: Days, loss: Nat, trades: Nat, last_loss: {0},
                               halted: BOOLEAN]
           /\ FreshDay(d).day = d
           /\ FreshDay(d).trades = 0
BY DEF FreshDay

LEMMA InitInv == Init => Inv
<1> SUFFICES ASSUME Init PROVE Inv
    OBVIOUS
<1>1. TypeOK
    BY DaysFacts, FreshDayFacts, ConstantsAssumption DEF Init, TypeOK, NoPoll
<1>2. daily.day = 0 /\ daily.trades = 0
    BY DaysFacts, FreshDayFacts DEF Init
<1>3. QED
    BY <1>1, <1>2, DaysFacts, ConstantsAssumption
    DEF Init, Inv, Counted, Capped, TradesWithinCap

---------------------------------------------------------------------------
(* Type correctness, one lemma for each task.                              *)

LEMMA ConsumerType ==
    ASSUME TypeOK, CheckReset \/ CheckGate \/ Fire \/ NotSent
    PROVE  TypeOK'
<1>1. CASE CheckReset
    BY <1>1, FreshDayFacts DEF TypeOK, CheckReset
<1>2. CASE CheckGate
    BY <1>2 DEF TypeOK, CheckGate
<1>3. CASE Fire
    BY <1>3 DEF TypeOK, Fire
<1>4. CASE NotSent
    BY <1>4 DEF TypeOK, NotSent
<1>5. QED
    BY <1>1, <1>2, <1>3, <1>4

LEMMA SyncedType ==
    ASSUME TypeOK, NEW loss \in Nat
    PROVE  /\ Synced(loss) \in [day: Days, loss: Nat, trades: Nat, last_loss: {0},
                                halted: BOOLEAN]
           /\ Synced(loss).day = daily.day
           /\ Synced(loss).trades = daily.trades
           /\ daily.halted => Synced(loss).halted
BY ConstantsAssumption DEF TypeOK, Synced

LEMMA PollerType ==
    ASSUME TypeOK, PollBoot \/ PollRead \/ PollNoPrice \/ PollDecide \/ PollSync
    PROVE  TypeOK'
<1>1. CASE PollBoot
    BY <1>1 DEF TypeOK, PollBoot
<1>2. CASE PollRead
    BY <1>2 DEF TypeOK, PollRead
<1>3. CASE PollNoPrice
    BY <1>3 DEF TypeOK, PollNoPrice
<1>4. CASE PollDecide
    <2>1. Drop(poller.baseline, poller.now) \in Nat
        BY DEF TypeOK, Drop
    <2>2. QED
        BY <1>4, <2>1 DEF TypeOK, PollDecide
<1>5. CASE PollSync
    BY <1>5, SyncedType DEF TypeOK, PollSync
<1>6. QED
    BY <1>1, <1>2, <1>3, <1>4, <1>5

LEMMA EnvironmentType ==
    ASSUME TypeOK, Midnight \/ WalletMoves \/ Restart
    PROVE  TypeOK'
<1>1. CASE Midnight
    BY <1>1, DaysFacts DEF TypeOK, Midnight
<1>2. CASE WalletMoves
    BY <1>2, ConstantsAssumption DEF TypeOK, WalletMoves
<1>3. CASE Restart
    BY <1>3, FreshDayFacts, DaysFacts DEF TypeOK, Restart, NoPoll
<1>4. QED
    BY <1>1, <1>2, <1>3

LEMMA NextType ==
    ASSUME TypeOK, [Next]_limvars
    PROVE  TypeOK'
<1>1. CASE Next
    BY <1>1, ConsumerType, PollerType, EnvironmentType DEF Next
<1>2. CASE UNCHANGED limvars
    BY <1>2 DEF TypeOK, limvars
<1>3. QED
    BY <1>1, <1>2

---------------------------------------------------------------------------
(* The counts, one lemma for each kind of step.                            *)

LEMMA ConsumerCounts ==
    ASSUME Inv, CheckReset \/ CheckGate \/ Fire \/ NotSent
    PROVE  (Counted /\ Capped /\ TradesWithinCap)'
<1> USE DaysFacts, ConstantsAssumption
<1>1. CASE CheckReset
    <2>1. CASE daily.day = today
        BY <1>1, <2>1 DEF Inv, TypeOK, Counted, Capped, TradesWithinCap, CheckReset
    <2>2. CASE daily.day # today
        <3>1. daily'.day = today /\ daily'.trades = 0
            BY <1>1, <2>2, FreshDayFacts DEF Inv, TypeOK, CheckReset
        <3>2. fired[today] <= 1
            BY <2>2 DEF Inv, TypeOK, Counted
        <3>3. QED
            BY <1>1, <3>1, <3>2 DEF Inv, TypeOK, Counted, Capped, TradesWithinCap, CheckReset
    <2>3. QED
        BY <2>1, <2>2
<1>2. CASE CheckGate
    BY <1>2 DEF Inv, TypeOK, Counted, Capped, TradesWithinCap, CheckGate, UnderTradeCap
<1>3. CASE Fire
    <2>1. /\ daily'.day = daily.day
          /\ daily'.trades = daily.trades + 1
          /\ today' = today
          /\ consumer' = "idle"
        BY <1>3 DEF Fire, Inv, TypeOK
    <2>2. /\ fired'[today] = fired[today] + 1
          /\ \A d \in Days : d # today => fired'[d] = fired[d]
        BY <1>3 DEF Fire, Inv, TypeOK
    <2>3. daily.trades < MaxTrades
        BY <1>3 DEF Fire, Inv, Capped
    <2>4. CASE daily.day = today
        BY <2>1, <2>2, <2>3, <2>4 DEF Inv, TypeOK, Counted, Capped, TradesWithinCap
    <2>5. CASE daily.day < today
        <3>1. fired[today] = 0
            BY <1>3, <2>5 DEF Fire, Inv, Counted
        <3>2. QED
            BY <2>1, <2>2, <2>3, <2>5, <3>1 DEF Inv, TypeOK, Counted, Capped, TradesWithinCap
    <2>6. QED
        BY <2>4, <2>5 DEF Inv, TypeOK, Counted
<1>4. CASE NotSent
    BY <1>4 DEF Inv, TypeOK, Counted, Capped, TradesWithinCap, NotSent
<1>5. QED
    BY <1>1, <1>2, <1>3, <1>4

LEMMA OtherCounts ==
    ASSUME Inv, Elsewhere \/ PollSync \/ Midnight \/ Restart
    PROVE  (Counted /\ Capped /\ TradesWithinCap)'
<1> USE DaysFacts, ConstantsAssumption
<1>1. CASE Elsewhere
    <2>1. UNCHANGED <<today, daily, consumer, fired>>
        BY <1>1 DEF Elsewhere, PollBoot, PollRead, PollNoPrice, PollDecide, WalletMoves
    <2>2. QED
        BY <2>1 DEF Inv, Counted, Capped, TradesWithinCap
<1>2. CASE PollSync
    <2>1. daily'.day = daily.day /\ daily'.trades = daily.trades
        BY <1>2, SyncedType DEF PollSync, Inv, TypeOK
    <2>2. UNCHANGED <<today, consumer, fired>>
        BY <1>2 DEF PollSync
    <2>3. QED
        BY <2>1, <2>2 DEF Inv, Counted, Capped, TradesWithinCap
<1>3. CASE Midnight
    BY <1>3 DEF Inv, TypeOK, Counted, Capped, TradesWithinCap, Midnight
<1>4. CASE Restart
    <2>1. daily'.day = today /\ daily'.trades = 0 /\ today' = today /\ consumer' = "idle"
        BY <1>4, FreshDayFacts DEF Restart, Inv, TypeOK
    <2>2. \A d \in Days : fired'[d] = 0
        BY <1>4 DEF Restart
    <2>3. QED
        BY <2>1, <2>2 DEF Inv, TypeOK, Counted, Capped, TradesWithinCap
<1>5. QED
    BY <1>1, <1>2, <1>3, <1>4

LEMMA NextInv == Inv /\ [Next]_limvars => Inv'
<1> SUFFICES ASSUME Inv, [Next]_limvars PROVE Inv'
    OBVIOUS
<1>1. TypeOK'
    BY NextType DEF Inv
<1>2. CASE Next
    BY <1>1, <1>2, ConsumerCounts, OtherCounts DEF Next, Inv, Elsewhere
<1>3. CASE UNCHANGED limvars
    BY <1>1, <1>3 DEF Inv, Counted, Capped, TradesWithinCap, limvars
<1>4. QED
    BY <1>2, <1>3

---------------------------------------------------------------------------
\* The limits, the consumer, the kill-switch poller and the clock keep their types.
THEOREM TypeCorrect == Spec => []TypeOK
<1>1. Inv => TypeOK
    BY DEF Inv
<1>2. QED
    BY <1>1, InitInv, NextInv, PTL DEF Spec

\* limits.rs, check and record_trade_fired: the trade cap holds of every calendar day
\* up to the one trade that was checked before midnight and sent after it.
THEOREM CapHolds == Spec => []TradesWithinCap
<1>1. Inv => TradesWithinCap
    BY DEF Inv
<1>2. QED
    BY <1>1, InitInv, NextInv, PTL DEF Spec

---------------------------------------------------------------------------
\* What lifts a halt: only a reset of the bucket to another day, or a restart.
LEMMA HaltLifted ==
    ASSUME TypeOK, [Next]_limvars, daily.halted, ~daily'.halted
    PROVE  \/ restarts' # restarts
           \/ CheckReset /\ daily.day # today /\ daily'.day = today
<1>1. CASE CheckReset
    BY <1>1, FreshDayFacts DEF CheckReset, TypeOK
<1>2. CASE Fire
    BY <1>2 DEF Fire, TypeOK
<1>3. CASE PollSync
    BY <1>3, SyncedType DEF PollSync, TypeOK
<1>4. CASE Restart
    BY <1>4 DEF Restart, TypeOK
<1>5. CASE CheckGate \/ NotSent \/ Midnight \/ Elsewhere \/ UNCHANGED limvars
    <2>1. daily' = daily
        BY <1>5 DEF CheckGate, NotSent, Midnight, Elsewhere, PollBoot, PollRead, PollNoPrice,
                    PollDecide, WalletMoves, limvars
    <2>2. QED
        BY <2>1
<1>6. QED
    BY <1>1, <1>2, <1>3, <1>4, <1>5 DEF Next, Elsewhere

\* limits.rs, sync_realized_loss and maybe_reset_day: a halt survives every step that
\* keeps the bucket's day, except a restart.
THEOREM HaltSurvives == Spec => HaltSticks
<1>1. TypeOK /\ [Next]_limvars
      => [daily.halted /\ daily'.day = daily.day /\ restarts' = restarts
          => daily'.halted]_limvars
    BY HaltLifted
<1>2. QED
    BY <1>1, TypeCorrect, PTL DEF Spec, HaltSticks

\* limits.rs, LimitsRuntime::new seeds the bucket with today: a halt in today's bucket
\* is there until midnight or a restart.  (HaltLastsTheDay, which the code does not
\* keep, lacks the hypothesis on the bucket.)
THEOREM HaltOfTodaysBucketLasts ==
    Spec => [][daily.halted /\ daily.day = today /\ restarts' = restarts
               => daily'.halted]_limvars
<1>1. TypeOK /\ [Next]_limvars
      => [daily.halted /\ daily.day = today /\ restarts' = restarts => daily'.halted]_limvars
    BY HaltLifted
<1>2. QED
    BY <1>1, TypeCorrect, PTL DEF Spec
===========================================================================
