--------------------------- MODULE AdaptiveTrail --------------------------
(***************************************************************************)
(* The adaptive trail (trader/adaptive_trail.rs): the per-token exit state *)
(* machine `step`, and the watcher that feeds it one price per new head    *)
(* and calls execute_exit when it says so.                                 *)
(*                                                                         *)
(* Every map the watcher uses is keyed by token and on_block waits for its *)
(* per-token tasks, so the module follows one token.  The live executor is *)
(* seen through position_snapshot (is there a ready entry?) and            *)
(* execute_exit (did the cached amount go to zero?).  Prices are natural   *)
(* numbers, thresholds are percentages, and comparisons are scaled by 100. *)
(***************************************************************************)
EXTENDS Integers, Sequences

CONSTANTS
    Prices,      \* prices that may be observed or paid
    ArmPct, TrailPct, HardSlPct, BeAtPct, BeLockPct,  \* TrailConfig, in percent
    HistLen,     \* PRICE_HISTORY_LEN
    MaxHold,     \* max_hold_blocks
    MaxBlock,    \* bound: block numbers saturate here
    MaxBuys      \* bound: positions opened

ASSUME PricesAssumption == Prices \subseteq Nat \ {0}
ASSUME PctAssumption ==
    /\ ArmPct \in Nat /\ TrailPct \in 0..100 /\ HardSlPct \in 0..100
    /\ BeAtPct \in Nat /\ BeLockPct \in Nat
ASSUME BoundAssumption ==
    /\ HistLen \in Nat \ {0} /\ MaxHold \in Nat /\ MaxBlock \in Nat /\ MaxBuys \in Nat

VARIABLES
    head,    \* number of the newest block
    seen,    \* number of the last head the watcher took from its stream
    buy,     \* the ready position of the token, or NoBuy
    state,   \* watcher.states: the token's TrailState, or NoState
    task,    \* process_one_position for the token
    top,     \* history: highest price met since the position was opened
    failed,  \* history: an exit of this position left it open
    recent,  \* history: the last prices stepped since the state was created
    buys     \* counter for the bound

watchvars == <<seen, state, task>>
histvars == <<top, failed, recent>>
trvars == <<head, buy, buys, watchvars, histvars>>

NoBuy == [price |-> 0, block |-> 0]
Slots == 0..(HistLen - 1)
Reasons == {"hard_sl", "be_locked", "signal_dump", "signal_vote", "trail", "timeout"}
NotYet == "none"

\* init_state_from_ledger, once the buy's row and receipt are found.
Fresh(price, block) ==
    [entry |-> price, peak |-> price, last |-> price, armed |-> FALSE,
     opened |-> block, observed |-> block, hist |-> [i \in Slots |-> 0],
     count |-> 0, idx |-> 0, ratcheted |-> FALSE]

\* TrailState::default(); stands for a token that has no state in the map.
NoState == Fresh(0, 0)

Idle == [pc |-> "idle", n |-> 0, why |-> NotYet, at |-> NoState]

Init ==
    /\ head = 0
    /\ seen = 0
    /\ buy = NoBuy
    /\ state = NoState
    /\ task = Idle
    /\ top = 0
    /\ failed = FALSE
    /\ recent = <<>>
    /\ buys = 0

---------------------------------------------------------------------------
(* step().                                                                 *)

Larger(a, b) == IF a >= b THEN a ELSE b

\* peak >= entry * (1 + pct)
Reached(peak, entry, pct) == 100 * peak >= entry * (100 + pct)

\* Mutant: the peak follows the price down.
PeakFollows(s, p) == p

PeakAfter(s, p) == Larger(s.peak, p)

\* Mutants: the write index runs off the ring; the write index never moves.
NextSlotNoWrap(i) == i + 1
NextSlotStuck(i) == i

NextSlot(i) == (i + 1) % HistLen

\* The state after an observation: peak, ring buffer, arming, ratchet.
Stepped(s, p, n) ==
    LET peak == PeakAfter(s, p)
    IN  [s EXCEPT !.peak = peak, !.last = p, !.observed = n,
                  !.hist = [s.hist EXCEPT ![s.idx] = p],
                  !.idx = NextSlot(s.idx),
                  !.count = IF s.count < HistLen THEN s.count + 1 ELSE s.count,
                  !.armed = s.armed \/ Reached(peak, s.entry, ArmPct),
                  !.ratcheted = s.ratcheted \/ Reached(peak, s.entry, BeAtPct)]

HardFloor(s) == s.entry * (100 - HardSlPct)
LockFloor(s) == s.entry * (100 + BeLockPct)
TrailFloor(s) == s.peak * (100 - TrailPct)

\* Mutant: the floor stays at the hard stop after the ratchet.
EffectiveFloorHard(s) == HardFloor(s)

EffectiveFloor(s) == IF s.ratcheted THEN Larger(HardFloor(s), LockFloor(s)) ELSE HardFloor(s)

\* dist_from_local_max > 0.30: some price of the ring is that much higher.
FarBelowMax(s, p) == \E i \in Slots : 100 * p < 70 * s.hist[i]

\* vel_10 < -0.01, against the slot that is overwritten next.
Falling(s, p) == 100 * (p - s.hist[s.idx]) < - HistLen * s.hist[s.idx]

Warm(s) == s.armed /\ s.count >= HistLen

\* current_block.saturating_sub(opened_block)
Age(s, n) == IF n >= s.opened THEN n - s.opened ELSE 0

\* Mutant: a floor hit is always reported as the hard stop.
FloorReasonHard(s) == "hard_sl"

FloorReason(s) == IF s.ratcheted /\ LockFloor(s) > HardFloor(s) THEN "be_locked" ELSE "hard_sl"

\* Why step() exits, given the updated state; the first rule that holds wins.
Reason(s, p, n) ==
    IF 100 * p <= EffectiveFloor(s) THEN FloorReason(s)
    ELSE IF Warm(s) /\ FarBelowMax(s, p) /\ Falling(s, p) THEN "signal_dump"
    ELSE IF s.armed /\ 100 * p <= TrailFloor(s) THEN "trail"
    ELSE IF Age(s, n) >= MaxHold THEN "timeout"
    ELSE NotYet

\* compute_vote_signals: the two price signals, on the ring before the new price,
\* plus `flow` of the two flow signals of the stats cache (0 when it has none).
Votes(s, p, flow) ==
    (IF FarBelowMax(s, p) THEN 1 ELSE 0) + (IF Falling(s, p) THEN 1 ELSE 0) + flow

VoteExit(s, p, flow) == Warm(s) /\ Votes(s, p, flow) >= 3

---------------------------------------------------------------------------
(* The chain and the executor, as the watcher sees them.                   *)

NewHead ==
    /\ head < MaxBlock
    /\ head' = head + 1
    /\ UNCHANGED <<buy, buys, watchvars, histvars>>

\* A buy is mined and finalised.  The duplicate-entry guard admits it only when
\* no entry is held; enough blocks are left for it to time out.
Open ==
    /\ buy = NoBuy
    /\ buys < MaxBuys
    /\ head + MaxHold <= MaxBlock
    /\ \E e \in Prices : buy' = [price |-> e, block |-> head] /\ top' = e
    /\ buys' = buys + 1
    /\ failed' = FALSE
    /\ UNCHANGED <<head, watchvars, recent>>

---------------------------------------------------------------------------
(* The watcher.                                                            *)

\* A head, possibly buffered since, reaches on_block; without a ready position
\* there is nothing to do.
Tick ==
    /\ task.pc = "idle"
    /\ \E n \in 0..head :
        /\ n > seen \/ n = MaxBlock
        /\ seen' = n
        /\ task' = IF buy = NoBuy THEN task
                   ELSE [Idle EXCEPT !.pc = IF state = NoState THEN "init" ELSE "price",
                                     !.n = n]
    /\ UNCHANGED <<head, buy, buys, state, histvars>>

\* The ledger, the node or the receipt does not answer: try at the next head.
InitFails ==
    /\ task.pc = "init"
    /\ task' = Idle
    /\ UNCHANGED <<head, buy, buys, seen, state, histvars>>

InitOk ==
    /\ task.pc = "init"
    /\ state' = Fresh(buy.price, buy.block)
    /\ recent' = <<>>
    /\ task' = [task EXCEPT !.pc = "price"]
    /\ UNCHANGED <<head, buy, buys, seen, top, failed>>

Exiting(why, s) == task' = [task EXCEPT !.pc = "exit", !.why = why, !.at = s]

\* Mutant: without a price not even the timeout is checked.
NoPriceSkips ==
    /\ task.pc = "price"
    /\ task' = Idle
    /\ UNCHANGED <<head, buy, buys, seen, state, histvars>>

\* No price to be had: only the timeout is checked.
NoPrice ==
    /\ task.pc = "price"
    /\ IF Age(state, task.n) >= MaxHold THEN Exiting("timeout", state) ELSE task' = Idle
    /\ UNCHANGED <<head, buy, buys, seen, state, histvars>>

\* The window of the last HistLen prices.
Pushed(w, p) == Append(IF Len(w) < HistLen THEN w ELSE Tail(w), p)

\* A price arrives: the vote first, then step().  The map is written only when
\* the position is kept.
Observe ==
    /\ task.pc = "price"
    /\ \E p \in Prices, flow \in 0..2 :
        LET s == Stepped(state, p, task.n)
            why == Reason(s, p, task.n)
        IN  /\ top' = Larger(top, p)
            /\ IF VoteExit(state, p, flow)
               THEN /\ Exiting("signal_vote", [state EXCEPT !.last = p])
                    /\ UNCHANGED <<state, recent>>
               ELSE IF why # NotYet
               THEN /\ Exiting(why, s)
                    /\ UNCHANGED <<state, recent>>
               ELSE /\ state' = s
                    /\ recent' = Pushed(recent, p)
                    /\ task' = Idle
    /\ UNCHANGED <<head, buy, buys, seen, failed>>

\* Mutant: fire_exit does not drop the state.
ForgetNothing == state' = state

\* fire_exit drops the token's state whatever execute_exit returned.
Forget == state' = NoState

\* Mutant: after the sale the exit is called once more.
ExitSoldAgain ==
    /\ task.pc = "exit"
    /\ buy' = NoBuy
    /\ Forget
    /\ UNCHANGED <<head, buys, seen, histvars, task>>

\* execute_exit sold: the entry now counts as fully exited.
ExitSold ==
    /\ task.pc = "exit"
    /\ buy' = NoBuy
    /\ Forget
    /\ task' = Idle
    /\ UNCHANGED <<head, buys, seen, histvars>>

\* execute_exit failed: the position stays open.
ExitFails ==
    /\ task.pc = "exit"
    /\ failed' = TRUE
    /\ Forget
    /\ task' = Idle
    /\ UNCHANGED <<head, buy, buys, seen, top, recent>>

Next ==
    \/ NewHead \/ Open
    \/ Tick \/ InitFails \/ InitOk \/ NoPrice \/ Observe
    \/ ExitSold \/ ExitFails

Spec == Init /\ [][Next]_trvars

\* Heads keep coming (the watcher reconnects for ever), tasks run on, and the
\* node does not fail every receipt lookup for ever.
Fairness ==
    /\ WF_trvars(NewHead)
    /\ WF_trvars(Tick)
    /\ SF_trvars(InitOk)
    /\ WF_trvars(InitFails \/ InitOk)
    /\ WF_trvars(NoPrice \/ Observe)
    /\ WF_trvars(ExitSold \/ ExitFails)

FairSpec == Spec /\ Fairness

---------------------------------------------------------------------------
TrailStates ==
    [entry: Nat, peak: Nat, last: Nat, armed: BOOLEAN, opened: Nat, observed: Nat,
     hist: [Slots -> Nat], count: 0..HistLen, idx: Slots, ratcheted: BOOLEAN]

\* Types of the watcher's state.
TypeOK ==
    /\ head \in Nat /\ seen \in Nat
    /\ buy \in [price: Nat, block: Nat]
    /\ state \in TrailStates
    /\ task \in [pc: {"idle", "init", "price", "exit"}, n: Nat,
                 why: Reasons \cup {NotYet}, at: TrailStates]
    /\ top \in Nat
    /\ failed \in BOOLEAN
    /\ buys \in Nat

\* The state in the map is that of the position now held: a position never
\* inherits the peak, the arming or the age of an earlier one of the same token,
\* and nothing is left in the map once the position is gone.
TracksThisBuy ==
    /\ state # NoState => state.entry = buy.price /\ state.opened = buy.block
    /\ buy = NoBuy => state = NoState /\ task.pc = "idle"

\* As long as no exit has failed, what the watcher keeps it may keep: the peak is
\* the highest price met since the position was opened, and at the last
\* observation the price was above the hard stop, above the locked gain once
\* that peak had reached breakeven_at, and within trail_pct of that peak once it
\* had reached arm_pct.
GainsProtected ==
    state # NoState /\ state.count > 0 /\ ~failed /\ task.pc # "exit" =>
        /\ state.peak = top
        /\ 100 * state.last > HardFloor(state)
        /\ Reached(top, buy.price, BeAtPct) => 100 * state.last > LockFloor(state)
        /\ Reached(top, buy.price, ArmPct) => 100 * state.last > top * (100 - TrailPct)

\* The reason an exit is called with (it becomes the TRAIL_ tag of the sale) holds
\* of this position's whole history, from its opening, not only of the state the
\* watcher happens to have: a hard stop lost hard_sl_pct of what was paid; a locked
\* exit or one of an armed trail is of a position whose price did reach the
\* threshold since it was opened, also before an exit that failed; a trail exit
\* gave back trail_pct of the true peak; a timeout comes max_hold_blocks after the
\* buy, never by the age of an earlier position.
ExitReasonsHold ==
    task.pc = "exit" =>
        /\ task.why = "hard_sl" => 100 * task.at.last <= buy.price * (100 - HardSlPct)
        /\ task.why = "be_locked" =>
              /\ Reached(top, buy.price, BeAtPct)
              /\ 100 * task.at.last <= buy.price * (100 + BeLockPct)
        /\ task.why \in {"signal_vote", "signal_dump", "trail"} =>
              Reached(top, buy.price, ArmPct)
        /\ task.why = "trail" => 100 * task.at.last <= top * (100 - TrailPct)
        /\ task.why = "timeout" => head >= buy.block + MaxHold

\* The ring buffer holds the last prices: counting back from the write index gives
\* the observations in reverse order, the slot written next being the oldest.
RingIsWindow ==
    state # NoState =>
        /\ state.count = Len(recent)
        /\ \A i \in 1..Len(recent) :
               state.hist[(state.idx + HistLen - i) % HistLen] = recent[Len(recent) + 1 - i]

Contract == INSTANCE ReadyPosition WITH
    Ids <- 0..MaxBuys, NoId <- 0,
    view <- IF buy = NoBuy THEN 0 ELSE buys,
    exiting <- task.pc = "exit",
    future <- (buys + 1)..MaxBuys

\* The watcher and the executor it assumes keep to the contract that the live
\* executor implements: exits are called for a ready position and one at a time,
\* and a position the watcher has sold or given up does not come back.
KeepsTrailContract == Contract!Spec

\* A held position is eventually offered for sale, if only by the timeout, even
\* when no price is ever seen.
HeldIsEventuallyExited == buy # NoBuy ~> task.pc = "exit"

===========================================================================
