----------------------- MODULE AdaptiveTrail_proofs -----------------------
(***************************************************************************)
(* Proofs about the adaptive trail, for every price set, every percentage, *)
(* every history length and every number of blocks.                        *)
(***************************************************************************)
EXTENDS AdaptiveTrail, TLAPS

---------------------------------------------------------------------------
(* The operators of step().                                                *)

\* A slot index stays a slot index when it is advanced.
LEMMA NextSlotType ==
    ASSUME NEW i \in Slots
    PROVE  NextSlot(i) \in Slots
BY BoundAssumption DEF NextSlot, Slots

\* The state made from a ledger row is a TrailState.
LEMMA FreshType ==
    ASSUME NEW e \in Nat, NEW b \in Nat
    PROVE  Fresh(e, b) \in TrailStates
<1>1. [i \in Slots |-> 0] \in [Slots -> Nat]
  OBVIOUS
<1>2. 0 \in 0..HistLen /\ 0 \in Slots
  BY BoundAssumption DEF Slots
<1> QED
  BY <1>1, <1>2 DEF Fresh, TrailStates

\* An observation makes a TrailState of the same position.
LEMMA SteppedFields ==
    ASSUME NEW s \in TrailStates, NEW p \in Nat, NEW n \in Nat
    PROVE  /\ Stepped(s, p, n) \in TrailStates
           /\ Stepped(s, p, n).entry = s.entry
           /\ Stepped(s, p, n).opened = s.opened
           /\ Stepped(s, p, n).last = p
           /\ Stepped(s, p, n).peak = Larger(s.peak, p)
<1> DEFINE peak == Larger(s.peak, p)
           hist == [s.hist EXCEPT ![s.idx] = p]
           count == IF s.count < HistLen THEN s.count + 1 ELSE s.count
           armed == s.armed \/ Reached(peak, s.entry, ArmPct)
           ratcheted == s.ratcheted \/ Reached(peak, s.entry, BeAtPct)
<1>1. Stepped(s, p, n) = [s EXCEPT !.peak = peak, !.last = p, !.observed = n,
                                   !.hist = hist, !.idx = NextSlot(s.idx),
                                   !.count = count, !.armed = armed,
                                   !.ratcheted = ratcheted]
  BY DEF Stepped, PeakAfter
<1>2. peak \in Nat
  BY DEF Larger, TrailStates
<1>3. hist \in [Slots -> Nat]
  BY DEF TrailStates
<1>4. count \in 0..HistLen
  BY BoundAssumption DEF TrailStates
<1>5. NextSlot(s.idx) \in Slots
  BY NextSlotType DEF TrailStates
<1>6. armed \in BOOLEAN /\ ratcheted \in BOOLEAN
  OBVIOUS
<1> HIDE DEF peak, hist, count, armed, ratcheted
<1>7. Stepped(s, p, n) \in TrailStates
  BY <1>1, <1>2, <1>3, <1>4, <1>5, <1>6 DEF TrailStates
<1>8. /\ Stepped(s, p, n).entry = s.entry
      /\ Stepped(s, p, n).opened = s.opened
      /\ Stepped(s, p, n).last = p
      /\ Stepped(s, p, n).peak = peak
  BY <1>1 DEF TrailStates
<1> QED
  BY <1>7, <1>8 DEF peak

\* The flags are set when the new peak reaches their threshold, and stay set.
LEMMA SteppedFlags ==
    ASSUME NEW s \in TrailStates, NEW p \in Nat, NEW n \in Nat
    PROVE  /\ Stepped(s, p, n).armed <=>
                  s.armed \/ Reached(Larger(s.peak, p), s.entry, ArmPct)
           /\ Stepped(s, p, n).ratcheted <=>
                  s.ratcheted \/ Reached(Larger(s.peak, p), s.entry, BeAtPct)
BY DEF Stepped, PeakAfter, TrailStates

\* One slot of the ring is overwritten by the new price.
LEMMA SteppedRing ==
    ASSUME NEW s \in TrailStates, NEW p \in Nat, NEW n \in Nat, NEW i \in Slots
    PROVE  Stepped(s, p, n).hist[i] \in {p, s.hist[i]}
<1>1. Stepped(s, p, n).hist = [s.hist EXCEPT ![s.idx] = p]
  BY DEF Stepped, TrailStates
<1>2. s.hist \in [Slots -> Nat]
  BY DEF TrailStates
<1> QED
  BY <1>1, <1>2

---------------------------------------------------------------------------
(* Type correctness.                                                       *)

LEMMA NoStateType == NoState \in TrailStates
BY FreshType DEF NoState

LEMMA InitType == Init => TypeOK
<1> SUFFICES ASSUME Init PROVE TypeOK
  OBVIOUS
<1>1. NoState \in TrailStates
  BY NoStateType
<1>2. Idle \in [pc: {"idle", "init", "price", "exit"}, n: Nat,
                why: Reasons \cup {NotYet}, at: TrailStates]
  BY <1>1 DEF Idle
<1> QED
  BY <1>1, <1>2 DEF Init, TypeOK, NoBuy

Tasks == [pc: {"idle", "init", "price", "exit"}, n: Nat,
          why: Reasons \cup {NotYet}, at: TrailStates]

LEMMA IdleType == Idle \in Tasks
BY NoStateType DEF Idle, Tasks

\* Every reason step() gives is one of the six, or none.
LEMMA ReasonType ==
    ASSUME NEW s, NEW p, NEW n
    PROVE  Reason(s, p, n) \in Reasons \cup {NotYet}
BY DEF Reason, FloorReason, Reasons

\* A task that goes on to fire_exit is still a task.
LEMMA ExitingType ==
    ASSUME TypeOK, NEW why \in Reasons \cup {NotYet}, NEW s \in TrailStates,
           Exiting(why, s)
    PROVE  task' \in Tasks
<1>1. task \in Tasks
  BY DEF TypeOK, Tasks
<1> QED
  BY <1>1 DEF Exiting, Tasks

LEMMA NextType == TypeOK /\ [Next]_trvars => TypeOK'
<1> SUFFICES ASSUME TypeOK, [Next]_trvars PROVE TypeOK'
  OBVIOUS
<1>t. task \in Tasks /\ state \in TrailStates
  BY DEF TypeOK, Tasks
<1>p. Prices \subseteq Nat
  BY PricesAssumption
<1>1. CASE NewHead
  <2>1. head' \in Nat
    BY <1>1 DEF NewHead, TypeOK
  <2> QED
    BY <1>1, <2>1 DEF NewHead, TypeOK, watchvars, histvars
<1>2. CASE Open
  <2>1. PICK e \in Prices : buy' = [price |-> e, block |-> head] /\ top' = e
    BY <1>2 DEF Open
  <2>2. e \in Nat
    BY <1>p
  <2>3. buy' \in [price: Nat, block: Nat] /\ top' \in Nat
    BY <2>1, <2>2 DEF TypeOK
  <2>4. failed' \in BOOLEAN
    BY <1>2 DEF Open
  <2>5. buys' \in Nat
    BY <1>2 DEF Open, TypeOK
  <2> QED
    BY <1>2, <2>3, <2>4, <2>5 DEF Open, TypeOK, watchvars
<1>3. CASE Tick
  <2>1. PICK n \in 0..head :
            /\ seen' = n
            /\ task' = IF buy = NoBuy THEN task
                       ELSE [Idle EXCEPT !.pc = IF state = NoState THEN "init" ELSE "price",
                                         !.n = n]
    BY <1>3 DEF Tick
  <2>2. n \in Nat
    BY DEF TypeOK
  <2>3. task' \in Tasks
    BY <1>t, <2>1, <2>2, IdleType DEF Tasks
  <2> QED
    BY <1>3, <2>1, <2>2, <2>3 DEF Tick, TypeOK, Tasks, histvars
<1>4. CASE InitFails
  BY <1>4, IdleType DEF InitFails, TypeOK, Tasks, histvars
<1>5. CASE InitOk
  <2>1. state' \in TrailStates
    BY <1>5, FreshType DEF InitOk, TypeOK
  <2>2. task' \in Tasks
    BY <1>5, <1>t DEF InitOk, Tasks
  <2> QED
    BY <1>5, <2>1, <2>2 DEF InitOk, TypeOK, Tasks
<1>6. CASE NoPrice
  <2>1. task' \in Tasks
    <3>1. CASE task' = Idle
      BY <3>1, IdleType
    <3>2. CASE Exiting("timeout", state)
      BY <3>2, <1>t, ExitingType DEF Reasons
    <3> QED
      BY <1>6, <3>1, <3>2 DEF NoPrice
  <2> QED
    BY <1>6, <2>1 DEF NoPrice, TypeOK, Tasks, histvars
<1>7. CASE Observe
  <2>1. PICK p \in Prices, flow \in 0..2 :
        LET s == Stepped(state, p, task.n)
            why == Reason(s, p, task.n)
        IN  /\ top' = Larger(top, p)
            /\ IF VoteExit(state, p, flow)
               THEN /\ Exiting("signal_vote", [state EXCEPT !.last = p])
                    /\ UNCHANGED <<state, recent>>
               ELSE IF why # NotYet
               THEN /\ Exiting(why, s)
                    /\ UNCHANGED <<state, recent>>
               ELSE /\ state' = s
                    /\ recent' = Pushed(recent, p)
                    /\ task' = Idle
    BY <1>7 DEF Observe
  <2> DEFINE s == Stepped(state, p, task.n)
             why == Reason(s, p, task.n)
  <2>2. p \in Nat /\ task.n \in Nat
    BY <1>p, <1>t DEF Tasks
  <2>3. s \in TrailStates
    BY <1>t, <2>2, SteppedFields
  <2>4. why \in Reasons \cup {NotYet}
    BY ReasonType
  <2>5. [state EXCEPT !.last = p] \in TrailStates
    BY <1>t, <2>2 DEF TrailStates
  <2>6. "signal_vote" \in Reasons \cup {NotYet}
    BY DEF Reasons
  <2> HIDE DEF s, why
  <2>7. \/ Exiting("signal_vote", [state EXCEPT !.last = p]) /\ state' = state
        \/ Exiting(why, s) /\ state' = state
        \/ state' = s /\ task' = Idle
    BY <2>1 DEF s, why
  <2>8. task' \in Tasks /\ state' \in TrailStates
    BY <2>3, <2>4, <2>5, <2>6, <2>7, <1>t, ExitingType, IdleType
  <2>9. top' \in Nat
    BY <2>1, <2>2 DEF TypeOK, Larger
  <2> QED
    BY <1>7, <2>8, <2>9 DEF Observe, TypeOK, Tasks
<1>8. CASE ExitSold
  <2>1. buy' \in [price: Nat, block: Nat]
    BY <1>8 DEF ExitSold, NoBuy
  <2> QED
    BY <1>8, <2>1, IdleType, NoStateType DEF ExitSold, Forget, TypeOK, Tasks, histvars
<1>9. CASE ExitFails
  <2>1. failed' \in BOOLEAN
    BY <1>9 DEF ExitFails
  <2> QED
    BY <1>9, <2>1, IdleType, NoStateType DEF ExitFails, Forget, TypeOK, Tasks
<1>10. CASE UNCHANGED trvars
  BY <1>10 DEF trvars, TypeOK, watchvars, histvars
<1> QED
  BY <1>1, <1>2, <1>3, <1>4, <1>5, <1>6, <1>7, <1>8, <1>9, <1>10 DEF Next

\* Type correctness of the watcher, for all constants.
THEOREM TypeCorrect == Spec => []TypeOK
BY InitType, NextType, PTL DEF Spec

---------------------------------------------------------------------------
(* The inductive invariant.                                                *)

\* A held position was paid for; the state is looked up in the ledger only when
\* there is none, and a price is asked for only when there is one.
Paid == /\ buy # NoBuy => buy.price > 0
        /\ task.pc = "init" => state = NoState
        /\ task.pc = "price" => state # NoState

\* No price of the ring exceeds the peak.
HistBelowPeak == \A i \in Slots : state.hist[i] <= state.peak

\* Until an exit fails, the state has followed the position from its start.
FollowsFromOpen ==
    buy # NoBuy /\ ~failed /\ task.pc # "exit" =>
        IF state = NoState THEN top = buy.price ELSE state.peak = top

TrailInv == TypeOK /\ TracksThisBuy /\ Paid /\ HistBelowPeak /\ FollowsFromOpen

\* The three outcomes of an observation.
LEMMA ObserveCases ==
    ASSUME TypeOK, Observe
    PROVE  \E p \in Nat :
              /\ p > 0
              /\ top' = Larger(top, p)
              /\ \/ /\ Exiting("signal_vote", [state EXCEPT !.last = p])
                    /\ state' = state
                 \/ /\ Reason(Stepped(state, p, task.n), p, task.n) # NotYet
                    /\ Exiting(Reason(Stepped(state, p, task.n), p, task.n),
                               Stepped(state, p, task.n))
                    /\ state' = state
                 \/ /\ Reason(Stepped(state, p, task.n), p, task.n) = NotYet
                    /\ state' = Stepped(state, p, task.n)
                    /\ task' = Idle
<1>1. PICK p \in Prices, flow \in 0..2 :
        LET s == Stepped(state, p, task.n)
            why == Reason(s, p, task.n)
        IN  /\ top' = Larger(top, p)
            /\ IF VoteExit(state, p, flow)
               THEN /\ Exiting("signal_vote", [state EXCEPT !.last = p])
                    /\ UNCHANGED <<state, recent>>
               ELSE IF why # NotYet
               THEN /\ Exiting(why, s)
                    /\ UNCHANGED <<state, recent>>
               ELSE /\ state' = s
                    /\ recent' = Pushed(recent, p)
                    /\ task' = Idle
  BY DEF Observe
<1>2. p \in Nat /\ p > 0
  BY PricesAssumption
<1> QED
  BY <1>1, <1>2

\* Going on to fire_exit changes the reason and the copy of the state only.
LEMMA ExitingFields ==
    ASSUME TypeOK, NEW why, NEW s, Exiting(why, s)
    PROVE  task'.pc = "exit" /\ task'.why = why /\ task'.at = s
<1>1. task \in Tasks
  BY DEF TypeOK, Tasks
<1> QED
  BY <1>1 DEF Exiting, Tasks

LEMMA InitInv == Init => TrailInv
<1> SUFFICES ASSUME Init PROVE TrailInv
  OBVIOUS
<1>1. TypeOK
  BY InitType
<1>2. TracksThisBuy /\ Paid /\ FollowsFromOpen
  BY DEF Init, TracksThisBuy, Paid, FollowsFromOpen, Idle
<1>3. HistBelowPeak
  BY DEF Init, HistBelowPeak, NoState, Fresh
<1> QED
  BY <1>1, <1>2, <1>3 DEF TrailInv

LEMMA FreshTracked ==
    ASSUME NEW e \in Nat, NEW b \in Nat, e > 0
    PROVE  Fresh(e, b) # NoState
<1>1. Fresh(e, b).entry = e /\ NoState.entry = 0
  BY DEF Fresh, NoState
<1> QED
  BY <1>1

\* Observing keeps the entry, hence stays apart from NoState.
LEMMA SteppedTracked ==
    ASSUME NEW s \in TrailStates, NEW p \in Nat, NEW n \in Nat, s.entry > 0
    PROVE  Stepped(s, p, n) # NoState
<1>1. NoState.entry = 0
  BY DEF Fresh, NoState
<1>2. Stepped(s, p, n).entry = s.entry
  BY SteppedFields
<1> QED
  BY <1>1, <1>2

LEMMA NextTracks ==
    ASSUME TrailInv, [Next]_trvars
    PROVE  TracksThisBuy' /\ Paid'
<1>i. /\ TypeOK /\ TracksThisBuy /\ Paid
      /\ task \in Tasks /\ state \in TrailStates
  BY DEF TrailInv, TypeOK, Tasks
<1>d. Idle.pc = "idle"
  BY DEF Idle
<1> USE DEF TracksThisBuy, Paid
<1>1. CASE NewHead
  BY <1>1, <1>i DEF NewHead, watchvars
<1>2. CASE Open
  <2>1. PICK e \in Prices : buy' = [price |-> e, block |-> head]
    BY <1>2 DEF Open
  <2>2. e \in Nat /\ e > 0
    BY PricesAssumption
  <2>3. buy'.price = e /\ NoBuy.price = 0
    BY <2>1 DEF NoBuy
  <2> QED
    BY <1>2, <1>i, <2>2, <2>3 DEF Open, watchvars
<1>3. CASE Tick
  <2>1. state' = state /\ buy' = buy
    BY <1>3 DEF Tick
  <2>2. \/ buy = NoBuy /\ task' = task
        \/ buy # NoBuy /\ task'.pc = IF state = NoState THEN "init" ELSE "price"
    BY <1>3 DEF Tick, Idle
  <2> QED
    BY <1>3, <1>i, <2>1, <2>2 DEF Tick
<1>4. CASE InitFails
  BY <1>4, <1>i, <1>d DEF InitFails
<1>5. CASE InitOk
  <2>1. buy # NoBuy /\ buy' = buy
    BY <1>5, <1>i DEF InitOk
  <2>2. buy.price \in Nat /\ buy.block \in Nat /\ buy.price > 0
    BY <1>i, <2>1 DEF TypeOK
  <2>3. state' # NoState
    BY <1>5, <2>2, FreshTracked DEF InitOk
  <2>4. state'.entry = buy.price /\ state'.opened = buy.block
    BY <1>5 DEF InitOk, Fresh
  <2>5. task'.pc = "price"
    BY <1>5, <1>i DEF InitOk, Tasks
  <2> QED
    BY <1>i, <2>1, <2>2, <2>3, <2>4, <2>5
<1>6. CASE NoPrice
  <2>1. buy' = buy /\ state' = state /\ buy # NoBuy
    BY <1>6, <1>i DEF NoPrice
  <2>2. task'.pc \in {"idle", "exit"}
    BY <1>6, <1>i, <1>d, ExitingFields DEF NoPrice
  <2> QED
    BY <1>i, <2>1, <2>2
<1>7. CASE Observe
  <2>1. buy' = buy /\ buy # NoBuy /\ state # NoState
    BY <1>7, <1>i DEF Observe
  <2>2. task.n \in Nat /\ buy.price > 0
    BY <1>i, <2>1 DEF Tasks
  <2>3. PICK p \in Nat :
           \/ state' = state /\ task'.pc = "exit"
           \/ state' = Stepped(state, p, task.n) /\ task' = Idle
    BY <1>7, <1>i, ObserveCases, ExitingFields
  <2>4. CASE state' = state /\ task'.pc = "exit"
    BY <1>i, <2>1, <2>4
  <2>5. CASE state' = Stepped(state, p, task.n) /\ task' = Idle
    <3>1. state.entry = buy.price /\ state.opened = buy.block
      BY <1>i, <2>1
    <3>2. state'.entry = state.entry /\ state'.opened = state.opened
      BY <1>i, <2>2, <2>5, SteppedFields
    <3> QED
      BY <1>i, <1>d, <2>1, <2>2, <2>5, <3>1, <3>2
  <2> QED
    BY <2>3, <2>4, <2>5
<1>8. CASE ExitSold
  BY <1>8, <1>d DEF ExitSold, Forget
<1>9. CASE ExitFails
  BY <1>9, <1>d, <1>i DEF ExitFails, Forget
<1>10. CASE UNCHANGED trvars
  BY <1>10, <1>i DEF trvars, watchvars
<1> QED
  BY <1>1, <1>2, <1>3, <1>4, <1>5, <1>6, <1>7, <1>8, <1>9, <1>10 DEF Next

LEMMA NextHist ==
    ASSUME TrailInv, [Next]_trvars
    PROVE  HistBelowPeak'
<1>i. /\ TypeOK /\ HistBelowPeak
      /\ task \in Tasks /\ state \in TrailStates
  BY DEF TrailInv, TypeOK, Tasks
<1> USE DEF HistBelowPeak
<1>1. CASE state' = state
  BY <1>1, <1>i
<1>2. CASE \E e \in Nat, b \in Nat : state' = Fresh(e, b)
  BY <1>2 DEF Fresh
<1>3. CASE \E p \in Nat : state' = Stepped(state, p, task.n)
  <2>1. PICK p \in Nat : state' = Stepped(state, p, task.n)
    BY <1>3
  <2>2. task.n \in Nat
    BY <1>i DEF Tasks
  <2>3. state'.peak = Larger(state.peak, p)
    BY <1>i, <2>1, <2>2, SteppedFields
  <2> SUFFICES ASSUME NEW i \in Slots PROVE state'.hist[i] <= state'.peak
    OBVIOUS
  <2>4. state'.hist[i] \in {p, state.hist[i]}
    BY <1>i, <2>1, <2>2, SteppedRing
  <2>5. state.hist[i] \in Nat /\ state.peak \in Nat /\ state.hist[i] <= state.peak
    BY <1>i DEF TrailStates
  <2> QED
    BY <2>3, <2>4, <2>5 DEF Larger
<1>4. CASE InitOk
  <2>1. buy.price \in Nat /\ buy.block \in Nat
    BY <1>i DEF TypeOK
  <2> QED
    BY <1>2, <1>4, <2>1 DEF InitOk
<1>5. CASE Observe
  BY <1>1, <1>3, <1>5, <1>i, ObserveCases
<1>6. CASE ExitSold \/ ExitFails
  BY <1>2, <1>6 DEF ExitSold, ExitFails, Forget, NoState
<1>7. CASE NewHead \/ Open \/ Tick \/ InitFails \/ NoPrice \/ UNCHANGED trvars
  BY <1>1, <1>7 DEF NewHead, Open, Tick, InitFails, NoPrice, trvars, watchvars
<1> QED
  BY <1>4, <1>5, <1>6, <1>7 DEF Next

LEMMA NextFollows ==
    ASSUME TrailInv, [Next]_trvars
    PROVE  FollowsFromOpen'
<1>i. /\ TypeOK /\ TracksThisBuy /\ Paid /\ FollowsFromOpen
      /\ task \in Tasks /\ state \in TrailStates
  BY DEF TrailInv, TypeOK, Tasks
<1> USE DEF FollowsFromOpen
<1>1. CASE NewHead
  BY <1>1, <1>i DEF NewHead, watchvars, histvars
<1>2. CASE Open
  <2>1. PICK e \in Prices : buy' = [price |-> e, block |-> head] /\ top' = e
    BY <1>2 DEF Open
  <2>2. state' = NoState
    BY <1>2, <1>i DEF Open, watchvars, TracksThisBuy
  <2> QED
    BY <2>1, <2>2
<1>3. CASE Tick
  <2>1. UNCHANGED <<state, buy, top, failed>>
    BY <1>3 DEF Tick, histvars
  <2>2. task.pc # "exit"
    BY <1>3 DEF Tick
  <2> QED
    BY <1>i, <2>1, <2>2
<1>4. CASE InitFails
  <2>1. UNCHANGED <<state, buy, top, failed>> /\ task.pc # "exit"
    BY <1>4 DEF InitFails, histvars
  <2> QED
    BY <1>i, <2>1
<1>5. CASE InitOk
  <2>1. UNCHANGED <<buy, top, failed>> /\ task.pc = "init" /\ state' = Fresh(buy.price, buy.block)
    BY <1>5 DEF InitOk
  <2>2. CASE state = NoState
    <3>1. state'.peak = buy.price
      BY <2>1 DEF Fresh
    <3>2. buy # NoBuy => state' # NoState
      <4>1. buy.price \in Nat /\ buy.block \in Nat
        BY <1>i DEF TypeOK
      <4> QED
        BY <1>i, <2>1, <4>1, FreshTracked DEF Paid
    <3> QED
      BY <1>i, <2>1, <2>2, <3>1, <3>2
  <2> QED
    BY <1>i, <2>1, <2>2 DEF Paid
<1>6. CASE NoPrice
  <2>1. UNCHANGED <<state, buy, top, failed>> /\ task.pc # "exit"
    BY <1>6 DEF NoPrice, histvars
  <2> QED
    BY <1>i, <2>1
<1>7. CASE Observe
  <2>1. /\ buy' = buy /\ failed' = failed /\ task.pc = "price"
        /\ buy # NoBuy /\ state # NoState
    BY <1>7, <1>i DEF Observe, TracksThisBuy, Paid
  <2>2. PICK p \in Nat :
           /\ top' = Larger(top, p)
           /\ \/ task'.pc = "exit"
              \/ state' = Stepped(state, p, task.n)
    BY <1>7, <1>i, ObserveCases, ExitingFields
  <2>3. CASE task'.pc = "exit"
    BY <2>3
  <2>4. CASE state' = Stepped(state, p, task.n)
    <3>1. task.n \in Nat /\ state.entry > 0
      BY <1>i, <2>1 DEF Tasks, TracksThisBuy, Paid
    <3>2. state'.peak = Larger(state.peak, p)
      BY <1>i, <2>4, <3>1, SteppedFields
    <3>3. state' # NoState
      BY <1>i, <2>4, <3>1, SteppedTracked
    <3> QED
      BY <1>i, <2>1, <2>2, <3>2, <3>3
  <2> QED
    BY <2>2, <2>3, <2>4
<1>8. CASE ExitSold
  BY <1>8 DEF ExitSold
<1>9. CASE ExitFails
  BY <1>9 DEF ExitFails
<1>10. CASE UNCHANGED trvars
  BY <1>10, <1>i DEF trvars, watchvars, histvars
<1> QED
  BY <1>1, <1>2, <1>3, <1>4, <1>5, <1>6, <1>7, <1>8, <1>9, <1>10 DEF Next

LEMMA NextInv == TrailInv /\ [Next]_trvars => TrailInv'
BY NextType, NextTracks, NextHist, NextFollows DEF TrailInv

\* The map never holds the state of an earlier position of the token, for any
\* interleaving of heads, exits and re-entries.
THEOREM TracksCurrentPosition == Spec => []TracksThisBuy
<1>1. TrailInv => TracksThisBuy
  BY DEF TrailInv
<1> QED
  BY <1>1, InitInv, NextInv, PTL DEF Spec

---------------------------------------------------------------------------
(* The ring buffer is the window of the last prices.                       *)

\* Remainders of numbers below twice the divisor.
LEMMA ModSmall ==
    ASSUME NEW a \in Nat, NEW h \in Nat \ {0}
    PROVE  /\ a < h => a % h = a
           /\ h <= a /\ a < 2 * h => a % h = a - h
OBVIOUS

\* The slot that was written d observations ago.
Back(j, d) == (j + HistLen - d) % HistLen

\* Counting back from the write index stays in the ring; one step back from the
\* advanced index is the slot just written, and d + 1 steps are d from the old
\* index, which is another slot as long as d is less than a whole turn.
LEMMA BackSlots ==
    ASSUME NEW j \in Slots, NEW d \in 0..(HistLen - 1)
    PROVE  /\ Back(j, d) \in Slots
           /\ Back(NextSlot(j), d + 1) = Back(j, d)
           /\ Back(j, d) = j <=> d = 0
<1>1. PICK h \in Nat \ {0} : h = HistLen
  BY BoundAssumption
<1>2. j \in Nat /\ j < h /\ d \in Nat /\ d < h
  BY <1>1 DEF Slots
<1>m. \A a \in Nat : /\ a < h => a % h = a
                    /\ h <= a /\ a < 2 * h => a % h = a - h
  BY ModSmall
<1>3. Back(j, d) = IF d <= j THEN j - d ELSE j + h - d
  <2>1. PICK a \in Nat : a = j + h - d /\ a < 2 * h /\ (d <= j <=> h <= a)
    BY <1>2
  <2>2. a % h = IF d <= j THEN j - d ELSE j + h - d
    BY <1>2, <1>m, <2>1
  <2>3. QED
    BY <1>1, <2>1, <2>2 DEF Back
<1>4. NextSlot(j) = IF j + 1 < h THEN j + 1 ELSE 0
  <2>1. PICK a \in Nat : a = j + 1 /\ a < 2 * h
    BY <1>2
  <2>2. a % h = IF a < h THEN a ELSE 0
    BY <1>2, <1>m, <2>1
  <2>3. QED
    BY <1>1, <2>1, <2>2 DEF NextSlot
<1>5. Back(NextSlot(j), d + 1) = IF d <= j THEN j - d ELSE j + h - d
  <2>1. CASE j + 1 < h
    <3>1. NextSlot(j) + h - (d + 1) = j + h - d
      BY <1>2, <1>4, <2>1
    <3>2. Back(NextSlot(j), d + 1) = Back(j, d)
      BY <1>1, <3>1 DEF Back
    <3>3. QED
      BY <1>3, <3>2
  <2>2. CASE j + 1 = h
    <3>1. PICK a \in Nat : a = NextSlot(j) + h - (d + 1) /\ a < h /\ a = j - d
      BY <1>2, <1>4, <2>2
    <3>2. Back(NextSlot(j), d + 1) = a
      BY <1>1, <1>m, <3>1 DEF Back
    <3>3. QED
      BY <1>2, <2>2, <3>1, <3>2
  <2>3. QED
    BY <1>2, <2>1, <2>2
<1>6. QED
  BY <1>1, <1>2, <1>3, <1>5 DEF Slots

\* The ring of a state against a window of prices.
Mirrors(s, w) ==
    /\ s.count = Len(w)
    /\ \A i \in 1..Len(w) : s.hist[Back(s.idx, i)] = w[Len(w) + 1 - i]

\* What the window is after one more price.
LEMMA PushedWindow ==
    ASSUME NEW w \in Seq(Nat), Len(w) <= HistLen, NEW p \in Nat
    PROVE  /\ Pushed(w, p) \in Seq(Nat)
           /\ Len(Pushed(w, p)) = IF Len(w) < HistLen THEN Len(w) + 1 ELSE HistLen
           /\ Pushed(w, p)[Len(Pushed(w, p))] = p
           /\ \A i \in 1..(Len(Pushed(w, p)) - 1) :
                  Pushed(w, p)[Len(Pushed(w, p)) - i] = w[Len(w) + 1 - i]
<1>1. CASE Len(w) < HistLen
  <2>1. Pushed(w, p) = Append(w, p)
    BY <1>1 DEF Pushed
  <2>2. QED
    BY <1>1, <2>1
<1>2. CASE Len(w) = HistLen
  <2>1. Pushed(w, p) = Append(Tail(w), p)
    BY <1>2 DEF Pushed
  <2>2. w # <<>> /\ Len(w) \in Nat
    BY <1>2, BoundAssumption
  <2>3. PICK t \in Seq(Nat) : /\ t = Tail(w) /\ Len(t) = Len(w) - 1
                              /\ \A i \in 1..Len(t) : t[i] = w[i + 1]
    <3>1. Tail(w) \in Seq(Nat) /\ Len(Tail(w)) = Len(w) - 1
      BY <2>2
    <3>2. \A i \in 1..Len(Tail(w)) : Tail(w)[i] = w[i + 1]
      BY <2>2
    <3>3. QED
      BY <3>1, <3>2
  <2>4. /\ Pushed(w, p) = Append(t, p)
        /\ Len(Pushed(w, p)) = Len(w)
        /\ Pushed(w, p)[Len(w)] = p
        /\ \A i \in 1..Len(t) : Pushed(w, p)[i] = t[i]
    BY <2>1, <2>2, <2>3
  <2>5. ASSUME NEW i \in 1..(Len(w) - 1)
        PROVE  Pushed(w, p)[Len(w) - i] = w[Len(w) + 1 - i]
    <3>1. Len(w) - i \in 1..Len(t)
      BY <2>2, <2>3
    <3>2. QED
      BY <2>3, <2>4, <3>1
  <2>6. Pushed(w, p) \in Seq(Nat)
    BY <2>3, <2>4
  <2>7. \A i \in 1..(Len(Pushed(w, p)) - 1) :
            Pushed(w, p)[Len(Pushed(w, p)) - i] = w[Len(w) + 1 - i]
    BY <2>4, <2>5
  <2>8. Pushed(w, p)[Len(Pushed(w, p))] = p
    BY <2>4
  <2>9. Len(Pushed(w, p)) = IF Len(w) < HistLen THEN Len(w) + 1 ELSE HistLen
    BY <1>2, <2>2, <2>4
  <2>10. QED
    BY <2>6, <2>7, <2>8, <2>9
<1>3. QED
  BY <1>1, <1>2, BoundAssumption

\* step() writes the price where the window takes it.
LEMMA SteppedMirrors ==
    ASSUME NEW s \in TrailStates, NEW p \in Nat, NEW n \in Nat,
           NEW w \in Seq(Nat), Len(w) <= HistLen, Mirrors(s, w)
    PROVE  Mirrors(Stepped(s, p, n), Pushed(w, p))
<1>1. PICK h \in Nat \ {0} : h = HistLen
  BY BoundAssumption
<1>2. s.idx \in Slots /\ s.hist \in [Slots -> Nat] /\ s.count = Len(w) /\ Len(w) \in Nat
  BY DEF TrailStates, Mirrors
<1>3. /\ Stepped(s, p, n).hist = [s.hist EXCEPT ![s.idx] = p]
      /\ Stepped(s, p, n).idx = NextSlot(s.idx)
      /\ Stepped(s, p, n).count = IF s.count < HistLen THEN s.count + 1 ELSE s.count
  BY DEF Stepped, TrailStates
<1>4. PICK v \in Seq(Nat) :
         /\ v = Pushed(w, p)
         /\ Len(v) = IF Len(w) < h THEN Len(w) + 1 ELSE h
         /\ v[Len(v)] = p
         /\ \A i \in 1..(Len(v) - 1) : v[Len(v) - i] = w[Len(w) + 1 - i]
  BY <1>1, PushedWindow
<1>5. Stepped(s, p, n).count = Len(v)
  BY <1>1, <1>2, <1>3, <1>4
<1>6. ASSUME NEW i \in 1..Len(v)
      PROVE  Stepped(s, p, n).hist[Back(NextSlot(s.idx), i)] = v[Len(v) + 1 - i]
  <2>1. PICK d \in 0..(h - 1) : i = d + 1
    <3>1. Len(v) \in Nat /\ Len(v) <= h
      BY <1>1, <1>2, <1>4
    <3>2. i - 1 \in 0..(h - 1) /\ i = (i - 1) + 1
      BY <1>1, <3>1
    <3>3. QED
      BY <3>2
  <2>2. /\ Back(s.idx, d) \in Slots
        /\ Back(NextSlot(s.idx), i) = Back(s.idx, d)
        /\ Back(s.idx, d) = s.idx <=> d = 0
    BY <1>1, <1>2, <2>1, BackSlots
  <2>3. CASE d = 0
    <3>1. Stepped(s, p, n).hist[Back(NextSlot(s.idx), i)] = p
      BY <1>2, <1>3, <2>2, <2>3
    <3>2. Len(v) + 1 - i = Len(v)
      BY <2>1, <2>3
    <3>3. QED
      BY <1>4, <3>1, <3>2
  <2>4. CASE d # 0
    <3>1. Stepped(s, p, n).hist[Back(NextSlot(s.idx), i)] = s.hist[Back(s.idx, d)]
      BY <1>2, <1>3, <2>2, <2>4
    <3>2. d \in 1..(Len(v) - 1) /\ d \in 1..Len(w) /\ Len(v) + 1 - i = Len(v) - d
      <4>1. PICK a \in Nat, b \in Nat : a = Len(v) /\ b = Len(w) /\ b <= h
        BY <1>1, <1>2
      <4>2. a = IF b < h THEN b + 1 ELSE h
        BY <1>4, <4>1
      <4>3. d \in Nat /\ d >= 1 /\ d < h /\ d + 1 <= a
        BY <2>1, <2>4, <4>1
      <4>4. d <= b /\ d <= a - 1
        <5>1. CASE b < h
          BY <4>1, <4>2, <4>3, <5>1
        <5>2. CASE b = h
          BY <1>1, <4>1, <4>2, <4>3, <5>2
        <5>3. QED
          BY <1>1, <4>1, <5>1, <5>2
      <4>5. a + 1 - i = a - d
        BY <2>1, <4>1, <4>3
      <4>6. QED
        BY <4>1, <4>3, <4>4, <4>5
    <3>3. s.hist[Back(s.idx, d)] = w[Len(w) + 1 - d]
      BY <3>2 DEF Mirrors
    <3>4. QED
      BY <1>4, <3>1, <3>2, <3>3
  <2>5. QED
    BY <2>3, <2>4
<1>7. QED
  BY <1>3, <1>4, <1>5, <1>6 DEF Mirrors

\* The window is never longer than the ring, and the ring of a state mirrors it.
RingInv == /\ recent \in Seq(Nat)
           /\ Len(recent) <= HistLen
           /\ state # NoState => Mirrors(state, recent)

\* A price that is kept goes into ring and window together.
LEMMA ObserveRing ==
    ASSUME TypeOK, Observe
    PROVE  \/ UNCHANGED <<state, recent>>
           \/ \E p \in Nat : state' = Stepped(state, p, task.n) /\ recent' = Pushed(recent, p)
<1>1. Prices \subseteq Nat
  BY PricesAssumption
<1>2. QED
  BY <1>1 DEF Observe

LEMMA NextRing ==
    ASSUME TrailInv, RingInv, [Next]_trvars
    PROVE  RingInv'
<1>i. /\ TypeOK /\ Paid /\ task \in Tasks /\ state \in TrailStates
  BY DEF TrailInv, TypeOK, Tasks
<1>1. CASE UNCHANGED <<state, recent>>
  BY <1>1 DEF RingInv
<1>2. CASE InitOk
  <2>1. recent' = <<>> /\ state' = Fresh(buy.price, buy.block)
    BY <1>2 DEF InitOk
  <2>2. state'.count = 0
    BY <2>1 DEF Fresh
  <2>3. Mirrors(state', recent')
    BY <2>1, <2>2 DEF Mirrors
  <2>4. QED
    BY <2>1, <2>3, BoundAssumption DEF RingInv
<1>3. CASE ExitSold \/ ExitFails
  BY <1>3 DEF ExitSold, ExitFails, Forget, histvars, RingInv
<1>4. CASE Observe
  <2>1. SUFFICES ASSUME NEW p \in Nat, state' = Stepped(state, p, task.n),
                        recent' = Pushed(recent, p)
                 PROVE  RingInv'
    BY <1>1, <1>4, <1>i, ObserveRing
  <2>2. Mirrors(state, recent) /\ task.n \in Nat
    BY <1>4, <1>i DEF Observe, Paid, RingInv, Tasks
  <2>3. Mirrors(state', recent')
    BY <1>i, <2>1, <2>2, SteppedMirrors DEF RingInv
  <2>4. recent' \in Seq(Nat) /\ Len(recent') <= HistLen
    BY <2>1, PushedWindow, BoundAssumption DEF RingInv
  <2>5. QED
    BY <2>3, <2>4 DEF RingInv
<1>5. CASE NewHead \/ Open \/ Tick \/ InitFails \/ NoPrice \/ UNCHANGED trvars
  BY <1>1, <1>5 DEF NewHead, Open, Tick, InitFails, NoPrice, trvars, watchvars, histvars
<1>6. QED
  BY <1>2, <1>3, <1>4, <1>5 DEF Next

\* Counting back from the write index of price_history gives the prices in reverse
\* order of their observation, and the slot compute_vote_signals takes for the
\* oldest is the oldest, for any PRICE_HISTORY_LEN and any number of wraps.
THEOREM RingMirrorsWindow == Spec => []RingIsWindow
<1>1. Init => RingInv
  BY BoundAssumption DEF Init, RingInv
<1>2. TrailInv /\ RingInv /\ [Next]_trvars => RingInv'
  BY NextRing
<1>3. RingInv => RingIsWindow
  BY DEF RingInv, RingIsWindow, Mirrors, Back
<1>4. QED
  BY <1>1, <1>2, <1>3, InitInv, NextInv, PTL DEF Spec

---------------------------------------------------------------------------
(* Gains are protected.                                                    *)

\* A position that step() keeps is above each of its floors.
LEMMA KeptAboveFloors ==
    ASSUME NEW s \in TrailStates, NEW p \in Nat, NEW n \in Nat, Reason(s, p, n) = NotYet
    PROVE  /\ 100 * p > HardFloor(s)
           /\ s.ratcheted => 100 * p > LockFloor(s)
           /\ s.armed => 100 * p > TrailFloor(s)
<1>1. HardFloor(s) \in Int /\ LockFloor(s) \in Int /\ TrailFloor(s) \in Int
  BY PctAssumption DEF HardFloor, LockFloor, TrailFloor, TrailStates
<1>2. EffectiveFloor(s) \in Int
  BY <1>1 DEF EffectiveFloor, Larger
<1>3. ~(100 * p <= EffectiveFloor(s)) /\ ~(s.armed /\ 100 * p <= TrailFloor(s))
  BY DEF Reason, FloorReason, NotYet
<1>4. 100 * p > EffectiveFloor(s) /\ (s.armed => 100 * p > TrailFloor(s))
  BY <1>1, <1>2, <1>3
<1>5. EffectiveFloor(s) >= HardFloor(s) /\ (s.ratcheted => EffectiveFloor(s) >= LockFloor(s))
  BY <1>1 DEF EffectiveFloor, Larger
<1> QED
  BY <1>1, <1>2, <1>4, <1>5

LEMMA NextGains ==
    ASSUME TrailInv, TrailInv', GainsProtected, [Next]_trvars
    PROVE  GainsProtected'
<1>i. /\ TypeOK /\ TracksThisBuy /\ Paid
      /\ task \in Tasks /\ state \in TrailStates
  BY DEF TrailInv, TypeOK, Tasks
<1>1. CASE /\ UNCHANGED <<state, buy, top, failed>>
           /\ task'.pc # "exit" => task.pc # "exit"
  BY <1>1 DEF GainsProtected, HardFloor, LockFloor, Reached
<1>2. CASE state' = NoState \/ failed' \/ task'.pc = "exit"
  BY <1>2 DEF GainsProtected
<1>3. CASE NewHead \/ InitFails \/ NoPrice \/ Tick \/ UNCHANGED trvars
  BY <1>1, <1>3 DEF NewHead, InitFails, NoPrice, Tick, trvars, watchvars, histvars
<1>4. CASE Open
  BY <1>2, <1>4, <1>i DEF Open, watchvars, TracksThisBuy
<1>5. CASE InitOk
  <2>1. state'.count = 0
    BY <1>5 DEF InitOk, Fresh
  <2> QED
    BY <2>1 DEF GainsProtected
<1>6. CASE Observe
  <2>1. /\ buy' = buy /\ failed' = failed /\ task.pc = "price"
        /\ buy # NoBuy /\ state # NoState
    BY <1>6, <1>i DEF Observe, TracksThisBuy, Paid
  <2>2. PICK p \in Nat :
           /\ top' = Larger(top, p)
           /\ \/ task'.pc = "exit"
              \/ /\ Reason(Stepped(state, p, task.n), p, task.n) = NotYet
                 /\ state' = Stepped(state, p, task.n)
                 /\ task' = Idle
    BY <1>6, <1>i, ObserveCases, ExitingFields
  <2>3. CASE task'.pc = "exit"
    BY <1>2, <2>3
  <2>4. CASE failed'
    BY <1>2, <2>4
  <2>5. CASE /\ Reason(Stepped(state, p, task.n), p, task.n) = NotYet
             /\ state' = Stepped(state, p, task.n)
             /\ task' = Idle
             /\ ~failed'
    <3>1. task.n \in Nat /\ state.entry = buy.price /\ state.entry > 0
      BY <1>i, <2>1 DEF Tasks, TracksThisBuy, Paid
    <3>2. /\ state' \in TrailStates /\ state'.last = p /\ state'.entry = buy.price
          /\ state'.peak = Larger(state.peak, p)
      BY <1>i, <2>5, <3>1, SteppedFields
    <3>3. state' # NoState
      BY <1>i, <2>5, <3>1, SteppedTracked
    <3>4. state'.peak = top'
      BY <2>1, <2>5, <3>3 DEF TrailInv, FollowsFromOpen, Idle
    <3>5. /\ Reached(top', buy.price, ArmPct) => state'.armed
          /\ Reached(top', buy.price, BeAtPct) => state'.ratcheted
      BY <1>i, <2>5, <3>1, <3>2, <3>4, SteppedFlags
    <3>6. /\ 100 * p > HardFloor(state')
          /\ state'.ratcheted => 100 * p > LockFloor(state')
          /\ state'.armed => 100 * p > TrailFloor(state')
      BY <2>5, <3>1, <3>2, KeptAboveFloors
    <3> QED
      BY <2>1, <3>2, <3>4, <3>5, <3>6 DEF GainsProtected, HardFloor, LockFloor, TrailFloor, Reached
  <2> QED
    BY <2>2, <2>3, <2>4, <2>5
<1>7. CASE ExitSold \/ ExitFails
  BY <1>2, <1>7 DEF ExitSold, ExitFails, Forget
<1> QED
  BY <1>3, <1>4, <1>5, <1>6, <1>7 DEF Next

\* Whatever prices arrive in whatever order, a position whose exits have not
\* failed is kept only above its hard stop, its locked gain and its trail,
\* measured from the true peak since it was opened.
THEOREM GainsAreProtected == Spec => []GainsProtected
<1>1. Init => TrailInv /\ GainsProtected
  BY InitInv DEF Init, GainsProtected
<1>2. (TrailInv /\ GainsProtected) /\ [Next]_trvars => (TrailInv /\ GainsProtected)'
  BY NextInv, NextGains
<1> QED
  BY <1>1, <1>2, PTL DEF Spec

---------------------------------------------------------------------------
(* signal_dump is never earlier than the trail.                            *)

LEMMA SteppedBelow ==
    ASSUME NEW s \in TrailStates, NEW p \in Nat, NEW n \in Nat,
           \A i \in Slots : s.hist[i] <= s.peak
    PROVE  \A i \in Slots : Stepped(s, p, n).hist[i] <= Stepped(s, p, n).peak
<1> SUFFICES ASSUME NEW i \in Slots
             PROVE  Stepped(s, p, n).hist[i] <= Stepped(s, p, n).peak
  OBVIOUS
<1>1. Stepped(s, p, n).peak = Larger(s.peak, p)
  BY SteppedFields
<1>2. Stepped(s, p, n).hist[i] \in {p, s.hist[i]}
  BY SteppedRing
<1>3. s.hist[i] \in Nat /\ s.peak \in Nat
  BY DEF TrailStates
<1> QED
  BY <1>1, <1>2, <1>3 DEF Larger

LEMMA ScaleMono ==
    ASSUME NEW a \in Nat, NEW b \in Nat, NEW c \in Nat, a <= b
    PROVE  c * a <= c * b
OBVIOUS

\* A price 30 % below some price of the ring is 30 % below the peak.
LEMMA DumpBelowTrail ==
    ASSUME NEW s \in TrailStates, NEW p \in Nat, TrailPct <= 30,
           \A i \in Slots : s.hist[i] <= s.peak, FarBelowMax(s, p)
    PROVE  100 * p <= TrailFloor(s)
<1>1. PICK i \in Slots : 100 * p < 70 * s.hist[i]
  BY DEF FarBelowMax
<1>2. s.hist[i] \in Nat /\ s.peak \in Nat /\ s.hist[i] <= s.peak
  BY DEF TrailStates
<1>3. 100 * p <= s.peak * 70
  BY <1>1, <1>2
<1>4. 70 \in Nat /\ 100 - TrailPct \in Nat /\ 70 <= 100 - TrailPct
  BY PctAssumption
<1>5. s.peak * 70 <= s.peak * (100 - TrailPct)
  BY <1>2, <1>4, ScaleMono
<1>6. s.peak * (100 - TrailPct) \in Nat /\ s.peak * 70 \in Nat
  BY <1>2, <1>4
<1> QED
  BY <1>3, <1>5, <1>6 DEF TrailFloor

\* Where the reason of a pending exit comes from.
LEMMA NextWhy ==
    ASSUME TrailInv, [Next]_trvars
    PROVE  \/ task'.why = task.why /\ task'.at = task.at
           \/ task'.why \in {NotYet, "timeout", "signal_vote"}
           \/ \E p \in Nat :
                 /\ p > 0
                 /\ task.pc = "price"
                 /\ task'.at = Stepped(state, p, task.n)
                 /\ task'.why = Reason(Stepped(state, p, task.n), p, task.n)
<1>i. TypeOK /\ task \in Tasks
  BY DEF TrailInv, TypeOK, Tasks
<1>1. CASE task' = task
  BY <1>1
<1>2. CASE task' = Idle
  BY <1>2 DEF Idle
<1>3. CASE Tick
  <2>1. task' = task \/ task'.why = Idle.why
    BY <1>3 DEF Tick, Idle
  <2> QED
    BY <1>1, <2>1 DEF Idle
<1>4. CASE InitOk
  BY <1>4, <1>i DEF InitOk, Tasks
<1>5. CASE NoPrice
  BY <1>2, <1>5, <1>i, ExitingFields DEF NoPrice
<1>6. CASE Observe
  <2>1. task.pc = "price"
    BY <1>6 DEF Observe
  <2>2. PICK p \in Nat :
           /\ p > 0
           /\ \/ Exiting("signal_vote", [state EXCEPT !.last = p])
              \/ Exiting(Reason(Stepped(state, p, task.n), p, task.n),
                         Stepped(state, p, task.n))
              \/ task' = Idle
    BY <1>6, <1>i, ObserveCases
  <2>3. CASE Exiting("signal_vote", [state EXCEPT !.last = p])
    BY <1>i, <2>3, ExitingFields
  <2>4. CASE Exiting(Reason(Stepped(state, p, task.n), p, task.n), Stepped(state, p, task.n))
    BY <1>i, <2>1, <2>2, <2>4, ExitingFields
  <2> QED
    BY <1>2, <2>2, <2>3, <2>4
<1>7. CASE InitFails \/ ExitSold \/ ExitFails
  BY <1>2, <1>7 DEF InitFails, ExitSold, ExitFails
<1>8. CASE NewHead \/ Open \/ UNCHANGED trvars
  BY <1>1, <1>8 DEF NewHead, Open, trvars, watchvars
<1> QED
  BY <1>3, <1>4, <1>5, <1>6, <1>7, <1>8 DEF Next

\* A signal_dump exit is at a price that is already below the trail's floor.
DumpNeverBeatsTrail ==
    task.why = "signal_dump" /\ TrailPct <= 30 => 100 * task.at.last <= TrailFloor(task.at)

LEMMA NextDump ==
    ASSUME TrailInv, DumpNeverBeatsTrail, [Next]_trvars
    PROVE  DumpNeverBeatsTrail'
<1> SUFFICES ASSUME task'.why = "signal_dump", TrailPct <= 30
             PROVE  100 * task'.at.last <= TrailFloor(task'.at)
  BY DEF DumpNeverBeatsTrail, TrailFloor
<1>1. CASE task'.why = task.why /\ task'.at = task.at
  BY <1>1 DEF DumpNeverBeatsTrail
<1>2. CASE \E p \in Nat :
               /\ p > 0
               /\ task.pc = "price"
               /\ task'.at = Stepped(state, p, task.n)
               /\ task'.why = Reason(Stepped(state, p, task.n), p, task.n)
  <2>1. PICK p \in Nat :
               /\ task'.at = Stepped(state, p, task.n)
               /\ task'.why = Reason(Stepped(state, p, task.n), p, task.n)
    BY <1>2
  <2> DEFINE s == Stepped(state, p, task.n)
  <2>2. state \in TrailStates /\ task.n \in Nat
    BY DEF TrailInv, TypeOK
  <2>3. s \in TrailStates /\ s.last = p
    BY <2>2, SteppedFields
  <2>4. \A i \in Slots : s.hist[i] <= s.peak
    BY <2>2, SteppedBelow DEF TrailInv, HistBelowPeak
  <2> HIDE DEF s
  <2>5. Reason(s, p, task.n) = "signal_dump"
    BY <2>1 DEF s
  <2>6. FarBelowMax(s, p)
    BY <2>5 DEF Reason, FloorReason, NotYet
  <2>7. 100 * p <= TrailFloor(s)
    BY <2>3, <2>4, <2>6, DumpBelowTrail
  <2> QED
    BY <2>1, <2>3, <2>7 DEF s
<1> QED
  BY <1>1, <1>2, NextWhy DEF NotYet

\* The leading signal_dump rule, which is to sell before the trail's give-back
\* completes (adaptive_trail.rs, step(), "it fires *earlier*"), never does, for any
\* price history, as long as trail_pct is at most 30 %: it only renames the exit.
THEOREM DumpIsNeverEarlier == Spec => []DumpNeverBeatsTrail
<1>1. Init => TrailInv /\ DumpNeverBeatsTrail
  BY InitInv DEF Init, DumpNeverBeatsTrail, Idle, NotYet
<1>2. /\ TrailInv /\ DumpNeverBeatsTrail /\ [Next]_trvars
      => (TrailInv /\ DumpNeverBeatsTrail)'
  BY NextInv, NextDump
<1> QED
  BY <1>1, <1>2, PTL DEF Spec

---------------------------------------------------------------------------
(* The reason of an exit holds of the position's history.                  *)

\* What the flags of the state, its peak and the number of the head being worked
\* on say of the position that is open.
Earned ==
    /\ buy # NoBuy => buy.price <= top /\ buy.block <= head
    /\ task.n <= head
    /\ state # NoState => /\ state.peak <= top
                          /\ state.armed => Reached(top, buy.price, ArmPct)
                          /\ state.ratcheted => Reached(top, buy.price, BeAtPct)

\* A higher peak reaches what a lower one did.
LEMMA ReachedMono ==
    ASSUME NEW a \in Nat, NEW b \in Nat, NEW e \in Nat, NEW pct \in Nat,
           a <= b, Reached(a, e, pct)
    PROVE  Reached(b, e, pct)
<1>1. e * (100 + pct) \in Nat
  OBVIOUS
<1> QED
  BY <1>1 DEF Reached

\* The flags after an observation are those of a peak the position has met.
LEMMA SteppedEarned ==
    ASSUME TrailInv, Earned, state # NoState, NEW p \in Nat
    PROVE  LET s == Stepped(state, p, task.n)
           IN  /\ s.entry = buy.price
               /\ s.peak <= Larger(top, p)
               /\ s.armed => Reached(Larger(top, p), buy.price, ArmPct)
               /\ s.ratcheted => Reached(Larger(top, p), buy.price, BeAtPct)
<1> DEFINE s == Stepped(state, p, task.n)
           t == Larger(top, p)
           k == Larger(state.peak, p)
<1>1. /\ state \in TrailStates /\ task.n \in Nat /\ top \in Nat
      /\ buy.price \in Nat /\ state.entry = buy.price /\ state.peak \in Nat
  BY DEF TrailInv, TypeOK, TracksThisBuy, TrailStates
<1>2. s.entry = buy.price /\ s.peak = k
  BY <1>1, SteppedFields
<1>3. t \in Nat /\ k \in Nat /\ k <= t /\ top <= t
  BY <1>1 DEF Earned, Larger
<1>4. /\ s.armed <=> state.armed \/ Reached(k, buy.price, ArmPct)
      /\ s.ratcheted <=> state.ratcheted \/ Reached(k, buy.price, BeAtPct)
  BY <1>1, SteppedFlags
<1>5. /\ state.armed => Reached(top, buy.price, ArmPct)
      /\ state.ratcheted => Reached(top, buy.price, BeAtPct)
  BY DEF Earned
<1> HIDE DEF s, t, k
<1>6. \A pct \in Nat : \A c \in {top, k} :
          Reached(c, buy.price, pct) => Reached(t, buy.price, pct)
  BY <1>1, <1>3, ReachedMono
<1>7. s.armed => Reached(t, buy.price, ArmPct)
  BY <1>4, <1>5, <1>6, PctAssumption
<1>8. s.ratcheted => Reached(t, buy.price, BeAtPct)
  BY <1>4, <1>5, <1>6, PctAssumption
<1> QED
  BY <1>2, <1>3, <1>7, <1>8 DEF s, t

\* Every step keeps what the state says of the position.
LEMMA NextEarned ==
    ASSUME TrailInv, Earned, [Next]_trvars
    PROVE  Earned'
<1>i. /\ TypeOK /\ TracksThisBuy /\ Paid
      /\ task \in Tasks /\ state \in TrailStates
  BY DEF TrailInv, TypeOK, Tasks
<1>t. head \in Nat /\ top \in Nat /\ task.n \in Nat /\ buy.price \in Nat /\ buy.block \in Nat
  BY <1>i DEF TypeOK, Tasks
<1>d. Idle.n = 0
  BY DEF Idle
<1> USE DEF Earned
<1>1. CASE NewHead
  BY <1>1, <1>i, <1>t DEF NewHead, watchvars, histvars
<1>2. CASE Open
  <2>1. PICK e \in Prices : buy' = [price |-> e, block |-> head] /\ top' = e
    BY <1>2 DEF Open
  <2>2. state' = NoState /\ UNCHANGED <<head, task>> /\ e \in Nat
    BY <1>2, <1>i, PricesAssumption DEF Open, watchvars, TracksThisBuy
  <2> QED
    BY <1>t, <2>1, <2>2
<1>3. CASE Tick
  <2>1. PICK n \in 0..head :
           task' = IF buy = NoBuy THEN task
                   ELSE [Idle EXCEPT !.pc = IF state = NoState THEN "init" ELSE "price",
                                     !.n = n]
    BY <1>3 DEF Tick
  <2>2. task'.n <= head
    BY <1>t, <2>1 DEF Idle
  <2>3. UNCHANGED <<head, buy, top, state>>
    BY <1>3 DEF Tick, histvars
  <2> QED
    BY <2>2, <2>3
<1>4. CASE InitFails \/ ExitSold \/ ExitFails
  <2>1. task'.n = 0 /\ UNCHANGED <<head, top>> /\ (state' = state \/ state' = NoState)
    BY <1>4, <1>d DEF InitFails, ExitSold, ExitFails, histvars, Forget
  <2>2. \/ buy' = buy
        \/ buy' = NoBuy /\ state' = NoState
    BY <1>4 DEF InitFails, ExitSold, ExitFails, Forget
  <2> QED
    BY <1>t, <2>1, <2>2
<1>5. CASE InitOk
  <2>1. UNCHANGED <<head, buy, top>> /\ task'.n = task.n /\ task.pc = "init"
    BY <1>5, <1>i DEF InitOk, Tasks
  <2>2. buy # NoBuy
    BY <1>i, <2>1 DEF TracksThisBuy
  <2>3. state'.peak = buy.price /\ ~state'.armed /\ ~state'.ratcheted
    BY <1>5 DEF InitOk, Fresh
  <2> QED
    BY <2>1, <2>2, <2>3
<1>6. CASE NoPrice
  <2>1. task'.n = task.n \/ task'.n = 0
    BY <1>6, <1>i, <1>d DEF NoPrice, Exiting, Tasks
  <2>2. UNCHANGED <<head, buy, top, state>>
    BY <1>6 DEF NoPrice, histvars
  <2> QED
    BY <1>t, <2>1, <2>2
<1>7. CASE Observe
  <2>1. UNCHANGED <<head, buy>> /\ buy # NoBuy /\ state # NoState
    BY <1>7, <1>i DEF Observe, TracksThisBuy, Paid
  <2>2. PICK p \in Nat :
           /\ top' = Larger(top, p)
           /\ state' \in {state, Stepped(state, p, task.n)}
           /\ task' # Idle => \E why, s : Exiting(why, s)
    BY <1>7, <1>i, ObserveCases
  <2>3. task'.n \in {task.n, 0}
    BY <1>i, <1>d, <2>2 DEF Exiting, Tasks
  <2>4. top' \in Nat /\ top <= top'
    BY <1>t, <2>2 DEF Larger
  <2>5. CASE state' = state
    <3>1. state.peak \in Nat /\ state.peak <= top'
      BY <1>i, <1>t, <2>1, <2>4 DEF TrailStates
    <3>2. /\ state.armed => Reached(top', buy.price, ArmPct)
          /\ state.ratcheted => Reached(top', buy.price, BeAtPct)
      BY <1>t, <2>1, <2>4, ReachedMono, PctAssumption
    <3> QED
      BY <1>t, <2>1, <2>3, <2>4, <2>5, <3>1, <3>2
  <2>6. CASE state' = Stepped(state, p, task.n)
    <3>1. /\ state'.peak <= top'
          /\ state'.armed => Reached(top', buy.price, ArmPct)
          /\ state'.ratcheted => Reached(top', buy.price, BeAtPct)
      BY <2>1, <2>2, <2>6, SteppedEarned
    <3> QED
      BY <1>t, <2>1, <2>3, <2>4, <3>1
  <2> QED
    BY <2>2, <2>5, <2>6
<1>8. CASE UNCHANGED trvars
  BY <1>8 DEF trvars, watchvars, histvars
<1> QED
  BY <1>1, <1>2, <1>3, <1>4, <1>5, <1>6, <1>7, <1>8 DEF Next

\* Why step() said so: each reason, from the state it was given.
LEMMA ReasonCases ==
    ASSUME NEW s \in TrailStates, NEW p \in Nat, NEW n \in Nat
    PROVE  /\ Reason(s, p, n) = "hard_sl" => 100 * p <= HardFloor(s)
           /\ Reason(s, p, n) = "be_locked" => s.ratcheted /\ 100 * p <= LockFloor(s)
           /\ Reason(s, p, n) \in {"signal_dump", "trail"} => s.armed
           /\ Reason(s, p, n) = "trail" => 100 * p <= TrailFloor(s)
           /\ Reason(s, p, n) = "timeout" => Age(s, n) >= MaxHold
           /\ Reason(s, p, n) # "signal_vote"
<1>1. HardFloor(s) \in Int /\ LockFloor(s) \in Int
  BY PctAssumption DEF HardFloor, LockFloor, TrailStates
<1>2. CASE 100 * p <= EffectiveFloor(s)
  <2>1. Reason(s, p, n) = FloorReason(s)
    BY <1>2 DEF Reason
  <2>2. CASE s.ratcheted /\ LockFloor(s) > HardFloor(s)
    BY <1>1, <1>2, <2>1, <2>2 DEF FloorReason, EffectiveFloor, Larger
  <2>3. CASE ~(s.ratcheted /\ LockFloor(s) > HardFloor(s))
    <3>1. Reason(s, p, n) = "hard_sl"
      BY <2>1, <2>3 DEF FloorReason
    <3>2. EffectiveFloor(s) = HardFloor(s)
      BY <1>1, <2>3 DEF EffectiveFloor, Larger
    <3> QED
      BY <1>2, <3>1, <3>2
  <2> QED
    BY <2>2, <2>3
<1>3. CASE ~(100 * p <= EffectiveFloor(s))
  BY <1>3 DEF Reason, Warm, NotYet
<1> QED
  BY <1>2, <1>3

\* Every step keeps the reasons true.
LEMMA NextReasons ==
    ASSUME TrailInv, Earned, ExitReasonsHold, [Next]_trvars
    PROVE  ExitReasonsHold'
<1>i. /\ TypeOK /\ TracksThisBuy /\ Paid
      /\ task \in Tasks /\ state \in TrailStates
  BY DEF TrailInv, TypeOK, Tasks
<1>t. head \in Nat /\ top \in Nat /\ task.n \in Nat /\ buy.price \in Nat /\ buy.block \in Nat
  BY <1>i DEF TypeOK, Tasks
<1>b. MaxHold \in Nat
  BY BoundAssumption
<1>a. ASSUME NEW n \in Nat, n <= head, buy # NoBuy, state # NoState, Age(state, n) >= MaxHold
      PROVE  head >= buy.block + MaxHold
  <2>1. state.opened = buy.block /\ buy.block <= head
    BY <1>i, <1>a DEF TracksThisBuy, Earned
  <2> QED
    BY <1>a, <1>b, <1>t, <2>1 DEF Age
<1>1. CASE task'.pc # "exit"
  BY <1>1 DEF ExitReasonsHold
<1>2. CASE task.pc = "exit" /\ UNCHANGED <<task, buy, top>> /\ head' \in {head, head + 1}
  BY <1>2, <1>b, <1>t DEF ExitReasonsHold
<1>3. CASE NoPrice
  <2>1. UNCHANGED <<head, buy, top>> /\ buy # NoBuy /\ state # NoState
    BY <1>3, <1>i DEF NoPrice, TracksThisBuy, Paid, histvars
  <2>2. CASE Age(state, task.n) >= MaxHold /\ Exiting("timeout", state)
    <3>1. task'.why = "timeout"
      BY <1>i, <2>2, ExitingFields
    <3>2. head' >= buy'.block + MaxHold
      BY <1>a, <1>t, <2>1, <2>2 DEF Earned
    <3> QED
      BY <3>1, <3>2 DEF ExitReasonsHold
  <2>3. CASE task' = Idle
    BY <1>1, <2>3 DEF Idle
  <2> QED
    BY <1>3, <2>2, <2>3 DEF NoPrice
<1>4. CASE Observe
  <2>1. UNCHANGED <<head, buy>> /\ buy # NoBuy /\ state # NoState
    BY <1>4, <1>i DEF Observe, TracksThisBuy, Paid
  <2>2. PICK p \in Prices, flow \in 0..2 :
        LET s == Stepped(state, p, task.n)
            why == Reason(s, p, task.n)
        IN  /\ top' = Larger(top, p)
            /\ IF VoteExit(state, p, flow)
               THEN /\ Exiting("signal_vote", [state EXCEPT !.last = p])
                    /\ UNCHANGED <<state, recent>>
               ELSE IF why # NotYet
               THEN /\ Exiting(why, s)
                    /\ UNCHANGED <<state, recent>>
               ELSE /\ state' = s
                    /\ recent' = Pushed(recent, p)
                    /\ task' = Idle
    BY <1>4 DEF Observe
  <2>3. p \in Nat
    BY PricesAssumption
  <2>4. CASE VoteExit(state, p, flow)
    <3>1. task'.why = "signal_vote"
      BY <1>i, <2>2, <2>4, ExitingFields
    <3>2. Reached(top, buy.price, ArmPct)
      BY <2>1, <2>4 DEF VoteExit, Warm, Earned
    <3>3. top' \in Nat /\ top <= top'
      BY <1>t, <2>2, <2>3 DEF Larger
    <3>4. Reached(top', buy'.price, ArmPct)
      BY <1>t, <2>1, <3>2, <3>3, ReachedMono, PctAssumption
    <3> QED
      BY <3>1, <3>4 DEF ExitReasonsHold
  <2> DEFINE s == Stepped(state, p, task.n)
             why == Reason(s, p, task.n)
  <2>5. CASE ~VoteExit(state, p, flow) /\ why # NotYet
    <3>1. top' = Larger(top, p) /\ Exiting(why, s)
      BY <2>2, <2>5
    <3>2. task'.why = why /\ task'.at = s
      BY <1>i, <3>1, ExitingFields
    <3>3. s \in TrailStates /\ s.last = p /\ s.opened = state.opened
      <4>1. state \in TrailStates /\ p \in Nat /\ task.n \in Nat
        BY <1>i, <1>t, <2>3
      <4> HIDE DEF why
      <4> QED
        BY <4>1, SteppedFields
    <3>4. /\ s.entry = buy.price
          /\ s.peak <= top'
          /\ s.armed => Reached(top', buy.price, ArmPct)
          /\ s.ratcheted => Reached(top', buy.price, BeAtPct)
      BY <2>1, <2>3, <3>1, SteppedEarned
    <3>5. why = "timeout" => head >= buy.block + MaxHold
      <4>1. why = "timeout" => Age(s, task.n) >= MaxHold
        BY <1>t, <2>3, <3>3, ReasonCases
      <4>2. Age(s, task.n) = Age(state, task.n)
        BY <3>3 DEF Age
      <4> QED
        BY <1>a, <1>t, <2>1, <4>1, <4>2 DEF Earned
    <3>6. /\ why = "hard_sl" => 100 * p <= HardFloor(s)
          /\ why = "be_locked" => s.ratcheted /\ 100 * p <= LockFloor(s)
          /\ why \in {"signal_dump", "trail"} => s.armed
          /\ why = "trail" => 100 * p <= TrailFloor(s)
          /\ why # "signal_vote"
      BY <1>t, <2>3, <3>3, ReasonCases
    <3>7. s.peak * (100 - TrailPct) <= top' * (100 - TrailPct)
      <4>1. s.peak \in Nat /\ top' \in Nat /\ 100 - TrailPct \in Nat
        BY <1>t, <2>3, <3>1, <3>3, PctAssumption DEF TrailStates, Larger
      <4>2. (100 - TrailPct) * s.peak <= (100 - TrailPct) * top'
        BY <3>4, <4>1, ScaleMono
      <4> QED
        BY <4>1, <4>2
    <3> HIDE DEF s, why
    <3>8. why = "trail" => 100 * p <= top' * (100 - TrailPct)
      <4>1. /\ s.peak * (100 - TrailPct) \in Int /\ top' * (100 - TrailPct) \in Int
            /\ 100 * p \in Int
        BY <1>t, <2>3, <3>1, <3>3, PctAssumption DEF TrailStates, Larger
      <4> QED
        BY <3>6, <3>7, <4>1 DEF TrailFloor
    <3> QED
      BY <2>1, <3>2, <3>3, <3>4, <3>5, <3>6, <3>8 DEF ExitReasonsHold, HardFloor, LockFloor
  <2>6. CASE ~VoteExit(state, p, flow) /\ why = NotYet
    BY <1>1, <2>2, <2>6 DEF Idle
  <2> QED
    BY <2>4, <2>5, <2>6
<1>5. CASE NewHead
  <2>1. UNCHANGED <<task, buy, top>> /\ head' = head + 1
    BY <1>5 DEF NewHead, watchvars, histvars
  <2> QED
    BY <1>1, <1>2, <2>1
<1>6. CASE Open
  BY <1>1, <1>6, <1>i DEF Open, watchvars, TracksThisBuy
<1>7. CASE Tick \/ InitFails \/ InitOk \/ ExitSold \/ ExitFails
  <2>1. CASE Tick
    <3>1. task'.pc \in {"idle", "init", "price"}
      BY <2>1 DEF Tick, Idle
    <3> QED
      BY <1>1, <3>1
  <2>2. CASE InitOk
    BY <1>1, <1>i, <2>2 DEF InitOk, Tasks
  <2>3. CASE InitFails \/ ExitSold \/ ExitFails
    BY <1>1, <2>3 DEF InitFails, ExitSold, ExitFails, Idle
  <2> QED
    BY <1>7, <2>1, <2>2, <2>3
<1>8. CASE UNCHANGED trvars
  BY <1>1, <1>2, <1>8 DEF trvars, watchvars, histvars
<1> QED
  BY <1>3, <1>4, <1>5, <1>6, <1>7, <1>8 DEF Next

\* The reason an exit is called with is true of the position since it was opened,
\* for every price path, with states lost and made again after failed exits.
THEOREM ReasonsHold == Spec => []ExitReasonsHold
<1> DEFINE I == TrailInv /\ Earned /\ ExitReasonsHold
<1>1. Init => I
  <2> SUFFICES ASSUME Init PROVE Earned /\ ExitReasonsHold
    BY InitInv
  <2> QED
    BY DEF Init, Earned, ExitReasonsHold, Idle
<1>2. I /\ [Next]_trvars => I'
  BY NextInv, NextEarned, NextReasons
<1>3. I => ExitReasonsHold
  OBVIOUS
<1> HIDE DEF I
<1> QED
  BY <1>1, <1>2, <1>3, PTL DEF Spec

---------------------------------------------------------------------------
(* The watcher and the executor it assumes implement ReadyPosition.        *)

\* A position that is held has been counted.
Numbered == buy # NoBuy => buys > 0

LEMMA NextNumbered ==
    ASSUME TrailInv, Numbered, [Next]_trvars
    PROVE  Numbered'
<1>i. buys \in Nat
  BY DEF TrailInv, TypeOK
<1>1. CASE Open
  BY <1>i, <1>1 DEF Open, Numbered
<1>2. CASE ExitSold
  BY <1>2 DEF ExitSold, Numbered
<1>3. CASE NewHead \/ Tick \/ InitFails \/ InitOk \/ NoPrice \/ Observe \/ ExitFails
           \/ UNCHANGED trvars
  <2>1. buy' = buy /\ buys' = buys
    BY <1>3 DEF NewHead, Tick, InitFails, InitOk, NoPrice, Observe, ExitFails, trvars
  <2> QED
    BY <2>1 DEF Numbered
<1> QED
  BY <1>1, <1>2, <1>3 DEF Next

\* The contract's exiting, mapped.
InExit == task.pc = "exit"

\* A step that neither opens a position nor ends an exit leaves the view alone and
\* may only begin an exit of the position that is shown.
LEMMA WatcherStep ==
    ASSUME TrailInv, Numbered,
           NewHead \/ Tick \/ InitFails \/ InitOk \/ NoPrice \/ Observe \/ UNCHANGED trvars
    PROVE  /\ buy' = buy /\ buys' = buys
           /\ \/ InExit' = InExit
              \/ buy # NoBuy /\ ~InExit /\ InExit'
<1>i. TypeOK /\ TracksThisBuy /\ task \in Tasks
  BY DEF TrailInv, TypeOK, Tasks
<1>d. Idle.pc = "idle"
  BY DEF Idle
<1> USE DEF InExit
<1>1. CASE NewHead \/ UNCHANGED trvars
  BY <1>1 DEF NewHead, trvars, watchvars
<1>2. CASE Tick
  <2>1. buy' = buy /\ buys' = buys /\ task.pc = "idle"
    BY <1>2 DEF Tick
  <2>2. task' = task \/ task'.pc \in {"init", "price"}
    BY <1>2 DEF Tick, Idle
  <2> QED
    BY <2>1, <2>2
<1>3. CASE InitFails
  BY <1>3, <1>d DEF InitFails
<1>4. CASE InitOk
  <2>1. task'.pc = "price"
    BY <1>4, <1>i DEF InitOk, Tasks
  <2> QED
    BY <1>4, <2>1 DEF InitOk
<1>5. CASE NoPrice
  <2>1. task.pc = "price" /\ buy' = buy /\ buys' = buys
    BY <1>5 DEF NoPrice
  <2>2. task'.pc \in {"idle", "exit"}
    BY <1>5, <1>i, <1>d, ExitingFields DEF NoPrice
  <2>3. buy # NoBuy
    BY <1>i, <2>1 DEF TracksThisBuy
  <2> QED
    BY <2>1, <2>2, <2>3
<1>6. CASE Observe
  <2>1. task.pc = "price" /\ buy' = buy /\ buys' = buys
    BY <1>6 DEF Observe
  <2>2. task'.pc \in {"idle", "exit"}
    BY <1>6, <1>i, <1>d, ObserveCases, ExitingFields
  <2>3. buy # NoBuy
    BY <1>i, <2>1 DEF TracksThisBuy
  <2> QED
    BY <2>1, <2>2, <2>3
<1> QED
  BY <1>1, <1>2, <1>3, <1>4, <1>5, <1>6

LEMMA ContractInit == Init => Contract!Init
<1> SUFFICES ASSUME Init PROVE Contract!Init
  OBVIOUS
<1>1. task.pc # "exit" /\ buys = 0 /\ buy = NoBuy
  BY DEF Init, Idle
<1>2. (buys + 1)..MaxBuys \subseteq (0..MaxBuys) \ {0}
  BY <1>1, BoundAssumption
<1> QED
  BY <1>1, <1>2 DEF Contract!Init

\* Every step of the watcher and of the executor it assumes is one of the contract.
LEMMA ContractStep ==
    ASSUME TrailInv, Numbered, [Next]_trvars
    PROVE  [Contract!Next]_(Contract!rpvars)
<1>i. /\ TypeOK /\ TracksThisBuy /\ buys \in Nat
      /\ buy # NoBuy => buys > 0
  BY DEF TrailInv, TypeOK, Numbered
<1>d. Idle.pc = "idle"
  BY DEF Idle
<1>1. CASE NewHead \/ Tick \/ InitFails \/ InitOk \/ NoPrice \/ Observe \/ UNCHANGED trvars
  <2>1. /\ buy' = buy /\ buys' = buys
        /\ \/ InExit' = InExit
           \/ buy # NoBuy /\ ~InExit /\ InExit'
    BY <1>1, WatcherStep
  <2>2. CASE InExit' = InExit
    BY <2>1, <2>2 DEF Contract!rpvars, InExit
  <2>3. CASE buy # NoBuy /\ ~InExit /\ InExit'
    <3>1. Contract!StartExit
      BY <1>i, <2>1, <2>3 DEF Contract!StartExit, InExit
    <3> QED
      BY <3>1 DEF Contract!Next
  <2> QED
    BY <2>1, <2>2, <2>3
<1>2. CASE Open
  <2>1. /\ buy = NoBuy /\ buys < MaxBuys /\ buys' = buys + 1
        /\ task' = task /\ task.pc = "idle"
    BY <1>2, <1>i DEF Open, watchvars, TracksThisBuy
  <2>2. buy' # NoBuy
    <3>1. PICK e \in Prices : buy' = [price |-> e, block |-> head]
      BY <1>2 DEF Open
    <3>2. e # 0
      BY PricesAssumption
    <3>3. buy'.price = e /\ NoBuy.price = 0
      BY <3>1 DEF NoBuy
    <3> QED
      BY <3>2, <3>3
  <2>3. buys' \in (buys + 1)..MaxBuys
    BY <1>i, <2>1, BoundAssumption
  <2>4. (buys' + 1)..MaxBuys \subseteq ((buys + 1)..MaxBuys) \ {buys'}
    BY <1>i, <2>1, BoundAssumption
  <2>5. Contract!Appear
    BY <2>1, <2>2, <2>3, <2>4 DEF Contract!Appear
  <2> QED
    BY <2>5 DEF Contract!Next
<1>3. CASE ExitSold
  <2>1. task.pc = "exit" /\ task'.pc = "idle" /\ buy' = NoBuy /\ buys' = buys
    BY <1>3, <1>d DEF ExitSold
  <2>2. Contract!EndExit
    BY <2>1 DEF Contract!EndExit
  <2> QED
    BY <2>2 DEF Contract!Next
<1>4. CASE ExitFails
  <2>1. task.pc = "exit" /\ task'.pc = "idle" /\ buy' = buy /\ buys' = buys
    BY <1>4, <1>d DEF ExitFails
  <2>2. Contract!EndExit
    BY <2>1 DEF Contract!EndExit
  <2> QED
    BY <2>2 DEF Contract!Next
<1> QED
  BY <1>1, <1>2, <1>3, <1>4 DEF Next

\* The trail watcher, for any prices, percentages and bounds, with the executor it
\* assumes, implements the contract of position_snapshot and execute_exit.
THEOREM TrailImplementsContract == Spec => KeepsTrailContract
<1>1. Init => TrailInv /\ Numbered
  BY InitInv DEF Init, Numbered
<1>2. TrailInv /\ Numbered /\ [Next]_trvars => (TrailInv /\ Numbered)'
  BY NextInv, NextNumbered
<1>3. TrailInv /\ Numbered /\ [Next]_trvars => [Contract!Next]_(Contract!rpvars)
  BY ContractStep
<1> QED
  BY <1>1, <1>2, <1>3, ContractInit, PTL DEF Spec, KeepsTrailContract, Contract!Spec
===========================================================================
