----------------------------- MODULE DevSniper ----------------------------
(***************************************************************************)
(* The launchpad sniper (dev_sniper.rs): a detection task that turns the   *)
(* TokenCreate logs of trusted creators into positions, and a trail loop   *)
(* that evaluates every position at each new head and drops it on exit.    *)
(*                                                                         *)
(* The two tasks share the map of positions, under a lock that neither     *)
(* keeps across an await.  Block numbers matter only as differences, so    *)
(* they are kept relative to the head the trail loop last took: a          *)
(* position's age is that head minus its opened_block.  What step() makes  *)
(* of a price is AdaptiveTrail's subject; here it may exit or keep as it   *)
(* likes, but for the timeout.                                             *)
(***************************************************************************)
EXTENDS Integers

CONSTANTS
    Tokens,     \* tokens created by whitelisted developers
    MaxHold,    \* max_hold_blocks
    MaxLag,     \* bound: blocks between a log and the trail loop's head
    MaxGap,     \* bound: how far apart two heads are that the loop gets in a row
    MaxSnipes   \* bound: positions opened

ASSUME SniperAssumption ==
    /\ MaxHold \in Nat \ {0, 1}
    /\ MaxLag \in 0..MaxHold /\ MaxGap \in Nat \ {0}
    /\ MaxSnipes \in Nat

None == 0
Snipes == 1..MaxSnipes      \* one SnipePosition object per insertion
Ages == (-MaxLag)..MaxHold  \* from MaxHold on, ages are not told apart

VARIABLES
    detect,     \* handle_log: idle, or between its duplicate guard and its insertion
    positions,  \* the shared map: token -> position, or None
    snipe,      \* the SnipePosition objects
    process,    \* process_sniper_position of each position, at the current head
    kept,       \* history: evaluations, at heads from its block on, that kept a position
    opened      \* counter for the bound

snvars == <<detect, positions, snipe, process, kept, opened>>

Quiet == [pc |-> "idle", tok |-> None, age |-> 0]

\* A position: its token, its age, whether it has a TrailState, and that state's age.
NoSnipe == [tok |-> None, age |-> 0, priced |-> FALSE, trail |-> 0]

SniperInit ==
    /\ detect = Quiet
    /\ positions = [k \in Tokens |-> None]
    /\ snipe = [g \in Snipes |-> NoSnipe]
    /\ process = [g \in Snipes |-> "idle"]
    /\ kept = [g \in Snipes |-> 0]
    /\ opened = 0

---------------------------------------------------------------------------
(* handle_log.                                                             *)

\* Mutant: nothing is ever a duplicate.
SnipedNever(k) == FALSE

\* The guard: the token has a position.
Sniped(k) == positions[k] # None

\* A log with a whitelisted creator and a size gets past the guard.  The node may
\* deliver it before or after the trail loop has the block, may repeat it after a
\* reorganisation, and a log without a block number counts as one of block 0.
Detect(k) ==
    /\ detect.pc = "idle"
    /\ ~Sniped(k)
    /\ opened < MaxSnipes
    /\ \E a \in (-MaxLag)..MaxLag \cup {MaxHold} :
           detect' = [pc |-> "buying", tok |-> k, age |-> a]
    /\ UNCHANGED <<positions, snipe, process, kept, opened>>

\* mode = "live" without an executor, or execute fails: no position.
BuyFails ==
    /\ detect.pc = "buying"
    /\ detect' = Quiet
    /\ UNCHANGED <<positions, snipe, process, kept, opened>>

\* A paper snipe, or execute returned: the position is inserted.
Insert ==
    /\ detect.pc = "buying"
    /\ opened' = opened + 1
    /\ snipe' = [snipe EXCEPT ![opened + 1] =
                     [tok |-> detect.tok, age |-> detect.age, priced |-> FALSE, trail |-> 0]]
    /\ positions' = [positions EXCEPT ![detect.tok] = opened + 1]
    /\ detect' = Quiet
    /\ UNCHANGED <<process, kept>>

---------------------------------------------------------------------------
(* sniper_trail_loop and process_sniper_position.                          *)

Older(a, d) == IF a + d < MaxHold THEN a + d ELSE MaxHold

Watched(g) == \E k \in Tokens : positions[k] = g

\* Position g, seen from a head d blocks on.
Aged(g, d) ==
    [snipe[g] EXCEPT !.age = Older(@, d),
                     !.trail = IF snipe[g].priced THEN Older(@, d) ELSE @]

\* The next head, perhaps after some that were lost with a connection: a snapshot of
\* the map, and one task for each of its positions.  The loop takes a head only when
\* the tasks of the one before are done.
NextHead ==
    /\ \A g \in Snipes : process[g] = "idle"
    /\ process' = [g \in Snipes |-> IF Watched(g) THEN "evaluate" ELSE "idle"]
    /\ \E d \in 1..MaxGap :
        /\ snipe' = [g \in Snipes |-> IF Watched(g) THEN Aged(g, d) ELSE snipe[g]]
        /\ detect' = IF detect.pc = "idle" THEN detect
                     ELSE [detect EXCEPT !.age = Older(@, d)]
    /\ UNCHANGED <<positions, kept, opened>>

\* The position stays in the map and the task ends.
Keep(g) ==
    /\ process' = [process EXCEPT ![g] = "idle"]
    /\ kept' = IF snipe[g].age >= 0 THEN [kept EXCEPT ![g] = @ + 1] ELSE kept

Drop(g) ==
    /\ process' = [process EXCEPT ![g] = "remove"]
    /\ UNCHANGED kept

\* No price in all the time a position may be held.
DeadLaunch(g) == snipe[g].age >= MaxHold

NoPriceYet(g) ==
    /\ process[g] = "evaluate"
    /\ ~snipe[g].priced
    /\ IF DeadLaunch(g) THEN Drop(g) ELSE Keep(g)
    /\ UNCHANGED <<detect, positions, snipe, opened>>

\* Mutant: the trail's clock starts at the head itself.
TrailAgeNow(a) == IF a < 0 THEN a ELSE 0

\* The TrailState's opened_block is the later of the position's and the block
\* before this head.
TrailAge(a) == IF a < 1 THEN a ELSE 1

FirstPrice(g) ==
    /\ process[g] = "evaluate"
    /\ ~snipe[g].priced
    /\ snipe' = [snipe EXCEPT ![g].priced = TRUE, ![g].trail = TrailAge(snipe[g].age)]
    /\ Keep(g)
    /\ UNCHANGED <<detect, positions, opened>>

\* step() with a new price or, lacking one, the last: past max_hold_blocks it always
\* exits.
Step(g) ==
    /\ process[g] = "evaluate"
    /\ snipe[g].priced
    /\ \/ snipe[g].trail < MaxHold /\ Keep(g)
       \/ Drop(g)
    /\ UNCHANGED <<detect, positions, snipe, opened>>

\* Mutant: the exit is logged and the position stays.
RemoveNothing(g) ==
    /\ process[g] = "remove"
    /\ process' = [process EXCEPT ![g] = "idle"]
    /\ UNCHANGED <<detect, positions, snipe, kept, opened>>

\* The map forgets the token, whichever position it has by then.
Remove(g) ==
    /\ process[g] = "remove"
    /\ positions' = [positions EXCEPT ![snipe[g].tok] = None]
    /\ process' = [process EXCEPT ![g] = "idle"]
    /\ UNCHANGED <<detect, snipe, kept, opened>>

---------------------------------------------------------------------------
Process(g) == NoPriceYet(g) \/ FirstPrice(g) \/ Step(g) \/ Remove(g)

SniperNext ==
    \/ \E k \in Tokens : Detect(k)
    \/ BuyFails \/ Insert
    \/ NextHead
    \/ \E g \in Snipes : Process(g)

SniperSpec == SniperInit /\ [][SniperNext]_snvars

\* Heads keep coming (the loop reconnects for ever) and evaluations end; nothing is
\* assumed of logs, buys and prices.
SniperFairness ==
    /\ WF_snvars(NextHead)
    /\ \A g \in Snipes : WF_snvars(Process(g))

SniperFairSpec == SniperSpec /\ SniperFairness

---------------------------------------------------------------------------
\* Types of the sniper's state.
SniperTypeOK ==
    /\ detect \in [pc: {"idle", "buying"}, tok: Tokens \cup {None}, age: Ages]
    /\ positions \in [Tokens -> Snipes \cup {None}]
    /\ snipe \in [Snipes -> [tok: Tokens \cup {None}, age: Ages, priced: BOOLEAN, trail: Ages]]
    /\ process \in [Snipes -> {"idle", "evaluate", "remove"}]
    /\ kept \in [Snipes -> Nat]
    /\ opened \in 0..MaxSnipes

\* dev_sniper.rs, the duplicate guard of handle_log and the removal by key of
\* process_sniper_position: a position under evaluation is the one the map has for
\* its token, so a removal never drops a newer position of the token, although the
\* guard, the insertion and the removal lock the map separately.
EvaluatedIsMapped ==
    \A g \in Snipes : process[g] # "idle" => positions[snipe[g].tok] = g

\* dev_sniper.rs, process_sniper_position: a position outlives its max_hold_blocks,
\* because the trail's own clock starts at the first price, but never twice over: at
\* most 2 * max_hold_blocks - 1 heads from its block on leave it in the map (heads
\* that a reorganisation repeats are not counted).
HoldBounded == \A g \in Snipes : kept[g] <= 2 * MaxHold - 1

\* "Drop it so the positions map doesn't grow forever" (process_sniper_position):
\* every position leaves the map, whether a price is ever seen or not.
EverySnipeEnds == \A g \in Snipes : Watched(g) ~> ~Watched(g)
===========================================================================
