--------------------------- MODULE LiveExecutor ---------------------------
(***************************************************************************)
(* The live trading executor (trader/executor_live.rs): the position cache,*)
(* the buy pipeline (execute), the background finaliser of each buy        *)
(* (BgPrep::finalize_position), the sell pipeline (execute_exit) with its  *)
(* per-token lock, and the open-position counter of live_ledger.rs.        *)
(*                                                                         *)
(* Buyers, exits and finalisers are tokio tasks; each definition below is  *)
(* one stretch of code between two awaits.  The wallet's transactions wait *)
(* in one queue and are mined in the order they were sent.  Token amounts  *)
(* are counted in units, BuyUnits per buy.                                 *)
(***************************************************************************)
EXTENDS Integers, Sequences, FiniteSets

CONSTANTS
    Tokens,
    Buyers,       \* tasks that call execute: the consumer of start_live_only
    Exiters,      \* tasks that call execute_exit: the consumer's calls, the trail's
    OneConsumer,  \* TRUE when a single task makes every call and awaits each: the
                  \* consumer with the trail off.  FALSE lets calls run concurrently,
                  \* which is what the per-token exit lock is documented to allow
    Settings,     \* how the process may be started: configuration, and the units of
                  \* each token that the wallet still holds from earlier
    BuyUnits,     \* tokens received for one buy
    MaxOpen,      \* limits.max_open_positions
    MaxBuys,      \* bound: buys submitted
    MaxExits,     \* bound: calls of execute_exit
    MaxCrashes,   \* bound: process restarts
    MaxEvents     \* bound: the three together

ASSUME ConstantsAssumption ==
    /\ Settings \subseteq [broadcast: BOOLEAN, trail: BOOLEAN, stock: Nat]
    /\ OneConsumer \in BOOLEAN
    /\ BuyUnits \in Nat \ {0}
    /\ MaxOpen \in Nat
    /\ MaxBuys \in Nat
    /\ MaxExits \in Nat
    /\ MaxCrashes \in Nat /\ MaxEvents \in Nat

\* Buys are made by the one consumer task of start_live_only; a process watches a
\* finite number of tokens.
ASSUME TasksAssumption ==
    /\ \A b, c \in Buyers : b = c
    /\ IsFiniteSet(Tokens)

Routes == {"FourMeme", "PancakeV2"}
Gens == 1..MaxBuys          \* one PositionEntry object per buy
None == 0                   \* no entry in the map
NoOne == "free"

ASSUME NamesAssumption == None \notin Tokens /\ NoOne \notin Exiters

VARIABLES
    \* the process
    positions,   \* token -> the entry the map holds, or None
    entry,       \* gen -> [amt, approved, route]: PositionEntry objects
    exit_locks,  \* token -> the exit that holds the token's mutex, or NoOne
    open_count,  \* LiveLedger.open_count
    buyer, exiter, bg,   \* state of the tasks
    \* the chain (external)
    mempool,     \* the wallet's pending transactions, in nonce order
    bal,         \* token -> units the wallet holds
    allowance,   \* token -> routes approved to spend it
    venue,       \* token -> where it trades
    bought,      \* gens whose buy receipt is a success
    approvals,   \* gens whose background approve receipt is a success
    \* history
    inflight,    \* token -> units in pending sells
    slowSold,    \* tokens sold at least once through the slow path
    landed,      \* tokens with a sell that reached the chain although it was refused
    halved,      \* partial sells counted as closed since the start
    buys, exits, crashes,  \* counters for the bounds
    setting      \* how the process was started; never changed

procvars == <<positions, entry, exit_locks, open_count, buyer, exiter, bg>>
chainvars == <<mempool, bal, allowance, venue, bought, approvals>>
histvars == <<inflight, slowSold, landed, halved, buys, exits, crashes, setting>>
levars == <<procvars, chainvars, histvars>>

\* limits.broadcast_enabled(): FALSE in the shadow phase.
Broadcasting == setting.broadcast

\* trail_cfg.enabled: only the trail watcher calls execute_exit.
TrailActive == setting.trail

\* Within the joint bound.
More == buys + exits + crashes < MaxEvents

\* fast: the exit relies on the amount it read from the cache.
NoBuy == [pc |-> "idle", tok |-> None, gen |-> None, route |-> "FourMeme", n_open |-> 0]
NoExit == [pc |-> "idle", tok |-> None, full |-> TRUE, our |-> 0, amt |-> 0,
           route |-> "FourMeme", fast |-> FALSE, gen |-> None]
NoBg == [pc |-> "none", tok |-> None, read |-> 0]
NoEntry == [amt |-> 0, approved |-> FALSE, route |-> "FourMeme"]

Init ==
    /\ setting \in Settings
    /\ positions = [k \in Tokens |-> None]
    /\ entry = [g \in Gens |-> NoEntry]
    /\ exit_locks = [k \in Tokens |-> NoOne]
    /\ open_count = 0
    /\ buyer = [b \in Buyers |-> NoBuy]
    /\ exiter = [x \in Exiters |-> NoExit]
    /\ bg = [g \in Gens |-> NoBg]
    /\ mempool = <<>>
    /\ bal = [k \in Tokens |-> setting.stock]
    /\ allowance = [k \in Tokens |-> {}]
    /\ venue \in [Tokens -> Routes]
    /\ bought = {}
    /\ approvals = {}
    /\ inflight = [k \in Tokens |-> 0]
    /\ slowSold = {}
    /\ landed = {}
    /\ halved = 0
    /\ buys = 0
    /\ exits = 0
    /\ crashes = 0

---------------------------------------------------------------------------
(* Shared pieces.                                                          *)

\* The three cache states that execute and execute_exit tell apart.
Ready(e) == e.amt > 0 /\ e.approved
FullyExited(e) == e.amt = 0 /\ e.approved

\* What pick_route may answer for a sell, besides nothing: the venue, or, while a
\* negative pair lookup is cached, Four.Meme, whose probe rejects only tokens it
\* never knew.
SellRoutes(k) == {venue[k], "FourMeme"}

\* scale_u256_by_fraction for the one partial fraction modelled, one half.
Half(n) == n \div 2

\* A buy goes through or reverts whatever its route; only sells and approves name theirs.
AnyRoute == "FourMeme"

\* broadcast(): the node is the only gate, but the bundle relays also get the
\* transaction, so a refused one may still be mined.
Outcomes == {"accepted", "refused", "landed"}
Sent(o) == o # "refused"
Queue(tx, o) == mempool' = IF Sent(o) THEN Append(mempool, tx) ELSE mempool

---------------------------------------------------------------------------
(* execute(): buys.                                                        *)

\* Mutant: an entry still being finalised does not count as held.
HeldIfFilled(k) == positions[k] # None /\ entry[positions[k]].amt > 0

\* HOLDING, as the duplicate-entry guard sees it.
Held(k) == positions[k] # None /\ ~FullyExited(entry[positions[k]])

\* The duplicate-entry guard reads the cache and the consumer's open count.
BuyStart(b) ==
    /\ buyer[b].pc = "idle"
    /\ buys < MaxBuys /\ More
    /\ OneConsumer => \A x \in Exiters : exiter[x].pc = "idle"
    /\ \E k \in Tokens :
        /\ ~Held(k)    \* otherwise execute returns: position already open
        /\ buyer' = [buyer EXCEPT ![b] =
               [NoBuy EXCEPT !.pc = IF positions[k] = None THEN "gate" ELSE "clear",
                             !.tok = k, !.n_open = open_count]]
    /\ UNCHANGED <<positions, entry, exit_locks, open_count, exiter, bg, chainvars, histvars>>

\* The stale "fully exited" entry is removed from the map.
BuyClear(b) ==
    /\ buyer[b].pc = "clear"
    /\ positions' = [positions EXCEPT ![buyer[b].tok] = None]
    /\ buyer' = [buyer EXCEPT ![b].pc = "gate"]
    /\ UNCHANGED <<entry, exit_locks, open_count, exiter, bg, chainvars, histvars>>

\* Sizing, blacklist, limits, route and sell-tax gates: each may end the buy.
BuySkip(b) ==
    /\ buyer[b].pc = "gate"
    /\ buyer' = [buyer EXCEPT ![b] = NoBuy]
    /\ UNCHANGED <<positions, entry, exit_locks, open_count, exiter, bg, chainvars, histvars>>

BuyPass(b) ==
    /\ buyer[b].pc = "gate"
    /\ buyer[b].n_open < MaxOpen
    /\ buyer' = [buyer EXCEPT ![b].pc = "submit", ![b].n_open = 0,
                              ![b].route = venue[buyer[b].tok]]
    /\ UNCHANGED <<positions, entry, exit_locks, open_count, exiter, bg, chainvars, histvars>>

\* Reserve, sign and broadcast; a refused broadcast ends the buy.
BuySubmit(b) ==
    /\ buyer[b].pc = "submit"
    /\ Broadcasting
    /\ buys < MaxBuys /\ More
    /\ \E o \in Outcomes :
        /\ Queue([kind |-> "buy", tok |-> buyer[b].tok, amt |-> BuyUnits,
                  gen |-> buys + 1, route |-> AnyRoute], o)
        /\ buyer' = [buyer EXCEPT ![b] =
               IF o = "accepted" THEN [@ EXCEPT !.pc = "count", !.gen = buys + 1] ELSE NoBuy]
    /\ buys' = buys + 1
    /\ UNCHANGED <<positions, entry, exit_locks, open_count, exiter, bg, bal, allowance,
                   venue, bought, approvals, inflight, slowSold, landed, halved, exits,
                   crashes, setting>>

\* The shadow phase signs and records without sending: counted as open, no entry.
BuyShadow(b) ==
    /\ buyer[b].pc = "submit"
    /\ ~Broadcasting
    /\ buys < MaxBuys /\ More
    /\ open_count' = open_count + 1
    /\ buyer' = [buyer EXCEPT ![b] = NoBuy]
    /\ buys' = buys + 1
    /\ UNCHANGED <<positions, entry, exit_locks, exiter, bg, chainvars, inflight,
                   slowSold, landed, halved, exits, crashes, setting>>

\* The broadcast has returned: record_opened, before the await of the map's lock.
BuyCount(b) ==
    /\ buyer[b].pc = "count"
    /\ open_count' = open_count + 1
    /\ buyer' = [buyer EXCEPT ![b].pc = "record"]
    /\ UNCHANGED <<positions, entry, exit_locks, exiter, bg, chainvars, histvars>>

\* The entry is put in the map only now, and its finaliser spawned.
BuyRecord(b) ==
    LET g == buyer[b].gen
        k == buyer[b].tok
    IN  /\ buyer[b].pc = "record"
        /\ entry' = [entry EXCEPT ![g] = [amt |-> 0, approved |-> FALSE,
                                          route |-> buyer[b].route]]
        /\ positions' = [positions EXCEPT ![k] = g]
        /\ bg' = [bg EXCEPT ![g] = [pc |-> "poll", tok |-> k, read |-> 0]]
        /\ buyer' = [buyer EXCEPT ![b] = NoBuy]
        /\ UNCHANGED <<exit_locks, open_count, exiter, chainvars, histvars>>

---------------------------------------------------------------------------
(* BgPrep::finalize_position: one detached task per buy.                   *)

\* The buy's receipt is a success: go on to read the balance.
BgReceipt(g) ==
    /\ bg[g].pc = "poll"
    /\ g \in bought
    /\ bg' = [bg EXCEPT ![g].pc = "read"]
    /\ UNCHANGED <<positions, entry, exit_locks, open_count, buyer, exiter, chainvars, histvars>>

\* 30 s without a successful receipt, 15 s without the approve's, or an approve
\* the relay refused: the task ends where it is.
BgGivesUp(g) ==
    /\ bg[g].pc \in {"poll", "approve", "confirm"}
    /\ bg' = [bg EXCEPT ![g].pc = "done"]
    /\ UNCHANGED <<positions, entry, exit_locks, open_count, buyer, exiter, chainvars, histvars>>

\* balanceOf answers (0 when the call fails).
BgReadBalance(g) ==
    /\ bg[g].pc = "read"
    /\ \E v \in {bal[bg[g].tok], 0} : bg' = [bg EXCEPT ![g].pc = "store", ![g].read = v]
    /\ UNCHANGED <<positions, entry, exit_locks, open_count, buyer, exiter, chainvars, histvars>>

\* A non-zero answer overwrites tokens_bought; no exit lock is held.  Only a
\* Four.Meme entry goes on to the approve.
BgStore(g) ==
    /\ bg[g].pc = "store"
    /\ entry' = [entry EXCEPT ![g].amt = IF bg[g].read # 0 THEN bg[g].read ELSE @]
    /\ bg' = [bg EXCEPT ![g].pc = IF entry[g].route = "FourMeme" THEN "approve" ELSE "done"]
    /\ UNCHANGED <<positions, exit_locks, open_count, buyer, exiter, chainvars, histvars>>

\* submit_approve_bg.
BgApprove(g) ==
    /\ bg[g].pc = "approve"
    /\ mempool' = Append(mempool, [kind |-> "approve", tok |-> bg[g].tok, amt |-> 0,
                                   gen |-> g, route |-> "FourMeme"])
    /\ bg' = [bg EXCEPT ![g].pc = "confirm"]
    /\ UNCHANGED <<positions, entry, exit_locks, open_count, buyer, exiter, bal, allowance,
                   venue, bought, approvals, histvars>>

BgConfirm(g) ==
    /\ bg[g].pc = "confirm"
    /\ g \in approvals
    /\ entry' = [entry EXCEPT ![g].approved = TRUE]
    /\ bg' = [bg EXCEPT ![g].pc = "done"]
    /\ UNCHANGED <<positions, exit_locks, open_count, buyer, exiter, chainvars, histvars>>

---------------------------------------------------------------------------
(* execute_exit(): sells.                                                  *)

\* Mutant: the trail watcher also acts on entries not yet approved.
TrailSeesFilled(k) == positions[k] # None /\ entry[positions[k]].amt > 0

\* The entries process_one_position does not skip.
TrailSees(k) == positions[k] # None /\ Ready(entry[positions[k]])

\* Mutant: the watcher goes on to the next block without waiting.
NeverBusy(k) == FALSE

\* on_block waits for the exits of a block before the next.
TrailBusy(k) == \E y \in Exiters : exiter[y].tok = k

\* The trail watcher calls it for ready entries only, one call per token at a time;
\* KOL sells call it for any token.
ExitStart(x) ==
    /\ exiter[x].pc = "idle"
    /\ exits < MaxExits /\ More
    /\ OneConsumer => /\ \A b \in Buyers : buyer[b].pc = "idle"
                      /\ \A y \in Exiters : exiter[y].pc = "idle"
    /\ \E k \in Tokens :
        /\ TrailActive => TrailSees(k) /\ ~TrailBusy(k)
        /\ exiter' = [exiter EXCEPT ![x] = [NoExit EXCEPT !.pc = "wait", !.tok = k]]
    /\ exits' = exits + 1
    /\ UNCHANGED <<positions, entry, exit_locks, open_count, buyer, bg, chainvars,
                   inflight, slowSold, landed, halved, buys, crashes, setting>>

\* Mutant: the exit does not wait for the token's mutex.
ExitNoLock(x) ==
    /\ exiter[x].pc = "wait"
    /\ \E f \in BOOLEAN :
        /\ TrailActive => f
        /\ exiter' = [exiter EXCEPT ![x].pc = "read", ![x].full = f]
    /\ UNCHANGED <<positions, entry, exit_locks, open_count, buyer, bg, chainvars, histvars>>

\* The per-token mutex, then kol_sell_fraction: a full close, or one half.  The
\* trail passes no KOL address, which always means a full close.
ExitLock(x) ==
    LET k == exiter[x].tok
    IN  /\ exiter[x].pc = "wait"
        /\ exit_locks[k] = NoOne
        /\ exit_locks' = [exit_locks EXCEPT ![k] = x]
        /\ \E f \in BOOLEAN :
            /\ TrailActive => f
            /\ exiter' = [exiter EXCEPT ![x].pc = "read", ![x].full = f]
        /\ UNCHANGED <<positions, entry, open_count, buyer, bg, chainvars, histvars>>

\* The return paths: the guard of the mutex is dropped.
ExitDone(x) ==
    /\ exiter' = [exiter EXCEPT ![x] = NoExit]
    /\ exit_locks' = [exit_locks EXCEPT ![exiter[x].tok] =
                          IF exit_locks[exiter[x].tok] = x THEN NoOne ELSE @]

\* The amount to sell out of n, given the KOL's fraction.
SellAmount(x, n) == IF exiter[x].full THEN n ELSE Half(n)

\* The cache is read: fully exited ends the exit, ready takes the fast path,
\* anything else asks the chain.
ExitReadCache(x) ==
    LET g == positions[exiter[x].tok]
    IN  /\ exiter[x].pc = "read"
        /\ \/ /\ g # None
              /\ FullyExited(entry[g])
              /\ ExitDone(x)
           \/ /\ g # None
              /\ Ready(entry[g])
              /\ SellAmount(x, entry[g].amt) = 0
              /\ ExitDone(x)
           \/ /\ g # None
              /\ Ready(entry[g])
              /\ SellAmount(x, entry[g].amt) > 0
              /\ exiter' = [exiter EXCEPT ![x] =
                     [@ EXCEPT !.pc = "route", !.our = entry[g].amt, !.fast = TRUE,
                               !.amt = SellAmount(x, entry[g].amt),
                               !.route = entry[g].route, !.gen = g]]
              /\ UNCHANGED exit_locks
           \/ /\ g # None => ~entry[g].approved
              /\ exiter' = [exiter EXCEPT ![x].pc = "balance", ![x].gen = g]
              /\ UNCHANGED exit_locks
        /\ UNCHANGED <<positions, entry, open_count, buyer, bg, chainvars, histvars>>

\* Slow path: balanceOf, and a route from the entry or from the chain.  A failed
\* call, an empty wallet, no route or a slice of zero end the exit.
ExitReadBalance(x) ==
    LET k == exiter[x].tok
        routes == IF exiter[x].gen = None THEN SellRoutes(k) ELSE {entry[exiter[x].gen].route}
    IN  /\ exiter[x].pc = "balance"
        /\ \/ ExitDone(x)
           \/ /\ SellAmount(x, bal[k]) > 0
              /\ \E r \in routes :
                     exiter' = [exiter EXCEPT ![x] =
                         [@ EXCEPT !.pc = "approve", !.our = bal[k],
                                   !.amt = SellAmount(x, bal[k]), !.route = r]]
              /\ UNCHANGED exit_locks
        /\ UNCHANGED <<positions, entry, open_count, buyer, bg, chainvars, histvars>>

\* Slow path: approve the route's spender unless it already has the allowance.
ExitApprove(x) ==
    LET k == exiter[x].tok
        tx == [kind |-> "approve", tok |-> k, amt |-> 0, gen |-> None,
               route |-> exiter[x].route]
    IN  /\ exiter[x].pc = "approve"
        /\ \/ /\ exiter[x].route \in allowance[k]
              /\ exiter' = [exiter EXCEPT ![x].pc = "route"]
              /\ UNCHANGED <<mempool, exit_locks>>
           \/ \E o \in IF Broadcasting THEN Outcomes ELSE {"shadow"} :
                /\ mempool' = IF o \in {"accepted", "landed"} THEN Append(mempool, tx)
                                                               ELSE mempool
                /\ IF o \in {"accepted", "shadow"}
                   THEN /\ exiter' = [exiter EXCEPT ![x].pc = "route"]
                        /\ UNCHANGED exit_locks
                   ELSE ExitDone(x)
        /\ UNCHANGED <<positions, entry, open_count, buyer, bg, bal, allowance, venue,
                       bought, approvals, histvars>>

\* The route is looked up again; a failed lookup keeps the one at hand.
ExitRoute(x) ==
    /\ exiter[x].pc = "route"
    /\ \E r \in SellRoutes(exiter[x].tok) \cup {exiter[x].route} :
           exiter' = [exiter EXCEPT ![x].pc = "submit", ![x].route = r]
    /\ UNCHANGED <<positions, entry, exit_locks, open_count, buyer, bg, chainvars, histvars>>

\* Reserve, sign and broadcast the sell; a refused broadcast ends the exit with
\* the cache as it was.
ExitSubmit(x) ==
    LET k == exiter[x].tok
        n == exiter[x].amt
    IN  /\ exiter[x].pc = "submit"
        /\ Broadcasting
        /\ \E o \in Outcomes :
            /\ Queue([kind |-> "sell", tok |-> k, amt |-> n, gen |-> None,
                      route |-> exiter[x].route], o)
            /\ inflight' = IF Sent(o) THEN [inflight EXCEPT ![k] = @ + n] ELSE inflight
            /\ slowSold' = IF Sent(o) /\ ~exiter[x].fast THEN slowSold \cup {k} ELSE slowSold
            /\ landed' = IF o = "landed" THEN landed \cup {k} ELSE landed
            /\ IF o = "accepted"
               THEN /\ exiter' = [exiter EXCEPT ![x].pc = "update", ![x].route = "FourMeme"]
                    /\ UNCHANGED exit_locks
               ELSE ExitDone(x)
        /\ UNCHANGED <<positions, entry, open_count, buyer, bg, bal, allowance, venue,
                       bought, approvals, halved, buys, exits, crashes, setting>>

\* Mutant: the cache is left alone after an accepted sell.
CacheKept(x) == entry

\* After an accepted sell the entry now in the map keeps what was not sold.
CacheAfterSell(x) ==
    LET g == positions[exiter[x].tok]
    IN  IF g = None THEN entry
        ELSE [entry EXCEPT ![g].amt =
                  IF exiter[x].full THEN 0 ELSE exiter[x].our - exiter[x].amt]

\* Every sell, partial or full, counts one position as closed.
RecordClosed == open_count' = IF open_count = 0 THEN 0 ELSE open_count - 1

\* The cache is written back; the rest of the exit uses nothing of its plan but whether
\* it was a full close.
ExitUpdate(x) ==
    /\ exiter[x].pc = "update"
    /\ entry' = CacheAfterSell(x)
    /\ exiter' = [exiter EXCEPT ![x] =
           [NoExit EXCEPT !.pc = "count", !.tok = exiter[x].tok, !.full = exiter[x].full]]
    /\ UNCHANGED <<positions, exit_locks, open_count, buyer, bg, chainvars, histvars>>

\* The ledger's file is written, then the position is counted down.
ExitCount(x) ==
    /\ exiter[x].pc = "count"
    /\ RecordClosed
    /\ halved' = IF exiter[x].full THEN halved ELSE halved + 1
    /\ ExitDone(x)
    /\ UNCHANGED <<positions, entry, buyer, bg, chainvars, inflight, slowSold, landed,
                   buys, exits, crashes, setting>>

\* The shadow phase signs the sell and records it, without sending.
ExitShadow(x) ==
    /\ exiter[x].pc = "submit"
    /\ ~Broadcasting
    /\ RecordClosed
    /\ ExitDone(x)
    /\ UNCHANGED <<positions, entry, buyer, bg, chainvars, histvars>>

---------------------------------------------------------------------------
(* The chain.                                                              *)

\* A sell goes through only with enough tokens, an allowance and the right venue.
SellValid(tx) ==
    /\ tx.amt <= bal[tx.tok]
    /\ tx.route \in allowance[tx.tok]
    /\ tx.route = venue[tx.tok]

MineOk ==
    LET tx == Head(mempool)
    IN  /\ mempool # <<>>
        /\ tx.kind = "sell" => SellValid(tx)
        /\ mempool' = Tail(mempool)
        /\ bal' = [bal EXCEPT ![tx.tok] = CASE tx.kind = "buy" -> @ + tx.amt
                                           [] tx.kind = "sell" -> @ - tx.amt
                                           [] OTHER -> @]
        /\ inflight' = IF tx.kind = "sell" THEN [inflight EXCEPT ![tx.tok] = @ - tx.amt]
                                           ELSE inflight
        /\ allowance' = IF tx.kind = "approve"
                        THEN [allowance EXCEPT ![tx.tok] = @ \cup {tx.route}] ELSE allowance
        /\ bought' = IF tx.kind = "buy" THEN bought \cup {tx.gen} ELSE bought
        /\ approvals' = IF tx.kind = "approve" THEN approvals \cup ({tx.gen} \ {None})
                                               ELSE approvals
        /\ UNCHANGED <<procvars, venue, slowSold, landed, halved, buys, exits, crashes,
                       setting>>

\* Reverted (price moved, missing allowance, wrong venue) or never included.
MineFails ==
    LET tx == Head(mempool)
    IN  /\ mempool # <<>>
        /\ mempool' = Tail(mempool)
        /\ inflight' = IF tx.kind = "sell" THEN [inflight EXCEPT ![tx.tok] = @ - tx.amt]
                                           ELSE inflight
        /\ UNCHANGED <<procvars, bal, allowance, venue, bought, approvals, slowSold,
                       landed, halved, buys, exits, crashes, setting>>

\* The bonding curve completes and the token moves to a V2 pair, for good.
Graduate(k) ==
    /\ venue[k] = "FourMeme"
    /\ venue' = [venue EXCEPT ![k] = "PancakeV2"]
    /\ UNCHANGED <<procvars, mempool, bal, allowance, bought, approvals, histvars>>

\* A restart forgets the cache, the counter and every task; nothing rebuilds them.
Crash ==
    /\ crashes < MaxCrashes /\ More
    /\ positions' = [k \in Tokens |-> None]
    /\ exit_locks' = [k \in Tokens |-> NoOne]
    /\ open_count' = 0
    /\ buyer' = [b \in Buyers |-> NoBuy]
    /\ exiter' = [x \in Exiters |-> NoExit]
    /\ entry' = [g \in Gens |-> NoEntry]
    /\ bg' = [g \in Gens |-> NoBg]
    /\ halved' = 0
    /\ crashes' = crashes + 1
    /\ UNCHANGED <<chainvars, inflight, slowSold, landed, buys, exits, setting>>

Next ==
    \/ \E b \in Buyers : \/ BuyStart(b) \/ BuyClear(b) \/ BuySkip(b) \/ BuyPass(b)
                         \/ BuySubmit(b) \/ BuyShadow(b) \/ BuyCount(b) \/ BuyRecord(b)
    \/ \E g \in Gens : \/ BgReceipt(g) \/ BgGivesUp(g) \/ BgReadBalance(g) \/ BgStore(g)
                       \/ BgApprove(g) \/ BgConfirm(g)
    \/ \E x \in Exiters : \/ ExitStart(x) \/ ExitLock(x) \/ ExitReadCache(x)
                          \/ ExitReadBalance(x) \/ ExitApprove(x) \/ ExitRoute(x)
                          \/ ExitSubmit(x) \/ ExitUpdate(x) \/ ExitCount(x)
                          \/ ExitShadow(x)
    \/ MineOk \/ MineFails
    \/ \E k \in Tokens : Graduate(k)
    \/ Crash

Spec == Init /\ [][Next]_levars

---------------------------------------------------------------------------
Txs == [kind: {"buy", "sell", "approve"}, tok: Tokens, amt: Nat, gen: Gens \cup {None},
        route: Routes]

\* Types of the executor's and the chain's state.
TypeOK ==
    /\ setting \in Settings
    /\ positions \in [Tokens -> Gens \cup {None}]
    /\ entry \in [Gens -> [amt: Nat, approved: BOOLEAN, route: Routes]]
    /\ exit_locks \in [Tokens -> Exiters \cup {NoOne}]
    /\ open_count \in Nat
    /\ buyer \in [Buyers -> [pc: {"idle", "clear", "gate", "submit", "count", "record"},
                             tok: Tokens \cup {None}, gen: Gens \cup {None},
                             route: Routes, n_open: Nat]]
    /\ exiter \in [Exiters -> [pc: {"idle", "wait", "read", "balance", "approve", "route",
                                    "submit", "update", "count"},
                               tok: Tokens \cup {None}, full: BOOLEAN, our: Nat, amt: Nat,
                               route: Routes, fast: BOOLEAN, gen: Gens \cup {None}]]
    /\ bg \in [Gens -> [pc: {"none", "poll", "read", "store", "approve", "confirm", "done"},
                        tok: Tokens \cup {None}, read: Nat]]
    /\ mempool \in Seq(Txs)
    /\ bal \in [Tokens -> Nat]
    /\ allowance \in [Tokens -> SUBSET Routes]
    /\ venue \in [Tokens -> Routes]
    /\ bought \subseteq Gens /\ approvals \subseteq Gens
    /\ inflight \in [Tokens -> Nat]
    /\ slowSold \subseteq Tokens /\ landed \subseteq Tokens
    /\ halved \in Nat /\ buys \in Nat /\ exits \in Nat /\ crashes \in Nat

\* Pending sells of a token never add up to more than the wallet holds, unless one
\* of its sells took the slow path (sized from a balance that pending sells have
\* not yet reduced) or was mined although its submission was reported refused.
\* Concurrent exits, partial closes, re-entries, reverts, graduation and restarts
\* alone never oversell.
OversellNeedsSlowOrLanded ==
    \A k \in Tokens : k \notin slowSold \cup landed => inflight[k] <= bal[k]

\* From the moment a fast-path exit reads its entry until it writes the entry
\* back, the entry is the one in the map and still holds the amount that was
\* read: no finaliser, buyer or other exit touches it in between, as long as no
\* slow-path exit sold the token.
FastExitStaysValid ==
    \A x \in Exiters :
        exiter[x].fast /\ exiter[x].tok \notin slowSold =>
                          /\ positions[exiter[x].tok] = exiter[x].gen
                          /\ entry[exiter[x].gen].amt = exiter[x].our

\* "If we already hold this token, skip the buy." (execute, duplicate-entry
\* guard): an entry that is still being finalised or still has tokens is the one
\* in the map, as long as no slow-path exit sold the token (one may write tokens
\* back into an entry the guard has just found empty).  No later buy removes or
\* replaces it, so until a restart every exit of the token finds it.
NoEntryOrphaned ==
    \A g \in Gens :
        /\ bg[g].pc \notin {"none", "done"} \/ entry[g].amt > 0
        /\ bg[g].tok \notin slowSold
        => positions[bg[g].tok] = g

\* With the trail as the only caller of execute_exit every sell is a fast-path
\* sell: the entry it saw ready is still ready when the exit gets the lock.
TrailNeverSlow == TrailActive => slowSold = {}

\* What the counter is to stand for: tokens the duplicate-entry guard calls held, buys
\* counted but not yet in the map, full closes written back but not yet counted, and
\* entries finalised with a balance read that failed (empty and approved, they pass for
\* fully exited), which nothing ever counts down.
HeldTokens == {k \in Tokens : Held(k)}
Recording == {b \in Buyers : buyer[b].pc = "record"}
Closing == {k \in Tokens : \E x \in Exiters :
               exiter[x].pc = "count" /\ exiter[x].tok = k /\ exiter[x].full}
Misread == {g \in Gens : bg[g].read = 0 /\ FullyExited(entry[g])}

Accounted == Cardinality(HeldTokens) + Cardinality(Recording) + Cardinality(Closing)
             + Cardinality(Misread)

\* live_ledger.rs, open_count, which gates buys against max_open_positions: as long as
\* no sell took the slow path it never exceeds what it stands for and falls behind by
\* at most one for each partial sell, which counts a position as closed that is still
\* held; with the trail as the only caller of exits it is exact.  However buys,
\* finalisers, refused and failed transactions and restarts interleave.  (A sell of
\* tokens bought before a restart also makes it too low, and the shadow phase counts
\* buys that leave no entry.)
OpenCountIsHeld ==
    Broadcasting /\ slowSold = {} =>
        /\ open_count \in (Accounted - halved)..Accounted
        /\ TrailActive => open_count = Accounted

\* The entries that may still become ready: not bought yet, on their way into the
\* map, or being finalised.
MayGetReady ==
    {g \in Gens : \/ g > buys
                  \/ \E b \in Buyers : buyer[b].gen = g
                  \/ bg[g].pc \notin {"none", "done"}}

\* An exit of k is at work for the watcher, until it has written the cache back or failed.
ExitingFor(k) == TrailActive /\ \E x \in Exiters : exiter[x].tok = k /\ exiter[x].pc # "count"

View(k) == INSTANCE ReadyPosition WITH
    Ids <- Gens, NoId <- None,
    view <- IF TrailActive /\ TrailSees(k) THEN positions[k] ELSE None,
    exiting <- ExitingFor(k),
    future <- MayGetReady

\* executor_live.rs keeps the contract the trail watcher is written against: a
\* ready position never changes into another one, never comes back once sold or
\* forgotten, is never ready while another is, and vanishes only when an exit of
\* it is through or the process restarts.
KeepsTrailContract ==
    /\ \A k \in Tokens : View(k)!Init
    /\ [][\A k \in Tokens : [View(k)!Next]_(View(k)!rpvars)]_levars

---------------------------------------------------------------------------
\* "Skip not-yet-ready / fully-exited entries." (adaptive_trail.rs,
\* process_one_position): an entry the trail watcher skips although it holds
\* tokens is one whose finaliser is still at work.
SkippedIsFinalizing ==
    \A k \in Tokens :
        LET g == positions[k]
        IN  g # None /\ entry[g].amt > 0 /\ ~entry[g].approved => bg[g].pc # "done"
===========================================================================
