------------------------ MODULE LiveExecutor_proofs ------------------------
(***************************************************************************)
(* Proofs about LiveExecutor, for any number of tokens, exits, buys,       *)
(* restarts and pending transactions.                                      *)
(*                                                                         *)
(* The argument is in layers, each inductive given the ones before it:     *)
(* types, with the accounting of pending sells (Flow); the shape of the    *)
(* process (Shape: who holds which lock, which entry belongs to which buy);*)
(* the cache (Cache: the entry an exit works from stays as it was read);   *)
(* the trail (TrailOnly); the wallet (Wallet: what is cached is covered);  *)
(* and the open-position counter.                                          *)
(***************************************************************************)
EXTENDS LiveExecutor, FiniteSetTheorems, TLAPS

---------------------------------------------------------------------------
(* The invariant.                                                          *)

\* The units of token k that pending transaction tx sells.
Sells(tx, k) == IF tx.kind = "sell" /\ tx.tok = k THEN tx.amt ELSE 0

\* c adds up, from the head of the mempool, the units of k that are being sold; it has
\* reached the total where only other transactions follow.
RunningSum(c, k, pool, total) ==
    /\ c \in [0..Len(pool) -> Nat]
    /\ c[0] = 0
    /\ \A i \in 1..Len(pool) : c[i] = c[i - 1] + Sells(pool[i], k)
    /\ \A i, j \in 0..Len(pool) : i <= j => c[i] <= c[j]
    /\ \A i \in 0..Len(pool) :
           (\A m \in (i + 1)..Len(pool) : Sells(pool[m], k) = 0) => c[i] = total

\* inflight is the sum of the pending sells.
Flow == \A k \in Tokens : \E c : RunningSum(c, k, mempool, inflight[k])

\* The places between taking the token's mutex and dropping it.
Locked == {"read", "balance", "approve", "route", "submit", "update", "count"}

\* The mutex of a token is held by the exit that is between its lock and its return.
LockHeld ==
    \A x \in Exiters : exiter[x].pc \in Locked => exit_locks[exiter[x].tok] = x

\* A task works on a token from its first step to its last.
TaskTokens ==
    /\ \A b \in Buyers : buyer[b].pc # "idle" => buyer[b].tok \in Tokens
    /\ \A x \in Exiters : /\ exiter[x].pc = "idle" => exiter[x] = NoExit
                          /\ exiter[x].pc # "idle" => exiter[x].tok \in Tokens
    /\ \A g \in Gens : IF bg[g].pc = "none" THEN bg[g] = NoBg ELSE bg[g].tok \in Tokens

\* The buy of b is accepted, and its entry not yet in the map.
Made(b) == buyer[b].pc \in {"count", "record"}

\* An entry is made once, by the buy it is numbered after, and has one finaliser,
\* which is the only one to approve it; the map files it under its own token.
EntryOwners ==
    /\ \A g \in Gens : /\ g > buys => bg[g].pc = "none"
                       /\ bg[g].pc = "none" => entry[g] = NoEntry
                       /\ entry[g].approved => bg[g].pc = "done"
    /\ \A k \in Tokens : positions[k] # None => bg[positions[k]].tok = k
    /\ \A b \in Buyers : IF Made(b)
                         THEN /\ buyer[b].gen \in 1..buys
                              /\ bg[buyer[b].gen].pc = "none"
                         ELSE buyer[b].gen = None

\* Past the duplicate-entry guard the map holds nothing for the token.
GuardPassed ==
    \A b \in Buyers :
        buyer[b].pc \in {"gate", "submit", "count", "record"} => positions[buyer[b].tok] = None

\* What an exit has worked out so far.
ExitPlan ==
    \A x \in Exiters :
        /\ exiter[x].pc \in {"approve", "route", "submit", "update"} =>
               /\ exiter[x].amt > 0
               /\ exiter[x].amt <= exiter[x].our
               /\ exiter[x].full => exiter[x].amt = exiter[x].our
               /\ ~exiter[x].full => exiter[x].amt < exiter[x].our
        /\ exiter[x].fast => /\ exiter[x].pc \in {"route", "submit", "update"}
                             /\ exiter[x].gen \in Gens
                             /\ entry[exiter[x].gen].approved
                             /\ bg[exiter[x].gen].tok = exiter[x].tok
        /\ exiter[x].pc = "update" /\ ~exiter[x].fast => exiter[x].tok \in slowSold

\* Buys carry the number they were given; a finaliser past its poll has the receipt.
BuyNumbers ==
    /\ \A i \in 1..Len(mempool) : mempool[i].kind = "buy" => mempool[i].gen \in 1..buys
    /\ \A g \in bought : g <= buys
    /\ buys <= MaxBuys
    /\ \A g \in Gens : bg[g].pc \in {"read", "store", "approve", "confirm"} => g \in bought

Shape == LockHeld /\ TaskTokens /\ EntryOwners /\ GuardPassed /\ ExitPlan /\ BuyNumbers

\* The entry a buy is about to drop from the map is still fully exited.
ClearIsEmpty ==
    \A b \in Buyers :
        buyer[b].pc = "clear" /\ buyer[b].tok \notin slowSold =>
            /\ positions[buyer[b].tok] # None
            /\ FullyExited(entry[positions[buyer[b].tok]])

Cache == FastExitStaysValid /\ NoEntryOrphaned /\ ClearIsEmpty

\* With the trail on an exit works alone on its token, in full, and the entry it was
\* called for stays ready until the exit has read it.
TrailExits ==
    TrailActive =>
        \A x \in Exiters : exiter[x].pc # "idle" =>
            /\ exiter[x].full
            /\ exiter[x].pc \in {"wait", "read"} => TrailSees(exiter[x].tok)
            /\ exiter[x].pc \notin {"balance", "approve"}
            /\ exiter[x].pc \in {"route", "submit", "update"} => exiter[x].fast
            /\ \A y \in Exiters : exiter[y].tok = exiter[x].tok => y = x

TrailOnly == TrailNeverSlow /\ TrailExits

\* Tokens whose sells all went the way the executor meant them to.
Clean == Tokens \ (slowSold \cup landed)

\* Buy g of token k is made but its entry is not approved yet, so that no exit of k
\* takes the fast path.
Unready(g, k) ==
    \/ \E b \in Buyers : Made(b) /\ buyer[b].gen = g /\ buyer[b].tok = k
    \/ positions[k] = g /\ ~entry[g].approved

IsSell(i, k) == mempool[i].kind = "sell" /\ mempool[i].tok = k
IsBuy(i, g) == mempool[i].kind = "buy" /\ mempool[i].gen = g

\* The wallet's transactions are mined in order: the sells of a token that are pending
\* while a buy of it is not yet usable were all sent before that buy, and are gone
\* once it has been mined.
SellsBeforeBuy ==
    \A k \in Clean, g \in Gens : Unready(g, k) =>
        \A i \in 1..Len(mempool) : IsSell(i, k) =>
            /\ g \notin bought
            /\ \A j \in 1..Len(mempool) : IsBuy(j, g) => i < j

\* A balance that was read is still there to be stored.
ReadIsThere ==
    \A g \in Gens : bg[g].pc = "store" /\ bg[g].tok \in Clean => bg[g].read <= bal[bg[g].tok]

\* What the cache says is left of a token is in the wallet besides what is being sold;
\* between the broadcast of a sell and the update of the cache, what the exit is about
\* to leave there is.
Covered ==
    \A k \in Clean :
        /\ positions[k] # None =>
               \/ inflight[k] + entry[positions[k]].amt <= bal[k]
               \/ \E x \in Exiters : exiter[x].pc = "update" /\ exiter[x].tok = k
        /\ \A x \in Exiters : exiter[x].pc = "update" /\ exiter[x].tok = k =>
               inflight[k] + (exiter[x].our - exiter[x].amt) <= bal[k]

Wallet == SellsBeforeBuy /\ ReadIsThere /\ Covered /\ OversellNeedsSlowOrLanded

\* Until a token is sold through the slow path only the finaliser fills its entry, with
\* what it read.
FilledByRead ==
    \A g \in Gens : bg[g].tok \notin slowSold =>
        /\ entry[g].amt > 0 => bg[g].read > 0
        /\ bg[g].pc \in {"approve", "confirm"} => entry[g].amt = bg[g].read
        /\ bg[g].pc \in {"none", "poll", "read", "store"} => entry[g].amt = 0

\* The counter never exceeds what it stands for, and falls behind by at most one for
\* each partial sell.
OpenBounds ==
    Broadcasting /\ slowSold = {} => open_count \in (Accounted - halved)..Accounted

\* The trail sells in full.
TrailHalves == TrailActive => halved = 0

Counter == FilledByRead /\ OpenBounds /\ TrailHalves

---------------------------------------------------------------------------
(* The first layer: types, and the sums of the pending sells.              *)

Entries == [amt: Nat, approved: BOOLEAN, route: Routes]
BuyTasks == [pc: {"idle", "clear", "gate", "submit", "count", "record"}, tok: Tokens \cup {None},
             gen: Gens \cup {None}, route: Routes, n_open: Nat]
ExitTasks == [pc: {"idle", "wait", "read", "balance", "approve", "route", "submit", "update",
                   "count"},
              tok: Tokens \cup {None}, full: BOOLEAN, our: Nat, amt: Nat,
              route: Routes, fast: BOOLEAN, gen: Gens \cup {None}]
BgTasks == [pc: {"none", "poll", "read", "store", "approve", "confirm", "done"},
            tok: Tokens \cup {None}, read: Nat]

\* The tasks at rest and the empty entry have their types.
LEMMA AtRest ==
    /\ NoBuy \in BuyTasks
    /\ NoExit \in ExitTasks
    /\ NoBg \in BgTasks
    /\ NoEntry \in Entries
BY DEF NoBuy, NoExit, NoBg, NoEntry, BuyTasks, ExitTasks, BgTasks, Entries, Routes

LEMMA GensFacts == \A g \in Gens : g \in Nat /\ g # None
BY ConstantsAssumption DEF Gens, None

\* The type invariant in terms of the sets above.
LEMMA TypeParts ==
    ASSUME TypeOK
    PROVE  /\ entry \in [Gens -> Entries]
           /\ buyer \in [Buyers -> BuyTasks]
           /\ exiter \in [Exiters -> ExitTasks]
           /\ bg \in [Gens -> BgTasks]
BY DEF TypeOK, Entries, BuyTasks, ExitTasks, BgTasks

LEMMA InitType == Init => TypeOK
<1> SUFFICES ASSUME Init PROVE TypeOK
    OBVIOUS
<1>1. entry \in [Gens -> Entries] /\ buyer \in [Buyers -> BuyTasks]
    BY AtRest DEF Init
<1>2. exiter \in [Exiters -> ExitTasks] /\ bg \in [Gens -> BgTasks]
    BY AtRest DEF Init
<1>3. bal \in [Tokens -> Nat]
    BY ConstantsAssumption DEF Init
<1>4. /\ mempool \in Seq(Txs)
      /\ allowance \in [Tokens -> SUBSET Routes]
      /\ positions \in [Tokens -> Gens \cup {None}]
      /\ exit_locks \in [Tokens -> Exiters \cup {NoOne}]
      /\ inflight \in [Tokens -> Nat]
    BY DEF Init
<1>5. QED
    BY <1>1, <1>2, <1>3, <1>4 DEF Init, TypeOK, Entries, BuyTasks, ExitTasks, BgTasks

LEMMA InitFlow == Init => Flow
<1> SUFFICES ASSUME Init, NEW k \in Tokens
             PROVE  \E c : RunningSum(c, k, mempool, inflight[k])
    BY DEF Flow
<1>1. mempool = << >> /\ inflight[k] = 0
    BY DEF Init
<1>2. RunningSum([i \in 0..0 |-> 0], k, << >>, 0)
    BY DEF RunningSum
<1>3. QED
    BY <1>1, <1>2

---------------------------------------------------------------------------
(* Sums under the two things that happen to the mempool.                   *)

LEMMA RunningTotal ==
    ASSUME NEW c, NEW k, NEW pool \in Seq(Txs), NEW total, RunningSum(c, k, pool, total)
    PROVE  c[Len(pool)] = total
<1>1. Len(pool) \in 0..Len(pool) /\ (Len(pool) + 1)..Len(pool) = {}
    OBVIOUS
<1>2. QED
    BY <1>1 DEF RunningSum

\* A transaction sent at the end of the queue adds its own units.
LEMMA SumAppend ==
    ASSUME NEW k \in Tokens, NEW pool \in Seq(Txs), NEW tx \in Txs, NEW total \in Nat,
           \E c : RunningSum(c, k, pool, total)
    PROVE  \E c : RunningSum(c, k, Append(pool, tx), total + Sells(tx, k))
<1>1. PICK c : RunningSum(c, k, pool, total)
    OBVIOUS
<1> DEFINE n == Len(pool)
           q == Append(pool, tx)
           s == Sells(tx, k)
           d == [i \in 0..(n + 1) |-> IF i = n + 1 THEN total + s ELSE c[i]]
<1>2. n \in Nat /\ Len(q) = n + 1
    OBVIOUS
<1>3. s \in Nat
    BY DEF Sells, Txs
<1>4. \A i \in 1..n : q[i] = pool[i]
    OBVIOUS
<1>5. q[n + 1] = tx
    OBVIOUS
<1> HIDE DEF n, q, s
<1>6. /\ c \in [0..n -> Nat] /\ c[0] = 0 /\ c[n] = total
      /\ \A i \in 1..n : c[i] = c[i - 1] + Sells(pool[i], k)
      /\ \A i, j \in 0..n : i <= j => c[i] <= c[j]
      /\ \A i \in 0..n : (\A m \in (i + 1)..n : Sells(pool[m], k) = 0) => c[i] = total
    BY <1>1, RunningTotal DEF RunningSum, n
<1>7. d \in [0..(n + 1) -> Nat] /\ d[0] = 0 /\ d[n + 1] = total + s
    BY <1>2, <1>3, <1>6
<1>8. ASSUME NEW i \in 1..(n + 1) PROVE d[i] = d[i - 1] + Sells(q[i], k)
    <2>1. CASE i = n + 1
        <3>1. d[i - 1] = total
            BY <1>2, <1>6, <2>1
        <3>2. Sells(q[i], k) = s
            BY <1>5, <2>1 DEF s
        <3>3. QED
            BY <2>1, <3>1, <3>2, <1>7
    <2>2. CASE i # n + 1
        <3>1. i \in 1..n /\ i - 1 \in 0..n
            BY <1>2, <2>2
        <3>2. d[i] = c[i] /\ d[i - 1] = c[i - 1]
            BY <1>2, <3>1
        <3>3. q[i] = pool[i]
            BY <1>4, <3>1
        <3>4. QED
            BY <1>6, <3>1, <3>2, <3>3
    <2>3. QED
        BY <2>1, <2>2
<1>9. ASSUME NEW i \in 0..(n + 1), NEW j \in 0..(n + 1), i <= j PROVE d[i] <= d[j]
    <2>1. CASE j = n + 1
        <3>1. CASE i = n + 1
            BY <2>1, <3>1, <1>7, <1>3
        <3>2. CASE i # n + 1
            <4>1. i \in 0..n /\ n \in 0..n /\ i <= n
                BY <1>2, <3>2
            <4>2. c[i] <= total /\ c[i] \in Nat
                BY <1>6, <4>1
            <4>3. d[i] = c[i]
                BY <3>2
            <4>4. QED
                BY <2>1, <4>2, <4>3, <1>3, <1>7
        <3>3. QED
            BY <3>1, <3>2
    <2>2. CASE j # n + 1
        <3>1. i \in 0..n /\ j \in 0..n
            BY <1>2, <1>9, <2>2
        <3>2. d[i] = c[i] /\ d[j] = c[j]
            BY <1>2, <3>1
        <3>3. QED
            BY <1>6, <1>9, <3>1, <3>2
    <2>3. QED
        BY <2>1, <2>2
<1>10. ASSUME NEW i \in 0..(n + 1), \A m \in (i + 1)..(n + 1) : Sells(q[m], k) = 0
       PROVE  d[i] = total + s
    <2>1. CASE i = n + 1
        BY <1>7, <2>1
    <2>2. CASE i # n + 1
        <3>1. i \in 0..n /\ n + 1 \in (i + 1)..(n + 1)
            BY <1>2, <2>2
        <3>2. s = 0
            BY <1>5, <1>10, <3>1 DEF s
        <3>3. \A m \in (i + 1)..n : Sells(pool[m], k) = 0
            <4>1. TAKE m \in (i + 1)..n
            <4>2. m \in 1..n /\ m \in (i + 1)..(n + 1)
                BY <1>2, <3>1
            <4>3. QED
                BY <1>4, <1>10, <4>2
        <3>4. c[i] = total
            BY <1>6, <3>1, <3>3
        <3>5. QED
            BY <2>2, <3>2, <3>4
    <2>3. QED
        BY <2>1, <2>2
<1>11. RunningSum(d, k, q, total + s)
    <2> HIDE DEF d
    <2>1. QED
        BY <1>2, <1>7, <1>8, <1>9, <1>10 DEF RunningSum
<1>12. QED
    BY <1>11 DEF q, s

\* The head of the queue sells no more than is pending, and the rest of the queue
\* adds up to the difference.
LEMMA SumTail ==
    ASSUME NEW k \in Tokens, NEW pool \in Seq(Txs), pool # << >>, NEW total \in Nat,
           \E c : RunningSum(c, k, pool, total)
    PROVE  /\ Sells(Head(pool), k) \in Nat
           /\ Sells(Head(pool), k) <= total
           /\ \E c : RunningSum(c, k, Tail(pool), total - Sells(Head(pool), k))
<1>1. PICK c : RunningSum(c, k, pool, total)
    OBVIOUS
<1> DEFINE n == Len(pool)
           q == Tail(pool)
           s == Sells(Head(pool), k)
           d == [i \in 0..(n - 1) |-> c[i + 1] - s]
<1>2. n \in Nat /\ n >= 1 /\ Len(q) = n - 1
    OBVIOUS
<1>3. s \in Nat
    <2>1. Head(pool) \in Txs
        OBVIOUS
    <2>2. QED
        BY <2>1 DEF Sells, Txs
<1>4. \A i \in 1..(n - 1) : q[i] = pool[i + 1]
    OBVIOUS
<1>5. pool[1] = Head(pool)
    OBVIOUS
<1> HIDE DEF n, q, s
<1>6. /\ c \in [0..n -> Nat] /\ c[0] = 0 /\ c[n] = total
      /\ \A i \in 1..n : c[i] = c[i - 1] + Sells(pool[i], k)
      /\ \A i, j \in 0..n : i <= j => c[i] <= c[j]
      /\ \A i \in 0..n : (\A m \in (i + 1)..n : Sells(pool[m], k) = 0) => c[i] = total
    BY <1>1, RunningTotal DEF RunningSum, n
<1>7. c[1] = s
    <2>1. c[1] = c[0] + Sells(pool[1], k)
        BY <1>2, <1>6
    <2>2. Sells(pool[1], k) = s
        BY <1>5 DEF s
    <2>3. QED
        BY <2>1, <2>2, <1>3, <1>6
<1>8. \A i \in 1..n : s <= c[i]
    BY <1>2, <1>6, <1>7
<1>9. d \in [0..(n - 1) -> Nat]
    BY <1>2, <1>3, <1>6, <1>8
<1>10. d[0] = 0 /\ d[n - 1] = total - s /\ s <= total
    BY <1>2, <1>3, <1>6, <1>7, <1>8
<1>11. ASSUME NEW i \in 1..(n - 1) PROVE d[i] = d[i - 1] + Sells(q[i], k)
    <2>1. i + 1 \in 1..n /\ i \in 0..n /\ i - 1 \in 0..(n - 1) /\ (i + 1) - 1 = i
        BY <1>2
    <2>2. c[i + 1] = c[i] + Sells(pool[i + 1], k)
        BY <1>6, <2>1
    <2>3. Sells(q[i], k) = Sells(pool[i + 1], k)
        BY <1>4
    <2>4. d[i] = c[i + 1] - s /\ d[i - 1] = c[i] - s
        BY <1>2, <2>1
    <2>5. pool[i + 1] \in Txs
        BY <2>1 DEF n
    <2>6. Sells(pool[i + 1], k) \in Nat
        BY <2>5 DEF Sells, Txs
    <2>7. c[i] \in Nat
        BY <1>6, <2>1
    <2>8. QED
        BY <2>2, <2>3, <2>4, <2>6, <2>7, <1>3
<1>12. ASSUME NEW i \in 0..(n - 1), NEW j \in 0..(n - 1), i <= j PROVE d[i] <= d[j]
    <2>1. c[i + 1] <= c[j + 1] /\ c[i + 1] \in Nat /\ c[j + 1] \in Nat
        BY <1>2, <1>6, <1>12
    <2>2. QED
        BY <2>1, <1>3
<1>13. ASSUME NEW i \in 0..(n - 1), \A m \in (i + 1)..(n - 1) : Sells(q[m], k) = 0
       PROVE  d[i] = total - s
    <2>1. i + 1 \in 0..n
        BY <1>2
    <2>2. \A m \in ((i + 1) + 1)..n : Sells(pool[m], k) = 0
        <3>1. TAKE m \in ((i + 1) + 1)..n
        <3>2. m - 1 \in (i + 1)..(n - 1) /\ m - 1 \in 1..(n - 1) /\ (m - 1) + 1 = m
            BY <1>2
        <3>3. q[m - 1] = pool[m]
            BY <1>4, <3>2
        <3>4. QED
            BY <1>13, <3>2, <3>3
    <2>3. c[i + 1] = total
        BY <1>6, <2>1, <2>2
    <2>4. QED
        BY <2>3
<1>14. RunningSum(d, k, q, total - s)
    <2> HIDE DEF d
    <2>1. QED
        BY <1>2, <1>9, <1>10, <1>11, <1>12, <1>13 DEF RunningSum
<1>15. QED
    BY <1>3, <1>10, <1>14 DEF q, s

---------------------------------------------------------------------------
(* Types and sums are preserved, one lemma for each task.                  *)

\* The first layer of the invariant.
Base == TypeOK /\ Flow /\ Shape

LEMMA BuyerType ==
    ASSUME Base, NEW b \in Buyers,
           \/ BuyStart(b) \/ BuyClear(b) \/ BuySkip(b) \/ BuyPass(b)
           \/ BuySubmit(b) \/ BuyShadow(b) \/ BuyCount(b) \/ BuyRecord(b)
    PROVE  TypeOK'
<1>1. /\ TypeOK
      /\ buyer \in [Buyers -> BuyTasks]
      /\ entry \in [Gens -> Entries]
      /\ bg \in [Gens -> BgTasks]
      /\ positions \in [Tokens -> Gens \cup {None}]
      /\ open_count \in Nat
      /\ buys \in Nat
    BY TypeParts DEF Base, TypeOK
<1>2. buyer[b].pc # "idle" => buyer[b].tok \in Tokens
    BY DEF Base, Shape, TaskTokens
<1>3. CASE BuyStart(b)
    <2>1. PICK k \in Tokens : buyer' = [buyer EXCEPT ![b] =
               [NoBuy EXCEPT !.pc = IF positions[k] = None THEN "gate" ELSE "clear",
                             !.tok = k, !.n_open = open_count]]
        BY <1>3 DEF BuyStart
    <2>2. buyer' \in [Buyers -> BuyTasks]
        BY <1>1, <2>1, AtRest DEF BuyTasks
    <2>3. QED
        BY <1>1, <1>3, <2>2 DEF BuyStart, TypeOK, BuyTasks, chainvars, histvars
<1>4. CASE BuyClear(b)
    <2>1. positions' \in [Tokens -> Gens \cup {None}]
        BY <1>1, <1>4 DEF BuyClear
    <2>2. buyer' \in [Buyers -> BuyTasks]
        BY <1>1, <1>4 DEF BuyClear, BuyTasks
    <2>3. QED
        BY <1>1, <1>4, <2>1, <2>2 DEF BuyClear, TypeOK, BuyTasks, chainvars, histvars
<1>5. CASE BuySkip(b)
    <2>1. buyer' \in [Buyers -> BuyTasks]
        BY <1>1, <1>5, AtRest DEF BuySkip
    <2>2. QED
        BY <1>1, <1>5, <2>1 DEF BuySkip, TypeOK, BuyTasks, chainvars, histvars
<1>6. CASE BuyPass(b)
    <2>1. PICK r \in Routes : buyer' = [buyer EXCEPT ![b].pc = "submit", ![b].n_open = 0,
                                                     ![b].route = r]
        BY <1>1, <1>2, <1>6 DEF BuyPass, TypeOK
    <2>2. buyer' \in [Buyers -> BuyTasks]
        <3>1. PICK t : t = [buyer[b] EXCEPT !.pc = "submit", !.n_open = 0, !.route = r]
            OBVIOUS
        <3>2. t \in BuyTasks
            BY <1>1, <3>1 DEF BuyTasks
        <3>3. buyer' = [buyer EXCEPT ![b] = t]
            BY <1>1, <2>1, <3>1
        <3>4. QED
            BY <1>1, <3>2, <3>3
    <2>3. QED
        BY <1>1, <1>6, <2>2 DEF BuyPass, TypeOK, BuyTasks, chainvars, histvars
<1>7. CASE BuySubmit(b)
    <2>1. buys + 1 \in Gens /\ buys' = buys + 1
        BY <1>1, <1>7, ConstantsAssumption DEF BuySubmit, Gens
    <2>2. PICK o \in Outcomes :
            /\ Queue([kind |-> "buy", tok |-> buyer[b].tok, amt |-> BuyUnits,
                      gen |-> buys + 1, route |-> AnyRoute], o)
            /\ buyer' = [buyer EXCEPT ![b] =
               IF o = "accepted" THEN [@ EXCEPT !.pc = "count", !.gen = buys + 1] ELSE NoBuy]
        BY <1>7 DEF BuySubmit
    <2>3. [kind |-> "buy", tok |-> buyer[b].tok, amt |-> BuyUnits,
           gen |-> buys + 1, route |-> AnyRoute] \in Txs
        BY <1>1, <1>2, <1>7, <2>1, ConstantsAssumption
        DEF Txs, BuySubmit, BuyTasks, AnyRoute, Routes
    <2>4. mempool' \in Seq(Txs)
        BY <1>1, <2>2, <2>3 DEF Queue, TypeOK
    <2>5. buyer' \in [Buyers -> BuyTasks]
        BY <1>1, <2>1, <2>2, AtRest DEF BuyTasks
    <2>6. UNCHANGED <<positions, entry, exit_locks, open_count, exiter, bg, bal, allowance, venue,
                      bought, approvals, inflight, slowSold, landed, halved, exits, crashes,
                      setting>>
        BY <1>7 DEF BuySubmit
    <2>7. QED
        BY <1>1, <2>1, <2>4, <2>5, <2>6 DEF TypeOK, BuyTasks
<1>8. CASE BuyShadow(b)
    <2>1. buyer' \in [Buyers -> BuyTasks] /\ open_count' \in Nat /\ buys' \in Nat
        BY <1>1, <1>8, AtRest DEF BuyShadow
    <2>2. QED
        BY <1>1, <1>8, <2>1 DEF BuyShadow, TypeOK, BuyTasks, chainvars
<1>9. CASE BuyRecord(b)
    <2> DEFINE g == buyer[b].gen
               k == buyer[b].tok
    <2>1. k \in Tokens /\ buyer[b].route \in Routes
        BY <1>1, <1>2, <1>9 DEF BuyRecord, BuyTasks
    <2>2. g \in Gens
        BY <1>1, <1>9 DEF BuyRecord, Base, Shape, EntryOwners, Made, BuyTasks, None
    <2>3. /\ positions' \in [Tokens -> Gens \cup {None}]
          /\ buyer' \in [Buyers -> BuyTasks]
        BY <1>1, <1>9, <2>1, <2>2, AtRest DEF BuyRecord
    <2>4. entry' \in [Gens -> Entries]
        BY <1>1, <1>9, <2>1 DEF BuyRecord, Entries
    <2>5. bg' \in [Gens -> BgTasks]
        BY <1>1, <1>9, <2>1 DEF BuyRecord, BgTasks
    <2>6. QED
        BY <1>1, <1>9, <2>3, <2>4, <2>5
        DEF BuyRecord, TypeOK, BuyTasks, Entries, BgTasks, chainvars, histvars
<1>10. CASE BuyCount(b)
    <2>1. buyer' \in [Buyers -> BuyTasks] /\ open_count' \in Nat
        BY <1>1, <1>10 DEF BuyCount, BuyTasks
    <2>2. QED
        BY <1>1, <1>10, <2>1 DEF BuyCount, TypeOK, BuyTasks, chainvars, histvars
<1>11. QED
    BY <1>3, <1>4, <1>5, <1>6, <1>7, <1>8, <1>9, <1>10

LEMMA BgType ==
    ASSUME Base, NEW g \in Gens,
           \/ BgReceipt(g) \/ BgGivesUp(g) \/ BgReadBalance(g) \/ BgStore(g)
           \/ BgApprove(g) \/ BgConfirm(g)
    PROVE  TypeOK'
<1>1. /\ TypeOK
      /\ entry \in [Gens -> Entries]
      /\ bg \in [Gens -> BgTasks]
      /\ bal \in [Tokens -> Nat]
    BY TypeParts DEF Base, TypeOK
<1>2. bg[g].pc # "none" => bg[g].tok \in Tokens
    BY DEF Base, Shape, TaskTokens
<1>3. CASE BgReceipt(g) \/ BgGivesUp(g)
    <2>1. bg' \in [Gens -> BgTasks]
        BY <1>1, <1>3 DEF BgReceipt, BgGivesUp, BgTasks
    <2>2. QED
        BY <1>1, <1>3, <2>1 DEF BgReceipt, BgGivesUp, TypeOK, BgTasks, chainvars, histvars
<1>4. CASE BgReadBalance(g)
    <2>1. PICK v \in {bal[bg[g].tok], 0} : bg' = [bg EXCEPT ![g].pc = "store", ![g].read = v]
        BY <1>4 DEF BgReadBalance
    <2>2. v \in Nat
        BY <1>1, <1>2, <1>4 DEF BgReadBalance
    <2>3. bg' \in [Gens -> BgTasks]
        BY <1>1, <2>1, <2>2 DEF BgTasks
    <2>4. QED
        BY <1>1, <1>4, <2>3 DEF BgReadBalance, TypeOK, BgTasks, chainvars, histvars
<1>5. CASE BgStore(g)
    <2>1. bg' \in [Gens -> BgTasks]
        BY <1>1, <1>5 DEF BgStore, BgTasks
    <2>2. entry' \in [Gens -> Entries]
        BY <1>1, <1>5 DEF BgStore, BgTasks, Entries
    <2>3. QED
        BY <1>1, <1>5, <2>1, <2>2 DEF BgStore, TypeOK, BgTasks, Entries, chainvars, histvars
<1>6. CASE BgApprove(g)
    <2>1. bg' \in [Gens -> BgTasks]
        BY <1>1, <1>6 DEF BgApprove, BgTasks
    <2>2. mempool' \in Seq(Txs)
        BY <1>1, <1>2, <1>6 DEF BgApprove, Txs, Routes, TypeOK
    <2>3. QED
        BY <1>1, <1>6, <2>1, <2>2 DEF BgApprove, TypeOK, BgTasks, histvars
<1>7. CASE BgConfirm(g)
    <2>1. bg' \in [Gens -> BgTasks]
        BY <1>1, <1>7 DEF BgConfirm, BgTasks
    <2>2. entry' \in [Gens -> Entries]
        BY <1>1, <1>7 DEF BgConfirm, Entries
    <2>3. QED
        BY <1>1, <1>7, <2>1, <2>2 DEF BgConfirm, TypeOK, BgTasks, Entries, chainvars, histvars
<1>8. QED
    BY <1>3, <1>4, <1>5, <1>6, <1>7

LEMMA ExitDoneType ==
    ASSUME TypeOK, NEW x \in Exiters, ExitDone(x)
    PROVE  /\ exiter' \in [Exiters -> ExitTasks]
           /\ exit_locks' \in [Tokens -> Exiters \cup {NoOne}]
BY AtRest, TypeParts DEF ExitDone, TypeOK

\* A task may be given any place, plan and entry of the right types.
LEMMA ExitTaskWith ==
    ASSUME NEW t \in ExitTasks
    PROVE  /\ [t EXCEPT !.pc = "route"] \in ExitTasks
           /\ [t EXCEPT !.pc = "update", !.route = "FourMeme"] \in ExitTasks
           /\ \A f \in BOOLEAN : [t EXCEPT !.pc = "read", !.full = f] \in ExitTasks
           /\ \A g \in Gens \cup {None} : [t EXCEPT !.pc = "balance", !.gen = g] \in ExitTasks
           /\ \A r \in Routes : [t EXCEPT !.pc = "submit", !.route = r] \in ExitTasks
           /\ \A m, n \in Nat, r \in Routes :
                  [t EXCEPT !.pc = "approve", !.our = m, !.amt = n, !.route = r] \in ExitTasks
           /\ \A m, n \in Nat, r \in Routes, g \in Gens \cup {None} :
                  [t EXCEPT !.pc = "route", !.our = m, !.fast = TRUE, !.amt = n, !.route = r,
                            !.gen = g] \in ExitTasks
BY DEF ExitTasks, Routes

\* The part of a cached or read amount that is sold, for a full and a partial close.
LEMMA SellAmountFacts ==
    ASSUME TypeOK, NEW x \in Exiters, NEW n \in Nat
    PROVE  /\ SellAmount(x, n) \in Nat
           /\ SellAmount(x, n) <= n
           /\ exiter[x].full => SellAmount(x, n) = n
           /\ ~exiter[x].full /\ n > 0 => SellAmount(x, n) < n
BY TypeParts DEF SellAmount, Half, ExitTasks

LEMMA ExitType ==
    ASSUME Base, NEW x \in Exiters,
           \/ ExitStart(x) \/ ExitLock(x) \/ ExitReadCache(x)
           \/ ExitReadBalance(x) \/ ExitApprove(x) \/ ExitRoute(x)
           \/ ExitSubmit(x) \/ ExitUpdate(x) \/ ExitCount(x) \/ ExitShadow(x)
    PROVE  TypeOK'
<1>1. /\ TypeOK
      /\ mempool \in Seq(Txs)
      /\ exits \in Nat
      /\ entry \in [Gens -> Entries]
      /\ exiter \in [Exiters -> ExitTasks]
      /\ positions \in [Tokens -> Gens \cup {None}]
      /\ exit_locks \in [Tokens -> Exiters \cup {NoOne}]
      /\ open_count \in Nat
    BY TypeParts DEF Base, TypeOK
<1>2. exiter[x].pc # "idle" => exiter[x].tok \in Tokens
    BY DEF Base, Shape, TaskTokens
<1>3. exiter[x].tok \in Tokens => SellRoutes(exiter[x].tok) \subseteq Routes
    BY <1>1 DEF SellRoutes, Routes, TypeOK
<1>4. CASE ExitStart(x)
    <2>1. PICK k \in Tokens : exiter' = [exiter EXCEPT ![x] = [NoExit EXCEPT !.pc = "wait",
                                                                             !.tok = k]]
        BY <1>4 DEF ExitStart
    <2>2. exiter' \in [Exiters -> ExitTasks]
        BY <1>1, <2>1, AtRest DEF ExitTasks
    <2>3. exits' \in Nat
        <3>1. exits' = exits + 1
            BY <1>4 DEF ExitStart
        <3>2. QED
            BY <1>1, <3>1
    <2>4. UNCHANGED <<positions, entry, exit_locks, open_count, buyer, bg, chainvars,
                      inflight, slowSold, landed, halved, buys, crashes, setting>>
        BY <1>4 DEF ExitStart
    <2>5. QED
        BY <1>1, <2>2, <2>3, <2>4 DEF TypeOK, ExitTasks, chainvars
<1>5. CASE ExitLock(x)
    <2>1. PICK f \in BOOLEAN : exiter' = [exiter EXCEPT ![x].pc = "read", ![x].full = f]
        BY <1>5 DEF ExitLock
    <2>2. exiter' \in [Exiters -> ExitTasks]
        <3>1. exiter' = [exiter EXCEPT ![x] = [@ EXCEPT !.pc = "read", !.full = f]]
            BY <1>1, <2>1
        <3>2. QED
            BY <1>1, <3>1, ExitTaskWith
    <2>3. exit_locks' \in [Tokens -> Exiters \cup {NoOne}]
        BY <1>1, <1>5 DEF ExitLock
    <2>4. UNCHANGED <<positions, entry, open_count, buyer, bg, chainvars, histvars>>
        BY <1>5 DEF ExitLock
    <2>5. QED
        BY <1>1, <2>2, <2>3, <2>4 DEF TypeOK, ExitTasks, chainvars, histvars
<1>6. CASE ExitReadCache(x)
    <2> DEFINE g == positions[exiter[x].tok]
    <2>1. g \in Gens \cup {None}
        BY <1>1, <1>2, <1>6 DEF ExitReadCache
    <2>2. /\ exiter' \in [Exiters -> ExitTasks]
          /\ exit_locks' \in [Tokens -> Exiters \cup {NoOne}]
        <3>1. CASE ExitDone(x)
            BY <1>1, <3>1, ExitDoneType
        <3>2. CASE /\ g # None
                   /\ exiter' = [exiter EXCEPT ![x] =
                         [@ EXCEPT !.pc = "route", !.our = entry[g].amt, !.fast = TRUE,
                                   !.amt = SellAmount(x, entry[g].amt),
                                   !.route = entry[g].route, !.gen = g]]
                   /\ UNCHANGED exit_locks
            <4>1. entry[g].amt \in Nat /\ entry[g].route \in Routes
                BY <1>1, <2>1, <3>2 DEF Entries
            <4>2. SellAmount(x, entry[g].amt) \in Nat
                BY <1>1, <4>1, SellAmountFacts
            <4>3. PICK t : t = [exiter[x] EXCEPT !.pc = "route", !.our = entry[g].amt,
                                    !.fast = TRUE, !.amt = SellAmount(x, entry[g].amt),
                                    !.route = entry[g].route, !.gen = g]
                OBVIOUS
            <4>4. exiter[x] \in ExitTasks
                BY <1>1
            <4>5. t \in ExitTasks
                BY <2>1, <4>1, <4>2, <4>3, <4>4, ExitTaskWith
            <4>6. exiter' = [exiter EXCEPT ![x] = t]
                BY <3>2, <4>3
            <4>7. exiter' \in [Exiters -> ExitTasks]
                BY <1>1, <4>5, <4>6
            <4>8. QED
                BY <1>1, <3>2, <4>7
        <3>3. CASE /\ exiter' = [exiter EXCEPT ![x].pc = "balance", ![x].gen = g]
                   /\ UNCHANGED exit_locks
            <4>1. exiter' = [exiter EXCEPT ![x] = [@ EXCEPT !.pc = "balance", !.gen = g]]
                BY <1>1, <3>3
            <4>2. [exiter[x] EXCEPT !.pc = "balance", !.gen = g] \in ExitTasks
                <5> HIDE DEF g
                <5>1. QED
                    BY <1>1, <2>1, ExitTaskWith
            <4>3. QED
                BY <1>1, <3>3, <4>1, <4>2
        <3>4. QED
            BY <1>6, <3>1, <3>2, <3>3 DEF ExitReadCache
    <2>3. UNCHANGED <<positions, entry, open_count, buyer, bg, chainvars, histvars>>
        BY <1>6 DEF ExitReadCache
    <2>4. QED
        BY <1>1, <2>2, <2>3 DEF TypeOK, ExitTasks, chainvars, histvars
<1>7. CASE ExitReadBalance(x)
    <2> DEFINE k == exiter[x].tok
               routes == IF exiter[x].gen = None THEN SellRoutes(k)
                                                 ELSE {entry[exiter[x].gen].route}
    <2>1. k \in Tokens
        BY <1>2, <1>7 DEF ExitReadBalance
    <2>2. bal[k] \in Nat /\ routes \subseteq Routes
        BY <1>1, <1>3, <2>1 DEF TypeOK, Entries, ExitTasks
    <2>3. /\ exiter' \in [Exiters -> ExitTasks]
          /\ exit_locks' \in [Tokens -> Exiters \cup {NoOne}]
        <3>1. CASE ExitDone(x)
            BY <1>1, <3>1, ExitDoneType
        <3>2. CASE /\ \E r \in routes :
                         exiter' = [exiter EXCEPT ![x] =
                             [@ EXCEPT !.pc = "approve", !.our = bal[k],
                                       !.amt = SellAmount(x, bal[k]), !.route = r]]
                   /\ UNCHANGED exit_locks
            <4>1. PICK r \in Routes : exiter' = [exiter EXCEPT ![x] =
                             [@ EXCEPT !.pc = "approve", !.our = bal[k],
                                       !.amt = SellAmount(x, bal[k]), !.route = r]]
                BY <2>2, <3>2
            <4>2. SellAmount(x, bal[k]) \in Nat
                BY <1>1, <2>2, SellAmountFacts
            <4>3. QED
                BY <1>1, <2>2, <3>2, <4>1, <4>2, ExitTaskWith
        <3>3. QED
            BY <1>7, <3>1, <3>2 DEF ExitReadBalance
    <2>4. UNCHANGED <<positions, entry, open_count, buyer, bg, chainvars, histvars>>
        BY <1>7 DEF ExitReadBalance
    <2>5. QED
        BY <1>1, <2>3, <2>4 DEF TypeOK, ExitTasks, chainvars, histvars
<1>8. CASE ExitApprove(x)
    <2> DEFINE tx == [kind |-> "approve", tok |-> exiter[x].tok, amt |-> 0, gen |-> None,
                      route |-> exiter[x].route]
    <2>1. tx \in Txs
        BY <1>1, <1>2, <1>8 DEF ExitApprove, Txs, ExitTasks
    <2>2. /\ exiter' = [exiter EXCEPT ![x].pc = "route"] /\ UNCHANGED exit_locks
          \/ ExitDone(x)
        BY <1>8 DEF ExitApprove
    <2>3. mempool' = mempool \/ mempool' = Append(mempool, tx)
        BY <1>8 DEF ExitApprove
    <2>4. /\ exiter' \in [Exiters -> ExitTasks]
          /\ exit_locks' \in [Tokens -> Exiters \cup {NoOne}]
        <3>1. CASE ExitDone(x)
            BY <1>1, <3>1, ExitDoneType
        <3>2. CASE exiter' = [exiter EXCEPT ![x].pc = "route"] /\ UNCHANGED exit_locks
            <4>1. PICK t : t = [exiter[x] EXCEPT !.pc = "route"]
                OBVIOUS
            <4>2. exiter[x] \in ExitTasks
                BY <1>1
            <4>3. t \in ExitTasks
                BY <4>1, <4>2, ExitTaskWith
            <4>4. exiter' = [exiter EXCEPT ![x] = t]
                BY <1>1, <3>2, <4>1
            <4>5. exiter' \in [Exiters -> ExitTasks]
                BY <1>1, <4>3, <4>4
            <4>6. QED
                BY <1>1, <3>2, <4>5
        <3>3. QED
            BY <2>2, <3>1, <3>2
    <2>5. mempool' \in Seq(Txs)
        <3> HIDE DEF tx
        <3>1. QED
            BY <1>1, <2>1, <2>3
    <2>6. UNCHANGED <<positions, entry, open_count, buyer, bg, bal, allowance, venue,
                      bought, approvals, histvars>>
        BY <1>8 DEF ExitApprove
    <2>7. QED
        BY <1>1, <2>4, <2>5, <2>6 DEF TypeOK, ExitTasks, histvars
<1>9. CASE ExitRoute(x)
    <2>1. PICK r \in Routes : exiter' = [exiter EXCEPT ![x].pc = "submit", ![x].route = r]
        BY <1>1, <1>2, <1>3, <1>9 DEF ExitRoute, ExitTasks
    <2>2. exiter' \in [Exiters -> ExitTasks]
        <3>1. exiter' = [exiter EXCEPT ![x] = [@ EXCEPT !.pc = "submit", !.route = r]]
            BY <1>1, <2>1
        <3>2. QED
            BY <1>1, <3>1, ExitTaskWith
    <2>3. UNCHANGED <<positions, entry, exit_locks, open_count, buyer, bg, chainvars, histvars>>
        BY <1>9 DEF ExitRoute
    <2>4. QED
        BY <1>1, <2>2, <2>3 DEF TypeOK, ExitTasks, chainvars, histvars
<1>10. CASE ExitSubmit(x)
    <2> DEFINE k == exiter[x].tok
               n == exiter[x].amt
               tx == [kind |-> "sell", tok |-> k, amt |-> n, gen |-> None,
                      route |-> exiter[x].route]
    <2>1. k \in Tokens /\ n \in Nat
        BY <1>1, <1>2, <1>10 DEF ExitSubmit, ExitTasks
    <2>2. tx \in Txs
        BY <1>1, <2>1 DEF Txs, ExitTasks
    <2>3. mempool' = mempool \/ mempool' = Append(mempool, tx)
        BY <1>10 DEF ExitSubmit, Queue
    <2>4. /\ exiter' = [exiter EXCEPT ![x].pc = "update", ![x].route = "FourMeme"]
             /\ UNCHANGED exit_locks
          \/ ExitDone(x)
        BY <1>10 DEF ExitSubmit
    <2>5. /\ inflight' = inflight \/ inflight' = [inflight EXCEPT ![k] = @ + n]
          /\ slowSold' = slowSold \/ slowSold' = slowSold \cup {k}
          /\ landed' = landed \/ landed' = landed \cup {k}
        BY <1>10 DEF ExitSubmit
    <2>6. UNCHANGED <<positions, entry, open_count, buyer, bg, bal, allowance, venue,
                      bought, approvals, halved, buys, exits, crashes, setting>>
        BY <1>10 DEF ExitSubmit
    <2>7. /\ exiter' \in [Exiters -> ExitTasks]
          /\ exit_locks' \in [Tokens -> Exiters \cup {NoOne}]
        <3>1. CASE ExitDone(x)
            BY <1>1, <3>1, ExitDoneType
        <3>2. CASE /\ exiter' = [exiter EXCEPT ![x].pc = "update", ![x].route = "FourMeme"]
                   /\ UNCHANGED exit_locks
            <4>1. PICK t : t = [exiter[x] EXCEPT !.pc = "update", !.route = "FourMeme"]
                OBVIOUS
            <4>2. exiter[x] \in ExitTasks
                BY <1>1
            <4>3. t \in ExitTasks
                BY <4>1, <4>2, ExitTaskWith
            <4>4. exiter' = [exiter EXCEPT ![x] = t]
                BY <1>1, <3>2, <4>1
            <4>5. exiter' \in [Exiters -> ExitTasks]
                BY <1>1, <4>3, <4>4
            <4>6. QED
                BY <1>1, <3>2, <4>5
        <3>3. QED
            BY <2>4, <3>1, <3>2
    <2>8. mempool' \in Seq(Txs)
        <3> HIDE DEF tx
        <3>1. QED
            BY <1>1, <2>2, <2>3
    <2>9. inflight' \in [Tokens -> Nat] /\ slowSold' \subseteq Tokens /\ landed' \subseteq Tokens
        BY <1>1, <2>1, <2>5 DEF TypeOK
    <2>10. QED
        BY <1>1, <2>6, <2>7, <2>8, <2>9 DEF TypeOK, ExitTasks
<1>11. CASE ExitUpdate(x)
    <2>1. entry' \in [Gens -> Entries]
        <3> DEFINE g == positions[exiter[x].tok]
        <3>1. g \in Gens \cup {None}
            BY <1>1, <1>2, <1>11 DEF ExitUpdate
        <3>2. exiter[x].our \in Nat /\ exiter[x].amt \in Nat /\ exiter[x].full \in BOOLEAN
            BY <1>1 DEF ExitTasks
        <3>3. exiter[x].our - exiter[x].amt \in Nat
            BY <1>11, <3>2 DEF ExitUpdate, Base, Shape, ExitPlan
        <3>4. CASE g = None
            BY <1>1, <1>11, <3>4 DEF ExitUpdate, CacheAfterSell
        <3>5. CASE g # None
            <4>1. PICK m \in Nat : entry' = [entry EXCEPT ![g].amt = m]
                BY <1>11, <3>2, <3>3, <3>5 DEF ExitUpdate, CacheAfterSell
            <4>2. QED
                BY <1>1, <4>1 DEF Entries
        <3>6. QED
            BY <3>4, <3>5
    <2>2. exiter' \in [Exiters -> ExitTasks]
        <3>1. PICK t : t = [NoExit EXCEPT !.pc = "count", !.tok = exiter[x].tok,
                                          !.full = exiter[x].full]
            OBVIOUS
        <3>2. exiter[x].tok \in Tokens \cup {None} /\ exiter[x].full \in BOOLEAN
            BY <1>1 DEF ExitTasks
        <3>3. t \in ExitTasks
            BY <3>1, <3>2, AtRest DEF ExitTasks
        <3>4. exiter' = [exiter EXCEPT ![x] = t]
            BY <1>11, <3>1 DEF ExitUpdate
        <3>5. QED
            BY <1>1, <3>3, <3>4
    <2>3. QED
        BY <1>1, <1>11, <2>1, <2>2
        DEF ExitUpdate, TypeOK, Entries, ExitTasks, chainvars, histvars
<1>12. CASE ExitShadow(x)
    <2>1. open_count' \in Nat
        BY <1>1, <1>12 DEF ExitShadow, RecordClosed
    <2>2. QED
        BY <1>1, <1>12, <2>1, ExitDoneType DEF ExitShadow, TypeOK, ExitTasks, chainvars, histvars
<1>13. CASE ExitCount(x)
    <2>1. open_count' \in Nat
        BY <1>1, <1>13 DEF ExitCount, RecordClosed
    <2>2. halved' \in Nat
        BY <1>1, <1>13 DEF ExitCount, TypeOK
    <2>3. QED
        BY <1>1, <1>13, <2>1, <2>2, ExitDoneType DEF ExitCount, TypeOK, ExitTasks, chainvars
<1>14. QED
    BY <1>4, <1>5, <1>6, <1>7, <1>8, <1>9, <1>10, <1>11, <1>12, <1>13

\* What a mined or dropped transaction leaves of the sums.
LEMMA MinedSells ==
    ASSUME TypeOK, Flow, MineOk \/ MineFails
    PROVE  /\ Head(mempool) \in Txs
           /\ \A k \in Tokens : inflight'[k] = inflight[k] - Sells(Head(mempool), k)
           /\ \A k \in Tokens : /\ Sells(Head(mempool), k) \in Nat
                                /\ Sells(Head(mempool), k) <= inflight[k]
           /\ inflight' \in [Tokens -> Nat]
           /\ Flow'
<1> DEFINE tx == Head(mempool)
<1>1. /\ mempool # << >> /\ mempool \in Seq(Txs) /\ mempool' = Tail(mempool)
      /\ inflight \in [Tokens -> Nat]
    BY DEF TypeOK, MineOk, MineFails
<1>2. tx \in Txs
    BY <1>1
<1>3. inflight' = IF tx.kind = "sell" THEN [inflight EXCEPT ![tx.tok] = @ - tx.amt]
                                      ELSE inflight
    BY DEF MineOk, MineFails
<1>4. tx.tok \in Tokens /\ tx.amt \in Nat
    BY <1>2 DEF Txs
<1>5. ASSUME NEW k \in Tokens
      PROVE  /\ Sells(tx, k) \in Nat
             /\ Sells(tx, k) <= inflight[k]
             /\ \E c : RunningSum(c, k, mempool', inflight[k] - Sells(tx, k))
    <2>1. inflight[k] \in Nat /\ \E c : RunningSum(c, k, mempool, inflight[k])
        BY <1>1 DEF Flow
    <2>2. QED
        BY <1>1, <2>1, SumTail
<1> HIDE DEF tx
<1>6. ASSUME NEW k \in Tokens PROVE inflight'[k] = inflight[k] - Sells(tx, k)
    <2>1. CASE tx.kind = "sell" /\ tx.tok = k
        BY <1>1, <1>3, <2>1 DEF Sells
    <2>2. CASE ~(tx.kind = "sell" /\ tx.tok = k)
        <3>1. Sells(tx, k) = 0 /\ inflight[k] \in Nat
            BY <1>1, <2>2 DEF Sells
        <3>2. inflight'[k] = inflight[k]
            BY <1>1, <1>3, <1>4, <2>2
        <3>3. QED
            BY <3>1, <3>2
    <2>3. QED
        BY <2>1, <2>2
<1>7. inflight' = [k \in Tokens |-> inflight'[k]]
    BY <1>1, <1>3
<1>8. inflight' \in [Tokens -> Nat]
    <2>1. \A k \in Tokens : inflight'[k] \in Nat
        BY <1>1, <1>5, <1>6
    <2>2. QED
        BY <1>7, <2>1
<1>9. Flow'
    BY <1>5, <1>6 DEF Flow
<1>10. QED
    BY <1>2, <1>5, <1>6, <1>8, <1>9 DEF tx

LEMMA ChainType ==
    ASSUME Base, MineOk \/ MineFails \/ (\E k \in Tokens : Graduate(k)) \/ Crash
    PROVE  TypeOK'
<1>1. /\ TypeOK /\ Flow
      /\ mempool \in Seq(Txs)
      /\ bal \in [Tokens -> Nat]
      /\ allowance \in [Tokens -> SUBSET Routes]
      /\ venue \in [Tokens -> Routes]
      /\ bought \subseteq Gens /\ approvals \subseteq Gens
      /\ crashes \in Nat
    BY DEF Base, TypeOK
<1>2. CASE MineFails
    <2>1. inflight' \in [Tokens -> Nat]
        BY <1>1, <1>2, MinedSells
    <2>2. mempool' \in Seq(Txs)
        BY <1>1, <1>2 DEF MineFails
    <2>3. QED
        BY <1>1, <1>2, <2>1, <2>2 DEF MineFails, TypeOK, procvars
<1>3. CASE MineOk
    <2> DEFINE tx == Head(mempool)
    <2>1. inflight' \in [Tokens -> Nat] /\ tx \in Txs
        BY <1>1, <1>3, MinedSells
    <2>2. mempool' \in Seq(Txs)
        BY <1>1, <1>3 DEF MineOk
    <2> DEFINE bal1 == [bal EXCEPT ![tx.tok] = CASE tx.kind = "buy" -> @ + tx.amt
                                               [] tx.kind = "sell" -> @ - tx.amt
                                               [] OTHER -> @]
    <2>3. /\ tx.kind = "sell" => SellValid(tx)
          /\ bal' = bal1
          /\ allowance' = IF tx.kind = "approve"
                          THEN [allowance EXCEPT ![tx.tok] = @ \cup {tx.route}] ELSE allowance
          /\ bought' = IF tx.kind = "buy" THEN bought \cup {tx.gen} ELSE bought
          /\ approvals' = IF tx.kind = "approve" THEN approvals \cup ({tx.gen} \ {None})
                                                 ELSE approvals
          /\ UNCHANGED <<procvars, venue, slowSold, landed, halved, buys, exits, crashes,
                         setting>>
        BY <1>3 DEF MineOk
    <2>4. /\ tx.kind \in {"buy", "sell", "approve"} /\ tx.tok \in Tokens /\ tx.amt \in Nat
          /\ tx.gen \in Gens \cup {None} /\ tx.route \in Routes
        BY <2>1 DEF Txs
    <2>5. tx.kind = "buy" => tx.gen \in Gens
        <3>1. tx = mempool[1] /\ 1 \in 1..Len(mempool)
            BY <1>1, <1>3 DEF MineOk
        <3>2. tx.kind = "buy" => tx.gen \in 1..buys
            BY <3>1 DEF Base, Shape, BuyNumbers
        <3>3. buys \in Nat /\ buys <= MaxBuys
            BY DEF Base, Shape, BuyNumbers, TypeOK
        <3>4. QED
            BY <3>2, <3>3, ConstantsAssumption DEF Gens
    <2> HIDE DEF tx
    <2>6. bal' \in [Tokens -> Nat]
        BY <1>1, <2>3, <2>4 DEF SellValid
    <2>7. allowance' \in [Tokens -> SUBSET Routes] /\ bought' \subseteq Gens
        BY <1>1, <2>3, <2>4, <2>5
    <2>8. approvals' \subseteq Gens
        BY <1>1, <2>3, <2>4
    <2>9. QED
        BY <1>1, <2>1, <2>2, <2>3, <2>6, <2>7, <2>8 DEF TypeOK, procvars
<1>4. CASE \E k \in Tokens : Graduate(k)
    BY <1>1, <1>4 DEF Graduate, TypeOK, Routes, procvars, histvars
<1>5. CASE Crash
    <2>1. entry' \in [Gens -> Entries] /\ buyer' \in [Buyers -> BuyTasks]
        BY <1>5, AtRest DEF Crash
    <2>2. exiter' \in [Exiters -> ExitTasks] /\ bg' \in [Gens -> BgTasks]
        BY <1>5, AtRest DEF Crash
    <2>3. /\ positions' \in [Tokens -> Gens \cup {None}]
          /\ exit_locks' \in [Tokens -> Exiters \cup {NoOne}]
          /\ open_count' \in Nat
          /\ halved' \in Nat
          /\ crashes' \in Nat
        BY <1>1, <1>5 DEF Crash
    <2>4. UNCHANGED <<chainvars, inflight, slowSold, landed, buys, exits, setting>>
        BY <1>5 DEF Crash
    <2>5. QED
        BY <1>1, <2>1, <2>2, <2>3, <2>4
        DEF TypeOK, Entries, BuyTasks, ExitTasks, BgTasks, chainvars
<1>6. QED
    BY <1>2, <1>3, <1>4, <1>5

\* The steps that neither send nor mine a sell keep the sums: at most a buy or an
\* approval is added to the queue.
LEMMA OtherTxFlow ==
    ASSUME TypeOK, Flow, inflight' = inflight,
           \/ mempool' = mempool
           \/ \E tx \in Txs : tx.kind # "sell" /\ mempool' = Append(mempool, tx)
    PROVE  Flow'
<1>1. CASE mempool' = mempool
    BY <1>1 DEF Flow
<1>2. ASSUME NEW tx \in Txs, tx.kind # "sell", mempool' = Append(mempool, tx) PROVE Flow'
    <2>1. SUFFICES ASSUME NEW k \in Tokens
                   PROVE  \E c : RunningSum(c, k, mempool', inflight[k])
        BY DEF Flow
    <2>2. Sells(tx, k) = 0 /\ inflight[k] \in Nat
        BY <1>2 DEF Sells, TypeOK
    <2>3. mempool \in Seq(Txs) /\ \E c : RunningSum(c, k, mempool, inflight[k])
        BY DEF TypeOK, Flow
    <2>4. \E c : RunningSum(c, k, mempool', inflight[k] + Sells(tx, k))
        BY <1>2, <2>2, <2>3, SumAppend
    <2>5. QED
        BY <2>2, <2>4
<1>3. QED
    BY <1>1, <1>2

---------------------------------------------------------------------------
(* What the steps of each kind of task leave alone.                        *)

BuyerStep(b) ==
    \/ BuyStart(b) \/ BuyClear(b) \/ BuySkip(b) \/ BuyPass(b)
    \/ BuySubmit(b) \/ BuyShadow(b) \/ BuyCount(b) \/ BuyRecord(b)

BgStep(g) ==
    \/ BgReceipt(g) \/ BgGivesUp(g) \/ BgReadBalance(g) \/ BgStore(g)
    \/ BgApprove(g) \/ BgConfirm(g)

ExitStep(x) ==
    \/ ExitStart(x) \/ ExitLock(x) \/ ExitReadCache(x) \/ ExitReadBalance(x)
    \/ ExitApprove(x) \/ ExitRoute(x) \/ ExitSubmit(x) \/ ExitUpdate(x) \/ ExitCount(x)
    \/ ExitShadow(x)

ChainStep == MineOk \/ MineFails \/ \E k \in Tokens : Graduate(k)

\* A buyer works with its own state, the map and its own new entry.
LEMMA BuyerFrame ==
    ASSUME NEW b \in Buyers, BuyerStep(b)
    PROVE  /\ UNCHANGED <<exit_locks, exiter, bal, allowance, venue, bought, approvals,
                          inflight, slowSold, landed, halved, exits, crashes, setting>>
           /\ BuyRecord(b) \/ UNCHANGED <<entry, bg>>
           /\ BuyCount(b) \/ BuyShadow(b) \/ UNCHANGED open_count
           /\ BuySubmit(b) \/ UNCHANGED mempool
           /\ BuySubmit(b) \/ BuyShadow(b) \/ UNCHANGED buys
           /\ BuyClear(b) \/ BuyRecord(b) \/ UNCHANGED positions
<1>1. CASE BuySubmit(b)
    BY <1>1 DEF BuySubmit
<1>2. CASE BuyShadow(b)
    BY <1>2 DEF BuyShadow, chainvars
<1>3. CASE BuyRecord(b)
    BY <1>3 DEF BuyRecord, chainvars, histvars
<1>4. CASE BuyStart(b) \/ BuyClear(b) \/ BuySkip(b) \/ BuyPass(b) \/ BuyCount(b)
    BY <1>4 DEF BuyStart, BuyClear, BuySkip, BuyPass, BuyCount, chainvars, histvars
<1>5. QED
    BY <1>1, <1>2, <1>3, <1>4 DEF BuyerStep

\* A finaliser works with its own state and its own entry.
LEMMA BgFrame ==
    ASSUME TypeOK, NEW g \in Gens, BgStep(g)
    PROVE  /\ UNCHANGED <<positions, exit_locks, open_count, buyer, exiter, bal, allowance, venue,
                          bought, approvals, inflight, slowSold, landed, halved, buys, exits,
                          crashes, setting>>
           /\ BgApprove(g) \/ UNCHANGED mempool
           /\ \A h \in Gens : h # g => bg'[h] = bg[h] /\ entry'[h] = entry[h]
           /\ bg'[g].tok = bg[g].tok
           /\ bg[g].pc \notin {"none", "done"} /\ bg'[g].pc # "none"
           /\ bg[g].pc = "store" \/ entry'[g].amt = entry[g].amt
           /\ BgConfirm(g) \/ entry'[g].approved = entry[g].approved
           /\ BgReadBalance(g) \/ bg'[g].read = bg[g].read
<1>1. bg \in [Gens -> BgTasks] /\ entry \in [Gens -> Entries]
    BY TypeParts
<1>2. CASE BgReceipt(g)
    BY <1>1, <1>2 DEF BgReceipt, BgTasks, chainvars, histvars
<1>3. CASE BgGivesUp(g)
    BY <1>1, <1>3 DEF BgGivesUp, BgTasks, chainvars, histvars
<1>4. CASE BgReadBalance(g)
    BY <1>1, <1>4 DEF BgReadBalance, BgTasks, chainvars, histvars
<1>5. CASE BgStore(g)
    BY <1>1, <1>5 DEF BgStore, BgTasks, Entries, chainvars, histvars
<1>6. CASE BgApprove(g)
    BY <1>1, <1>6 DEF BgApprove, BgTasks, histvars
<1>7. CASE BgConfirm(g)
    BY <1>1, <1>7 DEF BgConfirm, BgTasks, Entries, chainvars, histvars
<1>8. QED
    BY <1>2, <1>3, <1>4, <1>5, <1>6, <1>7 DEF BgStep

\* An exit that returns leaves the others as they are.
LEMMA ExitDoneFrame ==
    ASSUME TypeOK, NEW x \in Exiters, ExitDone(x)
    PROVE  /\ exiter'[x] = NoExit
           /\ \A y \in Exiters : y # x => exiter'[y] = exiter[y]
           /\ \A k \in Tokens : exit_locks[k] # x => exit_locks'[k] = exit_locks[k]
BY TypeParts DEF ExitDone, TypeOK

\* An exit works with its own state and its own lock, and at its end with the amount of
\* the entry that the map holds for its token.
LEMMA ExitFrame ==
    ASSUME TypeOK, NEW x \in Exiters, ExitStep(x)
    PROVE  /\ UNCHANGED <<positions, buyer, bg, bal, allowance, venue, bought, approvals,
                          buys, crashes, setting>>
           /\ ExitUpdate(x) \/ UNCHANGED entry
           /\ ExitCount(x) \/ ExitShadow(x) \/ UNCHANGED open_count
           /\ ExitCount(x) \/ UNCHANGED halved
           /\ ExitApprove(x) \/ ExitSubmit(x) \/ UNCHANGED mempool
           /\ ExitSubmit(x) \/ UNCHANGED <<inflight, slowSold, landed>>
           /\ \A y \in Exiters : y # x => exiter'[y] = exiter[y]
<1>1. exiter \in [Exiters -> ExitTasks]
    BY TypeParts
<1>2. CASE ExitStart(x)
    BY <1>1, <1>2 DEF ExitStart, chainvars
<1>3. CASE ExitLock(x)
    BY <1>1, <1>3 DEF ExitLock, chainvars, histvars
<1>4. CASE ExitReadCache(x)
    BY <1>1, <1>4, ExitDoneFrame DEF ExitReadCache, chainvars, histvars
<1>5. CASE ExitReadBalance(x)
    BY <1>1, <1>5, ExitDoneFrame DEF ExitReadBalance, chainvars, histvars
<1>6. CASE ExitApprove(x)
    BY <1>1, <1>6, ExitDoneFrame DEF ExitApprove, chainvars, histvars
<1>7. CASE ExitRoute(x)
    BY <1>1, <1>7 DEF ExitRoute, chainvars, histvars
<1>8. CASE ExitSubmit(x)
    BY <1>1, <1>8, ExitDoneFrame DEF ExitSubmit
<1>9. CASE ExitUpdate(x)
    BY <1>1, <1>9 DEF ExitUpdate, chainvars, histvars
<1>10. CASE ExitShadow(x)
    BY <1>1, <1>10, ExitDoneFrame DEF ExitShadow, chainvars, histvars
<1>11. CASE ExitCount(x)
    BY <1>1, <1>11, ExitDoneFrame DEF ExitCount, chainvars
<1>12. QED
    BY <1>2, <1>3, <1>4, <1>5, <1>6, <1>7, <1>8, <1>9, <1>10, <1>11 DEF ExitStep

LEMMA ChainFrame ==
    ASSUME ChainStep
    PROVE  /\ UNCHANGED <<procvars, slowSold, landed, halved, buys, exits, crashes, setting>>
           /\ MineOk \/ MineFails \/ UNCHANGED <<mempool, inflight>>
           /\ MineOk \/ UNCHANGED <<bal, bought, approvals>>
BY DEF ChainStep, MineOk, MineFails, Graduate, histvars

---------------------------------------------------------------------------
(* How an exit moves from place to place.                                  *)

SamePlan(x) ==
    /\ exiter'[x].tok = exiter[x].tok
    /\ exiter'[x].full = exiter[x].full
    /\ exiter'[x].our = exiter[x].our
    /\ exiter'[x].amt = exiter[x].amt
    /\ exiter'[x].fast = exiter[x].fast
    /\ exiter'[x].gen = exiter[x].gen

\* The exit is called.
Called(x) ==
    /\ exiter[x].pc = "idle"
    /\ exiter'[x].pc = "wait"
    /\ exiter'[x].tok \in Tokens
    /\ exiter'[x].fast = FALSE
    /\ exiter'[x].full = TRUE
    /\ UNCHANGED exit_locks
    /\ TrailActive => TrailSees(exiter'[x].tok) /\ ~TrailBusy(exiter'[x].tok)

\* It gets the mutex of its token.
Acquired(x) ==
    /\ exiter[x].pc = "wait"
    /\ exiter'[x].pc = "read"
    /\ exiter'[x].tok = exiter[x].tok
    /\ exiter'[x].fast = exiter[x].fast
    /\ exiter'[x].full \in BOOLEAN
    /\ TrailActive => exiter'[x].full
    /\ exit_locks[exiter[x].tok] = NoOne
    /\ exit_locks' = [exit_locks EXCEPT ![exiter[x].tok] = x]

\* It decides for the fast path, with the entry in the map.
TakesFast(x) ==
    LET g == positions[exiter[x].tok]
    IN  /\ exiter[x].pc = "read"
        /\ exiter'[x].pc = "route"
        /\ g # None /\ Ready(entry[g])
        /\ exiter'[x].tok = exiter[x].tok
        /\ exiter'[x].full = exiter[x].full
        /\ exiter'[x].our = entry[g].amt
        /\ exiter'[x].amt = SellAmount(x, entry[g].amt)
        /\ exiter'[x].amt > 0
        /\ exiter'[x].fast = TRUE
        /\ exiter'[x].gen = g
        /\ UNCHANGED exit_locks

\* It decides to ask the chain.
TakesSlow(x) ==
    LET g == positions[exiter[x].tok]
    IN  /\ exiter[x].pc = "read"
        /\ exiter'[x].pc = "balance"
        /\ g # None => ~entry[g].approved
        /\ exiter'[x].tok = exiter[x].tok
        /\ exiter'[x].full = exiter[x].full
        /\ exiter'[x].fast = exiter[x].fast
        /\ UNCHANGED exit_locks

\* It sizes a slow-path sell.
Sizes(x) ==
    /\ exiter[x].pc = "balance"
    /\ exiter'[x].pc = "approve"
    /\ exiter'[x].tok = exiter[x].tok
    /\ exiter'[x].full = exiter[x].full
    /\ exiter'[x].our = bal[exiter[x].tok]
    /\ exiter'[x].amt = SellAmount(x, bal[exiter[x].tok])
    /\ exiter'[x].amt > 0
    /\ exiter'[x].fast = exiter[x].fast
    /\ UNCHANGED exit_locks

\* It goes on with the plan it has.
GoesOn(x) ==
    /\ \/ exiter[x].pc = "approve" /\ exiter'[x].pc = "route"
       \/ exiter[x].pc = "route" /\ exiter'[x].pc = "submit"
       \/ /\ exiter[x].pc = "submit" /\ exiter'[x].pc = "update"
          /\ ~exiter[x].fast => exiter[x].tok \in slowSold'
    /\ SamePlan(x)
    /\ UNCHANGED exit_locks

\* It writes the cache back, and keeps nothing of its plan but whether it was full.
WritesBack(x) ==
    /\ exiter[x].pc = "update"
    /\ exiter'[x].pc = "count"
    /\ exiter'[x].tok = exiter[x].tok
    /\ exiter'[x].full = exiter[x].full
    /\ exiter'[x].fast = FALSE
    /\ UNCHANGED exit_locks

Returns(x) == exiter[x].pc \in Locked /\ ExitDone(x)

LEMMA ExitMoves ==
    ASSUME TypeOK, NEW x \in Exiters, ExitStep(x)
    PROVE  \/ ExitStart(x) /\ Called(x)
           \/ ExitLock(x) /\ Acquired(x)
           \/ ExitReadCache(x) /\ (TakesFast(x) \/ TakesSlow(x) \/ Returns(x))
           \/ ExitReadBalance(x) /\ (Sizes(x) \/ Returns(x))
           \/ ExitApprove(x) /\ (GoesOn(x) \/ Returns(x))
           \/ ExitRoute(x) /\ GoesOn(x)
           \/ ExitSubmit(x) /\ (GoesOn(x) \/ Returns(x))
           \/ ExitUpdate(x) /\ WritesBack(x)
           \/ ExitCount(x) /\ Returns(x)
           \/ ExitShadow(x) /\ Returns(x)
<1>1. exiter \in [Exiters -> ExitTasks] /\ exiter[x] \in ExitTasks
    BY TypeParts
<1>2. CASE ExitStart(x)
    <2>1. PICK k \in Tokens :
            /\ TrailActive => TrailSees(k) /\ ~TrailBusy(k)
            /\ exiter' = [exiter EXCEPT ![x] = [NoExit EXCEPT !.pc = "wait", !.tok = k]]
        BY <1>2 DEF ExitStart
    <2>2. exiter'[x] = [NoExit EXCEPT !.pc = "wait", !.tok = k]
        BY <1>1, <2>1
    <2>3. /\ exiter'[x].pc = "wait" /\ exiter'[x].tok = k
          /\ exiter'[x].fast = FALSE /\ exiter'[x].full = TRUE
        BY <2>2 DEF NoExit
    <2>4. exiter[x].pc = "idle" /\ UNCHANGED exit_locks
        BY <1>2 DEF ExitStart
    <2>5. QED
        BY <1>2, <2>1, <2>3, <2>4 DEF Called
<1>3. CASE ExitLock(x)
    <2>1. PICK f \in BOOLEAN :
            /\ TrailActive => f
            /\ exiter' = [exiter EXCEPT ![x].pc = "read", ![x].full = f]
        BY <1>3 DEF ExitLock
    <2>2. exiter'[x] = [exiter[x] EXCEPT !.pc = "read", !.full = f]
        BY <1>1, <2>1
    <2>3. /\ exiter'[x].pc = "read" /\ exiter'[x].tok = exiter[x].tok
          /\ exiter'[x].fast = exiter[x].fast /\ exiter'[x].full = f
        BY <1>1, <2>2 DEF ExitTasks
    <2>4. QED
        BY <1>3, <2>1, <2>3 DEF Acquired, ExitLock
<1>4. CASE ExitReadCache(x)
    <2> DEFINE g == positions[exiter[x].tok]
    <2>1. exiter[x].pc = "read"
        BY <1>4 DEF ExitReadCache
    <2>2. CASE ExitDone(x)
        BY <1>4, <2>1, <2>2 DEF Returns, Locked
    <2>3. CASE /\ g # None
               /\ Ready(entry[g])
               /\ SellAmount(x, entry[g].amt) > 0
               /\ exiter' = [exiter EXCEPT ![x] =
                     [@ EXCEPT !.pc = "route", !.our = entry[g].amt, !.fast = TRUE,
                               !.amt = SellAmount(x, entry[g].amt),
                               !.route = entry[g].route, !.gen = g]]
               /\ UNCHANGED exit_locks
        <3> HIDE DEF g
        <3>1. exiter'[x] = [exiter[x] EXCEPT !.pc = "route", !.our = entry[g].amt, !.fast = TRUE,
                               !.amt = SellAmount(x, entry[g].amt),
                               !.route = entry[g].route, !.gen = g]
            BY <1>1, <2>3
        <3>2. /\ exiter'[x].pc = "route" /\ exiter'[x].tok = exiter[x].tok
              /\ exiter'[x].full = exiter[x].full /\ exiter'[x].our = entry[g].amt
              /\ exiter'[x].amt = SellAmount(x, entry[g].amt)
              /\ exiter'[x].fast = TRUE /\ exiter'[x].gen = g
            BY <1>1, <3>1 DEF ExitTasks
        <3>3. TakesFast(x)
            BY <2>1, <2>3, <3>2 DEF TakesFast, g
        <3>4. QED
            BY <1>4, <3>3
    <2>4. CASE /\ g # None => ~entry[g].approved
               /\ exiter' = [exiter EXCEPT ![x].pc = "balance", ![x].gen = g]
               /\ UNCHANGED exit_locks
        <3>1. exiter'[x] = [exiter[x] EXCEPT !.pc = "balance", !.gen = g]
            BY <1>1, <2>4
        <3>2. /\ exiter'[x].pc = "balance" /\ exiter'[x].tok = exiter[x].tok
              /\ exiter'[x].full = exiter[x].full /\ exiter'[x].fast = exiter[x].fast
            BY <1>1, <3>1 DEF ExitTasks
        <3>3. QED
            BY <1>4, <2>1, <2>4, <3>2 DEF TakesSlow
    <2>5. QED
        BY <1>4, <2>2, <2>3, <2>4 DEF ExitReadCache
<1>5. CASE ExitReadBalance(x)
    <2> DEFINE k == exiter[x].tok
    <2>1. exiter[x].pc = "balance"
        BY <1>5 DEF ExitReadBalance
    <2>2. CASE ExitDone(x)
        BY <1>5, <2>1, <2>2 DEF Returns, Locked
    <2>3. CASE ~ExitDone(x)
        <3>1. PICK r : /\ exiter' = [exiter EXCEPT ![x] =
                             [@ EXCEPT !.pc = "approve", !.our = bal[k],
                                       !.amt = SellAmount(x, bal[k]), !.route = r]]
                       /\ SellAmount(x, bal[k]) > 0
                       /\ UNCHANGED exit_locks
            BY <1>5, <2>3 DEF ExitReadBalance
        <3>2. exiter'[x] = [exiter[x] EXCEPT !.pc = "approve", !.our = bal[k],
                                       !.amt = SellAmount(x, bal[k]), !.route = r]
            BY <1>1, <3>1
        <3> HIDE DEF k
        <3>3. /\ exiter'[x].pc = "approve" /\ exiter'[x].tok = exiter[x].tok
              /\ exiter'[x].full = exiter[x].full /\ exiter'[x].our = bal[k]
              /\ exiter'[x].amt = SellAmount(x, bal[k]) /\ exiter'[x].fast = exiter[x].fast
            BY <1>1, <3>2 DEF ExitTasks
        <3>4. QED
            BY <1>5, <2>1, <3>1, <3>3 DEF Sizes, k
    <2>4. QED
        BY <2>2, <2>3
<1>6. CASE ExitApprove(x)
    <2>1. exiter[x].pc = "approve"
        BY <1>6 DEF ExitApprove
    <2>2. /\ exiter' = [exiter EXCEPT ![x].pc = "route"] /\ UNCHANGED exit_locks
          \/ ExitDone(x)
        BY <1>6 DEF ExitApprove
    <2>3. QED
        BY <1>1, <1>6, <2>1, <2>2 DEF GoesOn, SamePlan, Returns, Locked, ExitTasks
<1>7. CASE ExitRoute(x)
    <2>1. PICK r : exiter' = [exiter EXCEPT ![x].pc = "submit", ![x].route = r]
        BY <1>7 DEF ExitRoute
    <2>2. exiter'[x] = [exiter[x] EXCEPT !.pc = "submit", !.route = r]
        BY <1>1, <2>1
    <2>3. exiter'[x].pc = "submit" /\ SamePlan(x)
        BY <1>1, <2>2 DEF ExitTasks, SamePlan
    <2>4. QED
        BY <1>7, <2>3 DEF GoesOn, ExitRoute
<1>8. CASE ExitSubmit(x)
    <2>1. exiter[x].pc = "submit"
        BY <1>8 DEF ExitSubmit
    <2>2. \/ /\ exiter' = [exiter EXCEPT ![x].pc = "update", ![x].route = "FourMeme"]
             /\ UNCHANGED exit_locks
             /\ ~exiter[x].fast => exiter[x].tok \in slowSold'
          \/ ExitDone(x)
        BY <1>8 DEF ExitSubmit, Sent
    <2>3. CASE ExitDone(x)
        BY <1>8, <2>1, <2>3 DEF Returns, Locked
    <2>4. CASE ~ExitDone(x)
        <3>1. exiter'[x] = [exiter[x] EXCEPT !.pc = "update", !.route = "FourMeme"]
            BY <1>1, <2>2, <2>4
        <3>2. exiter'[x].pc = "update" /\ SamePlan(x)
            BY <1>1, <3>1 DEF ExitTasks, SamePlan
        <3>3. QED
            BY <1>8, <2>1, <2>2, <2>4, <3>2 DEF GoesOn
    <2>5. QED
        BY <2>3, <2>4
<1>9. CASE ExitCount(x) \/ ExitShadow(x)
    BY <1>9 DEF ExitCount, ExitShadow, Returns, Locked
<1>10. CASE ExitUpdate(x)
    <2>1. exiter'[x] = [NoExit EXCEPT !.pc = "count", !.tok = exiter[x].tok,
                                      !.full = exiter[x].full]
        BY <1>1, <1>10 DEF ExitUpdate
    <2>2. /\ exiter'[x].pc = "count" /\ exiter'[x].tok = exiter[x].tok
          /\ exiter'[x].full = exiter[x].full /\ exiter'[x].fast = FALSE
        BY <2>1 DEF NoExit
    <2>3. QED
        BY <1>10, <2>2 DEF ExitUpdate, WritesBack
<1>11. QED
    BY <1>2, <1>3, <1>4, <1>5, <1>6, <1>7, <1>8, <1>9, <1>10 DEF ExitStep

---------------------------------------------------------------------------
(* How a buyer moves.                                                      *)

\* Past the guard: the token is not held.
Begins(b) ==
    /\ buyer[b].pc = "idle"
    /\ buyer'[b].tok \in Tokens
    /\ ~Held(buyer'[b].tok)
    /\ buyer'[b].gen = None
    /\ buyer'[b].pc = IF positions[buyer'[b].tok] = None THEN "gate" ELSE "clear"

Proceeds(b, from, to) ==
    /\ buyer[b].pc = from
    /\ buyer'[b].pc = to
    /\ buyer'[b].tok = buyer[b].tok
    /\ buyer'[b].gen = buyer[b].gen

\* A buy with the next number is sent, and its acceptance is awaited no longer.
Accepted(b) ==
    /\ buyer[b].pc = "submit"
    /\ buyer'[b].pc = "count"
    /\ buyer'[b].tok = buyer[b].tok
    /\ buyer'[b].gen = buys + 1

LEMMA BuyerMoves ==
    ASSUME TypeOK, NEW b \in Buyers, BuyerStep(b)
    PROVE  \/ BuyStart(b) /\ Begins(b)
           \/ BuyClear(b) /\ Proceeds(b, "clear", "gate")
           \/ BuySkip(b) /\ buyer[b].pc = "gate" /\ buyer'[b] = NoBuy
           \/ BuyPass(b) /\ Proceeds(b, "gate", "submit")
           \/ BuySubmit(b) /\ (Accepted(b) \/ buyer'[b] = NoBuy)
           \/ BuyShadow(b) /\ buyer'[b] = NoBuy
           \/ BuyCount(b) /\ Proceeds(b, "count", "record")
           \/ BuyRecord(b) /\ buyer[b].pc = "record" /\ buyer'[b] = NoBuy
<1>1. buyer \in [Buyers -> BuyTasks] /\ buyer[b] \in BuyTasks
    BY TypeParts
<1>2. CASE BuyStart(b)
    <2>1. PICK k \in Tokens :
            /\ ~Held(k)
            /\ buyer' = [buyer EXCEPT ![b] =
               [NoBuy EXCEPT !.pc = IF positions[k] = None THEN "gate" ELSE "clear",
                             !.tok = k, !.n_open = open_count]]
        BY <1>2 DEF BuyStart
    <2>2. /\ buyer'[b].tok = k /\ buyer'[b].gen = None
          /\ buyer'[b].pc = IF positions[k] = None THEN "gate" ELSE "clear"
        BY <1>1, <2>1 DEF NoBuy
    <2>3. QED
        BY <1>2, <2>1, <2>2 DEF Begins, BuyStart
<1>3. CASE BuyClear(b)
    <2>1. Proceeds(b, "clear", "gate")
        BY <1>1, <1>3 DEF BuyClear, Proceeds, BuyTasks
    <2>2. QED
        BY <1>3, <2>1
<1>4. CASE BuySkip(b) \/ BuyShadow(b)
    BY <1>1, <1>4 DEF BuySkip, BuyShadow
<1>5. CASE BuyPass(b)
    <2>1. PICK r : buyer' = [buyer EXCEPT ![b].pc = "submit", ![b].n_open = 0,
                                          ![b].route = r]
        BY <1>5 DEF BuyPass
    <2>2. buyer'[b] = [buyer[b] EXCEPT !.pc = "submit", !.n_open = 0, !.route = r]
        BY <1>1, <2>1
    <2>3. Proceeds(b, "gate", "submit")
        BY <1>1, <1>5, <2>2 DEF BuyPass, Proceeds, BuyTasks
    <2>4. QED
        BY <1>5, <2>3
<1>6. CASE BuySubmit(b)
    <2>1. PICK o \in Outcomes : buyer' = [buyer EXCEPT ![b] =
               IF o = "accepted" THEN [@ EXCEPT !.pc = "count", !.gen = buys + 1] ELSE NoBuy]
        BY <1>6 DEF BuySubmit
    <2>2. CASE o = "accepted"
        <3>1. buyer'[b] = [buyer[b] EXCEPT !.pc = "count", !.gen = buys + 1]
            BY <1>1, <2>1, <2>2
        <3>2. Accepted(b)
            BY <1>1, <1>6, <3>1 DEF Accepted, BuySubmit, BuyTasks
        <3>3. QED
            BY <1>6, <3>2
    <2>3. CASE o # "accepted"
        BY <1>1, <1>6, <2>1, <2>3
    <2>4. QED
        BY <2>2, <2>3
<1>7. CASE BuyRecord(b)
    BY <1>1, <1>7 DEF BuyRecord
<1>8. CASE BuyCount(b)
    <2>1. Proceeds(b, "count", "record")
        BY <1>1, <1>8 DEF BuyCount, Proceeds, BuyTasks
    <2>2. QED
        BY <1>8, <2>1
<1>9. QED
    BY <1>2, <1>3, <1>4, <1>5, <1>6, <1>7, <1>8 DEF BuyerStep

\* There is one consumer: a buyer's step moves every buyer there is.
LEMMA OneBuyer == \A b, c \in Buyers : b = c
BY TasksAssumption

---------------------------------------------------------------------------
(* The shape of the process.                                               *)

LEMMA InitShape == Init => Shape
<1> SUFFICES ASSUME Init PROVE Shape
    OBVIOUS
<1>1. LockHeld
    BY DEF Init, LockHeld, NoExit, Locked
<1>2. TaskTokens
    BY DEF Init, TaskTokens, NoBuy, NoExit, NoBg
<1>3. EntryOwners
    BY DEF Init, EntryOwners, Made, NoBuy, NoBg, NoEntry
<1>4. GuardPassed
    BY DEF Init, GuardPassed, NoBuy
<1>5. ExitPlan
    BY DEF Init, ExitPlan, NoExit
<1>6. BuyNumbers
    BY ConstantsAssumption DEF Init, BuyNumbers, NoBg
<1>7. QED
    BY <1>1, <1>2, <1>3, <1>4, <1>5, <1>6 DEF Shape

LEMMA RecordFacts ==
    ASSUME Base, NEW b \in Buyers, BuyRecord(b)
    PROVE  LET g == buyer[b].gen
               k == buyer[b].tok
           IN  /\ g \in Gens /\ k \in Tokens /\ g \in 1..buys
               /\ bg[g] = NoBg /\ entry[g] = NoEntry
               /\ positions[k] = None
               /\ positions'[k] = g
               /\ \A j \in Tokens : j # k => positions'[j] = positions[j]
               /\ bg'[g] = [pc |-> "poll", tok |-> k, read |-> 0]
               /\ entry'[g].amt = 0 /\ entry'[g].approved = FALSE
               /\ \A h \in Gens : h # g => bg'[h] = bg[h] /\ entry'[h] = entry[h]
<1> DEFINE g == buyer[b].gen
           k == buyer[b].tok
<1>1. /\ positions \in [Tokens -> Gens \cup {None}]
      /\ entry \in [Gens -> Entries] /\ bg \in [Gens -> BgTasks]
      /\ buys \in Nat
    BY TypeParts DEF Base, TypeOK
<1>2. buyer[b].pc = "record" /\ k \in Tokens /\ positions[k] = None
    BY DEF BuyRecord, Base, Shape, TaskTokens, GuardPassed
<1>3. g \in 1..buys /\ bg[g].pc = "none"
    BY <1>2 DEF Base, Shape, EntryOwners, Made
<1>4. g \in Gens
    BY <1>1, <1>3, ConstantsAssumption DEF Base, Shape, BuyNumbers, Gens
<1>5. bg[g] = NoBg /\ entry[g] = NoEntry
    BY <1>3, <1>4 DEF Base, Shape, TaskTokens, EntryOwners
<1>6. /\ positions' = [positions EXCEPT ![k] = g]
      /\ entry' = [entry EXCEPT ![g] = [amt |-> 0, approved |-> FALSE,
                                        route |-> buyer[b].route]]
      /\ bg' = [bg EXCEPT ![g] = [pc |-> "poll", tok |-> k, read |-> 0]]
    BY DEF BuyRecord
<1> HIDE DEF g, k
<1>7. QED
    BY <1>1, <1>2, <1>3, <1>4, <1>5, <1>6 DEF g, k

LEMMA BuyerShape ==
    ASSUME Base, NEW b \in Buyers, BuyerStep(b)
    PROVE  Shape'
<1>1. TypeOK /\ TypeOK' /\ buys \in Nat
    BY BuyerType DEF BuyerStep, Base, TypeOK
<1>2. /\ LockHeld /\ TaskTokens /\ EntryOwners /\ GuardPassed /\ ExitPlan /\ BuyNumbers
      /\ positions \in [Tokens -> Gens \cup {None}]
      /\ positions' \in [Tokens -> Gens \cup {None}]
      /\ \A c \in Buyers : c = b
    BY <1>1, OneBuyer DEF Base, Shape, TypeOK
<1>3. UNCHANGED <<exit_locks, exiter, slowSold, bought>>
    BY BuyerFrame
<1>4. LockHeld'
    BY <1>2, <1>3 DEF LockHeld
<1>5. BuyRecord(b) \/ UNCHANGED <<entry, bg>>
    BY BuyerFrame
<1>6. buys' \in Nat /\ buys <= buys' /\ buys' <= MaxBuys
    <2>1. CASE BuySubmit(b) \/ BuyShadow(b)
        BY <1>1, <2>1, ConstantsAssumption DEF BuySubmit, BuyShadow
    <2>2. CASE UNCHANGED buys
        BY <1>1, <1>2, <2>2 DEF BuyNumbers
    <2>3. QED
        BY <2>1, <2>2, BuyerFrame
<1>7. TaskTokens'
    <2>1. buyer'[b].pc # "idle" => buyer'[b].tok \in Tokens
        BY <1>1, <1>2, BuyerMoves DEF TaskTokens, Begins, Proceeds, Accepted, NoBuy
    <2>2. CASE UNCHANGED <<entry, bg>>
        BY <1>2, <1>3, <2>1, <2>2 DEF TaskTokens
    <2>3. CASE BuyRecord(b)
        <3> DEFINE g == buyer[b].gen
        <3>1. /\ buyer[b].tok \in Tokens
              /\ bg'[g] = [pc |-> "poll", tok |-> buyer[b].tok, read |-> 0]
              /\ \A h \in Gens : h # g => bg'[h] = bg[h]
            BY <2>3, RecordFacts
        <3> HIDE DEF g
        <3>2. \A h \in Gens : IF bg'[h].pc = "none" THEN bg'[h] = NoBg ELSE bg'[h].tok \in Tokens
            BY <1>2, <3>1 DEF TaskTokens
        <3>3. QED
            BY <1>2, <1>3, <2>1, <3>2 DEF TaskTokens
    <2>4. QED
        BY <1>5, <2>2, <2>3
<1>8. CASE BuyRecord(b)
    <2> DEFINE g == buyer[b].gen
               k == buyer[b].tok
    <2>1. /\ g \in Gens /\ k \in Tokens /\ g \in 1..buys
          /\ bg[g] = NoBg /\ entry[g] = NoEntry
          /\ positions[k] = None
          /\ positions'[k] = g
          /\ \A j \in Tokens : j # k => positions'[j] = positions[j]
          /\ bg'[g] = [pc |-> "poll", tok |-> k, read |-> 0]
          /\ entry'[g].amt = 0 /\ entry'[g].approved = FALSE
          /\ \A h \in Gens : h # g => bg'[h] = bg[h] /\ entry'[h] = entry[h]
        BY <1>8, RecordFacts
    <2>2. buyer'[b] = NoBuy /\ UNCHANGED <<buys, mempool>>
        BY <1>1, <1>8, TypeParts DEF BuyRecord, chainvars, histvars
    <2> HIDE DEF g, k
    <2>3. EntryOwners'
        <3>1. \A h \in Gens : /\ h > buys' => bg'[h].pc = "none"
                              /\ bg'[h].pc = "none" => entry'[h] = NoEntry
                              /\ entry'[h].approved => bg'[h].pc = "done"
            BY <1>1, <1>2, <2>1, <2>2 DEF EntryOwners
        <3>2. ASSUME NEW j \in Tokens, positions'[j] # None PROVE bg'[positions'[j]].tok = j
            <4>1. CASE j = k
                BY <2>1, <4>1
            <4>2. CASE j # k
                <5>1. positions[j] \in Gens /\ bg[positions[j]].tok = j
                    BY <1>2, <2>1, <3>2, <4>2 DEF EntryOwners
                <5>2. positions[j] # g
                    BY <2>1, <5>1, NamesAssumption DEF NoBg
                <5>3. QED
                    BY <2>1, <4>2, <5>1, <5>2
            <4>3. QED
                BY <4>1, <4>2
        <3>3. QED
            BY <1>2, <2>2, <3>1, <3>2 DEF EntryOwners, Made, NoBuy
    <2>4. GuardPassed'
        BY <1>2, <2>2 DEF GuardPassed, NoBuy
    <2>5. ExitPlan'
        <3>1. SUFFICES ASSUME NEW x \in Exiters, exiter[x].fast
                       PROVE  /\ entry'[exiter[x].gen].approved
                              /\ bg'[exiter[x].gen].tok = exiter[x].tok
            BY <1>2, <1>3 DEF ExitPlan
        <3>2. exiter[x].gen \in Gens /\ exiter[x].gen # g
            BY <1>2, <2>1, <3>1 DEF ExitPlan, NoEntry
        <3>3. QED
            BY <1>2, <2>1, <3>1, <3>2 DEF ExitPlan
    <2>6. BuyNumbers'
        BY <1>2, <1>3, <2>1, <2>2 DEF BuyNumbers
    <2>7. QED
        BY <1>4, <1>7, <2>3, <2>4, <2>5, <2>6 DEF Shape
<1>9. CASE ~BuyRecord(b)
    <2>1. UNCHANGED <<entry, bg>>
        BY <1>5, <1>9
    <2>2. ExitPlan'
        BY <1>2, <1>3, <2>1 DEF ExitPlan
    <2>3. EntryOwners'
        <3>1. \A h \in Gens : h > buys' => bg'[h].pc = "none"
            BY <1>1, <1>2, <1>6, <2>1, GensFacts DEF EntryOwners
        <3>2. ASSUME NEW j \in Tokens, positions'[j] # None PROVE positions'[j] = positions[j]
            BY <1>2, <1>9, <3>2, BuyerFrame DEF BuyClear
        <3>3. IF Made(b)'
              THEN buyer'[b].gen \in 1..buys' /\ bg'[buyer'[b].gen].pc = "none"
              ELSE buyer'[b].gen = None
            <4>1. CASE BuySubmit(b) /\ Accepted(b)
                <5>1. buyer'[b].gen = buys + 1 /\ buys' = buys + 1 /\ buys < MaxBuys
                    BY <4>1 DEF BuySubmit, Accepted
                <5>2. buys + 1 \in Gens /\ buys + 1 > buys
                    BY <1>1, <5>1, ConstantsAssumption DEF Gens
                <5>3. bg[buys + 1].pc = "none"
                    BY <1>2, <5>2 DEF EntryOwners
                <5>4. QED
                    BY <1>1, <2>1, <4>1, <5>1, <5>3 DEF Accepted, Made
            <4>2. CASE ~(BuySubmit(b) /\ Accepted(b))
                <5>1. \/ buyer'[b].pc \notin {"count", "record"} /\ buyer'[b].gen = None
                      \/ Proceeds(b, "count", "record") /\ UNCHANGED <<bg, buys>>
                    <6>1. CASE Proceeds(b, "count", "record") /\ BuyCount(b)
                        BY <6>1 DEF BuyCount, histvars
                    <6>2. CASE Begins(b) \/ buyer'[b] = NoBuy
                        BY <6>2 DEF Begins, NoBuy
                    <6>3. CASE Proceeds(b, "clear", "gate") \/ Proceeds(b, "gate", "submit")
                        BY <1>2, <6>3 DEF Proceeds, EntryOwners, Made
                    <6>4. QED
                        BY <1>1, <1>9, <4>2, <6>1, <6>2, <6>3, BuyerMoves
                <5>2. CASE buyer'[b].pc \notin {"count", "record"} /\ buyer'[b].gen = None
                    BY <5>2 DEF Made
                <5>3. CASE Proceeds(b, "count", "record") /\ UNCHANGED <<bg, buys>>
                    BY <1>2, <5>3 DEF Proceeds, EntryOwners, Made
                <5>4. QED
                    BY <5>1, <5>2, <5>3
            <4>3. QED
                BY <4>1, <4>2
        <3>4. QED
            BY <1>2, <2>1, <3>1, <3>2, <3>3 DEF EntryOwners
    <2>4. GuardPassed'
        <3>1. CASE BuyClear(b)
            BY <1>1, <1>2, <3>1, BuyerMoves DEF BuyClear, GuardPassed, TaskTokens
        <3>2. CASE ~BuyClear(b)
            <4>1. UNCHANGED positions
                BY <1>9, <3>2, BuyerFrame
            <4>2. QED
                BY <1>1, <1>2, <1>9, <3>2, <4>1, BuyerMoves
                DEF GuardPassed, Begins, Proceeds, Accepted, NoBuy
        <3>3. QED
            BY <3>1, <3>2
    <2>5. BuyNumbers'
        <3>1. ASSUME NEW i \in 1..Len(mempool'), mempool'[i].kind = "buy"
              PROVE  mempool'[i].gen \in 1..buys'
            <4>1. CASE UNCHANGED mempool
                BY <1>1, <1>2, <1>6, <3>1, <4>1 DEF BuyNumbers
            <4>2. CASE BuySubmit(b)
                <5> DEFINE tx == [kind |-> "buy", tok |-> buyer[b].tok, amt |-> BuyUnits,
                                  gen |-> buys + 1, route |-> AnyRoute]
                <5>1. mempool' = mempool \/ mempool' = Append(mempool, tx)
                    BY <4>2 DEF BuySubmit, Queue
                <5>2. buys' = buys + 1
                    BY <4>2 DEF BuySubmit
                <5>3. tx.gen = buys + 1
                    OBVIOUS
                <5> HIDE DEF tx
                <5>4. mempool \in Seq(Txs)
                    BY <1>1 DEF TypeOK
                <5>5. \/ i \in 1..Len(mempool) /\ mempool'[i] = mempool[i]
                      \/ mempool'[i] = tx
                    BY <5>1, <5>4
                <5>6. QED
                    BY <1>1, <1>2, <3>1, <5>2, <5>3, <5>5 DEF BuyNumbers
            <4>3. QED
                BY <4>1, <4>2, BuyerFrame
        <3>2. \A g \in bought' : g <= buys'
            BY <1>1, <1>2, <1>3, <1>6, GensFacts DEF BuyNumbers, TypeOK
        <3>3. QED
            BY <1>2, <1>3, <1>6, <2>1, <3>1, <3>2 DEF BuyNumbers
    <2>6. QED
        BY <1>4, <1>7, <2>2, <2>3, <2>4, <2>5 DEF Shape
<1>10. QED
    BY <1>8, <1>9

LEMMA BgShape ==
    ASSUME Base, NEW g \in Gens, BgStep(g)
    PROVE  Shape'
<1>1. TypeOK
    BY DEF Base
<1>2. LockHeld /\ TaskTokens /\ EntryOwners /\ GuardPassed /\ ExitPlan /\ BuyNumbers
    BY DEF Base, Shape
<1>3. /\ UNCHANGED <<positions, exit_locks, buyer, exiter, bought, slowSold, buys>>
      /\ \A h \in Gens : h # g => bg'[h] = bg[h] /\ entry'[h] = entry[h]
      /\ bg'[g].tok = bg[g].tok
      /\ bg[g].pc \notin {"none", "done"} /\ bg'[g].pc # "none"
      /\ BgConfirm(g) \/ entry'[g].approved = entry[g].approved
    BY <1>1, BgFrame
<1>4. ~entry[g].approved
    BY <1>2, <1>3 DEF EntryOwners
<1>5. entry'[g].approved => bg'[g].pc = "done"
    <2>1. CASE BgConfirm(g)
        BY <1>1, <2>1, TypeParts DEF BgConfirm, BgTasks
    <2>2. CASE ~BgConfirm(g)
        BY <1>3, <1>4, <2>2
    <2>3. QED
        BY <2>1, <2>2
<1>6. g \notin {buyer[b].gen : b \in Buyers}
    BY <1>2, <1>3, GensFacts DEF EntryOwners
<1>7. LockHeld' /\ GuardPassed'
    BY <1>2, <1>3 DEF LockHeld, GuardPassed
<1>8. TaskTokens'
    BY <1>2, <1>3 DEF TaskTokens
<1>9. EntryOwners'
    <2>1. \A h \in Gens : /\ h > buys => bg'[h].pc = "none"
                          /\ bg'[h].pc = "none" => entry'[h] = NoEntry
                          /\ entry'[h].approved => bg'[h].pc = "done"
        BY <1>2, <1>3, <1>5 DEF EntryOwners
    <2>2. \A k \in Tokens : positions[k] # None => bg'[positions[k]].tok = k
        <3>1. TAKE k \in Tokens
        <3>2. HAVE positions[k] # None
        <3>3. positions[k] \in Gens /\ bg[positions[k]].tok = k
            BY <1>1, <1>2, <3>2 DEF EntryOwners, TypeOK
        <3>4. QED
            BY <1>3, <3>3
    <2>3. \A b \in Buyers : IF Made(b)
                            THEN buyer[b].gen \in 1..buys /\ bg'[buyer[b].gen].pc = "none"
                            ELSE buyer[b].gen = None
        <3>1. TAKE b \in Buyers
        <3>2. CASE Made(b)
            <4>1. buyer[b].gen \in 1..buys /\ bg[buyer[b].gen].pc = "none"
                BY <1>2, <3>2 DEF EntryOwners
            <4>2. buyer[b].gen \in Gens
                BY <1>1, <1>2, <4>1, ConstantsAssumption DEF BuyNumbers, Gens, TypeOK
            <4>3. QED
                BY <1>3, <1>6, <3>2, <4>1, <4>2
        <3>3. CASE ~Made(b)
            BY <1>2, <3>3 DEF EntryOwners
        <3>4. QED
            BY <3>2, <3>3
    <2>4. QED
        BY <1>3, <2>1, <2>2, <2>3 DEF EntryOwners, Made
<1>10. ExitPlan'
    <2>1. \A x \in Exiters : exiter[x].fast => /\ exiter[x].gen # g
                                               /\ exiter[x].gen \in Gens
        BY <1>2, <1>4 DEF ExitPlan
    <2>2. QED
        BY <1>2, <1>3, <2>1 DEF ExitPlan
<1>11. BuyNumbers'
    <2>1. bg'[g].pc \in {"read", "store", "approve", "confirm"} => g \in bought
        <3>1. CASE BgReceipt(g)
            BY <3>1 DEF BgReceipt
        <3>2. CASE BgGivesUp(g)
            BY <1>1, <3>2, TypeParts DEF BgGivesUp, BgTasks
        <3>3. CASE BgReadBalance(g) \/ BgStore(g) \/ BgApprove(g) \/ BgConfirm(g)
            BY <1>2, <3>3 DEF BgReadBalance, BgStore, BgApprove, BgConfirm, BuyNumbers
        <3>4. QED
            BY <3>1, <3>2, <3>3 DEF BgStep
    <2>2. ASSUME NEW i \in 1..Len(mempool'), mempool'[i].kind = "buy"
          PROVE  mempool'[i].gen \in 1..buys
        <3>1. CASE UNCHANGED mempool
            BY <1>2, <2>2, <3>1 DEF BuyNumbers
        <3>2. CASE BgApprove(g)
            <4>1. PICK tx \in Txs : tx.kind = "approve" /\ mempool' = Append(mempool, tx)
                <5> DEFINE tx == [kind |-> "approve", tok |-> bg[g].tok, amt |-> 0,
                                  gen |-> g, route |-> "FourMeme"]
                <5>1. tx \in Txs /\ tx.kind = "approve"
                    BY <1>2, <1>3 DEF Txs, Routes, TaskTokens
                <5>2. mempool' = Append(mempool, tx)
                    BY <3>2 DEF BgApprove
                <5> HIDE DEF tx
                <5>3. QED
                    BY <5>1, <5>2
            <4>2. mempool \in Seq(Txs)
                BY <1>1 DEF TypeOK
            <4>3. i \in 1..Len(mempool) /\ mempool'[i] = mempool[i]
                BY <2>2, <4>1, <4>2
            <4>4. QED
                BY <1>2, <2>2, <4>3 DEF BuyNumbers
        <3>3. QED
            BY <1>1, <3>1, <3>2, BgFrame
    <2>3. QED
        BY <1>2, <1>3, <2>1, <2>2 DEF BuyNumbers
<1>12. QED
    BY <1>7, <1>8, <1>9, <1>10, <1>11 DEF Shape

\* The transactions an exit sends are approvals and sells.
LEMMA ExitSends ==
    ASSUME Base, NEW x \in Exiters, ExitStep(x)
    PROVE  \/ UNCHANGED <<mempool, inflight>>
           \/ /\ ExitApprove(x)
              /\ UNCHANGED inflight
              /\ \E tx \in Txs : tx.kind = "approve" /\ mempool' = Append(mempool, tx)
           \/ /\ ExitSubmit(x)
              /\ \E tx \in Txs : /\ tx.kind = "sell"
                                 /\ tx.tok = exiter[x].tok
                                 /\ tx.amt = exiter[x].amt
                                 /\ mempool' = Append(mempool, tx)
              /\ inflight' = [inflight EXCEPT ![exiter[x].tok] = @ + exiter[x].amt]
<1>1. exiter \in [Exiters -> ExitTasks] /\ TypeOK
    BY TypeParts DEF Base
<1>2. exiter[x].pc # "idle" => exiter[x].tok \in Tokens
    BY DEF Base, Shape, TaskTokens
<1>3. CASE ExitApprove(x)
    <2> DEFINE tx == [kind |-> "approve", tok |-> exiter[x].tok, amt |-> 0, gen |-> None,
                      route |-> exiter[x].route]
    <2>1. tx \in Txs /\ tx.kind = "approve"
        BY <1>1, <1>2, <1>3 DEF ExitApprove, Txs, ExitTasks
    <2>2. mempool' = mempool \/ mempool' = Append(mempool, tx)
        BY <1>3 DEF ExitApprove
    <2>3. UNCHANGED inflight
        BY <1>3 DEF ExitApprove, histvars
    <2> HIDE DEF tx
    <2>4. QED
        BY <1>3, <2>1, <2>2, <2>3
<1>4. CASE ExitSubmit(x)
    <2> DEFINE tx == [kind |-> "sell", tok |-> exiter[x].tok, amt |-> exiter[x].amt,
                      gen |-> None, route |-> exiter[x].route]
    <2>1. tx \in Txs /\ tx.kind = "sell" /\ tx.tok = exiter[x].tok /\ tx.amt = exiter[x].amt
        BY <1>1, <1>2, <1>4 DEF ExitSubmit, Txs, ExitTasks
    <2>2. \/ mempool' = mempool /\ inflight' = inflight
          \/ /\ mempool' = Append(mempool, tx)
             /\ inflight' = [inflight EXCEPT ![exiter[x].tok] = @ + exiter[x].amt]
        BY <1>4 DEF ExitSubmit, Queue
    <2> HIDE DEF tx
    <2>3. QED
        BY <1>4, <2>1, <2>2
<1>5. QED
    BY <1>1, <1>3, <1>4, ExitFrame

\* The update after an accepted sell writes the amount of the entry in the map.
LEMMA UpdateFacts ==
    ASSUME Base, NEW x \in Exiters, ExitUpdate(x)
    PROVE  LET p == positions[exiter[x].tok]
           IN  /\ exiter[x].pc = "update"
               /\ exiter[x].tok \in Tokens /\ p \in Gens \cup {None}
               /\ WritesBack(x)
               /\ \A h \in Gens : h # p => entry'[h] = entry[h]
               /\ \A h \in Gens : entry'[h].approved = entry[h].approved
               /\ p # None => entry'[p].amt = IF exiter[x].full THEN 0
                                              ELSE exiter[x].our - exiter[x].amt
<1> DEFINE p == positions[exiter[x].tok]
           left == IF exiter[x].full THEN 0 ELSE exiter[x].our - exiter[x].amt
<1>1. exiter[x].pc = "update" /\ exiter[x].tok \in Tokens /\ p \in Gens \cup {None}
    BY DEF ExitUpdate, Base, Shape, TaskTokens, TypeOK
<1>2. WritesBack(x)
    BY <1>1, ExitMoves DEF ExitUpdate, ExitStep, Base, ExitStart, ExitLock, ExitReadCache,
                           ExitReadBalance, ExitApprove, ExitRoute, ExitSubmit, ExitCount,
                           ExitShadow
<1>3. entry \in [Gens -> Entries]
    BY TypeParts DEF Base
<1>4. entry' = IF p = None THEN entry ELSE [entry EXCEPT ![p].amt = left]
    BY DEF ExitUpdate, CacheAfterSell
<1> HIDE DEF p, left
<1>5. /\ \A h \in Gens : h # p => entry'[h] = entry[h]
      /\ \A h \in Gens : entry'[h].approved = entry[h].approved
      /\ p # None => entry'[p].amt = left
    BY <1>1, <1>3, <1>4 DEF Entries
<1>6. QED
    BY <1>1, <1>2, <1>5 DEF p, left

LEMMA ExitShape ==
    ASSUME Base, NEW x \in Exiters, ExitStep(x)
    PROVE  Shape'
<1>1. TypeOK
    BY DEF Base
<1>2. LockHeld /\ TaskTokens /\ EntryOwners /\ GuardPassed /\ ExitPlan /\ BuyNumbers
    BY DEF Base, Shape
<1>3. /\ UNCHANGED <<positions, buyer, bg, bought, buys>>
      /\ \A y \in Exiters : y # x => exiter'[y] = exiter[y]
      /\ slowSold \subseteq slowSold'
    <2>1. slowSold \subseteq slowSold'
        BY <1>1, ExitFrame DEF ExitSubmit
    <2>2. QED
        BY <1>1, <2>1, ExitFrame
<1>4. exiter[x] \in ExitTasks /\ exit_locks \in [Tokens -> Exiters \cup {NoOne}]
    BY <1>1, TypeParts DEF TypeOK
<1>5. \/ exiter'[x] = NoExit
      \/ exiter'[x].pc # "idle" /\ exiter'[x].tok \in Tokens
    BY <1>1, <1>2, ExitMoves, ExitDoneFrame
    DEF Called, Acquired, TakesFast, TakesSlow, Sizes, GoesOn, SamePlan, WritesBack, Returns,
        TaskTokens
<1>6. TaskTokens'
    <2>1. /\ exiter'[x].pc = "idle" => exiter'[x] = NoExit
          /\ exiter'[x].pc # "idle" => exiter'[x].tok \in Tokens
        BY <1>5 DEF NoExit
    <2>2. \A y \in Exiters : /\ exiter'[y].pc = "idle" => exiter'[y] = NoExit
                             /\ exiter'[y].pc # "idle" => exiter'[y].tok \in Tokens
        BY <1>2, <1>3, <2>1 DEF TaskTokens
    <2>3. QED
        BY <1>2, <1>3, <2>2 DEF TaskTokens
<1>7. LockHeld'
    <2>1. CASE Called(x)
        BY <1>2, <1>3, <2>1 DEF Called, LockHeld, Locked
    <2>2. CASE Acquired(x)
        <3>1. exiter[x].tok \in Tokens
            BY <1>2, <2>2 DEF Acquired, TaskTokens
        <3>2. exit_locks'[exiter'[x].tok] = x
            BY <1>4, <2>2, <3>1 DEF Acquired
        <3>3. ASSUME NEW y \in Exiters, y # x, exiter[y].pc \in Locked
              PROVE  exit_locks'[exiter[y].tok] = y
            <4>1. exit_locks[exiter[y].tok] = y /\ exiter[y].tok \in Tokens
                BY <1>2, <3>3 DEF LockHeld, TaskTokens, Locked
            <4>2. exiter[y].tok # exiter[x].tok
                BY <2>2, <4>1, NamesAssumption DEF Acquired
            <4>3. QED
                BY <1>4, <2>2, <3>1, <4>1, <4>2 DEF Acquired
        <3>4. QED
            BY <1>3, <3>2, <3>3 DEF LockHeld
    <2>3. CASE TakesFast(x) \/ TakesSlow(x) \/ Sizes(x) \/ GoesOn(x) \/ WritesBack(x)
        <3>1. /\ exiter[x].pc \in Locked /\ exiter'[x].tok = exiter[x].tok
              /\ exit_locks' = exit_locks
            BY <2>3 DEF TakesFast, TakesSlow, Sizes, GoesOn, WritesBack, SamePlan, Locked
        <3>2. QED
            BY <1>2, <1>3, <3>1 DEF LockHeld
    <2>4. CASE Returns(x)
        <3>1. /\ exiter'[x].pc = "idle"
              /\ \A k \in Tokens : exit_locks[k] # x => exit_locks'[k] = exit_locks[k]
            BY <1>1, <2>4, ExitDoneFrame DEF Returns, NoExit
        <3>2. ASSUME NEW y \in Exiters, y # x, exiter[y].pc \in Locked
              PROVE  exit_locks'[exiter[y].tok] = y
            <4>1. exit_locks[exiter[y].tok] = y /\ exiter[y].tok \in Tokens
                BY <1>2, <3>2 DEF LockHeld, TaskTokens, Locked
            <4>2. QED
                BY <3>1, <3>2, <4>1
        <3>3. QED
            BY <1>3, <3>1, <3>2 DEF LockHeld, Locked
    <2>5. QED
        BY <1>1, <2>1, <2>2, <2>3, <2>4, ExitMoves
<1>8. \A g \in Gens : /\ entry'[g].approved = entry[g].approved
                      /\ bg[g].pc = "none" => entry'[g] = entry[g]
    <2>1. CASE UNCHANGED entry
        BY <2>1
    <2>2. CASE ExitUpdate(x)
        <3> DEFINE p == positions[exiter[x].tok]
        <3>1. /\ exiter[x].tok \in Tokens /\ p \in Gens \cup {None}
              /\ \A h \in Gens : h # p => entry'[h] = entry[h]
              /\ \A h \in Gens : entry'[h].approved = entry[h].approved
            BY <2>2, UpdateFacts
        <3>2. p # None => bg[p].pc # "none"
            BY <1>2, <3>1, NamesAssumption DEF EntryOwners, TaskTokens, NoBg
        <3> HIDE DEF p
        <3>3. QED
            BY <3>1, <3>2, GensFacts
    <2>3. QED
        BY <1>1, <2>1, <2>2, ExitFrame
<1>9. EntryOwners' /\ GuardPassed'
    BY <1>2, <1>3, <1>8 DEF EntryOwners, GuardPassed, Made
<1>10. ExitPlan'
    <2> DEFINE Plan(t) ==
                 /\ t.pc \in {"approve", "route", "submit", "update"} =>
                        /\ t.amt > 0
                        /\ t.amt <= t.our
                        /\ t.full => t.amt = t.our
                        /\ ~t.full => t.amt < t.our
                 /\ t.fast => /\ t.pc \in {"route", "submit", "update"}
                              /\ t.gen \in Gens
                              /\ entry[t.gen].approved
                              /\ bg[t.gen].tok = t.tok
                 /\ t.pc = "update" /\ ~t.fast => t.tok \in slowSold'
    <2>1. ASSUME NEW y \in Exiters PROVE Plan(exiter[y])
        BY <1>2, <1>3 DEF ExitPlan
    <2>2. Plan(exiter'[x])
        <3>1. CASE Called(x) \/ Acquired(x) \/ TakesSlow(x) \/ WritesBack(x) \/ Returns(x)
            <4>1. /\ exiter'[x].pc \in {"wait", "read", "balance", "count", "idle"}
                  /\ ~exiter'[x].fast
                BY <1>1, <2>1, <3>1, ExitDoneFrame
                DEF Called, Acquired, TakesSlow, WritesBack, Returns, NoExit
            <4>2. QED
                BY <4>1
        <3>2. CASE TakesFast(x)
            <4> DEFINE p == positions[exiter[x].tok]
            <4>1. exiter[x].tok \in Tokens
                BY <1>2, <3>2 DEF TakesFast, TaskTokens
            <4>2. p \in Gens /\ bg[p].tok = exiter[x].tok
                BY <1>1, <1>2, <3>2, <4>1 DEF TakesFast, EntryOwners, TypeOK
            <4>3. entry[p].amt \in Nat
                BY <1>1, <4>2, TypeParts DEF Entries
            <4>4. /\ exiter'[x].pc = "route" /\ exiter'[x].tok = exiter[x].tok
                  /\ exiter'[x].full = exiter[x].full /\ exiter'[x].our = entry[p].amt
                  /\ exiter'[x].amt = SellAmount(x, entry[p].amt) /\ exiter'[x].amt > 0
                  /\ exiter'[x].fast = TRUE /\ exiter'[x].gen = p /\ entry[p].approved
                BY <3>2 DEF TakesFast, Ready
            <4> HIDE DEF p
            <4>5. SellAmount(x, entry[p].amt) <= entry[p].amt
                BY <1>1, <4>3, SellAmountFacts
            <4>6. /\ exiter[x].full => SellAmount(x, entry[p].amt) = entry[p].amt
                  /\ ~exiter[x].full /\ entry[p].amt > 0
                     => SellAmount(x, entry[p].amt) < entry[p].amt
                  /\ SellAmount(x, entry[p].amt) \in Nat
                BY <1>1, <4>3, SellAmountFacts
            <4>7. QED
                BY <4>2, <4>3, <4>4, <4>5, <4>6
        <3>3. CASE Sizes(x)
            <4> DEFINE n == bal[exiter[x].tok]
            <4>1. n \in Nat
                BY <1>1, <1>2, <3>3 DEF Sizes, TaskTokens, TypeOK
            <4>2. /\ exiter'[x].pc = "approve" /\ exiter'[x].full = exiter[x].full
                  /\ exiter'[x].our = n /\ exiter'[x].amt = SellAmount(x, n)
                  /\ exiter'[x].amt > 0 /\ ~exiter'[x].fast
                BY <2>1, <3>3 DEF Sizes
            <4> HIDE DEF n
            <4>3. /\ SellAmount(x, n) <= n /\ SellAmount(x, n) \in Nat
                  /\ exiter[x].full => SellAmount(x, n) = n
                  /\ ~exiter[x].full /\ n > 0 => SellAmount(x, n) < n
                BY <1>1, <4>1, SellAmountFacts
            <4>4. QED
                BY <4>1, <4>2, <4>3
        <3>4. CASE GoesOn(x)
            <4>1. Plan(exiter[x])
                BY <2>1
            <4>2. QED
                BY <3>4, <4>1 DEF GoesOn, SamePlan
        <3>5. QED
            BY <1>1, <3>1, <3>2, <3>3, <3>4, ExitMoves
    <2>3. ASSUME NEW y \in Exiters PROVE Plan(exiter'[y])
        BY <1>3, <2>1, <2>2
    <2>4. QED
        BY <1>3, <1>8, <2>3 DEF ExitPlan
<1>11. BuyNumbers'
    <2>1. ASSUME NEW i \in 1..Len(mempool'), mempool'[i].kind = "buy"
          PROVE  mempool'[i].gen \in 1..buys
        <3>1. CASE UNCHANGED mempool
            BY <1>2, <2>1, <3>1 DEF BuyNumbers
        <3>2. CASE \E tx \in Txs : tx.kind # "buy" /\ mempool' = Append(mempool, tx)
            <4>1. mempool \in Seq(Txs)
                BY <1>1 DEF TypeOK
            <4>2. i \in 1..Len(mempool) /\ mempool'[i] = mempool[i]
                BY <2>1, <3>2, <4>1
            <4>3. QED
                BY <1>2, <2>1, <4>2 DEF BuyNumbers
        <3>3. QED
            BY <3>1, <3>2, ExitSends
    <2>2. QED
        BY <1>2, <1>3, <2>1 DEF BuyNumbers
<1>12. QED
    BY <1>6, <1>7, <1>9, <1>10, <1>11 DEF Shape

LEMMA ChainShape ==
    ASSUME Base, ChainStep
    PROVE  Shape'
<1>1. TypeOK /\ Flow
    BY DEF Base
<1>2. LockHeld /\ TaskTokens /\ EntryOwners /\ GuardPassed /\ ExitPlan /\ BuyNumbers
    BY DEF Base, Shape
<1>3. UNCHANGED <<procvars, slowSold, buys>>
    BY ChainFrame
<1>4. LockHeld' /\ TaskTokens' /\ EntryOwners' /\ GuardPassed' /\ ExitPlan'
    BY <1>2, <1>3 DEF LockHeld, TaskTokens, EntryOwners, Made, GuardPassed, ExitPlan, procvars
<1>5. BuyNumbers'
    <2>1. CASE MineOk \/ MineFails
        <3>1. mempool \in Seq(Txs) /\ mempool # << >> /\ mempool' = Tail(mempool)
            BY <1>1, <2>1 DEF MineOk, MineFails, TypeOK
        <3>2. Head(mempool) = mempool[1] /\ 1 \in 1..Len(mempool)
            BY <3>1
        <3>3. bought \subseteq bought' /\ \A g \in bought' : g <= buys
            <4>1. \/ bought' = bought
                  \/ mempool[1].kind = "buy" /\ bought' = bought \cup {mempool[1].gen}
                BY <2>1, <3>2 DEF MineOk, MineFails
            <4>2. mempool[1].kind = "buy" => mempool[1].gen \in 1..buys
                BY <1>2, <3>2 DEF BuyNumbers
            <4>3. \A g \in bought : g <= buys
                BY <1>2 DEF BuyNumbers
            <4>4. QED
                BY <4>1, <4>2, <4>3
        <3>4. \A i \in 1..Len(mempool') : i + 1 \in 1..Len(mempool) /\ mempool'[i] = mempool[i + 1]
            BY <3>1
        <3>5. QED
            BY <1>2, <1>3, <3>3, <3>4 DEF BuyNumbers, procvars
    <2>2. CASE \E k \in Tokens : Graduate(k)
        BY <1>2, <2>2 DEF Graduate, BuyNumbers, procvars, histvars
    <2>3. QED
        BY <2>1, <2>2 DEF ChainStep
<1>6. QED
    BY <1>4, <1>5 DEF Shape

LEMMA CrashShape ==
    ASSUME Base, Crash
    PROVE  Shape'
<1>1. /\ positions' = [k \in Tokens |-> None]
      /\ exit_locks' = [k \in Tokens |-> NoOne]
      /\ buyer' = [b \in Buyers |-> NoBuy]
      /\ exiter' = [x \in Exiters |-> NoExit]
      /\ entry' = [g \in Gens |-> NoEntry]
      /\ bg' = [g \in Gens |-> NoBg]
      /\ UNCHANGED <<mempool, bought, buys>>
    BY DEF Crash, chainvars
<1>2. LockHeld' /\ TaskTokens'
    BY <1>1 DEF LockHeld, TaskTokens, NoBuy, NoExit, NoBg, Locked
<1>3. EntryOwners' /\ GuardPassed'
    BY <1>1 DEF EntryOwners, Made, GuardPassed, NoBuy, NoBg, NoEntry
<1>4. ExitPlan' /\ BuyNumbers'
    BY <1>1 DEF ExitPlan, BuyNumbers, Base, Shape, NoExit, NoBg
<1>5. QED
    BY <1>2, <1>3, <1>4 DEF Shape

---------------------------------------------------------------------------
(* The first layer is inductive.                                           *)

LEMMA NextSteps ==
    ASSUME [Next]_levars
    PROVE  \/ \E b \in Buyers : BuyerStep(b)
           \/ \E g \in Gens : BgStep(g)
           \/ \E x \in Exiters : ExitStep(x)
           \/ ChainStep
           \/ Crash
           \/ UNCHANGED levars
BY DEF Next, BuyerStep, BgStep, ExitStep, ChainStep

LEMMA BuyerFlow ==
    ASSUME Base, NEW b \in Buyers, BuyerStep(b)
    PROVE  Flow'
<1>1. TypeOK /\ Flow
    BY DEF Base
<1>2. UNCHANGED inflight
    BY BuyerFrame
<1>3. CASE UNCHANGED mempool
    BY <1>1, <1>2, <1>3, OtherTxFlow
<1>4. CASE BuySubmit(b)
    <2> DEFINE tx == [kind |-> "buy", tok |-> buyer[b].tok, amt |-> BuyUnits,
                      gen |-> buys + 1, route |-> AnyRoute]
    <2>1. buyer[b] \in BuyTasks /\ buys \in Nat /\ buys < MaxBuys /\ buyer[b].tok \in Tokens
        BY <1>1, <1>4, TypeParts DEF BuySubmit, TypeOK, Base, Shape, TaskTokens
    <2>2. tx \in Txs /\ tx.kind # "sell"
        BY <2>1, ConstantsAssumption DEF Txs, Gens, BuyTasks, AnyRoute, Routes
    <2>3. mempool' = mempool \/ mempool' = Append(mempool, tx)
        BY <1>4 DEF BuySubmit, Queue
    <2> HIDE DEF tx
    <2>4. QED
        BY <1>1, <1>2, <2>2, <2>3, OtherTxFlow
<1>5. QED
    BY <1>3, <1>4, BuyerFrame

LEMMA BgFlow ==
    ASSUME Base, NEW g \in Gens, BgStep(g)
    PROVE  Flow'
<1>1. TypeOK /\ Flow
    BY DEF Base
<1>2. UNCHANGED inflight
    BY <1>1, BgFrame
<1>3. CASE UNCHANGED mempool
    BY <1>1, <1>2, <1>3, OtherTxFlow
<1>4. CASE BgApprove(g)
    <2> DEFINE tx == [kind |-> "approve", tok |-> bg[g].tok, amt |-> 0,
                      gen |-> g, route |-> "FourMeme"]
    <2>1. tx \in Txs /\ tx.kind # "sell"
        BY <1>1, <1>4 DEF Txs, Routes, BgApprove, Base, Shape, TaskTokens
    <2>2. mempool' = Append(mempool, tx)
        BY <1>4 DEF BgApprove
    <2> HIDE DEF tx
    <2>3. QED
        BY <1>1, <1>2, <2>1, <2>2, OtherTxFlow
<1>5. QED
    BY <1>1, <1>3, <1>4, BgFrame

LEMMA ExitFlow ==
    ASSUME Base, NEW x \in Exiters, ExitStep(x)
    PROVE  Flow'
<1>1. TypeOK /\ Flow
    BY DEF Base
<1>2. CASE /\ UNCHANGED inflight
           /\ \/ UNCHANGED mempool
              \/ \E tx \in Txs : tx.kind = "approve" /\ mempool' = Append(mempool, tx)
    BY <1>1, <1>2, OtherTxFlow
<1>3. CASE /\ ExitSubmit(x)
           /\ inflight' = [inflight EXCEPT ![exiter[x].tok] = @ + exiter[x].amt]
           /\ \E tx \in Txs : /\ tx.kind = "sell" /\ tx.tok = exiter[x].tok
                              /\ tx.amt = exiter[x].amt /\ mempool' = Append(mempool, tx)
    <2>1. PICK tx \in Txs : /\ tx.kind = "sell" /\ tx.tok = exiter[x].tok
                            /\ tx.amt = exiter[x].amt /\ mempool' = Append(mempool, tx)
        BY <1>3
    <2>2. SUFFICES ASSUME NEW k \in Tokens
                   PROVE  \E c : RunningSum(c, k, mempool', inflight'[k])
        BY DEF Flow
    <2>3. /\ inflight \in [Tokens -> Nat] /\ mempool \in Seq(Txs)
          /\ inflight[k] \in Nat /\ tx.amt \in Nat /\ tx.tok \in Tokens
        BY <1>1 DEF TypeOK, Txs
    <2>4. inflight'[k] = inflight[k] + Sells(tx, k)
        BY <1>3, <2>1, <2>3 DEF Sells
    <2>5. \E c : RunningSum(c, k, mempool, inflight[k])
        BY <1>1 DEF Flow
    <2>6. \E c : RunningSum(c, k, Append(mempool, tx), inflight[k] + Sells(tx, k))
        BY <2>3, <2>5, SumAppend
    <2>7. QED
        BY <2>1, <2>4, <2>6
<1>4. QED
    BY <1>2, <1>3, ExitSends

LEMMA NextBase ==
    ASSUME Base, [Next]_levars
    PROVE  Base'
<1>1. ASSUME NEW b \in Buyers, BuyerStep(b) PROVE Base'
    BY <1>1, BuyerType, BuyerFlow, BuyerShape DEF Base, BuyerStep
<1>2. ASSUME NEW g \in Gens, BgStep(g) PROVE Base'
    BY <1>2, BgType, BgFlow, BgShape DEF Base, BgStep
<1>3. ASSUME NEW x \in Exiters, ExitStep(x) PROVE Base'
    BY <1>3, ExitType, ExitFlow, ExitShape DEF Base, ExitStep
<1>4. CASE ChainStep
    <2>1. TypeOK' /\ Shape'
        BY <1>4, ChainType, ChainShape DEF ChainStep
    <2>2. CASE MineOk \/ MineFails
        BY <2>1, <2>2, MinedSells DEF Base
    <2>3. CASE \E k \in Tokens : Graduate(k)
        BY <2>1, <2>3 DEF Base, Graduate, Flow, histvars
    <2>4. QED
        BY <1>4, <2>2, <2>3 DEF ChainStep
<1>5. CASE Crash
    <2>1. TypeOK' /\ Shape'
        BY <1>5, ChainType, CrashShape
    <2>2. UNCHANGED <<mempool, inflight>>
        BY <1>5 DEF Crash, chainvars
    <2>3. QED
        BY <2>1, <2>2 DEF Base, Flow
<1>6. CASE UNCHANGED levars
    BY <1>6 DEF levars, procvars, chainvars, histvars, Base, TypeOK, Flow, Shape, LockHeld,
                TaskTokens, EntryOwners, Made, GuardPassed, ExitPlan, BuyNumbers
<1>7. QED
    BY <1>1, <1>2, <1>3, <1>4, <1>5, <1>6, NextSteps

\* executor_live.rs: the executor's, the finalisers' and the chain's state keep their types.
THEOREM TypeCorrect == Spec => []TypeOK
<1>1. Init => Base
    BY InitType, InitFlow, InitShape DEF Base
<1>2. Base /\ [Next]_levars => Base'
    BY NextBase
<1>3. Base => TypeOK
    BY DEF Base
<1>4. QED
    BY <1>1, <1>2, <1>3, PTL DEF Spec

---------------------------------------------------------------------------
(* The second layer: the cache.                                            *)

\* The mutex works: two exits of one token are not both past their lock.
LEMMA LockExclusive ==
    ASSUME Base, NEW x \in Exiters, NEW y \in Exiters,
           exiter[x].pc \in Locked, exiter[y].pc \in Locked, exiter[x].tok = exiter[y].tok
    PROVE  x = y
BY DEF Base, Shape, LockHeld

\* An entry is in the map under one token only.
LEMMA MapInjective ==
    ASSUME Base, NEW j \in Tokens, NEW k \in Tokens, positions[j] = positions[k],
           positions[j] # None
    PROVE  j = k
BY DEF Base, Shape, EntryOwners

\* What is known of an exit on the fast path.
LEMMA FastFacts ==
    ASSUME Base, NEW x \in Exiters, exiter[x].fast
    PROVE  /\ exiter[x].pc \in Locked
           /\ exiter[x].tok \in Tokens
           /\ exiter[x].gen \in Gens
           /\ entry[exiter[x].gen].approved
           /\ bg[exiter[x].gen].pc = "done"
           /\ bg[exiter[x].gen].tok = exiter[x].tok
           /\ exiter[x].our \in Nat /\ exiter[x].amt \in Nat
           /\ exiter[x].amt > 0 /\ exiter[x].amt <= exiter[x].our
<1>1. exiter[x] \in ExitTasks
    BY TypeParts DEF Base
<1>2. /\ exiter[x].pc \in {"route", "submit", "update"}
      /\ exiter[x].gen \in Gens
      /\ entry[exiter[x].gen].approved
      /\ bg[exiter[x].gen].tok = exiter[x].tok
      /\ exiter[x].amt > 0 /\ exiter[x].amt <= exiter[x].our
    BY DEF Base, Shape, ExitPlan
<1>3. exiter[x].tok \in Tokens
    BY <1>2 DEF Base, Shape, TaskTokens
<1>4. bg[exiter[x].gen].pc = "done"
    BY <1>2 DEF Base, Shape, EntryOwners
<1>5. QED
    BY <1>1, <1>2, <1>3, <1>4 DEF Locked, ExitTasks

LEMMA InitCache == Init => Cache
<1> SUFFICES ASSUME Init PROVE Cache
    OBVIOUS
<1>1. FastExitStaysValid
    BY DEF Init, FastExitStaysValid, NoExit
<1>2. NoEntryOrphaned
    BY DEF Init, NoEntryOrphaned, NoBg, NoEntry
<1>3. ClearIsEmpty
    BY DEF Init, ClearIsEmpty, NoBuy
<1>4. QED
    BY <1>1, <1>2, <1>3 DEF Cache

LEMMA BuyerCache ==
    ASSUME Base, Cache, NEW b \in Buyers, BuyerStep(b)
    PROVE  Cache'
<1>1. /\ TypeOK /\ FastExitStaysValid /\ NoEntryOrphaned /\ ClearIsEmpty
      /\ TaskTokens /\ EntryOwners
      /\ positions \in [Tokens -> Gens \cup {None}]
      /\ \A c \in Buyers : c = b
    BY OneBuyer DEF Base, Cache, Shape, TypeOK
<1>2. UNCHANGED <<exiter, slowSold>>
    BY BuyerFrame
<1>3. CASE BuyRecord(b)
    <2> DEFINE g == buyer[b].gen
               k == buyer[b].tok
    <2>1. /\ g \in Gens /\ k \in Tokens
          /\ bg[g] = NoBg /\ entry[g] = NoEntry
          /\ positions[k] = None
          /\ positions'[k] = g
          /\ \A j \in Tokens : j # k => positions'[j] = positions[j]
          /\ bg'[g] = [pc |-> "poll", tok |-> k, read |-> 0]
          /\ entry'[g].amt = 0
          /\ \A h \in Gens : h # g => bg'[h] = bg[h] /\ entry'[h] = entry[h]
        BY <1>3, RecordFacts
    <2>2. buyer'[b] = NoBuy
        BY <1>1, <1>3, TypeParts DEF BuyRecord
    <2> HIDE DEF g, k
    <2>3. ClearIsEmpty'
        BY <1>1, <2>2 DEF ClearIsEmpty, NoBuy
    <2>4. FastExitStaysValid'
        <3>1. SUFFICES ASSUME NEW x \in Exiters, exiter[x].fast, exiter[x].tok \notin slowSold
                       PROVE  /\ positions'[exiter[x].tok] = exiter[x].gen
                              /\ entry'[exiter[x].gen].amt = exiter[x].our
            BY <1>2 DEF FastExitStaysValid
        <3>2. positions[exiter[x].tok] = exiter[x].gen /\ entry[exiter[x].gen].amt = exiter[x].our
            BY <1>1, <3>1 DEF FastExitStaysValid
        <3>3. exiter[x].gen \in Gens /\ exiter[x].gen # g /\ exiter[x].tok \in Tokens
            BY <2>1, <3>1, FastFacts DEF NoBg
        <3>4. exiter[x].tok # k
            BY <2>1, <3>2, <3>3, GensFacts
        <3>5. QED
            BY <2>1, <3>2, <3>3, <3>4
    <2>5. NoEntryOrphaned'
        <3>1. SUFFICES ASSUME NEW h \in Gens,
                              bg'[h].pc \notin {"none", "done"} \/ entry'[h].amt > 0,
                              bg'[h].tok \notin slowSold
                       PROVE  positions'[bg'[h].tok] = h
            BY <1>2 DEF NoEntryOrphaned
        <3>2. CASE h = g
            BY <2>1, <3>2
        <3>3. CASE h # g
            <4>1. bg'[h] = bg[h] /\ entry'[h] = entry[h]
                BY <2>1, <3>3
            <4>2. positions[bg[h].tok] = h
                BY <1>1, <3>1, <4>1 DEF NoEntryOrphaned
            <4>3. bg[h].pc # "none"
                BY <1>1, <3>1, <4>1 DEF EntryOwners, NoEntry
            <4>4. bg[h].tok \in Tokens /\ bg[h].tok # k
                BY <1>1, <2>1, <4>2, <4>3, GensFacts DEF TaskTokens
            <4>5. QED
                BY <2>1, <4>1, <4>2, <4>4
        <3>4. QED
            BY <3>2, <3>3
    <2>6. QED
        BY <2>3, <2>4, <2>5 DEF Cache
<1>4. CASE BuyClear(b)
    <2> DEFINE k == buyer[b].tok
               p == positions[buyer[b].tok]
    <2>1. buyer[b].pc = "clear" /\ k \in Tokens
        BY <1>1, <1>4 DEF BuyClear, TaskTokens
    <2>2. k \notin slowSold => p \in Gens /\ entry[p].amt = 0 /\ entry[p].approved
        BY <1>1, <2>1 DEF ClearIsEmpty, FullyExited
    <2>3. /\ UNCHANGED <<entry, bg>>
          /\ \A j \in Tokens : j # k => positions'[j] = positions[j]
        BY <1>1, <1>4, <2>1 DEF BuyClear
    <2>4. ClearIsEmpty'
        BY <1>1, <1>4, TypeParts DEF BuyClear, BuyTasks, ClearIsEmpty
    <2>5. FastExitStaysValid'
        <3>1. SUFFICES ASSUME NEW x \in Exiters, exiter[x].fast, exiter[x].tok \notin slowSold
                       PROVE  positions'[exiter[x].tok] = positions[exiter[x].tok]
            BY <1>1, <1>2, <2>3 DEF FastExitStaysValid
        <3>2. positions[exiter[x].tok] = exiter[x].gen /\ entry[exiter[x].gen].amt = exiter[x].our
            BY <1>1, <3>1 DEF FastExitStaysValid
        <3>3. exiter[x].our > 0 /\ exiter[x].tok \in Tokens
            BY <3>1, FastFacts
        <3>4. exiter[x].tok # k
            BY <2>2, <3>1, <3>2, <3>3
        <3>5. QED
            BY <2>3, <3>3, <3>4
    <2>6. NoEntryOrphaned'
        <3>1. SUFFICES ASSUME NEW h \in Gens,
                              bg[h].pc \notin {"none", "done"} \/ entry[h].amt > 0,
                              bg[h].tok \notin slowSold
                       PROVE  positions'[bg[h].tok] = h
            BY <1>2, <2>3 DEF NoEntryOrphaned
        <3>2. positions[bg[h].tok] = h
            BY <1>1, <3>1 DEF NoEntryOrphaned
        <3>3. bg[h].tok \in Tokens
            BY <1>1, <3>1 DEF EntryOwners, NoEntry, TaskTokens
        <3>4. bg[h].tok # k
            BY <1>1, <2>2, <3>1, <3>2 DEF EntryOwners
        <3>5. QED
            BY <2>3, <3>2, <3>3, <3>4
    <2>7. QED
        BY <2>4, <2>5, <2>6 DEF Cache
<1>5. CASE ~BuyRecord(b) /\ ~BuyClear(b)
    <2>1. UNCHANGED <<positions, entry, bg>>
        BY <1>5, BuyerFrame
    <2>2. ClearIsEmpty'
        <3>1. SUFFICES ASSUME buyer'[b].pc = "clear"
                       PROVE  /\ positions[buyer'[b].tok] # None
                              /\ FullyExited(entry[positions[buyer'[b].tok]])
            BY <1>1, <1>2, <2>1 DEF ClearIsEmpty, FullyExited
        <3>2. Begins(b)
            BY <1>1, <1>5, <3>1, BuyerMoves DEF Proceeds, Accepted, NoBuy
        <3>3. QED
            BY <3>1, <3>2 DEF Begins, Held
    <2>3. QED
        BY <1>1, <1>2, <2>1, <2>2 DEF Cache, FastExitStaysValid, NoEntryOrphaned
<1>6. QED
    BY <1>3, <1>4, <1>5

LEMMA BgCache ==
    ASSUME Base, Cache, NEW g \in Gens, BgStep(g)
    PROVE  Cache'
<1>1. /\ TypeOK /\ FastExitStaysValid /\ NoEntryOrphaned /\ ClearIsEmpty
      /\ TaskTokens /\ EntryOwners
      /\ positions \in [Tokens -> Gens \cup {None}]
    BY DEF Base, Cache, Shape, TypeOK
<1>2. /\ UNCHANGED <<positions, buyer, exiter, slowSold>>
      /\ \A h \in Gens : h # g => bg'[h] = bg[h] /\ entry'[h] = entry[h]
      /\ bg'[g].tok = bg[g].tok
      /\ bg[g].pc \notin {"none", "done"}
    BY <1>1, BgFrame
<1>3. FastExitStaysValid'
    <2>1. \A x \in Exiters : exiter[x].fast => exiter[x].gen \in Gens /\ exiter[x].gen # g
        BY <1>2, FastFacts
    <2>2. QED
        BY <1>1, <1>2, <2>1 DEF FastExitStaysValid
<1>4. NoEntryOrphaned'
    BY <1>1, <1>2 DEF NoEntryOrphaned
<1>5. ClearIsEmpty'
    <2>1. ~entry[g].approved
        BY <1>1, <1>2 DEF EntryOwners
    <2>2. SUFFICES ASSUME NEW b \in Buyers, buyer[b].pc = "clear", buyer[b].tok \notin slowSold
                   PROVE  /\ positions[buyer[b].tok] # None
                          /\ FullyExited(entry'[positions[buyer[b].tok]])
        BY <1>2 DEF ClearIsEmpty, FullyExited
    <2>3. /\ positions[buyer[b].tok] \in Gens
          /\ FullyExited(entry[positions[buyer[b].tok]])
        BY <1>1, <2>2 DEF ClearIsEmpty, TaskTokens
    <2>4. positions[buyer[b].tok] # g
        BY <2>1, <2>3 DEF FullyExited
    <2>5. QED
        BY <1>2, <2>3, <2>4, GensFacts
<1>6. QED
    BY <1>3, <1>4, <1>5 DEF Cache

LEMMA ExitCache ==
    ASSUME Base, Cache, NEW x \in Exiters, ExitStep(x)
    PROVE  Cache'
<1>1. /\ TypeOK /\ FastExitStaysValid /\ NoEntryOrphaned /\ ClearIsEmpty
      /\ TaskTokens /\ EntryOwners /\ ExitPlan
      /\ positions \in [Tokens -> Gens \cup {None}]
    BY DEF Base, Cache, Shape, TypeOK
<1>2. /\ UNCHANGED <<positions, buyer, bg>>
      /\ \A y \in Exiters : y # x => exiter'[y] = exiter[y]
      /\ slowSold \subseteq slowSold'
    <2>1. slowSold \subseteq slowSold'
        BY <1>1, ExitFrame DEF ExitSubmit
    <2>2. QED
        BY <1>1, <2>1, ExitFrame
<1>3. CASE ExitUpdate(x)
    <2> DEFINE k == exiter[x].tok
               p == positions[exiter[x].tok]
    <2>1. /\ exiter[x].pc = "update" /\ k \in Tokens /\ p \in Gens \cup {None}
          /\ UNCHANGED slowSold
        BY <1>3, UpdateFacts DEF ExitUpdate, histvars
    <2>2. exiter'[x].fast = FALSE
        BY <1>3, UpdateFacts DEF WritesBack
    <2>3. \A h \in Gens : h # p => entry'[h] = entry[h]
        BY <1>3, UpdateFacts
    <2>4. FastExitStaysValid'
        <3>1. SUFFICES ASSUME NEW y \in Exiters, y # x, exiter[y].fast,
                              exiter[y].tok \notin slowSold
                       PROVE  entry'[exiter[y].gen] = entry[exiter[y].gen]
            BY <1>1, <1>2, <2>1, <2>2 DEF FastExitStaysValid
        <3>2. exiter[y].pc \in Locked /\ exiter[y].tok \in Tokens /\ exiter[y].gen \in Gens
            BY <3>1, FastFacts
        <3>3. exiter[y].tok # k
            BY <2>1, <3>1, <3>2, LockExclusive DEF Locked
        <3>4. positions[exiter[y].tok] = exiter[y].gen
            BY <1>1, <3>1 DEF FastExitStaysValid
        <3>5. exiter[y].gen # p
            BY <2>1, <3>2, <3>3, <3>4, MapInjective, GensFacts
        <3>6. QED
            BY <2>3, <3>2, <3>5
    <2>5. NoEntryOrphaned'
        <3>1. SUFFICES ASSUME NEW h \in Gens,
                              bg[h].pc \notin {"none", "done"} \/ entry'[h].amt > 0,
                              bg[h].tok \notin slowSold
                       PROVE  positions[bg[h].tok] = h
            BY <1>2, <2>1 DEF NoEntryOrphaned
        <3>2. CASE h = p
            <4>1. bg[h].tok = k
                BY <1>1, <2>1, <3>2, GensFacts DEF EntryOwners
            <4>2. QED
                BY <3>2, <4>1
        <3>3. CASE h # p
            BY <1>1, <2>3, <3>1, <3>3 DEF NoEntryOrphaned
        <3>4. QED
            BY <3>2, <3>3
    <2>6. ClearIsEmpty'
        <3>1. SUFFICES ASSUME NEW b \in Buyers, buyer[b].pc = "clear",
                              buyer[b].tok \notin slowSold
                       PROVE  /\ positions[buyer[b].tok] # None
                              /\ FullyExited(entry'[positions[buyer[b].tok]])
            BY <1>2, <2>1 DEF ClearIsEmpty, FullyExited
        <3>2. /\ buyer[b].tok \in Tokens
              /\ positions[buyer[b].tok] \in Gens
              /\ FullyExited(entry[positions[buyer[b].tok]])
            BY <1>1, <3>1 DEF ClearIsEmpty, TaskTokens
        <3>3. buyer[b].tok # k
            <4>1. SUFFICES ASSUME buyer[b].tok = k PROVE FALSE
                OBVIOUS
            <4>2. exiter[x].fast
                BY <1>1, <2>1, <3>1, <4>1 DEF ExitPlan
            <4>3. p = exiter[x].gen /\ entry[exiter[x].gen].amt = exiter[x].our
                BY <1>1, <3>1, <4>1, <4>2 DEF FastExitStaysValid
            <4>4. exiter[x].our > 0
                BY <4>2, FastFacts
            <4>5. QED
                BY <3>2, <4>1, <4>3, <4>4 DEF FullyExited
        <3>4. positions[buyer[b].tok] # p
            BY <2>1, <3>2, <3>3, MapInjective, GensFacts
        <3>5. QED
            BY <2>3, <3>2, <3>4, GensFacts
    <2>7. QED
        BY <2>4, <2>5, <2>6 DEF Cache
<1>4. CASE ~ExitUpdate(x)
    <2>1. UNCHANGED entry
        BY <1>1, <1>4, ExitFrame
    <2>2. NoEntryOrphaned' /\ ClearIsEmpty'
        BY <1>1, <1>2, <2>1 DEF NoEntryOrphaned, ClearIsEmpty, FullyExited
    <2>3. ASSUME exiter'[x].fast, exiter'[x].tok \notin slowSold
          PROVE  /\ positions[exiter'[x].tok] = exiter'[x].gen
                 /\ entry[exiter'[x].gen].amt = exiter'[x].our
        <3>1. CASE TakesFast(x)
            BY <3>1 DEF TakesFast
        <3>2. CASE Called(x) \/ Returns(x)
            BY <1>1, <2>3, <3>2, ExitDoneFrame DEF Called, Returns, NoExit
        <3>3. CASE Acquired(x) \/ TakesSlow(x) \/ Sizes(x)
            <4>1. exiter[x].fast /\ exiter[x].pc \in {"wait", "read", "balance"}
                BY <2>3, <3>3 DEF Acquired, TakesSlow, Sizes
            <4>2. QED
                BY <1>1, <4>1 DEF ExitPlan
        <3>4. CASE GoesOn(x)
            BY <1>1, <2>3, <3>4 DEF GoesOn, SamePlan, FastExitStaysValid
        <3>5. QED
            BY <1>1, <1>4, <3>1, <3>2, <3>3, <3>4, ExitMoves
    <2>4. FastExitStaysValid'
        BY <1>1, <1>2, <2>1, <2>3 DEF FastExitStaysValid
    <2>5. QED
        BY <2>2, <2>4 DEF Cache
<1>5. QED
    BY <1>3, <1>4

LEMMA NextCache ==
    ASSUME Base, Cache, [Next]_levars
    PROVE  Cache'
<1>1. CASE ChainStep
    <2>1. UNCHANGED <<procvars, slowSold>>
        BY <1>1, ChainFrame
    <2>2. QED
        BY <2>1 DEF Cache, FastExitStaysValid, NoEntryOrphaned, ClearIsEmpty, FullyExited, procvars
<1>2. CASE Crash
    <2>1. /\ buyer' = [b \in Buyers |-> NoBuy]
          /\ exiter' = [x \in Exiters |-> NoExit]
          /\ entry' = [g \in Gens |-> NoEntry]
          /\ bg' = [g \in Gens |-> NoBg]
        BY <1>2 DEF Crash
    <2>2. FastExitStaysValid' /\ ClearIsEmpty'
        BY <2>1 DEF FastExitStaysValid, ClearIsEmpty, NoExit, NoBuy
    <2>3. NoEntryOrphaned'
        BY <2>1 DEF NoEntryOrphaned, NoBg, NoEntry
    <2>4. QED
        BY <2>2, <2>3 DEF Cache
<1>3. CASE UNCHANGED levars
    BY <1>3 DEF levars, procvars, histvars, Cache, FastExitStaysValid, NoEntryOrphaned,
                ClearIsEmpty, FullyExited
<1>4. QED
    BY <1>1, <1>2, <1>3, BuyerCache, BgCache, ExitCache, NextSteps

---------------------------------------------------------------------------
(* The third layer: the trail as the only caller of execute_exit.          *)

LEMMA SettingKept ==
    ASSUME Base, [Next]_levars
    PROVE  setting' = setting
BY NextSteps, BuyerFrame, BgFrame, ExitFrame, ChainFrame DEF Base, Crash, levars, histvars

LEMMA InitTrail == Init => TrailOnly
BY DEF Init, TrailOnly, TrailNeverSlow, TrailExits, NoExit

\* A step that leaves the exits alone, and every entry that is ready and in the map,
\* keeps what the trail's exits rely on.
LEMMA TrailFrame ==
    ASSUME Base, TrailOnly, UNCHANGED <<exiter, slowSold, setting>>,
           TrailActive => \A k \in Tokens : TrailSees(k) => TrailSees(k)'
    PROVE  TrailOnly'
<1>1. TrailNeverSlow'
    BY DEF TrailOnly, TrailNeverSlow, TrailActive
<1>2. TrailExits'
    <2>1. SUFFICES ASSUME TrailActive, NEW x \in Exiters, exiter[x].pc # "idle"
                   PROVE  exiter[x].pc \in {"wait", "read"} => TrailSees(exiter[x].tok)'
        BY DEF TrailOnly, TrailExits, TrailActive
    <2>2. HAVE exiter[x].pc \in {"wait", "read"}
    <2>3. exiter[x].tok \in Tokens
        BY <2>1 DEF Base, Shape, TaskTokens
    <2>4. TrailSees(exiter[x].tok)
        BY <2>1, <2>2 DEF TrailOnly, TrailExits
    <2>5. PICK k \in Tokens : k = exiter[x].tok
        BY <2>3
    <2>6. TrailSees(k)'
        BY <2>1, <2>4, <2>5
    <2>7. QED
        BY <2>5, <2>6 DEF TrailSees
<1>3. QED
    BY <1>1, <1>2 DEF TrailOnly

LEMMA BuyerTrail ==
    ASSUME Base, Cache, TrailOnly, NEW b \in Buyers, BuyerStep(b)
    PROVE  TrailOnly'
<1>1. /\ TypeOK /\ TaskTokens /\ ClearIsEmpty
      /\ positions \in [Tokens -> Gens \cup {None}]
      /\ TrailActive => slowSold = {}
    BY DEF Base, Shape, Cache, TypeOK, TrailOnly, TrailNeverSlow
<1>2. SUFFICES ASSUME TrailActive, NEW j \in Tokens, TrailSees(j)
               PROVE  TrailSees(j)'
    BY TrailFrame, BuyerFrame
<1>3. positions[j] \in Gens /\ Ready(entry[positions[j]])
    BY <1>1, <1>2 DEF TrailSees
<1>4. CASE BuyRecord(b)
    <2> DEFINE g == buyer[b].gen
               k == buyer[b].tok
    <2>1. /\ g \in Gens /\ k \in Tokens /\ entry[g] = NoEntry /\ positions[k] = None
          /\ \A i \in Tokens : i # k => positions'[i] = positions[i]
          /\ \A h \in Gens : h # g => entry'[h] = entry[h]
        BY <1>4, RecordFacts
    <2> HIDE DEF g, k
    <2>2. positions'[j] = positions[j]
        BY <1>3, <2>1, GensFacts
    <2>3. entry'[positions[j]] = entry[positions[j]]
        BY <1>3, <2>1 DEF Ready, NoEntry
    <2>4. QED
        BY <1>3, <2>2, <2>3, GensFacts DEF TrailSees, Ready
<1>5. CASE BuyClear(b)
    <2>1. buyer[b].pc = "clear" /\ buyer[b].tok \in Tokens
        BY <1>1, <1>5 DEF BuyClear, TaskTokens
    <2>2. FullyExited(entry[positions[buyer[b].tok]])
        BY <1>1, <1>2, <2>1 DEF ClearIsEmpty
    <2>3. j # buyer[b].tok
        BY <1>3, <2>2 DEF FullyExited, Ready
    <2>4. positions'[j] = positions[j] /\ entry' = entry
        BY <1>1, <1>5, <2>1, <2>3 DEF BuyClear
    <2>5. QED
        BY <1>2, <2>4 DEF TrailSees, Ready
<1>6. CASE ~BuyRecord(b) /\ ~BuyClear(b)
    <2>1. UNCHANGED <<positions, entry>>
        BY <1>6, BuyerFrame
    <2>2. QED
        BY <1>2, <2>1 DEF TrailSees, Ready
<1>7. QED
    BY <1>4, <1>5, <1>6

LEMMA BgTrail ==
    ASSUME Base, TrailOnly, NEW g \in Gens, BgStep(g)
    PROVE  TrailOnly'
<1>1. TypeOK /\ positions \in [Tokens -> Gens \cup {None}]
    BY DEF Base, TypeOK
<1>2. /\ UNCHANGED <<positions, exiter, slowSold, setting>>
      /\ \A h \in Gens : h # g => entry'[h] = entry[h]
      /\ bg[g].pc # "done"
    BY <1>1, BgFrame
<1>3. ~entry[g].approved
    BY <1>2 DEF Base, Shape, EntryOwners
<1>4. ASSUME NEW k \in Tokens, TrailSees(k) PROVE TrailSees(k)'
    <2>1. positions[k] \in Gens /\ positions[k] # g
        BY <1>1, <1>3, <1>4 DEF TrailSees, Ready
    <2>2. QED
        BY <1>2, <1>4, <2>1 DEF TrailSees, Ready
<1>5. QED
    BY <1>2, <1>4, TrailFrame

LEMMA ExitTrail ==
    ASSUME Base, TrailOnly, NEW x \in Exiters, ExitStep(x)
    PROVE  TrailOnly'
<1>1. /\ TypeOK /\ TaskTokens /\ EntryOwners /\ ExitPlan
      /\ positions \in [Tokens -> Gens \cup {None}]
      /\ exiter \in [Exiters -> ExitTasks]
    BY TypeParts DEF Base, Shape, TypeOK
<1>2. /\ UNCHANGED <<positions, setting>>
      /\ \A y \in Exiters : y # x => exiter'[y] = exiter[y]
      /\ ExitUpdate(x) \/ UNCHANGED entry
    BY <1>1, ExitFrame
<1>3. SUFFICES ASSUME TrailActive
               PROVE  slowSold' = {} /\ TrailExits'
    BY <1>2 DEF TrailOnly, TrailNeverSlow, TrailActive, TrailExits
<1>4. /\ slowSold = {}
      /\ \A y \in Exiters : exiter[y].pc # "idle" =>
            /\ exiter[y].full
            /\ exiter[y].pc \in {"wait", "read"} => TrailSees(exiter[y].tok)
            /\ exiter[y].pc \notin {"balance", "approve"}
            /\ exiter[y].pc \in {"route", "submit", "update"} => exiter[y].fast
            /\ \A z \in Exiters : exiter[z].tok = exiter[y].tok => z = y
    BY <1>3 DEF TrailOnly, TrailNeverSlow, TrailExits
<1>5. slowSold' = {}
    <2>1. CASE ExitSubmit(x)
        <3>1. exiter[x].fast
            BY <1>4, <2>1 DEF ExitSubmit
        <3>2. QED
            BY <1>4, <2>1, <3>1 DEF ExitSubmit
    <2>2. CASE ~ExitSubmit(x)
        BY <1>1, <1>4, <2>2, ExitFrame
    <2>3. QED
        BY <2>1, <2>2
\* Another exit works on another token, whose entry is not touched.
<1>6. ASSUME NEW y \in Exiters, y # x, exiter[y].pc # "idle"
      PROVE  /\ exiter[y].pc \in {"wait", "read"} => TrailSees(exiter[y].tok)'
             /\ exiter'[x].tok # exiter[y].tok
    <2> DEFINE j == exiter[y].tok
    <2>1. j \in Tokens
        BY <1>1, <1>6 DEF TaskTokens
    <2>2. exiter[x].tok # j
        BY <1>4, <1>6
    <2>3. exiter'[x].tok # j
        <3>1. CASE Called(x)
            BY <1>3, <1>6, <3>1 DEF Called, TrailBusy
        <3>2. CASE Returns(x)
            <4>1. exiter'[x].tok = None
                BY <1>1, <3>2, ExitDoneFrame DEF Returns, NoExit
            <4>2. QED
                BY <2>1, <4>1, NamesAssumption
        <3>3. CASE \/ Acquired(x) \/ TakesFast(x) \/ TakesSlow(x) \/ Sizes(x) \/ GoesOn(x)
                   \/ WritesBack(x)
            BY <2>2, <3>3 DEF Acquired, TakesFast, TakesSlow, Sizes, GoesOn, WritesBack, SamePlan
        <3>4. QED
            BY <1>1, <3>1, <3>2, <3>3, ExitMoves
    <2>4. ASSUME exiter[y].pc \in {"wait", "read"} PROVE TrailSees(j)'
        <3>1. TrailSees(j)
            BY <1>4, <1>6, <2>4
        <3>2. positions[j] \in Gens
            BY <1>1, <2>1, <3>1 DEF TrailSees
        <3>3. entry'[positions[j]] = entry[positions[j]]
            <4>1. CASE UNCHANGED entry
                BY <4>1
            <4>2. CASE ExitUpdate(x)
                <5> DEFINE p == positions[exiter[x].tok]
                <5>1. exiter[x].tok \in Tokens /\ p \in Gens \cup {None}
                    BY <1>1, <4>2 DEF ExitUpdate, TaskTokens
                <5>2. p # positions[j]
                    BY <2>1, <2>2, <3>2, <5>1, MapInjective, GensFacts
                <5>3. \/ p = None /\ entry' = entry
                      \/ p # None /\ \E m : entry' = [entry EXCEPT ![p].amt = m]
                    BY <4>2 DEF ExitUpdate, CacheAfterSell
                <5>4. entry \in [Gens -> Entries]
                    BY <1>1, TypeParts
                <5> HIDE DEF p, j
                <5>5. QED
                    BY <3>2, <5>1, <5>2, <5>3, <5>4
            <4>3. QED
                BY <1>2, <4>1, <4>2
        <3>4. QED
            BY <1>2, <1>6, <3>1, <3>3 DEF TrailSees, Ready
    <2>5. QED
        BY <2>3, <2>4
<1>7. ASSUME exiter'[x].pc # "idle"
      PROVE  /\ exiter'[x].full
             /\ exiter'[x].pc \in {"wait", "read"} => TrailSees(exiter'[x].tok)
             /\ exiter'[x].pc \notin {"balance", "approve"}
             /\ exiter'[x].pc \in {"route", "submit", "update"} => exiter'[x].fast
    <2>1. CASE Called(x)
        BY <1>3, <2>1 DEF Called
    <2>2. CASE Acquired(x)
        BY <1>3, <1>4, <2>2 DEF Acquired
    <2>3. CASE TakesFast(x)
        BY <1>4, <2>3 DEF TakesFast
    <2>4. CASE TakesSlow(x)
        BY <1>4, <2>4 DEF TakesSlow, TrailSees, Ready
    <2>5. CASE Sizes(x)
        BY <1>4, <2>5 DEF Sizes
    <2>6. CASE GoesOn(x)
        BY <1>4, <2>6 DEF GoesOn, SamePlan
    <2>7. CASE Returns(x)
        BY <1>1, <1>7, <2>7, ExitDoneFrame DEF Returns, NoExit
    <2>8. CASE WritesBack(x)
        BY <1>4, <2>8 DEF WritesBack
    <2>9. QED
        BY <1>1, <2>1, <2>2, <2>3, <2>4, <2>5, <2>6, <2>7, <2>8, ExitMoves
<1>8. TrailExits'
    <2>1. SUFFICES ASSUME NEW y \in Exiters, exiter'[y].pc # "idle"
                   PROVE  /\ exiter'[y].full
                          /\ exiter'[y].pc \in {"wait", "read"} => TrailSees(exiter[y].tok)'
                          /\ exiter'[y].pc \notin {"balance", "approve"}
                          /\ exiter'[y].pc \in {"route", "submit", "update"} => exiter'[y].fast
                          /\ \A z \in Exiters : exiter'[z].tok = exiter'[y].tok => z = y
        BY DEF TrailExits, TrailSees
    <2>2. CASE y = x
        <3>1. exiter'[x].tok \in Tokens
            <4>1. TaskTokens'
                BY ExitShape DEF Shape
            <4>2. QED
                BY <2>1, <2>2, <4>1 DEF TaskTokens
        <3>2. UNCHANGED entry \/ exiter'[x].pc = "count"
            BY <1>1, <1>2, UpdateFacts DEF WritesBack
        <3>3. ASSUME NEW z \in Exiters, exiter'[z].tok = exiter'[x].tok PROVE z = x
            <4>1. CASE exiter[z].pc = "idle" /\ z # x
                <5>1. exiter'[z].tok = None
                    BY <1>1, <1>2, <4>1 DEF TaskTokens, NoExit
                <5>2. QED
                    BY <3>1, <3>3, <5>1, NamesAssumption
            <4>2. CASE exiter[z].pc # "idle" /\ z # x
                BY <1>2, <1>6, <3>3, <4>2
            <4>3. QED
                BY <4>1, <4>2
        <3>4. exiter'[x].pc \in {"wait", "read"} => TrailSees(exiter[x].tok)'
            BY <1>2, <1>7, <2>1, <2>2, <3>2 DEF TrailSees, Ready
        <3>5. QED
            BY <1>7, <2>1, <2>2, <3>3, <3>4
    <2>3. CASE y # x
        <3>1. exiter'[y] = exiter[y] /\ exiter[y].pc # "idle"
            BY <1>2, <2>1, <2>3
        <3>2. exiter[y].pc \in {"wait", "read"} => TrailSees(exiter[y].tok)'
            BY <1>6, <2>3, <3>1 DEF TrailSees
        <3>3. ASSUME NEW z \in Exiters, exiter'[z].tok = exiter'[y].tok PROVE z = y
            BY <1>2, <1>4, <1>6, <2>3, <3>1, <3>3
        <3>4. QED
            BY <1>4, <3>1, <3>2, <3>3
    <2>4. QED
        BY <2>2, <2>3
<1>9. QED
    BY <1>5, <1>8

LEMMA NextTrail ==
    ASSUME Base, Cache, TrailOnly, [Next]_levars
    PROVE  TrailOnly'
<1>1. CASE ChainStep
    <2>1. UNCHANGED <<procvars, slowSold, setting>>
        BY <1>1, ChainFrame
    <2>2. \A k \in Tokens : TrailSees(k) => TrailSees(k)'
        BY <2>1 DEF TrailSees, Ready, procvars
    <2>3. QED
        BY <2>1, <2>2, TrailFrame DEF procvars
<1>2. CASE Crash
    BY <1>2 DEF Crash, TrailOnly, TrailNeverSlow, TrailExits, TrailActive, NoExit
<1>3. CASE UNCHANGED levars
    <2>1. UNCHANGED <<procvars, slowSold, setting>>
        BY <1>3 DEF levars, histvars
    <2>2. \A k \in Tokens : TrailSees(k) => TrailSees(k)'
        BY <2>1 DEF TrailSees, Ready, procvars
    <2>3. QED
        BY <2>1, <2>2, TrailFrame DEF procvars
<1>4. QED
    BY <1>1, <1>2, <1>3, BuyerTrail, BgTrail, ExitTrail, NextSteps

---------------------------------------------------------------------------
(* The fourth layer: the wallet.                                           *)

\* Nothing is being sold of a token that no pending transaction sells.
LEMMA NothingPending ==
    ASSUME TypeOK, Flow, NEW k \in Tokens, \A i \in 1..Len(mempool) : ~IsSell(i, k)
    PROVE  inflight[k] = 0
<1>1. PICK c : RunningSum(c, k, mempool, inflight[k])
    BY DEF Flow
<1>2. mempool \in Seq(Txs) /\ Len(mempool) \in Nat
    BY DEF TypeOK
<1>3. \A m \in (0 + 1)..Len(mempool) : Sells(mempool[m], k) = 0
    BY <1>2 DEF Sells, IsSell
<1>4. 0 \in 0..Len(mempool)
    BY <1>2
<1>5. QED
    BY <1>1, <1>3, <1>4 DEF RunningSum

\* Tokens only ever stop being clean.
LEMMA CleanShrinks ==
    ASSUME slowSold \subseteq slowSold', landed \subseteq landed'
    PROVE  Clean' \subseteq Clean
BY DEF Clean

\* While a finaliser is between the receipt and the end, its entry is the one in the
\* map and nothing is being sold of its token.
LEMMA FinalisingIsQuiet ==
    ASSUME Base, Cache, Wallet, NEW g \in Gens,
           bg[g].pc \in {"read", "store", "approve", "confirm"}, bg[g].tok \in Clean
    PROVE  /\ positions[bg[g].tok] = g
           /\ \A i \in 1..Len(mempool) : ~IsSell(i, bg[g].tok)
           /\ inflight[bg[g].tok] = 0
<1>1. bg[g].tok \in Tokens /\ bg[g].tok \notin slowSold
    BY DEF Clean
<1>2. positions[bg[g].tok] = g
    BY <1>1 DEF Cache, NoEntryOrphaned
<1>3. ~entry[g].approved /\ g \in bought
    BY DEF Base, Shape, EntryOwners, BuyNumbers
<1>4. Unready(g, bg[g].tok)
    BY <1>2, <1>3 DEF Unready
<1>5. \A i \in 1..Len(mempool) : ~IsSell(i, bg[g].tok)
    BY <1>3, <1>4 DEF Wallet, SellsBeforeBuy
<1>6. QED
    BY <1>1, <1>2, <1>5, NothingPending DEF Base

LEMMA InitWallet == Init => Wallet
<1> SUFFICES ASSUME Init PROVE Wallet
    OBVIOUS
<1>1. SellsBeforeBuy
    BY DEF Init, SellsBeforeBuy
<1>2. ReadIsThere
    BY DEF Init, ReadIsThere, NoBg
<1>3. Covered
    BY DEF Init, Covered, Clean, NoExit
<1>4. OversellNeedsSlowOrLanded
    BY ConstantsAssumption DEF Init, OversellNeedsSlowOrLanded
<1>5. QED
    BY <1>1, <1>2, <1>3, <1>4 DEF Wallet

\* Sending something that is not a sell of the token keeps sells before buys.
LEMMA SellsBeforeBuyKept ==
    ASSUME TypeOK, NEW k, NEW g, NEW tx \in Txs,
           ~(tx.kind = "sell" /\ tx.tok = k),
           mempool' = mempool \/ mempool' = Append(mempool, tx),
           bought' = bought,
           \A i \in 1..Len(mempool) : IsSell(i, k) =>
                /\ g \notin bought
                /\ \A j \in 1..Len(mempool) : IsBuy(j, g) => i < j
    PROVE  \A i \in 1..Len(mempool') : IsSell(i, k)' =>
                /\ g \notin bought'
                /\ \A j \in 1..Len(mempool') : IsBuy(j, g)' => i < j
<1>1. mempool \in Seq(Txs) /\ Len(mempool) \in Nat
    BY DEF TypeOK
<1>2. CASE mempool' = mempool
    BY <1>2 DEF IsSell, IsBuy
<1>3. CASE mempool' = Append(mempool, tx)
    <2>1. /\ Len(mempool') = Len(mempool) + 1
          /\ mempool'[Len(mempool) + 1] = tx
          /\ \A i \in 1..Len(mempool) : mempool'[i] = mempool[i]
        BY <1>1, <1>3
    <2>2. SUFFICES ASSUME NEW i \in 1..Len(mempool'), IsSell(i, k)'
                   PROVE  /\ g \notin bought
                          /\ \A j \in 1..Len(mempool') : IsBuy(j, g)' => i < j
        OBVIOUS
    <2>3. i \in 1..Len(mempool) /\ IsSell(i, k)
        BY <1>1, <2>1, <2>2 DEF IsSell
    <2>4. ASSUME NEW j \in 1..Len(mempool'), IsBuy(j, g)' PROVE i < j
        <3>1. CASE j = Len(mempool) + 1
            BY <1>1, <2>3, <3>1
        <3>2. CASE j # Len(mempool) + 1
            <4>1. j \in 1..Len(mempool) /\ IsBuy(j, g)
                BY <1>1, <2>1, <2>4, <3>2 DEF IsBuy
            <4>2. QED
                BY <2>3, <4>1
        <3>3. QED
            BY <3>1, <3>2
    <2>5. QED
        BY <2>3, <2>4
<1>4. QED
    BY <1>2, <1>3

LEMMA BuyerWallet ==
    ASSUME Base, Cache, Wallet, NEW b \in Buyers, BuyerStep(b)
    PROVE  Wallet'
<1>1. /\ TypeOK /\ TaskTokens /\ EntryOwners /\ BuyNumbers
      /\ SellsBeforeBuy /\ ReadIsThere /\ Covered /\ OversellNeedsSlowOrLanded
      /\ positions \in [Tokens -> Gens \cup {None}]
      /\ buys \in Nat
      /\ \A c \in Buyers : c = b
    BY OneBuyer DEF Base, Shape, Wallet, TypeOK
<1>2. /\ UNCHANGED <<exiter, bal, bought, inflight, slowSold, landed>>
      /\ Clean' = Clean
    BY BuyerFrame DEF Clean
<1>3. OversellNeedsSlowOrLanded'
    BY <1>1, <1>2 DEF OversellNeedsSlowOrLanded
<1>4. CASE BuySubmit(b)
    <2>1. UNCHANGED <<positions, entry, bg>>
        BY <1>4 DEF BuySubmit
    <2>2. ReadIsThere' /\ Covered'
        BY <1>1, <1>2, <2>1 DEF ReadIsThere, Covered
    <2> DEFINE tx == [kind |-> "buy", tok |-> buyer[b].tok, amt |-> BuyUnits,
                      gen |-> buys + 1, route |-> AnyRoute]
    <2>3. buyer[b] \in BuyTasks /\ buys < MaxBuys /\ buyer[b].tok \in Tokens
        BY <1>1, <1>4, TypeParts DEF BuySubmit, TaskTokens
    <2>4. tx \in Txs /\ tx.kind = "buy"
        BY <1>1, <2>3, ConstantsAssumption DEF Txs, Gens, BuyTasks, AnyRoute, Routes
    <2>5. mempool' = mempool \/ mempool' = Append(mempool, tx)
        BY <1>4 DEF BuySubmit, Queue
    <2>6. Accepted(b) => mempool' = Append(mempool, tx)
        BY <1>1, <1>4, TypeParts DEF BuySubmit, Queue, Sent, Accepted, NoBuy
    <2>7. tx.gen = buys + 1
        OBVIOUS
    <2> HIDE DEF tx
    <2>8. SellsBeforeBuy'
        <3>1. SUFFICES ASSUME NEW k \in Clean, NEW g \in Gens, Unready(g, k)'
                       PROVE  \A i \in 1..Len(mempool') : IsSell(i, k)' =>
                                /\ g \notin bought'
                                /\ \A j \in 1..Len(mempool') : IsBuy(j, g)' => i < j
            BY <1>2 DEF SellsBeforeBuy
        <3>2. \A i \in 1..Len(mempool) : IsSell(i, k) =>
                /\ g \notin bought
                /\ \A j \in 1..Len(mempool) : IsBuy(j, g) => i < j
            <4>1. CASE Unready(g, k)
                BY <1>1, <4>1 DEF SellsBeforeBuy
            <4>2. CASE ~Unready(g, k)
                <5>1. Made(b)' /\ buyer'[b].gen = g
                    BY <1>1, <2>1, <3>1, <4>2 DEF Unready, Made
                <5>2. g = buys + 1
                    BY <1>1, <1>4, <5>1, TypeParts DEF BuySubmit, NoBuy, BuyTasks, Made
                <5>3. g \notin bought
                    BY <1>1, <5>2 DEF BuyNumbers
                <5>4. \A j \in 1..Len(mempool) : ~IsBuy(j, g)
                    BY <1>1, <5>2 DEF BuyNumbers, IsBuy
                <5>5. QED
                    BY <5>3, <5>4
            <4>3. QED
                BY <4>1, <4>2
        <3>3. QED
            BY <1>1, <1>2, <2>4, <2>5, <3>2, SellsBeforeBuyKept
    <2>9. QED
        BY <1>3, <2>2, <2>8 DEF Wallet
<1>5. CASE ~BuySubmit(b)
    <2>1. UNCHANGED mempool
        BY <1>5, BuyerFrame
    <2>2. ASSUME NEW k \in Tokens, NEW g \in Gens, Unready(g, k)' PROVE Unready(g, k)
        <3>1. Made(b)' => /\ Made(b)
                          /\ buyer'[b].gen = buyer[b].gen /\ buyer'[b].tok = buyer[b].tok
            BY <1>1, <1>5, BuyerMoves DEF Made, Begins, Proceeds, NoBuy
        <3>2. SUFFICES ASSUME positions'[k] = g, ~entry'[g].approved PROVE Unready(g, k)
            BY <1>1, <2>2, <3>1 DEF Unready
        <3>3. CASE BuyRecord(b)
            <4> DEFINE h == buyer[b].gen
            <4>1. /\ buyer[b].tok \in Tokens /\ h \in Gens /\ positions'[buyer[b].tok] = h
                  /\ \A j \in Tokens : j # buyer[b].tok => positions'[j] = positions[j]
                  /\ entry[h] = NoEntry
                  /\ \A i \in Gens : i # h => entry'[i] = entry[i]
                BY <3>3, RecordFacts
            <4> HIDE DEF h
            <4>2. CASE k = buyer[b].tok
                BY <3>2, <3>3, <4>1, <4>2 DEF Unready, Made, BuyRecord, h
            <4>3. CASE k # buyer[b].tok
                BY <3>2, <4>1, <4>3 DEF Unready, NoEntry
            <4>4. QED
                BY <4>2, <4>3
        <3>4. CASE ~BuyRecord(b)
            <4>1. entry' = entry
                BY <3>4, BuyerFrame
            <4>2. positions[k] = g
                BY <1>1, <3>2, <3>4, BuyerFrame, GensFacts DEF BuyClear
            <4>3. QED
                BY <3>2, <4>1, <4>2 DEF Unready
        <3>5. QED
            BY <3>3, <3>4
    <2>3. SellsBeforeBuy'
        <3>1. SUFFICES ASSUME NEW k \in Clean, NEW g \in Gens, Unready(g, k)'
                       PROVE  \A i \in 1..Len(mempool) : IsSell(i, k) =>
                                /\ g \notin bought
                                /\ \A j \in 1..Len(mempool) : IsBuy(j, g) => i < j
            BY <1>2, <2>1 DEF SellsBeforeBuy, IsSell, IsBuy
        <3>2. k \in Tokens
            BY DEF Clean
        <3>3. QED
            BY <1>1, <2>2, <3>1, <3>2 DEF SellsBeforeBuy
    <2>4. CASE BuyRecord(b)
        <3> DEFINE g == buyer[b].gen
                   k == buyer[b].tok
        <3>1. /\ g \in Gens /\ k \in Tokens
              /\ bg[g] = NoBg
              /\ positions'[k] = g
              /\ \A j \in Tokens : j # k => positions'[j] = positions[j]
              /\ bg'[g] = [pc |-> "poll", tok |-> k, read |-> 0]
              /\ entry'[g].amt = 0
              /\ \A h \in Gens : h # g => bg'[h] = bg[h] /\ entry'[h] = entry[h]
            BY <2>4, RecordFacts
        <3> HIDE DEF g, k
        <3>2. ReadIsThere'
            BY <1>1, <1>2, <3>1 DEF ReadIsThere
        <3>3. Covered'
            <4>1. SUFFICES ASSUME NEW j \in Clean, positions'[j] # None
                           PROVE  \/ inflight[j] + entry'[positions'[j]].amt <= bal[j]
                                  \/ \E x \in Exiters : /\ exiter[x].pc = "update"
                                                        /\ exiter[x].tok = j
                BY <1>1, <1>2 DEF Covered
            <4>2. j \in Tokens /\ inflight[j] <= bal[j] /\ inflight[j] \in Nat
                BY <1>1 DEF Clean, OversellNeedsSlowOrLanded, TypeOK
            <4>3. CASE j = k
                BY <3>1, <4>2, <4>3
            <4>4. CASE j # k
                <5>1. positions'[j] = positions[j] /\ positions[j] \in Gens
                    BY <1>1, <3>1, <4>1, <4>2, <4>4
                <5>2. positions[j] # g
                    BY <1>1, <3>1, <4>1, <4>2, <5>1, NamesAssumption DEF EntryOwners, NoBg
                <5>3. QED
                    BY <1>1, <3>1, <4>1, <5>1, <5>2 DEF Covered
            <4>5. QED
                BY <4>3, <4>4
        <3>4. QED
            BY <1>3, <2>3, <3>2, <3>3 DEF Wallet
    <2>5. CASE ~BuyRecord(b)
        <3>1. UNCHANGED <<entry, bg>>
            BY <2>5, BuyerFrame
        <3>2. \A j \in Tokens : positions'[j] # None => positions'[j] = positions[j]
            BY <1>1, <2>5, BuyerFrame DEF BuyClear
        <3>3. ReadIsThere' /\ Covered'
            BY <1>1, <1>2, <3>1, <3>2 DEF ReadIsThere, Covered, Clean
        <3>4. QED
            BY <1>3, <2>3, <3>3 DEF Wallet
    <2>6. QED
        BY <2>4, <2>5
<1>6. QED
    BY <1>4, <1>5

LEMMA BgWallet ==
    ASSUME Base, Cache, Wallet, NEW g \in Gens, BgStep(g)
    PROVE  Wallet'
<1>1. /\ TypeOK /\ TaskTokens /\ EntryOwners
      /\ SellsBeforeBuy /\ ReadIsThere /\ Covered /\ OversellNeedsSlowOrLanded
      /\ positions \in [Tokens -> Gens \cup {None}]
      /\ bal \in [Tokens -> Nat]
      /\ bg \in [Gens -> BgTasks] /\ entry \in [Gens -> Entries]
    BY TypeParts DEF Base, Shape, Wallet, TypeOK
<1>2. /\ UNCHANGED <<positions, buyer, exiter, bal, bought, inflight, slowSold, landed>>
      /\ \A h \in Gens : h # g => bg'[h] = bg[h] /\ entry'[h] = entry[h]
      /\ bg'[g].tok = bg[g].tok
      /\ bg[g].pc \notin {"none", "done"}
      /\ bg[g].pc = "store" \/ entry'[g].amt = entry[g].amt
      /\ BgReadBalance(g) \/ bg'[g].read = bg[g].read
      /\ BgApprove(g) \/ UNCHANGED mempool
    BY <1>1, BgFrame
<1>3. Clean' = Clean
    BY <1>2 DEF Clean
<1>4. OversellNeedsSlowOrLanded'
    BY <1>1, <1>2 DEF OversellNeedsSlowOrLanded
<1>5. SellsBeforeBuy'
    <2>1. SUFFICES ASSUME NEW k \in Clean, NEW h \in Gens, Unready(h, k)'
                   PROVE  \A i \in 1..Len(mempool') : IsSell(i, k)' =>
                            /\ h \notin bought'
                            /\ \A j \in 1..Len(mempool') : IsBuy(j, h)' => i < j
        BY <1>3 DEF SellsBeforeBuy
    <2>2. Unready(h, k)
        <3>1. ~entry[g].approved
            BY <1>1, <1>2 DEF EntryOwners
        <3>2. QED
            BY <1>2, <2>1, <3>1 DEF Unready, Made
    <2>3. \A i \in 1..Len(mempool) : IsSell(i, k) =>
                /\ h \notin bought
                /\ \A j \in 1..Len(mempool) : IsBuy(j, h) => i < j
        BY <1>1, <2>2 DEF SellsBeforeBuy
    <2> DEFINE tx == [kind |-> "approve", tok |-> bg[g].tok, amt |-> 0,
                      gen |-> g, route |-> "FourMeme"]
    <2>4. tx \in Txs /\ tx.kind = "approve"
        BY <1>1, <1>2 DEF Txs, Routes, TaskTokens
    <2>5. mempool' = mempool \/ mempool' = Append(mempool, tx)
        BY <1>2 DEF BgApprove
    <2> HIDE DEF tx
    <2>6. QED
        BY <1>1, <1>2, <2>3, <2>4, <2>5, SellsBeforeBuyKept
<1>6. ReadIsThere'
    <2>1. SUFFICES ASSUME bg'[g].pc = "store", bg[g].tok \in Clean
                   PROVE  bg'[g].read <= bal[bg[g].tok]
        BY <1>1, <1>2, <1>3 DEF ReadIsThere
    <2>2. bg[g].tok \in Tokens
        BY <2>1 DEF Clean
    <2>3. CASE BgReadBalance(g)
        <3>1. PICK v \in {bal[bg[g].tok], 0} : bg' = [bg EXCEPT ![g].pc = "store", ![g].read = v]
            BY <2>3 DEF BgReadBalance
        <3>2. bg'[g].read = v
            BY <1>1, <3>1 DEF BgTasks
        <3>3. bal[bg[g].tok] \in Nat
            BY <1>1, <2>2
        <3>4. QED
            BY <3>1, <3>2, <3>3
    <2>4. CASE ~BgReadBalance(g)
        BY <1>1, <2>1, <2>4
        DEF BgStep, BgReceipt, BgGivesUp, BgStore, BgApprove, BgConfirm, BgTasks
    <2>5. QED
        BY <2>3, <2>4
<1>7. Covered'
    <2>1. SUFFICES ASSUME NEW k \in Clean, positions[k] # None
                   PROVE  \/ inflight[k] + entry'[positions[k]].amt <= bal[k]
                          \/ \E x \in Exiters : exiter[x].pc = "update" /\ exiter[x].tok = k
        BY <1>1, <1>2, <1>3 DEF Covered
    <2>2. k \in Tokens /\ positions[k] \in Gens
        BY <1>1, <2>1 DEF Clean
    <2>3. CASE positions[k] # g \/ entry'[g].amt = entry[g].amt
        BY <1>1, <1>2, <2>1, <2>2, <2>3 DEF Covered
    <2>4. CASE positions[k] = g /\ entry'[g].amt # entry[g].amt
        <3>1. bg[g].pc = "store" /\ bg[g].tok = k
            BY <1>1, <1>2, <2>1, <2>2, <2>4 DEF EntryOwners
        <3>2. BgStore(g)
            BY <3>1 DEF BgStep, BgReceipt, BgGivesUp, BgReadBalance, BgApprove, BgConfirm
        <3>3. entry'[g].amt = bg[g].read
            BY <1>1, <2>4, <3>2 DEF BgStore, Entries
        <3>4. bg[g].read <= bal[k]
            BY <1>1, <3>1 DEF ReadIsThere
        <3>5. inflight[k] = 0
            BY <3>1, FinalisingIsQuiet
        <3>6. bg[g].read \in Nat /\ bal[k] \in Nat
            BY <1>1, <2>2 DEF BgTasks
        <3>7. QED
            BY <2>4, <3>3, <3>4, <3>5, <3>6
    <2>5. QED
        BY <2>3, <2>4
<1>8. QED
    BY <1>4, <1>5, <1>6, <1>7 DEF Wallet


LEMMA ExitWallet ==
    ASSUME Base, Cache, Wallet, NEW x \in Exiters, ExitStep(x)
    PROVE  Wallet'
<1>1. /\ TypeOK /\ TaskTokens /\ EntryOwners /\ GuardPassed /\ ExitPlan
      /\ SellsBeforeBuy /\ ReadIsThere /\ Covered /\ OversellNeedsSlowOrLanded
      /\ FastExitStaysValid
      /\ positions \in [Tokens -> Gens \cup {None}]
      /\ bal \in [Tokens -> Nat] /\ inflight \in [Tokens -> Nat]
      /\ entry \in [Gens -> Entries] /\ exiter[x] \in ExitTasks
    BY TypeParts DEF Base, Shape, Cache, Wallet, TypeOK
<1>2. /\ UNCHANGED <<positions, buyer, bg, bal, bought>>
      /\ \A y \in Exiters : y # x => exiter'[y] = exiter[y]
      /\ slowSold \subseteq slowSold' /\ landed \subseteq landed'
      /\ Clean' \subseteq Clean
    <2>1. slowSold \subseteq slowSold' /\ landed \subseteq landed'
        BY <1>1, ExitFrame DEF ExitSubmit
    <2>2. QED
        BY <1>1, <2>1, ExitFrame, CleanShrinks
<1>3. \A g \in Gens, k \in Tokens : Unready(g, k)' => Unready(g, k)
    <2>1. \A g \in Gens : entry'[g].approved = entry[g].approved
        BY <1>1, ExitFrame, UpdateFacts
    <2>2. QED
        BY <1>2, <2>1 DEF Unready, Made
<1>4. ReadIsThere'
    BY <1>1, <1>2 DEF ReadIsThere
\* A step that sends no sell keeps the order in the queue.
<1>5. ASSUME \/ UNCHANGED mempool
             \/ \E tx \in Txs : tx.kind = "approve" /\ mempool' = Append(mempool, tx)
      PROVE  SellsBeforeBuy'
    <2>1. SUFFICES ASSUME NEW k \in Clean', NEW g \in Gens, Unready(g, k)'
                   PROVE  \A i \in 1..Len(mempool') : IsSell(i, k)' =>
                            /\ g \notin bought'
                            /\ \A j \in 1..Len(mempool') : IsBuy(j, g)' => i < j
        BY DEF SellsBeforeBuy
    <2>2. k \in Clean /\ k \in Tokens /\ Unready(g, k)
        BY <1>2, <1>3, <2>1 DEF Clean
    <2>3. \A i \in 1..Len(mempool) : IsSell(i, k) =>
                /\ g \notin bought
                /\ \A j \in 1..Len(mempool) : IsBuy(j, g) => i < j
        BY <1>1, <2>2 DEF SellsBeforeBuy
    <2>4. CASE UNCHANGED mempool
        BY <1>2, <2>3, <2>4 DEF IsSell, IsBuy
    <2>5. CASE \E tx \in Txs : tx.kind = "approve" /\ mempool' = Append(mempool, tx)
        BY <1>1, <1>2, <2>3, <2>5, SellsBeforeBuyKept
    <2>6. QED
        BY <1>5, <2>4, <2>5
<1>6. CASE ExitUpdate(x)
    <2> DEFINE k == exiter[x].tok
               p == positions[exiter[x].tok]
    <2>1. /\ exiter[x].pc = "update" /\ k \in Tokens /\ p \in Gens \cup {None}
          /\ exiter'[x].pc = "count"
          /\ \A h \in Gens : h # p => entry'[h] = entry[h]
          /\ p # None => entry'[p].amt = IF exiter[x].full THEN 0
                                         ELSE exiter[x].our - exiter[x].amt
        BY <1>6, UpdateFacts DEF WritesBack
    <2>2. UNCHANGED <<mempool, inflight, slowSold, landed>>
        BY <1>6 DEF ExitUpdate, chainvars, histvars
    <2>3. exiter[x].our \in Nat /\ exiter[x].amt \in Nat
        BY <1>1 DEF ExitTasks
    <2>4. exiter[x].full => exiter[x].our - exiter[x].amt = 0
        BY <1>1, <2>1, <2>3 DEF ExitPlan
    <2> HIDE DEF k, p
    <2>5. p # None => entry'[p].amt = exiter[x].our - exiter[x].amt
        BY <2>1, <2>4
    <2>6. Covered'
        <3>1. SUFFICES ASSUME NEW j \in Clean
                       PROVE  /\ positions[j] # None =>
                                    \/ inflight[j] + entry'[positions[j]].amt <= bal[j]
                                    \/ \E y \in Exiters :
                                          exiter'[y].pc = "update" /\ exiter'[y].tok = j
                              /\ \A y \in Exiters :
                                    exiter'[y].pc = "update" /\ exiter'[y].tok = j =>
                                    inflight[j] + (exiter'[y].our - exiter'[y].amt) <= bal[j]
            BY <1>2, <2>2 DEF Covered
        <3>2. ASSUME NEW y \in Exiters, exiter'[y].pc = "update", exiter'[y].tok = j
              PROVE  inflight[j] + (exiter'[y].our - exiter'[y].amt) <= bal[j]
            <4>1. y # x
                BY <2>1, <3>2
            <4>2. QED
                BY <1>1, <1>2, <3>2, <4>1 DEF Covered
        <3>3. ASSUME positions[j] # None
              PROVE  \/ inflight[j] + entry'[positions[j]].amt <= bal[j]
                     \/ \E y \in Exiters : exiter'[y].pc = "update" /\ exiter'[y].tok = j
            <4>1. j \in Tokens /\ positions[j] \in Gens
                BY <1>1, <3>3 DEF Clean
            <4>2. CASE j = k
                <5>1. inflight[j] + (exiter[x].our - exiter[x].amt) <= bal[j]
                    BY <1>1, <2>1, <4>2 DEF Covered, k
                <5>2. QED
                    BY <2>5, <3>3, <4>2, <5>1 DEF p, k
            <4>3. CASE j # k
                <5>1. positions[j] # p
                    BY <2>1, <3>3, <4>1, <4>3, MapInjective DEF p, k
                <5>2. entry'[positions[j]] = entry[positions[j]]
                    BY <2>1, <4>1, <5>1
                <5>3. CASE inflight[j] + entry[positions[j]].amt <= bal[j]
                    BY <5>2, <5>3
                <5>4. CASE \E y \in Exiters : exiter[y].pc = "update" /\ exiter[y].tok = j
                    BY <1>2, <4>3, <5>4 DEF k
                <5>5. QED
                    BY <1>1, <3>3, <5>3, <5>4 DEF Covered
            <4>4. QED
                BY <4>2, <4>3
        <3>4. QED
            BY <3>2, <3>3
    <2>7. OversellNeedsSlowOrLanded'
        BY <1>1, <1>2, <2>2 DEF OversellNeedsSlowOrLanded
    <2>8. SellsBeforeBuy'
        BY <1>5, <2>2
    <2>9. QED
        BY <1>4, <2>6, <2>7, <2>8 DEF Wallet
<1>7. CASE ~ExitUpdate(x) /\ ~ExitSubmit(x)
    <2>1. UNCHANGED <<entry, inflight, slowSold, landed>>
        BY <1>1, <1>7, ExitFrame
    <2>2. exiter[x].pc # "update"
        BY <1>7 DEF ExitStep, ExitStart, ExitLock, ExitReadCache, ExitReadBalance,
                    ExitApprove, ExitRoute, ExitCount, ExitShadow
    <2>3. exiter'[x].pc # "update"
        <3>1. Called(x) \/ Acquired(x) \/ TakesFast(x) \/ TakesSlow(x) \/ Sizes(x)
              => exiter'[x].pc # "update"
            BY DEF Called, Acquired, TakesFast, TakesSlow, Sizes
        <3>2. Returns(x) => exiter'[x].pc # "update"
            BY <1>1, ExitDoneFrame DEF Returns, NoExit
        <3>3. GoesOn(x) /\ (ExitApprove(x) \/ ExitRoute(x)) => exiter'[x].pc # "update"
            BY DEF GoesOn, ExitApprove, ExitRoute
        <3>4. QED
            BY <1>1, <1>7, <3>1, <3>2, <3>3, ExitMoves
    <2>4. OversellNeedsSlowOrLanded'
        BY <1>1, <1>2, <2>1 DEF OversellNeedsSlowOrLanded
    <2>5. Covered'
        BY <1>1, <1>2, <2>1, <2>2, <2>3 DEF Covered
    <2>6. SellsBeforeBuy'
        BY <1>5, <1>7, ExitSends
    <2>7. QED
        BY <1>4, <2>4, <2>5, <2>6 DEF Wallet
<1>8. CASE ExitSubmit(x)
    <2> DEFINE k == exiter[x].tok
               n == exiter[x].amt
               tx == [kind |-> "sell", tok |-> k, amt |-> n, gen |-> None,
                      route |-> exiter[x].route]
    <2>1. PICK o \in Outcomes :
            /\ Queue(tx, o)
            /\ inflight' = IF Sent(o) THEN [inflight EXCEPT ![k] = @ + n] ELSE inflight
            /\ slowSold' = IF Sent(o) /\ ~exiter[x].fast THEN slowSold \cup {k} ELSE slowSold
            /\ landed' = IF o = "landed" THEN landed \cup {k} ELSE landed
            /\ IF o = "accepted"
               THEN exiter' = [exiter EXCEPT ![x].pc = "update"] /\ UNCHANGED exit_locks
               ELSE ExitDone(x)
        BY <1>8 DEF ExitSubmit
    <2>2. exiter[x].pc = "submit" /\ k \in Tokens /\ n \in Nat /\ UNCHANGED entry
        BY <1>1, <1>8 DEF ExitSubmit, TaskTokens, ExitTasks
    <2>3. tx \in Txs /\ tx.kind = "sell" /\ tx.tok = k
        BY <1>1, <2>2 DEF Txs, ExitTasks
    <2>4. o # "accepted" => exiter'[x] = NoExit
        BY <1>1, <2>1, ExitDoneFrame
    <2>5. o = "accepted" => /\ exiter'[x].pc = "update" /\ exiter'[x].tok = k
                            /\ exiter'[x].our = exiter[x].our /\ exiter'[x].amt = n
        BY <1>1, <2>1, TypeParts DEF ExitTasks
    <2> HIDE DEF k, n, tx
    <2>6. CASE o = "refused"
        <3>1. UNCHANGED <<mempool, inflight, slowSold, landed>>
            BY <2>1, <2>6 DEF Queue, Sent
        <3>2. exiter'[x].pc # "update"
            BY <2>4, <2>6 DEF NoExit
        <3>3. OversellNeedsSlowOrLanded' /\ SellsBeforeBuy'
            BY <1>1, <1>2, <1>5, <3>1 DEF OversellNeedsSlowOrLanded
        <3>4. Covered'
            BY <1>1, <1>2, <2>2, <3>1, <3>2 DEF Covered
        <3>5. QED
            BY <1>4, <3>3, <3>4 DEF Wallet
    <2>7. CASE o # "refused"
        <3>1. /\ mempool' = Append(mempool, tx)
              /\ inflight'[k] = inflight[k] + n
              /\ \A j \in Tokens : j # k => inflight'[j] = inflight[j]
            BY <1>1, <2>1, <2>2, <2>7 DEF Queue, Sent
        \* A token that is still clean was sold on the fast path, and the sell accepted.
        <3>2. k \in Clean' => o = "accepted" /\ exiter[x].fast
            BY <2>1, <2>7 DEF Outcomes, Sent, Clean
        <3>3. ASSUME k \in Clean'
              PROVE  /\ positions[k] \in Gens /\ entry[positions[k]].approved
                     /\ entry[positions[k]].amt = exiter[x].our
                     /\ exiter[x].our \in Nat /\ n <= exiter[x].our
                     /\ inflight[k] + exiter[x].our <= bal[k]
            <4>1. exiter[x].fast /\ k \in Clean /\ k \notin slowSold
                BY <1>2, <3>2, <3>3 DEF Clean
            <4>2. positions[k] = exiter[x].gen /\ entry[exiter[x].gen].amt = exiter[x].our
                BY <1>1, <4>1 DEF FastExitStaysValid, k
            <4>3. /\ exiter[x].gen \in Gens /\ entry[exiter[x].gen].approved
                  /\ exiter[x].our \in Nat /\ n <= exiter[x].our
                BY <4>1, FastFacts DEF n
            <4>4. ~\E y \in Exiters : exiter[y].pc = "update" /\ exiter[y].tok = k
                BY <2>2, LockExclusive DEF Locked, k
            <4>5. inflight[k] + entry[positions[k]].amt <= bal[k]
                BY <1>1, <4>1, <4>2, <4>3, <4>4, GensFacts DEF Covered
            <4>6. QED
                BY <4>2, <4>3, <4>5
        <3>4. OversellNeedsSlowOrLanded'
            <4>1. SUFFICES ASSUME NEW j \in Tokens, j \in Clean'
                           PROVE  inflight'[j] <= bal[j]
                BY <1>2 DEF OversellNeedsSlowOrLanded, Clean
            <4>2. CASE j = k
                BY <1>1, <2>2, <3>1, <3>3, <4>1, <4>2
            <4>3. CASE j # k
                BY <1>1, <1>2, <3>1, <4>1, <4>3 DEF OversellNeedsSlowOrLanded, Clean
            <4>4. QED
                BY <4>2, <4>3
        <3>5. SellsBeforeBuy'
            <4>1. SUFFICES ASSUME NEW j \in Clean', NEW g \in Gens, Unready(g, j)'
                           PROVE  \A i \in 1..Len(mempool') : IsSell(i, j)' =>
                                    /\ g \notin bought'
                                    /\ \A m \in 1..Len(mempool') : IsBuy(m, g)' => i < m
                BY DEF SellsBeforeBuy
            <4>2. j \in Clean /\ j \in Tokens /\ Unready(g, j)
                BY <1>2, <1>3, <4>1 DEF Clean
            <4>3. j # k
                <5>1. SUFFICES ASSUME j = k PROVE FALSE
                    OBVIOUS
                <5>2. positions[k] \in Gens /\ entry[positions[k]].approved
                    BY <3>3, <4>1, <5>1
                <5>3. ~\E b \in Buyers : Made(b) /\ buyer[b].tok = k
                    BY <1>1, <5>2, GensFacts DEF GuardPassed, Made
                <5>4. QED
                    BY <4>2, <5>1, <5>2, <5>3 DEF Unready
            <4>4. \A i \in 1..Len(mempool) : IsSell(i, j) =>
                    /\ g \notin bought
                    /\ \A m \in 1..Len(mempool) : IsBuy(m, g) => i < m
                BY <1>1, <4>2 DEF SellsBeforeBuy
            <4>5. QED
                BY <1>1, <1>2, <2>3, <3>1, <4>3, <4>4, SellsBeforeBuyKept
        <3>6. Covered'
            <4>1. SUFFICES ASSUME NEW j \in Clean'
                           PROVE  /\ positions[j] # None =>
                                        \/ inflight'[j] + entry[positions[j]].amt <= bal[j]
                                        \/ \E y \in Exiters :
                                              exiter'[y].pc = "update" /\ exiter'[y].tok = j
                                  /\ \A y \in Exiters :
                                        exiter'[y].pc = "update" /\ exiter'[y].tok = j =>
                                        inflight'[j] + (exiter'[y].our - exiter'[y].amt) <= bal[j]
                BY <1>2, <2>2 DEF Covered
            <4>2. j \in Clean /\ j \in Tokens
                BY <1>2, <4>1 DEF Clean
            <4>3. CASE j = k
                <5>1. exiter'[x].pc = "update" /\ exiter'[x].tok = j
                    BY <2>5, <3>2, <4>1, <4>3
                <5>2. inflight'[j] + (exiter'[x].our - exiter'[x].amt) <= bal[j]
                    BY <1>1, <2>2, <2>5, <3>1, <3>2, <3>3, <4>1, <4>3
                <5>3. \A y \in Exiters : exiter'[y].pc = "update" /\ exiter'[y].tok = j => y = x
                    BY <1>2, <2>2, <4>3, LockExclusive DEF Locked, k
                <5>4. QED
                    BY <5>1, <5>2, <5>3
            <4>4. CASE j # k
                <5>1. inflight'[j] = inflight[j]
                    BY <3>1, <4>2, <4>4
                <5>2. exiter[x].pc # "update" /\ (exiter'[x].pc = "update" => exiter'[x].tok = k)
                    BY <2>2, <2>4, <2>5 DEF NoExit
                <5>3. QED
                    BY <1>1, <1>2, <4>2, <4>4, <5>1, <5>2 DEF Covered
            <4>5. QED
                BY <4>3, <4>4
        <3>7. QED
            BY <1>4, <3>4, <3>5, <3>6 DEF Wallet
    <2>8. QED
        BY <2>6, <2>7
<1>9. QED
    BY <1>6, <1>7, <1>8

LEMMA MineWallet ==
    ASSUME Base, Cache, Wallet, MineOk \/ MineFails
    PROVE  Wallet'
<1> DEFINE tx == Head(mempool)
<1>1. /\ TypeOK /\ Flow /\ BuyNumbers
      /\ SellsBeforeBuy /\ ReadIsThere /\ Covered /\ OversellNeedsSlowOrLanded
      /\ mempool \in Seq(Txs) /\ Len(mempool) \in Nat
      /\ bal \in [Tokens -> Nat] /\ inflight \in [Tokens -> Nat]
      /\ entry \in [Gens -> Entries]
      /\ positions \in [Tokens -> Gens \cup {None}]
      /\ exiter \in [Exiters -> ExitTasks]
    <2>1. /\ TypeOK /\ Flow /\ BuyNumbers
          /\ SellsBeforeBuy /\ ReadIsThere /\ Covered /\ OversellNeedsSlowOrLanded
        BY DEF Base, Shape, Wallet
    <2>2. entry \in [Gens -> Entries] /\ exiter \in [Exiters -> ExitTasks]
        BY <2>1, TypeParts
    <2>3. mempool \in Seq(Txs) /\ Len(mempool) \in Nat
        BY <2>1 DEF TypeOK
    <2>4. /\ bal \in [Tokens -> Nat] /\ inflight \in [Tokens -> Nat]
          /\ positions \in [Tokens -> Gens \cup {None}]
        BY <2>1 DEF TypeOK
    <2>5. QED
        BY <2>1, <2>2, <2>3, <2>4
<1>2. /\ UNCHANGED <<positions, entry, buyer, exiter, bg, slowSold, landed>>
      /\ mempool # << >> /\ mempool' = Tail(mempool)
      /\ Clean' = Clean
    BY DEF MineOk, MineFails, procvars, Clean
<1>3. /\ tx \in Txs /\ tx = mempool[1] /\ 1 \in 1..Len(mempool)
      /\ \A i \in 1..Len(mempool') : i + 1 \in 1..Len(mempool) /\ mempool'[i] = mempool[i + 1]
    BY <1>1, <1>2
<1>4. ASSUME NEW k \in Tokens
      PROVE  /\ inflight'[k] = inflight[k] - Sells(tx, k)
             /\ Sells(tx, k) \in Nat /\ Sells(tx, k) <= inflight[k]
    BY <1>1, MinedSells
<1>5. /\ tx.tok \in Tokens /\ tx.amt \in Nat
      /\ \/ bal' = bal /\ bought' = bought
         \/ /\ tx.kind = "sell" => SellValid(tx)
            /\ bal' = [bal EXCEPT ![tx.tok] = CASE tx.kind = "buy" -> @ + tx.amt
                                               [] tx.kind = "sell" -> @ - tx.amt
                                               [] OTHER -> @]
            /\ bought' = IF tx.kind = "buy" THEN bought \cup {tx.gen} ELSE bought
    BY <1>3 DEF MineOk, MineFails, Txs
<1> HIDE DEF tx
\* The wallet loses no more than the sell that was mined.
<1>6. ASSUME NEW k \in Tokens PROVE bal'[k] \in Nat /\ bal[k] <= bal'[k] + Sells(tx, k)
    <2>1. bal[k] \in Nat /\ Sells(tx, k) \in Nat
        BY <1>1, <1>4
    <2>2. CASE tx.kind = "sell" /\ tx.tok = k
        BY <1>1, <1>5, <2>1, <2>2 DEF Sells, SellValid
    <2>3. CASE ~(tx.kind = "sell" /\ tx.tok = k)
        BY <1>1, <1>5, <2>1, <2>3
    <2>4. QED
        BY <2>2, <2>3
<1>7. OversellNeedsSlowOrLanded'
    <2>1. SUFFICES ASSUME NEW k \in Tokens, k \notin slowSold \cup landed
                   PROVE  inflight'[k] <= bal'[k]
        BY <1>2 DEF OversellNeedsSlowOrLanded
    <2>2. inflight[k] <= bal[k] /\ inflight[k] \in Nat /\ bal[k] \in Nat
        BY <1>1, <2>1 DEF OversellNeedsSlowOrLanded
    <2>3. QED
        BY <1>4, <1>6, <2>2
<1>8. SellsBeforeBuy'
    <2>1. SUFFICES ASSUME NEW k \in Clean, NEW g \in Gens, Unready(g, k),
                          NEW i \in 1..Len(mempool'), IsSell(i, k)'
                   PROVE  /\ g \notin bought'
                          /\ \A j \in 1..Len(mempool') : IsBuy(j, g)' => i < j
        BY <1>2 DEF SellsBeforeBuy, Unready, Made
    <2>2. i + 1 \in 1..Len(mempool) /\ IsSell(i + 1, k)
        BY <1>3, <2>1 DEF IsSell
    <2>3. /\ g \notin bought
          /\ \A j \in 1..Len(mempool) : IsBuy(j, g) => i + 1 < j
        BY <1>1, <2>1, <2>2 DEF SellsBeforeBuy
    <2>4. ~IsBuy(1, g)
        BY <1>3, <2>2, <2>3
    <2>5. g \notin bought'
        BY <1>3, <1>5, <2>3, <2>4 DEF IsBuy
    <2>6. ASSUME NEW j \in 1..Len(mempool'), IsBuy(j, g)' PROVE i < j
        <3>1. j + 1 \in 1..Len(mempool) /\ IsBuy(j + 1, g)
            BY <1>3, <2>6 DEF IsBuy
        <3>2. i + 1 < j + 1
            BY <2>3, <3>1
        <3>3. QED
            BY <3>2
    <2>7. QED
        BY <2>5, <2>6
<1>9. ReadIsThere'
    <2>1. SUFFICES ASSUME NEW g \in Gens, bg[g].pc = "store", bg[g].tok \in Clean
                   PROVE  bg[g].read <= bal'[bg[g].tok]
        BY <1>2 DEF ReadIsThere
    <2>2. bg[g].tok \in Tokens /\ bg[g].read <= bal[bg[g].tok] /\ bg[g].read \in Nat
        BY <1>1, <2>1, TypeParts DEF ReadIsThere, Clean, BgTasks
    <2>3. Sells(tx, bg[g].tok) = 0
        BY <1>3, <2>1, FinalisingIsQuiet DEF Sells, IsSell
    <2>4. bal[bg[g].tok] \in Nat
        BY <1>1, <2>2
    <2>5. QED
        BY <1>6, <2>2, <2>3, <2>4
<1>10. Covered'
    <2>1. SUFFICES ASSUME NEW k \in Clean
                   PROVE  /\ positions[k] # None =>
                                \/ inflight'[k] + entry[positions[k]].amt <= bal'[k]
                                \/ \E x \in Exiters : exiter[x].pc = "update" /\ exiter[x].tok = k
                          /\ \A x \in Exiters : exiter[x].pc = "update" /\ exiter[x].tok = k =>
                                inflight'[k] + (exiter[x].our - exiter[x].amt) <= bal'[k]
        BY <1>2 DEF Covered
    <2>2. k \in Tokens /\ inflight[k] \in Nat /\ bal[k] \in Nat
        BY <1>1 DEF Clean
    <2>3. ASSUME NEW m \in Int, inflight[k] + m <= bal[k] PROVE inflight'[k] + m <= bal'[k]
        BY <1>4, <1>6, <2>2, <2>3
    <2>4. \A x \in Exiters : exiter[x].our - exiter[x].amt \in Int
        BY <1>1 DEF ExitTasks
    <2>5. positions[k] # None => entry[positions[k]].amt \in Int
        BY <1>1, <2>2 DEF Entries
    <2>6. QED
        BY <1>1, <2>3, <2>4, <2>5 DEF Covered
<1>11. QED
    BY <1>7, <1>8, <1>9, <1>10 DEF Wallet

LEMMA NextWallet ==
    ASSUME Base, Cache, Wallet, [Next]_levars
    PROVE  Wallet'
<1>1. CASE MineOk \/ MineFails
    BY <1>1, MineWallet
<1>2. CASE \E k \in Tokens : Graduate(k)
    BY <1>2 DEF Graduate, procvars, histvars, Wallet, SellsBeforeBuy, ReadIsThere, Covered,
                OversellNeedsSlowOrLanded, Clean, Unready, Made, IsSell, IsBuy
<1>3. CASE Crash
    <2>1. /\ positions' = [k \in Tokens |-> None]
          /\ buyer' = [b \in Buyers |-> NoBuy]
          /\ exiter' = [x \in Exiters |-> NoExit]
          /\ bg' = [g \in Gens |-> NoBg]
          /\ UNCHANGED <<bal, inflight, slowSold, landed>>
        BY <1>3 DEF Crash, chainvars
    <2>2. \A g \in Gens, k \in Clean' : ~Unready(g, k)'
        BY <2>1, GensFacts DEF Unready, Made, Clean, NoBuy
    <2>3. SellsBeforeBuy'
        BY <2>2 DEF SellsBeforeBuy
    <2>4. ReadIsThere' /\ Covered'
        BY <2>1 DEF ReadIsThere, Covered, Clean, NoBg, NoExit
    <2>5. OversellNeedsSlowOrLanded'
        BY <2>1 DEF Wallet, OversellNeedsSlowOrLanded
    <2>6. QED
        BY <2>3, <2>4, <2>5 DEF Wallet
<1>4. CASE UNCHANGED levars
    BY <1>4 DEF levars, procvars, chainvars, histvars, Wallet, SellsBeforeBuy, ReadIsThere,
                Covered, OversellNeedsSlowOrLanded, Clean, Unready, Made, IsSell, IsBuy
<1>5. QED
    BY <1>1, <1>2, <1>3, <1>4, BuyerWallet, BgWallet, ExitWallet, NextSteps DEF ChainStep

---------------------------------------------------------------------------
(* The fifth layer: the open-position counter.                             *)

\* One buyer at most is between counting its position and filing it.
LEMMA RecordingIs ==
    ASSUME NEW b \in Buyers
    PROVE  /\ Recording = IF buyer[b].pc = "record" THEN {b} ELSE {}
           /\ Recording' = IF buyer'[b].pc = "record" THEN {b} ELSE {}
BY TasksAssumption DEF Recording

LEMMA CountedSets ==
    /\ IsFiniteSet(HeldTokens) /\ Cardinality(HeldTokens) \in Nat
    /\ IsFiniteSet(Recording) /\ Cardinality(Recording) \in Nat
    /\ IsFiniteSet(Closing) /\ Cardinality(Closing) \in Nat
    /\ IsFiniteSet(Misread) /\ Cardinality(Misread) \in Nat
<1>1. IsFiniteSet(Gens)
    BY FS_Interval, ConstantsAssumption DEF Gens
<1>2. HeldTokens \subseteq Tokens /\ Closing \subseteq Tokens /\ Misread \subseteq Gens
    BY DEF HeldTokens, Closing, Misread
<1>3. IsFiniteSet(Recording)
    <2>1. CASE Recording = {}
        BY <2>1, FS_EmptySet
    <2>2. CASE \E b \in Buyers : Recording = {b}
        BY <2>2, FS_Singleton
    <2>3. QED
        BY <2>1, <2>2, RecordingIs DEF Recording
<1>4. IsFiniteSet(HeldTokens) /\ IsFiniteSet(Closing) /\ IsFiniteSet(Misread)
    BY <1>1, <1>2, TasksAssumption, FS_Subset
<1>5. QED
    BY <1>3, <1>4, FS_CardinalityType

\* A step that changes none of the four sets nor the counters.
LEMMA CountKept ==
    ASSUME OpenBounds, TrailHalves, UNCHANGED <<setting, open_count, halved>>,
           slowSold \subseteq slowSold',
           HeldTokens' = HeldTokens, Recording' = Recording,
           Closing' = Closing, Misread' = Misread
    PROVE  OpenBounds' /\ TrailHalves'
BY DEF OpenBounds, TrailHalves, Accounted, TrailActive, Broadcasting

\* Which entries are held and which were misread depends on the map, the entries and
\* what the finalisers read.
LEMMA SetsKept ==
    ASSUME UNCHANGED <<positions, entry, bg>>
    PROVE  HeldTokens' = HeldTokens /\ Misread' = Misread
BY DEF HeldTokens, Held, Misread, FullyExited

LEMMA ClosingKept ==
    ASSUME UNCHANGED exiter
    PROVE  Closing' = Closing
BY DEF Closing

LEMMA FilledKept ==
    ASSUME FilledByRead, UNCHANGED <<entry, bg>>, slowSold \subseteq slowSold'
    PROVE  FilledByRead'
BY DEF FilledByRead

LEMMA InitCounter == Init => Counter
<1> SUFFICES ASSUME Init PROVE Counter
    OBVIOUS
<1>1. FilledByRead
    BY DEF Init, FilledByRead, NoEntry, NoBg
<1>2. HeldTokens = {} /\ Recording = {} /\ Closing = {} /\ Misread = {}
    BY DEF Init, HeldTokens, Held, Recording, Closing, Misread, FullyExited, NoEntry, NoBuy,
           NoExit
<1>3. open_count = 0 /\ halved = 0 /\ Accounted = 0
    BY <1>2, FS_EmptySet DEF Init, Accounted
<1>4. OpenBounds /\ TrailHalves
    BY <1>3 DEF OpenBounds, TrailHalves
<1>5. QED
    BY <1>1, <1>4 DEF Counter

LEMMA BuyerCounter ==
    ASSUME Base, Cache, TrailOnly, Counter, NEW b \in Buyers, BuyerStep(b)
    PROVE  Counter'
<1>1. /\ TypeOK /\ TaskTokens /\ ClearIsEmpty
      /\ FilledByRead /\ OpenBounds /\ TrailHalves
      /\ positions \in [Tokens -> Gens \cup {None}]
      /\ open_count \in Nat /\ halved \in Nat
    BY DEF Base, Shape, Cache, Counter, TypeOK
<1>2. UNCHANGED <<slowSold, setting, halved, exiter>>
    BY BuyerFrame
<1>3. Closing' = Closing
    BY <1>2, ClosingKept
<1>4. CASE BuyRecord(b)
    <2> DEFINE g == buyer[b].gen
    <2>0. PICK k \in Tokens : k = buyer[b].tok
        BY <1>4, RecordFacts
    <2>1. /\ g \in Gens /\ k \in Tokens
          /\ bg[g] = NoBg /\ entry[g] = NoEntry
          /\ positions[k] = None
          /\ positions'[k] = g
          /\ \A j \in Tokens : j # k => positions'[j] = positions[j]
          /\ bg'[g] = [pc |-> "poll", tok |-> k, read |-> 0]
          /\ entry'[g].amt = 0 /\ entry'[g].approved = FALSE
          /\ \A h \in Gens : h # g => bg'[h] = bg[h] /\ entry'[h] = entry[h]
        BY <1>4, <2>0, RecordFacts
    <2>2. UNCHANGED open_count
        BY <1>4 DEF BuyRecord
    <2> HIDE DEF g
    <2>3. FilledByRead'
        BY <1>1, <1>2, <2>1 DEF FilledByRead
    <2>4. Misread' = Misread
        BY <2>1 DEF Misread, FullyExited, NoEntry
    <2>5. ASSUME NEW j \in Tokens, j # k PROVE Held(j)' <=> Held(j)
        <3>1. positions'[j] = positions[j]
            BY <2>1, <2>5
        <3>2. positions[j] # None => positions[j] \in Gens /\ positions[j] # g
            <4>1. positions[j] # None => bg[positions[j]].tok = j
                BY DEF Base, Shape, EntryOwners
            <4>2. QED
                BY <1>1, <2>1, <4>1, NamesAssumption DEF NoBg
        <3>3. QED
            BY <2>1, <3>1, <3>2 DEF Held, FullyExited
    <2>6. Held(k)' /\ ~Held(k)
        BY <2>1, GensFacts DEF Held, FullyExited
    <2>7. HeldTokens' = HeldTokens \cup {k} /\ k \notin HeldTokens
        BY <2>1, <2>5, <2>6 DEF HeldTokens
    <2>8. Cardinality(HeldTokens') = Cardinality(HeldTokens) + 1
        BY <2>7, CountedSets, FS_AddElement
    <2>9. Recording = {b} /\ Recording' = {}
        <3>1. buyer[b].pc = "record" /\ buyer'[b].pc = "idle"
            BY <1>1, <1>4, TypeParts DEF BuyRecord, NoBuy
        <3>2. QED
            BY <3>1, RecordingIs
    <2>10. Cardinality(Recording) = 1 /\ Cardinality(Recording') = 0
        BY <2>9, FS_Singleton, FS_EmptySet
    <2>11. Accounted' = Accounted
        BY <1>3, <2>4, <2>8, <2>10, CountedSets DEF Accounted
    <2>12. OpenBounds' /\ TrailHalves'
        BY <1>1, <1>2, <2>2, <2>11 DEF OpenBounds, TrailHalves, TrailActive, Broadcasting
    <2>13. QED
        BY <2>3, <2>12 DEF Counter
<1>5. CASE BuyCount(b)
    <2>1. UNCHANGED <<positions, entry, bg>> /\ open_count' = open_count + 1
        BY <1>5 DEF BuyCount
    <2>2. Recording = {} /\ Recording' = {b}
        <3>1. buyer[b].pc = "count" /\ buyer'[b].pc = "record"
            BY <1>1, <1>5, TypeParts DEF BuyCount, BuyTasks
        <3>2. QED
            BY <3>1, RecordingIs
    <2>3. Cardinality(Recording) = 0 /\ Cardinality(Recording') = 1
        BY <2>2, FS_Singleton, FS_EmptySet
    <2>4. HeldTokens' = HeldTokens /\ Misread' = Misread /\ FilledByRead'
        BY <1>1, <1>2, <2>1, SetsKept, FilledKept
    <2>5. Accounted' = Accounted + 1 /\ Accounted \in Nat
        BY <1>3, <2>3, <2>4, CountedSets DEF Accounted
    <2>6. OpenBounds' /\ TrailHalves'
        BY <1>1, <1>2, <2>1, <2>5 DEF OpenBounds, TrailHalves, TrailActive, Broadcasting
    <2>7. QED
        BY <2>4, <2>6 DEF Counter
<1>6. CASE ~BuyRecord(b) /\ ~BuyCount(b)
    <2>1. UNCHANGED <<entry, bg>>
        BY <1>6, BuyerFrame
    <2>2. FilledByRead'
        BY <1>1, <1>2, <2>1, FilledKept
    <2>3. SUFFICES ASSUME slowSold = {}, Broadcasting PROVE OpenBounds' /\ TrailHalves'
        BY <1>1, <1>2, <2>2 DEF Counter, OpenBounds, TrailHalves, TrailActive, Broadcasting
    <2>4. UNCHANGED open_count
        BY <1>6, <2>3, BuyerFrame DEF BuyShadow
    <2>5. Misread' = Misread
        BY <2>1 DEF Misread, FullyExited
    <2>6. Recording' = Recording
        <3>1. buyer[b].pc # "record" /\ buyer'[b].pc # "record"
            <4>1. CASE Begins(b) \/ Accepted(b)
                BY <4>1 DEF Begins, Accepted
            <4>2. CASE Proceeds(b, "clear", "gate") \/ Proceeds(b, "gate", "submit")
                BY <4>2 DEF Proceeds
            <4>3. CASE buyer'[b] = NoBuy /\ (BuySkip(b) \/ BuySubmit(b) \/ BuyShadow(b))
                BY <4>3 DEF NoBuy, BuySkip, BuySubmit, BuyShadow
            <4>4. QED
                BY <1>1, <1>6, <4>1, <4>2, <4>3, BuyerMoves
        <3>2. QED
            BY <3>1, RecordingIs
    <2>7. ASSUME NEW j \in Tokens PROVE Held(j)' <=> Held(j)
        <3>1. CASE BuyClear(b)
            <4>1. buyer[b].pc = "clear" /\ buyer[b].tok \in Tokens
                BY <1>1, <3>1 DEF BuyClear, TaskTokens
            <4>2. FullyExited(entry[positions[buyer[b].tok]])
                BY <1>1, <2>3, <4>1 DEF ClearIsEmpty
            <4>3. positions'[j] = IF j = buyer[b].tok THEN None ELSE positions[j]
                BY <1>1, <3>1, <4>1 DEF BuyClear
            <4>4. QED
                BY <2>1, <4>2, <4>3 DEF Held, FullyExited
        <3>2. CASE UNCHANGED positions
            BY <2>1, <3>2 DEF Held, FullyExited
        <3>3. QED
            BY <1>6, <3>1, <3>2, BuyerFrame
    <2>8. HeldTokens' = HeldTokens
        BY <2>7 DEF HeldTokens
    <2>9. QED
        BY <1>1, <1>2, <1>3, <2>4, <2>5, <2>6, <2>8, CountKept
<1>7. QED
    BY <1>4, <1>5, <1>6

LEMMA BgCounter ==
    ASSUME Base, Cache, TrailOnly, Counter, NEW g \in Gens, BgStep(g)
    PROVE  Counter'
<1>1. /\ TypeOK /\ TaskTokens /\ EntryOwners /\ NoEntryOrphaned
      /\ FilledByRead /\ OpenBounds /\ TrailHalves
      /\ positions \in [Tokens -> Gens \cup {None}]
      /\ bg \in [Gens -> BgTasks] /\ entry \in [Gens -> Entries]
    <2>1. TypeOK
        BY DEF Base
    <2>2. positions \in [Tokens -> Gens \cup {None}]
        BY <2>1 DEF TypeOK
    <2>3. QED
        BY <2>1, <2>2, TypeParts DEF Base, Shape, Cache, Counter
<1>2. /\ UNCHANGED <<positions, open_count, setting, slowSold, halved, buyer, exiter>>
      /\ \A h \in Gens : h # g => bg'[h] = bg[h] /\ entry'[h] = entry[h]
      /\ bg[g].pc \notin {"none", "done"}
      /\ bg'[g].tok = bg[g].tok
      /\ BgConfirm(g) \/ entry'[g].approved = entry[g].approved
    BY <1>1, BgFrame
<1>3. ~entry[g].approved
    BY <1>1, <1>2 DEF EntryOwners
<1>4. Recording' = Recording /\ Closing' = Closing
    BY <1>2 DEF Recording, Closing
<1>5. FilledByRead'
    <2>1. SUFFICES ASSUME bg[g].tok \notin slowSold
                   PROVE  /\ entry'[g].amt > 0 => bg'[g].read > 0
                          /\ bg'[g].pc \in {"approve", "confirm"} => entry'[g].amt = bg'[g].read
                          /\ bg'[g].pc \in {"none", "poll", "read", "store"} => entry'[g].amt = 0
        BY <1>1, <1>2 DEF FilledByRead
    <2>2. /\ entry[g].amt > 0 => bg[g].read > 0
          /\ bg[g].pc \in {"approve", "confirm"} => entry[g].amt = bg[g].read
          /\ bg[g].pc \in {"none", "poll", "read", "store"} => entry[g].amt = 0
        BY <1>1, <2>1 DEF FilledByRead
    <2>3. bg[g].read \in Nat /\ entry[g].amt \in Nat
        BY <1>1 DEF BgTasks, Entries
    <2>4. CASE BgStore(g)
        <3>1. /\ bg[g].pc = "store"
              /\ entry'[g].amt = IF bg[g].read # 0 THEN bg[g].read ELSE entry[g].amt
              /\ bg'[g].pc \in {"approve", "done"} /\ bg'[g].read = bg[g].read
            BY <1>1, <2>4 DEF BgStore, BgTasks, Entries
        <3>2. QED
            BY <2>2, <2>3, <3>1
    <2>5. CASE BgReadBalance(g)
        <3>1. bg[g].pc = "read" /\ bg'[g].pc = "store" /\ entry'[g].amt = entry[g].amt
            BY <1>1, <2>5 DEF BgReadBalance, BgTasks
        <3>2. QED
            BY <2>2, <3>1
    <2>6. CASE BgReceipt(g) \/ BgGivesUp(g) \/ BgApprove(g) \/ BgConfirm(g)
        <3>1. /\ entry'[g].amt = entry[g].amt /\ bg'[g].read = bg[g].read
              /\ \/ bg'[g].pc = "done"
                 \/ bg[g].pc = "poll" /\ bg'[g].pc = "read"
                 \/ bg[g].pc = "approve" /\ bg'[g].pc = "confirm"
            BY <1>1, <2>6 DEF BgReceipt, BgGivesUp, BgApprove, BgConfirm, BgTasks, Entries
        <3>2. QED
            BY <2>2, <3>1
    <2>7. QED
        BY <2>4, <2>5, <2>6 DEF BgStep
<1>6. CASE entry'[g].approved = entry[g].approved
    <2>1. Misread' = Misread
        BY <1>2, <1>3, <1>6 DEF Misread, FullyExited
    <2>2. \A j \in Tokens : Held(j)' <=> Held(j)
        BY <1>1, <1>2, <1>3, <1>6 DEF Held, FullyExited
    <2>3. HeldTokens' = HeldTokens
        BY <2>2 DEF HeldTokens
    <2>4. OpenBounds' /\ TrailHalves'
        BY <1>1, <1>2, <1>4, <2>1, <2>3, CountKept
    <2>5. QED
        BY <1>5, <2>4 DEF Counter
<1>7. CASE BgConfirm(g)
    <2>1. SUFFICES ASSUME slowSold = {}, Broadcasting PROVE OpenBounds' /\ TrailHalves'
        BY <1>1, <1>2, <1>5 DEF Counter, OpenBounds, TrailHalves, TrailActive, Broadcasting
    <2>2. /\ bg[g].pc = "confirm"
          /\ entry'[g].approved /\ entry'[g].amt = entry[g].amt
          /\ bg'[g].read = bg[g].read
        BY <1>1, <1>7 DEF BgConfirm, BgTasks, Entries
    <2>3. PICK k \in Tokens : positions[k] = g
        BY <1>1, <2>1, <2>2 DEF NoEntryOrphaned, TaskTokens
    <2>4. entry[g].amt = bg[g].read
        BY <1>1, <2>1, <2>2 DEF FilledByRead
    <2>5. \A j \in Tokens : j # k => (Held(j)' <=> Held(j))
        <3>1. \A j \in Tokens : j # k => positions[j] # g
            BY <2>3, MapInjective, GensFacts
        <3>2. QED
            BY <1>1, <1>2, <3>1 DEF Held, FullyExited
    <2>6. Held(k) /\ g \notin Misread
        BY <1>3, <2>3, GensFacts DEF Held, FullyExited, Misread
    <2>7. CASE entry[g].amt # 0
        <3>1. Held(k)' /\ g \notin Misread'
            BY <1>2, <2>2, <2>3, <2>7, GensFacts DEF Held, FullyExited, Misread
        <3>2. HeldTokens' = HeldTokens
            BY <2>5, <2>6, <3>1 DEF HeldTokens
        <3>3. Misread' = Misread
            BY <1>2, <2>6, <3>1 DEF Misread, FullyExited
        <3>4. QED
            BY <1>1, <1>2, <1>4, <3>2, <3>3, CountKept
    <2>8. CASE entry[g].amt = 0
        <3>1. ~Held(k)' /\ g \in Misread'
            BY <1>2, <2>2, <2>3, <2>4, <2>8 DEF Held, FullyExited, Misread
        <3>2. HeldTokens' = HeldTokens \ {k} /\ k \in HeldTokens
            BY <2>3, <2>5, <2>6, <3>1 DEF HeldTokens
        <3>3. Misread' = Misread \cup {g}
            BY <1>2, <3>1 DEF Misread, FullyExited
        <3>4. Cardinality(HeldTokens') = Cardinality(HeldTokens) - 1
            BY <3>2, CountedSets, FS_RemoveElement
        <3>5. Cardinality(Misread') = Cardinality(Misread) + 1
            BY <2>6, <3>3, CountedSets, FS_AddElement
        <3>6. Accounted' = Accounted
            BY <1>4, <3>4, <3>5, CountedSets DEF Accounted
        <3>7. QED
            BY <1>1, <1>2, <3>6 DEF OpenBounds, TrailHalves, TrailActive, Broadcasting
    <2>9. QED
        BY <2>7, <2>8
<1>8. QED
    BY <1>2, <1>6, <1>7

\* Only the write-back and the count are next to the place between the two.
LEMMA ClosingFrame ==
    ASSUME Base, NEW x \in Exiters, ExitStep(x), ~ExitUpdate(x), ~ExitCount(x)
    PROVE  Closing' = Closing
<1>1. TypeOK /\ \A y \in Exiters : y # x => exiter'[y] = exiter[y]
    BY ExitFrame DEF Base
<1>2. ASSUME Returns(x) PROVE exiter'[x].pc = "idle"
    BY <1>1, <1>2, ExitDoneFrame DEF Returns, NoExit
<1>3. exiter[x].pc # "count" /\ exiter'[x].pc # "count"
    <2>1. CASE Called(x) \/ Acquired(x) \/ GoesOn(x)
        BY <2>1 DEF Called, Acquired, GoesOn
    <2>2. CASE ExitReadCache(x) /\ (TakesFast(x) \/ TakesSlow(x) \/ Returns(x))
        BY <1>2, <2>2 DEF ExitReadCache, TakesFast, TakesSlow
    <2>3. CASE ExitReadBalance(x) /\ (Sizes(x) \/ Returns(x))
        BY <1>2, <2>3 DEF ExitReadBalance, Sizes
    <2>4. CASE Returns(x) /\ (ExitApprove(x) \/ ExitSubmit(x) \/ ExitShadow(x))
        BY <1>2, <2>4 DEF ExitApprove, ExitSubmit, ExitShadow
    <2>5. QED
        BY <1>1, <2>1, <2>2, <2>3, <2>4, ExitMoves
<1>4. QED
    BY <1>1, <1>3 DEF Closing

\* A full close that was written back and is now counted.
LEMMA ClosingCounted ==
    ASSUME Base, NEW x \in Exiters, ExitCount(x), exiter[x].full
    PROVE  Closing' = Closing \ {exiter[x].tok} /\ exiter[x].tok \in Closing
<1>1. exiter[x].pc = "count" /\ ExitDone(x)
    BY DEF ExitCount
<1>2. exiter[x].tok \in Tokens
    BY <1>1 DEF Base, Shape, TaskTokens
<1>3. /\ exiter'[x].pc = "idle"
      /\ \A y \in Exiters : y # x => exiter'[y] = exiter[y]
    BY <1>1, ExitDoneFrame DEF NoExit, Base
<1>4. \A y \in Exiters : exiter[y].pc = "count" /\ exiter[y].tok = exiter[x].tok => y = x
    BY <1>1, LockExclusive DEF Locked
<1>5. QED
    BY <1>1, <1>2, <1>3, <1>4 DEF Closing

LEMMA ExitCounter ==
    ASSUME Base, Cache, TrailOnly, Counter, NEW x \in Exiters, ExitStep(x)
    PROVE  Counter'
<1>1. /\ TypeOK /\ FastExitStaysValid /\ TrailExits /\ ExitPlan
      /\ FilledByRead /\ OpenBounds /\ TrailHalves
      /\ open_count \in Nat /\ halved \in Nat
      /\ positions \in [Tokens -> Gens \cup {None}]
    BY DEF Base, Shape, Cache, TrailOnly, Counter, TypeOK
<1>2. UNCHANGED <<positions, bg, buyer, setting>>
    BY <1>1, ExitFrame
<1>3. Recording' = Recording
    BY <1>2 DEF Recording
<1>4. slowSold \subseteq slowSold'
    <2>1. CASE ExitSubmit(x)
        BY <2>1 DEF ExitSubmit
    <2>2. QED
        BY <1>1, <2>1, ExitFrame
<1>5. CASE ~ExitUpdate(x) /\ ~ExitCount(x)
    <2>1. UNCHANGED <<entry, halved>>
        BY <1>1, <1>5, ExitFrame
    <2>2. FilledByRead' /\ Misread' = Misread /\ HeldTokens' = HeldTokens
        BY <1>1, <1>2, <1>4, <2>1, FilledKept, SetsKept
    <2>3. Broadcasting => UNCHANGED open_count
        BY <1>1, <1>5, ExitFrame DEF ExitShadow
    <2>4. Closing' = Closing
        BY <1>5, ClosingFrame
    <2>5. OpenBounds' /\ TrailHalves'
        <3>1. CASE Broadcasting
            BY <1>1, <1>2, <1>3, <1>4, <2>1, <2>2, <2>3, <2>4, <3>1, CountKept
        <3>2. CASE ~Broadcasting
            BY <1>1, <1>2, <2>1, <3>2 DEF OpenBounds, TrailHalves, TrailActive, Broadcasting
        <3>3. QED
            BY <3>1, <3>2
    <2>6. QED
        BY <2>2, <2>5 DEF Counter
<1>6. CASE ExitUpdate(x)
    <2> DEFINE p == positions[exiter[x].tok]
    <2>0. PICK k \in Tokens : k = exiter[x].tok
        BY <1>6, UpdateFacts
    <2>1. /\ UNCHANGED <<open_count, halved, slowSold>>
          /\ \A y \in Exiters : y # x => exiter'[y] = exiter[y]
        BY <1>1, <1>6, ExitFrame DEF ExitUpdate, histvars
    <2>2. /\ exiter[x].pc = "update"
          /\ WritesBack(x)
          /\ \A h \in Gens : h # p => entry'[h] = entry[h]
          /\ \A h \in Gens : entry'[h].approved = entry[h].approved
          /\ p # None => entry'[p].amt = IF exiter[x].full THEN 0
                                         ELSE exiter[x].our - exiter[x].amt
        BY <1>6, UpdateFacts
    <2>3. CASE k \in slowSold
        <3>1. OpenBounds' /\ TrailHalves'
            BY <1>1, <1>2, <2>1, <2>3 DEF OpenBounds, TrailHalves, TrailActive, Broadcasting
        <3>2. p # None => bg[p].tok = k
            BY <2>0 DEF Base, Shape, EntryOwners
        <3>3. FilledByRead'
            BY <1>1, <1>2, <2>0, <2>1, <2>2, <2>3, <3>2, GensFacts DEF FilledByRead
        <3>4. QED
            BY <3>1, <3>3 DEF Counter
    <2>4. CASE k \notin slowSold
        <3>1. exiter[x].fast
            BY <1>1, <2>0, <2>2, <2>4 DEF ExitPlan
        <3>2. p = exiter[x].gen /\ entry[p].amt = exiter[x].our
            BY <1>1, <2>0, <2>4, <3>1 DEF FastExitStaysValid
        <3>3. /\ p \in Gens /\ entry[p].approved /\ bg[p].pc = "done" /\ bg[p].tok = k
              /\ entry[p].amt \in Nat /\ entry[p].amt > 0
              /\ exiter[x].amt \in Nat /\ exiter[x].our \in Nat
              /\ ~exiter[x].full => exiter[x].amt < exiter[x].our
            BY <1>1, <2>0, <2>2, <3>1, <3>2, FastFacts DEF ExitPlan
        <3>4. bg[p].read > 0
            BY <1>1, <2>4, <3>3 DEF FilledByRead
        <3>5. entry'[p].amt = IF exiter[x].full THEN 0 ELSE exiter[x].our - exiter[x].amt
            BY <2>2, <3>3, GensFacts
        <3>6. \A j \in Tokens : j # k /\ positions[j] # None => positions[j] # p
            BY <2>0, MapInjective
        <3>7. positions[k] = p
            BY <2>0
        <3> HIDE DEF p
        <3>8. FilledByRead'
            BY <1>1, <1>2, <2>1, <2>2, <3>3, <3>4 DEF FilledByRead
        <3>9. Misread' = Misread
            BY <1>2, <2>2, <3>4 DEF Misread, FullyExited
        <3>10. \A j \in Tokens : j # k => (Held(j)' <=> Held(j))
            BY <1>1, <1>2, <2>2, <3>6 DEF Held, FullyExited
        <3>11. Held(k)
            BY <3>3, <3>7, GensFacts DEF Held, FullyExited
        <3>12. /\ exiter'[x].pc = "count" /\ exiter'[x].tok = k
               /\ exiter'[x].full = exiter[x].full
            BY <2>0, <2>2 DEF WritesBack
        <3>13. CASE exiter[x].full
            <4>1. ~Held(k)'
                BY <1>2, <2>2, <3>3, <3>5, <3>7, <3>13 DEF Held, FullyExited
            <4>2. HeldTokens' = HeldTokens \ {k} /\ k \in HeldTokens
                BY <2>0, <3>10, <3>11, <4>1 DEF HeldTokens
            <4>3. k \notin Closing
                <5>1. \A y \in Exiters : exiter[y].pc = "count" /\ exiter[y].tok = k => y = x
                    BY <2>0, <2>2, LockExclusive DEF Locked
                <5>2. QED
                    BY <2>2, <5>1 DEF Closing
            <4>4. Closing' = Closing \cup {k}
                BY <2>0, <2>1, <2>2, <3>12, <3>13 DEF Closing
            <4>5. Cardinality(HeldTokens') = Cardinality(HeldTokens) - 1
                BY <4>2, CountedSets, FS_RemoveElement
            <4>6. Cardinality(Closing') = Cardinality(Closing) + 1
                BY <4>3, <4>4, CountedSets, FS_AddElement
            <4>7. Accounted' = Accounted
                BY <1>3, <3>9, <4>5, <4>6, CountedSets DEF Accounted
            <4>8. OpenBounds' /\ TrailHalves'
                BY <1>1, <1>2, <2>1, <4>7
                DEF OpenBounds, TrailHalves, TrailActive, Broadcasting
            <4>9. QED
                BY <3>8, <4>8 DEF Counter
        <3>14. CASE ~exiter[x].full
            <4>1. entry'[p].amt # 0
                BY <3>3, <3>5, <3>14
            <4>2. Held(k)'
                BY <1>2, <3>3, <3>7, <4>1, GensFacts DEF Held, FullyExited
            <4>3. HeldTokens' = HeldTokens
                BY <2>0, <3>10, <3>11, <4>2 DEF HeldTokens
            <4>4. Closing' = Closing
                BY <2>1, <2>2, <3>12, <3>14 DEF Closing
            <4>5. OpenBounds' /\ TrailHalves'
                BY <1>1, <1>2, <1>3, <2>1, <3>9, <4>3, <4>4, CountKept
            <4>6. QED
                BY <3>8, <4>5 DEF Counter
        <3>15. QED
            BY <3>13, <3>14
    <2>5. QED
        BY <2>3, <2>4
<1>7. CASE ExitCount(x)
    <2>1. /\ UNCHANGED <<entry, slowSold>>
          /\ open_count' = IF open_count = 0 THEN 0 ELSE open_count - 1
          /\ halved' = IF exiter[x].full THEN halved ELSE halved + 1
          /\ exiter[x].pc = "count"
        BY <1>7 DEF ExitCount, RecordClosed
    <2>2. FilledByRead' /\ Misread' = Misread /\ HeldTokens' = HeldTokens
        BY <1>1, <1>2, <1>4, <2>1, FilledKept, SetsKept
    <2>3. CASE exiter[x].full
        <3> DEFINE k == exiter[x].tok
        <3>1. Closing' = Closing \ {k} /\ k \in Closing
            BY <1>7, <2>3, ClosingCounted
        <3> HIDE DEF k
        <3>2. Cardinality(Closing') = Cardinality(Closing) - 1
            BY <3>1, CountedSets, FS_RemoveElement
        <3>3. Cardinality(Closing) # 0
            BY <3>1, CountedSets, FS_EmptySet
        <3>4. Accounted' = Accounted - 1 /\ Accounted \in Nat /\ Accounted # 0
            BY <1>3, <2>2, <3>2, <3>3, CountedSets DEF Accounted
        <3>5. OpenBounds' /\ TrailHalves'
            BY <1>1, <1>2, <2>1, <2>3, <3>4
            DEF OpenBounds, TrailHalves, TrailActive, Broadcasting
        <3>6. QED
            BY <2>2, <3>5 DEF Counter
    <2>4. CASE ~exiter[x].full
        <3>1. ~TrailActive
            BY <1>1, <2>1, <2>4 DEF TrailExits
        <3>2. Closing' = Closing
            <4>1. /\ exiter'[x].pc = "idle"
                  /\ \A y \in Exiters : y # x => exiter'[y] = exiter[y]
                BY <1>1, <1>7, ExitDoneFrame DEF ExitCount, NoExit
            <4>2. QED
                BY <2>4, <4>1 DEF Closing
        <3>3. Accounted' = Accounted /\ Accounted \in Nat
            BY <1>3, <2>2, <3>2, CountedSets DEF Accounted
        <3>4. OpenBounds' /\ TrailHalves'
            BY <1>1, <1>2, <2>1, <2>4, <3>1, <3>3
            DEF OpenBounds, TrailHalves, TrailActive, Broadcasting
        <3>5. QED
            BY <2>2, <3>4 DEF Counter
    <2>5. QED
        BY <2>3, <2>4
<1>8. QED
    BY <1>5, <1>6, <1>7

LEMMA NextCounter ==
    ASSUME Base, Cache, TrailOnly, Counter, [Next]_levars
    PROVE  Counter'
<1>1. CASE ChainStep \/ UNCHANGED levars
    <2>1. UNCHANGED <<procvars, setting, slowSold, halved>>
        BY <1>1, ChainFrame DEF levars, histvars
    <2>2. /\ UNCHANGED <<positions, entry, bg, buyer, exiter, open_count, setting, halved>>
          /\ slowSold \subseteq slowSold'
        BY <2>1 DEF procvars
    <2>3. Misread' = Misread /\ HeldTokens' = HeldTokens /\ Closing' = Closing
        BY <2>2, SetsKept, ClosingKept
    <2>4. Recording' = Recording
        BY <2>2 DEF Recording
    <2>5. FilledByRead' /\ OpenBounds' /\ TrailHalves'
        BY <2>2, <2>3, <2>4, CountKept, FilledKept DEF Counter
    <2>6. QED
        BY <2>5 DEF Counter
<1>2. CASE Crash
    <2>1. /\ positions' = [k \in Tokens |-> None]
          /\ entry' = [g \in Gens |-> NoEntry]
          /\ bg' = [g \in Gens |-> NoBg]
          /\ buyer' = [b \in Buyers |-> NoBuy]
          /\ exiter' = [x \in Exiters |-> NoExit]
          /\ open_count' = 0 /\ halved' = 0
        BY <1>2 DEF Crash
    <2>2. FilledByRead'
        BY <2>1 DEF FilledByRead, NoEntry, NoBg
    <2>3. HeldTokens' = {} /\ Misread' = {} /\ Recording' = {} /\ Closing' = {}
        BY <2>1 DEF HeldTokens, Held, Misread, Recording, Closing, FullyExited, NoEntry, NoBuy,
                    NoExit
    <2>4. Accounted' = 0
        BY <2>3, FS_EmptySet DEF Accounted
    <2>5. OpenBounds' /\ TrailHalves'
        BY <2>1, <2>4 DEF OpenBounds, TrailHalves
    <2>6. QED
        BY <2>2, <2>5 DEF Counter
<1>3. QED
    BY <1>1, <1>2, BuyerCounter, BgCounter, ExitCounter, NextSteps

---------------------------------------------------------------------------
(* What the layers add up to.                                              *)

Inv == Base /\ Cache /\ TrailOnly /\ Wallet /\ Counter

LEMMA Inductive ==
    /\ Init => Inv
    /\ Inv /\ [Next]_levars => Inv'
<1>1. Init => Inv
    BY InitType, InitFlow, InitShape, InitCache, InitTrail, InitWallet, InitCounter DEF Inv, Base
<1>2. Inv /\ [Next]_levars => Inv'
    BY NextBase, NextCache, NextTrail, NextWallet, NextCounter DEF Inv
<1>3. QED
    BY <1>1, <1>2

\* The five layers together are an invariant of the executor (executor_live.rs with
\* live_ledger.rs), for every value of the constants.
THEOREM Invariance == Spec => []Inv
BY Inductive, PTL DEF Spec

\* executor_live.rs, execute_exit: from the read of the cache to the write-back no
\* finaliser, buyer or other exit touches the entry a fast-path exit works from, as
\* long as no slow-path exit sold the token; for any number of tasks and buys.
THEOREM FastExitsStayValid == Spec => []FastExitStaysValid
<1>1. Inv => FastExitStaysValid
    BY DEF Inv, Cache
<1>2. QED
    BY <1>1, Invariance, PTL

\* executor_live.rs, execute: the duplicate-entry guard never lets a later buy remove
\* or replace an entry that is being finalised or still has tokens.
THEOREM EntriesStayInTheMap == Spec => []NoEntryOrphaned
<1>1. Inv => NoEntryOrphaned
    BY DEF Inv, Cache
<1>2. QED
    BY <1>1, Invariance, PTL

\* adaptive_trail.rs, process_one_position with executor_live.rs, execute_exit: an
\* entry the trail saw ready is still ready when its exit gets the lock, so that no
\* sell the trail asks for is sized from a balance.
THEOREM TrailSellsFromTheCache == Spec => []TrailNeverSlow
<1>1. Inv => TrailNeverSlow
    BY DEF Inv, TrailOnly
<1>2. QED
    BY <1>1, Invariance, PTL

\* executor_live.rs: the pending sells of a token never exceed what the wallet holds,
\* unless one of them was sized from a balance or was mined though reported refused.
THEOREM NoOversell == Spec => []OversellNeedsSlowOrLanded
<1>1. Inv => OversellNeedsSlowOrLanded
    BY DEF Inv, Wallet
<1>2. QED
    BY <1>1, Invariance, PTL

\* live_ledger.rs, open_count, with broadcast on and as long as no sell took the slow
\* path: the counter never exceeds what it stands for (tokens held, buys counted but not
\* yet in the map, closes written back but not yet counted, balance reads that failed),
\* falls behind by at most the partial sells, and is exact when only the trail sells.
THEOREM OpenCountExact == Spec => []OpenCountIsHeld
<1>1. Inv => OpenCountIsHeld
    <2>1. SUFFICES ASSUME Inv, Broadcasting, slowSold = {}
                   PROVE  /\ open_count \in (Accounted - halved)..Accounted
                          /\ TrailActive => open_count = Accounted
        BY DEF OpenCountIsHeld
    <2>2. Accounted \in Nat
        BY CountedSets DEF Accounted
    <2>3. OpenBounds /\ TrailHalves
        BY <2>1 DEF Inv, Counter
    <2>4. QED
        BY <2>1, <2>2, <2>3 DEF OpenBounds, TrailHalves
<1>2. QED
    BY <1>1, Invariance, PTL

---------------------------------------------------------------------------
(* The contract with the trail watcher (ReadyPosition), step by step.      *)

\* What position_snapshot shows the watcher of token k; with ExitingFor the refinement
\* mapping of View(k).
Shown(k) == IF TrailActive /\ TrailSees(k) THEN positions[k] ELSE None

\* The five ways in which the executor's steps look to the watcher.
LEMMA LooksDiscarded ==
    ASSUME NEW k \in Tokens, MayGetReady' \subseteq MayGetReady,
           Shown(k)' = Shown(k), ExitingFor(k)' <=> ExitingFor(k)
    PROVE  [View(k)!Next]_(View(k)!rpvars)
<1>1. View(k)!Discard
    BY DEF View!Discard, Shown, ExitingFor
<1>2. QED
    BY <1>1 DEF View!Next

LEMMA LooksAppeared ==
    ASSUME NEW k \in Tokens, MayGetReady' \subseteq MayGetReady \ {Shown(k)'},
           Shown(k) = None, Shown(k)' \in MayGetReady, ~ExitingFor(k), ~ExitingFor(k)'
    PROVE  [View(k)!Next]_(View(k)!rpvars)
<1>1. View(k)!Appear
    BY DEF View!Appear, Shown, ExitingFor
<1>2. QED
    BY <1>1 DEF View!Next

LEMMA LooksStarted ==
    ASSUME NEW k \in Tokens, MayGetReady' = MayGetReady,
           Shown(k) # None, Shown(k)' = Shown(k), ~ExitingFor(k), ExitingFor(k)'
    PROVE  [View(k)!Next]_(View(k)!rpvars)
<1>1. View(k)!StartExit
    BY DEF View!StartExit, Shown, ExitingFor
<1>2. QED
    BY <1>1 DEF View!Next

LEMMA LooksEnded ==
    ASSUME NEW k \in Tokens, MayGetReady' = MayGetReady,
           Shown(k)' \in {Shown(k), None}, ExitingFor(k), ~ExitingFor(k)'
    PROVE  [View(k)!Next]_(View(k)!rpvars)
<1>1. View(k)!EndExit
    BY DEF View!EndExit, Shown, ExitingFor
<1>2. QED
    BY <1>1 DEF View!Next

LEMMA LooksRestarted ==
    ASSUME NEW k \in Tokens, MayGetReady' \subseteq MayGetReady,
           Shown(k)' = None, ~ExitingFor(k)'
    PROVE  [View(k)!Next]_(View(k)!rpvars)
<1>1. View(k)!Restart
    BY DEF View!Restart, Shown, ExitingFor
<1>2. QED
    BY <1>1 DEF View!Next

\* An entry that can no longer become ready never can again.
LEMMA FutureShrinks ==
    ASSUME Base, [Next]_levars
    PROVE  MayGetReady' \subseteq MayGetReady
<1>1. /\ TypeOK /\ TaskTokens /\ EntryOwners
      /\ buys \in Nat
    BY DEF Base, Shape, TypeOK
<1>2. ASSUME NEW b \in Buyers, BuyerStep(b) PROVE MayGetReady' \subseteq MayGetReady
    <2>1. \A c \in Buyers : c = b
        BY OneBuyer
    <2>2. CASE BuySubmit(b)
        <3>1. UNCHANGED bg /\ buys' = buys + 1
            BY <2>2 DEF BuySubmit
        <3>2. buyer'[b].gen \in {None, buys + 1}
            BY <1>1, <2>2, TypeParts DEF BuySubmit, NoBuy, BuyTasks
        <3>3. QED
            BY <1>1, <2>1, <3>1, <3>2, GensFacts DEF MayGetReady
    <2>3. CASE BuyRecord(b)
        <3>1. /\ UNCHANGED buys
              /\ \A h \in Gens : h # buyer[b].gen => bg'[h] = bg[h]
            BY <1>2, <2>3, RecordFacts DEF BuyRecord, histvars
        <3>2. buyer'[b].gen = None
            BY <1>1, <2>3, TypeParts DEF BuyRecord, NoBuy
        <3>3. QED
            BY <2>1, <3>1, <3>2, GensFacts DEF MayGetReady
    <2>4. CASE ~BuySubmit(b) /\ ~BuyRecord(b)
        <3>1. UNCHANGED bg /\ buys <= buys'
            BY <1>1, <1>2, <2>4, BuyerFrame DEF BuyShadow
        <3>2. buyer'[b].gen \in {None, buyer[b].gen}
            BY <1>1, <1>2, <2>4, BuyerMoves DEF Begins, Proceeds, NoBuy
        <3>3. buys' \in Nat
            BY <1>1, <1>2, <2>4, BuyerFrame DEF BuyShadow
        <3>4. QED
            BY <1>1, <2>1, <3>1, <3>2, <3>3, GensFacts DEF MayGetReady
    <2>5. QED
        BY <2>2, <2>3, <2>4
<1>3. ASSUME NEW g \in Gens, BgStep(g) PROVE MayGetReady' \subseteq MayGetReady
    <2>1. /\ UNCHANGED <<buyer, buys>>
          /\ \A h \in Gens : h # g => bg'[h] = bg[h]
          /\ bg[g].pc \notin {"none", "done"}
        BY <1>1, <1>3, BgFrame
    <2>2. QED
        BY <2>1 DEF MayGetReady
<1>4. ASSUME NEW x \in Exiters, ExitStep(x) PROVE MayGetReady' \subseteq MayGetReady
    BY <1>1, <1>4, ExitFrame DEF MayGetReady
<1>5. CASE ChainStep
    BY <1>5, ChainFrame DEF MayGetReady, procvars
<1>6. CASE Crash
    BY <1>6, GensFacts DEF Crash, MayGetReady, NoBuy, NoBg
<1>7. CASE UNCHANGED levars
    BY <1>7 DEF levars, procvars, histvars, MayGetReady
<1>8. QED
    BY <1>2, <1>3, <1>4, <1>5, <1>6, <1>7, NextSteps

LEMMA BuyerKeeps ==
    ASSUME Inv, [Next]_levars, NEW b \in Buyers, BuyerStep(b), NEW k \in Tokens
    PROVE  [View(k)!Next]_(View(k)!rpvars)
<1>1. /\ Base /\ Cache /\ TrailOnly /\ TypeOK
      /\ positions \in [Tokens -> Gens \cup {None}]
      /\ TrailActive => slowSold = {}
      /\ MayGetReady' \subseteq MayGetReady
    BY FutureShrinks DEF Inv, Base, TypeOK, TrailOnly, TrailNeverSlow
<1>2. UNCHANGED <<exiter, setting>>
    BY BuyerFrame
<1>3. ExitingFor(k)' <=> ExitingFor(k)
    BY <1>2 DEF ExitingFor, TrailActive
<1>4. Shown(k)' = Shown(k)
    <2>1. CASE ~TrailActive
        BY <1>2, <2>1 DEF Shown, TrailActive
    <2>2. CASE TrailActive
        <3>1. CASE BuyRecord(b)
            <4> DEFINE g == buyer[b].gen
                       j == buyer[b].tok
            <4>1. /\ g \in Gens /\ j \in Tokens /\ bg[g] = NoBg
                  /\ positions[j] = None /\ positions'[j] = g
                  /\ \A i \in Tokens : i # j => positions'[i] = positions[i]
                  /\ entry'[g].approved = FALSE
                  /\ \A h \in Gens : h # g => entry'[h] = entry[h]
                BY <1>1, <3>1, RecordFacts
            <4> HIDE DEF g, j
            <4>2. CASE k = j
                BY <4>1, <4>2 DEF Shown, TrailSees, Ready
            <4>3. CASE k # j
                <5>1. positions'[k] = positions[k]
                    BY <4>1, <4>3
                <5>2. positions[k] # None => bg[positions[k]].tok = k
                    BY <1>1 DEF Base, Shape, EntryOwners
                <5>3. positions[k] # None => positions[k] \in Gens /\ positions[k] # g
                    BY <1>1, <4>1, <5>2, NamesAssumption DEF NoBg
                <5>4. QED
                    BY <1>2, <4>1, <5>1, <5>3 DEF Shown, TrailSees, Ready, TrailActive
            <4>4. QED
                BY <4>2, <4>3
        <3>2. CASE BuyClear(b)
            <4>1. buyer[b].pc = "clear" /\ buyer[b].tok \in Tokens
                BY <1>1, <3>2 DEF BuyClear, Base, Shape, TaskTokens
            <4>2. FullyExited(entry[positions[buyer[b].tok]])
                BY <1>1, <2>2, <4>1 DEF Cache, ClearIsEmpty
            <4>3. /\ positions'[k] = IF k = buyer[b].tok THEN None ELSE positions[k]
                  /\ UNCHANGED entry
                BY <1>1, <3>2, <4>1 DEF BuyClear
            <4>4. QED
                BY <1>2, <4>2, <4>3 DEF Shown, TrailSees, Ready, FullyExited, TrailActive
        <3>3. CASE ~BuyRecord(b) /\ ~BuyClear(b)
            <4>1. UNCHANGED <<positions, entry>>
                BY <3>3, BuyerFrame
            <4>2. QED
                BY <1>2, <4>1 DEF Shown, TrailSees, Ready, TrailActive
        <3>4. QED
            BY <3>1, <3>2, <3>3
    <2>3. QED
        BY <2>1, <2>2
<1>5. QED
    BY <1>1, <1>3, <1>4, LooksDiscarded

LEMMA BgKeeps ==
    ASSUME Inv, [Next]_levars, NEW g \in Gens, BgStep(g), NEW k \in Tokens
    PROVE  [View(k)!Next]_(View(k)!rpvars)
<1>1. /\ Base /\ Cache /\ TrailOnly /\ TypeOK /\ EntryOwners /\ TaskTokens
      /\ positions \in [Tokens -> Gens \cup {None}]
      /\ MayGetReady' \subseteq MayGetReady
    BY FutureShrinks DEF Inv, Base, Shape, TypeOK
<1>2. /\ UNCHANGED <<positions, exiter, buyer, buys, setting>>
      /\ \A h \in Gens : h # g => entry'[h] = entry[h]
      /\ bg[g].pc \notin {"none", "done"}
      /\ BgConfirm(g) \/ entry'[g].approved = entry[g].approved
    BY <1>1, BgFrame
<1>3. ~entry[g].approved
    BY <1>1, <1>2 DEF EntryOwners
<1>4. ExitingFor(k)' <=> ExitingFor(k)
    BY <1>2 DEF ExitingFor, TrailActive
<1>5. CASE Shown(k)' = Shown(k)
    BY <1>1, <1>4, <1>5, LooksDiscarded
<1>6. CASE Shown(k)' # Shown(k)
    <2>1. TrailActive /\ positions[k] = g /\ Ready(entry'[g])
        BY <1>1, <1>2, <1>3, <1>6 DEF Shown, TrailSees, Ready, TrailActive
    <2>2. Shown(k) = None /\ Shown(k)' = g
        BY <1>2, <1>3, <1>6, <2>1 DEF Shown, TrailSees, Ready
    <2>3. BgConfirm(g)
        BY <1>2, <1>3, <2>1 DEF Ready
    <2>4. g \in MayGetReady /\ g \notin MayGetReady'
        <3>1. bg[g].pc = "confirm" /\ bg'[g].pc = "done"
            BY <1>1, <2>3, TypeParts DEF BgConfirm, BgTasks
        <3>2. g <= buys
            <4>1. buys \in Nat
                BY <1>1 DEF TypeOK
            <4>2. QED
                BY <1>1, <3>1, <4>1, GensFacts DEF EntryOwners
        <3>3. \A b \in Buyers : buyer[b].gen # g
            BY <1>1, <3>1, GensFacts DEF EntryOwners
        <3>4. QED
            <4>1. buys \in Nat
                BY <1>1 DEF TypeOK
            <4>2. QED
                BY <1>2, <3>1, <3>2, <3>3, <4>1, GensFacts DEF MayGetReady
    <2>5. ~ExitingFor(k)
        <3>1. SUFFICES ASSUME NEW x \in Exiters, exiter[x].tok = k, exiter[x].pc # "count"
                       PROVE  FALSE
            BY DEF ExitingFor
        <3>2. exiter[x].pc # "idle"
            BY <1>1, <3>1, NamesAssumption DEF TaskTokens, NoExit
        <3>3. exiter[x].pc \in {"wait", "read", "balance", "approve", "route", "submit", "update"}
            BY <1>1, <3>1, <3>2, TypeParts DEF ExitTasks
        <3>4. ~TrailSees(k)
            BY <1>3, <2>1 DEF TrailSees, Ready
        <3>5. exiter[x].fast
            BY <1>1, <2>1, <3>1, <3>2, <3>3, <3>4 DEF TrailOnly, TrailExits
        <3>6. positions[k] = exiter[x].gen
            BY <1>1, <2>1, <3>1, <3>5
            DEF Cache, FastExitStaysValid, TrailOnly, TrailNeverSlow
        <3>7. QED
            BY <1>1, <1>3, <2>1, <3>5, <3>6, FastFacts
    <2>6. QED
        BY <1>1, <1>4, <2>2, <2>4, <2>5, LooksAppeared
<1>7. QED
    BY <1>5, <1>6

LEMMA ExitKeeps ==
    ASSUME Inv, [Next]_levars, NEW x \in Exiters, ExitStep(x), NEW k \in Tokens
    PROVE  [View(k)!Next]_(View(k)!rpvars)
<1>1. /\ Base /\ TypeOK /\ EntryOwners /\ TaskTokens /\ TrailExits
      /\ positions \in [Tokens -> Gens \cup {None}]
    BY DEF Inv, Base, Shape, TypeOK, TrailOnly
<1>2. /\ UNCHANGED <<positions, buyer, bg, buys, setting>>
      /\ ExitUpdate(x) \/ UNCHANGED entry
      /\ \A y \in Exiters : y # x => exiter'[y] = exiter[y]
      /\ MayGetReady' = MayGetReady
    BY <1>1, ExitFrame DEF MayGetReady
<1>3. CASE ~TrailActive
    <2>1. Shown(k)' = Shown(k) /\ (ExitingFor(k)' <=> ExitingFor(k))
        BY <1>2, <1>3 DEF Shown, ExitingFor, TrailActive
    <2>2. QED
        BY <1>2, <2>1, LooksDiscarded
<1>4. CASE TrailActive /\ ~ExitUpdate(x)
    <2>1. Shown(k)' = Shown(k)
        BY <1>2, <1>4 DEF Shown, TrailSees, Ready, TrailActive
    <2>2. CASE ExitingFor(k)' <=> ExitingFor(k)
        BY <1>2, <2>1, <2>2, LooksDiscarded
    <2>3. CASE ExitingFor(k)' /\ ~ExitingFor(k)
        <3>1. /\ exiter'[x].tok = k /\ exiter'[x].pc # "count"
              /\ exiter[x].tok = k => exiter[x].pc = "count"
            BY <1>2, <2>3 DEF ExitingFor, TrailActive
        <3>2. Called(x)
            <4>1. Returns(x) => exiter'[x].tok = None
                BY <1>1, ExitDoneFrame DEF Returns, NoExit
            <4>2. QED
                BY <1>1, <1>4, <3>1, <4>1, ExitMoves, NamesAssumption
                DEF Acquired, TakesFast, TakesSlow, Sizes, GoesOn, SamePlan
        <3>3. Shown(k) # None
            BY <1>4, <3>1, <3>2 DEF Called, Shown, TrailSees
        <3>4. QED
            BY <1>2, <2>1, <2>3, <3>3, LooksStarted
    <2>4. CASE ~ExitingFor(k)' /\ ExitingFor(k)
        BY <1>2, <2>1, <2>4, LooksEnded
    <2>5. QED
        BY <2>2, <2>3, <2>4
<1>5. CASE TrailActive /\ ExitUpdate(x)
    <2> DEFINE p == positions[exiter[x].tok]
    <2>1. /\ exiter[x].pc = "update" /\ exiter[x].tok \in Tokens /\ p \in Gens \cup {None}
          /\ WritesBack(x)
          /\ \A h \in Gens : h # p => entry'[h] = entry[h]
          /\ p # None => entry'[p].amt = IF exiter[x].full THEN 0
                                         ELSE exiter[x].our - exiter[x].amt
        BY <1>1, <1>5, UpdateFacts
    <2>2. exiter[x].full /\ \A y \in Exiters : exiter[y].tok = exiter[x].tok => y = x
        BY <1>1, <1>5, <2>1 DEF TrailExits
    <2>3. exiter'[x].tok = exiter[x].tok /\ exiter'[x].pc = "count"
        BY <2>1 DEF WritesBack
    <2>4. CASE exiter[x].tok = k
        <3>1. ExitingFor(k) /\ ~ExitingFor(k)'
            BY <1>2, <1>5, <2>1, <2>2, <2>3, <2>4 DEF ExitingFor
        <3>2. Shown(k)' = None
            BY <1>2, <2>1, <2>2, <2>4 DEF Shown, TrailSees, Ready
        <3>3. QED
            BY <1>2, <3>1, <3>2, LooksEnded
    <2>5. CASE exiter[x].tok # k
        <3>1. ExitingFor(k)' <=> ExitingFor(k)
            BY <1>2, <2>3, <2>5 DEF ExitingFor, TrailActive
        <3>2. positions[k] # None => positions[k] \in Gens /\ positions[k] # p
            BY <1>1, <2>1, <2>5, MapInjective
        <3> HIDE DEF p
        <3>3. Shown(k)' = Shown(k)
            BY <1>2, <2>1, <3>2 DEF Shown, TrailSees, Ready, TrailActive
        <3>4. QED
            BY <1>2, <3>1, <3>3, LooksDiscarded
    <2>6. QED
        BY <2>4, <2>5
<1>6. QED
    BY <1>3, <1>4, <1>5

\* executor_live.rs keeps the contract adaptive_trail.rs is written against: for every
\* token, what the watcher is shown refines ReadyPosition.
THEOREM ContractKept == Spec => KeepsTrailContract
<1>1. Init => \A k \in Tokens : View(k)!Init
    <2>1. SUFFICES ASSUME Init, NEW k \in Tokens PROVE View(k)!Init
        OBVIOUS
    <2>2. ~TrailSees(k) /\ \A x \in Exiters : exiter[x].tok # k
        BY <2>1, NamesAssumption DEF Init, TrailSees, NoExit
    <2>3. MayGetReady \subseteq Gens \ {None}
        BY GensFacts DEF MayGetReady
    <2>4. QED
        BY <2>2, <2>3 DEF View!Init, ExitingFor
<1>2. Inv /\ [Next]_levars => \A k \in Tokens : [View(k)!Next]_(View(k)!rpvars)
    <2>1. SUFFICES ASSUME Inv, [Next]_levars, NEW k \in Tokens
                   PROVE  [View(k)!Next]_(View(k)!rpvars)
        OBVIOUS
    <2>2. MayGetReady' \subseteq MayGetReady
        BY <2>1, FutureShrinks DEF Inv
    <2>3. CASE ChainStep \/ UNCHANGED levars
        <3>1. UNCHANGED <<positions, entry, exiter, setting>>
            BY <2>3, ChainFrame DEF levars, procvars, histvars
        <3>2. Shown(k)' = Shown(k) /\ (ExitingFor(k)' <=> ExitingFor(k))
            BY <3>1 DEF Shown, ExitingFor, TrailSees, Ready, TrailActive
        <3>3. QED
            BY <2>2, <3>2, LooksDiscarded
    <2>4. CASE Crash
        <3>1. Shown(k)' = None /\ ~ExitingFor(k)'
            BY <2>4, NamesAssumption DEF Crash, Shown, ExitingFor, TrailSees, NoExit
        <3>2. QED
            BY <2>2, <3>1, LooksRestarted
    <2>5. QED
        BY <2>1, <2>3, <2>4, BuyerKeeps, BgKeeps, ExitKeeps, NextSteps
<1>3. QED
    BY <1>1, <1>2, Invariance, PTL DEF Spec, KeepsTrailContract
===========================================================================
