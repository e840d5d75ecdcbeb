---------------------------- MODULE PaperTrader ---------------------------
(***************************************************************************)
(* The paper trader: the per-KOL budgets (trader/kol_budget.rs), the       *)
(* position book (trader/position.rs), the held-token set                  *)
(* (held_tokens.rs), their files (trader/ledger.rs), and the two tasks of  *)
(* trader/paper.rs that share them: the consumer, which enters and follows *)
(* KOL sells, and the sweeper, which closes positions past their hold      *)
(* timeout.                                                                *)
(*                                                                         *)
(* Budgets, book and held set have a lock each.  A close copies its        *)
(* position, lets the lock go for seconds of quoting, and then applies     *)
(* what it computed from the copy; one definition below is one stretch     *)
(* under one lock.  Amounts are whole units; a partial close is one half.  *)
(***************************************************************************)
EXTENDS Integers, FiniteSets, FiniteSetsExt, Sums

CONSTANTS
    Kols, Tokens,
    Initial,     \* initial_wei of every KOL
    SizePct,     \* position_pct_bps, in percent
    DustFloor,   \* dust_floor_wei
    MaxEntries,  \* bound: budget reservations
    MaxExits,    \* bound: KOL sells followed
    MaxCrashes,  \* bound: process restarts
    MaxFaults,   \* bound: failed writes of any file
    MaxEvents    \* bound: the four together

ASSUME ConstantsAssumption ==
    /\ Initial \in Nat
    /\ SizePct \in 0..100
    /\ DustFloor \in Nat \ {0}
    /\ MaxEntries \in Nat /\ MaxExits \in Nat /\ MaxCrashes \in Nat
    /\ MaxFaults \in Nat /\ MaxEvents \in Nat
ASSUME TokensAssumption == IsFiniteSet(Tokens)

Keys == Kols \X Tokens   \* PositionKey; FastTip is the only live portfolio
Kol(k) == k[1]
Token(k) == k[2]
Workers == {"consumer", "sweeper"}

VARIABLES
    budget,    \* KolBudgetBook.inner
    book,      \* PositionBook: key -> bnb_in, 0 when there is no position
    tokenless, \* keys of positions whose tokens_held is zero
    aged,      \* keys whose position is past the hold timeout
    held,      \* HeldTokens
    worker,    \* the two tasks
    tmp,       \* kol_budgets.json.tmp
    file,      \* kol_budgets.json
    json,      \* open_positions.json
    json_tokenless,  \* its positions whose tokens_held is zero
    csv,       \* KOL -> total bnb_in of the rows of closed_trades.csv
    \* history
    reserved,  \* KOL -> total reserved
    leaked,    \* KOL -> total reserved by entries that were then given up
    stale,     \* a close was applied to a position that had changed since it was read
    crossed,   \* an entry and a close of one token interleaved their updates of book and held set
    unsaved,   \* a save failed, or two saves overlapped
    entries, exits, crashes, faults

memvars == <<budget, book, tokenless, aged, held, worker>>
diskvars == <<tmp, file, json, json_tokenless, csv>>
histvars == <<reserved, leaked, stale, crossed, unsaved>>
countvars == <<entries, exits, crashes, faults>>
ptvars == <<memvars, diskvars, histvars, countvars>>

\* A KOL gets its row at its first reservation.
NoBudget == [known |-> FALSE, cash |-> Initial, committed |-> 0, pnl |-> 0]
NoBudgets == [n \in Kols |-> NoBudget]
NoFile == <<>>
NoKey == <<>>

Idle == [pc |-> "idle", op |-> "none", key |-> NoKey, amt |-> 0, slice |-> 0,
         full |-> TRUE, todo |-> {}, snap |-> NoBudgets]

\* Within the joint bound.
More == entries + exits + crashes + faults < MaxEvents

\* One more write fails.
Fault == faults < MaxFaults /\ More /\ faults' = faults + 1

Init ==
    /\ budget = NoBudgets
    /\ book = [k \in Keys |-> 0]
    /\ tokenless = {}
    /\ aged = {}
    /\ held = {}
    /\ worker = [w \in Workers |-> Idle]
    /\ tmp = NoFile
    /\ file = NoFile
    /\ json = [k \in Keys |-> 0]
    /\ json_tokenless = {}
    /\ csv = [n \in Kols |-> 0]
    /\ reserved = [n \in Kols |-> 0]
    /\ leaked = [n \in Kols |-> 0]
    /\ stale = FALSE
    /\ crossed = FALSE
    /\ unsaved = FALSE
    /\ entries = 0
    /\ exits = 0
    /\ crashes = 0
    /\ faults = 0

At(w, pc) == worker[w].pc = pc
Goto(w, pc) == worker' = [worker EXCEPT ![w].pc = pc]

\* The worker is done with its key; the sweeper goes on with the rest of its list.
Finish(w) ==
    worker' = [worker EXCEPT ![w] =
        IF @.todo = {} THEN Idle
        ELSE [Idle EXCEPT !.pc = "read", !.op = "close", !.full = worker[w].full,
                          !.todo = worker[w].todo]]

---------------------------------------------------------------------------
(* handle_enter().                                                         *)

Want(n) == (SizePct * budget[n].cash) \div 100

\* try_reserve.  Below the dust floor the entry is only counted as skipped, and the
\* row it may create for the KOL is NoBudget's.
EnterReserve(k) ==
    LET n == Kol(k)
        want == Want(n)
    IN  /\ At("consumer", "idle")
        /\ entries < MaxEntries /\ More
        /\ want >= DustFloor
        /\ budget' = [budget EXCEPT ![n].known = TRUE, ![n].cash = @ - want,
                                    ![n].committed = @ + want]
        /\ worker' = [worker EXCEPT !["consumer"] =
               [Idle EXCEPT !.pc = "save", !.op = "enter", !.key = k, !.amt = want]]
        /\ reserved' = [reserved EXCEPT ![n] = @ + want]
        /\ entries' = entries + 1
        /\ UNCHANGED <<book, tokenless, aged, held, diskvars, leaked, stale, crossed, unsaved,
                       exits, crashes, faults>>

\* Token metadata, pool quote and the KOL's own price may all be unavailable: the
\* entry returns, and what it reserved stays reserved.
EnterGivesUp ==
    /\ At("consumer", "quote")
    /\ leaked' = [leaked EXCEPT ![Kol(worker["consumer"].key)] = @ + worker["consumer"].amt]
    /\ Finish("consumer")
    /\ UNCHANGED <<budget, book, tokenless, aged, held, diskvars, reserved, stale, crossed,
                   unsaved, countvars>>

\* open_or_add: a second buy averages into the position and keeps its clock.  The fill
\* may be of zero tokens: a price so high, or a haircut so deep, that the quotient rounds
\* down to nothing.
EnterBook ==
    LET k == worker["consumer"].key
    IN  /\ At("consumer", "quote")
        /\ book' = [book EXCEPT ![k] = @ + worker["consumer"].amt]
        /\ \/ tokenless' = tokenless \ {k}
           \/ tokenless' = IF book[k] = 0 THEN tokenless \cup {k} ELSE tokenless
        /\ crossed' = (crossed \/ /\ At("sweeper", "unhold")
                                  /\ Token(worker["sweeper"].key) = Token(k))
        /\ Goto("consumer", "hold")
        /\ UNCHANGED <<budget, aged, held, diskvars, reserved, leaked, stale, unsaved,
                       countvars>>

EnterHold ==
    /\ At("consumer", "hold")
    /\ held' = held \cup {Token(worker["consumer"].key)}
    /\ Goto("consumer", "booked")
    /\ UNCHANGED <<budget, book, tokenless, aged, diskvars, histvars, countvars>>

---------------------------------------------------------------------------
(* handle_exit() and sweep_timeouts(): what to close.                      *)

\* The KOL sold: all of it, or a half; a fraction that cannot be computed counts
\* as all.
ExitStart(k) ==
    /\ At("consumer", "idle")
    /\ exits < MaxExits /\ More
    /\ book[k] # 0
    /\ \E f \in BOOLEAN :
           worker' = [worker EXCEPT !["consumer"] =
               [Idle EXCEPT !.pc = "read", !.op = "close", !.todo = {k}, !.full = f]]
    /\ exits' = exits + 1
    /\ UNCHANGED <<budget, book, tokenless, aged, held, diskvars, histvars, entries, crashes,
                   faults>>

\* Mutant: the sweeper closes only a part.
SweepHalf == FALSE

\* The sweeper closes with fraction 1.0.
SweepFull == TRUE

SweepStart ==
    /\ At("sweeper", "idle")
    /\ aged # {}
    /\ worker' = [worker EXCEPT !["sweeper"] =
           [Idle EXCEPT !.pc = "read", !.op = "close", !.todo = aged, !.full = SweepFull]]
    /\ UNCHANGED <<budget, book, tokenless, aged, held, diskvars, histvars, countvars>>

---------------------------------------------------------------------------
(* close_one().                                                            *)

Slice(w, n) == IF worker[w].full THEN n ELSE n \div 2

\* The position is copied, if it is still there and holds tokens.
CloseRead(w, k) ==
    /\ At(w, "read")
    /\ k \in worker[w].todo
    /\ book[k] # 0
    /\ k \notin tokenless
    /\ worker' = [worker EXCEPT ![w].pc = "priced", ![w].key = k, ![w].amt = book[k],
                                ![w].slice = Slice(w, book[k]), ![w].todo = @ \ {k}]
    /\ UNCHANGED <<budget, book, tokenless, aged, held, diskvars, histvars, countvars>>

\* A position that is gone is left alone, and so is a slice without tokens: a part too
\* small, or the whole of a position that was filled with zero tokens.
CloseSkip(w, k) ==
    /\ At(w, "read")
    /\ k \in worker[w].todo
    /\ book[k] # 0 /\ worker[w].full => k \in tokenless
    /\ worker' = [worker EXCEPT ![w] =
           IF @.todo = {k} THEN Idle ELSE [@ EXCEPT !.todo = worker[w].todo \ {k}]]
    /\ UNCHANGED <<budget, book, tokenless, aged, held, diskvars, histvars, countvars>>

\* What the slice may bring: nothing after slippage and gas, or a gain.  The flat
\* booking of a slice without a price lies between.
Proceeds(slice) == {0, slice + 1}

Minus(a, b) == IF a > b THEN a - b ELSE 0   \* saturating_sub

\* Mutant: the cost basis stays committed.
CreditedCashOnly(b, slice, out) == [b EXCEPT !.cash = @ + out, !.pnl = @ + (out - slice)]

\* credit_close, for a KOL that has a row.
Credited(b, slice, out) ==
    [b EXCEPT !.committed = Minus(@, slice), !.cash = @ + out, !.pnl = @ + (out - slice)]

\* The worker's close was credited and has not reached the CSV, or the book.
UnrowedPcs == {"save", "write", "rename", "row"}
PendingPcs == UnrowedPcs \cup {"update"}
CreditPending(w) == worker[w].op = "close" /\ worker[w].pc \in PendingPcs

CloseCredit(w) ==
    LET k == worker[w].key
        n == Kol(k)
    IN  /\ At(w, "priced")
        /\ \E out \in Proceeds(worker[w].slice) :
               budget' = IF budget[n].known
                         THEN [budget EXCEPT ![n] = Credited(@, worker[w].slice, out)]
                         ELSE budget
        /\ stale' = \/ stale
                    \/ book[k] # worker[w].amt
                    \/ \E v \in Workers \ {w} : worker[v].key = k /\ CreditPending(v)
        /\ Goto(w, "save")
        /\ UNCHANGED <<book, tokenless, aged, held, diskvars, reserved, leaked, crossed,
                       unsaved, countvars>>

\* append_trade: a row for the slice, or none and a warning.
CloseRow(w) ==
    /\ At(w, "row")
    /\ \/ /\ csv' = [csv EXCEPT ![Kol(worker[w].key)] = @ + worker[w].slice]
          /\ UNCHANGED faults
       \/ Fault /\ UNCHANGED csv
    /\ Goto(w, "update")
    /\ UNCHANGED <<budget, book, tokenless, aged, held, tmp, file, json, json_tokenless,
                   histvars, entries, exits, crashes>>

\* remove, or shrink to what the copy leaves (some tokens among it), which does nothing
\* without a position.
Closed(w) ==
    LET k == worker[w].key
    IN  [book EXCEPT ![k] = IF worker[w].full \/ @ = 0 THEN 0 ELSE worker[w].amt - worker[w].slice]

\* Mutant: the held set is told whatever the book says.
HeldByNone(b, t) == FALSE

\* Some position of the token is left, of whatever KOL.
StillHeld(b, t) == \E k \in Keys : Token(k) = t /\ b[k] # 0

CloseUpdate(w) ==
    LET k == worker[w].key
    IN  /\ At(w, "update")
        /\ book' = Closed(w)
        /\ tokenless' = tokenless \ {k}
        /\ aged' = {a \in aged : book'[a] # 0}
        /\ stale' = (stale \/ book[k] # worker[w].amt)
        /\ crossed' = (crossed \/ \E v \in Workers \ {w} :
                                     /\ worker[v].pc \in {"hold", "unhold"}
                                     /\ Token(worker[v].key) = Token(k))
        /\ Goto(w, IF StillHeld(book', Token(k)) THEN "booked" ELSE "unhold")
        /\ UNCHANGED <<budget, held, diskvars, reserved, leaked, unsaved, countvars>>

CloseUnhold(w) ==
    /\ At(w, "unhold")
    /\ held' = held \ {Token(worker[w].key)}
    /\ Goto(w, "booked")
    /\ UNCHANGED <<budget, book, tokenless, aged, diskvars, histvars, countvars>>

---------------------------------------------------------------------------
(* Saving.  The budgets are copied under their lock and written outside it, *)
(* through one temporary file; the book is written under its lock.         *)

Saving(w) == worker[w].pc \in {"write", "rename"}
AfterSave(w) == IF worker[w].op = "close" THEN "row" ELSE "quote"

SaveCopy(w) ==
    /\ At(w, "save")
    /\ worker' = [worker EXCEPT ![w].pc = "write", ![w].snap = budget]
    /\ unsaved' = (unsaved \/ \E v \in Workers \ {w} : Saving(v))
    /\ UNCHANGED <<budget, book, tokenless, aged, held, diskvars, reserved, leaked, stale,
                   crossed, countvars>>

SaveWrite(w) ==
    /\ At(w, "write")
    /\ tmp' = worker[w].snap
    /\ Goto(w, "rename")
    /\ UNCHANGED <<budget, book, tokenless, aged, held, file, json, json_tokenless, csv,
                   histvars, countvars>>

\* The rename, which does nothing when the other worker's rename took the file.
SaveRename(w) ==
    /\ At(w, "rename")
    /\ file' = IF tmp = NoFile THEN file ELSE tmp
    /\ tmp' = NoFile
    /\ worker' = [worker EXCEPT ![w].pc = AfterSave(w),
                                ![w].snap = NoBudgets]
    /\ UNCHANGED <<budget, book, tokenless, aged, held, json, json_tokenless, csv, histvars,
                   countvars>>

\* The write or the rename fails; a failed save is logged and the worker goes on.
SaveFails(w) ==
    /\ At(w, "write")
    /\ Fault
    /\ unsaved' = TRUE
    /\ worker' = [worker EXCEPT ![w].pc = AfterSave(w),
                                ![w].snap = NoBudgets]
    /\ UNCHANGED <<budget, book, tokenless, aged, held, diskvars, reserved, leaked, stale,
                   crossed, entries, exits, crashes>>

\* Mutant: the file keeps the positions that were closed.
JsonMerged == [k \in Keys |-> IF book[k] # 0 THEN book[k] ELSE json[k]]

\* save_book: what is written is the book.
JsonOf == book

SaveBook(w) ==
    /\ At(w, "booked")
    /\ \/ /\ json' = JsonOf
          /\ json_tokenless' = tokenless
          /\ UNCHANGED <<unsaved, faults>>
       \/ /\ Fault
          /\ unsaved' = TRUE
          /\ UNCHANGED <<json, json_tokenless>>
    /\ Finish(w)
    /\ UNCHANGED <<budget, book, tokenless, aged, held, tmp, file, csv, reserved, leaked,
                   stale, crossed, entries, exits, crashes>>

---------------------------------------------------------------------------
\* A position passes hold_timeout.
HoldTimeout(k) ==
    /\ book[k] # 0
    /\ k \notin aged
    /\ aged' = aged \cup {k}
    /\ UNCHANGED <<budget, book, tokenless, held, worker, diskvars, histvars, countvars>>

\* The process stops and starts again from its files (load_or_new, load_book and
\* PaperExecutor::new): restored positions get a new hold clock.
Restart ==
    /\ crashes < MaxCrashes /\ More
    /\ budget' = IF file = NoFile THEN NoBudgets ELSE file
    /\ book' = json
    /\ tokenless' = json_tokenless
    /\ aged' = {}
    /\ held' = {Token(k) : k \in {j \in Keys : json[j] # 0}}
    /\ worker' = [w \in Workers |-> Idle]
    /\ crashes' = crashes + 1
    /\ UNCHANGED <<diskvars, histvars, entries, exits, faults>>

CloseStep(w) ==
    \/ \E k \in Keys : CloseRead(w, k) \/ CloseSkip(w, k)
    \/ CloseCredit(w) \/ CloseRow(w) \/ CloseUpdate(w) \/ CloseUnhold(w)
    \/ SaveCopy(w) \/ SaveWrite(w) \/ SaveRename(w) \/ SaveFails(w) \/ SaveBook(w)

Next ==
    \/ \E k \in Keys : EnterReserve(k) \/ ExitStart(k) \/ HoldTimeout(k)
    \/ EnterGivesUp \/ EnterBook \/ EnterHold
    \/ SweepStart
    \/ \E w \in Workers : CloseStep(w)
    \/ Restart

Spec == Init /\ [][Next]_ptvars

\* The sweeper's interval keeps ticking, clocks run, and tasks finish what they began.
Fairness ==
    /\ \A k \in Keys : WF_ptvars(HoldTimeout(k))
    /\ WF_ptvars(SweepStart)
    /\ WF_ptvars(EnterGivesUp \/ EnterBook \/ EnterHold)
    /\ \A w \in Workers : WF_ptvars(CloseStep(w))

FairSpec == Spec /\ Fairness

---------------------------------------------------------------------------
Budgets == [Kols -> [known: BOOLEAN, cash: Nat, committed: Nat, pnl: Int]]
Pcs == {"idle", "save", "write", "rename", "quote", "hold", "booked", "read", "priced",
        "row", "update", "unhold"}

\* Types of the paper trader's state.
TypeOK ==
    /\ budget \in Budgets
    /\ book \in [Keys -> Nat]
    /\ tokenless \subseteq Keys
    /\ aged \subseteq Keys
    /\ held \subseteq Tokens
    /\ worker \in [Workers -> [pc: Pcs, op: {"none", "enter", "close"}, key: Keys \cup {NoKey},
                               amt: Nat, slice: Nat, full: BOOLEAN, todo: SUBSET Keys,
                               snap: Budgets]]
    /\ tmp \in Budgets \cup {NoFile}
    /\ file \in Budgets \cup {NoFile}
    /\ json \in [Keys -> Nat]
    /\ json_tokenless \subseteq Keys
    /\ csv \in [Kols -> Nat]
    /\ reserved \in [Kols -> Nat]
    /\ leaked \in [Kols -> Nat]
    /\ stale \in BOOLEAN /\ crossed \in BOOLEAN /\ unsaved \in BOOLEAN
    /\ entries \in Nat /\ exits \in Nat /\ crashes \in Nat /\ faults \in Nat

KeysOf(n) == {k \in Keys : Kol(k) = n}
OpenCost(n) == SumOf(book, KeysOf(n))

\* Reserved by an entry that has not reached the book.
Entering(n) ==
    LET c == worker["consumer"]
    IN  IF c.op = "enter" /\ Kol(c.key) = n /\ c.pc \in {"save", "write", "rename", "quote"}
        THEN c.amt ELSE 0

\* What the worker's close takes from the KOL, while it is at one of the steps.
Sliced(w, n, pcs) ==
    LET c == worker[w]
    IN  IF c.op = "close" /\ c.pc \in pcs /\ Kol(c.key) = n THEN c.slice ELSE 0

\* Credited by closes that have not reached the book.
Closing(n) == Sliced("consumer", n, PendingPcs) + Sliced("sweeper", n, PendingPcs)

\* Credited by closes whose row is not in the CSV yet.
Unrowed(n) == Sliced("consumer", n, UnrowedPcs) + Sliced("sweeper", n, UnrowedPcs)

\* paper.rs, the entry and close paths over kol_budget.rs: until a restart, and as
\* long as no close worked on a stale copy, a KOL's committed funds are what its
\* positions cost, plus what is on its way in, minus what is on its way out, plus
\* what abandoned entries left behind; cash and committed funds add up to the
\* initial budget and the realised profit; and nothing that was reserved is closed
\* twice: what is still committed and what the closed-trades CSV shows never add up
\* to more than the entries reserved (a row that fails to be written leaves less).
CommittedAccounted ==
    ~stale /\ crashes = 0 =>
        \A n \in Kols :
            /\ budget[n].committed + Closing(n) = OpenCost(n) + Entering(n) + leaked[n]
            /\ budget[n].cash + budget[n].committed = Initial + budget[n].pnl
            /\ budget[n].committed + csv[n] + Unrowed(n) <= reserved[n]

\* As long as no two updates of the book and the held set interleaved for one token,
\* the held set is the set of tokens in the book, stale closes and restarts or not,
\* except for the token a worker is just about to insert or remove.
HeldMatchesBook ==
    ~crossed =>
        \A t \in Tokens :
            (\A w \in Workers : At(w, "hold") \/ At(w, "unhold") => Token(worker[w].key) # t)
            => (t \in held <=> \E k \in Keys : Token(k) = t /\ book[k] # 0)

\* When both tasks are between two signals, the files hold exactly what is in
\* memory, unless a save failed or the two tasks' saves overlapped: a restart then
\* loses nothing.
FilesMatchWhenIdle ==
    (\A w \in Workers : At(w, "idle")) /\ ~unsaved /\ crashes = 0 =>
        /\ json = book /\ json_tokenless = tokenless
        /\ budget = IF file = NoFile THEN NoBudgets ELSE file

\* A process that stops while no close is under way, not even if an entry is, comes
\* back with the cost of every restored position among its committed funds.
RestartBetweenCloses ==
    [][/\ crashes' # crashes /\ crashes = 0
       /\ ~unsaved /\ ~stale
       /\ \A w \in Workers : worker[w].op # "close"
       => \A n \in Kols : budget'[n].committed >= OpenCost(n)']_ptvars

\* Every position that holds tokens is eventually closed, if only by its hold timeout
\* (or a restart brings back what the file has of it: its first buy, of zero tokens).
\* One without tokens is skipped by every sweep and stays until a buy fills it.
EveryPositionCloses ==
    \A k \in Keys : book[k] # 0 /\ k \notin tokenless ~> book[k] = 0 \/ k \in tokenless
===========================================================================
