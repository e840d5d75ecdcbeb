------------------------ MODULE PaperTrader_proofs ------------------------
(***************************************************************************)
(* Proofs about the paper trader, for any KOLs, any finite set of tokens   *)
(* and any bounds.  The invariant has five layers, each under the history  *)
(* flags its property is stated under: what a worker holds at each of its  *)
(* steps (Shaped); a credited close works on a position that is still      *)
(* there (Fresh); the books balance (Accounts); book and held set          *)
(* (HeldLayer); the files (Files and Behind).                              *)
(***************************************************************************)
EXTENDS PaperTrader, Sums_proofs, FiniteSetTheorems, WellFoundedInduction, TLAPS

WorkerRecs == [pc: Pcs, op: {"none", "enter", "close"}, key: Keys \cup {NoKey},
               amt: Nat, slice: Nat, full: BOOLEAN, todo: SUBSET Keys, snap: Budgets]

\* What a worker at each of its steps has in hand.
WellFormed(w, c) ==
    /\ c.op = "none" <=> c.pc = "idle"
    /\ c.op = "enter" =>
           /\ w = "consumer"
           /\ c.pc \in {"save", "write", "rename", "quote", "hold", "booked"}
           /\ c.key \in Keys
           /\ c.amt > 0
    /\ c.op = "close" =>
           /\ c.pc \in {"read", "priced", "save", "write", "rename", "row", "update",
                        "unhold", "booked"}
           /\ c.pc # "read" => /\ c.key \in Keys
                               /\ c.amt > 0
                               /\ IF c.full THEN c.slice = c.amt ELSE c.slice < c.amt

Shaped == \A w \in Workers : WellFormed(w, worker[w])

Base == TypeOK /\ Shaped

\* The position of a credited close is no smaller than its copy, and no two credited
\* closes are of one position.
Fresh ==
    ~stale =>
        /\ \A w \in Workers : CreditPending(w) => worker[w].amt <= book[worker[w].key]
        /\ \A v, w \in Workers : CreditPending(v) /\ CreditPending(w) /\ v # w
                                 => worker[v].key # worker[w].key

\* A KOL with a position, or with a worker on one, has its row in the budget book.
Known ==
    crashes = 0 =>
        /\ \A k \in Keys : book[k] # 0 => budget[Kol(k)].known
        /\ \A w \in Workers : worker[w].key \in Keys => budget[Kol(worker[w].key)].known

Accounts == Fresh /\ Known /\ CommittedAccounted

\* The token a worker is about to tell the held set of.
AtHeld(w) == worker[w].pc \in {"hold", "unhold"}
Telling(w, t) == AtHeld(w) /\ Token(worker[w].key) = t

HeldLayer ==
    ~crossed =>
        /\ \A w \in Workers :
               /\ At(w, "hold") => book[worker[w].key] # 0
               /\ At(w, "unhold") => ~ StillHeld(book, Token(worker[w].key))
        /\ \A t \in Tokens : ~ (Telling("consumer", t) /\ Telling("sweeper", t))
        /\ \A t \in Tokens : \/ \E w \in Workers : Telling(w, t)
                             \/ t \in held <=> StillHeld(book, t)

\* What load_or_new() would find.
OnFile == IF file = NoFile THEN NoBudgets ELSE file

Files ==
    ~unsaved /\ crashes = 0 =>
        /\ \/ json = book /\ json_tokenless = tokenless
           \/ \E w \in Workers : worker[w].pc \in {"hold", "unhold", "booked"}
        /\ ~ (Saving("consumer") /\ Saving("sweeper"))
        /\ \A w \in Workers :
               /\ Saving(w) => worker[w].snap = budget \/ \E v \in Workers : At(v, "save")
               /\ At(w, "rename") => tmp = worker[w].snap
        /\ OnFile = budget \/ \E w \in Workers : At(w, "save") \/ Saving(w)

\* Reserved by an entry whose reservation is not on file.
EnterUnsaved(n) ==
    LET c == worker["consumer"]
    IN  IF c.op = "enter" /\ Kol(c.key) = n /\ c.pc \in {"save", "write", "rename"}
        THEN c.amt ELSE 0

\* How far the files may be behind: the budgets by an entry that is being saved, the
\* positions by the closes that have reached the book.
Behind ==
    ~unsaved /\ crashes = 0 =>
        /\ \A n \in Kols : budget[n].committed <= OnFile[n].committed + EnterUnsaved(n)
        /\ Saving("sweeper") => \A n \in Kols :
               budget[n].committed <= worker["sweeper"].snap[n].committed + EnterUnsaved(n)
        /\ Saving("consumer") => \A n \in Kols :
               budget[n].committed <= worker["consumer"].snap[n].committed
        /\ \A k \in Keys : \/ json[k] <= book[k]
                           \/ \E w \in Workers : /\ worker[w].op = "close"
                                                 /\ worker[w].pc \in {"unhold", "booked"}
                                                 /\ worker[w].key = k

Inv == Base /\ Accounts /\ HeldLayer /\ Files /\ Behind
---------------------------------------------------------------------------
(* Types and shapes.                                                       *)

\* The facts about a worker that the type invariant gives.
LEMMA WorkerType ==
    ASSUME TypeOK, NEW w \in Workers
    PROVE  /\ worker[w] \in WorkerRecs
           /\ worker[w].amt \in Nat /\ worker[w].slice \in Nat
           /\ worker[w].full \in BOOLEAN
           /\ worker[w].todo \in SUBSET Keys
           /\ worker[w].snap \in Budgets
           /\ worker[w].pc \in Pcs
           /\ worker[w].key \in Keys \cup {NoKey}
           /\ worker[w].op \in {"none", "enter", "close"}
    BY DEF TypeOK, WorkerRecs

\* No key is NoKey, and the parts of a key are a KOL and a token.
LEMMA KeyParts ==
    ASSUME NEW k \in Keys
    PROVE  Kol(k) \in Kols /\ Token(k) \in Tokens /\ k = <<Kol(k), Token(k)>>
    BY DEF Keys, Kol, Token

\* An idle worker and the empty budget book have their types.
LEMMA IdleType == Idle \in WorkerRecs /\ NoBudgets \in Budgets
<1>1. NoBudgets \in Budgets
    BY ConstantsAssumption DEF NoBudgets, NoBudget, Budgets
<1>2. QED
    BY <1>1 DEF Idle, WorkerRecs, Pcs

\* The other workers are where they were.
Only(w) == \A v \in Workers : v # w => worker'[v] = worker[v]

\* The worker moves on with what it has, but for the budgets it is saving.
Keeps(w) ==
    /\ worker'[w].op = worker[w].op
    /\ worker'[w].key = worker[w].key
    /\ worker'[w].amt = worker[w].amt
    /\ worker'[w].slice = worker[w].slice
    /\ worker'[w].full = worker[w].full
    /\ worker'[w].todo = worker[w].todo

\* A step of one worker.
LEMMA OneMoves ==
    ASSUME TypeOK, NEW w \in Workers, NEW c \in WorkerRecs,
           worker' = [worker EXCEPT ![w] = c]
    PROVE  /\ worker' \in [Workers -> WorkerRecs]
           /\ worker'[w] = c
           /\ Only(w)
<1>1. worker \in [Workers -> WorkerRecs]
    BY DEF TypeOK, WorkerRecs
<1>2. QED
    BY <1>1 DEF Only

\* Goto(w, pc): the worker moves and keeps all it has.
LEMMA MovesTo ==
    ASSUME TypeOK, NEW w \in Workers, NEW pc \in Pcs, Goto(w, pc)
    PROVE  /\ worker' \in [Workers -> WorkerRecs]
           /\ worker'[w].pc = pc
           /\ worker'[w].snap = worker[w].snap
           /\ Keeps(w)
           /\ Only(w)
<1>1. PICK c : c = [worker[w] EXCEPT !.pc = pc]
    OBVIOUS
<1>2. worker[w] \in WorkerRecs
    BY WorkerType
<1>3. c \in WorkerRecs
    BY <1>1, <1>2 DEF WorkerRecs
<1>4. worker' = [worker EXCEPT ![w] = c]
    BY <1>1 DEF Goto, TypeOK
<1>5. worker'[w] = c /\ Only(w) /\ worker' \in [Workers -> WorkerRecs]
    BY <1>3, <1>4, OneMoves
<1>6. c.pc = pc /\ c.snap = worker[w].snap /\ c.op = worker[w].op /\ c.key = worker[w].key
      /\ c.amt = worker[w].amt /\ c.slice = worker[w].slice /\ c.full = worker[w].full
      /\ c.todo = worker[w].todo
    BY <1>1, <1>2 DEF WorkerRecs
<1>7. QED
    BY <1>5, <1>6 DEF Keeps

\* A step that also takes or drops the copy of the budgets.
LEMMA MovesSaving ==
    ASSUME TypeOK, NEW w \in Workers, NEW pc \in Pcs, NEW s \in Budgets,
           worker' = [worker EXCEPT ![w].pc = pc, ![w].snap = s]
    PROVE  /\ worker' \in [Workers -> WorkerRecs]
           /\ worker'[w].pc = pc
           /\ worker'[w].snap = s
           /\ Keeps(w)
           /\ Only(w)
<1>1. PICK c : c = [worker[w] EXCEPT !.pc = pc, !.snap = s]
    OBVIOUS
<1>2. worker[w] \in WorkerRecs
    BY WorkerType
<1>3. c \in WorkerRecs
    BY <1>1, <1>2 DEF WorkerRecs
<1>4. worker' = [worker EXCEPT ![w] = c]
    BY <1>1 DEF TypeOK
<1>5. worker'[w] = c /\ Only(w) /\ worker' \in [Workers -> WorkerRecs]
    BY <1>3, <1>4, OneMoves
<1>6. c.pc = pc /\ c.snap = s /\ c.op = worker[w].op /\ c.key = worker[w].key
      /\ c.amt = worker[w].amt /\ c.slice = worker[w].slice /\ c.full = worker[w].full
      /\ c.todo = worker[w].todo
    BY <1>1, <1>2 DEF WorkerRecs
<1>7. QED
    BY <1>5, <1>6 DEF Keeps

\* The worker has nothing in hand: it is idle, or about to read its next position.
Resting(w) ==
    /\ worker'[w].key = NoKey
    /\ \/ worker'[w].pc = "idle" /\ worker'[w].op = "none"
       \/ worker'[w].pc = "read" /\ worker'[w].op = "close"

\* The worker is done with its key.
LEMMA Finishes ==
    ASSUME TypeOK, NEW w \in Workers, Finish(w)
    PROVE  /\ worker' \in [Workers -> WorkerRecs]
           /\ Resting(w)
           /\ Only(w)
<1>1. PICK c : c = IF worker[w].todo = {} THEN Idle
                   ELSE [Idle EXCEPT !.pc = "read", !.op = "close", !.full = worker[w].full,
                                     !.todo = worker[w].todo]
    OBVIOUS
<1>2. c \in WorkerRecs
    BY <1>1, WorkerType, IdleType DEF Idle, WorkerRecs, Pcs
<1>3. worker' = [worker EXCEPT ![w] = c]
    BY <1>1 DEF Finish, TypeOK
<1>4. worker'[w] = c /\ Only(w) /\ worker' \in [Workers -> WorkerRecs]
    BY <1>2, <1>3, OneMoves
<1>5. worker[w].todo = {} => c.key = NoKey /\ c.pc = "idle" /\ c.op = "none"
    BY <1>1 DEF Idle
<1>6. worker[w].todo # {} => c.key = NoKey /\ c.pc = "read" /\ c.op = "close"
    BY <1>1 DEF Idle
<1>7. QED
    BY <1>4, <1>5, <1>6 DEF Resting

---------------------------------------------------------------------------
(* What each action does to its worker.                                    *)

\* try_reserve: what is wanted is no more than the cash.
LEMMA WantBound ==
    ASSUME TypeOK, NEW n \in Kols
    PROVE  Want(n) \in Nat /\ Want(n) <= budget[n].cash
<1>1. PICK c \in Nat : c = budget[n].cash
    BY DEF TypeOK, Budgets
<1>2. PICK p \in 0..100 : p = SizePct
    BY ConstantsAssumption
<1>3. p * c \in Nat /\ p * c <= 100 * c
    BY <1>2
<1>4. PICK q \in Nat : q = p * c
    BY <1>3
<1>5. q \div 100 \in Nat /\ q \div 100 <= c
    BY <1>3, <1>4
<1>6. QED
    BY <1>1, <1>2, <1>4, <1>5 DEF Want

\* What try_reserve leaves the consumer with: a positive amount within the cash.
LEMMA Reserves ==
    ASSUME TypeOK, NEW k \in Keys, EnterReserve(k)
    PROVE  /\ worker' \in [Workers -> WorkerRecs]
           /\ worker'["consumer"].pc = "save"
           /\ worker'["consumer"].op = "enter"
           /\ worker'["consumer"].key = k
           /\ worker'["consumer"].amt = Want(Kol(k))
           /\ worker["consumer"].pc = "idle"
           /\ Want(Kol(k)) \in Nat
           /\ Want(Kol(k)) > 0
           /\ Want(Kol(k)) <= budget[Kol(k)].cash
           /\ Only("consumer")
<1>1. PICK a \in Nat : a = Want(Kol(k)) /\ a <= budget[Kol(k)].cash
    BY WantBound, KeyParts
<1>2. a > 0
    BY <1>1, ConstantsAssumption DEF EnterReserve
<1>3. PICK c : c = [Idle EXCEPT !.pc = "save", !.op = "enter", !.key = k, !.amt = a]
    OBVIOUS
<1>4. c \in WorkerRecs
    BY <1>3, IdleType DEF Idle, WorkerRecs, Pcs
<1>5. c.pc = "save" /\ c.op = "enter" /\ c.key = k /\ c.amt = a
    BY <1>3 DEF Idle
<1>6. worker' = [worker EXCEPT !["consumer"] = c]
    BY <1>1, <1>3 DEF EnterReserve
<1>7. worker'["consumer"] = c /\ Only("consumer") /\ worker' \in [Workers -> WorkerRecs]
    BY <1>4, <1>6, OneMoves DEF Workers
<1>8. QED
    BY <1>1, <1>2, <1>5, <1>7 DEF EnterReserve, At

\* A close begins.
LEMMA Starts ==
    ASSUME TypeOK, NEW w \in Workers, NEW f \in BOOLEAN, NEW todo \in SUBSET Keys,
           worker' = [worker EXCEPT ![w] =
               [Idle EXCEPT !.pc = "read", !.op = "close", !.todo = todo, !.full = f]]
    PROVE  /\ worker' \in [Workers -> WorkerRecs]
           /\ Resting(w)
           /\ Only(w)
<1>1. PICK c : c = [Idle EXCEPT !.pc = "read", !.op = "close", !.todo = todo, !.full = f]
    OBVIOUS
<1>2. c \in WorkerRecs
    BY <1>1, IdleType DEF Idle, WorkerRecs, Pcs
<1>3. c.key = NoKey /\ c.pc = "read" /\ c.op = "close"
    BY <1>1 DEF Idle
<1>4. worker'[w] = c /\ Only(w) /\ worker' \in [Workers -> WorkerRecs]
    BY <1>1, <1>2, OneMoves
<1>5. QED
    BY <1>3, <1>4 DEF Resting

\* handle_exit leaves the consumer with a list and nothing in hand.
LEMMA ExitStarts ==
    ASSUME TypeOK, NEW k \in Keys, ExitStart(k)
    PROVE  /\ worker' \in [Workers -> WorkerRecs]
           /\ worker["consumer"].pc = "idle"
           /\ Resting("consumer")
           /\ Only("consumer")
<1>1. PICK f \in BOOLEAN :
          worker' = [worker EXCEPT !["consumer"] =
               [Idle EXCEPT !.pc = "read", !.op = "close", !.todo = {k}, !.full = f]]
    BY DEF ExitStart
<1>2. {k} \in SUBSET Keys /\ "consumer" \in Workers
    BY DEF Workers
<1>3. worker' \in [Workers -> WorkerRecs] /\ Resting("consumer") /\ Only("consumer")
    BY <1>1, <1>2, Starts
<1>4. QED
    BY <1>3 DEF ExitStart, At

\* sweep_timeouts leaves the sweeper with a list and nothing in hand.
LEMMA SweepStarts ==
    ASSUME TypeOK, SweepStart
    PROVE  /\ worker' \in [Workers -> WorkerRecs]
           /\ worker["sweeper"].pc = "idle"
           /\ Resting("sweeper")
           /\ Only("sweeper")
    BY Starts DEF SweepStart, SweepFull, At, Workers, TypeOK

\* close_one has copied a position, and takes all of it or less.
LEMMA Reads ==
    ASSUME TypeOK, NEW w \in Workers, NEW k \in Keys, CloseRead(w, k)
    PROVE  /\ worker' \in [Workers -> WorkerRecs]
           /\ worker'[w].pc = "priced"
           /\ worker'[w].op = worker[w].op
           /\ worker'[w].key = k
           /\ worker'[w].amt = book[k]
           /\ book[k] > 0
           /\ IF worker'[w].full THEN worker'[w].slice = worker'[w].amt
                                 ELSE worker'[w].slice < worker'[w].amt
           /\ Only(w)
<1>1. PICK b \in Nat : b = book[k]
    BY DEF TypeOK
<1>2. PICK s \in Nat : s = Slice(w, b) /\ IF worker[w].full THEN s = b ELSE s <= b \div 2
    BY DEF Slice
<1>3. b > 0
    BY <1>1 DEF CloseRead
<1>4. PICK c : c = [worker[w] EXCEPT !.pc = "priced", !.key = k, !.amt = b, !.slice = s,
                                     !.todo = @ \ {k}]
    OBVIOUS
<1>5. worker[w] \in WorkerRecs
    BY WorkerType
<1>6. c \in WorkerRecs
    BY <1>4, <1>5 DEF WorkerRecs, Pcs
<1>7. worker' = [worker EXCEPT ![w] = c]
    BY <1>1, <1>2, <1>4 DEF CloseRead, TypeOK
<1>8. worker'[w] = c /\ Only(w) /\ worker' \in [Workers -> WorkerRecs]
    BY <1>6, <1>7, OneMoves
<1>9. c.pc = "priced" /\ c.op = worker[w].op /\ c.key = k /\ c.amt = b /\ c.slice = s
      /\ c.full = worker[w].full
    BY <1>4, <1>5 DEF WorkerRecs
<1>10. IF c.full THEN s = b ELSE s < b
    BY <1>2, <1>3, <1>9
<1>11. QED
    BY <1>1, <1>3, <1>8, <1>9, <1>10


\* close_one found nothing to close: on to the rest of the list, or idle.
LEMMA Skips ==
    ASSUME TypeOK, NEW w \in Workers, NEW k \in Keys, CloseSkip(w, k)
    PROVE  /\ worker' \in [Workers -> WorkerRecs]
           /\ worker'[w].pc = "idle" => worker'[w].op = "none"
           /\ worker'[w].pc = "read" => worker'[w].op = worker[w].op
           /\ worker'[w].pc \in {"idle", "read"}
           /\ worker'[w].key \in {NoKey, worker[w].key}
           /\ Only(w)
<1>1. PICK c : c = IF worker[w].todo = {k} THEN Idle
                   ELSE [worker[w] EXCEPT !.todo = @ \ {k}]
    OBVIOUS
<1>2. worker[w] \in WorkerRecs /\ worker[w].pc = "read"
    BY WorkerType DEF CloseSkip, At
<1>3. c \in WorkerRecs
    BY <1>1, <1>2, IdleType DEF WorkerRecs
<1>4. worker' = [worker EXCEPT ![w] = c]
    BY <1>1 DEF CloseSkip
<1>5. worker'[w] = c /\ Only(w) /\ worker' \in [Workers -> WorkerRecs]
    BY <1>3, <1>4, OneMoves
<1>6. c = Idle => c.key = NoKey /\ c.pc = "idle" /\ c.op = "none"
    BY DEF Idle
<1>7. c # Idle => c.key = worker[w].key /\ c.pc = "read" /\ c.op = worker[w].op
    BY <1>1, <1>2 DEF WorkerRecs
<1>8. QED
    BY <1>5, <1>6, <1>7

\* How the actions move their workers, by the name of the move.
Advances(w) ==
    \/ w = "consumer" /\ EnterBook
    \/ w = "consumer" /\ EnterHold
    \/ CloseCredit(w)
    \/ CloseRow(w)
    \/ CloseUpdate(w)
    \/ CloseUnhold(w)
    \/ SaveCopy(w)
    \/ SaveWrite(w)
    \/ SaveRename(w)
    \/ SaveFails(w)

\* What a step of a worker from one place to another may be.
Moved(w) ==
    \/ worker[w].pc = "quote" /\ worker'[w].pc = "hold"
    \/ worker[w].pc = "hold" /\ worker'[w].pc = "booked"
    \/ worker[w].pc = "priced" /\ worker'[w].pc = "save"
    \/ worker[w].pc = "row" /\ worker'[w].pc = "update"
    \/ worker[w].pc = "update" /\ worker'[w].pc \in {"booked", "unhold"}
    \/ worker[w].pc = "unhold" /\ worker'[w].pc = "booked"
    \/ worker[w].pc = "save" /\ worker'[w].pc = "write"
    \/ worker[w].pc = "write" /\ worker'[w].pc = "rename"
    \/ worker[w].pc \in {"write", "rename"} /\ worker'[w].pc = AfterSave(w)

\* A step from one place to another keeps what the worker has, and the other worker.
LEMMA Advance ==
    ASSUME TypeOK, NEW w \in Workers, Advances(w)
    PROVE  /\ worker' \in [Workers -> WorkerRecs]
           /\ Moved(w)
           /\ Keeps(w)
           /\ Only(w)
<1>1. {"hold", "booked", "save", "update", "unhold", "write", "rename", "row", "quote"}
          \subseteq Pcs
    BY DEF Pcs
<1>2. AfterSave(w) \in Pcs
    BY <1>1 DEF AfterSave
<1>3. CASE w = "consumer" /\ EnterBook
    <2>1. Goto(w, "hold") /\ worker[w].pc = "quote"
        BY <1>3 DEF EnterBook, At
    <2>2. QED
        BY <1>1, <2>1, MovesTo DEF Moved
<1>4. CASE w = "consumer" /\ EnterHold
    <2>1. Goto(w, "booked") /\ worker[w].pc = "hold"
        BY <1>4 DEF EnterHold, At
    <2>2. QED
        BY <1>1, <2>1, MovesTo DEF Moved
<1>5. CASE CloseCredit(w)
    <2>1. Goto(w, "save") /\ worker[w].pc = "priced"
        BY <1>5 DEF CloseCredit, At
    <2>2. QED
        BY <1>1, <2>1, MovesTo DEF Moved
<1>6. CASE CloseRow(w)
    <2>1. Goto(w, "update") /\ worker[w].pc = "row"
        BY <1>6 DEF CloseRow, At
    <2>2. QED
        BY <1>1, <2>1, MovesTo DEF Moved
<1>7. CASE CloseUpdate(w)
    <2>1. (Goto(w, "booked") \/ Goto(w, "unhold")) /\ worker[w].pc = "update"
        BY <1>7 DEF CloseUpdate, At
    <2>2. QED
        BY <1>1, <2>1, MovesTo DEF Moved
<1>8. CASE CloseUnhold(w)
    <2>1. Goto(w, "booked") /\ worker[w].pc = "unhold"
        BY <1>8 DEF CloseUnhold, At
    <2>2. QED
        BY <1>1, <2>1, MovesTo DEF Moved
<1>9. CASE SaveCopy(w)
    <2>1. worker' = [worker EXCEPT ![w].pc = "write", ![w].snap = budget]
          /\ worker[w].pc = "save"
        BY <1>9 DEF SaveCopy, At
    <2>2. budget \in Budgets
        BY DEF TypeOK
    <2>3. QED
        BY <1>1, <2>1, <2>2, MovesSaving DEF Moved
<1>10. CASE SaveWrite(w)
    <2>1. Goto(w, "rename") /\ worker[w].pc = "write"
        BY <1>10 DEF SaveWrite, At
    <2>2. QED
        BY <1>1, <2>1, MovesTo DEF Moved
<1>11. CASE SaveRename(w) \/ SaveFails(w)
    <2>1. worker' = [worker EXCEPT ![w].pc = AfterSave(w), ![w].snap = NoBudgets]
          /\ worker[w].pc \in {"write", "rename"}
        BY <1>11 DEF SaveRename, SaveFails, At
    <2>2. QED
        BY <1>2, <2>1, MovesSaving, IdleType DEF Moved
<1>12. QED
    BY <1>3, <1>4, <1>5, <1>6, <1>7, <1>8, <1>9, <1>10, <1>11 DEF Advances

\* The steps of a worker that leave it with nothing in hand.
Rests(w) ==
    \/ w = "consumer" /\ EnterGivesUp
    \/ w = "consumer" /\ \E k \in Keys : ExitStart(k)
    \/ w = "sweeper" /\ SweepStart
    \/ SaveBook(w)

\* A worker that is done, or that begins, has nothing in hand.
LEMMA Rest ==
    ASSUME TypeOK, NEW w \in Workers, Rests(w)
    PROVE  /\ worker' \in [Workers -> WorkerRecs]
           /\ worker[w].pc \in {"quote", "idle", "booked"}
           /\ Resting(w)
           /\ Only(w)
<1>1. CASE w = "consumer" /\ EnterGivesUp
    BY <1>1, Finishes DEF EnterGivesUp, At
<1>2. CASE w = "consumer" /\ \E k \in Keys : ExitStart(k)
    BY <1>2, ExitStarts
<1>3. CASE w = "sweeper" /\ SweepStart
    BY <1>3, SweepStarts
<1>4. CASE SaveBook(w)
    BY <1>4, Finishes DEF SaveBook, At
<1>5. QED
    BY <1>1, <1>2, <1>3, <1>4 DEF Rests

\* Every step, by the worker that takes it.
LEMMA StepCases ==
    ASSUME Next
    PROVE  \/ \E k \in Keys : EnterReserve(k)
           \/ \E k \in Keys : HoldTimeout(k)
           \/ \E w \in Workers, k \in Keys : CloseRead(w, k)
           \/ \E w \in Workers, k \in Keys : CloseSkip(w, k)
           \/ \E w \in Workers : Advances(w)
           \/ \E w \in Workers : Rests(w)
           \/ Restart
<1>1. "consumer" \in Workers /\ "sweeper" \in Workers
    BY DEF Workers
<1>2. QED
    BY <1>1 DEF Next, CloseStep, Advances, Rests

---------------------------------------------------------------------------
\* The shape of the workers is kept.
LEMMA ShapeKept ==
    ASSUME TypeOK, Shaped, Next
    PROVE  Shaped' /\ worker' \in [Workers -> WorkerRecs]
<1>1. ASSUME NEW w \in Workers, Only(w), WellFormed(w, worker'[w])
      PROVE  Shaped'
    BY <1>1 DEF Only, Shaped
<1>2. ASSUME NEW k \in Keys, EnterReserve(k)
      PROVE  Shaped' /\ worker' \in [Workers -> WorkerRecs]
    <2>1. WellFormed("consumer", worker'["consumer"])
        BY <1>2, Reserves DEF WellFormed
    <2>2. QED
        BY <1>1, <1>2, <2>1, Reserves DEF Workers
<1>3. ASSUME NEW k \in Keys, HoldTimeout(k)
      PROVE  Shaped' /\ worker' \in [Workers -> WorkerRecs]
    BY <1>3 DEF HoldTimeout, Shaped, TypeOK, WorkerRecs
<1>4. ASSUME NEW w \in Workers, NEW k \in Keys, CloseRead(w, k)
      PROVE  Shaped' /\ worker' \in [Workers -> WorkerRecs]
    <2>1. worker[w].pc = "read" /\ WellFormed(w, worker[w])
        BY <1>4 DEF CloseRead, At, Shaped
    <2>2. worker[w].op \in {"none", "enter", "close"}
        BY WorkerType
    <2>3. worker[w].op = "close"
        BY <2>1, <2>2 DEF WellFormed
    <2>4. WellFormed(w, worker'[w])
        BY <1>4, <2>3, Reads DEF WellFormed
    <2>5. QED
        BY <1>1, <1>4, <2>4, Reads
<1>5. ASSUME NEW w \in Workers, NEW k \in Keys, CloseSkip(w, k)
      PROVE  Shaped' /\ worker' \in [Workers -> WorkerRecs]
    <2>1. worker[w].pc = "read" /\ WellFormed(w, worker[w])
        BY <1>5 DEF CloseSkip, At, Shaped
    <2>2. worker[w].op \in {"none", "enter", "close"}
        BY WorkerType
    <2>3. worker[w].op = "close"
        BY <2>1, <2>2 DEF WellFormed
    <2>4. WellFormed(w, worker'[w])
        BY <1>5, <2>3, Skips DEF WellFormed
    <2>5. QED
        BY <1>1, <1>5, <2>4, Skips
<1>6. ASSUME NEW w \in Workers, Advances(w)
      PROVE  Shaped' /\ worker' \in [Workers -> WorkerRecs]
    <2>1. WellFormed(w, worker[w])
        BY DEF Shaped
    <2>2. Moved(w) /\ Keeps(w) /\ Only(w) /\ worker' \in [Workers -> WorkerRecs]
        BY <1>6, Advance
    <2>3. worker[w].op \in {"none", "enter", "close"}
        BY WorkerType
    <2>4. WellFormed(w, worker'[w])
        BY <2>1, <2>2, <2>3 DEF WellFormed, Moved, Keeps, AfterSave
    <2>5. QED
        BY <1>1, <2>2, <2>4
<1>7. ASSUME NEW w \in Workers, Rests(w)
      PROVE  Shaped' /\ worker' \in [Workers -> WorkerRecs]
    <2>1. WellFormed(w, worker'[w])
        BY <1>7, Rest DEF WellFormed, Resting
    <2>2. QED
        BY <1>1, <1>7, <2>1, Rest
<1>8. ASSUME Restart
      PROVE  Shaped' /\ worker' \in [Workers -> WorkerRecs]
    <2>1. worker' = [w \in Workers |-> Idle]
        BY <1>8 DEF Restart
    <2>2. \A w \in Workers : WellFormed(w, Idle)
        BY DEF WellFormed, Idle
    <2>3. QED
        BY <2>1, <2>2, IdleType DEF Shaped
<1>9. QED
    BY <1>2, <1>3, <1>4, <1>5, <1>6, <1>7, <1>8, StepCases

---------------------------------------------------------------------------
(* What each action does to the rest of the state.                         *)

\* The budgets change by a reservation, a credit, or a restart.
LEMMA BudgetCases ==
    ASSUME Next
    PROVE  \/ UNCHANGED budget
           \/ \E k \in Keys : EnterReserve(k)
           \/ \E w \in Workers : CloseCredit(w)
           \/ Restart
<1>1. \A k \in Keys : ExitStart(k) \/ HoldTimeout(k) => UNCHANGED budget
    BY DEF ExitStart, HoldTimeout
<1>2. EnterGivesUp \/ EnterBook \/ EnterHold \/ SweepStart => UNCHANGED budget
    BY DEF EnterGivesUp, EnterBook, EnterHold, SweepStart
<1>3. \A w \in Workers, k \in Keys : CloseRead(w, k) \/ CloseSkip(w, k) => UNCHANGED budget
    BY DEF CloseRead, CloseSkip
<1>4. \A w \in Workers : CloseRow(w) \/ CloseUpdate(w) \/ CloseUnhold(w) \/ SaveCopy(w)
          \/ SaveWrite(w) \/ SaveRename(w) \/ SaveFails(w) \/ SaveBook(w) => UNCHANGED budget
    BY DEF CloseRow, CloseUpdate, CloseUnhold, SaveCopy, SaveWrite, SaveRename, SaveFails,
           SaveBook
<1>5. QED
    BY <1>1, <1>2, <1>3, <1>4 DEF Next, CloseStep

\* The book changes by an entry, a close, or a restart.
LEMMA BookCases ==
    ASSUME Next
    PROVE  \/ UNCHANGED book
           \/ EnterBook
           \/ \E w \in Workers : CloseUpdate(w)
           \/ Restart
<1>1. \A k \in Keys : EnterReserve(k) \/ ExitStart(k) \/ HoldTimeout(k) => UNCHANGED book
    BY DEF EnterReserve, ExitStart, HoldTimeout
<1>2. EnterGivesUp \/ EnterHold \/ SweepStart => UNCHANGED book
    BY DEF EnterGivesUp, EnterHold, SweepStart
<1>3. \A w \in Workers, k \in Keys : CloseRead(w, k) \/ CloseSkip(w, k) => UNCHANGED book
    BY DEF CloseRead, CloseSkip
<1>4. \A w \in Workers : CloseRow(w) \/ CloseCredit(w) \/ CloseUnhold(w) \/ SaveCopy(w)
          \/ SaveWrite(w) \/ SaveRename(w) \/ SaveFails(w) \/ SaveBook(w) => UNCHANGED book
    BY DEF CloseRow, CloseCredit, CloseUnhold, SaveCopy, SaveWrite, SaveRename, SaveFails,
           SaveBook
<1>5. QED
    BY <1>1, <1>2, <1>3, <1>4 DEF Next, CloseStep

\* The positions without tokens change with the book, and on file with save_book.
LEMMA TokenlessCases ==
    ASSUME Next
    PROVE  /\ \/ UNCHANGED tokenless
              \/ EnterBook
              \/ \E w \in Workers : CloseUpdate(w)
              \/ Restart
           /\ UNCHANGED json_tokenless \/ \E w \in Workers : SaveBook(w)
           /\ \A w \in Workers : SaveBook(w) => /\ UNCHANGED tokenless
                                                /\ ~ unsaved' /\ ~ unsaved
                                                       => json_tokenless' = tokenless
<1>1. \A k \in Keys : EnterReserve(k) \/ ExitStart(k) \/ HoldTimeout(k)
          => UNCHANGED <<tokenless, json_tokenless>>
    BY DEF EnterReserve, ExitStart, HoldTimeout, diskvars
<1>2. EnterGivesUp \/ EnterHold \/ SweepStart => UNCHANGED <<tokenless, json_tokenless>>
    BY DEF EnterGivesUp, EnterHold, SweepStart, diskvars
<1>3. \A w \in Workers, k \in Keys : CloseRead(w, k) \/ CloseSkip(w, k)
          => UNCHANGED <<tokenless, json_tokenless>>
    BY DEF CloseRead, CloseSkip, diskvars
<1>4. \A w \in Workers : CloseRow(w) \/ CloseCredit(w) \/ CloseUnhold(w) \/ SaveCopy(w)
          \/ SaveWrite(w) \/ SaveRename(w) \/ SaveFails(w)
          => UNCHANGED <<tokenless, json_tokenless>>
    BY DEF CloseRow, CloseCredit, CloseUnhold, SaveCopy, SaveWrite, SaveRename, SaveFails,
           diskvars
<1>5. EnterBook \/ Restart \/ (\E w \in Workers : CloseUpdate(w)) => UNCHANGED json_tokenless
    BY DEF EnterBook, Restart, CloseUpdate, diskvars
<1>6. \A w \in Workers : SaveBook(w) => /\ UNCHANGED tokenless
                                        /\ ~ unsaved' /\ ~ unsaved
                                               => json_tokenless' = tokenless
    BY DEF SaveBook
<1>7. QED
    BY <1>1, <1>2, <1>3, <1>4, <1>5, <1>6 DEF Next, CloseStep

\* The history of reservations and rows.
LEMMA TallyCases ==
    ASSUME Next
    PROVE  /\ UNCHANGED reserved \/ \E k \in Keys : EnterReserve(k)
           /\ UNCHANGED leaked \/ EnterGivesUp
           /\ UNCHANGED csv \/ \E w \in Workers : CloseRow(w)
           /\ stale => stale'
           /\ UNCHANGED stale \/ \E w \in Workers : CloseCredit(w) \/ CloseUpdate(w)
           /\ UNCHANGED crashes \/ Restart
<1>1. ASSUME NEW k \in Keys, EnterReserve(k)
      PROVE  UNCHANGED <<leaked, csv, stale, crashes>>
    BY <1>1 DEF EnterReserve, diskvars
<1>2. ASSUME NEW k \in Keys, ExitStart(k) \/ HoldTimeout(k)
      PROVE  UNCHANGED <<reserved, leaked, csv, stale, crashes>>
    BY <1>2 DEF ExitStart, HoldTimeout, diskvars, histvars, countvars
<1>3. EnterGivesUp => UNCHANGED <<reserved, csv, stale, crashes>>
    BY DEF EnterGivesUp, diskvars, countvars
<1>4. EnterBook \/ EnterHold \/ SweepStart => UNCHANGED <<reserved, leaked, csv, stale, crashes>>
    BY DEF EnterBook, EnterHold, SweepStart, diskvars, histvars, countvars
<1>5. ASSUME NEW w \in Workers, NEW k \in Keys, CloseRead(w, k) \/ CloseSkip(w, k)
      PROVE  UNCHANGED <<reserved, leaked, csv, stale, crashes>>
    BY <1>5 DEF CloseRead, CloseSkip, diskvars, histvars, countvars
<1>6. ASSUME NEW w \in Workers, CloseCredit(w) \/ CloseUpdate(w)
      PROVE  UNCHANGED <<reserved, leaked, csv, crashes>> /\ (stale => stale')
    BY <1>6 DEF CloseCredit, CloseUpdate, diskvars, countvars
<1>7. ASSUME NEW w \in Workers, CloseRow(w)
      PROVE  UNCHANGED <<reserved, leaked, stale, crashes>>
    BY <1>7 DEF CloseRow, histvars
<1>8. ASSUME NEW w \in Workers, CloseUnhold(w) \/ SaveCopy(w) \/ SaveWrite(w) \/ SaveRename(w)
                                \/ SaveFails(w) \/ SaveBook(w)
      PROVE  UNCHANGED <<reserved, leaked, csv, stale, crashes>>
    BY <1>8 DEF CloseUnhold, SaveCopy, SaveWrite, SaveRename, SaveFails, SaveBook, diskvars,
                histvars, countvars
<1>9. Restart => UNCHANGED <<reserved, leaked, csv, stale>>
    BY DEF Restart, diskvars, histvars
<1>10. QED
    BY <1>1, <1>2, <1>3, <1>4, <1>5, <1>6, <1>7, <1>8, <1>9 DEF Next, CloseStep

\* Key and KOL of a worker that is not idle or reading.
LEMMA WorkerKey ==
    ASSUME Base, NEW w \in Workers, worker[w].pc \notin {"idle", "read"}
    PROVE  /\ worker[w].key \in Keys
           /\ Kol(worker[w].key) \in Kols
           /\ Token(worker[w].key) \in Tokens
           /\ worker[w].amt \in Nat
           /\ worker[w].amt > 0
<1>1. WellFormed(w, worker[w])
    BY DEF Base, Shaped
<1>2. worker[w].op \in {"none", "enter", "close"} /\ worker[w].amt \in Nat
    BY WorkerType DEF Base
<1>3. worker[w].key \in Keys /\ worker[w].amt > 0
    BY <1>1, <1>2 DEF WellFormed
<1>4. QED
    BY <1>2, <1>3, KeyParts

\* The slice of a worker that is closing.
LEMMA WorkerSlice ==
    ASSUME Base, NEW w \in Workers, worker[w].pc \in PendingPcs \cup {"priced"},
           worker[w].op = "close"
    PROVE  /\ worker[w].slice \in Nat
           /\ worker[w].slice <= worker[w].amt
           /\ IF worker[w].full THEN worker[w].slice = worker[w].amt
                                ELSE worker[w].slice < worker[w].amt
<1>1. WellFormed(w, worker[w])
    BY DEF Base, Shaped
<1>2. worker[w].slice \in Nat /\ worker[w].amt \in Nat
    BY WorkerType DEF Base
<1>3. worker[w].pc # "read"
    BY DEF PendingPcs, UnrowedPcs
<1>4. IF worker[w].full THEN worker[w].slice = worker[w].amt
                        ELSE worker[w].slice < worker[w].amt
    BY <1>1, <1>3 DEF WellFormed
<1>5. QED
    BY <1>2, <1>4

\* The steps of a worker's close.
LEMMA CloserOp ==
    ASSUME Base, NEW w \in Workers, worker[w].pc \in {"priced", "row", "update", "unhold"}
    PROVE  worker[w].op = "close"
<1>1. WellFormed(w, worker[w]) /\ worker[w].op \in {"none", "enter", "close"}
    BY WorkerType DEF Base, Shaped
<1>2. QED
    BY <1>1 DEF WellFormed

\* Only the consumer enters.
LEMMA EntererOp ==
    ASSUME Base, NEW w \in Workers, worker[w].pc \in {"quote", "hold"}
    PROVE  worker[w].op = "enter" /\ w = "consumer"
<1>1. WellFormed(w, worker[w]) /\ worker[w].op \in {"none", "enter", "close"}
    BY WorkerType DEF Base, Shaped
<1>2. QED
    BY <1>1 DEF WellFormed

\* The rows of the other KOLs are as they were.
OthersKeep(n) == \A m \in Kols : m # n => budget'[m] = budget[m]

Rows == [known: BOOLEAN, cash: Nat, committed: Nat, pnl: Int]

\* A KOL's row with other numbers in it is a row.
LEMMA RowWith ==
    ASSUME NEW r \in Rows
    PROVE  /\ \A x, y \in Nat : [r EXCEPT !.known = TRUE, !.cash = x, !.committed = y] \in Rows
           /\ \A x, y \in Nat, z \in Int :
                  [r EXCEPT !.committed = y, !.cash = x, !.pnl = z] \in Rows
    BY DEF Rows

\* try_reserve on the KOL's row.
LEMMA ReserveEffect ==
    ASSUME Base, NEW k \in Keys, EnterReserve(k)
    PROVE  /\ budget' \in Budgets
           /\ budget'[Kol(k)].known
           /\ budget'[Kol(k)].cash = budget[Kol(k)].cash - Want(Kol(k))
           /\ budget'[Kol(k)].committed = budget[Kol(k)].committed + Want(Kol(k))
           /\ budget'[Kol(k)].pnl = budget[Kol(k)].pnl
           /\ OthersKeep(Kol(k))
<1>1. PICK n \in Kols : n = Kol(k)
    BY KeyParts
<1>2. PICK a \in Nat : a = Want(n) /\ a <= budget[n].cash
    BY <1>1, WantBound DEF Base
<1>3. budget \in [Kols -> Rows]
    BY DEF Base, TypeOK, Budgets, Rows
<1>4. budget' = [budget EXCEPT ![n].known = TRUE, ![n].cash = @ - a, ![n].committed = @ + a]
    BY <1>1, <1>2 DEF EnterReserve
<1>5. PICK c : c = [budget[n] EXCEPT !.known = TRUE, !.cash = @ - a, !.committed = @ + a]
    OBVIOUS
<1>6. budget[n] \in Rows
    BY <1>3
<1>7. /\ c.known /\ c.cash = budget[n].cash - a
      /\ c.committed = budget[n].committed + a /\ c.pnl = budget[n].pnl
    BY <1>5, <1>6 DEF Rows
<1>8. c \in Rows
    <2>1. PICK x \in Nat, y \in Nat : x = budget[n].cash - a /\ y = budget[n].committed + a
        BY <1>2, <1>6 DEF Rows
    <2>2. c = [budget[n] EXCEPT !.known = TRUE, !.cash = x, !.committed = y]
        BY <1>5, <2>1
    <2>3. PICK r \in Rows : r = budget[n]
        BY <1>6
    <2>4. [r EXCEPT !.known = TRUE, !.cash = x, !.committed = y] \in Rows
        BY RowWith
    <2>5. QED
        BY <2>2, <2>3, <2>4
<1>9. budget' = [budget EXCEPT ![n] = c]
    BY <1>3, <1>4, <1>5
<1>10. budget' \in [Kols -> Rows] /\ budget'[n] = c /\ OthersKeep(n)
    BY <1>3, <1>8, <1>9 DEF OthersKeep
<1>11. QED
    BY <1>1, <1>2, <1>7, <1>10 DEF Budgets, Rows

\* credit_close on the KOL's row, if it has one.
LEMMA CreditEffect ==
    ASSUME Base, NEW w \in Workers, CloseCredit(w)
    PROVE  LET n == Kol(worker[w].key)
               s == worker[w].slice
           IN  /\ budget' \in Budgets
               /\ OthersKeep(n)
               /\ budget'[n].known = budget[n].known
               /\ budget'[n].committed <= budget[n].committed
               /\ budget[n].known =>
                      /\ budget'[n].committed = Minus(budget[n].committed, s)
                      /\ budget'[n].cash - budget'[n].pnl = budget[n].cash - budget[n].pnl + s
<1>1. worker[w].pc = "priced"
    BY DEF CloseCredit, At
<1>2. PICK n \in Kols : n = Kol(worker[w].key)
    BY <1>1, WorkerKey
<1>3. PICK s \in Nat : s = worker[w].slice
    BY WorkerType DEF Base
<1>4. budget \in [Kols -> Rows] /\ budget[n] \in Rows
    BY DEF Base, TypeOK, Budgets, Rows
<1>5. PICK out \in Nat :
          budget' = IF budget[n].known
                    THEN [budget EXCEPT ![n] = Credited(@, s, out)] ELSE budget
    BY <1>2, <1>3 DEF CloseCredit, Proceeds
<1>6. PICK c : c = IF budget[n].known THEN Credited(budget[n], s, out) ELSE budget[n]
    OBVIOUS
<1>7. /\ Minus(budget[n].committed, s) \in Nat
      /\ Minus(budget[n].committed, s) <= budget[n].committed
    BY <1>4 DEF Minus, Rows
<1>8. c \in Rows
    <2>1. PICK x \in Nat, y \in Nat, z \in Int :
              /\ x = budget[n].cash + out
              /\ y = Minus(budget[n].committed, s)
              /\ z = budget[n].pnl + (out - s)
        BY <1>4, <1>7 DEF Rows
    <2>2. Credited(budget[n], s, out) = [budget[n] EXCEPT !.committed = y, !.cash = x, !.pnl = z]
        BY <2>1 DEF Credited
    <2>3. PICK r \in Rows : r = budget[n]
        BY <1>4
    <2>4. [r EXCEPT !.committed = y, !.cash = x, !.pnl = z] \in Rows
        BY RowWith
    <2>5. QED
        BY <1>4, <1>6, <2>2, <2>3, <2>4
<1>9. /\ c.known = budget[n].known
      /\ budget[n].known => /\ c.committed = Minus(budget[n].committed, s)
                            /\ c.cash = budget[n].cash + out
                            /\ c.pnl = budget[n].pnl + (out - s)
      /\ ~ budget[n].known => c = budget[n]
    BY <1>4, <1>6 DEF Credited, Rows
<1>10. budget' = [budget EXCEPT ![n] = c]
    BY <1>4, <1>5, <1>6
<1>11. budget' \in [Kols -> Rows] /\ budget'[n] = c /\ OthersKeep(n)
    BY <1>4, <1>8, <1>10 DEF OthersKeep
<1>12. c.committed <= budget[n].committed
    BY <1>4, <1>7, <1>9 DEF Rows
<1>13. budget[n].known => c.cash - c.pnl = budget[n].cash - budget[n].pnl + s
    BY <1>4, <1>9 DEF Rows
<1>14. QED
    BY <1>2, <1>3, <1>9, <1>11, <1>12, <1>13 DEF Budgets, Rows

\* The book after a close.
LEMMA ClosedEffect ==
    ASSUME Base, NEW w \in Workers, CloseUpdate(w)
    PROVE  /\ book' \in [Keys -> Nat]
           /\ \A k \in Keys : k # worker[w].key => book'[k] = book[k]
           /\ book'[worker[w].key] =
                  IF worker[w].full \/ book[worker[w].key] = 0 THEN 0
                  ELSE worker[w].amt - worker[w].slice
           /\ book'[worker[w].key] = 0 <=> worker[w].full \/ book[worker[w].key] = 0
           /\ worker[w].key \in Keys
<1>1. worker[w].pc = "update"
    BY DEF CloseUpdate, At
<1>2. PICK k \in Keys : k = worker[w].key
    BY <1>1, WorkerKey
<1>3. worker[w].op = "close"
    BY <1>1, CloserOp
<1>4. PICK a \in Nat, s \in Nat : /\ a = worker[w].amt /\ s = worker[w].slice
                                  /\ IF worker[w].full THEN s = a ELSE s < a
    BY <1>1, <1>3, WorkerSlice, WorkerKey DEF PendingPcs
<1>5. PICK b : b = IF worker[w].full \/ book[k] = 0 THEN 0 ELSE a - s
    OBVIOUS
<1>6. b \in Nat /\ (b = 0 <=> worker[w].full \/ book[k] = 0)
    BY <1>4, <1>5
<1>7. book \in [Keys -> Nat]
    BY DEF Base, TypeOK
<1>8. book' = [book EXCEPT ![k] = b]
    BY <1>2, <1>4, <1>5 DEF CloseUpdate, Closed
<1>9. QED
    BY <1>2, <1>4, <1>5, <1>6, <1>7, <1>8

\* open_or_add on the book.
LEMMA EnterBookEffect ==
    ASSUME Base, EnterBook
    PROVE  /\ book' \in [Keys -> Nat]
           /\ worker["consumer"].key \in Keys
           /\ \A k \in Keys : k # worker["consumer"].key => book'[k] = book[k]
           /\ book'[worker["consumer"].key] =
                  book[worker["consumer"].key] + worker["consumer"].amt
           /\ book'[worker["consumer"].key] # 0
           /\ worker["consumer"].amt \in Nat
<1>1. "consumer" \in Workers /\ worker["consumer"].pc = "quote"
    BY DEF EnterBook, At, Workers
<1>2. PICK k \in Keys : k = worker["consumer"].key
    BY <1>1, WorkerKey
<1>3. PICK a \in Nat : a = worker["consumer"].amt /\ a > 0
    BY <1>1, WorkerKey
<1>4. book \in [Keys -> Nat]
    BY DEF Base, TypeOK
<1>5. book' = [book EXCEPT ![k] = @ + a]
    BY <1>2, <1>3 DEF EnterBook
<1>6. QED
    BY <1>2, <1>3, <1>4, <1>5

---------------------------------------------------------------------------
\* The first state has its types and shapes.
LEMMA InitBase == Init => Base
<1>1. SUFFICES ASSUME Init
               PROVE  TypeOK /\ Shaped
    BY DEF Base
<1>2. worker = [w \in Workers |-> Idle]
    BY <1>1 DEF Init
<1>3. worker \in [Workers -> WorkerRecs] /\ NoBudgets \in Budgets
    BY <1>2, IdleType
<1>4. TypeOK
    BY <1>1, <1>3 DEF Init, TypeOK, WorkerRecs
<1>5. \A w \in Workers : WellFormed(w, Idle)
    BY DEF WellFormed, Idle
<1>6. QED
    BY <1>2, <1>4, <1>5 DEF Shaped

\* One more entry, exit, restart or fault.
LEMMA CountType ==
    ASSUME Base, Next
    PROVE  entries' \in Nat /\ exits' \in Nat /\ crashes' \in Nat /\ faults' \in Nat
<1>1. entries \in Nat /\ exits \in Nat /\ crashes \in Nat /\ faults \in Nat
    BY DEF Base, TypeOK
<1>2. ASSUME NEW k \in Keys, EnterReserve(k) \/ ExitStart(k) \/ HoldTimeout(k)
      PROVE  /\ entries' \in {entries, entries + 1} /\ exits' \in {exits, exits + 1}
             /\ UNCHANGED <<crashes, faults>>
    BY <1>2 DEF EnterReserve, ExitStart, HoldTimeout, countvars
<1>3. EnterGivesUp \/ EnterBook \/ EnterHold \/ SweepStart => UNCHANGED countvars
    BY DEF EnterGivesUp, EnterBook, EnterHold, SweepStart
<1>4. ASSUME NEW w \in Workers, CloseStep(w)
      PROVE  /\ UNCHANGED <<entries, exits, crashes>>
             /\ faults' \in {faults, faults + 1}
    <2>1. ASSUME NEW k \in Keys, CloseRead(w, k) \/ CloseSkip(w, k)
          PROVE  UNCHANGED countvars
        BY <2>1 DEF CloseRead, CloseSkip
    <2>2. CloseCredit(w) \/ CloseUpdate(w) \/ CloseUnhold(w) \/ SaveCopy(w) \/ SaveWrite(w)
              \/ SaveRename(w) => UNCHANGED countvars
        BY DEF CloseCredit, CloseUpdate, CloseUnhold, SaveCopy, SaveWrite, SaveRename
    <2>3. CloseRow(w) \/ SaveFails(w) \/ SaveBook(w) =>
              /\ UNCHANGED <<entries, exits, crashes>>
              /\ faults' \in {faults, faults + 1}
        BY DEF CloseRow, SaveFails, SaveBook, Fault
    <2>4. QED
        BY <1>4, <2>1, <2>2, <2>3 DEF CloseStep, countvars
<1>5. Restart => UNCHANGED <<entries, exits, faults>> /\ crashes' = crashes + 1
    BY DEF Restart
<1>6. QED
    BY <1>1, <1>2, <1>3, <1>4, <1>5 DEF Next, countvars

\* The held set and the keys past their timeout.
LEMMA HeldType ==
    ASSUME Base, Next
    PROVE  held' \subseteq Tokens /\ aged' \subseteq Keys
<1>1. held \subseteq Tokens /\ aged \subseteq Keys
    BY DEF Base, TypeOK
<1>2. ASSUME NEW k \in Keys, EnterReserve(k) \/ ExitStart(k) \/ HoldTimeout(k)
      PROVE  UNCHANGED held /\ aged' \subseteq aged \cup {k}
    BY <1>2 DEF EnterReserve, ExitStart, HoldTimeout
<1>3. EnterGivesUp \/ EnterBook \/ SweepStart => UNCHANGED <<held, aged>>
    BY DEF EnterGivesUp, EnterBook, SweepStart
<1>4. EnterHold => UNCHANGED aged /\ held' = held \cup {Token(worker["consumer"].key)}
                   /\ Token(worker["consumer"].key) \in Tokens
    BY WorkerKey DEF EnterHold, At, Workers
<1>5. ASSUME NEW w \in Workers, CloseStep(w)
      PROVE  held' \subseteq held /\ aged' \subseteq aged
    <2>1. ASSUME NEW k \in Keys, CloseRead(w, k) \/ CloseSkip(w, k)
          PROVE  UNCHANGED <<held, aged>>
        BY <2>1 DEF CloseRead, CloseSkip
    <2>2. CloseCredit(w) \/ CloseRow(w) \/ SaveCopy(w) \/ SaveWrite(w)
              \/ SaveRename(w) \/ SaveFails(w) \/ SaveBook(w) => UNCHANGED <<held, aged>>
        BY DEF CloseCredit, CloseRow, SaveCopy, SaveWrite, SaveRename, SaveFails, SaveBook
    <2>3. CloseUpdate(w) \/ CloseUnhold(w) => held' \subseteq held /\ aged' \subseteq aged
        BY DEF CloseUpdate, CloseUnhold
    <2>4. QED
        BY <1>5, <2>1, <2>2, <2>3 DEF CloseStep
<1>6. Restart => held' \subseteq Tokens /\ aged' = {}
    BY KeyParts DEF Restart
<1>7. QED
    BY <1>1, <1>2, <1>3, <1>4, <1>5, <1>6 DEF Next

\* The files.
LEMMA FileType ==
    ASSUME Base, Next
    PROVE  /\ tmp' \in Budgets \cup {NoFile}
           /\ file' \in Budgets \cup {NoFile}
           /\ json' \in [Keys -> Nat]
<1>1. /\ tmp \in Budgets \cup {NoFile}
      /\ file \in Budgets \cup {NoFile}
      /\ json \in [Keys -> Nat]
      /\ book \in [Keys -> Nat]
      /\ \A w \in Workers : worker[w].snap \in Budgets
    BY WorkerType DEF Base, TypeOK
<1>2. ASSUME NEW k \in Keys, EnterReserve(k) \/ ExitStart(k) \/ HoldTimeout(k)
      PROVE  UNCHANGED <<tmp, file, json>>
    BY <1>2 DEF EnterReserve, ExitStart, HoldTimeout, diskvars
<1>3. EnterGivesUp \/ EnterBook \/ EnterHold \/ SweepStart => UNCHANGED <<tmp, file, json>>
    BY DEF EnterGivesUp, EnterBook, EnterHold, SweepStart, diskvars
<1>4. ASSUME NEW w \in Workers, CloseStep(w)
      PROVE  /\ tmp' \in {tmp, NoFile, worker[w].snap}
             /\ file' \in {tmp, file}
             /\ json' \in {json, book}
    <2>1. ASSUME NEW k \in Keys, CloseRead(w, k) \/ CloseSkip(w, k)
          PROVE  UNCHANGED <<tmp, file, json>>
        BY <2>1 DEF CloseRead, CloseSkip, diskvars
    <2>2. CloseCredit(w) \/ CloseRow(w) \/ CloseUpdate(w) \/ CloseUnhold(w) \/ SaveCopy(w)
              \/ SaveFails(w) => UNCHANGED <<tmp, file, json>>
        BY DEF CloseCredit, CloseRow, CloseUpdate, CloseUnhold, SaveCopy, SaveFails, diskvars
    <2>3. SaveWrite(w) => UNCHANGED <<file, json>> /\ tmp' = worker[w].snap
        BY DEF SaveWrite
    <2>4. SaveRename(w) => UNCHANGED json /\ file' \in {tmp, file} /\ tmp' = NoFile
        BY DEF SaveRename
    <2>5. SaveBook(w) => UNCHANGED <<tmp, file>> /\ json' \in {json, book}
        BY DEF SaveBook, JsonOf
    <2>6. QED
        BY <1>4, <2>1, <2>2, <2>3, <2>4, <2>5 DEF CloseStep
<1>5. Restart => UNCHANGED <<tmp, file, json>>
    BY DEF Restart, diskvars
<1>6. QED
    BY <1>1, <1>2, <1>3, <1>4, <1>5 DEF Next

\* The positions without tokens, in memory and on file.
LEMMA TokenlessType ==
    ASSUME Base, Next
    PROVE  tokenless' \subseteq Keys /\ json_tokenless' \subseteq Keys
<1>1. tokenless \subseteq Keys /\ json_tokenless \subseteq Keys
    BY DEF Base, TypeOK
<1>2. EnterBook => tokenless' \subseteq Keys
    <2>1. SUFFICES ASSUME EnterBook
                   PROVE  tokenless' \subseteq Keys
        OBVIOUS
    <2>2. PICK k \in Keys : k = worker["consumer"].key
        BY <2>1, WorkerKey DEF EnterBook, At, Workers
    <2>3. tokenless' \subseteq tokenless \cup {k}
        BY <2>1, <2>2 DEF EnterBook
    <2>4. QED
        BY <1>1, <2>2, <2>3
<1>3. \A w \in Workers : CloseUpdate(w) => tokenless' \subseteq tokenless
    BY DEF CloseUpdate
<1>4. Restart => tokenless' = json_tokenless /\ json_tokenless' = json_tokenless
    BY DEF Restart, diskvars
<1>5. \A w \in Workers : SaveBook(w) => json_tokenless' \in {tokenless, json_tokenless}
    BY DEF SaveBook
<1>6. tokenless' \subseteq Keys
    BY <1>1, <1>2, <1>3, <1>4, TokenlessCases
<1>7. json_tokenless' \subseteq Keys
    BY <1>1, <1>4, <1>5, TokenlessCases
<1>8. QED
    BY <1>6, <1>7

\* The totals per KOL.
LEMMA TallyType ==
    ASSUME Base, Next
    PROVE  /\ reserved' \in [Kols -> Nat]
           /\ leaked' \in [Kols -> Nat]
           /\ csv' \in [Kols -> Nat]
<1>1. reserved \in [Kols -> Nat] /\ leaked \in [Kols -> Nat] /\ csv \in [Kols -> Nat]
    BY DEF Base, TypeOK
<1>2. ASSUME NEW k \in Keys, EnterReserve(k)
      PROVE  reserved' \in [Kols -> Nat]
    <2>1. PICK n \in Kols, a \in Nat : n = Kol(k) /\ a = Want(Kol(k))
        BY KeyParts, WantBound DEF Base
    <2>2. reserved' = [reserved EXCEPT ![n] = @ + a]
        BY <1>2, <2>1 DEF EnterReserve
    <2>3. QED
        BY <1>1, <2>1, <2>2
<1>3. ASSUME EnterGivesUp
      PROVE  leaked' \in [Kols -> Nat]
    <2>1. "consumer" \in Workers /\ worker["consumer"].pc = "quote"
        BY <1>3 DEF EnterGivesUp, At, Workers
    <2>2. PICK n \in Kols, a \in Nat : n = Kol(worker["consumer"].key) /\ a = worker["consumer"].amt
        BY <2>1, WorkerKey
    <2>3. leaked' = [leaked EXCEPT ![n] = @ + a]
        BY <1>3, <2>2 DEF EnterGivesUp
    <2>4. QED
        BY <1>1, <2>2, <2>3
<1>4. ASSUME NEW w \in Workers, CloseRow(w)
      PROVE  csv' \in [Kols -> Nat]
    <2>1. PICK n \in Kols, a \in Nat : n = Kol(worker[w].key) /\ a = worker[w].slice
        BY <1>4, WorkerType, WorkerKey DEF Base, CloseRow, At
    <2>2. csv' = csv \/ csv' = [csv EXCEPT ![n] = @ + a]
        BY <1>4, <2>1 DEF CloseRow
    <2>3. QED
        BY <1>1, <2>1, <2>2
<1>5. QED
    BY <1>1, <1>2, <1>3, <1>4, TallyCases

\* The flags.
LEMMA FlagType ==
    ASSUME Base, Next
    PROVE  stale' \in BOOLEAN /\ crossed' \in BOOLEAN /\ unsaved' \in BOOLEAN
<1>1. stale \in BOOLEAN /\ crossed \in BOOLEAN /\ unsaved \in BOOLEAN
    BY DEF Base, TypeOK
<1>2. ASSUME NEW k \in Keys, EnterReserve(k) \/ ExitStart(k) \/ HoldTimeout(k)
      PROVE  UNCHANGED <<stale, crossed, unsaved>>
    BY <1>2 DEF EnterReserve, ExitStart, HoldTimeout, histvars
<1>3. EnterGivesUp \/ EnterHold \/ SweepStart \/ Restart => UNCHANGED <<stale, crossed, unsaved>>
    BY DEF EnterGivesUp, EnterHold, SweepStart, Restart, histvars
<1>4. EnterBook => UNCHANGED <<stale, unsaved>> /\ crossed' \in BOOLEAN
    BY DEF EnterBook
<1>5. ASSUME NEW w \in Workers, CloseStep(w)
      PROVE  stale' \in BOOLEAN /\ crossed' \in BOOLEAN /\ unsaved' \in BOOLEAN
    <2>1. ASSUME NEW k \in Keys, CloseRead(w, k) \/ CloseSkip(w, k)
          PROVE  UNCHANGED <<stale, crossed, unsaved>>
        BY <2>1 DEF CloseRead, CloseSkip, histvars
    <2>2. CloseRow(w) \/ CloseUnhold(w) \/ SaveWrite(w) \/ SaveRename(w)
              => UNCHANGED <<stale, crossed, unsaved>>
        BY DEF CloseRow, CloseUnhold, SaveWrite, SaveRename, histvars
    <2>3. CloseCredit(w) => UNCHANGED <<crossed, unsaved>> /\ stale' \in BOOLEAN
        BY DEF CloseCredit
    <2>4. CloseUpdate(w) => UNCHANGED unsaved /\ stale' \in BOOLEAN /\ crossed' \in BOOLEAN
        BY DEF CloseUpdate
    <2>5. SaveCopy(w) \/ SaveFails(w) \/ SaveBook(w) =>
              UNCHANGED <<stale, crossed>> /\ unsaved' \in BOOLEAN
        BY <1>1 DEF SaveCopy, SaveFails, SaveBook
    <2>6. QED
        BY <1>1, <1>5, <2>1, <2>2, <2>3, <2>4, <2>5 DEF CloseStep
<1>6. QED
    BY <1>1, <1>2, <1>3, <1>4, <1>5 DEF Next

\* Types and shapes are kept.
LEMMA NextBase ==
    ASSUME Base, [Next]_ptvars
    PROVE  Base'
<1>1. CASE UNCHANGED ptvars
    BY <1>1 DEF Base, TypeOK, Shaped, ptvars, memvars, diskvars, histvars, countvars
<1>2. CASE Next
    <2>1. Shaped' /\ worker' \in [Workers -> WorkerRecs]
        BY <1>2, ShapeKept DEF Base
    <2>2. budget' \in Budgets
        <3>1. budget \in Budgets /\ file \in Budgets \cup {NoFile}
            BY DEF Base, TypeOK
        <3>2. Restart => budget' \in Budgets
            BY <3>1, IdleType DEF Restart
        <3>3. QED
            BY <1>2, <3>1, <3>2, BudgetCases, ReserveEffect, CreditEffect
    <2>3. book' \in [Keys -> Nat]
        <3>1. book \in [Keys -> Nat] /\ json \in [Keys -> Nat]
            BY DEF Base, TypeOK
        <3>2. Restart => book' \in [Keys -> Nat]
            BY <3>1 DEF Restart
        <3>3. QED
            BY <1>2, <3>1, <3>2, BookCases, EnterBookEffect, ClosedEffect
    <2>4. TypeOK'
        BY <1>2, <2>1, <2>2, <2>3, CountType, HeldType, TokenlessType, FileType, TallyType,
           FlagType
           DEF TypeOK, WorkerRecs
    <2>5. QED
        BY <2>1, <2>4 DEF Base
<1>3. QED
    BY <1>1, <1>2

\* The paper trader's memory, files and workers keep their types, for any KOLs and tokens.
THEOREM TypeCorrect == Spec => []TypeOK
<1>1. Base => TypeOK
    BY DEF Base
<1>2. QED
    BY <1>1, InitBase, NextBase, PTL DEF Spec

---------------------------------------------------------------------------
(* What a step is to one worker.                                           *)

\* The place of a worker tells which of its steps it takes.
LEMMA WhichAdvance ==
    ASSUME NEW w \in Workers, Advances(w)
    PROVE  /\ worker[w].pc = "quote" => w = "consumer" /\ EnterBook
           /\ worker[w].pc = "hold" => w = "consumer" /\ EnterHold
           /\ worker[w].pc = "priced" => CloseCredit(w)
           /\ worker[w].pc = "row" => CloseRow(w)
           /\ worker[w].pc = "update" => CloseUpdate(w)
           /\ worker[w].pc = "unhold" => CloseUnhold(w)
           /\ worker[w].pc = "save" => SaveCopy(w)
           /\ worker[w].pc = "write" => SaveWrite(w) \/ SaveFails(w)
           /\ worker[w].pc = "rename" => SaveRename(w)
<1>1. /\ w = "consumer" /\ EnterBook => worker[w].pc = "quote"
      /\ w = "consumer" /\ EnterHold => worker[w].pc = "hold"
      /\ CloseCredit(w) => worker[w].pc = "priced"
      /\ CloseRow(w) => worker[w].pc = "row"
      /\ CloseUpdate(w) => worker[w].pc = "update"
      /\ CloseUnhold(w) => worker[w].pc = "unhold"
    BY DEF EnterBook, EnterHold, CloseCredit, CloseRow, CloseUpdate, CloseUnhold, At
<1>2. /\ SaveCopy(w) => worker[w].pc = "save"
      /\ SaveWrite(w) \/ SaveFails(w) => worker[w].pc = "write"
      /\ SaveRename(w) => worker[w].pc = "rename"
    BY DEF SaveCopy, SaveWrite, SaveFails, SaveRename, At
<1>3. QED
    BY <1>1, <1>2 DEF Advances

\* What a step that is no restart can do to one worker.
LEMMA WorkerCases ==
    ASSUME Base, Next, ~ Restart, NEW w \in Workers
    PROVE  \/ worker'[w] = worker[w]
           \/ w = "consumer" /\ \E k \in Keys : EnterReserve(k)
           \/ \E k \in Keys : CloseRead(w, k)
           \/ \E k \in Keys : CloseSkip(w, k)
           \/ Advances(w)
           \/ Rests(w)
<1>1. ASSUME NEW k \in Keys, EnterReserve(k)
      PROVE  Only("consumer")
    BY <1>1, Reserves DEF Base
<1>2. ASSUME NEW k \in Keys, HoldTimeout(k)
      PROVE  worker' = worker
    BY <1>2 DEF HoldTimeout
<1>3. ASSUME NEW v \in Workers, NEW k \in Keys, CloseRead(v, k)
      PROVE  Only(v)
    BY <1>3, Reads DEF Base
<1>4. ASSUME NEW v \in Workers, NEW k \in Keys, CloseSkip(v, k)
      PROVE  Only(v)
    BY <1>4, Skips DEF Base
<1>5. ASSUME NEW v \in Workers, Advances(v)
      PROVE  Only(v)
    BY <1>5, Advance DEF Base
<1>6. ASSUME NEW v \in Workers, Rests(v)
      PROVE  Only(v)
    BY <1>6, Rest DEF Base
<1>7. QED
    BY <1>1, <1>2, <1>3, <1>4, <1>5, <1>6, StepCases DEF Only

\* The op of a worker that is idle, reading, or at a step of a close.
LEMMA OpOf ==
    ASSUME Base, NEW w \in Workers
    PROVE  /\ worker[w].pc = "idle" <=> worker[w].op = "none"
           /\ worker[w].pc = "read" => worker[w].op = "close"
<1>1. WellFormed(w, worker[w]) /\ worker[w].op \in {"none", "enter", "close"}
    BY WorkerType DEF Base, Shaped
<1>2. QED
    BY <1>1 DEF WellFormed

\* A credited close stays credited, with its numbers, until it reaches the book; and
\* becomes so only by its credit.
LEMMA PendingKept ==
    ASSUME Base, Next, ~ Restart, NEW w \in Workers, ~ CloseCredit(w), ~ CloseUpdate(w)
    PROVE  /\ CreditPending(w)' <=> CreditPending(w)
           /\ CreditPending(w) => Keeps(w)
<1>1. CASE worker'[w] = worker[w]
    BY <1>1 DEF CreditPending, Keeps
<1>2. CASE w = "consumer" /\ \E k \in Keys : EnterReserve(k)
    <2>1. worker[w].pc = "idle" /\ worker'[w].op = "enter"
        BY <1>2, Reserves DEF Base
    <2>2. QED
        BY <2>1 DEF CreditPending, PendingPcs, UnrowedPcs
<1>3. CASE \E k \in Keys : CloseRead(w, k)
    <2>1. worker[w].pc = "read" /\ worker'[w].pc = "priced"
        BY <1>3, Reads DEF CloseRead, At, Base
    <2>2. QED
        BY <2>1 DEF CreditPending, PendingPcs, UnrowedPcs
<1>4. CASE \E k \in Keys : CloseSkip(w, k)
    <2>1. worker[w].pc = "read" /\ worker'[w].pc \in {"idle", "read"}
        BY <1>4, Skips DEF CloseSkip, At, Base
    <2>2. QED
        BY <2>1 DEF CreditPending, PendingPcs, UnrowedPcs
<1>5. CASE Advances(w)
    <2>1. Moved(w) /\ Keeps(w)
        BY <1>5, Advance DEF Base
    <2>2. worker[w].pc # "priced" /\ worker[w].pc # "update"
        BY <1>5, WhichAdvance
    <2>3. QED
        BY <2>1, <2>2 DEF Moved, Keeps, AfterSave, CreditPending, PendingPcs, UnrowedPcs
<1>6. CASE Rests(w)
    <2>1. worker[w].pc \in {"quote", "idle", "booked"} /\ worker'[w].pc \in {"idle", "read"}
        BY <1>6, Rest DEF Base, Resting
    <2>2. QED
        BY <2>1 DEF CreditPending, PendingPcs, UnrowedPcs
<1>7. QED
    BY <1>1, <1>2, <1>3, <1>4, <1>5, <1>6, WorkerCases

\* A close that reaches the book is no longer pending; one that is credited is.
LEMMA PendingMoves ==
    ASSUME Base, NEW w \in Workers
    PROVE  /\ CloseCredit(w) => /\ Keeps(w) /\ Only(w)
                                /\ CreditPending(w)'
                                /\ ~ CreditPending(w)
                                /\ worker[w].pc = "priced"
                                /\ worker'[w].pc = "save"
                                /\ worker[w].op = "close"
           /\ CloseUpdate(w) => /\ Keeps(w) /\ Only(w)
                                /\ ~ CreditPending(w)'
                                /\ CreditPending(w)
                                /\ worker[w].pc = "update"
                                /\ worker'[w].pc \in {"booked", "unhold"}
                                /\ worker[w].op = "close"
<1>1. ASSUME CloseCredit(w)
      PROVE  /\ Keeps(w) /\ Only(w) /\ worker[w].pc = "priced" /\ worker'[w].pc = "save"
             /\ worker[w].op = "close"
    <2>1. worker[w].pc = "priced"
        BY <1>1 DEF CloseCredit, At
    <2>2. Moved(w) /\ Keeps(w) /\ Only(w)
        BY <1>1, Advance DEF Base, Advances
    <2>3. QED
        BY <2>1, <2>2, CloserOp DEF Moved
<1>2. ASSUME CloseUpdate(w)
      PROVE  /\ Keeps(w) /\ Only(w) /\ worker[w].pc = "update"
             /\ worker'[w].pc \in {"booked", "unhold"}
             /\ worker[w].op = "close"
    <2>1. worker[w].pc = "update"
        BY <1>2 DEF CloseUpdate, At
    <2>2. Moved(w) /\ Keeps(w) /\ Only(w)
        BY <1>2, Advance DEF Base, Advances
    <2>3. QED
        BY <2>1, <2>2, CloserOp DEF Moved
<1>3. QED
    BY <1>1, <1>2 DEF CreditPending, PendingPcs, UnrowedPcs, Keeps

---------------------------------------------------------------------------
\* A credited close keeps its position under it, as long as no close was stale.
LEMMA FreshKept ==
    ASSUME Base, Fresh, Next
    PROVE  Fresh'
<1>1. SUFFICES ASSUME ~ stale'
               PROVE  /\ \A w \in Workers : CreditPending(w)'
                             => worker'[w].amt <= book'[worker'[w].key]
                      /\ \A v, w \in Workers : CreditPending(v)' /\ CreditPending(w)' /\ v # w
                             => worker'[v].key # worker'[w].key
    BY DEF Fresh
<1>2. ~ stale
    BY <1>1, TallyCases
<1>3. /\ \A w \in Workers : CreditPending(w) => worker[w].amt <= book[worker[w].key]
      /\ \A v, w \in Workers : CreditPending(v) /\ CreditPending(w) /\ v # w
             => worker[v].key # worker[w].key
    BY <1>2 DEF Fresh
<1>4. \A w \in Workers : CreditPending(w) => worker[w].key \in Keys /\ worker[w].amt \in Nat
    BY WorkerKey DEF CreditPending, PendingPcs, UnrowedPcs
<1>5. book \in [Keys -> Nat]
    BY DEF Base, TypeOK
<1>6. CASE Restart
    <2>1. \A w \in Workers : ~ CreditPending(w)'
        BY <1>6 DEF Restart, CreditPending, Idle
    <2>2. QED
        BY <2>1
<1>7. CASE \E w \in Workers : CloseCredit(w)
    <2>1. PICK w \in Workers : CloseCredit(w)
        BY <1>7
    <2>2. Keeps(w) /\ Only(w)
        BY <2>1, PendingMoves
    <2>3. \A v \in Workers : v # w => /\ worker'[v] = worker[v]
                                      /\ CreditPending(v)' <=> CreditPending(v)
        BY <2>2 DEF Only, CreditPending
    <2>4. book' = book
        BY <2>1 DEF CloseCredit
    <2>5. /\ book[worker[w].key] = worker[w].amt
          /\ \A v \in Workers : v # w => ~ (worker[v].key = worker[w].key /\ CreditPending(v))
        BY <1>1, <2>1 DEF CloseCredit
    <2>6. worker[w].amt \in Nat
        BY WorkerType DEF Base
    <2>7. QED
        BY <1>3, <2>2, <2>3, <2>4, <2>5, <2>6 DEF Keeps
<1>8. CASE \E w \in Workers : CloseUpdate(w)
    <2>1. PICK w \in Workers : CloseUpdate(w)
        BY <1>8
    <2>2. Keeps(w) /\ Only(w) /\ ~ CreditPending(w)' /\ CreditPending(w)
        BY <2>1, PendingMoves
    <2>3. \A v \in Workers : v # w => /\ worker'[v] = worker[v]
                                      /\ CreditPending(v)' <=> CreditPending(v)
        BY <2>2 DEF Only, CreditPending
    <2>4. \A k \in Keys : k # worker[w].key => book'[k] = book[k]
        BY <2>1, ClosedEffect
    <2>5. QED
        BY <1>3, <1>4, <2>2, <2>3, <2>4
<1>9. CASE ~ Restart /\ ~ (\E w \in Workers : CloseCredit(w) \/ CloseUpdate(w))
    <2>1. \A w \in Workers : /\ CreditPending(w)' <=> CreditPending(w)
                             /\ CreditPending(w) => Keeps(w)
        BY <1>9, PendingKept
    <2>2. \A k \in Keys : book'[k] >= book[k]
        <3>1. CASE EnterBook
            <4>1. PICK k \in Keys, a \in Nat :
                      /\ k = worker["consumer"].key /\ a = worker["consumer"].amt
                      /\ book'[k] = book[k] + a
                      /\ \A j \in Keys : j # k => book'[j] = book[j]
                BY <3>1, EnterBookEffect
            <4>2. QED
                BY <1>5, <4>1
        <3>2. CASE UNCHANGED book
            BY <1>5, <3>2
        <3>3. QED
            BY <1>9, <3>1, <3>2, BookCases
    <2>3. ASSUME NEW w \in Workers, CreditPending(w)'
          PROVE  worker'[w].amt <= book'[worker'[w].key]
        <3>1. PICK k \in Keys, a \in Nat : k = worker[w].key /\ a = worker[w].amt
            BY <1>4, <2>1, <2>3
        <3>2. a <= book[k] /\ book[k] \in Nat /\ book'[k] >= book[k]
            BY <1>3, <1>5, <2>1, <2>2, <2>3, <3>1
        <3>3. book'[k] \in Nat
            <4>1. Base'
                BY NextBase
            <4>2. QED
                BY <4>1 DEF Base, TypeOK
        <3>4. a <= book'[k]
            BY <3>2, <3>3
        <3>5. QED
            BY <2>1, <2>3, <3>1, <3>4 DEF Keeps
    <2>4. QED
        BY <1>3, <2>1, <2>3 DEF Keeps
<1>10. QED
    BY <1>6, <1>7, <1>8, <1>9

---------------------------------------------------------------------------
\* No step but a restart counts as one.
LEMMA NotRestarted ==
    ASSUME Base, Next, crashes' = 0
    PROVE  crashes = 0 /\ ~ Restart
<1>1. crashes \in Nat
    BY DEF Base, TypeOK
<1>2. Restart => crashes' = crashes + 1
    BY DEF Restart
<1>3. QED
    BY <1>1, <1>2, TallyCases

\* A KOL's row is not forgotten.
LEMMA KnownStays ==
    ASSUME Base, Next, ~ Restart, NEW n \in Kols, budget[n].known
    PROVE  budget'[n].known
<1>1. ASSUME NEW k \in Keys, EnterReserve(k)
      PROVE  budget'[n].known
    BY <1>1, ReserveEffect DEF OthersKeep
<1>2. ASSUME NEW w \in Workers, CloseCredit(w)
      PROVE  budget'[n].known
    BY <1>2, CreditEffect DEF OthersKeep
<1>3. QED
    BY <1>1, <1>2, BudgetCases

\* A key in a worker's hands is the one it had, or has a position, or was just reserved for.
LEMMA KeyCases ==
    ASSUME Base, Next, ~ Restart, NEW w \in Workers, worker'[w].key \in Keys
    PROVE  \/ worker'[w].key = worker[w].key
           \/ book[worker'[w].key] # 0
           \/ EnterReserve(worker'[w].key)
<1>1. NoKey \notin Keys
    BY DEF NoKey, Keys
<1>2. CASE w = "consumer" /\ \E k \in Keys : EnterReserve(k)
    BY <1>2, Reserves DEF Base
<1>3. CASE \E k \in Keys : CloseRead(w, k)
    BY <1>3, Reads DEF Base, CloseRead
<1>4. CASE \E k \in Keys : CloseSkip(w, k)
    BY <1>1, <1>4, Skips DEF Base
<1>5. CASE Advances(w)
    BY <1>5, Advance DEF Base, Keeps
<1>6. CASE Rests(w)
    BY <1>1, <1>6, Rest DEF Base, Resting
<1>7. QED
    BY <1>2, <1>3, <1>4, <1>5, <1>6, WorkerCases

\* Every step keeps the rows of the KOLs in use.
LEMMA KnownKept ==
    ASSUME Base, Known, Next
    PROVE  Known'
<1>1. SUFFICES ASSUME crashes' = 0
               PROVE  /\ \A k \in Keys : book'[k] # 0 => budget'[Kol(k)].known
                      /\ \A w \in Workers : worker'[w].key \in Keys
                             => budget'[Kol(worker'[w].key)].known
    BY DEF Known
<1>2. crashes = 0 /\ ~ Restart
    BY <1>1, NotRestarted
<1>3. /\ \A k \in Keys : book[k] # 0 => budget[Kol(k)].known
      /\ \A w \in Workers : worker[w].key \in Keys => budget[Kol(worker[w].key)].known
    BY <1>2 DEF Known
<1>4. \A k \in Keys : Kol(k) \in Kols
    BY KeyParts
<1>5. \A n \in Kols : budget[n].known => budget'[n].known
    BY <1>2, KnownStays
<1>6. ASSUME NEW k \in Keys, book'[k] # 0
      PROVE  budget'[Kol(k)].known
    <2>1. CASE book[k] # 0
        BY <1>3, <1>4, <1>5, <2>1
    <2>2. CASE book[k] = 0
        <3>1. EnterBook => k = worker["consumer"].key
            BY <1>6, <2>2, EnterBookEffect
        <3>2. \A w \in Workers : ~ CloseUpdate(w)
            BY <1>6, <2>2, ClosedEffect
        <3>3. k = worker["consumer"].key
            BY <1>2, <1>6, <2>2, <3>1, <3>2, BookCases
        <3>4. QED
            BY <1>3, <1>4, <1>5, <3>3 DEF Workers
    <2>3. QED
        BY <2>1, <2>2
<1>7. ASSUME NEW w \in Workers, worker'[w].key \in Keys
      PROVE  budget'[Kol(worker'[w].key)].known
    <2>1. PICK k \in Keys : k = worker'[w].key
        BY <1>7
    <2>2. EnterReserve(k) => budget'[Kol(k)].known
        BY ReserveEffect
    <2>3. k = worker[w].key \/ book[k] # 0 \/ EnterReserve(k)
        BY <1>2, <2>1, KeyCases
    <2>4. QED
        BY <1>3, <1>4, <1>5, <2>1, <2>2, <2>3
<1>8. QED
    BY <1>6, <1>7

---------------------------------------------------------------------------
(* The sums of the accounts.                                               *)

\* The keys of a KOL are finitely many.
LEMMA KeysOfFinite ==
    ASSUME NEW n \in Kols
    PROVE  IsFiniteSet(KeysOf(n)) /\ KeysOf(n) \subseteq Keys
<1>1. KeysOf(n) = {<<n, t>> : t \in Tokens}
    BY DEF KeysOf, Keys, Kol
<1>2. IsFiniteSet({<<n, t>> : t \in Tokens})
    <2>1. PICK f : f = [t \in Tokens |-> <<n, t>>]
        OBVIOUS
    <2>2. f \in Surjection(Tokens, {<<n, t>> : t \in Tokens})
        BY <2>1 DEF Surjection
    <2>3. QED
        BY <2>2, FS_Surjection, TokensAssumption
<1>3. QED
    BY <1>1, <1>2 DEF KeysOf

\* The cost of the open positions after one position changed.
LEMMA OpenCostChanges ==
    ASSUME NEW b \in [Keys -> Nat], NEW b2 \in [Keys -> Nat], NEW k \in Keys, NEW n \in Kols,
           \A j \in Keys : j # k => b2[j] = b[j]
    PROVE  /\ SumOf(b, KeysOf(n)) \in Nat
           /\ SumOf(b2, KeysOf(n)) = IF Kol(k) = n THEN SumOf(b, KeysOf(n)) - b[k] + b2[k]
                                     ELSE SumOf(b, KeysOf(n))
           /\ Kol(k) = n => b[k] <= SumOf(b, KeysOf(n))
<1>1. IsFiniteSet(KeysOf(n)) /\ KeysOf(n) \subseteq Keys
    BY KeysOfFinite
<1>2. \A j \in KeysOf(n) : b[j] \in Nat /\ b2[j] \in Nat
    BY <1>1
<1>3. SumOf(b, KeysOf(n)) \in Nat
    BY <1>1, <1>2, SumType
<1>4. CASE Kol(k) = n
    <2>1. k \in KeysOf(n)
        BY <1>4 DEF KeysOf
    <2>2. \A j \in KeysOf(n) \ {k} : b2[j] = b[j]
        BY <1>1
    <2>3. QED
        BY <1>1, <1>2, <1>4, <2>1, <2>2, SumUpdate
<1>5. CASE Kol(k) # n
    <2>1. \A j \in KeysOf(n) : b[j] = b2[j]
        BY <1>5 DEF KeysOf
    <2>2. SumOf(b, KeysOf(n)) = SumOf(b2, KeysOf(n))
        BY <1>1, <1>2, <2>1, SumSame
    <2>3. QED
        BY <1>3, <1>5, <2>2
<1>6. QED
    BY <1>4, <1>5

\* The types of the parts of the accounts.
LEMMA AccountTypes ==
    ASSUME Base, NEW n \in Kols
    PROVE  /\ OpenCost(n) \in Nat /\ Entering(n) \in Nat
           /\ \A w \in Workers : /\ Sliced(w, n, PendingPcs) \in Nat
                                 /\ Sliced(w, n, UnrowedPcs) \in Nat
           /\ Closing(n) \in Nat /\ Unrowed(n) \in Nat
           /\ leaked[n] \in Nat /\ csv[n] \in Nat /\ reserved[n] \in Nat
           /\ budget[n].committed \in Nat /\ budget[n].cash \in Nat /\ budget[n].pnl \in Int
<1>1. OpenCost(n) \in Nat
    <2>1. book \in [Keys -> Nat]
        BY DEF Base, TypeOK
    <2>2. QED
        BY <2>1, KeysOfFinite, SumType DEF OpenCost
<1>2. \A w \in Workers : worker[w].amt \in Nat /\ worker[w].slice \in Nat
    BY WorkerType DEF Base
<1>3. Entering(n) \in Nat
    BY <1>2 DEF Entering, Workers
<1>4. \A w \in Workers : Sliced(w, n, PendingPcs) \in Nat /\ Sliced(w, n, UnrowedPcs) \in Nat
    BY <1>2 DEF Sliced
<1>5. Closing(n) \in Nat /\ Unrowed(n) \in Nat
    BY <1>4 DEF Closing, Unrowed, Workers
<1>6. QED
    BY <1>1, <1>3, <1>4, <1>5 DEF Base, TypeOK, Budgets

\* What the worker's close takes from the KOL.
Take(w, n) == IF Kol(worker[w].key) = n THEN worker[w].slice ELSE 0

\* A step of one worker changes the two totals by that worker's part.
LEMMA TotalsMove ==
    ASSUME Base, Base', NEW w \in Workers, Only(w), NEW n \in Kols
    PROVE  /\ Closing(n)' + Sliced(w, n, PendingPcs) = Closing(n) + Sliced(w, n, PendingPcs)'
           /\ Unrowed(n)' + Sliced(w, n, UnrowedPcs) = Unrowed(n) + Sliced(w, n, UnrowedPcs)'
<1>1. ASSUME NEW v \in Workers, v # w
      PROVE  /\ Sliced(v, n, PendingPcs)' = Sliced(v, n, PendingPcs)
             /\ Sliced(v, n, UnrowedPcs)' = Sliced(v, n, UnrowedPcs)
    BY <1>1 DEF Only, Sliced
<1>2. \A v \in Workers : /\ Sliced(v, n, PendingPcs) \in Nat
                         /\ Sliced(v, n, UnrowedPcs) \in Nat
    BY AccountTypes
<1>3. \A v \in Workers : /\ Sliced(v, n, PendingPcs)' \in Nat
                         /\ Sliced(v, n, UnrowedPcs)' \in Nat
    <2>1. \A v \in Workers : worker'[v].slice \in Nat
        BY DEF Base, TypeOK
    <2>2. QED
        BY <2>1 DEF Sliced
<1>4. CASE w = "consumer"
    <2>1. "sweeper" \in Workers /\ "sweeper" # w
        BY <1>4 DEF Workers
    <2>2. QED
        BY <1>1, <1>2, <1>3, <1>4, <2>1 DEF Closing, Unrowed
<1>5. CASE w = "sweeper"
    <2>1. "consumer" \in Workers /\ "consumer" # w
        BY <1>5 DEF Workers
    <2>2. QED
        BY <1>1, <1>2, <1>3, <1>5, <2>1 DEF Closing, Unrowed
<1>6. QED
    BY <1>4, <1>5 DEF Workers

\* The parts of a worker that is not credited, updating or writing a row.
LEMMA SlicedKept ==
    ASSUME Base, Next, ~ Restart, NEW w \in Workers, NEW n \in Kols,
           ~ CloseCredit(w), ~ CloseUpdate(w), ~ CloseRow(w)
    PROVE  /\ Sliced(w, n, PendingPcs)' = Sliced(w, n, PendingPcs)
           /\ Sliced(w, n, UnrowedPcs)' = Sliced(w, n, UnrowedPcs)
<1>1. CASE worker'[w] = worker[w]
    BY <1>1 DEF Sliced
<1>2. CASE w = "consumer" /\ \E k \in Keys : EnterReserve(k)
    <2>1. worker[w].pc = "idle" /\ worker'[w].op = "enter"
        BY <1>2, Reserves DEF Base
    <2>2. QED
        BY <2>1 DEF Sliced, PendingPcs, UnrowedPcs
<1>3. CASE \E k \in Keys : CloseRead(w, k)
    <2>1. worker[w].pc = "read" /\ worker'[w].pc = "priced"
        BY <1>3, Reads DEF CloseRead, At, Base
    <2>2. QED
        BY <2>1 DEF Sliced, PendingPcs, UnrowedPcs
<1>4. CASE \E k \in Keys : CloseSkip(w, k)
    <2>1. worker[w].pc = "read" /\ worker'[w].pc \in {"idle", "read"}
        BY <1>4, Skips DEF CloseSkip, At, Base
    <2>2. QED
        BY <2>1 DEF Sliced, PendingPcs, UnrowedPcs
<1>5. CASE Advances(w)
    <2>1. Moved(w) /\ Keeps(w)
        BY <1>5, Advance DEF Base
    <2>2. worker[w].pc # "priced" /\ worker[w].pc # "update" /\ worker[w].pc # "row"
        BY <1>5, WhichAdvance
    <2>3. worker[w].op = "close" => /\ worker'[w].pc \in PendingPcs <=> worker[w].pc \in PendingPcs
                                    /\ worker'[w].pc \in UnrowedPcs <=> worker[w].pc \in UnrowedPcs
        BY <2>1, <2>2 DEF Moved, AfterSave, PendingPcs, UnrowedPcs
    <2>4. QED
        BY <2>1, <2>3 DEF Keeps, Sliced
<1>6. CASE Rests(w)
    <2>1. worker[w].pc \in {"quote", "idle", "booked"} /\ worker'[w].pc \in {"idle", "read"}
        BY <1>6, Rest DEF Base, Resting
    <2>2. QED
        BY <2>1 DEF Sliced, PendingPcs, UnrowedPcs
<1>7. QED
    BY <1>1, <1>2, <1>3, <1>4, <1>5, <1>6, WorkerCases

\* The two totals, at the three steps that change them.
LEMMA CreditTotals ==
    ASSUME Base, Base', NEW w \in Workers, CloseCredit(w), NEW n \in Kols
    PROVE  /\ Closing(n)' = Closing(n) + Take(w, n)
           /\ Unrowed(n)' = Unrowed(n) + Take(w, n)
           /\ Take(w, n) \in Nat
<1>1. /\ Keeps(w) /\ Only(w) /\ worker[w].pc = "priced" /\ worker'[w].pc = "save"
      /\ worker[w].op = "close"
    BY PendingMoves
<1>2. /\ Sliced(w, n, PendingPcs) = 0 /\ Sliced(w, n, PendingPcs)' = Take(w, n)
      /\ Sliced(w, n, UnrowedPcs) = 0 /\ Sliced(w, n, UnrowedPcs)' = Take(w, n)
    BY <1>1 DEF Sliced, Take, Keeps, PendingPcs, UnrowedPcs
<1>3. Take(w, n) \in Nat
    BY WorkerType DEF Base, Take
<1>4. Closing(n) \in Nat /\ Unrowed(n) \in Nat /\ Closing(n)' \in Nat /\ Unrowed(n)' \in Nat
    <2>1. \A v \in Workers : worker'[v].slice \in Nat
        BY DEF Base, TypeOK
    <2>2. QED
        BY <2>1, AccountTypes DEF Closing, Unrowed, Sliced, Workers
<1>5. QED
    BY <1>1, <1>2, <1>3, <1>4, TotalsMove

\* The update of the book takes the slice from what is closing.
LEMMA UpdateTotals ==
    ASSUME Base, Base', NEW w \in Workers, CloseUpdate(w), NEW n \in Kols
    PROVE  /\ Closing(n) = Closing(n)' + Take(w, n)
           /\ Unrowed(n)' = Unrowed(n)
           /\ Take(w, n) \in Nat
<1>1. /\ Keeps(w) /\ Only(w) /\ worker[w].pc = "update" /\ worker[w].op = "close"
      /\ worker'[w].pc \in {"booked", "unhold"}
    BY PendingMoves
<1>2. /\ Sliced(w, n, PendingPcs) = Take(w, n) /\ Sliced(w, n, PendingPcs)' = 0
      /\ Sliced(w, n, UnrowedPcs) = 0 /\ Sliced(w, n, UnrowedPcs)' = 0
    BY <1>1 DEF Sliced, Take, Keeps, PendingPcs, UnrowedPcs
<1>3. Take(w, n) \in Nat
    BY WorkerType DEF Base, Take
<1>4. Closing(n) \in Nat /\ Unrowed(n) \in Nat /\ Closing(n)' \in Nat /\ Unrowed(n)' \in Nat
    <2>1. \A v \in Workers : worker'[v].slice \in Nat
        BY DEF Base, TypeOK
    <2>2. QED
        BY <2>1, AccountTypes DEF Closing, Unrowed, Sliced, Workers
<1>5. QED
    BY <1>1, <1>2, <1>3, <1>4, TotalsMove

\* append_trade takes the slice from what has no row yet.
LEMMA RowTotals ==
    ASSUME Base, Base', NEW w \in Workers, CloseRow(w), NEW n \in Kols
    PROVE  /\ Closing(n)' = Closing(n)
           /\ Unrowed(n) = Unrowed(n)' + Take(w, n)
           /\ Take(w, n) \in Nat
<1>1. worker[w].pc = "row" /\ worker[w].op = "close"
    BY CloserOp DEF CloseRow, At
<1>2. Keeps(w) /\ Only(w) /\ worker'[w].pc = "update"
    BY <1>1, Advance DEF Base, Advances, Moved
<1>3. /\ Sliced(w, n, PendingPcs) = Take(w, n) /\ Sliced(w, n, PendingPcs)' = Take(w, n)
      /\ Sliced(w, n, UnrowedPcs) = Take(w, n) /\ Sliced(w, n, UnrowedPcs)' = 0
    BY <1>1, <1>2 DEF Sliced, Take, Keeps, PendingPcs, UnrowedPcs
<1>4. Take(w, n) \in Nat
    BY WorkerType DEF Base, Take
<1>5. Closing(n) \in Nat /\ Unrowed(n) \in Nat /\ Closing(n)' \in Nat /\ Unrowed(n)' \in Nat
    <2>1. \A v \in Workers : worker'[v].slice \in Nat
        BY DEF Base, TypeOK
    <2>2. QED
        BY <2>1, AccountTypes DEF Closing, Unrowed, Sliced, Workers
<1>6. QED
    BY <1>2, <1>3, <1>4, <1>5, TotalsMove

\* No other step changes the totals of the closes under way.
LEMMA TotalsKept ==
    ASSUME Base, Next, ~ Restart, NEW n \in Kols,
           \A w \in Workers : ~ CloseCredit(w) /\ ~ CloseUpdate(w) /\ ~ CloseRow(w)
    PROVE  Closing(n)' = Closing(n) /\ Unrowed(n)' = Unrowed(n)
<1>1. "consumer" \in Workers /\ "sweeper" \in Workers
    BY DEF Workers
<1>2. QED
    BY <1>1, SlicedKept DEF Closing, Unrowed

\* What is on its way in, at the steps that change it and at the others.
LEMMA EnteringKept ==
    ASSUME Base, Next, ~ Restart, NEW n \in Kols,
           \A k \in Keys : ~ EnterReserve(k), ~ EnterBook, ~ EnterGivesUp
    PROVE  Entering(n)' = Entering(n)
<1> DEFINE c == "consumer"
<1>1. c \in Workers
    BY DEF Workers
<1>2. CASE worker'[c] = worker[c]
    BY <1>2 DEF Entering
<1>3. CASE \E k \in Keys : CloseRead(c, k)
    <2>1. worker[c].pc = "read" /\ worker'[c].pc = "priced"
        BY <1>1, <1>3, Reads DEF CloseRead, At, Base
    <2>2. QED
        BY <2>1 DEF Entering
<1>4. CASE \E k \in Keys : CloseSkip(c, k)
    <2>1. worker[c].pc = "read" /\ worker'[c].pc \in {"idle", "read"}
        BY <1>1, <1>4, Skips DEF CloseSkip, At, Base
    <2>2. QED
        BY <2>1 DEF Entering
<1>5. CASE Advances(c)
    <2>1. Moved(c) /\ Keeps(c)
        BY <1>1, <1>5, Advance DEF Base
    <2>2. worker[c].pc # "quote"
        BY <1>1, <1>5, WhichAdvance
    <2>3. worker[c].pc \in {"priced", "row", "update", "unhold"} => worker[c].op = "close"
        BY <1>1, CloserOp
    <2>4. worker[c].op = "enter" =>
              (worker'[c].pc \in {"save", "write", "rename", "quote"}
               <=> worker[c].pc \in {"save", "write", "rename", "quote"})
        BY <2>1, <2>2, <2>3 DEF Moved, AfterSave
    <2>5. QED
        BY <2>1, <2>4 DEF Keeps, Entering
<1>6. CASE Rests(c)
    <2>1. worker[c].pc \in {"quote", "idle", "booked"} /\ worker'[c].pc \in {"idle", "read"}
        BY <1>1, <1>6, Rest DEF Base, Resting
    <2>2. worker[c].pc # "quote"
        BY <1>6 DEF Rests, ExitStart, SweepStart, SaveBook, At
    <2>3. QED
        BY <2>1, <2>2 DEF Entering
<1>7. QED
    BY <1>1, <1>2, <1>3, <1>4, <1>5, <1>6, WorkerCases

\* try_reserve starts what is entering.
LEMMA EnteringStarts ==
    ASSUME Base, NEW k \in Keys, EnterReserve(k), NEW n \in Kols
    PROVE  /\ Entering(n) = 0
           /\ Entering(n)' = IF Kol(k) = n THEN Want(Kol(k)) ELSE 0
    BY Reserves DEF Base, Entering

\* EnterBook and EnterGivesUp end an entry.
LEMMA EnteringEnds ==
    ASSUME Base, EnterBook \/ EnterGivesUp, NEW n \in Kols
    PROVE  /\ Entering(n) = IF Kol(worker["consumer"].key) = n THEN worker["consumer"].amt ELSE 0
           /\ Entering(n)' = 0
<1> DEFINE c == "consumer"
<1>1. c \in Workers /\ worker[c].pc = "quote"
    BY DEF EnterBook, EnterGivesUp, At, Workers
<1>2. worker[c].op = "enter"
    BY <1>1, EntererOp
<1>3. worker'[c].pc \in {"hold", "idle", "read"}
    <2>1. EnterBook => Moved(c)
        BY <1>1, Advance DEF Base, Advances
    <2>2. EnterGivesUp => Resting(c)
        BY <1>1, Rest DEF Base, Rests
    <2>3. QED
        BY <1>1, <2>1, <2>2 DEF Moved, Resting
<1>4. QED
    BY <1>1, <1>2, <1>3 DEF Entering

---------------------------------------------------------------------------
(* The books balance.                                                      *)

\* The three equations of CommittedAccounted, for one KOL.
Balanced(n) == budget[n].committed + Closing(n) = OpenCost(n) + Entering(n) + leaked[n]
Conserved(n) == budget[n].cash + budget[n].committed = Initial + budget[n].pnl
RowsWithin(n) == budget[n].committed + csv[n] + Unrowed(n) <= reserved[n]

\* The three balances of one KOL.
LEMMA AccountedParts ==
    ASSUME ~ stale, crashes = 0, CommittedAccounted, NEW n \in Kols
    PROVE  Balanced(n) /\ Conserved(n) /\ RowsWithin(n)
    BY DEF CommittedAccounted, Balanced, Conserved, RowsWithin

\* try_reserve keeps the balances: cash becomes committed, and is entering.
LEMMA ReserveAccounted ==
    ASSUME Base, Base', NEW k \in Keys, EnterReserve(k), NEW n \in Kols,
           Next, ~ Restart, Balanced(n), Conserved(n), RowsWithin(n)
    PROVE  Balanced(n)' /\ Conserved(n)' /\ RowsWithin(n)'
<1>1. PICK a \in Nat : a = Want(Kol(k))
    BY KeyParts, WantBound DEF Base
<1>2. UNCHANGED <<book, leaked, csv>> /\ OpenCost(n)' = OpenCost(n)
    BY DEF EnterReserve, diskvars, OpenCost
<1>3. \A w \in Workers : ~ CloseCredit(w) /\ ~ CloseUpdate(w) /\ ~ CloseRow(w)
    <2>1. entries' = entries + 1 /\ entries \in Nat
        BY DEF EnterReserve, Base, TypeOK
    <2>2. \A w \in Workers : CloseCredit(w) \/ CloseUpdate(w) \/ CloseRow(w) => entries' = entries
        BY DEF CloseCredit, CloseUpdate, CloseRow, countvars
    <2>3. QED
        BY <2>1, <2>2
<1>4. Closing(n)' = Closing(n) /\ Unrowed(n)' = Unrowed(n)
    BY <1>3, TotalsKept
<1>5. Entering(n) = 0 /\ Entering(n)' = IF Kol(k) = n THEN a ELSE 0
    BY <1>1, EnteringStarts
<1>6. reserved \in [Kols -> Nat] /\ reserved' = [reserved EXCEPT ![Kol(k)] = @ + a]
    BY <1>1 DEF EnterReserve, Base, TypeOK
<1>7. /\ OpenCost(n) \in Nat /\ Closing(n) \in Nat /\ Unrowed(n) \in Nat
      /\ leaked[n] \in Nat /\ csv[n] \in Nat /\ reserved[n] \in Nat
      /\ budget[n].committed \in Nat /\ budget[n].cash \in Nat /\ budget[n].pnl \in Int
    BY AccountTypes
<1>8. Initial \in Nat
    BY ConstantsAssumption
<1>9. CASE Kol(k) = n
    <2>1. /\ budget'[n].cash = budget[n].cash - a
          /\ budget'[n].committed = budget[n].committed + a
          /\ budget'[n].pnl = budget[n].pnl
        BY <1>1, <1>9, ReserveEffect
    <2>2. reserved'[n] = reserved[n] + a
        BY <1>6, <1>9
    <2>3. Balanced(n)'
        BY <1>2, <1>4, <1>5, <1>7, <1>9, <2>1 DEF Balanced
    <2>4. Conserved(n)'
        BY <1>7, <1>8, <2>1 DEF Conserved
    <2>5. RowsWithin(n)'
        BY <1>2, <1>4, <1>7, <2>1, <2>2 DEF RowsWithin
    <2>6. QED
        BY <2>3, <2>4, <2>5
<1>10. CASE Kol(k) # n
    <2>1. budget'[n] = budget[n]
        BY <1>10, ReserveEffect DEF OthersKeep
    <2>2. reserved'[n] = reserved[n]
        BY <1>6, <1>10
    <2>3. QED
        BY <1>2, <1>4, <1>5, <1>10, <2>1, <2>2 DEF Balanced, Conserved, RowsWithin
<1>11. QED
    BY <1>9, <1>10

\* An entry that reaches the book, or is given up, keeps the balances.
LEMMA EntryEndAccounted ==
    ASSUME Base, Base', EnterBook \/ EnterGivesUp, NEW n \in Kols,
           Next, ~ Restart, Balanced(n), Conserved(n), RowsWithin(n)
    PROVE  Balanced(n)' /\ Conserved(n)' /\ RowsWithin(n)'
<1>1. "consumer" \in Workers /\ worker["consumer"].pc = "quote"
    BY DEF EnterBook, EnterGivesUp, At, Workers
<1>2. PICK k \in Keys, a \in Nat : k = worker["consumer"].key /\ a = worker["consumer"].amt
    BY <1>1, WorkerKey
<1>3. Entering(n) = (IF Kol(k) = n THEN a ELSE 0) /\ Entering(n)' = 0
    BY <1>2, EnteringEnds
<1>4. UNCHANGED <<budget, csv, reserved>>
    BY DEF EnterBook, EnterGivesUp, diskvars
<1>5. Closing(n)' = Closing(n) /\ Unrowed(n)' = Unrowed(n)
    <2>1. Only("consumer")
        BY <1>1, Advance, Rest DEF Base, Advances, Rests
    <2>2. worker'["consumer"].pc \in {"hold", "idle", "read"}
        <3>1. EnterBook => Moved("consumer")
            BY <1>1, Advance DEF Base, Advances
        <3>2. EnterGivesUp => Resting("consumer")
            BY <1>1, Rest DEF Base, Rests
        <3>3. QED
            BY <1>1, <3>1, <3>2 DEF Moved, Resting
    <2>3. /\ Sliced("consumer", n, PendingPcs) = 0 /\ Sliced("consumer", n, PendingPcs)' = 0
          /\ Sliced("consumer", n, UnrowedPcs) = 0 /\ Sliced("consumer", n, UnrowedPcs)' = 0
        BY <1>1, <2>2 DEF Sliced, PendingPcs, UnrowedPcs
    <2>4. /\ Sliced("sweeper", n, PendingPcs)' = Sliced("sweeper", n, PendingPcs)
          /\ Sliced("sweeper", n, UnrowedPcs)' = Sliced("sweeper", n, UnrowedPcs)
        BY <2>1 DEF Only, Sliced, Workers
    <2>5. QED
        BY <2>3, <2>4 DEF Closing, Unrowed
<1>6. /\ OpenCost(n) \in Nat /\ leaked[n] \in Nat /\ leaked \in [Kols -> Nat]
      /\ budget[n].committed \in Nat /\ Closing(n) \in Nat
    BY AccountTypes DEF Base, TypeOK
<1>7. OpenCost(n)' + leaked'[n] = OpenCost(n) + leaked[n] + Entering(n)
    <2>1. CASE EnterBook
        <3>1. leaked' = leaked
            BY <2>1 DEF EnterBook
        <3>2. /\ book \in [Keys -> Nat] /\ book' \in [Keys -> Nat]
              /\ \A j \in Keys : j # k => book'[j] = book[j]
              /\ book'[k] = book[k] + a
            BY <1>2, <2>1, EnterBookEffect DEF Base, TypeOK
        <3>3. SumOf(book', KeysOf(n)) = IF Kol(k) = n
                                        THEN SumOf(book, KeysOf(n)) - book[k] + book'[k]
                                        ELSE SumOf(book, KeysOf(n))
            BY <3>2, OpenCostChanges
        <3>4. OpenCost(n)' = SumOf(book', KeysOf(n)) /\ OpenCost(n) = SumOf(book, KeysOf(n))
            BY DEF OpenCost
        <3>5. book[k] \in Nat
            BY <3>2
        <3>6. QED
            BY <1>3, <1>6, <3>1, <3>2, <3>3, <3>4, <3>5
    <2>2. CASE EnterGivesUp
        <3>1. OpenCost(n)' = OpenCost(n)
            BY <2>2 DEF EnterGivesUp, OpenCost
        <3>2. leaked' = [leaked EXCEPT ![Kol(k)] = @ + a]
            BY <1>2, <2>2 DEF EnterGivesUp
        <3>3. leaked'[n] = IF Kol(k) = n THEN leaked[n] + a ELSE leaked[n]
            BY <1>6, <3>2
        <3>4. QED
            BY <1>3, <1>6, <3>1, <3>3
    <2>3. QED
        BY <2>1, <2>2
<1>8. OpenCost(n)' \in Nat /\ leaked'[n] \in Nat
    <2>1. book' \in [Keys -> Nat] /\ leaked' \in [Kols -> Nat]
        BY DEF Base, TypeOK
    <2>2. OpenCost(n)' = SumOf(book', KeysOf(n))
        BY DEF OpenCost
    <2>3. QED
        BY <2>1, <2>2, KeysOfFinite, SumType
<1>9. QED
    BY <1>3, <1>4, <1>5, <1>6, <1>7, <1>8 DEF Balanced, Conserved, RowsWithin

\* Under a credited close lies its position: committed funds cover what it takes.
LEMMA CommittedCovers ==
    ASSUME Base, Fresh, ~ stale, NEW w \in Workers, worker[w].pc = "priced",
           book[worker[w].key] = worker[w].amt,
           \A v \in Workers : v # w => ~ (worker[v].key = worker[w].key /\ CreditPending(v)),
           Balanced(Kol(worker[w].key))
    PROVE  worker[w].slice <= budget[Kol(worker[w].key)].committed
<1>1. PICK k \in Keys : k = worker[w].key
    BY WorkerKey
<1>2. PICK n \in Kols : n = Kol(k)
    BY KeyParts
<1>3. worker[w].op = "close"
    BY CloserOp
<1>4. PICK s \in Nat : s = worker[w].slice /\ s <= book[k]
    BY <1>1, <1>3, WorkerSlice
<1>5. /\ book \in [Keys -> Nat]
      /\ IsFiniteSet(KeysOf(n)) /\ KeysOf(n) \subseteq Keys /\ k \in KeysOf(n)
    BY <1>2, KeysOfFinite DEF Base, TypeOK, KeysOf
<1>6. Sliced(w, n, PendingPcs) = 0
    BY DEF Sliced, PendingPcs, UnrowedPcs
<1>7. PICK v \in Workers : v # w /\ Closing(n) = Sliced(v, n, PendingPcs)
    <2>1. \A v \in Workers : Sliced(v, n, PendingPcs) \in Nat
        BY AccountTypes
    <2>2. CASE w = "consumer"
        BY <1>6, <2>1, <2>2 DEF Closing, Workers
    <2>3. CASE w = "sweeper"
        BY <1>6, <2>1, <2>3 DEF Closing, Workers
    <2>4. QED
        BY <2>2, <2>3 DEF Workers
<1>8. s + Closing(n) <= OpenCost(n)
    <2>1. book[k] <= SumOf(book, KeysOf(n))
        BY <1>2, <1>5, OpenCostChanges
    <2>2. book[k] \in Nat /\ SumOf(book, KeysOf(n)) \in Nat
        BY <1>5, SumType
    <2>3. CASE Closing(n) = 0
        BY <1>4, <2>1, <2>2, <2>3 DEF OpenCost
    <2>4. CASE Closing(n) # 0
        <3>1. worker[v].op = "close" /\ worker[v].pc \in PendingPcs /\ Kol(worker[v].key) = n
              /\ Closing(n) = worker[v].slice
            BY <1>7, <2>4 DEF Sliced
        <3>2. CreditPending(v)
            BY <3>1 DEF CreditPending
        <3>3. PICK j \in Keys : j = worker[v].key
            BY <3>1, WorkerKey DEF PendingPcs, UnrowedPcs
        <3>4. j # k
            BY <1>1, <1>7, <3>2, <3>3
        <3>5. j \in KeysOf(n)
            BY <3>1, <3>3 DEF KeysOf
        <3>6. worker[v].slice \in Nat /\ worker[v].slice <= worker[v].amt /\ worker[v].amt \in Nat
            BY <3>1, WorkerSlice, WorkerType DEF Base
        <3>7. worker[v].amt <= book[j] /\ book[j] \in Nat
            BY <1>5, <3>2, <3>3 DEF Fresh
        <3>8. book[k] + book[j] <= SumOf(book, KeysOf(n))
            BY <1>5, <3>4, <3>5, SumTwo
        <3>9. QED
            BY <1>4, <2>2, <3>1, <3>6, <3>7, <3>8 DEF OpenCost
    <2>5. QED
        BY <2>3, <2>4
<1>9. /\ OpenCost(n) \in Nat /\ Entering(n) \in Nat /\ leaked[n] \in Nat
      /\ Closing(n) \in Nat /\ budget[n].committed \in Nat
    BY AccountTypes
<1>10. s <= budget[n].committed
    BY <1>1, <1>2, <1>8, <1>9 DEF Balanced
<1>11. QED
    BY <1>1, <1>2, <1>4, <1>10

\* credit_close keeps the balances: its saturating subtraction never saturates.
LEMMA CreditAccounted ==
    ASSUME Base, Base', Fresh, Known, crashes = 0, ~ stale', NEW w \in Workers, CloseCredit(w),
           ~ stale, NEW n \in Kols, Balanced(n), Conserved(n), RowsWithin(n)
    PROVE  Balanced(n)' /\ Conserved(n)' /\ RowsWithin(n)'
<1>1. worker[w].pc = "priced"
    BY DEF CloseCredit, At
<1>2. PICK k \in Keys : k = worker[w].key
    BY <1>1, WorkerKey
<1>3. PICK s \in Nat : s = worker[w].slice
    BY WorkerType DEF Base
<1>4. /\ book[k] = worker[w].amt
      /\ \A v \in Workers : v # w => ~ (worker[v].key = k /\ CreditPending(v))
    BY <1>2 DEF CloseCredit
<1>5. budget[Kol(k)].known
    BY <1>2 DEF Known
<1>6. /\ Closing(n)' = Closing(n) + Take(w, n)
      /\ Unrowed(n)' = Unrowed(n) + Take(w, n)
      /\ Take(w, n) = IF Kol(k) = n THEN s ELSE 0
    BY <1>2, <1>3, CreditTotals DEF Take
<1>7. UNCHANGED <<book, leaked, csv, reserved>> /\ OpenCost(n)' = OpenCost(n)
    BY DEF CloseCredit, diskvars, OpenCost
<1>8. Entering(n)' = Entering(n)
    <2>1. Keeps(w) /\ Only(w) /\ worker[w].op = "close"
        BY PendingMoves
    <2>2. CASE w = "consumer"
        BY <2>1, <2>2 DEF Entering, Keeps
    <2>3. CASE w # "consumer"
        BY <2>1, <2>3 DEF Entering, Only, Workers
    <2>4. QED
        BY <2>2, <2>3
<1>9. /\ OpenCost(n) \in Nat /\ Entering(n) \in Nat /\ Closing(n) \in Nat /\ Unrowed(n) \in Nat
      /\ leaked[n] \in Nat /\ csv[n] \in Nat /\ reserved[n] \in Nat
      /\ budget[n].committed \in Nat /\ budget[n].cash \in Nat /\ budget[n].pnl \in Int
    BY AccountTypes
<1>10. /\ budget'[n].cash \in Nat /\ budget'[n].pnl \in Int /\ Initial \in Nat
    BY ConstantsAssumption DEF Base, TypeOK, Budgets
<1>11. CASE Kol(k) = n
    <2>1. s <= budget[n].committed
        BY <1>1, <1>2, <1>3, <1>4, <1>11, CommittedCovers
    <2>2. /\ budget'[n].committed = Minus(budget[n].committed, s)
          /\ budget'[n].cash - budget'[n].pnl = budget[n].cash - budget[n].pnl + s
        BY <1>2, <1>3, <1>5, <1>11, CreditEffect
    <2>3. budget'[n].committed = budget[n].committed - s
        BY <1>9, <2>1, <2>2 DEF Minus
    <2>4. Balanced(n)'
        BY <1>6, <1>7, <1>8, <1>9, <1>11, <2>1, <2>3 DEF Balanced
    <2>5. Conserved(n)'
        BY <1>9, <1>10, <2>1, <2>2, <2>3 DEF Conserved
    <2>6. RowsWithin(n)'
        BY <1>6, <1>7, <1>9, <1>11, <2>1, <2>3 DEF RowsWithin
    <2>7. QED
        BY <2>4, <2>5, <2>6
<1>12. CASE Kol(k) # n
    <2>1. budget'[n] = budget[n]
        BY <1>2, <1>12, CreditEffect DEF OthersKeep
    <2>2. Closing(n)' = Closing(n) /\ Unrowed(n)' = Unrowed(n)
        BY <1>6, <1>9, <1>12
    <2>3. QED
        BY <1>7, <1>8, <2>1, <2>2 DEF Balanced, Conserved, RowsWithin
<1>13. QED
    BY <1>11, <1>12

\* The update of the book keeps the balances: the copy it works on is still true.
LEMMA UpdateAccounted ==
    ASSUME Base, Base', ~ stale', NEW w \in Workers, CloseUpdate(w),
           NEW n \in Kols, Balanced(n), Conserved(n), RowsWithin(n)
    PROVE  Balanced(n)' /\ Conserved(n)' /\ RowsWithin(n)'
<1>1. worker[w].pc = "update" /\ worker[w].op = "close" /\ Keeps(w) /\ Only(w)
    BY PendingMoves
<1>2. PICK k \in Keys, a \in Nat : k = worker[w].key /\ a = worker[w].amt
    BY <1>1, WorkerKey
<1>3. PICK s \in Nat : /\ s = worker[w].slice
                       /\ s <= a
                       /\ IF worker[w].full THEN s = a ELSE s < a
    BY <1>1, <1>2, WorkerSlice DEF PendingPcs
<1>4. book[k] = a
    BY <1>2 DEF CloseUpdate
<1>5. /\ book \in [Keys -> Nat] /\ book' \in [Keys -> Nat]
      /\ \A j \in Keys : j # k => book'[j] = book[j]
      /\ book'[k] = IF worker[w].full \/ book[k] = 0 THEN 0 ELSE a - s
    BY <1>2, <1>3, ClosedEffect DEF Base, TypeOK
<1>6. book'[k] = a - s
    BY <1>3, <1>4, <1>5
<1>7. /\ Closing(n) = Closing(n)' + Take(w, n)
      /\ Unrowed(n)' = Unrowed(n)
      /\ Take(w, n) = IF Kol(k) = n THEN s ELSE 0
    BY <1>2, <1>3, UpdateTotals DEF Take
<1>8. UNCHANGED <<budget, leaked, csv, reserved>>
    BY DEF CloseUpdate, diskvars
<1>9. Entering(n)' = Entering(n)
    <2>1. CASE w = "consumer"
        BY <1>1, <2>1 DEF Entering, Keeps
    <2>2. CASE w # "consumer"
        BY <1>1, <2>2 DEF Entering, Only, Workers
    <2>3. QED
        BY <2>1, <2>2
<1>10. /\ OpenCost(n) \in Nat /\ Entering(n) \in Nat /\ Closing(n) \in Nat
       /\ leaked[n] \in Nat /\ budget[n].committed \in Nat
    BY AccountTypes
<1>11. Closing(n)' \in Nat
    <2>1. \A v \in Workers : worker'[v].slice \in Nat
        BY DEF Base, TypeOK
    <2>2. QED
        BY <2>1 DEF Closing, Sliced, Workers
<1>12. OpenCost(n)' = IF Kol(k) = n THEN OpenCost(n) - s ELSE OpenCost(n)
    <2>1. SumOf(book', KeysOf(n)) = IF Kol(k) = n
                                    THEN SumOf(book, KeysOf(n)) - book[k] + book'[k]
                                    ELSE SumOf(book, KeysOf(n))
        BY <1>5, OpenCostChanges
    <2>2. OpenCost(n)' = SumOf(book', KeysOf(n)) /\ OpenCost(n) = SumOf(book, KeysOf(n))
        BY DEF OpenCost
    <2>3. QED
        BY <1>4, <1>6, <1>10, <2>1, <2>2
<1>13. Balanced(n)'
    <2>1. PICK t \in Nat : Closing(n) = Closing(n)' + t /\ OpenCost(n)' = OpenCost(n) - t
        BY <1>7, <1>10, <1>12
    <2>2. budget'[n] = budget[n] /\ leaked'[n] = leaked[n]
        BY <1>8
    <2>3. budget[n].committed + Closing(n)' = OpenCost(n)' + Entering(n) + leaked[n]
        <3>1. PICK b \in Nat, c \in Nat, o \in Nat, e \in Nat, l \in Nat, d \in Nat :
                  /\ b = budget[n].committed /\ c = Closing(n) /\ o = OpenCost(n)
                  /\ e = Entering(n) /\ l = leaked[n] /\ d = Closing(n)'
            BY <1>10, <1>11
        <3>2. b + c = o + e + l
            BY <3>1 DEF Balanced
        <3>3. c = d + t /\ OpenCost(n)' = o - t
            BY <2>1, <3>1
        <3>4. QED
            BY <3>1, <3>2, <3>3
    <2>4. QED
        BY <1>9, <2>2, <2>3 DEF Balanced
<1>14. QED
    BY <1>7, <1>8, <1>13 DEF Conserved, RowsWithin

\* append_trade keeps the balances, whether the row is written or lost.
LEMMA RowAccounted ==
    ASSUME Base, Base', NEW w \in Workers, CloseRow(w),
           NEW n \in Kols, Balanced(n), Conserved(n), RowsWithin(n)
    PROVE  Balanced(n)' /\ Conserved(n)' /\ RowsWithin(n)'
<1>1. worker[w].pc = "row" /\ worker[w].op = "close"
    BY CloserOp DEF CloseRow, At
<1>2. PICK k \in Keys, s \in Nat : k = worker[w].key /\ s = worker[w].slice
    BY <1>1, WorkerKey, WorkerType DEF Base
<1>3. /\ Closing(n)' = Closing(n)
      /\ Unrowed(n) = Unrowed(n)' + Take(w, n)
      /\ Take(w, n) = IF Kol(k) = n THEN s ELSE 0
    BY <1>2, RowTotals DEF Take
<1>4. UNCHANGED <<budget, book, leaked, reserved>> /\ OpenCost(n)' = OpenCost(n)
    BY DEF CloseRow, histvars, OpenCost
<1>5. Keeps(w) /\ Only(w)
    BY Advance DEF Base, Advances
<1>6. Entering(n)' = Entering(n)
    <2>1. CASE w = "consumer"
        BY <1>1, <1>5, <2>1 DEF Entering, Keeps
    <2>2. CASE w # "consumer"
        BY <1>5, <2>2 DEF Entering, Only, Workers
    <2>3. QED
        BY <2>1, <2>2
<1>7. /\ Unrowed(n) \in Nat /\ csv[n] \in Nat /\ reserved[n] \in Nat
      /\ budget[n].committed \in Nat /\ csv \in [Kols -> Nat]
    BY AccountTypes DEF Base, TypeOK
<1>8. Unrowed(n)' \in Nat
    <2>1. \A v \in Workers : worker'[v].slice \in Nat
        BY DEF Base, TypeOK
    <2>2. QED
        BY <2>1 DEF Unrowed, Sliced, Workers
<1>9. csv'[n] \in Nat /\ csv'[n] <= csv[n] + (IF Kol(k) = n THEN s ELSE 0)
    <2>1. csv' = csv \/ csv' = [csv EXCEPT ![Kol(k)] = @ + s]
        BY <1>2 DEF CloseRow
    <2>2. QED
        BY <1>7, <2>1
<1>10. RowsWithin(n)'
    <2>1. csv'[n] + Unrowed(n)' <= csv[n] + Unrowed(n)
        BY <1>3, <1>7, <1>8, <1>9
    <2>2. QED
        BY <1>4, <1>7, <1>8, <1>9, <2>1 DEF RowsWithin
<1>11. QED
    BY <1>3, <1>4, <1>6, <1>10 DEF Balanced, Conserved

\* CommittedAccounted is kept.
LEMMA AccountsKept ==
    ASSUME Base, Accounts, Next
    PROVE  Accounts'
<1>1. Fresh /\ Known /\ CommittedAccounted
    BY DEF Accounts
<1>2. Fresh' /\ Known'
    BY <1>1, FreshKept, KnownKept
<1>3. Base'
    BY NextBase
<1>4. SUFFICES ASSUME ~ stale', crashes' = 0, NEW n \in Kols
               PROVE  Balanced(n)' /\ Conserved(n)' /\ RowsWithin(n)'
    BY <1>2 DEF Accounts, CommittedAccounted, Balanced, Conserved, RowsWithin
<1>5. ~ stale /\ crashes = 0 /\ ~ Restart
    BY <1>4, NotRestarted, TallyCases
<1>6. Balanced(n) /\ Conserved(n) /\ RowsWithin(n)
    BY <1>1, <1>5, AccountedParts
<1>7. CASE \E k \in Keys : EnterReserve(k)
    BY <1>3, <1>5, <1>6, <1>7, ReserveAccounted
<1>8. CASE EnterBook \/ EnterGivesUp
    BY <1>3, <1>5, <1>6, <1>8, EntryEndAccounted
<1>9. CASE \E w \in Workers : CloseCredit(w)
    BY <1>1, <1>3, <1>4, <1>5, <1>6, <1>9, CreditAccounted
<1>10. CASE \E w \in Workers : CloseUpdate(w)
    BY <1>3, <1>4, <1>6, <1>10, UpdateAccounted
<1>11. CASE \E w \in Workers : CloseRow(w)
    BY <1>3, <1>6, <1>11, RowAccounted
<1>12. CASE /\ \A k \in Keys : ~ EnterReserve(k)
            /\ ~ EnterBook /\ ~ EnterGivesUp
            /\ \A w \in Workers : ~ CloseCredit(w) /\ ~ CloseUpdate(w) /\ ~ CloseRow(w)
    <2>1. UNCHANGED <<budget, book, reserved, leaked, csv>>
        BY <1>5, <1>12, BudgetCases, BookCases, TallyCases
    <2>2. Closing(n)' = Closing(n) /\ Unrowed(n)' = Unrowed(n)
        BY <1>5, <1>12, TotalsKept
    <2>3. Entering(n)' = Entering(n)
        BY <1>5, <1>12, EnteringKept
    <2>4. OpenCost(n)' = OpenCost(n)
        BY <2>1 DEF OpenCost
    <2>5. QED
        BY <1>6, <2>1, <2>2, <2>3, <2>4 DEF Balanced, Conserved, RowsWithin
<1>13. QED
    BY <1>7, <1>8, <1>9, <1>10, <1>11, <1>12

---------------------------------------------------------------------------
(* Book and held set.                                                      *)

\* Which actions touch the held set, and that a crossing is not forgotten.
LEMMA HeldCases ==
    ASSUME Next
    PROVE  /\ \/ UNCHANGED held \/ EnterHold \/ Restart
              \/ \E w \in Workers : CloseUnhold(w)
           /\ crossed => crossed'
<1>1. ASSUME NEW k \in Keys, EnterReserve(k) \/ ExitStart(k) \/ HoldTimeout(k)
      PROVE  UNCHANGED <<held, crossed>>
    BY <1>1 DEF EnterReserve, ExitStart, HoldTimeout, histvars
<1>2. EnterGivesUp \/ SweepStart => UNCHANGED <<held, crossed>>
    BY DEF EnterGivesUp, SweepStart, histvars
<1>3. EnterBook => UNCHANGED held /\ (crossed => crossed')
    BY DEF EnterBook
<1>4. EnterHold \/ Restart => UNCHANGED crossed
    BY DEF EnterHold, Restart, histvars
<1>5. ASSUME NEW w \in Workers, CloseStep(w)
      PROVE  (UNCHANGED held \/ CloseUnhold(w)) /\ (crossed => crossed')
    <2>1. ASSUME NEW k \in Keys, CloseRead(w, k) \/ CloseSkip(w, k)
          PROVE  UNCHANGED <<held, crossed>>
        BY <2>1 DEF CloseRead, CloseSkip, histvars
    <2>2. CloseCredit(w) \/ CloseRow(w) \/ SaveCopy(w) \/ SaveWrite(w) \/ SaveRename(w)
              \/ SaveFails(w) \/ SaveBook(w) => UNCHANGED <<held, crossed>>
        BY DEF CloseCredit, CloseRow, SaveCopy, SaveWrite, SaveRename, SaveFails, SaveBook,
               histvars
    <2>3. CloseUpdate(w) => UNCHANGED held /\ (crossed => crossed')
        BY DEF CloseUpdate
    <2>4. CloseUnhold(w) => UNCHANGED crossed
        BY DEF CloseUnhold, histvars
    <2>5. QED
        BY <1>5, <2>1, <2>2, <2>3, <2>4 DEF CloseStep
<1>6. QED
    BY <1>1, <1>2, <1>3, <1>4, <1>5 DEF Next

\* A worker about to tell the held set stays so until it does, and comes there only
\* from an update of the book.
LEMMA TellingKept ==
    ASSUME Base, Next, ~ Restart, NEW w \in Workers, ~ (w = "consumer" /\ EnterBook),
           ~ (w = "consumer" /\ EnterHold), ~ CloseUpdate(w), ~ CloseUnhold(w)
    PROVE  /\ AtHeld(w)' <=> AtHeld(w)
           /\ AtHeld(w) => worker'[w] = worker[w]
<1>1. CASE worker'[w] = worker[w]
    BY <1>1 DEF AtHeld
<1>2. CASE w = "consumer" /\ \E k \in Keys : EnterReserve(k)
    BY <1>2, Reserves DEF Base, AtHeld
<1>3. CASE \E k \in Keys : CloseRead(w, k)
    BY <1>3, Reads DEF CloseRead, At, Base, AtHeld
<1>4. CASE \E k \in Keys : CloseSkip(w, k)
    BY <1>4, Skips DEF CloseSkip, At, Base, AtHeld
<1>5. CASE Advances(w)
    <2>1. Moved(w)
        BY <1>5, Advance DEF Base
    <2>2. worker[w].pc \notin {"quote", "hold", "update", "unhold"}
        BY <1>5, WhichAdvance
    <2>3. QED
        BY <2>1, <2>2 DEF Moved, AfterSave, AtHeld
<1>6. CASE Rests(w)
    BY <1>6, Rest DEF Base, Resting, AtHeld
<1>7. QED
    BY <1>1, <1>2, <1>3, <1>4, <1>5, <1>6, WorkerCases

\* The three parts of the layer.
Backed(w) ==
    /\ At(w, "hold") => book[worker[w].key] # 0
    /\ At(w, "unhold") => ~ StillHeld(book, Token(worker[w].key))
Alone(t) == ~ (Telling("consumer", t) /\ Telling("sweeper", t))
Settled(t) == (\E w \in Workers : Telling(w, t)) \/ (t \in held <=> StillHeld(book, t))

\* The layer, by its parts.
LEMMA HeldParts ==
    HeldLayer <=> (~ crossed => /\ \A w \in Workers : Backed(w)
                                /\ \A t \in Tokens : Alone(t) /\ Settled(t))
    BY DEF HeldLayer, Backed, Alone, Settled

\* What the other worker is doing, when a worker updates the book for its token.
LEMMA EnterBookHeld ==
    ASSUME Base, Base', EnterBook, ~ crossed', \A w \in Workers : Backed(w),
           \A t \in Tokens : Alone(t) /\ Settled(t)
    PROVE  /\ \A w \in Workers : Backed(w)'
           /\ \A t \in Tokens : Alone(t)' /\ Settled(t)'
<1> DEFINE c == "consumer"
           s == "sweeper"
<1>1. c \in Workers /\ s \in Workers /\ \A w \in Workers : w = c \/ w = s
    BY DEF Workers
<1>2. /\ worker[c].pc = "quote" /\ worker'[c].pc = "hold" /\ worker'[c].key = worker[c].key
      /\ worker'[s] = worker[s]
    <2>1. worker[c].pc = "quote"
        BY DEF EnterBook, At
    <2>2. Moved(c) /\ Keeps(c) /\ Only(c)
        BY <1>1, Advance DEF Base, Advances
    <2>3. QED
        BY <1>1, <2>1, <2>2 DEF Moved, Keeps, Only
<1>3. PICK k \in Keys : k = worker[c].key
    BY <1>1, <1>2, WorkerKey
<1>4. /\ book'[k] # 0
      /\ \A j \in Keys : j # k => book'[j] = book[j]
    BY <1>3, EnterBookEffect
<1>5. worker[s].pc # "hold"
    BY <1>1, EntererOp
<1>6. ~ Telling(s, Token(k))
    BY <1>3, <1>5 DEF EnterBook, Telling, AtHeld, At
<1>7. \A t \in Tokens : t # Token(k) => (StillHeld(book', t) <=> StillHeld(book, t))
    BY <1>4 DEF StillHeld
<1>8. Backed(c)'
    BY <1>2, <1>3, <1>4 DEF Backed, At
<1>9. Backed(s)'
    <2>1. Backed(s)
        BY <1>1
    <2>2. worker[s].pc = "unhold" => Token(worker[s].key) # Token(k)
        BY <1>6 DEF Telling, AtHeld
    <2>3. worker[s].pc = "unhold" => Token(worker[s].key) \in Tokens
        BY <1>1, WorkerKey
    <2>4. QED
        BY <1>2, <1>5, <1>7, <2>1, <2>2, <2>3 DEF Backed, At
<1>10. ASSUME NEW t \in Tokens
       PROVE  Alone(t)' /\ Settled(t)'
    <2>1. Telling(s, t)' <=> Telling(s, t)
        BY <1>2 DEF Telling, AtHeld
    <2>2. Telling(c, t)' <=> Token(k) = t
        BY <1>2, <1>3 DEF Telling, AtHeld
    <2>3. ~ Telling(c, t)
        BY <1>2 DEF Telling, AtHeld
    <2>4. Alone(t)'
        BY <1>6, <2>1, <2>2 DEF Alone
    <2>5. held' = held
        BY DEF EnterBook
    <2>6. Settled(t)'
        <3>1. CASE t = Token(k)
            BY <1>1, <2>2, <3>1 DEF Settled
        <3>2. CASE t # Token(k)
            BY <1>1, <1>7, <2>1, <2>3, <2>5, <3>2 DEF Settled
        <3>3. QED
            BY <3>1, <3>2
    <2>7. QED
        BY <2>4, <2>6
<1>11. QED
    BY <1>1, <1>8, <1>9, <1>10

\* The update of the book: the worker goes on to unhold exactly if no position is left.
LEMMA UpdateHeld ==
    ASSUME Base, Base', NEW w \in Workers, CloseUpdate(w), ~ crossed',
           \A v \in Workers : Backed(v), \A t \in Tokens : Alone(t) /\ Settled(t)
    PROVE  /\ \A v \in Workers : Backed(v)'
           /\ \A t \in Tokens : Alone(t)' /\ Settled(t)'
<1>1. /\ worker[w].pc = "update" /\ worker'[w].pc \in {"booked", "unhold"}
      /\ Keeps(w) /\ Only(w)
    BY PendingMoves
<1>2. PICK k \in Keys : k = worker[w].key /\ k = worker'[w].key
    BY <1>1, WorkerKey DEF Keeps
<1>3. /\ \A j \in Keys : j # k => book'[j] = book[j]
      /\ book[k] = 0 => book'[k] = 0
    BY <1>2, ClosedEffect
<1>4. worker'[w].pc = "unhold" <=> ~ StillHeld(book', Token(k))
    <2>1. Goto(w, IF StillHeld(book', Token(k)) THEN "booked" ELSE "unhold")
        BY <1>2 DEF CloseUpdate
    <2>2. StillHeld(book', Token(k)) => worker'[w].pc = "booked"
        BY <2>1, MovesTo DEF Base, Pcs
    <2>3. ~ StillHeld(book', Token(k)) => worker'[w].pc = "unhold"
        BY <2>1, MovesTo DEF Base, Pcs
    <2>4. QED
        BY <2>2, <2>3
<1>5. \A v \in Workers : v # w => ~ Telling(v, Token(k))
    BY <1>2 DEF CloseUpdate, Telling, AtHeld
<1>6. \A t \in Tokens : t # Token(k) => (StillHeld(book', t) <=> StillHeld(book, t))
    BY <1>3 DEF StillHeld
<1>7. \A t \in Tokens : StillHeld(book', t) => StillHeld(book, t)
    BY <1>3 DEF StillHeld
<1>8. Backed(w)'
    BY <1>1, <1>2, <1>4 DEF Backed, At
<1>9. ASSUME NEW v \in Workers, v # w
      PROVE  Backed(v)'
    <2>1. worker'[v] = worker[v] /\ Backed(v)
        BY <1>1, <1>9 DEF Only
    <2>2. AtHeld(v) => /\ worker[v].key \in Keys /\ Token(worker[v].key) \in Tokens
                       /\ Token(worker[v].key) # Token(k)
        BY <1>5, <1>9, WorkerKey DEF AtHeld, Telling
    <2>3. AtHeld(v) => worker[v].key # k
        BY <2>2
    <2>4. QED
        BY <1>3, <1>7, <2>1, <2>2, <2>3 DEF Backed, At, AtHeld
<1>10. ASSUME NEW t \in Tokens
       PROVE  Alone(t)' /\ Settled(t)'
    <2>1. \A v \in Workers : v # w => (Telling(v, t)' <=> Telling(v, t))
        BY <1>1 DEF Only, Telling, AtHeld
    <2>2. Telling(w, t)' => Token(k) = t
        BY <1>2 DEF Telling
    <2>3. ~ Telling(w, t)
        BY <1>1 DEF Telling, AtHeld
    <2>4. Alone(t)'
        BY <1>5, <2>1, <2>2 DEF Alone, Workers
    <2>5. held' = held
        BY DEF CloseUpdate
    <2>6. Settled(t)'
        <3>1. CASE t # Token(k)
            <4>1. Settled(t)
                OBVIOUS
            <4>2. CASE \E v \in Workers : Telling(v, t)
                <5>1. PICK v \in Workers : Telling(v, t)
                    BY <4>2
                <5>2. Telling(v, t)'
                    BY <2>1, <2>3, <5>1
                <5>3. QED
                    BY <5>2 DEF Settled
            <4>3. CASE t \in held <=> StillHeld(book, t)
                <5>1. t \in held' <=> StillHeld(book', t)
                    BY <1>6, <2>5, <3>1, <4>3
                <5>2. QED
                    BY <5>1 DEF Settled
            <4>4. QED
                BY <4>1, <4>2, <4>3 DEF Settled
        <3>2. CASE t = Token(k)
            <4>1. t \in held <=> StillHeld(book, t)
                BY <1>5, <2>3, <3>2 DEF Settled
            <4>2. CASE StillHeld(book', t)
                BY <1>7, <2>5, <4>1, <4>2 DEF Settled
            <4>3. CASE ~ StillHeld(book', t)
                <5>1. Telling(w, t)'
                    BY <1>2, <1>4, <3>2, <4>3 DEF Telling, AtHeld
                <5>2. QED
                    BY <5>1 DEF Settled
            <4>4. QED
                BY <4>2, <4>3
        <3>3. QED
            BY <3>1, <3>2
    <2>7. QED
        BY <2>4, <2>6
<1>11. QED
    BY <1>8, <1>9, <1>10

\* A worker tells the held set what the book says of its token.
LEMMA ToldHeld ==
    ASSUME Base, NEW w \in Workers, AtHeld(w), ~ AtHeld(w)', Only(w), UNCHANGED book,
           NEW k \in Keys, k = worker[w].key,
           \A t \in Tokens : t # Token(k) => (t \in held' <=> t \in held),
           Token(k) \in held' <=> StillHeld(book, Token(k)),
           \A v \in Workers : Backed(v), \A t \in Tokens : Alone(t) /\ Settled(t)
    PROVE  /\ \A v \in Workers : Backed(v)'
           /\ \A t \in Tokens : Alone(t)' /\ Settled(t)'
<1>1. Backed(w)'
    BY DEF AtHeld, Backed, At
<1>2. \A v \in Workers : v # w => Backed(v)'
    BY DEF Only, Backed, At
<1>3. ASSUME NEW t \in Tokens
      PROVE  Alone(t)' /\ Settled(t)'
    <2>1. \A v \in Workers : v # w => (Telling(v, t)' <=> Telling(v, t))
        BY DEF Only, Telling, AtHeld
    <2>2. ~ Telling(w, t)'
        BY DEF Telling
    <2>3. Alone(t)'
        BY <2>1, <2>2 DEF Alone, Workers
    <2>4. CASE t = Token(k)
        BY <2>3, <2>4 DEF Settled
    <2>5. CASE t # Token(k)
        <3>1. ~ Telling(w, t)
            BY <2>5 DEF Telling
        <3>2. CASE \E v \in Workers : Telling(v, t)
            <4>1. PICK v \in Workers : Telling(v, t)
                BY <3>2
            <4>2. Telling(v, t)'
                BY <2>1, <3>1, <4>1
            <4>3. QED
                BY <2>3, <4>2 DEF Settled
        <3>3. CASE t \in held <=> StillHeld(book, t)
            BY <2>3, <2>5, <3>3 DEF Settled
        <3>4. QED
            BY <3>2, <3>3 DEF Settled
    <2>6. QED
        BY <2>3, <2>4, <2>5 DEF Settled
<1>4. QED
    BY <1>1, <1>2, <1>3

\* handle_enter tells the held set of a token that is in the book.
LEMMA EnterHoldHeld ==
    ASSUME Base, EnterHold, \A v \in Workers : Backed(v),
           \A t \in Tokens : Alone(t) /\ Settled(t)
    PROVE  /\ \A v \in Workers : Backed(v)'
           /\ \A t \in Tokens : Alone(t)' /\ Settled(t)'
<1> DEFINE c == "consumer"
<1>1. c \in Workers /\ worker[c].pc = "hold"
    BY DEF EnterHold, At, Workers
<1>2. Moved(c) /\ Only(c)
    BY <1>1, Advance DEF Base, Advances
<1>3. AtHeld(c) /\ ~ AtHeld(c)'
    BY <1>1, <1>2 DEF Moved, AtHeld
<1>4. PICK k \in Keys : k = worker[c].key
    BY <1>1, WorkerKey
<1>5. book[k] # 0 /\ StillHeld(book, Token(k))
    BY <1>1, <1>4 DEF Backed, At, StillHeld
<1>6. held' = held \cup {Token(k)} /\ UNCHANGED book
    BY <1>4 DEF EnterHold
<1>7. QED
    BY <1>1, <1>2, <1>3, <1>4, <1>5, <1>6, ToldHeld

\* close_one takes from the held set a token that is not in the book.
LEMMA UnholdHeld ==
    ASSUME Base, NEW w \in Workers, CloseUnhold(w), \A v \in Workers : Backed(v),
           \A t \in Tokens : Alone(t) /\ Settled(t)
    PROVE  /\ \A v \in Workers : Backed(v)'
           /\ \A t \in Tokens : Alone(t)' /\ Settled(t)'
<1>1. worker[w].pc = "unhold"
    BY DEF CloseUnhold, At
<1>2. Moved(w) /\ Only(w)
    BY Advance DEF Base, Advances
<1>3. AtHeld(w) /\ ~ AtHeld(w)'
    BY <1>1, <1>2 DEF Moved, AtHeld
<1>4. PICK k \in Keys : k = worker[w].key
    BY <1>1, WorkerKey
<1>5. ~ StillHeld(book, Token(k))
    BY <1>1, <1>4 DEF Backed, At
<1>6. held' = held \ {Token(k)} /\ UNCHANGED book
    BY <1>4 DEF CloseUnhold
<1>7. QED
    BY <1>2, <1>3, <1>4, <1>5, <1>6, ToldHeld

\* PaperExecutor::new fills the held set from the restored book.
LEMMA RestartHeld ==
    ASSUME Base, Restart
    PROVE  /\ \A v \in Workers : Backed(v)'
           /\ \A t \in Tokens : Alone(t)' /\ Settled(t)'
<1>1. \A w \in Workers : worker'[w].pc = "idle"
    BY DEF Restart, Idle
<1>2. \A w \in Workers : ~ AtHeld(w)'
    BY <1>1 DEF AtHeld
<1>3. \A t \in Tokens : t \in held' <=> StillHeld(book', t)
    BY DEF Restart, StillHeld
<1>4. \A w \in Workers, t \in Tokens : ~ Telling(w, t)'
    BY <1>2 DEF Telling
<1>5. \A w \in Workers : Backed(w)'
    BY <1>1 DEF Backed, At
<1>6. \A t \in Tokens : Alone(t)'
    BY <1>4 DEF Alone, Workers
<1>7. \A t \in Tokens : Settled(t)'
    BY <1>3 DEF Settled
<1>8. QED
    BY <1>5, <1>6, <1>7

\* Every step keeps book and held set together.
LEMMA HeldKept ==
    ASSUME Base, HeldLayer, Next
    PROVE  HeldLayer'
<1>1. SUFFICES ASSUME ~ crossed'
               PROVE  /\ \A w \in Workers : Backed(w)'
                      /\ \A t \in Tokens : Alone(t)' /\ Settled(t)'
    BY DEF HeldLayer, Backed, Alone, Settled
<1>2. Base'
    BY NextBase
<1>3. ~ crossed
    BY <1>1, HeldCases
<1>4. /\ \A w \in Workers : Backed(w)
      /\ \A t \in Tokens : Alone(t) /\ Settled(t)
    BY <1>3, HeldParts
<1>5. CASE EnterBook
    BY <1>1, <1>2, <1>4, <1>5, EnterBookHeld
<1>6. CASE EnterHold
    BY <1>4, <1>6, EnterHoldHeld
<1>7. CASE \E w \in Workers : CloseUpdate(w)
    BY <1>1, <1>2, <1>4, <1>7, UpdateHeld
<1>8. CASE \E w \in Workers : CloseUnhold(w)
    BY <1>4, <1>8, UnholdHeld
<1>9. CASE Restart
    BY <1>9, RestartHeld
<1>10. CASE /\ ~ EnterBook /\ ~ EnterHold /\ ~ Restart
            /\ \A w \in Workers : ~ CloseUpdate(w) /\ ~ CloseUnhold(w)
    <2>1. UNCHANGED <<book, held>>
        BY <1>10, BookCases, HeldCases
    <2>2. \A w \in Workers : /\ AtHeld(w)' <=> AtHeld(w)
                             /\ AtHeld(w) => worker'[w] = worker[w]
        BY <1>10, TellingKept
    <2>3. \A w \in Workers, t \in Tokens : Telling(w, t)' <=> Telling(w, t)
        BY <2>2 DEF Telling
    <2>4. \A w \in Workers : Backed(w)'
        BY <1>4, <2>1, <2>2 DEF Backed, At, AtHeld
    <2>5. \A t \in Tokens : Alone(t)'
        BY <1>4, <2>3 DEF Alone, Workers
    <2>6. \A t \in Tokens : Settled(t)'
        BY <1>4, <2>1, <2>3 DEF Settled
    <2>7. QED
        BY <2>4, <2>5, <2>6
<1>11. QED
    BY <1>5, <1>6, <1>7, <1>8, <1>9, <1>10

---------------------------------------------------------------------------
(* The files.                                                              *)

\* Which actions write which file, and that a lost save is not forgotten.
LEMMA DiskCases ==
    ASSUME Next, ~ unsaved'
    PROVE  /\ ~ unsaved
           /\ UNCHANGED json \/ \E w \in Workers : SaveBook(w)
           /\ \A w \in Workers : SaveBook(w) => json' = book
           /\ \A w \in Workers : ~ SaveFails(w)
           /\ UNCHANGED tmp \/ \E w \in Workers : SaveWrite(w) \/ SaveRename(w)
           /\ UNCHANGED file \/ \E w \in Workers : SaveRename(w)
<1>1. ASSUME NEW k \in Keys, EnterReserve(k) \/ ExitStart(k) \/ HoldTimeout(k)
      PROVE  UNCHANGED <<unsaved, json, tmp, file>>
    BY <1>1 DEF EnterReserve, ExitStart, HoldTimeout, histvars, diskvars
<1>2. EnterGivesUp \/ EnterBook \/ EnterHold \/ SweepStart \/ Restart
          => UNCHANGED <<unsaved, json, tmp, file>>
    BY DEF EnterGivesUp, EnterBook, EnterHold, SweepStart, Restart, histvars, diskvars
<1>3. ASSUME NEW w \in Workers, NEW k \in Keys, CloseRead(w, k) \/ CloseSkip(w, k)
      PROVE  UNCHANGED <<unsaved, json, tmp, file>>
    BY <1>3 DEF CloseRead, CloseSkip, histvars, diskvars
<1>4. ASSUME NEW w \in Workers,
             CloseCredit(w) \/ CloseRow(w) \/ CloseUpdate(w) \/ CloseUnhold(w)
      PROVE  UNCHANGED <<unsaved, json, tmp, file>>
    BY <1>4 DEF CloseCredit, CloseRow, CloseUpdate, CloseUnhold, histvars, diskvars
<1>5. ASSUME NEW w \in Workers, SaveCopy(w)
      PROVE  ~ unsaved /\ UNCHANGED <<json, tmp, file>>
    BY <1>5 DEF SaveCopy, diskvars
<1>6. ASSUME NEW w \in Workers, SaveWrite(w)
      PROVE  UNCHANGED <<unsaved, json, file>>
    BY <1>6 DEF SaveWrite, histvars
<1>7. ASSUME NEW w \in Workers, SaveRename(w)
      PROVE  UNCHANGED <<unsaved, json>>
    BY <1>7 DEF SaveRename, histvars
<1>8. \A w \in Workers : ~ SaveFails(w)
    BY DEF SaveFails
<1>9. ASSUME NEW w \in Workers, SaveBook(w)
      PROVE  json' = book /\ UNCHANGED <<unsaved, tmp, file>>
    BY <1>9 DEF SaveBook, JsonOf
<1>10. ~ unsaved
    BY <1>1, <1>2, <1>3, <1>4, <1>5, <1>6, <1>7, <1>8, <1>9 DEF Next, CloseStep
<1>11. UNCHANGED json \/ \E w \in Workers : SaveBook(w)
    BY <1>1, <1>2, <1>3, <1>4, <1>5, <1>6, <1>7, <1>8, <1>9 DEF Next, CloseStep
<1>12. UNCHANGED tmp \/ \E w \in Workers : SaveWrite(w) \/ SaveRename(w)
    BY <1>1, <1>2, <1>3, <1>4, <1>5, <1>6, <1>7, <1>8, <1>9 DEF Next, CloseStep
<1>13. UNCHANGED file \/ \E w \in Workers : SaveRename(w)
    BY <1>1, <1>2, <1>3, <1>4, <1>5, <1>6, <1>7, <1>8, <1>9 DEF Next, CloseStep
<1>14. QED
    BY <1>8, <1>9, <1>10, <1>11, <1>12, <1>13

\* A worker leaves a step of saving, or of telling the held set and the positions
\* file, only by the action of that step.
LEMMA Stays ==
    ASSUME Base, Next, ~ Restart, NEW w \in Workers
    PROVE  /\ At(w, "save") /\ ~ SaveCopy(w) => worker'[w] = worker[w]
           /\ Saving(w) /\ ~ SaveWrite(w) /\ ~ SaveRename(w) /\ ~ SaveFails(w)
              => worker'[w] = worker[w]
           /\ At(w, "booked") /\ ~ SaveBook(w) => worker'[w] = worker[w]
           /\ At(w, "unhold") /\ ~ CloseUnhold(w) => worker'[w] = worker[w]
           /\ At(w, "hold") /\ ~ EnterHold => worker'[w] = worker[w]
<1>1. CASE worker'[w] = worker[w]
    BY <1>1
<1>2. CASE w = "consumer" /\ \E k \in Keys : EnterReserve(k)
    <2>1. worker[w].pc = "idle"
        BY <1>2 DEF EnterReserve, At
    <2>2. QED
        BY <2>1 DEF At, Saving
<1>3. CASE \E k \in Keys : CloseRead(w, k) \/ CloseSkip(w, k)
    <2>1. worker[w].pc = "read"
        BY <1>3 DEF CloseRead, CloseSkip, At
    <2>2. QED
        BY <2>1 DEF At, Saving
<1>4. CASE Advances(w)
    <2>1. worker[w].pc # "booked"
        <3>1. Moved(w)
            BY <1>4, Advance DEF Base
        <3>2. QED
            BY <3>1 DEF Moved
    <2>2. QED
        BY <1>4, <2>1, WhichAdvance DEF At, Saving
<1>5. CASE Rests(w)
    <2>1. worker[w].pc \in {"quote", "idle", "booked"}
        BY <1>5, Rest DEF Base
    <2>2. worker[w].pc = "booked" => SaveBook(w)
        BY <1>5 DEF Rests, EnterGivesUp, ExitStart, SweepStart, At
    <2>3. QED
        BY <2>1, <2>2 DEF At, Saving
<1>6. QED
    BY <1>1, <1>2, <1>3, <1>4, <1>5, WorkerCases

\* A worker comes to the steps of saving only through SaveCopy, and to the save
\* itself only from a reservation or a credit.
LEMMA Comes ==
    ASSUME Base, Next, ~ Restart, NEW w \in Workers, worker'[w] # worker[w]
    PROVE  /\ At(w, "save")' => (\E k \in Keys : EnterReserve(k)) \/ CloseCredit(w)
           /\ Saving(w)' => SaveCopy(w) \/ SaveWrite(w)
<1>1. CASE w = "consumer" /\ \E k \in Keys : EnterReserve(k)
    BY <1>1, Reserves DEF Base, At, Saving
<1>2. CASE \E k \in Keys : CloseRead(w, k)
    BY <1>2, Reads DEF Base, At, Saving
<1>3. CASE \E k \in Keys : CloseSkip(w, k)
    BY <1>3, Skips DEF Base, At, Saving
<1>4. CASE Advances(w)
    <2>1. Moved(w)
        BY <1>4, Advance DEF Base
    <2>2. worker'[w].pc = "save" => worker[w].pc = "priced"
        BY <2>1 DEF Moved, AfterSave
    <2>3. worker'[w].pc = "write" => worker[w].pc = "save"
        BY <2>1 DEF Moved, AfterSave
    <2>4. worker'[w].pc = "rename" => worker[w].pc = "write"
        BY <2>1 DEF Moved, AfterSave
    <2>5. worker'[w].pc = "rename" => ~ SaveFails(w)
        BY <2>4, MovesSaving, IdleType DEF SaveFails, AfterSave, Base, Pcs
    <2>6. QED
        BY <1>4, <2>2, <2>3, <2>4, <2>5, WhichAdvance DEF At, Saving
<1>5. CASE Rests(w)
    BY <1>5, Rest DEF Base, Resting, At, Saving
<1>6. QED
    BY <1>1, <1>2, <1>3, <1>4, <1>5, WorkerCases

\* save_book() and the positions file.
JsonFollows ==
    \/ json = book /\ json_tokenless = tokenless
    \/ \E w \in Workers : worker[w].pc \in {"hold", "unhold", "booked"}

\* Every step keeps the file equal to the book, or a worker on its way to save_book.
LEMMA JsonKept ==
    ASSUME Base, Next, ~ Restart, ~ unsaved', JsonFollows
    PROVE  JsonFollows'
<1>1. "consumer" \in Workers
    BY DEF Workers
<1>2. CASE \E w \in Workers : SaveBook(w)
    <2>1. /\ json' = book /\ book' = book
          /\ json_tokenless' = tokenless /\ tokenless' = tokenless
        BY <1>2, DiskCases, TokenlessCases DEF SaveBook
    <2>2. QED
        BY <2>1 DEF JsonFollows
<1>3. CASE EnterBook \/ EnterHold
    <2>1. Moved("consumer") /\ worker["consumer"].pc \in {"quote", "hold"}
        BY <1>1, <1>3, Advance DEF Base, Advances, EnterBook, EnterHold, At
    <2>2. worker'["consumer"].pc \in {"hold", "unhold", "booked"}
        BY <2>1 DEF Moved
    <2>3. QED
        BY <1>1, <2>2 DEF JsonFollows
<1>4. ASSUME NEW w \in Workers, CloseUpdate(w) \/ CloseUnhold(w)
      PROVE  JsonFollows'
    <2>1. Moved(w) /\ worker[w].pc \in {"update", "unhold"}
        BY <1>4, Advance DEF Base, Advances, CloseUpdate, CloseUnhold, At
    <2>2. worker'[w].pc \in {"hold", "unhold", "booked"}
        BY <2>1 DEF Moved
    <2>3. QED
        BY <2>2 DEF JsonFollows
<1>5. CASE /\ ~ EnterBook /\ ~ EnterHold
           /\ \A w \in Workers : ~ SaveBook(w) /\ ~ CloseUpdate(w) /\ ~ CloseUnhold(w)
    <2>1. UNCHANGED <<book, json, tokenless, json_tokenless>>
        BY <1>5, BookCases, DiskCases, TokenlessCases
    <2>2. \A w \in Workers : worker[w].pc \in {"hold", "unhold", "booked"}
                             => worker'[w] = worker[w]
        BY <1>5, Stays DEF At
    <2>3. QED
        BY <2>1, <2>2 DEF JsonFollows
<1>6. QED
    BY <1>2, <1>3, <1>4, <1>5

\* KolBudgetBook::save and the budgets file: who is saving, what it has copied, and
\* what is on file.
Solo == ~ (Saving("consumer") /\ Saving("sweeper"))
Due == \E v \in Workers : At(v, "save")
Copied(w) == /\ Saving(w) => worker[w].snap = budget \/ Due
             /\ At(w, "rename") => tmp = worker[w].snap
Written == OnFile = budget \/ \E w \in Workers : At(w, "save") \/ Saving(w)
Saved == Solo /\ (\A w \in Workers : Copied(w)) /\ Written

\* The layer, by its parts.
LEMMA FilesParts ==
    Files <=> (~ unsaved /\ crashes = 0 => JsonFollows /\ Saved)
    BY DEF Files, JsonFollows, Saved, Solo, Due, Copied, Written

\* Where there is no KOL, a book of budgets and a missing file look alike.
LEMMA EmptyBudgets ==
    ASSUME NEW s \in Budgets, NEW t \in Budgets, s = NoFile
    PROVE  s = t
<1>1. DOMAIN s = {}
    BY DEF NoFile
<1>2. Kols = {}
    BY <1>1 DEF Budgets
<1>3. QED
    BY <1>2 DEF Budgets

\* What is on file is a budget book.
LEMMA OnFileType ==
    ASSUME TypeOK
    PROVE  OnFile \in Budgets
    BY IdleType DEF OnFile, TypeOK

\* The rename puts the copy on file.
LEMMA RenameEffect ==
    ASSUME Base, Base', NEW w \in Workers, SaveRename(w), tmp = worker[w].snap
    PROVE  OnFile' = worker[w].snap
<1>1. OnFile' \in Budgets
    BY IdleType DEF Base, TypeOK, OnFile
<1>2. worker[w].snap \in Budgets
    BY WorkerType DEF Base
<1>3. CASE tmp = NoFile
    BY <1>1, <1>2, <1>3, EmptyBudgets
<1>4. CASE tmp # NoFile
    BY <1>4 DEF SaveRename, OnFile
<1>5. QED
    BY <1>3, <1>4

\* A worker comes to a save.
LEMMA ToSaveSaved ==
    ASSUME Base, NEW w \in Workers, Only(w), worker'[w].pc = "save", ~ At(w, "save"),
           ~ Saving(w), UNCHANGED <<tmp, file>>, Saved
    PROVE  Saved'
<1>1. At(w, "save")'
    BY DEF At
<1>2. Due'
    BY <1>1 DEF Due
<1>3. ~ Saving(w)' /\ ~ At(w, "rename")'
    BY DEF Saving, At
<1>4. ASSUME NEW v \in Workers, v # w
      PROVE  /\ Saving(v)' <=> Saving(v)
             /\ At(v, "rename")' <=> At(v, "rename")
             /\ worker'[v] = worker[v]
    BY <1>4 DEF Only, Saving, At
<1>5. Solo'
    BY <1>3 DEF Solo, Workers
<1>6. ASSUME NEW v \in Workers
      PROVE  Copied(v)'
    BY <1>2, <1>3, <1>4 DEF Copied, Saved
<1>7. Written'
    BY <1>1 DEF Written
<1>8. QED
    BY <1>5, <1>6, <1>7 DEF Saved

\* A copy is taken while nobody else is saving, and is the budgets.
LEMMA CopySaved ==
    ASSUME Base, NEW w \in Workers, SaveCopy(w), ~ unsaved', Saved
    PROVE  Saved' /\ Only(w) /\ Keeps(w) /\ worker'[w].pc = "write" /\ worker'[w].snap = budget
<1>1. /\ worker'[w].pc = "write" /\ worker'[w].snap = budget
      /\ Only(w) /\ Keeps(w)
    <2>1. worker' = [worker EXCEPT ![w].pc = "write", ![w].snap = budget] /\ budget \in Budgets
        BY DEF SaveCopy, Base, TypeOK
    <2>2. QED
        BY <2>1, MovesSaving DEF Base, Pcs
<1>2. \A v \in Workers : v # w => ~ Saving(v)
    BY DEF SaveCopy
<1>3. \A v \in Workers : v # w => ~ Saving(v)' /\ ~ At(v, "rename")'
    BY <1>1, <1>2 DEF Only, Saving, At
<1>4. UNCHANGED budget
    BY DEF SaveCopy
<1>5. Solo'
    BY <1>3 DEF Solo, Workers
<1>6. Copied(w)'
    BY <1>1, <1>4 DEF Copied, At
<1>7. \A v \in Workers : v # w => Copied(v)'
    BY <1>3 DEF Copied
<1>8. Written'
    BY <1>1 DEF Written, Saving
<1>9. QED
    BY <1>1, <1>5, <1>6, <1>7, <1>8 DEF Saved

\* The temporary file is the copy of the only saver.
LEMMA WriteSaved ==
    ASSUME Base, NEW w \in Workers, SaveWrite(w), Saved
    PROVE  /\ Saved' /\ Only(w) /\ Keeps(w)
           /\ worker[w].pc = "write" /\ worker'[w].pc = "rename"
           /\ worker'[w].snap = worker[w].snap
<1>1. /\ worker[w].pc = "write" /\ worker'[w].pc = "rename"
      /\ worker'[w].snap = worker[w].snap
      /\ Only(w) /\ Keeps(w)
    BY MovesTo DEF SaveWrite, At, Base, Pcs
<1>2. \A v \in Workers : v # w => ~ Saving(v)
    BY <1>1 DEF Saved, Solo, Saving, Workers
<1>3. \A v \in Workers : v # w => ~ Saving(v)' /\ ~ At(v, "rename")'
    BY <1>1, <1>2 DEF Only, Saving, At
<1>4. budget' = budget /\ tmp' = worker[w].snap
    BY DEF SaveWrite
<1>5. Solo'
    BY <1>3 DEF Solo, Workers
<1>6. Copied(w)'
    <2>1. worker[w].snap = budget \/ Due
        BY <1>1 DEF Saved, Copied, Saving
    <2>2. Due => Due'
        BY <1>1 DEF Due, At, Only
    <2>3. QED
        BY <1>1, <1>4, <2>1, <2>2 DEF Copied
<1>7. \A v \in Workers : v # w => Copied(v)'
    BY <1>3 DEF Copied
<1>8. Written'
    BY <1>1 DEF Written, Saving
<1>9. QED
    BY <1>1, <1>5, <1>6, <1>7, <1>8 DEF Saved

\* The file is the copy of the only saver, and nobody is saving.
LEMMA RenameSaved ==
    ASSUME Base, Base', NEW w \in Workers, SaveRename(w), Saved
    PROVE  /\ Saved' /\ Only(w) /\ Keeps(w)
           /\ worker[w].pc = "rename" /\ worker'[w].pc \in {"row", "quote"}
           /\ OnFile' = worker[w].snap
           /\ \A v \in Workers : ~ Saving(v)'
<1>1. /\ worker[w].pc = "rename" /\ worker'[w].pc \in {"row", "quote"}
      /\ Only(w) /\ Keeps(w)
    <2>1. worker[w].pc = "rename" /\ Moved(w) /\ Only(w) /\ Keeps(w)
        BY Advance DEF Base, Advances, SaveRename, At
    <2>2. QED
        BY <2>1 DEF Moved, AfterSave
<1>2. \A v \in Workers : v # w => ~ Saving(v)
    BY <1>1 DEF Saved, Solo, Saving, Workers
<1>3. \A v \in Workers : ~ Saving(v)' /\ ~ At(v, "rename")'
    BY <1>1, <1>2 DEF Only, Saving, At
<1>4. OnFile' = worker[w].snap
    <2>1. tmp = worker[w].snap
        BY <1>1 DEF Saved, Copied, At
    <2>2. QED
        BY <2>1, RenameEffect
<1>5. Solo' /\ \A v \in Workers : Copied(v)'
    BY <1>3 DEF Solo, Copied, Workers
<1>6. Written'
    <2>1. worker[w].snap = budget \/ Due
        BY <1>1 DEF Saved, Copied, Saving
    <2>2. Due => \E v \in Workers : At(v, "save")'
        BY <1>1 DEF Due, At, Only
    <2>3. budget' = budget
        BY DEF SaveRename
    <2>4. QED
        BY <1>4, <2>1, <2>2, <2>3 DEF Written
<1>7. QED
    BY <1>1, <1>3, <1>4, <1>5, <1>6 DEF Saved

\* The steps that are not of a save leave the savers where they are.
LEMMA SaversKept ==
    ASSUME Base, Next, ~ Restart, ~ unsaved', \A k \in Keys : ~ EnterReserve(k),
           \A v \in Workers : /\ ~ CloseCredit(v) /\ ~ SaveCopy(v)
                              /\ ~ SaveWrite(v) /\ ~ SaveRename(v),
           NEW w \in Workers
    PROVE  /\ At(w, "save")' <=> At(w, "save")
           /\ Saving(w)' <=> Saving(w)
           /\ Saving(w) => worker'[w] = worker[w]
<1>1. ~ SaveFails(w)
    BY DiskCases
<1>2. At(w, "save") \/ Saving(w) => worker'[w] = worker[w]
    BY <1>1, Stays
<1>3. At(w, "save")' \/ Saving(w)' => worker'[w] = worker[w]
    BY Comes
<1>4. QED
    BY <1>2, <1>3 DEF At, Saving

\* Every step keeps the files.
LEMMA FilesKept ==
    ASSUME Base, Files, Next
    PROVE  Files'
<1>1. SUFFICES ASSUME ~ unsaved', crashes' = 0
               PROVE  JsonFollows' /\ Saved'
    BY DEF Files, JsonFollows, Saved, Solo, Due, Copied, Written
<1>2. Base' /\ ~ unsaved /\ crashes = 0 /\ ~ Restart
    BY <1>1, NextBase, DiskCases, NotRestarted
<1>3. JsonFollows /\ Saved
    BY <1>2, FilesParts
<1>4. JsonFollows'
    BY <1>1, <1>2, <1>3, JsonKept
<1>5. ASSUME NEW k \in Keys, EnterReserve(k)
      PROVE  Saved'
    <2>1. "consumer" \in Workers /\ Only("consumer") /\ worker'["consumer"].pc = "save"
          /\ worker["consumer"].pc = "idle"
        BY <1>5, Reserves DEF Base, Workers
    <2>2. UNCHANGED <<tmp, file>>
        BY <1>5 DEF EnterReserve, diskvars
    <2>3. QED
        BY <1>3, <2>1, <2>2, ToSaveSaved DEF At, Saving
<1>6. ASSUME NEW w \in Workers, CloseCredit(w)
      PROVE  Saved'
    <2>1. Only(w) /\ worker'[w].pc = "save" /\ worker[w].pc = "priced"
        BY <1>6, PendingMoves
    <2>2. UNCHANGED <<tmp, file>>
        BY <1>6 DEF CloseCredit, diskvars
    <2>3. QED
        BY <1>3, <2>1, <2>2, ToSaveSaved DEF At, Saving
<1>7. ASSUME NEW w \in Workers, SaveCopy(w) \/ SaveWrite(w) \/ SaveRename(w)
      PROVE  Saved'
    BY <1>1, <1>2, <1>3, <1>7, CopySaved, WriteSaved, RenameSaved
<1>8. CASE /\ \A k \in Keys : ~ EnterReserve(k)
           /\ \A w \in Workers : /\ ~ CloseCredit(w) /\ ~ SaveCopy(w)
                                 /\ ~ SaveWrite(w) /\ ~ SaveRename(w)
    <2>1. UNCHANGED <<budget, tmp, file>>
        BY <1>1, <1>2, <1>8, BudgetCases, DiskCases
    <2>2. \A w \in Workers : /\ At(w, "save")' <=> At(w, "save")
                             /\ Saving(w)' <=> Saving(w)
                             /\ Saving(w) => worker'[w] = worker[w]
        BY <1>1, <1>2, <1>8, SaversKept
    <2>3. Solo'
        BY <1>3, <2>2 DEF Saved, Solo, Workers
    <2>4. Due' <=> Due
        BY <2>2 DEF Due
    <2>5. ASSUME NEW w \in Workers
          PROVE  Copied(w)'
        <3>1. At(w, "rename")' => Saving(w)' /\ worker'[w] = worker[w]
            BY <2>2 DEF At, Saving
        <3>2. Copied(w)
            BY <1>3 DEF Saved
        <3>3. At(w, "rename")' => At(w, "rename")
            BY <3>1 DEF At
        <3>4. QED
            BY <2>1, <2>2, <2>4, <3>1, <3>2, <3>3 DEF Copied
    <2>6. Written'
        <3>1. OnFile' = OnFile
            BY <2>1 DEF OnFile
        <3>2. QED
            BY <1>3, <2>1, <2>2, <3>1 DEF Saved, Written
    <2>7. QED
        BY <1>4, <2>3, <2>5, <2>6 DEF Saved
<1>9. QED
    BY <1>4, <1>5, <1>6, <1>7, <1>8

---------------------------------------------------------------------------
(* How far the files are behind.                                           *)

\* The other half of save_book(): the file has no more of a position than the book,
\* until the close that took it is saved.
JsonWithin(k) ==
    \/ json[k] <= book[k]
    \/ \E w \in Workers : /\ worker[w].op = "close"
                          /\ worker[w].pc \in {"unhold", "booked"}
                          /\ worker[w].key = k

\* Every step keeps the positions file within the book.
LEMMA JsonWithinKept ==
    ASSUME Base, Base', Next, ~ Restart, ~ unsaved', NEW k \in Keys, JsonWithin(k)
    PROVE  JsonWithin(k)'
<1>1. /\ json[k] \in Nat /\ book[k] \in Nat
      /\ json'[k] \in Nat /\ book'[k] \in Nat
    BY DEF Base, TypeOK
<1>2. CASE \E w \in Workers : SaveBook(w)
    <2>1. json' = book /\ book' = book
        BY <1>2, DiskCases DEF SaveBook
    <2>2. QED
        BY <1>1, <2>1 DEF JsonWithin
<1>3. ASSUME NEW w \in Workers, CloseUpdate(w), worker[w].key = k
      PROVE  JsonWithin(k)'
    <2>1. Keeps(w) /\ worker'[w].pc \in {"booked", "unhold"} /\ worker[w].op = "close"
        BY <1>3, PendingMoves
    <2>2. worker'[w].op = "close" /\ worker'[w].key = k
        BY <1>3, <2>1 DEF Keeps
    <2>3. QED
        BY <2>1, <2>2 DEF JsonWithin
<1>4. CASE /\ \A w \in Workers : ~ SaveBook(w)
           /\ \A w \in Workers : CloseUpdate(w) => worker[w].key # k
    <2>1. json' = json
        BY <1>4, DiskCases
    <2>2. book[k] <= book'[k]
        <3>1. CASE book' = book
            BY <1>1, <3>1
        <3>2. CASE EnterBook
            <4>1. k # worker["consumer"].key => book'[k] = book[k]
                BY <3>2, EnterBookEffect
            <4>2. k = worker["consumer"].key =>
                      book'[k] = book[k] + worker["consumer"].amt /\ worker["consumer"].amt \in Nat
                BY <3>2, EnterBookEffect
            <4>3. QED
                BY <1>1, <4>1, <4>2
        <3>3. CASE \E w \in Workers : CloseUpdate(w)
            BY <1>1, <1>4, <3>3, ClosedEffect
        <3>4. QED
            BY <3>1, <3>2, <3>3, BookCases
    <2>3. CASE json[k] <= book[k]
        <3>1. json'[k] <= book'[k]
            BY <1>1, <2>1, <2>2, <2>3
        <3>2. QED
            BY <3>1 DEF JsonWithin
    <2>4. CASE \E w \in Workers : /\ worker[w].op = "close"
                                  /\ worker[w].pc \in {"unhold", "booked"}
                                  /\ worker[w].key = k
        <3>1. PICK w \in Workers : /\ worker[w].op = "close"
                                   /\ worker[w].pc \in {"unhold", "booked"}
                                   /\ worker[w].key = k
            BY <2>4
        <3>2. CASE CloseUnhold(w)
            <4>1. Keeps(w) /\ Moved(w) /\ worker[w].pc = "unhold"
                BY <3>2, Advance DEF Base, Advances, CloseUnhold, At
            <4>2. worker'[w].pc = "booked" /\ worker'[w].op = "close" /\ worker'[w].key = k
                BY <3>1, <4>1 DEF Keeps, Moved
            <4>3. QED
                BY <4>2 DEF JsonWithin
        <3>3. CASE ~ CloseUnhold(w)
            <4>1. worker'[w] = worker[w]
                BY <1>4, <3>1, <3>3, Stays DEF At
            <4>2. QED
                BY <3>1, <4>1 DEF JsonWithin
        <3>4. QED
            BY <3>2, <3>3
    <2>5. QED
        BY <2>3, <2>4 DEF JsonWithin
<1>5. QED
    BY <1>2, <1>3, <1>4

\* The budgets on file, and the copies on their way there.
FileWithin(n) == budget[n].committed <= OnFile[n].committed + EnterUnsaved(n)
SweeperWithin(n) ==
    Saving("sweeper") =>
        budget[n].committed <= worker["sweeper"].snap[n].committed + EnterUnsaved(n)
ConsumerWithin(n) ==
    Saving("consumer") => budget[n].committed <= worker["consumer"].snap[n].committed

\* The layer, by its parts.
LEMMA BehindParts ==
    Behind <=> (~ unsaved /\ crashes = 0 =>
                    /\ \A n \in Kols : FileWithin(n) /\ SweeperWithin(n) /\ ConsumerWithin(n)
                    /\ \A k \in Keys : JsonWithin(k))
    BY DEF Behind, FileWithin, SweeperWithin, ConsumerWithin, JsonWithin

\* The numbers of the layer are naturals.
LEMMA BehindTypes ==
    ASSUME Base, NEW n \in Kols
    PROVE  /\ budget[n].committed \in Nat
           /\ OnFile[n].committed \in Nat
           /\ EnterUnsaved(n) \in Nat
           /\ \A w \in Workers : worker[w].snap[n].committed \in Nat
<1>1. "consumer" \in Workers
    BY DEF Workers
<1>2. EnterUnsaved(n) \in Nat
    BY <1>1, WorkerType DEF Base, EnterUnsaved
<1>3. OnFile \in Budgets /\ budget \in Budgets /\ \A w \in Workers : worker[w].snap \in Budgets
    BY OnFileType, WorkerType DEF Base, TypeOK
<1>4. \A b \in Budgets : b[n].committed \in Nat
    BY DEF Budgets
<1>5. QED
    BY <1>2, <1>3, <1>4

\* The reservation of an entry is unsaved from try_reserve to the rename.
LEMMA EnterUnsavedKept ==
    ASSUME Base, Next, ~ Restart, NEW n \in Kols, \A k \in Keys : ~ EnterReserve(k),
           ~ SaveRename("consumer"), ~ SaveFails("consumer")
    PROVE  EnterUnsaved(n)' = EnterUnsaved(n)
<1> DEFINE c == "consumer"
<1>1. c \in Workers
    BY DEF Workers
<1>2. CASE worker'[c] = worker[c]
    BY <1>2 DEF EnterUnsaved
<1>3. CASE \E k \in Keys : CloseRead(c, k)
    <2>1. worker[c].pc = "read" /\ worker'[c].op = worker[c].op
        BY <1>1, <1>3, Reads DEF CloseRead, At, Base
    <2>2. worker[c].op = "close"
        BY <1>1, <2>1, OpOf
    <2>3. QED
        BY <2>1, <2>2 DEF EnterUnsaved
<1>4. CASE \E k \in Keys : CloseSkip(c, k)
    <2>1. worker[c].pc = "read" /\ worker'[c].pc \in {"idle", "read"}
        BY <1>1, <1>4, Skips DEF CloseSkip, At, Base
    <2>2. QED
        BY <2>1 DEF EnterUnsaved
<1>5. CASE Advances(c)
    <2>1. Moved(c) /\ Keeps(c)
        BY <1>1, <1>5, Advance DEF Base
    <2>2. worker[c].pc = "priced" => worker[c].op = "close"
        BY <1>1, CloserOp
    <2>3. CASE worker[c].op # "enter"
        BY <2>1, <2>3 DEF Keeps, EnterUnsaved
    <2>4. CASE worker[c].op = "enter"
        <3>1. /\ worker[c].pc = "write" => SaveWrite(c)
              /\ worker[c].pc # "rename"
            BY <1>1, <1>5, WhichAdvance
        <3>2. worker[c].pc = "write" => worker'[c].pc = "rename"
            BY <1>1, <3>1, MovesTo DEF SaveWrite, Base, Pcs
        <3>3. worker'[c].pc \in {"save", "write", "rename"}
              <=> worker[c].pc \in {"save", "write", "rename"}
            BY <2>1, <2>2, <2>4, <3>1, <3>2 DEF Moved, AfterSave
        <3>4. QED
            BY <2>1, <3>3 DEF Keeps, EnterUnsaved
    <2>5. QED
        BY <2>3, <2>4
<1>6. CASE Rests(c)
    <2>1. worker[c].pc \in {"quote", "idle", "booked"} /\ Resting(c)
        BY <1>1, <1>6, Rest DEF Base
    <2>2. QED
        BY <2>1 DEF Resting, EnterUnsaved
<1>7. QED
    BY <1>1, <1>2, <1>3, <1>4, <1>5, <1>6, WorkerCases

\* try_reserve leaves the file behind by what it reserved.
LEMMA ReserveBehind ==
    ASSUME Base, Base', NEW k \in Keys, EnterReserve(k), NEW n \in Kols,
           FileWithin(n), SweeperWithin(n)
    PROVE  FileWithin(n)' /\ SweeperWithin(n)' /\ ConsumerWithin(n)'
<1>1. /\ worker["consumer"].pc = "idle" /\ worker'["consumer"].pc = "save"
      /\ worker'["consumer"].op = "enter" /\ worker'["consumer"].key = k
      /\ worker'["consumer"].amt = Want(Kol(k)) /\ Only("consumer")
    BY Reserves DEF Base
<1>2. worker'["sweeper"] = worker["sweeper"]
    BY <1>1 DEF Only, Workers
<1>3. EnterUnsaved(n) = 0 /\ EnterUnsaved(n)' = IF Kol(k) = n THEN Want(Kol(k)) ELSE 0
    BY <1>1 DEF EnterUnsaved
<1>4. PICK a \in Nat : a = Want(Kol(k))
    BY Reserves DEF Base
<1>5. budget'[n].committed = budget[n].committed + EnterUnsaved(n)'
    <2>1. CASE Kol(k) = n
        BY <1>3, <2>1, ReserveEffect
    <2>2. CASE Kol(k) # n
        <3>1. budget'[n] = budget[n]
            BY <2>2, ReserveEffect DEF OthersKeep
        <3>2. budget[n].committed \in Nat
            BY BehindTypes
        <3>3. QED
            BY <1>3, <2>2, <3>1, <3>2
    <2>3. QED
        BY <2>1, <2>2
<1>6. OnFile' = OnFile
    BY DEF EnterReserve, diskvars, OnFile
<1>7. PICK b \in Nat, f \in Nat, u \in Nat, s \in Nat :
          /\ b = budget[n].committed /\ f = OnFile[n].committed /\ u = EnterUnsaved(n)'
          /\ s = worker["sweeper"].snap[n].committed
    BY <1>3, <1>4, BehindTypes DEF Workers
<1>8. FileWithin(n)'
    <2>1. b <= f
        BY <1>3, <1>7 DEF FileWithin
    <2>2. QED
        BY <1>5, <1>6, <1>7, <2>1 DEF FileWithin
<1>9. SweeperWithin(n)'
    <2>1. Saving("sweeper") => b <= s
        BY <1>3, <1>7 DEF SweeperWithin
    <2>2. QED
        BY <1>2, <1>5, <1>7, <2>1 DEF SweeperWithin, Saving
<1>10. ConsumerWithin(n)'
    BY <1>1 DEF ConsumerWithin, Saving
<1>11. QED
    BY <1>8, <1>9, <1>10

\* A step that raises nobody's committed funds and changes no file.
LEMMA LowerBehind ==
    ASSUME Base, Base', NEW n \in Kols, budget'[n].committed <= budget[n].committed,
           EnterUnsaved(n)' = EnterUnsaved(n), UNCHANGED file,
           \A w \in Workers : Saving(w)' => \/ Saving(w) /\ worker'[w].snap = worker[w].snap
                                            \/ worker'[w].snap = budget',
           FileWithin(n), SweeperWithin(n), ConsumerWithin(n)
    PROVE  FileWithin(n)' /\ SweeperWithin(n)' /\ ConsumerWithin(n)'
<1>1. OnFile' = OnFile
    BY DEF OnFile
<1>2. "consumer" \in Workers /\ "sweeper" \in Workers
    BY DEF Workers
<1>3. PICK b \in Nat, b2 \in Nat, f \in Nat, u \in Nat :
          /\ b = budget[n].committed /\ b2 = budget'[n].committed
          /\ f = OnFile[n].committed /\ u = EnterUnsaved(n)
    BY BehindTypes DEF Base, TypeOK, Budgets
<1>4. b2 <= b
    BY <1>3
<1>5. FileWithin(n)'
    <2>1. b <= f + u
        BY <1>3 DEF FileWithin
    <2>2. b2 <= f + u
        BY <1>4, <2>1
    <2>3. QED
        BY <1>1, <1>3, <2>2 DEF FileWithin
<1>6. SweeperWithin(n)'
    <2>1. SUFFICES ASSUME Saving("sweeper")'
                   PROVE  b2 <= worker'["sweeper"].snap[n].committed + u
        BY <1>3 DEF SweeperWithin
    <2>2. CASE worker'["sweeper"].snap = budget'
        BY <1>3, <2>2
    <2>3. CASE Saving("sweeper") /\ worker'["sweeper"].snap = worker["sweeper"].snap
        <3>1. PICK s \in Nat : s = worker["sweeper"].snap[n].committed
            BY <1>2, BehindTypes
        <3>2. b <= s + u
            BY <1>3, <2>3, <3>1 DEF SweeperWithin
        <3>3. QED
            BY <1>4, <2>3, <3>1, <3>2
    <2>4. QED
        BY <1>2, <2>1, <2>2, <2>3
<1>7. ConsumerWithin(n)'
    <2>1. SUFFICES ASSUME Saving("consumer")'
                   PROVE  b2 <= worker'["consumer"].snap[n].committed
        BY <1>3 DEF ConsumerWithin
    <2>2. CASE worker'["consumer"].snap = budget'
        BY <1>3, <2>2
    <2>3. CASE Saving("consumer") /\ worker'["consumer"].snap = worker["consumer"].snap
        <3>1. PICK s \in Nat : s = worker["consumer"].snap[n].committed
            BY <1>2, BehindTypes
        <3>2. b <= s
            BY <1>3, <2>3, <3>1 DEF ConsumerWithin
        <3>3. QED
            BY <1>4, <2>3, <3>1, <3>2
    <2>4. QED
        BY <1>2, <2>1, <2>2, <2>3
<1>8. QED
    BY <1>5, <1>6, <1>7

\* A save that ends: the copy that reaches the file is the saver's, and a consumer's
\* copy has its own reservation in it.
LEMMA RenameBehind ==
    ASSUME Base, Base', Saved, NEW w \in Workers, SaveRename(w), NEW n \in Kols,
           SweeperWithin(n), ConsumerWithin(n)
    PROVE  FileWithin(n)' /\ SweeperWithin(n)' /\ ConsumerWithin(n)'
<1>1. /\ worker[w].pc = "rename" /\ worker'[w].pc \in {"row", "quote"}
      /\ OnFile' = worker[w].snap /\ Only(w)
      /\ \A v \in Workers : ~ Saving(v)'
    BY RenameSaved
<1>2. budget' = budget
    BY DEF SaveRename
<1>3. SweeperWithin(n)' /\ ConsumerWithin(n)'
    BY <1>1 DEF SweeperWithin, ConsumerWithin, Workers
<1>4. PICK b \in Nat, s \in Nat, u \in Nat :
          /\ b = budget[n].committed /\ s = worker[w].snap[n].committed
          /\ u = EnterUnsaved(n)'
    <2>1. EnterUnsaved(n)' \in Nat
        BY WorkerType DEF Base, TypeOK, EnterUnsaved, Workers
    <2>2. QED
        BY <2>1, BehindTypes
<1>5. b <= s + u
    <2>1. CASE w = "consumer"
        <3>1. b <= s
            BY <1>1, <1>4, <2>1 DEF ConsumerWithin, Saving
        <3>2. QED
            BY <3>1
    <2>2. CASE w = "sweeper"
        <3>1. EnterUnsaved(n)' = EnterUnsaved(n)
            BY <1>1, <2>2 DEF EnterUnsaved, Only, Workers
        <3>2. QED
            BY <1>1, <1>4, <2>2, <3>1 DEF SweeperWithin, Saving
    <2>3. QED
        BY <2>1, <2>2 DEF Workers
<1>6. FileWithin(n)'
    BY <1>1, <1>2, <1>4, <1>5 DEF FileWithin
<1>7. QED
    BY <1>3, <1>6

\* Every step keeps the files as little behind.
LEMMA BehindKept ==
    ASSUME Base, Files, Behind, Next
    PROVE  Behind'
<1>1. SUFFICES ASSUME ~ unsaved', crashes' = 0
               PROVE  /\ \A n \in Kols : FileWithin(n)' /\ SweeperWithin(n)' /\ ConsumerWithin(n)'
                      /\ \A k \in Keys : JsonWithin(k)'
    BY DEF Behind, FileWithin, SweeperWithin, ConsumerWithin, JsonWithin
<1>2. Base' /\ ~ unsaved /\ crashes = 0 /\ ~ Restart
    BY <1>1, NextBase, DiskCases, NotRestarted
<1>3. /\ Saved
      /\ \A n \in Kols : FileWithin(n) /\ SweeperWithin(n) /\ ConsumerWithin(n)
      /\ \A k \in Keys : JsonWithin(k)
    BY <1>2, FilesParts, BehindParts
<1>4. \A k \in Keys : JsonWithin(k)'
    BY <1>1, <1>2, <1>3, JsonWithinKept
<1>5. ASSUME NEW n \in Kols
      PROVE  FileWithin(n)' /\ SweeperWithin(n)' /\ ConsumerWithin(n)'
    <2>1. CASE \E k \in Keys : EnterReserve(k)
        BY <1>2, <1>3, <2>1, ReserveBehind
    <2>2. \A w \in Workers : ~ SaveFails(w)
        BY <1>1, DiskCases
    <2>3. CASE \E w \in Workers : SaveRename(w)
        BY <1>2, <1>3, <2>3, RenameBehind
    <2>4. CASE (\A w \in Workers : ~ SaveRename(w)) /\ \A k \in Keys : ~ EnterReserve(k)
        <3>1. budget'[n].committed <= budget[n].committed
            <4>1. budget[n].committed \in Nat
                BY BehindTypes
            <4>2. CASE budget' = budget
                BY <4>1, <4>2
            <4>3. ASSUME NEW w \in Workers, CloseCredit(w)
                  PROVE  budget'[n].committed <= budget[n].committed
                <5>1. Kol(worker[w].key) = n => budget'[n].committed <= budget[n].committed
                    BY <4>3, CreditEffect
                <5>2. Kol(worker[w].key) # n => budget'[n] = budget[n]
                    BY <4>3, CreditEffect DEF OthersKeep
                <5>3. QED
                    BY <4>1, <5>1, <5>2
            <4>4. QED
                BY <1>2, <2>4, <4>2, <4>3, BudgetCases
        <3>2. EnterUnsaved(n)' = EnterUnsaved(n)
            BY <1>2, <2>2, <2>4, EnterUnsavedKept DEF Workers
        <3>3. UNCHANGED file
            BY <1>1, <2>4, DiskCases
        <3>4. ASSUME NEW w \in Workers, Saving(w)'
              PROVE  \/ Saving(w) /\ worker'[w].snap = worker[w].snap
                     \/ worker'[w].snap = budget'
            <4>1. CASE worker'[w] = worker[w]
                BY <3>4, <4>1 DEF Saving
            <4>2. CASE SaveCopy(w)
                <5>1. budget' = budget
                    BY <4>2 DEF SaveCopy
                <5>2. QED
                    BY <1>1, <1>3, <4>2, <5>1, CopySaved
            <4>3. CASE SaveWrite(w)
                BY <1>3, <4>3, WriteSaved DEF Saving
            <4>4. QED
                BY <1>2, <3>4, <4>1, <4>2, <4>3, Comes
        <3>5. QED
            BY <1>2, <1>3, <3>1, <3>2, <3>3, <3>4, LowerBehind
    <2>5. QED
        BY <2>1, <2>3, <2>4
<1>6. QED
    BY <1>4, <1>5

---------------------------------------------------------------------------
(* The theorems.                                                           *)

\* The first state satisfies the invariant.
LEMMA InitInv == Init => Inv
<1> SUFFICES ASSUME Init
             PROVE  Inv
    OBVIOUS
<1>1. Base
    BY InitBase
<1>2. /\ budget = NoBudgets /\ book = [k \in Keys |-> 0] /\ json = [k \in Keys |-> 0]
      /\ tokenless = {} /\ json_tokenless = {}
      /\ held = {} /\ file = NoFile
      /\ ~ stale /\ ~ crossed /\ ~ unsaved
      /\ \A n \in Kols : csv[n] = 0 /\ reserved[n] = 0 /\ leaked[n] = 0
    BY DEF Init
<1>3. \A w \in Workers : /\ worker[w].pc = "idle" /\ worker[w].op = "none"
                         /\ worker[w].key = NoKey
    BY DEF Init, Idle
<1>4. Fresh
    BY <1>3 DEF Fresh, CreditPending
<1>5. Known
    <2>1. NoKey \notin Keys
        BY DEF NoKey, Keys
    <2>2. QED
        BY <1>2, <1>3, <2>1 DEF Known
<1>6. CommittedAccounted
    <2>1. SUFFICES ASSUME NEW n \in Kols
                   PROVE  Balanced(n) /\ Conserved(n) /\ RowsWithin(n)
        BY DEF CommittedAccounted, Balanced, Conserved, RowsWithin
    <2>2. budget[n].committed = 0 /\ budget[n].cash = Initial /\ budget[n].pnl = 0
        BY <1>2 DEF NoBudgets, NoBudget
    <2>3. Closing(n) = 0 /\ Unrowed(n) = 0 /\ Entering(n) = 0
        BY <1>3 DEF Closing, Unrowed, Sliced, Entering, Workers
    <2>4. OpenCost(n) = 0
        BY <1>2, KeysOfFinite, SumOfZeros DEF OpenCost
    <2>5. QED
        BY <1>2, <2>2, <2>3, <2>4, ConstantsAssumption DEF Balanced, Conserved, RowsWithin
<1>7. HeldLayer
    <2>1. \A t \in Tokens : t \in held <=> StillHeld(book, t)
        BY <1>2 DEF StillHeld
    <2>2. \A w \in Workers : Backed(w) /\ ~ AtHeld(w)
        BY <1>3 DEF Backed, At, AtHeld
    <2>3. \A t \in Tokens : Alone(t) /\ Settled(t)
        BY <2>1, <2>2 DEF Alone, Settled, Telling, Workers
    <2>4. QED
        BY <2>2, <2>3, HeldParts
<1>8. Files
    <2>1. JsonFollows
        BY <1>2 DEF JsonFollows
    <2>2. \A w \in Workers : ~ Saving(w) /\ ~ At(w, "rename")
        BY <1>3 DEF Saving, At
    <2>3. OnFile = budget
        BY <1>2 DEF OnFile
    <2>4. Saved
        BY <2>2, <2>3 DEF Saved, Solo, Copied, Written, Workers
    <2>5. QED
        BY <2>1, <2>4, FilesParts
<1>9. Behind
    <2>1. OnFile = budget
        BY <1>2 DEF OnFile
    <2>2. ASSUME NEW n \in Kols
          PROVE  FileWithin(n) /\ SweeperWithin(n) /\ ConsumerWithin(n)
        <3>1. budget[n].committed = 0 /\ EnterUnsaved(n) = 0
            BY <1>2, <1>3 DEF NoBudgets, NoBudget, EnterUnsaved, Workers
        <3>2. ~ Saving("consumer") /\ ~ Saving("sweeper")
            BY <1>3 DEF Saving, Workers
        <3>3. QED
            BY <2>1, <3>1, <3>2 DEF FileWithin, SweeperWithin, ConsumerWithin
    <2>3. \A k \in Keys : JsonWithin(k)
        BY <1>2 DEF JsonWithin
    <2>4. QED
        BY <2>2, <2>3, BehindParts
<1>10. QED
    BY <1>1, <1>4, <1>5, <1>6, <1>7, <1>8, <1>9 DEF Inv, Accounts

\* Every step keeps the invariant.
LEMMA NextInv ==
    ASSUME Inv, [Next]_ptvars
    PROVE  Inv'
<1>1. Base /\ Accounts /\ HeldLayer /\ Files /\ Behind
    BY DEF Inv
<1>2. Base'
    BY <1>1, NextBase
<1>3. CASE Next
    BY <1>1, <1>2, <1>3, AccountsKept, HeldKept, FilesKept, BehindKept DEF Inv
<1>4. CASE UNCHANGED ptvars
    <2>1. /\ UNCHANGED <<budget, book, tokenless, aged, held, worker>>
          /\ UNCHANGED <<tmp, file, json, json_tokenless, csv>>
          /\ UNCHANGED <<reserved, leaked, stale, crossed, unsaved>>
          /\ UNCHANGED <<entries, exits, crashes, faults>>
        BY <1>4 DEF ptvars, memvars, diskvars, histvars, countvars
    <2>2. Fresh' /\ Known'
        BY <1>1, <2>1 DEF Accounts, Fresh, Known, CreditPending
    <2>3. CommittedAccounted'
        BY <1>1, <2>1 DEF Accounts, CommittedAccounted, Closing, Unrowed, Sliced, Entering,
                          OpenCost
    <2>4. HeldLayer'
        BY <1>1, <2>1 DEF HeldLayer, Telling, AtHeld, At
    <2>5. Files'
        BY <1>1, <2>1 DEF Files, Saving, At, OnFile
    <2>6. Behind'
        BY <1>1, <2>1 DEF Behind, Saving, OnFile, EnterUnsaved
    <2>7. QED
        BY <1>2, <2>2, <2>3, <2>4, <2>5, <2>6 DEF Inv, Accounts
<1>5. QED
    BY <1>3, <1>4

\* The five layers together: try_reserve, credit_close and the position book in
\* paper.rs, the held set, and the files they are restored from.
THEOREM Invariance == Spec => []Inv
<1>1. Init => Inv
    BY InitInv
<1>2. Inv /\ [Next]_ptvars => Inv'
    BY NextInv
<1>3. QED
    BY <1>1, <1>2, PTL DEF Spec

\* Until a restart, and as long as no close worked on a stale copy, a KOL's row in
\* KolBudgetBook balances against its positions, its rows in closed_trades.csv and
\* its initial budget, at every step between try_reserve, credit_close, append_trade
\* and the update of the book.
THEOREM Accounted == Spec => []CommittedAccounted
<1>1. Inv => CommittedAccounted
    BY DEF Inv, Accounts
<1>2. QED
    BY <1>1, Invariance, PTL

\* The held set has exactly the tokens of the book, between the steps in which
\* handle_enter and close_one tell it, unless two of them crossed for one token.
THEOREM HeldExact == Spec => []HeldMatchesBook
<1>1. Inv => HeldMatchesBook
    <2>1. SUFFICES ASSUME Inv, ~ crossed, NEW t \in Tokens,
                          \A w \in Workers : At(w, "hold") \/ At(w, "unhold")
                                             => Token(worker[w].key) # t
                   PROVE  t \in held <=> \E k \in Keys : Token(k) = t /\ book[k] # 0
        BY DEF HeldMatchesBook
    <2>2. Settled(t)
        BY <2>1, HeldParts DEF Inv
    <2>3. \A w \in Workers : ~ Telling(w, t)
        BY <2>1 DEF Telling, AtHeld, At
    <2>4. QED
        BY <2>2, <2>3 DEF Settled, StillHeld
<1>2. QED
    BY <1>1, Invariance, PTL

\* Between two signals open_positions.json is the book and kol_budgets.json the
\* budgets, unless a save failed or two overlapped.
THEOREM FilesMatch == Spec => []FilesMatchWhenIdle
<1>1. Inv => FilesMatchWhenIdle
    <2>1. SUFFICES ASSUME Inv, \A w \in Workers : At(w, "idle"), ~ unsaved, crashes = 0
                   PROVE  /\ json = book /\ json_tokenless = tokenless
                          /\ budget = OnFile
        BY DEF FilesMatchWhenIdle, OnFile
    <2>2. JsonFollows /\ Written
        BY <2>1, FilesParts DEF Inv, Saved
    <2>3. json = book /\ json_tokenless = tokenless
        BY <2>1, <2>2 DEF JsonFollows, At
    <2>4. budget = OnFile
        BY <2>1, <2>2 DEF Written, At, Saving
    <2>5. QED
        BY <2>3, <2>4
<1>2. QED
    BY <1>1, Invariance, PTL

\* What load_or_new and load_book restore between two closes.
LEMMA RestoredCovered ==
    ASSUME Inv, Restart, crashes = 0, ~ unsaved, ~ stale,
           \A w \in Workers : worker[w].op # "close", NEW n \in Kols
    PROVE  budget'[n].committed >= OpenCost(n)'
<1>1. Base /\ Balanced(n) /\ FileWithin(n) /\ \A k \in Keys : JsonWithin(k)
    BY AccountedParts, BehindParts DEF Inv, Accounts
<1>2. \A k \in Keys : json[k] \in Nat /\ book[k] \in Nat /\ json[k] <= book[k]
    BY <1>1 DEF JsonWithin, Base, TypeOK
<1>3. IsFiniteSet(KeysOf(n)) /\ KeysOf(n) \subseteq Keys
    BY KeysOfFinite
<1>4. SumOf(json, KeysOf(n)) \in Nat /\ SumOf(json, KeysOf(n)) <= SumOf(book, KeysOf(n))
    BY <1>2, <1>3, SumMonotone, SumType
<1>5. budget' = OnFile /\ OpenCost(n)' = SumOf(json, KeysOf(n))
    BY DEF Restart, OnFile, OpenCost
<1>6. Closing(n) = 0
    BY DEF Closing, Sliced, Workers
<1>7. PICK b \in Nat, f \in Nat, u \in Nat, e \in Nat, o \in Nat, l \in Nat, j \in Nat :
          /\ b = budget[n].committed /\ f = OnFile[n].committed /\ u = EnterUnsaved(n)
          /\ e = Entering(n) /\ o = OpenCost(n) /\ l = leaked[n]
          /\ j = SumOf(json, KeysOf(n))
    BY <1>1, <1>4, BehindTypes, AccountTypes
<1>8. u <= e
    BY <1>7 DEF EnterUnsaved, Entering
<1>9. b + 0 = o + e + l
    BY <1>1, <1>6, <1>7 DEF Balanced
<1>10. b <= f + u
    BY <1>1, <1>7 DEF FileWithin
<1>11. j <= o
    BY <1>4, <1>7 DEF OpenCost
<1>12. j <= f
    BY <1>8, <1>9, <1>10, <1>11
<1>13. QED
    BY <1>5, <1>7, <1>12

\* A process that stops between two closes comes back with the cost of every
\* restored position among the committed funds: the budgets are saved before the
\* entry reaches the positions file.
THEOREM RestartCovered == Spec => RestartBetweenCloses
<1>1. ASSUME Inv, [Next]_ptvars
      PROVE  [/\ crashes' # crashes /\ crashes = 0
              /\ ~unsaved /\ ~stale
              /\ \A w \in Workers : worker[w].op # "close"
              => \A n \in Kols : budget'[n].committed >= OpenCost(n)']_ptvars
    <2>1. CASE UNCHANGED ptvars
        BY <2>1
    <2>2. CASE Next
        <3>1. crashes' # crashes => Restart
            BY <2>2, TallyCases
        <3>2. QED
            BY <1>1, <3>1, RestoredCovered
    <2>3. QED
        BY <1>1, <2>1, <2>2
<1>2. QED
    BY <1>1, Invariance, PTL DEF Spec, RestartBetweenCloses
===========================================================================
