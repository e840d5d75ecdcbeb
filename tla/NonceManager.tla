--------------------------- MODULE NonceManager ---------------------------
(***************************************************************************)
(* The wallet nonce tracker of trader/nonce.rs and the tasks that call it. *)
(*                                                                         *)
(* Every outgoing transaction reserves a nonce from an in-memory atomic    *)
(* counter.  Each reservation also spawns a detached task that writes the  *)
(* next value to a file, and a restart begins at the larger of that file   *)
(* and the node's pending transaction count.  A failed submission resyncs  *)
(* the counter with the node.  Nothing orders the spawned writes, nothing  *)
(* waits for them, a resync reads and stores the counter in two steps, and *)
(* the chain moves on while a start or a resync uses what the node said.   *)
(***************************************************************************)
EXTENDS Integers, FiniteSets

CONSTANTS
    Tasks,        \* tokio tasks that send transactions (consumer, exits, approvals)
    FirstNonce,   \* the wallet's transaction count when the program first starts
    MaxReserves,  \* bound: reservations made in a behaviour
    MaxCrashes,   \* bound: process crashes in a behaviour
    MaxForeign    \* bound: transactions sent from the wallet by other programs

ASSUME ConstantsAssumption ==
    /\ FirstNonce \in Nat
    /\ MaxReserves \in Nat
    /\ MaxCrashes \in Nat
    /\ MaxForeign \in Nat

VARIABLES
    up,        \* the process is running
    current,   \* NonceManager.current
    disk,      \* the persisted file: a number, or Empty when absent or truncated
    filed,     \* history: id of the write whose text the file holds, or NoWrite
    writes,    \* spawned file writes that have not finished
    task,      \* what each task is doing with the nonce manager
    boot,      \* a starting process has the node's count, or NoAnswer
    mined,     \* the wallet's transaction count on chain
    outside,   \* nonces other programs sent transactions with, mined or pending
    handed,    \* history: nonces returned by reserve, over all restarts
    reused,    \* history: some nonce was returned twice
    overlap,   \* history: a reservation fell between a resync's load and its store
    lost,      \* history: a crash before the newest reservation's write was the last to finish
    reserves, crashes, foreign  \* counters for the bounds

nmvars == <<up, current, disk, filed, writes, task, boot, mined, outside, handed,
            reused, overlap, lost, reserves, crashes, foreign>>

Empty == -1
NoWrite == -1
NoAnswer == -1

Larger(a, b) == IF a >= b THEN a ELSE b

\* What the bootstrap reads from the file: unparsable or absent counts as 0.
DiskNext == IF disk = Empty THEN 0 ELSE disk

\* Mutant: the bootstrap trusts the node alone.
BootNonceFromNode(chain_n) == chain_n

\* The nonce a starting process begins with.
BootNonce(chain_n) == Larger(chain_n, DiskNext)

\* The counts the node may report as pending: every transaction it counts
\* beyond the mined ones was sent from this wallet, by this program or by
\* another, but it need not know of all of them (some were accepted only by
\* another relay).
PendingCounts ==
    {c \in mined..(mined + MaxReserves + MaxForeign) :
        \A n \in mined..(c - 1) : n \in handed \cup outside}

Pow10 == <<1, 10, 100, 1000, 10000, 100000>>

\* The file holds decimal text.  A writer that truncated the file early and
\* writes late overwrites the first digits of a longer number and leaves the
\* rest: 9 written over 10 reads as 90.
Overlay(old, new) ==
    LET extra == Cardinality({k \in 2..6 : new < Pow10[k] /\ Pow10[k] <= old})
    IN  new * Pow10[1 + extra] + (old % Pow10[1 + extra])

Idle == [phase |-> "idle", chain |-> 0, local |-> 0]

Init ==
    /\ up = TRUE
    /\ current = FirstNonce
    /\ disk = Empty
    /\ filed = NoWrite
    /\ writes = {}
    /\ task = [t \in Tasks |-> Idle]
    /\ boot = NoAnswer
    /\ mined = FirstNonce
    /\ outside = {}
    /\ handed = {}
    /\ reused = FALSE
    /\ overlap = FALSE
    /\ lost = FALSE
    /\ reserves = 0
    /\ crashes = 0
    /\ foreign = 0

---------------------------------------------------------------------------
\* The value a reservation of n persists.
\* Mutant: the reserved nonce itself is written, not the next one.
PersistedSame(n) == n

\* Mutant: one nonce is left out at a restart.
PersistedAhead(n) == n + 2

PersistedNext(n) == n + 1

\* reserve(): one atomic fetch_add, then the write of the next value is spawned.
Reserve(t) ==
    /\ up
    /\ task[t].phase = "idle"
    /\ reserves < MaxReserves
    /\ current' = current + 1
    /\ writes' = writes \cup {[id |-> reserves, val |-> PersistedNext(current), opened |-> FALSE]}
    /\ task' = [task EXCEPT ![t].phase = "sending"]
    /\ handed' = handed \cup {current}
    /\ reused' = (reused \/ current \in handed)
    /\ overlap' = (overlap \/ \E u \in Tasks : task[u].phase = "loaded")
    /\ reserves' = reserves + 1
    /\ UNCHANGED <<up, disk, filed, boot, mined, outside, lost, crashes, foreign>>

\* The transaction was submitted: the caller is done with its nonce.
SendAccepted(t) ==
    /\ up
    /\ task[t].phase = "sending"
    /\ task' = [task EXCEPT ![t] = Idle]
    /\ UNCHANGED <<up, current, disk, filed, writes, boot, mined, outside, handed,
                   reused, overlap, lost, reserves, crashes, foreign>>

\* resync() after a failed signature or submission: the node answers.
ResyncFetch(t) ==
    /\ up
    /\ task[t].phase = "sending"
    /\ \E c \in PendingCounts :
           task' = [task EXCEPT ![t].phase = "fetched", ![t].chain = c]
    /\ UNCHANGED <<up, current, disk, filed, writes, boot, mined, outside, handed,
                   reused, overlap, lost, reserves, crashes, foreign>>

\* The node's answer fails: resync returns the error, which its callers drop.
ResyncFetchFails(t) ==
    /\ up
    /\ task[t].phase = "sending"
    /\ task' = [task EXCEPT ![t] = Idle]
    /\ UNCHANGED <<up, current, disk, filed, writes, boot, mined, outside, handed,
                   reused, overlap, lost, reserves, crashes, foreign>>

\* resync(): let local = self.current.load(...).
ResyncLoad(t) ==
    /\ up
    /\ task[t].phase = "fetched"
    /\ task' = [task EXCEPT ![t].phase = "loaded", ![t].local = current]
    /\ UNCHANGED <<up, current, disk, filed, writes, boot, mined, outside, handed,
                   reused, overlap, lost, reserves, crashes, foreign>>

\* resync(): self.current.store(chain_n.max(local), ...).
ResyncStore(t) ==
    /\ up
    /\ task[t].phase = "loaded"
    /\ current' = Larger(task[t].chain, task[t].local)
    /\ task' = [task EXCEPT ![t] = Idle]
    /\ UNCHANGED <<up, disk, filed, writes, boot, mined, outside, handed, reused,
                   overlap, lost, reserves, crashes, foreign>>

---------------------------------------------------------------------------
\* tokio::fs::write: the file is opened with truncation, then written.
OpenFile(w) ==
    /\ up
    /\ w \in writes
    /\ ~w.opened
    /\ disk' = Empty
    /\ filed' = NoWrite
    /\ writes' = (writes \ {w}) \cup {[w EXCEPT !.opened = TRUE]}
    /\ UNCHANGED <<up, current, task, boot, mined, outside, handed, reused, overlap,
                   lost, reserves, crashes, foreign>>

WriteFile(w) ==
    /\ up
    /\ w \in writes
    /\ w.opened
    /\ disk' = IF disk = Empty THEN w.val ELSE Overlay(disk, w.val)
    /\ filed' = w.id
    /\ writes' = writes \ {w}
    /\ UNCHANGED <<up, current, task, boot, mined, outside, handed, reused, overlap,
                   lost, reserves, crashes, foreign>>

\* The write fails before or after it opened the file; its error is dropped.
WriteFails(w) ==
    /\ up
    /\ w \in writes
    /\ writes' = writes \ {w}
    /\ UNCHANGED <<up, current, disk, filed, task, boot, mined, outside, handed, reused,
                   overlap, lost, reserves, crashes, foreign>>

---------------------------------------------------------------------------
\* The process dies: the counter, the tasks and the unfinished writes are gone.
Crash ==
    /\ up
    /\ crashes < MaxCrashes
    /\ up' = FALSE
    /\ current' = 0
    /\ writes' = {}
    /\ task' = [t \in Tasks |-> Idle]
    /\ lost' = (lost \/ (reserves > 0 /\ filed # reserves - 1))
    /\ crashes' = crashes + 1
    /\ UNCHANGED <<disk, filed, boot, mined, outside, handed, reused, overlap, reserves,
                   foreign>>

\* NonceManager::new: the node answers.  A start that ends here (the node's
\* answer fails, the process dies) is followed by another that asks again.
BootFetch ==
    /\ ~up
    /\ boot' \in PendingCounts
    /\ UNCHANGED <<up, current, disk, filed, writes, task, mined, outside, handed, reused,
                   overlap, lost, reserves, crashes, foreign>>

\* NonceManager::new after its await: the file is read and the counter set.
Restart ==
    /\ ~up
    /\ boot # NoAnswer
    /\ up' = TRUE
    /\ current' = BootNonce(boot)
    /\ boot' = NoAnswer
    /\ UNCHANGED <<disk, filed, writes, task, mined, outside, handed, reused, overlap,
                   lost, reserves, crashes, foreign>>

\* The chain includes the wallet's next transaction.
Mine ==
    /\ mined \in handed \cup outside
    /\ mined' = mined + 1
    /\ UNCHANGED <<up, current, disk, filed, writes, task, boot, outside, handed, reused,
                   overlap, lost, reserves, crashes, foreign>>

\* Another program sends from the same wallet, with the count the node reports
\* (scripts/sweep-dust.py); the transaction stays pending until Mine.
ForeignTx ==
    /\ foreign < MaxForeign
    /\ \E c \in PendingCounts : outside' = outside \cup {c}
    /\ foreign' = foreign + 1
    /\ UNCHANGED <<up, current, disk, filed, writes, task, boot, mined, handed, reused,
                   overlap, lost, reserves, crashes>>

Next ==
    \/ \E t \in Tasks :
           \/ Reserve(t)     \/ SendAccepted(t) \/ ResyncFetch(t)
           \/ ResyncFetchFails(t) \/ ResyncLoad(t) \/ ResyncStore(t)
    \/ \E w \in writes : OpenFile(w) \/ WriteFile(w) \/ WriteFails(w)
    \/ Crash \/ BootFetch \/ Restart \/ Mine \/ ForeignTx

Spec == Init /\ [][Next]_nmvars

---------------------------------------------------------------------------
TaskState == [phase: {"idle", "sending", "fetched", "loaded"}, chain: Nat, local: Nat]
FileWrite == [id: Nat, val: Nat, opened: BOOLEAN]

\* Types of the nonce manager's state (NonceManager, nonce.rs).
TypeOK ==
    /\ up \in BOOLEAN
    /\ current \in Nat
    /\ disk \in Nat \cup {Empty}
    /\ filed \in Nat \cup {NoWrite}
    /\ writes \subseteq FileWrite
    /\ task \in [Tasks -> TaskState]
    /\ boot \in Nat \cup {NoAnswer}
    /\ mined \in Nat
    /\ outside \subseteq Nat
    /\ handed \subseteq Nat
    /\ reused \in BOOLEAN
    /\ overlap \in BOOLEAN
    /\ lost \in BOOLEAN
    /\ reserves \in Nat
    /\ crashes \in Nat
    /\ foreign \in Nat

\* A nonce is returned twice only if a reservation fell inside the load/store
\* window of some task's resync, or a crash came while the file did not hold the
\* newest reservation's write.  Nothing else (late or failed writes without a crash, a node that
\* does not know our transactions, other programs using the wallet, repeated
\* restarts) makes reserve() repeat itself.
ReuseNeedsOverlapOrLoss == ~overlap /\ ~lost => ~reused

\* No nonce is left out: each one below the counter that the chain has not used was
\* returned by reserve, or another program sent with it, unless a reservation fell
\* inside a resync's window or a crash came while the file did not hold the newest
\* reservation's write.  A gap that holds up the wallet's later transactions is
\* therefore a nonce whose own transaction was refused or died with the process
\* (execute, "broadcast failed"), or one of another program's that the node counted
\* and the chain never took; resyncs, node counts ahead of the counter, late file
\* writes and restarts alone make none.
SkipNeedsOverlapOrLoss ==
    ~overlap /\ ~lost => \A n \in mined..(current - 1) : n \in handed \cup outside

\* A start begins at a nonce the chain has already used only where another program
\* used it while the start waited for the node (NonceManager::new, which takes the
\* max of the answer and the file): the wallet's own transactions, also those the
\* node did not know and the chain took meanwhile, are below the counter, unless a
\* reservation fell inside a resync's window or a crash lost the newest write.
StartBelowOnlyForeign ==
    [][~up /\ up' /\ ~overlap /\ ~lost =>
          \A n \in current'..(mined - 1) : n \in outside \ handed]_nmvars
===========================================================================
