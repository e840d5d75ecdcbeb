----------------------- MODULE NonceManager_proofs ------------------------
(***************************************************************************)
(* Proofs about NonceManager for every set of tasks, every first nonce and *)
(* every bound: its types, the exact conditions under which a nonce can be *)
(* returned twice or left out, and whose transactions can be above the     *)
(* nonce of a start.                                                       *)
(***************************************************************************)
EXTENDS NonceManager, FiniteSetTheorems, TLAPS

\* The inductive strengthening of ReuseNeedsOverlapOrLoss.

\* Every reserved nonce is below the bound b.
Below(b) == \A n \in handed : n < b

\* Ids of spawned writes and of the file's text are those of past reservations.
IdsPast ==
    /\ \A w \in writes : w.id < reserves
    /\ filed < reserves

\* A stopped process has no tasks and no writes, and if it lost nothing the
\* file holds the newest reservation's write.
DownInv ==
    ~up => /\ writes = {}
           /\ \A t \in Tasks : task[t].phase = "idle"
           /\ ~lost /\ reserves > 0 => filed = reserves - 1

\* While nothing went wrong, everything the next counter value can be taken
\* from is above every reserved nonce.
SafeInv ==
    ~overlap /\ ~lost =>
        /\ ~reused
        /\ reserves = 0 => handed = {}
        /\ up => Below(current)
        /\ \A t \in Tasks : task[t].phase = "loaded" => Below(task[t].local)
        /\ \A w \in writes : w.id = reserves - 1 => Below(w.val)
        /\ filed = reserves - 1 /\ reserves > 0 => disk # Empty /\ Below(disk)

IInv == TypeOK /\ IdsPast /\ DownInv /\ SafeInv

---------------------------------------------------------------------------
\* The text left in the file by a late writer reads as a number at least as
\* large as the one it wrote (tokio::fs::write over a longer number).
LEMMA OverlayGrows ==
    ASSUME NEW old \in Nat, NEW new \in Nat
    PROVE  Overlay(old, new) \in Nat /\ Overlay(old, new) >= new
<1> DEFINE S == {k \in 2..6 : new < Pow10[k] /\ Pow10[k] <= old}
<1>1. IsFiniteSet(2..6) /\ Cardinality(2..6) = 5
  <2>1. 2 \in Int /\ 6 \in Int /\ ~(2 > 6) /\ 6 - 2 + 1 = 5
    OBVIOUS
  <2>2. IsFiniteSet(2..6) /\ Cardinality(2..6) = IF 2 > 6 THEN 0 ELSE 6 - 2 + 1
    BY <2>1, FS_Interval, Zenon
  <2> QED
    BY <2>1, <2>2, Zenon
<1>2. IsFiniteSet(S) /\ Cardinality(S) <= 5
  BY <1>1, FS_Subset, S \subseteq 2..6
<1>3. Cardinality(S) \in 0..5
  BY <1>2, FS_CardinalityType
<1>4. Pow10[1 + Cardinality(S)] \in {1, 10, 100, 1000, 10000, 100000}
  BY <1>3 DEF Pow10
<1>5. ASSUME NEW p \in {1, 10, 100, 1000, 10000, 100000}
      PROVE  new * p + (old % p) \in Nat /\ new * p + (old % p) >= new
  BY <1>5
<1> QED
  BY <1>4, <1>5 DEF Overlay

\* The counts a node may report are counts, and not below the mined ones.
LEMMA PendingCountsType ==
    ASSUME TypeOK
    PROVE  \A c \in PendingCounts : c \in Nat /\ c >= mined
BY ConstantsAssumption DEF TypeOK, PendingCounts

\* The idle task state is a task state.
LEMMA IdleType == Idle \in TaskState
BY DEF Idle, TaskState

\* Resetting a task to idle, or updating its fields, keeps its type.
LEMMA TaskUpdate ==
    ASSUME TypeOK, NEW t \in Tasks, NEW s \in TaskState
    PROVE  [task EXCEPT ![t] = s] \in [Tasks -> TaskState]
BY DEF TypeOK

\* The initial state is well typed.
LEMMA InitType == Init => TypeOK
<1> SUFFICES ASSUME Init PROVE TypeOK
  OBVIOUS
<1>1. task \in [Tasks -> TaskState]
  BY IdleType DEF Init
<1>2. up \in BOOLEAN /\ reused \in BOOLEAN /\ overlap \in BOOLEAN /\ lost \in BOOLEAN
  BY DEF Init
<1>3. /\ current \in Nat /\ disk \in Nat \cup {Empty} /\ filed \in Nat \cup {NoWrite}
      /\ mined \in Nat /\ reserves \in Nat /\ crashes \in Nat /\ foreign \in Nat
      /\ boot \in Nat \cup {NoAnswer}
  BY ConstantsAssumption DEF Init
<1>4. writes \subseteq FileWrite /\ handed \subseteq Nat /\ outside \subseteq Nat
  BY DEF Init
<1> QED
  BY <1>1, <1>2, <1>3, <1>4 DEF TypeOK

\* Every step keeps the types.
LEMMA NextType == TypeOK /\ [Next]_nmvars => TypeOK'
<1> SUFFICES ASSUME TypeOK, [Next]_nmvars PROVE TypeOK'
  OBVIOUS
<1>1. ASSUME NEW t \in Tasks, Reserve(t) PROVE TypeOK'
  <2>1. [id |-> reserves, val |-> PersistedNext(current), opened |-> FALSE] \in FileWrite
    BY DEF TypeOK, FileWrite, PersistedNext
  <2>2. writes' \subseteq FileWrite
    BY <1>1, <2>1 DEF Reserve, TypeOK
  <2>3. reused' \in BOOLEAN /\ overlap' \in BOOLEAN
    BY <1>1 DEF Reserve
  <2>4. task' \in [Tasks -> TaskState]
    BY <1>1 DEF Reserve, TypeOK, TaskState
  <2> QED
    BY <1>1, <2>2, <2>3, <2>4 DEF Reserve, TypeOK
<1>2. ASSUME NEW t \in Tasks, SendAccepted(t) \/ ResyncFetchFails(t) PROVE TypeOK'
  BY <1>2, IdleType, TaskUpdate DEF SendAccepted, ResyncFetchFails, TypeOK
<1>3. ASSUME NEW t \in Tasks, ResyncFetch(t) PROVE TypeOK'
  <2>1. PICK c \in PendingCounts :
            task' = [task EXCEPT ![t].phase = "fetched", ![t].chain = c]
    BY <1>3 DEF ResyncFetch
  <2>2. c \in Nat
    BY PendingCountsType
  <2>3. task' \in [Tasks -> TaskState]
    BY <2>1, <2>2 DEF TypeOK, TaskState
  <2> QED
    BY <1>3, <2>3 DEF ResyncFetch, TypeOK
<1>4. ASSUME NEW t \in Tasks, ResyncLoad(t) PROVE TypeOK'
  <2>1. task' \in [Tasks -> TaskState]
    BY <1>4 DEF ResyncLoad, TypeOK, TaskState
  <2> QED
    BY <1>4, <2>1 DEF ResyncLoad, TypeOK
<1>5. ASSUME NEW t \in Tasks, ResyncStore(t) PROVE TypeOK'
  <2>1. task' \in [Tasks -> TaskState]
    BY <1>5, IdleType, TaskUpdate DEF ResyncStore
  <2>2. current' \in Nat
    BY <1>5 DEF ResyncStore, TypeOK, TaskState, Larger
  <2> QED
    BY <1>5, <2>1, <2>2 DEF ResyncStore, TypeOK
<1>6. ASSUME NEW w \in writes, OpenFile(w) PROVE TypeOK'
  BY <1>6 DEF OpenFile, TypeOK, FileWrite
<1>7. ASSUME NEW w \in writes, WriteFile(w) PROVE TypeOK'
  <2>1. w.val \in Nat /\ w.id \in Nat
    BY DEF TypeOK, FileWrite
  <2>2. disk' \in Nat
    BY <1>7, <2>1, OverlayGrows DEF WriteFile, TypeOK
  <2> QED
    BY <1>7, <2>1, <2>2 DEF WriteFile, TypeOK
<1>8. ASSUME NEW w \in writes, WriteFails(w) PROVE TypeOK'
  BY <1>8 DEF WriteFails, TypeOK
<1>9. CASE Crash
  <2>1. task' \in [Tasks -> TaskState]
    BY <1>9, IdleType DEF Crash
  <2>2. up' \in BOOLEAN /\ lost' \in BOOLEAN
    BY <1>9 DEF Crash
  <2> QED
    BY <1>9, <2>1, <2>2 DEF Crash, TypeOK
<1>10. CASE Restart
  <2>1. current' \in Nat /\ up' \in BOOLEAN
    BY <1>10 DEF Restart, BootNonce, Larger, DiskNext, TypeOK, NoAnswer
  <2> QED
    BY <1>10, <2>1 DEF Restart, TypeOK
<1>11. CASE Mine
  BY <1>11 DEF Mine, TypeOK
<1>12. CASE ForeignTx
  <2>1. outside' \subseteq Nat
    BY <1>12, PendingCountsType DEF ForeignTx, TypeOK
  <2> QED
    BY <1>12, <2>1 DEF ForeignTx, TypeOK
<1>13. CASE BootFetch
  <2>1. boot' \in Nat
    BY <1>13, PendingCountsType DEF BootFetch
  <2> QED
    BY <1>13, <2>1 DEF BootFetch, TypeOK
<1>14. CASE UNCHANGED nmvars
  BY <1>14 DEF nmvars, TypeOK
<1> QED
  BY <1>1, <1>2, <1>3, <1>4, <1>5, <1>6, <1>7, <1>8, <1>9, <1>10, <1>11, <1>12, <1>13, <1>14
  DEF Next

\* The type invariant of the nonce manager holds in every reachable state.
THEOREM TypeCorrect == Spec => []TypeOK
BY InitType, NextType, PTL DEF Spec

---------------------------------------------------------------------------
\* Initially nothing is reserved and no write is pending.
LEMMA InitIInv == Init => IInv
<1> SUFFICES ASSUME Init PROVE IInv
  OBVIOUS
<1>1. TypeOK
  BY InitType
<1>2. IdsPast /\ DownInv
  BY DEF Init, IdsPast, DownInv, NoWrite
<1>3. SafeInv
  BY ConstantsAssumption DEF Init, SafeInv, Below, Idle, NoWrite
<1> QED
  BY <1>1, <1>2, <1>3 DEF IInv

\* Every step keeps the inductive invariant.
LEMMA NextIInv == IInv /\ [Next]_nmvars => IInv'
<1> SUFFICES ASSUME IInv, [Next]_nmvars PROVE IInv'
  OBVIOUS
<1>0. TypeOK /\ TypeOK' /\ IdsPast /\ DownInv /\ SafeInv
  BY NextType DEF IInv
<1> USE DEF IdsPast, DownInv, SafeInv, Below
<1>1. ASSUME NEW t \in Tasks, Reserve(t) PROVE IInv'
  <2>1. IdsPast' /\ DownInv'
    BY <1>0, <1>1 DEF Reserve, TypeOK, FileWrite, NoWrite
  <2>2. ASSUME ~overlap', ~lost' PROVE SafeInv'
    <3>1. ~overlap /\ ~lost /\ up /\ \A u \in Tasks : task[u].phase # "loaded"
      BY <1>1, <2>2 DEF Reserve
    <3>2. \A n \in handed : n < current
      BY <1>0, <3>1
    <3>3. ~reused'
      BY <1>0, <1>1, <3>1, <3>2 DEF Reserve, TypeOK
    <3>4. \A n \in handed' : n < current'
      BY <1>0, <1>1, <3>2 DEF Reserve, TypeOK
    <3>5. \A u \in Tasks : task'[u].phase # "loaded"
      BY <1>0, <1>1, <3>1 DEF Reserve, TypeOK, TaskState
    <3>6. \A w \in writes' : w.id = reserves' - 1 => \A n \in handed' : n < w.val
      BY <1>0, <1>1, <3>4 DEF Reserve, TypeOK, FileWrite, PersistedNext
    <3>7. filed' # reserves' - 1 /\ reserves' # 0
      BY <1>0, <1>1 DEF Reserve, TypeOK, NoWrite
    <3> QED
      BY <3>3, <3>4, <3>5, <3>6, <3>7
  <2> QED
    BY <1>0, <2>1, <2>2 DEF IInv
<1>2. ASSUME NEW t \in Tasks,
             SendAccepted(t) \/ ResyncFetchFails(t) \/ ResyncFetch(t)
      PROVE  IInv'
  <2>1. \A u \in Tasks : task'[u].phase = "loaded" =>
            task[u].phase = "loaded" /\ task'[u].local = task[u].local
    BY <1>0, <1>2 DEF SendAccepted, ResyncFetchFails, ResyncFetch, Idle, TypeOK, TaskState
  <2>2. up /\ UNCHANGED <<up, current, disk, filed, writes, handed, reused, overlap,
                          lost, reserves>>
    BY <1>2 DEF SendAccepted, ResyncFetchFails, ResyncFetch
  <2>3. IdsPast' /\ DownInv'
    BY <1>0, <2>2
  <2>4. SafeInv'
    BY <1>0, <2>1, <2>2
  <2> QED
    BY <1>0, <2>3, <2>4 DEF IInv
<1>3. ASSUME NEW t \in Tasks, ResyncLoad(t) PROVE IInv'
  <2>1. \A u \in Tasks : task'[u].phase = "loaded" =>
            \/ task[u].phase = "loaded" /\ task'[u].local = task[u].local
            \/ task'[u].local = current
    BY <1>0, <1>3 DEF ResyncLoad, TypeOK, TaskState
  <2>2. up /\ UNCHANGED <<up, current, disk, filed, writes, handed, reused, overlap,
                          lost, reserves>>
    BY <1>3 DEF ResyncLoad
  <2>3. IdsPast' /\ DownInv'
    BY <1>0, <2>2
  <2>4. SafeInv'
    BY <1>0, <2>1, <2>2
  <2> QED
    BY <1>0, <2>3, <2>4 DEF IInv
<1>4. ASSUME NEW t \in Tasks, ResyncStore(t) PROVE IInv'
  <2>1. \A u \in Tasks : task'[u].phase = "loaded" =>
            task[u].phase = "loaded" /\ task'[u].local = task[u].local
    BY <1>0, <1>4 DEF ResyncStore, Idle, TypeOK, TaskState
  <2>2. up /\ UNCHANGED <<up, disk, filed, writes, handed, reused, overlap, lost, reserves>>
    BY <1>4 DEF ResyncStore
  <2>3. task[t].phase = "loaded" /\ current' >= task[t].local
    BY <1>0, <1>4 DEF ResyncStore, Larger, TypeOK, TaskState
  <2>4. ~overlap /\ ~lost => \A n \in handed : n < current'
    <3>1. ~overlap /\ ~lost => \A n \in handed : n < task[t].local
      BY <1>0, <2>3
    <3>2. task[t].local \in Nat /\ current' \in Nat /\ handed \subseteq Nat
      BY <1>0 DEF TypeOK, TaskState
    <3> QED
      BY <2>3, <3>1, <3>2
  <2>5. IdsPast' /\ DownInv'
    BY <1>0, <2>2
  <2>6. SafeInv'
    BY <1>0, <2>1, <2>2, <2>4
  <2> QED
    BY <1>0, <2>5, <2>6 DEF IInv
<1>5. ASSUME NEW w \in writes, OpenFile(w) PROVE IInv'
  <2>1. \A v \in writes' : \E x \in writes : v.id = x.id /\ v.val = x.val
    BY <1>0, <1>5 DEF OpenFile, TypeOK, FileWrite
  <2>2. up /\ filed' = NoWrite
           /\ UNCHANGED <<up, current, task, handed, reused, overlap, lost, reserves>>
    BY <1>5 DEF OpenFile
  <2>3. IdsPast' /\ DownInv'
    BY <1>0, <2>1, <2>2 DEF NoWrite, TypeOK
  <2>4. filed' = reserves' - 1 /\ reserves' > 0 => FALSE
    BY <1>0, <2>2 DEF NoWrite, TypeOK
  <2>5. SafeInv'
    BY <1>0, <2>1, <2>2, <2>4
  <2> QED
    BY <1>0, <2>3, <2>5 DEF IInv
<1>6. ASSUME NEW w \in writes, WriteFile(w) PROVE IInv'
  <2>1. w.val \in Nat /\ w.id \in Nat
    BY <1>0 DEF TypeOK, FileWrite
  <2>2. disk' \in Nat /\ disk' >= w.val
    <3>1. CASE disk = Empty
      BY <1>6, <2>1, <3>1 DEF WriteFile
    <3>2. CASE disk # Empty
      <4>1. disk \in Nat /\ disk' = Overlay(disk, w.val)
        BY <1>0, <1>6, <3>2 DEF WriteFile, TypeOK
      <4> QED
        BY <2>1, <4>1, OverlayGrows
    <3> QED
      BY <3>1, <3>2
  <2>3. up /\ filed' = w.id /\ writes' \subseteq writes
           /\ UNCHANGED <<up, current, task, handed, reused, overlap, lost, reserves>>
    BY <1>6 DEF WriteFile
  <2>4. IdsPast' /\ DownInv'
    BY <1>0, <2>3
  <2>5. ~overlap /\ ~lost /\ w.id = reserves - 1 => \A n \in handed : n < disk'
    <3>1. ~overlap /\ ~lost /\ w.id = reserves - 1 => \A n \in handed : n < w.val
      BY <1>0
    <3>2. handed \subseteq Nat
      BY <1>0 DEF TypeOK
    <3> QED
      BY <2>1, <2>2, <3>1, <3>2
  <2>6. disk' # Empty
    BY <2>2 DEF Empty
  <2>7. SafeInv'
    BY <1>0, <2>3, <2>5, <2>6
  <2> QED
    BY <1>0, <2>4, <2>7 DEF IInv
<1>7. ASSUME NEW w \in writes, WriteFails(w) PROVE IInv'
  <2>1. up /\ writes' \subseteq writes
           /\ UNCHANGED <<up, current, disk, filed, task, handed, reused, overlap, lost,
                          reserves>>
    BY <1>7 DEF WriteFails
  <2>2. IdsPast' /\ DownInv' /\ SafeInv'
    BY <1>0, <2>1
  <2> QED
    BY <1>0, <2>2 DEF IInv
<1>8. CASE Crash
  <2>1. ~up' /\ writes' = {} /\ UNCHANGED <<disk, filed, handed, reused, overlap, reserves>>
    BY <1>8 DEF Crash
  <2>2. \A u \in Tasks : task'[u].phase = "idle"
    BY <1>8 DEF Crash, Idle
  <2>3. ~lost' => ~lost /\ (reserves > 0 => filed = reserves - 1)
    BY <1>8 DEF Crash
  <2>4. IdsPast' /\ DownInv'
    BY <1>0, <2>1, <2>2, <2>3
  <2>5. SafeInv'
    BY <1>0, <2>1, <2>2, <2>3
  <2> QED
    BY <1>0, <2>4, <2>5 DEF IInv
<1>9. CASE Restart
  <2>1. ~up /\ up' /\ UNCHANGED <<disk, filed, writes, task, handed, reused, overlap, lost,
                                  reserves>>
    BY <1>9 DEF Restart
  <2>2. current' >= DiskNext
    BY <1>0, <1>9 DEF Restart, BootNonce, Larger, DiskNext, TypeOK, Empty, NoAnswer
  <2>3. ~overlap /\ ~lost => \A n \in handed : n < current'
    <3>1. CASE reserves = 0
      BY <1>0, <3>1
    <3>2. CASE reserves > 0
      <4>1. ~overlap /\ ~lost => disk # Empty /\ \A n \in handed : n < disk
        BY <1>0, <2>1, <3>2
      <4>2. disk # Empty => DiskNext = disk
        BY DEF DiskNext
      <4>3. current' \in Nat /\ handed \subseteq Nat /\ (disk # Empty => disk \in Nat)
        BY <1>0 DEF TypeOK
      <4> QED
        BY <2>2, <4>1, <4>2, <4>3
    <3> QED
      BY <1>0, <3>1, <3>2 DEF TypeOK
  <2>4. IdsPast' /\ DownInv'
    BY <1>0, <2>1
  <2>5. SafeInv'
    BY <1>0, <2>1, <2>3
  <2> QED
    BY <1>0, <2>4, <2>5 DEF IInv
<1>10. CASE BootFetch \/ Mine \/ ForeignTx \/ UNCHANGED nmvars
  <2>1. UNCHANGED <<up, current, disk, filed, writes, task, handed, reused, overlap, lost,
                    reserves>>
    BY <1>10 DEF BootFetch, Mine, ForeignTx, nmvars
  <2>2. IdsPast' /\ DownInv' /\ SafeInv'
    BY <1>0, <2>1
  <2> QED
    BY <1>0, <2>2 DEF IInv
<1> QED
  BY <1>1, <1>2, <1>3, <1>4, <1>5, <1>6, <1>7, <1>8, <1>9, <1>10 DEF Next

\* A nonce is handed out twice only after a reservation overlapped a resync's
\* load and store, or after a crash that came before the newest reservation's
\* file write was the last to finish (reserve, resync and new of nonce.rs).
THEOREM ReuseConditions == Spec => []ReuseNeedsOverlapOrLoss
<1>1. IInv => ReuseNeedsOverlapOrLoss
  BY DEF IInv, SafeInv, ReuseNeedsOverlapOrLoss
<1> QED
  BY <1>1, InitIInv, NextIInv, PTL DEF Spec

\* The inductive strengthening of StartBelowOnlyForeign.

\* Whatever the chain took since the first start, this program handed out or
\* another sent; a starting process was not answered less than was mined then.
MinedKnown ==
    /\ \A n \in FirstNonce..(mined - 1) : n \in handed \cup outside
    /\ mined >= FirstNonce
    /\ boot # NoAnswer => boot >= FirstNonce

\* Initially nothing is mined and nobody was answered.
LEMMA InitMined == Init => MinedKnown
BY ConstantsAssumption DEF Init, MinedKnown

\* Every step keeps the mined nonces known.
LEMMA NextMined == TypeOK /\ MinedKnown /\ [Next]_nmvars => MinedKnown'
<1> SUFFICES ASSUME TypeOK, MinedKnown, [Next]_nmvars PROVE MinedKnown'
  OBVIOUS
<1>0. FirstNonce \in Nat /\ mined \in Nat
  BY ConstantsAssumption DEF TypeOK
<1>1. CASE Mine
  <2>1. mined' = mined + 1 /\ mined \in handed \cup outside
        /\ UNCHANGED <<boot, handed, outside>>
    BY <1>1 DEF Mine
  <2>2. \A n \in FirstNonce..mined : n = mined \/ n \in FirstNonce..(mined - 1)
    BY <1>0
  <2> QED
    BY <1>0, <2>1, <2>2 DEF MinedKnown
<1>2. CASE BootFetch
  <2>1. boot' \in Nat /\ boot' >= mined /\ UNCHANGED <<mined, handed, outside>>
    BY <1>2, PendingCountsType DEF BootFetch
  <2> QED
    BY <1>0, <2>1 DEF MinedKnown
<1>3. CASE Restart
  BY <1>3 DEF Restart, MinedKnown
<1>4. CASE \/ Crash \/ ForeignTx \/ UNCHANGED nmvars
           \/ \E t \in Tasks : \/ Reserve(t) \/ SendAccepted(t) \/ ResyncFetch(t)
                               \/ ResyncFetchFails(t) \/ ResyncLoad(t) \/ ResyncStore(t)
           \/ \E w \in writes : OpenFile(w) \/ WriteFile(w) \/ WriteFails(w)
  <2>1. UNCHANGED <<boot, mined>> /\ handed \subseteq handed' /\ outside \subseteq outside'
    BY <1>4 DEF Crash, ForeignTx, nmvars, Reserve, SendAccepted, ResyncFetch,
                ResyncFetchFails, ResyncLoad, ResyncStore, OpenFile, WriteFile, WriteFails
  <2> QED
    BY <2>1 DEF MinedKnown
<1> QED
  BY <1>1, <1>2, <1>3, <1>4 DEF Next

\* A start is at a nonce the chain has used only where another program used it
\* while the start waited for the node (new, whose answer is older than its read
\* of the file and its counter).
THEOREM StartsAboveOwn == Spec => StartBelowOnlyForeign
<1> DEFINE Inv == IInv /\ MinedKnown
<1>1. Init => Inv
  BY InitIInv, InitMined
<1>2. Inv /\ [Next]_nmvars => Inv'
  BY NextIInv, NextMined DEF IInv
<1>3. Inv /\ Inv' /\ [Next]_nmvars =>
          [~up /\ up' /\ ~overlap /\ ~lost =>
              \A n \in current'..(mined - 1) : n \in outside \ handed]_nmvars
  <2> SUFFICES ASSUME Inv, Inv', Next, ~up, up', ~overlap, ~lost,
                      NEW n \in current'..(mined - 1)
               PROVE  n \in outside \ handed
    OBVIOUS
  <2>1. Restart
    BY DEF Next, Reserve, SendAccepted, ResyncFetch, ResyncFetchFails, ResyncLoad, BootFetch,
           ResyncStore, OpenFile, WriteFile, WriteFails, Crash, Mine, ForeignTx
  <2>2. boot \in Nat /\ boot # NoAnswer /\ current' = BootNonce(boot) /\ DiskNext \in Nat
    BY <2>1 DEF Restart, IInv, TypeOK, DiskNext
  <2>3. current' \in Nat /\ current' >= boot
    BY <2>2 DEF BootNonce, Larger
  <2>4. \A k \in handed : k < current'
    <3>1. SafeInv' /\ ~overlap' /\ ~lost' /\ UNCHANGED handed
      BY <2>1 DEF Restart, IInv
    <3> QED
      BY <3>1 DEF SafeInv, Below
  <2>5. mined \in Nat /\ FirstNonce \in Nat /\ handed \subseteq Nat
    BY ConstantsAssumption DEF IInv, TypeOK
  <2>6. n \notin handed
    BY <2>3, <2>4, <2>5
  <2>7. n \in FirstNonce..(mined - 1)
    BY <2>2, <2>3, <2>5 DEF MinedKnown
  <2> QED
    BY <2>6, <2>7 DEF MinedKnown
<1> QED
  BY <1>1, <1>2, <1>3, PTL DEF Spec, StartBelowOnlyForeign
---------------------------------------------------------------------------
\* The inductive strengthening of SkipNeedsOverlapOrLoss.

\* Every nonce from the mined count up to the bound b was reserved, or another
\* program sent with it.
Filled(b) == \A n \in mined..(b - 1) : n \in handed \cup outside

\* The number x has no more digits than what some reservation persists.
Reached(x) == \A k \in 2..6 : Pow10[k] <= x => \E n \in handed : Pow10[k] <= n + 1

\* No number that was written, or is about to be, is longer than the newest.
TextInv ==
    /\ filed = NoWrite => disk = Empty
    /\ \A w \in writes : Reached(w.val)
    /\ disk # Empty => Reached(disk)

\* While nothing went wrong, everything the next counter value can be taken
\* from has only used nonces below it.
FillInv ==
    ~overlap /\ ~lost =>
        /\ Filled(current)
        /\ boot # NoAnswer => Filled(boot)
        /\ \A t \in Tasks : task[t].phase \in {"fetched", "loaded"} => Filled(task[t].chain)
        /\ \A t \in Tasks : task[t].phase = "loaded" => Filled(task[t].local)
        /\ \A w \in writes : w.id = reserves - 1 => Filled(w.val)
        /\ filed = reserves - 1 /\ reserves > 0 => Filled(disk)

\* A writer that finds no longer number in the file leaves exactly its own.
LEMMA OverlayExact ==
    ASSUME NEW old \in Nat, NEW new \in Nat,
           \A k \in 2..6 : Pow10[k] <= old => Pow10[k] <= new
    PROVE  Overlay(old, new) = new
<1> DEFINE S == {k \in 2..6 : new < Pow10[k] /\ Pow10[k] <= old}
<1>1. \A k \in 2..6 : Pow10[k] \in Nat
  BY DEF Pow10
<1>2. S = {}
  BY <1>1
<1>3. Cardinality(S) = 0
  BY <1>2, FS_EmptySet
<1>4. Pow10[1 + Cardinality(S)] = 1
  BY <1>3 DEF Pow10
<1>5. new * 1 + (old % 1) = new
  OBVIOUS
<1> QED
  BY <1>4, <1>5 DEF Overlay

\* Digits of x, at most six.
LEMMA HasDigits ==
    ASSUME NEW x \in Nat
    PROVE  \E d \in 1..6 : \A k \in 2..6 : Pow10[k] <= x <=> k <= d
<1>1. CASE x < 10
  <2>1. \A k \in 2..6 : Pow10[k] <= x <=> k <= 1
    BY <1>1 DEF Pow10
  <2> QED BY <2>1
<1>2. CASE 10 <= x /\ x < 100
  <2>1. \A k \in 2..6 : Pow10[k] <= x <=> k <= 2
    BY <1>2 DEF Pow10
  <2> QED BY <2>1
<1>3. CASE 100 <= x /\ x < 1000
  <2>1. \A k \in 2..6 : Pow10[k] <= x <=> k <= 3
    BY <1>3 DEF Pow10
  <2> QED BY <2>1
<1>4. CASE 1000 <= x /\ x < 10000
  <2>1. \A k \in 2..6 : Pow10[k] <= x <=> k <= 4
    BY <1>4 DEF Pow10
  <2> QED BY <2>1
<1>5. CASE 10000 <= x /\ x < 100000
  <2>1. \A k \in 2..6 : Pow10[k] <= x <=> k <= 5
    BY <1>5 DEF Pow10
  <2> QED BY <2>1
<1>6. CASE 100000 <= x
  <2>1. \A k \in 2..6 : Pow10[k] <= x <=> k <= 6
    BY <1>6 DEF Pow10
  <2> QED BY <2>1
<1> QED
  BY <1>1, <1>2, <1>3, <1>4, <1>5, <1>6

\* Writing over a longer number does not make it longer.
LEMMA OverlayNoLonger ==
    ASSUME NEW old \in Nat, NEW new \in Nat, NEW k \in 2..6,
           Pow10[k] <= Overlay(old, new)
    PROVE  Pow10[k] <= old \/ Pow10[k] <= new
<1> DEFINE S == {i \in 2..6 : new < Pow10[i] /\ Pow10[i] <= old}
<1>1. PICK m \in 1..6 : \A i \in 2..6 : Pow10[i] <= old <=> i <= m
  BY HasDigits
<1>2. PICK d \in 1..6 : \A i \in 2..6 : Pow10[i] <= new <=> i <= d
  BY HasDigits
<1>3. \A i \in 2..6 : Pow10[i] \in Nat
  BY DEF Pow10
<1>4. CASE m <= d
  <2>1. \A i \in 2..6 : Pow10[i] <= old => Pow10[i] <= new
    BY <1>1, <1>2, <1>4
  <2> QED
    BY <2>1, OverlayExact
<1>5. CASE d < m
  <2>1. S = (d + 1)..m
    <3>1. \A i \in 2..6 : i \in S <=> d < i /\ i <= m
      BY <1>1, <1>2, <1>3
    <3>2. \A i \in (d + 1)..m : i \in 2..6
      BY <1>1, <1>2
    <3>3. \A i : i \in S => i \in 2..6
      OBVIOUS
    <3>4. \A i \in 2..6 : d < i /\ i <= m <=> i \in (d + 1)..m
      BY <1>1, <1>2
    <3> HIDE DEF S
    <3> QED
      BY <3>1, <3>2, <3>3, <3>4
  <2>2. Cardinality(S) = m - d
    <3>1. d + 1 \in Int /\ m \in Int /\ ~(d + 1 > m) /\ m - (d + 1) + 1 = m - d
      BY <1>1, <1>2, <1>5
    <3>2. Cardinality((d + 1)..m) = IF d + 1 > m THEN 0 ELSE m - (d + 1) + 1
      BY <3>1, FS_Interval, Zenon
    <3> QED
      BY <2>1, <3>1, <3>2, Zenon
  <2>3. Overlay(old, new) = new * Pow10[1 + (m - d)] + (old % Pow10[1 + (m - d)])
    BY <2>2 DEF Overlay
  <2>4. SUFFICES ASSUME k > m, k > d PROVE FALSE
    BY <1>1, <1>2
  <2>5. new < Pow10[d + 1] /\ m < 6
    BY <1>2, <1>3, <1>5, <2>4
  <2>6. Pow10[k] >= Pow10[m + 1]
    BY <2>4, <2>5 DEF Pow10
  <2>7. Pow10[m + 1] <= new * Pow10[1 + (m - d)] + (old % Pow10[1 + (m - d)])
    <3>1. Pow10[m + 1] \in Nat /\ Pow10[k] \in Nat
      BY <2>5 DEF Pow10
    <3>2. Overlay(old, new) \in Nat
      BY OverlayGrows
    <3> QED
      BY <2>3, <2>6, <3>1, <3>2
  <2>8. CASE m - d = 1
    <3>1. 10 * Pow10[d + 1] = Pow10[m + 1] /\ Pow10[1 + (m - d)] = 10 /\ Pow10[d + 1] \in Nat
      BY <1>5, <2>5, <2>8 DEF Pow10
    <3>2. new * 10 + (old % 10) < 10 * Pow10[d + 1]
      BY <2>5, <3>1
    <3> QED
      BY <2>7, <3>1, <3>2
  <2>9. CASE m - d = 2
    <3>1. 100 * Pow10[d + 1] = Pow10[m + 1] /\ Pow10[1 + (m - d)] = 100 /\ Pow10[d + 1] \in Nat
      BY <1>5, <2>5, <2>9 DEF Pow10
    <3>2. new * 100 + (old % 100) < 100 * Pow10[d + 1]
      BY <2>5, <3>1
    <3> QED
      BY <2>7, <3>1, <3>2
  <2>10. CASE m - d = 3
    <3>1. 1000 * Pow10[d + 1] = Pow10[m + 1] /\ Pow10[1 + (m - d)] = 1000 /\ Pow10[d + 1] \in Nat
      BY <1>5, <2>5, <2>10 DEF Pow10
    <3>2. new * 1000 + (old % 1000) < 1000 * Pow10[d + 1]
      BY <2>5, <3>1
    <3> QED
      BY <2>7, <3>1, <3>2
  <2>11. CASE m - d = 4
    <3>1. 10000 * Pow10[d + 1] = Pow10[m + 1] /\ Pow10[1 + (m - d)] = 10000 /\ Pow10[d + 1] \in Nat
      BY <1>5, <2>5, <2>11 DEF Pow10
    <3>2. new * 10000 + (old % 10000) < 10000 * Pow10[d + 1]
      BY <2>5, <3>1
    <3> QED
      BY <2>7, <3>1, <3>2
  <2> QED
    BY <1>1, <1>2, <1>5, <2>5, <2>8, <2>9, <2>10, <2>11
<1> QED
  BY <1>4, <1>5

---------------------------------------------------------------------------
\* Initially the file is absent and the counter is at the mined count.
LEMMA InitFill == Init => TextInv /\ FillInv
BY ConstantsAssumption DEF Init, TextInv, FillInv, Filled, Idle, NoWrite, Empty, NoAnswer

\* Every step keeps the numbers in the file and in the pending writes short.
LEMMA NextText == TypeOK /\ TextInv /\ [Next]_nmvars => TextInv'
<1> SUFFICES ASSUME TypeOK, TextInv, [Next]_nmvars PROVE TextInv'
  OBVIOUS
<1> USE DEF TextInv
<1>1. ASSUME NEW t \in Tasks, Reserve(t) PROVE TextInv'
  <2>1. handed \subseteq handed' /\ UNCHANGED <<disk, filed>>
    BY <1>1 DEF Reserve
  <2>2. current \in handed' /\ current \in Nat
    BY <1>1 DEF Reserve, TypeOK
  <2>3. ASSUME NEW w \in writes' PROVE Reached(w.val)'
    <3>1. CASE w \in writes
      BY <2>1, <3>1 DEF Reached
    <3>2. CASE w \notin writes
      <4>1. w.val = current + 1
        BY <1>1, <3>2 DEF Reserve, PersistedNext
      <4> QED
        BY <2>2, <4>1 DEF Reached
    <3> QED
      BY <3>1, <3>2
  <2>4. disk' # Empty => Reached(disk)'
    BY <2>1 DEF Reached
  <2> QED
    BY <2>1, <2>3, <2>4
<1>2. ASSUME NEW w \in writes, OpenFile(w) PROVE TextInv'
  <2>1. \A v \in writes' : \E x \in writes : v.val = x.val
    BY <1>2 DEF OpenFile, TypeOK, FileWrite
  <2>2. disk' = Empty /\ UNCHANGED handed
    BY <1>2 DEF OpenFile
  <2> QED
    BY <2>1, <2>2 DEF Reached
<1>3. ASSUME NEW w \in writes, WriteFile(w) PROVE TextInv'
  <2>1. w.val \in Nat /\ w.id \in Nat
    BY DEF TypeOK, FileWrite
  <2>2. filed' # NoWrite /\ writes' \subseteq writes /\ UNCHANGED handed
    BY <1>3, <2>1 DEF WriteFile, NoWrite
  <2>3. Reached(disk')
    <3>1. CASE disk = Empty
      BY <1>3, <3>1 DEF WriteFile
    <3>2. CASE disk # Empty
      <4>1. disk \in Nat /\ disk' = Overlay(disk, w.val)
        BY <1>3, <3>2 DEF WriteFile, TypeOK
      <4>2. \A k \in 2..6 : Pow10[k] <= disk' => Pow10[k] <= disk \/ Pow10[k] <= w.val
        BY <2>1, <4>1, OverlayNoLonger
      <4> QED
        BY <3>2, <4>2 DEF Reached
    <3> QED
      BY <3>1, <3>2
  <2> QED
    BY <2>2, <2>3 DEF Reached
<1>4. ASSUME NEW w \in writes, WriteFails(w) PROVE TextInv'
  BY <1>4 DEF WriteFails, Reached
<1>5. CASE Crash
  BY <1>5 DEF Crash, Reached
<1>6. CASE \/ BootFetch \/ Restart \/ Mine \/ ForeignTx \/ UNCHANGED nmvars
           \/ \E t \in Tasks : SendAccepted(t) \/ ResyncFetch(t) \/ ResyncFetchFails(t)
                                \/ ResyncLoad(t) \/ ResyncStore(t)
  <2>1. UNCHANGED <<disk, filed, writes, handed>>
    BY <1>6 DEF BootFetch, Restart, Mine, ForeignTx, nmvars, SendAccepted, ResyncFetch,
                ResyncFetchFails, ResyncLoad, ResyncStore
  <2> QED
    BY <2>1 DEF Reached
<1> QED
  BY <1>1, <1>2, <1>3, <1>4, <1>5, <1>6 DEF Next

\* Every step keeps the sources of the counter filled.
LEMMA NextFill == IInv /\ TextInv /\ FillInv /\ [Next]_nmvars => FillInv'
<1> SUFFICES ASSUME IInv, TextInv, FillInv, [Next]_nmvars, ~overlap', ~lost'
             PROVE  FillInv'
  BY DEF FillInv
<1>0. TypeOK /\ TypeOK' /\ IdsPast /\ DownInv /\ SafeInv
  BY NextType DEF IInv
<1>a. ~overlap /\ ~lost
  <2>1. ASSUME NEW t \in Tasks, Reserve(t) PROVE ~overlap /\ ~lost
    BY <2>1, Zenon DEF Reserve
  <2>2. CASE Crash
    BY <2>2, Zenon DEF Crash
  <2>3. CASE \/ BootFetch \/ Restart \/ Mine \/ ForeignTx \/ UNCHANGED nmvars
             \/ \E t \in Tasks : SendAccepted(t) \/ ResyncFetch(t) \/ ResyncFetchFails(t)
                                  \/ ResyncLoad(t) \/ ResyncStore(t)
             \/ \E w \in writes : OpenFile(w) \/ WriteFile(w) \/ WriteFails(w)
    <3>1. UNCHANGED <<overlap, lost>>
      BY <2>3 DEF BootFetch, Restart, Mine, ForeignTx, nmvars, SendAccepted, ResyncFetch,
                  ResyncFetchFails, ResyncLoad, ResyncStore, OpenFile, WriteFile, WriteFails
    <3> QED
      BY <3>1, Zenon
  <2> QED
    BY <2>1, <2>2, <2>3 DEF Next
<1>b. /\ Filled(current)
      /\ boot # NoAnswer => Filled(boot)
      /\ \A t \in Tasks : task[t].phase \in {"fetched", "loaded"} => Filled(task[t].chain)
      /\ \A t \in Tasks : task[t].phase = "loaded" => Filled(task[t].local)
      /\ \A w \in writes : w.id = reserves - 1 => Filled(w.val)
      /\ filed = reserves - 1 /\ reserves > 0 => Filled(disk)
  BY <1>a DEF FillInv
<1>1. ASSUME NEW t \in Tasks, Reserve(t) PROVE FillInv'
  <2>1. mined' = mined /\ handed' = handed \cup {current} /\ current' = current + 1
        /\ UNCHANGED <<disk, filed, boot, outside>>
    BY <1>1 DEF Reserve
  <2>3. Filled(current)'
    <3>1. current \in Nat /\ mined \in Nat
      BY <1>0 DEF TypeOK
    <3>2. \A n \in mined..current : n = current \/ n \in mined..(current - 1)
      BY <3>1
    <3> QED
      BY <1>b, <2>1, <3>1, <3>2 DEF Filled
  <2>4. \A u \in Tasks : task'[u].phase # "loaded"
    BY <1>0, <1>1 DEF Reserve, TypeOK, TaskState
  <2>5. ASSUME NEW u \in Tasks, task'[u].phase = "fetched" PROVE Filled(task[u].chain)'
    <3>1. task[u].phase = "fetched" /\ task'[u].chain = task[u].chain
      BY <1>0, <1>1, <2>5 DEF Reserve, TypeOK, TaskState
    <3> QED
      BY <1>b, <2>1, <3>1 DEF Filled
  <2>6. ASSUME NEW w \in writes', w.id = reserves' - 1 PROVE Filled(w.val)'
    <3>1. w.val = current + 1
      BY <1>0, <1>1, <2>6 DEF Reserve, PersistedNext, IdsPast, TypeOK, FileWrite
    <3> QED
      BY <2>1, <2>3, <3>1 DEF Filled
  <2>7. filed' # reserves' - 1
    BY <1>0, <1>1 DEF Reserve, IdsPast, TypeOK, NoWrite
  <2>8. boot' # NoAnswer => Filled(boot)'
    BY <1>b, <2>1 DEF Filled
  <2> QED
    BY <2>3, <2>4, <2>5, <2>6, <2>7, <2>8 DEF FillInv
<1>2. ASSUME NEW t \in Tasks, SendAccepted(t) \/ ResyncFetchFails(t) PROVE FillInv'
  <2>1. UNCHANGED <<current, disk, filed, writes, boot, mined, outside, handed, reserves>>
    BY <1>2 DEF SendAccepted, ResyncFetchFails
  <2>2. \A u \in Tasks : task'[u].phase \in {"fetched", "loaded"} => task'[u] = task[u]
    BY <1>0, <1>2 DEF SendAccepted, ResyncFetchFails, Idle, TypeOK
  <2> QED
    BY <1>b, <2>1, <2>2 DEF FillInv, Filled
<1>3. ASSUME NEW t \in Tasks, ResyncFetch(t) PROVE FillInv'
  <2>1. UNCHANGED <<current, disk, filed, writes, boot, mined, outside, handed, reserves>>
    BY <1>3 DEF ResyncFetch
  <2>2. PICK c \in PendingCounts :
            task' = [task EXCEPT ![t].phase = "fetched", ![t].chain = c]
    BY <1>3 DEF ResyncFetch
  <2>3. Filled(c)
    BY DEF Filled, PendingCounts
  <2>4. \A u \in Tasks : u # t => task'[u] = task[u]
    BY <1>0, <2>2 DEF TypeOK
  <2>5. task'[t].phase = "fetched" /\ task'[t].chain = c
    BY <1>0, <2>2 DEF TypeOK, TaskState
  <2> QED
    BY <1>b, <2>1, <2>3, <2>4, <2>5 DEF FillInv, Filled
<1>4. ASSUME NEW t \in Tasks, ResyncLoad(t) PROVE FillInv'
  <2>1. UNCHANGED <<current, disk, filed, writes, boot, mined, outside, handed, reserves>>
    BY <1>4 DEF ResyncLoad
  <2>2. \A u \in Tasks : u # t => task'[u] = task[u]
    BY <1>0, <1>4 DEF ResyncLoad, TypeOK
  <2>3. task[t].phase = "fetched" /\ task'[t].chain = task[t].chain /\ task'[t].local = current
    BY <1>0, <1>4 DEF ResyncLoad, TypeOK, TaskState
  <2> QED
    BY <1>b, <2>1, <2>2, <2>3 DEF FillInv, Filled
<1>5. ASSUME NEW t \in Tasks, ResyncStore(t) PROVE FillInv'
  <2>1. UNCHANGED <<disk, filed, writes, boot, mined, outside, handed, reserves>>
    BY <1>5 DEF ResyncStore
  <2>2. \A u \in Tasks : task'[u].phase \in {"fetched", "loaded"} => task'[u] = task[u]
    BY <1>0, <1>5 DEF ResyncStore, Idle, TypeOK
  <2>3. task[t].phase = "loaded" /\ current' \in {task[t].chain, task[t].local}
    BY <1>5 DEF ResyncStore, Larger
  <2>4. Filled(current)'
    BY <1>b, <2>1, <2>3 DEF Filled
  <2> QED
    BY <1>b, <2>1, <2>2, <2>4 DEF FillInv, Filled
<1>6. ASSUME NEW w \in writes, OpenFile(w) PROVE FillInv'
  <2>1. \A v \in writes' : \E x \in writes : v.id = x.id /\ v.val = x.val
    BY <1>0, <1>6 DEF OpenFile, TypeOK, FileWrite
  <2>2. filed' = NoWrite /\ UNCHANGED <<current, task, boot, mined, outside, handed, reserves>>
    BY <1>6 DEF OpenFile
  <2>3. filed' = reserves' - 1 /\ reserves' > 0 => FALSE
    BY <1>0, <2>2 DEF NoWrite, TypeOK
  <2> QED
    BY <1>b, <2>1, <2>2, <2>3 DEF FillInv, Filled
<1>7. ASSUME NEW w \in writes, WriteFile(w) PROVE FillInv'
  <2>1. w.val \in Nat /\ w.id \in Nat
    BY <1>0 DEF TypeOK, FileWrite
  <2>2. filed' = w.id /\ writes' \subseteq writes
           /\ UNCHANGED <<current, task, boot, mined, outside, handed, reserves>>
    BY <1>7 DEF WriteFile
  <2>3. ASSUME w.id = reserves - 1 PROVE disk' = w.val
    <3>1. CASE disk = Empty
      BY <1>7, <3>1 DEF WriteFile
    <3>2. CASE disk # Empty
      <4>1. disk \in Nat /\ disk' = Overlay(disk, w.val)
        BY <1>0, <1>7, <3>2 DEF WriteFile, TypeOK
      <4>2. \A n \in handed : n \in Nat /\ n < w.val
        BY <1>0, <1>a, <2>3 DEF SafeInv, Below, TypeOK
      <4>3. \A k \in 2..6 : Pow10[k] \in Nat
        BY DEF Pow10
      <4>4. ASSUME NEW k \in 2..6, Pow10[k] <= disk PROVE Pow10[k] <= w.val
        <5>1. PICK n \in handed : Pow10[k] <= n + 1
          BY <3>2, <4>4 DEF TextInv, Reached
        <5> QED
          BY <2>1, <4>2, <4>3, <5>1
      <4> QED
        BY <2>1, <4>1, <4>4, OverlayExact
    <3> QED
      BY <3>1, <3>2
  <2> QED
    BY <1>b, <2>2, <2>3 DEF FillInv, Filled
<1>8. ASSUME NEW w \in writes, WriteFails(w) PROVE FillInv'
  <2>1. writes' \subseteq writes 
        /\ UNCHANGED <<current, disk, filed, task, boot, mined, outside, handed, reserves>>
    BY <1>8 DEF WriteFails
  <2> QED
    BY <1>b, <2>1 DEF FillInv, Filled
<1>9. CASE Crash
  <2>1. /\ current' = 0 /\ writes' = {}
        /\ UNCHANGED <<disk, filed, boot, mined, outside, handed, reserves>>
    BY <1>9 DEF Crash
  <2>2. \A u \in Tasks : task'[u].phase = "idle"
    BY <1>9 DEF Crash, Idle
  <2>3. Filled(current)'
    BY <1>0, <2>1 DEF Filled, TypeOK
  <2> QED
    BY <1>b, <2>1, <2>2, <2>3 DEF FillInv, Filled
<1>10. CASE Restart
  <2>1. ~up /\ UNCHANGED <<disk, filed, writes, task, mined, outside, handed, reserves>>
    BY <1>10 DEF Restart
  <2>2. boot # NoAnswer /\ current' = BootNonce(boot) /\ boot' = NoAnswer
    BY <1>10 DEF Restart
  <2>3. Filled(boot)
    BY <1>b, <2>2
  <2>4. Filled(DiskNext)
    <3>1. CASE disk = Empty
      BY <1>0, <3>1 DEF DiskNext, Filled, TypeOK
    <3>2. CASE disk # Empty
      <4>1. filed # NoWrite
        BY <3>2 DEF TextInv
      <4>2. reserves > 0
        BY <1>0, <4>1 DEF IdsPast, TypeOK, NoWrite
      <4>3. filed = reserves - 1
        BY <1>0, <1>a, <2>1, <4>2 DEF DownInv
      <4> QED
        BY <1>b, <3>2, <4>2, <4>3 DEF DiskNext
    <3> QED
      BY <3>1, <3>2
  <2>5. Filled(current)'
    BY <2>1, <2>2, <2>3, <2>4 DEF BootNonce, Larger, Filled
  <2> QED
    BY <1>b, <2>1, <2>2, <2>5 DEF FillInv, Filled
<1>11. CASE Mine \/ ForeignTx \/ UNCHANGED nmvars
  <2>1. UNCHANGED <<current, disk, filed, writes, task, boot, handed, reserves>>
        /\ outside \subseteq outside'
    BY <1>11 DEF Mine, ForeignTx, nmvars
  <2>2. mined' \in Nat /\ mined <= mined'
    BY <1>0, <1>11 DEF Mine, ForeignTx, nmvars, TypeOK
  <2>3. /\ task \in [Tasks -> TaskState] /\ writes \subseteq FileWrite
        /\ current \in Nat /\ mined \in Nat /\ disk \in Nat \cup {Empty}
        /\ boot \in Nat \cup {NoAnswer}
    BY <1>0 DEF TypeOK
  <2>4. ASSUME NEW b \in Int, Filled(b) PROVE Filled(b)'
    BY <2>1, <2>2, <2>3, <2>4 DEF Filled
  <2>5. Filled(current)'
    BY <1>b, <2>1, <2>3, <2>4
  <2>6. ASSUME NEW u \in Tasks PROVE task[u].chain \in Int /\ task[u].local \in Int
    BY <2>3 DEF TaskState
  <2>7. \A u \in Tasks : task'[u].phase \in {"fetched", "loaded"} => Filled(task[u].chain)'
    BY <1>b, <2>1, <2>4, <2>6
  <2>8. \A u \in Tasks : task'[u].phase = "loaded" => Filled(task[u].local)'
    BY <1>b, <2>1, <2>4, <2>6
  <2>9. \A w \in writes' : w.id = reserves' - 1 => Filled(w.val)'
    <3>1. \A w \in writes : w.val \in Int
      BY <2>3 DEF FileWrite
    <3> QED
      BY <1>b, <2>1, <2>4, <3>1
  <2>10. filed' = reserves' - 1 /\ reserves' > 0 => Filled(disk)'
    <3>1. disk \in Int
      BY <2>3 DEF Empty
    <3> QED
      BY <1>b, <2>1, <2>4, <3>1
  <2>11. boot' # NoAnswer => Filled(boot)'
    BY <1>b, <2>1, <2>3, <2>4
  <2> QED
    BY <2>5, <2>7, <2>8, <2>9, <2>10, <2>11 DEF FillInv
<1>12. CASE BootFetch
  <2>1. UNCHANGED <<current, disk, filed, writes, task, mined, outside, handed, reserves>>
    BY <1>12 DEF BootFetch
  <2>2. Filled(boot)'
    BY <1>12, <2>1 DEF BootFetch, Filled, PendingCounts
  <2> QED
    BY <1>b, <2>1, <2>2 DEF FillInv, Filled
<1> QED
  BY <1>1, <1>2, <1>3, <1>4, <1>5, <1>6, <1>7, <1>8, <1>9, <1>10, <1>11, <1>12 DEF Next

\* reserve, resync and new leave no nonce out: each one between the mined count
\* and the counter was handed out or another program sent with it, unless a
\* reservation overlapped a resync or a crash lost the newest reservation's write.
THEOREM SkipConditions == Spec => []SkipNeedsOverlapOrLoss
<1> DEFINE Inv == IInv /\ TextInv /\ FillInv
<1>1. Init => Inv
  BY InitIInv, InitFill
<1>2. Inv /\ [Next]_nmvars => Inv'
  BY NextIInv, NextText, NextFill DEF IInv
<1>3. Inv => SkipNeedsOverlapOrLoss
  BY DEF FillInv, Filled, SkipNeedsOverlapOrLoss
<1> QED
  BY <1>1, <1>2, <1>3, PTL DEF Spec
===========================================================================
