-------------------------- MODULE Signals_proofs --------------------------
(***************************************************************************)
(* Proofs about the two sources of trade signals.                          *)
(*                                                                         *)
(* KolConfirm, for any set of trades and blocks and any TTL and capacities:*)
(* every registration has exactly one end, and the only ways in which a    *)
(* trade seen pending is also taken for a private one.                     *)
(*                                                                         *)
(* DevSniper, for every set of tokens, every max_hold_blocks of at least   *)
(* two and every bound: its types, that a removal hits the position it was *)
(* decided for, and how long a position is held.                           *)
(***************************************************************************)
EXTENDS KolConfirm, DevSniper, TLAPS

---------------------------------------------------------------------------
(* KolConfirm.                                                             *)

(* The types the argument needs.                                           *)
Types ==
    /\ bus \in Seq(Txs)
    /\ firing \subseteq Txs
    /\ registry \subseteq Txs
    /\ regs \in [Txs -> Nat]
    /\ refreshed \in [Txs -> Nat]
    /\ confirmed \in [Txs -> Nat]
    /\ swept \in [Txs -> Nat]
    /\ scans \in [Txs -> Nat]
    /\ sent \in [Sinks -> SUBSET Hits]

(* A trade kol_watch took stays registered until a block task or the       *)
(* sweeper gets to it.                                                     *)
KeptUntilScanned ==
    \A t \in Txs :
        (/\ IsTrade(t) /\ t \in taken /\ t \notin early
         /\ swept[t] = 0 /\ scans[t] = 0) => t \in registry

(* A trade was handed on as private for one of the three reasons, or was   *)
(* met before kol_watch took it.                                           *)
PrivateHasReason ==
    \A t \in Txs : \A s \in Sinks :
        (IsTrade(t) /\ Hit(t, "private") \in sent[s])
            => t \in early \/ swept[t] > 0 \/ scans[t] > 1

ConfirmInv ==
    /\ Types
    /\ RegistrationsAccounted
    /\ KeptUntilScanned
    /\ PrivateHasReason

-----------------------------------------------------------------------------

(* The head of a queue of transactions is one, and what is left is a queue.*)
LEMMA BusHead ==
    ASSUME bus \in Seq(Txs), bus # <<>>
    PROVE  Head(bus) \in Txs /\ Tail(bus) \in Seq(Txs)
  OBVIOUS

(* Publishing keeps the queue a queue of transactions.                     *)
LEMMA BusAppend ==
    ASSUME bus \in Seq(Txs), NEW t \in Txs, BusCap \in Nat \ {0}
    PROVE  Append(IF Len(bus) = BusCap THEN Tail(bus) ELSE bus, t) \in Seq(Txs)
  <1>1. CASE Len(bus) = BusCap
    <2>1. bus # <<>>
      BY <1>1
    <2>2. Tail(bus) \in Seq(Txs)
      BY <2>1
    <2> QED
      BY <1>1, <2>2
  <1>2. CASE Len(bus) # BusCap
    BY <1>2
  <1> QED
    BY <1>1, <1>2

(* Hits built from a transaction are hits.                                 *)
LEMMA HitIsHit ==
    ASSUME NEW t \in Txs, NEW via \in {"pending", "public", "private"}
    PROVE  Hit(t, via) \in Hits
  BY DEF Hit, Hits

(* Forwarding keeps the type of sent and adds only the hit.                *)
LEMMA ForwardAdds ==
    ASSUME NEW h \in Hits, NEW to, sent \in [Sinks -> SUBSET Hits],
           Forward(h, to)
    PROVE  /\ sent' \in [Sinks -> SUBSET Hits]
           /\ \A s \in Sinks : sent'[s] \subseteq sent[s] \cup {h}
  BY DEF Forward

-----------------------------------------------------------------------------

(* ConfirmInv holds initially.                                             *)
LEMMA InitInv == Init => ConfirmInv
  <1> SUFFICES ASSUME Init PROVE ConfirmInv
    OBVIOUS
  <1>1. Types
    BY DEF Init, Types, Sinks
  <1>2. RegistrationsAccounted
    BY DEF Init, RegistrationsAccounted
  <1>3. KeptUntilScanned /\ PrivateHasReason
    BY DEF Init, KeptUntilScanned, PrivateHasReason
  <1> QED
    BY <1>1, <1>2, <1>3 DEF ConfirmInv

(* The state ConfirmInv speaks of, left alone by most actions.             *)
LEMMA FrameInv ==
    ASSUME ConfirmInv,
           bus' \in Seq(Txs), firing' \subseteq Txs,
           UNCHANGED <<registry, regs, refreshed, confirmed, swept, taken,
                       early, scans, sent>>
    PROVE  ConfirmInv'
  <1>1. Types'
    BY DEF ConfirmInv, Types
  <1>2. RegistrationsAccounted'
    BY DEF ConfirmInv, RegistrationsAccounted
  <1>3. KeptUntilScanned' /\ PrivateHasReason'
    BY DEF ConfirmInv, KeptUntilScanned, PrivateHasReason, IsTrade
  <1> QED
    BY <1>1, <1>2, <1>3 DEF ConfirmInv

(* kol_watch's registration.                                               *)
LEMMA RegisterInv ==
    ASSUME ConfirmInv, WatchRegister
    PROVE  ConfirmInv'
  <1> DEFINE h == Head(bus)
  <1>0. h \in Txs /\ Tail(bus) \in Seq(Txs)
    BY BusHead DEF ConfirmInv, Types, WatchRegister
  <1>1. Types'
    <2>1. bus' \in Seq(Txs) /\ firing' \subseteq Txs
      BY <1>0 DEF WatchRegister
    <2>2. registry' \subseteq Txs
      BY <1>0 DEF WatchRegister, ConfirmInv, Types
    <2>3. regs' \in [Txs -> Nat]
      <3>1. regs \in [Txs -> Nat]
        BY DEF ConfirmInv, Types
      <3>2. regs' = regs \/ regs' = [regs EXCEPT ![h] = @ + 1]
        BY DEF WatchRegister
      <3> HIDE DEF h
      <3> QED
        BY <1>0, <3>1, <3>2
    <2>4. refreshed' \in [Txs -> Nat]
      <3>1. refreshed \in [Txs -> Nat]
        BY DEF ConfirmInv, Types
      <3>2. \/ refreshed' = refreshed
            \/ refreshed' = [refreshed EXCEPT ![h] = @ + 1]
        BY DEF WatchRegister, RegisterOver
      <3> HIDE DEF h
      <3> QED
        BY <1>0, <3>1, <3>2
    <2>5. /\ confirmed' \in [Txs -> Nat] /\ swept' \in [Txs -> Nat]
          /\ scans' \in [Txs -> Nat] /\ sent' \in [Sinks -> SUBSET Hits]
      BY DEF WatchRegister, ConfirmInv, Types
    <2> QED
      BY <2>1, <2>2, <2>3, <2>4, <2>5 DEF Types
  <1>2. RegistrationsAccounted'
    <2> SUFFICES ASSUME NEW t \in Txs
                 PROVE  regs'[t] = confirmed'[t] + swept'[t] + refreshed'[t]
                                     + (IF t \in registry' THEN 1 ELSE 0)
      BY DEF RegistrationsAccounted
    <2>0. regs[t] = confirmed[t] + swept[t] + refreshed[t]
                      + (IF t \in registry THEN 1 ELSE 0)
      BY DEF ConfirmInv, RegistrationsAccounted
    <2>1. CASE t = h /\ IsTrade(h)
      <3>1. /\ regs \in [Txs -> Nat] /\ refreshed \in [Txs -> Nat]
            /\ confirmed \in [Txs -> Nat] /\ swept \in [Txs -> Nat]
        BY DEF ConfirmInv, Types
      <3>2. /\ regs' = [regs EXCEPT ![h] = @ + 1] /\ registry' = registry \cup {h}
            /\ confirmed' = confirmed /\ swept' = swept
            /\ refreshed' = IF h \in registry THEN [refreshed EXCEPT ![h] = @ + 1]
                                             ELSE refreshed
        BY <2>1 DEF WatchRegister, RegisterOver
      <3> HIDE DEF h
      <3>3. regs'[t] = regs[t] + 1 /\ t \in registry'
        BY <2>1, <3>1, <3>2
      <3>4. refreshed'[t] = IF t \in registry THEN refreshed[t] + 1 ELSE refreshed[t]
        BY <2>1, <3>1, <3>2
      <3>5. confirmed'[t] = confirmed[t] /\ swept'[t] = swept[t]
        BY <3>2
      <3> QED
        BY <2>0, <3>1, <3>3, <3>4, <3>5
    <2>2. CASE t # h \/ ~ IsTrade(h)
      BY <1>0, <2>0, <2>2 DEF WatchRegister, RegisterOver, ConfirmInv, Types
    <2> QED
      BY <2>1, <2>2
  <1>3. KeptUntilScanned'
    BY <1>0 DEF WatchRegister, ConfirmInv, KeptUntilScanned, IsTrade
  <1>4. PrivateHasReason'
    BY DEF WatchRegister, ConfirmInv, PrivateHasReason, IsTrade
  <1> QED
    BY <1>1, <1>2, <1>3, <1>4 DEF ConfirmInv

(* kol_watch's fire_hit.                                                   *)
LEMMA FireInv ==
    ASSUME ConfirmInv, WatchFire
    PROVE  ConfirmInv'
  <1>1. PICK t \in firing : Forward(Hit(t, "pending"), {"trader", "live"})
    BY DEF WatchFire
  <1>2. Hit(t, "pending") \in Hits
    BY <1>1, HitIsHit DEF ConfirmInv, Types
  <1>3. /\ sent' \in [Sinks -> SUBSET Hits]
        /\ \A s \in Sinks : sent'[s] \subseteq sent[s] \cup {Hit(t, "pending")}
    BY <1>1, <1>2, ForwardAdds DEF ConfirmInv, Types
  <1>4. Types'
    BY <1>3 DEF WatchFire, ConfirmInv, Types
  <1>5. RegistrationsAccounted'
    BY DEF WatchFire, ConfirmInv, RegistrationsAccounted
  <1>6. KeptUntilScanned'
    BY DEF WatchFire, ConfirmInv, KeptUntilScanned, IsTrade
  <1>7. PrivateHasReason'
    <2> SUFFICES ASSUME NEW u \in Txs, NEW s \in Sinks, IsTrade(u),
                        Hit(u, "private") \in sent'[s]
                 PROVE  u \in early' \/ swept'[u] > 0 \/ scans'[u] > 1
      BY DEF PrivateHasReason, IsTrade
    <2>1. Hit(u, "private") # Hit(t, "pending")
      BY DEF Hit
    <2>2. Hit(u, "private") \in sent[s]
      BY <1>3, <2>1
    <2> QED
      BY <2>2 DEF WatchFire, ConfirmInv, PrivateHasReason
  <1> QED
    BY <1>4, <1>5, <1>6, <1>7 DEF ConfirmInv

(* A block task that finds the trade registered.                           *)
LEMMA ScanPublicInv ==
    ASSUME ConfirmInv, NEW b \in Blocks, NEW t \in Txs, ScanPublic(b, t)
    PROVE  ConfirmInv'
  <1>1. Hit(t, "public") \in Hits
    BY HitIsHit
  <1>2. /\ sent' \in [Sinks -> SUBSET Hits]
        /\ \A s \in Sinks : sent'[s] \subseteq sent[s] \cup {Hit(t, "public")}
    BY <1>1, ForwardAdds DEF ConfirmInv, Types, ScanPublic
  <1>3. Types'
    <2>1. confirmed' \in [Txs -> Nat]
      BY DEF ScanPublic, ConfirmInv, Types
    <2>2. scans' \in [Txs -> Nat]
      BY DEF ScanPublic, ConfirmInv, Types
    <2> QED
      BY <1>2, <2>1, <2>2 DEF ScanPublic, ConfirmInv, Types, Unregister
  <1>4. RegistrationsAccounted'
    <2> SUFFICES ASSUME NEW u \in Txs
                 PROVE  regs'[u] = confirmed'[u] + swept'[u] + refreshed'[u]
                                     + (IF u \in registry' THEN 1 ELSE 0)
      BY DEF RegistrationsAccounted
    <2>0. regs[u] = confirmed[u] + swept[u] + refreshed[u]
                      + (IF u \in registry THEN 1 ELSE 0)
      BY DEF ConfirmInv, RegistrationsAccounted
    <2>1. CASE u = t
      BY <2>0, <2>1 DEF ScanPublic, Unregister, ConfirmInv, Types
    <2>2. CASE u # t
      BY <2>0, <2>2 DEF ScanPublic, Unregister, ConfirmInv, Types
    <2> QED
      BY <2>1, <2>2
  <1>5. KeptUntilScanned'
    <2> SUFFICES ASSUME NEW u \in Txs, IsTrade(u), u \in taken', u \notin early',
                        swept'[u] = 0, scans'[u] = 0
                 PROVE  u \in registry'
      BY DEF KeptUntilScanned, IsTrade
    <2>1. u # t
      BY DEF ScanPublic, ConfirmInv, Types
    <2> QED
      BY <2>1 DEF ScanPublic, Unregister, ConfirmInv, Types, KeptUntilScanned
  <1>6. PrivateHasReason'
    <2> SUFFICES ASSUME NEW u \in Txs, NEW s \in Sinks, IsTrade(u),
                        Hit(u, "private") \in sent'[s]
                 PROVE  u \in early' \/ swept'[u] > 0 \/ scans'[u] > 1
      BY DEF PrivateHasReason, IsTrade
    <2>1. Hit(u, "private") # Hit(t, "public")
      BY DEF Hit
    <2>2. Hit(u, "private") \in sent[s]
      BY <1>2, <2>1
    <2>3. u \in early \/ swept[u] > 0 \/ scans[u] > 1
      BY <2>2 DEF ConfirmInv, PrivateHasReason
    <2> QED
      BY <2>3 DEF ScanPublic, ConfirmInv, Types
  <1> QED
    BY <1>3, <1>4, <1>5, <1>6 DEF ConfirmInv

(* A block task that finds no entry: if kol_watch had the trade, then it   *)
(* was swept or another block task had removed it.                         *)
LEMMA ScanPrivateInv ==
    ASSUME ConfirmInv, NEW b \in Blocks, NEW t \in Txs, ScanPrivate(b, t)
    PROVE  ConfirmInv'
  <1>1. Hit(t, "private") \in Hits
    BY HitIsHit
  <1>2. /\ sent' \in [Sinks -> SUBSET Hits]
        /\ \A s \in Sinks : sent'[s] \subseteq sent[s] \cup {Hit(t, "private")}
    BY <1>1, ForwardAdds DEF ConfirmInv, Types, ScanPrivate
  <1>3. Types'
    <2>1. scans' \in [Txs -> Nat]
      BY DEF ScanPrivate, ConfirmInv, Types
    <2> QED
      BY <1>2, <2>1 DEF ScanPrivate, ConfirmInv, Types
  <1>4. RegistrationsAccounted'
    BY DEF ScanPrivate, ConfirmInv, RegistrationsAccounted
  <1>5. KeptUntilScanned'
    <2> SUFFICES ASSUME NEW u \in Txs, IsTrade(u), u \in taken', u \notin early',
                        swept'[u] = 0, scans'[u] = 0
                 PROVE  u \in registry'
      BY DEF KeptUntilScanned, IsTrade
    <2>1. u # t
      BY DEF ScanPrivate, ConfirmInv, Types
    <2> QED
      BY <2>1 DEF ScanPrivate, ConfirmInv, Types, KeptUntilScanned
  <1>6. PrivateHasReason'
    <2> SUFFICES ASSUME NEW u \in Txs, NEW s \in Sinks, IsTrade(u),
                        Hit(u, "private") \in sent'[s]
                 PROVE  u \in early' \/ swept'[u] > 0 \/ scans'[u] > 1
      BY DEF PrivateHasReason, IsTrade
    <2>1. CASE u = t
      <3>1. CASE t \notin taken
        BY <2>1, <3>1 DEF ScanPrivate
      <3>2. CASE t \in taken /\ t \notin early /\ swept[t] = 0
        <4>1. scans[t] # 0
          BY <2>1, <3>2 DEF ScanPrivate, ConfirmInv, KeptUntilScanned
        <4> QED
          BY <2>1, <4>1 DEF ScanPrivate, ConfirmInv, Types
      <3>3. CASE t \in early \/ swept[t] # 0
        BY <2>1, <3>3 DEF ScanPrivate, ConfirmInv, Types
      <3> QED
        BY <3>1, <3>2, <3>3
    <2>2. CASE u # t
      <3>1. Hit(u, "private") # Hit(t, "private")
        BY <2>2 DEF Hit
      <3>2. Hit(u, "private") \in sent[s]
        BY <1>2, <3>1
      <3>3. u \in early \/ swept[u] > 0 \/ scans[u] > 1
        BY <3>2 DEF ConfirmInv, PrivateHasReason
      <3> QED
        BY <2>2, <3>3 DEF ScanPrivate, ConfirmInv, Types
    <2> QED
      BY <2>1, <2>2
  <1> QED
    BY <1>3, <1>4, <1>5, <1>6 DEF ConfirmInv

(* The sweeper.                                                            *)
LEMMA SweepInv ==
    ASSUME ConfirmInv, Sweep
    PROVE  ConfirmInv'
  <1> DEFINE old == {t \in registry : Expired(t)}
  <1>0. /\ registry' = registry \ old
        /\ swept' = [t \in Txs |-> IF t \in old THEN swept[t] + 1 ELSE swept[t]]
        /\ UNCHANGED <<bus, firing, regs, refreshed, confirmed, taken, early,
                       scans, sent>>
    BY DEF Sweep
  <1> HIDE DEF old
  <1>1. old \subseteq registry
    BY DEF old
  <1>2. Types'
    <2>1. swept' \in [Txs -> Nat]
      BY <1>0 DEF ConfirmInv, Types
    <2> QED
      BY <1>0, <2>1 DEF ConfirmInv, Types
  <1>3. RegistrationsAccounted'
    <2> SUFFICES ASSUME NEW u \in Txs
                 PROVE  regs'[u] = confirmed'[u] + swept'[u] + refreshed'[u]
                                     + (IF u \in registry' THEN 1 ELSE 0)
      BY DEF RegistrationsAccounted
    <2>0. regs[u] = confirmed[u] + swept[u] + refreshed[u]
                      + (IF u \in registry THEN 1 ELSE 0)
      BY DEF ConfirmInv, RegistrationsAccounted
    <2> QED
      BY <1>0, <1>1, <2>0 DEF ConfirmInv, Types
  <1>4. KeptUntilScanned'
    BY <1>0 DEF ConfirmInv, Types, KeptUntilScanned, IsTrade
  <1>5. PrivateHasReason'
    BY <1>0 DEF ConfirmInv, Types, PrivateHasReason, IsTrade
  <1> QED
    BY <1>2, <1>3, <1>4, <1>5 DEF ConfirmInv

(* Every step keeps ConfirmInv.                                            *)
LEMMA NextInv == ConfirmInv /\ [Next]_vars => ConfirmInv'
  <1> SUFFICES ASSUME ConfirmInv, [Next]_vars PROVE ConfirmInv'
    OBVIOUS
  <1>0. bus \in Seq(Txs) /\ firing \subseteq Txs
    BY DEF ConfirmInv, Types
  <1>1. ASSUME NEW t \in Txs, Publish(t) PROVE ConfirmInv'
    <2>1. bus' \in Seq(Txs)
      BY <1>0, <1>1, BusAppend, ConfirmAssumption DEF Publish
    <2> QED
      BY <1>0, <1>1, <2>1, FrameInv DEF Publish
  <1>2. CASE WatchRegister
    BY <1>2, RegisterInv
  <1>3. CASE WatchFire
    BY <1>3, FireInv
  <1>4. ASSUME NEW b \in Blocks, Seal(b) PROVE ConfirmInv'
    BY <1>0, <1>4, FrameInv DEF Seal, history
  <1>5. ASSUME NEW b \in Blocks, BlockStep(b) PROVE ConfirmInv'
    <2>1. CASE HeadArrives(b) \/ HeadMissed(b)
      BY <1>0, <2>1, FrameInv DEF HeadArrives, HeadMissed, history
    <2>2. CASE FetchOk(b) \/ FetchFails(b) \/ ScanEnds(b)
      BY <1>0, <2>2, FrameInv DEF FetchOk, FetchFails, ScanEnds, history
    <2>3. ASSUME NEW t \in Txs, ScanPublic(b, t) PROVE ConfirmInv'
      BY <2>3, ScanPublicInv
    <2>4. ASSUME NEW t \in Txs, ScanPrivate(b, t) PROVE ConfirmInv'
      BY <2>4, ScanPrivateInv
    <2> QED
      BY <1>5, <2>1, <2>2, <2>3, <2>4 DEF BlockStep
  <1>6. CASE Sweep
    BY <1>6, SweepInv
  <1>7. CASE Tick
    BY <1>0, <1>7, FrameInv DEF Tick, history
  <1>8. ASSUME LiveConsume PROVE ConfirmInv'
    BY <1>0, <1>8, FrameInv DEF LiveConsume
  <1>9. CASE UNCHANGED vars
    BY <1>0, <1>9, FrameInv DEF vars, history
  <1> QED
    BY <1>1, <1>2, <1>3, <1>4, <1>5, <1>6, <1>7, <1>8, <1>9 DEF Next

-----------------------------------------------------------------------------

(* Every registration (register, kol_confirm.rs) is confirmed by one block *)
(* task, swept, refreshed, or still there, whatever the interleaving of    *)
(* kol_watch, the block tasks and the sweeper.                             *)
THEOREM EveryRegistrationEndsOnce == Spec => []RegistrationsAccounted
  <1>1. Init => ConfirmInv
    BY InitInv
  <1>2. ConfirmInv /\ [Next]_vars => ConfirmInv'
    BY NextInv
  <1>3. ConfirmInv => RegistrationsAccounted
    BY DEF ConfirmInv
  <1> QED
    BY <1>1, <1>2, <1>3, PTL DEF Spec

(* A trade fired as pending is handed on as private (process_block's else  *)
(* branch) only after a race with the bus, an expiry or a second block.    *)
THEOREM DoubleReportsExplained == Spec => []DoubleReportNeedsRaceExpiryOrReorg
  <1>1. Init => ConfirmInv
    BY InitInv
  <1>2. ConfirmInv /\ [Next]_vars => ConfirmInv'
    BY NextInv
  <1>3. ConfirmInv => DoubleReportNeedsRaceExpiryOrReorg
    BY DEF ConfirmInv, PrivateHasReason, DoubleReportNeedsRaceExpiryOrReorg,
           IsTrade
  <1> QED
    BY <1>1, <1>2, <1>3, PTL DEF Spec

---------------------------------------------------------------------------
(* DevSniper.                                                              *)

SnipeStates == [tok: Tokens \cup {None}, age: Ages, priced: BOOLEAN, trail: Ages]

\* Positions not opened yet are in nobody's hands.
Unopened ==
    \A g \in Snipes : g > opened => process[g] = "idle" /\ kept[g] = 0

\* The map's positions are opened ones of the token they are filed under.
MapFiled ==
    \A k \in Tokens :
        positions[k] # None => positions[k] <= opened /\ snipe[positions[k]].tok = k

\* What the guard found is still so when the position is inserted.
GuardHolds ==
    detect.pc = "buying" => /\ detect.tok \in Tokens /\ positions[detect.tok] = None
                            /\ opened < MaxSnipes

\* A task belongs to the map's position of a token.
TaskMapped ==
    \A g \in Snipes : process[g] # "idle" => snipe[g].tok \in Tokens /\ positions[snipe[g].tok] = g

MapInv == SniperTypeOK /\ Unopened /\ MapFiled /\ GuardHolds /\ TaskMapped

---------------------------------------------------------------------------
\* Ages stay in their range, and a later head makes every age larger until it
\* counts as MaxHold.
LEMMA OlderAge ==
    ASSUME NEW a \in Ages, NEW d \in 1..MaxGap
    PROVE  /\ Older(a, d) \in Ages
           /\ a < MaxHold => Older(a, d) > a
           /\ a >= MaxHold => Older(a, d) = MaxHold
  BY SniperAssumption DEF Older, Ages

\* The trail's age at the first price is an age, at most one.
LEMMA TrailAgeType ==
    ASSUME NEW a \in Ages
    PROVE  TrailAge(a) \in Ages /\ TrailAge(a) <= 1 /\ TrailAge(a) <= a
  BY SniperAssumption DEF TrailAge, Ages

\* Ageing changes a position's ages only.
LEMMA AgedFields ==
    ASSUME SniperTypeOK, NEW g \in Snipes, NEW d \in 1..MaxGap
    PROVE  /\ Aged(g, d) \in SnipeStates
           /\ Aged(g, d).tok = snipe[g].tok
           /\ Aged(g, d).priced = snipe[g].priced
           /\ Aged(g, d).age = Older(snipe[g].age, d)
           /\ snipe[g].priced => Aged(g, d).trail = Older(snipe[g].trail, d)
<1>1. snipe[g] \in SnipeStates
  BY DEF SniperTypeOK, SnipeStates
<1>2. Older(snipe[g].age, d) \in Ages /\ Older(snipe[g].trail, d) \in Ages
  BY <1>1, OlderAge DEF SnipeStates
<1> QED
  BY <1>1, <1>2 DEF Aged, SnipeStates

\* Every state starts consistent.
LEMMA InitMap == SniperInit => MapInv
<1> SUFFICES ASSUME SniperInit PROVE MapInv
  OBVIOUS
<1>1. 0 \in Ages
  BY SniperAssumption DEF Ages
<1>2. SniperTypeOK
  BY <1>1, SniperAssumption DEF SniperInit, SniperTypeOK, Quiet, NoSnipe, None
<1> QED
  BY <1>2 DEF SniperInit, MapInv, Unopened, MapFiled, GuardHolds, TaskMapped, Quiet, None

\* Every step keeps the map and its users consistent.
LEMMA NextMap == MapInv /\ [SniperNext]_snvars => MapInv'
<1> SUFFICES ASSUME MapInv, [SniperNext]_snvars PROVE MapInv'
  OBVIOUS
<1> USE DEF MapInv
<1>1. ASSUME NEW k \in Tokens, Detect(k) PROVE MapInv'
  <2>1. \A a \in (-MaxLag)..MaxLag \cup {MaxHold} : a \in Ages
    BY SniperAssumption DEF Ages
  <2>2. SniperTypeOK'
    BY <1>1, <2>1 DEF Detect, SniperTypeOK
  <2> QED
    BY <1>1, <2>2 DEF Detect, Sniped, Unopened, MapFiled, GuardHolds, TaskMapped
<1>2. ASSUME BuyFails PROVE MapInv'
  <2>1. 0 \in Ages
    BY SniperAssumption DEF Ages
  <2> QED
    BY <1>2, <2>1 DEF BuyFails, Quiet, SniperTypeOK, Unopened, MapFiled, GuardHolds, TaskMapped
<1>3. ASSUME Insert PROVE MapInv'
  <2>1. 0 \in Ages
    BY SniperAssumption DEF Ages
  <2>2. opened \in Nat /\ opened + 1 \in Snipes /\ opened + 1 # None
    BY <1>3, SniperAssumption DEF SniperTypeOK, Insert, GuardHolds, Snipes, None
  <2>3. detect.tok \in Tokens /\ positions[detect.tok] = None /\ detect.age \in Ages
    BY <1>3 DEF SniperTypeOK, Insert, GuardHolds
  <2>4. SniperTypeOK'
    BY <1>3, <2>1, <2>2, <2>3 DEF Insert, Quiet, SniperTypeOK, Snipes
  <2>5. Unopened' /\ GuardHolds'
    BY <1>3, <2>2 DEF Insert, Quiet, Unopened, GuardHolds, Snipes, SniperTypeOK
  <2>6. MapFiled'
    BY <1>3, <2>2, <2>3 DEF Insert, MapFiled, SniperTypeOK, Snipes, None
  <2>7. TaskMapped'
    BY <1>3, <2>2, <2>3 DEF Insert, TaskMapped, Unopened, SniperTypeOK, Snipes, None
  <2> QED
    BY <2>4, <2>5, <2>6, <2>7
<1>4. ASSUME NextHead PROVE MapInv'
  <2>1. PICK d \in 1..MaxGap :
          /\ snipe' = [g \in Snipes |-> IF Watched(g) THEN Aged(g, d) ELSE snipe[g]]
          /\ detect' = IF detect.pc = "idle" THEN detect
                       ELSE [detect EXCEPT !.age = Older(@, d)]
    BY <1>4 DEF NextHead
  <2>2. \A g \in Snipes : snipe'[g] \in SnipeStates /\ snipe'[g].tok = snipe[g].tok
    BY <2>1, AgedFields DEF SniperTypeOK, SnipeStates
  <2>3. detect' \in [pc: {"idle", "buying"}, tok: Tokens \cup {None}, age: Ages]
        /\ detect'.pc = detect.pc /\ detect'.tok = detect.tok
    BY <2>1, OlderAge DEF SniperTypeOK
  <2>4. SniperTypeOK'
    BY <1>4, <2>1, <2>2, <2>3 DEF NextHead, SniperTypeOK, SnipeStates
  <2>5. \A g \in Snipes : Watched(g) =>
            g <= opened /\ snipe[g].tok \in Tokens /\ positions[snipe[g].tok] = g
    BY DEF Watched, MapFiled, SniperTypeOK, Snipes, None
  <2>6. Unopened' /\ TaskMapped'
    BY <1>4, <2>2, <2>5 DEF NextHead, Unopened, TaskMapped, SniperTypeOK, Snipes
  <2>7. MapFiled' /\ GuardHolds'
    BY <1>4, <2>2, <2>3 DEF NextHead, MapFiled, GuardHolds, SniperTypeOK
  <2> QED
    BY <2>4, <2>6, <2>7
<1>5. ASSUME NEW g \in Snipes, Process(g) PROVE MapInv'
  <2>0. kept[g] \in Nat /\ snipe[g] \in SnipeStates
    BY DEF SniperTypeOK, SnipeStates
  <2>1. CASE NoPriceYet(g) \/ Step(g)
    <3>1. /\ UNCHANGED <<detect, positions, snipe, opened>>
          /\ process[g] = "evaluate"
          /\ \E c \in {"idle", "remove"} : process' = [process EXCEPT ![g] = c]
          /\ kept' \in [Snipes -> Nat] /\ \A h \in Snipes \ {g} : kept'[h] = kept[h]
      BY <2>0, <2>1 DEF NoPriceYet, Step, Keep, Drop, SniperTypeOK
    <3>2. SniperTypeOK'
      BY <3>1 DEF SniperTypeOK
    <3>3. Unopened' /\ TaskMapped'
      BY <3>1 DEF SniperTypeOK, Unopened, TaskMapped, Snipes
    <3> QED
      BY <3>1, <3>2, <3>3 DEF MapFiled, GuardHolds
  <2>2. CASE FirstPrice(g)
    <3>1. /\ UNCHANGED <<detect, positions, opened>>
          /\ process[g] = "evaluate"
          /\ process' = [process EXCEPT ![g] = "idle"]
          /\ kept' \in [Snipes -> Nat] /\ \A h \in Snipes \ {g} : kept'[h] = kept[h]
      BY <2>0, <2>2 DEF FirstPrice, Keep, SniperTypeOK
    <3>2. \A h \in Snipes : snipe'[h] \in SnipeStates /\ snipe'[h].tok = snipe[h].tok
      BY <2>0, <2>2, TrailAgeType DEF FirstPrice, SniperTypeOK, SnipeStates
    <3>3. SniperTypeOK'
      BY <2>2, <3>1, <3>2 DEF FirstPrice, SniperTypeOK, SnipeStates
    <3> QED
      BY <3>1, <3>2, <3>3 DEF SniperTypeOK, Unopened, MapFiled, GuardHolds, TaskMapped, Snipes
  <2>3. CASE Remove(g)
    <3>1. snipe[g].tok \in Tokens /\ positions[snipe[g].tok] = g
      BY <2>3 DEF Remove, TaskMapped
    <3>2. SniperTypeOK'
      BY <2>3, <3>1 DEF Remove, SniperTypeOK
    <3>3. TaskMapped'
      BY <2>3, <3>1 DEF Remove, TaskMapped, SniperTypeOK
    <3> QED
      BY <2>3, <3>1, <3>2, <3>3 DEF Remove, SniperTypeOK, Unopened, MapFiled, GuardHolds
  <2> QED
    BY <1>5, <2>1, <2>2, <2>3 DEF Process
<1>6. CASE UNCHANGED snvars
  BY <1>6 DEF snvars, SniperTypeOK, Unopened, MapFiled, GuardHolds, TaskMapped
<1> QED
  BY <1>1, <1>2, <1>3, <1>4, <1>5, <1>6 DEF SniperNext

\* The sniper's state keeps its type (the map, the positions, the tasks).
THEOREM SniperTypeCorrect == SniperSpec => []SniperTypeOK
<1>1. MapInv => SniperTypeOK
  BY DEF MapInv
<1> QED
  BY InitMap, NextMap, <1>1, PTL DEF SniperSpec

\* process_sniper_position removes by token, but what it removes is always the
\* position it evaluated.
THEOREM RemovalHitsItsOwn == SniperSpec => []EvaluatedIsMapped
<1>1. MapInv => EvaluatedIsMapped
  BY DEF MapInv, TaskMapped, EvaluatedIsMapped
<1> QED
  BY InitMap, NextMap, <1>1, PTL DEF SniperSpec

---------------------------------------------------------------------------
(* How long a position is held.  Before its first price the number of heads *)
(* that kept it is bounded by its age; after it, by max_hold_blocks and the *)
(* age of its TrailState, which started at most one block before.           *)

\* Bounds on kept[g] before and after the evaluation at a head.
Before(g) == IF snipe[g].priced
             THEN IF snipe[g].trail < 0 THEN 0 ELSE MaxHold + snipe[g].trail - 1
             ELSE IF snipe[g].age < 0 THEN 0 ELSE snipe[g].age

After(g) == IF snipe[g].priced
            THEN IF snipe[g].trail < 0 THEN 0 ELSE MaxHold + snipe[g].trail
            ELSE IF snipe[g].age < 0 THEN 0 ELSE snipe[g].age + 1

\* A position in the map whose evaluation is over was kept for a reason.
KeptForReason(g) ==
    /\ kept[g] <= After(g)
    /\ IF snipe[g].priced THEN snipe[g].trail < MaxHold
                          ELSE kept[g] = 0 \/ snipe[g].age < MaxHold

HoldOK(g) ==
    /\ kept[g] <= 2 * MaxHold - 1
    /\ process[g] = "evaluate" => kept[g] <= Before(g)
    /\ Watched(g) /\ process[g] = "idle" => KeptForReason(g)
    /\ Watched(g) /\ snipe[g].priced /\ snipe[g].trail < 0 => snipe[g].age = snipe[g].trail

HoldInv == \A g \in Snipes : HoldOK(g)

\* A step that touches neither a position nor its task, and does not add it to the
\* map, keeps its bounds.
LEMMA Untouched ==
    ASSUME NEW g \in Snipes, HoldOK(g),
           snipe'[g] = snipe[g], process'[g] = process[g], kept'[g] = kept[g],
           Watched(g)' => Watched(g)
    PROVE  HoldOK(g)'
  BY DEF HoldOK, Before, After, KeptForReason

\* The evaluation of a position that keeps it.
LEMMA KeepBounds ==
    ASSUME MapInv, HoldInv, NEW g \in Snipes, process[g] = "evaluate", Keep(g),
           snipe'[g] \in SnipeStates, snipe'[g].age = snipe[g].age,
           \/ /\ ~snipe[g].priced /\ snipe[g].age < MaxHold
              /\ snipe'[g] = snipe[g]
           \/ /\ ~snipe[g].priced
              /\ snipe'[g].priced /\ snipe'[g].trail = TrailAge(snipe[g].age)
           \/ /\ snipe[g].priced /\ snipe[g].trail < MaxHold
              /\ snipe'[g] = snipe[g],
           positions' = positions
    PROVE  HoldOK(g)'
<1>1. /\ snipe[g] \in SnipeStates /\ kept[g] \in Nat
      /\ kept'[g] = IF snipe[g].age >= 0 THEN kept[g] + 1 ELSE kept[g]
      /\ process'[g] = "idle"
  BY DEF MapInv, SniperTypeOK, SnipeStates, Keep
<1>2. Watched(g) /\ kept[g] <= Before(g)
  BY DEF MapInv, TaskMapped, Watched, HoldInv, HoldOK
<1>3. /\ MaxHold \in Nat /\ MaxHold >= 2
      /\ snipe[g].age \in Int /\ snipe[g].age <= MaxHold /\ snipe[g].trail \in Int
  BY <1>1, SniperAssumption DEF SnipeStates, Ages
<1>4. CASE ~snipe[g].priced /\ snipe[g].age < MaxHold /\ snipe'[g] = snipe[g]
  BY <1>1, <1>2, <1>3, <1>4 DEF HoldOK, Before, After, KeptForReason
<1>5. CASE /\ ~snipe[g].priced
           /\ snipe'[g].priced /\ snipe'[g].trail = TrailAge(snipe[g].age)
  BY <1>1, <1>2, <1>3, <1>5 DEF HoldOK, Before, After, KeptForReason, TrailAge
<1>6. CASE snipe[g].priced /\ snipe[g].trail < MaxHold /\ snipe'[g] = snipe[g]
  <2>1. snipe[g].trail < 0 => snipe[g].age = snipe[g].trail
    BY <1>2, <1>6 DEF HoldInv, HoldOK
  <2> QED
    BY <1>1, <1>2, <1>3, <1>6, <2>1 DEF HoldOK, Before, After, KeptForReason
<1> QED
  BY <1>4, <1>5, <1>6

\* A later head opens room for one more evaluation.
LEMMA AgedBounds ==
    ASSUME MapInv, HoldInv, NEW g \in Snipes, NEW d \in 1..MaxGap,
           Watched(g), process[g] = "idle",
           snipe'[g] = Aged(g, d), process'[g] = "evaluate", kept'[g] = kept[g]
    PROVE  HoldOK(g)'
<1>1. /\ snipe[g] \in SnipeStates /\ kept[g] \in Nat
      /\ MaxHold \in Nat /\ MaxHold >= 2
  <2>1. snipe[g] \in SnipeStates /\ kept[g] \in Nat
    BY DEF MapInv, SniperTypeOK, SnipeStates
  <2>2. MaxHold \in Nat /\ MaxHold >= 2
    BY SniperAssumption
  <2> QED
    BY <2>1, <2>2
<1>2. /\ KeptForReason(g) /\ kept[g] <= 2 * MaxHold - 1
      /\ snipe[g].priced /\ snipe[g].trail < 0 => snipe[g].age = snipe[g].trail
  BY DEF HoldInv, HoldOK
<1>3. /\ snipe'[g].priced = snipe[g].priced
      /\ snipe'[g].age = Older(snipe[g].age, d)
      /\ snipe[g].priced => snipe'[g].trail = Older(snipe[g].trail, d)
  BY AgedFields DEF MapInv
<1>4. /\ snipe[g].age \in Int /\ snipe[g].age <= MaxHold
      /\ snipe[g].trail \in Int /\ snipe[g].trail <= MaxHold
      /\ d \in Int /\ d >= 1
  BY <1>1, SniperAssumption DEF SnipeStates, Ages
<1>5. kept'[g] <= Before(g)'
  BY <1>1, <1>2, <1>3, <1>4 DEF Before, After, KeptForReason, Older
<1>6. snipe'[g].priced /\ snipe'[g].trail < 0 => snipe'[g].age = snipe'[g].trail
  BY <1>1, <1>2, <1>3, <1>4 DEF Older
<1> QED
  BY <1>2, <1>5, <1>6 DEF HoldOK

\* Every step keeps the bounds.
LEMMA NextHold == MapInv /\ HoldInv /\ [SniperNext]_snvars => HoldInv'
<1> SUFFICES ASSUME MapInv, HoldInv, [SniperNext]_snvars, NEW g \in Snipes PROVE HoldOK(g)'
  BY DEF HoldInv
<1>0. HoldOK(g)
  BY DEF HoldInv
<1>1. CASE (\E k \in Tokens : Detect(k)) \/ BuyFails \/ UNCHANGED snvars
  <2>1. positions' = positions /\ snipe' = snipe /\ process' = process /\ kept' = kept
    BY <1>1 DEF Detect, BuyFails, snvars
  <2> QED
    BY <1>0, <2>1, Untouched DEF Watched
<1>2. CASE Insert
  <2>0. /\ opened \in Nat /\ opened + 1 \in Snipes
        /\ detect.tok \in Tokens /\ positions[detect.tok] = None /\ detect.age \in Ages
    BY <1>2, SniperAssumption DEF MapInv, SniperTypeOK, Insert, GuardHolds, Snipes
  <2>1. CASE g = opened + 1
    <3>1. /\ snipe'[g].priced = FALSE /\ snipe'[g].age \in Ages
          /\ process'[g] = "idle" /\ kept'[g] = 0
      BY <1>2, <2>0, <2>1 DEF Insert, MapInv, SniperTypeOK, Unopened
    <3>2. MaxHold \in Nat /\ MaxHold >= 2
      BY SniperAssumption
    <3>3. snipe'[g].age \in Int
      BY <3>1, SniperAssumption DEF Ages
    <3> QED
      BY <3>1, <3>2, <3>3 DEF HoldOK, KeptForReason, After
  <2>2. CASE g # opened + 1
    <3>1. snipe'[g] = snipe[g] /\ process'[g] = process[g] /\ kept'[g] = kept[g]
      BY <1>2, <2>2 DEF Insert, MapInv, SniperTypeOK
    <3>2. Watched(g)' => Watched(g)
      BY <1>2, <2>0, <2>2 DEF Insert, Watched, MapInv, SniperTypeOK
    <3> QED
      BY <1>0, <3>1, <3>2, Untouched
  <2> QED
    BY <2>1, <2>2
<1>3. CASE NextHead
  <2>1. PICK d \in 1..MaxGap :
          snipe' = [h \in Snipes |-> IF Watched(h) THEN Aged(h, d) ELSE snipe[h]]
    BY <1>3 DEF NextHead
  <2>2. positions' = positions /\ kept' = kept /\ process[g] = "idle"
    BY <1>3 DEF NextHead
  <2>3. CASE Watched(g)
    <3>1. snipe'[g] = Aged(g, d) /\ process'[g] = "evaluate"
      BY <1>3, <2>1, <2>3 DEF NextHead
    <3> QED
      BY <2>2, <2>3, <3>1, AgedBounds
  <2>4. CASE ~Watched(g)
    <3>1. snipe'[g] = snipe[g] /\ process'[g] = process[g]
      BY <1>3, <2>1, <2>2, <2>4 DEF NextHead
    <3> QED
      BY <1>0, <2>2, <2>4, <3>1, Untouched DEF Watched
  <2> QED
    BY <2>3, <2>4
<1>4. ASSUME NEW h \in Snipes, Process(h) PROVE HoldOK(g)'
  <2>1. CASE g # h
    <3>1. snipe'[g] = snipe[g] /\ process'[g] = process[g] /\ kept'[g] = kept[g]
      BY <1>4, <2>1
      DEF Process, NoPriceYet, FirstPrice, Step, Remove, Keep, Drop, MapInv, SniperTypeOK
    <3>2. Watched(g)' => Watched(g)
      <4>1. CASE Remove(h)
        <5>1. g # None
          BY DEF Snipes, None
        <5> QED
          BY <4>1, <5>1 DEF Remove, Watched, MapInv, SniperTypeOK
      <4>2. CASE ~Remove(h)
        BY <1>4, <4>2 DEF Process, NoPriceYet, FirstPrice, Step, Watched
      <4> QED
        BY <4>1, <4>2
    <3> QED
      BY <1>0, <3>1, <3>2, Untouched
  <2>2. CASE g = h
    <3>0. snipe[g] \in SnipeStates
      BY DEF MapInv, SniperTypeOK, SnipeStates
    <3>1. CASE (NoPriceYet(g) \/ Step(g)) /\ Keep(g)
      <4>1. /\ process[g] = "evaluate" /\ snipe' = snipe /\ positions' = positions
            /\ \/ ~snipe[g].priced /\ snipe[g].age < MaxHold
               \/ snipe[g].priced /\ snipe[g].trail < MaxHold
        <5>1. process'[g] = "idle"
          BY <3>1 DEF Keep, MapInv, SniperTypeOK
        <5>2. ~Drop(g)
          BY <5>1 DEF Drop, MapInv, SniperTypeOK
        <5>3. snipe[g].age \in Int /\ MaxHold \in Int
          BY SniperAssumption DEF MapInv, SniperTypeOK, Ages
        <5> QED
          BY <3>1, <5>2, <5>3 DEF NoPriceYet, Step, DeadLaunch
      <4> QED
        BY <3>0, <3>1, <4>1, KeepBounds
    <3>2. CASE FirstPrice(g)
      <4>1. /\ snipe'[g] \in SnipeStates /\ snipe'[g].age = snipe[g].age
            /\ snipe'[g].priced /\ snipe'[g].trail = TrailAge(snipe[g].age)
        BY <3>0, <3>2, TrailAgeType DEF FirstPrice, MapInv, SniperTypeOK, SnipeStates
      <4> QED
        BY <3>2, <4>1, KeepBounds DEF FirstPrice
    <3>3. CASE (NoPriceYet(g) \/ Step(g)) /\ Drop(g)
      <4>1. snipe' = snipe /\ positions' = positions /\ kept' = kept /\ process'[g] = "remove"
        BY <3>3 DEF NoPriceYet, Step, Drop, MapInv, SniperTypeOK
      <4> QED
        BY <1>0, <4>1 DEF HoldOK, Watched
    <3>4. CASE Remove(g)
      <4>1. snipe' = snipe /\ kept' = kept
        BY <3>4 DEF Remove
      <4>2. ~Watched(g)'
        BY <3>4 DEF Remove, Watched, MapInv, SniperTypeOK, MapFiled, TaskMapped, Snipes, None
      <4>3. process'[g] = "idle"
        BY <3>4 DEF Remove, MapInv, SniperTypeOK
      <4> QED
        BY <1>0, <4>1, <4>2, <4>3 DEF HoldOK
    <3> QED
      BY <1>4, <2>2, <3>1, <3>2, <3>3, <3>4 DEF Process, NoPriceYet, Step
  <2> QED
    BY <2>1, <2>2
<1> QED
  BY <1>1, <1>2, <1>3, <1>4 DEF SniperNext

\* Nothing is held at first.
LEMMA InitHold == SniperInit => HoldInv
<1> SUFFICES ASSUME SniperInit, NEW g \in Snipes PROVE HoldOK(g)
  BY DEF HoldInv
<1>1. ~Watched(g) /\ process[g] = "idle" /\ kept[g] = 0
  BY DEF SniperInit, Watched, Snipes, None
<1> QED
  BY <1>1, SniperAssumption DEF HoldOK

\* For every max_hold_blocks of at least two, fewer than twice as many heads leave a
\* position in the map, wherever its first price falls and whatever heads are lost.
THEOREM HoldIsBounded == SniperSpec => []HoldBounded
<1>1. MapInv /\ HoldInv => HoldBounded
  BY DEF HoldInv, HoldOK, HoldBounded
<1>2. SniperInit => MapInv /\ HoldInv
  BY InitMap, InitHold
<1>3. MapInv /\ HoldInv /\ [SniperNext]_snvars => (MapInv /\ HoldInv)'
  BY NextMap, NextHold
<1> QED
  BY <1>1, <1>2, <1>3, PTL DEF SniperSpec
===========================================================================
