------------------------------ MODULE Feeds_proofs -----------------------------
(***************************************************************************)
(* Proofs about what feeds the traders and what is kept of it: the mempool *)
(* pipeline, the Four.Meme price feed and the capture of the bus.          *)
(*                                                                         *)
(* Pipeline: for any transactions, pool size, channel capacities and TTL.  *)
(* PipeInv adds to the types that the entry of a published transaction     *)
(* stays in the map, with the expiry of that publication, until the TTL    *)
(* has passed.                                                             *)
(*                                                                         *)
(* FourMemePrice: for any window and bounds.  FeedBase says that a stream  *)
(* holds logs in the order the node sent them, and that a removed log      *)
(* undoes one trade of its block; over it, each entry of the window is     *)
(* attributed its own logs (BuysAttributed) and, without a reordering,     *)
(* exactly those of its block (WindowMatches).                             *)
(*                                                                         *)
(* Capture: for any rotation period, retention, age and bounds.            *)
(* CaptureBase says how a stream is framed, which names a process uses and *)
(* when a file takes records; TotalFacts what a sweep has added up.        *)
(***************************************************************************)
EXTENDS Pipeline, FourMemePrice, Capture, Sums_proofs, FiniteSetTheorems, TLAPS

-----------------------------------------------------------------------------
(* The mempool pipeline.                                                   *)

Published == [first: Nat, context: Contexts]
LastFirst(h) == pub[h][Len(pub[h])].first

\* The type invariant, with the functions it takes apart.
PipeTypes ==
    /\ TypeOK
    /\ DOMAIN seen = Hashes
    /\ pub \in [Hashes -> Seq(Published)]

\* Until the TTL of its last publication has passed, a transaction has the entry of
\* that publication.
EntryKept ==
    \A h \in Hashes :
        pub[h] # <<>> =>
            \/ \E e \in seen[h] : e.expires = LastFirst(h) + TTL
            \/ clock > LastFirst(h) + TTL

PipeInv == PipeTypes /\ EntryKept

\* The initial state satisfies the invariant.
LEMMA PipeInitInv == Init => PipeInv
  BY ConstantsAssumption DEF Init, PipeInv, PipeTypes, TypeOK, EntryKept

\* Adding to a channel that has room, or taking from one, keeps its type and capacity.
LEMMA ChannelStep ==
  ASSUME NEW s \in Seq(Obs), NEW o \in Obs, NEW cap \in Nat, Len(s) <= cap
  PROVE  /\ Len(s) < cap => Append(s, o) \in Seq(Obs) /\ Len(Append(s, o)) <= cap
         /\ s # <<>> => Tail(s) \in Seq(Obs) /\ Len(Tail(s)) <= cap /\ Head(s) \in Obs
  OBVIOUS

\* try_send keeps the raw channel within its capacity (RawHasRoom).
LEMMA TrySendTypes ==
  ASSUME PipeTypes, NEW o \in Obs, TrySend(o)
  PROVE  raw' \in Seq(Obs) /\ Len(raw') <= RawCap
  <1>1. raw \in Seq(Obs) /\ Len(raw) <= RawCap
    BY DEF PipeTypes, TypeOK
  <1>3. CASE RawHasRoom
    BY <1>1, <1>3, ChannelStep, ConstantsAssumption DEF TrySend, RawHasRoom
  <1>4. CASE ~RawHasRoom
    BY <1>1, <1>4 DEF TrySend
  <1> QED BY <1>3, <1>4

\* Steps that leave the map, the publications and the clock alone.
LEMMA PipeQuietStep ==
  ASSUME PipeInv, UNCHANGED <<clock, seen, pub>>, TypeOK'
  PROVE  PipeInv'
  BY DEF PipeInv, PipeTypes, EntryKept, LastFirst

\* Every step preserves the invariant.
LEMMA PipeNextInv == PipeInv /\ [Next]_plvars => PipeInv'
  <1> SUFFICES ASSUME PipeInv, [Next]_plvars PROVE PipeInv'
    OBVIOUS
  <1> USE ConstantsAssumption
  <1>1. ASSUME NEW h \in Hashes, IpcEvent(h) PROVE PipeInv'
    <2> DEFINE o == [hash |-> h, source |-> "ipc", recv |-> clock]
    <2>1. o \in Obs
      BY DEF PipeInv, PipeTypes, TypeOK, Obs, Sources
    <2>2. raw' \in Seq(Obs) /\ Len(raw') <= RawCap
      BY <1>1, <2>1, TrySendTypes DEF IpcEvent, PipeInv
    <2>3. TypeOK'
      <3>1. obs' \in Nat
        BY <1>1 DEF IpcEvent, PipeInv, PipeTypes, TypeOK
      <3> QED BY <1>1, <2>2, <3>1 DEF IpcEvent, PipeInv, PipeTypes, TypeOK
    <2> QED BY <1>1, <2>3, PipeQuietStep DEF IpcEvent
  <1>2. ASSUME NEW h \in Hashes, WssHash(h) PROVE PipeInv'
    <2>1. [hash |-> h, source |-> "wss", recv |-> clock] \in Obs
      BY DEF PipeInv, PipeTypes, TypeOK, Obs, Sources
    <2>2. TypeOK'
      <3>1. obs' \in Nat
        BY <1>2 DEF WssHash, PipeInv, PipeTypes, TypeOK
      <3>2. fetching' \subseteq Obs
        BY <1>2, <2>1 DEF WssHash, PipeInv, PipeTypes, TypeOK
      <3> QED BY <1>2, <3>1, <3>2 DEF WssHash, PipeInv, PipeTypes, TypeOK
    <2> QED BY <1>2, <2>2, PipeQuietStep DEF WssHash
  <1>3. ASSUME NEW o \in fetching, WssFetched(o) PROVE PipeInv'
    <2>1. o \in Obs
      BY DEF PipeInv, PipeTypes, TypeOK
    <2>2. raw' \in Seq(Obs) /\ Len(raw') <= RawCap
      BY <1>3, <2>1, TrySendTypes DEF WssFetched, PipeInv
    <2>3. TypeOK'
      BY <1>3, <2>2 DEF WssFetched, PipeInv, PipeTypes, TypeOK
    <2> QED BY <1>3, <2>3, PipeQuietStep DEF WssFetched
  <1>4. ASSUME NEW o \in fetching, WssMissing(o) PROVE PipeInv'
    <2>1. TypeOK'
      BY <1>4 DEF WssMissing, PipeInv, PipeTypes, TypeOK
    <2> QED BY <1>4, <2>1, PipeQuietStep DEF WssMissing
  <1>5. ASSUME NEW w \in Workers, Decode(w) PROVE PipeInv'
    <2>1. raw \in Seq(Obs) /\ Len(raw) <= RawCap /\ hand \in [Workers -> SUBSET Obs] /\ raw # <<>>
      BY <1>5 DEF Decode, PipeInv, PipeTypes, TypeOK
    <2>2. raw' \in Seq(Obs) /\ Len(raw') <= RawCap
      BY <1>5, <2>1 DEF Decode
    <2>3. hand' \in [Workers -> SUBSET Obs]
      <3>1. Head(raw) \in Obs
        BY <2>1
      <3> DEFINE S == {o \in {Head(raw)} : o.hash \notin BadTxs}
      <3>2. S \in SUBSET Obs
        BY <3>1
      <3>3. hand' = [hand EXCEPT ![w] = S]
        BY <1>5 DEF Decode
      <3> HIDE DEF S
      <3> QED BY <2>1, <3>2, <3>3
    <2>4. TypeOK'
      BY <1>5, <2>2, <2>3 DEF Decode, PipeInv, PipeTypes, TypeOK
    <2> QED BY <1>5, <2>4, PipeQuietStep DEF Decode
  <1>6. ASSUME NEW w \in Workers, HandOver(w) PROVE PipeInv'
    <2>1. decoded \in Seq(Obs) /\ Len(decoded) < DecodedCap /\ hand \in [Workers -> SUBSET Obs]
      BY <1>6 DEF HandOver, PipeInv, PipeTypes, TypeOK
    <2>2. PICK o \in hand[w] : decoded' = Append(decoded, o)
      BY <1>6 DEF HandOver
    <2>3. o \in Obs
      BY <2>1, <2>2
    <2>4. decoded' \in Seq(Obs) /\ Len(decoded') <= DecodedCap
      BY <2>1, <2>2, <2>3
    <2>5. hand' \in [Workers -> SUBSET Obs]
      BY <1>6, <2>1 DEF HandOver
    <2>6. TypeOK'
      BY <1>6, <2>4, <2>5 DEF HandOver, PipeInv, PipeTypes, TypeOK
    <2> QED BY <1>6, <2>6, PipeQuietStep DEF HandOver
  <1>7. CASE DedupeFresh
    <2> DEFINE o == Head(decoded)
               h == o.hash
               e == [first |-> o.recv, expires |-> o.recv + TTL, sources |-> <<o>>]
               p == [first |-> o.recv, context |-> Context(o.recv)]
    <2>1. decoded \in Seq(Obs) /\ decoded # <<>> /\ Len(decoded) <= DecodedCap
      BY <1>7 DEF DedupeFresh, PipeInv, PipeTypes, TypeOK
    <2>2. o \in Obs
      BY <2>1
    <2>3. h \in Hashes /\ o.recv \in Nat
      BY <2>2 DEF Obs
    <2>4. e \in FirstSeen
      BY <2>2, <2>3 DEF FirstSeen
    <2>5. Context(o.recv) \in Contexts
      BY <2>3 DEF Context, Contexts, PipeInv, PipeTypes, TypeOK
    <2>6. p \in Published /\ p.first = o.recv
      BY <2>3, <2>5 DEF Published
    <2>7. decoded' \in Seq(Obs) /\ Len(decoded') <= DecodedCap
      BY <1>7, <2>1 DEF DedupeFresh
    <2>8. seen' = [seen EXCEPT ![h] = {e}] /\ pub' = [pub EXCEPT ![h] = Append(@, p)]
      BY <1>7 DEF DedupeFresh
    <2>9. e.expires = o.recv + TTL
      OBVIOUS
    <2> HIDE DEF e, p, h, o
    <2>10. DOMAIN seen = Hashes /\ pub \in [Hashes -> Seq(Published)]
      BY DEF PipeInv, PipeTypes
    <2>11. pub' \in [Hashes -> Seq(Published)]
      BY <2>3, <2>6, <2>8, <2>10
    <2>12. \A g \in Hashes : \A d \in seen'[g] : d \in FirstSeen
      BY <2>3, <2>4, <2>8, <2>10 DEF PipeInv, PipeTypes, TypeOK
    <2>13. TypeOK'
      BY <1>7, <2>7, <2>11, <2>12 DEF DedupeFresh, PipeInv, PipeTypes, TypeOK, Published
    <2>14. EntryKept'
      <3> SUFFICES ASSUME NEW g \in Hashes, pub'[g] # <<>>
                   PROVE  \/ \E d \in seen'[g] : d.expires = LastFirst(g)' + TTL
                          \/ clock' > LastFirst(g)' + TTL
        BY DEF EntryKept
      <3>1. CASE g = h
        <4>1. pub'[g] = Append(pub[h], p) /\ pub[h] \in Seq(Published)
          BY <2>3, <2>8, <2>10, <3>1
        <4>2. pub'[g][Len(pub'[g])] = p
          BY <2>6, <4>1
        <4>3. LastFirst(g)' = o.recv
          BY <2>6, <4>2 DEF LastFirst
        <4>4. e \in seen'[g]
          BY <2>3, <2>8, <2>10, <3>1
        <4> QED BY <2>9, <4>3, <4>4
      <3>2. CASE g # h
        <4>1. pub'[g] = pub[g] /\ seen'[g] = seen[g] /\ clock' = clock
          BY <1>7, <2>8, <2>10, <3>2 DEF DedupeFresh
        <4>2. LastFirst(g)' = LastFirst(g)
          BY <4>1 DEF LastFirst
        <4> QED BY <4>1, <4>2 DEF PipeInv, EntryKept
      <3> QED BY <3>1, <3>2
    <2>15. DOMAIN seen' = Hashes
      BY <2>8, <2>10
    <2> QED BY <2>11, <2>13, <2>14, <2>15 DEF PipeInv, PipeTypes
  <1>8. CASE DedupeDuplicate
    <2> DEFINE o == Head(decoded)
               h == o.hash
               ext(d) == WithSource(d, o)
    <2>1. decoded \in Seq(Obs) /\ decoded # <<>> /\ Len(decoded) <= DecodedCap
      BY <1>8 DEF DedupeDuplicate, PipeInv, PipeTypes, TypeOK
    <2>2. o \in Obs /\ h \in Hashes
      <3>1. o \in Obs
        BY <2>1
      <3> QED BY <3>1 DEF Obs
    <2>3. decoded' \in Seq(Obs) /\ Len(decoded') <= DecodedCap
      BY <1>8, <2>1 DEF DedupeDuplicate
    <2>4. \A d \in FirstSeen : ext(d) \in FirstSeen /\ ext(d).expires = d.expires
      <3> SUFFICES ASSUME NEW d \in FirstSeen
                   PROVE  ext(d) \in FirstSeen /\ ext(d).expires = d.expires
        OBVIOUS
      <3>1. d.first \in Nat /\ d.expires \in Nat /\ d.sources \in Seq(Obs)
        BY DEF FirstSeen
      <3>2. Append(d.sources, o) \in Seq(Obs)
        BY <2>2, <3>1
      <3> QED BY <3>1, <3>2 DEF FirstSeen, WithSource
    <2>5. seen' = [seen EXCEPT ![h] = {ext(d) : d \in seen[h]}] /\ pub' = pub /\ clock' = clock
      BY <1>8 DEF DedupeDuplicate
    <2> HIDE DEF ext, h, o
    <2>6. DOMAIN seen = Hashes /\ \A g \in Hashes : \A d \in seen[g] : d \in FirstSeen
      BY DEF PipeInv, PipeTypes, TypeOK
    <2>7. seen'[h] = {ext(d) : d \in seen[h]} /\ \A g \in Hashes \ {h} : seen'[g] = seen[g]
      BY <2>2, <2>5, <2>6
    <2>8. \A g \in Hashes : \A d \in seen'[g] : d \in FirstSeen
      BY <2>2, <2>4, <2>6, <2>7
    <2>9. TypeOK'
      BY <1>8, <2>3, <2>8 DEF DedupeDuplicate, PipeInv, PipeTypes, TypeOK
    <2>10. \A g \in Hashes, n \in Nat :
              (\E d \in seen[g] : d.expires = n) => \E d \in seen'[g] : d.expires = n
      <3> TAKE g \in Hashes, n \in Nat
      <3> HAVE \E d \in seen[g] : d.expires = n
      <3>1. PICK d \in seen[g] : d.expires = n
        OBVIOUS
      <3>2. CASE g = h
        <4>1. ext(d) \in seen'[g]
          BY <2>7, <3>1, <3>2
        <4>2. ext(d).expires = n
          BY <2>4, <2>6, <3>1
        <4> QED BY <4>1, <4>2
      <3>3. CASE g # h
        BY <2>7, <3>1, <3>3
      <3> QED BY <3>2, <3>3
    <2>11. EntryKept'
      <3> SUFFICES ASSUME NEW g \in Hashes, pub'[g] # <<>>
                   PROVE  \/ \E d \in seen'[g] : d.expires = LastFirst(g)' + TTL
                          \/ clock' > LastFirst(g)' + TTL
        BY DEF EntryKept
      <3>1. pub[g] \in Seq(Published) /\ pub[g] # <<>>
        BY <2>5 DEF PipeInv, PipeTypes
      <3>2. LastFirst(g) \in Nat
        <4>1. pub[g][Len(pub[g])] \in Published
          BY <3>1
        <4> QED BY <4>1 DEF LastFirst, Published
      <3>3. LastFirst(g)' = LastFirst(g)
        BY <2>5 DEF LastFirst
      <3>4. LastFirst(g) + TTL \in Nat
        BY <3>2
      <3>5. \/ \E d \in seen[g] : d.expires = LastFirst(g) + TTL
            \/ clock > LastFirst(g) + TTL
        BY <3>1 DEF PipeInv, EntryKept
      <3> QED BY <2>5, <2>10, <3>3, <3>4, <3>5
    <2>12. DOMAIN seen' = Hashes
      BY <2>5, <2>6
    <2> QED BY <2>5, <2>9, <2>11, <2>12 DEF PipeInv, PipeTypes
  <1>9. CASE Sweep
    <2>1. DOMAIN seen = Hashes /\ clock \in Nat
             /\ \A g \in Hashes : \A d \in seen[g] : d \in FirstSeen
      BY DEF PipeInv, PipeTypes, TypeOK
    <2>2. \A g \in Hashes : seen'[g] = {d \in seen[g] : d.expires >= clock}
      BY <1>9 DEF Sweep, Unexpired
    <2>3. \A g \in Hashes : \A d \in seen'[g] : d \in FirstSeen
      BY <2>1, <2>2
    <2>4. TypeOK'
      BY <1>9, <2>3 DEF Sweep, PipeInv, PipeTypes, TypeOK
    <2>5. EntryKept'
      <3> SUFFICES ASSUME NEW g \in Hashes, pub'[g] # <<>>
                   PROVE  \/ \E d \in seen'[g] : d.expires = LastFirst(g)' + TTL
                          \/ clock' > LastFirst(g)' + TTL
        BY DEF EntryKept
      <3>1. pub' = pub /\ clock' = clock /\ LastFirst(g)' = LastFirst(g)
        BY <1>9 DEF Sweep, LastFirst
      <3>2. \/ \E d \in seen[g] : d.expires = LastFirst(g) + TTL
            \/ clock > LastFirst(g) + TTL
        BY <3>1 DEF PipeInv, EntryKept
      <3>3. ASSUME NEW d \in seen[g], d.expires = LastFirst(g) + TTL
            PROVE  \/ \E c \in seen'[g] : c.expires = LastFirst(g)' + TTL
                   \/ clock' > LastFirst(g)' + TTL
        <4>1. d.expires \in Nat
          BY <2>1, <3>3 DEF FirstSeen
        <4>2. CASE d.expires >= clock
          BY <2>2, <3>1, <3>3, <4>2
        <4>3. CASE ~(d.expires >= clock)
          BY <2>1, <3>1, <3>3, <4>1, <4>3
        <4> QED BY <4>2, <4>3
      <3> QED BY <3>1, <3>2, <3>3
    <2>6. DOMAIN seen' = Hashes
      BY <1>9 DEF Sweep
    <2> QED BY <1>9, <2>4, <2>5, <2>6 DEF Sweep, PipeInv, PipeTypes
  <1>10. CASE NewHead
    <2>1. head' \in [number: Nat, at: Nat]
      BY <1>10 DEF NewHead, PipeInv, PipeTypes, TypeOK
    <2>2. TypeOK'
      BY <1>10, <2>1 DEF NewHead, PipeInv, PipeTypes, TypeOK
    <2> QED BY <1>10, <2>2, PipeQuietStep DEF NewHead
  <1>11. CASE Tick
    <2>1. clock \in Nat /\ clock' = clock + 1 /\ seen' = seen /\ pub' = pub
      BY <1>11 DEF Tick, PipeInv, PipeTypes, TypeOK
    <2>2. TypeOK'
      <3>1. clock' \in Nat
        BY <2>1
      <3> QED BY <1>11, <3>1 DEF Tick, PipeInv, PipeTypes, TypeOK
    <2>3. EntryKept'
      <3> SUFFICES ASSUME NEW g \in Hashes, pub[g] # <<>>
                   PROVE  \/ \E d \in seen[g] : d.expires = LastFirst(g) + TTL
                          \/ clock + 1 > LastFirst(g) + TTL
        BY <2>1 DEF EntryKept, LastFirst
      <3>1. pub[g][Len(pub[g])] \in Published
        BY DEF PipeInv, PipeTypes
      <3>2. LastFirst(g) \in Nat
        BY <3>1 DEF LastFirst, Published
      <3> QED BY <2>1, <3>2 DEF PipeInv, EntryKept
    <2> QED BY <2>1, <2>2, <2>3 DEF PipeInv, PipeTypes
  <1>12. CASE UNCHANGED plvars
    <2>1. TypeOK'
      BY <1>12 DEF plvars, PipeInv, PipeTypes, TypeOK
    <2> QED BY <1>12, <2>1, PipeQuietStep DEF plvars
  <1> QED
    BY <1>1, <1>2, <1>3, <1>4, <1>5, <1>6, <1>7, <1>8, <1>9, <1>10, <1>11, <1>12 DEF Next

\* The state of the sources, the channels, the pool, the dedupe map and the
\* publications keeps its types, and the channels their capacities.
THEOREM PipelineTypes == Spec => []TypeOK
  <1>1. PipeInv => TypeOK
    BY DEF PipeInv, PipeTypes
  <1> QED BY PipeInitInv, PipeNextInv, <1>1, PTL DEF Spec

\* Only run_dedupe publishes, and only for a hash without an entry.
LEMMA PublishNeedsVacancy ==
  ASSUME PipeInv, [Next]_plvars, NEW h \in Hashes, pub'[h] # pub[h]
  PROVE  seen[h] = {}
  <1>1. CASE DedupeFresh
    <2>1. pub' = [pub EXCEPT ![Head(decoded).hash] =
              Append(@, [first |-> Head(decoded).recv, context |-> Context(Head(decoded).recv)])]
      BY <1>1 DEF DedupeFresh
    <2>2. Head(decoded).hash = h
      BY <2>1 DEF PipeInv, PipeTypes
    <2> QED BY <1>1, <2>2 DEF DedupeFresh
  <1>2. CASE ~DedupeFresh
    <2>1. pub' = pub
      BY <1>2 DEF Next, plvars, IpcEvent, WssHash, WssFetched, WssMissing, Decode, HandOver,
                  DedupeDuplicate, Sweep, NewHead, Tick
    <2> QED BY <2>1
  <1> QED BY <1>1, <1>2

\* A transaction is published again only after the TTL of its last publication,
\* whatever the order in which its observations arrive (Dedupe::record and sweep).
THEOREM RepublishAfterTTL == Spec => RepublishNeedsTTL
  <1>1. PipeInv /\ [Next]_plvars =>
          [\A h \in Hashes :
               /\ pub'[h] # pub[h]
               /\ pub[h] # <<>>
               => clock > pub[h][Len(pub[h])].first + TTL]_plvars
    <2> SUFFICES ASSUME PipeInv, [Next]_plvars, NEW h \in Hashes, pub'[h] # pub[h], pub[h] # <<>>
                 PROVE  clock > pub[h][Len(pub[h])].first + TTL
      OBVIOUS
    <2>1. seen[h] = {}
      BY PublishNeedsVacancy
    <2> QED BY <2>1 DEF PipeInv, EntryKept, LastFirst
  <1> QED BY PipeInitInv, PipeNextInv, <1>1, PTL DEF Spec, RepublishNeedsTTL

-----------------------------------------------------------------------------
(* The Four.Meme price feed.                                               *)

\* What a stream holds are trades of the chain and of its own kind, in their order.
StreamOf(chain, sub, buy) ==
    /\ \A j \in DOMAIN sub :
         /\ sub[j].number \in DOMAIN chain
         /\ sub[j] = chain[sub[j].number]
         /\ sub[j].buy = buy
    /\ \A i, j \in DOMAIN sub : i < j => sub[i].number < sub[j].number

\* The logs: each has its number, its block is not above the height, and after a
\* graduation there are no more on the curve; a removed one takes off an earlier trade of
\* its block and kind, and no other takes off the same.
ChainFacts ==
    /\ \A i \in DOMAIN logs :
         /\ logs[i].number = i
         /\ logs[i].block <= height
         /\ graduated # OnCurve => logs[i].block <= graduated
    /\ watched <= height /\ graduated <= height

Undoes(i) ==
    /\ logs[i].undoes \in DOMAIN logs
    /\ logs[logs[i].undoes].undoes = 0
    /\ logs[logs[i].undoes].block = logs[i].block
    /\ logs[logs[i].undoes].buy = logs[i].buy

Removals == {j \in DOMAIN logs : logs[j].undoes # 0}

RemovalFacts ==
    /\ \A i \in Removals : Undoes(i)
    /\ \A i, j \in Removals : logs[i].undoes = logs[j].undoes => i = j

\* What the feed has ingested or will ingest comes from the chain; the streams are
\* lost only with a connection.
FeedFacts ==
    /\ StreamOf(logs, buySub, TRUE)
    /\ StreamOf(logs, sellSub, FALSE)
    /\ cache # <<>> => cache[1].number \in DOMAIN logs /\ cache[1] = logs[cache[1].number]
    /\ disconnects = 0 => connected

FeedBase == FeedTypeOK /\ ChainFacts /\ FeedFacts /\ RemovalFacts

\* Each late use of a curve price but the last one was followed by a failed exit: after
\* it the last observation is not before the graduation, whose block is no longer the head.
LateCounted ==
    \/ late <= failed
    \/ /\ late <= failed + 1 /\ graduated # OnCurve /\ graduated <= observed
       /\ graduated < watched

\* The first and the remaining elements of a sequence that is not empty.
LEMMA TailFacts ==
  ASSUME NEW T, NEW s \in Seq(T), s # <<>>
  PROVE  /\ Head(s) = s[1] /\ Head(s) \in T
         /\ Tail(s) \in Seq(T) /\ Len(Tail(s)) = Len(s) - 1
         /\ \A j \in DOMAIN Tail(s) : j \in Nat \ {0} /\ j + 1 \in DOMAIN s /\ Tail(s)[j] = s[j + 1]
         /\ 1 \in DOMAIN s
  OBVIOUS

\* A stream stays a stream of the chain without its first log.
LEMMA StreamTail ==
  ASSUME NEW buy \in BOOLEAN, NEW s \in Seq(Logs), s # <<>>, StreamOf(logs, s, buy)
  PROVE  /\ StreamOf(logs, Tail(s), buy)
         /\ Head(s) \in Logs /\ Head(s).number \in DOMAIN logs
         /\ Head(s) = logs[Head(s).number] /\ Head(s).buy = buy
         /\ \A j \in DOMAIN Tail(s) : Tail(s)[j].number > Head(s).number
  <1>1. /\ Head(s) = s[1] /\ Head(s) \in Logs
        /\ Tail(s) \in Seq(Logs) /\ Len(Tail(s)) = Len(s) - 1
        /\ \A j \in DOMAIN Tail(s) : j \in Nat \ {0} /\ j + 1 \in DOMAIN s
                                       /\ Tail(s)[j] = s[j + 1]
        /\ 1 \in DOMAIN s
    BY TailFacts
  <1>2. \A j \in DOMAIN s : s[j] \in Logs
    OBVIOUS
  <1>3. \A i, j \in DOMAIN Tail(s) : i < j => Tail(s)[i].number < Tail(s)[j].number
    BY <1>1 DEF StreamOf
  <1>4. \A j \in DOMAIN Tail(s) : /\ Tail(s)[j].number \in DOMAIN logs
                                  /\ Tail(s)[j] = logs[Tail(s)[j].number]
                                  /\ Tail(s)[j].buy = buy
    BY <1>1 DEF StreamOf
  <1>5. \A j \in DOMAIN Tail(s) : Tail(s)[j].number > Head(s).number
    <2> TAKE j \in DOMAIN Tail(s)
    <2>1. 1 < j + 1 /\ j + 1 \in DOMAIN s /\ Tail(s)[j] = s[j + 1]
      BY <1>1
    <2>2. s[1].number < s[j + 1].number
      BY <2>1, <1>1 DEF StreamOf
    <2>3. s[1].number \in Nat /\ s[j + 1].number \in Nat
      BY <2>1, <1>1, <1>2 DEF Logs
    <2> QED BY <2>1, <2>2, <2>3, <1>1
  <1> QED BY <1>1, <1>3, <1>4, <1>5 DEF StreamOf

\* Types of TokenStats::ingest: the entry that is counted in is the last one.
LEMMA CountedType ==
  ASSUME NEW e \in Entries, NEW t \in Logs
  PROVE  /\ Counted(e, t) \in Entries
         /\ Counted(e, t).block = e.block
         /\ Counted(e, t).buys = IF t.buy THEN e.buys + 1 ELSE e.buys
         /\ Counted(e, t).sells = IF t.buy THEN e.sells ELSE e.sells + 1
  BY DEF Counted, Entries, Logs

\* One element of a sequence replaced.
LEMMA Replaced ==
  ASSUME NEW T, NEW w \in Seq(T), NEW n \in 1..Len(w), NEW e \in T
  PROVE  /\ [w EXCEPT ![n] = e] \in Seq(T)
         /\ Len([w EXCEPT ![n] = e]) = Len(w)
         /\ [w EXCEPT ![n] = e][n] = e
         /\ \A i \in 1..Len(w) : i # n => [w EXCEPT ![n] = e][i] = w[i]
  OBVIOUS

NewEntry(t) == [block |-> t.block, buys |-> 0, sells |-> 0]

\* A trade of the last entry's block is counted in that entry.
LEMMA IngestedSame ==
  ASSUME NEW s \in Seq(Entries), NEW t \in Logs, ~NeedNew(s, t.block)
  PROVE  /\ Ingested(s, t) \in Seq(Entries)
         /\ s # <<>> /\ s[Len(s)].block = t.block
         /\ Len(Ingested(s, t)) = Len(s)
         /\ \A i \in DOMAIN s : i # Len(s) => Ingested(s, t)[i] = s[i]
         /\ Ingested(s, t)[Len(s)] = Counted(s[Len(s)], t)
  <1>1. s # <<>> /\ s[Len(s)].block = t.block
    BY DEF NeedNew, Last
  <1>2. Ingested(s, t) = [s EXCEPT ![Len(s)] = Counted(s[Len(s)], t)]
    BY DEF Ingested
  <1>3. Counted(s[Len(s)], t) \in Entries
    BY <1>1, CountedType
  <1> QED BY <1>1, <1>2, <1>3

\* A trade of another block gets a new last entry, and the oldest one goes when the
\* window is full.
LEMMA IngestedNew ==
  ASSUME NEW s \in Seq(Entries), NEW t \in Logs, NeedNew(s, t.block), Len(s) <= Window
  PROVE  \E d \in {0, 1} :
           /\ d = 1 <=> Len(s) = Window
           /\ Ingested(s, t) \in Seq(Entries)
           /\ Len(Ingested(s, t)) = Len(s) + 1 - d
           /\ \A i \in 1..(Len(s) - d) : Ingested(s, t)[i] = s[i + d]
           /\ Ingested(s, t)[Len(s) + 1 - d] = Counted(NewEntry(t), t)
  <1> DEFINE w == Append(s, NewEntry(t))
  <1>1. NewEntry(t) \in Entries
    BY DEF NewEntry, Entries, Logs
  <1>2. w \in Seq(Entries) /\ Len(w) = Len(s) + 1 /\ w[Len(s) + 1] = NewEntry(t)
        /\ \A i \in 1..Len(s) : w[i] = s[i]
    BY <1>1
  <1>3. Counted(NewEntry(t), t) \in Entries
    BY <1>1, CountedType
  <1>4. Window \in Nat /\ Len(s) \in Nat
    BY FeedAssumption
  <1>5. Ingested(s, t) = [Trimmed(w) EXCEPT ![Len(Trimmed(w))] =
                             Counted(Trimmed(w)[Len(Trimmed(w))], t)]
    BY DEF Ingested, NewEntry
  <1> HIDE DEF w
  <1>6. CASE Len(s) = Window
    <2>1. Trimmed(w) = Tail(w)
      BY <1>2, <1>4, <1>6 DEF Trimmed
    <2>2. /\ Tail(w) \in Seq(Entries) /\ Len(Tail(w)) = Len(s)
          /\ \A i \in 1..Len(s) : Tail(w)[i] = w[i + 1]
      BY <1>2, <1>4
    <2>3. Len(s) >= 1
      BY <1>6, FeedAssumption
    <2>4. Tail(w)[Len(s)] = NewEntry(t)
      BY <1>2, <1>4, <2>2, <2>3
    <2>5. \A i \in 1..(Len(s) - 1) : Tail(w)[i] = s[i + 1]
      BY <1>2, <1>4, <2>2, <2>3
    <2>6. Ingested(s, t) = [Tail(w) EXCEPT ![Len(s)] = Counted(NewEntry(t), t)]
      BY <1>5, <2>1, <2>2, <2>4
    <2>7. /\ Ingested(s, t) \in Seq(Entries) /\ Len(Ingested(s, t)) = Len(s)
          /\ \A i \in 1..(Len(s) - 1) : Ingested(s, t)[i] = s[i + 1]
          /\ Ingested(s, t)[Len(s)] = Counted(NewEntry(t), t)
      <3>1. Len(s) \in 1..Len(Tail(w))
        BY <2>2, <2>3, <1>4
      <3> DEFINE u == Tail(w)
                 e == Counted(NewEntry(t), t)
      <3>a. u \in Seq(Entries) /\ Len(u) = Len(s) /\ Len(s) \in 1..Len(u) /\ e \in Entries
            /\ Ingested(s, t) = [u EXCEPT ![Len(s)] = e]
        BY <2>6, <2>2, <3>1, <1>3
      <3> HIDE DEF u, e
      <3>2. /\ Ingested(s, t) \in Seq(Entries) /\ Len(Ingested(s, t)) = Len(s)
            /\ Ingested(s, t)[Len(s)] = e
            /\ \A i \in 1..Len(s) : i # Len(s) => Ingested(s, t)[i] = u[i]
        BY <3>a, Replaced
      <3>3. \A i \in 1..(Len(s) - 1) : i \in 1..Len(s) /\ i # Len(s)
        BY <1>4
      <3> QED BY <3>2, <3>3, <2>5 DEF u, e
    <2> QED BY <2>7, <1>4, <1>6
  <1>7. CASE Len(s) # Window
    <2>1. Trimmed(w) = w
      BY <1>2, <1>4, <1>7 DEF Trimmed
    <2>2. Ingested(s, t) = [w EXCEPT ![Len(s) + 1] = Counted(NewEntry(t), t)]
      BY <1>5, <2>1, <1>2
    <2>3. /\ Ingested(s, t) \in Seq(Entries) /\ Len(Ingested(s, t)) = Len(s) + 1
          /\ \A i \in 1..Len(s) : Ingested(s, t)[i] = s[i]
          /\ Ingested(s, t)[Len(s) + 1] = Counted(NewEntry(t), t)
      BY <2>2, <1>2, <1>3, <1>4
    <2> QED BY <2>3, <1>4, <1>7
  <1> QED BY <1>6, <1>7

\* The window keeps its type and never holds more than STATS_WINDOW entries.
LEMMA IngestedType ==
  ASSUME NEW s \in Seq(Entries), NEW t \in Logs, Len(s) <= Window
  PROVE  Ingested(s, t) \in Seq(Entries) /\ Len(Ingested(s, t)) <= Window
  <1>1. CASE NeedNew(s, t.block)
    <2>1. PICK d \in {0, 1} : /\ d = 1 <=> Len(s) = Window
                              /\ Ingested(s, t) \in Seq(Entries)
                              /\ Len(Ingested(s, t)) = Len(s) + 1 - d
      BY <1>1, IngestedNew
    <2> QED BY <2>1, FeedAssumption
  <1>2. CASE ~NeedNew(s, t.block)
    BY <1>2, IngestedSame
  <1> QED BY <1>1, <1>2

\* The initial state.
LEMMA FeedInitBase == FeedInit => FeedBase /\ LateCounted
  <1> SUFFICES ASSUME FeedInit PROVE FeedBase /\ LateCounted
    OBVIOUS
  <1>1. FeedTypeOK
    <2>1. /\ logs \in Seq(Logs) /\ buySub \in Seq(Logs) /\ sellSub \in Seq(Logs)
          /\ cache \in Seq(Logs) /\ Len(cache) <= 1
      BY DEF FeedInit
    <2>2. stats \in Seq(Entries) /\ Len(stats) <= Window
      BY FeedAssumption DEF FeedInit
    <2>3. connected \in BOOLEAN /\ misordered \in BOOLEAN /\ undoing \in BOOLEAN
      BY DEF FeedInit
    <2>4. /\ height \in 0..LastBlock /\ graduated \in {OnCurve} \cup 0..LastBlock
          /\ watched \in 0..LastBlock /\ observed \in 0..watched
          /\ failed \in 0..MaxFailed /\ late \in Nat /\ disconnects \in 0..MaxDisconnects
      BY FeedAssumption DEF FeedInit, BuyBlock
    <2> QED BY <2>1, <2>2, <2>3, <2>4 DEF FeedTypeOK
  <1>2. ChainFacts /\ FeedFacts /\ RemovalFacts
    BY DEF FeedInit, ChainFacts, FeedFacts, StreamOf, OnCurve, RemovalFacts, Removals
  <1>3. LateCounted
    BY DEF FeedInit, LateCounted
  <1> QED BY <1>1, <1>2, <1>3 DEF FeedBase

\* IngestBuy and IngestSell take the first log of a stream.
LEMMA IngestTypes ==
  ASSUME FeedTypeOK, NEW t \in Logs, Ingest(t)
  PROVE  /\ cache' \in Seq(Logs) /\ Len(cache') <= 1 /\ cache' = <<t>>
         /\ stats' \in Seq(Entries) /\ Len(stats') <= Window
         /\ misordered' \in BOOLEAN
  <1>1. cache' = <<t>> /\ stats' = Ingested(stats, t)
    BY DEF Ingest, Cached
  <1>2. misordered' \in BOOLEAN
    BY DEF Ingest, FeedTypeOK
  <1>3. stats \in Seq(Entries) /\ Len(stats) <= Window
    BY DEF FeedTypeOK
  <1> QED BY <1>1, <1>2, <1>3, IngestedType

\* Types and the facts on the chain and the streams are preserved.
LEMMA IngestBuyBase == FeedBase /\ IngestBuy => FeedBase'
  <1> SUFFICES ASSUME FeedBase, IngestBuy PROVE FeedBase'
    OBVIOUS
  <1>1. buySub \in Seq(Logs) /\ buySub # <<>> /\ StreamOf(logs, buySub, TRUE)
    BY DEF FeedBase, FeedTypeOK, FeedFacts, IngestBuy
  <1>2. /\ StreamOf(logs, Tail(buySub), TRUE)
        /\ Head(buySub) \in Logs /\ Head(buySub).number \in DOMAIN logs
        /\ Head(buySub) = logs[Head(buySub).number]
        /\ Tail(buySub) \in Seq(Logs)
    BY <1>1, StreamTail, TailFacts
  <1>3. /\ cache' \in Seq(Logs) /\ Len(cache') <= 1 /\ cache' = <<Head(buySub)>>
        /\ stats' \in Seq(Entries) /\ Len(stats') <= Window
        /\ misordered' \in BOOLEAN
    BY <1>2, IngestTypes DEF IngestBuy, FeedBase
  <1>4. FeedTypeOK'
    BY <1>2, <1>3 DEF FeedBase, FeedTypeOK, IngestBuy, chainVars, watchVars
  <1>5. ChainFacts' /\ RemovalFacts'
    BY DEF FeedBase, ChainFacts, RemovalFacts, Removals, Undoes, IngestBuy, chainVars, watchVars
  <1>6. FeedFacts'
    BY <1>2, <1>3 DEF FeedBase, FeedFacts, StreamOf, IngestBuy, chainVars
  <1> QED BY <1>4, <1>5, <1>6 DEF FeedBase

\* The same for a sell.
LEMMA IngestSellBase == FeedBase /\ IngestSell => FeedBase'
  <1> SUFFICES ASSUME FeedBase, IngestSell PROVE FeedBase'
    OBVIOUS
  <1>1. sellSub \in Seq(Logs) /\ sellSub # <<>> /\ StreamOf(logs, sellSub, FALSE)
    BY DEF FeedBase, FeedTypeOK, FeedFacts, IngestSell
  <1>2. /\ StreamOf(logs, Tail(sellSub), FALSE)
        /\ Head(sellSub) \in Logs /\ Head(sellSub).number \in DOMAIN logs
        /\ Head(sellSub) = logs[Head(sellSub).number]
        /\ Tail(sellSub) \in Seq(Logs)
    BY <1>1, StreamTail, TailFacts
  <1>3. /\ cache' \in Seq(Logs) /\ Len(cache') <= 1 /\ cache' = <<Head(sellSub)>>
        /\ stats' \in Seq(Entries) /\ Len(stats') <= Window
        /\ misordered' \in BOOLEAN
    BY <1>2, IngestTypes DEF IngestSell, FeedBase
  <1>4. FeedTypeOK'
    BY <1>2, <1>3 DEF FeedBase, FeedTypeOK, IngestSell, chainVars, watchVars
  <1>5. ChainFacts' /\ RemovalFacts'
    BY DEF FeedBase, ChainFacts, RemovalFacts, Removals, Undoes, IngestSell, chainVars, watchVars
  <1>6. FeedFacts'
    BY <1>2, <1>3 DEF FeedBase, FeedFacts, StreamOf, IngestSell, chainVars
  <1> QED BY <1>4, <1>5, <1>6 DEF FeedBase

\* A trade or a removal sends a log; of the chain nothing else changes that the feed sees.
Sending(buy, undoes) ==
    /\ Sent(NewLog(buy, undoes))
    /\ graduated' = OnCurve /\ undoing' \in BOOLEAN
    /\ undoes # 0 => /\ undoes \in DOMAIN logs /\ OnChain(undoes)
                     /\ logs[undoes].block = height /\ logs[undoes].buy = buy
    /\ UNCHANGED <<height, connected, disconnects, feedVars, watchVars>>

\* Trade and TakeOff are such steps.
LEMMA Sends ==
  ASSUME FeedBase
  PROVE  /\ \A buy \in BOOLEAN : Trade(buy) => Sending(buy, 0)
         /\ \A i \in DOMAIN logs : TakeOff(i) => /\ Sending(logs[i].buy, i)
                                              /\ logs[i].buy \in BOOLEAN /\ i \in Nat \ {0}
  <1>1. ASSUME NEW buy \in BOOLEAN, Trade(buy) PROVE Sending(buy, 0)
    BY <1>1 DEF Trade, Sending, FeedBase, FeedTypeOK
  <1>2. ASSUME NEW i \in DOMAIN logs, TakeOff(i)
        PROVE  Sending(logs[i].buy, i) /\ logs[i].buy \in BOOLEAN /\ i \in Nat \ {0}
    <2>1. logs \in Seq(Logs) /\ height \in Nat
      BY DEF FeedBase, FeedTypeOK
    <2>2. logs[i] \in Logs /\ i \in Nat \ {0}
      BY <2>1
    <2>3. logs[i].buy \in BOOLEAN /\ logs[i].block = height
      BY <1>2, <2>2 DEF Logs, TakeOff
    <2>4. graduated' = OnCurve
      <3>1. graduated # OnCurve => height <= graduated
        BY <2>3 DEF FeedBase, ChainFacts
      <3>2. graduated <= height /\ graduated \in {OnCurve} \cup Nat
        BY DEF FeedBase, ChainFacts, FeedTypeOK
      <3> QED BY <1>2, <2>1, <3>1, <3>2 DEF TakeOff
    <2>5. undoing' \in BOOLEAN
      BY <1>2 DEF TakeOff
    <2>6. /\ Sent(NewLog(logs[i].buy, i)) /\ OnChain(i)
          /\ UNCHANGED <<height, connected, disconnects, feedVars, watchVars>>
      BY <1>2 DEF TakeOff
    <2> QED BY <2>2, <2>3, <2>4, <2>5, <2>6 DEF Sending
  <1> QED BY <1>1, <1>2

\* What such a step does to the logs and to the streams.
LEMMA SentEffect ==
  ASSUME FeedBase, NEW buy \in BOOLEAN, NEW u \in Nat, Sending(buy, u)
  PROVE  /\ NewLog(buy, u) \in Logs
         /\ logs' = Append(logs, NewLog(buy, u)) /\ logs' \in Seq(Logs)
         /\ DOMAIN logs' = DOMAIN logs \cup {Len(logs) + 1}
         /\ \A i \in DOMAIN logs : logs'[i] = logs[i]
         /\ logs'[Len(logs) + 1] = NewLog(buy, u)
         /\ Len(logs) + 1 \notin DOMAIN logs
         /\ buySub' = IF connected /\ buy THEN Append(buySub, NewLog(buy, u)) ELSE buySub
         /\ sellSub' = IF connected /\ ~buy THEN Append(sellSub, NewLog(buy, u)) ELSE sellSub
         /\ UNCHANGED <<height, connected, disconnects, feedVars, watchVars>>
  <1>1. NewLog(buy, u) \in Logs /\ NewLog(buy, u).buy = buy
    BY DEF FeedBase, FeedTypeOK, NewLog, Logs
  <1>2. logs \in Seq(Logs) /\ logs' = Append(logs, NewLog(buy, u))
    BY DEF FeedBase, FeedTypeOK, Sending, Sent
  <1>4. /\ buySub' = IF connected /\ buy THEN Append(buySub, NewLog(buy, u)) ELSE buySub
        /\ sellSub' = IF connected /\ ~buy THEN Append(sellSub, NewLog(buy, u)) ELSE sellSub
        /\ UNCHANGED <<height, connected, disconnects, feedVars, watchVars>>
    BY <1>1 DEF Sending, Sent
  <1> HIDE DEF Sending
  <1>5. /\ logs' \in Seq(Logs) /\ Len(logs') = Len(logs) + 1
        /\ \A i \in 1..Len(logs) : logs'[i] = logs[i]
        /\ logs'[Len(logs) + 1] = NewLog(buy, u)
    BY <1>1, <1>2
  <1>6. /\ DOMAIN logs' = DOMAIN logs \cup {Len(logs) + 1}
        /\ Len(logs) + 1 \notin DOMAIN logs
    BY <1>2, <1>5
  <1> QED BY <1>1, <1>2, <1>4, <1>5, <1>6

\* A stream stays a stream of the chain when a log is appended to the chain's, and to
\* the stream if it is of its kind.
LEMMA StreamGrows ==
  ASSUME FeedBase, NEW buy \in BOOLEAN, NEW u \in Nat, Sending(buy, u),
         NEW kind \in BOOLEAN, NEW s \in Seq(Logs), StreamOf(logs, s, kind)
  PROVE  /\ StreamOf(logs', s, kind)
         /\ buy = kind => /\ Append(s, NewLog(buy, u)) \in Seq(Logs)
                          /\ StreamOf(logs', Append(s, NewLog(buy, u)), kind)
  <1> DEFINE t == NewLog(buy, u)
             r == Append(s, t)
  <1>1. /\ t \in Logs /\ t.number = Len(logs) + 1 /\ t.buy = buy
        /\ logs \in Seq(Logs) /\ logs' \in Seq(Logs)
    BY SentEffect DEF NewLog, FeedBase, FeedTypeOK
  <1>2. /\ DOMAIN logs' = DOMAIN logs \cup {Len(logs) + 1}
        /\ \A i \in DOMAIN logs : logs'[i] = logs[i]
        /\ logs'[Len(logs) + 1] = t
    BY SentEffect
  <1>3. StreamOf(logs', s, kind)
    BY <1>2 DEF StreamOf
  <1> HIDE DEF t
  <1>4. /\ r \in Seq(Logs) /\ Len(r) = Len(s) + 1 /\ r[Len(s) + 1] = t
        /\ \A i \in 1..Len(s) : r[i] = s[i]
        /\ DOMAIN s = 1..Len(s) /\ DOMAIN r = 1..(Len(s) + 1) /\ Len(s) \in Nat
    BY <1>1
  <1> HIDE DEF r
  <1>5. \A j \in DOMAIN s : s[j].number \in 1..Len(logs)
    BY <1>1 DEF StreamOf
  <1>6. ASSUME buy = kind PROVE StreamOf(logs', r, kind)
    <2>1. \A j \in DOMAIN r : /\ r[j].number \in DOMAIN logs'
                              /\ r[j] = logs'[r[j].number]
                              /\ r[j].buy = kind
      <3> TAKE j \in DOMAIN r
      <3>1. CASE j = Len(s) + 1
        BY <3>1, <1>1, <1>2, <1>4, <1>6
      <3>2. CASE j # Len(s) + 1
        BY <3>2, <1>3, <1>4 DEF StreamOf
      <3> QED BY <3>1, <3>2
    <2>2. ASSUME NEW i \in DOMAIN r, NEW j \in DOMAIN r, i < j PROVE r[i].number < r[j].number
      <3>1. i \in 1..Len(s) /\ r[i] = s[i]
        BY <2>2, <1>4
      <3>2. CASE j = Len(s) + 1
        <4>1. s[i].number \in 1..Len(logs) /\ r[j].number = Len(logs) + 1
          BY <3>1, <3>2, <1>1, <1>4, <1>5
        <4> QED BY <4>1, <3>1, <1>1
      <3>3. CASE j # Len(s) + 1
        BY <3>1, <3>3, <2>2, <1>3, <1>4 DEF StreamOf
      <3> QED BY <3>2, <3>3
    <2> QED BY <2>1, <2>2 DEF StreamOf
  <1> QED BY <1>3, <1>4, <1>6 DEF r, t

\* Such a step preserves the types and the facts on the chain and the streams.
LEMMA SentBase ==
  ASSUME FeedBase, NEW buy \in BOOLEAN, NEW u \in Nat, Sending(buy, u)
  PROVE  FeedBase'
  <1>1. /\ NewLog(buy, u) \in Logs /\ logs' \in Seq(Logs)
        /\ DOMAIN logs' = DOMAIN logs \cup {Len(logs) + 1}
        /\ \A i \in DOMAIN logs : logs'[i] = logs[i]
        /\ logs'[Len(logs) + 1] = NewLog(buy, u)
        /\ graduated' = OnCurve /\ undoing' \in BOOLEAN
        /\ buySub' = IF connected /\ buy THEN Append(buySub, NewLog(buy, u)) ELSE buySub
        /\ sellSub' = IF connected /\ ~buy THEN Append(sellSub, NewLog(buy, u)) ELSE sellSub
        /\ UNCHANGED <<height, connected, disconnects, feedVars, watchVars>>
    BY SentEffect DEF Sending
  <1>2. /\ buySub \in Seq(Logs) /\ sellSub \in Seq(Logs)
        /\ StreamOf(logs, buySub, TRUE) /\ StreamOf(logs, sellSub, FALSE)
    BY DEF FeedBase, FeedFacts, FeedTypeOK
  <1>3. buySub' \in Seq(Logs) /\ StreamOf(logs', buySub', TRUE)
    BY <1>1, <1>2, StreamGrows
  <1>4. sellSub' \in Seq(Logs) /\ StreamOf(logs', sellSub', FALSE)
    <2>1. CASE connected /\ ~buy
      BY <2>1, <1>1, <1>2, StreamGrows
    <2>2. CASE ~(connected /\ ~buy)
      BY <2>2, <1>1, <1>2, StreamGrows
    <2> QED BY <2>1, <2>2
  <1>5. FeedTypeOK'
    BY <1>1, <1>3, <1>4 DEF FeedBase, FeedTypeOK, feedVars, watchVars
  <1>6. ChainFacts'
    <2> SUFFICES ASSUME NEW i \in DOMAIN logs'
                 PROVE  logs'[i].number = i /\ logs'[i].block <= height'
      <3>1. watched' <= height' /\ graduated' <= height'
        BY <1>1 DEF FeedBase, FeedTypeOK, ChainFacts, watchVars, OnCurve
      <3> QED BY <1>1, <3>1 DEF ChainFacts
    <2>1. height \in Nat
      BY DEF FeedBase, FeedTypeOK
    <2>2. CASE i \in DOMAIN logs
      BY <1>1, <2>2 DEF FeedBase, ChainFacts
    <2>3. CASE i = Len(logs) + 1
      BY <1>1, <2>1, <2>3 DEF NewLog
    <2> QED BY <1>1, <2>2, <2>3
  <1>7. FeedFacts'
    BY <1>1, <1>3, <1>4 DEF FeedBase, FeedFacts, feedVars
  <1>8. RemovalFacts'
    <2>1. \A i \in Removals : Undoes(i)
      BY DEF FeedBase, RemovalFacts
    <2>2. \A i, j \in Removals : logs[i].undoes = logs[j].undoes => i = j
      BY DEF FeedBase, RemovalFacts
    <2>3. logs'[Len(logs) + 1].undoes = u /\ logs'[Len(logs) + 1].block = height
          /\ logs'[Len(logs) + 1].buy = buy
      BY <1>1 DEF NewLog
    <2>4. u # 0 => /\ u \in DOMAIN logs /\ logs[u].undoes = 0
                   /\ \A j \in DOMAIN logs : logs[j].undoes # u
                   /\ logs[u].block = height /\ logs[u].buy = buy
      BY DEF Sending, OnChain
    <2>5. \A i \in Removals' : i \in Removals \/ (i = Len(logs) + 1 /\ u # 0)
      BY <1>1, <2>3 DEF Removals
    <2>6. ASSUME NEW i \in Removals' PROVE Undoes(i)'
      <3>1. CASE i \in Removals
        BY <1>1, <2>1, <3>1 DEF Undoes, Removals
      <3>2. CASE i = Len(logs) + 1 /\ u # 0
        BY <1>1, <2>3, <2>4, <3>2 DEF Undoes
      <3> QED BY <2>5, <3>1, <3>2
    <2>7. ASSUME NEW i \in Removals', NEW j \in Removals', logs'[i].undoes = logs'[j].undoes
          PROVE  i = j
      <3>1. CASE i \in Removals /\ j \in Removals
        BY <1>1, <2>2, <2>7, <3>1 DEF Removals
      <3>2. CASE i \in Removals /\ j = Len(logs) + 1 /\ u # 0
        BY <1>1, <2>3, <2>4, <2>7, <3>2 DEF Removals
      <3>3. CASE j \in Removals /\ i = Len(logs) + 1 /\ u # 0
        BY <1>1, <2>3, <2>4, <2>7, <3>3 DEF Removals
      <3> QED BY <2>5, <3>1, <3>2, <3>3
    <2> QED BY <2>6, <2>7 DEF RemovalFacts
  <1> QED BY <1>5, <1>6, <1>7, <1>8 DEF FeedBase

\* The position's own state: its last observation is not after the last block watched.
LEMMA HeldTypes ==
  ASSUME FeedTypeOK, NEW n \in 1..LastBlock, Lookup(n)
  PROVE  /\ watched' = n /\ watched < n /\ n <= height
         /\ observed' \in 0..n /\ failed' \in 0..MaxFailed /\ late' \in Nat
         /\ UNCHANGED <<chainVars, buySub, sellSub, connected, disconnects, feedVars>>
  <1>1. /\ watched' = n /\ watched < n /\ n <= height
        /\ UNCHANGED <<chainVars, buySub, sellSub, connected, disconnects, feedVars>>
    BY DEF Lookup
  <1>2. /\ watched \in Nat /\ observed \in 0..watched /\ failed \in 0..MaxFailed
        /\ late \in Nat
    BY DEF FeedTypeOK
  <1>3. \A o \in 0..n : HeldOn(o) => observed' \in 0..n /\ failed' \in 0..MaxFailed
    BY <1>2, FeedAssumption DEF HeldOn, BuyBlock
  <1>4. n \in 0..n /\ observed \in 0..n
    BY <1>1, <1>2
  <1>5. HeldOn(n) \/ HeldOn(observed)
    BY DEF Lookup, UsesCurvePrice, UsesV2Quote
  <1>6. late' \in Nat
    BY <1>2 DEF Lookup, UsesCurvePrice, UsesV2Quote
  <1> QED BY <1>1, <1>3, <1>4, <1>5, <1>6

\* Every step preserves the types and the facts on the chain and the streams.
LEMMA FeedNextBase == FeedBase /\ [FeedNext]_fvars => FeedBase'
  <1> SUFFICES ASSUME FeedBase, [FeedNext]_fvars PROVE FeedBase'
    OBVIOUS
  <1>1. CASE IngestBuy
    BY <1>1, IngestBuyBase
  <1>2. CASE IngestSell
    BY <1>2, IngestSellBase
  <1>3. CASE Disconnect
    <2>1. FeedTypeOK'
      <3>1. disconnects' \in 0..MaxDisconnects
        BY <1>3, FeedAssumption DEF Disconnect, FeedBase, FeedTypeOK
      <3>2. buySub' \in Seq(Logs) /\ sellSub' \in Seq(Logs)
        BY <1>3 DEF Disconnect
      <3>3. connected' \in BOOLEAN
        BY <1>3 DEF Disconnect
      <3> QED BY <1>3, <3>1, <3>2, <3>3
              DEF Disconnect, FeedBase, FeedTypeOK, chainVars, feedVars, watchVars
    <2>2. ChainFacts' /\ RemovalFacts'
      BY <1>3 DEF Disconnect, FeedBase, ChainFacts, RemovalFacts, Removals, Undoes, chainVars,
                  watchVars
    <2>3. disconnects' # 0
      BY <1>3 DEF Disconnect, FeedBase, FeedTypeOK
    <2>4. FeedFacts'
      BY <1>3, <2>3 DEF Disconnect, FeedBase, FeedFacts, StreamOf, chainVars, feedVars
    <2> QED BY <2>1, <2>2, <2>4 DEF FeedBase
  <1>4. CASE Reconnect
    BY <1>4 DEF Reconnect, FeedBase, FeedTypeOK, ChainFacts, FeedFacts, RemovalFacts,
                Removals, Undoes, chainVars, feedVars, watchVars
  <1>5. CASE NewBlock
    <2>1. height \in Nat /\ height' = height + 1 /\ height' \in 0..LastBlock
      BY <1>5, FeedAssumption DEF NewBlock, FeedBase, FeedTypeOK
    <2>2. FeedTypeOK'
      BY <1>5, <2>1 DEF NewBlock, FeedBase, FeedTypeOK, feedVars, watchVars
    <2>3. \A i \in DOMAIN logs : logs[i].block \in Nat
      <3>1. \A i \in DOMAIN logs : logs[i] \in Logs
        BY DEF FeedBase, FeedTypeOK
      <3> QED BY <3>1 DEF Logs
    <2>6. watched \in Nat /\ graduated \in Int
      BY DEF FeedBase, FeedTypeOK, OnCurve
    <2>4. ChainFacts' /\ RemovalFacts'
      BY <1>5, <2>1, <2>3, <2>6 DEF NewBlock, FeedBase, ChainFacts, RemovalFacts, Removals,
                                    Undoes, watchVars
    <2>5. FeedFacts'
      BY <1>5 DEF NewBlock, FeedBase, FeedFacts, feedVars
    <2> QED BY <2>2, <2>4, <2>5 DEF FeedBase
  <1>6. CASE \E buy \in BOOLEAN : Trade(buy)
    BY <1>6, Sends, SentBase
  <1>a. CASE \E i \in DOMAIN logs : TakeOff(i)
    BY <1>a, Sends, SentBase
  <1>7. CASE Graduate
    <2>1. FeedTypeOK'
      BY <1>7 DEF Graduate, FeedBase, FeedTypeOK, feedVars, watchVars
    <2>4. height \in Nat
      BY DEF FeedBase, FeedTypeOK
    <2>2. ChainFacts' /\ RemovalFacts'
      BY <1>7, <2>4 DEF Graduate, FeedBase, ChainFacts, RemovalFacts, Removals, Undoes,
                        watchVars
    <2>3. FeedFacts'
      BY <1>7 DEF Graduate, FeedBase, FeedFacts, feedVars
    <2> QED BY <2>1, <2>2, <2>3 DEF FeedBase
  <1>8. ASSUME NEW n \in 1..LastBlock, Lookup(n) PROVE FeedBase'
    <2>1. /\ watched' = n /\ n <= height
          /\ observed' \in 0..n /\ failed' \in 0..MaxFailed /\ late' \in Nat
          /\ UNCHANGED <<chainVars, buySub, sellSub, connected, disconnects, feedVars>>
      BY <1>8, HeldTypes DEF FeedBase
    <2>2. FeedTypeOK'
      BY <2>1 DEF FeedBase, FeedTypeOK, chainVars, feedVars
    <2>3. ChainFacts' /\ FeedFacts' /\ RemovalFacts'
      BY <2>1 DEF FeedBase, ChainFacts, FeedFacts, RemovalFacts, Removals, Undoes, chainVars,
                  feedVars
    <2> QED BY <2>2, <2>3 DEF FeedBase
  <1>9. CASE UNCHANGED fvars
    BY <1>9 DEF FeedBase, FeedTypeOK, ChainFacts, FeedFacts, RemovalFacts, Removals, Undoes,
                fvars, chainVars, feedVars, watchVars
  <1> QED BY <1>1, <1>2, <1>3, <1>4, <1>5, <1>6, <1>a, <1>7, <1>8, <1>9 DEF FeedNext

\* A curve price that is used late comes from a scan, and the scan needs a buy after
\* the last observation: none is left once an observation is past the graduation.
LEMMA LateUse ==
  ASSUME FeedBase, NEW n \in 1..LastBlock, Lookup(n), graduated # OnCurve,
         n > graduated + MaxStale, late' # late
  PROVE  observed < graduated
  <1>1. /\ graduated \in Nat /\ observed \in Nat /\ MaxStale \in Nat
    BY FeedAssumption DEF FeedBase, FeedTypeOK
  <1>2. \A i \in DOMAIN logs : logs[i] \in Logs /\ logs[i].block <= graduated
    <2>1. logs \in Seq(Logs)
      BY DEF FeedBase, FeedTypeOK
    <2>2. \A i \in DOMAIN logs : logs[i] \in Logs
      BY <2>1
    <2>3. \A i \in DOMAIN logs : logs[i].block <= graduated
      BY DEF FeedBase, ChainFacts
    <2> QED BY <2>2, <2>3
  <1>3. \A i \in DOMAIN logs : logs[i].block \in Nat
    BY <1>2 DEF Logs
  <1>4. ~Fresh(n)
    <2>1. SUFFICES ASSUME Fresh(n) PROVE FALSE
      OBVIOUS
    <2>2. PICK k \in DOMAIN logs : cache[1] = logs[k]
      BY <2>1 DEF Fresh, FeedBase, FeedFacts
    <2>3. n <= logs[k].block + MaxStale
      BY <2>1, <2>2 DEF Fresh
    <2> QED BY <2>2, <2>3, <1>1, <1>2, <1>3
  <1>5. CurveBuySince(n)
    BY <1>4 DEF Lookup, UsesV2Quote
  <1>6. PICK i \in DOMAIN logs : observed < logs[i].block
    BY <1>5 DEF CurveBuySince
  <1> QED BY <1>1, <1>2, <1>3, <1>6

\* A lookup counts at most one late use.
LEMMA LookupLate ==
  ASSUME FeedBase, LateCounted, NEW n \in 1..LastBlock, Lookup(n)
  PROVE  LateCounted'
  <1>1. /\ watched' = n /\ watched < n /\ observed' \in 0..n
        /\ UNCHANGED graduated
    BY HeldTypes DEF FeedBase, chainVars
  <1>2. /\ watched \in Nat /\ observed \in 0..watched /\ failed \in Nat /\ late \in Nat
        /\ graduated \in Int /\ MaxStale \in Nat
        /\ graduated # OnCurve => graduated \in Nat
    BY FeedAssumption DEF FeedBase, FeedTypeOK, OnCurve
  <1>3. \/ failed' = failed /\ observed' \in {n, observed}
        \/ failed' = failed + 1
    BY DEF Lookup, UsesCurvePrice, UsesV2Quote, HeldOn
  <1>4. CASE late' = late
    BY <1>1, <1>2, <1>3, <1>4 DEF LateCounted
  <1>5. CASE late' # late
    <2>1. /\ late' = late + 1 /\ graduated # OnCurve /\ n > graduated + MaxStale
          /\ HeldOn(n)
      BY <1>5 DEF Lookup, UsesCurvePrice, UsesV2Quote
    <2>2. observed < graduated
      BY <1>5, <2>1, LateUse
    <2>3. late <= failed
      BY <1>2, <2>1, <2>2 DEF LateCounted
    <2>4. CASE observed' = n /\ failed' = failed
      BY <1>1, <1>2, <2>1, <2>3, <2>4 DEF LateCounted
    <2>5. CASE failed' = failed + 1
      BY <1>2, <2>1, <2>3, <2>5 DEF LateCounted
    <2> QED BY <2>1, <2>4, <2>5 DEF HeldOn
  <1> QED BY <1>4, <1>5

\* Every step preserves the count of late uses.
LEMMA FeedNextLate == FeedBase /\ LateCounted /\ [FeedNext]_fvars => LateCounted'
  <1> SUFFICES ASSUME FeedBase, LateCounted, [FeedNext]_fvars PROVE LateCounted'
    OBVIOUS
  <1>1. CASE \E n \in 1..LastBlock : Lookup(n)
    BY <1>1, LookupLate
  <1>2. CASE Graduate
    BY <1>2 DEF Graduate, LateCounted, watchVars
  <1>5. CASE \E i \in DOMAIN logs : TakeOff(i)
    <2>1. PICK i \in DOMAIN logs : TakeOff(i)
      BY <1>5
    <2>2. graduated' = graduated \/ graduated = height
      BY <2>1 DEF TakeOff
    <2>3. /\ watched <= height /\ watched \in Nat /\ height \in Nat
          /\ graduated \in Int
      BY DEF FeedBase, ChainFacts, FeedTypeOK, OnCurve
    <2>4. CASE graduated = height
      <3>1. late <= failed
        BY <2>3, <2>4 DEF LateCounted
      <3> QED BY <2>1, <3>1 DEF TakeOff, LateCounted, watchVars
    <2>5. CASE graduated' = graduated
      BY <2>1, <2>5 DEF TakeOff, LateCounted, watchVars
    <2> QED BY <2>2, <2>4, <2>5
  <1>3. CASE UNCHANGED <<graduated, watchVars>>
    BY <1>3 DEF LateCounted, watchVars
  <1>4. IngestBuy \/ IngestSell \/ Disconnect \/ Reconnect \/ NewBlock
          \/ (\E buy \in BOOLEAN : Trade(buy)) \/ UNCHANGED fvars
        => UNCHANGED <<graduated, watchVars>>
    BY DEF IngestBuy, IngestSell, Disconnect, Reconnect, NewBlock, Trade, fvars, chainVars
  <1> QED BY <1>1, <1>2, <1>3, <1>4, <1>5 DEF FeedNext

\* The feed keeps its types: the window never holds more than STATS_WINDOW entries, the
\* position's last observation is never ahead of the last block watched
\* (four_meme_price.rs, TokenStats::ingest; adaptive_trail.rs, process_one_position).
THEOREM FeedTypes == FeedSpec => []FeedTypeOK
  <1>1. FeedInit => FeedBase
    BY FeedInitBase
  <1>2. FeedBase /\ [FeedNext]_fvars => FeedBase'
    BY FeedNextBase
  <1>3. FeedBase => FeedTypeOK
    BY DEF FeedBase
  <1> QED BY <1>1, <1>2, <1>3, PTL DEF FeedSpec

\* adaptive_trail.rs, get_latest_price_cached and fourmeme_observed_price: from MaxStale
\* blocks after the graduation on, a curve price is used at most once, and once more after
\* each failed exit, whatever the streams hold back and whichever requests fail.
THEOREM GraduationIsCaught == FeedSpec => []GraduationCaught
  <1>1. FeedInit => FeedBase /\ LateCounted
    BY FeedInitBase
  <1>2. FeedBase /\ LateCounted /\ [FeedNext]_fvars => (FeedBase /\ LateCounted)'
    BY FeedNextBase, FeedNextLate
  <1>3. FeedBase /\ LateCounted => GraduationCaught
    <2>1. FeedBase => failed \in Nat /\ late \in Nat
      BY FeedAssumption DEF FeedBase, FeedTypeOK
    <2> QED BY <2>1 DEF LateCounted, GraduationCaught
  <1> QED BY <1>1, <1>2, <1>3, PTL DEF FeedSpec

---------------------------------------------------------------------------
(* No log is counted twice.  Each entry of the window has a set of its own *)
(* of logs of buys of its block: those it counted.  None of them is still  *)
(* on its way in the stream.                                               *)

Pending(sub) == {sub[j].number : j \in DOMAIN sub}
InBlock(chain, block, buy) ==
    {i \in DOMAIN chain : chain[i].block = block /\ chain[i].buy = buy}

\* A[i] are the logs of buys that entry i of the window w counted.
Attributes(A, w, chain, pending) ==
    /\ A \in [DOMAIN w -> SUBSET DOMAIN chain]
    /\ \A i \in DOMAIN w : /\ A[i] \subseteq InBlock(chain, w[i].block, TRUE)
                           /\ A[i] \cap pending = {}
                           /\ Cardinality(A[i]) = w[i].buys
    /\ \A i, j \in DOMAIN w : i # j => A[i] \cap A[j] = {}

Attributed(w, chain, pending) == \E A : Attributes(A, w, chain, pending)

BuysAttributed == Attributed(stats, logs, Pending(buySub))

\* The indexes of a sequence, and so every set of them, are finite.
LEMMA IndexesFinite ==
  ASSUME NEW T, NEW s \in Seq(T)
  PROVE  IsFiniteSet(DOMAIN s) /\ \A K \in SUBSET DOMAIN s : IsFiniteSet(K)
  <1>1. DOMAIN s = 1..Len(s) /\ Len(s) \in Nat
    OBVIOUS
  <1>2. IsFiniteSet(DOMAIN s)
    BY <1>1, FS_Interval
  <1> QED BY <1>2, FS_Subset

\* The indexes a trade adds to the attribution of its entry: its own if it is a buy.
Own(t) == IF t.buy THEN {t.number} ELSE {}

\* Adding a buy that no entry has counted adds one to the size of its set.
LEMMA OwnCounted ==
  ASSUME NEW chain \in Seq(Logs), NEW t \in Logs, t.number \in DOMAIN chain,
         NEW K \in SUBSET DOMAIN chain, t.number \notin K, NEW e \in Entries,
         Cardinality(K) = e.buys
  PROVE  /\ K \cup Own(t) \in SUBSET DOMAIN chain
         /\ Cardinality(K \cup Own(t)) = Counted(e, t).buys
  <1>1. Counted(e, t).buys = IF t.buy THEN e.buys + 1 ELSE e.buys
    BY CountedType
  <1>2. IsFiniteSet(K)
    BY IndexesFinite
  <1>3. CASE t.buy
    <2>1. Own(t) = {t.number}
      BY <1>3 DEF Own
    <2>2. Cardinality(K \cup {t.number}) = Cardinality(K) + 1
      BY <1>2, FS_AddElement
    <2> QED BY <1>1, <1>3, <2>1, <2>2
  <1>4. CASE ~t.buy
    <2>1. Own(t) = {}
      BY <1>4 DEF Own
    <2> QED BY <1>1, <1>4, <2>1
  <1> QED BY <1>3, <1>4

\* A trade that leaves a stream is counted in the last entry only.
LEMMA IngestAttributes ==
  ASSUME NEW w \in Seq(Entries), Len(w) <= Window,
         NEW chain \in Seq(Logs), NEW t \in Logs,
         t.number \in DOMAIN chain, t = chain[t.number],
         NEW pending, NEW left \in SUBSET pending,
         t.buy => t.number \in pending /\ t.number \notin left,
         Attributed(w, chain, pending)
  PROVE  Attributed(Ingested(w, t), chain, left)
  <1>1. PICK A : Attributes(A, w, chain, pending)
    BY DEF Attributed
  <1>2. /\ A \in [DOMAIN w -> SUBSET DOMAIN chain]
        /\ \A i \in DOMAIN w : /\ A[i] \subseteq InBlock(chain, w[i].block, TRUE)
                               /\ A[i] \cap pending = {}
                               /\ Cardinality(A[i]) = w[i].buys
        /\ \A i, j \in DOMAIN w : i # j => A[i] \cap A[j] = {}
    BY <1>1 DEF Attributes
  <1>3. /\ Own(t) \subseteq InBlock(chain, t.block, TRUE) /\ Own(t) \cap left = {}
        /\ \A i \in DOMAIN w : A[i] \cap Own(t) = {}
        /\ Own(t) \in SUBSET DOMAIN chain
    BY <1>2 DEF Own, InBlock, Logs
  <1>4. w \in [1..Len(w) -> Entries] /\ Len(w) \in Nat /\ DOMAIN w = 1..Len(w)
    OBVIOUS
  <1>5. CASE NeedNew(w, t.block)
    <2>1. PICK d \in {0, 1} :
            /\ d = 1 <=> Len(w) = Window
            /\ Ingested(w, t) \in Seq(Entries)
            /\ Len(Ingested(w, t)) = Len(w) + 1 - d
            /\ \A i \in 1..(Len(w) - d) : Ingested(w, t)[i] = w[i + d]
            /\ Ingested(w, t)[Len(w) + 1 - d] = Counted(NewEntry(t), t)
      BY <1>5, IngestedNew
    <2> DEFINE v == Ingested(w, t)
               n == Len(w) - d
               B == [i \in 1..(n + 1) |-> IF i = n + 1 THEN Own(t) ELSE A[i + d]]
    <2>2. n \in Nat /\ Len(w) \in Nat /\ d \in Nat /\ n + d = Len(w)
      <3>1. CASE d = 0
        BY <3>1, <1>4
      <3>2. CASE d = 1
        <4>1. Len(w) = Window
          BY <2>1, <3>2
        <4>2. Len(w) \in Nat /\ Len(w) >= 1
          BY <4>1, FeedAssumption
        <4> QED BY <4>2, <3>2
      <3> QED BY <2>1, <3>1, <3>2
    <2>3. /\ v \in Seq(Entries) /\ DOMAIN v = 1..(n + 1)
          /\ \A i \in 1..n : v[i] = w[i + d] /\ i + d \in DOMAIN w
          /\ v[n + 1] = Counted(NewEntry(t), t)
      BY <2>1, <2>2
    <2> HIDE DEF v, n
    <2>4. /\ v[n + 1].block = t.block /\ Cardinality(Own(t)) = v[n + 1].buys
      <3>1. NewEntry(t) \in Entries /\ NewEntry(t).block = t.block /\ NewEntry(t).buys = 0
        BY DEF NewEntry, Entries, Logs
      <3>2. Counted(NewEntry(t), t).block = t.block
        BY <3>1, CountedType
      <3>3. Cardinality({}) = 0 /\ {} \in SUBSET DOMAIN chain
        BY FS_EmptySet
      <3>4. Cardinality({} \cup Own(t)) = Counted(NewEntry(t), t).buys
        BY <3>1, <3>3, OwnCounted
      <3>5. {} \cup Own(t) = Own(t)
        OBVIOUS
      <3> QED BY <2>3, <3>2, <3>4, <3>5
    <2>5. \A i \in DOMAIN v : \/ i \in 1..n /\ i # n + 1 /\ B[i] = A[i + d]
                              \/ i = n + 1 /\ B[i] = Own(t)
      BY <2>2, <2>3
    <2>6. DOMAIN B = DOMAIN v
      BY <2>3
    <2>7. B \in [DOMAIN v -> SUBSET DOMAIN chain]
      <3>1. \A i \in DOMAIN v : B[i] \in SUBSET DOMAIN chain
        BY <1>2, <1>3, <2>3, <2>5
      <3> QED BY <3>1, <2>3
    <2> HIDE DEF B
    <2>8. \A i \in DOMAIN v : /\ B[i] \subseteq InBlock(chain, v[i].block, TRUE)
                              /\ B[i] \cap left = {}
                              /\ Cardinality(B[i]) = v[i].buys
      <3> TAKE i \in DOMAIN v
      <3>1. CASE i \in 1..n /\ B[i] = A[i + d]
        BY <3>1, <1>2, <2>3
      <3>2. CASE i = n + 1 /\ B[i] = Own(t)
        BY <3>2, <1>3, <2>4
      <3> QED BY <3>1, <3>2, <2>5
    <2>9. ASSUME NEW i \in DOMAIN v, NEW j \in DOMAIN v, i # j PROVE B[i] \cap B[j] = {}
      <3>1. CASE i = n + 1
        <4>1. j \in 1..n /\ B[j] = A[j + d] /\ j + d \in DOMAIN w /\ B[i] = Own(t)
          BY <3>1, <2>9, <2>3, <2>5
        <4> QED BY <4>1, <1>3
      <3>2. CASE j = n + 1
        <4>1. i \in 1..n /\ B[i] = A[i + d] /\ i + d \in DOMAIN w /\ B[j] = Own(t)
          BY <3>2, <2>9, <2>3, <2>5
        <4> QED BY <4>1, <1>3
      <3>3. CASE i # n + 1 /\ j # n + 1
        <4>1. /\ i \in 1..n /\ B[i] = A[i + d] /\ i + d \in DOMAIN w
              /\ j \in 1..n /\ B[j] = A[j + d] /\ j + d \in DOMAIN w
          BY <3>3, <2>3, <2>5
        <4>2. i + d # j + d
          BY <4>1, <2>9, <2>2
        <4> QED BY <4>1, <4>2, <1>2
      <3> QED BY <3>1, <3>2, <3>3
    <2>10. Attributes(B, v, chain, left)
      BY <2>7, <2>8, <2>9 DEF Attributes
    <2> QED BY <2>10 DEF Attributed, v
  <1>6. CASE ~NeedNew(w, t.block)
    <2> DEFINE v == Ingested(w, t)
               n == Len(w)
               B == [A EXCEPT ![n] = A[n] \cup Own(t)]
    <2>1. /\ v \in Seq(Entries) /\ w # <<>> /\ w[n].block = t.block /\ Len(v) = Len(w)
          /\ \A i \in DOMAIN w : i # n => v[i] = w[i]
          /\ v[n] = Counted(w[n], t)
      BY <1>6, IngestedSame
    <2>2. n \in DOMAIN w /\ w[n] \in Entries /\ DOMAIN v = DOMAIN w
      BY <2>1, <1>4
    <2> HIDE DEF v, n
    <2>3. /\ B \in [DOMAIN w -> SUBSET DOMAIN chain]
          /\ B[n] = A[n] \cup Own(t)
          /\ \A i \in DOMAIN w : i # n => B[i] = A[i]
      BY <1>2, <1>3, <2>2
    <2> HIDE DEF B
    <2>4. v[n].block = t.block /\ Cardinality(A[n] \cup Own(t)) = v[n].buys
      <3>1. v[n].block = t.block
        <4>1. Counted(w[n], t).block = w[n].block
          BY <2>2, CountedType
        <4> QED BY <4>1, <2>1
      <3>2. A[n] \in SUBSET DOMAIN chain /\ Cardinality(A[n]) = w[n].buys
        BY <1>2, <2>2
      <3>3. CASE t.buy
        <4>1. t.number \notin A[n]
          BY <3>3, <1>2, <2>2
        <4>2. Cardinality(A[n] \cup Own(t)) = Counted(w[n], t).buys
          BY <4>1, <3>2, <2>2, OwnCounted
        <4> QED BY <4>2, <3>1, <2>1
      <3>4. CASE ~t.buy
        <4>1. A[n] \cup Own(t) = A[n]
          BY <3>4 DEF Own
        <4>2. Counted(w[n], t).buys = w[n].buys
          BY <3>4, <2>2, CountedType
        <4> QED BY <4>1, <4>2, <3>1, <3>2, <2>1
      <3> QED BY <3>3, <3>4
    <2>5. \A i \in DOMAIN v : /\ B[i] \subseteq InBlock(chain, v[i].block, TRUE)
                              /\ B[i] \cap left = {}
                              /\ Cardinality(B[i]) = v[i].buys
      <3> TAKE i \in DOMAIN v
      <3>1. CASE i = n
        <4>1. A[n] \subseteq InBlock(chain, t.block, TRUE) /\ A[n] \cap left = {}
          BY <1>2, <2>1, <2>2
        <4> QED BY <3>1, <4>1, <1>3, <2>3, <2>4
      <3>2. CASE i # n
        <4>1. i \in DOMAIN w /\ B[i] = A[i] /\ v[i] = w[i]
          BY <3>2, <2>1, <2>2, <2>3
        <4> QED BY <4>1, <1>2
      <3> QED BY <3>1, <3>2
    <2>6. ASSUME NEW i \in DOMAIN v, NEW j \in DOMAIN v, i # j PROVE B[i] \cap B[j] = {}
      BY <2>6, <1>2, <1>3, <2>2, <2>3
    <2>7. Attributes(B, v, chain, left)
      BY <2>2, <2>3, <2>5, <2>6 DEF Attributes
    <2> QED BY <2>7 DEF Attributed, v
  <1> QED BY <1>5, <1>6

\* A chain that grows, and fewer or other trades on their way, change no attribution.
LEMMA GrowAttributes ==
  ASSUME NEW w, NEW chain, NEW longer, DOMAIN chain \subseteq DOMAIN longer,
         \A i \in DOMAIN chain : longer[i] = chain[i],
         NEW pending, NEW left, left \cap DOMAIN chain \subseteq pending,
         Attributed(w, chain, pending)
  PROVE  Attributed(w, longer, left)
  <1>1. PICK A : Attributes(A, w, chain, pending)
    BY DEF Attributed
  <1>2. A \in [DOMAIN w -> SUBSET DOMAIN longer]
    BY <1>1 DEF Attributes
  <1>3. \A i \in DOMAIN w : /\ A[i] \subseteq InBlock(longer, w[i].block, TRUE)
                            /\ A[i] \cap left = {}
                            /\ Cardinality(A[i]) = w[i].buys
    BY <1>1 DEF Attributes, InBlock
  <1>4. Attributes(A, w, longer, left)
    BY <1>1, <1>2, <1>3 DEF Attributes
  <1> QED BY <1>4 DEF Attributed

\* The sum of the sizes of disjoint finite sets is the size of their union.
LEMMA SumOfSizes ==
  ASSUME NEW S, IsFiniteSet(S), NEW f, NEW A,
         \A x \in S : IsFiniteSet(A[x]) /\ f[x] = Cardinality(A[x]),
         \A x, y \in S : x # y => A[x] \cap A[y] = {}
  PROVE  SumOf(f, S) = Cardinality(UNION {A[x] : x \in S})
  <1> DEFINE All(s) == UNION {A[x] : x \in s}
             Good(s) == IsFiniteSet(All(s)) /\ SumOf(f, s) = Cardinality(All(s))
             Sz == {Cardinality(s) : s \in {s \in SUBSET S : ~Good(s)}}
  <1>1. \A x \in S : f[x] \in Nat
    BY FS_CardinalityType
  <1>2. ASSUME Sz # {} PROVE FALSE
    <2> HIDE DEF Good
    <2>1. Sz \subseteq Nat
      BY Sizes
    <2>2. PICK m \in Sz : \A i \in Sz : m <= i
      BY <1>2, <2>1, Least
    <2>3. PICK s \in SUBSET S : ~Good(s) /\ m = Cardinality(s)
      BY <2>2
    <2>4. s # {}
      <3>1. All({}) = {}
        OBVIOUS
      <3>2. Good({})
        BY <3>1, SumEmpty, FS_EmptySet DEF Good
      <3> QED BY <2>3, <3>2
    <2>5. PICK c \in s : c = First(s)
      BY <2>4, Sizes
    <2>6. PICK r \in SUBSET S : r = s \ {c}
      OBVIOUS
    <2>7. IsFiniteSet(s) /\ Cardinality(r) = m - 1
      BY <2>3, <2>6, Sizes
    <2>8. Good(r)
      <3>1. m \in Nat /\ (Cardinality(r) \in Sz => m <= m - 1)
        BY <2>1, <2>2, <2>7
      <3> HIDE DEF Sz
      <3>2. Cardinality(r) \notin Sz
        BY <3>1
      <3> USE DEF Sz
      <3> QED BY <3>2
    <2>9. SumOf(f, s) = f[c] + SumOf(f, r)
      BY <1>1, <2>4, <2>5, <2>6, <2>7, SumFirst
    <2>10. All(s) = A[c] \cup All(r) /\ A[c] \cap All(r) = {}
      BY <2>5, <2>6
    <2>11. PICK U, V : U = A[c] /\ V = All(r)
      OBVIOUS
    <2>12. IsFiniteSet(U) /\ f[c] = Cardinality(U) /\ U \cap V = {} /\ All(s) = U \cup V
      BY <2>10, <2>11
    <2>13. IsFiniteSet(V) /\ SumOf(f, r) = Cardinality(V)
      BY <2>8, <2>11 DEF Good
    <2>14. ~(IsFiniteSet(U \cup V) /\ SumOf(f, s) = Cardinality(U \cup V))
      BY <2>3, <2>12 DEF Good
    <2>15. /\ IsFiniteSet(U \cup V)
           /\ Cardinality(U \cup V) = Cardinality(U) + Cardinality(V) - Cardinality(U \cap V)
           /\ Cardinality(U) \in Nat /\ Cardinality(V) \in Nat /\ Cardinality(U \cap V) = 0
      BY <2>12, <2>13, FS_Union, FS_CardinalityType, FS_EmptySet
    <2> QED BY <2>9, <2>12, <2>13, <2>14, <2>15
  <1>3. Good(S)
    <2> HIDE DEF Good
    <2> QED BY <1>2
  <1> QED BY <1>3

\* A stream that delivers its first log no longer holds it.
LEMMA PendingTail ==
  ASSUME NEW buy \in BOOLEAN, NEW s \in Seq(Logs), s # <<>>, StreamOf(logs, s, buy)
  PROVE  /\ Pending(s) = Pending(Tail(s)) \cup {Head(s).number}
         /\ Head(s).number \notin Pending(Tail(s))
  <1>1. /\ Head(s) = s[1] /\ 1 \in DOMAIN s
        /\ Tail(s) \in Seq(Logs) /\ Len(Tail(s)) = Len(s) - 1 /\ Head(s) \in Logs
        /\ \A j \in DOMAIN Tail(s) : j \in Nat \ {0} /\ j + 1 \in DOMAIN s
                                       /\ Tail(s)[j] = s[j + 1]
    BY TailFacts
  <1>2. Pending(Tail(s)) \cup {Head(s).number} \subseteq Pending(s)
    BY <1>1 DEF Pending
  <1>3. \A j \in DOMAIN s : j = 1 \/ (j - 1 \in DOMAIN Tail(s) /\ s[j] = Tail(s)[j - 1])
    BY <1>1
  <1>4. Pending(s) \subseteq Pending(Tail(s)) \cup {Head(s).number}
    <2> SUFFICES ASSUME NEW j \in DOMAIN s
                 PROVE  s[j].number \in Pending(Tail(s)) \cup {Head(s).number}
      BY DEF Pending
    <2> QED BY <1>1, <1>3 DEF Pending
  <1>5. Head(s).number \notin Pending(Tail(s))
    <2>1. \A j \in DOMAIN Tail(s) : Tail(s)[j].number > Head(s).number
      BY StreamTail
    <2>2. Head(s).number \in Nat
      BY <1>1 DEF Logs
    <2> QED BY <2>1, <2>2 DEF Pending
  <1> QED BY <1>2, <1>4, <1>5

\* The logs on their way when one is sent.
LEMMA PendingGrows ==
  ASSUME FeedBase, NEW buy \in BOOLEAN, NEW u \in Nat, Sending(buy, u)
  PROVE  /\ Pending(buySub') =
              IF connected /\ buy THEN Pending(buySub) \cup {Len(logs) + 1}
                                  ELSE Pending(buySub)
         /\ Pending(sellSub') =
              IF connected /\ ~buy THEN Pending(sellSub) \cup {Len(logs) + 1}
                                   ELSE Pending(sellSub)
  <1>1. /\ buySub \in Seq(Logs) /\ sellSub \in Seq(Logs)
        /\ buySub' = IF connected /\ buy THEN Append(buySub, NewLog(buy, u)) ELSE buySub
        /\ sellSub' = IF connected /\ ~buy THEN Append(sellSub, NewLog(buy, u)) ELSE sellSub
    BY SentEffect DEF FeedBase, FeedTypeOK
  <1>2. NewLog(buy, u) \in Logs /\ NewLog(buy, u).number = Len(logs) + 1
    BY SentEffect DEF NewLog
  <1>3. ASSUME NEW s \in Seq(Logs), NEW t \in Logs
        PROVE  Pending(Append(s, t)) = Pending(s) \cup {t.number}
    <2>1. /\ DOMAIN Append(s, t) = DOMAIN s \cup {Len(s) + 1}
          /\ \A j \in DOMAIN s : Append(s, t)[j] = s[j]
          /\ Append(s, t)[Len(s) + 1] = t
      OBVIOUS
    <2> QED BY <2>1 DEF Pending
  <1>4. /\ Pending(Append(buySub, NewLog(buy, u))) = Pending(buySub) \cup {Len(logs) + 1}
        /\ Pending(Append(sellSub, NewLog(buy, u))) = Pending(sellSub) \cup {Len(logs) + 1}
    BY <1>1, <1>2, <1>3
  <1> QED BY <1>1, <1>4

\* Every step keeps the attribution.
LEMMA FeedNextAttributed == FeedBase /\ BuysAttributed /\ [FeedNext]_fvars => BuysAttributed'
  <1> SUFFICES ASSUME FeedBase, BuysAttributed, [FeedNext]_fvars PROVE BuysAttributed'
    OBVIOUS
  <1>1. /\ stats \in Seq(Entries) /\ Len(stats) <= Window /\ logs \in Seq(Logs)
        /\ buySub \in Seq(Logs) /\ sellSub \in Seq(Logs)
        /\ StreamOf(logs, buySub, TRUE) /\ StreamOf(logs, sellSub, FALSE)
    BY DEF FeedBase, FeedTypeOK, FeedFacts
  <1>2. CASE IngestBuy
    <2>1. /\ buySub # <<>> /\ stats' = Ingested(stats, Head(buySub)) /\ logs' = logs
          /\ buySub' = Tail(buySub)
      BY <1>2 DEF IngestBuy, Ingest, chainVars
    <2>2. PICK t \in Logs : /\ t = Head(buySub)
                              /\ t.number \in DOMAIN logs /\ t = logs[t.number]
      BY <1>1, <2>1, StreamTail
    <2>3. PICK p, q : /\ p = Pending(buySub) /\ q = Pending(Tail(buySub))
      OBVIOUS
    <2>4. q \in SUBSET p /\ t.number \in p /\ t.number \notin q
      <3>1. /\ Pending(buySub) = Pending(Tail(buySub)) \cup {Head(buySub).number}
            /\ Head(buySub).number \notin Pending(Tail(buySub))
        BY <1>1, <2>1, PendingTail, Zenon
      <3>2. p = q \cup {t.number} /\ t.number \notin q
        BY <2>2, <2>3, <3>1, Zenon
      <3> QED BY <3>2
    <2>5. Attributed(stats, logs, p)
      BY <2>3 DEF BuysAttributed
    <2>6. Attributed(Ingested(stats, t), logs, q)
      BY <1>1, <2>2, <2>4, <2>5, IngestAttributes
    <2> QED BY <2>1, <2>2, <2>3, <2>6 DEF BuysAttributed
  <1>3. CASE IngestSell
    <2>1. /\ sellSub # <<>> /\ stats' = Ingested(stats, Head(sellSub)) /\ logs' = logs
          /\ buySub' = buySub
      BY <1>3 DEF IngestSell, Ingest, chainVars
    <2>2. PICK t \in Logs : /\ t = Head(sellSub) /\ t.buy = FALSE
                              /\ t.number \in DOMAIN logs /\ t = logs[t.number]
      BY <1>1, <2>1, StreamTail
    <2>3. PICK p : p = Pending(buySub)
      OBVIOUS
    <2>4. Attributed(stats, logs, p) /\ p \in SUBSET p
      BY <2>3 DEF BuysAttributed
    <2>5. Attributed(Ingested(stats, t), logs, p)
      BY <1>1, <2>2, <2>4, IngestAttributes
    <2> QED BY <2>1, <2>2, <2>3, <2>5 DEF BuysAttributed
  <1>4. CASE Disconnect
    <2>1. UNCHANGED <<stats, logs>> /\ Pending(buySub') = {}
      BY <1>4 DEF Disconnect, chainVars, feedVars, Pending
    <2>2. Attributed(stats, logs, {})
      BY GrowAttributes DEF BuysAttributed
    <2> QED BY <2>1, <2>2 DEF BuysAttributed
  <1>5. CASE \/ \E buy \in BOOLEAN : Trade(buy)
             \/ \E i \in DOMAIN logs : TakeOff(i)
    <2>1. PICK buy \in BOOLEAN, u \in Nat : Sending(buy, u)
      BY <1>5, Sends
    <2>2. /\ DOMAIN logs \subseteq DOMAIN logs' /\ UNCHANGED stats
          /\ \A i \in DOMAIN logs : logs'[i] = logs[i]
          /\ Len(logs) + 1 \notin DOMAIN logs
      BY <2>1, SentEffect DEF feedVars
    <2>3. Pending(buySub') \cap DOMAIN logs \subseteq Pending(buySub)
      BY <2>1, <2>2, PendingGrows
    <2>4. Attributed(stats, logs', Pending(buySub'))
      BY <2>2, <2>3, GrowAttributes DEF BuysAttributed
    <2> QED BY <2>2, <2>4 DEF BuysAttributed
  <1>6. Reconnect \/ NewBlock \/ Graduate \/ (\E n \in 1..LastBlock : Lookup(n))
           \/ UNCHANGED fvars
        => UNCHANGED <<stats, logs, buySub>>
    BY DEF Reconnect, NewBlock, Graduate, Lookup, fvars, chainVars, feedVars
  <1>7. CASE UNCHANGED <<stats, logs, buySub>>
    BY <1>7 DEF BuysAttributed
  <1> QED BY <1>2, <1>3, <1>4, <1>5, <1>6, <1>7 DEF FeedNext

\* At the start the window is empty.
LEMMA FeedInitAttributed == FeedInit => BuysAttributed
  <1> SUFFICES ASSUME FeedInit PROVE BuysAttributed
    OBVIOUS
  <1>1. stats = <<>> /\ DOMAIN stats = {}
    BY DEF FeedInit
  <1>2. Attributes([i \in DOMAIN stats |-> {}], stats, logs, Pending(buySub))
    BY <1>1 DEF Attributes
  <1> QED BY <1>2 DEF BuysAttributed, Attributed

\* The removed logs are as many as the trades they take off.
LEMMA RemovalsCounted ==
  ASSUME FeedBase, NEW R \in SUBSET Removals
  PROVE  /\ IsFiniteSet(R) /\ IsFiniteSet({logs[j].undoes : j \in R})
         /\ Cardinality({logs[j].undoes : j \in R}) = Cardinality(R)
  <1> DEFINE T == {logs[j].undoes : j \in R}
             f == [j \in R |-> logs[j].undoes]
  <1>1. IsFiniteSet(R)
    BY IndexesFinite DEF FeedBase, FeedTypeOK, Removals
  <1>2. \A i, j \in R : logs[i].undoes = logs[j].undoes => i = j
    BY DEF FeedBase, RemovalFacts
  <1>3. f \in Bijection(R, T)
    BY <1>2 DEF Bijection, Injection, IsInjective, Surjection
  <1>4. ExistsBijection(R, T)
    BY <1>3 DEF ExistsBijection
  <1> HIDE DEF T
  <1>5. IsFiniteSet(T) /\ Cardinality(T) = Cardinality(R)
    BY <1>1, <1>4, FS_Bijection
  <1> QED BY <1>1, <1>5 DEF T

\* The logs of some blocks are their trades and, as many again, those taken off.
LEMMA LogsCounted ==
  ASSUME FeedBase, NEW blocks, NEW kind \in BOOLEAN
  PROVE  Cardinality(UNION {InBlock(logs, b, kind) : b \in blocks})
           = Cardinality(UNION {Of(b, kind) : b \in blocks})
             + Cardinality(UNION {TakenOff(b, kind) : b \in blocks})
  <1> DEFINE M == UNION {Of(b, kind) : b \in blocks}
             R == {j \in Removals : logs[j].block \in blocks /\ logs[j].buy = kind}
             T == UNION {TakenOff(b, kind) : b \in blocks}
             A == UNION {InBlock(logs, b, kind) : b \in blocks}
  <1>1. A = M \cup R /\ M \cap R = {}
    BY DEF InBlock, Of, Removals
  <1>2. T = {logs[j].undoes : j \in R}
    <2>1. \A j \in R : Undoes(j)
      BY DEF FeedBase, RemovalFacts
    <2>2. \A j \in R : logs[j].undoes \in TakenOff(logs[j].block, kind)
      BY <2>1 DEF TakenOff, Of, Undoes, Removals
    <2>3. ASSUME NEW b \in blocks, NEW i \in TakenOff(b, kind)
          PROVE  \E j \in R : logs[j].undoes = i
      <3>1. i \in DOMAIN logs /\ logs[i].block = b /\ logs[i].buy = kind
        BY DEF TakenOff, Of
      <3>5. logs \in Seq(Logs)
        BY DEF FeedBase, FeedTypeOK
      <3>6. i # 0
        BY <3>1, <3>5
      <3>2. PICK j \in DOMAIN logs : logs[j].undoes = i
        BY DEF TakenOff
      <3>3. j \in Removals
        BY <3>2, <3>6 DEF Removals
      <3>4. Undoes(j)
        BY <3>3 DEF FeedBase, RemovalFacts
      <3> QED BY <3>1, <3>2, <3>3, <3>4 DEF Undoes
    <2> QED BY <2>2, <2>3
  <1>3. IsFiniteSet(M)
    <2>1. M \in SUBSET DOMAIN logs
      BY DEF Of
    <2> QED BY <2>1, IndexesFinite DEF FeedBase, FeedTypeOK
  <1> HIDE DEF M, A, T
  <1>4. IsFiniteSet(R) /\ Cardinality(T) = Cardinality(R)
    BY <1>2, RemovalsCounted
  <1> HIDE DEF R
  <1>5. /\ Cardinality(M \cup R) = Cardinality(M) + Cardinality(R) - Cardinality(M \cap R)
        /\ Cardinality(M) \in Nat /\ Cardinality(R) \in Nat
    BY <1>3, <1>4, FS_Union, FS_CardinalityType
  <1>6. Cardinality(M \cap R) = 0
    BY <1>1, FS_EmptySet
  <1>7. Cardinality(A) = Cardinality(M) + Cardinality(T)
    BY <1>1, <1>4, <1>5, <1>6
  <1> QED BY <1>7 DEF A, M, T

\* With an attribution, what buy_count_last sums up is the size of a set of logs of buys.
LEMMA AttributedCounts == FeedBase /\ BuysAttributed => OnlyRemovedCountTwice
  <1> SUFFICES ASSUME FeedBase, BuysAttributed, NEW n \in 1..Window
               PROVE  LET blocks == {stats[i].block : i \in LastEntries(stats, n)}
                      IN  BuyCountLast(stats, n) <=
                            Cardinality(UNION {Of(b, TRUE) : b \in blocks})
                            + Cardinality(UNION {TakenOff(b, TRUE) : b \in blocks})
    BY DEF OnlyRemovedCountTwice
  <1> DEFINE S == LastEntries(stats, n)
             f == [i \in DOMAIN stats |-> stats[i].buys]
             blocks == {stats[i].block : i \in S}
  <1>1. stats \in Seq(Entries) /\ logs \in Seq(Logs)
    BY DEF FeedBase, FeedTypeOK
  <1>2. PICK A : Attributes(A, stats, logs, Pending(buySub))
    BY DEF BuysAttributed, Attributed
  <1>3. S \in SUBSET DOMAIN stats
    BY DEF LastEntries
  <1>4. IsFiniteSet(S)
    BY <1>1, <1>3, IndexesFinite
  <1> HIDE DEF S
  <1>5. \A i \in S : /\ A[i] \in SUBSET DOMAIN logs /\ f[i] = Cardinality(A[i])
                     /\ A[i] \subseteq InBlock(logs, stats[i].block, TRUE)
    BY <1>2, <1>3 DEF Attributes
  <1>6. \A i \in S : IsFiniteSet(A[i])
    BY <1>1, <1>5, IndexesFinite
  <1>7. \A i, j \in S : i # j => A[i] \cap A[j] = {}
    BY <1>2, <1>3 DEF Attributes
  <1> HIDE DEF f
  <1>8. SumOf(f, S) = Cardinality(UNION {A[i] : i \in S})
    <2>1. \A i \in S : IsFiniteSet(A[i]) /\ f[i] = Cardinality(A[i])
      BY <1>5, <1>6
    <2> QED BY <1>4, <1>7, <2>1, SumOfSizes
  <1>9. UNION {A[i] : i \in S} \subseteq UNION {InBlock(logs, b, TRUE) : b \in blocks}
    <2> SUFFICES ASSUME NEW i \in S, NEW k \in A[i]
                 PROVE  \E b \in blocks : k \in InBlock(logs, b, TRUE)
      OBVIOUS
    <2>1. stats[i].block \in blocks /\ k \in InBlock(logs, stats[i].block, TRUE)
      BY <1>5
    <2> QED BY <2>1
  <1>10. IsFiniteSet(UNION {InBlock(logs, b, TRUE) : b \in blocks})
    <2>1. UNION {InBlock(logs, b, TRUE) : b \in blocks} \in SUBSET DOMAIN logs
      BY DEF InBlock
    <2> QED BY <2>1, <1>1, IndexesFinite
  <1>11. Cardinality(UNION {A[i] : i \in S})
           <= Cardinality(UNION {InBlock(logs, b, TRUE) : b \in blocks})
    BY <1>9, <1>10, FS_Subset
  <1>12. BuyCountLast(stats, n) = SumOf(f, S)
    BY DEF BuyCountLast, f, S
  <1> HIDE DEF blocks
  <1>13. Cardinality(UNION {InBlock(logs, b, TRUE) : b \in blocks})
           = Cardinality(UNION {Of(b, TRUE) : b \in blocks})
             + Cardinality(UNION {TakenOff(b, TRUE) : b \in blocks})
    BY LogsCounted
  <1>14. BuyCountLast(stats, n) <= Cardinality(UNION {Of(b, TRUE) : b \in blocks})
                                  + Cardinality(UNION {TakenOff(b, TRUE) : b \in blocks})
    BY <1>8, <1>11, <1>12, <1>13
  <1> QED BY <1>14 DEF S, blocks

\* four_meme_price.rs, buy_count_last: however the two streams interleave, and whatever a
\* lost connection loses, the buys counted over any entries of the window are no more than
\* those of their blocks, and once more those a reorganisation took off, whose removed logs
\* decode_trade_buy takes for buys.
THEOREM RemovedBuysCountTwice == FeedSpec => []OnlyRemovedCountTwice
  <1>1. FeedInit => FeedBase /\ BuysAttributed
    BY FeedInitBase, FeedInitAttributed
  <1>2. FeedBase /\ BuysAttributed /\ [FeedNext]_fvars => (FeedBase /\ BuysAttributed)'
    BY FeedNextBase, FeedNextAttributed
  <1>3. FeedBase /\ BuysAttributed => OnlyRemovedCountTwice
    BY AttributedCounts
  <1> QED BY <1>1, <1>2, <1>3, PTL DEF FeedSpec

---------------------------------------------------------------------------
(* The window is the logged flow of the last traded blocks.  While no      *)
(* connection was lost, what was ingested is what was logged and is not in *)
(* the streams; while nothing was ingested out of order, the window        *)
(* matches it.                                                             *)

IngestedLogs == DOMAIN logs \ (Pending(buySub) \cup Pending(sellSub))

\* How many trades of one kind were ingested of a block.
Count(chain, block, buy, done) == Cardinality(InBlock(chain, block, buy) \cap done)

\* An entry of block b that has counted exactly the ingested trades of b.
Counts(e, chain, b, done) ==
    /\ e.block = b
    /\ e.buys = Count(chain, b, TRUE, done)
    /\ e.sells = Count(chain, b, FALSE, done)

Matches(w, chain, done) ==
    /\ \A i, j \in DOMAIN w : i < j => w[i].block < w[j].block
    /\ \A i \in DOMAIN w :
         /\ \E k \in done : chain[k].block = w[i].block
         /\ Counts(w[i], chain, w[i].block, done)
    /\ \A k \in done : \/ \E i \in DOMAIN w : w[i].block = chain[k].block
                       \/ Len(w) = Window /\ chain[k].block < w[1].block

WindowMatches ==
    /\ disconnects = 0 /\ ~misordered => Matches(stats, logs, IngestedLogs)
    /\ cache = <<>> => stats = <<>>
    /\ cache # <<>> => stats # <<>> /\ cache[1].block = stats[Len(stats)].block

\* The blocks of entries and trades are naturals.
LEMMA BlockTypes ==
  /\ \A w \in Seq(Entries) : \A i \in DOMAIN w : w[i] \in Entries /\ w[i].block \in Nat
  /\ \A s \in Seq(Logs) : \A i \in DOMAIN s : s[i] \in Logs /\ s[i].block \in Nat
                                              /\ s[i].number \in Nat /\ s[i].buy \in BOOLEAN
  <1>1. \A w \in Seq(Entries) : \A i \in DOMAIN w : w[i] \in Entries
    OBVIOUS
  <1>2. \A s \in Seq(Logs) : \A i \in DOMAIN s : s[i] \in Logs
    OBVIOUS
  <1>3. \A e \in Entries : e.block \in Nat
    BY DEF Entries
  <1>4. \A t \in Logs : t.block \in Nat /\ t.number \in Nat /\ t.buy \in BOOLEAN
    BY DEF Logs
  <1> QED BY <1>1, <1>2, <1>3, <1>4

\* Nothing that was ingested is of a later block than the last entry.
LEMMA NewestLast ==
  ASSUME NEW w \in Seq(Entries), NEW chain \in Seq(Logs), NEW done, done \in SUBSET DOMAIN chain,
         Matches(w, chain, done), NEW k \in done
  PROVE  w # <<>> /\ chain[k].block <= w[Len(w)].block
  <1>1. Window \in Nat \ {0} /\ Len(w) \in Nat /\ DOMAIN w = 1..Len(w)
    BY FeedAssumption
  <1>2. \A i \in DOMAIN w : w[i] \in Entries /\ w[i].block \in Nat
    BY BlockTypes
  <1>3. chain[k] \in Logs /\ chain[k].block \in Nat
    BY BlockTypes
  <1>4. w # <<>>
    <2>1. w = <<>> => DOMAIN w = {} /\ Len(w) = 0
      OBVIOUS
    <2>2. \A n \in done : \/ \E i \in DOMAIN w : w[i].block = chain[n].block
                          \/ Len(w) = Window /\ chain[n].block < w[1].block
      BY Zenon DEF Matches
    <2>3. CASE \E i \in DOMAIN w : w[i].block = chain[k].block
      BY <2>1, <2>3
    <2>4. CASE Len(w) = Window
      BY <1>1, <2>1, <2>4
    <2> QED BY <2>2, <2>3, <2>4
  <1>5. Len(w) \in DOMAIN w /\ 1 \in DOMAIN w
    BY <1>1, <1>4
  <1>6. \A i \in DOMAIN w : i = Len(w) \/ i < Len(w)
    BY <1>1
  <1>7. \A i \in DOMAIN w : w[i].block <= w[Len(w)].block
    BY <1>2, <1>5, <1>6 DEF Matches
  <1>8. CASE \E i \in DOMAIN w : w[i].block = chain[k].block
    BY <1>4, <1>7, <1>8
  <1>9. CASE chain[k].block < w[1].block
    BY <1>2, <1>3, <1>4, <1>5, <1>7, <1>9
  <1> QED BY <1>8, <1>9 DEF Matches

\* t is a trade of the chain that is ingested now: all is what was ingested with it.
Incoming(t, chain, done, all) ==
    /\ t \in Logs /\ t.number \in DOMAIN chain /\ t = chain[t.number]
    /\ t.number \notin done /\ all = done \cup {t.number}
    /\ done \in SUBSET DOMAIN chain

\* One more trade changes the count of its own block and kind by one, and no other.
LEMMA OneMore ==
  ASSUME NEW chain \in Seq(Logs), NEW done, NEW t, NEW all,
         Incoming(t, chain, done, all),
         NEW b \in Nat, NEW kind \in BOOLEAN
  PROVE  Count(chain, b, kind, all) =
           IF b = t.block /\ kind = t.buy
           THEN Count(chain, b, kind, done) + 1
           ELSE Count(chain, b, kind, done)
  <1> USE DEF Count
  <1> DEFINE S == InBlock(chain, b, kind) \cap done
  <1>1. S \in SUBSET DOMAIN chain /\ IsFiniteSet(S) /\ t.number \notin S
    BY IndexesFinite DEF InBlock, Incoming
  <1>2. CASE b = t.block /\ kind = t.buy
    <2>1. InBlock(chain, b, kind) \cap all = S \cup {t.number}
      BY <1>2 DEF InBlock, Incoming
    <2> HIDE DEF S
    <2>2. Cardinality(S \cup {t.number}) = Cardinality(S) + 1
      BY <1>1, FS_AddElement
    <2> QED BY <1>2, <2>1, <2>2 DEF S
  <1>3. CASE ~(b = t.block /\ kind = t.buy)
    <2>1. InBlock(chain, b, kind) \cap all = S
      BY <1>3 DEF InBlock, Incoming
    <2> QED BY <1>3, <2>1
  <1> QED BY <1>2, <1>3

\* An entry that gets the trade t counted has counted done and t.
LEMMA CountsOneMore ==
  ASSUME NEW chain \in Seq(Logs), NEW done, NEW t, NEW all,
         Incoming(t, chain, done, all), NEW e \in Entries, Counts(e, chain, t.block, done)
  PROVE  Counts(Counted(e, t), chain, t.block, all)
  <1>1. /\ Counted(e, t).block = e.block
        /\ Counted(e, t).buys = IF t.buy THEN e.buys + 1 ELSE e.buys
        /\ Counted(e, t).sells = IF t.buy THEN e.sells ELSE e.sells + 1
    BY CountedType DEF Incoming
  <1>2. t.block \in Nat /\ t.buy \in BOOLEAN
    BY DEF Logs, Incoming
  <1>3. /\ e.block = t.block /\ e.buys = Count(chain, t.block, TRUE, done)
        /\ e.sells = Count(chain, t.block, FALSE, done)
    BY DEF Counts
  <1>4. PICK b \in Nat : b = t.block
    BY <1>2
  <1>a. ASSUME NEW kind \in BOOLEAN
        PROVE  Count(chain, b, kind, all) = IF kind = t.buy THEN Count(chain, b, kind, done) + 1
                                                            ELSE Count(chain, b, kind, done)
    BY <1>4, OneMore
  <1>5. /\ Count(chain, b, TRUE, all) = IF TRUE = t.buy THEN Count(chain, b, TRUE, done) + 1
                                                        ELSE Count(chain, b, TRUE, done)
        /\ Count(chain, b, FALSE, all) = IF FALSE = t.buy THEN Count(chain, b, FALSE, done) + 1
                                                          ELSE Count(chain, b, FALSE, done)
    BY <1>a
  <1>6. CASE t.buy = TRUE
    BY <1>1, <1>3, <1>4, <1>5, <1>6 DEF Counts
  <1>7. CASE t.buy = FALSE
    BY <1>1, <1>3, <1>4, <1>5, <1>7 DEF Counts
  <1> QED BY <1>2, <1>6, <1>7

\* An entry of another block still counts what was ingested.
LEMMA CountsAsBefore ==
  ASSUME NEW chain \in Seq(Logs), NEW done, NEW t, NEW all,
         Incoming(t, chain, done, all), NEW b \in Nat, b # t.block,
         NEW e, Counts(e, chain, b, done)
  PROVE  Counts(e, chain, b, all)
  <1>1. ASSUME NEW kind \in BOOLEAN PROVE Count(chain, b, kind, all) = Count(chain, b, kind, done)
    BY OneMore
  <1>2. /\ Count(chain, b, TRUE, all) = Count(chain, b, TRUE, done)
        /\ Count(chain, b, FALSE, all) = Count(chain, b, FALSE, done)
    BY <1>1
  <1> QED BY <1>2 DEF Counts

\* The first entry, if there is one, is of the earliest block.
LEMMA FirstEarliest ==
  ASSUME NEW w \in Seq(Entries), NEW chain, NEW done, Matches(w, chain, done),
         NEW i \in DOMAIN w
  PROVE  /\ 1 \in DOMAIN w /\ w[1].block <= w[i].block /\ w[1].block \in Nat
         /\ w[i].block \in Nat
         /\ i # 1 => w[1].block < w[i].block
  <1>1. 1 \in DOMAIN w /\ (i = 1 \/ 1 < i)
    OBVIOUS
  <1>2. w[1].block \in Nat /\ w[i].block \in Nat
    BY <1>1, BlockTypes
  <1>3. i # 1 => w[1].block < w[i].block
    BY <1>1 DEF Matches
  <1> QED BY <1>1, <1>2, <1>3

\* A trade of the last entry's block keeps the window matching.
LEMMA SameMatches ==
  ASSUME NEW w \in Seq(Entries), NEW chain \in Seq(Logs), NEW t,
         NEW done, NEW all, Incoming(t, chain, done, all),
         Matches(w, chain, done), ~NeedNew(w, t.block)
  PROVE  Matches(Ingested(w, t), chain, all)
  <1> DEFINE v == Ingested(w, t)
             n == Len(w)
  <1>1. /\ v \in Seq(Entries) /\ w # <<>> /\ w[n].block = t.block /\ Len(v) = n
        /\ \A i \in DOMAIN w : i # n => v[i] = w[i]
        /\ v[n] = Counted(w[n], t)
    BY IngestedSame DEF Incoming
  <1>a. all = done \cup {t.number}
    BY DEF Incoming
  <1>2. /\ n \in DOMAIN w /\ w[n] \in Entries /\ DOMAIN v = DOMAIN w /\ DOMAIN w = 1..n
        /\ n \in Nat
    BY <1>1
  <1> HIDE DEF v, n
  <1>3. \A i \in DOMAIN w : w[i].block \in Nat
    BY BlockTypes
  <1>4. \A i \in DOMAIN w : i # n => w[i].block # t.block
    <2> SUFFICES ASSUME NEW i \in DOMAIN w, i # n PROVE w[i].block < w[n].block
      BY <1>1, <1>2, <1>3
    <2> QED BY <1>2 DEF Matches
  <1>5. v[n].block = t.block /\ Counts(v[n], chain, t.block, all)
    <2>1. PICK e \in Entries : e = w[n] /\ Counts(e, chain, t.block, done)
      BY <1>1, <1>2 DEF Matches
    <2>2. Counts(Counted(e, t), chain, t.block, all)
      BY <2>1, CountsOneMore
    <2>3. Counts(v[n], chain, t.block, all)
      BY <1>1, <2>1, <2>2
    <2> QED BY <2>3 DEF Counts
  <1>6. \A i \in DOMAIN w : v[i].block = w[i].block
    BY <1>1, <1>5
  <1>7. \A i, j \in DOMAIN v : i < j => v[i].block < v[j].block
    BY <1>2, <1>6 DEF Matches
  <1>8. ASSUME NEW i \in DOMAIN v
        PROVE  /\ \E k \in all : chain[k].block = v[i].block
               /\ Counts(v[i], chain, v[i].block, all)
    <2>1. CASE i = n
      <3>1. t.number \in all /\ chain[t.number].block = v[i].block
        BY <2>1, <1>5 DEF Incoming
      <3> QED BY <2>1, <3>1, <1>5
    <2>2. CASE i # n
      <3>1. v[i] = w[i] /\ w[i].block # t.block /\ i \in DOMAIN w
        BY <2>2, <1>1, <1>2, <1>4
      <3>2. PICK b \in Nat : b = w[i].block /\ Counts(w[i], chain, b, done) /\ b # t.block
        BY <3>1, <1>3 DEF Matches
      <3>3. Counts(w[i], chain, b, all)
        BY <3>2, CountsAsBefore
      <3>4. PICK k \in done : chain[k].block = w[i].block
        BY <3>1 DEF Matches
      <3>5. k \in all
        BY <1>a, <3>4
      <3> QED BY <3>1, <3>2, <3>3, <3>4, <3>5
    <2> QED BY <2>1, <2>2
  <1>9. ASSUME NEW k \in all
        PROVE  \/ \E i \in DOMAIN v : v[i].block = chain[k].block
               \/ Len(v) = Window /\ chain[k].block < v[1].block
    <2>1. CASE k = t.number
      BY <2>1, <1>2, <1>5 DEF Incoming
    <2>2. CASE k \in done
      <3>1. \/ \E i \in DOMAIN w : w[i].block = chain[k].block
            \/ Len(w) = Window /\ chain[k].block < w[1].block
        BY <2>2 DEF Matches
      <3>2. 1 \in DOMAIN w /\ Len(v) = Len(w)
        BY <1>1, <1>2 DEF n
      <3> QED BY <3>1, <3>2, <1>2, <1>6
    <2> QED BY <1>a, <2>1, <2>2
  <1> QED BY <1>7, <1>8, <1>9 DEF Matches, v

\* A trade of a later block than all before gets the first count of a new entry.
LEMMA FirstOfBlock ==
  ASSUME NEW chain \in Seq(Logs), NEW done, NEW t, NEW all,
         Incoming(t, chain, done, all), \A k \in done : chain[k].block # t.block
  PROVE  Counts(Counted(NewEntry(t), t), chain, t.block, all)
  <1>1. /\ NewEntry(t) \in Entries /\ NewEntry(t).block = t.block
        /\ NewEntry(t).buys = 0 /\ NewEntry(t).sells = 0
    BY DEF NewEntry, Entries, Logs, Incoming
  <1>2. ASSUME NEW kind \in BOOLEAN PROVE Count(chain, t.block, kind, done) = 0
    <2>1. InBlock(chain, t.block, kind) \cap done = {}
      BY DEF InBlock, Incoming
    <2> QED BY <2>1, FS_EmptySet DEF Count
  <1>3. Counts(NewEntry(t), chain, t.block, done)
    <2>1. Count(chain, t.block, TRUE, done) = 0 /\ Count(chain, t.block, FALSE, done) = 0
      BY <1>2
    <2> QED BY <1>1, <2>1 DEF Counts
  <1>4. PICK e \in Entries : e = NewEntry(t)
    BY <1>1
  <1>5. Counts(Counted(e, t), chain, t.block, all)
    BY <1>3, <1>4, CountsOneMore
  <1> QED BY <1>4, <1>5

\* A trade of a later block keeps the window matching, the oldest entry gone or not.
LEMMA NewMatches ==
  ASSUME NEW w \in Seq(Entries), Len(w) <= Window, NEW chain \in Seq(Logs), NEW t,
         NEW done, NEW all, Incoming(t, chain, done, all),
         Matches(w, chain, done), NeedNew(w, t.block),
         w # <<>> => w[Len(w)].block <= t.block
  PROVE  Matches(Ingested(w, t), chain, all)
  <1>a. /\ all = done \cup {t.number} /\ t \in Logs /\ done \in SUBSET DOMAIN chain
        /\ t.number \in DOMAIN chain /\ chain[t.number] = t
    BY DEF Incoming
  <1>1. /\ Len(w) \in Nat /\ DOMAIN w = 1..Len(w) /\ Window \in Nat \ {0}
        /\ t.block \in Nat
    BY <1>a, FeedAssumption DEF Logs
  <1>2. \A i \in DOMAIN w : w[i].block \in Nat
    BY BlockTypes
  <1>3. \A i \in DOMAIN w : w[i].block < t.block
    <2> SUFFICES ASSUME NEW i \in DOMAIN w PROVE w[i].block < t.block
      OBVIOUS
    <2>1. w # <<>> /\ Len(w) \in DOMAIN w
      BY <1>1
    <2>2. w[Len(w)].block < t.block
      BY <1>1, <1>2, <2>1 DEF NeedNew, Last
    <2>3. CASE i = Len(w)
      BY <2>2, <2>3
    <2>4. CASE i # Len(w)
      <3>1. w[i].block < w[Len(w)].block
        <4>1. i < Len(w)
          BY <1>1, <2>4
        <4> QED BY <2>1, <4>1 DEF Matches
      <3> QED BY <1>1, <1>2, <2>1, <2>2, <3>1
    <2> QED BY <2>3, <2>4
  <1>4. \A k \in done : chain[k].block \in Nat /\ chain[k].block < t.block
    <2> TAKE k \in done
    <2>1. w # <<>> /\ chain[k].block <= w[Len(w)].block
      BY <1>a, NewestLast
    <2>2. Len(w) \in DOMAIN w /\ chain[k].block \in Nat
      BY <1>a, <1>1, <2>1, BlockTypes
    <2> QED BY <1>1, <1>2, <1>3, <2>1, <2>2
  <1>5. Counts(Counted(NewEntry(t), t), chain, t.block, all)
    <2>1. \A k \in done : chain[k].block # t.block
      BY <1>1, <1>4
    <2> QED BY <2>1, FirstOfBlock
  <1>6. PICK d \in {0, 1} :
          /\ d = 1 <=> Len(w) = Window
          /\ Ingested(w, t) \in Seq(Entries)
          /\ Len(Ingested(w, t)) = Len(w) + 1 - d
          /\ \A i \in 1..(Len(w) - d) : Ingested(w, t)[i] = w[i + d]
          /\ Ingested(w, t)[Len(w) + 1 - d] = Counted(NewEntry(t), t)
    BY <1>a, IngestedNew
  <1> DEFINE v == Ingested(w, t)
             n == Len(w) - d
  <1>7. n \in Nat /\ d \in Nat /\ n + d = Len(w)
    <2>1. CASE d = 0
      BY <1>1, <2>1
    <2>2. CASE d = 1
      <3>1. Len(w) = Window
        BY <1>6, <2>2
      <3>2. Len(w) >= 1
        BY <1>1, <3>1
      <3> QED BY <1>1, <3>2, <2>2
    <2> QED BY <1>6, <2>1, <2>2
  <1>8. /\ DOMAIN v = 1..(n + 1) /\ Len(v) = n + 1 /\ v[n + 1] = Counted(NewEntry(t), t)
        /\ \A i \in 1..n : v[i] = w[i + d] /\ i + d \in DOMAIN w
    <2>2. Len(w) + 1 - d = n + 1
      <3>1. Len(w) \in Nat /\ d \in Nat
        BY <1>1, <1>7
      <3>2. \A l, e \in Nat : l + 1 - e = (l - e) + 1
        OBVIOUS
      <3> QED BY <3>1, <3>2
    <2>1. Len(v) = n + 1 /\ v \in Seq(Entries)
      BY <1>6, <2>2
    <2>3. v[n + 1] = Counted(NewEntry(t), t)
      BY <1>6, <2>2
    <2>4. \A i \in 1..n : v[i] = w[i + d]
      BY <1>6
    <2>5. \A i \in 1..n : i + d \in DOMAIN w
      <3> HIDE DEF n
      <3> QED BY <1>1, <1>7
    <2>6. DOMAIN v = 1..(n + 1)
      BY <2>1
    <2> QED BY <2>1, <2>3, <2>4, <2>5, <2>6
  <1>9. d = 1 => Len(v) = Window
    <2>1. PICK l \in Nat : l = Len(w)
      BY <1>1, Zenon
    <2>2. d = 1 => l = Window
      BY <1>6, <2>1
    <2>3. Len(v) = (l - d) + 1
      BY <1>8, <2>1
    <2>4. d = 1 => (l - d) + 1 = l
      OBVIOUS
    <2> HIDE DEF v, n
    <2> QED BY <2>2, <2>3, <2>4
  <1> HIDE DEF v, n
  <1>10. Counts(v[n + 1], chain, t.block, all) /\ v[n + 1].block = t.block
    BY <1>5, <1>8 DEF Counts
  <1>11. \A i \in DOMAIN v : i = n + 1 \/ i \in 1..n
    BY <1>7, <1>8
  <1>12. ASSUME NEW i \in DOMAIN v, NEW j \in DOMAIN v, i < j
         PROVE  v[i].block < v[j].block
    <2>1. i \in 1..n /\ v[i] = w[i + d] /\ i + d \in DOMAIN w
      <3>1. i \in 1..n
        <4>1. i \in 1..(n + 1) /\ j \in 1..(n + 1)
          BY <1>8
        <4> QED BY <4>1, <1>7, <1>12
      <3> QED BY <3>1, <1>8
    <2>2. CASE j = n + 1
      BY <2>1, <2>2, <1>3, <1>10
    <2>3. CASE j \in 1..n
      <3>1. v[j] = w[j + d] /\ j + d \in DOMAIN w /\ i + d < j + d
        <4>1. v[j] = w[j + d] /\ j + d \in DOMAIN w
          BY <2>3, <1>8
        <4>2. i + d < j + d
          BY <2>1, <2>3, <1>7, <1>12
        <4> QED BY <4>1, <4>2
      <3> QED BY <2>1, <3>1 DEF Matches
    <2> QED BY <2>2, <2>3, <1>11
  <1>13. ASSUME NEW i \in DOMAIN v
         PROVE  /\ \E k \in all : chain[k].block = v[i].block
                /\ Counts(v[i], chain, v[i].block, all)
    <2>1. CASE i = n + 1
      <3>1. t.number \in all /\ chain[t.number].block = v[i].block
        BY <2>1, <1>a, <1>10
      <3> QED BY <2>1, <3>1, <1>10
    <2>2. CASE i \in 1..n
      <3>1. v[i] = w[i + d] /\ i + d \in DOMAIN w
        BY <2>2, <1>8
      <3>2. PICK b \in Nat : b = w[i + d].block /\ Counts(w[i + d], chain, b, done) /\ b # t.block
        <4>1. /\ w[i + d].block \in Nat /\ w[i + d].block < t.block
              /\ Counts(w[i + d], chain, w[i + d].block, done)
          BY <3>1, <1>2, <1>3 DEF Matches
        <4>2. w[i + d].block # t.block
          BY <4>1, <1>1
        <4> QED BY <4>1, <4>2
      <3>3. Counts(w[i + d], chain, b, all)
        BY <3>2, CountsAsBefore
      <3>4. PICK k \in done : chain[k].block = w[i + d].block
        BY <3>1 DEF Matches
      <3>5. k \in all
        BY <1>a, <3>4
      <3> QED BY <3>1, <3>2, <3>3, <3>4, <3>5
    <2> QED BY <2>1, <2>2, <1>11
  <1>14. ASSUME d = 1 PROVE w[1].block < v[1].block /\ 1 \in DOMAIN w
    <2>1. 1 \in DOMAIN w
      BY <1>1, <1>7, <1>14
    <2>2. CASE n = 0
      BY <2>1, <2>2, <1>3, <1>10
    <2>3. CASE n # 0
      <3>1. 1 \in 1..n
        BY <1>7, <2>3
      <3>2. v[1] = w[1 + d] /\ 1 + d \in DOMAIN w /\ 1 < 1 + d
        BY <1>8, <1>14, <3>1
      <3> QED BY <2>1, <3>2 DEF Matches
    <2> QED BY <2>1, <2>2, <2>3
  <1>15. ASSUME NEW k \in all
         PROVE  \/ \E i \in DOMAIN v : v[i].block = chain[k].block
                \/ Len(v) = Window /\ chain[k].block < v[1].block
    <2>1. CASE k = t.number
      <3>1. n + 1 \in DOMAIN v
        BY <1>7, <1>8
      <3> QED BY <2>1, <3>1, <1>a, <1>10
    <2>2. CASE k \in done
      <3>1. CASE \E i \in DOMAIN w : w[i].block = chain[k].block
        <4>1. PICK i \in DOMAIN w : w[i].block = chain[k].block
          BY <3>1
        <4>2. CASE i > d
          <5>1. i - d \in 1..n /\ (i - d) + d = i
            BY <4>1, <4>2, <1>1, <1>7
          <5>2. i - d \in DOMAIN v /\ v[i - d] = w[i]
            BY <5>1, <1>7, <1>8
          <5> QED BY <4>1, <5>2
        <4>3. CASE ~(i > d)
          <5>1. d = 1 /\ i = 1
            <6>1. i \in Nat /\ i >= 1
              BY <4>1, <1>1
            <6> QED BY <6>1, <4>3, <1>6
          <5> QED BY <4>1, <5>1, <1>9, <1>14
        <4> QED BY <4>2, <4>3
      <3>2. CASE Len(w) = Window /\ chain[k].block < w[1].block
        <4>1. d = 1
          BY <3>2, <1>6
        <4>2. w[1].block < v[1].block /\ 1 \in DOMAIN w /\ w[1].block \in Nat
          BY <4>1, <1>2, <1>14
        <4>3. v[1].block \in Nat
          <5>1. v \in Seq(Entries) /\ 1 \in DOMAIN v
            BY <1>6, <1>7, <1>8 DEF v
          <5> QED BY <5>1, BlockTypes
        <4>4. chain[k].block \in Nat
          BY <2>2, <1>4
        <4> QED BY <3>2, <4>1, <4>2, <4>3, <4>4, <1>9
      <3> QED BY <2>2, <3>1, <3>2 DEF Matches
    <2> QED BY <2>1, <2>2, <1>a
  <1> QED BY <1>12, <1>13, <1>15 DEF Matches, v

\* What one ingested trade does to the window, when it is not of an earlier block.
LEMMA IngestMatches ==
  ASSUME NEW w \in Seq(Entries), Len(w) <= Window, NEW chain \in Seq(Logs), NEW t,
         NEW done, NEW all, Incoming(t, chain, done, all),
         Matches(w, chain, done), w # <<>> => w[Len(w)].block <= t.block
  PROVE  Matches(Ingested(w, t), chain, all)
  BY SameMatches, NewMatches

\* The window's last entry is of the block of the trade in the cache.
LEMMA IngestLast ==
  ASSUME NEW w \in Seq(Entries), Len(w) <= Window, NEW t \in Logs
  PROVE  /\ Ingested(w, t) # <<>>
         /\ Ingested(w, t)[Len(Ingested(w, t))].block = t.block
  <1>1. CASE NeedNew(w, t.block)
    <2>1. PICK d \in {0, 1} :
            /\ d = 1 <=> Len(w) = Window
            /\ Ingested(w, t) \in Seq(Entries)
            /\ Len(Ingested(w, t)) = Len(w) + 1 - d
            /\ Ingested(w, t)[Len(w) + 1 - d] = Counted(NewEntry(t), t)
      BY <1>1, IngestedNew
    <2>2. NewEntry(t) \in Entries /\ NewEntry(t).block = t.block
      BY DEF NewEntry, Entries, Logs
    <2>3. Counted(NewEntry(t), t).block = t.block
      BY <2>2, CountedType
    <2>4. Len(Ingested(w, t)) # 0
      <3>1. Len(w) \in Nat /\ Window \in Nat \ {0}
        BY FeedAssumption
      <3> QED BY <2>1, <3>1
    <2> QED BY <2>1, <2>3, <2>4
  <1>2. CASE ~NeedNew(w, t.block)
    <2>1. /\ w # <<>> /\ w[Len(w)].block = t.block /\ Len(Ingested(w, t)) = Len(w)
          /\ Ingested(w, t) \in Seq(Entries)
          /\ Ingested(w, t)[Len(w)] = Counted(w[Len(w)], t)
      BY <1>2, IngestedSame
    <2>2. PICK e \in Entries : e = w[Len(w)]
      BY <2>1
    <2>3. Counted(e, t).block = e.block
      BY <2>2, CountedType
    <2> QED BY <2>1, <2>2, <2>3
  <1> QED BY <1>1, <1>2

\* A trade that leaves a stream joins the ingested ones.
LEMMA IngestIncoming ==
  ASSUME FeedBase, NEW t,
         \/ IngestBuy /\ t = Head(buySub)
         \/ IngestSell /\ t = Head(sellSub)
  PROVE  Incoming(t, logs, IngestedLogs, IngestedLogs') /\ Ingest(t) /\ logs' = logs
  <1>1. /\ logs \in Seq(Logs) /\ buySub \in Seq(Logs) /\ sellSub \in Seq(Logs)
        /\ StreamOf(logs, buySub, TRUE) /\ StreamOf(logs, sellSub, FALSE)
    BY DEF FeedBase, FeedTypeOK, FeedFacts
  <1>2. Pending(buySub) \cap Pending(sellSub) = {}
    <2> SUFFICES ASSUME NEW p \in Pending(buySub), p \in Pending(sellSub) PROVE FALSE
      OBVIOUS
    <2>1. PICK i \in DOMAIN buySub : p = buySub[i].number
      BY DEF Pending
    <2>2. PICK j \in DOMAIN sellSub : p = sellSub[j].number
      BY DEF Pending
    <2>3. logs[p] = buySub[i] /\ buySub[i].buy = TRUE
      BY <1>1, <2>1 DEF StreamOf
    <2>4. logs[p] = sellSub[j] /\ sellSub[j].buy = FALSE
      BY <1>1, <2>2 DEF StreamOf
    <2> QED BY <2>3, <2>4
  <1>3. CASE IngestBuy /\ t = Head(buySub)
    <2>1. /\ buySub # <<>> /\ buySub' = Tail(buySub) /\ sellSub' = sellSub
          /\ logs' = logs /\ Ingest(t)
      BY <1>3 DEF IngestBuy, chainVars
    <2>2. t \in Logs /\ t.number \in DOMAIN logs /\ t = logs[t.number]
      BY <1>1, <1>3, <2>1, StreamTail
    <2>3. /\ Pending(buySub) = Pending(buySub') \cup {t.number}
          /\ t.number \notin Pending(buySub')
      BY <1>1, <1>3, <2>1, PendingTail
    <2>4. t.number \notin Pending(sellSub)
      BY <1>2, <2>3
    <2>5. /\ t.number \notin IngestedLogs
          /\ IngestedLogs' = IngestedLogs \cup {t.number}
          /\ IngestedLogs \in SUBSET DOMAIN logs
      BY <2>1, <2>2, <2>3, <2>4 DEF IngestedLogs
    <2> QED BY <2>1, <2>2, <2>5 DEF Incoming
  <1>4. CASE IngestSell /\ t = Head(sellSub)
    <2>1. /\ sellSub # <<>> /\ sellSub' = Tail(sellSub) /\ buySub' = buySub
          /\ logs' = logs /\ Ingest(t)
      BY <1>4 DEF IngestSell, chainVars
    <2>2. t \in Logs /\ t.number \in DOMAIN logs /\ t = logs[t.number]
      BY <1>1, <1>4, <2>1, StreamTail
    <2>3. /\ Pending(sellSub) = Pending(sellSub') \cup {t.number}
          /\ t.number \notin Pending(sellSub')
      BY <1>1, <1>4, <2>1, PendingTail
    <2>4. t.number \notin Pending(buySub)
      BY <1>2, <2>3
    <2>5. /\ t.number \notin IngestedLogs
          /\ IngestedLogs' = IngestedLogs \cup {t.number}
          /\ IngestedLogs \in SUBSET DOMAIN logs
      BY <2>1, <2>2, <2>3, <2>4 DEF IngestedLogs
    <2> QED BY <2>1, <2>2, <2>5 DEF Incoming
  <1> QED BY <1>3, <1>4

\* Ingesting keeps the window matching, as long as it is in order.
LEMMA IngestWindow ==
  ASSUME FeedBase, WindowMatches, NEW t, IngestBuy \/ IngestSell, Ingest(t), logs' = logs,
         Incoming(t, logs, IngestedLogs, IngestedLogs')
  PROVE  WindowMatches'
  <1>1. /\ stats \in Seq(Entries) /\ Len(stats) <= Window /\ logs \in Seq(Logs)
        /\ cache \in Seq(Logs) /\ misordered \in BOOLEAN
    BY DEF FeedBase, FeedTypeOK
  <1>2. /\ cache' = <<t>> /\ stats' = Ingested(stats, t)
        /\ misordered' = (misordered \/ (cache # <<>> /\ cache[1].block > t.block))
        /\ t \in Logs /\ t.block \in Nat
    BY DEF Ingest, Cached, Incoming, Logs
  <1>3. UNCHANGED disconnects
    BY DEF IngestBuy, IngestSell
  <1>4. cache' # <<>> /\ stats' # <<>> /\ cache'[1].block = stats'[Len(stats')].block
    BY <1>1, <1>2, IngestLast
  <1>5. ASSUME disconnects' = 0, ~misordered'
        PROVE  Matches(stats', logs', IngestedLogs')
    <2>1. Matches(stats, logs, IngestedLogs)
      BY <1>2, <1>3, <1>5 DEF WindowMatches
    <2>2. ~(cache # <<>> /\ cache[1].block > t.block)
      BY <1>2, <1>5
    <2>3. ASSUME stats # <<>> PROVE stats[Len(stats)].block <= t.block
      <3>1. cache # <<>> /\ cache[1].block = stats[Len(stats)].block
        BY <2>3 DEF WindowMatches
      <3>2. cache[1].block \in Nat
        BY <1>1, <3>1, BlockTypes
      <3> QED BY <1>2, <2>2, <3>1, <3>2
    <2>4. Matches(Ingested(stats, t), logs, IngestedLogs')
      BY <1>1, <2>1, <2>3, IngestMatches
    <2> QED BY <1>2, <2>4
  <1> QED BY <1>4, <1>5 DEF WindowMatches

\* A longer chain does not change what the ingested trades of the old one count.
LEMMA GrowMatches ==
  ASSUME NEW w, NEW chain, NEW longer, NEW done, done \in SUBSET DOMAIN chain,
         DOMAIN chain \subseteq DOMAIN longer, \A i \in DOMAIN chain : longer[i] = chain[i],
         Matches(w, chain, done)
  PROVE  Matches(w, longer, done)
  <1>1. \A b, kind : InBlock(longer, b, kind) \cap done = InBlock(chain, b, kind) \cap done
    BY DEF InBlock
  <1>2. \A b, kind : Count(longer, b, kind, done) = Count(chain, b, kind, done)
    BY <1>1 DEF Count
  <1>3. \A e, b : Counts(e, chain, b, done) => Counts(e, longer, b, done)
    BY <1>2 DEF Counts
  <1>4. \A k \in done : longer[k] = chain[k]
    OBVIOUS
  <1> QED BY <1>3, <1>4 DEF Matches

\* Every step preserves it.
LEMMA FeedNextWindow == FeedBase /\ WindowMatches /\ [FeedNext]_fvars => WindowMatches'
  <1> SUFFICES ASSUME FeedBase, WindowMatches, [FeedNext]_fvars PROVE WindowMatches'
    OBVIOUS
  <1>1. CASE IngestBuy
    <2>1. PICK t : t = Head(buySub)
      OBVIOUS
    <2>2. Incoming(t, logs, IngestedLogs, IngestedLogs') /\ Ingest(t) /\ logs' = logs
      BY <1>1, <2>1, IngestIncoming
    <2> QED BY <1>1, <2>2, IngestWindow
  <1>2. CASE IngestSell
    <2>1. PICK t : t = Head(sellSub)
      OBVIOUS
    <2>2. Incoming(t, logs, IngestedLogs, IngestedLogs') /\ Ingest(t) /\ logs' = logs
      BY <1>2, <2>1, IngestIncoming
    <2> QED BY <1>2, <2>2, IngestWindow
  <1>3. CASE Disconnect
    <2>1. disconnects' # 0
      BY <1>3 DEF Disconnect, FeedBase, FeedTypeOK
    <2> QED BY <1>3, <2>1 DEF Disconnect, WindowMatches, feedVars
  <1>4. CASE \/ \E buy \in BOOLEAN : Trade(buy)
             \/ \E i \in DOMAIN logs : TakeOff(i)
    <2>1. PICK buy \in BOOLEAN, u \in Nat : Sending(buy, u)
      BY <1>4, Sends
    <2>2. /\ DOMAIN logs' = DOMAIN logs \cup {Len(logs) + 1}
          /\ \A i \in DOMAIN logs : logs'[i] = logs[i]
          /\ Len(logs) + 1 \notin DOMAIN logs
          /\ UNCHANGED <<connected, disconnects, cache, stats, misordered>>
      BY <2>1, SentEffect DEF feedVars
    <2>3. ASSUME disconnects' = 0, ~misordered'
          PROVE  Matches(stats', logs', IngestedLogs')
      <3>1. connected /\ Matches(stats, logs, IngestedLogs)
        BY <2>2, <2>3 DEF FeedBase, FeedFacts, WindowMatches
      <3>2. Pending(buySub') \cup Pending(sellSub') =
              Pending(buySub) \cup Pending(sellSub) \cup {Len(logs) + 1}
        BY <2>1, <3>1, PendingGrows
      <3>3. IngestedLogs' = IngestedLogs
        BY <2>2, <3>2 DEF IngestedLogs
      <3>4. IngestedLogs \in SUBSET DOMAIN logs
        BY DEF IngestedLogs
      <3>5. Matches(stats, logs', IngestedLogs)
        BY <2>2, <3>1, <3>4, GrowMatches
      <3> QED BY <2>2, <3>3, <3>5
    <2> QED BY <2>2, <2>3 DEF WindowMatches
  <1>5. Reconnect \/ NewBlock \/ Graduate \/ (\E n \in 1..LastBlock : Lookup(n))
           \/ UNCHANGED fvars
        => UNCHANGED <<logs, buySub, sellSub, disconnects, cache, stats, misordered>>
    BY DEF Reconnect, NewBlock, Graduate, Lookup, fvars, chainVars, feedVars
  <1>6. CASE UNCHANGED <<logs, buySub, sellSub, disconnects, cache, stats, misordered>>
    BY <1>6 DEF WindowMatches, IngestedLogs
  <1> QED BY <1>1, <1>2, <1>3, <1>4, <1>5, <1>6 DEF FeedNext

\* At the start nothing is traded and the window is empty.
LEMMA FeedInitWindow == FeedInit => WindowMatches
  <1> SUFFICES ASSUME FeedInit PROVE WindowMatches
    OBVIOUS
  <1>1. stats = <<>> /\ logs = <<>> /\ cache = <<>> /\ DOMAIN stats = {} /\ DOMAIN logs = {}
    BY DEF FeedInit
  <1>2. IngestedLogs = {}
    BY <1>1 DEF IngestedLogs
  <1> QED BY <1>1, <1>2 DEF WindowMatches, Matches

\* The logs of a block and kind, counted.
LEMMA FlowCounted ==
  ASSUME FeedBase, NEW b, NEW kind \in BOOLEAN
  PROVE  Cardinality(InBlock(logs, b, kind)) = Flow(b, kind)
  <1>1. /\ UNION {InBlock(logs, c, kind) : c \in {b}} = InBlock(logs, b, kind)
        /\ UNION {Of(c, kind) : c \in {b}} = Of(b, kind)
        /\ UNION {TakenOff(c, kind) : c \in {b}} = TakenOff(b, kind)
    OBVIOUS
  <1>2. PICK B : B = {b}
    OBVIOUS
  <1>3. Cardinality(UNION {InBlock(logs, c, kind) : c \in B})
          = Cardinality(UNION {Of(c, kind) : c \in B})
            + Cardinality(UNION {TakenOff(c, kind) : c \in B})
    BY LogsCounted
  <1> QED BY <1>1, <1>2, <1>3 DEF Flow

\* With nothing left in the streams, everything logged was ingested.
LEMMA DrainedWindow == FeedBase /\ WindowMatches => WindowMatchesLogs
  <1> SUFFICES ASSUME FeedBase, WindowMatches, Drained, ~misordered
               PROVE  /\ \A i, j \in DOMAIN stats : i < j => stats[i].block < stats[j].block
                      /\ \A i \in DOMAIN stats :
                           /\ stats[i].block \in TradedBlocks
                           /\ stats[i].buys = Flow(stats[i].block, TRUE)
                           /\ stats[i].sells = Flow(stats[i].block, FALSE)
                      /\ \A b \in TradedBlocks :
                           \/ \E i \in DOMAIN stats : stats[i].block = b
                           \/ Len(stats) = Window /\ b < stats[1].block
    BY DEF WindowMatchesLogs
  <1>1. IngestedLogs = DOMAIN logs
    <2>1. buySub = <<>> /\ sellSub = <<>>
      BY DEF Drained
    <2>2. Pending(<<>>) = {}
      BY DEF Pending
    <2> QED BY <2>1, <2>2 DEF IngestedLogs
  <1>2. Matches(stats, logs, DOMAIN logs)
    BY <1>1 DEF WindowMatches, Drained
  <1>3. ASSUME NEW b, NEW kind \in BOOLEAN
        PROVE  Count(logs, b, kind, DOMAIN logs) = Flow(b, kind)
    <2>1. InBlock(logs, b, kind) \cap DOMAIN logs = InBlock(logs, b, kind)
      BY DEF InBlock
    <2> QED BY <2>1, FlowCounted DEF Count
  <1>4. \A i \in DOMAIN stats :
          /\ stats[i].buys = Flow(stats[i].block, TRUE)
          /\ stats[i].sells = Flow(stats[i].block, FALSE)
    <2> TAKE i \in DOMAIN stats
    <2>1. Counts(stats[i], logs, stats[i].block, DOMAIN logs)
      BY <1>2 DEF Matches
    <2> QED BY <1>3, <2>1 DEF Counts
  <1>5. \A i \in DOMAIN stats : stats[i].block \in TradedBlocks
    BY <1>2 DEF Matches, TradedBlocks
  <1>6. \A b \in TradedBlocks : \/ \E i \in DOMAIN stats : stats[i].block = b
                                \/ Len(stats) = Window /\ b < stats[1].block
    BY <1>2 DEF Matches, TradedBlocks
  <1>7. \A i, j \in DOMAIN stats : i < j => stats[i].block < stats[j].block
    BY <1>2 DEF Matches
  <1> QED BY <1>4, <1>5, <1>6, <1>7

\* four_meme_price.rs, TokenStats::ingest and decode_trade_buy: once the streams are drained
\* and if nothing was lost or out of order, the window is exactly the logged flow of the
\* last STATS_WINDOW blocks with a trade, each trade once and those a reorganisation took
\* off twice, for a window of any size and any trades.
THEOREM WindowIsLoggedFlow == FeedSpec => []WindowMatchesLogs
  <1>1. FeedInit => FeedBase /\ WindowMatches
    BY FeedInitBase, FeedInitWindow
  <1>2. FeedBase /\ WindowMatches /\ [FeedNext]_fvars => (FeedBase /\ WindowMatches)'
    BY FeedNextBase, FeedNextWindow
  <1>3. FeedBase /\ WindowMatches => WindowMatchesLogs
    BY DrainedWindow
  <1> QED BY <1>1, <1>2, <1>3, PTL DEF FeedSpec

-----------------------------------------------------------------------------
(* The capture.                                                            *)

\* Types of the capture's records.
Recs == 1..MaxRecords
ChunkSet == [rec : Recs, part : {"len", "payload"}]
SegmentSet ==
    [sec : Nat, n : Nat, stream : Seq(ChunkSet), disk : Nat, done : BOOLEAN, mtime : Nat,
     acked : Seq(Recs), sound : Nat, torn : BOOLEAN, last : Nat, proc : Nat]
Files == [seg : Nat, len : Nat, mtime : Nat]
WriterSet ==
    [pc : {"down", "idle", "rotate", "finish", "append", "last", "over"},
     seg : Nat, old : Nat, counter : Nat, rotate_at : Nat, rec : Nat, t : Nat, started : Nat]
JanitorSet ==
    [pc : {"idle", "stat", "age", "evict"}, todo : SUBSET (Nat \cup Files),
     entries : SUBSET Files, total : Nat, at : Nat, failed : BOOLEAN]

CaptureTypes ==
    /\ now \in 0..LastTick
    /\ segs \in Seq(SegmentSet)
    /\ dir \subseteq DOMAIN segs
    /\ writer \in WriterSet
    /\ janitor \in JanitorSet
    /\ next \in Nat \ {0}
    /\ faults \in Nat /\ restarts \in Nat /\ sweeps \in Nat

\* What the encoder was given: the two chunks of each sound record in their order, and
\* after them, in a torn segment, a length that no payload follows.
Framed(s) ==
    /\ s.sound <= Len(s.acked)
    /\ 2 * s.sound <= Len(s.stream)
    /\ s.disk <= Len(s.stream)
    /\ \A j \in 1..s.sound :
         /\ s.stream[2 * j - 1].rec = s.acked[j] /\ s.stream[2 * j - 1].part = "len"
         /\ s.stream[2 * j].rec = s.acked[j] /\ s.stream[2 * j].part = "payload"
    /\ ~s.torn => Len(s.acked) = s.sound /\ Len(s.stream) = 2 * s.sound
    /\ s.torn => /\ Len(s.stream) >= 2 * s.sound + 1
                 /\ s.stream[2 * s.sound + 1].part = "len"
                 /\ Len(s.stream) >= 2 * s.sound + 2 =>
                      s.stream[2 * s.sound + 2].part = "len"
    /\ s.done => s.disk = Len(s.stream)

\* The first tick of a second.
Ticks(n) == n * TicksPerSecond

\* A file is modified after it was named, and takes records for one period.
Timed(s) ==
    /\ s.sec <= UnixNow
    /\ Ticks(s.sec) <= s.mtime
    /\ s.last < Ticks(s.sec + RotateSecs)
    /\ s.proc <= restarts

\* A running writer: its names are its own, and those of earlier processes are not
\* later than its start.
WriterFacts ==
    /\ writer.seg \in DOMAIN segs /\ ~segs[writer.seg].done
    /\ segs[writer.seg].proc = restarts
    /\ writer.rotate_at = segs[writer.seg].sec + RotateSecs
    /\ writer.started <= UnixNow
    /\ \A i \in DOMAIN segs :
         /\ segs[i].proc = restarts => segs[i].n < writer.counter
         /\ segs[i].proc < restarts => segs[i].sec <= writer.started
    /\ writer.pc = "rotate" => writer.t <= now
    /\ writer.pc \in {"finish", "append"} => writer.t < Ticks(writer.rotate_at)
    /\ writer.pc \in {"rotate", "finish", "append"} => writer.rec \in Recs
    /\ writer.pc \in {"finish", "last"} => writer.old \in DOMAIN segs /\ writer.old # writer.seg

\* A sweep: one entry for a segment, stamped no earlier than the segment's name.
SweepFacts ==
    /\ IsFiniteSet(janitor.entries)
    /\ \A e \in janitor.entries : e.seg \in DOMAIN segs /\ Ticks(segs[e.seg].sec) <= e.mtime
    /\ \A e, f \in janitor.entries : e.seg = f.seg => e = f
    /\ janitor.pc = "stat" =>
         /\ janitor.todo \subseteq dir /\ janitor.total = 0
         /\ \A e \in janitor.entries : e.seg \in dir /\ e.seg \notin janitor.todo
    /\ janitor.pc \in {"age", "evict"} => janitor.todo \subseteq janitor.entries

CaptureBase ==
    /\ CaptureTypes
    /\ \A i \in DOMAIN segs : Framed(segs[i]) /\ Timed(segs[i])
    /\ writer.pc # "down" => WriterFacts
    /\ writer.pc = "down" => writer = Down /\ janitor = Resting
    /\ SweepFacts

Kept == {e \in janitor.entries : e.seg \in dir}
Since(e) == {f \in janitor.entries : f.mtime >= e.mtime}

\* The total of a sweep whose removals succeeded is the size of what it kept.
TotalFacts ==
    ~janitor.failed =>
      /\ janitor.pc = "age" =>
           /\ \A e \in janitor.todo : e.seg \in dir
           /\ \A e \in janitor.entries \ janitor.todo : TooOld(e) <=> e.seg \notin dir
           /\ janitor.total = Size(Kept \ janitor.todo)
      /\ janitor.pc = "evict" =>
           /\ janitor.todo = Kept
           /\ janitor.total = Size(Kept)
           /\ \A e \in janitor.entries :
                e.seg \notin dir /\ ~TooOld(e) => Size(Since(e)) > Retention

\* unix_now() rounds down: a whole second has come when its first tick has.
LEMMA Floor ==
  ASSUME NEW t \in Nat, NEW n \in Nat
  PROVE  /\ t \div TicksPerSecond \in Nat /\ Ticks(n) \in Nat
         /\ n <= t \div TicksPerSecond <=> Ticks(n) <= t
  <1>1. PICK d \in Nat \ {0} : d = TicksPerSecond
    BY CaptureAssumption
  <1>2. PICK q \in Nat : q = t \div d /\ q * d <= t /\ t < q * d + d
    BY <1>1
  <1>3. n * d \in Nat
    OBVIOUS
  <1>4. n <= q => n * d <= q * d
    OBVIOUS
  <1>5. n >= q + 1 => n * d >= q * d + d
    OBVIOUS
  <1>6. n <= q <=> n * d <= t
    <2>1. PICK x, y \in Nat : x = n * d /\ y = q * d
      OBVIOUS
    <2> QED BY <1>2, <1>4, <1>5, <2>1
  <1> QED BY <1>1, <1>2, <1>3, <1>6 DEF Ticks

\* The clock in seconds.
LEMMA Seconds ==
  ASSUME CaptureTypes
  PROVE  /\ now \in Nat /\ UnixNow \in Nat
         /\ \A n \in Nat : Ticks(n) \in Nat /\ (n <= UnixNow <=> Ticks(n) <= now)
  <1>1. now \in Nat
    BY CaptureAssumption DEF CaptureTypes
  <1> QED BY <1>1, Floor DEF UnixNow

\* Two neighbours of a sequence, and its first elements.
LEMMA PairOf ==
  ASSUME NEW T, NEW s \in Seq(T), NEW a \in Nat, NEW b \in Nat, b = a + 1, a >= 1, b <= Len(s)
  PROVE  /\ SubSeq(s, a, b) \in Seq(T) /\ Len(SubSeq(s, a, b)) = 2
         /\ SubSeq(s, a, b)[1] = s[a] /\ SubSeq(s, a, b)[2] = s[b]
         /\ s[a] \in T /\ s[b] \in T
  OBVIOUS

\* What a prefix of a sequence is.
LEMMA FirstOf ==
  ASSUME NEW T, NEW s \in Seq(T), NEW k \in Nat, k <= Len(s)
  PROVE  /\ SubSeq(s, 1, k) \in Seq(T) /\ Len(SubSeq(s, 1, k)) = k
         /\ \A j \in 1..k : SubSeq(s, 1, k)[j] = s[j]
  OBVIOUS

\* Two chunks of a stream are a record's chunks, or the second is no payload.
LEMMA PairAt ==
  ASSUME NEW s \in Seq(ChunkSet), NEW j \in Nat \ {0}, 2 * j <= Len(s)
  PROVE  /\ \A r \in Recs :
              /\ s[2 * j - 1].rec = r /\ s[2 * j - 1].part = "len"
              /\ s[2 * j].rec = r /\ s[2 * j].part = "payload"
              => SubSeq(s, 2 * j - 1, 2 * j) = Chunks(r)
         /\ \A r \in Recs :
              SubSeq(s, 2 * j - 1, 2 * j) = Chunks(r) => s[2 * j].part = "payload"
  <1>1. PICK p : p = SubSeq(s, 2 * j - 1, 2 * j)
    OBVIOUS
  <1>2. PICK a, b \in Nat : a = 2 * j - 1 /\ b = 2 * j /\ b = a + 1 /\ a >= 1 /\ b <= Len(s)
    OBVIOUS
  <1>3. /\ p \in Seq(ChunkSet) /\ Len(p) = 2 /\ p[1] = s[2 * j - 1] /\ p[2] = s[2 * j]
        /\ s[2 * j - 1] \in ChunkSet /\ s[2 * j] \in ChunkSet
    BY <1>1, <1>2, PairOf
  <1>4. ASSUME NEW r \in Recs,
               s[2 * j - 1].rec = r, s[2 * j - 1].part = "len",
               s[2 * j].rec = r, s[2 * j].part = "payload"
        PROVE  p = Chunks(r)
    <2>1. /\ s[2 * j - 1] = [rec |-> r, part |-> "len"]
          /\ s[2 * j] = [rec |-> r, part |-> "payload"]
      BY <1>3, <1>4 DEF ChunkSet
    <2>2. p = <<p[1], p[2]>>
      BY <1>3
    <2> QED BY <1>3, <2>1, <2>2 DEF Chunks
  <1>5. ASSUME NEW r \in Recs, p = Chunks(r)
        PROVE  s[2 * j].part = "payload"
    BY <1>3, <1>5 DEF Chunks
  <1> QED BY <1>1, <1>4, <1>5

\* How many records a reader finds: the sound ones, as far as they are in the file.
LEMMA ReplayedLength ==
  ASSUME NEW s \in SegmentSet, Framed(s)
  PROVE  \E m \in Nat :
           /\ m = Max(Pairs(s))
           /\ m <= s.sound /\ 2 * m <= s.disk
           /\ m = s.sound \/ s.disk < 2 * m + 2
  <1>1. /\ s.sound \in Nat /\ s.disk \in Nat /\ s.stream \in Seq(ChunkSet)
        /\ s.acked \in Seq(Recs) /\ s.disk <= Len(s.stream) /\ s.torn \in BOOLEAN
        /\ s.sound <= Len(s.acked) /\ 2 * s.sound <= Len(s.stream)
    BY DEF SegmentSet, Framed
  <1>2. PICK q \in Nat : q = s.disk \div 2 /\ 2 * q <= s.disk /\ s.disk < 2 * q + 2
    BY <1>1
  <1>3. PICK m \in Nat : m = IF s.sound <= q THEN s.sound ELSE q
    BY <1>1, <1>2
  <1>4. m \in Pairs(s)
    <2>1. ASSUME NEW j \in 1..m
          PROVE  \E r \in 1..MaxRecords : SubSeq(s.stream, 2 * j - 1, 2 * j) = Chunks(r)
      <3>1. j \in Nat \ {0} /\ 2 * j <= Len(s.stream) /\ j \in 1..s.sound
        <4>1. PICK n \in Nat : n = Len(s.stream) /\ s.disk <= n
          BY <1>1
        <4>2. PICK d \in Nat : d = s.disk
          BY <1>1
        <4>3. PICK k \in Nat : k = s.sound
          BY <1>1
        <4>4. j \in Nat \ {0} /\ j <= m /\ m <= q /\ m <= k
          BY <1>3, <4>3
        <4>5. 2 * q <= d /\ d <= n
          BY <1>2, <4>1, <4>2
        <4>6. 2 * j <= n /\ j \in 1..k
          BY <4>4, <4>5
        <4> QED BY <4>1, <4>3, <4>4, <4>6
      <3>2. PICK r \in Recs : r = s.acked[j]
        BY <1>1, <3>1
      <3>3. /\ s.stream[2 * j - 1].rec = r /\ s.stream[2 * j - 1].part = "len"
            /\ s.stream[2 * j].rec = r /\ s.stream[2 * j].part = "payload"
        BY <3>1, <3>2 DEF Framed
      <3>4. SubSeq(s.stream, 2 * j - 1, 2 * j) = Chunks(r)
        BY <1>1, <3>1, <3>3, PairAt
      <3> QED BY <3>4 DEF Recs
    <2>2. m \in 0..(s.disk \div 2)
      BY <1>1, <1>2, <1>3
    <2> QED BY <2>1, <2>2 DEF Pairs
  <1>5. ASSUME NEW k \in Pairs(s)
        PROVE  k \in Nat /\ m >= k
    <2>1. k \in Nat /\ k <= q
      BY <1>2 DEF Pairs
    <2>2. SUFFICES ASSUME s.sound < k PROVE FALSE
      BY <1>1, <1>2, <1>3, <2>1
    <2>3. PICK j \in Nat \ {0} : j = s.sound + 1
      BY <1>1
    <2>4. j \in 1..k /\ 2 * j <= s.disk /\ 2 * j <= Len(s.stream)
      <3>1. PICK n \in Nat : n = Len(s.stream) /\ s.disk <= n
        BY <1>1
      <3>2. PICK d \in Nat : d = s.disk
        BY <1>1
      <3>3. j <= k /\ k <= q
        BY <1>1, <2>1, <2>2, <2>3
      <3> QED BY <1>2, <2>1, <3>1, <3>2, <3>3
    <2>5. PICK r \in Recs : SubSeq(s.stream, 2 * j - 1, 2 * j) = Chunks(r)
      BY <2>4 DEF Pairs, Recs
    <2>6. s.stream[2 * j].part = "payload"
      BY <1>1, <2>3, <2>4, <2>5, PairAt
    <2>7. s.torn
      BY <1>1, <2>3, <2>4 DEF Framed
    <2>8. 2 * j = 2 * s.sound + 2
      BY <1>1, <2>3
    <2>9. s.stream[2 * j].part = "len"
      BY <1>1, <2>4, <2>7, <2>8 DEF Framed
    <2> QED BY <2>6, <2>9
  <1>6. Max(Pairs(s)) = m
    <2>1. PICK x : x = Max(Pairs(s))
      OBVIOUS
    <2>2. x \in Pairs(s) /\ \A k \in Pairs(s) : x >= k
      BY <1>4, <1>5, <2>1 DEF Max
    <2>3. x \in Nat /\ x >= m /\ m >= x
      BY <1>4, <1>5, <2>2
    <2> QED BY <2>1, <2>3
  <1>7. PICK d, n \in Nat : d = s.disk /\ n = s.sound
    BY <1>1
  <1>8. m <= n /\ 2 * m <= d /\ (m = n \/ d < 2 * m + 2)
    BY <1>2, <1>3, <1>7
  <1> QED BY <1>6, <1>7, <1>8

\* The records that are found in place are acknowledged ones in their order: all sound
\* ones, as far as they are in the file.
FoundIs(s, m) ==
    /\ Found(s) \in Seq(Recs) /\ Len(Found(s)) = m
    /\ \A j \in 1..m : Found(s)[j] = s.acked[j]
    /\ m <= s.sound /\ 2 * m <= s.disk
    /\ m = s.sound \/ s.disk < 2 * m + 2

LEMMA FoundFacts ==
  ASSUME NEW s \in SegmentSet, Framed(s)
  PROVE  \E m \in Nat : FoundIs(s, m)
  <1>1. /\ s.sound \in Nat /\ s.stream \in Seq(ChunkSet) /\ s.acked \in Seq(Recs)
        /\ s.sound <= Len(s.acked)
    BY DEF SegmentSet, Framed
  <1>2. PICK m \in Nat : /\ m = Max(Pairs(s)) /\ m <= s.sound /\ 2 * m <= s.disk
                         /\ m = s.sound \/ s.disk < 2 * m + 2
    BY ReplayedLength
  <1>3. PICK p : p = Found(s)
    OBVIOUS
  <1>4. p = [j \in 1..m |-> s.stream[2 * j].rec]
    BY <1>2, <1>3 DEF Found
  <1>5. \A j \in 1..m : s.stream[2 * j].rec = s.acked[j] /\ s.acked[j] \in Recs
    <2> TAKE j \in 1..m
    <2>1. j \in 1..s.sound /\ j \in 1..Len(s.acked)
      BY <1>1, <1>2
    <2>2. s.acked[j] \in Recs
      BY <1>1, <2>1
    <2> QED BY <2>1, <2>2 DEF Framed
  <1>6. p = [j \in 1..m |-> s.acked[j]]
    BY <1>4, <1>5
  <1>7. p \in Seq(Recs) /\ Len(p) = m /\ \A j \in 1..m : p[j] = s.acked[j]
    BY <1>5, <1>6
  <1>8. FoundIs(s, m)
    BY <1>2, <1>3, <1>7 DEF FoundIs
  <1> QED BY <1>8

\* What a replay says of its file.
Faithful(s, p) ==
    /\ \A j \in DOMAIN p.recs : j <= s.sound => p.recs[j] = s.acked[j]
    /\ ~s.torn => IsPrefix(p.recs, s.acked) /\ p.end # "undecodable"
    /\ s.done => Len(p.recs) >= s.sound
    /\ s.done /\ ~s.torn => p.recs = s.acked /\ p.end = "none"

\* A sequence over a set is one over every larger set.
LEMMA SeqMonotone ==
  ASSUME NEW S, NEW T, S \subseteq T, NEW q \in Seq(S)
  PROVE  q \in Seq(T)
  OBVIOUS

\* One sequence after another.
LEMMA Joined ==
  ASSUME NEW T, NEW q \in Seq(T), NEW u \in Seq(T)
  PROVE  /\ q \o u \in Seq(T) /\ Len(q \o u) = Len(q) + Len(u)
         /\ \A j \in 1..Len(q) : (q \o u)[j] = q[j]
  OBVIOUS

\* A replay that meets no bytes out of place returns what it finds.
LEMMA FoundFaithful ==
  ASSUME NEW s \in SegmentSet, Framed(s), NEW m \in Nat, FoundIs(s, m),
         NEW f, f = Found(s), NEW p, p.recs = f,
         s.disk - 2 * m < 2,
         p.end = IF s.disk - 2 * m = 0 THEN "none" ELSE "truncated"
  PROVE  Faithful(s, p)
  <1>1. PICK a \in Seq(Recs), c \in Nat, d \in Nat, n \in Nat :
          a = s.acked /\ c = s.sound /\ d = s.disk /\ n = Len(s.stream)
    BY DEF SegmentSet
  <1>2. f \in Seq(Recs) /\ Len(f) = m /\ \A j \in 1..m : f[j] = a[j]
    BY <1>1 DEF FoundIs
  <1>3. m <= c /\ 2 * m <= d /\ d < 2 * m + 2 /\ c <= Len(a) /\ 2 * c <= n
    BY <1>1 DEF FoundIs, Framed
  <1>4. \A j \in DOMAIN p.recs : j <= s.sound => p.recs[j] = s.acked[j]
    <2>1. DOMAIN f = 1..m
      BY <1>2
    <2> QED BY <1>1, <1>2, <2>1
  <1>5. IsPrefix(p.recs, s.acked)
    <2>1. Len(f) <= Len(a)
      BY <1>2, <1>3
    <2>2. SubSeq(f, 1, Len(f)) = SubSeq(a, 1, Len(f))
      BY <1>2, <2>1
    <2> QED BY <1>1, <2>1, <2>2 DEF IsPrefix
  <1>6. s.done => m = c
    <2>1. s.done => d = n
      BY <1>1 DEF Framed
    <2> QED BY <1>3, <2>1
  <1>7. ASSUME s.done, ~s.torn PROVE p.recs = s.acked /\ p.end = "none"
    <2>1. m = c /\ Len(a) = c /\ d = 2 * c
      BY <1>1, <1>6, <1>7 DEF Framed
    <2>2. f = a
      BY <1>2, <2>1
    <2>3. d - 2 * m = 0
      BY <2>1
    <2> QED BY <1>1, <2>2, <2>3
  <1>8. s.done => Len(p.recs) >= s.sound
    BY <1>1, <1>2, <1>6
  <1>9. p.end # "undecodable"
    OBVIOUS
  <1> QED BY <1>4, <1>5, <1>7, <1>8, <1>9 DEF Faithful

\* A replay that goes on with bytes out of place is behind all sound records, and of a
\* torn file.
LEMMA MisreadFaithful ==
  ASSUME NEW s \in SegmentSet, Framed(s), NEW m \in Nat, FoundIs(s, m),
         NEW f, f = Found(s), NEW g \in Misread, NEW p, p.recs = f \o g,
         s.disk - 2 * m >= 2
  PROVE  Faithful(s, p)
  <1>1. PICK a \in Seq(Recs), c \in Nat, d \in Nat, n \in Nat :
          a = s.acked /\ c = s.sound /\ d = s.disk /\ n = Len(s.stream)
    BY DEF SegmentSet
  <1>2. f \in Seq(Recs) /\ Len(f) = m /\ \A j \in 1..m : f[j] = a[j]
    BY <1>1 DEF FoundIs
  <1>3. m = c /\ d <= n /\ d >= 2 * c + 2
    <2>1. m = s.sound \/ s.disk < 2 * m + 2
      BY DEF FoundIs
    <2>2. s.disk <= Len(s.stream)
      BY DEF Framed
    <2>3. m = c \/ d < 2 * m + 2
      BY <1>1, <2>1
    <2>4. d <= n /\ d - 2 * m >= 2
      BY <1>1, <2>2
    <2> QED BY <2>3, <2>4
  <1>4. s.torn
    <2>1. ~s.torn => n = 2 * c
      BY <1>1 DEF Framed
    <2> QED BY <1>3, <2>1
  <1>5. PICK l \in Nat : g \in [1..l -> 0..MaxRecords]
    <2>1. PICK G \in {[1..e -> 0..MaxRecords] : e \in 0..MaxMisread} : g \in G
      BY Zenon DEF Misread
    <2>2. PICK e \in 0..MaxMisread : G = [1..e -> 0..MaxRecords]
      BY <2>1, Zenon
    <2>3. e \in Nat
      BY CaptureAssumption
    <2> QED BY <2>1, <2>2, <2>3, Zenon
  <1>6. g \in Seq(0..MaxRecords) /\ Len(g) = l
    <2>1. PICK S : S = 0..MaxRecords
      OBVIOUS
    <2>2. g \in [1..l -> S]
      BY <1>5, <2>1, Zenon
    <2>3. g \in Seq(S) /\ Len(g) = l
      BY <2>2
    <2> QED BY <2>1, <2>3, Zenon
  <1>7. PICK w : w = f \o g
    OBVIOUS
  <1>8. DOMAIN w = 1..(m + l) /\ Len(w) = m + l /\ \A j \in 1..m : w[j] = f[j]
    <2>1. f \in Seq(Nat) /\ g \in Seq(Nat)
      <3>1. Recs \subseteq Nat /\ 0..MaxRecords \subseteq Nat
        BY CaptureAssumption DEF Recs
      <3> QED BY <1>2, <1>6, <3>1, SeqMonotone
    <2>2. w \in Seq(Nat) /\ Len(w) = Len(f) + Len(g) /\ \A j \in 1..Len(f) : w[j] = f[j]
      BY <1>7, <2>1, Joined
    <2>3. Len(f) = m /\ Len(g) = l
      BY <1>2, <1>6
    <2> QED BY <2>2, <2>3
  <1>9. \A j \in DOMAIN p.recs : j <= s.sound => p.recs[j] = s.acked[j]
    <2> SUFFICES ASSUME NEW j \in 1..(m + l), j <= m
                 PROVE  w[j] = a[j]
      BY <1>1, <1>3, <1>7, <1>8
    <2> QED BY <1>2, <1>8
  <1>10. Len(p.recs) >= s.sound
    BY <1>1, <1>3, <1>7, <1>8
  <1> QED BY <1>4, <1>9, <1>10 DEF Faithful

\* read_all over a file of the writer.
LEMMA ReplaysAcked ==
  ASSUME NEW s \in SegmentSet, Framed(s), NEW p \in Replays(s)
  PROVE  Faithful(s, p)
  <1>1. PICK m \in Nat : FoundIs(s, m)
    BY FoundFacts
  <1>2. PICK f : f = Found(s)
    OBVIOUS
  <1>3. PICK d \in Nat : d = s.disk
    BY DEF SegmentSet
  <1>4. PICK rest \in Int : rest = d - 2 * m
    BY <1>3
  <1>5. rest = s.disk - 2 * Len(Found(s))
    BY <1>1, <1>3, <1>4 DEF FoundIs
  <1>6. CASE rest < 2
    <2>1. p = [recs |-> f, end |-> IF rest = 0 THEN "none" ELSE "truncated"]
      BY <1>2, <1>5, <1>6 DEF Replays
    <2>2. p.recs = f /\ p.end = IF rest = 0 THEN "none" ELSE "truncated"
      BY <2>1
    <2> QED BY <1>1, <1>2, <1>3, <1>4, <1>6, <2>2, FoundFaithful
  <1>7. CASE rest >= 2
    <2>1. p \in [recs : {f \o g : g \in Misread}, end : Outcomes]
      <3>1. ~(rest < 2)
        BY <1>4, <1>7
      <3> QED BY <1>2, <1>5, <3>1 DEF Replays
    <2>2. PICK g \in Misread : p.recs = f \o g
      BY <2>1
    <2> QED BY <1>1, <1>2, <1>3, <1>4, <1>7, <2>2, MisreadFaithful
  <1> QED BY <1>4, <1>6, <1>7

\* Types of a segment's fields.
LEMMA SegmentFields ==
  ASSUME NEW s \in SegmentSet
  PROVE  /\ s.sec \in Nat /\ s.n \in Nat /\ s.stream \in Seq(ChunkSet) /\ s.disk \in Nat
         /\ s.done \in BOOLEAN /\ s.mtime \in Nat /\ s.acked \in Seq(Recs) /\ s.sound \in Nat
         /\ s.torn \in BOOLEAN /\ s.last \in Nat /\ s.proc \in Nat
  BY DEF SegmentSet

\* A new file: nothing in it, named and stamped with the second.
NewlyMade(s, n, p) ==
    /\ s \in SegmentSet /\ Framed(s)
    /\ s.sec = UnixNow /\ s.n = n /\ s.proc = p /\ s.mtime = now /\ s.last = now /\ s.done = FALSE

\* open_segment creates such a file.
LEMMA NewSegmentFacts ==
  ASSUME CaptureTypes, NEW n \in Nat, NEW p \in Nat
  PROVE  NewlyMade(NewSegment(n, p), n, p)
  <1>1. now \in Nat /\ UnixNow \in Nat
    BY Seconds
  <1>2. NewSegment(n, p) \in SegmentSet
    BY <1>1 DEF NewSegment, SegmentSet
  <1>3. /\ NewSegment(n, p).stream = <<>> /\ NewSegment(n, p).disk = 0
        /\ NewSegment(n, p).sound = 0 /\ NewSegment(n, p).acked = <<>>
        /\ NewSegment(n, p).torn = FALSE /\ NewSegment(n, p).done = FALSE
    BY DEF NewSegment
  <1>4. Framed(NewSegment(n, p))
    BY <1>3 DEF Framed
  <1>5. PICK s : s = NewSegment(n, p)
    OBVIOUS
  <1>6. s.sec = UnixNow /\ s.n = n /\ s.proc = p /\ s.mtime = now /\ s.last = now /\ s.done = FALSE
    BY <1>5 DEF NewSegment
  <1> QED BY <1>2, <1>4, <1>5, <1>6, Zenon DEF NewlyMade

\* What may happen to a segment in place: its name, its process and its records stay.
Grown(s, u) ==
    /\ u \in SegmentSet /\ Framed(u) /\ Timed(u)
    /\ u.sec = s.sec /\ u.n = s.n /\ u.proc = s.proc
    /\ s.acked # <<>> => u.acked # <<>>

\* The encoder gives more of its stream to the file, and finishes the frame or not.
LEMMA FlushedGrown ==
  ASSUME CaptureTypes, NEW s \in SegmentSet, Framed(s), Timed(s)
  PROVE  /\ \A d \in s.disk..Len(s.stream) : Grown(s, Flushed(s, d))
         /\ Grown(s, [Flushed(s, Len(s.stream)) EXCEPT !.done = TRUE, !.mtime = now])
  <1>1. /\ now \in Nat /\ s.disk \in Nat /\ Len(s.stream) \in Nat
        /\ s.mtime \in Nat /\ s.sec \in Nat
        /\ Ticks(s.sec) <= now /\ Ticks(s.sec) <= s.mtime /\ s.disk <= Len(s.stream)
    BY Seconds DEF SegmentSet, Timed, Framed
  <1>2. ASSUME NEW d \in s.disk..Len(s.stream)
        PROVE  Grown(s, Flushed(s, d))
    <2>1. PICK u : u = Flushed(s, d)
      OBVIOUS
    <2>2. PICK m \in Nat : m = (IF d > s.disk THEN now ELSE s.mtime) /\ Ticks(s.sec) <= m
      BY <1>1
    <2>3. u = [s EXCEPT !.disk = d, !.mtime = m]
      BY <2>1, <2>2 DEF Flushed
    <2>4. d \in Nat /\ d <= Len(s.stream)
      BY <1>1
    <2>5. u \in SegmentSet
      BY <2>3, <2>4 DEF SegmentSet
    <2>6. /\ u.disk = d /\ u.mtime = m /\ u.stream = s.stream /\ u.acked = s.acked
          /\ u.sound = s.sound /\ u.torn = s.torn /\ u.done = s.done /\ u.sec = s.sec
          /\ u.last = s.last /\ u.proc = s.proc /\ u.n = s.n
      BY <2>3 DEF SegmentSet
    <2>7. Framed(u)
      <3>1. s.done => d = Len(s.stream)
        BY <1>1, <2>4 DEF Framed
      <3> QED BY <2>4, <2>6, <3>1 DEF Framed
    <2>8. Timed(u)
      BY <2>2, <2>6 DEF Timed
    <2> QED BY <2>1, <2>5, <2>6, <2>7, <2>8 DEF Grown
  <1>3. Grown(s, [Flushed(s, Len(s.stream)) EXCEPT !.done = TRUE, !.mtime = now])
    <2>1. PICK u : u = [Flushed(s, Len(s.stream)) EXCEPT !.done = TRUE, !.mtime = now]
      OBVIOUS
    <2>2. u = [s EXCEPT !.disk = Len(s.stream), !.done = TRUE, !.mtime = now]
      BY <2>1 DEF Flushed, SegmentSet
    <2>3. u \in SegmentSet
      BY <1>1, <2>2 DEF SegmentSet
    <2>4. /\ u.disk = Len(s.stream) /\ u.mtime = now /\ u.stream = s.stream /\ u.acked = s.acked
          /\ u.sound = s.sound /\ u.torn = s.torn /\ u.sec = s.sec
          /\ u.last = s.last /\ u.proc = s.proc /\ u.n = s.n
      BY <2>2 DEF SegmentSet
    <2>5. Framed(u)
      BY <1>1, <2>4 DEF Framed
    <2>6. Timed(u)
      BY <1>1, <2>4 DEF Timed
    <2> QED BY <2>1, <2>3, <2>4, <2>5, <2>6 DEF Grown
  <1> QED BY <1>2, <1>3

\* g is the first k chunks of the record.
FirstChunks(g, r, k) ==
    /\ g \in Seq(ChunkSet) /\ Len(g) = k
    /\ k >= 1 => g[1].rec = r /\ g[1].part = "len"
    /\ k = 2 => g[2].rec = r /\ g[2].part = "payload"

\* The writer gives a record's chunks in order.
LEMMA GivenFacts ==
  ASSUME NEW r \in Recs, NEW k \in 0..2
  PROVE  FirstChunks(Given(r, k), r, k)
  <1>1. PICK c : c = Chunks(r)
    OBVIOUS
  <1>2. /\ c \in Seq(ChunkSet) /\ Len(c) = 2
        /\ c[1].rec = r /\ c[1].part = "len" /\ c[2].rec = r /\ c[2].part = "payload"
    <2>1. [rec |-> r, part |-> "len"] \in ChunkSet /\ [rec |-> r, part |-> "payload"] \in ChunkSet
      BY DEF ChunkSet
    <2> QED BY <1>1, <2>1 DEF Chunks
  <1>3. PICK g : g = SubSeq(c, 1, k)
    OBVIOUS
  <1>4. g \in Seq(ChunkSet) /\ Len(g) = k /\ \A j \in 1..k : g[j] = c[j]
    <2>1. k \in Nat /\ k <= Len(c)
      BY <1>2
    <2>2. c \in Seq(ChunkSet)
      BY <1>2
    <2>3. /\ SubSeq(c, 1, k) \in Seq(ChunkSet) /\ Len(SubSeq(c, 1, k)) = k
          /\ \A j \in 1..k : SubSeq(c, 1, k)[j] = c[j]
      BY <2>1, <2>2, FirstOf, Zenon
    <2> QED BY <1>3, <2>3, Zenon
  <1>5. Given(r, k) = g
    BY <1>1, <1>3 DEF Given
  <1>6. k >= 1 => g[1] = c[1]
    BY <1>4
  <1>7. k = 2 => g[2] = c[2]
    BY <1>4
  <1>8. FirstChunks(g, r, k)
    <2>1. k >= 1 => g[1].rec = r /\ g[1].part = "len"
      BY <1>2, <1>6, Zenon
    <2>2. k = 2 => g[2].rec = r /\ g[2].part = "payload"
      BY <1>2, <1>7, Zenon
    <2> QED BY <1>4, <2>1, <2>2, Zenon DEF FirstChunks
  <1> QED BY <1>5, <1>8, Zenon

\* The segment of AppendRecord after k chunks of a record, of which d are in the file.
GivenTo(s, r, t, k, d) ==
    [Flushed(s, d) EXCEPT
        !.stream = s.stream \o Given(r, k),
        !.acked = IF k = 2 THEN Append(@, r) ELSE @,
        !.sound = IF k = 2 /\ ~s.torn THEN @ + 1 ELSE @,
        !.torn = @ \/ k = 1,
        !.last = IF k = 2 THEN t ELSE @]

\* The stream v is w and k chunks of a record.
Continues(v, w, r, k) ==
    /\ v \in Seq(ChunkSet) /\ Len(v) = Len(w) + k
    /\ \A j \in 1..Len(w) : v[j] = w[j]
    /\ k >= 1 => v[Len(w) + 1].rec = r /\ v[Len(w) + 1].part = "len"
    /\ k = 2 => v[Len(w) + 2].rec = r /\ v[Len(w) + 2].part = "payload"

\* The stream after the call.
LEMMA GivenStream ==
  ASSUME NEW w \in Seq(ChunkSet), NEW r \in Recs, NEW k \in 0..2
  PROVE  Continues(w \o Given(r, k), w, r, k)
  <1>1. PICK n \in Nat : n = Len(w)
    OBVIOUS
  <1>2. PICK g : g = Given(r, k)
    OBVIOUS
  <1>3. /\ g \in Seq(ChunkSet) /\ Len(g) = k
        /\ k >= 1 => g[1].rec = r /\ g[1].part = "len"
        /\ k = 2 => g[2].rec = r /\ g[2].part = "payload"
    <2>1. FirstChunks(g, r, k)
      BY <1>2, GivenFacts, Zenon
    <2> QED BY <2>1, Zenon DEF FirstChunks
  <1>4. PICK v : v = w \o g
    OBVIOUS
  <1>5. /\ v \in Seq(ChunkSet) /\ Len(v) = n + k
        /\ \A j \in 1..n : v[j] = w[j]
        /\ \A j \in 1..k : v[n + j] = g[j]
    BY <1>1, <1>3, <1>4
  <1>6. /\ k >= 1 => v[n + 1] = g[1]
        /\ k = 2 => v[n + 2] = g[2]
    BY <1>5
  <1> QED BY <1>1, <1>2, <1>3, <1>4, <1>5, <1>6 DEF Continues

\* The records acknowledged after the call.
LEMMA AckedStream ==
  ASSUME NEW b \in Seq(Recs), NEW r \in Recs, NEW k \in 0..2,
         NEW a, a = IF k = 2 THEN Append(b, r) ELSE b
  PROVE  /\ a \in Seq(Recs)
         /\ Len(a) = IF k = 2 THEN Len(b) + 1 ELSE Len(b)
         /\ \A j \in 1..Len(b) : a[j] = b[j]
         /\ k = 2 => a[Len(b) + 1] = r
         /\ b # <<>> => a # <<>>
  OBVIOUS

\* The fields of the segment after the call.
GivenOf(u, s, r, t, k, d) ==
    /\ u \in SegmentSet
    /\ u.disk = d /\ u.stream = s.stream \o Given(r, k)
    /\ u.acked = IF k = 2 THEN Append(s.acked, r) ELSE s.acked
    /\ u.sound = IF k = 2 /\ ~s.torn THEN s.sound + 1 ELSE s.sound
    /\ u.torn = (s.torn \/ k = 1)
    /\ u.last = IF k = 2 THEN t ELSE s.last
    /\ u.mtime = IF d > s.disk THEN now ELSE s.mtime
    /\ u.sec = s.sec /\ u.n = s.n /\ u.proc = s.proc /\ u.done = s.done

\* The call has these fields for its result.
LEMMA GivenFields ==
  ASSUME CaptureTypes, NEW s \in SegmentSet, Framed(s), Timed(s), NEW r \in Recs, NEW t \in Nat,
         NEW k \in 0..2, NEW d \in Nat
  PROVE  GivenOf(GivenTo(s, r, t, k, d), s, r, t, k, d)
  <1>1. now \in Nat /\ s.mtime \in Nat /\ s.last \in Nat /\ s.torn \in BOOLEAN /\ s.sound \in Nat
    BY CaptureAssumption, SegmentFields DEF CaptureTypes
  <1>2. PICK m \in Nat : m = IF d > s.disk THEN now ELSE s.mtime
    BY <1>1
  <1>3. PICK a \in Seq(Recs) : a = IF k = 2 THEN Append(s.acked, r) ELSE s.acked
    <2>1. PICK b \in Seq(Recs) : b = s.acked
      BY SegmentFields
    <2>2. PICK a : a = IF k = 2 THEN Append(b, r) ELSE b
      OBVIOUS
    <2>3. a \in Seq(Recs)
      BY <2>2
    <2> QED BY <2>1, <2>2, <2>3
  <1>4. PICK c \in Nat : c = IF k = 2 /\ ~s.torn THEN s.sound + 1 ELSE s.sound
    BY <1>1
  <1>5. PICK x \in BOOLEAN : x = (s.torn \/ k = 1)
    OBVIOUS
  <1>6. PICK l \in Nat : l = IF k = 2 THEN t ELSE s.last
    BY <1>1
  <1>7. PICK v \in Seq(ChunkSet) : v = s.stream \o Given(r, k)
    <2>1. Continues(s.stream \o Given(r, k), s.stream, r, k)
      BY SegmentFields, GivenStream
    <2> QED BY <2>1 DEF Continues
  <1>8. PICK u : u = GivenTo(s, r, t, k, d)
    OBVIOUS
  <1>9. u = [s EXCEPT !.disk = d, !.mtime = m, !.stream = v, !.acked = a,
                      !.sound = c, !.torn = x, !.last = l]
    BY <1>2, <1>3, <1>4, <1>5, <1>6, <1>7, <1>8 DEF GivenTo, Flushed, SegmentSet
  <1>10. /\ u.disk = d /\ u.mtime = m /\ u.stream = v /\ u.acked = a /\ u.sound = c
         /\ u.torn = x /\ u.last = l /\ u.sec = s.sec /\ u.n = s.n /\ u.proc = s.proc
         /\ u.done = s.done
    BY <1>9 DEF SegmentSet
  <1>11. u \in SegmentSet
    BY <1>9 DEF SegmentSet
  <1> QED BY <1>2, <1>3, <1>4, <1>5, <1>6, <1>7, <1>8, <1>10, <1>11 DEF GivenOf

\* write_record: both chunks, or fewer when a call fails; either way the stream stays
\* framed.
LEMMA GivenFramed ==
  ASSUME NEW s \in SegmentSet, Framed(s), ~s.done, NEW r \in Recs, NEW k \in 0..2,
         NEW u \in SegmentSet, u.stream = s.stream \o Given(r, k), u.disk <= Len(u.stream),
         u.acked = IF k = 2 THEN Append(s.acked, r) ELSE s.acked,
         u.sound = IF k = 2 /\ ~s.torn THEN s.sound + 1 ELSE s.sound,
         u.torn = (s.torn \/ k = 1), u.done = s.done
  PROVE  Framed(u)
  <1>1. PICK n \in Nat : n = Len(s.stream)
    BY SegmentFields
  <1>2. PICK v \in Seq(ChunkSet) : v = u.stream
    BY SegmentFields
  <1>3. /\ Len(v) = n + k
        /\ \A j \in 1..n : v[j] = s.stream[j]
        /\ k >= 1 => v[n + 1].rec = r /\ v[n + 1].part = "len"
        /\ k = 2 => v[n + 2].rec = r /\ v[n + 2].part = "payload"
    <2>1. Continues(s.stream \o Given(r, k), s.stream, r, k)
      BY SegmentFields, GivenStream
    <2>2. Continues(v, s.stream, r, k)
      BY <1>2, <2>1
    <2> QED BY <1>1, <2>2 DEF Continues
  <1>4. PICK b \in Nat : b = Len(s.acked)
    BY SegmentFields
  <1>5. PICK a \in Seq(Recs) : a = u.acked
    BY SegmentFields
  <1>6. /\ Len(a) = IF k = 2 THEN b + 1 ELSE b
        /\ \A j \in 1..b : a[j] = s.acked[j]
        /\ k = 2 => a[b + 1] = r
    BY <1>4, <1>5, SegmentFields, AckedStream
  <1>7. PICK q \in Nat : q = s.sound
    BY SegmentFields
  <1>8. PICK c \in Nat : c = u.sound
    BY SegmentFields
  <1>9. q <= b /\ 2 * q <= n
    BY <1>1, <1>4, <1>7 DEF Framed
  <1>10. ~s.torn => b = q /\ n = 2 * q
    BY <1>1, <1>4, <1>7 DEF Framed
  <1>11. s.torn => /\ n >= 2 * q + 1 /\ s.stream[2 * q + 1].part = "len"
                   /\ n >= 2 * q + 2 => s.stream[2 * q + 2].part = "len"
    BY <1>1, <1>7 DEF Framed
  <1>12. s.torn \in BOOLEAN /\ u.torn \in BOOLEAN /\ ~u.done
    BY SegmentFields
  <1>13. ASSUME NEW j \in 1..q
         PROVE  /\ v[2 * j - 1].rec = a[j] /\ v[2 * j - 1].part = "len"
                /\ v[2 * j].rec = a[j] /\ v[2 * j].part = "payload"
    <2>1. 2 * j - 1 \in 1..n /\ 2 * j \in 1..n /\ j \in 1..b
      BY <1>9
    <2>2. /\ v[2 * j - 1] = s.stream[2 * j - 1] /\ v[2 * j] = s.stream[2 * j]
          /\ a[j] = s.acked[j]
      BY <1>3, <1>6, <2>1
    <2>3. /\ s.stream[2 * j - 1].rec = s.acked[j] /\ s.stream[2 * j - 1].part = "len"
          /\ s.stream[2 * j].rec = s.acked[j] /\ s.stream[2 * j].part = "payload"
      BY <1>7 DEF Framed
    <2> QED BY <2>2, <2>3
  <1>14. SUFFICES /\ c <= Len(a) /\ 2 * c <= Len(v)
                  /\ \A j \in 1..c :
                       /\ v[2 * j - 1].rec = a[j] /\ v[2 * j - 1].part = "len"
                       /\ v[2 * j].rec = a[j] /\ v[2 * j].part = "payload"
                  /\ ~u.torn => Len(a) = c /\ Len(v) = 2 * c
                  /\ u.torn => /\ Len(v) >= 2 * c + 1
                               /\ v[2 * c + 1].part = "len"
                               /\ Len(v) >= 2 * c + 2 => v[2 * c + 2].part = "len"
    BY <1>2, <1>5, <1>8, <1>12 DEF Framed
  <1>15. CASE s.torn
    <2>1. c = q /\ u.torn
      BY <1>7, <1>8, <1>15
    <2>2. Len(a) >= b
      BY <1>6
    <2>3. Len(v) >= 2 * q + 1 /\ v[2 * q + 1].part = "len"
      <3>1. 2 * q + 1 \in 1..n
        BY <1>11, <1>15
      <3>2. v[2 * q + 1] = s.stream[2 * q + 1]
        BY <1>3, <3>1
      <3>3. Len(v) >= 2 * q + 1
        BY <1>3, <3>1
      <3> QED BY <1>11, <1>15, <3>2, <3>3
    <2>4. ASSUME Len(v) >= 2 * q + 2 PROVE v[2 * q + 2].part = "len"
      <3>1. CASE n >= 2 * q + 2
        <4>1. 2 * q + 2 \in 1..n
          BY <3>1
        <4>2. v[2 * q + 2] = s.stream[2 * q + 2]
          BY <1>3, <4>1
        <4> QED BY <1>11, <1>15, <3>1, <4>2
      <3>2. CASE n = 2 * q + 1
        <4>1. n + 1 = 2 * q + 2 /\ k >= 1
          BY <1>3, <2>4, <3>2
        <4> QED BY <1>3, <4>1
      <3> QED BY <1>11, <1>15, <3>1, <3>2
    <2>5. q <= Len(a) /\ 2 * q <= Len(v)
      BY <1>3, <1>5, <1>9, <2>2
    <2> QED BY <1>13, <2>1, <2>3, <2>4, <2>5
  <1>16. CASE ~s.torn /\ k = 2
    <2>1. c = q + 1 /\ ~u.torn /\ Len(a) = b + 1 /\ Len(v) = n + 2 /\ b = q /\ n = 2 * q
      <3>1. c = q + 1
        BY <1>7, <1>8, <1>16
      <3>2. ~u.torn
        <4>1. k # 1
          BY <1>16
        <4> QED BY <1>12, <1>16, <4>1, Zenon
      <3>3. Len(a) = b + 1 /\ Len(v) = n + 2
        BY <1>3, <1>6, <1>16
      <3> QED BY <1>10, <1>16, <3>1, <3>2, <3>3
    <2>2. 2 * c - 1 = n + 1 /\ 2 * c = n + 2 /\ a[c] = r
      BY <1>6, <1>16, <2>1
    <2>3. /\ v[2 * c - 1].rec = a[c] /\ v[2 * c - 1].part = "len"
          /\ v[2 * c].rec = a[c] /\ v[2 * c].part = "payload"
      BY <1>3, <1>16, <2>2
    <2>4. \A j \in 1..c : j \in 1..q \/ j = c
      BY <2>1
    <2>5. Len(a) = c /\ Len(v) = 2 * c
      BY <2>1
    <2>6. \A j \in 1..c :
            /\ v[2 * j - 1].rec = a[j] /\ v[2 * j - 1].part = "len"
            /\ v[2 * j].rec = a[j] /\ v[2 * j].part = "payload"
      BY <1>13, <2>3, <2>4
    <2> QED BY <2>1, <2>5, <2>6
  <1>17. CASE ~s.torn /\ k = 1
    <2>1. c = q /\ u.torn /\ Len(a) = b /\ Len(v) = n + 1 /\ b = q /\ n = 2 * q
      <3>1. c = q
        BY <1>7, <1>8, <1>17
      <3>2. u.torn
        <4>1. k = 1
          BY <1>17
        <4> QED BY <1>12, <1>17, <4>1, Zenon
      <3>3. Len(a) = b /\ Len(v) = n + 1
        BY <1>3, <1>6, <1>17
      <3> QED BY <1>10, <1>17, <3>1, <3>2, <3>3
    <2>2. v[2 * q + 1].part = "len"
      BY <1>3, <1>17, <2>1
    <2> QED BY <1>13, <2>1, <2>2
  <1>18. CASE ~s.torn /\ k = 0
    <2>1. c = q /\ ~u.torn /\ Len(a) = b /\ Len(v) = n /\ b = q /\ n = 2 * q
      <3>1. c = q
        BY <1>7, <1>8, <1>18
      <3>2. ~u.torn
        <4>1. k # 1
          BY <1>18
        <4> QED BY <1>12, <1>18, <4>1, Zenon
      <3>3. Len(a) = b /\ Len(v) = n
        BY <1>3, <1>6, <1>18
      <3> QED BY <1>10, <1>18, <3>1, <3>2, <3>3
    <2> QED BY <1>13, <2>1
  <1>19. k = 0 \/ k = 1 \/ k = 2
    OBVIOUS
  <1> QED BY <1>15, <1>16, <1>17, <1>18, <1>19

\* write_record changes its segment in place.
LEMMA AppendGrown ==
  ASSUME CaptureTypes, NEW s \in SegmentSet, Framed(s), Timed(s), ~s.done, NEW r \in Recs,
         NEW t \in Nat, t < Ticks(s.sec + RotateSecs), NEW k \in 0..2, NEW d \in Nat,
         d <= Len(s.stream \o Given(r, k))
  PROVE  Grown(s, GivenTo(s, r, t, k, d)) /\ ~GivenTo(s, r, t, k, d).done
  <1>1. PICK u : u = GivenTo(s, r, t, k, d)
    OBVIOUS
  <1>2. /\ u \in SegmentSet
        /\ u.disk = d /\ u.stream = s.stream \o Given(r, k)
        /\ u.acked = IF k = 2 THEN Append(s.acked, r) ELSE s.acked
        /\ u.sound = IF k = 2 /\ ~s.torn THEN s.sound + 1 ELSE s.sound
        /\ u.torn = (s.torn \/ k = 1)
        /\ u.last = IF k = 2 THEN t ELSE s.last
        /\ u.mtime = IF d > s.disk THEN now ELSE s.mtime
        /\ u.sec = s.sec /\ u.n = s.n /\ u.proc = s.proc /\ u.done = s.done
    <2>1. GivenOf(u, s, r, t, k, d)
      BY <1>1, GivenFields
    <2> QED BY <2>1 DEF GivenOf
  <1>3. Framed(u)
    BY <1>2, GivenFramed
  <1>4. Timed(u)
    <2>1. Ticks(s.sec) <= now
      BY Seconds, SegmentFields DEF Timed
    <2> QED BY <1>2, <2>1 DEF Timed
  <1>5. s.acked # <<>> => u.acked # <<>>
    <2>1. PICK b \in Seq(Recs) : b = s.acked
      BY SegmentFields
    <2>2. PICK a : a = u.acked /\ a = IF k = 2 THEN Append(b, r) ELSE b
      BY <1>2, <2>1
    <2> QED BY <2>1, <2>2, AckedStream
  <1> QED BY <1>1, <1>2, <1>3, <1>4, <1>5 DEF Grown

\* Types of the writer's and of the janitor's fields.
LEMMA WriterFields ==
  ASSUME NEW w \in WriterSet
  PROVE  /\ w.pc \in {"down", "idle", "rotate", "finish", "append", "last", "over"}
         /\ w.seg \in Nat /\ w.old \in Nat /\ w.counter \in Nat /\ w.rotate_at \in Nat
         /\ w.rec \in Nat /\ w.t \in Nat /\ w.started \in Nat
  BY DEF WriterSet

\* The fields of the janitor's record, typed.
LEMMA JanitorFields ==
  ASSUME NEW j \in JanitorSet
  PROVE  /\ j.pc \in {"idle", "stat", "age", "evict"} /\ j.todo \in SUBSET (Nat \cup Files)
         /\ j.entries \in SUBSET Files /\ j.total \in Nat /\ j.at \in Nat
         /\ j.failed \in BOOLEAN
  BY DEF JanitorSet

\* At the start there is no file and no process.
LEMMA CaptureInitBase == CaptureInit => CaptureBase
  <1> SUFFICES ASSUME CaptureInit PROVE CaptureBase
    OBVIOUS
  <1>1. Down \in WriterSet /\ Down.pc = "down"
    BY DEF Down, WriterSet
  <1>2. /\ Resting \in JanitorSet /\ Resting.entries = {} /\ Resting.pc = "idle"
    BY DEF Resting, JanitorSet
  <1>3. CaptureTypes
    BY <1>1, <1>2, CaptureAssumption DEF CaptureInit, CaptureTypes
  <1>4. SweepFacts
    BY <1>2, FS_EmptySet DEF CaptureInit, SweepFacts
  <1>5. DOMAIN segs = {}
    BY DEF CaptureInit
  <1> QED BY <1>1, <1>3, <1>4, <1>5 DEF CaptureInit, CaptureBase

\* What open_segment does: file i is new, or it had the name already and is emptied.
Opened(i, p) ==
    /\ segs' \in Seq(SegmentSet) /\ DOMAIN segs' = DOMAIN segs \cup {i}
    /\ segs'[i] = NewSegment(Number, p)
    /\ \A j \in DOMAIN segs : j # i => segs'[j] = segs[j]
    /\ i \in DOMAIN segs => i \in dir /\ segs[i].sec = UnixNow /\ segs[i].n = Number
    /\ dir' = dir \cup {i}
    /\ i \in Nat

\* The writer with file i.
Using(w, i) == [w EXCEPT !.seg = i, !.counter = @ + 1, !.rotate_at = UnixNow + RotateSecs]

\* open_segment opens a file.
LEMMA OpenEffect ==
  ASSUME CaptureTypes, NEW w, NEW p \in Nat, OpenSegment(w, p)
  PROVE  \E i : Opened(i, p) /\ writer' = Using(w, i)
  <1>1. Number \in Nat /\ segs \in Seq(SegmentSet) /\ dir \subseteq DOMAIN segs
    BY WriterFields DEF CaptureTypes, Number
  <1>2. PICK s \in SegmentSet : s = NewSegment(Number, p)
    BY <1>1, NewSegmentFacts DEF NewlyMade
  <1>3. PICK same : same = Namesake(Number)
    OBVIOUS
  <1>4. CASE same = {}
    <2>1. PICK i \in Nat : i = Len(segs) + 1
      BY <1>1
    <2>2. segs' = Append(segs, s) /\ dir' = dir \cup {i} /\ writer' = Using(w, i)
      BY <1>2, <1>3, <1>4, <2>1 DEF OpenSegment, Using
    <2>3. /\ segs' \in Seq(SegmentSet) /\ DOMAIN segs' = DOMAIN segs \cup {i} /\ segs'[i] = s
          /\ \A j \in DOMAIN segs : segs'[j] = segs[j]
          /\ i \notin DOMAIN segs
      BY <1>1, <2>1, <2>2
    <2> QED BY <1>2, <2>2, <2>3 DEF Opened
  <1>5. CASE same # {}
    <2>1. PICK i : i = CHOOSE j \in same : TRUE
      OBVIOUS
    <2>2. i \in same
      BY <1>5, <2>1
    <2>3. /\ i \in dir /\ i \in DOMAIN segs /\ i \in Nat /\ i \in 1..Len(segs)
          /\ segs[i].sec = UnixNow /\ segs[i].n = Number
      BY <1>1, <1>3, <2>2 DEF Namesake
    <2>4. segs' = [segs EXCEPT ![i] = s] /\ dir' = dir \cup {i} /\ writer' = Using(w, i)
      BY <1>2, <1>3, <1>5, <2>1 DEF OpenSegment, Using
    <2>5. PICK z : z = [segs EXCEPT ![i] = s]
      OBVIOUS
    <2>6. /\ z \in Seq(SegmentSet) /\ Len(z) = Len(segs) /\ z[i] = s
          /\ \A j \in 1..Len(segs) : j # i => z[j] = segs[j]
      BY <1>1, <2>3, <2>5, Replaced
    <2>7. DOMAIN z = DOMAIN segs \cup {i}
      <3>1. DOMAIN z = 1..Len(segs) /\ DOMAIN segs = 1..Len(segs)
        BY <1>1, <2>6
      <3> QED BY <2>3, <3>1
    <2> QED BY <1>1, <1>2, <2>3, <2>4, <2>5, <2>6, <2>7 DEF Opened
  <1> QED BY <1>4, <1>5

\* The files after open_segment, and a sweep that is under way.
LEMMA OpenedFiles ==
  ASSUME CaptureBase, NEW i, Opened(i, restarts'), now' = now, restarts' \in Nat,
         restarts <= restarts'
  PROVE  /\ \A j \in DOMAIN segs' : Framed(segs'[j]) /\ Timed(segs[j])'
         /\ segs'[i].sec = UnixNow /\ segs'[i].n = Number /\ segs'[i].proc = restarts'
         /\ ~segs'[i].done /\ Number \in Nat
         /\ \A j \in DOMAIN segs : segs'[j].sec = segs[j].sec
         /\ dir' \subseteq DOMAIN segs'
         /\ janitor' = janitor => SweepFacts'
  <1>1. /\ CaptureTypes /\ segs \in Seq(SegmentSet) /\ now \in Nat /\ dir \subseteq DOMAIN segs
        /\ restarts \in Nat /\ Number \in Nat
    BY CaptureAssumption, WriterFields DEF CaptureBase, CaptureTypes, Number
  <1>2. PICK s \in SegmentSet :
          /\ s = segs'[i] /\ Framed(s) /\ s.sec = UnixNow /\ s.n = Number /\ s.proc = restarts'
          /\ s.mtime = now /\ s.last = now /\ s.done = FALSE
    <2>1. PICK n \in Nat, p \in Nat : n = Number /\ p = restarts'
      BY <1>1, Zenon
    <2>2. PICK s : s = NewSegment(n, p)
      OBVIOUS
    <2>3. NewlyMade(s, n, p)
      BY <1>1, <2>2, NewSegmentFacts, Zenon
    <2>4. s = segs'[i]
      BY <2>1, <2>2, Zenon DEF Opened
    <2> QED BY <2>1, <2>3, <2>4, Zenon DEF NewlyMade
  <1>3. Timed(s)'
    <2>1. UnixNow + RotateSecs \in Nat /\ ~(UnixNow + RotateSecs <= UnixNow)
      <3>1. UnixNow \in Nat /\ RotateSecs \in Nat \ {0}
        BY <1>1, Seconds, CaptureAssumption
      <3> QED BY <3>1
    <2>2. Ticks(UnixNow) <= now /\ now < Ticks(UnixNow + RotateSecs)
      <3>1. Ticks(UnixNow) <= now
        BY <1>1, Seconds
      <3>2. ~(Ticks(UnixNow + RotateSecs) <= now) /\ Ticks(UnixNow + RotateSecs) \in Nat
        BY <1>1, <2>1, Seconds
      <3> QED BY <1>1, <3>1, <3>2
    <2>3. UnixNow' = UnixNow /\ UnixNow \in Nat
      BY <1>1, Seconds DEF UnixNow
    <2> QED BY <1>1, <1>2, <2>2, <2>3 DEF Timed
  <1>4. ASSUME NEW j \in DOMAIN segs'
        PROVE  Framed(segs'[j]) /\ Timed(segs[j])'
    <2>1. CASE j = i
      BY <1>2, <1>3, <2>1 DEF Timed
    <2>2. CASE j # i
      <3>1. j \in DOMAIN segs /\ segs'[j] = segs[j] /\ Framed(segs[j]) /\ Timed(segs[j])
        BY <2>2 DEF Opened, CaptureBase
      <3>2. segs[j].proc \in Nat
        BY <1>1, <3>1, SegmentFields
      <3> QED BY <1>1, <3>1, <3>2 DEF Timed, UnixNow
    <2> QED BY <2>1, <2>2
  <1>5. \A j \in DOMAIN segs : segs'[j].sec = segs[j].sec
    BY <1>2 DEF Opened
  <1>6. dir' \subseteq DOMAIN segs' /\ dir \subseteq dir' /\ DOMAIN segs \subseteq DOMAIN segs'
    BY <1>1 DEF Opened
  <1>7. ASSUME janitor' = janitor PROVE SweepFacts'
    BY <1>5, <1>6, <1>7 DEF SweepFacts, CaptureBase
  <1>8. /\ segs'[i].sec = UnixNow /\ segs'[i].n = Number /\ segs'[i].proc = restarts'
        /\ ~segs'[i].done
    BY <1>2
  <1> QED BY <1>1, <1>4, <1>5, <1>6, <1>7, <1>8

\* u is the writer w but for its file, its counter and the time of its next rotation.
UsesFile(u, w, i) ==
    /\ u \in WriterSet /\ u.seg = i /\ u.counter = w.counter + 1
    /\ u.rotate_at = UnixNow + RotateSecs
    /\ u.pc = w.pc /\ u.old = w.old /\ u.rec = w.rec /\ u.t = w.t /\ u.started = w.started

\* The writer with its new file.
LEMMA UsingFields ==
  ASSUME CaptureTypes, NEW w \in WriterSet, NEW i \in Nat
  PROVE  UsesFile(Using(w, i), w, i)
  <1>1. UnixNow + RotateSecs \in Nat /\ w.counter + 1 \in Nat
    BY CaptureAssumption, Seconds, WriterFields
  <1> QED BY <1>1 DEF Using, WriterSet, UsesFile

\* CaptureWriter::open: every earlier file is of an earlier process.
LEMMA StartBase == CaptureBase /\ Start => CaptureBase'
  <1> SUFFICES ASSUME CaptureBase, Start PROVE CaptureBase'
    OBVIOUS
  <1>1. /\ CaptureTypes /\ segs \in Seq(SegmentSet) /\ now \in Nat /\ restarts \in Nat
        /\ writer \in WriterSet /\ writer = Down
    BY CaptureAssumption DEF CaptureBase, CaptureTypes, Start
  <1>2. PICK w : w = [writer EXCEPT !.pc = "idle", !.started = UnixNow]
    OBVIOUS
  <1>3. /\ w \in WriterSet /\ w.pc = "idle" /\ w.started = UnixNow /\ w.counter = writer.counter
    BY <1>1, <1>2, Seconds DEF WriterSet
  <1>4. /\ restarts' = restarts + 1 /\ now' = now /\ OpenSegment(w, restarts') /\ janitor' = janitor
        /\ next' = next /\ faults' = faults /\ sweeps' = sweeps
    BY <1>2 DEF Start
  <1>5. restarts' \in Nat /\ restarts <= restarts'
    BY <1>1, <1>4
  <1>6. PICK i : Opened(i, restarts') /\ writer' = Using(w, i)
    BY <1>1, <1>4, <1>5, OpenEffect
  <1>7. /\ \A j \in DOMAIN segs' : Framed(segs'[j]) /\ Timed(segs[j])'
        /\ segs'[i].sec = UnixNow /\ segs'[i].n = Number /\ segs'[i].proc = restarts'
        /\ ~segs'[i].done /\ Number \in Nat
        /\ dir' \subseteq DOMAIN segs' /\ SweepFacts'
    BY <1>4, <1>5, <1>6, OpenedFiles
  <1>8. /\ writer' \in WriterSet /\ writer'.seg = i /\ writer'.counter = Number + 1
        /\ writer'.rotate_at = UnixNow + RotateSecs /\ writer'.pc = "idle"
        /\ writer'.started = UnixNow
    <2>1. i \in Nat
      BY <1>6 DEF Opened
    <2>2. PICK u : u = Using(w, i)
      OBVIOUS
    <2>3. UsesFile(u, w, i)
      BY <1>1, <1>3, <2>1, <2>2, UsingFields, Zenon
    <2> QED BY <1>1, <1>3, <1>6, <2>2, <2>3 DEF Number, UsesFile
  <1>9. CaptureTypes'
    BY <1>1, <1>4, <1>5, <1>6, <1>7, <1>8 DEF CaptureTypes, Opened
  <1>10. ASSUME NEW j \in DOMAIN segs'
         PROVE  /\ segs'[j].proc = restarts' => segs'[j].n < writer'.counter
                /\ segs'[j].proc < restarts' => segs'[j].sec <= writer'.started
    <2>1. CASE j = i
      <3>1. UnixNow \in Nat /\ UnixNow <= UnixNow
        BY <1>1, Seconds
      <3> QED BY <1>1, <1>7, <1>8, <2>1, <3>1
    <2>2. CASE j # i
      <3>1. j \in DOMAIN segs /\ segs'[j] = segs[j] /\ Timed(segs[j])
        BY <1>6, <2>2 DEF Opened, CaptureBase
      <3>2. segs[j].proc \in Nat
        BY <1>1, <3>1, SegmentFields
      <3> QED BY <1>1, <1>4, <1>8, <3>1, <3>2 DEF Timed
    <2> QED BY <2>1, <2>2
  <1>11. WriterFacts'
    <2>1. i \in DOMAIN segs'
      BY <1>6 DEF Opened
    <2>2. UnixNow' = UnixNow
      BY <1>4 DEF UnixNow
    <2>3. UnixNow \in Nat
      BY <1>1, Seconds
    <2>4. ~segs'[i].done /\ segs'[i].proc = restarts' /\ segs'[i].sec = UnixNow
      BY <1>7
    <2>5. writer'.started <= UnixNow'
      BY <1>8, <2>2, <2>3
    <2> QED BY <1>8, <1>10, <2>1, <2>4, <2>5 DEF WriterFacts
  <1> QED BY <1>7, <1>8, <1>9, <1>11 DEF CaptureBase

\* A running writer opens its next file: within a process no name is used twice.
LEMMA ReopenFacts ==
  ASSUME CaptureBase, writer.pc # "down", NEW w \in WriterSet, OpenSegment(w, restarts),
         w.counter = writer.counter, w.started = writer.started, w.old = writer.seg,
         \/ w.pc = "finish" /\ w.t <= now /\ w.rec \in Recs
         \/ w.pc = "last",
         UNCHANGED <<now, janitor, next, faults, restarts, sweeps>>
  PROVE  CaptureBase'
  <1>1. /\ CaptureTypes /\ segs \in Seq(SegmentSet) /\ now \in Nat /\ restarts \in Nat
        /\ writer \in WriterSet /\ WriterFacts
    BY CaptureAssumption DEF CaptureBase, CaptureTypes
  <1>2. PICK i : Opened(i, restarts') /\ writer' = Using(w, i)
    BY <1>1, OpenEffect
  <1>3. /\ \A j \in DOMAIN segs' : Framed(segs'[j]) /\ Timed(segs[j])'
        /\ segs'[i].sec = UnixNow /\ segs'[i].n = Number /\ segs'[i].proc = restarts'
        /\ ~segs'[i].done /\ Number \in Nat
        /\ dir' \subseteq DOMAIN segs' /\ SweepFacts'
    BY <1>1, <1>2, OpenedFiles
  <1>4. /\ writer' \in WriterSet /\ writer'.seg = i /\ writer'.counter = Number + 1
        /\ writer'.rotate_at = UnixNow + RotateSecs /\ writer'.started = writer.started
        /\ writer'.pc = w.pc /\ writer'.old = writer.seg
        /\ writer'.t = w.t /\ writer'.rec = w.rec
    <2>1. i \in Nat
      BY <1>2 DEF Opened
    <2>2. PICK u : u = Using(w, i)
      OBVIOUS
    <2>3. UsesFile(u, w, i)
      BY <1>1, <2>1, <2>2, UsingFields, Zenon
    <2> QED BY <1>1, <1>2, <2>2, <2>3 DEF Number, UsesFile
  <1>5. CaptureTypes'
    BY <1>1, <1>2, <1>3, <1>4 DEF CaptureTypes, Opened
  <1>6. ASSUME NEW j \in DOMAIN segs'
        PROVE  /\ segs'[j].proc = restarts' => segs'[j].n < writer'.counter
               /\ segs'[j].proc < restarts' => segs'[j].sec <= writer'.started
    <2>1. CASE j = i
      BY <1>1, <1>3, <1>4, <2>1
    <2>2. CASE j # i
      <3>1. /\ j \in DOMAIN segs /\ segs'[j] = segs[j]
            /\ segs[j].proc = restarts => segs[j].n < writer.counter
            /\ segs[j].proc < restarts => segs[j].sec <= writer.started
        BY <1>1, <1>2, <2>2 DEF Opened, WriterFacts
      <3>2. segs[j].n \in Nat
        BY <1>1, <3>1, SegmentFields
      <3> QED BY <1>3, <1>4, <3>1, <3>2 DEF Number
    <2> QED BY <2>1, <2>2
  <1>7. writer.seg \in DOMAIN segs /\ writer.seg # i
    <2>1. writer.seg \in DOMAIN segs /\ segs[writer.seg].n < writer.counter
      BY <1>1 DEF WriterFacts
    <2>2. i \in DOMAIN segs => segs[i].n = writer.counter
      BY <1>2 DEF Opened, Number
    <2>3. writer.counter \in Nat
      BY <1>1, WriterFields
    <2> QED BY <2>1, <2>2, <2>3
  <1>8. WriterFacts'
    <2>1. i \in DOMAIN segs' /\ writer.seg \in DOMAIN segs'
      BY <1>2, <1>7 DEF Opened
    <2>2. writer'.pc \in {"finish", "append"} => writer'.t < Ticks(writer'.rotate_at)
      <3>1. writer'.t \in Nat
        BY <1>4, WriterFields
      <3>2. /\ UnixNow \in Nat /\ UnixNow + RotateSecs \in Nat
            /\ ~(UnixNow + RotateSecs <= UnixNow)
        <4>1. UnixNow \in Nat /\ RotateSecs \in Nat \ {0}
          BY <1>1, Seconds, CaptureAssumption
        <4> QED BY <4>1
      <3>3. now < Ticks(UnixNow + RotateSecs) /\ Ticks(UnixNow + RotateSecs) \in Nat
        BY <1>1, <3>2, Seconds
      <3>4. writer'.pc \in {"finish", "append"} => writer'.t <= now
        BY <1>4
      <3> QED BY <1>1, <1>4, <3>1, <3>3, <3>4
    <2>3. writer'.started <= UnixNow'
      BY <1>1, <1>4 DEF WriterFacts, UnixNow
    <2>4. writer'.pc # "rotate" /\ (writer'.pc = "finish" => writer'.rec \in Recs)
          /\ writer'.pc # "append"
      BY <1>4
    <2> QED BY <1>3, <1>4, <1>6, <1>7, <2>1, <2>2, <2>3, <2>4 DEF WriterFacts
  <1>9. writer'.pc # "down"
    BY <1>4
  <1> QED BY <1>3, <1>5, <1>8, <1>9 DEF CaptureBase

\* A step of the writer that leaves the files alone.
LEMMA WriterStep ==
  ASSUME CaptureBase, writer.pc # "down", NEW w \in WriterSet, writer' = w,
         w.seg = writer.seg, w.rotate_at = writer.rotate_at, w.started = writer.started,
         w.counter >= writer.counter,
         w.pc \notin {"down", "finish", "last"},
         w.pc = "rotate" => w.t <= now,
         w.pc = "append" => w.t < Ticks(w.rotate_at),
         w.pc \in {"rotate", "append"} => w.rec \in Recs,
         UNCHANGED <<now, segs, dir, janitor, restarts, sweeps>>,
         faults' \in Nat, next' \in Nat \ {0}
  PROVE  CaptureBase'
  <1>1. /\ CaptureTypes /\ segs \in Seq(SegmentSet) /\ writer \in WriterSet /\ WriterFacts
    BY DEF CaptureBase, CaptureTypes
  <1>2. CaptureTypes'
    BY <1>1 DEF CaptureTypes
  <1>3. \A j \in DOMAIN segs : segs[j].proc = restarts => segs[j].n < w.counter
    <2> SUFFICES ASSUME NEW j \in DOMAIN segs, segs[j].proc = restarts
                 PROVE  segs[j].n < w.counter
      OBVIOUS
    <2>1. segs[j].n < writer.counter
      BY <1>1 DEF WriterFacts
    <2>2. segs[j].n \in Nat /\ writer.counter \in Nat /\ w.counter \in Nat
      BY <1>1, SegmentFields, WriterFields
    <2> QED BY <2>1, <2>2
  <1>4. WriterFacts'
    BY <1>1, <1>3 DEF WriterFacts, UnixNow
  <1>5. \A j \in DOMAIN segs' : Framed(segs'[j]) /\ Timed(segs[j])'
    BY DEF CaptureBase, Timed, UnixNow
  <1>6. SweepFacts'
    BY DEF CaptureBase, SweepFacts
  <1> QED BY <1>2, <1>4, <1>5, <1>6 DEF CaptureBase

\* One file changes in place, and the writer goes on.
LEMMA EditStep ==
  ASSUME CaptureBase, writer.pc # "down",
         NEW k \in DOMAIN segs, NEW u, Grown(segs[k], u), segs' = [segs EXCEPT ![k] = u],
         k = writer.seg => ~u.done,
         NEW w \in WriterSet, writer' = w,
         w.seg = writer.seg, w.rotate_at = writer.rotate_at, w.started = writer.started,
         w.counter = writer.counter,
         w.pc \notin {"down", "rotate", "finish", "last"},
         w.pc = "append" => w.t < Ticks(w.rotate_at) /\ w.rec \in Recs,
         UNCHANGED <<now, dir, janitor, next, restarts, sweeps>>, faults' \in Nat
  PROVE  CaptureBase'
  <1>1. /\ CaptureTypes /\ segs \in Seq(SegmentSet) /\ writer \in WriterSet /\ WriterFacts
        /\ k \in 1..Len(segs) /\ u \in SegmentSet
    BY DEF CaptureBase, CaptureTypes, Grown
  <1>2. /\ segs' \in Seq(SegmentSet) /\ Len(segs') = Len(segs) /\ segs'[k] = u
        /\ \A j \in 1..Len(segs) : j # k => segs'[j] = segs[j]
    BY <1>1, Replaced
  <1>3. DOMAIN segs' = DOMAIN segs
    BY <1>1, <1>2
  <1>4. \A j \in DOMAIN segs :
          segs'[j].sec = segs[j].sec /\ segs'[j].n = segs[j].n /\ segs'[j].proc = segs[j].proc
    BY <1>1, <1>2 DEF Grown
  <1>5. \A j \in DOMAIN segs' : Framed(segs'[j]) /\ Timed(segs[j])'
    <2> TAKE j \in DOMAIN segs'
    <2>1. CASE j = k
      BY <1>2, <2>1 DEF Grown, Timed, UnixNow
    <2>2. CASE j # k
      <3>1. segs'[j] = segs[j] /\ j \in DOMAIN segs
        BY <1>1, <1>2, <1>3, <2>2
      <3> QED BY <3>1 DEF CaptureBase, Timed, UnixNow
    <2> QED BY <2>1, <2>2
  <1>6. CaptureTypes'
    BY <1>1, <1>2, <1>3 DEF CaptureTypes
  <1>7. SweepFacts'
    BY <1>3, <1>4 DEF CaptureBase, SweepFacts
  <1>8. ~segs'[writer.seg].done
    BY <1>1, <1>2 DEF WriterFacts
  <1>9. WriterFacts'
    BY <1>1, <1>3, <1>4, <1>8 DEF WriterFacts, UnixNow
  <1> QED BY <1>5, <1>6, <1>7, <1>9 DEF CaptureBase

\* An open writer after a dropped record.
LEMMA DroppedFields ==
  ASSUME NEW w \in WriterSet, writer = w
  PROVE  /\ Dropped \in WriterSet /\ Dropped.pc = "idle" /\ Dropped.seg = w.seg
         /\ Dropped.counter = w.counter /\ Dropped.rotate_at = w.rotate_at
         /\ Dropped.started = w.started
  BY DEF Dropped, WriterSet

\* A failing call.
LEMMA FailsType == CaptureBase /\ Fails => faults' \in Nat
  BY DEF CaptureBase, CaptureTypes, Fails

\* A failed open: the counter moved on.
LEMMA OpenFailsBase ==
  ASSUME CaptureBase, writer.pc # "down", NEW w \in WriterSet, OpenFails(w),
         w.seg = writer.seg, w.counter = writer.counter, w.rotate_at = writer.rotate_at,
         w.started = writer.started, w.pc \in {"idle", "over"},
         UNCHANGED <<now, janitor, next, restarts, sweeps>>
  PROVE  CaptureBase'
  <1>1. PICK v : v = [w EXCEPT !.counter = @ + 1]
    OBVIOUS
  <1>2. w.counter \in Nat
    BY WriterFields
  <1>3. /\ v \in WriterSet /\ v.seg = w.seg /\ v.counter = w.counter + 1
        /\ v.rotate_at = w.rotate_at /\ v.started = w.started /\ v.pc = w.pc
    BY <1>1, <1>2 DEF WriterSet
  <1>4. writer' = v /\ segs' = segs /\ dir' = dir /\ faults' \in Nat
    BY <1>1, FailsType DEF OpenFails
  <1>5. next' \in Nat \ {0}
    BY DEF CaptureBase, CaptureTypes
  <1>6. v.counter >= writer.counter
    BY <1>2, <1>3
  <1>7. v.pc \notin {"down", "finish", "last", "rotate", "append"}
    BY <1>3
  <1> QED BY <1>3, <1>4, <1>5, <1>6, <1>7, WriterStep

\* A transaction is received or skipped.
LEMMA RecvBase == CaptureBase /\ (Recv \/ Lagged) => CaptureBase'
  <1>1. CASE CaptureBase /\ Recv
    <2>1. /\ writer \in WriterSet /\ writer.pc = "idle" /\ now \in Nat /\ next \in Nat \ {0}
          /\ next <= MaxRecords /\ next' = next + 1
          /\ UNCHANGED <<now, segs, dir, janitor, restarts, sweeps>> /\ faults' = faults
          /\ faults \in Nat
      BY <1>1, CaptureAssumption DEF CaptureBase, CaptureTypes, Recv, counters
    <2>2. PICK v : v = [writer EXCEPT !.pc = IF Due THEN "rotate" ELSE "append",
                                      !.rec = next, !.t = now]
      OBVIOUS
    <2>3. /\ v \in WriterSet /\ v.seg = writer.seg /\ v.counter = writer.counter
          /\ v.rotate_at = writer.rotate_at /\ v.started = writer.started
          /\ v.rec = next /\ v.t = now /\ v.pc = (IF Due THEN "rotate" ELSE "append")
      BY <2>1, <2>2 DEF WriterSet
    <2>4. writer' = v
      BY <1>1, <2>2 DEF Recv
    <2>5. next \in Recs /\ next' \in Nat \ {0}
      BY <2>1, CaptureAssumption DEF Recs
    <2>6. v.pc = "append" => v.t < Ticks(v.rotate_at)
      <3>1. writer.rotate_at \in Nat
        BY <2>1, WriterFields
      <3>2. CaptureTypes /\ UnixNow \in Nat
        BY <1>1, Seconds DEF CaptureBase
      <3>3. v.pc = "append" => ~(writer.rotate_at <= UnixNow)
        BY <2>3, <3>1, <3>2 DEF Due
      <3>4. /\ Ticks(writer.rotate_at) \in Nat
            /\ writer.rotate_at <= UnixNow <=> Ticks(writer.rotate_at) <= now
        BY <3>1, <3>2, Seconds
      <3> QED BY <2>1, <2>3, <3>3, <3>4
    <2>7. v.pc = "rotate" => v.t <= now
      BY <2>1, <2>3
    <2>8. v.counter >= writer.counter
      BY <2>1, <2>3, WriterFields
    <2>9. writer.pc # "down" /\ v.pc \notin {"down", "finish", "last"}
      BY <2>1, <2>3
    <2> QED BY <1>1, <2>1, <2>3, <2>4, <2>5, <2>6, <2>7, <2>8, <2>9, WriterStep
  <1>2. CASE CaptureBase /\ Lagged
    <2>1. /\ writer \in WriterSet /\ writer.pc = "idle" /\ next' \in Nat \ {0}
          /\ UNCHANGED <<now, segs, dir, janitor, restarts, sweeps>> /\ faults' \in Nat
          /\ writer' = writer
      BY <1>2 DEF CaptureBase, CaptureTypes, Lagged, counters
    <2>2. writer.counter >= writer.counter
      BY <2>1, WriterFields
    <2>3. writer.pc \notin {"down", "finish", "last", "rotate", "append"}
      BY <2>1
    <2> QED BY <1>2, <2>1, <2>2, <2>3, WriterStep
  <1> QED BY <1>1, <1>2

\* A due segment is replaced, or the record dropped.
LEMMA RotateBase == CaptureBase /\ Rotate => CaptureBase'
  <1> SUFFICES ASSUME CaptureBase, Rotate PROVE CaptureBase'
    OBVIOUS
  <1>1. /\ writer \in WriterSet /\ writer.pc = "rotate" /\ WriterFacts
        /\ UNCHANGED <<now, janitor, next, restarts, sweeps>>
    BY DEF CaptureBase, CaptureTypes, Rotate
  <1>2. PICK v : v = [writer EXCEPT !.pc = "finish", !.old = writer.seg]
    OBVIOUS
  <1>3. /\ v \in WriterSet /\ v.seg = writer.seg /\ v.counter = writer.counter
        /\ v.started = writer.started /\ v.old = writer.seg /\ v.pc = "finish"
        /\ v.t = writer.t /\ v.rec = writer.rec
    BY <1>1, <1>2 DEF WriterSet
  <1>4. CASE OpenSegment(v, restarts) /\ UNCHANGED faults
    <2>1. v.t <= now /\ v.rec \in Recs
      BY <1>1, <1>3 DEF WriterFacts
    <2> QED BY <1>1, <1>3, <1>4, <2>1, ReopenFacts
  <1>5. CASE OpenFails(Dropped)
    BY <1>1, <1>5, DroppedFields, OpenFailsBase
  <1> QED BY <1>2, <1>4, <1>5 DEF Rotate

\* The placeholder of finalize.
LEMMA FinalizeBase == CaptureBase /\ Finalize => CaptureBase'
  <1> SUFFICES ASSUME CaptureBase, Finalize PROVE CaptureBase'
    OBVIOUS
  <1>1. /\ writer \in WriterSet /\ writer.pc = "idle"
        /\ UNCHANGED <<now, janitor, next, restarts, sweeps>>
    BY DEF CaptureBase, CaptureTypes, Finalize
  <1>2. PICK v : v = [writer EXCEPT !.pc = "last", !.old = writer.seg]
    OBVIOUS
  <1>3. /\ v \in WriterSet /\ v.seg = writer.seg /\ v.counter = writer.counter
        /\ v.started = writer.started /\ v.old = writer.seg /\ v.pc = "last"
    BY <1>1, <1>2 DEF WriterSet
  <1>4. CASE OpenSegment(v, restarts) /\ UNCHANGED faults
    BY <1>1, <1>3, <1>4, ReopenFacts
  <1>5. PICK x : x = [writer EXCEPT !.pc = "over"]
    OBVIOUS
  <1>6. /\ x \in WriterSet /\ x.seg = writer.seg /\ x.counter = writer.counter
        /\ x.rotate_at = writer.rotate_at /\ x.started = writer.started /\ x.pc = "over"
    BY <1>1, <1>5 DEF WriterSet
  <1>7. CASE OpenFails(x)
    BY <1>1, <1>6, <1>7, OpenFailsBase
  <1> QED BY <1>2, <1>4, <1>5, <1>7 DEF Finalize

\* encoder.finish(): the old file is finished or not, and only that file changes.
LEMMA FinishEffect ==
  ASSUME CaptureBase, writer.pc \in {"finish", "last"}, NEW then, NEW otherwise,
         Finish(then, otherwise)
  PROVE  /\ writer.old \in DOMAIN segs /\ writer.old # writer.seg
         /\ \E u : Grown(segs[writer.old], u) /\ segs' = [segs EXCEPT ![writer.old] = u]
         /\ writer' = then \/ writer' = otherwise
         /\ faults' \in Nat
  <1>1. /\ CaptureTypes /\ segs \in Seq(SegmentSet) /\ writer \in WriterSet /\ WriterFacts
        /\ faults \in Nat
    BY DEF CaptureBase, CaptureTypes
  <1>2. writer.old \in DOMAIN segs /\ writer.old # writer.seg
    BY <1>1 DEF WriterFacts
  <1>3. PICK s \in SegmentSet : s = segs[writer.old] /\ Framed(s) /\ Timed(s)
    BY <1>1, <1>2 DEF CaptureBase
  <1>4. CASE /\ segs' = [segs EXCEPT ![writer.old] =
                  [Flushed(s, Len(s.stream)) EXCEPT !.done = TRUE, !.mtime = now]]
             /\ writer' = then
             /\ UNCHANGED faults
    <2>1. Grown(s, [Flushed(s, Len(s.stream)) EXCEPT !.done = TRUE, !.mtime = now])
      BY <1>1, <1>3, FlushedGrown
    <2> QED BY <1>1, <1>2, <1>3, <1>4, <2>1
  <1>5. CASE /\ Fails
             /\ \E d \in s.disk..Len(s.stream) :
                  segs' = [segs EXCEPT ![writer.old] = Flushed(s, d)]
             /\ writer' = otherwise
    <2>1. PICK d \in s.disk..Len(s.stream) : segs' = [segs EXCEPT ![writer.old] = Flushed(s, d)]
      BY <1>5
    <2>2. Grown(s, Flushed(s, d))
      BY <1>1, <1>3, FlushedGrown
    <2>3. faults' \in Nat
      BY <1>5, FailsType
    <2> QED BY <1>2, <1>3, <1>5, <2>1, <2>2, <2>3
  <1> QED BY <1>3, <1>4, <1>5 DEF Finish

\* The old segment of a rotation.
LEMMA FinishOldBase == CaptureBase /\ FinishOld => CaptureBase'
  <1> SUFFICES ASSUME CaptureBase, FinishOld PROVE CaptureBase'
    OBVIOUS
  <1>1. /\ writer \in WriterSet /\ writer.pc = "finish" /\ WriterFacts
        /\ UNCHANGED <<now, dir, janitor, next, restarts, sweeps>>
    BY DEF CaptureBase, CaptureTypes, FinishOld
  <1>2. PICK v : v = [writer EXCEPT !.pc = "append", !.old = 0]
    OBVIOUS
  <1>3. /\ v \in WriterSet /\ v.seg = writer.seg /\ v.counter = writer.counter
        /\ v.rotate_at = writer.rotate_at
        /\ v.started = writer.started /\ v.pc = "append" /\ v.t = writer.t /\ v.rec = writer.rec
    BY <1>1, <1>2 DEF WriterSet
  <1>4. v.t < Ticks(v.rotate_at) /\ v.rec \in Recs
    BY <1>1, <1>3 DEF WriterFacts
  <1>5. Finish(v, Dropped)
    BY <1>2 DEF FinishOld
  <1>6. PICK u : /\ Grown(segs[writer.old], u) /\ segs' = [segs EXCEPT ![writer.old] = u]
                 /\ writer.old \in DOMAIN segs /\ writer.old # writer.seg
                 /\ writer' = v \/ writer' = Dropped
                 /\ faults' \in Nat
    BY <1>1, <1>5, FinishEffect
  <1>7. CASE writer' = v
    BY <1>1, <1>3, <1>4, <1>6, <1>7, EditStep
  <1>8. CASE writer' = Dropped
    <2>1. PICK x \in WriterSet :
            /\ x = Dropped /\ x.pc = "idle" /\ x.seg = writer.seg /\ x.counter = writer.counter
            /\ x.rotate_at = writer.rotate_at /\ x.started = writer.started
      BY <1>1, DroppedFields
    <2> QED BY <1>1, <1>6, <1>8, <2>1, EditStep
  <1> QED BY <1>6, <1>7, <1>8

\* The old segment of finalize.
LEMMA FinishLastBase == CaptureBase /\ FinishLast => CaptureBase'
  <1> SUFFICES ASSUME CaptureBase, FinishLast PROVE CaptureBase'
    OBVIOUS
  <1>1. /\ writer \in WriterSet /\ writer.pc = "last"
        /\ UNCHANGED <<now, dir, janitor, next, restarts, sweeps>>
    BY DEF CaptureBase, CaptureTypes, FinishLast
  <1>2. PICK v : v = [writer EXCEPT !.pc = "over"]
    OBVIOUS
  <1>3. /\ v \in WriterSet /\ v.seg = writer.seg /\ v.counter = writer.counter
        /\ v.rotate_at = writer.rotate_at /\ v.started = writer.started /\ v.pc = "over"
    BY <1>1, <1>2 DEF WriterSet
  <1>4. Finish(v, v)
    BY <1>2 DEF FinishLast
  <1>5. PICK u : /\ Grown(segs[writer.old], u) /\ segs' = [segs EXCEPT ![writer.old] = u]
                 /\ writer.old \in DOMAIN segs /\ writer.old # writer.seg
                 /\ writer' = v /\ faults' \in Nat
    BY <1>1, <1>4, FinishEffect
  <1> QED BY <1>1, <1>3, <1>5, EditStep

\* What AppendRecord does to the active segment.
LEMMA AppendEffect ==
  ASSUME CaptureBase, AppendRecord
  PROVE  /\ writer.seg \in DOMAIN segs
         /\ \E u : /\ Grown(segs[writer.seg], u) /\ ~u.done
                   /\ segs' = [segs EXCEPT ![writer.seg] = u]
         /\ faults' \in Nat
  <1>1. /\ CaptureTypes /\ segs \in Seq(SegmentSet) /\ writer \in WriterSet /\ WriterFacts
        /\ faults \in Nat /\ writer.pc = "append"
    BY DEF CaptureBase, CaptureTypes, AppendRecord
  <1>2. writer.seg \in DOMAIN segs
    BY <1>1 DEF WriterFacts
  <1>3. PICK s \in SegmentSet : s = segs[writer.seg] /\ Framed(s) /\ Timed(s) /\ ~s.done
    BY <1>1, <1>2 DEF CaptureBase, WriterFacts
  <1>4. /\ writer.rec \in Recs /\ writer.t \in Nat /\ writer.t < Ticks(s.sec + RotateSecs)
    BY <1>1, <1>3, WriterFields DEF WriterFacts
  <1>5. PICK k \in 0..2 :
          /\ IF k = 2 THEN UNCHANGED faults ELSE Fails
          /\ \E d \in s.disk..Len(s.stream \o Given(writer.rec, k)) :
               segs' = [segs EXCEPT ![writer.seg] = GivenTo(s, writer.rec, writer.t, k, d)]
    <2>1. \E k \in 0..2 :
            /\ IF k = 2 THEN UNCHANGED faults ELSE Fails
            /\ \E d \in segs[writer.seg].disk
                          ..Len(segs[writer.seg].stream \o Given(writer.rec, k)) :
                 segs' = [segs EXCEPT ![writer.seg] =
                            GivenTo(segs[writer.seg], writer.rec, writer.t, k, d)]
      BY Zenon DEF AppendRecord, GivenTo
    <2> QED BY <1>3, <2>1
  <1>6. PICK d \in s.disk..Len(s.stream \o Given(writer.rec, k)) :
               segs' = [segs EXCEPT ![writer.seg] = GivenTo(s, writer.rec, writer.t, k, d)]
    BY <1>5
  <1>7. d \in Nat /\ d <= Len(s.stream \o Given(writer.rec, k))
    <2>1. Continues(s.stream \o Given(writer.rec, k), s.stream, writer.rec, k)
      BY <1>4, SegmentFields, GivenStream
    <2>2. Len(s.stream \o Given(writer.rec, k)) \in Nat /\ s.disk \in Nat
      BY <2>1, SegmentFields DEF Continues
    <2>3. PICK m \in Nat : m = Len(s.stream \o Given(writer.rec, k))
      BY <2>2
    <2>4. PICK l \in Nat : l = s.disk
      BY <2>2
    <2>5. d \in l..m
      BY <2>3, <2>4
    <2>6. d \in Nat /\ d <= m
      BY <2>5
    <2> QED BY <2>3, <2>6
  <1>8. /\ Grown(s, GivenTo(s, writer.rec, writer.t, k, d))
        /\ ~GivenTo(s, writer.rec, writer.t, k, d).done
    BY <1>1, <1>3, <1>4, <1>7, AppendGrown
  <1>9. faults' \in Nat
    BY <1>1, <1>5, FailsType
  <1> QED BY <1>2, <1>3, <1>6, <1>8, <1>9

\* A record is written or dropped.
LEMMA AppendRecordBase == CaptureBase /\ AppendRecord => CaptureBase'
  <1> SUFFICES ASSUME CaptureBase, AppendRecord PROVE CaptureBase'
    OBVIOUS
  <1>1. /\ writer \in WriterSet /\ writer.pc = "append" /\ writer' = Dropped
        /\ UNCHANGED <<now, dir, janitor, next, restarts, sweeps>>
    BY DEF CaptureBase, CaptureTypes, AppendRecord
  <1>2. PICK u : /\ Grown(segs[writer.seg], u) /\ segs' = [segs EXCEPT ![writer.seg] = u]
                 /\ writer.seg \in DOMAIN segs /\ ~u.done /\ faults' \in Nat
    BY AppendEffect
  <1>3. PICK x \in WriterSet :
          /\ x = Dropped /\ x.pc = "idle" /\ x.seg = writer.seg /\ x.counter = writer.counter
          /\ x.rotate_at = writer.rotate_at /\ x.started = writer.started
    BY <1>1, DroppedFields
  <1> QED BY <1>1, <1>2, <1>3, EditStep

\* The process ends: the files stay.
LEMMA EndsBase == CaptureBase /\ Ends => CaptureBase'
  <1> SUFFICES ASSUME CaptureBase, Ends PROVE CaptureBase'
    OBVIOUS
  <1>1. Down \in WriterSet /\ Down.pc = "down"
    BY DEF Down, WriterSet
  <1>2. /\ Resting \in JanitorSet /\ Resting.entries = {} /\ Resting.pc = "idle"
    BY DEF Resting, JanitorSet
  <1>3. writer' = Down /\ janitor' = Resting /\ UNCHANGED <<now, segs, dir, next, counters>>
    BY DEF Ends
  <1>4. CaptureTypes'
    BY <1>1, <1>2, <1>3 DEF CaptureBase, CaptureTypes, counters
  <1>5. SweepFacts'
    BY <1>2, <1>3, FS_EmptySet DEF SweepFacts
  <1>6. \A j \in DOMAIN segs' : Framed(segs'[j]) /\ Timed(segs[j])'
    BY <1>3 DEF CaptureBase, Timed, counters, UnixNow
  <1> QED BY <1>1, <1>3, <1>4, <1>5, <1>6 DEF CaptureBase

\* Time passes.
LEMMA ClockTickBase == CaptureBase /\ ClockTick => CaptureBase'
  <1> SUFFICES ASSUME CaptureBase, ClockTick PROVE CaptureBase'
    OBVIOUS
  <1>1. /\ now \in Nat /\ now < LastTick /\ now' = now + 1
        /\ UNCHANGED <<segs, dir, writer, janitor, next, counters>>
        /\ segs \in Seq(SegmentSet) /\ writer \in WriterSet
    BY CaptureAssumption DEF CaptureBase, CaptureTypes, ClockTick
  <1>2. CaptureTypes'
    BY <1>1, CaptureAssumption DEF CaptureBase, CaptureTypes, counters
  <1>3. SweepFacts'
    BY <1>1 DEF CaptureBase, SweepFacts
  <1>6. UnixNow \in Nat /\ UnixNow' \in Nat /\ UnixNow <= UnixNow'
    <2>1. /\ UnixNow \in Nat /\ UnixNow <= UnixNow
          /\ UnixNow <= UnixNow <=> Ticks(UnixNow) <= now
          /\ Ticks(UnixNow) \in Nat
      BY Seconds DEF CaptureBase
    <2>2. /\ UnixNow' \in Nat /\ now' \in Nat
          /\ UnixNow <= UnixNow' <=> Ticks(UnixNow) <= now'
      <3>1. PICK t \in Nat : t = now'
        BY <1>1
      <3>2. PICK n \in Nat : n = UnixNow
        BY <2>1
      <3>3. /\ t \div TicksPerSecond \in Nat
            /\ n <= t \div TicksPerSecond <=> Ticks(n) <= t
        BY Floor
      <3>4. UnixNow' = t \div TicksPerSecond
        BY <3>1 DEF UnixNow
      <3> QED BY <3>1, <3>2, <3>3, <3>4
    <2> QED BY <1>1, <2>1, <2>2
  <1>4. \A j \in DOMAIN segs' : Framed(segs'[j]) /\ Timed(segs[j])'
    <2> TAKE j \in DOMAIN segs'
    <2>1. /\ j \in DOMAIN segs /\ segs'[j] = segs[j] /\ Framed(segs[j]) /\ Timed(segs[j])
          /\ segs[j].sec \in Nat /\ restarts' = restarts
      BY <1>1, SegmentFields DEF CaptureBase, counters
    <2> QED BY <1>1, <1>6, <2>1 DEF Timed
  <1>5. ASSUME WriterFacts PROVE WriterFacts'
    <2>1. writer.t \in Nat /\ writer.started \in Nat
      BY <1>1, WriterFields
    <2>2. /\ writer'.started <= UnixNow'
          /\ writer'.pc = "rotate" => writer'.t <= now'
      BY <1>1, <1>5, <1>6, <2>1 DEF WriterFacts
    <2> QED BY <1>1, <1>5, <2>2 DEF WriterFacts, counters
  <1> QED BY <1>1, <1>2, <1>3, <1>4, <1>5 DEF CaptureBase

\* A step of the janitor: it only takes names from the directory.
LEMMA JanitorStep ==
  ASSUME CaptureBase, writer.pc # "down",
         UNCHANGED <<now, segs, writer, next, restarts>>, dir' \subseteq dir,
         faults' \in Nat, sweeps' \in Nat, janitor' \in JanitorSet, SweepFacts'
  PROVE  CaptureBase'
  <1>1. CaptureTypes'
    BY DEF CaptureBase, CaptureTypes
  <1>2. \A j \in DOMAIN segs' : Framed(segs'[j]) /\ Timed(segs[j])'
    BY DEF CaptureBase, Timed, UnixNow
  <1>3. WriterFacts'
    BY DEF CaptureBase, WriterFacts, UnixNow
  <1> QED BY <1>1, <1>2, <1>3 DEF CaptureBase

\* A sweep runs in a process.
LEMMA SweepRuns == CaptureBase /\ janitor.pc # "idle" => writer.pc # "down"
  BY DEF CaptureBase, Resting

\* The entry of a file.
LEMMA EntryFields ==
  ASSUME CaptureBase, NEW i \in DOMAIN segs
  PROVE  /\ Entry(i) \in Files /\ Entry(i).seg = i /\ Entry(i).mtime = segs[i].mtime
         /\ Ticks(segs[i].sec) <= Entry(i).mtime
  <1>1. i \in Nat /\ segs[i].disk \in Nat /\ segs[i].mtime \in Nat 
        /\ Ticks(segs[i].sec) <= segs[i].mtime
    BY SegmentFields DEF CaptureBase, CaptureTypes, Timed
  <1> QED BY <1>1 DEF Entry, Files

\* A sweep begins with the names in the directory.
LEMMA SweepStartBase == CaptureBase /\ SweepStart => CaptureBase'
  <1> SUFFICES ASSUME CaptureBase, SweepStart PROVE CaptureBase'
    OBVIOUS
  <1>1. PICK j : j = [Resting EXCEPT !.pc = "stat", !.todo = dir]
    OBVIOUS
  <1>2. dir \subseteq Nat
    BY DEF CaptureBase, CaptureTypes
  <1>3. /\ j \in JanitorSet /\ j.pc = "stat" /\ j.todo = dir /\ j.entries = {} /\ j.total = 0
    BY <1>1, <1>2 DEF Resting, JanitorSet
  <1>4. /\ writer.pc # "down" /\ UNCHANGED <<now, segs, dir, writer, next, restarts>>
        /\ faults' \in Nat /\ sweeps' \in Nat /\ janitor' = j
    BY <1>1 DEF CaptureBase, CaptureTypes, SweepStart
  <1>5. SweepFacts'
    BY <1>3, <1>4, FS_EmptySet DEF SweepFacts
  <1> QED BY <1>3, <1>4, <1>5, JanitorStep

\* One more file is seen.
LEMMA SweepStatBase == CaptureBase /\ SweepStat => CaptureBase'
  <1> SUFFICES ASSUME CaptureBase, SweepStat PROVE CaptureBase'
    OBVIOUS
  <1>1. /\ janitor \in JanitorSet /\ janitor.pc = "stat" /\ SweepFacts
        /\ UNCHANGED <<now, segs, dir, writer, next, restarts, sweeps>>
        /\ sweeps \in Nat /\ faults \in Nat /\ dir \subseteq DOMAIN segs
    BY DEF CaptureBase, CaptureTypes, SweepStat
  <1>2. writer.pc # "down"
    BY <1>1, SweepRuns
  <1>3. PICK i \in janitor.todo :
         \/ /\ janitor' = [janitor EXCEPT !.todo = @ \ {i}, !.entries = @ \cup {Entry(i)}]
            /\ UNCHANGED faults
         \/ Fails /\ janitor' = Resting
    BY DEF SweepStat
  <1>4. i \in dir /\ i \in DOMAIN segs
    BY <1>1 DEF SweepFacts
  <1>5. CASE Fails /\ janitor' = Resting
    <2>1. Resting \in JanitorSet /\ Resting.entries = {} /\ Resting.pc = "idle"
      BY DEF Resting, JanitorSet
    <2>2. SweepFacts'
      BY <1>5, <2>1, FS_EmptySet DEF SweepFacts
    <2> QED BY <1>1, <1>2, <1>5, <2>1, <2>2, FailsType, JanitorStep
  <1>6. CASE /\ janitor' = [janitor EXCEPT !.todo = @ \ {i}, !.entries = @ \cup {Entry(i)}]
             /\ UNCHANGED faults
    <2>1. PICK e \in Files : e = Entry(i) /\ e.seg = i /\ Ticks(segs[i].sec) <= e.mtime
      BY <1>4, EntryFields
    <2>2. /\ janitor' \in JanitorSet /\ janitor'.pc = "stat" /\ janitor'.todo = janitor.todo \ {i}
          /\ janitor'.entries = janitor.entries \cup {e} /\ janitor'.total = janitor.total
      BY <1>1, <1>6, <2>1 DEF JanitorSet
    <2>3. IsFiniteSet(janitor'.entries)
      BY <1>1, <2>2, FS_AddElement DEF SweepFacts
    <2>4. \A f \in janitor.entries : f.seg \in DOMAIN segs /\ f.seg \in dir /\ f.seg # i
                                     /\ f.seg \notin janitor.todo
      BY <1>1 DEF SweepFacts
    <2>5. \A f \in janitor'.entries : f = e \/ f \in janitor.entries
      BY <2>2
    <2>6. \A f, g \in janitor'.entries : f.seg = g.seg => f = g
      BY <1>1, <2>1, <2>4, <2>5 DEF SweepFacts
    <2>7. \A f \in janitor'.entries : f.seg \in DOMAIN segs' /\ Ticks(segs'[f.seg].sec) <= f.mtime
      BY <1>1, <1>4, <2>1, <2>5 DEF SweepFacts
    <2>8. \A f \in janitor'.entries : f.seg \in dir' /\ f.seg \notin janitor'.todo
      BY <1>1, <1>4, <2>1, <2>2, <2>4, <2>5
    <2>9. SweepFacts'
      BY <1>1, <2>2, <2>3, <2>6, <2>7, <2>8 DEF SweepFacts
    <2> QED BY <1>1, <1>2, <1>6, <2>2, <2>9, JanitorStep
  <1> QED BY <1>3, <1>5, <1>6

\* A step of the loops over the entries: some are done with.
LEMMA LoopStep ==
  ASSUME CaptureBase, writer.pc # "down", janitor' \in JanitorSet,
         janitor'.entries = janitor.entries, janitor'.pc \in {"age", "evict"},
         janitor'.todo \subseteq janitor.entries,
         UNCHANGED <<now, segs, writer, next, restarts, sweeps>>, dir' \subseteq dir,
         faults' \in Nat
  PROVE  CaptureBase'
  <1>1. SweepFacts'
    BY DEF CaptureBase, SweepFacts
  <1>2. sweeps' \in Nat
    BY DEF CaptureBase, CaptureTypes
  <1> QED BY <1>1, <1>2, JanitorStep

\* remove_file takes at most that name away.
LEMMA RemovedEffect ==
  ASSUME CaptureBase, NEW e, Removed(e)
  PROVE  /\ dir' \subseteq dir /\ faults' \in Nat
         /\ dir' = dir \ {e.seg} \/ dir' = dir
         /\ e.seg \notin dir' => dir' = dir \ {e.seg}
  <1>1. faults \in Nat
    BY DEF CaptureBase, CaptureTypes
  <1> QED BY <1>1, FailsType DEF Removed

\* The loop over the entries begins.
LEMMA SweepTimeBase == CaptureBase /\ SweepTime => CaptureBase'
  <1> SUFFICES ASSUME CaptureBase, SweepTime PROVE CaptureBase'
    OBVIOUS
  <1>1. /\ janitor \in JanitorSet /\ janitor.pc = "stat" /\ now \in Nat
        /\ UNCHANGED <<now, segs, dir, writer, next, restarts, sweeps>> /\ faults' \in Nat
        /\ janitor' = [janitor EXCEPT !.pc = "age", !.todo = janitor.entries, !.at = now]
    BY CaptureAssumption DEF CaptureBase, CaptureTypes, SweepTime, counters
  <1>2. /\ janitor' \in JanitorSet /\ janitor'.pc = "age" /\ janitor'.todo = janitor.entries
        /\ janitor'.entries = janitor.entries
    BY <1>1 DEF JanitorSet
  <1> QED BY <1>1, <1>2, SweepRuns, LoopStep

\* What the age loop does with one entry.
AgeStep(e) ==
    /\ e \in janitor.todo
    /\ janitor' \in JanitorSet /\ janitor'.pc = "age" /\ janitor'.entries = janitor.entries
    /\ janitor'.todo = janitor.todo \ {e} /\ janitor'.at = janitor.at
    /\ \/ /\ TooOld(e) /\ Removed(e) /\ janitor'.total = janitor.total
          /\ janitor'.failed = (janitor.failed \/ e.seg \in dir')
       \/ /\ ~TooOld(e) /\ dir' = dir /\ faults' = faults
          /\ janitor'.total = janitor.total + e.len /\ janitor'.failed = janitor.failed

\* SweepAge is such a step.
LEMMA SweepAgeEffect ==
  ASSUME CaptureBase, SweepAge
  PROVE  \E e \in janitor.todo : AgeStep(e)
  <1>1. /\ janitor \in JanitorSet /\ janitor.pc = "age" /\ SweepFacts
    BY DEF CaptureBase, CaptureTypes, SweepAge
  <1>2. PICK e \in janitor.todo :
         IF TooOld(e)
         THEN /\ Removed(e)
              /\ janitor' = [janitor EXCEPT !.todo = @ \ {e}, !.failed = @ \/ e.seg \in dir']
         ELSE /\ janitor' = [janitor EXCEPT !.todo = @ \ {e}, !.total = @ + e.len]
              /\ UNCHANGED <<dir, faults>>
    BY DEF SweepAge
  <1>3. e \in Files
    BY <1>1, JanitorFields DEF SweepFacts
  <1>4. CASE TooOld(e)
    <2>1. PICK b \in BOOLEAN : b = (janitor.failed \/ e.seg \in dir')
      OBVIOUS
    <2>2. janitor' = [janitor EXCEPT !.todo = @ \ {e}, !.failed = b] /\ Removed(e)
      BY <1>2, <1>4, <2>1
    <2>3. /\ janitor' \in JanitorSet /\ janitor'.pc = "age" /\ janitor'.entries = janitor.entries
          /\ janitor'.todo = janitor.todo \ {e} /\ janitor'.at = janitor.at
          /\ janitor'.total = janitor.total /\ janitor'.failed = b
      BY <1>1, <2>2 DEF JanitorSet
    <2> QED BY <1>4, <2>1, <2>2, <2>3 DEF AgeStep
  <1>5. CASE ~TooOld(e)
    <2>1. PICK b \in Nat : b = janitor.total + e.len
      BY <1>1, <1>3, JanitorFields DEF Files
    <2>2. /\ janitor' = [janitor EXCEPT !.todo = @ \ {e}, !.total = b]
          /\ dir' = dir /\ faults' = faults
      BY <1>2, <1>5, <2>1
    <2>3. /\ janitor' \in JanitorSet /\ janitor'.pc = "age" /\ janitor'.entries = janitor.entries
          /\ janitor'.todo = janitor.todo \ {e} /\ janitor'.at = janitor.at
          /\ janitor'.total = b /\ janitor'.failed = janitor.failed
      BY <1>1, <2>2 DEF JanitorSet
    <2> QED BY <1>5, <2>1, <2>2, <2>3 DEF AgeStep
  <1> QED BY <1>4, <1>5

\* One entry's age is looked at.
LEMMA SweepAgeBase == CaptureBase /\ SweepAge => CaptureBase'
  <1> SUFFICES ASSUME CaptureBase, SweepAge PROVE CaptureBase'
    OBVIOUS
  <1>1. /\ janitor \in JanitorSet /\ janitor.pc = "age" /\ SweepFacts /\ faults \in Nat
        /\ UNCHANGED <<now, segs, writer, next, restarts, sweeps>>
    BY DEF CaptureBase, CaptureTypes, SweepAge
  <1>2. PICK e \in janitor.todo : AgeStep(e)
    BY SweepAgeEffect
  <1>3. dir' \subseteq dir /\ faults' \in Nat
    BY <1>1, <1>2, RemovedEffect DEF AgeStep
  <1>4. janitor'.todo \subseteq janitor.entries
    BY <1>1, <1>2 DEF AgeStep, SweepFacts
  <1>5. /\ janitor' \in JanitorSet /\ janitor'.pc = "age" /\ janitor'.entries = janitor.entries
    BY <1>2 DEF AgeStep
  <1> QED BY <1>1, <1>3, <1>4, <1>5, SweepRuns, LoopStep

\* The survivors are sorted.
LEMMA SweepSortFields ==
  ASSUME CaptureBase, SweepSort
  PROVE  /\ janitor' \in JanitorSet /\ janitor'.pc = "evict" /\ janitor'.entries = janitor.entries
         /\ janitor'.todo = Kept /\ janitor'.at = janitor.at
         /\ janitor'.total = janitor.total /\ janitor'.failed = janitor.failed
  <1>1. janitor \in JanitorSet /\ janitor' = [janitor EXCEPT !.pc = "evict", !.todo = Kept]
    BY DEF CaptureBase, CaptureTypes, SweepSort, Kept
  <1>2. Kept \in SUBSET (Nat \cup Files)
    BY <1>1, JanitorFields DEF Kept
  <1> QED BY <1>1, <1>2 DEF JanitorSet

\* Sorting the listing (sweep_directory's sort by mtime) keeps the base.
LEMMA SweepSortBase == CaptureBase /\ SweepSort => CaptureBase'
  <1> SUFFICES ASSUME CaptureBase, SweepSort PROVE CaptureBase'
    OBVIOUS
  <1>1. /\ janitor.pc = "age" /\ UNCHANGED <<now, segs, dir, writer, next, restarts, sweeps>>
        /\ faults' \in Nat
    BY DEF CaptureBase, CaptureTypes, SweepSort, counters
  <1>2. /\ janitor' \in JanitorSet /\ janitor'.pc = "evict" /\ janitor'.entries = janitor.entries
        /\ janitor'.todo \subseteq janitor.entries
    BY SweepSortFields DEF Kept
  <1> QED BY <1>1, <1>2, SweepRuns, LoopStep

\* What the eviction does with the oldest entry.
EvictStep(e) ==
    /\ e \in janitor.todo /\ e \in EvictFirst(janitor.todo) /\ Removed(e)
    /\ janitor' \in JanitorSet /\ janitor'.pc = "evict" /\ janitor'.entries = janitor.entries
    /\ janitor'.todo = janitor.todo \ {e} /\ janitor'.at = janitor.at
    /\ janitor'.failed = (janitor.failed \/ e.seg \in dir')
    /\ janitor'.total = IF janitor.total > e.len THEN janitor.total - e.len ELSE 0

\* SweepEvict is such a step.
LEMMA SweepEvictEffect ==
  ASSUME CaptureBase, SweepEvict
  PROVE  \E e \in janitor.todo : EvictStep(e)
  <1>1. /\ janitor \in JanitorSet /\ janitor.pc = "evict" /\ SweepFacts
    BY DEF CaptureBase, CaptureTypes, SweepEvict
  <1>2. PICK e \in EvictFirst(janitor.todo) :
         /\ Removed(e)
         /\ janitor' = [janitor EXCEPT !.todo = @ \ {e}, !.failed = @ \/ e.seg \in dir',
                                       !.total = IF @ > e.len THEN @ - e.len ELSE 0]
    BY DEF SweepEvict
  <1>3. e \in janitor.todo /\ e \in Files
    BY <1>1, JanitorFields DEF EvictFirst, SweepFacts
  <1>4. PICK b \in BOOLEAN : b = (janitor.failed \/ e.seg \in dir')
    OBVIOUS
  <1>5. PICK l \in Nat : l = e.len
    BY <1>3 DEF Files
  <1>6. PICK m \in Nat : m = janitor.total
    BY <1>1, JanitorFields
  <1>7. PICK c \in Nat : c = IF m > l THEN m - l ELSE 0
    OBVIOUS
  <1>8. janitor' = [janitor EXCEPT !.todo = @ \ {e}, !.failed = b, !.total = c]
    BY <1>2, <1>4, <1>5, <1>6, <1>7
  <1>9. /\ janitor' \in JanitorSet /\ janitor'.pc = "evict" /\ janitor'.entries = janitor.entries
        /\ janitor'.todo = janitor.todo \ {e} /\ janitor'.at = janitor.at
        /\ janitor'.total = c /\ janitor'.failed = b
    BY <1>1, <1>8 DEF JanitorSet
  <1>10. EvictStep(e)
    BY <1>2, <1>3, <1>4, <1>5, <1>6, <1>7, <1>9 DEF EvictStep
  <1> QED BY <1>3, <1>10

\* Removing the oldest file while over the byte cap keeps the base.
LEMMA SweepEvictBase == CaptureBase /\ SweepEvict => CaptureBase'
  <1> SUFFICES ASSUME CaptureBase, SweepEvict PROVE CaptureBase'
    OBVIOUS
  <1>1. /\ janitor \in JanitorSet /\ janitor.pc = "evict" /\ SweepFacts /\ faults \in Nat
        /\ UNCHANGED <<now, segs, writer, next, restarts, sweeps>>
    BY DEF CaptureBase, CaptureTypes, SweepEvict
  <1>2. PICK e \in janitor.todo : EvictStep(e)
    BY SweepEvictEffect
  <1>3. dir' \subseteq dir /\ faults' \in Nat
    BY <1>2, RemovedEffect DEF EvictStep
  <1>4. janitor'.todo \subseteq janitor.entries
    BY <1>1, <1>2 DEF EvictStep, SweepFacts
  <1>5. /\ janitor' \in JanitorSet /\ janitor'.pc = "evict" /\ janitor'.entries = janitor.entries
    BY <1>2 DEF EvictStep
  <1> QED BY <1>1, <1>3, <1>4, <1>5, SweepRuns, LoopStep

\* The sweep ends.
LEMMA SweepEndsBase == CaptureBase /\ SweepEnds => CaptureBase'
  <1> SUFFICES ASSUME CaptureBase, SweepEnds PROVE CaptureBase'
    OBVIOUS
  <1>1. /\ janitor.pc = "evict" /\ janitor' = Resting /\ faults' \in Nat /\ sweeps' \in Nat
        /\ UNCHANGED <<now, segs, dir, writer, next, restarts>>
    BY DEF CaptureBase, CaptureTypes, SweepEnds, counters
  <1>2. Resting \in JanitorSet /\ Resting.entries = {} /\ Resting.pc = "idle"
    BY DEF Resting, JanitorSet
  <1>3. SweepFacts'
    BY <1>1, <1>2, FS_EmptySet DEF SweepFacts
  <1> QED BY <1>1, <1>2, <1>3, SweepRuns, JanitorStep

\* Every step keeps the facts.
LEMMA CaptureNextBase == CaptureBase /\ [CaptureNext]_cvars => CaptureBase'
  <1> SUFFICES ASSUME CaptureBase, [CaptureNext]_cvars PROVE CaptureBase'
    OBVIOUS
  <1>1. CASE UNCHANGED cvars
    BY <1>1 DEF cvars, CaptureBase, CaptureTypes, Timed, WriterFacts, SweepFacts, UnixNow
  <1> QED BY <1>1, StartBase, RecvBase, RotateBase, FinishOldBase, AppendRecordBase,
             FinalizeBase, FinishLastBase, EndsBase, SweepStartBase, SweepStatBase,
             SweepTimeBase, SweepAgeBase, SweepSortBase, SweepEvictBase, SweepEndsBase,
             ClockTickBase DEF CaptureNext

\* Theorem: whatever fails and whenever the process dies, the reader of a capture file
\* (replay.rs) returns the records write_record reported as written (capture.rs) in their
\* order up to the first torn one, and only behind a torn one anything else; a finished
\* file without a torn record replays exactly what was acknowledged.
THEOREM ReplayIsFaithful == CaptureSpec => []ReplayMatchesAcked
  <1>1. CaptureBase => ReplayMatchesAcked
    <2> SUFFICES ASSUME CaptureBase, NEW i \in dir, NEW p \in Replays(segs[i])
                 PROVE  Faithful(segs[i], p)
      BY DEF ReplayMatchesAcked, Faithful
    <2>1. segs[i] \in SegmentSet /\ Framed(segs[i])
      BY DEF CaptureBase, CaptureTypes
    <2> QED BY <2>1, ReplaysAcked
  <1> QED BY <1>1, CaptureInitBase, CaptureNextBase, PTL DEF CaptureSpec

\* open_segment empties a file of this process never, and of an earlier one only in the
\* second that this process started in.
LEMMA TruncatedOld ==
  ASSUME CaptureBase, CaptureNext, NEW i \in dir, segs[i].acked # <<>>, segs'[i].acked = <<>>
  PROVE  segs[i].proc < restarts' /\ segs[i].sec = writer'.started
  <1>1. /\ CaptureTypes /\ segs \in Seq(SegmentSet) /\ writer \in WriterSet /\ now \in Nat
        /\ i \in DOMAIN segs /\ restarts \in Nat
    BY CaptureAssumption DEF CaptureBase, CaptureTypes
  <1>2. PICK s \in SegmentSet : s = segs[i] /\ Timed(s)
    BY <1>1 DEF CaptureBase
  <1>3. s.proc \in Nat /\ s.sec \in Nat /\ s.n \in Nat
    BY SegmentFields
  <1>4. CASE Start
    <2>1. PICK w : w = [writer EXCEPT !.pc = "idle", !.started = UnixNow]
      OBVIOUS
    <2>2. w \in WriterSet /\ w.started = UnixNow
      BY <1>1, <2>1, Seconds DEF WriterSet
    <2>3. restarts' = restarts + 1 /\ restarts' \in Nat /\ OpenSegment(w, restarts')
      BY <1>1, <1>4, <2>1 DEF Start
    <2>4. PICK k : Opened(k, restarts') /\ writer' = Using(w, k)
      BY <1>1, <2>3, OpenEffect
    <2>5. i = k /\ s.sec = UnixNow
      BY <1>1, <1>2, <2>4 DEF Opened
    <2>6. writer'.started = UnixNow
      BY <2>2, <2>4 DEF Using, WriterSet
    <2> QED BY <1>1, <1>2, <1>3, <2>3, <2>5, <2>6 DEF Timed
  <1>5. ASSUME writer.pc # "down", NEW w \in WriterSet, OpenSegment(w, restarts),
               w.started = writer.started, restarts' = restarts
        PROVE  segs[i].proc < restarts' /\ segs[i].sec = writer'.started
    <2>1. PICK k : Opened(k, restarts) /\ writer' = Using(w, k)
      BY <1>1, <1>5, OpenEffect
    <2>2. i = k /\ s.sec = UnixNow /\ s.n = writer.counter
      BY <1>1, <1>2, <2>1 DEF Opened, Number
    <2>3. writer'.started = writer.started
      BY <1>5, <2>1 DEF Using, WriterSet
    <2>4. /\ writer.started <= UnixNow
          /\ s.proc = restarts => s.n < writer.counter
          /\ s.proc < restarts => s.sec <= writer.started
      BY <1>1, <1>2, <1>5 DEF CaptureBase, WriterFacts
    <2>5. writer.started \in Nat /\ writer.counter \in Nat
      BY <1>1, WriterFields
    <2>6. s.proc < restarts
      BY <1>1, <1>2, <1>3, <2>2, <2>4, <2>5 DEF Timed
    <2>7. UnixNow \in Nat
      BY <1>1, Seconds
    <2>8. s.sec <= writer.started /\ writer.started <= s.sec
      BY <2>2, <2>4, <2>6
    <2> QED BY <1>2, <1>3, <1>5, <2>3, <2>5, <2>6, <2>8
  <1>6. CASE Rotate
    <2>1. PICK w : w = [writer EXCEPT !.pc = "finish", !.old = writer.seg]
      OBVIOUS
    <2>2. w \in WriterSet /\ w.started = writer.started
      BY <1>1, <2>1 DEF WriterSet
    <2>3. OpenSegment(w, restarts) /\ restarts' = restarts /\ writer.pc # "down"
      BY <1>6, <2>1 DEF Rotate, OpenFails
    <2> QED BY <1>5, <2>2, <2>3
  <1>7. CASE Finalize
    <2>1. PICK w : w = [writer EXCEPT !.pc = "last", !.old = writer.seg]
      OBVIOUS
    <2>2. w \in WriterSet /\ w.started = writer.started
      BY <1>1, <2>1 DEF WriterSet
    <2>3. OpenSegment(w, restarts) /\ restarts' = restarts /\ writer.pc # "down"
      BY <1>7, <2>1 DEF Finalize, OpenFails
    <2> QED BY <1>5, <2>2, <2>3
  <1>8. ASSUME NEW k \in DOMAIN segs, NEW u, Grown(segs[k], u), segs' = [segs EXCEPT ![k] = u]
        PROVE  FALSE
    <2>1. CASE i = k
      BY <1>1, <1>8, <2>1 DEF Grown
    <2>2. CASE i # k
      BY <1>1, <1>8, <2>2
    <2> QED BY <2>1, <2>2
  <1>9. CASE FinishOld \/ FinishLast
    <2>1. PICK v, x : Finish(v, x) /\ writer.pc \in {"finish", "last"}
      BY <1>9 DEF FinishOld, FinishLast
    <2> QED BY <1>8, <2>1, FinishEffect
  <1>10. CASE AppendRecord
    BY <1>8, <1>10, AppendEffect
  <1>11. Recv \/ Lagged \/ Ends \/ SweepStart \/ SweepStat \/ SweepTime \/ SweepAge \/ SweepSort
            \/ SweepEvict \/ SweepEnds \/ ClockTick => segs' = segs
    BY DEF Recv, Lagged, Ends, SweepStart, SweepStat, SweepTime, SweepAge, SweepSort, SweepEvict,
           SweepEnds, ClockTick
  <1> QED BY <1>4, <1>6, <1>7, <1>9, <1>10, <1>11 DEF CaptureNext

\* Theorem: open_segment's truncate never hits a file of its own process, and one of an
\* earlier process only when it was named in the second this process was started.
THEOREM TruncatesOnlyAtStart == CaptureSpec => TruncationNeedsFastRestart
  <1>1. CaptureBase /\ [CaptureNext]_cvars =>
          [\A i \in dir : segs[i].acked # <<>> /\ segs'[i].acked = <<>> =>
             segs[i].proc < restarts' /\ segs[i].sec = writer'.started]_cvars
    BY TruncatedOld
  <1> QED BY <1>1, CaptureInitBase, CaptureNextBase, PTL DEF CaptureSpec, TruncationNeedsFastRestart

\* A name that the age rule takes away is of a file without a recent record.
LEMMA RemovedOld ==
  ASSUME CaptureBase, CaptureNext, NEW i \in dir \ dir', janitor.pc = "age"
  PROVE  janitor.at - segs[i].last > (MaxAge - RotateSecs) * TicksPerSecond
  <1>1. \/ OpenSegment([writer EXCEPT !.pc = "idle", !.started = UnixNow], restarts + 1)
        \/ OpenSegment([writer EXCEPT !.pc = "finish", !.old = writer.seg], restarts)
        \/ OpenSegment([writer EXCEPT !.pc = "last", !.old = writer.seg], restarts)
        \/ dir' = dir \/ SweepAge \/ SweepEvict
    BY DEF CaptureNext, Start, Recv, Lagged, Rotate, FinishOld, AppendRecord, Finalize, FinishLast,
           Ends, SweepStart, SweepStat, SweepTime, SweepSort, SweepEnds, ClockTick, OpenFails
  <1>2. ASSUME NEW w, NEW p, OpenSegment(w, p) PROVE FALSE
    BY <1>2 DEF OpenSegment
  <1>3. SweepAge
    BY <1>1, <1>2 DEF SweepEvict
  <1>4. /\ segs \in Seq(SegmentSet) /\ i \in DOMAIN segs /\ SweepFacts /\ janitor \in JanitorSet
    BY DEF CaptureBase, CaptureTypes
  <1>5. PICK e \in janitor.todo : AgeStep(e)
    BY <1>3, SweepAgeEffect
  <1>6. TooOld(e) /\ e.seg = i
    BY <1>5, RemovedEffect DEF AgeStep
  <1>7. e \in janitor.entries /\ e \in Files
    BY <1>4, JanitorFields DEF SweepFacts
  <1>8. /\ Ticks(segs[i].sec) <= e.mtime
        /\ segs[i].last < Ticks(segs[i].sec + RotateSecs)
    BY <1>4, <1>6, <1>7 DEF SweepFacts, CaptureBase, Timed
  <1>9. /\ segs[i].sec \in Nat /\ segs[i].last \in Nat /\ e.mtime \in Nat /\ janitor.at \in Nat
    BY <1>4, <1>7, SegmentFields, JanitorFields DEF Files
  <1>10. PICK a, b, c, d \in Nat :
           a = segs[i].sec /\ b = segs[i].last /\ c = e.mtime /\ d = janitor.at
    BY <1>9
  <1>11. PICK x, m, r \in Nat : x = TicksPerSecond /\ m = MaxAge /\ r = RotateSecs
    BY CaptureAssumption
  <1>12. d - c > m * x /\ a * x <= c /\ b < (a + r) * x
    BY <1>6, <1>8, <1>10, <1>11 DEF TooOld, Ticks
  <1>13. (a + r) * x = a * x + r * x /\ (m - r) * x = m * x - r * x
    OBVIOUS
  <1>14. PICK ax, rx, mx \in Nat : ax = a * x /\ rx = r * x /\ mx = m * x
    OBVIOUS
  <1>15. d - b > mx - rx
    BY <1>12, <1>13, <1>14
  <1> QED BY <1>10, <1>11, <1>13, <1>14, <1>15

\* Theorem: a file removed for its age has no record written within max_age -
\* rotate_secs of the sweep, although the encoder holds records back and the modification
\* time with them, and rotations count whole seconds.
THEOREM AgeRuleSparesRecent == CaptureSpec => AgeSparesRecent
  <1>1. CaptureBase /\ [CaptureNext]_cvars =>
          [\A i \in dir \ dir' :
             janitor.pc = "age" =>
               janitor.at - segs[i].last > (MaxAge - RotateSecs) * TicksPerSecond]_cvars
    BY RemovedOld
  <1> QED BY <1>1, CaptureInitBase, CaptureNextBase, PTL DEF CaptureSpec, AgeSparesRecent

\* Theorem: the capture's state keeps its type.
THEOREM CaptureTypeCorrect == CaptureSpec => []CaptureTypeOK
  <1>1. CaptureBase => CaptureTypeOK
    <2> SUFFICES ASSUME CaptureBase PROVE CaptureTypeOK
      OBVIOUS
    <2>1. /\ now \in 0..LastTick /\ segs \in Seq(SegmentSet) /\ dir \subseteq DOMAIN segs
          /\ writer \in WriterSet /\ janitor \in JanitorSet
      BY DEF CaptureBase, CaptureTypes
    <2>2. \A i \in DOMAIN segs : segs[i].disk \in 0..Len(segs[i].stream)
      <3> TAKE i \in DOMAIN segs
      <3>1. segs[i] \in SegmentSet /\ Framed(segs[i])
        BY <2>1 DEF CaptureBase
      <3>2. PICK d, n \in Nat : d = segs[i].disk /\ n = Len(segs[i].stream)
        BY <3>1, SegmentFields
      <3>3. d <= n
        BY <3>1, <3>2 DEF Framed
      <3> QED BY <3>2, <3>3
    <2>3. writer.seg \in 0..Len(segs)
      <3>1. CASE writer.pc = "down"
        BY <2>1, <3>1 DEF CaptureBase, Down
      <3>2. CASE writer.pc # "down"
        BY <2>1, <3>2 DEF CaptureBase, WriterFacts
      <3> QED BY <3>1, <3>2
    <2>4. {e.seg : e \in janitor.entries} \subseteq DOMAIN segs
      BY DEF CaptureBase, SweepFacts
    <2> QED BY <2>1, <2>2, <2>3, <2>4, WriterFields, JanitorFields DEF CaptureTypeOK
  <1> QED BY <1>1, CaptureInitBase, CaptureNextBase, PTL DEF CaptureSpec

\* The size of a set of files: of one more file, and of a part.
LEMMA SizeFacts ==
  ASSUME NEW S, S \subseteq Files, IsFiniteSet(S)
  PROVE  /\ Size(S) \in Nat
         /\ \A e \in S : Size(S) = e.len + Size(S \ {e}) /\ Size(S \ {e}) \in Nat
         /\ \A t \in SUBSET S : Size(t) <= Size(S)
  <1>1. PICK f : f = [e \in S |-> e.len]
    OBVIOUS
  <1>2. \A e \in S : f[e] = e.len /\ f[e] \in Nat
    BY <1>1 DEF Files
  <1>3. ASSUME NEW t \in SUBSET S PROVE Size(t) = SumOf(f, t)
    <2>1. PICK g : g = [e \in t |-> e.len]
      OBVIOUS
    <2>2. (\A e \in t : g[e] \in Nat) /\ (\A e \in t : g[e] = f[e])
      BY <1>2, <2>1
    <2>3. IsFiniteSet(t)
      BY FS_Subset
    <2>4. SumOf(g, t) = SumOf(f, t)
      BY <2>2, <2>3, SumSame
    <2> QED BY <2>1, <2>4 DEF Size
  <1>4. Size(S) = SumOf(f, S) /\ SumOf(f, S) \in Nat
    BY <1>2, <1>3, SumType
  <1>5. ASSUME NEW e \in S
        PROVE  Size(S) = e.len + Size(S \ {e}) /\ Size(S \ {e}) \in Nat
    <2>1. /\ SumOf(f, S) = f[e] + SumOf(f, S \ {e}) /\ SumOf(f, S \ {e}) \in Nat
      BY <1>2, SumElement
    <2>2. Size(S \ {e}) = SumOf(f, S \ {e})
      BY <1>3
    <2> QED BY <1>2, <1>4, <2>1, <2>2
  <1>6. ASSUME NEW t \in SUBSET S PROVE Size(t) <= Size(S)
    BY <1>2, <1>3, <1>4, SumSubset
  <1> QED BY <1>4, <1>5, <1>6

\* Nothing has size zero.
LEMMA SizeEmpty == Size({}) = 0
  BY SumEmpty DEF Size

\* The janitor waits, and no file it saw comes back or goes.
LEMMA WaitTotal ==
  ASSUME CaptureBase, TotalFacts, janitor' = janitor,
         \A j \in DOMAIN segs : j \in dir' <=> j \in dir
  PROVE  TotalFacts'
  <1>1. \A e \in janitor.entries : e.seg \in dir' <=> e.seg \in dir
    BY DEF CaptureBase, SweepFacts
  <1>2. Kept' = Kept
    BY <1>1 DEF Kept
  <1>3. janitor.pc \in {"age", "evict"} => janitor.todo \subseteq janitor.entries
    BY DEF CaptureBase, SweepFacts
  <1> QED BY <1>1, <1>2, <1>3 DEF TotalFacts, TooOld, Since

\* The steps that are not the janitor's.
LEMMA OtherTotal ==
  ASSUME CaptureBase, TotalFacts,
         Start \/ Recv \/ Lagged \/ Rotate \/ FinishOld \/ AppendRecord \/ Finalize \/ FinishLast
           \/ ClockTick \/ UNCHANGED cvars
  PROVE  TotalFacts'
  <1>1. janitor' = janitor
    BY DEF Start, Recv, Lagged, Rotate, FinishOld, AppendRecord, Finalize, FinishLast,
           ClockTick, cvars
  <1>2. ASSUME NEW w, NEW p \in Nat, OpenSegment(w, p)
        PROVE  \A j \in DOMAIN segs : j \in dir' <=> j \in dir
    <2>1. PICK i : Opened(i, p)
      BY <1>2, OpenEffect DEF CaptureBase
    <2> QED BY <2>1 DEF Opened
  <1>3. restarts \in Nat /\ restarts + 1 \in Nat
    BY DEF CaptureBase, CaptureTypes
  <1>4. Recv \/ Lagged \/ FinishOld \/ AppendRecord \/ FinishLast \/ ClockTick \/ UNCHANGED cvars
          => dir' = dir
    BY DEF Recv, Lagged, FinishOld, AppendRecord, FinishLast, ClockTick, cvars
  <1>5. (\A j \in DOMAIN segs : j \in dir' <=> j \in dir) \/ Start \/ Rotate \/ Finalize
    BY <1>4
  <1>6. CASE \A j \in DOMAIN segs : j \in dir' <=> j \in dir
    BY <1>1, <1>6, WaitTotal
  <1>7. Start \/ Rotate \/ Finalize => \A j \in DOMAIN segs : j \in dir' <=> j \in dir
    BY <1>2, <1>3 DEF Start, Rotate, Finalize, OpenFails
  <1> QED BY <1>5, <1>6, <1>7

\* The clock is read: nothing is added up yet.
LEMMA TimeTotal == CaptureBase /\ SweepTime => TotalFacts'
  <1> SUFFICES ASSUME CaptureBase, SweepTime PROVE TotalFacts'
    OBVIOUS
  <1>1. /\ janitor \in JanitorSet /\ janitor.pc = "stat" /\ dir' = dir /\ SweepFacts
        /\ janitor' = [janitor EXCEPT !.pc = "age", !.todo = janitor.entries, !.at = now]
    BY DEF CaptureBase, CaptureTypes, SweepTime
  <1>2. /\ janitor'.pc = "age" /\ janitor'.todo = janitor.entries
        /\ janitor'.entries = janitor.entries /\ janitor'.total = janitor.total
    BY <1>1 DEF JanitorSet
  <1>3. Kept' \ janitor'.todo = {}
    BY <1>2 DEF Kept
  <1>4. janitor'.total = Size(Kept \ janitor.todo)'
    <2>1. janitor.total = 0
      BY <1>1 DEF SweepFacts
    <2> QED BY <1>2, <1>3, <2>1, SizeEmpty DEF Size
  <1>5. \A e \in janitor'.todo : e.seg \in dir'
    BY <1>1, <1>2 DEF SweepFacts
  <1>6. janitor'.entries \ janitor'.todo = {}
    BY <1>2
  <1> QED BY <1>2, <1>4, <1>5, <1>6 DEF TotalFacts

\* The files kept, when one of them loses its name.
LEMMA KeptWithout ==
  ASSUME CaptureBase, NEW e \in janitor.entries, dir' = dir \ {e.seg},
         janitor'.entries = janitor.entries
  PROVE  /\ Kept' = Kept \ {e}
         /\ \A f \in janitor.entries : f # e => (f.seg \in dir' <=> f.seg \in dir)
  <1>1. \A f \in janitor.entries : f # e => f.seg # e.seg
    BY DEF CaptureBase, SweepFacts
  <1> QED BY <1>1 DEF Kept

\* The files kept are finitely many.
LEMMA KeptFinite ==
  ASSUME CaptureBase
  PROVE  /\ janitor.entries \subseteq Files /\ IsFiniteSet(janitor.entries)
         /\ Kept \subseteq Files /\ IsFiniteSet(Kept)
         /\ \A s \in SUBSET janitor.entries : IsFiniteSet(s) /\ s \subseteq Files
  <1>1. janitor.entries \subseteq Files /\ IsFiniteSet(janitor.entries)
    BY JanitorFields DEF CaptureBase, CaptureTypes, SweepFacts
  <1>2. \A s \in SUBSET janitor.entries : IsFiniteSet(s) /\ s \subseteq Files
    BY <1>1, FS_Subset
  <1>3. Kept \in SUBSET janitor.entries
    BY DEF Kept
  <1> QED BY <1>1, <1>2, <1>3

\* A file that is too old goes, another one is added to the total.
LEMMA AgeTotal == CaptureBase /\ TotalFacts /\ SweepAge => TotalFacts'
  <1> SUFFICES ASSUME CaptureBase, TotalFacts, SweepAge PROVE TotalFacts'
    OBVIOUS
  <1>0. janitor'.pc = "age"
    BY SweepAgeEffect DEF AgeStep
  <1> SUFFICES ASSUME ~janitor'.failed
               PROVE  /\ \A f \in janitor'.todo : f.seg \in dir'
                      /\ \A f \in janitor'.entries \ janitor'.todo :
                           TooOld(f)' <=> f.seg \notin dir'
                      /\ janitor'.total = Size(Kept \ janitor.todo)'
    BY <1>0 DEF TotalFacts, TooOld
  <1>1. PICK e \in janitor.todo : AgeStep(e)
    BY SweepAgeEffect
  <1>2. /\ janitor.pc = "age" /\ janitor.todo \subseteq janitor.entries /\ e \in janitor.entries
    BY DEF CaptureBase, SweepFacts, SweepAge
  <1>3. /\ janitor'.entries = janitor.entries /\ janitor'.todo = janitor.todo \ {e}
        /\ janitor'.at = janitor.at
    BY <1>1 DEF AgeStep
  <1>4. ~janitor.failed
    BY <1>1 DEF AgeStep
  <1>5. /\ \A f \in janitor.todo : f.seg \in dir
        /\ \A f \in janitor.entries \ janitor.todo : TooOld(f) <=> f.seg \notin dir
        /\ janitor.total = Size(Kept \ janitor.todo)
    BY <1>2, <1>4 DEF TotalFacts
  <1>6. \A f : TooOld(f)' <=> TooOld(f)
    BY <1>3 DEF TooOld
  <1>7. CASE TooOld(e)
    <2>1. e.seg \notin dir' /\ janitor'.total = janitor.total /\ Removed(e)
      BY <1>1, <1>7 DEF AgeStep
    <2>2. dir' = dir \ {e.seg}
      BY <2>1, RemovedEffect
    <2>3. /\ Kept' = Kept \ {e}
          /\ \A f \in janitor.entries : f # e => (f.seg \in dir' <=> f.seg \in dir)
      BY <1>2, <1>3, <2>2, KeptWithout
    <2>4. Kept' \ janitor'.todo = Kept \ janitor.todo
      BY <1>3, <2>3
    <2>5. janitor'.total = Size(Kept \ janitor.todo)'
      BY <1>5, <2>1, <2>4 DEF Size
    <2>6. \A f \in janitor'.todo : f.seg \in dir'
      BY <1>2, <1>3, <1>5, <2>3
    <2>7. \A f \in janitor'.entries \ janitor'.todo : TooOld(f)' <=> f.seg \notin dir'
      BY <1>3, <1>5, <1>6, <1>7, <2>1, <2>3
    <2> QED BY <2>5, <2>6, <2>7
  <1>8. CASE ~TooOld(e)
    <2>1. dir' = dir /\ janitor'.total = janitor.total + e.len
      BY <1>1, <1>8 DEF AgeStep
    <2>2. Kept' = Kept /\ e \in Kept
      BY <1>2, <1>3, <1>5, <2>1 DEF Kept
    <2>3. PICK s \in SUBSET Kept : s = Kept' \ janitor'.todo
      BY <2>2
    <2>4. e \in s /\ s \ {e} = Kept \ janitor.todo
      BY <1>3, <2>2, <2>3
    <2>5. s \subseteq Files /\ IsFiniteSet(s)
      BY KeptFinite DEF Kept
    <2>6. Size(s) = e.len + Size(s \ {e}) /\ Size(s \ {e}) \in Nat
      BY <2>4, <2>5, SizeFacts
    <2>7. e.len \in Nat
      BY <2>4, <2>5 DEF Files
    <2>8. janitor'.total = Size(s)
      <3>1. PICK a, b \in Nat : a = Size(s \ {e}) /\ b = e.len
        BY <2>6, <2>7
      <3>2. janitor.total = a
        BY <1>5, <2>4, <3>1
      <3> QED BY <2>1, <2>6, <3>1, <3>2
    <2>9. janitor'.total = Size(Kept \ janitor.todo)'
      BY <2>3, <2>8 DEF Size
    <2>10. \A f \in janitor'.entries \ janitor'.todo : TooOld(f)' <=> f.seg \notin dir'
      BY <1>3, <1>5, <1>6, <1>8, <2>1
    <2> QED BY <1>3, <1>5, <2>1, <2>9, <2>10
  <1> QED BY <1>7, <1>8

\* What is kept is sorted.
LEMMA SortTotal == CaptureBase /\ TotalFacts /\ SweepSort => TotalFacts'
  <1> SUFFICES ASSUME CaptureBase, TotalFacts, SweepSort PROVE TotalFacts'
    OBVIOUS
  <1>0. janitor'.pc = "evict"
    BY SweepSortFields
  <1> SUFFICES ASSUME ~janitor'.failed
               PROVE  /\ janitor'.todo = Kept'
                      /\ janitor'.total = Size(Kept)'
                      /\ \A e \in janitor'.entries :
                           e.seg \notin dir' /\ ~TooOld(e)' => Size(Since(e))' > Retention
    BY <1>0 DEF TotalFacts, TooOld, Size, Since
  <1>1. /\ janitor'.entries = janitor.entries /\ janitor'.todo = Kept /\ janitor'.at = janitor.at
        /\ janitor'.total = janitor.total /\ janitor'.failed = janitor.failed
    BY SweepSortFields
  <1>2. dir' = dir /\ janitor.pc = "age" /\ janitor.todo = {}
    BY DEF SweepSort
  <1>3. Kept' = Kept /\ Kept \ janitor.todo = Kept
    BY <1>1, <1>2 DEF Kept
  <1>4. /\ \A e \in janitor.entries \ janitor.todo : TooOld(e) <=> e.seg \notin dir
        /\ janitor.total = Size(Kept \ janitor.todo)
    BY <1>1, <1>2 DEF TotalFacts
  <1>5. janitor'.total = Size(Kept)'
    BY <1>1, <1>3, <1>4 DEF Size
  <1>6. ASSUME NEW e \in janitor'.entries, e.seg \notin dir' PROVE TooOld(e)'
    BY <1>1, <1>2, <1>4, <1>6 DEF TooOld
  <1> QED BY <1>1, <1>3, <1>5, <1>6

\* The oldest of too much goes.
LEMMA EvictTotal == CaptureBase /\ TotalFacts /\ SweepEvict => TotalFacts'
  <1> SUFFICES ASSUME CaptureBase, TotalFacts, SweepEvict PROVE TotalFacts'
    OBVIOUS
  <1>0. janitor'.pc = "evict"
    BY SweepEvictEffect DEF EvictStep
  <1> SUFFICES ASSUME ~janitor'.failed
               PROVE  /\ janitor'.todo = Kept'
                      /\ janitor'.total = Size(Kept)'
                      /\ \A e \in janitor'.entries :
                           e.seg \notin dir' /\ ~TooOld(e)' => Size(Since(e))' > Retention
    BY <1>0 DEF TotalFacts, TooOld, Size, Since
  <1>1. PICK e \in janitor.todo : EvictStep(e)
    BY SweepEvictEffect
  <1>2. /\ janitor.pc = "evict" /\ janitor.todo \subseteq janitor.entries /\ e \in janitor.entries
        /\ janitor.total > Retention
    BY DEF CaptureBase, SweepFacts, SweepEvict
  <1>3. /\ janitor'.entries = janitor.entries /\ janitor'.todo = janitor.todo \ {e}
        /\ janitor'.at = janitor.at /\ Removed(e) /\ e \in EvictFirst(janitor.todo)
        /\ janitor'.total = IF janitor.total > e.len THEN janitor.total - e.len ELSE 0
    BY <1>1 DEF EvictStep
  <1>4. ~janitor.failed /\ e.seg \notin dir'
    BY <1>1 DEF EvictStep
  <1>5. /\ janitor.todo = Kept /\ janitor.total = Size(Kept)
        /\ \A f \in janitor.entries :
             f.seg \notin dir /\ ~TooOld(f) => Size(Since(f)) > Retention
    BY <1>2, <1>4 DEF TotalFacts
  <1>6. dir' = dir \ {e.seg}
    BY <1>3, <1>4, RemovedEffect
  <1>7. /\ Kept' = Kept \ {e}
        /\ \A f \in janitor.entries : f # e => (f.seg \in dir' <=> f.seg \in dir)
    BY <1>2, <1>3, <1>6, KeptWithout
  <1>8. Kept \subseteq Files /\ IsFiniteSet(Kept) /\ e \in Kept
    BY <1>5, KeptFinite
  <1>9. Size(Kept) = e.len + Size(Kept \ {e}) /\ Size(Kept \ {e}) \in Nat /\ e.len \in Nat
    BY <1>8, SizeFacts DEF Files
  <1>10. janitor'.total = Size(Kept)'
    <2>1. PICK a, b, c \in Nat : a = Size(Kept \ {e}) /\ b = e.len /\ c = janitor.total
      BY <1>5, <1>9
    <2>2. c = b + a
      BY <1>5, <1>9, <2>1
    <2>3. janitor'.total = IF c > b THEN c - b ELSE 0
      BY <1>3, <2>1
    <2>4. janitor'.total = a
      BY <2>2, <2>3
    <2> QED BY <1>7, <2>1, <2>4 DEF Size
  <1>11. \A f \in janitor.entries : Since(f)' = Since(f) /\ (TooOld(f)' <=> TooOld(f))
    BY <1>3 DEF Since, TooOld
  <1>12. Size(Since(e)) > Retention
    <2>1. Kept \in SUBSET Since(e)
      BY <1>3, <1>5 DEF Since, EvictFirst, Kept
    <2>2. Since(e) \subseteq Files /\ IsFiniteSet(Since(e))
      <3>1. Since(e) \in SUBSET janitor.entries
        BY DEF Since
      <3> QED BY <3>1, KeptFinite
    <2>3. Size(Kept) <= Size(Since(e)) /\ Size(Since(e)) \in Nat /\ Size(Kept) \in Nat
      BY <1>8, <2>1, <2>2, SizeFacts
    <2> QED BY <1>2, <1>5, <2>3, CaptureAssumption
  <1>13. ASSUME NEW f \in janitor'.entries, f.seg \notin dir', ~TooOld(f)'
         PROVE  Size(Since(f))' > Retention
    <2>1. f \in janitor.entries /\ ~TooOld(f) /\ Since(f)' = Since(f)
      BY <1>3, <1>11, <1>13
    <2>2. Size(Since(f)) > Retention
      BY <1>5, <1>7, <1>12, <1>13, <2>1
    <2> QED BY <2>1, <2>2 DEF Size
  <1> QED BY <1>3, <1>5, <1>7, <1>10, <1>13

\* Every step keeps the total.
LEMMA CaptureNextTotal == CaptureBase /\ TotalFacts /\ [CaptureNext]_cvars => TotalFacts'
  <1> SUFFICES ASSUME CaptureBase, TotalFacts, [CaptureNext]_cvars PROVE TotalFacts'
    OBVIOUS
  <1>1. Ends \/ SweepStart \/ SweepStat \/ SweepEnds => janitor'.pc \notin {"age", "evict"}
    <2>1. janitor \in JanitorSet
      BY DEF CaptureBase, CaptureTypes
    <2>2. Resting \in JanitorSet /\ Resting.pc = "idle"
      BY DEF Resting, JanitorSet
    <2>3. Ends \/ SweepEnds => janitor'.pc = "idle"
      BY <2>2 DEF Ends, SweepEnds
    <2>4. SweepStart => janitor'.pc = "stat"
      BY <2>2 DEF SweepStart, JanitorSet
    <2>5. ASSUME SweepStat PROVE janitor'.pc \in {"idle", "stat"}
      <3>1. PICK i \in janitor.todo :
              \/ janitor' = [janitor EXCEPT !.todo = @ \ {i}, !.entries = @ \cup {Entry(i)}]
              \/ janitor' = Resting
        BY <2>5 DEF SweepStat
      <3>2. janitor.pc = "stat"
        BY <2>5 DEF SweepStat
      <3>3. PICK e : e = Entry(i)
        OBVIOUS
      <3> QED BY <2>1, <2>2, <3>1, <3>2, <3>3 DEF JanitorSet
    <2> QED BY <2>3, <2>4, <2>5
  <1>2. CASE janitor'.pc \notin {"age", "evict"}
    BY <1>2 DEF TotalFacts
  <1> QED BY <1>1, <1>2, OtherTotal, TimeTotal, AgeTotal, SortTotal, EvictTotal DEF CaptureNext

\* Theorem: a sweep without a failed removal leaves files that fit the retention, and
\* each file it evicted for its size would not have fitted together with those modified
\* at the same time or later (sweep_directory).
THEOREM SweepEvictsExactly == CaptureSpec => EvictsOldestExactly
  <1>1. CaptureInit => TotalFacts
    BY DEF CaptureInit, TotalFacts, Resting
  <1>2. ASSUME CaptureBase, TotalFacts, CaptureNext, janitor.pc = "evict", janitor'.pc = "idle",
               ~janitor.failed, writer'.pc # "down"
        PROVE  /\ Size({e \in janitor.entries : e.seg \in dir}) <= Retention
               /\ \A e \in janitor.entries :
                    e.seg \notin dir /\ ~TooOld(e) =>
                      Size({f \in janitor.entries : f.mtime >= e.mtime}) > Retention
    <2>1. /\ janitor.todo = Kept /\ janitor.total = Size(Kept)
          /\ \A e \in janitor.entries :
               e.seg \notin dir /\ ~TooOld(e) => Size(Since(e)) > Retention
      BY <1>2 DEF TotalFacts
    <2>2. SweepEnds
      <3>1. ~SweepEvict
        BY <1>2, SweepEvictEffect DEF EvictStep
      <3>2. ~Ends
        BY <1>2 DEF Ends, Down
      <3> QED BY <1>2, <3>1, <3>2 DEF CaptureNext, Start, Recv, Lagged, Rotate, FinishOld,
                 AppendRecord, Finalize, FinishLast, SweepStart, SweepStat, SweepTime, SweepAge,
                 SweepSort, ClockTick
    <2>3. Size(Kept) <= Retention
      BY <2>1, <2>2, SizeEmpty, CaptureAssumption DEF SweepEnds
    <2> QED BY <2>1, <2>3 DEF Kept, Since
  <1>3. CaptureBase /\ TotalFacts /\ [CaptureNext]_cvars =>
          [janitor.pc = "evict" /\ janitor'.pc = "idle" /\ ~janitor.failed /\ restarts' = restarts
             /\ writer'.pc # "down"
           => /\ Size({e \in janitor.entries : e.seg \in dir}) <= Retention
              /\ \A e \in janitor.entries :
                   e.seg \notin dir /\ ~TooOld(e) =>
                     Size({f \in janitor.entries : f.mtime >= e.mtime}) > Retention]_cvars
    BY <1>2
  <1> QED BY <1>1, <1>3, CaptureInitBase, CaptureNextBase, CaptureNextTotal, PTL
          DEF CaptureSpec, EvictsOldestExactly
=============================================================================
