------------------------------ MODULE Pipeline ----------------------------
(***************************************************************************)
(* The mempool pipeline: the IPC and WSS sources (bsc-sources), the decoder *)
(* pool, the dedupe stage with its TTL janitor, and the head state that    *)
(* stamps every published transaction (bsc-bus).                           *)
(*                                                                         *)
(* A source stamps an observation with the time it saw it, but the WSS     *)
(* source still has to fetch the transaction, and the decoder workers take *)
(* from one queue and hand over to another at their own pace: observations *)
(* reach the dedupe stage in any order.                                    *)
(***************************************************************************)
EXTENDS Integers, Sequences, FiniteSets

CONSTANTS
    Hashes,      \* transactions
    BadTxs,      \* those whose decoding or signer recovery fails
    Workers,     \* decoder workers
    RawCap,      \* raw_channel_capacity
    DecodedCap,  \* decoded_channel_capacity
    TTL,         \* dedupe_ttl_secs
    MaxObs,      \* bound: observations made by the sources
    MaxClock,    \* bound: the clock stops here
    MaxHead      \* bound: new heads

ASSUME ConstantsAssumption ==
    /\ BadTxs \subseteq Hashes
    /\ RawCap \in Nat \ {0} /\ DecodedCap \in Nat \ {0}
    /\ TTL \in Nat /\ MaxObs \in Nat /\ MaxClock \in Nat /\ MaxHead \in Nat

Sources == {"ipc", "wss"}
Obs == [hash: Hashes, source: Sources, recv: Nat]

VARIABLES
    clock,     \* wall clock
    head,      \* CurrentBlockState: number and when it was seen
    fetching,  \* backfill_one tasks of the WSS source
    raw,       \* channel from the sources to the decoders
    hand,      \* worker -> what it holds: at most one decoded observation
    decoded,   \* channel from the decoders to the dedupe stage
    seen,      \* Dedupe.map: at most one FirstSeen per hash
    pub,       \* hash -> what was published for it, oldest first
    obs        \* counter for the bound

plvars == <<clock, head, fetching, raw, hand, decoded, seen, pub, obs>>

Init ==
    /\ clock = 0
    /\ head = [number |-> 0, at |-> 0]
    /\ fetching = {}
    /\ raw = <<>>
    /\ hand = [w \in Workers |-> {}]
    /\ decoded = <<>>
    /\ seen = [h \in Hashes |-> {}]
    /\ pub = [h \in Hashes |-> <<>>]
    /\ obs = 0

---------------------------------------------------------------------------
(* Sources.                                                                *)

RawHasRoom == Len(raw) < RawCap

\* try_send: a full channel loses the observation that has just arrived.
TrySend(o) == raw' = IF RawHasRoom THEN Append(raw, o) ELSE raw

\* handle_event: the IPC source gets the whole transaction at once.
IpcEvent(h) ==
    /\ obs < MaxObs
    /\ obs' = obs + 1
    /\ TrySend([hash |-> h, source |-> "ipc", recv |-> clock])
    /\ UNCHANGED <<clock, head, fetching, hand, decoded, seen, pub>>

\* The WSS source gets a hash and spawns a task that fetches the transaction.
WssHash(h) ==
    /\ obs < MaxObs
    /\ obs' = obs + 1
    /\ fetching' = fetching \cup {[hash |-> h, source |-> "wss", recv |-> clock]}
    /\ UNCHANGED <<clock, head, raw, hand, decoded, seen, pub>>

\* backfill_one succeeds at one of its attempts.
WssFetched(o) ==
    /\ fetching' = fetching \ {o}
    /\ TrySend(o)
    /\ UNCHANGED <<clock, head, hand, decoded, seen, pub, obs>>

\* Every attempt came back empty: the transaction was already gone.
WssMissing(o) ==
    /\ fetching' = fetching \ {o}
    /\ UNCHANGED <<clock, head, raw, hand, decoded, seen, pub, obs>>

---------------------------------------------------------------------------
(* run_decoder_worker.                                                     *)

\* A worker takes the oldest observation and decodes it, or drops it.
Decode(w) ==
    /\ hand[w] = {}
    /\ raw # <<>>
    /\ raw' = Tail(raw)
    /\ hand' = [hand EXCEPT ![w] = {o \in {Head(raw)} : o.hash \notin BadTxs}]
    /\ UNCHANGED <<clock, head, fetching, decoded, seen, pub, obs>>

\* Mutant: a full channel loses the decoded transaction.
HandOverOrLose(w) ==
    /\ hand[w] # {}
    /\ \E o \in hand[w] : decoded' = IF Len(decoded) < DecodedCap THEN Append(decoded, o) ELSE decoded
    /\ hand' = [hand EXCEPT ![w] = {}]
    /\ UNCHANGED <<clock, head, fetching, raw, seen, pub, obs>>

\* send: the worker waits for room.
HandOver(w) ==
    /\ hand[w] # {}
    /\ Len(decoded) < DecodedCap
    /\ \E o \in hand[w] : decoded' = Append(decoded, o)
    /\ hand' = [hand EXCEPT ![w] = {}]
    /\ UNCHANGED <<clock, head, fetching, raw, seen, pub, obs>>

---------------------------------------------------------------------------
(* run_dedupe and run_janitor.                                             *)

\* block_context_for: the newest head, and the time since it was seen.
Context(recv) ==
    [block |-> head.number, headAt |-> head.at,
     into |-> IF recv > head.at THEN recv - head.at ELSE 0]

\* A hash without an entry: it gets one, and the transaction is published.
DedupeFresh ==
    LET o == Head(decoded)
    IN  /\ decoded # <<>>
        /\ seen[o.hash] = {}
        /\ decoded' = Tail(decoded)
        /\ seen' = [seen EXCEPT ![o.hash] =
               {[first |-> o.recv, expires |-> o.recv + TTL, sources |-> <<o>>]}]
        /\ pub' = [pub EXCEPT ![o.hash] = Append(@, [first |-> o.recv, context |-> Context(o.recv)])]
        /\ UNCHANGED <<clock, head, fetching, raw, hand, obs>>

WithSource(e, o) ==
    [first |-> e.first, expires |-> e.expires, sources |-> Append(e.sources, o)]

\* A hash with an entry: the source is noted, and nothing else happens.
DedupeDuplicate ==
    LET o == Head(decoded)
    IN  /\ decoded # <<>>
        /\ seen[o.hash] # {}
        /\ decoded' = Tail(decoded)
        /\ seen' = [seen EXCEPT ![o.hash] = {WithSource(e, o) : e \in @}]
        /\ UNCHANGED <<clock, head, fetching, raw, hand, pub, obs>>

\* Mutant: an entry is dropped when it expires, not after.
UnexpiredStrict(e) == e.expires > clock

Unexpired(e) == e.expires >= clock

\* sweep.
Sweep ==
    /\ seen' = [h \in Hashes |-> {e \in seen[h] : Unexpired(e)}]
    /\ UNCHANGED <<clock, head, fetching, raw, hand, decoded, pub, obs>>

---------------------------------------------------------------------------
\* on_new_head, from the head updater.
NewHead ==
    /\ head.number < MaxHead
    /\ head' = [number |-> head.number + 1, at |-> clock]
    /\ UNCHANGED <<clock, fetching, raw, hand, decoded, seen, pub, obs>>

Tick ==
    /\ clock < MaxClock
    /\ clock' = clock + 1
    /\ UNCHANGED <<head, fetching, raw, hand, decoded, seen, pub, obs>>

Next ==
    \/ \E h \in Hashes : IpcEvent(h) \/ WssHash(h)
    \/ \E o \in fetching : WssFetched(o) \/ WssMissing(o)
    \/ \E w \in Workers : Decode(w) \/ HandOver(w)
    \/ DedupeFresh \/ DedupeDuplicate \/ Sweep
    \/ NewHead \/ Tick

Spec == Init /\ [][Next]_plvars

\* The pool and the dedupe task keep running; the sources owe nothing.  Some worker
\* always takes what is queued, and a waiting worker gets its turn to send (the
\* channel queues its senders).
Fairness ==
    /\ WF_plvars(\E w \in Workers : Decode(w))
    /\ \A w \in Workers : SF_plvars(HandOver(w))
    /\ WF_plvars(DedupeFresh \/ DedupeDuplicate)

FairSpec == Spec /\ Fairness

---------------------------------------------------------------------------
FirstSeen == [first: Nat, expires: Nat, sources: Seq(Obs)]
Contexts == [block: Nat, headAt: Nat, into: Nat]

\* Types of the pipeline's state; the channels keep to their capacities.
TypeOK ==
    /\ clock \in Nat
    /\ head \in [number: Nat, at: Nat]
    /\ fetching \subseteq Obs
    /\ raw \in Seq(Obs) /\ Len(raw) <= RawCap
    /\ hand \in [Workers -> SUBSET Obs]
    /\ decoded \in Seq(Obs) /\ Len(decoded) <= DecodedCap
    /\ \A h \in Hashes : \A e \in seen[h] : e \in FirstSeen
    /\ \A h \in Hashes : pub[h] \in Seq([first: Nat, context: Contexts])
    /\ obs \in Nat

\* However late, reordered or repeated the observations are, a transaction is
\* published again only once its previous publication is older than the TTL.
RepublishNeedsTTL ==
    [][\A h \in Hashes :
           /\ pub'[h] # pub[h]
           /\ pub[h] # <<>>
           => clock > pub[h][Len(pub[h])].first + TTL]_plvars

\* A decodable observation that got into the raw channel is published, or its
\* transaction already was: neither the pool nor the full channel between pool and
\* dedupe stage loses or blocks it for ever.
AcceptedIsPublished ==
    \A h \in Hashes \ BadTxs :
        (\E i \in 1..Len(raw) : raw[i].hash = h) ~> pub[h] # <<>>
===========================================================================
