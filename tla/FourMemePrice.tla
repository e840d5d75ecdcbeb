---------------------------- MODULE FourMemePrice ----------------------------
(***************************************************************************)
(* The bonding-curve price feed (four_meme_price.rs) for one token: one    *)
(* task merges the launchpad's TradeBuy and TradeSell subscriptions into   *)
(* the shared price cache and the per-block flow statistics, which the     *)
(* trail watcher reads at each head (adaptive_trail.rs,                      *)
(* get_latest_price_cached and compute_vote_signals).  The watcher's price *)
(* lookup is here too: the cache while it is fresh, then a quote on        *)
(* PancakeSwap V2, then a scan of the curve's buys.                        *)
(*                                                                         *)
(* Each subscription keeps the order of its own logs; between the two the  *)
(* select! is biased to the buys.  A lost connection loses what the two    *)
(* streams hold and what is logged until the next subscription.  When the  *)
(* chain replaces its head block, the node sends the logs of the trades    *)
(* taken off again, as removed ones, and the feed ingests them like any    *)
(* other.  A log's number stands for its price, its amount is one unit.    *)
(***************************************************************************)
EXTENDS Integers, Sequences, SequencesExt, FiniteSets, Sums

CONSTANTS
    Window,         \* STATS_WINDOW
    MaxStale,       \* CACHE_MAX_STALE_BLOCKS
    LastBlock,      \* bound: the highest block
    MaxLogs,        \* bound: logs, from which on nothing more is traded and no block replaced
    MaxRemovals,    \* bound: removed logs, from which on no block is replaced
    MaxDisconnects, \* bound: lost connections
    MaxFailed       \* bound: exits of the position that fail

ASSUME FeedAssumption ==
    /\ Window \in Nat \ {0}
    /\ MaxStale \in Nat
    /\ LastBlock \in Nat /\ MaxLogs \in Nat /\ MaxRemovals \in Nat
    /\ MaxDisconnects \in Nat /\ MaxFailed \in Nat

VARIABLES
    height,      \* the chain's block
    logs,        \* the logs of the launchpad's trades, the removed ones too, as the node
                 \* sends them
    undoing,     \* the head block is being replaced
    graduated,   \* the block the token moved to a V2 pair in, or OnCurve
    buySub, sellSub,   \* logs the two streams hold
    connected,
    cache,       \* FourMemePriceCache of the token: <<>> or <<PricePoint>>
    stats,       \* TokenStats.blocks
    watched,     \* the last block the trail watcher handled
    observed,    \* TrailState.last_observed_block of the position
    failed,      \* exits of the position that failed
    disconnects,
    misordered,  \* history: a trade was ingested after one of a later block
    late         \* history: curve prices used more than MaxStale blocks after graduation

feedVars == <<cache, stats, misordered>>
watchVars == <<watched, observed, failed, late>>
chainVars == <<height, logs, undoing, graduated>>
fvars == <<chainVars, buySub, sellSub, connected, disconnects, feedVars, watchVars>>

OnCurve == -1
BuyBlock == 0    \* the block of the buy that opened the position

\* undoes: the number of the trade that a removed log takes off the chain, or 0.
Logs == [block : Nat, buy : BOOLEAN, undoes : Nat, number : Nat]

FeedInit ==
    /\ height = 0
    /\ logs = <<>>
    /\ undoing = FALSE
    /\ graduated = OnCurve
    /\ buySub = <<>> /\ sellSub = <<>>
    /\ connected = TRUE
    /\ cache = <<>>
    /\ stats = <<>>
    /\ disconnects = 0
    /\ misordered = FALSE
    /\ watched = 0
    /\ observed = BuyBlock
    /\ failed = 0
    /\ late = 0

-----------------------------------------------------------------------------
(* TokenStats::ingest.                                                     *)

(* Mutant: a new entry for every trade.                                    *)
NeedNewAlways(s, block) == TRUE
(* The last entry is reused for a trade of its own block.                  *)
NeedNew(s, block) == s = <<>> \/ Last(s).block # block

(* The oldest entries are popped off a window that is too long.            *)
Trimmed(s) == IF Len(s) > Window THEN Tail(s) ELSE s

Counted(e, t) ==
    IF t.buy THEN [e EXCEPT !.buys = @ + 1] ELSE [e EXCEPT !.sells = @ + 1]

Ingested(s, t) ==
    LET w == IF NeedNew(s, t.block)
             THEN Trimmed(Append(s, [block |-> t.block, buys |-> 0, sells |-> 0]))
             ELSE s
    IN  [w EXCEPT ![Len(w)] = Counted(@, t)]

(* buy_count_last(n), and its like for sells and flow: the last n entries. *)
LastEntries(s, n) == {i \in DOMAIN s : i > Len(s) - n}
BuyCountLast(s, n) == SumOf([i \in DOMAIN s |-> s[i].buys], LastEntries(s, n))

-----------------------------------------------------------------------------
(* run_loop.                                                               *)

(* cache.write().insert(token, PricePoint): the last one ingested.         *)
Cached(t) == <<t>>

Ingest(t) ==
    /\ cache' = Cached(t)
    /\ stats' = Ingested(stats, t)
    /\ misordered' = (misordered \/ (cache # <<>> /\ cache[1].block > t.block))

IngestBuy ==
    /\ connected /\ buySub # <<>>
    /\ Ingest(Head(buySub))
    /\ buySub' = Tail(buySub)
    /\ UNCHANGED <<chainVars, sellSub, connected, disconnects, watchVars>>

(* The select! polls the buys first: a sell waits while a buy is there.    *)
IngestSell ==
    /\ connected /\ buySub = <<>> /\ sellSub # <<>>
    /\ Ingest(Head(sellSub))
    /\ sellSub' = Tail(sellSub)
    /\ UNCHANGED <<chainVars, buySub, connected, disconnects, watchVars>>

(* A stream ends or fails: run_loop returns, the caches stay.              *)
Disconnect ==
    /\ connected /\ disconnects < MaxDisconnects
    /\ connected' = FALSE
    /\ buySub' = <<>> /\ sellSub' = <<>>
    /\ disconnects' = disconnects + 1
    /\ UNCHANGED <<chainVars, feedVars, watchVars>>

(* Mutant: the new subscription replays the buys so far.                   *)
ReconnectReplays ==
    /\ ~connected
    /\ connected' = TRUE
    /\ buySub' = SelectSeq(logs, LAMBDA t : t.buy)
    /\ UNCHANGED <<chainVars, sellSub, disconnects, feedVars, watchVars>>

(* start's loop subscribes again, from the present on.                     *)
Reconnect ==
    /\ ~connected
    /\ connected' = TRUE
    /\ UNCHANGED <<chainVars, buySub, sellSub, disconnects, feedVars, watchVars>>

-----------------------------------------------------------------------------
(* get_latest_price_cached, as process_one_position calls it at block n.   *)

(* Mutant: the cached price serves for the whole hold.                     *)
FreshForever(n) == cache # <<>>
(* The cached price is used while it is no more than MaxStale blocks old;  *)
(* the feed may be ahead of the watcher, so the subtraction saturates.     *)
Fresh(n) == cache # <<>> /\ n <= cache[1].block + MaxStale

(* A trade that was made and not taken off again.                          *)
OnChain(i) == logs[i].undoes = 0 /\ \A j \in DOMAIN logs : logs[j].undoes # i

(* fourmeme_observed_price: some buy on the curve since the last           *)
(* observation.                                                            *)
CurveBuySince(n) ==
    \E i \in DOMAIN logs :
        logs[i].buy /\ OnChain(i) /\ observed < logs[i].block /\ logs[i].block <= n

(* What the position's state says was observed last is o; or an exit is    *)
(* fired and fails, which drops the state, and the next block starts again *)
(* from the buy (fire_exit, init_state_from_ledger).  An exit that works   *)
(* ends the position.                                                      *)
HeldOn(o) ==
    \/ observed' = o /\ UNCHANGED failed
    \/ failed < MaxFailed /\ failed' = failed + 1 /\ observed' = BuyBlock

UsesCurvePrice(n) ==
    /\ HeldOn(n)
    /\ late' = IF graduated # OnCurve /\ n > graduated + MaxStale
               THEN late + 1 ELSE late

(* v2_quote_price: fails without a pair, and may fail with one.            *)
UsesV2Quote(n) ==
    /\ graduated # OnCurve
    /\ HeldOn(n)
    /\ UNCHANGED late

(* Each request of the fallbacks may fail; without a price only the        *)
(* timeout is checked.                                                     *)
Lookup(n) ==
    /\ watched < n /\ n <= height
    /\ watched' = n
    /\ \/ Fresh(n) /\ UsesCurvePrice(n)
       \/ ~Fresh(n) /\ UsesV2Quote(n)
       \/ ~Fresh(n) /\ CurveBuySince(n) /\ UsesCurvePrice(n)
       \/ ~Fresh(n) /\ HeldOn(observed) /\ UNCHANGED late
    /\ UNCHANGED <<chainVars, buySub, sellSub, connected, disconnects, feedVars>>

-----------------------------------------------------------------------------
(* The chain.                                                              *)

NewBlock ==
    /\ height < LastBlock /\ ~undoing
    /\ height' = height + 1
    /\ UNCHANGED <<logs, undoing, graduated, buySub, sellSub, connected, disconnects,
                   feedVars, watchVars>>

(* A log of the current block; a subscribed stream gets it.                *)
NewLog(buy, undoes) ==
    [block |-> height, buy |-> buy, undoes |-> undoes, number |-> Len(logs) + 1]

Sent(log) ==
    /\ logs' = Append(logs, log)
    /\ buySub' = IF connected /\ log.buy THEN Append(buySub, log) ELSE buySub
    /\ sellSub' = IF connected /\ ~log.buy THEN Append(sellSub, log) ELSE sellSub

Trade(buy) ==
    /\ Len(logs) < MaxLogs
    /\ graduated = OnCurve /\ ~undoing
    /\ Sent(NewLog(buy, 0))
    /\ UNCHANGED <<height, undoing, graduated, connected, disconnects, feedVars, watchVars>>

(* The chain replaces its head block: each trade of it is taken off, and   *)
(* its log sent again as a removed one, before the new block has any; a    *)
(* graduation in the block is undone with the first.                       *)
TakeOff(i) ==
    /\ logs[i].block = height /\ OnChain(i)
    /\ undoing \/ Len(logs) < MaxLogs
    /\ undoing \/ Cardinality({j \in DOMAIN logs : logs[j].undoes # 0}) < MaxRemovals
    /\ Sent(NewLog(logs[i].buy, i))
    /\ undoing' = \E j \in DOMAIN logs \ {i} : logs[j].block = height /\ OnChain(j)
    /\ graduated' = IF graduated = height THEN OnCurve ELSE graduated
    /\ UNCHANGED <<height, connected, disconnects, feedVars, watchVars>>

(* The curve is complete and the token trades on its V2 pair from now on.  *)
Graduate ==
    /\ graduated = OnCurve /\ ~undoing
    /\ graduated' = height
    /\ UNCHANGED <<height, logs, undoing, buySub, sellSub, connected, disconnects, feedVars,
                   watchVars>>

FeedNext ==
    \/ IngestBuy \/ IngestSell
    \/ Disconnect \/ Reconnect
    \/ NewBlock
    \/ \E buy \in BOOLEAN : Trade(buy)
    \/ \E i \in DOMAIN logs : TakeOff(i)
    \/ Graduate
    \/ \E n \in 1..LastBlock : Lookup(n)

FeedSpec == FeedInit /\ [][FeedNext]_fvars

-----------------------------------------------------------------------------
(* Properties                                                              *)

Entries == [block : Nat, buys : Nat, sells : Nat]

(* Types of the feed's state; the window never holds more than             *)
(* STATS_WINDOW entries (TokenStats::ingest).                              *)
FeedTypeOK ==
    /\ height \in 0..LastBlock
    /\ logs \in Seq(Logs) /\ undoing \in BOOLEAN
    /\ buySub \in Seq(Logs) /\ sellSub \in Seq(Logs)
    /\ connected \in BOOLEAN
    /\ cache \in Seq(Logs) /\ Len(cache) <= 1
    /\ stats \in Seq(Entries) /\ Len(stats) <= Window
    /\ graduated \in {OnCurve} \cup 0..LastBlock
    /\ watched \in 0..LastBlock /\ observed \in 0..watched
    /\ failed \in 0..MaxFailed /\ late \in Nat
    /\ disconnects \in 0..MaxDisconnects
    /\ misordered \in BOOLEAN

Drained == buySub = <<>> /\ sellSub = <<>> /\ disconnects = 0

(* The trades that a block had, and those of them that a reorganisation    *)
(* took off.                                                               *)
Of(block, buy) ==
    {i \in DOMAIN logs : logs[i].block = block /\ logs[i].buy = buy /\ logs[i].undoes = 0}
TakenOff(block, buy) == {i \in Of(block, buy) : \E j \in DOMAIN logs : logs[j].undoes = i}
TradedBlocks == {logs[i].block : i \in DOMAIN logs}

(* What the feed is sent of a block's flow: each trade once, and once more *)
(* the one that is taken off.                                              *)
Flow(block, buy) == Cardinality(Of(block, buy)) + Cardinality(TakenOff(block, buy))

(* four_meme_price.rs, TokenStats::ingest and decode_trade_buy: when       *)
(* everything was ingested and nothing out of order, the window is exactly *)
(* the logged flow of the last STATS_WINDOW blocks that had a trade,       *)
(* oldest first: a block with a trade is left out only if the window is    *)
(* full of later ones.  A trade taken off by a reorganisation stays and is *)
(* counted again.                                                          *)
WindowMatchesLogs ==
    Drained /\ ~misordered =>
        /\ \A i, j \in DOMAIN stats : i < j => stats[i].block < stats[j].block
        /\ \A i \in DOMAIN stats :
             LET b == stats[i].block
             IN  /\ b \in TradedBlocks
                 /\ stats[i].buys = Flow(b, TRUE)
                 /\ stats[i].sells = Flow(b, FALSE)
        /\ \A b \in TradedBlocks :
             \/ \E i \in DOMAIN stats : stats[i].block = b
             \/ Len(stats) = Window /\ b < stats[1].block

(* four_meme_price.rs, buy_count_last as the trail's votes read it: late,  *)
(* misordered or lost logs can only make the feed miss flow.  Over the     *)
(* entries it sums it counts no buy of their blocks twice but those that a *)
(* reorganisation took off, and none three times.                          *)
OnlyRemovedCountTwice ==
    \A n \in 1..Window :
        LET blocks == {stats[i].block : i \in LastEntries(stats, n)}
        IN  BuyCountLast(stats, n) <=
                Cardinality(UNION {Of(b, TRUE) : b \in blocks})
                + Cardinality(UNION {TakenOff(b, TRUE) : b \in blocks})

(* adaptive_trail.rs, process_one_position: "Beyond that we MUST fall      *)
(* through to V2 quote so we catch graduation events".  From MaxStale      *)
(* blocks after a token's graduation on, its bonding-curve price is used   *)
(* at most once more, by a scan after a failed quote, and once more after  *)
(* each exit that fails; however late the feed delivers the last trades    *)
(* and however many requests fail.                                         *)
GraduationCaught == late <= 1 + failed
=============================================================================
