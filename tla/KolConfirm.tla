------------------------------ MODULE KolConfirm ------------------------------
(***************************************************************************)
(* The two views the runner has of a watched wallet's ("KOL's") trades,    *)
(* and the sinks both views feed.                                          *)
(*                                                                         *)
(*   - kol_watch.rs takes pending transactions off the bus, registers each *)
(*     trade in the ConfirmRegistry and then fires the hit at the public   *)
(*     paper trader and the live trader (process_one, fire_hit);           *)
(*   - kol_confirm.rs takes block headers off its own subscription, spawns *)
(*     one process_block task per head, and for each KOL transaction of    *)
(*     the block either removes the registered entry (the trade is         *)
(*     "public") or, finding none, takes the trade for private orderflow.  *)
(*   - a sweeper drops registrations older than TTL.                       *)
(*                                                                         *)
(* The consumer, the block tasks and the sweeper are tasks of a            *)
(* multi-threaded runtime that share only the registry (a DashMap) and the *)
(* bounded sinks; they interleave freely between those accesses.           *)
(*   - the consumer of start_live_only (trader/mod.rs) takes hits off the  *)
(*     live sink and asks Strategy::evaluate (trader/strategy.rs) what to  *)
(*     do with each.                                                       *)
(* What is abstracted: the trades (one KOL in the strategy's scope, one    *)
(* token), logging, metrics, the Telegram sink, the calls of the executor  *)
(* (module LiveExecutor) and what the paper traders do with a hit.         *)
(***************************************************************************)
EXTENDS Naturals, Sequences, FiniteSets

CONSTANTS
    Txs,         \* the KOL's transactions
    SideOf,      \* gmgn decode of each: "BUY", "SELL", or "NONE" (approve ..)
    Blocks,      \* block hashes; a reorg seals the same trade in two of them
    TTL,         \* age at which a registration is swept, in sweeper ticks
    BusCap,      \* broadcast ring capacity of the kol_watch subscription
    SinkCap,     \* capacity of each mpsc sink
    TrailActive, \* [adaptive_trail] enabled: KOL sells are ignored
    MaxPublish   \* bound: how often the bus publishes one hash

ASSUME ConfirmAssumption ==
    /\ SideOf \in [Txs -> {"BUY", "SELL", "NONE"}]
    /\ TTL \in Nat \ {0}
    /\ BusCap \in Nat \ {0}
    /\ SinkCap \in Nat \ {0}
    /\ TrailActive \in BOOLEAN
    /\ MaxPublish \in Nat
    /\ IsFiniteSet(Txs)

VARIABLES
    bus,         \* queue of the kol_watch subscription
    firing,      \* transactions registered and not yet fired (at most one)
    registry,    \* ConfirmRegistry.pending: the registered transactions
    age,         \* ticks since a registered entry's registered_ns
    block,       \* [Blocks -> SUBSET Txs]: the KOL transactions sealed in it
    task,        \* progress of each block's process_block task
    todo,        \* transactions a block task has still to look at
    live,        \* queue of the live trader's sink
    \* what has happened so far; no action reads these but Publish's bound
    published,   \* [Txs -> Nat]: publications of each hash
    regs,        \* [Txs -> Nat]: registrations
    refreshed,   \* [Txs -> Nat]: registrations that replaced an entry
    confirmed,   \* [Txs -> Nat]: entries a block task removed
    swept,       \* [Txs -> Nat]: entries the sweeper removed
    taken,       \* transactions kol_watch has taken off the bus
    early,       \* transactions a block task met before kol_watch did
    scans,       \* [Txs -> Nat]: block tasks that met the transaction
    sent,        \* [Sinks -> SUBSET Hits]: hits handed to a sink
    dropped,     \* hits the full live sink did not take
    acted        \* hits the live trader entered or exited on

chainVars == <<block, task, todo>>
history == <<published, regs, refreshed, confirmed, swept, taken, early, scans,
             sent, dropped, acted>>
vars == <<bus, firing, registry, age, chainVars, live, history>>

Sinks == {"trader", "private", "live"}
Hits == [tx : Txs, via : {"pending", "public", "private"}]
Hit(t, via) == [tx |-> t, via |-> via]

TypeOK ==
    /\ bus \in Seq(Txs) /\ Len(bus) <= BusCap
    /\ firing \subseteq Txs /\ Cardinality(firing) <= 1
    /\ registry \subseteq Txs
    /\ age \in [Txs -> 0..TTL]
    /\ block \in [Blocks -> SUBSET Txs]
    /\ task \in [Blocks -> {"unsealed", "sealed", "fetching", "scanning", "over"}]
    /\ todo \in [Blocks -> SUBSET Txs]
    /\ live \in Seq(Hits) /\ Len(live) <= SinkCap
    /\ published \in [Txs -> 0..MaxPublish]
    /\ regs \in [Txs -> Nat]
    /\ refreshed \in [Txs -> Nat]
    /\ confirmed \in [Txs -> Nat]
    /\ swept \in [Txs -> Nat]
    /\ taken \subseteq Txs
    /\ early \subseteq Txs
    /\ scans \in [Txs -> Nat]
    /\ sent \in [Sinks -> SUBSET Hits]
    /\ dropped \subseteq Hits
    /\ acted \subseteq [hit : Hits, act : {"Enter", "Exit"}]

Init ==
    /\ bus = <<>>
    /\ firing = {}
    /\ registry = {}
    /\ age = [t \in Txs |-> 0]
    /\ block = [b \in Blocks |-> {}]
    /\ task = [b \in Blocks |-> "unsealed"]
    /\ todo = [b \in Blocks |-> {}]
    /\ live = <<>>
    /\ published = [t \in Txs |-> 0]
    /\ regs = [t \in Txs |-> 0]
    /\ refreshed = [t \in Txs |-> 0]
    /\ confirmed = [t \in Txs |-> 0]
    /\ swept = [t \in Txs |-> 0]
    /\ taken = {}
    /\ early = {}
    /\ scans = [t \in Txs |-> 0]
    /\ sent = [s \in Sinks |-> {}]
    /\ dropped = {}
    /\ acted = {}

-----------------------------------------------------------------------------
\* The environment: the bus (module Pipeline) and the chain.

(* The bus publishes a pending trade, again once its dedupe entry expired; *)
(* when the subscription lags, the broadcast ring loses its oldest item.   *)
Publish(t) ==
    /\ published[t] < MaxPublish
    /\ published' = [published EXCEPT ![t] = @ + 1]
    /\ bus' = Append(IF Len(bus) = BusCap THEN Tail(bus) ELSE bus, t)
    /\ UNCHANGED <<firing, registry, age, chainVars, live, regs,
                   refreshed, confirmed, swept, taken, early, scans, sent,
                   dropped, acted>>

(* A block with some of the KOL's transactions is sealed.                  *)
Seal(b) ==
    /\ task[b] = "unsealed"
    /\ \E ts \in SUBSET Txs \ {{}} : block' = [block EXCEPT ![b] = ts]
    /\ task' = [task EXCEPT ![b] = "sealed"]
    /\ UNCHANGED <<bus, firing, registry, age, todo, live, history>>

-----------------------------------------------------------------------------
\* kol_watch: the bus consumer

(* DashMap::insert on a hash that is there already replaces its entry.     *)
RegisterOver(t) ==
    IF t \in registry THEN [refreshed EXCEPT ![t] = @ + 1] ELSE refreshed

(* Mutant: only the entries are confirm-tracked.                           *)
IsEntry(t) == SideOf[t] = "BUY"
(* A hit whose side was decoded is a trade.                                *)
IsTrade(t) == SideOf[t] # "NONE"

(* process_one up to the registration: only a decoded trade is registered, *)
(* and DashMap::insert replaces an entry of the same hash with a fresh     *)
(* registered_ns.                                                          *)
WatchRegister ==
    /\ bus # <<>> /\ firing = {}
    /\ bus' = Tail(bus)
    /\ firing' = {Head(bus)}
    /\ taken' = taken \cup {Head(bus)}
    /\ IF IsTrade(Head(bus))
       THEN /\ registry' = registry \cup {Head(bus)}
            /\ age' = [age EXCEPT ![Head(bus)] = 0]
            /\ regs' = [regs EXCEPT ![Head(bus)] = @ + 1]
            /\ refreshed' = RegisterOver(Head(bus))
       ELSE UNCHANGED <<registry, age, regs, refreshed>>
    /\ UNCHANGED <<chainVars, live, published, confirmed, swept, early,
                   scans, sent, dropped, acted>>

(* try_send: a full channel drops the new hit.                             *)
TrySend(q, h) == IF Len(q) < SinkCap THEN Append(q, h) ELSE q

(* Hand a hit to a set of live, as forward_or_log and fire_hit do.  What  *)
(* a paper trader's own channel drops is not followed further.             *)
Forward(h, to) ==
    /\ live' = IF "live" \in to THEN TrySend(live, h) ELSE live
    /\ sent' = [s \in Sinks |->
                   IF s \in to THEN sent[s] \cup {h} ELSE sent[s]]
    /\ dropped' = IF "live" \in to /\ Len(live) >= SinkCap
                  THEN dropped \cup {h} ELSE dropped

(* fire_hit: every hit, trade or not, goes to the public paper trader and  *)
(* to the live trader.                                                     *)
WatchFire ==
    /\ \E t \in firing : Forward(Hit(t, "pending"), {"trader", "live"})
    /\ firing' = {}
    /\ UNCHANGED <<bus, registry, age, chainVars, published, regs,
                   refreshed, confirmed, swept, taken, early, scans, acted>>

-----------------------------------------------------------------------------
\* kol_confirm: the block tasks and the sweeper

(* The header arrives and process_block is spawned.                        *)
HeadArrives(b) ==
    /\ task[b] = "sealed"
    /\ task' = [task EXCEPT ![b] = "fetching"]
    /\ UNCHANGED <<bus, firing, registry, age, block, todo, live, history>>

(* The subscription is down when the header is announced.  run_once        *)
(* subscribes again to the heads that follow and fetches no earlier one.   *)
HeadMissed(b) ==
    /\ task[b] = "sealed"
    /\ task' = [task EXCEPT ![b] = "over"]
    /\ UNCHANGED <<bus, firing, registry, age, block, todo, live, history>>

(* get_block_by_hash returns nothing or an error: the task returns.        *)
FetchFails(b) ==
    /\ task[b] = "fetching"
    /\ task' = [task EXCEPT ![b] = "over"]
    /\ UNCHANGED <<bus, firing, registry, age, block, todo, live, history>>

FetchOk(b) ==
    /\ task[b] = "fetching"
    /\ task' = [task EXCEPT ![b] = "scanning"]
    /\ todo' = [todo EXCEPT ![b] = block[b]]
    /\ UNCHANGED <<bus, firing, registry, age, block, live, history>>

(* Mutant: the block task reads the entry and leaves it in the registry.   *)
UnregisterNot(t) == registry
Unregister(t) == registry \ {t}

(* Mutant: a public sell, seen pending already, is not sent again.         *)
PublicToNone(side) == {}

(* Where a confirmed trade goes: a public one is an exit signal to all     *)
(* three traders if it sells, a private one also an entry signal to the    *)
(* private paper trader and to the live one.                               *)
PublicTo(side) == IF side = "SELL" THEN Sinks ELSE {}
PrivateTo(side) ==
    CASE side = "SELL" -> Sinks
      [] side = "BUY"  -> {"private", "live"}
      [] OTHER         -> {}

(* One iteration of process_block's loop: registry.remove(hash) decides    *)
(* between the two branches.                                               *)
ScanPublic(b, t) ==
    /\ t \in todo[b] /\ t \in registry
    /\ todo' = [todo EXCEPT ![b] = @ \ {t}]
    /\ registry' = Unregister(t)
    /\ confirmed' = [confirmed EXCEPT ![t] = @ + 1]
    /\ scans' = [scans EXCEPT ![t] = @ + 1]
    /\ Forward(Hit(t, "public"), PublicTo(SideOf[t]))
    /\ UNCHANGED <<bus, firing, age, block, task, published, regs,
                   refreshed, swept, taken, early, acted>>

ScanPrivate(b, t) ==
    /\ t \in todo[b] /\ t \notin registry
    /\ todo' = [todo EXCEPT ![b] = @ \ {t}]
    /\ scans' = [scans EXCEPT ![t] = @ + 1]
    /\ early' = IF t \notin taken THEN early \cup {t} ELSE early
    /\ Forward(Hit(t, "private"), PrivateTo(SideOf[t]))
    /\ UNCHANGED <<bus, firing, registry, age, block, task, published,
                   regs, refreshed, confirmed, swept, taken, acted>>

ScanEnds(b) ==
    /\ task[b] = "scanning" /\ todo[b] = {}
    /\ task' = [task EXCEPT ![b] = "over"]
    /\ UNCHANGED <<bus, firing, registry, age, block, todo, live, history>>

Expired(t) == age[t] >= TTL

(* sweep_expired keeps the entries younger than TTL.                       *)
Sweep ==
    LET old == {t \in registry : Expired(t)}
    IN  /\ old # {}
        /\ registry' = registry \ old
        /\ swept' = [t \in Txs |-> IF t \in old THEN swept[t] + 1 ELSE swept[t]]
        /\ UNCHANGED <<bus, firing, age, chainVars, live, published,
                       regs, refreshed, confirmed, taken, early, scans, sent,
                       dropped, acted>>

(* Time passes; an age matters only until it reaches TTL.                  *)
Tick ==
    /\ \E t \in registry : age[t] < TTL
    /\ age' = [t \in Txs |->
                 IF t \in registry /\ age[t] < TTL THEN age[t] + 1 ELSE age[t]]
    /\ UNCHANGED <<bus, firing, registry, chainVars, live, history>>

-----------------------------------------------------------------------------
(* Strategy::evaluate.  A buy below a threshold is skipped, and any buy is *)
(* while the BNB price cannot be fetched; a sell always is an exit.        *)
Decisions(side) ==
    CASE side = "SELL" -> {"Exit"}
      [] side = "BUY"  -> {"Enter", "Skip"}
      [] OTHER         -> {"Skip"}

(* What the consumer does with a decision: with the trail active it leaves *)
(* exits to the price watcher.                                             *)
ActsOn(d) == d = "Enter" \/ (d = "Exit" /\ ~TrailActive)

(* The live consumer, back from the call before, takes a hit, decides, and *)
(* calls the executor.                                                     *)
LiveConsume ==
    /\ live # <<>>
    /\ live' = Tail(live)
    /\ \E d \in Decisions(SideOf[Head(live).tx]) :
           acted' = IF ActsOn(d)
                    THEN acted \cup {[hit |-> Head(live), act |-> d]}
                    ELSE acted
    /\ UNCHANGED <<bus, firing, registry, age, chainVars, published, regs,
                   refreshed, confirmed, swept, taken, early, scans, sent,
                   dropped>>

-----------------------------------------------------------------------------
BlockStep(b) ==
    \/ HeadArrives(b) \/ HeadMissed(b)
    \/ FetchOk(b) \/ FetchFails(b)
    \/ \E t \in Txs : ScanPublic(b, t) \/ ScanPrivate(b, t)
    \/ ScanEnds(b)

Next ==
    \/ \E t \in Txs : Publish(t)
    \/ WatchRegister \/ WatchFire
    \/ \E b \in Blocks : Seal(b) \/ BlockStep(b)
    \/ Sweep \/ Tick
    \/ LiveConsume

Spec == Init /\ [][Next]_vars

(* A block task goes on until its loop ends (each of its requests returns  *)
(* or fails), and the live consumer comes back from the executor, whose    *)
(* requests do so too.  Nothing is assumed of the bus, of kol_watch, of    *)
(* the sweeper or of the chain.                                            *)
Fairness ==
    /\ \A b \in Blocks : WF_vars(BlockStep(b))
    /\ WF_vars(LiveConsume)

FairSpec == Spec /\ Fairness

-----------------------------------------------------------------------------
\* Properties

(* kol_confirm.rs, register / process_block / sweep_expired: every         *)
(* registration ends in exactly one way.  It is confirmed by one block     *)
(* task, swept once, replaced by a refresh, or still in the registry.      *)
RegistrationsAccounted ==
    \A t \in Txs :
        regs[t] = confirmed[t] + swept[t] + refreshed[t]
                    + (IF t \in registry THEN 1 ELSE 0)

(* kol_confirm.rs, process_block's private branch: a trade that was fired  *)
(* as a pending hit is also reported as a private one only if a block task *)
(* met it before kol_watch took it off the bus, the sweeper had expired    *)
(* it, or two blocks held it.  In particular registering before firing is  *)
(* enough whenever the block task comes after the registration.            *)
DoubleReportNeedsRaceExpiryOrReorg ==
    \A t \in Txs :
        /\ SideOf[t] # "NONE"
        /\ \E s \in Sinks : Hit(t, "private") \in sent[s]
        /\ \E s \in Sinks : Hit(t, "pending") \in sent[s]
        => t \in early \/ swept[t] > 0 \/ scans[t] > 1

(* kol_confirm.rs, process_block, and trader/mod.rs, the live consumer: a  *)
(* KOL's sell found in a block makes the live trader exit on a confirmed   *)
(* hit, the one that carries the block the sold fraction is computed from, *)
(* whether or not kol_watch, the sweeper or another block's task had the   *)
(* trade first; unless the live sink was full.                             *)
ConfirmedSellIsFollowed ==
    \A t \in {u \in Txs : SideOf[u] = "SELL"} :
        ~TrailActive /\ (\E b \in Blocks : t \in todo[b])
        ~> \E via \in {"public", "private"} :
               \/ [hit |-> Hit(t, via), act |-> "Exit"] \in acted
               \/ Hit(t, via) \in dropped
=============================================================================
