--------------------------- MODULE ReadyPosition ---------------------------
(***************************************************************************)
(* What the live executor promises the trail watcher about one token, and  *)
(* what the watcher keeps to: the contract between executor_live.rs        *)
(* (position_snapshot, execute_exit) and adaptive_trail.rs.  LiveExecutor  *)
(* implements it for each token when the trail is on; AdaptiveTrail, which *)
(* models the executor by its effects alone, implements it as well, so     *)
(* that the executor it assumes is one the real executor can be.           *)
(***************************************************************************)
EXTENDS Naturals

CONSTANTS
    Ids,    \* the positions there may ever be
    NoId    \* no ready position

VARIABLES
    view,     \* the ready position position_snapshot shows, or NoId
    exiting,  \* an exit called by the watcher is under way
    future    \* positions that may still become ready

rpvars == <<view, exiting, future>>

Init ==
    /\ view = NoId
    /\ exiting = FALSE
    /\ future \subseteq Ids \ {NoId}

\* A position becomes ready, at most once ever, and only when no other is.
Appear ==
    /\ view = NoId /\ ~exiting
    /\ view' \in future
    /\ future' \subseteq future \ {view'}
    /\ UNCHANGED exiting

\* The watcher calls an exit of a ready position, one at a time.
StartExit ==
    /\ view # NoId /\ ~exiting
    /\ exiting' = TRUE
    /\ UNCHANGED <<view, future>>

\* The exit returns, with the position sold or still there.
EndExit ==
    /\ exiting
    /\ exiting' = FALSE
    /\ view' \in {view, NoId}
    /\ UNCHANGED future

\* A buy is refused, or its finalisation gives up: the position never gets ready.
Discard ==
    /\ future' \subseteq future
    /\ UNCHANGED <<view, exiting>>

\* The process restarts: the executor has forgotten the position.
Restart ==
    /\ view' = NoId
    /\ exiting' = FALSE
    /\ future' \subseteq future

Next == Discard \/ Appear \/ StartExit \/ EndExit \/ Restart

Spec == Init /\ [][Next]_rpvars
============================================================================
