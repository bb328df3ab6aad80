---------------------------- MODULE ChannelMonitor ----------------------------
(***************************************************************************)
(* What the leases promise, without leases, workers, clocks or databases:  *)
(* a slot (a channel, or a replay of its own) is monitored for one session *)
(* at a time, a session is monitored once, and its row says "live" until   *)
(* the monitor closes it or, the monitor being gone, somebody else does.   *)
(***************************************************************************)
CONSTANTS Sessions, Slots, None

VARIABLES
    status,     \* the session's row
    slot,       \* what the session monitors, from when its row exists
    monitored,  \* the sessions being monitored now
    begun       \* the sessions that ever were

vars == <<status, slot, monitored, begun>>

Init ==
    /\ status = [s \in Sessions |-> "none"]
    /\ slot = [s \in Sessions |-> None]
    /\ monitored = {}
    /\ begun = {}

\* A new session gets its row.
Open(s) ==
    /\ status[s] = "none"
    /\ status' = [status EXCEPT ![s] = "live"]
    /\ \E x \in Slots : slot' = [slot EXCEPT ![s] = x]
    /\ UNCHANGED <<monitored, begun>>

Begin(s) ==
    /\ status[s] = "live"
    /\ s \notin begun
    /\ \A t \in monitored : slot[t] # slot[s]
    /\ monitored' = monitored \cup {s}
    /\ begun' = begun \cup {s}
    /\ UNCHANGED <<status, slot>>

Close(s) ==
    /\ s \in monitored
    /\ monitored' = monitored \ {s}
    /\ \E final \in {"ended", "failed"} : status' = [status EXCEPT ![s] = final]
    /\ UNCHANGED <<slot, begun>>

\* Monitors that vanish in a crash, or that fail to write their last status.
Vanish(gone) ==
    /\ gone # {} /\ gone \subseteq monitored
    /\ monitored' = monitored \ gone
    /\ UNCHANGED <<status, slot, begun>>

\* Somebody closes sessions that nobody monitors.
Interrupt(orphans) ==
    /\ orphans # {}
    /\ \A s \in orphans : status[s] = "live" /\ s \notin monitored
    /\ status' = [s \in Sessions |-> IF s \in orphans THEN "interrupted" ELSE status[s]]
    /\ UNCHANGED <<slot, monitored, begun>>

Next ==
    \/ \E s \in Sessions : Open(s) \/ Begin(s) \/ Close(s)
    \/ \E some \in SUBSET Sessions : Vanish(some) \/ Interrupt(some)

Spec == Init /\ [][Next]_vars
===============================================================================
