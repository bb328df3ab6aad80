-------------------------- MODULE WindowedTranscript --------------------------
(***************************************************************************)
(* What the database holds of one session, however it came there: a        *)
(* transcript that only grows at its end, cut from the front into windows, *)
(* one at a time; a window is settled before the next one is opened, and   *)
(* its events are written once, after it was settled as "done".            *)
(***************************************************************************)
EXTENDS Integers, Sequences

CONSTANT Segs   \* segment ids, in the order of their speech

VARIABLES
    stored,   \* the segments with a row
    linked,   \* segments.window_id, 0 for NULL
    windows,  \* the status of each window row, by id
    facts     \* the windows whose events were committed

vars == <<stored, linked, windows, facts>>

Loose == {s \in stored : linked[s] = 0}
Settled == windows = <<>> \/ windows[Len(windows)] # "extracting"

Init ==
    /\ stored = {}
    /\ linked = [s \in Segs |-> 0]
    /\ windows = <<>>
    /\ facts = {}

Store(s) ==
    /\ \A t \in stored : t < s
    /\ stored' = stored \cup {s}
    /\ UNCHANGED <<linked, windows, facts>>

\* The oldest loose segments, up to s, make the next window.
Open(s) ==
    /\ Settled
    /\ s \in Loose
    /\ windows' = Append(windows, "extracting")
    /\ linked' = [t \in Segs |->
                    IF t \in Loose /\ t <= s THEN Len(windows) + 1 ELSE linked[t]]
    /\ UNCHANGED <<stored, facts>>

\* A window row whose segments were not linked: it is never settled.
OpenEmpty ==
    /\ Settled
    /\ windows' = Append(windows, "extracting")
    /\ UNCHANGED <<stored, linked, facts>>

Settle(verdict) ==
    /\ ~Settled
    /\ windows' = [windows EXCEPT ![Len(windows)] = verdict]
    /\ UNCHANGED <<stored, linked, facts>>

WriteEvents ==
    /\ windows # <<>> /\ windows[Len(windows)] = "done"
    /\ Len(windows) \notin facts
    /\ facts' = facts \cup {Len(windows)}
    /\ UNCHANGED <<stored, linked, windows>>

Next ==
    \/ \E s \in Segs : Store(s) \/ Open(s)
    \/ OpenEmpty
    \/ \E verdict \in {"done", "failed", "skipped-idle"} : Settle(verdict)
    \/ WriteEvents

Spec == Init /\ [][Next]_vars
===============================================================================
