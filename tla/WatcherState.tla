----------------------------- MODULE WatcherState -----------------------------
(* The state of Watcher, and what Watcher promises of it.                   *)
EXTENDS Integers, FiniteSetsExt

CONSTANTS
    Workers,
    MaxAttempts   \* finalize.MAX_ATTEMPTS: 3

VARIABLES
    lease,     \* the row "watcher" of monitor_leases
    prompt,    \* TRUE: a tick is over before its lease expires
    dead,      \* workers that crashed
    tick,      \* where each worker's watch_tick is, and what it has left to do
    attempts,  \* finalize._attempts, in each process
    status, age,  \* of a session: sessions.status, and how many hours it has behind it
    notable,   \* hours with events worth a beat (BEAT_MIN_IMPORTANCE)
    eventful,  \* sessions with an event of any importance
    run, beats,   \* beat_runs and plot_beats: how often an hour's beats were committed
    blank,     \* hours done whose beats cited no event of theirs
    lost,      \* hours done whose beats an error kept from being committed
    finals, text, \* rows of kind "final", and sessions.final_summary
    torn       \* how often an error came between the commits of the two

watcherVars == <<lease, prompt, dead, tick, attempts, status, age, notable, eventful, run,
                 beats, blank, lost, finals, text, torn>>

Alive(w) == w \notin dead
Busy(w) == Alive(w) /\ tick[w].step # "idle"
\* Hours are worked off from the first.
Hour(w) == Min(tick[w].hours)

\* Only one worker is in a tick, crashes and take-overs included, if a tick ends
\* before its lease does (watcher.py:4, 93-94).
OneWatcher ==
    prompt => \A v, w \in Workers : Busy(v) /\ Busy(w) => v = w

\* However many workers tick at once and whatever crashes, no hour gets its beats
\* twice (beats.py:6, 132-133).
BeatsOnce == \A h \in DOMAIN beats : beats[h] <= 1

BeingWritten(h) == \E w \in Workers : tick[w].step = "write" /\ Hour(w) = h

\* Only a crash or an error between the mark and the commit of the beats costs an
\* hour: one that is done has its beats, or none that cites its events, or its writer
\* is at it or crashed over it, or failed to commit them.  No failed call, no lost race
\* and no error elsewhere in the tick does (beats.py:126-130, 132-152).
DoneHasBeats ==
    \A h \in DOMAIN run :
        run[h] = "done" => beats[h] > 0 \/ h \in blank \/ h \in lost \/ BeingWritten(h)

\* However late ticks are and however often they fail between the two commits of a
\* final summary, no worker writes more of them for a session than it may try; and if
\* ticks are prompt, each one beyond the first is due to a crash or to such an error
\* (finalize.py:76-78, 89-93).
FinalsBounded ==
    \A s \in DOMAIN finals :
        /\ finals[s] <= MaxAttempts * Cardinality(Workers)
        /\ prompt => finals[s] <= 1 + Cardinality(dead) + torn[s]

=============================================================================
