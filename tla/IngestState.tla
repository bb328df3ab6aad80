----------------------------- MODULE IngestState -----------------------------
(* The state of Ingest, and what Ingest promises of it.                     *)
EXTENDS Integers, Sequences, FiniteSets

VARIABLES
    live,       \* reconnect and an offline timeout: a live stream, not a replay
    proc,       \* the subprocess
    step,       \* where frames() is
    next,       \* what it does once its finally clause is through
    first,      \* no chunk came from this process yet
    gapStart,   \* the local of that name
    heard,      \* sample_index
    silent,     \* time since last_audio_at, up to Timeout
    waiting,    \* audio in the pipe that nobody has read: "no", "fresh", or "held",
                \* which has waited for a tick
    backoff, sleep,
    gaps,       \* every gap emitted, in order: [from, to]
    pending,    \* sup.gaps: a set of [gap, written]
    gapRows,    \* ingest_gaps: how many rows each gap has
    task        \* ingest_task

ingestVars == <<live, proc, step, next, first, gapStart, heard, silent, waiting, backoff,
                sleep, gaps, pending, gapRows, task>>

GapIds == 1 .. Len(gaps)

\* The rows of ingest_gaps can be summed up: however often a row could not be
\* written when its gap was met, no gap gets two, since the drain goes over gaps
\* whose row is there already (pipeline.py:277-282); and the time ranges of two
\* gaps never overlap, since each process starts its own (supervisor.py:116-144).
GapsAddUp ==
    /\ \A g \in GapIds : gapRows[g] <= 1
    /\ \A g, h \in GapIds : g < h => gaps[g].to <= gaps[h].from

\* Once a chunk has been worked off, every gap met before it has its row, though
\* its first insert may have failed (supervisor.py:70-71).
GapsDrained ==
    (step = "read" /\ ~first) =>
        (pending = {} /\ \A g \in GapIds : gapRows[g] >= 1)

\* A process is gone before the next one is started and when the generator is
\* over, whether it reacts to SIGTERM or not (supervisor.py:88-102).
OneProcess == step \in {"spawn", "sleep", "over"} => proc = "none"
=============================================================================
