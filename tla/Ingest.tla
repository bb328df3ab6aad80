------------------------------- MODULE Ingest -------------------------------
(***************************************************************************)
(* The audio of one session: the generator IngestSupervisor.frames         *)
(* (app/ingest/supervisor.py) with the subprocess it starts again and      *)
(* again, ingest_task (app/pipeline.py) which reads it, and the rows of    *)
(* ingest_gaps, written when a gap is met and once more at the next audio. *)
(*                                                                         *)
(* Audio is counted in chunks and time in ticks.  Each await of generator  *)
(* and task is a step, and time may pass in each of them.                  *)
(***************************************************************************)
EXTENDS IngestState

CONSTANTS
    MaxChunks,    \* bound: the chunks the stream has in all
    Timeout,      \* offline_timeout_seconds, in ticks
    MaxBackoff,   \* 30 in the code
    WriteErrors,  \* TRUE: a commit may raise
    Lingers       \* TRUE: a process may close its stdout and live on for good

\* What is assumed of them.
IngestConstants ==
    /\ MaxChunks \in Nat
    /\ Timeout \in Nat \ {0}
    /\ MaxBackoff \in Nat \ {0}
    /\ WriteErrors \in BOOLEAN
    /\ Lingers \in BOOLEAN

clocks == <<silent, backoff, sleep>>
gapVars == <<gaps, pending, gapRows>>

\* "closed" has ended its output but not exited; "none" is self._proc = None.
Processes == {"none", "alive", "closed", "dead"}
Steps == {"spawn", "read", "yield", "wait", "stop", "term", "kill", "stopped",
          "sleep", "over", "abandoned"}
Outcomes == {"retry", "return", "raise", "cancel"}

TypeOK ==
    /\ live \in BOOLEAN /\ first \in BOOLEAN
    /\ waiting \in {"no", "fresh", "held"}
    /\ proc \in Processes /\ step \in Steps /\ next \in Outcomes
    /\ heard \in 0 .. MaxChunks
    /\ gapStart \in 0 .. heard
    /\ silent \in 0 .. Timeout
    /\ backoff \in 1 .. MaxBackoff /\ sleep \in 0 .. MaxBackoff
    /\ gaps \in Seq([from : 0 .. heard, to : 0 .. heard])
    /\ pending \in SUBSET [gap : GapIds, written : BOOLEAN]
    /\ gapRows \in [GapIds -> Nat]
    /\ task \in {"running", "done", "failed", "stopped"}

Init ==
    /\ live \in BOOLEAN
    /\ proc = "none" /\ step = "spawn" /\ next = "retry"
    /\ first = TRUE /\ gapStart = 0 /\ heard = 0 /\ waiting = "no"
    /\ silent = 0 /\ backoff = 1 /\ sleep = 0
    /\ gaps = <<>> /\ pending = {} /\ gapRows = <<>>
    /\ task = "running"

Least(a, b) == IF a <= b THEN a ELSE b
Doubled == Least(2 * backoff, MaxBackoff)
Offline == live /\ silent = Timeout

-------------------------------------------------------------------------------
(* Gaps.  on_gap is _write_gap_now: it inserts and commits, and swallows     *)
(* what that raises.                                                         *)

EmitGap(from, to) ==
    /\ gaps' = Append(gaps, [from |-> from, to |-> to])
    /\ \E ok \in IF WriteErrors THEN BOOLEAN ELSE {TRUE} :
         /\ pending' = pending \cup {[gap |-> Len(gaps) + 1, written |-> ok]}
         /\ gapRows' = Append(gapRows, IF ok THEN 1 ELSE 0)

\* A mutant: a gap counts as written once its insert was tried.
UnwrittenNone == {}
UnwrittenGaps == {g \in GapIds : [gap |-> g, written |-> FALSE] \in pending}

-------------------------------------------------------------------------------
(* frames(): one process after the other                                     *)

Spawn ==
    /\ step = "spawn"
    /\ proc' = "alive" /\ step' = "read"
    /\ first' = TRUE
    /\ gapStart' = heard
    /\ UNCHANGED <<live, next, heard, waiting, clocks, gapVars, task>>

\* The process cannot be started: the gap is a point in time.
SpawnFails ==
    /\ step = "spawn"
    /\ EmitGap(heard, heard)
    /\ next' = IF live THEN "retry" ELSE "raise"
    /\ step' = "stop"
    /\ UNCHANGED <<live, proc, first, gapStart, heard, waiting, clocks, task>>

ReadChunk ==
    /\ step = "read" /\ ~Offline
    /\ waiting # "no"
    /\ IF first /\ heard > 0 THEN EmitGap(gapStart, heard) ELSE UNCHANGED gapVars
    /\ first' = FALSE
    /\ silent' = 0 /\ backoff' = 1
    /\ heard' = heard + 1 /\ waiting' = "no"
    /\ step' = "yield"
    /\ UNCHANGED <<live, proc, next, gapStart, sleep, task>>

\* A mutant: read() has no timeout, only the pause between processes has.
ReadWithoutTimeout == FALSE
\* remaining <= 0, or wait_for times out
ReadTimesOut ==
    /\ step = "read" /\ Offline
    /\ step' = "stop" /\ next' = "return"
    /\ UNCHANGED <<live, proc, first, gapStart, heard, waiting, clocks, gapVars, task>>

ReadEOF ==
    /\ step = "read" /\ ~Offline
    /\ proc \in {"closed", "dead"} /\ waiting = "no"
    /\ step' = "wait"
    /\ UNCHANGED <<live, proc, next, first, gapStart, heard, waiting, clocks, gapVars, task>>

\* proc.wait() has no timeout.
Exited ==
    /\ step = "wait" /\ proc = "dead"
    /\ IF live THEN EmitGap(gapStart, heard) ELSE UNCHANGED gapVars
    /\ next' = IF live THEN "retry" ELSE "return"
    /\ step' = "stop"
    /\ UNCHANGED <<live, proc, first, gapStart, heard, waiting, clocks, task>>

(* _stop_process, in the finally clause: SIGTERM, then SIGKILL 3 s later.    *)
Stop ==
    /\ step = "stop"
    /\ IF proc \in {"none", "dead"}
       THEN step' = "stopped" /\ proc' = "none"
       ELSE step' = "term" /\ UNCHANGED proc
    /\ waiting' = "no"
    /\ UNCHANGED <<live, next, first, gapStart, heard, clocks, gapVars, task>>

Terminated ==
    /\ step \in {"term", "kill"} /\ proc = "dead"
    /\ step' = "stopped" /\ proc' = "none"
    /\ UNCHANGED <<live, next, first, gapStart, heard, waiting, clocks, gapVars, task>>

\* A mutant: a process that ignores SIGTERM is left alone.
TermIgnoredDropped ==
    /\ step = "term" /\ proc # "dead"
    /\ step' = "stopped"
    /\ UNCHANGED <<live, proc, next, first, gapStart, heard, waiting, clocks, gapVars, task>>
TermIgnored ==
    /\ step = "term" /\ proc # "dead"
    /\ step' = "kill"
    /\ UNCHANGED <<live, proc, next, first, gapStart, heard, waiting, clocks, gapVars, task>>

\* The finally clause is through: leave, or try again after a while.
Stopped ==
    /\ step = "stopped"
    /\ IF next = "retry" /\ ~Offline
       THEN /\ step' = "sleep" /\ UNCHANGED next
            /\ sleep' = Least(backoff, MaxBackoff)
            /\ backoff' = Doubled
       ELSE /\ step' = "over" /\ UNCHANGED <<sleep, backoff>>
            /\ next' = IF next = "retry" THEN "return" ELSE next
    /\ UNCHANGED <<live, proc, first, gapStart, heard, waiting, silent, gapVars, task>>

Awake ==
    /\ step = "sleep" /\ sleep = 0
    /\ step' = "spawn"
    /\ UNCHANGED <<live, proc, next, first, gapStart, heard, waiting, clocks, gapVars, task>>

-------------------------------------------------------------------------------
(* ingest_task: the loop over frames().  add_chunk and the puts on seg_q come *)
(* before the drain, and a put may take any time.                            *)

\* _drain_gaps: rows for what has none, one commit, then the list is cleared.
\* A mutant: the drain inserts every gap of the list.
DrainedAll ==
    gapRows' = [g \in GapIds |->
                  gapRows[g] + IF \E p \in pending : p.gap = g THEN 1 ELSE 0]
Drained ==
    gapRows' = [g \in GapIds |-> gapRows[g] + IF g \in UnwrittenGaps THEN 1 ELSE 0]

ChunkDone ==
    /\ step = "yield" /\ task = "running"
    /\ Drained
    /\ pending' = {}
    /\ step' = "read"
    /\ UNCHANGED <<live, proc, next, first, gapStart, heard, waiting, clocks, gaps, task>>

\* The drain's commit raises, and that ends the task; the generator is closed.
DrainRaises ==
    /\ WriteErrors
    /\ step = "yield" /\ task = "running" /\ pending # {}
    /\ pending' = {[p EXCEPT !.written = TRUE] : p \in pending}
    /\ task' = "failed"
    /\ step' = "stop" /\ next' = "cancel"
    /\ UNCHANGED <<live, proc, first, gapStart, heard, waiting, clocks, gaps, gapRows>>

\* The generator is over; what the segmenter holds and the end marker follow.
TaskEnds ==
    /\ task = "running" /\ step = "over"
    /\ task' = IF next = "return" THEN "done" ELSE "failed"
    /\ UNCHANGED <<live, proc, step, next, first, gapStart, heard, waiting, clocks, gapVars>>

\* CancelledError is raised at the await the task is in.  In the middle of
\* _stop_process it leaves the wait for the process, and with it the SIGKILL.
Cancel ==
    /\ task = "running"
    /\ task' = "stopped" /\ next' = "cancel"
    /\ step' = CASE step \in {"spawn", "sleep", "stopped", "over"} -> "over"
                 [] step \in {"read", "yield", "wait", "stop"} -> "stop"
                 [] step \in {"term", "kill"} -> "abandoned"
    /\ UNCHANGED <<live, proc, first, gapStart, heard, waiting, clocks, gapVars>>

-------------------------------------------------------------------------------
(* The process, the network, time                                            *)

AudioArrives ==
    /\ proc = "alive" /\ waiting = "no" /\ heard < MaxChunks
    /\ waiting' = "fresh"
    /\ UNCHANGED <<live, proc, step, next, first, gapStart, heard, clocks, gapVars, task>>

ProcessCloses ==
    /\ proc = "alive"
    /\ proc' = "closed"
    /\ UNCHANGED <<live, step, next, first, gapStart, heard, waiting, clocks, gapVars, task>>

ProcessExits ==
    /\ proc \in {"alive", "closed"}
    /\ proc' = "dead"
    /\ UNCHANGED <<live, step, next, first, gapStart, heard, waiting, clocks, gapVars, task>>

\* A read that can go on does so before the next tick; a put may last longer.
Tick ==
    /\ step # "over" /\ step # "abandoned"
    /\ step = "read" => ~Offline /\ waiting = "no"
    /\ waiting' = IF waiting = "fresh" THEN "held" ELSE waiting
    /\ silent' = Least(silent + 1, Timeout)
    /\ sleep' = IF sleep > 0 THEN sleep - 1 ELSE 0
    /\ UNCHANGED <<live, proc, step, next, first, gapStart, heard, backoff, gapVars, task>>

Generator ==
    \/ Spawn \/ SpawnFails \/ ReadChunk \/ ReadTimesOut \/ ReadEOF \/ Exited
    \/ Stop \/ Terminated \/ TermIgnored \/ Stopped \/ Awake
Task == ChunkDone \/ DrainRaises \/ TaskEnds
Environment == AudioArrives \/ ProcessCloses \/ ProcessExits \/ Tick
Next == Generator \/ Task \/ Cancel \/ Environment

\* SIGKILL ends a process, and one that closed its output exits, unless it
\* lingers.
KilledExits == step = "kill" /\ ProcessExits
ClosedExits == ~Lingers /\ proc = "closed" /\ ProcessExits

Fairness ==
    /\ WF_ingestVars(Generator) /\ WF_ingestVars(Task) /\ WF_ingestVars(Tick)
    /\ WF_ingestVars(KilledExits) /\ WF_ingestVars(ClosedExits)

Spec == Init /\ [][Next]_ingestVars
FairSpec == Spec /\ Fairness

-------------------------------------------------------------------------------
(* Properties                                                                *)

\* A live stream that has no more audio ends, however often its process fails
\* or is started again (supervisor.py:123-131, 153-155).
OfflineEnds == live ~> (task # "running")
=============================================================================
