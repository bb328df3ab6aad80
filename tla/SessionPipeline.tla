--------------------------- MODULE SessionPipeline ---------------------------
(***************************************************************************)
(* One run of run_session (app/pipeline.py): ingest_task, asr_task and     *)
(* window_task, the two bounded queues between them, the WindowBuilder,    *)
(* the extraction thread of app/memory/extractor.py, and how the gather    *)
(* over the three tasks ends.  An action is what a task does on the event  *)
(* loop from one await to the next, or what a worker thread does up to a   *)
(* commit.                                                                 *)
(*                                                                         *)
(* Audio, text, speakers and prompts are left out: a segment is its place  *)
(* in the stream, and whether it has any text, where a window is cut, and  *)
(* what triage and the LLM answer, are left open.                          *)
(***************************************************************************)
EXTENDS Integers, Sequences

CONSTANTS
    MaxSegments,  \* bound: the VAD segments one stream may have
    SegCap,       \* maxsize of seg_q (100 in the code)
    UttCap,       \* maxsize of utt_q (200)
    Errors        \* TRUE: a transcriber, a subprocess or a commit may raise

ASSUME PipelineAssumption ==
    /\ MaxSegments \in Nat
    /\ SegCap \in Nat \ {0}
    /\ UttCap \in Nat \ {0}
    /\ Errors \in BOOLEAN

Segs == 1 .. MaxSegments
EOS == 0          \* the None that ends either queue
Items == Segs \cup {EOS}

VARIABLES
    heard,     \* how many segments ingest_task has put on seg_q
    ingest,    \* ingest_task: "reading" or how it ended
    segQ, utts,  \* seg_q and utt_q
    asr,       \* asr_task
    buf,       \* builder.buf
    windower,  \* window_task
    job,       \* run_extraction, in its thread
    stored, linked, windows, facts,  \* the rows, see WindowedTranscript
    session,   \* sessions.status
    main,      \* run_session: "gather", or why the gather is over
    closed     \* run_session's finally block has run

queues == <<segQ, utts>>
rows == <<stored, linked, windows, facts>>
end == <<session, main, closed>>
vars == <<heard, ingest, queues, asr, buf, windower, job, rows, end>>

Ended == {"done", "failed", "stopped"}
AsrStates == [step : {"get", "transcribe", "identify", "put", "eos"} \cup Ended,
              seg : Items]
WindowerStates == [step : {"get", "triage", "extract", "roll"} \cup Ended,
                   stopping : BOOLEAN]
JobStates == {"none", "asking", "writing", "ok", "raised"}
WindowStatuses == {"extracting", "done", "failed", "skipped-idle"}

TypeOK ==
    /\ heard \in 0 .. MaxSegments
    /\ ingest \in {"reading"} \cup Ended
    /\ segQ \in Seq(Items) /\ Len(segQ) <= SegCap
    /\ utts \in Seq(Items) /\ Len(utts) <= UttCap
    /\ asr \in AsrStates
    /\ buf \in Seq(Segs)
    /\ windower \in WindowerStates
    /\ job \in JobStates
    /\ stored \subseteq Segs
    /\ windows \in Seq(WindowStatuses)
    /\ linked \in [Segs -> 0 .. Len(windows)]
    /\ facts \subseteq 1 .. Len(windows)
    /\ session \in {"live", "ended", "failed"}
    /\ main \in {"gather", "over", "cancelled", "raised", "killed"}
    /\ closed \in BOOLEAN

Init ==
    /\ heard = 0 /\ ingest = "reading"
    /\ segQ = <<>> /\ utts = <<>>
    /\ asr = [step |-> "get", seg |-> EOS]
    /\ buf = <<>>
    /\ windower = [step |-> "get", stopping |-> FALSE]
    /\ job = "none"
    /\ stored = {} /\ linked = [s \in Segs |-> 0] /\ windows = <<>> /\ facts = {}
    /\ session = "live" /\ main = "gather" /\ closed = FALSE

-------------------------------------------------------------------------------
(* gather is over at the first exception.  It leaves the other tasks to     *)
(* themselves, and their exceptions too.                                   *)
Raise ==
    /\ main' = IF main = "gather" THEN "raised" ELSE main
    /\ UNCHANGED <<session, closed>>

-------------------------------------------------------------------------------
(* ingest_task: a full queue holds it, and the stream with it.             *)

\* A mutant: an unbounded seg_q.
SegRoomAlways == TRUE
SegRoom == Len(segQ) < SegCap

IngestSegment ==
    /\ ingest = "reading" /\ heard < MaxSegments
    /\ SegRoom
    /\ heard' = heard + 1
    /\ segQ' = Append(segQ, heard + 1)
    /\ UNCHANGED <<ingest, utts, asr, buf, windower, job, rows, end>>

\* The supervisor returns: the replay is over, or the stream offline.
IngestEnds ==
    /\ ingest = "reading"
    /\ SegRoom
    /\ ingest' = "done"
    /\ segQ' = Append(segQ, EOS)
    /\ UNCHANGED <<heard, utts, asr, buf, windower, job, rows, end>>

IngestRaises ==
    /\ Errors /\ ingest = "reading"
    /\ ingest' = "failed"
    /\ Raise
    /\ UNCHANGED <<heard, queues, asr, buf, windower, job, rows>>

-------------------------------------------------------------------------------
(* asr_task                                                                *)

AsrAt(step) == asr' = [asr EXCEPT !.step = step]
UttRoom == Len(utts) < UttCap

GetSegment ==
    /\ asr.step = "get" /\ segQ # <<>>
    /\ asr' = [step |-> IF Head(segQ) = EOS THEN "eos" ELSE "transcribe",
               seg |-> Head(segQ)]
    /\ segQ' = Tail(segQ)
    /\ UNCHANGED <<heard, ingest, utts, buf, windower, job, rows, end>>

\* The transcriber thread returns; a segment without text is dropped.
Transcribed ==
    /\ asr.step = "transcribe"
    /\ AsrAt("get") \/ AsrAt("identify")
    /\ UNCHANGED <<heard, ingest, queues, buf, windower, job, rows, end>>

\* The speaker is known or not; the row is committed, then utt_q.put waits
\* if it has to.
StoreSegment ==
    /\ asr.step = "identify"
    /\ stored' = stored \cup {asr.seg}
    /\ \/ UttRoom /\ utts' = Append(utts, asr.seg) /\ AsrAt("get")
       \/ ~UttRoom /\ UNCHANGED utts /\ AsrAt("put")
    /\ UNCHANGED <<heard, ingest, segQ, buf, windower, job, linked, windows, facts, end>>

PutUtterance ==
    /\ asr.step = "put" /\ UttRoom
    /\ utts' = Append(utts, asr.seg)
    /\ AsrAt("get")
    /\ UNCHANGED <<heard, ingest, segQ, buf, windower, job, rows, end>>

\* A mutant: asr_task returns without passing the end on.
PassEndLost ==
    /\ asr.step = "eos" /\ AsrAt("done")
    /\ UNCHANGED <<heard, ingest, queues, buf, windower, job, rows, end>>
PassEnd ==
    /\ asr.step = "eos" /\ UttRoom
    /\ utts' = Append(utts, EOS)
    /\ AsrAt("done")
    /\ UNCHANGED <<heard, ingest, segQ, buf, windower, job, rows, end>>

AsrRaises ==
    /\ Errors /\ asr.step \in {"transcribe", "identify"}
    /\ AsrAt("failed")
    /\ Raise
    /\ UNCHANGED <<heard, ingest, queues, buf, windower, job, rows>>

\* The row is committed, and reading it again raises: no window will have it.
RowStranded ==
    /\ Errors /\ asr.step = "identify"
    /\ stored' = stored \cup {asr.seg}
    /\ AsrAt("failed")
    /\ Raise
    /\ UNCHANGED <<heard, ingest, queues, buf, windower, job, linked, windows, facts>>

-------------------------------------------------------------------------------
(* window_task                                                             *)

Segments(cut) == {cut[i] : i \in 1 .. Len(cut)}

\* WindowBuilder.add: the limits on length, words and silence decide whether
\* u joins the buffer, closes it with itself inside, or starts the next one.
Cut(window, rest) == [window |-> window, rest |-> rest]

\* A mutant: the utterance after a silence or a limit is dropped.
BuilderAddDropped(u) ==
    IF buf = <<>> THEN {Cut(<<>>, <<u>>)}
    ELSE {Cut(buf, <<>>), Cut(<<>>, Append(buf, u)), Cut(Append(buf, u), <<>>)}
BuilderAdd(u) ==
    IF buf = <<>> THEN {Cut(<<>>, <<u>>)}
    ELSE {Cut(buf, <<u>>), Cut(<<>>, Append(buf, u)), Cut(Append(buf, u), <<>>)}

BuilderFlush == Cut(buf, <<>>)

WindowId == Len(windows)
WindowerGoes(step, stopping) == windower' = [step |-> step, stopping |-> stopping]
AfterWindow == WindowerGoes(IF windower.stopping THEN "done" ELSE "get", windower.stopping)
Verdict(status) == windows' = [windows EXCEPT ![WindowId] = status]

\* An utterance that closes no window, or the end with nothing left to flush.
NoWindow(stopping) ==
    /\ WindowerGoes(IF stopping THEN "done" ELSE "get", stopping)
    /\ UNCHANGED <<rows, end>>

\* The window's row is one commit, its segments' window_id another.
OpenWindow(window, stopping) ==
    /\ windows' = Append(windows, "extracting")
    /\ \/ /\ linked' = [s \in Segs |->
                          IF s \in Segments(window) THEN WindowId + 1 ELSE linked[s]]
          /\ WindowerGoes("triage", stopping)
          /\ UNCHANGED end
       \/ Errors /\ WindowerGoes("failed", stopping) /\ Raise /\ UNCHANGED linked
    /\ UNCHANGED <<stored, facts>>

TakeUtterance ==
    /\ windower.step = "get" /\ utts # <<>>
    /\ utts' = Tail(utts)
    /\ LET stopping == Head(utts) = EOS
       IN  \E cut \in IF stopping THEN {BuilderFlush} ELSE BuilderAdd(Head(utts)) :
              /\ buf' = cut.rest
              /\ \/ cut.window = <<>> /\ NoWindow(stopping)
                 \/ cut.window # <<>> /\ OpenWindow(cut.window, stopping)
                 \/ /\ Errors /\ cut.window # <<>>
                    /\ WindowerGoes("failed", stopping) /\ Raise /\ UNCHANGED rows
    /\ UNCHANGED <<heard, ingest, segQ, asr, job>>

\* triage_window fails open: an idle window is skipped, any other extracted.
Triaged ==
    /\ windower.step = "triage"
    /\ \/ Verdict("skipped-idle") /\ AfterWindow /\ UNCHANGED job
       \/ WindowerGoes("extract", windower.stopping) /\ job' = "asking" /\ UNCHANGED windows
    /\ UNCHANGED <<heard, ingest, queues, asr, buf, stored, linked, facts, end>>

\* The thread ends: window_task goes on, or raises what it raised.
\* A mutant: window_task does not wait for the thread.
ExtractedUnawaited ==
    /\ windower.step = "extract"
    /\ WindowerGoes("roll", windower.stopping)
    /\ UNCHANGED <<heard, ingest, queues, asr, buf, job, rows, end>>
Extracted ==
    /\ windower.step = "extract" /\ job \in {"ok", "raised"}
    /\ job' = "none"
    /\ \/ job = "ok" /\ WindowerGoes("roll", windower.stopping) /\ UNCHANGED end
       \/ job = "raised" /\ WindowerGoes("failed", windower.stopping) /\ Raise
    /\ UNCHANGED <<heard, ingest, queues, asr, buf, rows>>

\* The rolling summary is written on the event loop; an LLM error is only
\* reported.
Rolled ==
    /\ windower.step = "roll"
    /\ AfterWindow
    /\ UNCHANGED <<heard, ingest, queues, asr, buf, job, rows, end>>

\* The verdict of an idle window, or the report of a failed summary, is not
\* committed.
WindowerRaises ==
    /\ Errors /\ windower.step \in {"triage", "roll"}
    /\ WindowerGoes("failed", windower.stopping)
    /\ Raise
    /\ UNCHANGED <<heard, ingest, queues, asr, buf, job, rows>>

-------------------------------------------------------------------------------
(* run_extraction, in a thread.  A cancelled window_task closes the        *)
(* database session the thread uses, and does not stop the thread: it may  *)
(* still commit, or raise.                                                 *)

Abandoned == windower.step # "extract"

\* No budget, or two answers without a valid extraction: "failed".
Asked ==
    /\ job = "asking"
    /\ \/ Verdict("failed") /\ job' = "ok"
       \/ Verdict("done") /\ job' = "writing"
    /\ UNCHANGED <<heard, ingest, queues, asr, buf, windower, stored, linked, facts, end>>

\* write_extraction: the window's memory updates and events, in one commit.
EventsWritten ==
    /\ job = "writing"
    /\ facts' = facts \cup {WindowId}
    /\ job' = "ok"
    /\ UNCHANGED <<heard, ingest, queues, asr, buf, windower, stored, linked, windows, end>>

JobRaises ==
    /\ Errors \/ Abandoned
    /\ job \in {"asking", "writing"}
    /\ job' = "raised"
    /\ UNCHANGED <<heard, ingest, queues, asr, buf, windower, rows, end>>

-------------------------------------------------------------------------------
(* run_session                                                             *)

\* A mutant: the gather is over when the stream is.
AllDoneEarly == ingest = "done"
AllDone == ingest = "done" /\ asr.step = "done" /\ windower.step = "done"

StopTasks ==
    /\ ingest' = IF ingest \in Ended THEN ingest ELSE "stopped"
    /\ asr' = IF asr.step \in Ended THEN asr ELSE [asr EXCEPT !.step = "stopped"]
    /\ windower' = IF windower.step \in Ended THEN windower
                   ELSE [windower EXCEPT !.step = "stopped"]

\* run_leased cancels the pipeline, the gather its three tasks.  If the gather
\* is over already, but run_session not resumed, the cancellation replaces
\* the exception and stops nothing.
Cancel ==
    /\ \/ main = "gather" /\ StopTasks
       \/ main = "raised" /\ ~closed /\ UNCHANGED <<ingest, asr, windower>>
    /\ main' = "cancelled"
    /\ UNCHANGED <<heard, queues, buf, job, rows, session, closed>>

CloseSession ==
    /\ ~closed
    /\ \/ main = "gather" /\ AllDone /\ main' = "over"
       \/ main \in {"cancelled", "raised"} /\ UNCHANGED main
    /\ closed' = TRUE
    /\ \/ session' = IF main = "raised" THEN "failed" ELSE "ended"
       \/ Errors /\ UNCHANGED session
    /\ UNCHANGED <<heard, ingest, queues, asr, buf, windower, job, rows>>

\* The process dies: the rows are what is left.
Kill ==
    /\ main # "killed"
    /\ main' = "killed"
    /\ job' = "none"
    /\ StopTasks
    /\ UNCHANGED <<heard, queues, buf, rows, session, closed>>

AsrStep == GetSegment \/ Transcribed \/ StoreSegment \/ PutUtterance \/ PassEnd
WindowerStep == TakeUtterance \/ Triaged \/ Extracted \/ Rolled
JobStep == Asked \/ EventsWritten
Raises == IngestRaises \/ AsrRaises \/ RowStranded \/ WindowerRaises \/ JobRaises

Next ==
    \/ IngestSegment \/ IngestEnds
    \/ AsrStep \/ WindowerStep \/ JobStep \/ Raises
    \/ Cancel \/ Kill
    \/ CloseSession

Spec == Init /\ [][Next]_vars

(* The event loop runs every task that is ready, and threads end: ASR is   *)
(* local, LLM calls have timeouts and bounded retries.  A stream may never *)
(* end, and nothing needs to fail.                                         *)
Fairness ==
    /\ WF_vars(AsrStep) /\ WF_vars(WindowerStep) /\ WF_vars(JobStep)
    /\ WF_vars(CloseSession)

FairSpec == Spec /\ Fairness
-------------------------------------------------------------------------------
\* A stream that ends by itself loses nothing: once window_task has returned, and
\* so when run_session writes "ended" after its gather, both queues and the builder
\* are flushed (FIXES.md:17), every transcript row is in a window (FIXES.md:21),
\* every window settled, and no window is "done" without its events, whatever is
\* cancelled or killed later.
EndedIsComplete ==
    main = "over" \/ windower.step = "done" =>
        /\ segQ = <<>> /\ utts = <<>> /\ buf = <<>>
        /\ \A s \in stored : linked[s] # 0
        /\ \A w \in 1 .. Len(windows) :
              windows[w] # "extracting" /\ (windows[w] = "done" => w \in facts)

\* Windows are runs of the transcript, in its order: of two rows the earlier is
\* never in a later window, nor in none when the later is in one.
WindowsInOrder ==
    \A s, t \in stored :
        s < t /\ linked[t] # 0 => linked[s] # 0 /\ linked[s] <= linked[t]

\* The rows of one session change as WindowedTranscript says, through every
\* failure, cancellation and kill: appended in order, linked once, one window at
\* a time, its events after its verdict and only once.
Transcript == INSTANCE WindowedTranscript
RefinesTranscript == Transcript!Spec

\* Full queues make tasks wait, never for each other: once the stream is over,
\* run_session ends, whatever fails on the way.
Drains == ingest = "done" ~> closed \/ main = "killed"

(* What the documentation says and the code does not do.                   *)

\* leases.py:6-7: the pipeline that reads a channel holds its lease, which
\* run_leased releases when run_session is over.
IngestUnderLease == closed => ingest # "reading"

\* FIXES.md:73: stopped pipelines "end cleanly".
EndedCleanly ==
    session = "ended" =>
        /\ \A s \in stored : linked[s] # 0
        /\ \A w \in 1 .. Len(windows) : windows[w] # "extracting"
===============================================================================
