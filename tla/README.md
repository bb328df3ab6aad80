# A verification of stream-summarizer in TLA+

stream-summarizer listens to a Twitch channel or a recording, transcribes it,
cuts the transcript into windows, lets an LLM extract events, characters and
storylines from each window, and serves summaries of them.  It is one Python
process per worker (FastAPI on one asyncio event loop, with threads for model
and LLM calls), any number of which share one SQL database.  This directory
models what is hard to test in it: workers that race for a channel through rows
with an expiry, tasks that hand segments on through bounded queues, requests,
ticks and pipelines that read, wait for a model and write what may have been
overtaken, and all of them failing, being cancelled, or being killed anywhere.

`PROJECT.json` lists the components, the runs, the mutants, the map from each
definition to its source lines, the hazards, the findings and the theorems.

## The system

| Component | State it keeps | Operations | Talks to |
| --- | --- | --- | --- |
| Leases (`app/leases.py`) | table `monitor_leases`: key, owner, session, expiry, stop flag | `try_acquire`, `attach_session`, `renew`, `release`, `request_stop`, `reconcile_orphans`, `run_leased` | every start and stop, the watcher, the reconcile loop |
| Monitors (`app/api/routes_channels.py`) | table `sessions` | start, stop, replay | leases, task manager, pipeline |
| Task manager (`app/task_manager.py`) | tasks of this process by session | `set`, done callback, `stop`, `stop_all` | run_leased tasks |
| Worker (`app/api/main.py`) | worker id, background tasks | startup, reconcile loop, shutdown | leases, task manager, watcher |
| Pipeline (`app/pipeline.py`) | two queues, three tasks, the window builder, voice centroids | ingest, transcribe, window, close | supervisor, segmenter, extractor, consent tables, event bus |
| Ingest supervisor (`app/ingest/supervisor.py`) | subprocess, sample count, gaps | `frames`, gap callback | pipeline |
| Segmenter, window builder | audio and utterance buffers | `add`, `flush` | pipeline |
| Extraction and memory (`app/memory/`) | windows, events, entities, aliases, threads | `run_extraction`, `write_extraction`, merges | pipeline, LLM, API |
| Watcher (`app/watcher.py`), final summaries, beats | watcher lease, attempts, `beat_runs` | one tick every poll | leases, monitors, LLM |
| Summaries and recaps (`app/summarize`, `app/api/routes_sessions.py`) | table `summaries` with cache keys, feedback | recap, full summary, feedback, rolling update | LLM, budget |
| Event bus (`routes_sessions.py`) | one queue of 100 per subscriber | subscribe, publish | pipeline, browser |
| Consent, speakers, retention | consents, embeddings, speakers | grant, revoke, enroll, merge, delete, sweep | pipeline |
| Budget and observability | spend, `last_error` | check, charge, set, clear | all LLM callers |
| Web client, extension | selected session, stream, fetches | choose, subscribe, poll | API |

What makes each of them correct, and what is hard about it:

- **Leases, monitors, workers.**  One pipeline per channel; a running
  pipeline's session is live and no one closes it; orphans are closed and
  nothing else is.  Handlers take several transactions, time passes between
  them, workers crash, renewals fail.
- **Pipeline.**  Every segment is stored, windowed and extracted in order and
  once; queues at their limit do not lock up; the end of the session finds all
  of it done.  Any task may raise, the whole may be cancelled, and threads
  cannot be cancelled.
- **Supervisor, segmenter, windows.**  No sample lost or counted twice at a
  cut; gaps recorded where the stream was not heard.
- **Watcher, finals, beats.**  One worker watches; each hour and each session
  is summed up once in spite of crashes between two commits.
- **Consent.**  No voiceprint without consent, whatever is in flight.
- **Recaps.**  A cached recap is never served for newer events.

## Modules

| Module | Models | Kind |
| --- | --- | --- |
| `LeaseTable` | `monitor_leases`, one operator per transaction of `leases.py` | component |
| `MonitorLeases` | workers, start and stop handlers, `run_leased`, the reconciler, shutdown, crash, time | component, instantiates `LeaseTable` and the abstract `ChannelMonitor` |
| `ChannelMonitor` | one monitor per channel, without leases or workers | abstract specification |
| `MCMonitorLeases` | constants and symmetry of the TLC runs | model |
| `MonitorLeasesProofs` | invariance of `IInv` and what follows | proofs |
| `SessionPipeline` | the three tasks of `run_session`, their queues, extraction, the ways to end | component |
| `PipelineProofs` | its invariant, what follows, and the refinement of `WindowedTranscript` | proofs |
| `WindowedTranscript` | a transcript cut into windows one at a time | abstract specification |
| `Ingest` | `IngestSupervisor.frames`, its subprocess, `ingest_task`, gap rows | component |
| `IngestProofs` | its invariant and what follows | proofs |
| `Segmenting` | `Segmenter.add_chunk` and `flush` | component |
| `Windowing` | `WindowBuilder`, and that `SessionPipeline` allows what it does | component, instantiates `SessionPipeline` |
| `CuttingProofs` | the invariants of both cutters and what follows | proofs |
| `Watcher` | `watch_tick` in every worker, with beats and final summaries | component, instantiates `LeaseTable` |
| `WatcherProofs` | its invariant and what follows | proofs |
| `Voiceprints` | speakers, consents and embeddings between API, retention and pipeline | component |
| `VoiceprintsProofs` | its invariant and what follows | proofs |
| `Recaps` | `get_recap`, `get_full_summary`, `post_feedback`, and the budget | component |
| `RecapsProofs` | its invariant and what follows | proofs |
| `StoryMemory` | entities and aliases between `write_extraction` and the owner's corrections | component |
| `StoryMemoryProofs` | its invariant and what follows | proofs |
| `IngestState`, `SegmentingState`, `WindowingState`, `WatcherState`, `VoiceprintsState`, `RecapsState`, `StoryMemoryState` | the variables of these seven, and the properties stated of them | extended by the component and by `MCComponents` |
| `MCComponents`, `MCProgress` | the seven in small instances, side by side | models |

### MonitorLeases

`worker[w]` is a process, `handler[w]` what its event loop is in the middle of,
`run[s]` the `run_leased` task and pipeline of session `s`, `runner[s]` the
process that holds it; `lease`, `status`, `channel` and `age` are the database.

- `start_live_session` never awaits, so its worker does nothing else meanwhile
  (`LoopFree`), but each of its transactions is a step: `StartLive` (the INSERT
  of `try_acquire`), `TakeOver` (the UPDATE), `Sweep` and `CloseOrphans` (the
  read and the write of `reconcile_orphans`), `InsertSession`, `AttachSession`,
  `Launch`; `StartRaises` and `Undo` are its except clause.  Other workers and
  the clock move in between.
- `reconcile_orphans` writes what it read: `victims` and `stale` are that
  reading, and the UPDATE it ends in has no condition on the status.
- `run_leased` is `Enter`, `Setup`, `Beat` (renew, read the flag, cancel: one
  step of the loop), `Cancelled`, `StreamEnds`, `Finish`.  A task that is
  cancelled before it was entered runs none of its finally blocks
  (`AfterCancel`), as asyncio does it.
- A crash drops the process and keeps the rows.  A restarted process has a new
  worker id, so it is another element of `Workers`.
- A row keeps the ticks it has left instead of its expiry; -1 is every expired
  row.  A session's age saturates at TTL, which is all that the grace period of
  `reconcile_orphans` tells apart.

Left out: the order in which `stop_all` goes through its tasks, the retention
sweep at startup and at the end of a pipeline, and the watcher's own lease.
The statuses "starting" and "degraded" are read by the code and written by none.

**The promptness assumptions.**  The code has no guarantee that a worker renews
in time: a renewal that raises is logged and retried (leases.py:170), and a
synchronous call on the loop (a model that loads, the rolling summary's LLM call
at pipeline.py:495) stops the heartbeats.  `PromptTasks` says that an active
task's lease is renewed, or the task ends, before it expires; `PromptHandlers`
that a start handler is done within the TTL.  They are constants, and guards of
`Tick` alone.  What holds only under them is stated under them, in the runs and
in the theorems; the runs with `FALSE` show what happens otherwise.

### SessionPipeline

`segQ` and `utts` are the two queues, `heard`, `ingest`, `asr` and `windower`
the tasks, `buf` the window builder's buffer, `job` the extraction thread,
`stored`, `linked`, `windows` and `facts` the rows of segments, their
`window_id`, the windows' statuses and the windows whose events are committed.
`main` is how the gather stands: running, over, cancelled, or raised.

- A step is what a task does from one await to the next.  A get from a queue
  that has something is a step of its own, where the code may go on at once:
  that only adds interleavings.
- A put that finds the queue full waits (`"put"`, `SegRoom`), as asyncio's does.
- An exception ends the gather (`Raise`) and no other task; the others go on, in
  the model as in the code, after `CloseSession` has written "failed".
- `Cancel` stops the three tasks at once and the extraction thread not at all.
  The session it used is closed under it, so from then on it may commit or raise.
- Where windows are cut (`BuilderAdd`), what triage says, and whether the LLM
  answers are nondeterministic; `WindowBuilder` has just the three outcomes.
- Each window takes two commits (row, links) and its extraction two more
  (verdict, events); an error or a `Kill` may fall between them.
- A row of the transcript may be committed and asr_task fail right after it, when it
  reads the row again (`RowStranded`): no window will ever have that row.

Left out: `last_error`, the rolling summaries' text and the published messages.
Speakers are in `Voiceprints`, gap rows in `Ingest`, the builder in `Windowing`.

### Ingest

`step` is where `frames()` stands, `proc` the subprocess, `waiting` audio in its
pipe, `silent` the time since the last audio.  The generator's reads, the exit it
waits for, the three stages of `_stop_process` and the backoff are steps; so is
the work of `ingest_task` on a chunk (`ChunkDone`), which ends in `_drain_gaps`.
`EmitGap` is `_gap` with its callback: a row at once, or, if that insert fails, a
gap that the drain writes later.  `pending` is `sup.gaps`, whose elements are told
apart by the gap they are for; `gapRows` counts the rows each gap has got.  Time passes at every await, up to `Timeout` of
silence and no more, which is all the code compares.

- A drain whose commit raises has marked the gaps as written and ends the task.
- `Cancel` in `_stop_process` leaves the process as it is (`"abandoned"`): the
  SIGKILL is never sent.
- `Lingers` lets a process close its output and live on; `proc.wait()` then
  waits for it without limit.
- Gaps after the last chunk are never drained.  `GapsDrained` therefore speaks of
  the gaps before a chunk; "every gap has its row at the end" would be false.
- Audio still in the pipe when a read times out is dropped with the process.

### Segmenting, Windowing

The two cutters, frame by frame and utterance by utterance, each run once over a
stream.  `Turn` is a turn of the loop of `add_chunk`, which classifies the new
frame again in every turn, as the code does; `BestCut` is the scan for the
quietest place, which never looks at the last frame.  Speech left over by a hard
cut may be dropped, since its energy is averaged over the rest of the buffer;
`SpeechKept` excepts just that.  The same rest counts as silence throughout, so that one
quiet frame cuts it off: `SilenceCutsAreSilent` is what the docstring asks for and the
code does not do.  `OutcomesCovered` ties `Windowing` to the
nondeterministic `BuilderAdd` of `SessionPipeline`.  An utterance carries the
number of words said up to its end (`said`), so that the words of a window are a
difference of two positions (`WordsOf`) and need no recursion, while `words` is the
counter the builder keeps.

### Watcher

`tick[w]` is where the tick of worker `w` stands and what it has left to do:
`Hold` is `_hold_watcher_lease` over `LeaseTable`, `Checked` the read of
`due_hours`, `AskBeats` to `WriteBeats` are `generate_hour` with its LLM call and
its two commits, `Finalize` to `SetFinal` are `finalize_session` with its two.
`TickRaises` is any exception that leaves the tick, from a start, a query or a
commit, at every step; only the LLM's own are caught.
Several workers may be in a tick: the lease is not renewed during one.  `prompt`
says that a tick is over before its lease expires; `OneWatcher` and
half of `FinalsBounded` suppose it; the other half (no more final summaries of a
session than each worker may try), `BeatsOnce` and `DoneHasBeats` do not.

- The mark of an hour is committed before its beats.  A crash between the two, or an
  error, such as an event that one beat cites twice and that breaks the primary key of
  `beat_events`, leaves the hour done and without beats, and nothing tries it again.
  `lost` is a history variable for the errors; `DoneHasBeats` says that nothing else
  costs an hour.  (beats.py:5-6 speaks of exactly once.)
- A final summary's row is committed before `final_summary`.  After a crash or an error
  between the two the session is still pending, and a later tick writes another row,
  until the attempts are used up; they are counted before the call and not taken back.
  `torn` counts such errors by session.

Hours of session `s` are numbers of their own, in the order `due_hours` lists them, and a
tick goes from the least of its hours on (`Hour`); `pending_sessions` lists the
newest session first, so there it is the greatest (`Sess`).  The
24 h after which `due_hours` and `pending_sessions` forget a session are longer
than the modelled streams.

### Voiceprints

`prints[i]` are the voices stored under speaker `i`, `uploads[i]` one that
`enroll_voiceprint` is reading and embedding, `centroids[i]` the one a running
pipeline holds.  Consent is checked where an upload begins and where a pipeline
loads its library, and never where they write; one that was withdrawn is as good as
none, and one that expired is not the same (`consent`).  `overtaken` is a history
variable: the ids whose consent or row went while somebody was still writing.
`Swept` is `enforce_retention`, at startup and at the end of each pipeline.

- SQLite gives a new speaker the highest id plus one, so a deleted one's id comes
  back (`NextId`); what was still being written to it lands on somebody else's
  row.  `PrintsAreOwn` says that this is the only way.
- `merge_speakers` does not move segments; the foreign key refuses the merge of a
  speaker who has any (`from \notin spoken`).

### Recaps

`request[q]` is a request between its reads and commits, `summaries[k]` the rows of
a kind with their `cache_key` and what they were made from, `vote[v]` a No vote: its
record (`Vote`), the read of the newest recap (`Choose`) and the commit that marks that
one (`Mark`) are three steps, and the marked row need not be the newest any more.  A
key is what the code
builds: the newest event and the newest thread movement, or the newest notable
event and every third one.  `summaries["full-preview"]` are the shortened overviews,
which `_full_with_preview` finds by the key of the overview they were made from
(`PreviewFresh` to `SetPreviewKey`).  `late` is a history variable: the recap was being
made when a vote looked for the newest one.  Such a recap is not marked, whether it is
saved before the vote's commit or after it, and is served from the cache; `VoteHeeded`
excepts it and says that every other recap from before the vote is not.  The commit of a
row or of its key may fail (`Fails`): the row then stays without a key.  `Limited` may answer at any time, as windows and other sessions
use the budget, too.

- `write_extraction` stamps threads with the time it began (`WindowBegins`) and
  commits them later (`ThreadMoves`).  When a window of another session of the
  channel has committed a newer stamp by then, the newest one does not move, and
  the recap is served as if nothing had happened until the next change.
  `disordered` is a history variable for this, and `CatchUpComplete` excepts it.
- A thread the owner edits (`PATCH /threads`) changes what a recap is made from
  and not its key; it is not among the movements.
- `stale-feedback` is no snapshot, so after a vote nothing is marked as new.

### StoryMemory

One transaction per window, in each pipeline of the channel (`Writers`): a replay runs
beside the live pipeline, under a lease of its own (routes_channels.py:187-200).
`Answered` is the LLM's answer, then each update is resolved (`Resolve`), or no lookup
finds it (`Miss`) and it is created (`Create`), and `Commit` ends it.  Four habits of
the database layer matter and are modelled: the session does not flush before it must
(`autoflush=False`), it keeps a row as it first read it (`View`), it writes back only the
columns it changed (`Flushed`), and from its first flush to its end SQLite lets nobody
else write (`locked`, `CanWrite`) and nobody see what it wrote (`committed`, `Db`).  Up to
its flush it sees what others have committed by the time of each lookup.  `Merge` and
`Rename` are the owner's corrections, which wait for the lock, too.

- Between a lookup that misses and the flush another pipeline may create the name:
  two pipelines may each create it once, and no constraint forbids it (models.py:124-137).
  `by` records which one did; `NamesUnique` says that no pipeline creates a name twice,
  short of what its own lookups miss.
- SQLite's `lower()` folds ASCII only and Python's all letters, so that the exact
  lookups miss a name with another capital (`Unmatched`).  The fuzzy match finds such a
  name again unless it is shorter than three characters, which `Alike` leaves open; then
  every mention creates an entity (`Findable`).
- An alias that one window lists twice, or that another pipeline has added meanwhile, is
  added twice; the flush fails and the window's memory is lost (`clash`, `CanFlush`,
  `RollBack`).
- The prompt shows no ids (context.py:150), so an answer may cite any.  One that is
  not there, or was merged since, is taken for a name, and an entity named "E12" or the
  like is created.
- Two mentions in one window confirm an entity.
- Merges in turn can make `merged_into` a cycle; nothing follows it.

### MCComponents, MCProgress

These components share no variable, so a product of their states would say nothing
that their sum does not.  Each behaviour runs one of them: `part` says which, and
the others stay in an initial state.  `MCComponents` extends the seven `State`
modules and instantiates the seven components over them, so that what TLC checks and
what the theorems state is one definition.  Two instances of `Watcher` (two hours
without a final summary, one hour with one), four of `Recaps` (catch-ups with events and
a vote, catch-ups of two threads, overviews side by side, overviews one at a time) and
four of `StoryMemory` (aliases, one name and a window of two updates, names
that are alike, two pipelines) share their variables.  Each component states what it assumes of its
constants (`IngestConstants` and so on): `MCComponents` assumes it of the instances,
and the theorems have it as their hypothesis.  In `Components.cfg` the two workers, requests, people and
names are the same two model values, so that one permutation serves them all; no
part uses more than one of these sets, but for `Recaps`, where they are requests
alone.

## Runs

All runs set `CHECK_DEADLOCK FALSE`: streams end, processes stop, and ids run
out, so the modelled system may really stop.

| Run | Instance | Shows |
| --- | --- | --- |
| `monitor_prompt` | 2 workers, 1 channel, 2 live sessions, TTL 2, commits may fail, all prompt | one pipeline per channel, its session live and its lease its own; closed sessions stay closed; `MonitorLeases` implements `ChannelMonitor` |
| `monitor_replay` | the same with one live and one replay session | the replay's row exists before its lease: the grace period protects it |
| `monitor_late` | 2 workers, 1 session, nobody prompt, fair | however late, a valid lease is ended by its owner alone, and no row names another worker's running session; orphans are closed, recorded stops are honoured, a lost lease stops the pipeline |
| `transcript` | 5 segments, queues of 1, errors, cancel, kill, fair | nothing lost, doubled or reordered when window_task returns or the stream ends; refinement of `WindowedTranscript`; the end of the stream ends the session |
| `components` | see below | the safety properties of the seven components of `MCComponents` |
| `progress` | see below, fair | offline streams end; closed hours and ended sessions are dealt with |
| `late_same_process`, `graceful_stop`, `ingest_under_lease`, `ended_cleanly`, `revoked_print`, `silence_cuts` | small | the findings below |

**Bounds.**  Two workers are enough for every race in `leases.py`: a step
concerns its worker, the row, and the row's owner.  One channel: rows of
different channels do not meet, except in `reconcile_orphans`, which treats
each row by itself.  Two sessions give a session and its successor.  TTL 2 lets
a lease be fresh, half gone, and expired, which is what renewing every TTL/3
comes to.  `Sessions` bounds the ids that can be handed out; an INSERT that
finds none left raises, which is a path the code has.  For the pipeline, queues
of one are full as soon as they hold anything, and five segments fill both, the
two tasks between them, and the buffer.

For the components: three chunks and three ticks of silence, so that a stream is
heard, lost, heard again and given up; 13 frames with a cap of 8, so that a hard
cut is followed by another cut of each kind; five utterances of two lengths, two
word counts and two gaps, at every limit; two workers and a lease of one tick,
which every await may outlast, with a session of two hours that is left without a final
summary, and with one of a single hour and two attempts at its final summary, the least
after which an error leaves another;
two people and two speaker ids, so that an id comes back for somebody else; two
requests, which is a race for each commit, a budget of two, one vote, two windows
that move two threads, the least that come out of order; three events for
overviews side by side, and five for overviews one at a time, which cross the boundary
of three.  Votes and thread
movements are in different instances, and two votes at once only in the proof.  Two
entities, which is what a duplicate takes: with two names, two aliases and one update a
window, with one name and two updates, with names that are alike and one that lookups
miss, and with two pipelines at one name.  `progress` has one worker, one session of
three hours of which one fails for good, two attempts, and a tick that tries two hours.

**Fairness.**  An asyncio loop runs each ready task in turn and timers fire
(`HandlerStep` weak; `TaskStep`, `Beat`, `ReconcileLoop` strong, because
handlers may take the loop in between, over and over, and the loop still gets to
everyone).  Threads end: transcription is local, LLM calls have timeouts and a
bounded number of retries (`app/observability.py`).  No fairness for requests,
crashes, errors, cancellations or the end of a stream.  `OrphansClosed` also
supposes a worker that stays up, which is the condition of anything being done.

In `Ingest`, the generator and the task run when they can, time passes, SIGKILL
ends a process, and in `progress` a process that closed its output exits, which
`OfflineEnds` needs, since `proc.wait()` has no timeout.  In `Watcher`, polls go on
and calls return, with an answer or an error (`Works`).  What raises an error out of a
tick, a locked database or a monitor that cannot be started, is transient: in the end
ticks come through, and past their live check again and again (`Checked` is strongly
fair).  That is an assumption: where each tick fails, nothing is dealt with.  The budget leaves calls again and again, and an hour's call succeeds in the
end, unless the hour is in `Failing`.  `HoursDealtWith` needs fewer of those than
hours are tried in a tick (`BeatLimit`): with as many, the first ones listed are
tried for ever and the others never.

**Mutants.**  Every property of a passing run has a mutant, a plausible bug in
one definition (a dropped owner test, a missing grace period, an end marker not
passed on), that makes TLC find it violated under the same configuration.  The
mutated operators stand beside the definitions they replace.

## Findings

1. `late_same_process`: a worker whose lease has expired takes it again itself
   (leases.py:69-72 has no owner test), against leases.py:57-58.  Both
   pipelines then renew one row, and neither ever notices.  Another worker can take
   it as well, since a renewal that raises is only logged (leases.py:170): then a
   channel has two pipelines until the first one's next heartbeat, against
   leases.py:6-7 and routes_channels.py:71-72.
2. `graceful_stop`: a task cancelled before it was entered keeps its lease until
   expiry, against main.py:85-86.
3. `ingest_under_lease`: after one of the three tasks raises, the others go on,
   the stream is read and rows are written without a lease, so that the channel
   can be monitored twice, against leases.py:6-7.
4. `ended_cleanly`: a stopped pipeline is "ended" with a window left extracting
   and utterances in no window, against FIXES.md:73.
5. `revoked_print`: a pipeline that runs, or an upload that is being embedded,
   stores a voiceprint again after the consent was revoked and the rows deleted,
   against README.md:9.  It stays until the next retention sweep.
6. `silence_cuts`: what a hard cut leaves, up to 5 s, counts as silence whatever it
   is (segmenter.py:101), so the first quiet frame cuts it off in the middle of a
   phrase, or drops it when its mean energy is low, against segmenter.py:1-2, 19
   and 77, which ask for 500 ms of silence.

## Proofs

`MonitorLeasesProofs` proves, for any sets of workers, channels and sessions and
any TTL of at least 2:

- `TypeCorrect`, without any assumption on promptness;
- `LeaseOwnership`, `MutualExclusion`, `RunningSessionsStayLive` and
  `ClosedForGood`, for `PromptTasks` and `PromptHandlers`.

They follow from one inductive invariant, `IInv`.  Mutual exclusion is not
inductive: it holds because each active session's lease is its own
(`OwnerHoldsLease`), and that holds because whoever is about to launch a session
already owns its row with time left (`HandlerHoldsLease`), and because an except
clause never releases the row of a task (`UndoOK`).  That sessions stay live
needs that what a reconciler read and has not yet closed is nobody's
(`VictimsOK`), which in turn rests on the session about to be launched being
young or leased (`PendingOK`, with the age and time left of `HandlerHolds`).
`RowsOK` ties rows to runs.

`NoDuplicatesWhenPrompt` follows from `MutualExclusion`: what finding 1 refutes for
late workers is true of timely ones.

Three more results:

- `LeasesNameTheirRunner`, without any promptness: no row names a running session of
  another worker than its owner.  A late worker's session keeps running while its
  row is taken over, so `IInv` does not hold.  `NamingInv` says less, by the name:
  whichever row names a session that is not over is owned by who runs it or is
  about to launch it (`NamedOK`), and no two handlers are about to start the same
  session (`StartsOK`).
- `ValidLeasesKept`, without any promptness: a lease that has not expired is not
  taken, purged or given another session by anybody, and only a release of its own
  worker ends it.  So a late worker can lose no more than what has expired.  Whoever
  takes a row tests its expiry, except `start_replay`, whose key is new:
  `ReplayRowsNamed` says that a replay's row, once there, names its session, and by
  `NamedOK` it then has passed its handler by.  `Unattached` says that the row a start
  handler still owns is one to which nothing has been attached.
- `ImplementsChannelMonitor`, for timely workers: each step of `MonitorLeases` is one
  of `ChannelMonitor` or leaves it alone.  The abstract slot of a session is the key
  it runs under, from when its row exists.  `Begin` requires that nobody monitors
  the slot, which is `OwnerHoldsLease` and `HandlerHoldsLease` again.

TLC agreed on `IInv` in the instances of `monitor_prompt` and `monitor_replay`, and
on `NamingInv` and `KeptInv` in that of `monitor_late` and with a replay session
beside the live one, before they were proved.
The assumption on constants is `MonitorAssumption`.

`PipelineProofs` proves, for streams of any length, queues of any bounds, with or
without errors, from `PipelineAssumption` alone:

- `TypeCorrect`, and with it that no queue exceeds its maxsize;
- `TranscriptOrder` and `NothingLost`;
- `NoDeadlock`: while `run_session` is in its gather, some task can go on
  (`NeverStuck`);
- `RunsEnd`: every step there is lowers `Left`, a natural number computed from the
  stream, the queues and the places of the tasks;
- `TasksEndWithTheSession`: a session that is closed has left a task running only if
  one of its tasks has raised (`LeftOnlyByFailure`);
- `ImplementsTranscript`: `SessionPipeline` implements `WindowedTranscript`.

Its `IInv` says where a segment may be.  That windows come in order is not
inductive: a row that is in no window yet might be passed over by the next one.
`PlacesOK` excludes that: as long as window_task is alive, each row is linked,
in the builder, in the second queue, or the one segment asr_task waits to put
there, and these four come in the order of speech.  A new row extends that order
because of `HearingOK` and `AsrOK`, which say the same of the first queue and the
segment in hand.  `EndOK` carries the end marker through both queues, which is
what `NothingLost` needs.  `GatherOK` ties the gather to its tasks: while it waits
none has raised, and what still runs when it is over was left by one that has.
`PassOK` says that a task which still waits for a segment has the end marker ahead of
it in its queue once the task before it has returned, and that window_task never waits
for a thread it has not started.  `NoDeadlock` rests on both: who waits for room in a
queue has somebody behind him who takes from it.  `WindowsOK` ties the extraction
thread, which survives the task that started it, to the last window.  TLC agreed on
each of them with four segments and queues of 1 and 1, and of 1 and 2, before they
were proved.

`NoDeadlock` and `RunsEnd` are, for any stream and any queues, what `Drains` shows of
five segments and queues of one, up to the fairness that TLAPS cannot treat: the run
cannot go on for ever, and it cannot stop before its end.  `TasksEndWithTheSession`
delimits finding 3: cancellation and ordinary ends leave nothing behind.

`VoiceprintsProofs` proves, for any people and any number of ids, from
`VoiceprintsConstants`:

- `TypeCorrect`;
- `ConsentKept`: where consent is required, a voiceprint without it is one of an
  id that was overtaken;
- `VoicesKeptApart`: no voice under another person's row, short of such an id.

Neither is inductive, since both speak of voiceprints and not of those who are
about to write one.  `Covered` and `Own` say the same of uploads and centroids,
too.  A new speaker's id is free (`NextIdFree`), so by `Own` nothing is left of
whoever had it before.

`IngestProofs` proves, for any number of chunks, any timeout and backoff, with or
without failing inserts and lingering processes: `TypeCorrect`, `ProcessesOneByOne`,
`GapsCountedOnce` and `NoGapForgotten`.  That ranges of gaps do not overlap depends on
where the next one will begin (`OrderOK`: not before the end of the last one, as each
process starts its own), that none is forgotten on the drain still finding it and on
nobody reading on once the task is over (`RowsOK`, `TaskOK`).

`CuttingProofs` proves, for any stream, cap, silence and limits:

- of `Segmenting`: `SegmentsTyped`, `StreamIsTiled`, `SpeechIsKept`, `SilencesAreReal`,
  `PieceLengths`.  The buffer is
  the rest of the stream after the last piece, frame for frame (`RestOK`), and speech
  in it was noticed unless a hard cut left it over (`HeardOK`), since a piece is kept
  by what was noticed.  The counted silence is what the buffer ends in, except after
  a hard cut (`QuietOK`), so that finding 6 can only befall the piece after one: every
  other cut at a silence has its 500 ms.  No piece reaches the 30 s, and a hard cut
  goes back by 5 s at most (`LengthOK`).  The same is carried through the loop of `add_chunk`
  (`TurnStep`, `TurnsStep`), which cuts twice at most.
- of `Windowing`: `WindowsTyped`, `NoWindowTooLong`, `WindowsEndAtSilences`, and
  `OutcomesAreCovered`, by which what is proved of `SessionPipeline` for any
  `BuilderAdd` holds for the builder there is.  The properties have to hold of the
  buffer as of the windows, and the builder's counter has to be the words of its
  buffer (`BufOK`).

`WatcherProofs` proves, for any finite set of workers and any bounds: `TypeCorrect`,
`BeatsCommittedOnce`, `NoHourLost`, `OneWatcherAtATime` and `FinalsStayBounded`.
Beats need no lease: the primary key of `beat_runs` picks the writer of an hour, and
nobody else writes it even after a crash (`HoursOK`, `WritersOK`).  Final summaries
have no such mark.  Who is in a tick holds the lease, if ticks are prompt (`LeaseOK`),
and then each row beyond the first of a session was left by a worker that died or by
an error between the two commits (`FinalsOK`).  Where ticks are late, several workers may
write a summary, and each several: but a worker counts its try before it commits a row,
and counts again from the start only once the session's text is there, after which the
session is not listed again.  So each row takes a pair of worker and try of its own
(`Spent`), and there are no more of these than workers times attempts (`SpentOK`,
`FS_Product`).

`RecapsProofs` proves, for any finite sets of requests and of threads, any number of
events and votes and any budget: `TypeCorrect`, `CatchUpsMissNothing`,
`OverviewsStayNear`, `VotesAreHeeded` and `BudgetOvershoot`.  The invariant gives a key
a meaning from both sides.  A row that has a key was made from at least what the key
counts (`RowsOK`), and the key of a request counts all that had happened when it was
asked for, up to two small events of an overview (`AskOK`); where keys are equal, the
cached text is good enough.  Thread stamps are as good only while they are committed
in order, so `MovesOK` says it of these cases, and `StampsOK` that a stamp is committed
once.  `NewestOK` carries votes: for each vote that has looked for the latest catch-up,
the newest one has seen it, is late for it, is marked stale, or is the row the vote is
about to mark; `VotesOK` says that this row exists.  `BudgetOK` counts the requests that
have checked the budget and not yet used it.

`StoryMemoryProofs` proves, for any set of pipelines, any names, any likeness among them
and any bounds: `TypeCorrect`, `NamesStayUnique` and `MergesAreKept`.  One transaction
alone has flushed (`OneLock`), and what the others see is not changed by it (`Sees`).
Names have to be unique in what it has flushed, too, as that is what it searches
(`NamesOK`); who is about to create a name still misses every entity of its own that has
it, since nobody but itself adds one (`MissedOK`); and what a transaction has read as
merged must not be among what it promotes (`SeenOK`, `MergedOK`).

TLC agreed on each of these invariants on instances like those of `components`.  The
hypothesis on constants is what `MCComponents` assumes of its instances.

Only model-checked: the liveness properties (`OrphansClosed`, `StopHonoured`,
`LostLeaseStops`, `Drains`, `OfflineEnds`, `HoursDealtWith`, `FinalsSettled`), since
TLAPS proves none under fairness.  The statements of the findings are false of the
code and have a counterexample instead.  The type invariants of the components in
`MCComponents` are theorems, for any constants, and no run repeats them.

## Plan

Everything that races for something stored is modelled, and every safety property of
the passing runs is a theorem.  What is left, in this order:

1. Threads in `StoryMemory`: matching by title within a window, and the owner's
   edits between.
2. The cutters and the pipeline in one theorem: `WindowsInOrder` of the windows that
   `WindowBuilder` makes.

## Not modelled, and why

- Transcriber, voice activity and speaker models, the window classifier and the
  LLM providers: what they answer is a choice in the modules that call them.
- The text of prompts, summaries and recaps, and the layout of the web pages: no
  property is about them.
- The event bus: each subscriber has a queue that drops its oldest message when
  full; the client fetches what a message hints at, and nothing stored depends on
  one.
- The deletion of closed sessions by retention: one transaction over sessions that
  are days old, longer than any pipeline or thread outlives its session.
- `last_error`, a field for display that no code decides by.
- Threads, attributions, merge suggestions and speaker names: rows of the same
  transaction, or reads.
- The per-channel cooldown of the watcher and the Twitch clients.
- The web client and the browser extension, which render what the API answers,
  and evaluation scripts, migrations and configuration: sequential, and none keeps
  state that another part races for.
