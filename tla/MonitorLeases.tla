----------------------------- MODULE MonitorLeases -----------------------------
(***************************************************************************)
(* Who runs which pipeline: the workers of app/api/main.py, the handlers   *)
(* that start and stop pipelines (app/api/routes_channels.py), run_leased  *)
(* and reconcile_orphans (app/leases.py), the per-process TaskManager      *)
(* (app/task_manager.py) and the start and end of run_session              *)
(* (app/pipeline.py), over one shared database.                            *)
(*                                                                         *)
(* A worker is one asyncio event loop.  A handler that never awaits keeps  *)
(* the loop to itself, but each database transaction in it is a step, and  *)
(* the other workers, and the clock, may move between two of them.         *)
(***************************************************************************)
EXTENDS Integers, FiniteSets

CONSTANTS
    Workers,         \* worker_id values; a restarted process takes a new one
    Channels,
    Sessions,        \* ids of the sessions table
    ReplaySessions,  \* those that start_replay inserts, the rest are live
    None,            \* NULL
    TTL,             \* MONITOR_LEASE_TTL_SECONDS, in ticks
    PromptTasks,     \* TRUE: a task always renews, or ends, within the lease
    PromptHandlers,  \* TRUE: a start handler takes less than TTL
    DbErrors         \* TRUE: a commit may raise

LiveSessions == Sessions \ ReplaySessions

ASSUME MonitorAssumption ==
    /\ ReplaySessions \subseteq Sessions
    /\ None \notin Workers \cup Channels \cup Sessions
    /\ TTL \in Nat /\ TTL >= 2
    /\ PromptTasks \in BOOLEAN
    /\ PromptHandlers \in BOOLEAN
    /\ DbErrors \in BOOLEAN

LiveKey(c) == <<"live", c>>
SessionKey(s) == <<"session", s>>
Keys == {LiveKey(c) : c \in Channels} \cup {SessionKey(s) : s \in ReplaySessions}

VARIABLES
    lease,    \* the monitor_leases table, see LeaseTable
    status,   \* sessions.status, "none" where there is no row
    channel,  \* sessions.channel_id of a live session
    age,      \* now - started_at, in ticks, up to TTL
    worker,   \* the process: "off", "up", "stopping" or "down"
    handler,  \* what the worker's loop is in the middle of
    run,      \* the run_leased task of a session, and its pipeline
    runner    \* the worker whose TaskManager holds the task

vars == <<lease, status, channel, age, worker, handler, run, runner>>
db == <<lease, status, channel, age>>
tasks == <<run, runner>>

INSTANCE LeaseTable WITH Owners <- Workers

Key(s) == IF s \in ReplaySessions THEN SessionKey(s) ELSE LiveKey(channel[s])

-------------------------------------------------------------------------------
(* The states of a run_leased task:                                        *)
(*   created     create_task done, the coroutine not entered               *)
(*   starting    run_leased entered, its pipeline future not               *)
(*   running     run_session is in its gather                              *)
(*   cancelling  the pipeline was cancelled, its finally block still to run *)
(*   closed      the pipeline is done, the lease still to release          *)
(*   done        the task has ended, or its process has                    *)
Monitoring == {"created", "starting", "running", "cancelling"}
Active == Monitoring \cup {"closed"}
RunStates == {"none", "done"} \cup Active

Statuses == {"none", "live", "ended", "failed", "interrupted"}
ClosedStatuses == {"ended", "failed", "interrupted"}

(* Where a handler stands: between two transactions of try_acquire         *)
(* ("takeover"), start_live_session ("claimed" to "launch", "undo" in its   *)
(* except clause), start_replay ("acquire"), reconcile_orphans ("close")   *)
(* or stop_monitor ("request_stop").                                       *)
Owning == {"claimed", "swept", "insert", "attach"}
Steps == {"idle", "takeover", "undo", "acquire", "launch", "close", "request_stop"}
           \cup Owning

Handlers == [step : Steps, channel : Channels \cup {None},
             session : Sessions \cup {None},
             victims : SUBSET Sessions, stale : SUBSET Keys]

Frame(step, c, s) == [step |-> step, channel |-> c, session |-> s,
                      victims |-> {}, stale |-> {}]
Idle == Frame("idle", None, None)

\* Every variable has its type; in particular no row is ever valid for more than
\* TTL to come, however often it is renewed (leases.py:61, 97).
TypeOK ==
    /\ lease \in [Keys -> Rows]
    /\ status \in [Sessions -> Statuses]
    /\ channel \in [Sessions -> Channels \cup {None}]
    /\ age \in [Sessions -> 0 .. TTL]
    /\ worker \in [Workers -> {"off", "up", "stopping", "down"}]
    /\ handler \in [Workers -> Handlers]
    /\ run \in [Sessions -> RunStates]
    /\ runner \in [Sessions -> Workers \cup {None}]

Init ==
    /\ lease = [k \in Keys |-> NoRow]
    /\ status = [s \in Sessions |-> "none"]
    /\ channel = [s \in Sessions |-> None]
    /\ age = [s \in Sessions |-> 0]
    /\ worker = [w \in Workers |-> "off"]
    /\ handler = [w \in Workers |-> Idle]
    /\ run = [s \in Sessions |-> "none"]
    /\ runner = [s \in Sessions |-> None]

LoopFree(w) == worker[w] \in {"up", "stopping"} /\ handler[w] = Idle
Serving(w) == worker[w] = "up" /\ handler[w] = Idle
At(w, step) == handler[w].step = step
Go(w, frame) == handler' = [handler EXCEPT ![w] = frame]
Goto(w, step) == Go(w, Frame(step, handler[w].channel, handler[w].session))
Return(w) == Go(w, Idle)

HandlerKey(w) ==
    IF handler[w].session \in ReplaySessions
    THEN SessionKey(handler[w].session)
    ELSE LiveKey(handler[w].channel)

-------------------------------------------------------------------------------
(* reconcile_orphans.  It reads the leases and the sessions, then writes   *)
(* what it read: a session closed or a lease renewed in between is not     *)
(* looked at again.                                                        *)

\* A mutant: the query of reconcile_orphans does not test the status.
UncoveredClosed(s) == status[s] # "none" /\ s \notin Leased
Uncovered(s) == status[s] = "live" /\ s \notin Leased

\* A mutant: sessions started a moment ago are not spared.
OrphansNoGrace == {s \in Sessions : Uncovered(s)}
Orphans == {s \in Sessions : Uncovered(s) /\ age[s] >= TTL}
ChannelOrphans(c) == {s \in LiveSessions : Uncovered(s) /\ channel[s] = c}

Scanned(step, c, victims) == [step |-> step, channel |-> c, session |-> None,
                              victims |-> victims, stale |-> ExpiredKeys]

Boot(w) ==
    /\ worker[w] = "off"
    /\ worker' = [worker EXCEPT ![w] = "up"]
    /\ Go(w, Scanned("close", None, Orphans))
    /\ UNCHANGED <<db, tasks>>

ReconcileLoop(w) ==
    /\ Serving(w)
    /\ Go(w, Scanned("close", None, Orphans))
    /\ UNCHANGED <<db, worker, tasks>>

\* A mutant: reconcile_orphans closes nothing and only purges.
CloseNothing(victims) == UNCHANGED status
CloseSessions(victims) ==
    status' = [s \in Sessions |-> IF s \in victims THEN "interrupted" ELSE status[s]]

CloseOrphans(w) ==
    /\ CloseSessions(handler[w].victims)
    /\ Purge(handler[w].stale)
    /\ \/ At(w, "close") /\ Return(w)
       \/ At(w, "swept") /\ Goto(w, "insert")
    /\ UNCHANGED <<channel, age, worker, tasks>>

-------------------------------------------------------------------------------
(* start_live_session, called by start_monitor and by the watcher          *)

StartLive(w, c) ==
    /\ Serving(w)
    /\ \/ /\ Insertable(LiveKey(c))
          /\ Take(LiveKey(c), w, None)
          /\ Go(w, Frame("claimed", c, None))
       \/ /\ Expired(LiveKey(c))
          /\ Go(w, Frame("takeover", c, None))
          /\ UNCHANGED lease
    /\ UNCHANGED <<status, channel, age, worker, tasks>>

TakeOver(w) ==
    /\ At(w, "takeover")
    /\ \/ Replaceable(HandlerKey(w)) /\ Take(HandlerKey(w), w, None) /\ Goto(w, "claimed")
       \/ ~Replaceable(HandlerKey(w)) /\ Return(w) /\ UNCHANGED lease
    /\ UNCHANGED <<status, channel, age, worker, tasks>>

Sweep(w) ==
    /\ At(w, "claimed")
    /\ Go(w, Scanned("swept", handler[w].channel, ChannelOrphans(handler[w].channel)))
    /\ UNCHANGED <<db, worker, tasks>>

InsertSession(w) ==
    /\ At(w, "insert")
    /\ \E s \in LiveSessions :
          /\ status[s] = "none"
          /\ status' = [status EXCEPT ![s] = "live"]
          /\ channel' = [channel EXCEPT ![s] = handler[w].channel]
          /\ Go(w, Frame("attach", handler[w].channel, s))
    /\ UNCHANGED <<lease, age, worker, tasks>>

AttachSession(w) ==
    /\ At(w, "attach")
    /\ Attach(HandlerKey(w), w, handler[w].session)
    /\ Goto(w, "launch")
    /\ UNCHANGED <<status, channel, age, worker, tasks>>

Launch(w) ==
    /\ At(w, "launch")
    /\ run' = [run EXCEPT ![handler[w].session] = "created"]
    /\ runner' = [runner EXCEPT ![handler[w].session] = w]
    /\ Return(w)
    /\ UNCHANGED <<db, worker>>

\* Any of the calls after try_acquire raises; the except clause releases.
\* Sessions bounds the ids: an INSERT that finds none left raises too.
NoIdLeft == \A s \in LiveSessions : status[s] # "none"

StartRaises(w) ==
    /\ \/ DbErrors /\ handler[w].step \in Owning \cup {"launch"}
       \/ At(w, "insert") /\ NoIdLeft
    /\ Goto(w, "undo")
    /\ UNCHANGED <<db, worker, tasks>>

Undo(w) ==
    /\ At(w, "undo")
    /\ Return(w)
    /\ Release(HandlerKey(w), w) \/ (DbErrors /\ UNCHANGED lease)
    /\ UNCHANGED <<status, channel, age, worker, tasks>>

(* start_replay inserts the session before it takes the lease, and takes   *)
(* the lease outside its try.  The key is new with the session id.         *)
StartReplay(w) ==
    /\ Serving(w)
    /\ \E s \in ReplaySessions :
          /\ status[s] = "none"
          /\ status' = [status EXCEPT ![s] = "live"]
          /\ Go(w, Frame("acquire", None, s))
    /\ UNCHANGED <<lease, channel, age, worker, tasks>>

AcquireReplay(w) ==
    /\ At(w, "acquire")
    /\ \/ Take(HandlerKey(w), w, handler[w].session) /\ Goto(w, "launch")
       \/ DbErrors /\ Return(w) /\ UNCHANGED lease
    /\ UNCHANGED <<status, channel, age, worker, tasks>>

-------------------------------------------------------------------------------
(* run_leased and the ends of run_session                                  *)

Become(s, state) == run' = [run EXCEPT ![s] = state]
TurnOf(s) == runner[s] # None /\ LoopFree(runner[s])

Enter(s) ==
    /\ run[s] = "created" /\ TurnOf(s)
    /\ Become(s, "starting")
    /\ UNCHANGED <<db, worker, handler, runner>>

\* What run_session does before its try may raise (a missing model, a
\* schema error): then nothing closes the session.
Setup(s) ==
    /\ run[s] = "starting" /\ TurnOf(s)
    /\ Become(s, "running") \/ Become(s, "closed")
    /\ UNCHANGED <<db, worker, handler, runner>>

\* The finally block of run_session: the status it writes replaces
\* whatever the row says by now.
Finalize(s, final) ==
    \/ status' = [status EXCEPT ![s] = final]
    \/ DbErrors /\ UNCHANGED status

StreamEnds(s) ==
    /\ run[s] = "running" /\ TurnOf(s)
    /\ Become(s, "closed")
    /\ Finalize(s, "ended") \/ Finalize(s, "failed")
    /\ UNCHANGED <<lease, channel, age, worker, handler, runner>>

\* A mutant: a lost lease does not stop the pipeline.
MustStopOnRequest(s) == OwnedBy(Key(s), runner[s]) /\ lease[Key(s)].stop
\* A mutant: a stop request is not looked at.
MustStopOnLoss(s) == ~OwnedBy(Key(s), runner[s])
MustStop(s) == ~OwnedBy(Key(s), runner[s]) \/ lease[Key(s)].stop

\* A heartbeat: renew, then read the flag, then cancel the pipeline.
Beat(s) ==
    /\ run[s] = "running" /\ TurnOf(s)
    /\ Renew(Key(s), runner[s])
    /\ \/ MustStop(s) /\ Become(s, "cancelling")
       \/ ~MustStop(s) /\ UNCHANGED run
    /\ UNCHANGED <<status, channel, age, worker, handler, runner>>

Cancelled(s) ==
    /\ run[s] = "cancelling" /\ TurnOf(s)
    /\ Become(s, "closed")
    /\ Finalize(s, "ended")
    /\ UNCHANGED <<lease, channel, age, worker, handler, runner>>

\* The finally block of run_leased, and the task's done callback.
Finish(s) ==
    /\ run[s] = "closed" /\ TurnOf(s)
    /\ Become(s, "done")
    /\ Release(Key(s), runner[s]) \/ (DbErrors /\ UNCHANGED lease)
    /\ UNCHANGED <<status, channel, age, worker, handler, runner>>

-------------------------------------------------------------------------------
(* TaskManager.stop cancels the task.  A task that was never entered ends  *)
(* without running a line, its finally block included, and so does a       *)
(* pipeline future that run_leased has only just created.                  *)
AfterCancel(state) ==
    CASE state = "created" -> "done"
      [] state = "starting" -> "closed"
      [] state = "running" -> "cancelling"
      [] OTHER -> state

Cancel(s, w) == IF runner[s] = w THEN Become(s, AfterCancel(run[s])) ELSE UNCHANGED run

StopMonitor(w, c) ==
    LET holder == lease[LiveKey(c)]
        mine == holder.owner = w /\ holder.session # None
    IN  /\ Serving(w)
        /\ Valid(LiveKey(c))
        /\ \/ mine /\ Cancel(holder.session, w) /\ UNCHANGED handler
           \/ /\ ~mine
              /\ Go(w, Frame("request_stop", c, None))
              /\ UNCHANGED run
        /\ UNCHANGED <<db, worker, runner>>

RecordStop(w) ==
    /\ At(w, "request_stop")
    /\ RequestStop(HandlerKey(w))
    /\ Return(w)
    /\ UNCHANGED <<status, channel, age, worker, tasks>>

(* _shutdown cancels the reconciler and the watcher and stops every task.  *)
Shutdown(w) ==
    /\ Serving(w)
    /\ worker' = [worker EXCEPT ![w] = "stopping"]
    /\ UNCHANGED <<db, handler, tasks>>

\* stop_all, for one of its tasks at a time.
ShutdownStop(w, s) ==
    /\ worker[w] = "stopping"
    /\ runner[s] = w /\ run[s] \in {"created", "starting", "running"}
    /\ Cancel(s, w)
    /\ UNCHANGED <<db, worker, handler, runner>>

Exit(w) ==
    /\ worker[w] = "stopping"
    /\ \A s \in Sessions : runner[s] = w => run[s] \notin Active
    /\ worker' = [worker EXCEPT ![w] = "down"]
    /\ UNCHANGED <<db, handler, tasks>>

\* The process dies: its tasks and its handler go with it, the rows stay.
Crash(w) ==
    /\ worker[w] \in {"up", "stopping"}
    /\ worker' = [worker EXCEPT ![w] = "down"]
    /\ Return(w)
    /\ run' = [s \in Sessions |->
                 IF runner[s] = w /\ run[s] \in Active THEN "done" ELSE run[s]]
    /\ UNCHANGED <<db, runner>>

-------------------------------------------------------------------------------
(* Time passes, and unless told otherwise no worker need keep up with it:  *)
(* a renewal that raises is only logged, a synchronous call (a model to    *)
(* load, an LLM to wait for) holds the whole loop.                         *)
TasksOnTime == \A s \in Sessions : run[s] \in Active => lease[Key(s)].left > 0

HandlersOnTime ==
    \A w \in Workers :
        /\ handler[w].step \in Owning \cup {"launch"} => lease[HandlerKey(w)].left > 1
        /\ handler[w].step = "acquire" => age[handler[w].session] + 1 < TTL

Tick ==
    /\ PromptTasks => TasksOnTime
    /\ PromptHandlers => HandlersOnTime
    /\ Age
    /\ age' = [s \in Sessions |->
                 IF status[s] # "none" /\ age[s] < TTL THEN age[s] + 1 ELSE age[s]]
    /\ UNCHANGED <<status, channel, worker, handler, tasks>>

HandlerStep(w) ==
    \/ CloseOrphans(w) \/ TakeOver(w) \/ Sweep(w) \/ InsertSession(w) \/ StartRaises(w)
    \/ AttachSession(w) \/ Launch(w) \/ Undo(w) \/ AcquireReplay(w) \/ RecordStop(w)

WorkerStep(w) ==
    \/ Boot(w) \/ ReconcileLoop(w) \/ StartReplay(w) \/ HandlerStep(w)
    \/ Shutdown(w) \/ Exit(w) \/ Crash(w)
    \/ \E c \in Channels : StartLive(w, c) \/ StopMonitor(w, c)
    \/ \E s \in Sessions : ShutdownStop(w, s)

\* The steps of a task that nothing but the event loop has to grant.
TaskStep(s) == Enter(s) \/ Setup(s) \/ Cancelled(s) \/ Finish(s)

Next ==
    \/ \E w \in Workers : WorkerStep(w)
    \/ \E s \in Sessions : TaskStep(s) \/ StreamEnds(s) \/ Beat(s)
    \/ Tick

Spec == Init /\ [][Next]_vars

(* An asyncio loop runs every ready task in turn, and timers fire: a       *)
(* handler that has begun goes on, a task or a timer that is due over and  *)
(* over gets its turn even if handlers keep the loop busy in between.      *)
(* Requests, crashes, restarts, and the end of a stream may never come.    *)
Fairness ==
    /\ \A w \in Workers : /\ WF_vars(HandlerStep(w))
                          /\ SF_vars(ReconcileLoop(w))
    /\ \A s \in Sessions : /\ SF_vars(TaskStep(s))
                           /\ SF_vars(Beat(s))
    /\ WF_vars(Tick)

FairSpec == Spec /\ Fairness
-------------------------------------------------------------------------------
(* Safety, when no worker that is up is late.                              *)

\* leases.py:6-7, routes_channels.py:71-73: whatever handlers, heartbeats,
\* crashes and reconcilers do between each other's transactions, two
\* pipelines never run for one channel.
OneMonitorPerChannel ==
    \A s, t \in LiveSessions :
        run[s] \in Monitoring /\ run[t] \in Monitoring /\ channel[s] = channel[t]
            => s = t

\* A session whose pipeline runs says so: no reconciler and no sweep, of this
\* worker or another, closes it (leases.py:119-124).
MonitoredIsLive ==
    \A s \in Sessions : run[s] \in Monitoring => status[s] = "live"

\* Until its task has ended, a pipeline has a valid lease that its own worker
\* owns and that names it: nobody's release, take-over or purge removes it.
OwnerHoldsLease ==
    \A s \in Sessions : run[s] \in Active =>
        /\ OwnedBy(Key(s), runner[s])
        /\ Valid(Key(s))
        /\ lease[Key(s)].session = s

\* A closed session keeps the status it was closed with: run_session's finally
\* (pipeline.py:551-559) and reconcile_orphans never overwrite each other.
ClosedIsFinal ==
    [][\A s \in Sessions : status[s] \in ClosedStatuses => status'[s] = status[s]]_vars

(* Safety, however late the workers are.                                   *)

\* A lease never names a running session of another worker than its owner, so
\* stop_monitor's holder.session_id is always in the owner's TaskManager.
LeaseNamesRunner ==
    \A s \in Sessions :
        run[s] \in Active /\ lease[Key(s)].session = s => OwnedBy(Key(s), runner[s])

\* The two releases of app/leases.py: by a start handler that failed, and by
\* run_leased when its task ends.
GivesUp(w, k) ==
    \/ At(w, "undo") /\ HandlerKey(w) = k /\ handler'[w] = Idle
    \/ \E s \in Sessions : /\ runner[s] = w /\ Key(s) = k
                           /\ run[s] = "closed" /\ run'[s] = "done"

\* leases.py:6-7, 69-72: while a lease has not expired nobody takes it, purges
\* it or gives it another session; only its owner ends it, with a release.
ValidLeaseKept ==
    [][\A k \in Keys, w \in Workers :
          (/\ Valid(k) /\ OwnedBy(k, w)
           /\ \/ lease'[k].owner # w
              \/ lease[k].session # None /\ lease'[k].session # lease[k].session)
          => GivesUp(w, k)]_vars

(* Liveness.                                                               *)

\* leases.py:8-10: a session left "live" by a crashed worker, or by a pipeline
\* that failed without closing it, is closed while some worker stays up.
Unattended(s) ==
    status[s] = "live" /\ run[s] \notin Active
OrphansClosed ==
    (\E w \in Workers : <>[](worker[w] = "up")) =>
        \A s \in Sessions : Unattended(s) ~> ~Unattended(s)

\* leases.py:11-12: a stop recorded on the lease of a running pipeline ends it,
\* or the pipeline has lost the lease, which with timely workers it never does
\* (OwnerHoldsLease).
StopHonoured ==
    \A s \in Sessions :
        run[s] = "running" /\ lease[Key(s)].session = s /\ lease[Key(s)].stop
            ~> \/ run[s] \in {"closed", "done"}
               \/ run[s] = "running" /\ lease[Key(s)].session # s

\* leases.py:157-158: a pipeline whose lease another worker has taken, or that
\* was purged, stops, unless its worker takes the key again first.
LostLeaseStops ==
    \A s \in Sessions :
        run[s] = "running" /\ ~OwnedBy(Key(s), runner[s])
            ~> run[s] # "running" \/ OwnedBy(Key(s), runner[s])

-------------------------------------------------------------------------------
(* What the documentation says and the code does not do.                   *)

\* leases.py:57-58: holding the lease "also blocks duplicate tasks inside a
\* single process".
NoDuplicateInProcess ==
    \A s, t \in LiveSessions :
        (/\ run[s] \in Monitoring /\ run[t] \in Monitoring
         /\ channel[s] = channel[t] /\ runner[s] = runner[t]) => s = t

\* main.py:85-86: a graceful stop releases the leases "instead of waiting for
\* lease expiry".
GracefulStopReleases ==
    \A w \in Workers, s \in Sessions :
        worker[w] = "stopping" /\ runner[s] = w /\ run[s] = "done"
            => lease[Key(s)].session # s

-------------------------------------------------------------------------------
(* The abstract monitor of ChannelMonitor, with the details left out.      *)
Monitor == INSTANCE ChannelMonitor WITH
    monitored <- {s \in Sessions : run[s] \in Monitoring},
    begun <- {s \in Sessions : run[s] # "none"},
    slot <- [s \in Sessions |-> IF status[s] = "none" THEN None ELSE Key(s)],
    Slots <- Keys

\* With timely workers, MonitorLeases implements ChannelMonitor.
RefinesChannelMonitor == Monitor!Spec
===============================================================================
