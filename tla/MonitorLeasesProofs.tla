-------------------------- MODULE MonitorLeasesProofs --------------------------
(* Proofs about MonitorLeases, for any workers, channels, sessions and TTL. *)
EXTENDS MonitorLeases, TLAPS

-------------------------------------------------------------------------------
(* Why the safety properties hold when workers are on time: the inductive   *)
(* invariant.                                                              *)

Pending(w) == handler[w].step \in {"acquire", "attach", "launch"}

\* A row without history, and a live row with its channel.
RowsOK ==
    \A s \in Sessions :
        /\ status[s] = "none" => run[s] = "none" /\ age[s] = 0
        /\ s \in LiveSessions /\ status[s] # "none" => channel[s] \in Channels

\* The session a handler is about to launch is open and unlaunched, and is
\* no other handler's.
PendingOK ==
    \A w \in Workers : Pending(w) =>
        LET s == handler[w].session IN
        /\ s \in Sessions /\ status[s] = "live" /\ run[s] = "none"
        /\ At(w, "acquire") => s \in ReplaySessions /\ age[s] < TTL
        /\ At(w, "attach") => s \in LiveSessions
        /\ s \in LiveSessions => channel[s] = handler[w].channel
        /\ \A v \in Workers \ {w} : Pending(v) => handler[v].session # s

\* A start handler holds the lease it took, with time left, for no session
\* until it attaches its own.
HandlerHolds(w) ==
    LET k == HandlerKey(w) IN
    /\ handler[w].step \in {"claimed", "swept", "insert", "takeover"} =>
          handler[w].session = None /\ handler[w].channel \in Channels
    /\ handler[w].step \in Owning \cup {"launch"} =>
          OwnedBy(k, w) /\ lease[k].left > 0
    /\ handler[w].step \in Owning => lease[k].session = None
    /\ At(w, "attach") => age[handler[w].session] + lease[k].left <= TTL
    /\ At(w, "launch") => lease[k].session = handler[w].session
HandlerHoldsLease == \A w \in Workers : HandlerHolds(w)

\* What reconcile_orphans has read and not yet closed is nobody's.
VictimsOK ==
    \A w \in Workers : \A s \in handler[w].victims :
        /\ status[s] \in {"live", "interrupted"}
        /\ run[s] \notin Monitoring
        /\ \A v \in Workers : Pending(v) => handler[v].session # s

\* The lease an except clause releases is not that of a task of its worker.
UndoOK ==
    \A w \in Workers : At(w, "undo") =>
        \A s \in Sessions :
            run[s] \in Active /\ runner[s] = w => Key(s) # HandlerKey(w)

IInv ==
    /\ TypeOK
    /\ RowsOK
    /\ OwnerHoldsLease
    /\ MonitoredIsLive
    /\ PendingOK
    /\ HandlerHoldsLease
    /\ VictimsOK
    /\ UndoOK

(* Why LeaseNamesRunner holds however late the workers are: a session is   *)
(* written into one row only, that of its own key, by the one handler that *)
(* will launch it, and whoever takes that row over erases it.              *)

StartsOK ==
    \A w \in Workers :
        /\ handler[w].step \in {"claimed", "swept", "insert", "takeover"} =>
              handler[w].session = None /\ handler[w].channel \in Channels
        /\ \A s \in handler[w].victims : status[s] # "none"
        /\ Pending(w) =>
              LET s == handler[w].session IN
              /\ s \in Sessions /\ status[s] # "none" /\ run[s] = "none"
              /\ At(w, "acquire") => s \in ReplaySessions
              /\ At(w, "attach") => s \in LiveSessions
              /\ s \in LiveSessions => channel[s] = handler[w].channel
              /\ \A v \in Workers \ {w} : Pending(v) => handler[v].session # s

NamedOK ==
    \A k \in Keys, s \in Sessions : lease[k].session = s =>
        /\ status[s] # "none" /\ k = Key(s)
        /\ run[s] \in Active => OwnedBy(k, runner[s])
        /\ \A w \in Workers :
              Pending(w) /\ handler[w].session = s => At(w, "launch") /\ OwnedBy(k, w)

NamingInv == TypeOK /\ RowsOK /\ StartsOK /\ NamedOK

-------------------------------------------------------------------------------
(* Keys                                                                    *)

LEMMA KeyFacts ==
    /\ \A c \in Channels : LiveKey(c) \in Keys
    /\ \A s \in ReplaySessions : SessionKey(s) \in Keys
    /\ \A c, s : LiveKey(c) # SessionKey(s)
    /\ \A c, d : LiveKey(c) = LiveKey(d) => c = d
    /\ \A s, t : SessionKey(s) = SessionKey(t) => s = t
  BY DEF Keys, LiveKey, SessionKey

-------------------------------------------------------------------------------
(* Types                                                                   *)

\* Every transaction on the table leaves a table.
LEMMA TableType ==
    ASSUME lease \in [Keys -> Rows], NEW k, NEW o \in Workers \cup {None},
           NEW s \in Sessions \cup {None}, NEW stale,
           \/ Take(k, o, s) \/ Attach(k, o, s) \/ Renew(k, o) \/ Release(k, o)
           \/ RequestStop(k) \/ Purge(stale) \/ Age
    PROVE  lease' \in [Keys -> Rows]
  <1> USE MonitorAssumption DEF MonitorAssumption
  <1>0. NoRow \in Rows
    BY DEF NoRow, Row, Rows
  <1>1. CASE Take(k, o, s)
    <2>1. Row(o, s, TTL, FALSE) \in Rows
      BY DEF Row, Rows
    <2> QED BY <1>1, <2>1 DEF Take
  <1>e. ASSUME NEW row, row \in Rows \/ k \notin Keys
        PROVE  [lease EXCEPT ![k] = row] \in [Keys -> Rows]
    BY <1>e
  <1>2. CASE Attach(k, o, s)
    <2>1. k \in Keys => Row(o, s, lease[k].left, lease[k].stop) \in Rows
      BY DEF Row, Rows
    <2> QED BY <1>2, <1>e, <2>1 DEF Attach
  <1>3. CASE Renew(k, o)
    <2>1. k \in Keys => [lease[k] EXCEPT !.left = TTL] \in Rows
      BY DEF Rows
    <2> QED BY <1>3, <1>e, <2>1 DEF Renew
  <1>4. CASE Release(k, o)
    BY <1>4, <1>0 DEF Release
  <1>5. CASE RequestStop(k)
    <2>1. k \in Keys => [lease[k] EXCEPT !.stop = TRUE] \in Rows
      BY DEF Rows
    <2> QED BY <1>5, <1>e, <2>1 DEF RequestStop
  <1>6. CASE Purge(stale)
    BY <1>6, <1>0 DEF Purge
  <1>7. CASE Age
    <2>1. ASSUME NEW j \in Keys, Valid(j)
          PROVE  [lease[j] EXCEPT !.left = @ - 1] \in Rows
      BY <2>1 DEF Valid, Rows
    <2> QED BY <1>7, <2>1 DEF Age
  <1> QED BY <1>1, <1>2, <1>3, <1>4, <1>5, <1>6, <1>7

LEMMA FrameType ==
    ASSUME NEW step \in Steps, NEW c \in Channels \cup {None},
           NEW s \in Sessions \cup {None}
    PROVE  Frame(step, c, s) \in Handlers
  BY DEF Frame, Handlers

LEMMA ScannedType ==
    ASSUME NEW step \in Steps, NEW c \in Channels \cup {None},
           NEW victims \in SUBSET Sessions
    PROVE  Scanned(step, c, victims) \in Handlers
  BY DEF Scanned, Handlers, ExpiredKeys

LEMMA OrphansType ==
    Orphans \in SUBSET Sessions /\ \A c : ChannelOrphans(c) \in SUBSET Sessions
  BY DEF Orphans, ChannelOrphans, LiveSessions

LEMMA TypeInit == Init => TypeOK
  <1> SUFFICES ASSUME Init PROVE TypeOK
    OBVIOUS
  <1> USE MonitorAssumption DEF MonitorAssumption, Init
  <1>1. lease \in [Keys -> Rows]
    BY DEF NoRow, Row, Rows
  <1>2. handler \in [Workers -> Handlers]
    BY FrameType DEF Idle, Steps
  <1> QED BY <1>1, <1>2 DEF TypeOK, Statuses, RunStates

LEMMA TypeStep == TypeOK /\ [Next]_vars => TypeOK'
  <1> SUFFICES ASSUME TypeOK, [Next]_vars PROVE TypeOK'
    OBVIOUS
  <1> USE MonitorAssumption DEF MonitorAssumption, TypeOK, db, tasks, LiveSessions,
          At, Go, Goto, Return, Become, Steps, Owning
  <1>i. Idle \in Handlers
    BY FrameType DEF Idle, Steps
  <1>h. ASSUME NEW w \in Workers
        PROVE  handler[w].channel \in Channels \cup {None}
               /\ handler[w].session \in Sessions \cup {None}
               /\ handler[w].victims \in SUBSET Sessions
    BY DEF Handlers
  <1>1. ASSUME NEW w \in Workers, WorkerStep(w)
        PROVE  TypeOK'
    <2> USE <1>i, <1>h, FrameType, ScannedType, OrphansType
    <2>1. CASE Boot(w) \/ ReconcileLoop(w)
      BY <2>1 DEF Boot, ReconcileLoop
    <2>2. CASE CloseOrphans(w)
      <3>1. lease' \in [Keys -> Rows]
        BY <2>2, TableType DEF CloseOrphans
      <3>2. status' \in [Sessions -> Statuses]
        BY <2>2 DEF CloseOrphans, CloseSessions, Statuses
      <3> QED BY <2>2, <3>1, <3>2 DEF CloseOrphans
    <2>3. CASE TakeOver(w)
      <3>1. lease' \in [Keys -> Rows]
        BY <2>3, TableType DEF TakeOver
      <3> QED BY <2>3, <3>1 DEF TakeOver
    <2>4. CASE Sweep(w)
      BY <2>4 DEF Sweep
    <2>5. CASE InsertSession(w)
      BY <2>5 DEF InsertSession, Statuses
    <2>6. CASE AttachSession(w)
      <3>1. lease' \in [Keys -> Rows]
        BY <2>6, TableType DEF AttachSession
      <3> QED BY <2>6, <3>1 DEF AttachSession
    <2>7. CASE Launch(w)
      BY <2>7 DEF Launch, RunStates, Active, Monitoring
    <2>8. CASE StartRaises(w)
      BY <2>8 DEF StartRaises
    <2>9. CASE Undo(w)
      <3>1. lease' \in [Keys -> Rows]
        BY <2>9, TableType DEF Undo
      <3> QED BY <2>9, <3>1 DEF Undo
    <2>10. CASE StartReplay(w)
      BY <2>10 DEF StartReplay, Statuses
    <2>11. CASE AcquireReplay(w)
      <3>1. lease' \in [Keys -> Rows]
        BY <2>11, TableType DEF AcquireReplay
      <3> QED BY <2>11, <3>1 DEF AcquireReplay
    <2>12. CASE RecordStop(w)
      <3>1. lease' \in [Keys -> Rows]
        BY <2>12, TableType DEF RecordStop
      <3> QED BY <2>12, <3>1 DEF RecordStop
    <2>13. CASE Shutdown(w) \/ Exit(w)
      BY <2>13 DEF Shutdown, Exit
    <2>14. CASE Crash(w)
      BY <2>14 DEF Crash, RunStates
    <2>15. ASSUME NEW c \in Channels, StartLive(w, c)
           PROVE  TypeOK'
      <3>1. lease' \in [Keys -> Rows]
        BY <2>15, TableType DEF StartLive
      <3> QED BY <2>15, <3>1 DEF StartLive
    <2>16. ASSUME NEW s \in Sessions \cup {None}
           PROVE  Cancel(s, w) => run' \in [Sessions -> RunStates]
      BY DEF Cancel, AfterCancel, RunStates, Active, Monitoring
    <2>17. ASSUME NEW c \in Channels, StopMonitor(w, c)
           PROVE  TypeOK'
      <3>1. lease[LiveKey(c)].session \in Sessions \cup {None}
        BY KeyFacts DEF Rows
      <3>2. run' \in [Sessions -> RunStates]
        BY <2>16, <2>17, <3>1 DEF StopMonitor
      <3> QED BY <2>17, <3>2 DEF StopMonitor
    <2>18. ASSUME NEW s \in Sessions, ShutdownStop(w, s)
           PROVE  TypeOK'
      BY <2>16, <2>18 DEF ShutdownStop
    <2> QED
      BY <1>1, <2>1, <2>2, <2>3, <2>4, <2>5, <2>6, <2>7, <2>8, <2>9, <2>10, <2>11,
         <2>12, <2>13, <2>14, <2>15, <2>17, <2>18 DEF WorkerStep, HandlerStep
  <1>2. ASSUME NEW s \in Sessions, TaskStep(s) \/ StreamEnds(s) \/ Beat(s)
        PROVE  TypeOK'
    <2> USE DEF RunStates, Active, Monitoring
    <2>1. ASSUME NEW final \in Statuses, Finalize(s, final)
          PROVE  status' \in [Sessions -> Statuses]
      BY <2>1 DEF Finalize
    <2>2. CASE Enter(s) \/ Setup(s)
      BY <2>2 DEF Enter, Setup
    <2>3. CASE Cancelled(s) \/ StreamEnds(s)
      <3>1. status' \in [Sessions -> Statuses]
        BY <2>1, <2>3 DEF Cancelled, StreamEnds, Statuses
      <3> QED BY <2>3, <3>1 DEF Cancelled, StreamEnds
    <2>4. CASE Finish(s) \/ Beat(s)
      <3>1. lease' \in [Keys -> Rows]
        BY <2>4, TableType DEF Finish, Beat
      <3> QED BY <2>4, <3>1 DEF Finish, Beat
    <2> QED BY <1>2, <2>2, <2>3, <2>4 DEF TaskStep
  <1>3. CASE Tick
    <2>1. lease' \in [Keys -> Rows]
      BY <1>3, TableType DEF Tick
    <2> QED BY <1>3, <2>1 DEF Tick
  <1>4. CASE UNCHANGED vars
    BY <1>4 DEF vars
  <1> QED BY <1>1, <1>2, <1>3, <1>4 DEF Next

\* Every reachable state has the types TypeOK gives: the table keeps at most one
\* row per key, every row, task and handler is in one of its named states.
THEOREM TypeCorrect == Spec => []TypeOK
  <1>1. TypeOK /\ [Next]_vars => TypeOK'
    BY TypeStep
  <1> QED BY TypeInit, <1>1, PTL DEF Spec

-------------------------------------------------------------------------------
(* The inductive invariant                                                 *)

\* A lease that a task, or a handler about to start one, relies on.
Held(k) ==
    \/ \E s \in Sessions : run[s] \in Active /\ Key(s) = k
    \/ \E w \in Workers : handler[w].step \in Owning \cup {"launch"} /\ HandlerKey(w) = k

LEMMA HeldIsValid ==
    ASSUME IInv, NEW k \in Keys, Held(k)
    PROVE  Valid(k)
  <1> USE MonitorAssumption DEF MonitorAssumption, IInv, TypeOK
  <1>1. CASE \E s \in Sessions : run[s] \in Active /\ Key(s) = k
    BY <1>1 DEF OwnerHoldsLease
  <1>2. CASE \E w \in Workers :
                handler[w].step \in Owning \cup {"launch"} /\ HandlerKey(w) = k
    BY <1>2 DEF HandlerHoldsLease, HandlerHolds, Valid, Present, OwnedBy, Rows
  <1> QED BY <1>1, <1>2 DEF Held

LEMMA ActiveIsLeased ==
    ASSUME IInv, NEW s \in Sessions, run[s] \in Active
    PROVE  Key(s) \in Keys /\ s \in Leased
  <1>1. Key(s) \in Keys
    BY KeyFacts DEF IInv, RowsOK, Key, Active, Monitoring, LiveSessions
  <1> QED BY <1>1 DEF IInv, OwnerHoldsLease, Leased

LEMMA PendingKey ==
    ASSUME IInv, NEW w \in Workers,
           handler[w].step \in Owning \cup {"launch", "acquire", "takeover"}
    PROVE  HandlerKey(w) \in Keys
  BY KeyFacts, MonitorAssumption
     DEF MonitorAssumption, IInv, PendingOK, HandlerHoldsLease, HandlerHolds, HandlerKey,
         Pending, At, Owning, TypeOK, Handlers, LiveSessions, RowsOK

LEMMA LaunchIsLeased ==
    ASSUME IInv, NEW w \in Workers, At(w, "launch")
    PROVE  handler[w].session \in Leased
  <1>1. HandlerKey(w) \in Keys /\ Valid(HandlerKey(w))
    BY PendingKey, HeldIsValid DEF At, Held
  <1>2. handler[w].session \in Sessions
    BY DEF IInv, PendingOK, Pending, At
  <1> QED BY <1>1, <1>2 DEF IInv, HandlerHoldsLease, HandlerHolds, Leased

\* What a reconciler reads is nobody's: an active session and one about to be
\* launched are leased, one that waits for its lease is younger than TTL.
LEMMA OrphansFree ==
    ASSUME IInv, NEW s \in Orphans
    PROVE  /\ status[s] = "live" /\ run[s] \notin Monitoring
           /\ \A v \in Workers : Pending(v) => handler[v].session # s
  <1> USE MonitorAssumption DEF MonitorAssumption, IInv, TypeOK, Pending
  <1>1. s \in Sessions /\ status[s] = "live" /\ s \notin Leased /\ age[s] >= TTL
    BY DEF Orphans, Uncovered
  <1>2. run[s] \notin Monitoring
    BY <1>1, ActiveIsLeased DEF Active
  <1>3. ASSUME NEW v \in Workers, Pending(v), handler[v].session = s
        PROVE  FALSE
    <2>1. CASE At(v, "acquire")
      BY <1>1, <1>3, <2>1 DEF PendingOK
    <2>2. CASE At(v, "attach")
      <3>1. HandlerKey(v) \in Keys
        BY <2>2, PendingKey DEF At, Owning
      <3>2. lease[HandlerKey(v)].left \in 1 .. TTL
        BY <2>2, <3>1 DEF HandlerHoldsLease, HandlerHolds, At, Owning, Rows
      <3> QED BY <1>1, <1>3, <2>2, <3>2 DEF HandlerHoldsLease, HandlerHolds
    <2>3. CASE At(v, "launch")
      BY <1>1, <1>3, <2>3, LaunchIsLeased
    <2> QED BY <1>3, <2>1, <2>2, <2>3 DEF At
  <1> QED BY <1>1, <1>2, <1>3

\* Nor is what start_live_session sweeps: it holds the channel's lease itself.
LEMMA SweptFree ==
    ASSUME IInv, NEW w \in Workers, At(w, "claimed"),
           NEW s \in ChannelOrphans(handler[w].channel)
    PROVE  /\ status[s] = "live" /\ run[s] \notin Monitoring
           /\ \A v \in Workers : Pending(v) => handler[v].session # s
  <1> USE MonitorAssumption DEF MonitorAssumption, IInv, TypeOK, Pending, LiveSessions
  <1>1. /\ s \in LiveSessions /\ status[s] = "live" /\ s \notin Leased
        /\ channel[s] = handler[w].channel
    BY DEF ChannelOrphans, Uncovered
  <1>2. run[s] \notin Monitoring
    BY <1>1, ActiveIsLeased DEF Active
  <1>3. ASSUME NEW v \in Workers, Pending(v), handler[v].session = s
        PROVE  FALSE
    <2>1. CASE At(v, "acquire")
      BY <1>1, <1>3, <2>1 DEF PendingOK
    <2>2. CASE At(v, "attach")
      <3>1. HandlerKey(v) = HandlerKey(w)
        BY <1>1, <1>3, <2>2 DEF HandlerKey, PendingOK, HandlerHoldsLease, HandlerHolds, At
      <3>2. v = w
        BY <2>2, <3>1 DEF HandlerHoldsLease, HandlerHolds, At, Owning, OwnedBy
      <3> QED BY <2>2, <3>2 DEF At
    <2>3. CASE At(v, "launch")
      BY <1>1, <1>3, <2>3, LaunchIsLeased
    <2> QED BY <1>3, <2>1, <2>2, <2>3 DEF At
  <1> QED BY <1>1, <1>2, <1>3

\* Each part of the invariant depends on some of the variables only.
LEMMA Frames ==
    ASSUME IInv
    PROVE  /\ UNCHANGED <<status, run, age, channel>> => RowsOK'
           /\ UNCHANGED <<run, runner, lease, channel>> => OwnerHoldsLease'
           /\ UNCHANGED <<run, status>> => MonitoredIsLive'
           /\ UNCHANGED <<handler, status, run, age, channel>> => PendingOK'
           /\ UNCHANGED <<handler, age, lease>> => HandlerHoldsLease'
           /\ UNCHANGED <<handler, status, run>> => VictimsOK'
           /\ UNCHANGED <<handler, run, runner, channel>> => UndoOK'
  BY DEF IInv, RowsOK, OwnerHoldsLease, MonitoredIsLive, PendingOK, HandlerHoldsLease,
         HandlerHolds, VictimsOK, UndoOK, Pending, At, Key, HandlerKey, OwnedBy, Valid,
         Present

LEMMA OwnerKept ==
    ASSUME IInv, NEW k, UNCHANGED <<run, runner, channel>>,
           \A j \in Keys \ {k} : lease'[j] = lease[j],
           \A s \in Sessions : run[s] \in Active => Key(s) # k
    PROVE  OwnerHoldsLease'
  <1> SUFFICES ASSUME NEW s \in Sessions, run'[s] \in Active
               PROVE  (/\ OwnedBy(Key(s), runner[s])
                       /\ Valid(Key(s))
                       /\ lease[Key(s)].session = s)'
    BY DEF OwnerHoldsLease
  <1>1. Key(s)' = Key(s)
    BY DEF Key
  <1>2. lease'[Key(s)] = lease[Key(s)]
    BY ActiveIsLeased
  <1> QED BY <1>1, <1>2 DEF IInv, OwnerHoldsLease, OwnedBy, Valid, Present

LEMMA HandlerKept ==
    ASSUME IInv, NEW k, NEW v \in Workers, handler'[v] = handler[v], age' = age,
           \A j \in Keys \ {k} : lease'[j] = lease[j],
           handler[v].step \in Owning \cup {"launch"} => HandlerKey(v) # k
    PROVE  HandlerHolds(v)'
  <1>1. HandlerKey(v)' = HandlerKey(v)
    BY DEF HandlerKey
  <1>2. CASE handler[v].step \in Owning \cup {"launch"}
    <2>1. lease'[HandlerKey(v)] = lease[HandlerKey(v)]
      BY <1>2, PendingKey
    <2> QED
      BY <1>1, <1>2, <2>1 DEF IInv, HandlerHoldsLease, HandlerHolds, OwnedBy, At, Owning
  <1>3. CASE handler[v].step \notin Owning \cup {"launch"}
    BY <1>3 DEF IInv, HandlerHoldsLease, HandlerHolds, At, Owning
  <1> QED BY <1>2, <1>3

\* A handler that moves to where it waits for no session of its own.
LEMMA Quiet ==
    ASSUME IInv, UNCHANGED <<status, run, age, channel>>,
           \A v \in Workers :
              \/ handler'[v] = handler[v]
              \/ ~Pending(v)' /\ handler'[v].victims = {}
    PROVE  PendingOK' /\ VictimsOK'
  <1>1. \A v \in Workers : Pending(v)' => Pending(v) /\ handler'[v] = handler[v]
    BY DEF Pending
  <1>2. PendingOK'
    BY <1>1 DEF IInv, PendingOK, At
  <1>3. VictimsOK'
    BY <1>1 DEF IInv, VictimsOK
  <1> QED BY <1>2, <1>3

LEMMA InvariantInit == Init => IInv
  <1> SUFFICES ASSUME Init PROVE IInv
    OBVIOUS
  <1>1. TypeOK
    BY TypeInit
  <1> QED
    BY <1>1 DEF Init, IInv, RowsOK, OwnerHoldsLease, MonitoredIsLive, PendingOK, Pending,
        HandlerHoldsLease, HandlerHolds, VictimsOK, UndoOK, At, Owning, Idle, Frame,
        Active, Monitoring

\* One step per operation, and under it one per part of the invariant whose
\* variables the operation changes.
LEMMA InvariantStep ==
    ASSUME PromptTasks, PromptHandlers, IInv, [Next]_vars
    PROVE  IInv'
  <1> USE MonitorAssumption, KeyFacts DEF MonitorAssumption, TypeOK, db, tasks,
     LiveSessions, At, Go, Goto, Return, Become, Owning, Active, Monitoring, Key,
     HandlerKey, OwnedBy, Pending, Frame, Idle, Row, Rows, Handlers, Valid,
     Present, NoRow
  <1>t. TypeOK'
    BY TypeStep DEF IInv
  <1> USE <1>t DEF IInv
  <1>1. ASSUME NEW w \in Workers, WorkerStep(w)
        PROVE  IInv'
    <2>1. CASE Boot(w)
      <3>1. PendingOK'
        BY <2>1 DEF Boot, Scanned, PendingOK
      <3>2. HandlerHoldsLease'
        BY <2>1 DEF Boot, Scanned, HandlerHoldsLease, HandlerHolds
      <3>3. VictimsOK'
        BY <2>1, OrphansFree DEF Boot, Scanned, VictimsOK
      <3>4. UndoOK'
        BY <2>1 DEF Boot, Scanned, UndoOK
      <3> QED
        BY <2>1, <3>1, <3>2, <3>3, <3>4, Frames DEF Boot
    <2>2. CASE ReconcileLoop(w)
      <3>1. PendingOK'
        BY <2>2 DEF ReconcileLoop, Scanned, PendingOK
      <3>2. HandlerHoldsLease'
        BY <2>2 DEF ReconcileLoop, Scanned, HandlerHoldsLease, HandlerHolds
      <3>3. VictimsOK'
        BY <2>2, OrphansFree DEF ReconcileLoop, Scanned, VictimsOK
      <3>4. UndoOK'
        BY <2>2 DEF ReconcileLoop, Scanned, UndoOK
      <3> QED
        BY <2>2, <3>1, <3>2, <3>3, <3>4, Frames DEF ReconcileLoop
    <2>3. CASE CloseOrphans(w)
      <3>1. RowsOK'
        BY <2>3 DEF CloseOrphans, CloseSessions, RowsOK, VictimsOK
      <3>2. OwnerHoldsLease'
        BY <2>3, ActiveIsLeased DEF CloseOrphans, Purge, Expired, OwnerHoldsLease
      <3>3. MonitoredIsLive'
        BY <2>3 DEF CloseOrphans, CloseSessions, MonitoredIsLive, VictimsOK
      <3>4. PendingOK'
        <4>1. \A v \in Workers : handler'[v] = handler[v] \/ (v = w /\ ~Pending(v)')
          BY <2>3 DEF CloseOrphans
        <4>2. \A v \in Workers : Pending(v) =>
                /\ handler[v].session \in Sessions
                /\ handler[v].session \notin handler[w].victims
          BY DEF PendingOK, VictimsOK
        <4>3. \A v \in Workers : Pending(v) =>
                status'[handler[v].session] = status[handler[v].session]
          BY <2>3, <4>2 DEF CloseOrphans, CloseSessions
        <4> QED BY <2>3, <4>1, <4>3 DEF CloseOrphans, PendingOK
      <3>5. HandlerHoldsLease'
        <4>1. ASSUME NEW v \in Workers, handler[v].step \in Owning \cup {"launch"}
              PROVE  lease'[HandlerKey(v)] = lease[HandlerKey(v)]
          <5>1. HandlerKey(v) \in Keys /\ Valid(HandlerKey(v))
            BY <4>1, PendingKey, HeldIsValid DEF Held
          <5> QED BY <2>3, <5>1 DEF CloseOrphans, Purge, Expired
        <4>2. \A v \in Workers \ {w} : handler'[v] = handler[v]
          BY <2>3 DEF CloseOrphans
        <4> QED BY <2>3, <4>1, <4>2 DEF HandlerHoldsLease, HandlerHolds,
           CloseOrphans
      <3>6. VictimsOK'
        <4>1. \A v \in Workers :
                /\ Pending(v)' => Pending(v) /\ handler'[v].session = handler[v].session
                /\ handler'[v].victims \subseteq handler[v].victims
          BY <2>3, SMTT(30) DEF CloseOrphans
        <4>2. \A t \in Sessions : status'[t] \in {status[t], "interrupted"}
          BY <2>3 DEF CloseOrphans, CloseSessions
        <4> QED BY <2>3, <4>1, <4>2 DEF VictimsOK, CloseOrphans
      <3>7. UndoOK'
        BY <2>3 DEF CloseOrphans, UndoOK
      <3> QED
        BY <2>3, <3>1, <3>2, <3>3, <3>4, <3>5, <3>6, <3>7, Frames DEF CloseOrphans
    <2>4. CASE TakeOver(w)
      <3>1. OwnerHoldsLease'
        <4>1. CASE UNCHANGED lease
          BY <2>4, <4>1, Frames DEF TakeOver
        <4>2. CASE Replaceable(HandlerKey(w)) /\ Take(HandlerKey(w), w, None)
          <5>1. HandlerKey(w) \in Keys /\ ~Held(HandlerKey(w))
            BY <2>4, <4>2, PendingKey, HeldIsValid DEF TakeOver, Replaceable,
               Expired
          <5> QED BY <2>4, <4>2, <5>1, OwnerKept DEF TakeOver, Take, Held
        <4> QED BY <2>4, <4>1, <4>2 DEF TakeOver
      <3>2. PendingOK'
        <4>1. \A v \in Workers :
                \/ handler'[v] = handler[v]
                \/ ~Pending(v)' /\ handler'[v].victims = {}
          BY <2>4 DEF TakeOver
        <4> QED BY <2>4, <4>1, Quiet DEF TakeOver
      <3>3. HandlerHoldsLease'
        <4>1. \A v \in Workers \ {w} : handler'[v] = handler[v]
          BY <2>4 DEF TakeOver
        <4>2. age' = age
          BY <2>4 DEF TakeOver
        <4>3. CASE UNCHANGED lease
          <5>1. ASSUME NEW v \in Workers \ {w} PROVE HandlerHolds(v)'
            BY <4>1, <4>2, <4>3 DEF HandlerHoldsLease, HandlerHolds
          <5>2. HandlerHolds(w)'
            BY <2>4, <4>3, PendingKey DEF TakeOver, Take, Replaceable, Expired,
               HandlerHolds
          <5> QED BY <5>1, <5>2 DEF HandlerHoldsLease
        <4>4. CASE Replaceable(HandlerKey(w)) /\ Take(HandlerKey(w), w, None)
          <5>1. HandlerKey(w) \in Keys /\ ~Held(HandlerKey(w))
            BY <2>4, <4>4, PendingKey, HeldIsValid DEF TakeOver, Replaceable,
               Expired
          <5>2. \A k \in Keys \ {HandlerKey(w)} : lease'[k] = lease[k]
            BY <4>4 DEF Take
          <5>3. ASSUME NEW v \in Workers \ {w} PROVE HandlerHolds(v)'
            <6>1. handler[v].step \in Owning \cup {"launch"} => HandlerKey(v) # HandlerKey(w)
              BY <5>1 DEF Held
            <6> QED BY <4>1, <4>2, <5>2, <6>1, HandlerKept
          <5>4. HandlerHolds(w)'
            BY <2>4, <4>4, <5>1 DEF TakeOver, Take, HandlerHolds, HandlerHoldsLease
          <5> QED BY <5>3, <5>4 DEF HandlerHoldsLease
        <4> QED BY <2>4, <4>3, <4>4 DEF TakeOver
      <3>4. VictimsOK'
        <4>1. \A v \in Workers :
                \/ handler'[v] = handler[v]
                \/ ~Pending(v)' /\ handler'[v].victims = {}
          BY <2>4 DEF TakeOver
        <4> QED BY <2>4, <4>1, Quiet DEF TakeOver
      <3>5. UndoOK'
        BY <2>4 DEF TakeOver, UndoOK
      <3> QED
        BY <2>4, <3>1, <3>2, <3>3, <3>4, <3>5, Frames DEF TakeOver
    <2>5. CASE Sweep(w)
      <3>1. PendingOK'
        BY <2>5 DEF Sweep, Scanned, PendingOK
      <3>2. HandlerHoldsLease'
        BY <2>5 DEF Sweep, Scanned, HandlerHoldsLease, HandlerHolds
      <3>3. VictimsOK'
        BY <2>5, SweptFree DEF Sweep, Scanned, VictimsOK
      <3>4. UndoOK'
        BY <2>5 DEF Sweep, Scanned, UndoOK
      <3> QED
        BY <2>5, <3>1, <3>2, <3>3, <3>4, Frames DEF Sweep
    <2>6. CASE InsertSession(w)
      <3>1. RowsOK'
        BY <2>6 DEF InsertSession, RowsOK, OwnerHoldsLease, MonitoredIsLive,
           PendingOK, HandlerHoldsLease, HandlerHolds, VictimsOK, UndoOK
      <3>2. OwnerHoldsLease'
        BY <2>6 DEF InsertSession, OwnerHoldsLease, RowsOK, MonitoredIsLive,
           PendingOK, HandlerHoldsLease, HandlerHolds, VictimsOK, UndoOK
      <3>3. MonitoredIsLive'
        BY <2>6 DEF InsertSession, MonitoredIsLive
      <3>4. PendingOK'
        BY <2>6 DEF InsertSession, PendingOK, RowsOK, OwnerHoldsLease,
           MonitoredIsLive, HandlerHoldsLease, HandlerHolds, VictimsOK, UndoOK
      <3>5. HandlerHoldsLease'
        BY <2>6 DEF InsertSession, HandlerHoldsLease, HandlerHolds, RowsOK,
           OwnerHoldsLease, MonitoredIsLive, PendingOK, VictimsOK, UndoOK
      <3>6. VictimsOK'
        BY <2>6 DEF InsertSession, VictimsOK
      <3>7. UndoOK'
        BY <2>6 DEF InsertSession, UndoOK, RowsOK, OwnerHoldsLease,
           MonitoredIsLive, PendingOK, HandlerHoldsLease, HandlerHolds, VictimsOK
      <3> QED
        BY <2>6, <3>1, <3>2, <3>3, <3>4, <3>5, <3>6, <3>7, Frames DEF InsertSession
    <2>7. CASE AttachSession(w)
      <3>1. OwnerHoldsLease'
        BY <2>7 DEF AttachSession, Attach, OwnerHoldsLease, RowsOK,
           MonitoredIsLive, PendingOK, HandlerHoldsLease, HandlerHolds, VictimsOK,
           UndoOK
      <3>2. PendingOK'
        BY <2>7 DEF AttachSession, Attach, PendingOK
      <3>3. HandlerHoldsLease'
        <4>1. ASSUME NEW v \in Workers PROVE HandlerHolds(v)'
          <5>1. CASE v = w
            BY <2>7, <5>1 DEF AttachSession, Attach, HandlerHoldsLease, HandlerHolds
          <5>2. CASE v # w
            BY <2>7, <5>2 DEF AttachSession, Attach, HandlerHoldsLease, HandlerHolds
          <5> QED BY <5>1, <5>2
        <4> QED BY <4>1 DEF HandlerHoldsLease
      <3>4. VictimsOK'
        BY <2>7 DEF AttachSession, Attach, VictimsOK
      <3>5. UndoOK'
        BY <2>7 DEF AttachSession, Attach, UndoOK
      <3> QED
        BY <2>7, <3>1, <3>2, <3>3, <3>4, <3>5, Frames DEF AttachSession
    <2>8. CASE Launch(w)
      <3>1. RowsOK'
        BY <2>8 DEF Launch, RowsOK, OwnerHoldsLease, MonitoredIsLive, PendingOK,
           HandlerHoldsLease, HandlerHolds, VictimsOK, UndoOK
      <3>2. OwnerHoldsLease'
        BY <2>8 DEF Launch, OwnerHoldsLease, RowsOK, MonitoredIsLive, PendingOK,
           HandlerHoldsLease, HandlerHolds, VictimsOK, UndoOK
      <3>3. MonitoredIsLive'
        BY <2>8 DEF Launch, MonitoredIsLive, RowsOK, OwnerHoldsLease, PendingOK,
           HandlerHoldsLease, HandlerHolds, VictimsOK, UndoOK
      <3>4. PendingOK'
        BY <2>8 DEF Launch, PendingOK
      <3>5. HandlerHoldsLease'
        BY <2>8 DEF Launch, HandlerHoldsLease, HandlerHolds
      <3>6. VictimsOK'
        BY <2>8 DEF Launch, VictimsOK
      <3>7. UndoOK'
        BY <2>8 DEF Launch, UndoOK
      <3> QED
        BY <2>8, <3>1, <3>2, <3>3, <3>4, <3>5, <3>6, <3>7, Frames DEF Launch
    <2>9. CASE StartRaises(w)
      <3>1. PendingOK'
        BY <2>9 DEF StartRaises, PendingOK
      <3>2. HandlerHoldsLease'
        BY <2>9 DEF StartRaises, HandlerHoldsLease, HandlerHolds
      <3>3. VictimsOK'
        BY <2>9 DEF StartRaises, VictimsOK
      <3>4. UndoOK'
        BY <2>9 DEF StartRaises, UndoOK, RowsOK, OwnerHoldsLease, MonitoredIsLive,
           PendingOK, HandlerHoldsLease, HandlerHolds, VictimsOK
      <3> QED
        BY <2>9, <3>1, <3>2, <3>3, <3>4, Frames DEF StartRaises
    <2>10. CASE Undo(w)
      <3>1. OwnerHoldsLease'
        <4>1. CASE UNCHANGED lease
          BY <2>10, <4>1, Frames DEF Undo
        <4>2. CASE OwnedBy(HandlerKey(w), w) /\ Release(HandlerKey(w), w)
          <5>1. \A s \in Sessions : run[s] \in Active => Key(s) # HandlerKey(w)
            BY <2>10, <4>2 DEF Undo, UndoOK, OwnerHoldsLease
          <5>2. \A k \in Keys \ {HandlerKey(w)} : lease'[k] = lease[k]
            BY <4>2 DEF Release
          <5>3. UNCHANGED <<run, runner, channel>>
            BY <2>10 DEF Undo
          <5> QED BY <5>1, <5>2, <5>3, OwnerKept
        <4> QED BY <2>10, <4>1, <4>2 DEF Undo, Release
      <3>2. PendingOK'
        BY <2>10 DEF Undo, Release, PendingOK
      <3>3. HandlerHoldsLease'
        <4>1. \A v \in Workers \ {w} : handler'[v] = handler[v]
          BY <2>10 DEF Undo
        <4>2. age' = age
          BY <2>10 DEF Undo
        <4>3. CASE UNCHANGED lease
          BY <2>10, <4>1, <4>3 DEF Undo, HandlerHoldsLease, HandlerHolds
        <4>4. CASE OwnedBy(HandlerKey(w), w) /\ Release(HandlerKey(w), w)
          <5>1. \A k \in Keys \ {HandlerKey(w)} : lease'[k] = lease[k]
            BY <4>4 DEF Release
          <5>2. ASSUME NEW v \in Workers \ {w} PROVE HandlerHolds(v)'
            <6>1. handler[v].step \in Owning \cup {"launch"} => HandlerKey(v) # HandlerKey(w)
              BY <4>4 DEF HandlerHoldsLease, HandlerHolds
            <6> QED BY <4>1, <4>2, <5>1, <6>1, HandlerKept
          <5>3. HandlerHolds(w)'
            BY <2>10 DEF Undo, HandlerHolds
          <5> QED BY <5>2, <5>3 DEF HandlerHoldsLease
        <4> QED BY <2>10, <4>3, <4>4 DEF Undo, Release
      <3>4. VictimsOK'
        BY <2>10 DEF Undo, Release, VictimsOK
      <3>5. UndoOK'
        BY <2>10 DEF Undo, Release, UndoOK
      <3> QED
        BY <2>10, <3>1, <3>2, <3>3, <3>4, <3>5, Frames DEF Undo
    <2>11. CASE StartReplay(w)
      <3>1. RowsOK'
        BY <2>11 DEF StartReplay, RowsOK
      <3>2. MonitoredIsLive'
        BY <2>11 DEF StartReplay, MonitoredIsLive
      <3>3. PendingOK'
        BY <2>11 DEF StartReplay, PendingOK, RowsOK, OwnerHoldsLease,
           MonitoredIsLive, HandlerHoldsLease, HandlerHolds, VictimsOK, UndoOK
      <3>4. HandlerHoldsLease'
        BY <2>11 DEF StartReplay, HandlerHoldsLease, HandlerHolds
      <3>5. VictimsOK'
        BY <2>11 DEF StartReplay, VictimsOK
      <3>6. UndoOK'
        BY <2>11 DEF StartReplay, UndoOK
      <3> QED
        BY <2>11, <3>1, <3>2, <3>3, <3>4, <3>5, <3>6, Frames DEF StartReplay
    <2>12. CASE AcquireReplay(w)
      <3>1. OwnerHoldsLease'
        <4>1. CASE UNCHANGED lease
          BY <2>12, <4>1, Frames DEF AcquireReplay
        <4>2. CASE Take(HandlerKey(w), w, handler[w].session)
          <5>1. \A s \in Sessions : run[s] \in Active => Key(s) # HandlerKey(w)
            BY <2>12 DEF AcquireReplay, PendingOK, RowsOK
          <5>2. \A k \in Keys \ {HandlerKey(w)} : lease'[k] = lease[k]
            BY <4>2 DEF Take
          <5>3. UNCHANGED <<run, runner, channel>>
            BY <2>12 DEF AcquireReplay
          <5> QED BY <5>1, <5>2, <5>3, OwnerKept
        <4> QED BY <2>12, <4>1, <4>2 DEF AcquireReplay
      <3>2. PendingOK'
        <4>1. \A v \in Workers \ {w} : handler'[v] = handler[v]
          BY <2>12 DEF AcquireReplay
        <4>2. \/ ~Pending(w)'
              \/ At(w, "launch")' /\ handler'[w].session = handler[w].session
          BY <2>12 DEF AcquireReplay
        <4>3. At(w, "acquire") /\ UNCHANGED <<status, run, age, channel>>
          BY <2>12 DEF AcquireReplay
        <4>4. \A v \in Workers :
                Pending(v)' => Pending(v) /\ handler'[v].session = handler[v].session
          BY <4>1, <4>2, <4>3
        <4>5. ASSUME NEW v \in Workers, Pending(v)'
              PROVE  LET s == handler'[v].session IN
                     /\ s \in Sessions /\ status'[s] = "live" /\ run'[s] = "none"
                     /\ At(v, "acquire")' => s \in ReplaySessions /\ age'[s] < TTL
                     /\ At(v, "attach")' => s \in LiveSessions
                     /\ s \in LiveSessions => channel'[s] = handler'[v].channel
          <5>1. CASE v = w
            BY <4>2, <4>3, <4>5, <5>1 DEF PendingOK, LiveSessions
          <5>2. CASE v # w
            BY <4>1, <4>3, <4>5, <5>2 DEF PendingOK
          <5> QED BY <5>1, <5>2
        <4>6. \A u, v \in Workers :
                u # v /\ Pending(u)' /\ Pending(v)' => handler'[v].session # handler'[u].session
          BY <4>4 DEF PendingOK
        <4> QED BY <4>5, <4>6 DEF PendingOK
      <3>3. HandlerHoldsLease'
        <4>1. \A v \in Workers \ {w} : handler'[v] = handler[v]
          BY <2>12 DEF AcquireReplay
        <4>2. \A k \in Keys \ {HandlerKey(w)} : lease'[k] = lease[k]
          BY <2>12 DEF AcquireReplay, Take
        <4>3. At(w, "acquire") /\ age' = age
          BY <2>12 DEF AcquireReplay
        <4>4. ASSUME NEW v \in Workers \ {w} PROVE HandlerHolds(v)'
          <5>1. handler[v].step \in Owning \cup {"launch"} => HandlerKey(v) # HandlerKey(w)
            BY <4>3 DEF PendingOK, HandlerHoldsLease, HandlerHolds
          <5> QED BY <4>1, <4>2, <4>3, <5>1, HandlerKept
        <4>5. HandlerHolds(w)'
          <5>1. CASE handler'[w].step = "idle"
            BY <5>1 DEF HandlerHolds
          <5>2. CASE At(w, "launch")'
            <6>1. Take(HandlerKey(w), w, handler[w].session) /\ HandlerKey(w) \in Keys
              BY <2>12, <5>2, PendingKey DEF AcquireReplay
            <6>2. lease'[HandlerKey(w)] = Row(w, handler[w].session, TTL, FALSE)
              BY <6>1 DEF Take
            <6>3. HandlerKey(w)' = HandlerKey(w) /\ handler'[w].session = handler[w].session
              BY <2>12, <5>2 DEF AcquireReplay
            <6> QED BY <5>2, <6>2, <6>3 DEF HandlerHolds
          <5> QED BY <2>12, <5>1, <5>2 DEF AcquireReplay
        <4> QED BY <4>4, <4>5 DEF HandlerHoldsLease
      <3>4. VictimsOK'
        <4>1. UNCHANGED <<status, run>>
          BY <2>12 DEF AcquireReplay
        <4>2. \A v \in Workers : handler'[v].victims \subseteq handler[v].victims
          BY <2>12 DEF AcquireReplay
        <4>3. \A v \in Workers :
                Pending(v)' => Pending(v) /\ handler'[v].session = handler[v].session
          BY <2>12 DEF AcquireReplay
        <4> QED BY <4>1, <4>2, <4>3 DEF VictimsOK
      <3>5. UndoOK'
        BY <2>12 DEF AcquireReplay, Take, UndoOK
      <3> QED
        BY <2>12, <3>1, <3>2, <3>3, <3>4, <3>5, Frames DEF AcquireReplay
    <2>13. CASE RecordStop(w)
      <3>1. OwnerHoldsLease'
        BY <2>13 DEF RecordStop, RequestStop, OwnerHoldsLease
      <3>2. PendingOK'
        BY <2>13 DEF RecordStop, RequestStop, PendingOK
      <3>3. HandlerHoldsLease'
        BY <2>13 DEF RecordStop, RequestStop, HandlerHoldsLease, HandlerHolds
      <3>4. VictimsOK'
        BY <2>13 DEF RecordStop, RequestStop, VictimsOK
      <3>5. UndoOK'
        BY <2>13 DEF RecordStop, RequestStop, UndoOK
      <3> QED
        BY <2>13, <3>1, <3>2, <3>3, <3>4, <3>5, Frames DEF RecordStop
    <2>14. CASE Shutdown(w) \/ Exit(w)
      <3> QED
        BY <2>14, Frames DEF Shutdown, Exit
    <2>15. CASE Crash(w)
      <3>1. RowsOK'
        BY <2>15 DEF Crash, RowsOK
      <3>2. OwnerHoldsLease'
        BY <2>15 DEF Crash, OwnerHoldsLease
      <3>3. MonitoredIsLive'
        BY <2>15 DEF Crash, MonitoredIsLive
      <3>4. PendingOK'
        BY <2>15 DEF Crash, PendingOK
      <3>5. HandlerHoldsLease'
        BY <2>15 DEF Crash, HandlerHoldsLease, HandlerHolds
      <3>6. VictimsOK'
        BY <2>15 DEF Crash, VictimsOK
      <3>7. UndoOK'
        BY <2>15 DEF Crash, UndoOK
      <3> QED
        BY <2>15, <3>1, <3>2, <3>3, <3>4, <3>5, <3>6, <3>7, Frames DEF Crash
    <2>16. ASSUME NEW c \in Channels, StartLive(w, c)
           PROVE  IInv'
      <3>1. OwnerHoldsLease'
        <4>1. CASE UNCHANGED lease
          BY <2>16, <4>1, Frames DEF StartLive
        <4>2. CASE Insertable(LiveKey(c)) /\ Take(LiveKey(c), w, None)
          <5>1. LiveKey(c) \in Keys /\ ~Held(LiveKey(c))
            BY <2>16, <4>2, PendingKey, HeldIsValid DEF StartLive, Insertable,
               Expired
          <5> QED BY <2>16, <4>2, <5>1, OwnerKept DEF StartLive, Take, Held
        <4> QED BY <2>16, <4>1, <4>2 DEF StartLive
      <3>2. PendingOK'
        <4>1. \A v \in Workers :
                \/ handler'[v] = handler[v]
                \/ ~Pending(v)' /\ handler'[v].victims = {}
          BY <2>16 DEF StartLive
        <4> QED BY <2>16, <4>1, Quiet DEF StartLive
      <3>3. HandlerHoldsLease'
        <4>1. \A v \in Workers \ {w} : handler'[v] = handler[v]
          BY <2>16 DEF StartLive
        <4>2. age' = age
          BY <2>16 DEF StartLive
        <4>3. CASE UNCHANGED lease
          <5>1. ASSUME NEW v \in Workers \ {w} PROVE HandlerHolds(v)'
            BY <4>1, <4>2, <4>3 DEF HandlerHoldsLease, HandlerHolds
          <5>2. HandlerHolds(w)'
            BY <2>16, <4>3, PendingKey DEF StartLive, Take, Insertable, Expired,
               HandlerHolds
          <5> QED BY <5>1, <5>2 DEF HandlerHoldsLease
        <4>4. CASE Insertable(LiveKey(c)) /\ Take(LiveKey(c), w, None)
          <5>1. LiveKey(c) \in Keys /\ ~Held(LiveKey(c))
            BY <2>16, <4>4, PendingKey, HeldIsValid DEF StartLive, Insertable,
               Expired
          <5>2. \A k \in Keys \ {LiveKey(c)} : lease'[k] = lease[k]
            BY <4>4 DEF Take
          <5>3. ASSUME NEW v \in Workers \ {w} PROVE HandlerHolds(v)'
            <6>1. handler[v].step \in Owning \cup {"launch"} => HandlerKey(v) # LiveKey(c)
              BY <5>1 DEF Held
            <6> QED BY <4>1, <4>2, <5>2, <6>1, HandlerKept
          <5>4. HandlerHolds(w)'
            BY <2>16, <4>4, <5>1 DEF StartLive, Take, HandlerHolds,
               HandlerHoldsLease
          <5> QED BY <5>3, <5>4 DEF HandlerHoldsLease
        <4> QED BY <2>16, <4>3, <4>4 DEF StartLive
      <3>4. VictimsOK'
        <4>1. \A v \in Workers :
                \/ handler'[v] = handler[v]
                \/ ~Pending(v)' /\ handler'[v].victims = {}
          BY <2>16 DEF StartLive
        <4> QED BY <2>16, <4>1, Quiet DEF StartLive
      <3>5. UndoOK'
        BY <2>16 DEF StartLive, UndoOK
      <3> QED
        BY <2>16, <3>1, <3>2, <3>3, <3>4, <3>5, Frames DEF StartLive
    <2>17. ASSUME NEW c \in Channels, StopMonitor(w, c)
           PROVE  IInv'
      <3>1. RowsOK'
        BY <2>17 DEF StopMonitor, Cancel, AfterCancel, RowsOK
      <3>2. OwnerHoldsLease'
        BY <2>17 DEF StopMonitor, Cancel, AfterCancel, OwnerHoldsLease
      <3>3. MonitoredIsLive'
        BY <2>17 DEF StopMonitor, Cancel, AfterCancel, MonitoredIsLive
      <3>4. PendingOK'
        BY <2>17 DEF StopMonitor, Cancel, AfterCancel, PendingOK
      <3>5. HandlerHoldsLease'
        BY <2>17 DEF StopMonitor, Cancel, AfterCancel, HandlerHoldsLease,
           HandlerHolds
      <3>6. VictimsOK'
        <4>1. \A t \in Sessions : run'[t] \in Monitoring => run[t] \in Monitoring
          BY <2>17 DEF StopMonitor, Cancel, AfterCancel
        <4>2. \A v \in Workers :
                \/ handler'[v] = handler[v]
                \/ ~Pending(v)' /\ handler'[v].victims = {}
          BY <2>17 DEF StopMonitor
        <4> QED BY <2>17, <4>1, <4>2 DEF VictimsOK, StopMonitor
      <3>7. UndoOK'
        BY <2>17 DEF StopMonitor, Cancel, AfterCancel, UndoOK
      <3> QED
        BY <2>17, <3>1, <3>2, <3>3, <3>4, <3>5, <3>6, <3>7, Frames DEF StopMonitor
    <2>18. ASSUME NEW s \in Sessions, ShutdownStop(w, s)
           PROVE  IInv'
      <3>1. RowsOK'
        BY <2>18 DEF ShutdownStop, Cancel, AfterCancel, RowsOK
      <3>2. OwnerHoldsLease'
        BY <2>18 DEF ShutdownStop, Cancel, AfterCancel, OwnerHoldsLease
      <3>3. MonitoredIsLive'
        BY <2>18 DEF ShutdownStop, Cancel, AfterCancel, MonitoredIsLive
      <3>4. PendingOK'
        BY <2>18 DEF ShutdownStop, Cancel, AfterCancel, PendingOK
      <3>5. VictimsOK'
        BY <2>18 DEF ShutdownStop, Cancel, AfterCancel, VictimsOK
      <3>6. UndoOK'
        BY <2>18 DEF ShutdownStop, Cancel, AfterCancel, UndoOK
      <3> QED
        BY <2>18, <3>1, <3>2, <3>3, <3>4, <3>5, <3>6, Frames DEF ShutdownStop
    <2> QED
      BY <1>1, <2>1, <2>2, <2>3, <2>4, <2>5, <2>6, <2>7, <2>8, <2>9, <2>10, <2>11,
         <2>12, <2>13, <2>14, <2>15, <2>16, <2>17, <2>18 DEF WorkerStep, HandlerStep
  <1>2. ASSUME NEW s \in Sessions, TaskStep(s) \/ StreamEnds(s) \/ Beat(s)
        PROVE  IInv'
    <2>1. CASE Enter(s)
      <3>1. RowsOK'
        BY <2>1 DEF Enter, RowsOK
      <3>2. OwnerHoldsLease'
        BY <2>1 DEF Enter, OwnerHoldsLease
      <3>3. MonitoredIsLive'
        BY <2>1 DEF Enter, MonitoredIsLive
      <3>4. PendingOK'
        BY <2>1 DEF Enter, PendingOK
      <3>5. VictimsOK'
        BY <2>1 DEF Enter, VictimsOK
      <3>6. UndoOK'
        BY <2>1 DEF Enter, UndoOK
      <3> QED
        BY <2>1, <3>1, <3>2, <3>3, <3>4, <3>5, <3>6, Frames DEF Enter
    <2>2. CASE Setup(s)
      <3>1. RowsOK'
        BY <2>2 DEF Setup, RowsOK
      <3>2. OwnerHoldsLease'
        BY <2>2 DEF Setup, OwnerHoldsLease
      <3>3. MonitoredIsLive'
        BY <2>2 DEF Setup, MonitoredIsLive
      <3>4. PendingOK'
        BY <2>2 DEF Setup, PendingOK
      <3>5. VictimsOK'
        BY <2>2 DEF Setup, VictimsOK
      <3>6. UndoOK'
        BY <2>2 DEF Setup, UndoOK
      <3> QED
        BY <2>2, <3>1, <3>2, <3>3, <3>4, <3>5, <3>6, Frames DEF Setup
    <2>3. CASE StreamEnds(s)
      <3>1. RowsOK'
        BY <2>3 DEF StreamEnds, Finalize, RowsOK
      <3>2. OwnerHoldsLease'
        BY <2>3 DEF StreamEnds, Finalize, OwnerHoldsLease
      <3>3. MonitoredIsLive'
        BY <2>3 DEF StreamEnds, Finalize, MonitoredIsLive
      <3>4. PendingOK'
        BY <2>3 DEF StreamEnds, Finalize, PendingOK
      <3>5. VictimsOK'
        BY <2>3 DEF StreamEnds, Finalize, VictimsOK
      <3>6. UndoOK'
        BY <2>3 DEF StreamEnds, Finalize, UndoOK
      <3> QED
        BY <2>3, <3>1, <3>2, <3>3, <3>4, <3>5, <3>6, Frames DEF StreamEnds
    <2>4. CASE Cancelled(s)
      <3>1. RowsOK'
        BY <2>4 DEF Cancelled, Finalize, RowsOK
      <3>2. OwnerHoldsLease'
        BY <2>4 DEF Cancelled, Finalize, OwnerHoldsLease
      <3>3. MonitoredIsLive'
        BY <2>4 DEF Cancelled, Finalize, MonitoredIsLive
      <3>4. PendingOK'
        BY <2>4 DEF Cancelled, Finalize, PendingOK
      <3>5. VictimsOK'
        BY <2>4 DEF Cancelled, Finalize, VictimsOK
      <3>6. UndoOK'
        BY <2>4 DEF Cancelled, Finalize, UndoOK
      <3> QED
        BY <2>4, <3>1, <3>2, <3>3, <3>4, <3>5, <3>6, Frames DEF Cancelled
    <2>5. CASE Beat(s)
      <3>1. RowsOK'
        BY <2>5 DEF Beat, Renew, MustStop, TurnOf, LoopFree, RowsOK
      <3>2. OwnerHoldsLease'
        BY <2>5 DEF Beat, Renew, MustStop, TurnOf, LoopFree, OwnerHoldsLease
      <3>3. MonitoredIsLive'
        BY <2>5 DEF Beat, Renew, MustStop, TurnOf, LoopFree, MonitoredIsLive
      <3>4. PendingOK'
        BY <2>5 DEF Beat, Renew, MustStop, TurnOf, LoopFree, PendingOK
      <3>5. HandlerHoldsLease'
        BY <2>5 DEF Beat, Renew, MustStop, TurnOf, LoopFree, HandlerHoldsLease,
           HandlerHolds
      <3>6. VictimsOK'
        BY <2>5 DEF Beat, Renew, MustStop, TurnOf, LoopFree, VictimsOK
      <3>7. UndoOK'
        BY <2>5 DEF Beat, Renew, MustStop, TurnOf, LoopFree, UndoOK
      <3> QED
        BY <2>5, <3>1, <3>2, <3>3, <3>4, <3>5, <3>6, <3>7, Frames DEF Beat
    <2>6. CASE Finish(s)
      <3>1. RowsOK'
        BY <2>6 DEF Finish, Release, TurnOf, LoopFree, RowsOK
      <3>2. OwnerHoldsLease'
        <4> SUFFICES ASSUME NEW t \in Sessions, run'[t] \in Active
                     PROVE  (/\ OwnedBy(Key(t), runner[t])
                             /\ Valid(Key(t))
                             /\ lease[Key(t)].session = t)'
          BY DEF OwnerHoldsLease
        <4>1. t # s /\ run[t] \in Active /\ run[s] \in Active /\ Key(t)' = Key(t)
          BY <2>6 DEF Finish
        <4>2. Key(t) # Key(s) /\ Key(t) \in Keys
          BY <4>1, ActiveIsLeased DEF OwnerHoldsLease
        <4>3. lease'[Key(t)] = lease[Key(t)]
          BY <2>6, <4>2 DEF Finish, Release
        <4> QED BY <2>6, <4>1, <4>3 DEF Finish, OwnerHoldsLease
      <3>3. MonitoredIsLive'
        BY <2>6 DEF Finish, Release, TurnOf, LoopFree, MonitoredIsLive
      <3>4. PendingOK'
        BY <2>6 DEF Finish, Release, TurnOf, LoopFree, PendingOK
      <3>5. HandlerHoldsLease'
        BY <2>6 DEF Finish, Release, TurnOf, LoopFree, HandlerHoldsLease,
           HandlerHolds, RowsOK, OwnerHoldsLease, MonitoredIsLive, PendingOK,
           VictimsOK, UndoOK
      <3>6. VictimsOK'
        BY <2>6 DEF Finish, Release, TurnOf, LoopFree, VictimsOK
      <3>7. UndoOK'
        BY <2>6 DEF Finish, Release, TurnOf, LoopFree, UndoOK
      <3> QED
        BY <2>6, <3>1, <3>2, <3>3, <3>4, <3>5, <3>6, <3>7, Frames DEF Finish
    <2> QED
      BY <1>2, <2>1, <2>2, <2>3, <2>4, <2>5, <2>6 DEF TaskStep
  <1>3. CASE Tick
    <2>1. RowsOK'
      BY <1>3 DEF Tick, Age, TasksOnTime, HandlersOnTime, RowsOK
    <2>2. OwnerHoldsLease'
      BY <1>3 DEF Tick, Age, TasksOnTime, HandlersOnTime, OwnerHoldsLease, RowsOK,
         MonitoredIsLive, PendingOK, HandlerHoldsLease, HandlerHolds, VictimsOK,
         UndoOK
    <2>3. PendingOK'
      BY <1>3 DEF Tick, Age, TasksOnTime, HandlersOnTime, PendingOK
    <2>4. HandlerHoldsLease'
      BY <1>3 DEF Tick, Age, TasksOnTime, HandlersOnTime, HandlerHoldsLease,
         HandlerHolds, RowsOK, OwnerHoldsLease, MonitoredIsLive, PendingOK,
         VictimsOK, UndoOK
    <2> QED
      BY <1>3, <2>1, <2>2, <2>3, <2>4, Frames DEF Tick
  <1>4. CASE UNCHANGED vars
    BY <1>4, Frames DEF vars
  <1> QED BY <1>1, <1>2, <1>3, <1>4 DEF Next

-------------------------------------------------------------------------------
(* What follows when no worker that is up misses its lease                 *)

LEMMA Invariant ==
    ASSUME PromptTasks, PromptHandlers
    PROVE  Spec => []IInv
  <1>1. IInv /\ [Next]_vars => IInv'
    BY InvariantStep
  <1> QED BY InvariantInit, <1>1, PTL DEF Spec

\* A pipeline's lease stays valid, its worker's and its own until the task ends.
THEOREM LeaseOwnership ==
    ASSUME PromptTasks, PromptHandlers
    PROVE  Spec => []OwnerHoldsLease
  <1>1. IInv => OwnerHoldsLease
    BY DEF IInv
  <1> QED BY <1>1, Invariant, PTL

\* No two pipelines ever run for one channel, in one worker or in several.
THEOREM MutualExclusion ==
    ASSUME PromptTasks, PromptHandlers
    PROVE  Spec => []OneMonitorPerChannel
  <1>1. IInv => OneMonitorPerChannel
    BY DEF IInv, OwnerHoldsLease, OneMonitorPerChannel, Key, Active, LiveSessions
  <1> QED BY <1>1, Invariant, PTL

\* The promise of try_acquire's comment, which a late worker breaks, holds while
\* no worker that is up is late.
THEOREM NoDuplicatesWhenPrompt ==
    ASSUME PromptTasks, PromptHandlers
    PROVE  Spec => []NoDuplicateInProcess
  <1>1. OneMonitorPerChannel => NoDuplicateInProcess
    BY DEF OneMonitorPerChannel, NoDuplicateInProcess
  <1> QED BY <1>1, MutualExclusion, PTL

\* No reconciler and no sweep closes the session of a running pipeline.
THEOREM RunningSessionsStayLive ==
    ASSUME PromptTasks, PromptHandlers
    PROVE  Spec => []MonitoredIsLive
  <1>1. IInv => MonitoredIsLive
    BY DEF IInv
  <1> QED BY <1>1, Invariant, PTL

\* A victim is closed as it was found, or was closed as "interrupted" already;
\* run_session's finally writes only while its own pipeline is still monitoring.
LEMMA ClosedStep ==
    ASSUME IInv, [Next]_vars, NEW s \in Sessions, status[s] \in ClosedStatuses
    PROVE  status'[s] = status[s]
  <1> USE DEF IInv, TypeOK, ClosedStatuses
  <1>1. run[s] \notin Monitoring
    BY DEF MonitoredIsLive
  <1>2. CASE \E w \in Workers : CloseOrphans(w)
    BY <1>2 DEF CloseOrphans, CloseSessions, VictimsOK
  <1>3. CASE \E w \in Workers : InsertSession(w) \/ StartReplay(w)
    BY <1>3 DEF InsertSession, StartReplay
  <1>4. CASE \E t \in Sessions : StreamEnds(t) \/ Cancelled(t)
    <2>1. PICK t \in Sessions : StreamEnds(t) \/ Cancelled(t)
      BY <1>4
    <2>2. run[t] \in Monitoring
      BY <2>1 DEF StreamEnds, Cancelled, Monitoring
    <2> QED BY <1>1, <2>1, <2>2 DEF StreamEnds, Cancelled, Finalize
  <1>5. CASE UNCHANGED status
    BY <1>5
  <1>6. CASE \E w \in Workers : HandlerStep(w)
    BY <1>2, <1>3, <1>5, <1>6
       DEF HandlerStep, TakeOver, Sweep, StartRaises, AttachSession, Launch, Undo,
           AcquireReplay, RecordStop, db
  <1>7. CASE \E w \in Workers : WorkerStep(w)
    BY <1>3, <1>5, <1>6, <1>7
       DEF WorkerStep, Boot, ReconcileLoop, Shutdown, Exit, Crash, StartLive,
           StopMonitor, ShutdownStop, db
  <1>8. CASE \E t \in Sessions : TaskStep(t) \/ StreamEnds(t) \/ Beat(t)
    BY <1>4, <1>5, <1>8 DEF TaskStep, Enter, Setup, Finish, Beat, db
  <1>9. CASE Tick \/ UNCHANGED vars
    BY <1>5, <1>9 DEF Tick, vars
  <1> QED BY <1>7, <1>8, <1>9 DEF Next

\* A session's closing status is never written over, by anybody.
THEOREM ClosedForGood ==
    ASSUME PromptTasks, PromptHandlers
    PROVE  Spec => ClosedIsFinal
  <1>1. IInv /\ [Next]_vars =>
            [\A s \in Sessions : status[s] \in ClosedStatuses => status'[s] = status[s]]_vars
    BY ClosedStep
  <1> QED BY <1>1, Invariant, PTL DEF Spec, ClosedIsFinal

-------------------------------------------------------------------------------
(* Naming                                                                  *)

LEMMA NamingInit == Init => NamingInv
  <1> SUFFICES ASSUME Init PROVE NamingInv
    OBVIOUS
  <1> QED
    BY TypeInit, MonitorAssumption
       DEF MonitorAssumption, Init, NamingInv, RowsOK, StartsOK, NamedOK, Pending, At,
           Idle, Frame, NoRow, Row

\* The parts of the invariant that concern the sessions, not the handlers.
LEMMA NamingFrames ==
    ASSUME NamingInv
    PROVE  /\ UNCHANGED <<status, run, age, channel>> => RowsOK'
           /\ UNCHANGED <<handler, status, run, channel>> => StartsOK'
           /\ UNCHANGED <<handler, lease, status, run, runner, channel>> => NamedOK'
  BY DEF NamingInv, RowsOK, StartsOK, NamedOK, Pending, At, Key, OwnedBy

\* A transaction that writes no session into the table.
NoNewNames ==
    \A k \in Keys :
        \/ lease'[k].session \notin Sessions
        \/ lease'[k].session = lease[k].session /\ lease'[k].owner = lease[k].owner

\* Nobody is named that was not.
LEMMA NamesKept ==
    ASSUME NamingInv, UNCHANGED <<status, run, runner, channel>>,
           NoNewNames,
           \A w \in Workers : \/ handler'[w] = handler[w]
                              \/ ~Pending(w)'
    PROVE  NamedOK'
  BY DEF NamingInv, NamedOK, NoNewNames, Pending, At, Key, OwnedBy

\* Nor does a handler that moves to where it waits for no session.
LEMMA StartsKept ==
    ASSUME NamingInv, UNCHANGED <<status, run, channel>>,
           \A w \in Workers :
              \/ handler'[w] = handler[w]
              \/ /\ handler'[w].step \notin {"claimed", "swept", "insert", "takeover"}
                 /\ ~Pending(w)'
                 /\ \A s \in handler'[w].victims : status[s] # "none"
              \/ /\ handler'[w].step \in {"claimed", "swept", "insert", "takeover"}
                 /\ handler'[w].session = None /\ handler'[w].channel \in Channels
                 /\ \A s \in handler'[w].victims : status[s] # "none"
    PROVE  StartsOK'
  BY DEF NamingInv, StartsOK, Pending, At

LEMMA RowEffects ==
    ASSUME lease \in [Keys -> Rows], NEW k, NEW o, NEW stale,
           \/ Renew(k, o) \/ Release(k, o) \/ RequestStop(k) \/ Purge(stale) \/ Age
           \/ Take(k, o, None) \/ UNCHANGED lease
    PROVE  NoNewNames
  <1> USE MonitorAssumption DEF MonitorAssumption, NoNewNames, NoRow, Row, Rows
  <1>1. CASE Renew(k, o) \/ Release(k, o) \/ RequestStop(k)
    BY <1>1 DEF Renew, Release, RequestStop
  <1>2. CASE Purge(stale) \/ Age \/ Take(k, o, None) \/ UNCHANGED lease
    BY <1>2 DEF Purge, Age, Take
  <1> QED BY <1>1, <1>2

LEMMA NamingStep == NamingInv /\ [Next]_vars => NamingInv'
  <1> SUFFICES ASSUME NamingInv, [Next]_vars PROVE NamingInv'
    OBVIOUS
  <1> USE MonitorAssumption, KeyFacts
      DEF MonitorAssumption, TypeOK, db, tasks, LiveSessions, At, Go, Goto, Return, Become,
          Owning, Active, Monitoring, Key, HandlerKey, OwnedBy, Pending, Frame, Idle, Row,
          Rows, Handlers
  <1>t. TypeOK /\ TypeOK'
    BY TypeStep DEF NamingInv
  <1> USE <1>t DEF NamingInv
  <1>1. ASSUME NEW w \in Workers, WorkerStep(w)
        PROVE  NamingInv'
    <2>0. \A s \in Orphans : status[s] # "none"
      BY DEF Orphans, Uncovered
    <2>00. \A c : \A s \in ChannelOrphans(c) : status[s] # "none"
      BY DEF ChannelOrphans, Uncovered
    <2>1. CASE Boot(w) \/ ReconcileLoop(w) \/ Sweep(w)
      <3>1. StartsOK'
        BY <2>1, <2>0, <2>00, StartsKept DEF Boot, ReconcileLoop, Sweep, Scanned, StartsOK
      <3>2. NamedOK'
        <4>1. NoNewNames
          BY <2>1 DEF Boot, ReconcileLoop, Sweep, NoNewNames
        <4>2. \A v \in Workers : handler'[v] = handler[v] \/ ~Pending(v)'
          BY <2>1 DEF Boot, ReconcileLoop, Sweep, Scanned
        <4> QED BY <2>1, <4>1, <4>2, NamesKept DEF Boot, ReconcileLoop, Sweep
      <3> QED BY <2>1, <3>1, <3>2, NamingFrames DEF Boot, ReconcileLoop, Sweep
    <2>2. CASE CloseOrphans(w)
      <3>1. \A s \in Sessions : status'[s] \in {status[s], "interrupted"}
        BY <2>2 DEF CloseOrphans, CloseSessions
      <3>2. \A s \in Sessions : status'[s] = "none" <=> status[s] = "none"
        BY <2>2, <3>1 DEF CloseOrphans, CloseSessions, StartsOK
      <3>3. RowsOK'
        BY <2>2, <3>2 DEF CloseOrphans, RowsOK
      <3>4. StartsOK'
        <4>1. \A v \in Workers \ {w} : handler'[v] = handler[v]
          BY <2>2 DEF CloseOrphans
        <4>2. /\ ~Pending(w) /\ ~Pending(w)' /\ handler'[w].victims = {}
              /\ handler'[w].step \in {"idle", "insert"}
              /\ handler'[w].step = "insert" =>
                    /\ handler[w].step = "swept"
                    /\ handler'[w].session = handler[w].session
                    /\ handler'[w].channel = handler[w].channel
          BY <2>2 DEF CloseOrphans
        <4>3. \A v \in Workers : Pending(v)' => Pending(v) /\ handler'[v] = handler[v]
          BY <4>1, <4>2
        <4>4. \A v \in Workers :
                handler'[v].step \in {"claimed", "swept", "insert", "takeover"} =>
                    handler'[v].session = None /\ handler'[v].channel \in Channels
          <5>1. \A v \in Workers :
                  handler[v].step \in {"claimed", "swept", "insert", "takeover"} =>
                      handler[v].session = None /\ handler[v].channel \in Channels
            BY DEF StartsOK
          <5>2. ASSUME NEW v \in Workers, v # w
                PROVE  handler'[v].step \in {"claimed", "swept", "insert", "takeover"} =>
                           handler'[v].session = None /\ handler'[v].channel \in Channels
            BY <4>1, <5>1, <5>2
          <5>3. handler'[w].step \in {"claimed", "swept", "insert", "takeover"} =>
                    handler'[w].session = None /\ handler'[w].channel \in Channels
            BY <4>2, <5>1
          <5> QED BY <5>2, <5>3
        <4>5. \A v \in Workers : \A s \in handler'[v].victims : status'[s] # "none"
          <5>1. \A v \in Workers : handler[v].victims \subseteq Sessions
            BY <1>t
          <5>2. \A v \in Workers : \A s \in handler'[v].victims :
                   s \in handler[v].victims
            BY <4>1, <4>2
          <5>3. \A v \in Workers : \A s \in handler[v].victims : status[s] # "none"
            BY DEF StartsOK
          <5> QED BY <3>2, <5>1, <5>2, <5>3
        <4>6. UNCHANGED <<run, channel>>
          BY <2>2 DEF CloseOrphans
        <4>7. \A v \in Workers : Pending(v) => status'[handler[v].session] # "none"
          BY <3>2 DEF StartsOK
        <4> QED BY <4>3, <4>4, <4>5, <4>6, <4>7 DEF StartsOK
      <3>5. NamedOK'
        <4>1. NoNewNames
          BY <2>2, RowEffects DEF CloseOrphans
        <4>2. \A v \in Workers : Pending(v)' => handler'[v] = handler[v]
          BY <2>2 DEF CloseOrphans
        <4> QED BY <2>2, <3>2, <4>1, <4>2 DEF CloseOrphans, NamedOK, NoNewNames
      <3> QED BY <3>3, <3>4, <3>5
    <2>3. CASE TakeOver(w)
      <3>1. StartsOK'
        BY <2>3, StartsKept DEF TakeOver, StartsOK
      <3>2. NamedOK'
        <4>1. NoNewNames
          BY <2>3, RowEffects DEF TakeOver
        <4>2. \A v \in Workers : handler'[v] = handler[v] \/ ~Pending(v)'
          BY <2>3 DEF TakeOver
        <4> QED BY <2>3, <4>1, <4>2, NamesKept DEF TakeOver
      <3> QED BY <2>3, <3>1, <3>2, NamingFrames DEF TakeOver
    <2>5. CASE InsertSession(w)
      <3>1. PICK s \in LiveSessions :
              /\ status[s] = "none"
              /\ status' = [status EXCEPT ![s] = "live"]
              /\ channel' = [channel EXCEPT ![s] = handler[w].channel]
              /\ Go(w, Frame("attach", handler[w].channel, s))
        BY <2>5 DEF InsertSession
      <3>2. RowsOK'
        BY <2>5, <3>1 DEF InsertSession, RowsOK, StartsOK
      <3>3. StartsOK'
        BY <2>5, <3>1 DEF InsertSession, RowsOK, StartsOK
      <3>4. NamedOK'
        BY <2>5, <3>1, SMTT(30) DEF InsertSession, NamedOK
      <3> QED BY <3>2, <3>3, <3>4
    <2>6. CASE AttachSession(w)
      <3>1. StartsOK'
        BY <2>6 DEF AttachSession, StartsOK
      <3>2. NamedOK'
        BY <2>6 DEF AttachSession, Attach, NamedOK, StartsOK
      <3> QED BY <2>6, <3>1, <3>2, NamingFrames DEF AttachSession
    <2>7. CASE Launch(w)
      <3>1. RowsOK' 
        BY <2>7 DEF Launch, RowsOK, StartsOK
      <3>2. StartsOK'
        BY <2>7 DEF Launch, StartsOK
      <3>3. NamedOK'
        BY <2>7 DEF Launch, NamedOK, StartsOK
      <3> QED BY <2>7, <3>1, <3>2, <3>3
    <2>8. CASE StartRaises(w)
      <3>1. StartsOK'
        BY <2>8, StartsKept DEF StartRaises
      <3>2. NamedOK'
        <4>1. NoNewNames
          BY <2>8 DEF StartRaises, NoNewNames
        <4>2. \A v \in Workers : handler'[v] = handler[v] \/ ~Pending(v)'
          BY <2>8 DEF StartRaises
        <4> QED BY <2>8, <4>1, <4>2, NamesKept DEF StartRaises
      <3> QED BY <2>8, <3>1, <3>2, NamingFrames DEF StartRaises
    <2>9. CASE Undo(w) \/ RecordStop(w)
      <3>1. StartsOK'
        BY <2>9, StartsKept DEF Undo, RecordStop
      <3>2. NamedOK'
        <4>1. NoNewNames
          BY <2>9, RowEffects DEF Undo, RecordStop
        <4>2. \A v \in Workers : handler'[v] = handler[v] \/ ~Pending(v)'
          BY <2>9 DEF Undo, RecordStop
        <4> QED BY <2>9, <4>1, <4>2, NamesKept DEF Undo, RecordStop
      <3> QED BY <2>9, <3>1, <3>2, NamingFrames DEF Undo, RecordStop
    <2>10. CASE StartReplay(w)
      <3>1. PICK s \in ReplaySessions :
              /\ status[s] = "none"
              /\ status' = [status EXCEPT ![s] = "live"]
              /\ Go(w, Frame("acquire", None, s))
        BY <2>10 DEF StartReplay
      <3>2. RowsOK'
        BY <2>10, <3>1 DEF StartReplay, RowsOK
      <3>3. StartsOK'
        BY <2>10, <3>1 DEF StartReplay, RowsOK, StartsOK
      <3>4. NamedOK'
        BY <2>10, <3>1 DEF StartReplay, NamedOK
      <3> QED BY <3>2, <3>3, <3>4
    <2>11. CASE AcquireReplay(w)
      <3>1. StartsOK'
        <4>1. \A v \in Workers \ {w} : handler'[v] = handler[v]
          BY <2>11 DEF AcquireReplay
        <4>2. /\ handler'[w].victims = {}
              /\ \/ handler'[w].step = "idle"
                 \/ /\ handler'[w].step = "launch"
                    /\ handler'[w].session = handler[w].session
                    /\ handler'[w].channel = handler[w].channel
          BY <2>11 DEF AcquireReplay
        <4>3. UNCHANGED <<status, channel, run>>
          BY <2>11 DEF AcquireReplay
        <4>4. \A v \in Workers : Pending(v)' => Pending(v)
                                               /\ handler'[v].session = handler[v].session
                                               /\ handler'[v].channel = handler[v].channel
          BY <2>11, <4>1, <4>2 DEF AcquireReplay
        <4> QED BY <2>11, <4>1, <4>2, <4>3, <4>4 DEF StartsOK
      <3>2. NamedOK'
        <4>1. UNCHANGED <<status, channel, run, runner>>
          BY <2>11 DEF AcquireReplay
        <4>2. CASE Return(w) /\ UNCHANGED lease
          <5>1. \A v \in Workers : handler'[v] = handler[v] \/ ~Pending(v)'
            BY <4>2
          <5> QED BY <4>1, <4>2, <5>1, NamesKept DEF NoNewNames
        <4>3. CASE Take(HandlerKey(w), w, handler[w].session) /\ Goto(w, "launch")
          <5>1. /\ handler[w].session \in ReplaySessions
                /\ status[handler[w].session] # "none" /\ run[handler[w].session] = "none"
                /\ \A v \in Workers \ {w} :
                      Pending(v) => handler[v].session # handler[w].session
            BY <2>11 DEF AcquireReplay, StartsOK
          <5> QED BY <2>11, <4>1, <4>3, <5>1 DEF AcquireReplay, Take, NamedOK
        <4> QED BY <2>11, <4>2, <4>3 DEF AcquireReplay
      <3> QED BY <2>11, <3>1, <3>2, NamingFrames DEF AcquireReplay
    <2>12. CASE Shutdown(w) \/ Exit(w)
      BY <2>12, NamingFrames DEF Shutdown, Exit
    <2>13. CASE Crash(w)
      <3>1. RowsOK'
        BY <2>13 DEF Crash, RowsOK
      <3>2. StartsOK'
        BY <2>13 DEF Crash, StartsOK
      <3>3. NamedOK'
        BY <2>13 DEF Crash, NamedOK
      <3> QED BY <3>1, <3>2, <3>3
    <2>14. ASSUME NEW c \in Channels, StartLive(w, c)
           PROVE  NamingInv'
      <3>1. StartsOK'
        BY <2>14, StartsKept DEF StartLive
      <3>2. NamedOK'
        <4>1. NoNewNames
          BY <2>14, RowEffects DEF StartLive
        <4>2. \A v \in Workers : handler'[v] = handler[v] \/ ~Pending(v)'
          BY <2>14 DEF StartLive
        <4> QED BY <2>14, <4>1, <4>2, NamesKept DEF StartLive
      <3> QED BY <2>14, <3>1, <3>2, NamingFrames DEF StartLive
    <2>15. ASSUME NEW s \in Sessions \cup {None}, Cancel(s, w)
           PROVE  \A t \in Sessions : /\ run'[t] = "none" <=> run[t] = "none"
                                      /\ run'[t] \in Active => run[t] \in Active
      BY <2>15 DEF Cancel, AfterCancel, RunStates
    <2>16. ASSUME NEW c \in Channels, StopMonitor(w, c)
           PROVE  NamingInv'
      <3>1. lease[LiveKey(c)].session \in Sessions \cup {None}
        OBVIOUS
      <3>2. \A t \in Sessions : /\ run'[t] = "none" <=> run[t] = "none"
                                /\ run'[t] \in Active => run[t] \in Active
        BY <2>15, <2>16, <3>1 DEF StopMonitor
      <3>3. RowsOK'
        BY <2>16, <3>2 DEF StopMonitor, RowsOK
      <3>4. StartsOK'
        BY <2>16, <3>2 DEF StopMonitor, StartsOK
      <3>5. NamedOK'
        <4>1. \A v \in Workers : handler'[v] = handler[v] \/ ~Pending(v)'
          BY <2>16 DEF StopMonitor
        <4> QED BY <2>16, <3>2, <4>1 DEF StopMonitor, NamedOK
      <3> QED BY <3>3, <3>4, <3>5
    <2>17. ASSUME NEW s \in Sessions, ShutdownStop(w, s)
           PROVE  NamingInv'
      <3>1. \A t \in Sessions : /\ run'[t] = "none" <=> run[t] = "none"
                                /\ run'[t] \in Active => run[t] \in Active
        BY <2>15, <2>17 DEF ShutdownStop
      <3>2. RowsOK'
        BY <2>17, <3>1 DEF ShutdownStop, RowsOK
      <3>3. StartsOK'
        BY <2>17, <3>1 DEF ShutdownStop, StartsOK
      <3>4. NamedOK'
        BY <2>17, <3>1 DEF ShutdownStop, NamedOK
      <3> QED BY <3>2, <3>3, <3>4
    <2> QED
      BY <1>1, <2>1, <2>2, <2>3, <2>5, <2>6, <2>7, <2>8, <2>9, <2>10, <2>11, <2>12,
         <2>13, <2>14, <2>16, <2>17 DEF WorkerStep, HandlerStep
  <1>2. ASSUME NEW s \in Sessions, TaskStep(s) \/ StreamEnds(s) \/ Beat(s)
        PROVE  NamingInv'
    <2>1. \A t \in Sessions : /\ run'[t] = "none" <=> run[t] = "none"
                              /\ run'[t] \in Active => run[t] \in Active
                              /\ status'[t] = "none" <=> status[t] = "none"
      BY <1>2 DEF TaskStep, Enter, Setup, Cancelled, Finish, StreamEnds, Beat, Finalize,
                  RowsOK
    <2>2. UNCHANGED <<channel, age, worker, handler, runner>>
      BY <1>2 DEF TaskStep, Enter, Setup, Cancelled, Finish, StreamEnds, Beat
    <2>3. NoNewNames
      BY <1>2, RowEffects DEF TaskStep, Enter, Setup, Cancelled, Finish, StreamEnds, Beat
    <2>4. RowsOK'
      BY <2>1, <2>2 DEF RowsOK
    <2>5. StartsOK'
      BY <2>1, <2>2 DEF StartsOK
    <2>6. NamedOK'
      BY <2>1, <2>2, <2>3 DEF NamedOK, NoNewNames
    <2> QED BY <2>4, <2>5, <2>6
  <1>3. CASE Tick
    <2>1. RowsOK'
      BY <1>3 DEF Tick, RowsOK
    <2>2. NamedOK'
      BY <1>3, NamesKept, RowEffects DEF Tick
    <2> QED BY <1>3, <2>1, <2>2, NamingFrames DEF Tick
  <1>4. CASE UNCHANGED vars
    BY <1>4, NamingFrames DEF vars
  <1> QED BY <1>1, <1>2, <1>3, <1>4 DEF Next

\* However late workers are and whatever fails, a running session that its key's
\* lease names is one that the lease's owner runs.
THEOREM LeasesNameTheirRunner == Spec => []LeaseNamesRunner
  <1>1. NamingInv /\ [Next]_vars => NamingInv'
    BY NamingStep
  <1>2. NamingInv => LeaseNamesRunner
    BY KeyFacts DEF NamingInv, NamedOK, LeaseNamesRunner, RowsOK, Key, LiveSessions, Active, Monitoring
  <1> QED BY NamingInit, <1>1, <1>2, PTL DEF Spec

-------------------------------------------------------------------------------
(* Nobody but its owner gives a valid lease up                             *)

\* The key of a replay has no row before start_replay takes it.
ReplayRowsNamed ==
    \A s \in ReplaySessions :
        Present(SessionKey(s)) => lease[SessionKey(s)].session = s

\* A start handler that still owns its lease has not attached a session to it.
Unattached ==
    \A w \in Workers :
        handler[w].step \in Owning /\ OwnedBy(HandlerKey(w), w) =>
            lease[HandlerKey(w)].session = None

KeptInv == NamingInv /\ ReplayRowsNamed /\ Unattached

\* A step that leaves the row as it is, or removes it; and one that may also
\* write it for w.
RowKept(k) ==
    \/ lease'[k].owner = None
    \/ lease'[k].owner = lease[k].owner /\ lease'[k].session = lease[k].session
RowKeptOrOwn(k, w) == RowKept(k) \/ lease'[k].owner = w

LEMMA TransactionsKeepRows ==
    ASSUME lease \in [Keys -> Rows], NEW k, NEW o, NEW stale,
           \/ Renew(k, o) \/ Release(k, o) \/ RequestStop(k) \/ Purge(stale) \/ Age
           \/ UNCHANGED lease
    PROVE  \A j \in Keys : RowKept(j)
  <1> USE DEF RowKept, NoRow, Row, Rows
  <1>1. CASE Renew(k, o) \/ Release(k, o) \/ RequestStop(k)
    BY <1>1 DEF Renew, Release, RequestStop
  <1>2. CASE Purge(stale) \/ Age \/ UNCHANGED lease
    BY <1>2 DEF Purge, Age
  <1> QED BY <1>1, <1>2

LEMMA TransactionsKeepOthers ==
    ASSUME lease \in [Keys -> Rows], NEW k, NEW w \in Workers, NEW s,
           Take(k, w, s) \/ Attach(k, w, s)
    PROVE  /\ \A j \in Keys : RowKeptOrOwn(j, w)
           /\ \A j \in Keys \ {k} : lease'[j] = lease[j]
  BY DEF RowKept, RowKeptOrOwn, Take, Attach, OwnedBy, Row, Rows

\* Where the lease of a worker that a handler step writes ends up.
LEMMA HandlersKeepRows ==
    ASSUME lease \in [Keys -> Rows], NEW w \in Workers, WorkerStep(w)
    PROVE  \A k \in Keys : RowKeptOrOwn(k, w)
  <1> USE TransactionsKeepRows, TransactionsKeepOthers DEF RowKeptOrOwn, db
  <1>1. CASE CloseOrphans(w) \/ Undo(w) \/ RecordStop(w)
    BY <1>1 DEF CloseOrphans, Undo, RecordStop
  <1>2. CASE TakeOver(w)
    BY <1>2 DEF TakeOver
  <1>3. CASE AttachSession(w)
    BY <1>3 DEF AttachSession
  <1>4. CASE AcquireReplay(w)
    BY <1>4 DEF AcquireReplay
  <1>5. ASSUME NEW c \in Channels, StartLive(w, c) \/ StopMonitor(w, c)
        PROVE  \A k \in Keys : RowKeptOrOwn(k, w)
    BY <1>5 DEF StartLive, StopMonitor
  <1>6. CASE \/ Boot(w) \/ ReconcileLoop(w) \/ StartReplay(w) \/ Sweep(w)
             \/ InsertSession(w) \/ StartRaises(w) \/ Launch(w)
             \/ Shutdown(w) \/ Exit(w) \/ Crash(w)
             \/ \E s \in Sessions : ShutdownStop(w, s)
    <2>1. UNCHANGED lease
      BY <1>6 DEF Boot, ReconcileLoop, StartReplay, Sweep, InsertSession, StartRaises,
                  Launch, Shutdown, Exit, Crash, ShutdownStop
    <2> QED BY <2>1
  <1> QED
    BY <1>1, <1>2, <1>3, <1>4, <1>5, <1>6 DEF WorkerStep, HandlerStep

\* A handler step is one worker's, and the tasks and the clock move no handler.
LEMMA OneHandler ==
    ASSUME TypeOK, NEW w \in Workers, WorkerStep(w)
    PROVE  \A v \in Workers \ {w} : handler'[v] = handler[v]
  BY DEF TypeOK, WorkerStep, HandlerStep, Go, Goto, Return, tasks,
         Boot, ReconcileLoop, StartReplay, CloseOrphans, TakeOver, Sweep, InsertSession,
         StartRaises, AttachSession, Launch, Undo, AcquireReplay, RecordStop, Shutdown,
         Exit, Crash, StartLive, StopMonitor, ShutdownStop

LEMMA TasksKeepRows ==
    ASSUME TypeOK,
           \/ \E s \in Sessions : TaskStep(s) \/ StreamEnds(s) \/ Beat(s)
           \/ Tick \/ UNCHANGED vars
    PROVE  UNCHANGED handler /\ \A k \in Keys : RowKept(k)
  <1> USE TransactionsKeepRows DEF TypeOK, db
  <1>1. CASE Tick \/ UNCHANGED vars
    BY <1>1 DEF Tick, vars
  <1>2. ASSUME NEW s \in Sessions, TaskStep(s) \/ StreamEnds(s) \/ Beat(s)
        PROVE  UNCHANGED handler /\ \A k \in Keys : RowKept(k)
    BY <1>2 DEF TaskStep, Enter, Setup, Cancelled, Finish, StreamEnds, Beat
  <1> QED BY <1>1, <1>2

LEMMA KeptInit == Init => KeptInv
  BY NamingInit, MonitorAssumption
     DEF MonitorAssumption, Init, KeptInv, ReplayRowsNamed, Unattached, Present, OwnedBy,
         NoRow, Row, Keys, Owning, Idle, Frame

\* A handler that does not move stays unattached, whatever the others do.
LEMMA UnattachedStay ==
    ASSUME KeptInv, NEW v \in Workers, handler'[v] = handler[v],
           HandlerKey(v) \in Keys, HandlerKey(v)' = HandlerKey(v),
           \/ RowKept(HandlerKey(v))
           \/ \E w \in Workers \ {v} : RowKeptOrOwn(HandlerKey(v), w),
           handler'[v].step \in Owning, OwnedBy(HandlerKey(v), v)'
    PROVE  (lease[HandlerKey(v)].session = None)'
  BY MonitorAssumption
     DEF MonitorAssumption, KeptInv, Unattached, RowKept, RowKeptOrOwn, OwnedBy

\* Where a start handler's key is.
LEMMA OwningKeys ==
    ASSUME NamingInv, NEW w \in Workers, handler[w].step \in Owning \cup {"takeover"}
    PROVE  /\ handler[w].channel \in Channels
           /\ HandlerKey(w) = LiveKey(handler[w].channel)
           /\ HandlerKey(w) \in Keys
  <1> USE MonitorAssumption, KeyFacts DEF MonitorAssumption, LiveSessions
  <1>1. CASE At(w, "attach")
    <2>1. /\ handler[w].session \in LiveSessions
          /\ status[handler[w].session] # "none"
          /\ channel[handler[w].session] = handler[w].channel
      BY <1>1 DEF NamingInv, StartsOK, Pending, At
    <2>2. handler[w].channel \in Channels
      BY <2>1 DEF NamingInv, RowsOK
    <2> QED BY <2>1, <2>2 DEF HandlerKey
  <1>2. CASE handler[w].step \in {"claimed", "swept", "insert", "takeover"}
    <2>1. handler[w].session = None /\ handler[w].channel \in Channels
      BY <1>2 DEF NamingInv, StartsOK
    <2> QED BY <2>1 DEF HandlerKey
  <1> QED BY <1>1, <1>2 DEF Owning, At

\* The row of a replay session does not exist before its handler takes it.
LEMMA ReplayKeyFree ==
    ASSUME KeptInv, NEW w \in Workers, At(w, "acquire")
    PROVE  /\ handler[w].session \in ReplaySessions
           /\ HandlerKey(w) = SessionKey(handler[w].session)
           /\ HandlerKey(w) \in Keys
           /\ ~Present(HandlerKey(w))
  <1> USE MonitorAssumption, KeyFacts DEF MonitorAssumption
  <1>1. handler[w].session \in ReplaySessions
    BY DEF KeptInv, NamingInv, StartsOK, Pending, At
  <1>2. HandlerKey(w) = SessionKey(handler[w].session) /\ HandlerKey(w) \in Keys
    BY <1>1 DEF HandlerKey
  <1>3. lease[HandlerKey(w)].session # handler[w].session
    BY <1>1, <1>2 DEF KeptInv, NamingInv, NamedOK, Pending, At
  <1> QED BY <1>1, <1>2, <1>3 DEF KeptInv, ReplayRowsNamed

LEMMA KeptStep == KeptInv /\ [Next]_vars => KeptInv'
  <1> SUFFICES ASSUME KeptInv, [Next]_vars PROVE KeptInv'
    OBVIOUS
  <1> USE MonitorAssumption, KeyFacts DEF MonitorAssumption, KeptInv
  <1>n. NamingInv'
    BY NamingStep
  <1>t. TypeOK /\ TypeOK'
    BY <1>n DEF NamingInv
  <1>f. lease \in [Keys -> Rows] /\ lease' \in [Keys -> Rows]
        /\ handler \in [Workers -> Handlers] /\ handler' \in [Workers -> Handlers]
    BY <1>t DEF TypeOK
  <1>s. ASSUME NEW v \in Workers, handler'[v] = handler[v]
        PROVE  HandlerKey(v)' = HandlerKey(v)
    BY <1>s DEF HandlerKey
  <1>1. ASSUME NEW w \in Workers, WorkerStep(w)
        PROVE  ReplayRowsNamed' /\ Unattached'
    <2>0. \A k \in Keys : RowKeptOrOwn(k, w)
      BY <1>1, <1>f, HandlersKeepRows
    <2>1. ASSUME NEW v \in Workers \ {w}, handler'[v].step \in Owning,
                 OwnedBy(HandlerKey(v), v)'
          PROVE  (lease[HandlerKey(v)].session = None)'
      <3>1. handler'[v] = handler[v]
        BY <1>1, <1>t, OneHandler
      <3>2. HandlerKey(v) \in Keys
        BY <2>1, <3>1, OwningKeys
      <3> QED BY <1>s, <2>0, <2>1, <3>1, <3>2, UnattachedStay
    <2>2. ASSUME handler'[w].step \in Owning, OwnedBy(HandlerKey(w), w)'
          PROVE  (lease[HandlerKey(w)].session = None)'
      <3> USE <1>f DEF Go, Goto, Return, At, Frame, Idle, Owning, Handlers
      <3>1. CASE TakeOver(w)
        <4>1. /\ Take(HandlerKey(w), w, None) /\ HandlerKey(w) \in Keys
              /\ HandlerKey(w)' = HandlerKey(w)
          BY <2>2, <3>1, OwningKeys DEF TakeOver, HandlerKey
        <4> QED BY <4>1 DEF Take, Row
      <3>2. ASSUME NEW c \in Channels, StartLive(w, c)
            PROVE  (lease[HandlerKey(w)].session = None)'
        <4>1. /\ Take(LiveKey(c), w, None) /\ HandlerKey(w)' = LiveKey(c)
          BY <2>2, <3>2 DEF StartLive, HandlerKey
        <4> QED BY <4>1 DEF Take, Row
      <3>3. CASE Sweep(w) \/ CloseOrphans(w) \/ InsertSession(w)
        <4>1. /\ handler[w].step \in Owning
              /\ handler'[w].channel = handler[w].channel
              /\ handler'[w].session \notin ReplaySessions
          <5>1. handler[w].step \in {"claimed", "swept"} => handler[w].session = None
            BY DEF NamingInv, StartsOK
          <5> QED BY <2>2, <3>3, <5>1
                 DEF Sweep, Scanned, CloseOrphans, InsertSession, LiveSessions
        <4>2. HandlerKey(w) = LiveKey(handler[w].channel) /\ HandlerKey(w) \in Keys
          BY <4>1, OwningKeys
        <4>3. HandlerKey(w)' = HandlerKey(w)
          BY <4>1, <4>2 DEF HandlerKey
        <4>4. \A k \in Keys : RowKept(k)
          <5>1. CASE CloseOrphans(w)
            BY <5>1, TransactionsKeepRows DEF CloseOrphans
          <5>2. CASE UNCHANGED lease
            BY <5>2, TransactionsKeepRows
          <5> QED BY <3>3, <5>1, <5>2 DEF Sweep, InsertSession, db
        <4> QED BY <2>2, <4>1, <4>2, <4>3, <4>4 DEF RowKept, OwnedBy, Unattached
      <3>4. CASE UNCHANGED handler /\ UNCHANGED lease
        BY <2>2, <3>4 DEF Unattached, OwnedBy, HandlerKey
      <3>5. CASE \/ Boot(w) \/ ReconcileLoop(w) \/ StartReplay(w) \/ StartRaises(w)
                 \/ AttachSession(w) \/ Launch(w) \/ Undo(w) \/ AcquireReplay(w)
                 \/ RecordStop(w) \/ Crash(w)
        BY <2>2, <3>5
           DEF Boot, ReconcileLoop, StartReplay, Scanned, StartRaises, AttachSession,
               Launch, Undo, AcquireReplay, RecordStop, Crash
      <3>6. ASSUME NEW c \in Channels, StopMonitor(w, c)
            PROVE  (lease[HandlerKey(w)].session = None)'
        BY <2>2, <3>4, <3>6 DEF StopMonitor, db
      <3>7. CASE Shutdown(w) \/ Exit(w) \/ \E s \in Sessions : ShutdownStop(w, s)
        BY <3>4, <3>7 DEF Shutdown, Exit, ShutdownStop, db
      <3> QED
        BY <1>1, <3>1, <3>2, <3>3, <3>5, <3>6, <3>7 DEF WorkerStep, HandlerStep
    <2>3. Unattached'
      BY <2>1, <2>2 DEF Unattached
    <2>4. ASSUME NEW s \in ReplaySessions, Present(SessionKey(s))'
          PROVE  (lease[SessionKey(s)].session = s)'
      <3>1. SessionKey(s) \in Keys
        OBVIOUS
      <3>2. CASE RowKept(SessionKey(s))
        BY <2>4, <3>1, <3>2 DEF RowKept, Present, ReplayRowsNamed
      <3>3. CASE AcquireReplay(w)
        <4>1. HandlerKey(w) = SessionKey(handler[w].session)
          BY <3>3, ReplayKeyFree DEF AcquireReplay
        <4>2. CASE SessionKey(s) = HandlerKey(w) /\ Take(HandlerKey(w), w, handler[w].session)
          BY <1>f, <3>1, <4>1, <4>2 DEF Take, Row
        <4>3. CASE SessionKey(s) # HandlerKey(w) \/ UNCHANGED lease
          <5>1. lease'[SessionKey(s)] = lease[SessionKey(s)]
            BY <1>f, <3>1, <3>3, <4>3, TransactionsKeepOthers DEF AcquireReplay
          <5> QED BY <2>4, <5>1 DEF Present, ReplayRowsNamed
        <4> QED BY <3>3, <4>2, <4>3 DEF AcquireReplay
      <3>4. ASSUME NEW c, NEW o, NEW x,
                   \/ Take(LiveKey(c), w, x)
                   \/ Attach(LiveKey(c), w, x)
                   \/ Renew(c, o) \/ Release(c, o) \/ RequestStop(c) \/ Purge(x)
                   \/ UNCHANGED lease
            PROVE  (lease[SessionKey(s)].session = s)'
        <4>1. CASE Take(LiveKey(c), w, x) \/ Attach(LiveKey(c), w, x)
          <5>1. lease'[SessionKey(s)] = lease[SessionKey(s)]
            BY <1>f, <3>1, <4>1, TransactionsKeepOthers
          <5> QED BY <2>4, <5>1 DEF Present, ReplayRowsNamed
        <4>2. CASE \/ Renew(c, o) \/ Release(c, o) \/ RequestStop(c) \/ Purge(x)
                   \/ UNCHANGED lease
          BY <1>f, <3>1, <3>2, <4>2, TransactionsKeepRows
        <4> QED BY <3>4, <4>1, <4>2
      <3>5. CASE TakeOver(w) \/ AttachSession(w)
        <4>1. HandlerKey(w) = LiveKey(handler[w].channel)
          BY <3>5, OwningKeys DEF TakeOver, AttachSession, At, Owning
        <4>2. CASE AttachSession(w)
          <5>1. Attach(LiveKey(handler[w].channel), w, handler[w].session)
            BY <4>1, <4>2 DEF AttachSession
          <5> QED BY <3>4, <5>1
        <4>3. CASE TakeOver(w)
          <5>1. Take(LiveKey(handler[w].channel), w, None) \/ UNCHANGED lease
            BY <4>1, <4>3 DEF TakeOver
          <5> QED BY <3>4, <5>1
        <4> QED BY <3>5, <4>2, <4>3
      <3>6. CASE CloseOrphans(w) \/ Undo(w) \/ RecordStop(w)
        BY <3>4, <3>6 DEF CloseOrphans, Undo, RecordStop
      <3>7. ASSUME NEW c \in Channels, StartLive(w, c) \/ StopMonitor(w, c)
            PROVE  (lease[SessionKey(s)].session = s)'
        BY <3>4, <3>7 DEF StartLive, StopMonitor, db
      <3>8. CASE \/ Boot(w) \/ ReconcileLoop(w) \/ StartReplay(w) \/ Sweep(w)
                 \/ InsertSession(w) \/ StartRaises(w) \/ Launch(w)
                 \/ Shutdown(w) \/ Exit(w) \/ Crash(w)
                 \/ \E t \in Sessions : ShutdownStop(w, t)
        <4>1. UNCHANGED lease
          BY <3>8 DEF Boot, ReconcileLoop, StartReplay, Sweep, InsertSession, StartRaises,
                      Launch, Shutdown, Exit, Crash, ShutdownStop, db
        <4> QED BY <3>4, <4>1
      <3> QED
        BY <1>1, <3>3, <3>5, <3>6, <3>7, <3>8 DEF WorkerStep, HandlerStep
    <2> QED BY <2>3, <2>4 DEF ReplayRowsNamed
  <1>2. ASSUME \/ \E s \in Sessions : TaskStep(s) \/ StreamEnds(s) \/ Beat(s)
               \/ Tick \/ UNCHANGED vars
        PROVE  ReplayRowsNamed' /\ Unattached'
    <2>1. UNCHANGED handler /\ \A k \in Keys : RowKept(k)
      BY <1>2, <1>t, TasksKeepRows
    <2>2. ASSUME NEW v \in Workers, handler'[v].step \in Owning, OwnedBy(HandlerKey(v), v)'
          PROVE  (lease[HandlerKey(v)].session = None)'
      <3>1. HandlerKey(v) \in Keys
        BY <2>1, <2>2, OwningKeys
      <3> QED BY <1>s, <2>1, <2>2, <3>1, UnattachedStay
    <2> QED BY <2>1, <2>2 DEF Unattached, ReplayRowsNamed, RowKept, Present
  <1> QED BY <1>n, <1>1, <1>2 DEF Next

\* The one transaction that may end a valid lease is its owner's release.
LEMMA KeepStep ==
    ASSUME KeptInv, [Next]_vars, NEW k \in Keys, NEW v \in Workers,
           Valid(k), OwnedBy(k, v),
           \/ lease'[k].owner # v
           \/ lease[k].session # None /\ lease'[k].session # lease[k].session
    PROVE  GivesUp(v, k)
  <1> USE MonitorAssumption, KeyFacts DEF MonitorAssumption, KeptInv
  <1>t. TypeOK /\ lease \in [Keys -> Rows] /\ lease[k] \in Rows
    BY DEF NamingInv, TypeOK
  \* So the step is none that leaves the row's owner and session alone.
  <1>0. ~(lease'[k].owner = lease[k].owner /\ lease'[k].session = lease[k].session)
    BY DEF OwnedBy
  <1>a. ASSUME NEW j, NEW o, NEW x,
               \/ Renew(j, o) \/ RequestStop(j) \/ Purge(x) \/ Age \/ UNCHANGED lease
               \/ Release(j, o) /\ ~(j = k /\ o = v)
               \/ o \in Workers /\ j # k /\ (Take(j, o, x) \/ Attach(j, o, x))
        PROVE  FALSE
    <2>1. CASE Renew(j, o) \/ RequestStop(j) \/ UNCHANGED lease
      BY <1>t, <1>0, <2>1 DEF Renew, RequestStop, Rows
    <2>2. CASE Purge(x) \/ Age
      BY <1>t, <1>0, <2>2 DEF Purge, Age, Valid, Expired, Rows
    <2>3. CASE Release(j, o) /\ ~(j = k /\ o = v)
      BY <1>t, <1>0, <2>3 DEF Release, OwnedBy
    <2>4. CASE o \in Workers /\ j # k /\ (Take(j, o, x) \/ Attach(j, o, x))
      BY <1>t, <1>0, <2>4, TransactionsKeepOthers
    <2> QED BY <1>a, <2>1, <2>2, <2>3, <2>4
  <1>b. ASSUME UNCHANGED lease PROVE FALSE
    BY <1>0, <1>b
  <1>1. ASSUME NEW w \in Workers, WorkerStep(w)
        PROVE  GivesUp(v, k)
    <2>1. CASE Undo(w)
      <3>1. Release(HandlerKey(w), w) /\ At(w, "undo")
        BY <1>b, <2>1 DEF Undo
      <3>2. HandlerKey(w) = k /\ w = v
        BY <1>a, <3>1
      <3>3. handler'[w] = Idle
        BY <1>t, <2>1 DEF Undo, Return, Go, TypeOK
      <3> QED BY <3>1, <3>2, <3>3 DEF GivesUp
    <2>2. CASE TakeOver(w)
      <3>1. Replaceable(HandlerKey(w)) /\ Take(HandlerKey(w), w, None)
        BY <1>b, <2>2 DEF TakeOver
      <3>2. HandlerKey(w) # k
        BY <1>t, <3>1 DEF Replaceable, Expired, Valid, Rows
      <3> QED BY <1>a, <3>1, <3>2
    <2>3. CASE AttachSession(w)
      <3>1. Attach(HandlerKey(w), w, handler[w].session)
        BY <2>3 DEF AttachSession
      <3>2. HandlerKey(w) = k
        BY <1>a, <3>1
      <3>3. CASE w = v
        <4>1. lease[k].session = None
          BY <2>3, <3>2, <3>3 DEF AttachSession, At, Owning, Unattached
        <4>2. lease'[k].owner = v
          BY <1>t, <3>1, <3>2, <3>3 DEF Attach, Row, OwnedBy
        <4> QED BY <4>1, <4>2
      <3>4. CASE w # v
        BY <1>b, <3>1, <3>2, <3>4 DEF Attach, OwnedBy
      <3> QED BY <3>3, <3>4
    <2>4. CASE AcquireReplay(w)
      <3>1. Take(HandlerKey(w), w, handler[w].session)
        BY <1>b, <2>4 DEF AcquireReplay
      <3>2. HandlerKey(w) # k
        BY <2>4, ReplayKeyFree DEF AcquireReplay, Valid
      <3> QED BY <1>a, <3>1, <3>2
    <2>5. ASSUME NEW c \in Channels, StartLive(w, c) PROVE FALSE
      <3>1. Insertable(LiveKey(c)) /\ Take(LiveKey(c), w, None)
        BY <1>b, <2>5 DEF StartLive
      <3>2. LiveKey(c) # k
        BY <3>1 DEF Insertable, Valid
      <3> QED BY <1>a, <3>1, <3>2
    <2>6. CASE CloseOrphans(w) \/ RecordStop(w)
      BY <1>a, <2>6 DEF CloseOrphans, RecordStop
    <2>7. CASE \/ Boot(w) \/ ReconcileLoop(w) \/ StartReplay(w) \/ Sweep(w)
               \/ InsertSession(w) \/ StartRaises(w) \/ Launch(w)
               \/ Shutdown(w) \/ Exit(w) \/ Crash(w)
               \/ \E s \in Sessions : ShutdownStop(w, s)
               \/ \E c \in Channels : StopMonitor(w, c)
      BY <1>b, <2>7
         DEF Boot, ReconcileLoop, StartReplay, Sweep, InsertSession, StartRaises, Launch,
             Shutdown, Exit, Crash, ShutdownStop, StopMonitor, db
    <2> QED
      BY <1>1, <2>1, <2>2, <2>3, <2>4, <2>5, <2>6, <2>7 DEF WorkerStep, HandlerStep
  <1>2. ASSUME NEW s \in Sessions, Finish(s)
        PROVE  GivesUp(v, k)
    <2>1. Release(Key(s), runner[s])
      BY <1>b, <1>2 DEF Finish
    <2>2. Key(s) = k /\ runner[s] = v
      BY <1>a, <2>1
    <2>3. run[s] = "closed" /\ run'[s] = "done"
      BY <1>t, <1>2 DEF Finish, Become, TypeOK
    <2> QED BY <2>2, <2>3 DEF GivesUp
  <1>3. ASSUME NEW s \in Sessions,
               \/ Enter(s) \/ Setup(s) \/ Cancelled(s) \/ StreamEnds(s) \/ Beat(s)
        PROVE  FALSE
    BY <1>a, <1>b, <1>3 DEF Enter, Setup, Cancelled, StreamEnds, Beat, db
  <1>4. CASE Tick \/ UNCHANGED vars
    BY <1>a, <1>b, <1>4 DEF Tick, vars
  <1> QED BY <1>1, <1>2, <1>3, <1>4 DEF Next, TaskStep

\* However late workers are, and whatever the database refuses, a lease that has
\* not expired is lost only by a release of its own worker.
THEOREM ValidLeasesKept == Spec => ValidLeaseKept
  <1>1. KeptInv /\ [Next]_vars => KeptInv'
    BY KeptStep
  <1>2. KeptInv /\ [Next]_vars =>
          [\A k \in Keys, w \in Workers :
              (/\ Valid(k) /\ OwnedBy(k, w)
               /\ \/ lease'[k].owner # w
                  \/ lease[k].session # None /\ lease'[k].session # lease[k].session)
              => GivesUp(w, k)]_vars
    BY KeepStep
  <1> QED BY KeptInit, <1>1, <1>2, PTL DEF Spec, ValidLeaseKept

-------------------------------------------------------------------------------
(* The refinement: every step is a step of ChannelMonitor or changes nothing it sees *)

\* What ChannelMonitor sees, named.
Monitored == {s \in Sessions : run[s] \in Monitoring}
Begun == {s \in Sessions : run[s] # "none"}
Slot == [s \in Sessions |-> IF status[s] = "none" THEN None ELSE Key(s)]

\* A step that begins no pipeline and leaves the rows alone makes monitors vanish,
\* if it is seen at all.
LEMMA Fade ==
    ASSUME UNCHANGED <<status, channel>>,
           \A s \in Sessions : /\ run'[s] = "none" <=> run[s] = "none"
                               /\ run'[s] \in Monitoring => run[s] \in Monitoring
    PROVE  [Monitor!Next]_(Monitor!vars)
  <1>0. PICK gone :
          gone = {s \in Sessions : run[s] \in Monitoring /\ run'[s] \notin Monitoring}
    OBVIOUS
  <1>1. Slot' = Slot /\ Begun' = Begun /\ status' = status
    BY DEF Slot, Begun, Key
  <1>2. Monitored' = Monitored \ gone /\ gone \subseteq Monitored
    BY <1>0 DEF Monitored
  <1>3. CASE gone = {}
    <2>1. Monitored' = Monitored
      BY <1>2, <1>3
    <2> QED BY <1>1, <2>1 DEF Monitor!vars, Slot, Begun, Monitored
  <1>4. CASE gone # {}
    <2>1. Monitor!Vanish(gone)
      BY <1>1, <1>2, <1>4 DEF Monitor!Vanish, Slot, Begun, Monitored
    <2>2. gone \in SUBSET Sessions
      BY <1>0
    <2> QED BY <2>1, <2>2 DEF Monitor!Next
  <1> QED BY <1>3, <1>4

LEMMA RefinesInit == Init => Monitor!Init
  BY DEF Init, Monitor!Init, Monitoring

LEMMA RefinesStep ==
    ASSUME PromptTasks, PromptHandlers, IInv, [Next]_vars
    PROVE  [Monitor!Next]_(Monitor!vars)
  <1> USE MonitorAssumption, KeyFacts DEF MonitorAssumption, LiveSessions
  <1>t. TypeOK /\ TypeOK'
    BY TypeStep DEF IInv
  <1>1. ASSUME NEW w \in Workers, InsertSession(w) \/ StartReplay(w)
        PROVE  \E s \in Sessions : Monitor!Open(s)
    <2>1. PICK s \in Sessions :
            /\ status[s] = "none" /\ status' = [status EXCEPT ![s] = "live"]
            /\ \/ /\ s \in LiveSessions /\ handler[w].channel \in Channels
                  /\ channel' = [channel EXCEPT ![s] = handler[w].channel]
               \/ s \in ReplaySessions /\ channel' = channel
      BY <1>1 DEF InsertSession, StartReplay, IInv, HandlerHoldsLease, HandlerHolds, At, db
    <2>2. UNCHANGED run
      BY <1>1 DEF InsertSession, StartReplay, tasks
    <2>3. Key(s)' \in Keys
      BY <1>t, <2>1 DEF Key, TypeOK
    <2>4. Slot' = [Slot EXCEPT ![s] = Key(s)']
      <3>1. ASSUME NEW x \in Sessions, x # s PROVE status'[x] = status[x] /\ Key(x)' = Key(x)
        BY <1>t, <2>1, <3>1 DEF Key, TypeOK
      <3>2. status'[s] = "live"
        BY <1>t, <2>1 DEF TypeOK
      <3> QED BY <3>1, <3>2 DEF Slot
    <2>5. Monitor!Open(s)
      BY <2>1, <2>2, <2>3, <2>4 DEF Monitor!Open, Slot
    <2> QED BY <2>5
  <1>2. ASSUME NEW w \in Workers, Launch(w)
        PROVE  \E s \in Sessions : Monitor!Begin(s)
    <2>0. PICK s : s = handler[w].session
      OBVIOUS
    <2>1. /\ s \in Sessions /\ status[s] = "live" /\ run[s] = "none"
          /\ run' = [run EXCEPT ![s] = "created"] /\ UNCHANGED <<status, channel>>
      BY <1>2, <2>0 DEF Launch, IInv, PendingOK, Pending, At, db
    <2>2. Key(s) = HandlerKey(w) /\ lease[HandlerKey(w)].session = s
      BY <1>2, <2>0, <2>1
         DEF Launch, IInv, PendingOK, Pending, At, Key, HandlerKey, HandlerHoldsLease,
             HandlerHolds
    <2>3. \A t \in Monitored : Slot[t] # Slot[s]
      <3> SUFFICES ASSUME NEW t \in Sessions, run[t] \in Monitoring PROVE Slot[t] # Slot[s]
        BY DEF Monitored
      <3>1. status[t] = "live" /\ lease[Key(t)].session = t
        BY DEF IInv, MonitoredIsLive, OwnerHoldsLease, Active
      <3>2. t # s
        BY <2>1 DEF Monitoring
      <3> QED BY <2>1, <2>2, <3>1, <3>2 DEF Slot
    <2>4. Monitored' = Monitored \cup {s} /\ Begun' = Begun \cup {s} /\ s \notin Begun
      BY <1>t, <2>1 DEF Monitored, Begun, Monitoring, TypeOK
    <2>5. Slot' = Slot
      BY <2>1 DEF Slot, Key
    <2>6. Monitor!Begin(s)
      BY <2>1, <2>3, <2>4, <2>5 DEF Monitor!Begin, Monitored, Begun, Slot
    <2> QED BY <2>1, <2>6
  <1>3. ASSUME NEW s \in Sessions, StreamEnds(s) \/ Cancelled(s)
        PROVE  [Monitor!Next]_(Monitor!vars)
    <2>1. /\ run[s] \in Monitoring /\ run' = [run EXCEPT ![s] = "closed"]
          /\ UNCHANGED channel
      BY <1>3 DEF StreamEnds, Cancelled, Become, Monitoring
    <2>2. CASE UNCHANGED status
      BY <1>t, <2>1, <2>2, Fade DEF Monitoring, TypeOK
    <2>3. ASSUME NEW final \in {"ended", "failed"}, status' = [status EXCEPT ![s] = final]
          PROVE  Monitor!Close(s)
      <3>1. status[s] = "live"
        BY <2>1 DEF IInv, MonitoredIsLive
      <3>2. Monitored' = Monitored \ {s} /\ s \in Monitored /\ Begun' = Begun
        BY <1>t, <2>1 DEF Monitored, Begun, Monitoring, TypeOK
      <3>3. Slot' = Slot
        BY <1>t, <2>1, <2>3, <3>1 DEF Slot, Key, TypeOK
      <3> QED BY <2>3, <3>2, <3>3 DEF Monitor!Close, Monitored, Begun, Slot
    <2> QED BY <1>3, <2>2, <2>3 DEF StreamEnds, Cancelled, Finalize, Monitor!Next
  <1>4. ASSUME NEW w \in Workers, CloseOrphans(w)
        PROVE  [Monitor!Next]_(Monitor!vars)
    <2> DEFINE orphans == {s \in handler[w].victims : status[s] = "live"}
    <2>1. /\ handler[w].victims \subseteq Sessions
          /\ \A s \in handler[w].victims :
                status[s] \in {"live", "interrupted"} /\ run[s] \notin Monitoring
      BY <1>t DEF IInv, VictimsOK, TypeOK, Handlers
    <2>2. status' = [s \in Sessions |-> IF s \in orphans THEN "interrupted" ELSE status[s]]
      BY <1>4, <2>1 DEF CloseOrphans, CloseSessions
    <2>3. UNCHANGED <<run, channel>>
      BY <1>4 DEF CloseOrphans, tasks
    <2>4. Slot' = Slot /\ Monitored' = Monitored /\ Begun' = Begun
      BY <2>2, <2>3 DEF Slot, Monitored, Begun, Key
    <2>5. CASE orphans = {}
      <3>1. status' = status
        BY <1>t, <2>2, <2>5 DEF TypeOK
      <3> QED BY <2>4, <3>1 DEF Monitor!vars, Slot, Monitored, Begun
    <2>6. CASE orphans # {}
      <3>1. Monitor!Interrupt(orphans)
        BY <2>1, <2>2, <2>4, <2>6 DEF Monitor!Interrupt, Slot, Monitored, Begun
      <3>2. orphans \in SUBSET Sessions
        BY <2>1
      <3> QED BY <3>1, <3>2 DEF Monitor!Next
    <2> QED BY <2>5, <2>6
  <1>5. ASSUME UNCHANGED <<status, channel>>,
               \/ UNCHANGED run
               \/ \E s \in Sessions, w \in Workers : Cancel(s, w)
               \/ \E s \in Sessions : Enter(s) \/ Setup(s) \/ Finish(s) \/ Beat(s)
               \/ \E w \in Workers : Crash(w)
        PROVE  [Monitor!Next]_(Monitor!vars)
    <2>1. \A s \in Sessions : /\ run'[s] = "none" <=> run[s] = "none"
                              /\ run'[s] \in Monitoring => run[s] \in Monitoring
      BY <1>5, <1>t
         DEF Cancel, AfterCancel, Enter, Setup, Finish, Beat, Crash, Become, TypeOK,
             RunStates, Active, Monitoring
    <2> QED BY <1>5, <2>1, Fade
  <1>6. CASE \E w \in Workers : HandlerStep(w)
    <2>1. PICK w \in Workers : HandlerStep(w)
      BY <1>6
    <2>2. CASE InsertSession(w) \/ Launch(w) \/ CloseOrphans(w)
      BY <1>1, <1>2, <1>4, <2>2 DEF Monitor!Next
    <2>3. CASE \/ TakeOver(w) \/ Sweep(w) \/ StartRaises(w) \/ AttachSession(w)
               \/ Undo(w) \/ AcquireReplay(w) \/ RecordStop(w)
      BY <1>5, <2>3
         DEF TakeOver, Sweep, StartRaises, AttachSession, Undo, AcquireReplay, RecordStop,
             db, tasks
    <2> QED BY <2>1, <2>2, <2>3 DEF HandlerStep
  <1>7. CASE \E w \in Workers : WorkerStep(w)
    <2>1. PICK w \in Workers : WorkerStep(w)
      BY <1>7
    <2>2. CASE StartReplay(w)
      BY <1>1, <2>2 DEF Monitor!Next
    <2>3. CASE HandlerStep(w)
      BY <1>6, <2>3
    <2>4. CASE Boot(w) \/ ReconcileLoop(w) \/ Shutdown(w) \/ Exit(w) \/ Crash(w)
      BY <1>5, <2>4 DEF Boot, ReconcileLoop, Shutdown, Exit, Crash, db, tasks
    <2>5. ASSUME NEW c \in Channels, StartLive(w, c) \/ StopMonitor(w, c)
          PROVE  [Monitor!Next]_(Monitor!vars)
      <3>1. lease[LiveKey(c)].session \in Sessions \cup {None}
        BY <1>t DEF TypeOK, Rows
      <3> QED BY <1>5, <2>5, <3>1 DEF StartLive, StopMonitor, db, tasks
    <2>6. ASSUME NEW s \in Sessions, ShutdownStop(w, s)
          PROVE  [Monitor!Next]_(Monitor!vars)
      BY <1>5, <2>6 DEF ShutdownStop, db
    <2> QED BY <2>1, <2>2, <2>3, <2>4, <2>5, <2>6 DEF WorkerStep
  <1>8. CASE \E s \in Sessions : TaskStep(s) \/ StreamEnds(s) \/ Beat(s)
    BY <1>3, <1>5, <1>8 DEF TaskStep, Enter, Setup, Finish, Beat, db
  <1>9. CASE Tick \/ UNCHANGED vars
    BY <1>5, <1>9 DEF Tick, vars, tasks
  <1> QED BY <1>7, <1>8, <1>9 DEF Next

\* With timely workers the leases, handlers, heartbeats and reconcilers of all
\* processes together do what one monitor per slot would: ChannelMonitor.
THEOREM ImplementsChannelMonitor ==
    ASSUME PromptTasks, PromptHandlers
    PROVE  Spec => RefinesChannelMonitor
  <1>1. IInv /\ [Next]_vars => [Monitor!Next]_(Monitor!vars)
    BY RefinesStep
  <1> QED BY RefinesInit, <1>1, Invariant, PTL DEF Spec, RefinesChannelMonitor, Monitor!Spec
===============================================================================
