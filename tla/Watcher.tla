------------------------------- MODULE Watcher -------------------------------
(***************************************************************************)
(* watch_tick (app/watcher.py) in every worker: the watcher lease, then    *)
(* the live check, then hourly beats (app/summarize/beats.py) and final    *)
(* summaries (app/finalize.py), each with an LLM call between its reads    *)
(* and its commits.  A worker may crash at any step, and a tick may last   *)
(* longer than the lease it was started under.                             *)
(*                                                                         *)
(* An hour is a number: the hours of session s are HourBase(s) + 1 ..      *)
(* HourBase(s) + HoursEach, in the order due_hours lists them.             *)
(***************************************************************************)
EXTENDS WatcherState

CONSTANTS
    None,
    TTL,          \* AUTO_MONITOR_POLL_SECONDS * 3, in ticks
    MaxSessions,  \* bound: sessions 1 .. MaxSessions are started in turn
    HoursEach,    \* bound: the hours a session may last
    BeatLimit,    \* hours per tick (3 in the code)
    FinalLimit,   \* sessions per tick (2)
    Failing       \* hours for which the LLM never answers, or the budget is gone for good

Sessions == 1 .. MaxSessions
Hours == 1 .. MaxSessions * HoursEach
HourBase(s) == (s - 1) * HoursEach
SessionOf(h) == (h - 1) \div HoursEach + 1

\* What is assumed of them.
WatcherConstants ==
    /\ None \notin Workers /\ IsFiniteSet(Workers)
    /\ {TTL, MaxSessions, HoursEach, BeatLimit, FinalLimit, MaxAttempts} \subseteq Nat \ {0}
    /\ Failing \subseteq Hours

sessions == <<status, age, notable, eventful>>
hourRows == <<run, beats, blank, lost>>
finalRows == <<finals, text, torn>>

Key == "watcher"
L == INSTANCE LeaseTable WITH Keys <- {Key}, Owners <- Workers

Steps == {"idle", "check", "beats", "ask", "mark", "write", "finals", "final", "set"}
Idle == [step |-> "idle", hours |-> {}, sessions |-> {}]

TypeOK ==
    /\ lease \in [{Key} -> L!Rows]
    /\ prompt \in BOOLEAN /\ dead \subseteq Workers
    /\ tick \in [Workers -> [step : Steps, hours : SUBSET Hours, sessions : SUBSET Sessions]]
    /\ attempts \in [Workers -> [Sessions -> 0 .. MaxAttempts]]
    /\ status \in [Sessions -> {"none", "live", "ended"}]
    /\ age \in [Sessions -> 0 .. HoursEach - 1]
    /\ notable \subseteq Hours /\ eventful \subseteq Sessions
    /\ run \in [Hours -> {"none", "done", "skipped"}]
    /\ beats \in [Hours -> Nat] /\ blank \subseteq Hours /\ lost \subseteq Hours
    /\ finals \in [Sessions -> Nat] /\ text \in [Sessions -> BOOLEAN]
    /\ torn \in [Sessions -> Nat]

Init ==
    /\ lease = [k \in {Key} |-> L!NoRow]
    /\ prompt \in BOOLEAN /\ dead = {}
    /\ tick = [w \in Workers |-> Idle]
    /\ attempts = [w \in Workers |-> [s \in Sessions |-> 0]]
    /\ status = [s \in Sessions |-> "none"] /\ age = [s \in Sessions |-> 0]
    /\ notable = {} /\ eventful = {}
    /\ run = [h \in Hours |-> "none"] /\ beats = [h \in Hours |-> 0]
    /\ blank = {} /\ lost = {}
    /\ finals = [s \in Sessions |-> 0] /\ text = [s \in Sessions |-> FALSE]
    /\ torn = [s \in Sessions |-> 0]

At(w, step) == Alive(w) /\ tick[w].step = step
Goes(w, step) == tick' = [tick EXCEPT ![w].step = step]
\* Sessions are worked off from the last.
Sess(w) == Max(tick[w].sessions)
NextHour(w) ==
    tick' = [tick EXCEPT ![w].step = "beats", ![w].hours = @ \ {Hour(w)}]
NextFinal(w) ==
    tick' = [tick EXCEPT ![w].step = "finals", ![w].sessions = @ \ {Sess(w)}]

-------------------------------------------------------------------------------
(* The tick begins: _hold_watcher_lease renews the row, even an expired one, *)
(* or takes it.                                                              *)

\* A mutant: whoever ticks takes the lease over.
HoldAny(w) == L!Take(Key, w, None)
Hold(w) ==
    \/ L!OwnedBy(Key, w) /\ L!Renew(Key, w)
    \/ /\ ~L!OwnedBy(Key, w)
       /\ L!Insertable(Key) \/ L!Replaceable(Key)
       /\ L!Take(Key, w, None)

Begin(w) ==
    /\ At(w, "idle")
    /\ Hold(w)
    /\ Goes(w, "check")
    /\ UNCHANGED <<prompt, dead, attempts, sessions, hourRows, finalRows>>

\* The live check starts a session, or none.
NextSession == CHOOSE s \in Sessions : status[s] = "none" /\ \A r \in 1 .. s - 1 : status[r] # "none"
Start(w) ==
    /\ At(w, "check")
    /\ \E s \in Sessions : status[s] = "none"
    /\ \A s \in Sessions : status[s] # "live"
    /\ status' = [status EXCEPT ![NextSession] = "live"]
    /\ Goes(w, "check")
    /\ UNCHANGED <<lease, prompt, dead, attempts, age, notable, eventful, hourRows, finalRows>>

\* Whatever raises, a start, a query or a commit, ends the whole tick, and what it
\* has committed stays: the mark of an hour without its beats, a final summary
\* without the session's text.
TickRaises(w) ==
    /\ Busy(w) /\ ~(At(w, "finals") /\ tick[w].sessions = {})
    /\ lost' = IF At(w, "write") THEN lost \cup {Hour(w)} ELSE lost
    /\ torn' = IF At(w, "set") THEN [torn EXCEPT ![Sess(w)] = @ + 1] ELSE torn
    /\ tick' = [tick EXCEPT ![w] = Idle]
    /\ UNCHANGED <<lease, prompt, dead, attempts, sessions, run, beats, blank, finals, text>>

-------------------------------------------------------------------------------
(* generate_due_beats                                                        *)

\* Once a session has ended, its last hour is closed, too.
ClosedHours(s) ==
    CASE status[s] = "none" -> 0
      [] status[s] = "live" -> age[s]
      [] status[s] = "ended" -> age[s] + 1

\* A mutant: the hours of a live session only.
DueLive ==
    {h \in Hours : run[h] = "none" /\ status[SessionOf(h)] = "live"
                   /\ h - HourBase(SessionOf(h)) <= ClosedHours(SessionOf(h))}
Due == {h \in Hours : run[h] = "none" /\ h - HourBase(SessionOf(h)) <= ClosedHours(SessionOf(h))}

\* The limit cuts the list off.
FirstHours(hours) == {h \in hours : Cardinality({g \in hours : g < h}) < BeatLimit}
LastSessions(some) == {s \in some : Cardinality({r \in some : r > s}) < FinalLimit}

Checked(w) ==
    /\ At(w, "check")
    /\ tick' = [tick EXCEPT ![w].step = "beats",
                            ![w].hours = FirstHours(Due)]
    /\ UNCHANGED <<lease, prompt, dead, attempts, sessions, hourRows, finalRows>>

\* An hour without notable events is marked as skipped, unless somebody was
\* faster: beat_runs has a primary key.
Quiet(w) ==
    /\ At(w, "beats") /\ tick[w].hours # {} /\ Hour(w) \notin notable
    /\ run' = IF run[Hour(w)] = "none" THEN [run EXCEPT ![Hour(w)] = "skipped"] ELSE run
    /\ NextHour(w)
    /\ UNCHANGED <<lease, prompt, dead, attempts, sessions, beats, blank, lost, finalRows>>

\* The budget leaves no call for the hour, for now or for good: no mark.
BudgetSkips(w) ==
    /\ At(w, "beats") /\ tick[w].hours # {}
    /\ NextHour(w)
    /\ UNCHANGED <<lease, prompt, dead, attempts, sessions, hourRows, finalRows>>

AskBeats(w) ==
    /\ At(w, "beats") /\ tick[w].hours # {} /\ Hour(w) \in notable
    /\ Goes(w, "ask")
    /\ UNCHANGED <<lease, prompt, dead, attempts, sessions, hourRows, finalRows>>

\* The call fails: no mark, so it is tried again.
\* A mutant: a failed hour is marked, too.
BeatsFailMarked(w) ==
    /\ At(w, "ask")
    /\ run' = [run EXCEPT ![Hour(w)] = "done"]
    /\ NextHour(w)
    /\ UNCHANGED <<lease, prompt, dead, attempts, sessions, beats, blank, lost, finalRows>>
BeatsFail(w) ==
    /\ At(w, "ask")
    /\ NextHour(w)
    /\ UNCHANGED <<lease, prompt, dead, attempts, sessions, hourRows, finalRows>>

BeatsAnswer(w) ==
    /\ At(w, "ask") /\ Hour(w) \notin Failing
    /\ Goes(w, "mark")
    /\ UNCHANGED <<lease, prompt, dead, attempts, sessions, hourRows, finalRows>>

\* mark("done") is committed before the beats are.
\* A mutant: the outcome of the insert is not looked at.
MarkAlways(w) ==
    /\ At(w, "mark")
    /\ run' = [run EXCEPT ![Hour(w)] = "done"] /\ Goes(w, "write")
    /\ UNCHANGED <<lease, prompt, dead, attempts, sessions, beats, blank, lost, finalRows>>
Mark(w) ==
    /\ At(w, "mark")
    /\ IF run[Hour(w)] = "none"
       THEN run' = [run EXCEPT ![Hour(w)] = "done"] /\ Goes(w, "write")
       ELSE UNCHANGED run /\ NextHour(w)
    /\ UNCHANGED <<lease, prompt, dead, attempts, sessions, beats, blank, lost, finalRows>>

WriteBeats(w) ==
    /\ At(w, "write")
    /\ \/ beats' = [beats EXCEPT ![Hour(w)] = @ + 1] /\ UNCHANGED blank
       \/ blank' = blank \cup {Hour(w)} /\ UNCHANGED beats
    /\ NextHour(w)
    /\ UNCHANGED <<lease, prompt, dead, attempts, sessions, run, lost, finalRows>>

-------------------------------------------------------------------------------
(* Final summaries                                                           *)

HasEvents(s) == s \in eventful

\* A mutant: a session is tried once less.
PendingShort(w) ==
    {s \in Sessions : status[s] = "ended" /\ ~text[s] /\ HasEvents(s)
                      /\ attempts[w][s] < MaxAttempts - 1}
Pending(w) ==
    {s \in Sessions : status[s] = "ended" /\ ~text[s] /\ HasEvents(s)
                      /\ attempts[w][s] < MaxAttempts}

BeatsDone(w) ==
    /\ At(w, "beats") /\ tick[w].hours = {}
    /\ tick' = [tick EXCEPT ![w].step = "finals",
                            ![w].sessions = LastSessions(Pending(w))]
    /\ UNCHANGED <<lease, prompt, dead, attempts, sessions, hourRows, finalRows>>

SetAttempts(w, n) == attempts' = [attempts EXCEPT ![w][Sess(w)] = n]

\* finalize_session: no budget counts as tried to the end.
Finalize(w) ==
    /\ At(w, "finals") /\ tick[w].sessions # {}
    /\ \/ SetAttempts(w, MaxAttempts) /\ NextFinal(w)
       \/ SetAttempts(w, attempts[w][Sess(w)] + 1) /\ Goes(w, "final")
    /\ UNCHANGED <<lease, prompt, dead, sessions, hourRows, finalRows>>

FinalFails(w) ==
    /\ At(w, "final")
    /\ NextFinal(w)
    /\ UNCHANGED <<lease, prompt, dead, attempts, sessions, hourRows, finalRows>>

\* save_summary commits the row, and the session's text is another commit.
SaveFinal(w) ==
    /\ At(w, "final")
    /\ finals' = [finals EXCEPT ![Sess(w)] = @ + 1]
    /\ Goes(w, "set")
    /\ UNCHANGED <<lease, prompt, dead, attempts, sessions, hourRows, text, torn>>

\* A mutant: the text is not stored in the session.
SetFinalDropped(w) ==
    /\ At(w, "set")
    /\ SetAttempts(w, 0)
    /\ NextFinal(w)
    /\ UNCHANGED <<lease, prompt, dead, sessions, hourRows, finalRows>>
SetFinal(w) ==
    /\ At(w, "set")
    /\ text' = [text EXCEPT ![Sess(w)] = TRUE]
    /\ SetAttempts(w, 0)
    /\ NextFinal(w)
    /\ UNCHANGED <<lease, prompt, dead, sessions, hourRows, finals, torn>>

TickEnds(w) ==
    /\ At(w, "finals") /\ tick[w].sessions = {}
    /\ tick' = [tick EXCEPT ![w] = Idle]
    /\ UNCHANGED <<lease, prompt, dead, attempts, sessions, hourRows, finalRows>>

-------------------------------------------------------------------------------
(* Streams, crashes, time                                                    *)

HourPasses(s) ==
    /\ status[s] = "live" /\ age[s] < HoursEach - 1
    /\ age' = [age EXCEPT ![s] = @ + 1]
    /\ UNCHANGED <<lease, prompt, dead, tick, attempts, status, notable, eventful, hourRows, finalRows>>

\* An event of the hour, or a late one of an hour before.
EventCommitted(h) ==
    /\ status[SessionOf(h)] = "live" /\ h <= HourBase(SessionOf(h)) + age[SessionOf(h)] + 1
    /\ notable' \in {notable, notable \cup {h}}
    /\ eventful' = eventful \cup {SessionOf(h)}
    /\ UNCHANGED <<lease, prompt, dead, tick, attempts, status, age, hourRows, finalRows>>

StreamEnds(s) ==
    /\ status[s] = "live"
    /\ status' = [status EXCEPT ![s] = "ended"]
    /\ UNCHANGED <<lease, prompt, dead, tick, attempts, age, notable, eventful, hourRows, finalRows>>

\* One worker stays up, which is the condition of anything being done.
Crash(w) ==
    /\ Alive(w) /\ dead \cup {w} # Workers
    /\ dead' = dead \cup {w}
    /\ UNCHANGED <<lease, prompt, tick, attempts, sessions, hourRows, finalRows>>

\* prompt: a tick is over before the lease it began under expires.
Tick ==
    /\ \A w \in Workers : prompt /\ Busy(w) => lease[Key].left > 0
    /\ L!Age
    /\ UNCHANGED <<prompt, dead, tick, attempts, sessions, hourRows, finalRows>>

\* reconcile_orphans deletes expired rows, this one, too.
PurgeExpired ==
    /\ L!Expired(Key) /\ L!Purge({Key})
    /\ UNCHANGED <<prompt, dead, tick, attempts, sessions, hourRows, finalRows>>

TickStep(w) ==
    \/ Checked(w) \/ Quiet(w) \/ BudgetSkips(w) \/ AskBeats(w) \/ Mark(w) \/ WriteBeats(w) \/ BeatsDone(w)
    \/ Finalize(w) \/ SaveFinal(w) \/ SetFinal(w) \/ TickEnds(w)
    \/ BeatsFail(w) \/ FinalFails(w)

Next ==
    \/ \E w \in Workers :
         Begin(w) \/ Start(w) \/ TickRaises(w) \/ TickStep(w) \/ BeatsAnswer(w) \/ Crash(w)
    \/ \E s \in Sessions : HourPasses(s) \/ StreamEnds(s)
    \/ \E h \in Hours : EventCommitted(h)
    \/ Tick \/ PurgeExpired

\* What ends a step of a tick, an error included.
Works(w) == TickStep(w) \/ BeatsAnswer(w) \/ TickRaises(w)

\* Polls go on and calls return.  What raises an error is transient: in the end ticks
\* come through.  The budget leaves calls, and a call succeeds, if that may be and is
\* tried again and again.
Fairness ==
    /\ \A w \in Workers :
         /\ WF_watcherVars(Begin(w)) /\ WF_watcherVars(Works(w))
         /\ <>[][~TickRaises(w)]_watcherVars
         /\ SF_watcherVars(Checked(w))
         /\ \A h \in Hours \ Failing :
              /\ SF_watcherVars((Quiet(w) \/ AskBeats(w)) /\ Hour(w) = h)
              /\ SF_watcherVars(BeatsAnswer(w) /\ Hour(w) = h)
    /\ WF_watcherVars(Tick)

Spec == Init /\ [][Next]_watcherVars
FairSpec == Spec /\ Fairness

-------------------------------------------------------------------------------
(* Properties                                                                *)

\* Every closed hour is dealt with in the end, as long as fewer hours fail for
\* good than are tried in one tick (beats.py:178).
HoursDealtWith == \A h \in Hours \ Failing : (h \in Due) ~> (run[h] # "none")

\* A session that ended with events gets its summary, or some worker has tried
\* often enough (finalize.py:26-34, 76-93).
FinalsSettled ==
    \A s \in Sessions :
        (status[s] = "ended" /\ HasEvents(s))
            ~> (text[s] \/ \E w \in Workers : attempts[w][s] = MaxAttempts)
=============================================================================
