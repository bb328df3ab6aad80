---------------------------- MODULE WatcherProofs ----------------------------
(***************************************************************************)
(* What Watcher promises of the lease, of beats and of final summaries,    *)
(* for any number of workers, sessions and hours.                          *)
(*                                                                         *)
(* Beats are written once because the mark in beat_runs picks one writer   *)
(* for each hour, and keeps it picked while it writes, wherever it         *)
(* crashes or fails.  Final summaries have no such mark: only the watcher  *)
(* lease keeps two workers from one session, and it does where ticks are   *)
(* prompt.  Where they are not, the tries of each worker bound the rows:   *)
(* they are counted before the row is committed, and forgotten only after  *)
(* the session has its text, when nobody lists it again.                   *)
(***************************************************************************)
EXTENDS Watcher, FiniteSetTheorems, TLAPS

\* What a worker works on is there, and a session it may try again is among those
\* it has left; the one it is at may have used up its attempts.
ShapeAt(w) ==
    /\ tick[w].step \in {"ask", "mark", "write"} => tick[w].hours # {}
    /\ tick[w].step \in {"final", "set"} => tick[w].sessions # {}
    /\ tick[w].step = "idle" => tick[w].sessions = {}
    /\ tick[w].step \in {"final", "set"} => attempts[w][Sess(w)] > 0
    /\ \A s \in tick[w].sessions :
         \/ attempts[w][s] < MaxAttempts
         \/ tick[w].step \in {"final", "set"} /\ s = Sess(w)
Shape == \A w \in Workers : ShapeAt(w)

Writes(w) == tick[w].step = "write"

\* An hour that is not marked has no beats, and a marked one has its beats, is
\* blank, lost them, or has a writer.
HoursOK ==
    \A h \in Hours :
        /\ beats[h] <= 1
        /\ run[h] = "none" => beats[h] = 0
        /\ run[h] = "done" => beats[h] > 0 \/ h \in blank \/ h \in lost \/ BeingWritten(h)

\* The writer of an hour is the only one, and has not written.
WritersOK ==
    \A w \in Workers : Writes(w) =>
        /\ run[Hour(w)] = "done" /\ beats[Hour(w)] = 0
        /\ \A v \in Workers : Writes(v) /\ Hour(v) = Hour(w) => v = w

\* Who is in a tick holds the lease.
LeaseOK ==
    prompt => \A w \in Workers : Busy(w) => lease[Key].owner = w /\ lease[Key].left >= 0

\* Somebody has committed the final summary of s and not yet its text.
Committed(s) == \E w \in Workers : Alive(w) /\ tick[w].step = "set" /\ Sess(w) = s

\* Every row beyond the first was left by a crash or an error.
FinalsOK ==
    prompt =>
        /\ \A w \in Workers : Alive(w) => \A s \in tick[w].sessions : ~text[s]
        /\ \A s \in Sessions :
             finals[s] <= Cardinality(dead) + torn[s] + IF text[s] \/ Committed(s) THEN 1 ELSE 0

\* The tries a worker may make of a session.  Its n-th may still commit a final
\* summary of s: the worker is up and has not counted further, and where the session
\* has its text, s was listed before.
Tries == Workers \X (1 .. MaxAttempts)
MayCommit(w, n, s) ==
    /\ Alive(w)
    /\ text[s] => s \in tick[w].sessions
    /\ \/ n > attempts[w][s]
       \/ n = attempts[w][s] /\ tick[w].step = "final" /\ Sess(w) = s
Spent(s) == {p \in Tries : ~MayCommit(p[1], p[2], s)}

\* Every row is that of a try that commits no other one.
SpentOK == \A s \in Sessions : finals[s] <= Cardinality(Spent(s))

IInv == TypeOK /\ Shape /\ HoursOK /\ WritersOK /\ LeaseOK /\ FinalsOK /\ SpentOK

-------------------------------------------------------------------------------
(* Least and greatest elements                                               *)

\* A finite set has a minimal element in any strict order.
LEMMA Minimal ==
    ASSUME NEW S, IsFiniteSet(S), S # {}, NEW Order,
           \A x \in S : <<x, x>> \notin Order,
           \A x, y, z \in S : <<x, y>> \in Order /\ <<y, z>> \in Order => <<x, z>> \in Order
    PROVE  \E x \in S : \A y \in S : <<y, x>> \notin Order
  <1> DEFINE Below(x) == {y \in S : <<y, x>> \in Order}
             T == {Below(x) : x \in S}
             R == StrictSubsetOrdering(S)
  <1>1. IsWellFoundedOn(R, FiniteSubsetsOf(S))
    BY FS_StrictSubsetOrderingWellFounded
  <1>2. T \subseteq FiniteSubsetsOf(S)
    <2> SUFFICES ASSUME NEW x \in S PROVE Below(x) \in FiniteSubsetsOf(S)
      OBVIOUS
    <2>1. IsFiniteSet(Below(x))
      BY FS_Subset
    <2> QED BY <2>1 DEF FiniteSubsetsOf
  <1>3. T # {}
    <2> HIDE DEF Below
    <2> QED OBVIOUS
  <1>4. \E a \in T : \A b \in T : <<b, a>> \notin R
    <2> HIDE DEF T, R
    <2> QED BY <1>1, <1>2, <1>3, WFMin
  <1>5. PICK x \in S : \A y \in S : <<Below(y), Below(x)>> \notin R
    <2> HIDE DEF Below, R
    <2> QED BY <1>4
  <1>6. ASSUME NEW y \in S PROVE <<y, x>> \notin Order
    <2> SUFFICES ASSUME <<y, x>> \in Order PROVE FALSE
      OBVIOUS
    <2>1. y \in Below(x) /\ y \notin Below(y)
      OBVIOUS
    <2>2. Below(y) \subseteq Below(x)
      OBVIOUS
    <2>3. <<Below(y), Below(x)>> \in R
      BY <2>1, <2>2 DEF StrictSubsetOrdering
    <2> QED BY <1>5, <2>3
  <1> QED BY <1>6

LEMMA MinIn ==
    ASSUME NEW S \in SUBSET Int, IsFiniteSet(S), S # {}
    PROVE  Min(S) \in S
  <1> DEFINE Order == {p \in S \X S : p[1] < p[2]}
  <1>0. \A x, y \in S : <<x, y>> \in Order <=> x < y
    OBVIOUS
  <1>1. \E x \in S : \A y \in S : <<y, x>> \notin Order
    <2>1. \A x \in S : <<x, x>> \notin Order
      BY <1>0
    <2>2. \A x, y, z \in S : <<x, y>> \in Order /\ <<y, z>> \in Order => <<x, z>> \in Order
      BY <1>0
    <2> HIDE DEF Order
    <2> QED BY <2>1, <2>2, Minimal
  <1>2. \E x \in S : \A y \in S : x <= y
    <2>1. PICK x \in S : \A y \in S : <<y, x>> \notin Order
      BY <1>1
    <2>2. ASSUME NEW y \in S PROVE x <= y
      <3> HIDE DEF Order
      <3>1. x \in Int /\ y \in Int /\ ~(y < x)
        BY <1>0, <2>1
      <3> QED BY <3>1
    <2> QED BY <2>2
  <1> QED BY <1>2 DEF Min

LEMMA MaxIn ==
    ASSUME NEW S \in SUBSET Int, IsFiniteSet(S), S # {}
    PROVE  Max(S) \in S
  <1> DEFINE Order == {p \in S \X S : p[1] > p[2]}
  <1>0. \A x, y \in S : <<x, y>> \in Order <=> x > y
    OBVIOUS
  <1>1. \E x \in S : \A y \in S : <<y, x>> \notin Order
    <2>1. \A x \in S : <<x, x>> \notin Order
      BY <1>0
    <2>2. \A x, y, z \in S : <<x, y>> \in Order /\ <<y, z>> \in Order => <<x, z>> \in Order
      BY <1>0
    <2> HIDE DEF Order
    <2> QED BY <2>1, <2>2, Minimal
  <1>2. \E x \in S : \A y \in S : x >= y
    <2>1. PICK x \in S : \A y \in S : <<y, x>> \notin Order
      BY <1>1
    <2>2. ASSUME NEW y \in S PROVE x >= y
      <3> HIDE DEF Order
      <3>1. x \in Int /\ y \in Int /\ ~(y > x)
        BY <1>0, <2>1
      <3> QED BY <3>1
    <2> QED BY <2>2
  <1> QED BY <1>2 DEF Max

LEMMA Constant ==
    ASSUME WatcherConstants
    PROVE  /\ Hours \subseteq Int /\ IsFiniteSet(Hours)
           /\ Sessions \subseteq Int /\ IsFiniteSet(Sessions)
           /\ None \notin Workers /\ IsFiniteSet(Workers)
           /\ MaxAttempts \in Nat \ {0} /\ HoursEach \in Nat \ {0} /\ TTL \in Nat \ {0}
  <1>1. /\ MaxSessions \in Nat \ {0} /\ HoursEach \in Nat \ {0}
        /\ None \notin Workers /\ IsFiniteSet(Workers)
        /\ MaxAttempts \in Nat \ {0} /\ TTL \in Nat \ {0}
    BY DEF WatcherConstants
  <1>2. MaxSessions * HoursEach \in Nat
    BY <1>1
  <1>3. IsFiniteSet(Hours) /\ IsFiniteSet(Sessions)
    BY <1>1, <1>2, FS_Interval DEF Hours, Sessions
  <1> QED BY <1>1, <1>2, <1>3 DEF Hours, Sessions

\* The hour and the session a worker is at are among those it has left.
LEMMA HourIn ==
    ASSUME WatcherConstants, TypeOK, NEW w \in Workers, tick[w].hours # {}
    PROVE  Hour(w) \in tick[w].hours /\ Hour(w) \in Hours
  <1>1. tick[w].hours \subseteq Hours
    BY DEF TypeOK
  <1>2. tick[w].hours \in SUBSET Int /\ IsFiniteSet(tick[w].hours)
    BY <1>1, Constant, FS_Subset
  <1> QED BY <1>1, <1>2, MinIn DEF Hour

LEMMA SessIn ==
    ASSUME WatcherConstants, TypeOK, NEW w \in Workers, tick[w].sessions # {}
    PROVE  Sess(w) \in tick[w].sessions /\ Sess(w) \in Sessions
  <1>1. tick[w].sessions \subseteq Sessions
    BY DEF TypeOK
  <1>2. tick[w].sessions \in SUBSET Int /\ IsFiniteSet(tick[w].sessions)
    BY <1>1, Constant, FS_Subset
  <1> QED BY <1>1, <1>2, MaxIn DEF Sess

-------------------------------------------------------------------------------
(* What a step of one worker leaves alone                                    *)

WorkerStep(w) == Begin(w) \/ Start(w) \/ TickRaises(w) \/ TickStep(w) \/ BeatsAnswer(w)

\* The steps that have nothing to do with the rows of hours, and those that have
\* nothing to do with final summaries.
HoursAside(w) ==
    UNCHANGED hourRows /\ ~Writes(w) /\ tick'[w].step # "write"
FinalsAside(w) ==
    /\ UNCHANGED finalRows /\ tick[w].step # "set" /\ tick'[w].step # "set"
    /\ tick'[w].sessions \subseteq tick[w].sessions

Ticks == [step : Steps, hours : SUBSET Hours, sessions : SUBSET Sessions]

LEMMA TickType == ASSUME TypeOK PROVE tick \in [Workers -> Ticks]
  BY DEF TypeOK, Ticks

LEMMA Moved ==
    ASSUME TypeOK, NEW w \in Workers, NEW t, tick' = [tick EXCEPT ![w] = t]
    PROVE  tick'[w] = t /\ \A v \in Workers : v # w => tick'[v] = tick[v]
  BY DEF TypeOK

LEMMA GoesOn ==
    ASSUME TypeOK, NEW w \in Workers, NEW step \in Steps, Goes(w, step)
    PROVE  /\ tick' = [tick EXCEPT ![w] = [tick[w] EXCEPT !.step = step]]
           /\ tick'[w].step = step
           /\ tick'[w].hours = tick[w].hours /\ tick'[w].sessions = tick[w].sessions
           /\ \A v \in Workers : v # w => tick'[v] = tick[v]
           /\ tick' \in [Workers -> Ticks]
  BY TickType DEF Goes, Ticks

LEMMA HourDone ==
    ASSUME TypeOK, NEW w \in Workers, NextHour(w)
    PROVE  /\ tick'[w].step = "beats" /\ tick'[w].sessions = tick[w].sessions
           /\ \A v \in Workers : v # w => tick'[v] = tick[v]
           /\ tick' \in [Workers -> Ticks]
  BY TickType DEF NextHour, Steps, Ticks

LEMMA FinalDone ==
    ASSUME TypeOK, NEW w \in Workers, NextFinal(w)
    PROVE  /\ tick'[w].step = "finals" /\ tick'[w].sessions = tick[w].sessions \ {Sess(w)}
           /\ \A v \in Workers : v # w => tick'[v] = tick[v]
           /\ tick' \in [Workers -> Ticks]
  BY TickType DEF NextFinal, Steps, Ticks

LEMMA Lists ==
    ASSUME WatcherConstants, TypeOK, NEW w \in Workers
    PROVE  /\ Checked(w) =>
                /\ tick'[w].step = "beats" /\ tick'[w].sessions = tick[w].sessions
                /\ \A v \in Workers : v # w => tick'[v] = tick[v]
                /\ tick' \in [Workers -> Ticks]
           /\ BeatsDone(w) =>
                /\ tick'[w].step = "finals" /\ tick'[w].sessions \subseteq Pending(w)
                /\ \A v \in Workers : v # w => tick'[v] = tick[v]
                /\ tick' \in [Workers -> Ticks]
           /\ TickRaises(w) \/ TickEnds(w) =>
                /\ tick'[w] = Idle
                /\ \A v \in Workers : v # w => tick'[v] = tick[v]
                /\ tick' \in [Workers -> Ticks]
  <1>1. ASSUME Checked(w)
        PROVE  /\ tick'[w].step = "beats" /\ tick'[w].sessions = tick[w].sessions
               /\ \A v \in Workers : v # w => tick'[v] = tick[v]
               /\ tick' \in [Workers -> Ticks]
    <2>1. FirstHours(Due) \subseteq Hours
      BY DEF FirstHours, Due
    <2> DEFINE some == FirstHours(Due)
    <2>2. tick' = [tick EXCEPT ![w].step = "beats", ![w].hours = some]
      BY <1>1 DEF Checked
    <2>3. some \subseteq Hours
      BY <2>1
    <2> HIDE DEF some
    <2> QED BY <2>2, <2>3, TickType DEF Steps, Ticks
  <1>2. ASSUME BeatsDone(w)
        PROVE  /\ tick'[w].step = "finals" /\ tick'[w].sessions \subseteq Pending(w)
               /\ \A v \in Workers : v # w => tick'[v] = tick[v]
               /\ tick' \in [Workers -> Ticks]
    <2>1. LastSessions(Pending(w)) \subseteq Pending(w) /\ Pending(w) \subseteq Sessions
      BY DEF LastSessions, Pending
    <2> DEFINE some == LastSessions(Pending(w))
    <2>2. tick' = [tick EXCEPT ![w].step = "finals", ![w].sessions = some]
      BY <1>2 DEF BeatsDone
    <2>3. some \subseteq Pending(w) /\ some \subseteq Sessions
      BY <2>1
    <2> HIDE DEF some
    <2>4. tick'[w].step = "finals" /\ tick'[w].sessions = some /\ tick' \in [Workers -> Ticks]
      BY <2>2, <2>3, TickType DEF Steps, Ticks
    <2> QED BY <2>2, <2>3, <2>4, TickType
  <1>3. ASSUME TickRaises(w) \/ TickEnds(w)
        PROVE  /\ tick'[w] = Idle
               /\ \A v \in Workers : v # w => tick'[v] = tick[v]
               /\ tick' \in [Workers -> Ticks]
    <2>1. tick' = [tick EXCEPT ![w] = Idle]
      BY <1>3 DEF TickRaises, TickEnds
    <2>2. Idle \in Ticks
      BY DEF Idle, Ticks, Steps
    <2>3. tick \in [Workers -> Ticks]
      BY DEF TypeOK, Ticks
    <2> QED BY <2>1, <2>2, <2>3
  <1> QED BY <1>1, <1>2, <1>3

LEMMA WorkerTick ==
    ASSUME WatcherConstants, TypeOK, NEW w \in Workers, WorkerStep(w)
    PROVE  /\ \A v \in Workers : v # w => tick'[v] = tick[v]
           /\ tick' \in [Workers -> Ticks]
           /\ dead' = dead /\ prompt' = prompt /\ Alive(w)
  <1>1. dead' = dead /\ prompt' = prompt /\ Alive(w)
    BY DEF WorkerStep, TickStep, Begin, Start, TickRaises, Checked, Quiet, BudgetSkips,
           AskBeats, Mark, WriteBeats, BeatsDone, Finalize, SaveFinal, SetFinal, TickEnds,
           BeatsFail, FinalFails, BeatsAnswer, At, Busy
  <1>2. \/ \E step \in Steps : Goes(w, step)
        \/ NextHour(w) \/ NextFinal(w)
        \/ Checked(w) \/ BeatsDone(w) \/ TickRaises(w) \/ TickEnds(w)
    BY DEF WorkerStep, TickStep, Begin, Start, Quiet, BudgetSkips, AskBeats, Mark, WriteBeats,
           Finalize, SaveFinal, SetFinal, BeatsFail, FinalFails, BeatsAnswer, Steps
  <1> QED BY <1>1, <1>2, GoesOn, HourDone, FinalDone, Lists

-------------------------------------------------------------------------------
(* Types, and what is left to do                                             *)

LEMMA LeaseTypes ==
    ASSUME WatcherConstants, TypeOK, NEW w \in Workers,
           Hold(w) \/ L!Age \/ L!Purge({Key}) \/ UNCHANGED lease
    PROVE  lease' \in [{Key} -> L!Rows]
  <1>0. TTL \in Nat /\ lease \in [{Key} -> L!Rows]
    BY Constant DEF TypeOK
  <1>1. CASE Hold(w)
    <2>1. L!Row(w, None, TTL, FALSE) \in L!Rows
      BY <1>0 DEF L!Row, L!Rows
    <2>2. CASE lease' = [lease EXCEPT ![Key] = L!Row(w, None, TTL, FALSE)]
      BY <1>0, <2>1, <2>2
    <2>3. CASE lease' = [lease EXCEPT ![Key].left = TTL]
      BY <1>0, <2>3 DEF L!Rows
    <2> QED BY <1>0, <1>1, <2>2, <2>3 DEF Hold, L!Renew, L!Take
  <1>2. CASE L!Age
    <2>1. \A r \in L!Rows : r.left >= 0 => [r EXCEPT !.left = @ - 1] \in L!Rows
      BY <1>0 DEF L!Rows
    <2>2. lease[Key] \in L!Rows
      BY <1>0
    <2>3. lease' = [k \in {Key} |->
                      IF L!Valid(k) THEN [lease[k] EXCEPT !.left = @ - 1] ELSE lease[k]]
      BY <1>2 DEF L!Age
    <2> QED BY <2>1, <2>2, <2>3 DEF L!Valid
  <1>3. CASE L!Purge({Key})
    BY <1>0, <1>3 DEF L!Purge, L!Expired, L!Present, L!NoRow, L!Row, L!Rows
  <1> QED BY <1>0, <1>1, <1>2, <1>3

LEMMA SetAttemptsOf ==
    ASSUME WatcherConstants, TypeOK, NEW w \in Workers, tick[w].sessions # {},
           NEW n \in 0 .. MaxAttempts, SetAttempts(w, n)
    PROVE  /\ attempts' \in [Workers -> [Sessions -> 0 .. MaxAttempts]]
           /\ \A v \in Workers : v # w => attempts'[v] = attempts[v]
           /\ \A s \in Sessions : s # Sess(w) => attempts'[w][s] = attempts[w][s]
           /\ attempts'[w][Sess(w)] = n
  <1>1. Sess(w) \in Sessions
    BY SessIn
  <1> HIDE DEF Sessions
  <1> QED BY <1>1 DEF SetAttempts, TypeOK

LEMMA Attempted ==
    ASSUME WatcherConstants, TypeOK, NEW w \in Workers, ShapeAt(w), WorkerStep(w)
    PROVE  /\ attempts' \in [Workers -> [Sessions -> 0 .. MaxAttempts]]
           /\ \A v \in Workers : v # w => attempts'[v] = attempts[v]
           /\ \A s \in Sessions : attempts'[w][s] # attempts[w][s] =>
                tick[w].sessions # {} /\ s = Sess(w)
           /\ UNCHANGED attempts \/ Finalize(w) \/ SetFinal(w)
           /\ Finalize(w) => attempts'[w][Sess(w)] > attempts[w][Sess(w)]
  <1>1. CASE Finalize(w)
    <2>1. tick[w].sessions # {} /\ tick[w].step = "finals"
      BY <1>1 DEF Finalize, At
    <2>2. Sess(w) \in tick[w].sessions /\ Sess(w) \in Sessions
      BY <2>1, SessIn
    <2>3. attempts[w][Sess(w)] \in 0 .. MaxAttempts
      BY <2>2 DEF TypeOK
    <2>4. attempts[w][Sess(w)] < MaxAttempts
      BY <2>1, <2>2 DEF ShapeAt
    <2>5. MaxAttempts \in 0 .. MaxAttempts /\ attempts[w][Sess(w)] + 1 \in 0 .. MaxAttempts
      BY <2>3, <2>4, Constant
    <2>6. PICK n \in 0 .. MaxAttempts : SetAttempts(w, n) /\ n > attempts[w][Sess(w)]
      BY <1>1, <2>3, <2>4, <2>5 DEF Finalize
    <2>7. /\ attempts' \in [Workers -> [Sessions -> 0 .. MaxAttempts]]
          /\ \A v \in Workers : v # w => attempts'[v] = attempts[v]
          /\ \A s \in Sessions : s # Sess(w) => attempts'[w][s] = attempts[w][s]
          /\ attempts'[w][Sess(w)] = n
      BY <2>1, <2>6, SetAttemptsOf
    <2> QED BY <1>1, <2>1, <2>6, <2>7
  <1>2. CASE SetFinal(w)
    <2>1. tick[w].sessions # {}
      BY <1>2 DEF SetFinal, At, ShapeAt
    <2>2. 0 \in 0 .. MaxAttempts
      BY Constant
    <2>3. SetAttempts(w, 0)
      BY <1>2 DEF SetFinal
    <2>4. /\ attempts' \in [Workers -> [Sessions -> 0 .. MaxAttempts]]
          /\ \A v \in Workers : v # w => attempts'[v] = attempts[v]
          /\ \A s \in Sessions : s # Sess(w) => attempts'[w][s] = attempts[w][s]
      BY <2>1, <2>2, <2>3, SetAttemptsOf
    <2>5. ~Finalize(w)
      BY <1>2 DEF SetFinal, Finalize, At
    <2> QED BY <1>2, <2>1, <2>4, <2>5
  <1>3. CASE UNCHANGED attempts /\ ~Finalize(w)
    <2>1. attempts \in [Workers -> [Sessions -> 0 .. MaxAttempts]]
      BY DEF TypeOK
    <2> QED BY <1>3, <2>1
  <1> QED BY <1>1, <1>2, <1>3
          DEF WorkerStep, TickStep, Begin, Start, TickRaises, Checked, Quiet, BudgetSkips,
              AskBeats, Mark, WriteBeats, BeatsDone, SaveFinal, TickEnds, BeatsFail, FinalFails,
              BeatsAnswer

LEMMA WorkerTypes ==
    ASSUME WatcherConstants, TypeOK, NEW w \in Workers, ShapeAt(w), WorkerStep(w)
    PROVE  TypeOK'
  <1>1. /\ tick' \in [Workers -> Ticks] /\ dead' = dead /\ prompt' = prompt
        /\ attempts' \in [Workers -> [Sessions -> 0 .. MaxAttempts]]
    BY WorkerTick, Attempted
  <1>2. lease' \in [{Key} -> L!Rows]
    <2>1. Hold(w) \/ UNCHANGED lease
      BY DEF WorkerStep, TickStep, Begin, Start, TickRaises, Checked, Quiet, BudgetSkips,
             AskBeats, Mark, WriteBeats, BeatsDone, Finalize, SaveFinal, SetFinal, TickEnds,
             BeatsFail, FinalFails, BeatsAnswer
    <2> QED BY <2>1, LeaseTypes
  <1>3. /\ status' \in [Sessions -> {"none", "live", "ended"}]
        /\ UNCHANGED <<age, notable, eventful>>
    <2>1. CASE UNCHANGED sessions
      BY <2>1 DEF sessions, TypeOK
    <2>2. CASE Start(w)
      BY <2>2 DEF Start, TypeOK
    <2> QED BY <2>1, <2>2
            DEF WorkerStep, TickStep, Begin, TickRaises, Checked, Quiet, BudgetSkips,
                AskBeats, Mark, WriteBeats, BeatsDone, Finalize, SaveFinal, SetFinal, TickEnds,
                BeatsFail, FinalFails, BeatsAnswer
  <1>4. /\ run' \in [Hours -> {"none", "done", "skipped"}]
        /\ beats' \in [Hours -> Nat] /\ blank' \subseteq Hours /\ lost' \subseteq Hours
    <2>1. CASE UNCHANGED hourRows
      BY <2>1 DEF hourRows, TypeOK
    <2>2. CASE Quiet(w) \/ Mark(w)
      BY <2>2 DEF Quiet, Mark, TypeOK
    <2>3. CASE WriteBeats(w)
      <3>1. Hour(w) \in Hours
        BY <2>3, HourIn DEF WriteBeats, At, ShapeAt
      <3> QED BY <2>3, <3>1 DEF WriteBeats, TypeOK
    <2>4. CASE TickRaises(w)
      <3>1. At(w, "write") => Hour(w) \in Hours
        BY HourIn DEF At, ShapeAt
      <3> QED BY <2>4, <3>1 DEF TickRaises, TypeOK
    <2> QED BY <2>1, <2>2, <2>3, <2>4
            DEF WorkerStep, TickStep, Begin, Start, Checked, BudgetSkips,
                AskBeats, BeatsDone, Finalize, SaveFinal, SetFinal, TickEnds, BeatsFail,
                FinalFails, BeatsAnswer
  <1>5. /\ finals' \in [Sessions -> Nat] /\ text' \in [Sessions -> BOOLEAN]
        /\ torn' \in [Sessions -> Nat]
    <2>0. /\ finals \in [Sessions -> Nat] /\ text \in [Sessions -> BOOLEAN]
          /\ torn \in [Sessions -> Nat]
      BY DEF TypeOK
    <2>1. CASE UNCHANGED finalRows
      BY <2>0, <2>1 DEF finalRows
    <2>2. CASE SaveFinal(w)
      <3>1. Sess(w) \in Sessions
        BY <2>2, SessIn DEF SaveFinal, At, ShapeAt
      <3> HIDE DEF Sessions
      <3> QED BY <2>0, <2>2, <3>1 DEF SaveFinal
    <2>3. CASE SetFinal(w)
      BY <2>0, <2>3 DEF SetFinal
    <2>4. CASE TickRaises(w)
      <3>1. At(w, "set") => Sess(w) \in Sessions
        BY SessIn DEF At, ShapeAt
      <3> HIDE DEF Sessions
      <3> QED BY <2>0, <2>4, <3>1 DEF TickRaises
    <2> QED BY <2>1, <2>2, <2>3, <2>4
            DEF WorkerStep, TickStep, Begin, Start, Checked, Quiet, BudgetSkips,
                AskBeats, Mark, WriteBeats, BeatsDone, Finalize, TickEnds, BeatsFail,
                FinalFails, BeatsAnswer
  <1> QED BY <1>1, <1>2, <1>3, <1>4, <1>5 DEF TypeOK, Ticks

LEMMA WorkerShape ==
    ASSUME WatcherConstants, TypeOK, Shape, NEW w \in Workers, WorkerStep(w)
    PROVE  Shape'
  <1>0. ShapeAt(w)
    BY DEF Shape
  <1>1. /\ \A v \in Workers : v # w => tick'[v] = tick[v] /\ attempts'[v] = attempts[v]
        /\ \A s \in Sessions : attempts'[w][s] # attempts[w][s] =>
              tick[w].sessions # {} /\ s = Sess(w)
        /\ tick' \in [Workers -> Ticks]
        /\ UNCHANGED attempts \/ Finalize(w) \/ SetFinal(w)
        /\ Finalize(w) => attempts'[w][Sess(w)] > attempts[w][Sess(w)]
    BY <1>0, WorkerTick, Attempted
  <1>a. tick[w].step \notin {"final", "set"} =>
          \A s \in tick[w].sessions : attempts[w][s] < MaxAttempts
    BY <1>0 DEF ShapeAt
  <1>2. ASSUME NEW v \in Workers, v # w PROVE ShapeAt(v)'
    BY <1>1, <1>2 DEF Shape, ShapeAt, Sess
  <1>3. ShapeAt(w)'
    <2>1. CASE Begin(w) \/ Start(w) \/ AskBeats(w) \/ BeatsAnswer(w)
      <3>1. /\ attempts' = attempts /\ tick'[w].sessions = tick[w].sessions
            /\ tick'[w].hours = tick[w].hours
            /\ tick[w].step \notin {"final", "set"}
            /\ tick'[w].step \in {"check", "ask", "mark"}
            /\ tick'[w].step # "check" => tick[w].hours # {}
        <4>1. CASE Begin(w) \/ Start(w)
          BY <4>1, GoesOn DEF Begin, Start, At, Steps
        <4>2. CASE AskBeats(w)
          BY <4>2, GoesOn DEF AskBeats, At, Steps
        <4>3. CASE BeatsAnswer(w)
          BY <1>0, <4>3, GoesOn DEF BeatsAnswer, At, ShapeAt, Steps
        <4> QED BY <2>1, <4>1, <4>2, <4>3
      <3>2. tick'[w].step \notin {"final", "set", "idle", "write"}
        BY <3>1
      <3> QED BY <1>a, <3>1, <3>2 DEF ShapeAt
    <2>2. CASE Mark(w) /\ Goes(w, "write")
      <3>1. /\ attempts' = attempts /\ tick'[w].sessions = tick[w].sessions
            /\ tick'[w].hours = tick[w].hours /\ tick[w].hours # {}
            /\ tick[w].step = "mark" /\ tick'[w].step = "write"
        BY <1>0, <2>2, GoesOn DEF Mark, At, ShapeAt, Steps
      <3> QED BY <1>a, <3>1 DEF ShapeAt
    <2>3. CASE NextHour(w) /\ tick[w].step \in {"beats", "ask", "mark", "write"}
      <3>1. tick'[w].step = "beats" /\ tick'[w].sessions = tick[w].sessions
        BY <2>3, HourDone
      <3>2. UNCHANGED attempts
        BY <1>1, <2>3 DEF Finalize, SetFinal, At
      <3> QED BY <1>a, <2>3, <3>1, <3>2 DEF ShapeAt
    <2>4. CASE Checked(w)
      <3>1. tick'[w].step = "beats" /\ tick'[w].sessions = tick[w].sessions
        BY <2>4, Lists
      <3>2. attempts' = attempts /\ tick[w].step = "check"
        BY <2>4 DEF Checked, At
      <3> QED BY <1>a, <3>1, <3>2 DEF ShapeAt
    <2>5. CASE BeatsDone(w)
      <3>1. tick'[w].step = "finals" /\ tick'[w].sessions \subseteq Pending(w)
        BY <2>5, Lists
      <3>2. attempts' = attempts
        BY <2>5 DEF BeatsDone
      <3>3. \A s \in tick'[w].sessions : attempts'[w][s] < MaxAttempts
        BY <3>1, <3>2 DEF Pending
      <3> QED BY <3>1, <3>3 DEF ShapeAt
    <2>6. CASE TickRaises(w) \/ TickEnds(w)
      BY <2>6, Lists DEF ShapeAt, Idle
    <2>7. CASE Finalize(w) /\ Goes(w, "final")
      <3>1. /\ tick'[w].step = "final" /\ tick'[w].sessions = tick[w].sessions
            /\ tick[w].step = "finals" /\ tick[w].sessions # {}
        BY <2>7, GoesOn DEF Finalize, At, Steps
      <3>2. Sess(w)' = Sess(w) /\ tick[w].sessions \subseteq Sessions
        BY <3>1 DEF Sess, TypeOK
      <3>3. attempts'[w][Sess(w)] > 0
        <4>1. attempts[w][Sess(w)] \in Nat /\ attempts'[w][Sess(w)] \in Nat
          BY <1>0, <3>1, SessIn, Attempted DEF TypeOK
        <4> QED BY <1>1, <2>7, <4>1
      <3> QED BY <1>0, <1>1, <3>1, <3>2, <3>3 DEF ShapeAt
    <2>8. CASE SaveFinal(w)
      <3>1. /\ tick'[w].step = "set" /\ tick'[w].sessions = tick[w].sessions
            /\ tick[w].step = "final" /\ attempts' = attempts
        BY <2>8, GoesOn DEF SaveFinal, At, Steps
      <3>2. Sess(w)' = Sess(w)
        BY <3>1 DEF Sess
      <3> QED BY <1>0, <3>1, <3>2 DEF ShapeAt
    <2>9. CASE NextFinal(w)
      <3>1. tick'[w].step = "finals" /\ tick'[w].sessions = tick[w].sessions \ {Sess(w)}
        BY <2>9, FinalDone
      <3>2. tick[w].sessions \subseteq Sessions
        BY DEF TypeOK
      <3> QED BY <1>0, <1>1, <3>1, <3>2 DEF ShapeAt
    <2> QED BY <2>1, <2>2, <2>3, <2>4, <2>5, <2>6, <2>7, <2>8, <2>9
            DEF WorkerStep, TickStep, Quiet, BudgetSkips, Mark, WriteBeats, Finalize, SetFinal,
                BeatsFail, FinalFails, At
  <1> QED BY <1>2, <1>3 DEF Shape

\* Streams, crashes and time.
OtherStep ==
    \/ \E w \in Workers : Crash(w)
    \/ \E s \in Sessions : HourPasses(s) \/ StreamEnds(s)
    \/ \E h \in Hours : EventCommitted(h)
    \/ Tick \/ PurgeExpired
    \/ UNCHANGED watcherVars

LEMMA OtherFrame ==
    ASSUME OtherStep
    PROVE  /\ UNCHANGED <<tick, attempts, prompt, run, beats, blank, lost, finals, text, torn>>
           /\ \/ UNCHANGED <<lease, dead>>
              \/ UNCHANGED lease /\ \E w \in Workers : Alive(w) /\ dead' = dead \cup {w}
              \/ UNCHANGED dead /\ (Tick \/ PurgeExpired)
  BY DEF OtherStep, Crash, HourPasses, StreamEnds, EventCommitted, Tick, PurgeExpired,
         watcherVars, sessions, hourRows, finalRows

LEMMA OtherTypes == ASSUME WatcherConstants, TypeOK, Shape, OtherStep PROVE TypeOK' /\ Shape'
  <1>1. /\ UNCHANGED <<tick, attempts, prompt, run, beats, blank, lost, finals, text, torn>>
        /\ dead' \subseteq Workers
    BY OtherFrame DEF TypeOK
  <1>2. lease' \in [{Key} -> L!Rows]
    <2>1. UNCHANGED lease \/ L!Age \/ L!Purge({Key})
      BY DEF OtherStep, Crash, HourPasses, StreamEnds, EventCommitted, Tick, PurgeExpired,
             watcherVars
    <2>2. CASE Workers = {}
      <3>1. lease \in [{Key} -> L!Rows] /\ TTL \in Nat
        BY Constant DEF TypeOK
      <3>2. CASE L!Age
        <4>1. ~L!Valid(Key)
          BY <2>2, <3>1 DEF L!Valid, L!Present, L!Rows
        <4>2. lease' = [k \in {Key} |->
                          IF L!Valid(k) THEN [lease[k] EXCEPT !.left = @ - 1] ELSE lease[k]]
          BY <3>2 DEF L!Age
        <4> QED BY <3>1, <4>1, <4>2
      <3>3. CASE L!Purge({Key})
        BY <3>1, <3>3 DEF L!Purge, L!Expired, L!Present, L!NoRow, L!Row, L!Rows
      <3> QED BY <2>1, <3>1, <3>2, <3>3
    <2>3. CASE Workers # {}
      <3>1. PICK w \in Workers : TRUE
        BY <2>3
      <3> QED BY <2>1, <3>1, LeaseTypes
    <2> QED BY <2>2, <2>3
  <1> DEFINE StoryTypes ==
        /\ status' \in [Sessions -> {"none", "live", "ended"}]
        /\ age' \in [Sessions -> 0 .. HoursEach - 1]
        /\ notable' \subseteq Hours /\ eventful' \subseteq Sessions
  <1>3. StoryTypes
    <2>0. /\ status \in [Sessions -> {"none", "live", "ended"}]
          /\ age \in [Sessions -> 0 .. HoursEach - 1]
          /\ notable \subseteq Hours /\ eventful \subseteq Sessions
          /\ HoursEach \in Nat \ {0}
      BY Constant DEF TypeOK
    <2>1. CASE UNCHANGED sessions
      BY <2>0, <2>1 DEF sessions
    <2>2. ASSUME NEW s \in Sessions, HourPasses(s) \/ StreamEnds(s)
          PROVE  StoryTypes
      <3> HIDE DEF Sessions
      <3> QED BY <2>0, <2>2 DEF HourPasses, StreamEnds
    <2>3. ASSUME NEW h \in Hours, EventCommitted(h)
          PROVE  StoryTypes
      <3>1. SessionOf(h) \in Sessions
        <4>1. HoursEach \in Nat \ {0} /\ MaxSessions \in Nat \ {0}
          BY DEF WatcherConstants
        <4> QED BY <4>1 DEF Sessions, SessionOf, Hours
      <3> QED BY <2>0, <2>3, <3>1 DEF EventCommitted
    <2>4. \/ UNCHANGED sessions
          \/ \E s \in Sessions : HourPasses(s) \/ StreamEnds(s)
          \/ \E h \in Hours : EventCommitted(h)
      BY DEF OtherStep, Crash, Tick, PurgeExpired, watcherVars, sessions
    <2> QED BY <2>1, <2>2, <2>3, <2>4
  <1>4. TypeOK'
    BY <1>1, <1>2, <1>3 DEF TypeOK
  <1>5. Shape'
    BY <1>1 DEF Shape, ShapeAt, Sess
  <1> QED BY <1>4, <1>5

-------------------------------------------------------------------------------
(* Beats                                                                     *)

\* A step that leaves the rows and the writers as they are.
LEMMA HoursKept ==
    ASSUME HoursOK, WritersOK, UNCHANGED hourRows,
           \A w \in Workers : tick'[w] = tick[w] \/ (~Writes(w) /\ tick'[w].step # "write")
    PROVE  HoursOK' /\ WritersOK'
  <1>1. \A w \in Workers : Writes(w)' <=> Writes(w)
    BY DEF Writes
  <1>2. \A w \in Workers : Writes(w) => Hour(w)' = Hour(w)
    BY DEF Writes, Hour
  <1>3. \A h \in Hours : BeingWritten(h) => BeingWritten(h)'
    BY <1>1, <1>2 DEF BeingWritten, Writes
  <1>4. run' = run /\ beats' = beats /\ blank' = blank /\ lost' = lost
    BY DEF hourRows
  <1>5. HoursOK'
    BY <1>3, <1>4 DEF HoursOK
  <1>6. WritersOK'
    BY <1>1, <1>2, <1>4 DEF WritersOK
  <1> QED BY <1>5, <1>6

LEMMA HoursStep ==
    ASSUME WatcherConstants, TypeOK, Shape, HoursOK, WritersOK, NEW w \in Workers,
           WorkerStep(w)
    PROVE  HoursOK' /\ WritersOK'
  <1>0. /\ \A v \in Workers : v # w => tick'[v] = tick[v]
        /\ ShapeAt(w)
    BY WorkerTick DEF Shape
  <1>a. \A v \in Workers : v # w => (Writes(v)' <=> Writes(v)) /\ Hour(v)' = Hour(v)
    BY <1>0 DEF Writes, Hour
  <1>1. CASE HoursAside(w)
    BY <1>0, <1>1, HoursKept DEF HoursAside
  <1>2. CASE Quiet(w)
    <2>1. /\ ~Writes(w) /\ tick'[w].step = "beats" /\ Hour(w) \in Hours
      BY <1>2, HourDone, HourIn DEF Quiet, At, Writes
    <2>2. CASE run' = run
      BY <1>0, <1>2, <2>1, <2>2, HoursKept DEF Quiet, hourRows
    <2>3. CASE run[Hour(w)] = "none" /\ run' = [run EXCEPT ![Hour(w)] = "skipped"]
      <3>1. /\ \A h \in Hours : h # Hour(w) => run'[h] = run[h]
            /\ run'[Hour(w)] = "skipped" /\ beats' = beats /\ blank' = blank /\ lost' = lost
        BY <1>2, <2>1, <2>3 DEF Quiet, TypeOK
      <3>2. ~Writes(w) /\ ~Writes(w)'
        BY <2>1 DEF Writes
      <3>3. \A h \in Hours : BeingWritten(h) => BeingWritten(h)'
        BY <1>a, <3>2 DEF BeingWritten, Writes
      <3>4. HoursOK'
        BY <3>1, <3>3 DEF HoursOK
      <3>5. \A v \in Workers : Writes(v) => Hour(v) # Hour(w) /\ Hour(v) \in Hours
        <4> SUFFICES ASSUME NEW v \in Workers, Writes(v)
                     PROVE  Hour(v) # Hour(w) /\ Hour(v) \in Hours
          OBVIOUS
        <4>1. run[Hour(v)] = "done"
          BY DEF WritersOK
        <4>2. tick[v].hours # {}
          BY DEF Writes, Shape, ShapeAt
        <4> QED BY <2>3, <4>1, <4>2, HourIn
      <3>6. WritersOK'
        BY <1>a, <3>1, <3>2, <3>5 DEF WritersOK
      <3> QED BY <3>4, <3>6
    <2> QED BY <1>2, <2>2, <2>3 DEF Quiet
  <1>3. CASE Mark(w)
    <2>1. CASE run' = run /\ NextHour(w)
      <3>1. tick'[w].step = "beats" /\ ~Writes(w)
        BY <1>3, <2>1, HourDone DEF Mark, At, Writes
      <3> QED BY <1>0, <1>3, <2>1, <3>1, HoursKept DEF Mark, hourRows
    <2>2. CASE /\ run[Hour(w)] = "none" /\ run' = [run EXCEPT ![Hour(w)] = "done"]
               /\ Goes(w, "write")
      <3>0. Hour(w) \in Hours
        BY <1>0, <1>3, HourIn DEF Mark, At, ShapeAt
      <3>1. /\ \A h \in Hours : h # Hour(w) => run'[h] = run[h]
            /\ run'[Hour(w)] = "done" /\ beats' = beats /\ blank' = blank /\ lost' = lost
        BY <1>3, <2>2, <3>0 DEF Mark, TypeOK
      <3>2. tick'[w].step = "write" /\ tick'[w].hours = tick[w].hours
        BY <2>2, GoesOn DEF Steps
      <3>3. Writes(w)' /\ Hour(w)' = Hour(w) /\ ~Writes(w)
        BY <1>3, <3>2 DEF Writes, Hour, Mark, At
      <3>4. \A h \in Hours : BeingWritten(h) => BeingWritten(h)'
        BY <1>a, <3>3 DEF BeingWritten, Writes
      <3>5. BeingWritten(Hour(w))'
        BY <3>3 DEF BeingWritten, Writes
      <3>6. HoursOK'
        BY <3>0, <3>1, <3>3, <3>4, <3>5 DEF HoursOK
      <3>7. \A v \in Workers : Writes(v) => Hour(v) # Hour(w) /\ Hour(v) \in Hours
        <4> SUFFICES ASSUME NEW v \in Workers, Writes(v)
                     PROVE  Hour(v) # Hour(w) /\ Hour(v) \in Hours
          OBVIOUS
        <4>1. run[Hour(v)] = "done"
          BY DEF WritersOK
        <4>2. tick[v].hours # {}
          BY DEF Writes, Shape, ShapeAt
        <4> QED BY <2>2, <4>1, <4>2, HourIn
      <3>8. beats'[Hour(w)] = 0
        BY <2>2, <3>0, <3>1 DEF HoursOK
      <3>9. WritersOK'
        BY <1>a, <3>1, <3>3, <3>7, <3>8 DEF WritersOK
      <3> QED BY <3>6, <3>9
    <2> QED BY <1>3, <2>1, <2>2 DEF Mark
  <1>4. CASE WriteBeats(w)
    <2>0. Writes(w) /\ Hour(w) \in Hours /\ run' = run
      BY <1>0, <1>4, HourIn DEF WriteBeats, At, ShapeAt, Writes
    <2>1. ~Writes(w)'
      <3>1. tick'[w].step = "beats"
        BY <1>4, HourDone DEF WriteBeats
      <3> QED BY <3>1 DEF Writes
    <2>2. /\ \A h \in Hours : h # Hour(w) => beats'[h] = beats[h]
          /\ blank \subseteq blank' /\ lost' = lost
          /\ \/ beats'[Hour(w)] = 1
             \/ beats'[Hour(w)] = 0 /\ Hour(w) \in blank'
      <3>1. beats[Hour(w)] = 0
        BY <2>0 DEF WritersOK
      <3> QED BY <1>4, <2>0, <3>1 DEF WriteBeats, TypeOK
    <2>3. \A v \in Workers : v # w /\ Writes(v) => Hour(v) # Hour(w) /\ Hour(v) \in Hours
      <3> SUFFICES ASSUME NEW v \in Workers, v # w, Writes(v)
                   PROVE  Hour(v) # Hour(w) /\ Hour(v) \in Hours
        OBVIOUS
      <3>1. tick[v].hours # {}
        BY DEF Writes, Shape, ShapeAt
      <3>2. Hour(v) # Hour(w)
        BY <2>0 DEF WritersOK
      <3> QED BY <3>1, <3>2, HourIn
    <2>4. \A h \in Hours : h # Hour(w) /\ BeingWritten(h) => BeingWritten(h)'
      BY <1>a DEF BeingWritten, Writes
    <2>5. run[Hour(w)] = "done"
      BY <2>0 DEF WritersOK
    <2>6. HoursOK'
      BY <2>0, <2>2, <2>4, <2>5 DEF HoursOK
    <2>7. WritersOK'
      BY <1>a, <2>0, <2>1, <2>2, <2>3 DEF WritersOK
    <2> QED BY <2>6, <2>7
  <1>6. CASE TickRaises(w) /\ Writes(w)
    <2>0. /\ Hour(w) \in Hours /\ ~Writes(w)'
          /\ run' = run /\ beats' = beats /\ blank' = blank /\ lost' = lost \cup {Hour(w)}
      <3>1. tick'[w].step = "idle"
        BY <1>6, Lists DEF Idle
      <3> QED BY <1>0, <1>6, <3>1, HourIn DEF TickRaises, At, Busy, ShapeAt, Writes
    <2>1. \A h \in Hours : h # Hour(w) /\ BeingWritten(h) => BeingWritten(h)'
      BY <1>a DEF BeingWritten, Writes
    <2>2. HoursOK'
      BY <2>0, <2>1 DEF HoursOK
    <2>3. WritersOK'
      BY <1>a, <2>0 DEF WritersOK
    <2> QED BY <2>2, <2>3
  <1>5. ASSUME ~Quiet(w), ~Mark(w), ~WriteBeats(w), ~(TickRaises(w) /\ Writes(w))
        PROVE  HoursAside(w)
    <2>1. UNCHANGED hourRows
      BY <1>5 DEF WorkerStep, TickStep, Begin, Start, TickRaises, Checked, BudgetSkips,
                  AskBeats, BeatsDone, Finalize, SaveFinal, SetFinal, TickEnds, BeatsFail,
                  FinalFails, BeatsAnswer, hourRows, At, Writes
    <2>2. tick[w].step # "write"
      BY <1>5 DEF WorkerStep, TickStep, Begin, Start, TickRaises, Checked, BudgetSkips,
                  AskBeats, BeatsDone, Finalize, SaveFinal, SetFinal, TickEnds, BeatsFail,
                  FinalFails, BeatsAnswer, At, Writes
    <2>3. tick'[w].step # "write"
      <3>1. \/ \E step \in Steps \ {"write"} : Goes(w, step)
            \/ NextHour(w) \/ NextFinal(w)
            \/ Checked(w) \/ BeatsDone(w) \/ TickRaises(w) \/ TickEnds(w)
        BY <1>5 DEF WorkerStep, TickStep, Begin, Start, BudgetSkips, AskBeats, Finalize,
                    SaveFinal, SetFinal, BeatsFail, FinalFails, BeatsAnswer, Steps
      <3>2. ASSUME NEW step \in Steps \ {"write"}, Goes(w, step) PROVE tick'[w].step # "write"
        BY <3>2, GoesOn
      <3>3. Idle.step # "write"
        BY DEF Idle
      <3> QED BY <3>1, <3>2, <3>3, HourDone, FinalDone, Lists
    <2> QED BY <2>1, <2>2, <2>3 DEF HoursAside, Writes
  <1> QED BY <1>1, <1>2, <1>3, <1>4, <1>5, <1>6

-------------------------------------------------------------------------------
(* The lease                                                                 *)

LEMMA HeldByOne ==
    ASSUME LeaseOK
    PROVE  prompt => \A v, w \in Workers : Busy(v) /\ Busy(w) => v = w
  BY DEF LeaseOK

LEMMA LeaseStep ==
    ASSUME WatcherConstants, TypeOK, LeaseOK, NEW w \in Workers, WorkerStep(w)
    PROVE  LeaseOK'
  <1> SUFFICES ASSUME prompt, NEW v \in Workers, Busy(v)'
               PROVE  lease'[Key].owner = v /\ lease'[Key].left >= 0
    BY WorkerTick DEF LeaseOK
  <1>0. /\ \A u \in Workers : u # w => tick'[u] = tick[u]
        /\ dead' = dead /\ Alive(w)
    BY WorkerTick
  <1>a. v # w => Busy(v)
    BY <1>0 DEF Busy, Alive
  <1>1. CASE Begin(w)
    <2>1. /\ lease \in [{Key} -> L!Rows] /\ TTL \in Nat /\ None \notin Workers
      BY Constant DEF TypeOK
    <2>2. ~Busy(w) /\ Hold(w)
      BY <1>1 DEF Begin, At, Busy
    <2>3. v = w
      <3> SUFFICES ASSUME v # w PROVE FALSE
        OBVIOUS
      <3>1. lease[Key].owner = v /\ lease[Key].left >= 0
        BY <1>a DEF LeaseOK
      <3>2. lease[Key].left \in Int
        BY <2>1 DEF L!Rows
      <3> QED BY <2>1, <2>2, <3>1, <3>2 DEF Hold, L!OwnedBy, L!Insertable, L!Replaceable,
                                      L!Present, L!Expired
    <2>4. CASE L!OwnedBy(Key, w) /\ L!Renew(Key, w)
      BY <2>1, <2>3, <2>4 DEF L!OwnedBy, L!Renew, L!Rows
    <2>5. CASE L!Take(Key, w, None)
      BY <2>1, <2>3, <2>5 DEF L!Take, L!Row
    <2> QED BY <2>2, <2>4, <2>5 DEF Hold
  <1>2. CASE ~Begin(w)
    <2>1. UNCHANGED lease /\ tick[w].step # "idle"
      BY <1>2 DEF WorkerStep, TickStep, Start, TickRaises, Checked, Quiet, BudgetSkips,
                  AskBeats, Mark, WriteBeats, BeatsDone, Finalize, SaveFinal, SetFinal,
                  TickEnds, BeatsFail, FinalFails, BeatsAnswer, At, Busy
    <2>2. Busy(v)
      BY <1>0, <1>a, <2>1 DEF Busy
    <2> QED BY <2>1, <2>2 DEF LeaseOK
  <1> QED BY <1>1, <1>2

LEMMA LeaseOther ==
    ASSUME WatcherConstants, TypeOK, LeaseOK, OtherStep
    PROVE  LeaseOK'
  <1> SUFFICES ASSUME prompt, NEW v \in Workers, Busy(v)'
               PROVE  lease'[Key].owner = v /\ lease'[Key].left >= 0
    BY OtherFrame DEF LeaseOK
  <1>1. Busy(v)
    BY OtherFrame DEF Busy, Alive
  <1>2. /\ lease[Key].owner = v /\ lease[Key].left >= 0
        /\ lease \in [{Key} -> L!Rows] /\ None \notin Workers
    BY <1>1, Constant DEF LeaseOK, TypeOK
  <1>3. lease[Key].left \in -1 .. TTL /\ TTL \in Nat
    BY <1>2, Constant DEF L!Rows
  <1>4. CASE Tick
    <2>1. lease[Key].left > 0
      BY <1>1, <1>4 DEF Tick
    <2>2. L!Valid(Key)
      BY <1>2 DEF L!Valid, L!Present
    <2>3. lease'[Key] = [lease[Key] EXCEPT !.left = @ - 1]
      BY <1>4, <2>2 DEF Tick, L!Age
    <2>4. lease[Key] \in L!Rows
      BY <1>2
    <2>5. lease'[Key].owner = lease[Key].owner /\ lease'[Key].left = lease[Key].left - 1
      BY <2>3, <2>4 DEF L!Rows
    <2> QED BY <1>2, <1>3, <2>1, <2>5
  <1>5. CASE PurgeExpired
    BY <1>2, <1>3, <1>5 DEF PurgeExpired, L!Expired
  <1>6. CASE UNCHANGED lease
    BY <1>2, <1>6
  <1> QED BY <1>4, <1>5, <1>6, OtherFrame

-------------------------------------------------------------------------------
(* Final summaries                                                           *)

LEMMA Deaths ==
    ASSUME WatcherConstants, TypeOK
    PROVE  /\ IsFiniteSet(dead) /\ Cardinality(dead) \in Nat
           /\ \A w \in Workers \ dead : Cardinality(dead \cup {w}) = Cardinality(dead) + 1
  <1>1. IsFiniteSet(dead)
    BY Constant, FS_Subset DEF TypeOK
  <1> QED BY <1>1, FS_CardinalityType, FS_AddElement

\* Where no row is committed and no text, and nobody is about to commit one.
LEMMA FinalsKept ==
    ASSUME FinalsOK, NEW w \in Workers, FinalsAside(w),
           \A v \in Workers : v # w => tick'[v] = tick[v],
           UNCHANGED <<dead, prompt>>
    PROVE  FinalsOK'
  <1>1. finals' = finals /\ text' = text /\ torn' = torn /\ dead' = dead /\ prompt' = prompt
    BY DEF FinalsAside, finalRows
  <1>2. \A s : Committed(s) => Committed(s)'
    <2> SUFFICES ASSUME NEW s, NEW v \in Workers,
                        Alive(v), tick[v].step = "set", Sess(v) = s
                 PROVE  Committed(s)'
      BY DEF Committed
    <2>1. tick'[v] = tick[v]
      BY DEF FinalsAside
    <2>2. Sess(v)' = s /\ Alive(v)'
      BY <1>1, <2>1 DEF Sess, Alive
    <2> QED BY <2>1, <2>2 DEF Committed
  <1>3. \A v \in Workers : tick'[v].sessions \subseteq tick[v].sessions
    BY DEF FinalsAside
  <1>4. \A v \in Workers : Alive(v)' <=> Alive(v)
    BY <1>1 DEF Alive
  <1>5. \A s : Committed(s)' => Committed(s)
    <2> SUFFICES ASSUME NEW s, NEW v \in Workers,
                        Alive(v)', tick'[v].step = "set", Sess(v)' = s
                 PROVE  Committed(s)
      BY DEF Committed
    <2>1. tick'[v] = tick[v]
      BY DEF FinalsAside
    <2>2. Sess(v) = s
      BY <2>1 DEF Sess
    <2> QED BY <1>4, <2>1, <2>2 DEF Committed
  <1> QED BY <1>1, <1>2, <1>3, <1>4, <1>5 DEF FinalsOK

\* An error comes between the two commits.
Tears(w) == TickRaises(w) /\ tick[w].step = "set"

\* Which steps have nothing to do with final summaries.
LEMMA AsideOrNot ==
    ASSUME WatcherConstants, TypeOK, NEW w \in Workers, WorkerStep(w)
    PROVE  FinalsAside(w) \/ BeatsDone(w) \/ SaveFinal(w) \/ SetFinal(w) \/ Tears(w)
  <1>d. SUFFICES ASSUME ~BeatsDone(w), ~SaveFinal(w), ~SetFinal(w), ~Tears(w)
                 PROVE  FinalsAside(w)
    OBVIOUS
  <1>1. UNCHANGED finalRows /\ tick[w].step # "set"
    BY <1>d DEF WorkerStep, TickStep, Begin, Start, TickRaises, Checked, Quiet, BudgetSkips,
                AskBeats, Mark, WriteBeats, Finalize, TickEnds, BeatsFail, FinalFails,
                BeatsAnswer, At, Tears, finalRows
  <1>2. \/ \E step \in Steps \ {"set"} : Goes(w, step)
        \/ NextHour(w) \/ NextFinal(w)
        \/ Checked(w) \/ TickRaises(w) \/ TickEnds(w)
    BY <1>d DEF WorkerStep, TickStep, Begin, Start, Quiet, BudgetSkips, AskBeats, Mark,
                WriteBeats, Finalize, BeatsFail, FinalFails, BeatsAnswer, Steps
  <1>3. ASSUME NEW step \in Steps \ {"set"}, Goes(w, step)
        PROVE  tick'[w].step # "set" /\ tick'[w].sessions \subseteq tick[w].sessions
    BY <1>3, GoesOn
  <1>4. Idle.step # "set" /\ Idle.sessions = {}
    BY DEF Idle
  <1>5. tick'[w].step # "set" /\ tick'[w].sessions \subseteq tick[w].sessions
    BY <1>2, <1>3, <1>4, HourDone, FinalDone, Lists
  <1> QED BY <1>1, <1>5 DEF FinalsAside

LEMMA FinalsStep ==
    ASSUME WatcherConstants, TypeOK, Shape, LeaseOK, FinalsOK, NEW w \in Workers,
           WorkerStep(w)
    PROVE  FinalsOK'
  <1>0. /\ \A v \in Workers : v # w => tick'[v] = tick[v]
        /\ dead' = dead /\ prompt' = prompt /\ Alive(w) /\ ShapeAt(w)
    BY WorkerTick DEF Shape
  <1>1. CASE FinalsAside(w)
    BY <1>0, <1>1, FinalsKept
  <1>2. CASE BeatsDone(w)
    <2>1. /\ tick'[w].step = "finals" /\ tick'[w].sessions \subseteq Pending(w)
          /\ finals' = finals /\ text' = text /\ torn' = torn /\ tick[w].step = "beats"
      BY <1>2, Lists DEF BeatsDone, At, finalRows
    <2>2. \A s \in tick'[w].sessions : ~text'[s]
      BY <2>1 DEF Pending
    <2>3. \A s : Committed(s)' <=> Committed(s)
      <3>1. \A v \in Workers : v # w => Sess(v)' = Sess(v) /\ (Alive(v)' <=> Alive(v))
        BY <1>0 DEF Sess, Alive
      <3> QED BY <1>0, <2>1, <3>1 DEF Committed
    <2>4. \A v \in Workers : Alive(v)' <=> Alive(v)
      BY <1>0 DEF Alive
    <2> QED BY <1>0, <2>1, <2>2, <2>3, <2>4 DEF FinalsOK
  <1>a. ASSUME prompt, tick[w].step # "idle"
        PROVE  \A v \in Workers : v # w /\ Alive(v) => tick[v].step = "idle" /\ tick[v].sessions = {}
    <2>1. \A v \in Workers : v # w /\ Alive(v) => tick[v].step = "idle"
      BY <1>0, <1>a, HeldByOne DEF Busy
    <2> QED BY <2>1 DEF Shape, ShapeAt
  <1>b. Cardinality(dead) \in Nat /\ \A s \in Sessions : torn[s] \in Nat
    BY Deaths DEF TypeOK
  <1>3. CASE SaveFinal(w)
    <2> SUFFICES ASSUME prompt PROVE FinalsOK'
      BY <1>0 DEF FinalsOK
    <2>0. /\ tick[w].step = "final" /\ Sess(w) \in tick[w].sessions /\ Sess(w) \in Sessions
      BY <1>0, <1>3, SessIn DEF SaveFinal, At, ShapeAt
    <2>1. /\ tick'[w].step = "set" /\ tick'[w].sessions = tick[w].sessions
          /\ text' = text /\ torn' = torn
          /\ finals'[Sess(w)] = finals[Sess(w)] + 1 /\ finals[Sess(w)] \in Nat
          /\ \A s \in Sessions : s # Sess(w) => finals'[s] = finals[s]
      <3>1. /\ tick'[w].step = "set" /\ tick'[w].sessions = tick[w].sessions
        BY <1>3, GoesOn DEF SaveFinal, Steps
      <3>2. finals \in [Sessions -> Nat] /\ finals' = [finals EXCEPT ![Sess(w)] = @ + 1]
            /\ text' = text /\ torn' = torn
        BY <1>3 DEF SaveFinal, TypeOK
      <3> HIDE DEF Sessions
      <3> QED BY <2>0, <3>1, <3>2
    <2>2. ~text[Sess(w)] /\ ~Committed(Sess(w))
      BY <1>0, <1>a, <2>0 DEF FinalsOK, Committed
    <2>3. finals[Sess(w)] <= Cardinality(dead) + torn[Sess(w)]
      BY <1>b, <2>0, <2>1, <2>2 DEF FinalsOK
    <2>4. \A s \in Sessions : s = Sess(w) => Committed(s)'
      <3>1. Sess(w)' = Sess(w) /\ Alive(w)'
        BY <1>0, <2>1 DEF Sess, Alive
      <3> QED BY <2>1, <3>1 DEF Committed
    <2>5. \A s \in Sessions : s # Sess(w) /\ Committed(s) => Committed(s)'
      BY <1>0, <1>a, <2>0 DEF Committed
    <2>6. finals'[Sess(w)] <= Cardinality(dead) + torn[Sess(w)] + 1
      BY <1>b, <2>0, <2>1, <2>3
    <2>7. \A v \in Workers : Alive(v)' => \A s \in tick'[v].sessions : ~text'[s]
      BY <1>0, <2>1 DEF FinalsOK, Alive
    <2>8. \A s \in Sessions : finals'[s] <= Cardinality(dead') + torn'[s] +
             IF text'[s] \/ Committed(s)' THEN 1 ELSE 0
      <3> SUFFICES ASSUME NEW s \in Sessions
                   PROVE  finals'[s] <= Cardinality(dead) + torn[s]
                                         + IF text[s] \/ Committed(s)' THEN 1 ELSE 0
        BY <1>0, <2>1
      <3>1. CASE s = Sess(w)
        BY <1>b, <2>1, <2>4, <2>6, <3>1
      <3>2. CASE s # Sess(w)
        <4>1. /\ finals'[s] = finals[s] /\ finals[s] \in Nat
              /\ finals[s] <= Cardinality(dead) + torn[s] + IF text[s] \/ Committed(s) THEN 1 ELSE 0
          BY <2>1, <3>2 DEF FinalsOK, TypeOK
        <4> QED BY <1>b, <2>5, <3>2, <4>1
      <3> QED BY <3>1, <3>2
    <2> QED BY <2>7, <2>8 DEF FinalsOK
  <1>4. CASE SetFinal(w)
    <2> SUFFICES ASSUME prompt PROVE FinalsOK'
      BY <1>0 DEF FinalsOK
    <2>0. tick[w].step = "set" /\ Sess(w) \in tick[w].sessions /\ Sess(w) \in Sessions
      BY <1>0, <1>4, SessIn DEF SetFinal, At, ShapeAt
    <2>1. /\ tick'[w].step = "finals" /\ tick'[w].sessions = tick[w].sessions \ {Sess(w)}
          /\ finals' = finals /\ torn' = torn /\ text'[Sess(w)] = TRUE
          /\ \A s \in Sessions : s # Sess(w) => text'[s] = text[s]
      <3>1. tick'[w].step = "finals" /\ tick'[w].sessions = tick[w].sessions \ {Sess(w)}
        BY <1>4, FinalDone DEF SetFinal
      <3>2. /\ text \in [Sessions -> BOOLEAN] /\ text' = [text EXCEPT ![Sess(w)] = TRUE]
            /\ finals' = finals /\ torn' = torn
        BY <1>4 DEF SetFinal, TypeOK
      <3> HIDE DEF Sessions
      <3> QED BY <2>0, <3>1, <3>2
    <2>2. \A v \in Workers : Alive(v)' => \A s \in tick'[v].sessions : ~text'[s]
      <3> SUFFICES ASSUME NEW v \in Workers, Alive(v)', NEW s \in tick'[v].sessions
                   PROVE  ~text'[s]
        OBVIOUS
      <3>1. Alive(v)
        BY <1>0 DEF Alive
      <3>2. v = w
        BY <1>0, <1>a, <2>0, <3>1
      <3>3. s # Sess(w) /\ s \in tick[w].sessions /\ tick[w].sessions \subseteq Sessions
        BY <2>1, <3>2 DEF TypeOK
      <3> QED BY <1>0, <2>1, <3>3 DEF FinalsOK
    <2>3. \A s \in Sessions : s # Sess(w) => ~Committed(s)
      BY <1>0, <1>a, <2>0 DEF Committed
    <2>4. \A s \in Sessions : finals'[s] <= Cardinality(dead') + torn'[s] +
             IF text'[s] \/ Committed(s)' THEN 1 ELSE 0
      <3> SUFFICES ASSUME NEW s \in Sessions
                   PROVE  finals[s] <= Cardinality(dead) + torn[s]
                                        + IF text'[s] \/ Committed(s)' THEN 1 ELSE 0
        BY <1>0, <2>1
      <3>1. /\ finals[s] \in Nat
            /\ finals[s] <= Cardinality(dead) + torn[s] + IF text[s] \/ Committed(s) THEN 1 ELSE 0
        BY DEF FinalsOK, TypeOK
      <3>2. CASE s = Sess(w)
        BY <1>b, <2>1, <3>1, <3>2
      <3>3. CASE s # Sess(w)
        BY <1>b, <2>1, <2>3, <3>1, <3>3
      <3> QED BY <3>2, <3>3
    <2> QED BY <2>2, <2>4 DEF FinalsOK
  <1>5. CASE Tears(w)
    <2> SUFFICES ASSUME prompt PROVE FinalsOK'
      BY <1>0 DEF FinalsOK
    <2>0. tick[w].step = "set" /\ Sess(w) \in tick[w].sessions /\ Sess(w) \in Sessions
      BY <1>0, <1>5, SessIn DEF Tears, ShapeAt
    <2>1. /\ tick'[w].step = "idle" /\ tick'[w].sessions = {}
          /\ finals' = finals /\ text' = text
          /\ torn'[Sess(w)] = torn[Sess(w)] + 1
          /\ \A s \in Sessions : s # Sess(w) => torn'[s] = torn[s]
      <3>1. tick'[w].step = "idle" /\ tick'[w].sessions = {}
        BY <1>5, Lists DEF Tears, Idle
      <3>2. /\ torn \in [Sessions -> Nat] /\ torn' = [torn EXCEPT ![Sess(w)] = @ + 1]
            /\ finals' = finals /\ text' = text
        BY <1>5 DEF Tears, TickRaises, At, Busy, TypeOK
      <3> HIDE DEF Sessions
      <3> QED BY <2>0, <3>1, <3>2
    <2>2. \A v \in Workers : Alive(v)' => \A s \in tick'[v].sessions : ~text'[s]
      BY <1>0, <2>1 DEF FinalsOK, Alive
    <2>3. \A s \in Sessions : s # Sess(w) => ~Committed(s)
      BY <1>0, <1>a, <2>0 DEF Committed
    <2>4. \A s \in Sessions : finals'[s] <= Cardinality(dead') + torn'[s] +
             IF text'[s] \/ Committed(s)' THEN 1 ELSE 0
      <3> SUFFICES ASSUME NEW s \in Sessions
                   PROVE  finals[s] <= Cardinality(dead) + torn'[s]
                                        + IF text[s] \/ Committed(s)' THEN 1 ELSE 0
        BY <1>0, <2>1
      <3>1. /\ finals[s] \in Nat
            /\ finals[s] <= Cardinality(dead) + torn[s] + IF text[s] \/ Committed(s) THEN 1 ELSE 0
        BY DEF FinalsOK, TypeOK
      <3>2. CASE s = Sess(w)
        <4>1. finals[s] <= Cardinality(dead) + torn[s] + 1
          BY <1>b, <3>1
        <4>2. torn'[s] = torn[s] + 1
          BY <2>1, <3>2
        <4> QED BY <1>b, <3>1, <4>1, <4>2
      <3>3. CASE s # Sess(w)
        BY <1>b, <2>1, <2>3, <3>1, <3>3
      <3> QED BY <3>2, <3>3
    <2> QED BY <2>2, <2>4 DEF FinalsOK
  <1>6. ASSUME ~BeatsDone(w), ~SaveFinal(w), ~SetFinal(w), ~Tears(w) PROVE FinalsAside(w)
    BY <1>6, AsideOrNot
  <1> QED BY <1>1, <1>2, <1>3, <1>4, <1>5, <1>6

LEMMA FinalsOther ==
    ASSUME WatcherConstants, TypeOK, FinalsOK, OtherStep
    PROVE  FinalsOK'
  <1>0. UNCHANGED <<tick, prompt, finals, text, torn>>
    BY OtherFrame
  <1>1. CASE dead' = dead
    <2>1. \A s : Committed(s)' <=> Committed(s)
      BY <1>0, <1>1 DEF Committed, Alive, Sess
    <2> QED BY <1>0, <1>1, <2>1 DEF FinalsOK, Alive
  <1>2. ASSUME NEW w \in Workers, Alive(w), dead' = dead \cup {w}
        PROVE  FinalsOK'
    <2> SUFFICES ASSUME prompt PROVE FinalsOK'
      BY <1>0 DEF FinalsOK
    <2>1. Cardinality(dead') = Cardinality(dead) + 1 /\ Cardinality(dead) \in Nat
      BY <1>2, Deaths DEF Alive
    <2>t. \A s \in Sessions : torn[s] \in Nat
      BY DEF TypeOK
    <2>2. \A s \in Sessions : finals[s] <= Cardinality(dead) + torn[s] + 1
      <3> SUFFICES ASSUME NEW s \in Sessions PROVE finals[s] <= Cardinality(dead) + torn[s] + 1
        OBVIOUS
      <3>1. /\ finals[s] \in Nat
            /\ finals[s] <= Cardinality(dead) + torn[s] + IF text[s] \/ Committed(s) THEN 1 ELSE 0
        BY DEF FinalsOK, TypeOK
      <3> QED BY <2>1, <2>t, <3>1
    <2>3. \A s \in Sessions : finals'[s] <= Cardinality(dead') + torn'[s] +
             IF text'[s] \/ Committed(s)' THEN 1 ELSE 0
      <3> SUFFICES ASSUME NEW s \in Sessions
                   PROVE  finals'[s] <= Cardinality(dead') + torn'[s] +
                             IF text'[s] \/ Committed(s)' THEN 1 ELSE 0
        OBVIOUS
      <3>1. /\ finals'[s] <= Cardinality(dead') + torn'[s]
            /\ finals'[s] \in Nat /\ Cardinality(dead') \in Nat /\ torn'[s] \in Nat
        BY <1>0, <2>1, <2>t, <2>2 DEF TypeOK
      <3> QED BY <3>1
    <2>4. \A v \in Workers : Alive(v)' => \A s \in tick'[v].sessions : ~text'[s]
      BY <1>0, <1>2 DEF FinalsOK, Alive
    <2> QED BY <2>3, <2>4 DEF FinalsOK
  <1> QED BY <1>1, <1>2, OtherFrame

\* Tries only get spent, and the one that commits a summary of s is by that.
LEMMA SpentGrows ==
    ASSUME WatcherConstants, TypeOK, Shape, NEW w \in Workers, WorkerStep(w), NEW s \in Sessions
    PROVE  /\ Spent(s) \subseteq Spent(s)'
           /\ \/ finals'[s] = finals[s]
              \/ /\ finals'[s] = finals[s] + 1
                 /\ \E p \in Tries : p \in Spent(s)' /\ p \notin Spent(s)
  <1>0. /\ \A v \in Workers : v # w => tick'[v] = tick[v] /\ attempts'[v] = attempts[v]
        /\ dead' = dead /\ Alive(w) /\ Alive(w)' /\ ShapeAt(w)
        /\ UNCHANGED attempts \/ Finalize(w) \/ SetFinal(w)
    BY WorkerTick, Attempted DEF Shape, Alive
  <1>a. attempts[w][s] \in 0 .. MaxAttempts
    BY DEF TypeOK
  <1>1. CASE SaveFinal(w)
    <2>1. /\ tick[w].step = "final" /\ Sess(w) \in tick[w].sessions /\ Sess(w) \in Sessions
          /\ attempts[w][Sess(w)] > 0
      BY <1>0, <1>1, SessIn DEF SaveFinal, At, ShapeAt
    <2>2. /\ tick'[w].step = "set" /\ tick'[w].sessions = tick[w].sessions
      BY <1>1, GoesOn DEF SaveFinal, Steps
    <2>3. Sess(w)' = Sess(w)
      BY <2>2 DEF Sess
    <2>4. /\ text' = text /\ attempts' = attempts
          /\ finals' = [finals EXCEPT ![Sess(w)] = @ + 1] /\ finals \in [Sessions -> Nat]
      BY <1>1 DEF SaveFinal, TypeOK
    <2>5. \A v \in Workers, n \in 1 .. MaxAttempts :
             v # w => (MayCommit(v, n, s)' <=> MayCommit(v, n, s))
      BY <1>0, <2>4 DEF MayCommit, Alive, Sess
    <2>6. \A n \in 1 .. MaxAttempts : MayCommit(w, n, s)' => MayCommit(w, n, s)
      BY <1>0, <2>2, <2>4 DEF MayCommit
    <2>7. Spent(s) \subseteq Spent(s)'
      BY <2>5, <2>6 DEF Spent, Tries
    <2>8. CASE s = Sess(w)
      <3>1. PICK n \in 1 .. MaxAttempts : n = attempts[w][s]
        BY <1>a, <2>1, <2>8
      <3>2. MayCommit(w, n, s) /\ ~MayCommit(w, n, s)'
        BY <1>0, <1>a, <2>1, <2>2, <2>4, <2>8, <3>1 DEF MayCommit
      <3>3. finals'[s] = finals[s] + 1
        <4> HIDE DEF Sessions
        <4> QED BY <2>4, <2>8
      <3>4. <<w, n>> \in Tries /\ <<w, n>> \in Spent(s)' /\ <<w, n>> \notin Spent(s)
        BY <3>2 DEF Spent, Tries
      <3> QED BY <2>7, <3>3, <3>4
    <2>9. CASE s # Sess(w)
      <3>1. finals'[s] = finals[s]
        <4> HIDE DEF Sessions
        <4> QED BY <2>4, <2>9
      <3> QED BY <2>7, <3>1
    <2> QED BY <2>8, <2>9
  <1>2. CASE SetFinal(w)
    <2>0. tick[w].step = "set" /\ Sess(w) \in tick[w].sessions
      BY <1>0, <1>2, SessIn DEF SetFinal, At, ShapeAt
    <2>1. /\ tick'[w].step = "finals" /\ tick'[w].sessions = tick[w].sessions \ {Sess(w)}
      BY <1>2, FinalDone DEF SetFinal
    <2>2. finals' = finals /\ text' = [text EXCEPT ![Sess(w)] = TRUE] /\ text \in [Sessions -> BOOLEAN]
      BY <1>2 DEF SetFinal, TypeOK
    <2>3. text[s] => text'[s]
      <3> HIDE DEF Sessions
      <3> QED BY <2>2
    <2>4. s = Sess(w) => text'[s]
      <3> HIDE DEF Sessions
      <3> QED BY <2>2
    <2>5. s # Sess(w) => attempts'[w][s] = attempts[w][s]
      BY <1>0, Attempted
    <2>6. \A v \in Workers, n \in 1 .. MaxAttempts :
             v # w /\ MayCommit(v, n, s)' => MayCommit(v, n, s)
      BY <1>0, <2>3 DEF MayCommit, Alive, Sess
    <2>7. \A n \in 1 .. MaxAttempts : MayCommit(w, n, s)' => MayCommit(w, n, s)
      BY <1>0, <2>1, <2>3, <2>4, <2>5 DEF MayCommit
    <2> QED BY <2>2, <2>6, <2>7 DEF Spent, Tries
  <1>3. CASE Finalize(w)
    <2>1. /\ finals' = finals /\ text' = text /\ tick[w].step = "finals"
          /\ tick[w].sessions # {}
      BY <1>3 DEF Finalize, At, finalRows
    <2>2. /\ tick'[w].step # "final" \/ Sess(w)' = Sess(w)
          /\ tick'[w].sessions \subseteq tick[w].sessions
      <3>1. CASE Goes(w, "final")
        <4>1. tick'[w].sessions = tick[w].sessions
          BY <3>1, GoesOn DEF Steps
        <4> QED BY <4>1 DEF Sess
      <3>2. CASE NextFinal(w)
        BY <3>2, FinalDone
      <3> QED BY <1>3, <3>1, <3>2 DEF Finalize
    <2>3. Sess(w) \in Sessions
      BY <2>1, SessIn
    <2>4. attempts'[w][s] \in 0 .. MaxAttempts
      BY <1>0, Attempted
    <2>5. /\ attempts'[w][s] >= attempts[w][s]
          /\ s = Sess(w) => attempts'[w][s] > attempts[w][s]
      BY <1>0, <1>3, <1>a, <2>4, Attempted
    <2>6. \A v \in Workers, n \in 1 .. MaxAttempts :
             v # w /\ MayCommit(v, n, s)' => MayCommit(v, n, s)
      BY <1>0, <2>1 DEF MayCommit, Alive, Sess
    <2>7. \A n \in 1 .. MaxAttempts : MayCommit(w, n, s)' => MayCommit(w, n, s)
      BY <1>0, <1>a, <2>1, <2>2, <2>4, <2>5 DEF MayCommit
    <2> QED BY <2>1, <2>6, <2>7 DEF Spent, Tries
  <1>4. ASSUME ~SaveFinal(w), ~SetFinal(w), ~Finalize(w)
        PROVE  Spent(s) \subseteq Spent(s)' /\ finals'[s] = finals[s]
    <2>1. finals' = finals /\ text' = text /\ attempts' = attempts
      BY <1>0, <1>4 DEF WorkerStep, TickStep, Begin, Start, TickRaises, Checked, Quiet,
                  BudgetSkips, AskBeats, Mark, WriteBeats, BeatsDone, TickEnds, BeatsFail,
                  FinalFails, BeatsAnswer, finalRows
    <2>2. FinalsAside(w) \/ BeatsDone(w) \/ Tears(w)
      BY <1>4, AsideOrNot
    <2>3. text[s] /\ s \in tick'[w].sessions => s \in tick[w].sessions
      BY <2>2, Lists DEF FinalsAside, Pending, Tears, Idle
    <2>4. tick'[w].step # "final"
      <3>1. \/ \E step \in Steps \ {"final"} : Goes(w, step)
            \/ NextHour(w) \/ NextFinal(w)
            \/ Checked(w) \/ BeatsDone(w) \/ TickRaises(w) \/ TickEnds(w)
        BY <1>4 DEF WorkerStep, TickStep, Begin, Start, Quiet, BudgetSkips, AskBeats, Mark,
                    WriteBeats, BeatsFail, FinalFails, BeatsAnswer, Steps
      <3>2. ASSUME NEW step \in Steps \ {"final"}, Goes(w, step) PROVE tick'[w].step # "final"
        BY <3>2, GoesOn
      <3>3. Idle.step # "final"
        BY DEF Idle
      <3> QED BY <3>1, <3>2, <3>3, HourDone, FinalDone, Lists
    <2>5. \A v \in Workers, n \in 1 .. MaxAttempts :
             v # w /\ MayCommit(v, n, s)' => MayCommit(v, n, s)
      BY <1>0, <2>1 DEF MayCommit, Alive, Sess
    <2>6. \A n \in 1 .. MaxAttempts : MayCommit(w, n, s)' => MayCommit(w, n, s)
      BY <1>0, <2>1, <2>3, <2>4 DEF MayCommit
    <2> QED BY <2>1, <2>5, <2>6 DEF Spent, Tries
  <1> QED BY <1>1, <1>2, <1>3, <1>4

LEMMA TriesFinite ==
    ASSUME WatcherConstants
    PROVE  IsFiniteSet(Tries) /\ Cardinality(Tries) = MaxAttempts * Cardinality(Workers)
  <1>1. /\ IsFiniteSet(Workers) /\ IsFiniteSet(1 .. MaxAttempts) /\ MaxAttempts \in Nat \ {0}
        /\ Cardinality(1 .. MaxAttempts) = MaxAttempts /\ Cardinality(Workers) \in Nat
    <2>1. IsFiniteSet(1 .. MaxAttempts) /\ Cardinality(1 .. MaxAttempts) = MaxAttempts
      BY Constant, FS_Interval
    <2> QED BY <2>1, Constant, FS_CardinalityType
  <1>2. /\ IsFiniteSet(Tries)
        /\ Cardinality(Tries) = Cardinality(Workers) * Cardinality(1 .. MaxAttempts)
    BY <1>1, FS_Product DEF Tries
  <1> QED BY <1>1, <1>2

LEMMA SpentFinite ==
    ASSUME WatcherConstants, NEW s
    PROVE  /\ IsFiniteSet(Spent(s)) /\ Cardinality(Spent(s)) \in Nat
           /\ Cardinality(Spent(s)) <= MaxAttempts * Cardinality(Workers)
  <1>1. Spent(s) \subseteq Tries
    BY DEF Spent
  <1>2. IsFiniteSet(Spent(s)) /\ Cardinality(Spent(s)) <= Cardinality(Tries)
    BY <1>1, TriesFinite, FS_Subset
  <1> QED BY <1>2, TriesFinite, FS_CardinalityType

LEMMA MoreSpent ==
    ASSUME NEW S, NEW T, IsFiniteSet(T), S \subseteq T
    PROVE  /\ Cardinality(S) \in Nat /\ Cardinality(T) \in Nat /\ Cardinality(S) <= Cardinality(T)
           /\ \A x \in T : x \notin S => Cardinality(S) + 1 <= Cardinality(T)
  <1>1. IsFiniteSet(S) /\ Cardinality(S) \in Nat /\ Cardinality(T) \in Nat
    BY FS_Subset, FS_CardinalityType
  <1>2. Cardinality(S) <= Cardinality(T)
    BY FS_Subset
  <1>3. ASSUME NEW x \in T, x \notin S PROVE Cardinality(S) + 1 <= Cardinality(T)
    <2>1. Cardinality(S \cup {x}) = Cardinality(S) + 1
      BY <1>1, <1>3, FS_AddElement
    <2>2. S \cup {x} \subseteq T
      BY <1>3
    <2> QED BY <2>1, <2>2, FS_Subset
  <1> QED BY <1>1, <1>2, <1>3

\* The set after the step is the set of a state, too.
LEMMA SpentFiniteNext ==
    ASSUME WatcherConstants, NEW s
    PROVE  IsFiniteSet(Spent(s)')
  <1>1. Spent(s)' \subseteq Tries
    BY DEF Spent, Tries
  <1> QED BY <1>1, TriesFinite, FS_Subset

LEMMA SpentStep ==
    ASSUME WatcherConstants, TypeOK, Shape, SpentOK, NEW w \in Workers, WorkerStep(w)
    PROVE  SpentOK'
  <1> SUFFICES ASSUME NEW s \in Sessions PROVE finals'[s] <= Cardinality(Spent(s)')
    BY DEF SpentOK
  <1> DEFINE before == Spent(s)
             after == Spent(s)'
  <1>1. /\ before \subseteq after
        /\ \/ finals'[s] = finals[s]
           \/ finals'[s] = finals[s] + 1 /\ \E p \in after : p \notin before
    BY SpentGrows
  <1>2. IsFiniteSet(after)
    BY SpentFiniteNext
  <1>3. finals[s] \in Nat /\ finals[s] <= Cardinality(before)
    BY DEF SpentOK, TypeOK
  <1> HIDE DEF before, after
  <1>4. /\ Cardinality(before) \in Nat /\ Cardinality(after) \in Nat
        /\ Cardinality(before) <= Cardinality(after)
        /\ (\E p \in after : p \notin before) => Cardinality(before) + 1 <= Cardinality(after)
    BY <1>1, <1>2, MoreSpent
  <1>5. finals'[s] <= Cardinality(after)
    BY <1>1, <1>3, <1>4
  <1> QED BY <1>5 DEF after

LEMMA SpentOther ==
    ASSUME WatcherConstants, TypeOK, SpentOK, OtherStep
    PROVE  SpentOK'
  <1> SUFFICES ASSUME NEW s \in Sessions PROVE finals'[s] <= Cardinality(Spent(s)')
    BY DEF SpentOK
  <1>1. UNCHANGED <<tick, attempts, finals, text>> /\ dead \subseteq dead'
    BY OtherFrame
  <1> DEFINE before == Spent(s)
             after == Spent(s)'
  <1>2. before \subseteq after
    BY <1>1 DEF Spent, Tries, MayCommit, Alive, Sess
  <1>3. IsFiniteSet(after)
    BY SpentFiniteNext
  <1>4. finals[s] \in Nat /\ finals[s] <= Cardinality(before)
    BY DEF SpentOK, TypeOK
  <1> HIDE DEF before, after
  <1>5. /\ Cardinality(before) \in Nat /\ Cardinality(after) \in Nat
        /\ Cardinality(before) <= Cardinality(after)
    BY <1>2, <1>3, MoreSpent
  <1>6. finals'[s] <= Cardinality(after)
    BY <1>1, <1>4, <1>5
  <1> QED BY <1>6 DEF after

-------------------------------------------------------------------------------
(* Every step                                                                *)

LEMMA InitInv == ASSUME WatcherConstants, Init PROVE IInv
  <1>1. TypeOK
    <2>1. 0 \in 0 .. MaxAttempts /\ 0 \in 0 .. HoursEach - 1 /\ TTL \in Nat
      BY Constant
    <2>2. L!NoRow \in L!Rows
      BY <2>1 DEF L!NoRow, L!Row, L!Rows
    <2> HIDE DEF Sessions, Hours
    <2> QED BY <2>1, <2>2 DEF Init, TypeOK, Idle, Steps
  <1>2. /\ \A w \in Workers : tick[w].step = "idle" /\ tick[w].sessions = {}
        /\ \A h \in Hours : beats[h] = 0 /\ run[h] = "none"
        /\ \A s \in Sessions : finals[s] = 0 /\ text[s] = FALSE /\ torn[s] = 0
        /\ dead = {}
    BY DEF Init, Idle
  <1>3. Shape
    BY <1>2 DEF Shape, ShapeAt
  <1>4. HoursOK /\ WritersOK
    BY <1>2 DEF HoursOK, WritersOK, Writes
  <1>5. LeaseOK
    BY <1>2 DEF LeaseOK, Busy
  <1>6. FinalsOK
    BY <1>2, FS_EmptySet DEF FinalsOK, Committed
  <1>7. SpentOK
    <2>1. \A s \in Sessions : Cardinality(Spent(s)) \in Nat
      BY SpentFinite
    <2> QED BY <1>2, <2>1 DEF SpentOK
  <1> QED BY <1>1, <1>3, <1>4, <1>5, <1>6, <1>7 DEF IInv

LEMMA NextInv == ASSUME WatcherConstants, IInv, [Next]_watcherVars PROVE IInv'
  <1> USE DEF IInv
  <1>1. ASSUME NEW w \in Workers, WorkerStep(w) PROVE IInv'
    <2>1. ShapeAt(w)
      BY DEF Shape
    <2>2. TypeOK' /\ Shape'
      BY <1>1, <2>1, WorkerTypes, WorkerShape
    <2>3. HoursOK' /\ WritersOK'
      BY <1>1, HoursStep
    <2>4. LeaseOK' /\ FinalsOK' /\ SpentOK'
      BY <1>1, LeaseStep, FinalsStep, SpentStep
    <2> QED BY <2>2, <2>3, <2>4
  <1>2. CASE OtherStep
    <2>1. TypeOK' /\ Shape'
      BY <1>2, OtherTypes
    <2>2. HoursOK' /\ WritersOK'
      BY <1>2, OtherFrame, HoursKept DEF hourRows
    <2>3. LeaseOK' /\ FinalsOK' /\ SpentOK'
      BY <1>2, LeaseOther, FinalsOther, SpentOther
    <2> QED BY <2>1, <2>2, <2>3
  <1> QED BY <1>1, <1>2 DEF Next, OtherStep, WorkerStep

LEMMA Invariant == ASSUME WatcherConstants PROVE Spec => []IInv
  <1>1. Init => IInv
    BY InitInv
  <1>2. IInv /\ [Next]_watcherVars => IInv'
    BY NextInv
  <1> QED BY <1>1, <1>2, PTL DEF Spec

-------------------------------------------------------------------------------
(* What follows                                                              *)

\* The lease, what each worker is at, and the rows of hours and sessions have their
\* types; no session is tried more often than it may be.
THEOREM TypeCorrect == ASSUME WatcherConstants PROVE Spec => []TypeOK
  <1>1. IInv => TypeOK
    BY DEF IInv
  <1> QED BY <1>1, Invariant, PTL

\* However many workers tick at once, and wherever they crash, no hour gets its
\* beats twice (beats.py:6, 132-133).
THEOREM BeatsCommittedOnce == ASSUME WatcherConstants PROVE Spec => []BeatsOnce
  <1>1. IInv => BeatsOnce
    BY DEF IInv, TypeOK, HoursOK, BeatsOnce
  <1> QED BY <1>1, Invariant, PTL

\* An hour marked as done has its beats, none that cites its events, or a writer
\* that is at it or crashed over it, or an error came between its mark and the
\* commit of its beats: nothing else in a tick costs an hour (beats.py:126-152).
THEOREM NoHourLost == ASSUME WatcherConstants PROVE Spec => []DoneHasBeats
  <1>1. IInv => DoneHasBeats
    BY DEF IInv, TypeOK, HoursOK, DoneHasBeats
  <1> QED BY <1>1, Invariant, PTL

\* Where ticks are prompt the lease keeps all workers but one out of them, for any
\* number of workers, crashes and take-overs (watcher.py:4, 93-94).
THEOREM OneWatcherAtATime == ASSUME WatcherConstants PROVE Spec => []OneWatcher
  <1>1. IInv => OneWatcher
    BY HeldByOne DEF IInv, OneWatcher
  <1> QED BY <1>1, Invariant, PTL

\* However late ticks are and however often they fail, a session has at most
\* MAX_ATTEMPTS final summaries from each worker; and where ticks are prompt, one, and
\* one more for each crash and each error that came between its commits
\* (finalize.py:76-78, 89-93).
THEOREM FinalsStayBounded == ASSUME WatcherConstants PROVE Spec => []FinalsBounded
  <1>1. ASSUME WatcherConstants, IInv PROVE FinalsBounded
    <2> SUFFICES ASSUME NEW s \in Sessions
                 PROVE  /\ finals[s] <= MaxAttempts * Cardinality(Workers)
                        /\ prompt => finals[s] <= 1 + Cardinality(dead) + torn[s]
      BY <1>1 DEF IInv, TypeOK, FinalsBounded
    <2>1. /\ finals[s] \in Nat /\ Cardinality(dead) \in Nat /\ torn[s] \in Nat
          /\ prompt => finals[s] <= Cardinality(dead) + torn[s]
                                     + IF text[s] \/ Committed(s) THEN 1 ELSE 0
      BY <1>1, Deaths DEF IInv, FinalsOK, TypeOK
    <2>2. finals[s] <= Cardinality(Spent(s))
      BY <1>1 DEF IInv, SpentOK
    <2> DEFINE most == MaxAttempts * Cardinality(Workers)
    <2>3. Cardinality(Spent(s)) \in Nat /\ Cardinality(Spent(s)) <= most /\ most \in Nat
      BY <1>1, SpentFinite, Constant, FS_CardinalityType
    <2>4. finals[s] <= most
      <3> HIDE DEF most
      <3> QED BY <2>1, <2>2, <2>3
    <2>5. prompt => finals[s] <= 1 + Cardinality(dead) + torn[s]
      BY <2>1
    <2> QED BY <2>4, <2>5
  <1> QED BY <1>1, Invariant, PTL
===============================================================================
