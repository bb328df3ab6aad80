------------------------------ MODULE MCProgress ------------------------------
(***************************************************************************)
(* The components that have to get somewhere, each in a small instance,    *)
(* for TLC: the audio of a stream that goes offline, and the watcher that  *)
(* works off hours and ended sessions.  As in MCComponents, a behaviour is *)
(* one of the component that "part" names.                                 *)
(***************************************************************************)
EXTENDS IngestState, WatcherState

CONSTANT None

VARIABLE part

vars == <<part, ingestVars, watcherVars>>

\* Every process that closes its output exits in the end; see the README.
I == INSTANCE Ingest WITH
    MaxChunks <- 3, Timeout <- 3, MaxBackoff <- 2, WriteErrors <- FALSE, Lingers <- FALSE

\* One hour of three fails for good, and a tick tries two.
W == INSTANCE Watcher WITH
    TTL <- 1, MaxSessions <- 1, HoursEach <- 3, BeatLimit <- 2, FinalLimit <- 1,
    Failing <- {1}

ASSUME ProgressAssumption == I!IngestConstants /\ W!WatcherConstants

Ingesting(A) == part = "ingest" /\ A /\ UNCHANGED <<part, watcherVars>>
Watching(A) == part = "watcher" /\ A /\ UNCHANGED <<part, ingestVars>>

Init ==
    /\ part \in {"ingest", "watcher"}
    /\ I!Init /\ W!Init
    /\ part # "ingest" => live
    /\ part # "watcher" => prompt

Next == Ingesting(I!Next) \/ Watching(W!Next)

\* The fairness of Ingest and of Watcher.
Fairness ==
    /\ WF_vars(Ingesting(I!Generator)) /\ WF_vars(Ingesting(I!Task))
    /\ WF_vars(Ingesting(I!Tick))
    /\ WF_vars(Ingesting(I!KilledExits)) /\ WF_vars(Ingesting(I!ClosedExits))
    /\ \A w \in Workers :
         /\ WF_vars(Watching(W!Begin(w))) /\ WF_vars(Watching(W!Works(w)))
         /\ <>[][~Watching(W!TickRaises(w))]_vars
         /\ SF_vars(Watching(W!Checked(w)))
         /\ \A h \in 2 .. 3 :
              /\ SF_vars(Watching((W!Quiet(w) \/ W!AskBeats(w)) /\ Hour(w) = h))
              /\ SF_vars(Watching(W!BeatsAnswer(w) /\ Hour(w) = h))
    /\ WF_vars(Watching(W!Tick))

Spec == Init /\ [][Next]_vars /\ Fairness

\* A live stream that has no more audio ends.
OfflineEnds == part = "ingest" => I!OfflineEnds
\* Every closed hour is dealt with, but for those that fail for good.
HoursDealtWith == part = "watcher" => W!HoursDealtWith
\* An ended session gets its summary, or was tried often enough.
FinalsSettled == part = "watcher" => W!FinalsSettled
===============================================================================
