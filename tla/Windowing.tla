------------------------------ MODULE Windowing ------------------------------
(***************************************************************************)
(* WindowBuilder of app/memory/windowing.py: utterances come in the order  *)
(* of speech, and a window is closed by a silence once it is long enough,  *)
(* or by its limits on seconds and words.                                  *)
(***************************************************************************)
EXTENDS WindowingState

CONSTANTS
    Gaps, Durations, Counts   \* silences before, lengths and words of an utterance

\* What is assumed of them.
WindowingConstants ==
    /\ MaxUtterances \in Nat
    /\ Gaps \subseteq Nat /\ Durations \subseteq Nat \ {0} /\ Counts \subseteq Nat \ {0}
    /\ {MinS, MaxS, MaxWords, MinSilence} \subseteq Nat \ {0}

Reasons == {"silence", "crossed", "reached", "flush"}

Utterances == [from : Nat, to : Nat, words : Nat, said : Nat]
Windows == [utts : Seq(Utterances), why : Reasons]

TypeOK ==
    /\ words \in Nat /\ over \in BOOLEAN
    /\ utts \in Seq(Utterances) /\ uttBuf \in Seq(Utterances) /\ windows \in Seq(Windows)
    /\ \A i \in DOMAIN utts : utts[i].from < utts[i].to
    /\ \A i \in DOMAIN windows : windows[i].utts # <<>>
    /\ Len(utts) <= MaxUtterances

Init == utts = <<>> /\ uttBuf = <<>> /\ words = 0 /\ windows = <<>> /\ over = FALSE

-------------------------------------------------------------------------------
Close(window, why) == windows' = Append(windows, [utts |-> window, why |-> why])

StartWith(u) == uttBuf' = <<u>> /\ words' = u.words

LongEnough == Elapsed(uttBuf) >= MinS
\* A mutant: only the length of the silence counts.
SilentBeforeAny(u) == u.from - Last(uttBuf).to >= MinSilence
SilentBefore(u) == LongEnough /\ u.from - Last(uttBuf).to >= MinSilence
\* A mutant: the words of u are not counted in.
CrossesSeconds(u) == Elapsed(Append(uttBuf, u)) > MaxS
Crosses(u) == Elapsed(Append(uttBuf, u)) > MaxS \/ words + u.words > MaxWords
Reaches(u) == Elapsed(Append(uttBuf, u)) >= MaxS \/ words + u.words >= MaxWords

First(u) == uttBuf = <<>> /\ StartWith(u) /\ UNCHANGED windows
ClosedBySilence(u) ==
    uttBuf # <<>> /\ SilentBefore(u) /\ Close(uttBuf, "silence") /\ StartWith(u)
ClosedByCrossing(u) ==
    uttBuf # <<>> /\ ~SilentBefore(u) /\ Crosses(u) /\ Close(uttBuf, "crossed") /\ StartWith(u)
ClosedWith(u) ==
    /\ uttBuf # <<>> /\ ~SilentBefore(u) /\ ~Crosses(u) /\ Reaches(u)
    /\ Close(Append(uttBuf, u), "reached")
    /\ uttBuf' = <<>> /\ words' = 0
\* A mutant: utterances are put before those that wait.
KeptInFront(u) ==
    /\ uttBuf # <<>> /\ ~SilentBefore(u) /\ ~Crosses(u) /\ ~Reaches(u)
    /\ uttBuf' = <<u>> \o uttBuf /\ words' = words + u.words
    /\ UNCHANGED windows
Kept(u) ==
    /\ uttBuf # <<>> /\ ~SilentBefore(u) /\ ~Crosses(u) /\ ~Reaches(u)
    /\ uttBuf' = Append(uttBuf, u) /\ words' = words + u.words
    /\ UNCHANGED windows

Add(u) ==
    /\ utts' = Append(utts, u)
    /\ First(u) \/ ClosedBySilence(u) \/ ClosedByCrossing(u) \/ ClosedWith(u) \/ Kept(u)

Now == IF utts = <<>> THEN 0 ELSE Last(utts).to
Said == IF utts = <<>> THEN 0 ELSE Last(utts).said
Speak ==
    \E gap \in Gaps, length \in Durations, n \in Counts :
        /\ ~over /\ Len(utts) < MaxUtterances
        /\ Add([from |-> Now + gap, to |-> Now + gap + length, words |-> n, said |-> Said + n])
        /\ UNCHANGED over

Flushed == IF uttBuf = <<>> THEN UNCHANGED windows ELSE Close(uttBuf, "flush")
Flush ==
    /\ ~over /\ over' = TRUE
    /\ Flushed
    /\ uttBuf' = <<>> /\ words' = 0
    /\ UNCHANGED utts

Next == Speak \/ Flush
Spec == Init /\ [][Next]_windowVars

=============================================================================
