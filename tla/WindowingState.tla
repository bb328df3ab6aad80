---------------------------- MODULE WindowingState ----------------------------
(* The state of Windowing, and what Windowing promises of it.               *)
EXTENDS Integers, Sequences, FiniteSetsExt, SequencesExt

CONSTANTS
    MaxUtterances,             \* bound: the utterances of the stream
    MinS, MaxS,                \* WINDOW_MIN_SECONDS, WINDOW_MAX_SECONDS
    MaxWords, MinSilence       \* WINDOW_MAX_WORDS, WINDOW_MIN_SILENCE

VARIABLES
    utts,     \* every utterance so far: [from, to, words, said], said up to its end
    uttBuf,   \* builder.buf
    words,    \* builder.words
    windows,  \* the windows it returned: [utts, why]
    over      \* flush was called

windowVars == <<utts, uttBuf, words, windows, over>>

Elapsed(window) == IF window = <<>> THEN 0 ELSE Last(window).to - window[1].from
\* The words said up to its end, less those before it.
WordsOf(window) ==
    IF window = <<>> THEN 0 ELSE Last(window).said - window[1].said + window[1].words

WithinLimits(window) ==
    Len(window) > 1 => Elapsed(window) <= MaxS /\ WordsOf(window) <= MaxWords

\* No window of several utterances exceeds a limit: one that crosses it starts
\* the next window (windowing.py:57-64).
LimitsKept == WithinLimits(uttBuf) /\ \A i \in DOMAIN windows : WithinLimits(windows[i].utts)

\* A window is closed early for a silence only when it is long enough, and no
\* window goes on over a silence then (windowing.py:50).
SilenceBetweenWindows ==
    \A w \in {windows[i] : i \in DOMAIN windows} :
        /\ w.why = "silence" => Elapsed(w.utts) >= MinS
        /\ \A i \in 1 .. Len(w.utts) - 1 :
             Elapsed(SubSeq(w.utts, 1, i)) >= MinS =>
                 w.utts[i + 1].from - w.utts[i].to < MinSilence

\* An utterance ends its window, starts the next one, or stays in the buffer:
\* just the outcomes that SessionPipeline leaves open.  Of that module only
\* BuilderAdd is used, which reads the buffer alone.
P == INSTANCE SessionPipeline WITH
    MaxSegments <- MaxUtterances, SegCap <- 1, UttCap <- 1, Errors <- FALSE,
    heard <- 0, ingest <- "reading", segQ <- <<>>, utts <- <<>>, asr <- <<>>,
    buf <- uttBuf, windower <- <<>>, job <- "none", stored <- {}, linked <- <<>>, facts <- {},
    session <- "live", main <- "gather", closed <- FALSE

Outcome(window, rest) == P!Cut(window, rest) \in P!BuilderAdd(Last(utts'))
OutcomesCovered ==
    [][utts' # utts =>
         Outcome(IF windows' = windows THEN <<>> ELSE Last(windows').utts, uttBuf')]_windowVars
=============================================================================
