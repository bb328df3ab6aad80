--------------------------- MODULE SegmentingState ---------------------------
(* The state of Segmenting, and what Segmenting promises of it.             *)
EXTENDS Integers, Sequences, FiniteSets

CONSTANT Shortest   \* 0.3 s

VARIABLES
    audio,     \* the stream so far: TRUE for a loud frame
    segBuf,    \* _buf
    start,     \* _buf_start
    silence,   \* _silence_samples
    seen,      \* _speech_seen
    pieces,    \* what was cut off: [from, to, kept, why]
    flushed    \* flush was called

segmentVars == <<audio, segBuf, start, silence, seen, pieces, flushed>>

Loud(frames) == {i \in DOMAIN frames : frames[i]}

Ends(i) == IF i = 0 THEN 0 ELSE pieces[i].to
Frames(p) == SubSeq(audio, p.from + 1, p.to)
HasSpeech(p) == Loud(Frames(p)) # {}

\* The pieces and the buffer are the stream, each frame once and in order, and
\* a segment's times are its place in it, over every cut and every remainder
\* (segmenter.py:61-62, 93-101; FIXES.md:19).
PiecesTile ==
    /\ \A i \in DOMAIN pieces : pieces[i].from = Ends(i - 1) /\ pieces[i].from < pieces[i].to
    /\ segBuf = SubSeq(audio, Ends(Len(pieces)) + 1, Len(audio))
    /\ segBuf # <<>> => start = Ends(Len(pieces))

AfterCap(i) == i > 1 /\ pieces[i - 1].why = "cap"

\* Speech is only dropped where it is shorter than a segment may be, or where it
\* was left over by a hard cut (segmenter.py:97,102-103).
SpeechKept ==
    \A i \in DOMAIN pieces :
        ~pieces[i].kept /\ ~AfterCap(i) /\ HasSpeech(pieces[i])
            => pieces[i].to - pieces[i].from < Shortest
=============================================================================
