----------------------------- MODULE Segmenting -----------------------------
(***************************************************************************)
(* The Segmenter of app/audio/segmenter.py: audio is cut where half a      *)
(* second is silent, or at the quietest place when 30 s are reached, and   *)
(* pieces without speech or shorter than 0.3 s are dropped.                *)
(*                                                                         *)
(* A frame is what add_chunk gets (32 ms) and is loud or quiet; the VAD is *)
(* the energy threshold, which the code falls back to.  Lengths are in     *)
(* frames, and an energy is loud or nothing.                               *)
(***************************************************************************)
EXTENDS SegmentingState

CONSTANTS
    MaxFrames,   \* bound: the frames of the stream
    Silence,     \* silence_ms: 500 ms
    Cap,         \* 30 s
    Tail5,       \* the 5 s a hard cut looks back
    Loudness     \* the energy of a loud frame, as a multiple of the threshold

\* What is assumed of them.
SegmentingConstants ==
    /\ MaxFrames \in Nat
    /\ Shortest \in Nat \ {0} /\ Silence \in Nat /\ Shortest <= Silence
    /\ Tail5 \in Nat /\ Tail5 > Silence /\ Cap \in Nat /\ Tail5 < Cap
    /\ Loudness \in Nat \ {0, 1}

Reasons == {"silence", "cap", "flush"}
Pieces == [from : 0 .. MaxFrames, to : 0 .. MaxFrames, kept : BOOLEAN, why : Reasons]

TypeOK ==
    /\ audio \in Seq(BOOLEAN) /\ Len(audio) <= MaxFrames
    /\ segBuf \in Seq(BOOLEAN) /\ Len(segBuf) <= Cap
    /\ start \in 0 .. MaxFrames
    /\ silence \in 0 .. Cap + Tail5
    /\ seen \in BOOLEAN /\ flushed \in BOOLEAN
    /\ pieces \in Seq(Pieces)

Init ==
    /\ audio = <<>> /\ segBuf = <<>> /\ pieces = <<>>
    /\ start = 0 /\ silence = 0 /\ seen = FALSE /\ flushed = FALSE

\* The energy of several frames is their mean.
IsSpeechEnergy(frames) == Loudness * Cardinality(Loud(frames)) > Len(frames)

-------------------------------------------------------------------------------
\* The first of the quietest frames among the last Tail5 but one: what the
\* scan keeps.  The last frame is not looked at.
BestCut(b) ==
    LET places == Len(b) - Tail5 + 1 .. Len(b) - 1
        quiet == {i \in places : ~b[i]}
        from == IF quiet = {} THEN places ELSE quiet
    IN  (CHOOSE i \in from : \A j \in from : i <= j) - 1

Piece(from, len, why, speech) ==
    [from |-> from, to |-> from + len, kept |-> speech /\ len >= Shortest, why |-> why]

\* What the loop in add_chunk changes.
State(b, s, sil, sp, p) == [buf |-> b, start |-> s, silence |-> sil, seen |-> sp, pieces |-> p]

\* What is left of the buffer after a cut counts as silence throughout.
\* A mutant: it keeps the time at which the buffer started.
RestartAtOld(st, cut) == st.start
RestartAt(st, cut) == st.start + cut
CutAt(st, cut, why) ==
    LET rest == SubSeq(st.buf, cut + 1, Len(st.buf))
    IN  State(rest, RestartAt(st, cut), Len(rest), rest # <<>> /\ IsSpeechEnergy(rest),
              Append(st.pieces, Piece(st.start, cut, why, st.seen)))

\* A mutant: the last frame decides whether speech was seen.
ClassifiedLast(st, f) ==
    [st EXCEPT !.seen = f, !.silence = IF f THEN 0 ELSE @ + 1]
Classified(st, f) ==
    [st EXCEPT !.seen = @ \/ f, !.silence = IF f THEN 0 ELSE @ + 1]

AtCap(st) == Len(st.buf) >= Cap
LongSilence(st) == st.silence >= Silence /\ Len(st.buf) >= Shortest

\* One turn of the loop; the new frame is classified in each.
\* A buffer of Tail5 or less cannot reach the cap again: two turns are all.
Turn(st, f) ==
    LET c == Classified(st, f)
    IN  IF AtCap(c) THEN CutAt(c, BestCut(c.buf), "cap")
        ELSE IF LongSilence(c) THEN CutAt(c, Len(c.buf), "silence")
        ELSE c
Turns(st, f) ==
    LET once == Turn(st, f)
    IN  IF AtCap(st) /\ once.buf # <<>> THEN Turn(once, f) ELSE once

Becomes(st) ==
    /\ segBuf' = st.buf /\ start' = st.start /\ silence' = st.silence
    /\ seen' = st.seen /\ pieces' = st.pieces

AddChunk(f) ==
    /\ ~flushed /\ Len(audio) < MaxFrames
    /\ audio' = Append(audio, f)
    /\ Becomes(Turns(State(Append(segBuf, f), IF segBuf = <<>> THEN Len(audio) ELSE start,
                           silence, seen, pieces), f))
    /\ UNCHANGED flushed

Flushed ==
    Becomes(State(<<>>, Len(audio), 0, FALSE,
                  IF segBuf = <<>> THEN pieces
                  ELSE Append(pieces, Piece(start, Len(segBuf), "flush", seen))))
Flush ==
    /\ ~flushed /\ flushed' = TRUE
    /\ Flushed
    /\ UNCHANGED audio

Next == Flush \/ \E f \in BOOLEAN : AddChunk(f)
Spec == Init /\ [][Next]_segmentVars

-------------------------------------------------------------------------------
(* What the documentation says and the code does not do.                   *)

EndsInSilence(p) ==
    /\ p.to - p.from >= Silence
    /\ \A j \in p.to - Silence + 1 .. p.to : ~audio[j]

\* segmenter.py:19, 77: an utterance is cut where half a second is silent, or at the
\* hard cap, and so "live audio is never split mid-phrase" (segmenter.py:2).
SilenceCutsAreSilent ==
    \A i \in DOMAIN pieces : pieces[i].why = "silence" => EndsInSilence(pieces[i])

=============================================================================
