----------------------------- MODULE CuttingProofs -----------------------------
(***************************************************************************)
(* Where Segmenting cuts the stream and where Windowing cuts the           *)
(* transcript, for streams, buffers and limits of any length.              *)
(***************************************************************************)
EXTENDS SegmentingState, WindowingState, FiniteSetTheorems, TLAPS

CONSTANTS MaxFrames, Silence, Cap, Tail5, Loudness, Gaps, Durations, Counts

G == INSTANCE Segmenting
B == INSTANCE Windowing

-------------------------------------------------------------------------------
(* Windowing                                                                 *)

\* What a window may be: within its limits, and without a long silence once it
\* is long enough.
Unbroken(w) ==
    \A i \in 1 .. Len(w) - 1 :
        Elapsed(SubSeq(w, 1, i)) >= MinS => w[i + 1].from - w[i].to < MinSilence
WindowOK(w) == WithinLimits(w) /\ Unbroken(w)
WindowsOK ==
    \A i \in 1 .. Len(windows) :
        /\ WindowOK(windows[i].utts)
        /\ windows[i].why = "silence" => Elapsed(windows[i].utts) >= MinS

\* The buffer is one, it ends with the last utterance, and its words are counted.
BufOK ==
    /\ uttBuf # <<>> => utts # <<>> /\ Last(uttBuf) = Last(utts)
    /\ words = WordsOf(uttBuf)
    /\ WindowOK(uttBuf)

WInv == B!TypeOK /\ BufOK /\ WindowsOK

LEMMA Same ==
    /\ \A w : B!Elapsed(w) = Elapsed(w)
    /\ \A w : B!WordsOf(w) = WordsOf(w)
    /\ \A w : B!Last(w) = Last(w)
  BY DEF Elapsed, B!Elapsed, WordsOf, B!WordsOf, Last, B!Last

LEMMA WTypes ==
    ASSUME B!WindowingConstants, B!TypeOK
    PROVE  /\ MaxUtterances \in Nat /\ MinS \in Nat /\ MaxS \in Nat /\ MaxWords \in Nat
           /\ MinSilence \in Nat /\ Gaps \subseteq Nat /\ Durations \subseteq Nat \ {0}
           /\ Counts \subseteq Nat \ {0}
           /\ words \in Nat /\ utts \in Seq(B!Utterances) /\ uttBuf \in Seq(B!Utterances)
           /\ windows \in Seq(B!Windows) /\ over \in BOOLEAN
  BY DEF B!WindowingConstants, B!TypeOK

LEMMA UtteranceFields ==
    ASSUME NEW u \in B!Utterances
    PROVE  u.from \in Nat /\ u.to \in Nat /\ u.words \in Nat /\ u.said \in Nat
  BY DEF B!Utterances

LEMMA PrefixLasts ==
    ASSUME NEW w \in Seq(B!Utterances), NEW i \in 1 .. Len(w)
    PROVE  Elapsed(SubSeq(w, 1, i)) = w[i].to - w[1].from
  <1> DEFINE p == SubSeq(w, 1, i)
  <1>1. Len(p) = i /\ p[i] = w[i] /\ p[1] = w[1] /\ p # <<>>
    OBVIOUS
  <1> QED BY <1>1 DEF Elapsed, Last

LEMMA One ==
    ASSUME NEW u \in B!Utterances
    PROVE  WindowOK(<<u>>) /\ WordsOf(<<u>>) = u.words /\ Last(<<u>>) = u
  <1>1. Len(<<u>>) = 1 /\ <<u>>[1] = u /\ <<u>> # <<>>
    OBVIOUS
  <1>2. Last(<<u>>) = u
    BY <1>1 DEF Last
  <1>3. WordsOf(<<u>>) = u.words
    BY <1>1, <1>2, UtteranceFields DEF WordsOf
  <1> QED BY <1>1, <1>2, <1>3 DEF WindowOK, WithinLimits, Unbroken

LEMMA NoWindow ==
    WindowOK(<<>>) /\ WordsOf(<<>>) = 0
  BY DEF WindowOK, WithinLimits, Unbroken, WordsOf

\* An utterance that neither crosses a limit nor follows a silence makes a longer window.
LEMMA Longer ==
    ASSUME B!WindowingConstants, WInv, uttBuf # <<>>, NEW u \in B!Utterances,
           u.said = Last(utts).said + u.words, ~B!SilentBefore(u), ~B!Crosses(u)
    PROVE  /\ Append(uttBuf, u) \in Seq(B!Utterances) /\ WindowOK(Append(uttBuf, u))
           /\ WordsOf(Append(uttBuf, u)) = words + u.words
           /\ Last(Append(uttBuf, u)) = u
  <1>1. PICK b \in Seq(B!Utterances) : b = uttBuf
    BY WTypes DEF WInv
  <1>2. PICK n \in Nat : n = Len(b) /\ n > 0
    <2>1. Len(b) \in Nat /\ Len(b) # 0
      BY <1>1
    <2> QED BY <2>1
  <1>3. PICK w \in Seq(B!Utterances) : w = Append(b, u)
    <2>1. Append(b, u) \in Seq(B!Utterances)
      BY <1>1
    <2> QED BY <2>1
  <1>4. /\ Len(w) = n + 1 /\ w[n + 1] = u /\ w # <<>> /\ b # <<>>
        /\ \A i \in 1 .. n : w[i] = b[i] /\ b[i] \in B!Utterances
    BY <1>1, <1>2, <1>3
  <1>5. Last(w) = u /\ Last(b) = b[n]
    BY <1>2, <1>4 DEF Last
  <1>6. /\ \A i \in 1 .. n : b[i].from \in Nat /\ b[i].to \in Nat /\ b[i].words \in Nat /\ b[i].said \in Nat
        /\ u.from \in Nat /\ u.to \in Nat /\ u.words \in Nat /\ u.said \in Nat
        /\ words \in Nat /\ MinS \in Nat /\ MinSilence \in Nat
    BY <1>4, UtteranceFields, WTypes DEF WInv
  <1>7. words = WordsOf(b) /\ WindowOK(b) /\ u.said = Last(b).said + u.words
    BY <1>1, <1>2 DEF WInv, BufOK
  <1>8. WordsOf(w) = words + u.words
    <2>1. 1 \in 1 .. n /\ n \in 1 .. n
      BY <1>2
    <2>2. WordsOf(b) = b[n].said - b[1].said + b[1].words
      BY <1>4, <1>5 DEF WordsOf
    <2>3. WordsOf(w) = u.said - b[1].said + b[1].words
      BY <1>4, <1>5, <2>1 DEF WordsOf
    <2> QED BY <1>5, <1>6, <1>7, <2>1, <2>2, <2>3, SMTT(30)
  <1>9. ~(Elapsed(w) > MaxS) /\ ~(words + u.words > MaxWords)
    BY <1>1, <1>3, Same DEF B!Crosses
  <1>10. Elapsed(w) \in Int /\ MaxS \in Nat /\ MaxWords \in Nat
    <2>1. Elapsed(w) = u.to - b[1].from
      BY <1>2, <1>4, <1>5 DEF Elapsed
    <2>2. MaxS \in Nat /\ MaxWords \in Nat
      BY WTypes DEF WInv
    <2> QED BY <1>2, <1>6, <2>1, <2>2
  <1>11. WithinLimits(w)
    BY <1>6, <1>8, <1>9, <1>10 DEF WithinLimits
  <1>12. Unbroken(w)
    <2> SUFFICES ASSUME NEW i \in 1 .. n, Elapsed(SubSeq(w, 1, i)) >= MinS
                 PROVE  w[i + 1].from - w[i].to < MinSilence
      BY <1>4 DEF Unbroken
    <2>1. Elapsed(SubSeq(w, 1, i)) = b[i].to - b[1].from
      BY <1>2, <1>4, PrefixLasts
    <2>2. Elapsed(SubSeq(b, 1, i)) = b[i].to - b[1].from
      BY <1>2, PrefixLasts
    <2>3. CASE i = n
      <3>1. Elapsed(b) = b[n].to - b[1].from
        BY <1>4, <1>5 DEF Elapsed
      <3>2. B!LongEnough
        BY <1>1, <2>1, <2>3, <3>1, Same DEF B!LongEnough
      <3>3. ~(u.from - b[n].to >= MinSilence)
        BY <1>1, <1>5, <3>2, Same DEF B!SilentBefore
      <3> QED BY <1>2, <1>4, <1>6, <2>3, <3>3
    <2>4. CASE i # n
      <3>1. i \in 1 .. Len(b) - 1 /\ i + 1 \in 1 .. n
        BY <1>2, <2>4
      <3> QED BY <1>4, <1>7, <2>1, <2>2, <3>1 DEF WindowOK, Unbroken
    <2> QED BY <2>3, <2>4
  <1> QED BY <1>1, <1>3, <1>5, <1>8, <1>11, <1>12 DEF WindowOK

\* What Speak makes of the utterance it hears.
LEMMA Heard ==
    ASSUME B!WindowingConstants, WInv, B!Speak
    PROVE  \E u \in B!Utterances :
             /\ B!Add(u) /\ u.from < u.to /\ Len(utts) < MaxUtterances /\ over' = over
             /\ uttBuf # <<>> => u.said = Last(utts).said + u.words
  <1>1. PICK gap \in Gaps, length \in Durations, n \in Counts :
          /\ Len(utts) < MaxUtterances /\ over' = over
          /\ B!Add([from |-> B!Now + gap, to |-> B!Now + gap + length, words |-> n,
                    said |-> B!Said + n])
    BY DEF B!Speak
  <1>2. B!Now \in Nat /\ B!Said \in Nat /\ (utts # <<>> => B!Said = Last(utts).said)
    <2>1. CASE utts = <<>>
      BY <2>1 DEF B!Now, B!Said
    <2>2. CASE utts # <<>>
      <3>1. Last(utts) \in B!Utterances
        BY <2>2, WTypes DEF WInv, Last
      <3> QED BY <2>2, <3>1, UtteranceFields, Same DEF B!Now, B!Said
    <2> QED BY <2>1, <2>2
  <1>3. gap \in Nat /\ length \in Nat /\ length > 0 /\ n \in Nat
    BY WTypes DEF WInv
  <1>4. PICK from \in Nat, to \in Nat, said \in Nat :
          from = B!Now + gap /\ to = B!Now + gap + length /\ said = B!Said + n /\ from < to
    BY <1>2, <1>3
  <1>5. PICK u : u = [from |-> from, to |-> to, words |-> n, said |-> said]
    OBVIOUS
  <1>6. u \in B!Utterances /\ u.from = from /\ u.to = to /\ u.words = n /\ u.said = said
    BY <1>3, <1>5 DEF B!Utterances
  <1>7. B!Add(u)
    BY <1>1, <1>4, <1>5
  <1> QED BY <1>1, <1>2, <1>4, <1>6, <1>7 DEF WInv, BufOK

LEMMA Returned ==
    ASSUME WInv, NEW w \in Seq(B!Utterances), NEW why \in B!Reasons, w # <<>>,
           windows' = Append(windows, [utts |-> w, why |-> why]), WindowOK(w),
           why = "silence" => Elapsed(w) >= MinS
    PROVE  /\ windows' \in Seq(B!Windows) /\ WindowsOK'
           /\ \A i \in DOMAIN windows' : windows'[i].utts # <<>>
  <1>1. PICK x : x = [utts |-> w, why |-> why]
    OBVIOUS
  <1>2. x \in B!Windows /\ x.utts = w /\ x.why = why
    BY <1>1 DEF B!Windows
  <1>3. PICK n \in Nat : n = Len(windows)
    BY DEF WInv, B!TypeOK
  <1>4. /\ windows \in Seq(B!Windows) /\ \A i \in 1 .. n : windows[i].utts # <<>>
        /\ windows' = Append(windows, x)
    BY <1>1, <1>3 DEF WInv, B!TypeOK
  <1>5. /\ windows' \in Seq(B!Windows) /\ Len(windows') = n + 1 /\ windows'[n + 1] = x
        /\ \A i \in 1 .. n : windows'[i] = windows[i]
    BY <1>2, <1>3, <1>4
  <1>6. \A i \in 1 .. n + 1 : i = n + 1 \/ i \in 1 .. n
    OBVIOUS
  <1>7. WindowsOK'
    <2>1. ASSUME NEW i \in 1 .. n + 1
          PROVE  /\ WindowOK(windows'[i].utts)
                 /\ windows'[i].why = "silence" => Elapsed(windows'[i].utts) >= MinS
      <3>1. CASE i = n + 1
        BY <1>2, <1>5, <3>1
      <3>2. CASE i \in 1 .. n
        BY <1>3, <1>5, <3>2 DEF WInv, WindowsOK
      <3> QED BY <1>6, <3>1, <3>2
    <2> QED BY <1>5, <2>1 DEF WindowsOK
  <1> QED BY <1>2, <1>4, <1>5, <1>6, <1>7

LEMMA SpeakStep == ASSUME B!WindowingConstants, WInv, B!Speak PROVE WInv'
  <1>1. PICK u \in B!Utterances :
          /\ B!Add(u) /\ u.from < u.to /\ Len(utts) < MaxUtterances /\ over' = over
          /\ uttBuf # <<>> => u.said = Last(utts).said + u.words
    BY Heard
  <1>2. /\ words \in Nat /\ utts \in Seq(B!Utterances) /\ uttBuf \in Seq(B!Utterances)
        /\ windows \in Seq(B!Windows) /\ over \in BOOLEAN /\ MaxUtterances \in Nat
        /\ \A i \in DOMAIN utts : utts[i].from < utts[i].to
        /\ \A i \in DOMAIN windows : windows[i].utts # <<>>
        /\ WindowOK(uttBuf) /\ words = WordsOf(uttBuf) /\ WindowsOK
    BY WTypes DEF WInv, B!TypeOK, BufOK
  <1>3. /\ utts' = Append(utts, u) /\ utts' \in Seq(B!Utterances) /\ utts' # <<>> /\ Last(utts') = u
        /\ Len(utts') <= MaxUtterances /\ \A i \in DOMAIN utts' : utts'[i].from < utts'[i].to
    <2>1. utts' = Append(utts, u)
      BY <1>1 DEF B!Add
    <2>2. PICK n \in Nat : n = Len(utts)
      BY <1>2
    <2>3. /\ utts' \in Seq(B!Utterances) /\ Len(utts') = n + 1 /\ utts'[n + 1] = u
          /\ \A i \in 1 .. n : utts'[i] = utts[i]
      BY <1>2, <2>1, <2>2
    <2> QED BY <1>1, <1>2, <2>1, <2>2, <2>3 DEF Last
  <1>4. u.words \in Nat /\ WindowOK(<<u>>) /\ WordsOf(<<u>>) = u.words /\ Last(<<u>>) = u
        /\ <<u>> \in Seq(B!Utterances)
    BY UtteranceFields, One
  <1>5. \/ B!First(u) \/ B!ClosedBySilence(u) \/ B!ClosedByCrossing(u) \/ B!ClosedWith(u)
        \/ B!Kept(u)
    BY <1>1 DEF B!Add
  <1>6. ASSUME uttBuf' = <<u>>, words' = u.words
        PROVE  BufOK' /\ words' \in Nat /\ uttBuf' \in Seq(B!Utterances)
    BY <1>3, <1>4, <1>6 DEF BufOK
  <1>7. ASSUME BufOK', words' \in Nat, uttBuf' \in Seq(B!Utterances), windows' \in Seq(B!Windows),
               WindowsOK', \A i \in DOMAIN windows' : windows'[i].utts # <<>>
        PROVE  WInv'
    BY <1>1, <1>2, <1>3, <1>7 DEF WInv, B!TypeOK
  <1>8. ASSUME windows' = windows PROVE WindowsOK'
    BY <1>2, <1>8 DEF WindowsOK
  <1>9. CASE B!First(u)
    BY <1>2, <1>6, <1>7, <1>8, <1>9 DEF B!First, B!StartWith
  <1>10. CASE B!ClosedBySilence(u)
    <2>1. Elapsed(uttBuf) >= MinS
      BY <1>10, Same DEF B!ClosedBySilence, B!SilentBefore, B!LongEnough
    <2>2. /\ uttBuf # <<>> /\ windows' = Append(windows, [utts |-> uttBuf, why |-> "silence"])
          /\ uttBuf' = <<u>> /\ words' = u.words /\ "silence" \in B!Reasons
      BY <1>10 DEF B!ClosedBySilence, B!StartWith, B!Close, B!Reasons
    <2> QED BY <1>2, <1>6, <1>7, <2>1, <2>2, Returned
  <1>11. CASE B!ClosedByCrossing(u)
    <2>1. /\ uttBuf # <<>> /\ windows' = Append(windows, [utts |-> uttBuf, why |-> "crossed"])
          /\ uttBuf' = <<u>> /\ words' = u.words /\ "crossed" \in B!Reasons
      BY <1>11 DEF B!ClosedByCrossing, B!StartWith, B!Close, B!Reasons
    <2> QED BY <1>2, <1>6, <1>7, <2>1, Returned
  <1>12. CASE B!ClosedWith(u)
    <2>1. PICK w : w = Append(uttBuf, u)
      OBVIOUS
    <2>2. /\ uttBuf # <<>> /\ ~B!SilentBefore(u) /\ ~B!Crosses(u)
          /\ windows' = Append(windows, [utts |-> w, why |-> "reached"])
          /\ uttBuf' = <<>> /\ words' = 0 /\ "reached" \in B!Reasons
      BY <1>12, <2>1 DEF B!ClosedWith, B!Close, B!Reasons
    <2>3. w \in Seq(B!Utterances) /\ WindowOK(w) /\ w # <<>>
      BY <1>1, <1>2, <2>1, <2>2, Longer, SMTT(30)
    <2>4. BufOK' /\ uttBuf' \in Seq(B!Utterances)
      BY <2>2, NoWindow DEF BufOK
    <2> QED BY <1>7, <2>2, <2>3, <2>4, Returned
  <1>13. CASE B!Kept(u)
    <2>1. PICK w : w = Append(uttBuf, u)
      OBVIOUS
    <2>2. /\ uttBuf # <<>> /\ ~B!SilentBefore(u) /\ ~B!Crosses(u)
          /\ uttBuf' = w /\ words' = words + u.words /\ windows' = windows
      BY <1>13, <2>1 DEF B!Kept
    <2>3. /\ w \in Seq(B!Utterances) /\ WindowOK(w) /\ WordsOf(w) = words + u.words
          /\ Last(w) = u
      BY <1>1, <1>2, <2>1, <2>2, Longer
    <2>4. BufOK' /\ words' \in Nat
      BY <1>2, <1>3, <1>4, <2>2, <2>3 DEF BufOK
    <2> QED BY <1>2, <1>7, <1>8, <2>2, <2>3, <2>4
  <1> QED BY <1>5, <1>9, <1>10, <1>11, <1>12, <1>13

LEMMA WFlushStep == ASSUME B!WindowingConstants, WInv, B!Flush PROVE WInv'
  <1>1. uttBuf' = <<>> /\ words' = 0 /\ utts' = utts /\ over' = TRUE /\ B!Flushed
    BY DEF B!Flush
  <1>2. BufOK' /\ words' \in Nat /\ uttBuf' \in Seq(B!Utterances)
    BY <1>1, NoWindow DEF BufOK
  <1>3. /\ windows' \in Seq(B!Windows) /\ WindowsOK'
        /\ \A i \in DOMAIN windows' : windows'[i].utts # <<>>
    <2>1. CASE uttBuf = <<>>
      BY <1>1, <2>1 DEF B!Flushed, WInv, B!TypeOK, WindowsOK
    <2>2. CASE uttBuf # <<>>
      <3>1. windows' = Append(windows, [utts |-> uttBuf, why |-> "flush"]) /\ "flush" \in B!Reasons
        BY <1>1, <2>2 DEF B!Flushed, B!Close, B!Reasons
      <3> QED BY <2>2, <3>1, Returned, WTypes DEF WInv, BufOK
    <2> QED BY <2>1, <2>2
  <1> QED BY <1>1, <1>2, <1>3 DEF WInv, B!TypeOK

LEMMA WNext == ASSUME B!WindowingConstants, WInv, [B!Next]_windowVars PROVE WInv'
  <1>1. CASE UNCHANGED windowVars
    BY <1>1 DEF windowVars, WInv, B!TypeOK, BufOK, WindowsOK
  <1> QED BY <1>1, SpeakStep, WFlushStep DEF B!Next

LEMMA WInvariant == ASSUME B!WindowingConstants PROVE B!Spec => []WInv
  <1>1. B!Init => WInv
    <2> SUFFICES ASSUME B!Init PROVE WInv
      OBVIOUS
    <2>1. utts = <<>> /\ uttBuf = <<>> /\ words = 0 /\ windows = <<>> /\ over = FALSE
      BY DEF B!Init
    <2>2. Len(utts) = 0 /\ DOMAIN utts = {} /\ DOMAIN windows = {} /\ Len(windows) = 0
      BY <2>1
    <2>3. MaxUtterances \in Nat
      BY DEF B!WindowingConstants
    <2>4. B!TypeOK
      <3>1. over \in BOOLEAN
        BY <2>1
      <3>2. utts \in Seq(B!Utterances) /\ uttBuf \in Seq(B!Utterances) /\ windows \in Seq(B!Windows)
        BY <2>1
      <3>3. words \in Nat /\ Len(utts) <= MaxUtterances
        BY <2>1, <2>2, <2>3
      <3> QED BY <2>2, <3>1, <3>2, <3>3 DEF B!TypeOK
    <2> QED BY <2>1, <2>2, <2>4, NoWindow DEF WInv, BufOK, WindowsOK
  <1>2. WInv /\ [B!Next]_windowVars => WInv'
    BY WNext
  <1> QED BY <1>1, <1>2, PTL DEF B!Spec, B!windowVars, windowVars

\* The utterances, the buffer and the windows have their types; no window is
\* empty and no utterance ends before it begins (windowing.py).
THEOREM WindowsTyped == ASSUME B!WindowingConstants PROVE B!Spec => []B!TypeOK
  <1>1. WInv => B!TypeOK
    BY DEF WInv
  <1> QED BY <1>1, WInvariant, PTL

\* However long the utterances, and however many words they have, no window of
\* several of them exceeds a limit (windowing.py:57-64).
THEOREM NoWindowTooLong == ASSUME B!WindowingConstants PROVE B!Spec => []LimitsKept
  <1>1. WInv => LimitsKept
    <2> SUFFICES ASSUME WInv PROVE LimitsKept
      OBVIOUS
    <2>1. DOMAIN windows = 1 .. Len(windows)
      BY DEF WInv, B!TypeOK
    <2> QED BY <2>1 DEF WInv, BufOK, WindowsOK, WindowOK, LimitsKept
  <1> QED BY <1>1, WInvariant, PTL

\* Windows end at long silences and go on over short ones (windowing.py:50).
THEOREM WindowsEndAtSilences ==
    ASSUME B!WindowingConstants PROVE B!Spec => []SilenceBetweenWindows
  <1>1. WInv => SilenceBetweenWindows
    <2> SUFFICES ASSUME WInv PROVE SilenceBetweenWindows
      OBVIOUS
    <2>1. DOMAIN windows = 1 .. Len(windows)
      BY DEF WInv, B!TypeOK
    <2> QED BY <2>1 DEF WInv, WindowsOK, WindowOK, Unbroken, SilenceBetweenWindows
  <1> QED BY <1>1, WInvariant, PTL

\* What add does with an utterance is what the pipeline's windower counts on: the
\* outcomes that SessionPipeline leaves open are all there are (windowing.py:33-78).
THEOREM OutcomesAreCovered == ASSUME B!WindowingConstants PROVE B!Spec => OutcomesCovered
  <1> DEFINE Covered == utts' # utts =>
               Outcome(IF windows' = windows THEN <<>> ELSE Last(windows').utts, uttBuf')
  <1>1. ASSUME B!WindowingConstants, WInv, B!Next PROVE Covered
    <2> SUFFICES ASSUME utts' # utts PROVE Covered
      OBVIOUS
    <2>1. B!Speak
      BY <1>1 DEF B!Next, B!Flush
    <2>2. PICK u \in B!Utterances : B!Add(u)
      BY <1>1, <2>1, Heard
    <2>3. Last(utts') = u
      <3>1. utts' = Append(utts, u) /\ utts \in Seq(B!Utterances)
        BY <1>1, <2>2 DEF B!Add, WInv, B!TypeOK
      <3> QED BY <3>1 DEF Last
    <2>4. ASSUME NEW w, NEW why, windows' = Append(windows, [utts |-> w, why |-> why])
          PROVE  windows' # windows /\ Last(windows').utts = w
      <3>1. windows \in Seq(B!Windows)
        BY <1>1 DEF WInv, B!TypeOK
      <3>2. PICK x : x = [utts |-> w, why |-> why]
        OBVIOUS
      <3>3. Len(windows') = Len(windows) + 1 /\ windows'[Len(windows')] = x /\ Len(windows) \in Nat
        BY <2>4, <3>1, <3>2
      <3> QED BY <3>2, <3>3 DEF Last
    <2>5. /\ uttBuf = <<>> => P!BuilderAdd(u) = {P!Cut(<<>>, <<u>>)}
          /\ uttBuf # <<>> =>
               P!BuilderAdd(u) = {P!Cut(uttBuf, <<u>>), P!Cut(<<>>, Append(uttBuf, u)),
                                  P!Cut(Append(uttBuf, u), <<>>)}
      BY DEF P!BuilderAdd
    <2>6. CASE B!First(u)
      BY <2>3, <2>5, <2>6 DEF B!First, B!StartWith, Outcome
    <2>7. CASE B!ClosedBySilence(u)
      BY <2>3, <2>4, <2>5, <2>7 DEF B!ClosedBySilence, B!StartWith, B!Close, Outcome
    <2>8. CASE B!ClosedByCrossing(u)
      BY <2>3, <2>4, <2>5, <2>8 DEF B!ClosedByCrossing, B!StartWith, B!Close, Outcome
    <2>9. CASE B!ClosedWith(u)
      BY <2>3, <2>4, <2>5, <2>9 DEF B!ClosedWith, B!Close, Outcome
    <2>10. CASE B!Kept(u)
      BY <2>3, <2>5, <2>10 DEF B!Kept, Outcome
    <2> QED BY <2>2, <2>6, <2>7, <2>8, <2>9, <2>10 DEF B!Add
  <1>2. ASSUME B!WindowingConstants, WInv PROVE [B!Next]_windowVars => [Covered]_windowVars
    BY <1>1, <1>2
  <1>3. WInv /\ [B!Next]_windowVars => [Covered]_windowVars
    BY <1>2
  <1> QED BY <1>3, WInvariant, PTL DEF OutcomesCovered, B!Spec, B!windowVars, windowVars

-------------------------------------------------------------------------------
(* Segmenting                                                                *)

EndOf(ps) == IF ps = <<>> THEN 0 ELSE ps[Len(ps)].to
AfterHardCut(ps) == ps # <<>> /\ ps[Len(ps)].why = "cap"

\* How long a piece may be, by what cut it.
LengthOK(n, why) ==
    /\ n < Cap
    /\ why = "silence" => n >= Shortest
    /\ why = "cap" => n >= Cap - Tail5

\* Pieces of stream a: each begins where the one before it ended, ends in silence if
\* silence cut it, and is only dropped as speech where it is short; the last two
\* unless a hard cut left it over.
PieceOK(ps, i, a) ==
    /\ ps[i].from = IF i = 1 THEN 0 ELSE ps[i - 1].to
    /\ ps[i].from < ps[i].to /\ ps[i].to <= Len(a)
    /\ LengthOK(ps[i].to - ps[i].from, ps[i].why)
    /\ ps[i].why = "silence" /\ ~(i > 1 /\ ps[i - 1].why = "cap") =>
          /\ ps[i].to - ps[i].from >= Silence
          /\ \A j \in ps[i].from + 1 .. ps[i].to : j > ps[i].to - Silence => ~a[j]
    /\ ~ps[i].kept /\ ~(i > 1 /\ ps[i - 1].why = "cap")
       /\ (\E j \in ps[i].from + 1 .. ps[i].to : a[j])
         => ps[i].to - ps[i].from < Shortest
PiecesOK(ps, a) == ps \in Seq(G!Pieces) /\ \A i \in 1 .. Len(ps) : PieceOK(ps, i, a)

\* The buffer is what comes after them.
RestOK(buf, from, ps, a) ==
    /\ buf \in Seq(BOOLEAN) /\ EndOf(ps) + Len(buf) = Len(a)
    /\ \A i \in 1 .. Len(buf) : buf[i] = a[EndOf(ps) + i]
    /\ buf # <<>> => from = EndOf(ps)

\* Speech in it was noticed, but for what a hard cut left over.
HeardOK(buf, ps, speech) == ~AfterHardCut(ps) /\ (\E i \in 1 .. Len(buf) : buf[i]) => speech

\* Its last n frames are quiet; so many have been counted, but for what a hard cut
\* left over, which counts as silence whatever it is.
QuietEnd(buf, n) ==
    n <= Len(buf) /\ \A i \in 1 .. Len(buf) : i > Len(buf) - n => ~buf[i]
QuietOK(buf, ps, n) == ~AfterHardCut(ps) => QuietEnd(buf, n)

\* What add_chunk and flush may cut off the front of the buffer, and why.
CutOK(buf, ps, cut, why) ==
    /\ LengthOK(cut, why)
    /\ why = "silence" => cut = Len(buf) /\ QuietOK(buf, ps, Silence)

SInv ==
    /\ G!TypeOK
    /\ PiecesOK(pieces, audio)
    /\ RestOK(segBuf, start, pieces, audio)
    /\ HeardOK(segBuf, pieces, seen)
    /\ QuietOK(segBuf, pieces, silence)
    /\ silence <= Len(segBuf) + 1 /\ Len(segBuf) < Cap

LEMMA SConstants ==
    ASSUME G!SegmentingConstants
    PROVE  /\ MaxFrames \in Nat /\ Shortest \in Nat /\ Shortest > 0
           /\ Tail5 \in Nat /\ Cap \in Nat /\ Tail5 < Cap /\ Tail5 >= 2
           /\ Silence \in Nat
  BY DEF G!SegmentingConstants

LEMMA Ended ==
    ASSUME G!SegmentingConstants, NEW ps, NEW a \in Seq(BOOLEAN), PiecesOK(ps, a)
    PROVE  /\ ps \in Seq(G!Pieces) /\ Len(ps) \in Nat /\ EndOf(ps) \in 0 .. MaxFrames
           /\ EndOf(ps) <= Len(a)
           /\ \A i \in 1 .. Len(ps) :
                /\ ps[i] \in G!Pieces /\ ps[i].from \in Nat /\ ps[i].to \in Nat
                /\ ps[i].kept \in BOOLEAN
  <1>1. ps \in Seq(G!Pieces) /\ Len(ps) \in Nat /\ Len(a) \in Nat /\ MaxFrames \in Nat
    BY SConstants DEF PiecesOK
  <1>2. \A i \in 1 .. Len(ps) : ps[i] \in G!Pieces
    BY <1>1
  <1>3. \A p \in G!Pieces : p.from \in Nat /\ p.to \in 0 .. MaxFrames /\ p.kept \in BOOLEAN
    BY <1>1 DEF G!Pieces
  <1>4. CASE ps = <<>>
    BY <1>1, <1>4 DEF EndOf
  <1>5. CASE ps # <<>>
    <2>1. Len(ps) \in 1 .. Len(ps)
      BY <1>1, <1>5
    <2>2. ps[Len(ps)].to <= Len(a)
      BY <2>1 DEF PiecesOK, PieceOK
    <2> QED BY <1>1, <1>2, <1>3, <1>5, <2>1, <2>2 DEF EndOf
  <1> QED BY <1>1, <1>2, <1>3, <1>4, <1>5

\* A piece that is cut from the front of the buffer.
LEMMA Added ==
    ASSUME G!SegmentingConstants, NEW ps, NEW a \in Seq(BOOLEAN), PiecesOK(ps, a),
           Len(a) <= MaxFrames, NEW buf, NEW speech \in BOOLEAN,
           RestOK(buf, EndOf(ps), ps, a), HeardOK(buf, ps, speech),
           NEW cut \in 1 .. Len(buf), NEW why \in G!Reasons, CutOK(buf, ps, cut, why)
    PROVE  LET qs == Append(ps, G!Piece(EndOf(ps), cut, why, speech)) IN
           /\ PiecesOK(qs, a) /\ EndOf(qs) = EndOf(ps) + cut
           /\ AfterHardCut(qs) <=> why = "cap"
  <1>1. PICK n \in Nat, e \in 0 .. MaxFrames : n = Len(ps) /\ e = EndOf(ps)
    BY Ended
  <1>2. PICK p : p = G!Piece(e, cut, why, speech)
    OBVIOUS
  <1>3. PICK qs : qs = Append(ps, p)
    OBVIOUS
  <1>4. /\ buf \in Seq(BOOLEAN) /\ Len(buf) \in Nat /\ Len(a) \in Nat /\ e + Len(buf) = Len(a)
        /\ cut \in Nat /\ cut > 0 /\ cut <= Len(buf) /\ MaxFrames \in Nat /\ e \in Nat
        /\ \A i \in 1 .. Len(buf) : buf[i] = a[e + i]
        /\ Shortest \in Nat
    BY <1>1, SConstants DEF RestOK
  <1>5. PICK to \in 0 .. MaxFrames : to = e + cut /\ to > e /\ to <= Len(a)
    <2>1. e + cut \in 0 .. MaxFrames /\ e + cut > e /\ e + cut <= Len(a)
      BY <1>1, <1>4
    <2> QED BY <2>1
  <1>6. PICK kept \in BOOLEAN : kept = (speech /\ cut >= Shortest)
    OBVIOUS
  <1>7. /\ p \in G!Pieces /\ p.from = e /\ p.to = to /\ p.kept = kept /\ p.why = why
    <2>1. p = [from |-> e, to |-> to, kept |-> kept, why |-> why]
      BY <1>2, <1>5, <1>6 DEF G!Piece
    <2> HIDE DEF G!Reasons
    <2> QED BY <1>1, <1>5, <1>6, <2>1 DEF G!Pieces
  <1>8. ps \in Seq(G!Pieces) /\ \A i \in 1 .. n : PieceOK(ps, i, a)
    BY <1>1 DEF PiecesOK
  <1>9. /\ qs \in Seq(G!Pieces) /\ Len(qs) = n + 1 /\ qs[n + 1] = p /\ qs # <<>>
        /\ \A i \in 1 .. n : qs[i] = ps[i]
    BY <1>1, <1>3, <1>7, <1>8
  <1>10. \A i \in 1 .. n : PieceOK(qs, i, a)
    <2> SUFFICES ASSUME NEW i \in 1 .. n PROVE PieceOK(qs, i, a)
      OBVIOUS
    <2>1. i # 1 => i - 1 \in 1 .. n
      BY <1>1
    <2>2. qs[i] = ps[i] /\ (i # 1 => qs[i - 1] = ps[i - 1])
      BY <1>9, <2>1
    <2>3. PieceOK(ps, i, a) /\ (i > 1 => i # 1)
      BY <1>8
    <2> QED BY <2>2, <2>3 DEF PieceOK
  <1>11. PieceOK(qs, n + 1, a)
    <2>1. p.from = IF n + 1 = 1 THEN 0 ELSE qs[n].to
      BY <1>1, <1>7, <1>8, <1>9 DEF EndOf
    <2>2. ASSUME ~kept, ~(n + 1 > 1 /\ qs[n].why = "cap"), NEW j \in e + 1 .. to, a[j]
          PROVE  to - e < Shortest
      <3>1. ~AfterHardCut(ps)
        BY <1>1, <1>8, <1>9, <2>2 DEF AfterHardCut
      <3>2. PICK i \in 1 .. Len(buf) : i = j - e
        BY <1>4, <1>5
      <3>3. buf[i]
        BY <1>4, <2>2, <3>2
      <3>4. speech
        BY <3>1, <3>3 DEF HeardOK
      <3>5. ~(cut >= Shortest)
        BY <1>6, <2>2, <3>4
      <3> QED BY <1>4, <1>5, <3>5
    <2>3. n + 1 - 1 = n
      OBVIOUS
    <2>4. LengthOK(to - e, why)
      <3>1. to - e = cut
        BY <1>4, <1>5
      <3> QED BY <3>1 DEF CutOK
    <2>5. ASSUME why = "silence", ~(n + 1 > 1 /\ qs[n].why = "cap")
          PROVE  to - e >= Silence /\ \A j \in e + 1 .. to : j > to - Silence => ~a[j]
      <3>1. ~AfterHardCut(ps)
        BY <1>1, <1>8, <1>9, <2>5 DEF AfterHardCut
      <3>2. cut = Len(buf) /\ QuietEnd(buf, Silence) /\ Silence \in Nat
        BY <2>5, <3>1, SConstants DEF CutOK, QuietOK
      <3>3. to - e >= Silence
        BY <1>4, <1>5, <3>2 DEF QuietEnd
      <3>4. ASSUME NEW j \in e + 1 .. to, j > to - Silence PROVE ~a[j]
        <4>1. PICK i \in 1 .. Len(buf) : i = j - e
          BY <1>4, <1>5
        <4>2. i > Len(buf) - Silence /\ e + i = j
          BY <1>4, <1>5, <3>2, <3>4, <4>1
        <4>3. ~buf[i]
          BY <3>2, <4>2 DEF QuietEnd
        <4> QED BY <1>4, <4>2, <4>3
      <3> QED BY <3>3, <3>4
    <2>6. /\ qs[n + 1].from = e /\ qs[n + 1].to = to /\ qs[n + 1].kept = kept
          /\ qs[n + 1].why = why /\ qs[n + 1 - 1] = qs[n]
      BY <1>7, <1>9, <2>3
    <2>7. qs[n + 1].from = IF n + 1 = 1 THEN 0 ELSE qs[n + 1 - 1].to
      BY <1>7, <2>1, <2>6
    <2>8. ~qs[n + 1].kept /\ ~(n + 1 > 1 /\ qs[n + 1 - 1].why = "cap")
          /\ (\E j \in e + 1 .. to : a[j]) => to - e < Shortest
      BY <2>2, <2>6
    <2>9. qs[n + 1].why = "silence" /\ ~(n + 1 > 1 /\ qs[n + 1 - 1].why = "cap") =>
            to - e >= Silence /\ \A j \in e + 1 .. to : j > to - Silence => ~a[j]
      BY <2>5, <2>6
    <2>10. LengthOK(to - e, qs[n + 1].why)
      BY <2>4, <2>6
    <2>11. e < to /\ to <= Len(a)
      BY <1>5
    <2> HIDE DEF LengthOK
    <2> QED BY <2>6, <2>7, <2>8, <2>9, <2>10, <2>11 DEF PieceOK
  <1>12. PiecesOK(qs, a)
    <2>1. \A i \in 1 .. n + 1 : i = n + 1 \/ i \in 1 .. n
      OBVIOUS
    <2> QED BY <1>9, <1>10, <1>11, <2>1 DEF PiecesOK
  <1>13. EndOf(qs) = to /\ (AfterHardCut(qs) <=> why = "cap")
    BY <1>7, <1>9 DEF EndOf, AfterHardCut
  <1> QED BY <1>1, <1>2, <1>3, <1>5, <1>12, <1>13

\* A set of numbers that is finite has a least one.
LEMMA LeastIn ==
    ASSUME NEW T \in SUBSET Int, IsFiniteSet(T), T # {}
    PROVE  \E x \in T : \A y \in T : x <= y
  <1> DEFINE Below(x) == {y \in T : y < x}
             Us == {Below(x) : x \in T}
             R == StrictSubsetOrdering(T)
  <1>1. IsWellFoundedOn(R, FiniteSubsetsOf(T))
    BY FS_StrictSubsetOrderingWellFounded
  <1>2. Us \subseteq FiniteSubsetsOf(T)
    <2> SUFFICES ASSUME NEW x \in T PROVE Below(x) \in FiniteSubsetsOf(T)
      OBVIOUS
    <2>1. IsFiniteSet(Below(x))
      BY FS_Subset
    <2> QED BY <2>1 DEF FiniteSubsetsOf
  <1>3. Us # {}
    <2> HIDE DEF Below
    <2> QED OBVIOUS
  <1>4. \E u \in Us : \A v \in Us : <<v, u>> \notin R
    <2> HIDE DEF Us, R
    <2> QED BY <1>1, <1>2, <1>3, WFMin
  <1>5. PICK x \in T : \A y \in T : <<Below(y), Below(x)>> \notin R
    <2> HIDE DEF Below, R
    <2> QED BY <1>4
  <1>6. ASSUME NEW y \in T PROVE x <= y
    <2> SUFFICES ASSUME y < x PROVE FALSE
      OBVIOUS
    <2>1. y \in Below(x) /\ y \notin Below(y)
      OBVIOUS
    <2>2. \A z \in T : z < y => z < x
      OBVIOUS
    <2>3. Below(y) \subseteq Below(x)
      BY <2>2
    <2>4. <<Below(y), Below(x)>> \in R
      BY <2>1, <2>3 DEF StrictSubsetOrdering
    <2> QED BY <1>5, <2>4
  <1> QED BY <1>6

\* A hard cut leaves some of the last five seconds, and cuts something off.
LEMMA HardCut ==
    ASSUME G!SegmentingConstants, NEW b \in Seq(BOOLEAN), Len(b) >= Cap
    PROVE  /\ G!BestCut(b) \in 1 .. Len(b) /\ Len(b) - G!BestCut(b) <= Tail5
           /\ Len(b) - G!BestCut(b) > 0
  <1>1. PICK n \in Nat : n = Len(b) /\ n >= Cap
    OBVIOUS
  <1> DEFINE places == n - Tail5 + 1 .. n - 1
             quiet == {i \in places : ~b[i]}
             from == IF quiet = {} THEN places ELSE quiet
             best == CHOOSE i \in from : \A j \in from : i <= j
  <1>2. /\ Tail5 \in Nat /\ Tail5 >= 2 /\ Cap \in Nat /\ Tail5 < Cap
    BY SConstants
  <1>3. places \subseteq Int /\ n - 1 \in places /\ IsFiniteSet(places)
    BY <1>1, <1>2, FS_Interval
  <1>4. from \in SUBSET Int /\ from # {} /\ from \subseteq places
    BY <1>3
  <1>5. IsFiniteSet(from)
    BY <1>3, <1>4, FS_Subset
  <1>6. best \in from
    <2> HIDE DEF from
    <2>1. \E i \in from : \A j \in from : i <= j
      BY <1>4, <1>5, LeastIn
    <2> QED BY <2>1
  <1>7. G!BestCut(b) = best - 1
    BY <1>1 DEF G!BestCut
  <1> HIDE DEF best, from
  <1>8. best \in places
    BY <1>4, <1>6
  <1> QED BY <1>1, <1>2, <1>7, <1>8

-------------------------------------------------------------------------------
(* The loop of add_chunk                                                     *)

\* A state of the loop fits the stream a.
Fits(st, a) ==
    /\ PiecesOK(st.pieces, a) /\ RestOK(st.buf, st.start, st.pieces, a)
    /\ st.start \in 0 .. MaxFrames /\ st.seen \in BOOLEAN /\ st.silence \in Nat
Hears(st, f) == HeardOK(st.buf, st.pieces, st.seen \/ f)

\* It counts the silence it ends in, once the new frame f is classified.
CountsQuiet(st, f) == QuietOK(st.buf, st.pieces, IF f THEN 0 ELSE st.silence + 1)

\* Silence that is long enough is long enough for less.
LEMMA LessQuiet ==
    ASSUME NEW buf \in Seq(BOOLEAN), NEW m \in Nat, NEW n \in Nat, n <= m, QuietEnd(buf, m)
    PROVE  QuietEnd(buf, n)
  <1>1. PICK k \in Nat : k = Len(buf)
    OBVIOUS
  <1>2. \A i \in 1 .. k : i > k - n => i > k - m
    OBVIOUS
  <1> QED BY <1>1, <1>2 DEF QuietEnd

CutAs(t, c, a, cut, why) ==
    /\ Fits(t, a) /\ Len(t.buf) = Len(c.buf) - cut /\ t.silence = Len(t.buf)
    /\ AfterHardCut(t.pieces) <=> why = "cap"

LEMMA CutStep ==
    ASSUME G!SegmentingConstants, NEW a \in Seq(BOOLEAN), Len(a) <= MaxFrames,
           NEW c, Fits(c, a), HeardOK(c.buf, c.pieces, c.seen),
           NEW cut \in 1 .. Len(c.buf), NEW why \in G!Reasons,
           CutOK(c.buf, c.pieces, cut, why)
    PROVE  CutAs(G!CutAt(c, cut, why), c, a, cut, why)
  <1>1. PICK b \in Seq(BOOLEAN) : b = c.buf
    BY DEF Fits, RestOK
  <1>2. PICK e : e = EndOf(c.pieces)
    OBVIOUS
  <1>3. /\ Len(b) \in Nat /\ Len(a) \in Nat /\ MaxFrames \in Nat /\ e \in 0 .. MaxFrames
        /\ e + Len(b) = Len(a) /\ \A i \in 1 .. Len(b) : b[i] = a[e + i]
        /\ cut \in Nat /\ cut > 0 /\ cut <= Len(b) /\ c.start = e /\ c.seen \in BOOLEAN
    <2>1. b # <<>>
      BY <1>1
    <2>2. e \in 0 .. MaxFrames /\ MaxFrames \in Nat
      BY <1>2, Ended, SConstants DEF Fits
    <2> QED BY <1>1, <1>2, <2>1, <2>2 DEF Fits, RestOK
  <1>4. PICK rest : rest = SubSeq(b, cut + 1, Len(b))
    OBVIOUS
  <1>5. /\ rest \in Seq(BOOLEAN) /\ Len(rest) = Len(b) - cut
        /\ \A i \in 1 .. Len(rest) : rest[i] = b[cut + i]
    BY <1>3, <1>4
  <1>6. PICK qs : qs = Append(c.pieces, G!Piece(e, cut, why, c.seen))
    OBVIOUS
  <1>7. PiecesOK(qs, a) /\ EndOf(qs) = e + cut /\ (AfterHardCut(qs) <=> why = "cap")
    BY <1>2, <1>3, <1>6, Added DEF Fits
  <1>8. PICK heard \in BOOLEAN : heard = (rest # <<>> /\ G!IsSpeechEnergy(rest))
    OBVIOUS
  <1>9. PICK t : t = G!CutAt(c, cut, why)
    OBVIOUS
  <1>10. /\ t.buf = rest /\ t.start = e + cut /\ t.silence = Len(rest) /\ t.seen = heard
         /\ t.pieces = qs
    BY <1>1, <1>3, <1>4, <1>6, <1>8, <1>9 DEF G!CutAt, G!State, G!RestartAt
  <1>11. RestOK(rest, e + cut, qs, a)
    <2>1. ASSUME NEW i \in 1 .. Len(rest) PROVE rest[i] = a[(e + cut) + i]
      <3>1. PICK j \in 1 .. Len(b) : j = cut + i
        BY <1>3, <1>5
      <3>2. e + j = (e + cut) + i
        BY <1>3, <3>1
      <3>3. rest[i] = b[j] /\ b[j] = a[e + j]
        BY <1>3, <1>5, <3>1
      <3> QED BY <3>2, <3>3
    <2>2. (e + cut) + Len(rest) = Len(a)
      BY <1>3, <1>5
    <2> QED BY <1>5, <1>7, <2>1, <2>2 DEF RestOK
  <1>12. e + cut \in 0 .. MaxFrames /\ Len(rest) \in Nat
    BY <1>3, <1>5
  <1> QED BY <1>1, <1>5, <1>7, <1>9, <1>10, <1>11, <1>12 DEF CutAs, Fits

\* One turn of it, for a new frame that the buffer holds.
TurnAs(t, st, a, f) ==
    /\ Fits(t, a) /\ Hears(t, FALSE) /\ QuietOK(t.buf, t.pieces, t.silence)
    /\ t.silence <= Len(t.buf) + 1
    /\ Len(st.buf) < Cap => Len(t.buf) <= Len(st.buf)
    /\ Len(st.buf) >= Cap =>
         /\ t.buf # <<>> /\ Len(t.buf) <= Tail5 /\ t.silence <= Len(t.buf)
         /\ AfterHardCut(t.pieces)

LEMMA TurnStep ==
    ASSUME G!SegmentingConstants, NEW a \in Seq(BOOLEAN), Len(a) <= MaxFrames, NEW f \in BOOLEAN,
           NEW buf, NEW from, NEW sil, NEW sp, NEW ps, NEW st, st = G!State(buf, from, sil, sp, ps),
           Fits(st, a), Hears(st, f), CountsQuiet(st, f), st.buf # <<>>,
           st.silence <= Len(st.buf), Len(st.buf) <= Cap
    PROVE  TurnAs(G!Turn(st, f), st, a, f)
  <1>1. PICK n \in Nat : n = Len(st.buf) /\ n > 0 /\ st.buf \in Seq(BOOLEAN)
    <2>1. st.buf \in Seq(BOOLEAN)
      BY DEF Fits, RestOK
    <2>2. Len(st.buf) \in Nat /\ Len(st.buf) > 0
      BY <2>1
    <2> QED BY <2>1, <2>2
  <1>2. PICK c : c = G!Classified(st, f)
    OBVIOUS
  <1>3. PICK sil1 \in Nat : sil1 = (IF f THEN 0 ELSE sil + 1) /\ sil1 <= n + 1
    <2>1. sil \in Nat /\ sil <= n
      BY <1>1 DEF G!State, Fits
    <2>2. (IF f THEN 0 ELSE sil + 1) \in Nat /\ (IF f THEN 0 ELSE sil + 1) <= n + 1
      BY <1>1, <2>1
    <2> QED BY <2>2
  <1>4. PICK sp1 \in BOOLEAN : sp1 = (sp \/ f)
    OBVIOUS
  <1>5. /\ c.buf = st.buf /\ c.start = st.start /\ c.pieces = st.pieces /\ c.seen = sp1
        /\ c.silence = sil1 /\ sp1 = (st.seen \/ f)
    BY <1>2, <1>3, <1>4 DEF G!Classified, G!State
  <1>6. Fits(c, a) /\ HeardOK(c.buf, c.pieces, c.seen) /\ Hears(c, FALSE)
    <2>1. Fits(c, a)
      BY <1>5 DEF Fits
    <2>2. HeardOK(c.buf, c.pieces, c.seen)
      BY <1>5 DEF Hears, HeardOK
    <2>3. Hears(c, FALSE)
      BY <2>2 DEF Hears, HeardOK
    <2> QED BY <2>1, <2>2, <2>3
  <1>7. PICK t : t = G!Turn(st, f)
    OBVIOUS
  <1>8. t = IF G!AtCap(c) THEN G!CutAt(c, G!BestCut(c.buf), "cap")
            ELSE IF G!LongSilence(c) THEN G!CutAt(c, Len(c.buf), "silence")
            ELSE c
    BY <1>2, <1>7 DEF G!Turn
  <1>9. Cap \in Nat /\ Tail5 \in Nat
    BY SConstants
  <1>10. "cap" \in G!Reasons /\ "silence" \in G!Reasons /\ "silence" # "cap"
    BY DEF G!Reasons
  <1>q. QuietOK(c.buf, c.pieces, sil1)
    <2>1. st.silence = sil
      BY DEF G!State
    <2> QED BY <1>3, <1>5, <2>1 DEF CountsQuiet
  <1>11. CASE n >= Cap
    <2>1. t = G!CutAt(c, G!BestCut(c.buf), "cap")
      BY <1>1, <1>5, <1>8, <1>11 DEF G!AtCap
    <2>2. PICK cut : cut = G!BestCut(c.buf)
      OBVIOUS
    <2>3. cut \in 1 .. n /\ n - cut <= Tail5 /\ n - cut > 0
      BY <1>1, <1>5, <1>11, <2>2, HardCut
    <2>c. CutOK(c.buf, c.pieces, cut, "cap")
      <3>1. cut < Cap /\ cut >= Cap - Tail5
        BY <1>1, <1>9, <1>11, <2>3
      <3> QED BY <1>10, <3>1 DEF CutOK, LengthOK
    <2>4. CutAs(t, c, a, cut, "cap")
      BY <1>1, <1>5, <1>6, <1>10, <2>1, <2>2, <2>3, <2>c, CutStep
    <2>5. /\ Fits(t, a) /\ Len(t.buf) = n - cut /\ t.silence = Len(t.buf)
          /\ AfterHardCut(t.pieces)
      BY <1>1, <1>5, <2>4 DEF CutAs
    <2>6. t.buf # <<>> /\ Len(t.buf) \in Nat
      BY <1>1, <2>3, <2>5
    <2>7. QuietOK(t.buf, t.pieces, t.silence)
      BY <2>5 DEF QuietOK
    <2> QED BY <1>1, <1>7, <1>9, <1>11, <2>3, <2>5, <2>6, <2>7 DEF TurnAs, Hears, HeardOK
  <1>12. CASE n < Cap /\ G!LongSilence(c)
    <2>1. t = G!CutAt(c, n, "silence")
      BY <1>1, <1>5, <1>8, <1>9, <1>12 DEF G!AtCap
    <2>2. CutAs(t, c, a, n, "silence")
      <3>1. n \in 1 .. Len(c.buf)
        BY <1>1, <1>5
      <3>2. CutOK(c.buf, c.pieces, n, "silence")
        <4>1. sil1 >= Silence /\ n >= Shortest /\ n = Len(c.buf) /\ c.buf \in Seq(BOOLEAN)
          BY <1>1, <1>5, <1>12 DEF G!LongSilence
        <4>2. QuietOK(c.buf, c.pieces, Silence)
          BY <1>q, <4>1, LessQuiet, SConstants DEF QuietOK
        <4> QED BY <1>10, <1>12, <4>1, <4>2 DEF CutOK, LengthOK
      <3> QED BY <1>6, <1>10, <2>1, <3>1, <3>2, CutStep
    <2>3. Fits(t, a) /\ Len(t.buf) = 0 /\ t.silence = 0
      BY <1>1, <1>5, <2>2 DEF CutAs
    <2>4. Hears(t, FALSE)
      BY <2>3 DEF Hears, HeardOK
    <2>6. QuietOK(t.buf, t.pieces, t.silence)
      BY <2>3 DEF QuietOK, QuietEnd
    <2>5. TurnAs(t, st, a, f)
      <3>1. t.silence <= Len(t.buf) + 1 /\ Len(t.buf) <= Len(st.buf)
        BY <1>1, <2>3
      <3>2. ~(Len(st.buf) >= Cap)
        BY <1>1, <1>9, <1>12
      <3> QED BY <2>3, <2>4, <2>6, <3>1, <3>2 DEF TurnAs
    <2> QED BY <1>7, <2>5
  <1>13. CASE n < Cap /\ ~G!LongSilence(c)
    <2>1. t = c
      BY <1>1, <1>5, <1>8, <1>9, <1>13 DEF G!AtCap
    <2>2. TurnAs(c, st, a, f)
      <3>1. c.silence <= Len(c.buf) + 1 /\ Len(c.buf) <= Len(st.buf)
        BY <1>1, <1>3, <1>5
      <3>2. ~(Len(st.buf) >= Cap)
        BY <1>1, <1>9, <1>13
      <3>3. QuietOK(c.buf, c.pieces, c.silence)
        BY <1>5, <1>q
      <3> QED BY <1>6, <3>1, <3>2, <3>3 DEF TurnAs
    <2> QED BY <1>7, <2>1, <2>2
  <1> QED BY <1>1, <1>9, <1>11, <1>12, <1>13

\* Both turns, where the first one hits the cap.
TurnsAs(t, a) ==
    /\ Fits(t, a) /\ Hears(t, FALSE) /\ QuietOK(t.buf, t.pieces, t.silence)
    /\ t.silence <= Len(t.buf) + 1 /\ Len(t.buf) < Cap

LEMMA TurnsStep ==
    ASSUME G!SegmentingConstants, NEW a \in Seq(BOOLEAN), Len(a) <= MaxFrames, NEW f \in BOOLEAN,
           NEW buf, NEW from, NEW sil, NEW sp, NEW ps, NEW st, st = G!State(buf, from, sil, sp, ps),
           Fits(st, a), Hears(st, f), CountsQuiet(st, f), st.buf # <<>>,
           st.silence <= Len(st.buf), Len(st.buf) <= Cap
    PROVE  TurnsAs(G!Turns(st, f), a)
  <1>1. PICK once : once = G!Turn(st, f)
    OBVIOUS
  <1>2. TurnAs(once, st, a, f)
    BY <1>1, TurnStep
  <1>3. PICK n \in Nat : n = Len(st.buf)
    BY DEF Fits, RestOK
  <1>4. /\ Fits(once, a) /\ Hears(once, FALSE) /\ once.silence <= Len(once.buf) + 1
        /\ QuietOK(once.buf, once.pieces, once.silence)
        /\ n < Cap => Len(once.buf) <= n
        /\ n >= Cap =>
             /\ once.buf # <<>> /\ Len(once.buf) <= Tail5 /\ once.silence <= Len(once.buf)
             /\ AfterHardCut(once.pieces)
    BY <1>2, <1>3 DEF TurnAs
  <1>5. Cap \in Nat /\ Tail5 \in Nat /\ Tail5 < Cap /\ Len(once.buf) \in Nat
    BY <1>4, SConstants DEF Fits, RestOK
  <1>6. CASE n < Cap
    <2>1. G!Turns(st, f) = once
      BY <1>1, <1>3, <1>5, <1>6 DEF G!Turns, G!AtCap
    <2>2. Len(once.buf) < Cap
      BY <1>4, <1>5, <1>6
    <2> QED BY <1>4, <2>1, <2>2 DEF TurnsAs
  <1>7. CASE n >= Cap
    <2>1. PICK t : t = G!Turn(once, f)
      OBVIOUS
    <2>2. G!Turns(st, f) = t
      BY <1>1, <1>3, <1>4, <1>7, <2>1 DEF G!Turns, G!AtCap
    <2>3. Hears(once, f) /\ CountsQuiet(once, f) /\ Len(once.buf) <= Cap
      BY <1>4, <1>5, <1>7 DEF Hears, HeardOK, CountsQuiet, QuietOK
    <2>4. \E x1, x2, x3, x4, x5 : once = G!State(x1, x2, x3, x4, x5)
      <3>1. G!AtCap(G!Classified(st, f))
        BY <1>3, <1>7 DEF G!AtCap, G!Classified, G!State
      <3> QED BY <1>1, <3>1 DEF G!Turn, G!CutAt
    <2>5. TurnAs(t, once, a, f)
      BY <1>4, <1>7, <2>1, <2>3, <2>4, TurnStep
    <2>6. Len(once.buf) < Cap
      BY <1>4, <1>5, <1>7
    <2>7. /\ Fits(t, a) /\ Hears(t, FALSE) /\ t.silence <= Len(t.buf) + 1
          /\ QuietOK(t.buf, t.pieces, t.silence)
          /\ Len(t.buf) <= Len(once.buf)
      BY <2>5, <2>6 DEF TurnAs
    <2>8. Len(t.buf) \in Nat
      BY <2>7 DEF Fits, RestOK
    <2>9. Len(t.buf) < Cap
      BY <1>5, <2>6, <2>7, <2>8
    <2> QED BY <2>2, <2>7, <2>9 DEF TurnsAs
  <1>8. n < Cap \/ n >= Cap
    BY <1>5
  <1> QED BY <1>6, <1>7, <1>8

LEMMA STypes ==
    ASSUME G!SegmentingConstants, SInv
    PROVE  /\ audio \in Seq(BOOLEAN) /\ Len(audio) \in Nat /\ Len(audio) <= MaxFrames
           /\ segBuf \in Seq(BOOLEAN) /\ Len(segBuf) \in Nat /\ Len(segBuf) < Cap
           /\ start \in 0 .. MaxFrames /\ silence \in Nat /\ silence <= Len(segBuf) + 1
           /\ seen \in BOOLEAN /\ flushed \in BOOLEAN
           /\ MaxFrames \in Nat /\ Cap \in Nat /\ Tail5 \in Nat
  <1>1. MaxFrames \in Nat /\ Cap \in Nat /\ Tail5 \in Nat
    BY SConstants
  <1>2. /\ audio \in Seq(BOOLEAN) /\ Len(audio) <= MaxFrames /\ segBuf \in Seq(BOOLEAN)
        /\ start \in 0 .. MaxFrames /\ silence \in 0 .. Cap + Tail5
        /\ seen \in BOOLEAN /\ flushed \in BOOLEAN
        /\ Len(segBuf) < Cap /\ silence <= Len(segBuf) + 1
    BY DEF SInv, G!TypeOK
  <1> QED BY <1>1, <1>2

\* The stream goes on: what came of it stays what it was.
LEMMA StreamGrows ==
    ASSUME G!SegmentingConstants, SInv, NEW f \in BOOLEAN, NEW a, a = Append(audio, f)
    PROVE  PiecesOK(pieces, a)
  <1>1. /\ Len(a) = Len(audio) + 1 /\ Len(audio) \in Nat
        /\ \A i \in 1 .. Len(audio) : a[i] = audio[i]
    BY STypes
  <1>2. PiecesOK(pieces, audio)
    BY DEF SInv
  <1>3. ASSUME NEW i \in 1 .. Len(pieces) PROVE PieceOK(pieces, i, a)
    <2>1. pieces[i].from \in Nat /\ pieces[i].to \in Nat /\ PieceOK(pieces, i, audio)
      BY <1>2, Ended, STypes DEF PiecesOK
    <2>2. pieces[i].to <= Len(audio)
      BY <2>1 DEF PieceOK
    <2>3. \A j \in pieces[i].from + 1 .. pieces[i].to : j \in 1 .. Len(audio)
      BY <1>1, <2>1, <2>2
    <2>4. \A j \in pieces[i].from + 1 .. pieces[i].to : a[j] = audio[j]
      BY <1>1, <2>3
    <2>5. pieces[i].to <= Len(a)
      BY <1>1, <2>1, <2>2
    <2> QED BY <2>1, <2>4, <2>5 DEF PieceOK
  <1> QED BY <1>2, <1>3 DEF PiecesOK

LEMMA AddChunkStep ==
    ASSUME G!SegmentingConstants, SInv, NEW f \in BOOLEAN, G!AddChunk(f)
    PROVE  SInv'
  <1>1. PICK a : a = Append(audio, f)
    OBVIOUS
  <1>2. PICK buf : buf = Append(segBuf, f)
    OBVIOUS
  <1>3. PICK from : from = IF segBuf = <<>> THEN Len(audio) ELSE start
    OBVIOUS
  <1>4. PICK st : st = G!State(buf, from, silence, seen, pieces)
    OBVIOUS
  <1>5. /\ Len(audio) < MaxFrames /\ audio' = a /\ G!Becomes(G!Turns(st, f)) /\ flushed' = flushed
    BY <1>1, <1>2, <1>3, <1>4 DEF G!AddChunk
  <1>6. /\ a \in Seq(BOOLEAN) /\ Len(a) = Len(audio) + 1 /\ Len(a) <= MaxFrames
        /\ a[Len(audio) + 1] = f /\ \A i \in 1 .. Len(audio) : a[i] = audio[i]
    BY <1>1, <1>5, STypes
  <1>7. /\ buf \in Seq(BOOLEAN) /\ Len(buf) = Len(segBuf) + 1 /\ buf # <<>> /\ Len(buf) <= Cap
        /\ buf[Len(segBuf) + 1] = f /\ \A i \in 1 .. Len(segBuf) : buf[i] = segBuf[i]
    BY <1>2, STypes
  <1>8. PICK e \in Nat : e = EndOf(pieces) /\ e + Len(segBuf) = Len(audio)
    <2>1. EndOf(pieces) \in 0 .. MaxFrames /\ EndOf(pieces) + Len(segBuf) = Len(audio)
      BY Ended, STypes DEF SInv, RestOK
    <2> QED BY <2>1
  <1>9. Fits(st, a)
    <2>1. st.buf = buf /\ st.start = from /\ st.silence = silence /\ st.seen = seen
          /\ st.pieces = pieces
      BY <1>4 DEF G!State
    <2>2. PiecesOK(pieces, a)
      BY <1>1, StreamGrows
    <2>3. from = e /\ from \in 0 .. MaxFrames
      <3>1. CASE segBuf = <<>>
        <4>1. Len(segBuf) = 0
          BY <3>1
        <4> QED BY <1>3, <1>8, <3>1, <4>1, STypes
      <3>2. CASE segBuf # <<>>
        BY <1>3, <1>8, <3>2, STypes DEF SInv, RestOK
      <3> QED BY <3>1, <3>2
    <2>4. ASSUME NEW i \in 1 .. Len(buf) PROVE buf[i] = a[e + i]
      <3>1. CASE i = Len(segBuf) + 1
        BY <1>6, <1>7, <1>8, <3>1, STypes
      <3>2. CASE i # Len(segBuf) + 1
        <4>1. i \in 1 .. Len(segBuf)
          BY <1>7, <3>2, STypes
        <4>2. segBuf[i] = audio[e + i]
          BY <1>8, <4>1 DEF SInv, RestOK
        <4>3. e + i \in 1 .. Len(audio)
          BY <1>8, <4>1, STypes
        <4> QED BY <1>6, <1>7, <4>1, <4>2, <4>3
      <3> QED BY <3>1, <3>2
    <2>5. e + Len(buf) = Len(a)
      BY <1>6, <1>7, <1>8, STypes
    <2>6. RestOK(buf, from, pieces, a)
      BY <1>7, <1>8, <2>3, <2>4, <2>5 DEF RestOK
    <2> QED BY <2>1, <2>2, <2>3, <2>6, STypes DEF Fits
  <1>10. /\ Hears(st, f) /\ st.buf # <<>> /\ st.silence <= Len(st.buf) /\ Len(st.buf) <= Cap
    <2>1. st.buf = buf /\ st.silence = silence /\ st.seen = seen /\ st.pieces = pieces
      BY <1>4 DEF G!State
    <2>2. ASSUME ~AfterHardCut(pieces), NEW i \in 1 .. Len(buf), buf[i] PROVE seen \/ f
      <3>1. CASE i = Len(segBuf) + 1
        BY <1>7, <2>2, <3>1
      <3>2. CASE i # Len(segBuf) + 1
        <4>1. i \in 1 .. Len(segBuf)
          BY <1>7, <3>2, STypes
        <4> QED BY <1>7, <2>2, <4>1 DEF SInv, HeardOK
      <3> QED BY <3>1, <3>2
    <2>3. silence <= Len(buf)
      BY <1>7, STypes
    <2> QED BY <1>7, <2>1, <2>2, <2>3 DEF Hears, HeardOK
  <1>q. CountsQuiet(st, f)
    <2>1. st.buf = buf /\ st.silence = silence /\ st.pieces = pieces
      BY <1>4 DEF G!State
    <2>2. ASSUME ~AfterHardCut(pieces) PROVE QuietEnd(buf, IF f THEN 0 ELSE silence + 1)
      <3>1. QuietEnd(segBuf, silence)
        BY <2>2 DEF SInv, QuietOK
      <3>2. PICK k \in Nat, m \in Nat :
              k = Len(segBuf) /\ m = silence /\ m <= k /\ Len(buf) = k + 1
        BY <1>7, <3>1, STypes DEF QuietEnd
      <3>3. CASE f
        <4>1. 0 <= Len(buf) /\ \A i \in 1 .. Len(buf) : ~(i > Len(buf) - 0)
          BY <3>2
        <4> QED BY <3>3, <4>1 DEF QuietEnd
      <3>4. CASE ~f
        <4>1. ASSUME NEW i \in 1 .. k + 1, i > k + 1 - (m + 1) PROVE ~buf[i]
          <5>1. CASE i = k + 1
            BY <1>7, <3>2, <3>4, <5>1
          <5>2. CASE i # k + 1
            <6>1. i \in 1 .. k /\ i > k - m
              BY <4>1, <5>2
            <6> QED BY <1>7, <3>1, <3>2, <6>1 DEF QuietEnd
          <5> QED BY <5>1, <5>2
        <4>2. m + 1 <= k + 1
          BY <3>2
        <4> QED BY <3>2, <3>4, <4>1, <4>2 DEF QuietEnd
      <3> QED BY <3>3, <3>4
    <2> QED BY <2>1, <2>2 DEF CountsQuiet, QuietOK
  <1>11. PICK t : /\ t = G!Turns(st, f) /\ Fits(t, a) /\ Hears(t, FALSE)
                  /\ QuietOK(t.buf, t.pieces, t.silence)
                  /\ t.silence <= Len(t.buf) + 1 /\ Len(t.buf) < Cap
    <2>1. TurnsAs(G!Turns(st, f), a)
      BY <1>4, <1>6, <1>9, <1>10, <1>q, TurnsStep
    <2> QED BY <2>1 DEF TurnsAs
  <1>12. /\ segBuf' = t.buf /\ start' = t.start /\ silence' = t.silence /\ seen' = t.seen
         /\ pieces' = t.pieces
    BY <1>5, <1>11 DEF G!Becomes
  <1>13. G!TypeOK'
    <2>1. /\ t.buf \in Seq(BOOLEAN) /\ t.pieces \in Seq(G!Pieces) /\ t.start \in 0 .. MaxFrames
          /\ t.silence \in Nat /\ t.seen \in BOOLEAN /\ Len(t.buf) \in Nat
      BY <1>11 DEF Fits, RestOK, PiecesOK
    <2>2. t.silence \in 0 .. Cap + Tail5 /\ Len(t.buf) <= Cap
      BY <1>11, <2>1, STypes
    <2> QED BY <1>5, <1>6, <1>12, <2>1, <2>2, STypes DEF G!TypeOK
  <1>14. HeardOK(t.buf, t.pieces, t.seen)
    BY <1>11 DEF Hears, HeardOK
  <1> QED BY <1>5, <1>11, <1>12, <1>13, <1>14 DEF SInv, Fits

LEMMA SFlushStep == ASSUME G!SegmentingConstants, SInv, G!Flush PROVE SInv'
  <1>1. /\ audio' = audio /\ flushed' = TRUE /\ segBuf' = <<>> /\ start' = Len(audio)
        /\ silence' = 0 /\ seen' = FALSE
        /\ pieces' = IF segBuf = <<>> THEN pieces
                     ELSE Append(pieces, G!Piece(start, Len(segBuf), "flush", seen))
    BY DEF G!Flush, G!Flushed, G!Becomes, G!State
  <1>2. /\ EndOf(pieces) \in Nat /\ EndOf(pieces) + Len(segBuf) = Len(audio)
        /\ segBuf # <<>> => start = EndOf(pieces)
        /\ PiecesOK(pieces, audio) /\ HeardOK(segBuf, pieces, seen)
        /\ RestOK(segBuf, start, pieces, audio)
    <2>1. EndOf(pieces) \in 0 .. MaxFrames /\ MaxFrames \in Nat
      BY Ended, STypes DEF SInv
    <2> QED BY <2>1 DEF SInv, RestOK
  <1>3. PiecesOK(pieces', audio) /\ EndOf(pieces') = Len(audio)
    <2>1. CASE segBuf = <<>>
      <3>1. Len(segBuf) = 0
        BY <2>1
      <3> QED BY <1>1, <1>2, <2>1, <3>1
    <2>2. CASE segBuf # <<>>
      <3>1. "flush" \in G!Reasons /\ Len(segBuf) \in 1 .. Len(segBuf)
        BY <2>2, STypes DEF G!Reasons
      <3>2. RestOK(segBuf, EndOf(pieces), pieces, audio)
        BY <1>2, <2>2
      <3>3. CutOK(segBuf, pieces, Len(segBuf), "flush")
        BY STypes DEF CutOK, LengthOK
      <3> QED BY <1>1, <1>2, <2>2, <3>1, <3>2, <3>3, STypes, Added
    <2> QED BY <2>1, <2>2
  <1>4. Len(segBuf') = 0 /\ segBuf' \in Seq(BOOLEAN)
    BY <1>1
  <1>5. RestOK(segBuf', start', pieces', audio)
    BY <1>1, <1>3, <1>4, STypes DEF RestOK
  <1>6. HeardOK(segBuf', pieces', seen')
    BY <1>4 DEF HeardOK
  <1>7. G!TypeOK'
    <2>1. pieces' \in Seq(G!Pieces)
      BY <1>3 DEF PiecesOK
    <2>2. start' \in 0 .. MaxFrames /\ silence' \in 0 .. Cap + Tail5 /\ Len(segBuf') <= Cap
      BY <1>1, <1>4, STypes
    <2>3. seen' \in BOOLEAN /\ flushed' \in BOOLEAN
      BY <1>1
    <2> QED BY <1>1, <1>4, <2>1, <2>2, <2>3, STypes DEF G!TypeOK
  <1>8. silence' <= Len(segBuf') + 1 /\ Len(segBuf') < Cap
    BY <1>1, <1>4, STypes
  <1>9. QuietOK(segBuf', pieces', silence')
    BY <1>1, <1>4 DEF QuietOK, QuietEnd
  <1> QED BY <1>1, <1>3, <1>5, <1>6, <1>7, <1>8, <1>9 DEF SInv

LEMMA SNext == ASSUME G!SegmentingConstants, SInv, [G!Next]_segmentVars PROVE SInv'
  <1>1. CASE UNCHANGED segmentVars
    BY <1>1 DEF segmentVars, SInv, G!TypeOK
  <1> QED BY <1>1, AddChunkStep, SFlushStep DEF G!Next

\* What SubSeq gives of the stream: the frames after the first e, up to the m-th.
LEMMA Slice ==
    ASSUME NEW s \in Seq(BOOLEAN), NEW e \in Nat, NEW m \in Nat, e <= m, m <= Len(s)
    PROVE  /\ SubSeq(s, e + 1, m) \in Seq(BOOLEAN) /\ Len(SubSeq(s, e + 1, m)) = m - e
           /\ \A i \in 1 .. m - e : SubSeq(s, e + 1, m)[i] = s[e + i]
  <1>1. PICK f \in Nat, n \in Nat : f = e + 1 /\ n = Len(s) /\ f <= m + 1 /\ m <= n
    <2>1. Len(s) \in Nat
      OBVIOUS
    <2>2. e + 1 \in Nat /\ e + 1 <= m + 1
      OBVIOUS
    <2> QED BY <2>1, <2>2
  <1>2. SubSeq(s, f, m) \in Seq(BOOLEAN)
    <2>1. \A i \in f .. m : i \in 1 .. Len(s)
      BY <1>1
    <2>2. \A i \in f .. m : s[i] \in BOOLEAN
      BY <2>1
    <2> QED BY <1>1, <2>2
  <1>3. Len(SubSeq(s, f, m)) = m - e
    BY <1>1
  <1>4. \A i \in 1 .. m - e : SubSeq(s, f, m)[i] = s[e + i]
    BY <1>1
  <1> QED BY <1>1, <1>2, <1>3, <1>4

LEMMA SInvariant == ASSUME G!SegmentingConstants PROVE G!Spec => []SInv
  <1>1. G!Init => SInv
    <2> SUFFICES ASSUME G!Init PROVE SInv
      OBVIOUS
    <2>1. /\ audio = <<>> /\ segBuf = <<>> /\ pieces = <<>>
          /\ start = 0 /\ silence = 0 /\ seen = FALSE /\ flushed = FALSE
      BY DEF G!Init
    <2>2. Len(audio) = 0 /\ Len(segBuf) = 0 /\ Len(pieces) = 0
      BY <2>1
    <2>3. MaxFrames \in Nat /\ Cap \in Nat /\ Tail5 \in Nat /\ Tail5 < Cap
      BY SConstants
    <2>4. audio \in Seq(BOOLEAN) /\ segBuf \in Seq(BOOLEAN) /\ pieces \in Seq(G!Pieces)
      BY <2>1
    <2>5. seen \in BOOLEAN /\ flushed \in BOOLEAN
      BY <2>1
    <2>6. /\ Len(audio) <= MaxFrames /\ Len(segBuf) <= Cap /\ Len(segBuf) < Cap
          /\ start \in 0 .. MaxFrames /\ silence \in 0 .. Cap + Tail5
          /\ silence <= Len(segBuf) + 1
      BY <2>1, <2>2, <2>3
    <2>7. G!TypeOK
      BY <2>4, <2>5, <2>6 DEF G!TypeOK
    <2>8. PiecesOK(pieces, audio) /\ EndOf(pieces) = 0
      BY <2>1, <2>2, <2>4 DEF PiecesOK, EndOf
    <2>9. RestOK(segBuf, start, pieces, audio) /\ HeardOK(segBuf, pieces, seen)
      BY <2>1, <2>2, <2>4, <2>8 DEF RestOK, HeardOK
    <2>10. QuietOK(segBuf, pieces, silence)
      BY <2>1, <2>2 DEF QuietOK, QuietEnd
    <2> QED BY <2>6, <2>7, <2>8, <2>9, <2>10 DEF SInv
  <1>2. SInv /\ [G!Next]_segmentVars => SInv'
    BY SNext
  <1> QED BY <1>1, <1>2, PTL DEF G!Spec, G!segmentVars, segmentVars

\* The stream, the buffer and the pieces have their types, and the buffer never
\* outgrows 30 s (segmenter.py:60-101).
THEOREM SegmentsTyped == ASSUME G!SegmentingConstants PROVE G!Spec => []G!TypeOK
  <1>1. SInv => G!TypeOK
    BY DEF SInv
  <1> QED BY <1>1, SInvariant, PTL

\* Pieces and buffer are the stream, each frame once, in order and at its time, over
\* every silence, hard cut and remainder (segmenter.py:61-62, 93-101).
THEOREM StreamIsTiled == ASSUME G!SegmentingConstants PROVE G!Spec => []PiecesTile
  <1>1. ASSUME G!SegmentingConstants, SInv PROVE PiecesTile
    <2>1. /\ PiecesOK(pieces, audio) /\ RestOK(segBuf, start, pieces, audio)
          /\ audio \in Seq(BOOLEAN) /\ Len(audio) \in Nat
      BY <1>1, STypes DEF SInv
    <2>2. PICK n \in Nat, e \in Nat : n = Len(pieces) /\ e = EndOf(pieces) /\ e <= Len(audio)
      <3>1. Len(pieces) \in Nat /\ EndOf(pieces) \in Nat /\ EndOf(pieces) <= Len(audio)
        BY <1>1, <2>1, Ended, SConstants
      <3> QED BY <3>1
    <2>3. DOMAIN pieces = 1 .. n /\ (pieces = <<>> <=> n = 0)
      BY <2>1, <2>2 DEF PiecesOK
    <2>4. Ends(n) = e
      BY <2>2, <2>3 DEF Ends, EndOf
    <2>5. ASSUME NEW i \in 1 .. n
          PROVE  pieces[i].from = Ends(i - 1) /\ pieces[i].from < pieces[i].to
      <3>1. PieceOK(pieces, i, audio)
        BY <2>1, <2>2 DEF PiecesOK
      <3>2. i - 1 = 0 <=> i = 1
        OBVIOUS
      <3> QED BY <3>1, <3>2 DEF PieceOK, Ends
    <2>6. segBuf = SubSeq(audio, e + 1, Len(audio))
      <3>1. PICK rest : rest = SubSeq(audio, e + 1, Len(audio))
        OBVIOUS
      <3>2. /\ rest \in Seq(BOOLEAN) /\ Len(rest) = Len(audio) - e
            /\ \A i \in 1 .. Len(rest) : rest[i] = audio[e + i]
        BY <2>1, <2>2, <3>1, Slice
      <3>3. /\ segBuf \in Seq(BOOLEAN) /\ Len(segBuf) = Len(audio) - e
            /\ \A i \in 1 .. Len(segBuf) : segBuf[i] = audio[e + i]
        <4>1. segBuf \in Seq(BOOLEAN) /\ e + Len(segBuf) = Len(audio)
          BY <2>1, <2>2 DEF RestOK
        <4>2. Len(segBuf) \in Nat
          BY <4>1
        <4>3. \A i \in 1 .. Len(segBuf) : segBuf[i] = audio[e + i]
          BY <2>1, <2>2 DEF RestOK
        <4> QED BY <2>1, <2>2, <4>1, <4>2, <4>3
      <3>4. Len(rest) = Len(segBuf) /\ \A i \in 1 .. Len(rest) : rest[i] = segBuf[i]
        BY <3>2, <3>3
      <3>5. rest = segBuf
        BY <3>2, <3>3, <3>4
      <3> QED BY <3>1, <3>5
    <2> QED BY <2>1, <2>2, <2>3, <2>4, <2>5, <2>6 DEF PiecesTile, RestOK
  <1>2. G!SegmentingConstants /\ SInv => PiecesTile
    BY <1>1
  <1> QED BY <1>2, SInvariant, PTL

\* What silence cuts ends in a whole silence, unless a hard cut left it over.
SilentButAfterCap ==
    \A i \in DOMAIN pieces :
        pieces[i].why = "silence" /\ ~AfterCap(i) => G!EndsInSilence(pieces[i])

\* No piece reaches the 30 s, what silence cuts may be a segment, and a hard cut
\* looks back no more than its 5 s.
PiecesInRange ==
    \A i \in DOMAIN pieces : LengthOK(pieces[i].to - pieces[i].from, pieces[i].why)

\* Only what a hard cut leaves over is ever cut without half a second of silence,
\* since the rest counts as silent whatever it is (segmenter.py:71-78, 101).
THEOREM SilencesAreReal == ASSUME G!SegmentingConstants PROVE G!Spec => []SilentButAfterCap
  <1>1. ASSUME G!SegmentingConstants, SInv PROVE SilentButAfterCap
    <2>1. PiecesOK(pieces, audio) /\ DOMAIN pieces = 1 .. Len(pieces) /\ Silence \in Nat
      BY <1>1, STypes, SConstants DEF SInv, PiecesOK
    <2>2. ASSUME NEW i \in 1 .. Len(pieces), pieces[i].why = "silence", ~AfterCap(i)
          PROVE  G!EndsInSilence(pieces[i])
      <3>1. PICK from \in Nat, to \in Nat : from = pieces[i].from /\ to = pieces[i].to
        BY <1>1, <2>1, Ended, STypes
      <3>2. /\ to - from >= Silence
            /\ \A j \in from + 1 .. to : j > to - Silence => ~audio[j]
        BY <2>1, <2>2, <3>1 DEF PiecesOK, PieceOK, AfterCap
      <3>3. \A j \in to - Silence + 1 .. to : j \in from + 1 .. to /\ j > to - Silence
        BY <2>1, <3>1, <3>2
      <3> QED BY <3>1, <3>2, <3>3 DEF G!EndsInSilence
    <2> QED BY <2>1, <2>2 DEF SilentButAfterCap
  <1>2. G!SegmentingConstants /\ SInv => SilentButAfterCap
    BY <1>1
  <1> QED BY <1>2, SInvariant, PTL

\* A segment stays below the cap, however cuts and remainders follow each other
\* (segmenter.py:77-93).
THEOREM PieceLengths == ASSUME G!SegmentingConstants PROVE G!Spec => []PiecesInRange
  <1>1. SInv => PiecesInRange
    BY DEF SInv, PiecesOK, PieceOK, PiecesInRange
  <1> QED BY <1>1, SInvariant, PTL

\* Speech is only dropped where it is short, or left over by a hard cut, however
\* silences and hard cuts fall (segmenter.py:97, 102-103).
THEOREM SpeechIsKept == ASSUME G!SegmentingConstants PROVE G!Spec => []SpeechKept
  <1>1. ASSUME G!SegmentingConstants, SInv PROVE SpeechKept
    <2>1. PiecesOK(pieces, audio) /\ audio \in Seq(BOOLEAN) /\ DOMAIN pieces = 1 .. Len(pieces)
      BY <1>1, STypes DEF SInv, PiecesOK
    <2>2. ASSUME NEW i \in 1 .. Len(pieces), ~pieces[i].kept, ~AfterCap(i), HasSpeech(pieces[i])
          PROVE  pieces[i].to - pieces[i].from < Shortest
      <3>1. PICK from \in Nat, to \in Nat :
              from = pieces[i].from /\ to = pieces[i].to /\ from < to /\ to <= Len(audio)
        BY <1>1, <2>1, Ended DEF PiecesOK, PieceOK
      <3>2. PICK fs : fs = SubSeq(audio, from + 1, to)
        OBVIOUS
      <3>3. /\ fs \in Seq(BOOLEAN) /\ Len(fs) = to - from
            /\ \A j \in 1 .. Len(fs) : fs[j] = audio[from + j]
        <4>1. from <= to
          BY <3>1
        <4>2. /\ SubSeq(audio, from + 1, to) \in Seq(BOOLEAN)
              /\ Len(SubSeq(audio, from + 1, to)) = to - from
              /\ \A j \in 1 .. to - from : SubSeq(audio, from + 1, to)[j] = audio[from + j]
          BY <2>1, <3>1, <4>1, Slice
        <4> QED BY <3>2, <4>2
      <3>4. PICK j \in 1 .. Len(fs) : fs[j]
        <4>1. Frames(pieces[i]) = fs
          BY <3>1, <3>2 DEF Frames
        <4>2. DOMAIN fs = 1 .. Len(fs)
          BY <3>3
        <4>3. Loud(fs) # {}
          BY <2>2, <4>1 DEF HasSpeech
        <4> QED BY <4>2, <4>3 DEF Loud
      <3>5. PICK k \in from + 1 .. to : k = from + j
        <4>1. j \in 1 .. to - from
          BY <3>3, <3>4
        <4>2. from + j \in from + 1 .. to
          BY <3>1, <4>1
        <4> QED BY <4>2
      <3>6. audio[k]
        BY <3>3, <3>4, <3>5
      <3>7. PieceOK(pieces, i, audio)
        BY <2>1 DEF PiecesOK
      <3> QED BY <2>2, <3>1, <3>6, <3>7 DEF PieceOK, AfterCap
    <2> QED BY <2>1, <2>2 DEF SpeechKept
  <1>2. G!SegmentingConstants /\ SInv => SpeechKept
    BY <1>1
  <1> QED BY <1>2, SInvariant, PTL
===============================================================================
