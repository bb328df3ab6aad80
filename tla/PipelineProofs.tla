---------------------------- MODULE PipelineProofs ----------------------------
(* Proofs about SessionPipeline, for any number of segments and any bounds   *)
(* of the two queues.                                                      *)
EXTENDS SessionPipeline, TLAPS

\* What a queue holds comes in the order of speech, the end last.
Increasing(q) ==
    \A i, j \in 1 .. Len(q) : i < j => q[i] # EOS /\ (q[j] = EOS \/ q[i] < q[j])

\* Every one of ss was spoken before any of ts.
Before(ss, ts) == \A s \in ss, t \in ts : t # EOS => s < t

Last(ws) == ws[Len(ws)]
Complete(w) == windows[w] # "extracting" /\ (windows[w] = "done" => w \in facts)

Holding == {"transcribe", "identify", "put"}
Alive == windower.step \notin {"failed", "stopped"}
Linked == {s \in stored : linked[s] # 0}
\* The row that waits for room in the second queue, or was left there by an error.
Pending ==
    IF asr.step = "put" \/ (asr.step = "failed" /\ asr.seg \in stored) THEN {asr.seg} ELSE {}

\* The first queue is what was heard last, and the end is the end.
HearingOK ==
    /\ Increasing(segQ)
    /\ \A s \in Segments(segQ) \cup stored : s <= heard
    /\ Before(stored, Segments(segQ))
    /\ EOS \in Segments(segQ) => ingest = "done"
    /\ asr.step \in {"eos", "done"} => ingest = "done" /\ segQ = <<>>

\* The segment asr_task is at lies between the rows and the queue.
AsrOK ==
    /\ asr.step \in Holding =>
          /\ asr.seg \in Segs /\ asr.seg <= heard
          /\ Before({asr.seg}, Segments(segQ))
    /\ asr.step \in {"transcribe", "identify"} => Before(stored, {asr.seg})

\* A row is in a window, or in the builder, or in the second queue, or about to
\* be put there, and these come in the order of speech.
PlacesOK ==
    /\ Increasing(utts) /\ Increasing(buf)
    /\ EOS \in Segments(utts) => asr.step = "done"
    /\ Segments(buf) \cup (Segments(utts) \ {EOS}) \cup Pending \subseteq stored
    /\ Before(Segments(utts) \ {EOS}, Pending)
    /\ Before(Segments(buf), Segments(utts) \cup Pending)
    /\ Before(Linked, Segments(buf) \cup Segments(utts) \cup Pending)
    /\ Alive => stored \subseteq Linked \cup Segments(buf) \cup Segments(utts) \cup Pending
    /\ \A s \in Segs : linked[s] # 0 => s \in stored

\* One window at a time is open, and the thread works on that one.
WindowsOK ==
    /\ Alive => \A w \in 1 .. Len(windows) - 1 : Complete(w)
    /\ windower.step \in {"get", "roll", "done"} =>
          job = "none" /\ (windows # <<>> => Complete(Len(windows)))
    /\ windower.step = "triage" => job = "none" /\ windows # <<>>
    /\ windower.step = "triage" \/ job = "asking" =>
          Last(windows) = "extracting" /\ Len(windows) \notin facts
    /\ job # "none" => windows # <<>>
    /\ job = "writing" => Last(windows) = "done" /\ Len(windows) \notin facts
    /\ job = "ok" => Complete(Len(windows))

\* What window_task has seen the end of is over.
EndOK ==
    /\ windower.step = "done" => windower.stopping
    /\ windower.stopping => asr.step = "done" /\ utts = <<>> /\ buf = <<>>
    /\ main = "over" => AllDone

Running == ingest = "reading" \/ asr.step \notin Ended \/ windower.step \notin Ended
Failed == "failed" \in {ingest, asr.step, windower.step}

\* While the gather waits, no task has failed or been stopped; once it is over, a
\* task that still runs was left by one that failed.
GatherOK ==
    /\ main = "gather" =>
          /\ ~closed /\ ingest \in {"reading", "done"}
          /\ asr.step \notin {"failed", "stopped"} /\ windower.step \notin {"failed", "stopped"}
    /\ main # "gather" => ~Running \/ Failed

\* The end of the stream is in a queue, or has reached the task behind it, and a
\* window_task that waits for its thread has one.
PassOK ==
    /\ ingest = "done" /\ asr.step \in {"get"} \cup Holding => EOS \in Segments(segQ)
    /\ asr.step = "done" /\ ~windower.stopping /\ Alive => EOS \in Segments(utts)
    /\ windower.step = "get" => ~windower.stopping
    /\ windower.step = "extract" => job # "none"

IInv ==
    /\ TypeOK
    /\ HearingOK /\ AsrOK /\ PlacesOK /\ WindowsOK /\ EndOK
    /\ WindowsInOrder
    /\ GatherOK /\ PassOK

\* The guards of the steps FairSpec promises to take, and that of the stream.
CanGo ==
    \/ ingest = "reading" /\ SegRoom
    \/ asr.step = "get" /\ segQ # <<>>
    \/ asr.step \in {"transcribe", "identify"}
    \/ asr.step \in {"put", "eos"} /\ UttRoom
    \/ windower.step = "get" /\ utts # <<>>
    \/ windower.step \in {"triage", "roll"}
    \/ windower.step = "extract" /\ job \in {"ok", "raised"}
    \/ job \in {"asking", "writing"}
    \/ AllDone

\* No two of the three tasks, the thread and the gather ever wait for each other
\* over the bounded queues (pipeline.py:73-74): as long as the gather waits, one of
\* them can go on, or the next segment of the stream has room.
NeverStuck == main = "gather" => CanGo

\* run_session leaves a task behind only if one of its tasks has failed, which is
\* the one way ingest_task reads on after the lease is gone.
LeftOnlyByFailure == closed => ~Running \/ Failed

\* The most steps that can follow: what is still to be heard, the queues, and where
\* each task is.
IngestLeft == IF ingest = "reading" THEN 12 * (MaxSegments + 1 - heard) ELSE 0
AsrLeft(step) == CASE step = "transcribe" -> 10 [] step = "identify" -> 9
                   [] step \in {"put", "eos"} -> 8 [] OTHER -> 0
WindowerLeft(step) == CASE step = "triage" -> 6 [] step = "extract" -> 2
                        [] step = "roll" -> 1 [] OTHER -> 0
JobLeft(at) == CASE at = "asking" -> 3 [] at = "writing" -> 2
                 [] at \in {"ok", "raised"} -> 1 [] OTHER -> 0
MainLeft(at) == CASE at = "gather" -> 3 [] at = "raised" -> 2
                  [] at \in {"over", "cancelled"} -> 1 [] OTHER -> 0
ClosedLeft == IF closed THEN 0 ELSE 1
Left == IngestLeft + 11 * Len(segQ) + AsrLeft(asr.step) + 7 * Len(utts)
        + WindowerLeft(windower.step) + JobLeft(job) + MainLeft(main) + ClosedLeft

\* Every step, a retry, a failure or a cancellation too, brings the run nearer its
\* end: nothing goes round in a circle.
EveryStepCounts == [][Left' < Left]_vars

-------------------------------------------------------------------------------
(* Queues                                                                  *)

LEMMA SegFacts ==
    /\ MaxSegments \in Nat /\ Segs \subseteq Nat \ {0} /\ Segs \subseteq Items
    /\ EOS = 0 /\ EOS \in Items /\ EOS \notin Segs
    /\ Items = Segs \cup {EOS} /\ Items \subseteq Nat
  BY PipelineAssumption DEF PipelineAssumption, Segs, Items, EOS

LEMMA EmptyQueue ==
    Segments(<<>>) = {} /\ Increasing(<<>>)
  BY DEF Segments, Increasing

LEMMA OneQueue ==
    ASSUME NEW e
    PROVE  Segments(<<e>>) = {e} /\ Increasing(<<e>>) /\ <<e>> # <<>>
  BY DEF Segments, Increasing

LEMMA Members ==
    ASSUME NEW S, NEW q \in Seq(S)
    PROVE  /\ Segments(q) \subseteq S
           /\ q # <<>> => Last(q) \in Segments(q)
           /\ q = <<>> <=> Segments(q) = {}
  BY DEF Segments, Last

LEMMA AppendQueue ==
    ASSUME NEW S, NEW q \in Seq(S), NEW e \in S
    PROVE  /\ Append(q, e) \in Seq(S)
           /\ Len(Append(q, e)) = Len(q) + 1
           /\ Append(q, e) # <<>>
           /\ Last(Append(q, e)) = e
           /\ Segments(Append(q, e)) = Segments(q) \cup {e}
  <1>1. \A i \in 1 .. Len(q) : Append(q, e)[i] = q[i]
    OBVIOUS
  <1>2. Append(q, e)[Len(q) + 1] = e /\ Len(Append(q, e)) = Len(q) + 1
    OBVIOUS
  <1>3. Segments(Append(q, e)) = Segments(q) \cup {e}
    BY <1>1, <1>2 DEF Segments
  <1> QED BY <1>2, <1>3 DEF Last

LEMMA AppendIncreasing ==
    ASSUME NEW q \in Seq(Items), NEW e \in Items, Increasing(q),
           EOS \notin Segments(q), Before(Segments(q), {e})
    PROVE  Increasing(Append(q, e))
  <1>1. \A i \in 1 .. Len(q) : q[i] # EOS /\ (e = EOS \/ q[i] < e)
    BY DEF Segments, Before
  <1>2. \A i \in 1 .. Len(q) : Append(q, e)[i] = q[i]
    OBVIOUS
  <1>3. Append(q, e)[Len(q) + 1] = e /\ Len(Append(q, e)) = Len(q) + 1
    OBVIOUS
  <1> SUFFICES ASSUME NEW i \in 1 .. Len(q) + 1, NEW j \in 1 .. Len(q) + 1, i < j
               PROVE  /\ Append(q, e)[i] # EOS
                      /\ Append(q, e)[j] = EOS \/ Append(q, e)[i] < Append(q, e)[j]
    BY <1>3 DEF Increasing
  <1>4. i \in 1 .. Len(q)
    OBVIOUS
  <1>5. CASE j = Len(q) + 1
    BY <1>1, <1>2, <1>3, <1>4, <1>5
  <1>6. CASE j \in 1 .. Len(q)
    BY <1>2, <1>4, <1>6 DEF Increasing
  <1> QED BY <1>5, <1>6

LEMMA TakeQueue ==
    ASSUME NEW S, NEW q \in Seq(S), q # <<>>
    PROVE  /\ Head(q) \in S /\ Tail(q) \in Seq(S)
           /\ Len(Tail(q)) = Len(q) - 1
           /\ Segments(q) = {Head(q)} \cup Segments(Tail(q))
           /\ Head(q) \in Segments(q)
  <1>1. Head(q) = q[1] /\ Len(q) >= 1 /\ Len(q) \in Nat
    OBVIOUS
  <1>2. Len(Tail(q)) = Len(q) - 1 /\ \A i \in 1 .. Len(q) - 1 : Tail(q)[i] = q[i + 1]
    OBVIOUS
  <1>3. Segments(q) \subseteq {Head(q)} \cup Segments(Tail(q))
    <2> SUFFICES ASSUME NEW i \in 1 .. Len(q)
                 PROVE  q[i] \in {Head(q)} \cup Segments(Tail(q))
      BY DEF Segments
    <2>1. CASE i = 1
      BY <1>1, <2>1
    <2>2. CASE i # 1
      <3>1. i - 1 \in 1 .. Len(q) - 1 /\ (i - 1) + 1 = i
        BY <1>1, <2>2
      <3>2. Tail(q)[i - 1] = q[i]
        BY <1>2, <3>1
      <3> QED BY <1>2, <3>1, <3>2 DEF Segments
    <2> QED BY <2>1, <2>2
  <1>4. {Head(q)} \cup Segments(Tail(q)) \subseteq Segments(q)
    <2>1. Head(q) \in Segments(q)
      BY <1>1 DEF Segments
    <2>2. ASSUME NEW i \in 1 .. Len(q) - 1
          PROVE  Tail(q)[i] \in Segments(q)
      BY <1>1, <1>2 DEF Segments
    <2> QED BY <1>2, <2>1, <2>2 DEF Segments
  <1> QED BY <1>1, <1>2, <1>3, <1>4

LEMMA TakeIncreasing ==
    ASSUME NEW q \in Seq(Items), q # <<>>, Increasing(q)
    PROVE  /\ Increasing(Tail(q))
           /\ Before({Head(q)}, Segments(Tail(q)))
           /\ Head(q) = EOS => Tail(q) = <<>>
           /\ Head(q) \notin Segments(Tail(q))
  <1>1. Head(q) = q[1] /\ Len(q) >= 1 /\ Len(q) \in Nat
    OBVIOUS
  <1>2. Len(Tail(q)) = Len(q) - 1 /\ \A i \in 1 .. Len(q) - 1 : Tail(q)[i] = q[i + 1]
    OBVIOUS
  <1>3. \A i \in 1 .. Len(q) - 1 : i + 1 \in 1 .. Len(q) /\ 1 < i + 1 /\ 1 \in 1 .. Len(q)
    BY <1>1
  <1>4. \A i \in 1 .. Len(q) - 1 : q[1] # EOS /\ (q[i + 1] = EOS \/ q[1] < q[i + 1])
    BY <1>3 DEF Increasing
  <1>5. Increasing(Tail(q))
    <2> SUFFICES ASSUME NEW i \in 1 .. Len(q) - 1, NEW j \in 1 .. Len(q) - 1, i < j
                 PROVE  Tail(q)[i] # EOS /\ (Tail(q)[j] = EOS \/ Tail(q)[i] < Tail(q)[j])
      BY <1>2 DEF Increasing
    <2>1. i + 1 \in 1 .. Len(q) /\ j + 1 \in 1 .. Len(q) /\ i + 1 < j + 1
      BY <1>1
    <2>2. q[i + 1] # EOS /\ (q[j + 1] = EOS \/ q[i + 1] < q[j + 1])
      BY <2>1 DEF Increasing
    <2> QED BY <1>2, <2>2
  <1>6. Before({Head(q)}, Segments(Tail(q)))
    BY <1>1, <1>2, <1>4 DEF Before, Segments
  <1>7. Head(q) = EOS => Tail(q) = <<>>
    <2>1. Head(q) = EOS => 1 \notin 1 .. Len(q) - 1
      BY <1>1, <1>4
    <2>2. \A t \in Seq(Items) : Len(t) = 0 => t = <<>>
      OBVIOUS
    <2>3. Tail(q) \in Seq(Items)
      OBVIOUS
    <2> QED BY <1>1, <1>2, <2>1, <2>2, <2>3
  <1>8. Head(q) \notin Segments(Tail(q))
    <2> SUFFICES ASSUME NEW i \in 1 .. Len(q) - 1, q[1] = q[i + 1] PROVE FALSE
      BY <1>1, <1>2 DEF Segments
    <2>1. q[1] \in Nat
      <3>1. q[1] \in Items
        BY <1>1
      <3> QED BY <3>1, SegFacts
    <2>2. q[1] # EOS /\ (q[i + 1] = EOS \/ q[1] < q[i + 1])
      BY <1>4
    <2>3. q[1] < q[1]
      BY <2>2
    <2> QED BY <2>1, <2>3
  <1> QED BY <1>5, <1>6, <1>7, <1>8

-------------------------------------------------------------------------------
(* Types                                                                   *)

LEMMA StatusFacts ==
    /\ "extracting" \in WindowStatuses
    /\ \A v \in {"done", "failed", "skipped-idle"} : v \in WindowStatuses
  BY DEF WindowStatuses

\* A window's status, and nothing else of the windows, is written over.
LEMMA VerdictFacts ==
    ASSUME windows \in Seq(WindowStatuses), windows # <<>>,
           NEW v \in WindowStatuses, Verdict(v)
    PROVE  /\ windows' \in Seq(WindowStatuses)
           /\ Len(windows') = Len(windows)
           /\ windows' # <<>>
           /\ Last(windows') = v
           /\ \A w \in 1 .. Len(windows) - 1 : windows'[w] = windows[w]
  <1>1. windows' = [windows EXCEPT ![Len(windows)] = v] /\ Len(windows) \in Nat \ {0}
    BY DEF Verdict, WindowId
  <1>2. /\ windows' \in Seq(WindowStatuses) /\ Len(windows') = Len(windows)
        /\ windows'[Len(windows)] = v
        /\ \A w \in 1 .. Len(windows) - 1 : windows'[w] = windows[w]
    BY <1>1
  <1> QED BY <1>1, <1>2 DEF Last

LEMMA TypeInit == Init => TypeOK
  <1> SUFFICES ASSUME Init PROVE TypeOK
    OBVIOUS
  <1>1. heard \in 0 .. MaxSegments
    BY SegFacts DEF Init
  <1>2. /\ segQ \in Seq(Items) /\ Len(segQ) <= SegCap
        /\ utts \in Seq(Items) /\ Len(utts) <= UttCap
        /\ buf \in Seq(Segs)
    BY PipelineAssumption DEF Init, PipelineAssumption
  <1>3. asr \in AsrStates /\ windower \in WindowerStates
    BY SegFacts DEF Init, AsrStates, WindowerStates
  <1>4. /\ windows \in Seq(WindowStatuses) /\ linked \in [Segs -> 0 .. Len(windows)]
        /\ facts \subseteq 1 .. Len(windows)
    BY DEF Init
  <1> QED BY <1>1, <1>2, <1>3, <1>4 DEF Init, TypeOK, JobStates

LEMMA CutFields ==
    \A w, r : Cut(w, r).window = w /\ Cut(w, r).rest = r
  BY DEF Cut

\* What BuilderAdd and BuilderFlush may cut.
LEMMA CutFacts ==
    ASSUME buf \in Seq(Segs), NEW u \in Segs, NEW cut \in BuilderAdd(u)
    PROVE  /\ cut.window \in Seq(Segs) /\ cut.rest \in Seq(Segs)
           /\ \/ cut.window = <<>> /\ cut.rest = Append(buf, u)
              \/ cut.window = buf /\ cut.rest = <<u>>
              \/ cut.window = Append(buf, u) /\ cut.rest = <<>>
  <1>1. <<>> \in Seq(Segs) /\ <<u>> \in Seq(Segs) /\ Append(buf, u) \in Seq(Segs)
    OBVIOUS
  <1>2. CASE buf = <<>>
    <2>1. cut = Cut(<<>>, <<u>>)
      BY <1>2 DEF BuilderAdd
    <2> QED BY <1>1, <1>2, <2>1 DEF Cut
  <1>3. CASE buf # <<>>
    <2>1. \/ cut = Cut(buf, <<u>>) \/ cut = Cut(<<>>, Append(buf, u))
          \/ cut = Cut(Append(buf, u), <<>>)
      BY <1>3 DEF BuilderAdd
    <2>2. \/ cut.window = buf /\ cut.rest = <<u>>
          \/ cut.window = <<>> /\ cut.rest = Append(buf, u)
          \/ cut.window = Append(buf, u) /\ cut.rest = <<>>
      <3>1. CASE cut = Cut(buf, <<u>>)
        BY <3>1, CutFields
      <3>2. CASE cut = Cut(<<>>, Append(buf, u))
        BY <3>2, CutFields
      <3>3. CASE cut = Cut(Append(buf, u), <<>>)
        BY <3>3, CutFields
      <3> QED BY <2>1, <3>1, <3>2, <3>3
    <2> QED BY <1>1, <2>2
  <1> QED BY <1>2, <1>3

\* TakeUtterance with the choice of the builder spelt out.
LEMMA TakeFacts ==
    ASSUME TypeOK, TakeUtterance
    PROVE  \E window \in Seq(Segs), stopping \in BOOLEAN :
              /\ stopping <=> Head(utts) = EOS
              /\ buf' \in Seq(Segs)
              /\ \/ stopping /\ window = buf /\ buf' = <<>>
                 \/ ~stopping /\ window = <<>> /\ buf' = Append(buf, Head(utts))
                 \/ ~stopping /\ window = buf /\ buf' = <<Head(utts)>>
                 \/ ~stopping /\ window = Append(buf, Head(utts)) /\ buf' = <<>>
              /\ \/ window = <<>> /\ NoWindow(stopping)
                 \/ window # <<>> /\ OpenWindow(window, stopping)
                 \/ WindowerGoes("failed", stopping) /\ Raise /\ UNCHANGED rows
  <1> DEFINE stopping == Head(utts) = EOS
  <1>1. Head(utts) \in Items /\ buf \in Seq(Segs)
    BY TakeQueue DEF TypeOK, TakeUtterance
  <1>2. PICK cut \in IF stopping THEN {BuilderFlush} ELSE BuilderAdd(Head(utts)) :
            /\ buf' = cut.rest
            /\ \/ cut.window = <<>> /\ NoWindow(stopping)
               \/ cut.window # <<>> /\ OpenWindow(cut.window, stopping)
               \/ /\ Errors /\ cut.window # <<>>
                  /\ WindowerGoes("failed", stopping) /\ Raise /\ UNCHANGED rows
    BY DEF TakeUtterance
  <1>3. CASE stopping
    <2>1. cut.window = buf /\ cut.rest = <<>> /\ <<>> \in Seq(Segs)
      BY <1>2, <1>3, CutFields DEF BuilderFlush
    <2> QED BY <1>1, <1>2, <1>3, <2>1
  <1>4. CASE ~stopping
    <2>1. cut \in BuilderAdd(Head(utts)) /\ Head(utts) \in Segs
      BY <1>1, <1>2, <1>4 DEF Items
    <2>2. /\ cut.window \in Seq(Segs) /\ cut.rest \in Seq(Segs)
          /\ \/ cut.window = <<>> /\ cut.rest = Append(buf, Head(utts))
             \/ cut.window = buf /\ cut.rest = <<Head(utts)>>
             \/ cut.window = Append(buf, Head(utts)) /\ cut.rest = <<>>
      BY <1>1, <2>1, CutFacts
    <2> QED BY <1>2, <1>4, <2>2
  <1> QED BY <1>3, <1>4

LEMMA OpenType ==
    ASSUME TypeOK, NEW window \in Seq(Segs), NEW stopping \in BOOLEAN,
           OpenWindow(window, stopping)
    PROVE  /\ windows' \in Seq(WindowStatuses) /\ Len(windows') = Len(windows) + 1
           /\ windows' # <<>> /\ Last(windows') = "extracting"
           /\ \A w \in 1 .. Len(windows) : windows'[w] = windows[w]
           /\ linked' \in [Segs -> 0 .. Len(windows')]
           /\ facts' \subseteq 1 .. Len(windows')
           /\ Len(windows') \notin facts'
  <1> USE DEF TypeOK
  <1>1. /\ windows' = Append(windows, "extracting") /\ facts' = facts
        /\ windows \in Seq(WindowStatuses) /\ Len(windows) \in Nat
    BY DEF OpenWindow
  <1>2. /\ windows' \in Seq(WindowStatuses) /\ Len(windows') = Len(windows) + 1
        /\ windows' # <<>> /\ Last(windows') = "extracting"
    BY <1>1, StatusFacts, AppendQueue, SMTT(30)
  <1>3. \A w \in 1 .. Len(windows) : windows'[w] = windows[w]
    BY <1>1
  <1>4. linked' \in [Segs -> 0 .. Len(windows')]
    <2>1. CASE UNCHANGED linked
      BY <1>1, <1>2, <2>1
    <2>2. CASE linked' = [s \in Segs |->
                          IF s \in Segments(window) THEN WindowId + 1 ELSE linked[s]]
      BY <1>1, <1>2, <2>2 DEF WindowId
    <2> QED BY <2>1, <2>2 DEF OpenWindow
  <1> QED BY <1>1, <1>2, <1>3, <1>4

LEMMA AsrType ==
    ASSUME asr \in AsrStates, NEW step, AsrAt(step),
           step \in {"get", "transcribe", "identify", "put", "eos"} \cup Ended
    PROVE  asr' \in AsrStates /\ asr'.step = step /\ asr'.seg = asr.seg
  BY DEF AsrAt, AsrStates

LEMMA WindowerType ==
    ASSUME NEW step \in {"get", "triage", "extract", "roll"} \cup Ended,
           NEW stopping \in BOOLEAN, WindowerGoes(step, stopping)
    PROVE  /\ windower' \in WindowerStates
           /\ windower'.step = step /\ windower'.stopping = stopping
  BY DEF WindowerGoes, WindowerStates

LEMMA StopType ==
    ASSUME TypeOK, StopTasks
    PROVE  /\ ingest' \in {ingest, "stopped"} /\ (ingest \in Ended => ingest' = ingest)
           /\ asr' \in AsrStates /\ asr'.seg = asr.seg
           /\ asr'.step \in {asr.step, "stopped"} \cap Ended
           /\ asr.step \in Ended => asr'.step = asr.step
           /\ windower' \in WindowerStates /\ windower'.stopping = windower.stopping
           /\ windower'.step \in {windower.step, "stopped"} \cap Ended
           /\ windower.step \in Ended => windower'.step = windower.step
  BY DEF TypeOK, StopTasks, AsrStates, WindowerStates, Ended

LEMMA RaiseType ==
    ASSUME TypeOK, Raise
    PROVE  /\ main' \in {"gather", "over", "cancelled", "raised", "killed"}
           /\ session' = session /\ closed' = closed
           /\ main' = "over" => main = "over"
  BY DEF TypeOK, Raise

\* The windows' rows have their types when only a verdict is written.
LEMMA VerdictType ==
    ASSUME TypeOK, windows # <<>>, NEW v \in WindowStatuses, Verdict(v),
           UNCHANGED <<linked, facts>>
    PROVE  /\ windows' \in Seq(WindowStatuses)
           /\ linked' \in [Segs -> 0 .. Len(windows')]
           /\ facts' \subseteq 1 .. Len(windows')
  BY VerdictFacts DEF TypeOK

LEMMA TypeStep ==
    ASSUME TypeOK, AsrOK, WindowsOK, Next
    PROVE  TypeOK'
  <1> USE DEF TypeOK
  <1>r. /\ UNCHANGED <<stored, linked, windows, facts>> =>
              /\ windows' \in Seq(WindowStatuses)
              /\ linked' \in [Segs -> 0 .. Len(windows')]
              /\ facts' \subseteq 1 .. Len(windows')
              /\ stored' \subseteq Segs
    OBVIOUS
  <1>s. /\ asr \in AsrStates => asr.seg \in Items
        /\ windower \in WindowerStates => windower.stopping \in BOOLEAN
    BY DEF AsrStates, WindowerStates
  <1>1. CASE IngestSegment
    <2>1. heard + 1 \in Segs
      BY <1>1, SegFacts DEF IngestSegment, Segs
    <2>2. segQ' \in Seq(Items) /\ Len(segQ') <= SegCap
      BY <1>1, <2>1, SegFacts, AppendQueue, PipelineAssumption
         DEF IngestSegment, SegRoom, PipelineAssumption
    <2> QED BY <1>1, <2>1, <2>2, SegFacts DEF IngestSegment, rows, end, Segs
  <1>2. CASE IngestEnds
    <2>1. segQ' \in Seq(Items) /\ Len(segQ') <= SegCap
      BY <1>2, SegFacts, AppendQueue, PipelineAssumption
         DEF IngestEnds, SegRoom, PipelineAssumption
    <2> QED BY <1>2, <2>1 DEF IngestEnds, rows, end, Ended
  <1>3. CASE IngestRaises
    BY <1>3, RaiseType DEF IngestRaises, queues, rows, Ended
  <1>4. CASE GetSegment
    <2>1. /\ Head(segQ) \in Items /\ segQ' \in Seq(Items) /\ Len(segQ') <= SegCap
      BY <1>4, TakeQueue, PipelineAssumption DEF GetSegment, PipelineAssumption
    <2>2. asr' \in AsrStates
      BY <1>4, <2>1 DEF GetSegment, AsrStates
    <2> QED BY <1>4, <2>1, <2>2 DEF GetSegment, rows, end
  <1>5. CASE Transcribed
    <2>1. asr' \in AsrStates
      BY <1>5, AsrType DEF Transcribed
    <2> QED BY <1>5, <2>1 DEF Transcribed, queues, rows, end
  <1>6. CASE StoreSegment
    <2>1. asr' \in AsrStates
      BY <1>6, AsrType DEF StoreSegment
    <2>2. utts' \in Seq(Items) /\ Len(utts') <= UttCap
      <3>1. CASE UttRoom /\ utts' = Append(utts, asr.seg)
        BY <3>1, <1>s, AppendQueue, PipelineAssumption DEF UttRoom, PipelineAssumption
      <3> QED BY <1>6, <3>1 DEF StoreSegment
    <2>3. asr.seg \in Segs
      BY <1>6 DEF StoreSegment, AsrOK, Holding
    <2> QED BY <1>6, <2>1, <2>2, <2>3 DEF StoreSegment, end
  <1>7. CASE PutUtterance
    <2>1. asr' \in AsrStates
      BY <1>7, AsrType DEF PutUtterance
    <2>2. utts' \in Seq(Items) /\ Len(utts') <= UttCap
      BY <1>7, <1>s, AppendQueue, PipelineAssumption
         DEF PutUtterance, UttRoom, PipelineAssumption
    <2> QED BY <1>7, <2>1, <2>2 DEF PutUtterance, rows, end
  <1>8. CASE PassEnd
    <2>1. asr' \in AsrStates
      BY <1>8, AsrType DEF PassEnd, Ended
    <2>2. utts' \in Seq(Items) /\ Len(utts') <= UttCap
      BY <1>8, SegFacts, AppendQueue, PipelineAssumption
         DEF PassEnd, UttRoom, PipelineAssumption
    <2> QED BY <1>8, <2>1, <2>2 DEF PassEnd, rows, end
  <1>9. CASE AsrRaises
    <2>1. asr' \in AsrStates
      BY <1>9, AsrType DEF AsrRaises, Ended
    <2> QED BY <1>9, <2>1, RaiseType DEF AsrRaises, queues, rows
  <1>21. CASE RowStranded
    <2>1. asr' \in AsrStates
      BY <1>21, AsrType DEF RowStranded, Ended
    <2>2. asr.seg \in Segs
      BY <1>21 DEF RowStranded, AsrOK, Holding
    <2> QED BY <1>21, <2>1, <2>2, RaiseType DEF RowStranded, queues
  <1>10. CASE TakeUtterance
    <2>1. PICK window \in Seq(Segs), stopping \in BOOLEAN :
              /\ buf' \in Seq(Segs)
              /\ \/ window = <<>> /\ NoWindow(stopping)
                 \/ window # <<>> /\ OpenWindow(window, stopping)
                 \/ WindowerGoes("failed", stopping) /\ Raise /\ UNCHANGED rows
      BY TakeFacts, <1>10
    <2>2. utts' \in Seq(Items) /\ Len(utts') <= UttCap
      BY <1>10, TakeQueue, PipelineAssumption DEF TakeUtterance, PipelineAssumption
    <2>3. CASE NoWindow(stopping)
      <3>1. windower' \in WindowerStates
        BY <2>3, WindowerType DEF NoWindow, Ended
      <3> QED BY <1>10, <1>r, <2>1, <2>2, <2>3, <3>1 DEF TakeUtterance, NoWindow, rows, end
    <2>4. CASE OpenWindow(window, stopping)
      <3>1. windower' \in WindowerStates
        BY <2>4, WindowerType DEF OpenWindow, Ended
      <3>2. /\ main' \in {"gather", "over", "cancelled", "raised", "killed"}
            /\ session' = session /\ closed' = closed
        BY <2>4, RaiseType DEF OpenWindow, end
      <3> QED BY <1>10, <2>1, <2>2, <2>4, <3>1, <3>2, OpenType DEF TakeUtterance, OpenWindow
    <2>5. CASE WindowerGoes("failed", stopping) /\ Raise /\ UNCHANGED rows
      <3>1. windower' \in WindowerStates
        BY <2>5, WindowerType DEF Ended
      <3> QED BY <1>10, <1>r, <2>1, <2>2, <2>5, <3>1, RaiseType DEF TakeUtterance, rows
    <2> QED BY <2>1, <2>3, <2>4, <2>5
  <1>11. CASE Triaged
    <2>1. windower' \in WindowerStates
      BY <1>11, <1>s, WindowerType DEF Triaged, AfterWindow, Ended
    <2>2. /\ windows' \in Seq(WindowStatuses)
          /\ linked' \in [Segs -> 0 .. Len(windows')]
          /\ facts' \subseteq 1 .. Len(windows')
      BY <1>11, StatusFacts, VerdictType DEF Triaged, WindowsOK
    <2> QED BY <1>11, <2>1, <2>2 DEF Triaged, queues, end, JobStates
  <1>12. CASE Extracted
    <2>1. windower' \in WindowerStates
      BY <1>12, <1>s, WindowerType DEF Extracted, Ended
    <2>2. /\ main' \in {"gather", "over", "cancelled", "raised", "killed"}
          /\ session' = session /\ closed' = closed
      BY <1>12, RaiseType DEF Extracted, end
    <2> QED BY <1>12, <1>r, <2>1, <2>2 DEF Extracted, queues, rows, JobStates
  <1>13. CASE Rolled
    <2>1. windower' \in WindowerStates
      BY <1>13, <1>s, WindowerType DEF Rolled, AfterWindow, Ended
    <2> QED BY <1>13, <2>1 DEF Rolled, queues, rows, end
  <1>14. CASE WindowerRaises
    <2>1. windower' \in WindowerStates
      BY <1>14, <1>s, WindowerType DEF WindowerRaises, Ended
    <2> QED BY <1>14, <2>1, RaiseType DEF WindowerRaises, queues, rows
  <1>15. CASE Asked
    <2>1. /\ windows' \in Seq(WindowStatuses)
          /\ linked' \in [Segs -> 0 .. Len(windows')]
          /\ facts' \subseteq 1 .. Len(windows')
      BY <1>15, StatusFacts, VerdictType DEF Asked, WindowsOK
    <2> QED BY <1>15, <2>1 DEF Asked, queues, end, JobStates
  <1>16. CASE EventsWritten
    <2>1. windows # <<>> => Len(windows) \in 1 .. Len(windows)
      OBVIOUS
    <2>2. facts' \subseteq 1 .. Len(windows)
      BY <1>16, <2>1 DEF EventsWritten, WindowsOK, WindowId
    <2> QED BY <1>16, <2>2 DEF EventsWritten, queues, end, JobStates
  <1>17. CASE JobRaises
    BY <1>17 DEF JobRaises, queues, rows, end, JobStates
  <1>18. CASE Cancel
    <2>1. ingest' \in {"reading"} \cup Ended /\ asr' \in AsrStates /\ windower' \in WindowerStates
      BY <1>18, StopType DEF Cancel, Ended
    <2> QED BY <1>18, <2>1 DEF Cancel, queues, rows
  <1>19. CASE Kill
    <2>1. ingest' \in {"reading"} \cup Ended /\ asr' \in AsrStates /\ windower' \in WindowerStates
      BY <1>19, StopType DEF Kill, Ended
    <2> QED BY <1>19, <2>1 DEF Kill, queues, rows, JobStates
  <1>20. CASE CloseSession
    BY <1>20 DEF CloseSession, queues, rows
  <1> QED
    BY <1>1, <1>2, <1>3, <1>4, <1>5, <1>6, <1>7, <1>8, <1>9, <1>10, <1>11, <1>12,
       <1>13, <1>14, <1>15, <1>16, <1>17, <1>18, <1>19, <1>20, <1>21
       DEF Next, AsrStep, WindowerStep, JobStep, Raises

-------------------------------------------------------------------------------
(* The first queue, and the segment asr_task is at                         *)

ToWindower ==
    \/ WindowerStep \/ JobStep \/ JobRaises \/ WindowerRaises \/ CloseSession

Stops == Cancel \/ Kill \/ IngestRaises \/ AsrRaises

\* What window_task, its thread and run_session do leaves the first half of the
\* pipeline alone, except that they may stop it.
LEMMA FirstHalfFrame ==
    ASSUME TypeOK, ToWindower \/ Stops \/ UNCHANGED vars
    PROVE  /\ UNCHANGED <<heard, segQ, stored>>
           /\ ingest = "done" => ingest' = "done"
           /\ \/ UNCHANGED asr
              \/ asr'.step \in {"failed", "stopped"}
              \/ asr'.step = asr.step /\ asr'.seg = asr.seg
  <1>1. CASE ToWindower
    BY <1>1 DEF ToWindower, WindowerStep, TakeUtterance, NoWindow, OpenWindow, Triaged,
           Extracted, Rolled, JobStep, Asked, EventsWritten, JobRaises, WindowerRaises,
           CloseSession, queues, rows
  <1>2. CASE IngestRaises \/ AsrRaises
    <2>1. AsrRaises => asr'.step = "failed"
      BY AsrType DEF AsrRaises, TypeOK, Ended
    <2> QED BY <1>2, <2>1 DEF IngestRaises, AsrRaises, queues, rows
  <1>3. CASE Cancel \/ Kill
    <2>1. CASE StopTasks
      <3>1. ingest = "done" => ingest' = "done"
        BY <2>1, StopType DEF Ended
      <3>2. asr'.step \in {asr.step, "stopped"} /\ asr'.seg = asr.seg
        BY <2>1, StopType
      <3> QED BY <1>3, <3>1, <3>2 DEF Cancel, Kill, queues, rows
    <2> QED BY <1>3, <2>1 DEF Cancel, Kill, queues, rows
  <1>4. CASE UNCHANGED vars
    BY <1>4 DEF vars, queues, rows
  <1> QED BY <1>1, <1>2, <1>3, <1>4 DEF Stops

LEMMA NumberFacts ==
    ASSUME TypeOK
    PROVE  /\ segQ \in Seq(Items) /\ stored \subseteq Nat /\ heard \in Nat
           /\ Segments(segQ) \subseteq Nat /\ asr.seg \in Nat /\ asr.seg \in Items
           /\ IngestSegment => heard + 1 \in Items /\ heard + 1 # EOS
  <1> USE DEF TypeOK
  <1>1. Segments(segQ) \subseteq Items
    BY Members
  <1>2. asr.seg \in Items
    BY DEF AsrStates
  <1>3. stored \subseteq Items
    BY SegFacts
  <1>4. heard \in 0 .. MaxSegments
    OBVIOUS
  <1>5. IngestSegment => heard + 1 \in Segs
    BY <1>4, SegFacts DEF IngestSegment, Segs
  <1>6. heard \in Nat
    BY <1>4, SegFacts
  <1>7. IngestSegment => heard + 1 \in Items /\ heard + 1 # EOS
    BY <1>5, SegFacts
  <1>8. Segments(segQ) \subseteq Nat /\ asr.seg \in Nat /\ stored \subseteq Nat
    BY <1>1, <1>2, <1>3, SegFacts
  <1> QED BY <1>2, <1>6, <1>7, <1>8

LEMMA HearingStep ==
    ASSUME TypeOK, HearingOK, AsrOK, [Next]_vars
    PROVE  HearingOK'
  <1>t. /\ segQ \in Seq(Items) /\ stored \subseteq Nat /\ heard \in Nat
        /\ Segments(segQ) \subseteq Nat /\ asr.seg \in Nat
    BY NumberFacts
  <1>1. CASE IngestSegment
    <2>1. heard + 1 \in Items /\ heard + 1 # EOS
      BY <1>1, NumberFacts
    <2>2. Segments(segQ') = Segments(segQ) \cup {heard + 1}
      BY <1>1, <1>t, <2>1, AppendQueue DEF IngestSegment
    <2>3. EOS \notin Segments(segQ) /\ Before(Segments(segQ), {heard + 1})
      <3>1. \A s \in Segments(segQ) : s \in Nat /\ s <= heard
        BY <1>t DEF HearingOK
      <3>2. \A s \in Segments(segQ) : s < heard + 1
        BY <1>t, <3>1
      <3> QED BY <1>1, <3>2 DEF IngestSegment, HearingOK, Before
    <2>4. Increasing(segQ')
      BY <1>1, <1>t, <2>1, <2>3, AppendIncreasing DEF IngestSegment, HearingOK
    <2>5. \A s \in Segments(segQ') \cup stored' : s <= heard'
      <3>1. heard' = heard + 1 /\ stored' = stored
        BY <1>1 DEF IngestSegment, rows
      <3>2. \A s \in Segments(segQ) \cup stored : s \in Nat /\ s <= heard
        BY <1>t DEF HearingOK
      <3>3. \A s \in Segments(segQ) \cup stored : s <= heard + 1
        BY <1>t, <3>2
      <3> QED BY <1>t, <2>2, <3>1, <3>3
    <2>6. Before(stored', Segments(segQ'))
      BY <1>1, <1>t, <2>2 DEF IngestSegment, HearingOK, Before, rows
    <2> QED BY <1>1, <2>1, <2>2, <2>3, <2>4, <2>5, <2>6 DEF IngestSegment, HearingOK
  <1>2. CASE IngestEnds
    <2>1. Segments(segQ') = Segments(segQ) \cup {EOS}
      BY <1>2, <1>t, SegFacts, AppendQueue DEF IngestEnds
    <2>2. EOS \notin Segments(segQ) /\ Before(Segments(segQ), {EOS})
      BY <1>2 DEF IngestEnds, HearingOK, Before
    <2>3. Increasing(segQ')
      BY <1>2, <1>t, <2>2, SegFacts, AppendIncreasing DEF IngestEnds, HearingOK
    <2>4. \A s \in Segments(segQ') \cup stored' : s <= heard'
      BY <1>2, <1>t, <2>1, SegFacts DEF IngestEnds, HearingOK, rows
    <2>5. Before(stored', Segments(segQ'))
      BY <1>2, <2>1 DEF IngestEnds, HearingOK, Before, rows
    <2> QED BY <1>2, <2>3, <2>4, <2>5 DEF IngestEnds, HearingOK
  <1>3. CASE GetSegment
    <2>1. /\ Segments(segQ) = {Head(segQ)} \cup Segments(segQ')
          /\ Increasing(segQ') /\ (Head(segQ) = EOS => segQ' = <<>>)
      BY <1>3, <1>t, TakeQueue, TakeIncreasing DEF GetSegment, HearingOK
    <2>2. Head(segQ) = EOS => ingest = "done"
      BY <2>1 DEF HearingOK
    <2>3. asr'.step \in {"eos", "transcribe"} /\ (asr'.step = "eos" => Head(segQ) = EOS)
      BY <1>3 DEF GetSegment
    <2>4. Before(stored', Segments(segQ')) /\ \A s \in Segments(segQ') \cup stored' : s <= heard'
      BY <1>3, <2>1 DEF GetSegment, HearingOK, Before, rows
    <2> QED BY <1>3, <2>1, <2>2, <2>3, <2>4 DEF GetSegment, HearingOK
  <1>4. CASE StoreSegment
    <2>1. asr'.step \in {"get", "put"}
      BY <1>4, AsrType DEF StoreSegment, TypeOK
    <2>2. asr.seg <= heard /\ Before({asr.seg}, Segments(segQ))
      BY <1>4 DEF StoreSegment, AsrOK, Holding
    <2> QED BY <1>4, <2>1, <2>2 DEF StoreSegment, HearingOK, Before
  <1>8. CASE RowStranded
    <2>1. asr'.step = "failed"
      BY <1>8, AsrType DEF RowStranded, TypeOK, Ended
    <2>2. asr.seg <= heard /\ Before({asr.seg}, Segments(segQ))
      BY <1>8 DEF RowStranded, AsrOK, Holding
    <2> QED BY <1>8, <2>1, <2>2 DEF RowStranded, HearingOK, Before, queues
  <1>5. CASE Transcribed \/ PutUtterance
    <2>1. asr'.step \in {"get", "identify"}
      BY <1>5, AsrType DEF Transcribed, PutUtterance, TypeOK
    <2> QED BY <1>5, <2>1 DEF Transcribed, PutUtterance, HearingOK, queues, rows
  <1>6. CASE PassEnd
    <2>1. asr.step = "eos" /\ asr'.step = "done"
      BY <1>6, AsrType DEF PassEnd, TypeOK, Ended
    <2> QED BY <1>6, <2>1 DEF PassEnd, HearingOK, rows
  <1>7. CASE ToWindower \/ Stops \/ UNCHANGED vars
    BY <1>7, FirstHalfFrame DEF HearingOK
  <1> QED
    BY <1>1, <1>2, <1>3, <1>4, <1>5, <1>6, <1>7, <1>8
       DEF Next, AsrStep, Raises, ToWindower, Stops

LEMMA AsrOKStep ==
    ASSUME TypeOK, HearingOK, AsrOK, [Next]_vars
    PROVE  AsrOK'
  <1>t. /\ segQ \in Seq(Items) /\ stored \subseteq Nat /\ heard \in Nat
        /\ Segments(segQ) \subseteq Nat /\ asr.seg \in Nat
    BY NumberFacts
  <1>1. CASE IngestSegment
    <2>1. Segments(segQ') = Segments(segQ) \cup {heard + 1}
      BY <1>1, <1>t, NumberFacts, AppendQueue DEF IngestSegment
    <2>2. asr.step \in Holding => Before({asr.seg}, Segments(segQ'))
      BY <1>t, <2>1 DEF AsrOK, Before
    <2> QED BY <1>1, <1>t, <2>2 DEF IngestSegment, AsrOK, rows
  <1>2. CASE IngestEnds
    <2>1. Segments(segQ') = Segments(segQ) \cup {EOS}
      BY <1>2, <1>t, SegFacts, AppendQueue DEF IngestEnds
    <2> QED BY <1>2, <2>1 DEF IngestEnds, AsrOK, Before, rows
  <1>3. CASE GetSegment
    <2>1. /\ Segments(segQ) = {Head(segQ)} \cup Segments(segQ') /\ Head(segQ) \in Items
          /\ Before({Head(segQ)}, Segments(segQ'))
      BY <1>3, <1>t, TakeQueue, TakeIncreasing DEF GetSegment, HearingOK
    <2>2. CASE Head(segQ) = EOS
      BY <1>3, <2>2 DEF GetSegment, AsrOK, Holding
    <2>3. CASE Head(segQ) # EOS
      <3>1. Head(segQ) \in Segs /\ Head(segQ) <= heard /\ Before(stored, {Head(segQ)})
        BY <2>1, <2>3, SegFacts DEF HearingOK, Before
      <3>2. asr' = [step |-> "transcribe", seg |-> Head(segQ)]
        BY <1>3, <2>3 DEF GetSegment
      <3> QED BY <1>3, <2>1, <3>1, <3>2 DEF GetSegment, AsrOK, rows
    <2> QED BY <2>2, <2>3
  <1>4. CASE Transcribed
    <2>1. asr'.step \in {"get", "identify"} /\ asr'.seg = asr.seg /\ asr.step = "transcribe"
      BY <1>4, AsrType DEF Transcribed, TypeOK
    <2> QED BY <1>4, <2>1 DEF Transcribed, AsrOK, Holding, queues, rows
  <1>5. CASE StoreSegment
    <2>1. asr'.step \in {"get", "put"} /\ asr'.seg = asr.seg /\ asr.step = "identify"
      BY <1>5, AsrType DEF StoreSegment, TypeOK
    <2> QED BY <1>5, <2>1 DEF StoreSegment, AsrOK, Holding
  <1>8. CASE RowStranded
    <2>1. asr'.step = "failed"
      BY <1>8, AsrType DEF RowStranded, TypeOK, Ended
    <2> QED BY <2>1 DEF AsrOK, Holding
  <1>6. CASE PutUtterance \/ PassEnd
    <2>1. asr'.step \in {"get", "done"}
      BY <1>6, AsrType DEF PutUtterance, PassEnd, TypeOK, Ended
    <2> QED BY <2>1 DEF AsrOK, Holding
  <1>7. CASE ToWindower \/ Stops \/ UNCHANGED vars
    BY <1>7, FirstHalfFrame DEF AsrOK, Holding
  <1> QED
    BY <1>1, <1>2, <1>3, <1>4, <1>5, <1>6, <1>7, <1>8
       DEF Next, AsrStep, Raises, ToWindower, Stops

-------------------------------------------------------------------------------
(* One window at a time                                                    *)

LEMMA WindowsStep ==
    ASSUME TypeOK, WindowsOK, [Next]_vars
    PROVE  WindowsOK'
  <1>t. /\ windows \in Seq(WindowStatuses) /\ Len(windows) \in Nat
        /\ windows # <<>> => Len(windows) \in 1 .. Len(windows)
        /\ windower.stopping \in BOOLEAN
    <2>1. windows \in Seq(WindowStatuses) /\ windower.stopping \in BOOLEAN
      BY DEF TypeOK, WindowerStates
    <2>2. Len(windows) \in Nat /\ (windows # <<>> => Len(windows) \in 1 .. Len(windows))
      BY <2>1
    <2> QED BY <2>1, <2>2
  <1>v. ASSUME NEW v \in {"done", "failed", "skipped-idle"}, windows # <<>>, Verdict(v),
               facts' = facts, Len(windows) \notin facts,
               Alive => \A w \in 1 .. Len(windows) - 1 : Complete(w)
        PROVE  /\ Len(windows') = Len(windows) /\ windows' # <<>> /\ Last(windows') = v
               /\ Alive => \A w \in 1 .. Len(windows) - 1 : Complete(w)'
               /\ v # "done" => Complete(Len(windows))'
    BY <1>t, <1>v, StatusFacts, VerdictFacts DEF Complete, Last
  <1>1. CASE UNCHANGED <<windower, job, windows, facts>>
    BY <1>1 DEF WindowsOK, Complete, Alive
  <1>2. CASE TakeUtterance
    <2>0. windower.step = "get" /\ Alive /\ job = "none" /\ job' = job
      BY <1>2 DEF TakeUtterance, Alive, WindowsOK
    <2>1. PICK window \in Seq(Segs), stopping \in BOOLEAN :
              \/ NoWindow(stopping)
              \/ OpenWindow(window, stopping)
              \/ WindowerGoes("failed", stopping) /\ Raise /\ UNCHANGED rows
      BY TakeFacts, <1>2
    <2>2. CASE NoWindow(stopping)
      <3>1. windower'.step \in {"get", "done"}
        BY <2>2, WindowerType DEF NoWindow, Ended
      <3> QED BY <2>0, <2>2, <3>1 DEF NoWindow, WindowsOK, Complete, Alive, rows
    <2>3. CASE OpenWindow(window, stopping)
      <3>1. windower'.step \in {"triage", "failed"}
        BY <2>3, WindowerType DEF OpenWindow, Ended
      <3>2. /\ Len(windows') = Len(windows) + 1 /\ windows' # <<>>
            /\ Last(windows') = "extracting" /\ Len(windows') \notin facts'
            /\ \A w \in 1 .. Len(windows) : windows'[w] = windows[w]
            /\ facts' = facts
        BY <2>3, OpenType DEF OpenWindow
      <3>3. \A w \in 1 .. Len(windows) : Complete(w)
        <4>1. windows # <<>> => Complete(Len(windows))
          BY <2>0 DEF WindowsOK
        <4>2. \A w \in 1 .. Len(windows) - 1 : Complete(w)
          BY <2>0 DEF WindowsOK
        <4>3. \A w \in 1 .. Len(windows) : w = Len(windows) \/ w \in 1 .. Len(windows) - 1
          BY <1>t
        <4>4. windows = <<>> => 1 .. Len(windows) = {}
          OBVIOUS
        <4> QED BY <4>1, <4>2, <4>3, <4>4
      <3>4. \A w \in 1 .. Len(windows') - 1 : Complete(w)'
        BY <1>t, <3>2, <3>3 DEF Complete
      <3> QED BY <2>0, <3>1, <3>2, <3>4 DEF WindowsOK
    <2>4. CASE WindowerGoes("failed", stopping) /\ UNCHANGED rows
      <3>1. windower'.step = "failed"
        BY <2>4, WindowerType DEF Ended
      <3> QED BY <2>0, <2>4, <3>1 DEF WindowsOK, Alive, rows
    <2> QED BY <2>1, <2>2, <2>3, <2>4
  <1>3. CASE Triaged
    <2>0. /\ windower.step = "triage" /\ Alive /\ windows # <<>> /\ facts' = facts
          /\ job = "none" /\ Last(windows) = "extracting" /\ Len(windows) \notin facts
          /\ \A w \in 1 .. Len(windows) - 1 : Complete(w)
      BY <1>3 DEF Triaged, Alive, WindowsOK
    <2>1. CASE Verdict("skipped-idle") /\ AfterWindow /\ UNCHANGED job
      <3>1. windower'.step \in {"get", "done"}
        BY <1>t, <2>1, WindowerType DEF AfterWindow, Ended
      <3> QED BY <1>v, <2>0, <2>1, <3>1 DEF WindowsOK
    <2>2. CASE WindowerGoes("extract", windower.stopping) /\ job' = "asking" /\ UNCHANGED windows
      <3>1. windower'.step = "extract"
        BY <1>t, <2>2, WindowerType
      <3> QED BY <2>0, <2>2, <3>1 DEF WindowsOK, Complete
    <2> QED BY <1>3, <2>1, <2>2 DEF Triaged
  <1>4. CASE Extracted \/ Rolled \/ WindowerRaises
    <2>1. /\ UNCHANGED <<windows, facts>> /\ Alive /\ job' = "none"
          /\ windower'.step # "failed" /\ windows # <<>> => Complete(Len(windows))
          /\ windower'.step \in {"failed", "get", "done", "roll"}
      <3>1. CASE Extracted
        BY <1>t, <3>1, WindowerType DEF Extracted, Ended, rows, Alive, WindowsOK
      <3>2. CASE Rolled
        BY <1>t, <3>2, WindowerType DEF Rolled, AfterWindow, Ended, rows, Alive, WindowsOK
      <3>3. CASE WindowerRaises
        BY <1>t, <3>3, WindowerType DEF WindowerRaises, Ended, rows, Alive, WindowsOK
      <3> QED BY <1>4, <3>1, <3>2, <3>3
    <2> QED BY <2>1 DEF WindowsOK, Complete, Alive
  <1>5. CASE Asked
    <2>0. /\ windows # <<>> /\ facts' = facts /\ Len(windows) \notin facts
          /\ windower.step \notin {"get", "roll", "done", "triage"}
          /\ windower' = windower /\ (Alive' <=> Alive)
          /\ Alive => \A w \in 1 .. Len(windows) - 1 : Complete(w)
      BY <1>5 DEF Asked, WindowsOK, Alive
    <2>1. CASE Verdict("failed") /\ job' = "ok"
      BY <1>v, <2>0, <2>1 DEF WindowsOK
    <2>2. CASE Verdict("done") /\ job' = "writing"
      BY <1>v, <2>0, <2>2 DEF WindowsOK
    <2> QED BY <1>5, <2>1, <2>2 DEF Asked
  <1>6. CASE EventsWritten
    <2>1. /\ windows # <<>> /\ windows' = windows /\ facts' = facts \cup {Len(windows)}
          /\ windower.step \notin {"get", "roll", "done", "triage"}
          /\ windower' = windower /\ job' = "ok" /\ windows[Len(windows)] = "done"
      BY <1>6 DEF EventsWritten, WindowsOK, WindowId, Last
    <2>2. \A w : Complete(w) => Complete(w)'
      BY <2>1 DEF Complete
    <2>3. Complete(Len(windows))'
      BY <2>1 DEF Complete
    <2> QED BY <2>1, <2>2, <2>3 DEF WindowsOK, Alive
  <1>7. CASE JobRaises
    BY <1>7 DEF JobRaises, WindowsOK, Complete, Alive, rows
  <1>8. CASE Cancel \/ Kill
    <2>1. UNCHANGED <<windows, facts>> /\ (job' = job \/ job' = "none")
      BY <1>8 DEF Cancel, Kill, rows
    <2>2. windower' = windower \/ StopTasks
      BY <1>8 DEF Cancel, Kill
    <2>3. windower'.step = windower.step \/ windower'.step = "stopped"
      BY <2>2, StopType
    <2> QED BY <2>1, <2>3 DEF WindowsOK, Complete, Alive
  <1>9. CASE IngestSegment \/ IngestEnds \/ AsrStep \/ CloseSession \/ UNCHANGED vars
    BY <1>1, <1>9
       DEF IngestSegment, IngestEnds, AsrStep, GetSegment, Transcribed, StoreSegment,
           PutUtterance, PassEnd, CloseSession, rows, vars
  <1>10. CASE IngestRaises \/ AsrRaises \/ RowStranded
    BY <1>1, <1>10 DEF IngestRaises, AsrRaises, RowStranded, rows
  <1> QED
    BY <1>2, <1>3, <1>4, <1>5, <1>6, <1>7, <1>8, <1>9, <1>10
       DEF Next, WindowerStep, JobStep, Raises

-------------------------------------------------------------------------------
(* The end                                                                 *)

\* A task that has ended stays as it ended.
LEMMA EndedStays ==
    ASSUME TypeOK, [Next]_vars
    PROVE  /\ ingest \in Ended => ingest' = ingest
           /\ asr.step \in Ended => asr'.step = asr.step
           /\ windower.step \in Ended => windower'.step = windower.step
  <1> USE DEF Ended
  <1>1. CASE IngestSegment \/ IngestEnds \/ IngestRaises
    BY <1>1 DEF IngestSegment, IngestEnds, IngestRaises
  <1>2. CASE AsrStep \/ AsrRaises \/ RowStranded
    BY <1>2
       DEF AsrStep, GetSegment, Transcribed, StoreSegment, PutUtterance, PassEnd, AsrRaises,
           RowStranded
  <1>3. CASE WindowerStep \/ WindowerRaises
    BY <1>3
       DEF WindowerStep, TakeUtterance, Triaged, Extracted, Rolled, WindowerRaises
  <1>4. CASE JobStep \/ JobRaises \/ CloseSession \/ UNCHANGED vars
    BY <1>4 DEF JobStep, Asked, EventsWritten, JobRaises, CloseSession, vars
  <1>5. CASE Cancel \/ Kill
    BY <1>5, StopType DEF Cancel, Kill
  <1> QED BY <1>1, <1>2, <1>3, <1>4, <1>5 DEF Next, Raises

LEMMA OverStep ==
    ASSUME TypeOK, [Next]_vars, main = "over" => AllDone
    PROVE  (main = "over" => AllDone)'
  <1>1. AllDone => AllDone'
    BY EndedStays DEF AllDone, Ended
  <1>2. main' = "over" => main = "over" \/ (CloseSession /\ AllDone)
    BY DEF Next, IngestSegment, IngestEnds, IngestRaises, AsrStep, GetSegment, Transcribed,
           StoreSegment, PutUtterance, PassEnd, AsrRaises, RowStranded, WindowerStep, TakeUtterance,
           NoWindow, OpenWindow, Triaged, Extracted, Rolled, WindowerRaises, JobStep,
           Asked, EventsWritten, JobRaises, Cancel, Kill, CloseSession, Raises, Raise,
           vars, end
  <1> QED BY <1>1, <1>2

LEMMA EndStep ==
    ASSUME TypeOK, PlacesOK, EndOK, [Next]_vars
    PROVE  EndOK'
  <1>t. windower.stopping \in BOOLEAN
    BY DEF TypeOK, WindowerStates
  <1>o. (main = "over" => AllDone)'
    BY OverStep DEF EndOK
  <1> SUFFICES /\ windower'.step = "done" => windower'.stopping
               /\ windower'.stopping => asr'.step = "done" /\ utts' = <<>> /\ buf' = <<>>
    BY <1>o DEF EndOK
  <1>d. asr.step = "done" => asr'.step = "done"
    BY EndedStays DEF Ended
  <1>1. CASE TakeUtterance
    <2>1. PICK window \in Seq(Segs), stopping \in BOOLEAN :
              /\ stopping <=> Head(utts) = EOS
              /\ stopping => buf' = <<>>
              /\ \/ NoWindow(stopping)
                 \/ OpenWindow(window, stopping)
                 \/ WindowerGoes("failed", stopping) /\ Raise /\ UNCHANGED rows
      BY TakeFacts, <1>1
    <2>2. windower'.stopping = stopping /\ (windower'.step = "done" => stopping)
      BY <2>1, WindowerType DEF NoWindow, OpenWindow, Ended
    <2>3. utts # <<>> /\ utts \in Seq(Items) /\ utts' = Tail(utts) /\ asr' = asr
      BY <1>1 DEF TakeUtterance, TypeOK
    <2>4. stopping => asr.step = "done" /\ Tail(utts) = <<>>
      <3>1. Head(utts) \in Segments(utts) /\ (Head(utts) = EOS => Tail(utts) = <<>>)
        BY <2>3, TakeQueue, TakeIncreasing DEF PlacesOK
      <3> QED BY <2>1, <3>1 DEF PlacesOK
    <2> QED BY <2>1, <2>2, <2>3, <2>4
  <1>2. CASE Triaged \/ Extracted \/ Rolled \/ WindowerRaises
    <2>1. /\ windower'.stopping = windower.stopping
          /\ windower'.step = "done" => windower.stopping
      BY <1>2, <1>t, WindowerType
         DEF Triaged, Extracted, Rolled, WindowerRaises, AfterWindow, Ended
    <2>2. utts' = utts /\ buf' = buf
      BY <1>2 DEF Triaged, Extracted, Rolled, WindowerRaises, queues
    <2> QED BY <1>d, <2>1, <2>2 DEF EndOK
  <1>3. CASE StoreSegment \/ PutUtterance \/ PassEnd
    BY <1>3 DEF StoreSegment, PutUtterance, PassEnd, EndOK
  <1>4. CASE Cancel \/ Kill
    <2>1. utts' = utts /\ buf' = buf
      BY <1>4 DEF Cancel, Kill, queues
    <2>2. windower' = windower \/ StopTasks
      BY <1>4 DEF Cancel, Kill
    <2>3. /\ windower'.stopping = windower.stopping
          /\ windower'.step \in {windower.step, "stopped"}
      BY <2>2, StopType
    <2> QED BY <1>d, <2>1, <2>3 DEF EndOK
  <1>5. CASE UNCHANGED <<utts, buf, windower>>
    BY <1>5, <1>d DEF EndOK
  <1>6. CASE \/ IngestSegment \/ IngestEnds \/ IngestRaises
             \/ GetSegment \/ Transcribed \/ AsrRaises \/ RowStranded
    BY <1>5, <1>6
       DEF IngestSegment, IngestEnds, IngestRaises, GetSegment, Transcribed, AsrRaises,
           RowStranded, queues
  <1>7. CASE JobStep \/ JobRaises \/ CloseSession \/ UNCHANGED vars
    BY <1>5, <1>7
       DEF JobStep, Asked, EventsWritten, JobRaises, CloseSession, queues, vars
  <1> QED
    BY <1>1, <1>2, <1>3, <1>4, <1>6, <1>7 DEF Next, AsrStep, WindowerStep, Raises

-------------------------------------------------------------------------------
(* Places                                                                  *)

LEMMA LastIsLatest ==
    ASSUME NEW q \in Seq(Segs), q # <<>>, Increasing(q)
    PROVE  Last(q) \in Segments(q) /\ \A s \in Segments(q) : s <= Last(q)
  <1>1. Len(q) \in Nat /\ Len(q) \in 1 .. Len(q) /\ Last(q) = q[Len(q)]
    BY DEF Last
  <1>2. ASSUME NEW i \in 1 .. Len(q)
        PROVE  q[i] <= Last(q)
    <2>1. q[i] \in Segs /\ q[Len(q)] \in Segs
      BY <1>1
    <2>2. i < Len(q) => q[i] < q[Len(q)]
      BY <1>1, <2>1, SegFacts DEF Increasing
    <2>3. i = Len(q) \/ i < Len(q)
      BY <1>1
    <2>4. q[i] \in Nat /\ q[Len(q)] \in Nat
      BY <2>1, SegFacts
    <2> QED BY <1>1, <2>2, <2>3, <2>4
  <1> QED BY <1>1, <1>2 DEF Segments

\* What TakeUtterance does to the places: the builder's utterances and the new
\* one are the window and then the new buffer, and all of them come between the
\* linked ones and what is left.
LEMMA TakePlaces ==
    ASSUME TypeOK, PlacesOK, TakeUtterance
    PROVE  \E window \in Seq(Segs), stopping \in BOOLEAN :
              /\ Increasing(window) /\ Increasing(buf')
              /\ Segments(buf) \cup Segments(utts)
                    \subseteq Segments(window) \cup Segments(buf') \cup Segments(utts') \cup {EOS}
              /\ Segments(window) \cup Segments(buf') \subseteq stored
              /\ Segments(utts') \subseteq Segments(utts)
              /\ Before(Segments(window), Segments(buf'))
              /\ Before(Segments(window) \cup Segments(buf'), Segments(utts') \cup Pending)
              /\ Before(Linked, Segments(window) \cup Segments(buf') \cup Segments(utts') \cup Pending)
              /\ \/ window = <<>> /\ NoWindow(stopping)
                 \/ window # <<>> /\ OpenWindow(window, stopping)
                 \/ WindowerGoes("failed", stopping) /\ Raise /\ UNCHANGED rows
  <1> DEFINE u == Head(utts)
  <1>1. PICK window \in Seq(Segs), stopping \in BOOLEAN :
              /\ stopping <=> u = EOS
              /\ buf' \in Seq(Segs)
              /\ \/ stopping /\ window = buf /\ buf' = <<>>
                 \/ ~stopping /\ window = <<>> /\ buf' = Append(buf, u)
                 \/ ~stopping /\ window = buf /\ buf' = <<u>>
                 \/ ~stopping /\ window = Append(buf, u) /\ buf' = <<>>
              /\ \/ window = <<>> /\ NoWindow(stopping)
                 \/ window # <<>> /\ OpenWindow(window, stopping)
                 \/ WindowerGoes("failed", stopping) /\ Raise /\ UNCHANGED rows
    BY TakeFacts
  <1>2. utts # <<>> /\ utts \in Seq(Items) /\ utts' = Tail(utts)
    BY DEF TakeUtterance, TypeOK
  <1>3. /\ u \in Items /\ u \in Segments(utts)
        /\ Segments(utts) = {u} \cup Segments(utts')
        /\ Before({u}, Segments(utts'))
    BY <1>2, TakeQueue, TakeIncreasing DEF PlacesOK
  <1>4. buf \in Seq(Segs) /\ Segments(buf) \subseteq Segs
    BY Members DEF TypeOK
  <1>5. /\ Increasing(buf) /\ Segments(buf) \subseteq stored
        /\ u # EOS => u \in stored /\ u \in Segs
        /\ Before(Segments(buf), {u}) /\ Before(Segments(buf), Segments(utts') \cup Pending)
        /\ u # EOS => Before({u}, Segments(utts') \cup Pending)
        /\ Before(Linked, Segments(buf) \cup Segments(utts') \cup Pending \cup {u})
    BY <1>3, SegFacts DEF PlacesOK, Before
  <1>6. u # EOS =>
            /\ Segments(Append(buf, u)) = Segments(buf) \cup {u} /\ Increasing(Append(buf, u))
            /\ Segments(<<u>>) = {u} /\ Increasing(<<u>>)
    <2> SUFFICES ASSUME u # EOS
                 PROVE  /\ Segments(Append(buf, u)) = Segments(buf) \cup {u}
                        /\ Increasing(Append(buf, u))
                        /\ Segments(<<u>>) = {u} /\ Increasing(<<u>>)
      OBVIOUS
    <2>1. Segments(Append(buf, u)) = Segments(buf) \cup {u}
      BY <1>4, <1>5, AppendQueue
    <2>2. buf \in Seq(Items) /\ EOS \notin Segments(buf)
      BY <1>4, SegFacts
    <2>3. Increasing(Append(buf, u))
      BY <1>3, <1>5, <2>2, AppendIncreasing
    <2> QED BY <2>1, <2>3, OneQueue
  <1>7. /\ Increasing(window) /\ Increasing(buf')
        /\ \/ u = EOS /\ Segments(window) = Segments(buf) /\ Segments(buf') = {}
           \/ u # EOS /\ Segments(window) = {} /\ Segments(buf') = Segments(buf) \cup {u}
           \/ u # EOS /\ Segments(window) = Segments(buf) /\ Segments(buf') = {u}
           \/ u # EOS /\ Segments(window) = Segments(buf) \cup {u} /\ Segments(buf') = {}
    BY <1>1, <1>5, <1>6, EmptyQueue
  <1>8. /\ Segments(buf) \cup Segments(utts)
               \subseteq Segments(window) \cup Segments(buf') \cup Segments(utts') \cup {EOS}
        /\ Segments(window) \cup Segments(buf') \subseteq stored
        /\ Segments(utts') \subseteq Segments(utts)
    BY <1>3, <1>5, <1>7
  <1>9. Before(Segments(window), Segments(buf'))
    BY <1>5, <1>7 DEF Before
  <1>10. Before(Segments(window) \cup Segments(buf'), Segments(utts') \cup Pending)
    BY <1>5, <1>7 DEF Before
  <1>11. Before(Linked, Segments(window) \cup Segments(buf') \cup Segments(utts') \cup Pending)
    BY <1>5, <1>7 DEF Before
  <1> QED BY <1>1, <1>7, <1>8, <1>9, <1>10, <1>11

\* The rows a window's row and links are written over.
LEMMA LinkFacts ==
    ASSUME TypeOK, NEW window \in Seq(Segs), NEW stopping, OpenWindow(window, stopping),
           linked' # linked, Segments(window) \subseteq stored
    PROVE  /\ \A s \in Segments(window) : linked'[s] = Len(windows) + 1
           /\ \A s \in Segs : s \notin Segments(window) => linked'[s] = linked[s]
           /\ Linked' = Linked \cup Segments(window)
  <1>1. linked' = [s \in Segs |-> IF s \in Segments(window) THEN WindowId + 1 ELSE linked[s]]
    BY DEF OpenWindow
  <1>2. Segments(window) \subseteq Segs
    BY Members
  <1>3. /\ \A s \in Segments(window) : linked'[s] = Len(windows) + 1
        /\ \A s \in Segs : s \notin Segments(window) => linked'[s] = linked[s]
    BY <1>1, <1>2 DEF WindowId
  <1>4. Len(windows) + 1 # 0 /\ stored' = stored /\ stored \subseteq Segs
    BY DEF OpenWindow, TypeOK
  <1> QED BY <1>3, <1>4 DEF Linked

LEMMA PlacesStep ==
    ASSUME TypeOK, AsrOK, PlacesOK, EndOK, [Next]_vars
    PROVE  PlacesOK'
  <1>d. asr.step = "done" => asr'.step = "done"
    BY EndedStays DEF Ended
  <1>t. /\ utts \in Seq(Items) /\ stored \subseteq Segs /\ EOS \notin stored
        /\ asr \in AsrStates /\ asr.seg \in Items
    BY SegFacts DEF TypeOK, AsrStates
  <1>1. CASE StoreSegment
    <2>1. /\ asr.step = "identify" /\ asr.seg \in Segs /\ asr.seg # EOS
          /\ Before(stored, {asr.seg}) /\ EOS \notin Segments(utts)
      BY <1>1, SegFacts DEF StoreSegment, AsrOK, Holding, PlacesOK
    <2>2. /\ stored' = stored \cup {asr.seg} /\ buf' = buf
          /\ UNCHANGED <<linked, windower>>
      BY <1>1 DEF StoreSegment
    <2>3. asr.seg \notin stored /\ Pending = {}
      <3>1. asr.seg \in Nat
        BY <2>1, SegFacts
      <3>2. asr.seg \in stored => asr.seg < asr.seg
        BY <2>1 DEF Before
      <3> QED BY <2>1, <3>1, <3>2 DEF Pending
    <2>4. Linked' = Linked /\ (Alive' <=> Alive)
      BY <2>1, <2>2, <2>3 DEF Linked, Alive, PlacesOK
    <2>5. Before(Segments(utts), {asr.seg}) /\ Before(Segments(buf), {asr.seg}) /\ Before(Linked, {asr.seg})
      BY <2>1 DEF PlacesOK, Before, Linked
    <2>6. CASE utts' = Append(utts, asr.seg) /\ AsrAt("get")
      <3>1. Segments(utts') = Segments(utts) \cup {asr.seg} /\ Increasing(utts')
        BY <1>t, <2>1, <2>5, <2>6, AppendQueue, AppendIncreasing DEF PlacesOK
      <3>2. Pending' = {}
        BY <1>t, <2>6, AsrType DEF Pending
      <3> QED BY <1>t, <2>1, <2>2, <2>3, <2>4, <2>5, <3>1, <3>2 DEF PlacesOK, Before
    <2>7. CASE utts' = utts /\ AsrAt("put")
      <3>1. Pending' = {asr.seg}
        BY <1>t, <2>7, AsrType DEF Pending
      <3> QED BY <1>t, <2>1, <2>2, <2>3, <2>4, <2>5, <2>7, <3>1 DEF PlacesOK, Before
    <2> QED BY <1>1, <2>6, <2>7 DEF StoreSegment
  <1>11. CASE RowStranded
    <2>1. /\ asr.step = "identify" /\ asr.seg \in Segs /\ asr.seg # EOS
          /\ Before(stored, {asr.seg}) /\ EOS \notin Segments(utts) /\ Pending = {}
      BY <1>11, SegFacts DEF RowStranded, AsrOK, Holding, PlacesOK, Pending
    <2>2. /\ stored' = stored \cup {asr.seg} /\ utts' = utts
          /\ UNCHANGED <<buf, linked, windower>>
      BY <1>11 DEF RowStranded, queues
    <2>3. asr.seg \notin stored
      <3>1. asr.seg \in Nat
        BY <2>1, SegFacts
      <3>2. asr.seg \in stored => asr.seg < asr.seg
        BY <2>1 DEF Before
      <3> QED BY <3>1, <3>2
    <2>4. Linked' = Linked /\ (Alive' <=> Alive)
      BY <2>1, <2>2, <2>3 DEF Linked, Alive, PlacesOK
    <2>5. Before(Segments(utts), {asr.seg}) /\ Before(Segments(buf), {asr.seg}) /\ Before(Linked, {asr.seg})
      BY <2>1 DEF PlacesOK, Before, Linked
    <2>6. Pending' = {asr.seg}
      BY <1>11, <1>t, <2>2, AsrType DEF RowStranded, Pending, Ended
    <2> QED BY <1>t, <2>1, <2>2, <2>3, <2>4, <2>5, <2>6 DEF PlacesOK, Before
  <1>2. CASE PutUtterance
    <2>1. /\ asr.step = "put" /\ Pending = {asr.seg} /\ utts' = Append(utts, asr.seg)
          /\ EOS \notin Segments(utts) /\ UNCHANGED <<buf, stored, linked, windower>>
      BY <1>2 DEF PutUtterance, Pending, PlacesOK, rows
    <2>2. Before(Segments(utts), {asr.seg})
      BY <2>1 DEF PlacesOK, Before
    <2>3. Segments(utts') = Segments(utts) \cup {asr.seg} /\ Increasing(utts')
      BY <1>t, <2>1, <2>2, AppendQueue, AppendIncreasing DEF PlacesOK
    <2>4. Pending' = {}
      BY <1>2, <1>t, AsrType DEF PutUtterance, Pending
    <2>5. asr.seg # EOS
      BY <1>t, <2>1 DEF PlacesOK
    <2> QED BY <2>1, <2>3, <2>4, <2>5 DEF PlacesOK, Before, Linked, Alive
  <1>3. CASE PassEnd
    <2>1. /\ asr.step = "eos" /\ Pending = {} /\ utts' = Append(utts, EOS)
          /\ EOS \notin Segments(utts) /\ UNCHANGED <<buf, stored, linked, windower>>
      BY <1>3 DEF PassEnd, Pending, PlacesOK, rows
    <2>2. Before(Segments(utts), {EOS})
      BY DEF Before
    <2>3. Segments(utts') = Segments(utts) \cup {EOS} /\ Increasing(utts')
      BY <1>t, <2>1, <2>2, SegFacts, AppendQueue, AppendIncreasing DEF PlacesOK
    <2>4. Pending' = {} /\ asr'.step = "done"
      BY <1>3, <1>t, AsrType DEF PassEnd, Pending, Ended
    <2> QED BY <2>1, <2>3, <2>4 DEF PlacesOK, Before, Linked, Alive
  <1>4. CASE TakeUtterance
    <2>1. PICK window \in Seq(Segs), stopping \in BOOLEAN :
              /\ Increasing(window) /\ Increasing(buf')
              /\ Segments(buf) \cup Segments(utts)
                    \subseteq Segments(window) \cup Segments(buf') \cup Segments(utts') \cup {EOS}
              /\ Segments(window) \cup Segments(buf') \subseteq stored
              /\ Segments(utts') \subseteq Segments(utts)
              /\ Before(Segments(window), Segments(buf'))
              /\ Before(Segments(window) \cup Segments(buf'), Segments(utts') \cup Pending)
              /\ Before(Linked, Segments(window) \cup Segments(buf') \cup Segments(utts') \cup Pending)
              /\ \/ window = <<>> /\ NoWindow(stopping)
                 \/ window # <<>> /\ OpenWindow(window, stopping)
                 \/ WindowerGoes("failed", stopping) /\ Raise /\ UNCHANGED rows
      BY <1>4, TakePlaces
    <2>2. /\ Alive /\ asr' = asr /\ Pending' = Pending /\ stored' = stored
          /\ utts # <<>> /\ utts' = Tail(utts)
      BY <1>4, <2>1 DEF TakeUtterance, Alive, Pending, NoWindow, OpenWindow, rows
    <2>3. Increasing(utts')
      BY <1>t, <2>2, TakeIncreasing DEF PlacesOK
    <2>4. /\ EOS \in Segments(utts') => asr'.step = "done"
          /\ Segments(buf') \cup (Segments(utts') \ {EOS}) \cup Pending' \subseteq stored'
          /\ Before(Segments(utts') \ {EOS}, Pending')
          /\ Before(Segments(buf'), Segments(utts') \cup Pending')
      BY <2>1, <2>2 DEF PlacesOK, Before
    <2>5. stored \subseteq Linked \cup Segments(window) \cup Segments(buf') \cup Segments(utts') \cup Pending
      BY <1>t, <2>1, <2>2 DEF PlacesOK
    <2>6. CASE linked' = linked
      <3>1. Linked' = Linked /\ \A s \in Segs : linked'[s] # 0 => s \in stored'
        BY <2>2, <2>6 DEF Linked, PlacesOK
      <3>2. Alive' => Segments(window) \subseteq Linked
        <4>1. CASE window = <<>>
          BY <4>1, EmptyQueue
        <4>2. CASE WindowerGoes("failed", stopping)
          BY <4>2, WindowerType DEF Alive, Ended
        <4>3. CASE OpenWindow(window, stopping)
          <5>1. CASE linked' = [s \in Segs |-> IF s \in Segments(window)
                                               THEN WindowId + 1 ELSE linked[s]]
            <6>1. WindowId + 1 # 0 /\ Segments(window) \subseteq Segs
              BY Members DEF WindowId, TypeOK
            <6> QED BY <2>1, <2>6, <5>1, <6>1 DEF Linked
          <5> QED BY <4>2, <4>3, <5>1 DEF OpenWindow
        <4> QED BY <2>1, <4>1, <4>2, <4>3
      <3>3. Before(Linked', Segments(buf') \cup Segments(utts') \cup Pending')
        BY <2>1, <2>2, <3>1 DEF Before
      <3> QED BY <2>1, <2>2, <2>3, <2>4, <2>5, <3>1, <3>2, <3>3 DEF PlacesOK
    <2>7. CASE linked' # linked
      <3>1. OpenWindow(window, stopping)
        BY <2>1, <2>7 DEF NoWindow, rows
      <3>2. /\ Linked' = Linked \cup Segments(window)
            /\ \A s \in Segs : s \notin Segments(window) => linked'[s] = linked[s]
        BY <2>1, <2>7, <3>1, LinkFacts
      <3>3. \A s \in Segs : linked'[s] # 0 => s \in stored'
        BY <2>1, <2>2, <3>2 DEF PlacesOK
      <3>4. Before(Linked', Segments(buf') \cup Segments(utts') \cup Pending')
        BY <2>1, <2>2, <3>2 DEF Before
      <3> QED BY <2>1, <2>2, <2>3, <2>4, <2>5, <3>2, <3>3, <3>4 DEF PlacesOK
    <2> QED BY <2>6, <2>7
  <1>5. CASE /\ UNCHANGED <<utts, buf, stored, linked>>
             /\ Alive' => Alive /\ Pending' = Pending
             /\ Pending' \subseteq Pending
    BY <1>d, <1>5 DEF PlacesOK, Before, Linked
  <1>6. CASE IngestSegment \/ IngestEnds \/ IngestRaises
    BY <1>5, <1>6
       DEF IngestSegment, IngestEnds, IngestRaises, Alive, Pending, queues, rows
  <1>7. CASE GetSegment \/ Transcribed \/ AsrRaises
    <2>1. UNCHANGED <<utts, buf, stored, linked, windower>>
      BY <1>7 DEF GetSegment, Transcribed, AsrRaises, queues, rows
    <2>2. asr.step \notin {"put", "failed"} /\ asr'.step # "put"
      BY <1>7, <1>t, AsrType DEF GetSegment, Transcribed, AsrRaises, Ended
    <2>3. asr'.step = "failed" => asr'.seg \notin stored
      <3>1. asr'.step = "failed" => AsrRaises
        BY <1>7, <1>t, AsrType DEF GetSegment, Transcribed, Ended
      <3>2. AsrRaises => asr'.seg = asr.seg /\ asr.seg \in Segs /\ Before(stored, {asr.seg})
        BY <1>t, AsrType DEF AsrRaises, AsrOK, Holding, Ended
      <3>3. AsrRaises /\ asr.seg \in stored => asr.seg < asr.seg /\ asr.seg \in Nat
        BY <3>2, SegFacts DEF Before
      <3> QED BY <3>1, <3>2, <3>3
    <2>4. Pending' = {} /\ Pending = {}
      BY <2>1, <2>2, <2>3 DEF Pending
    <2> QED BY <1>5, <2>1, <2>4 DEF Alive
  <1>8. CASE Triaged \/ Extracted \/ Rolled \/ WindowerRaises
    <2>1. Alive
      BY <1>8 DEF Triaged, Extracted, Rolled, WindowerRaises, Alive
    <2> QED BY <1>5, <1>8, <2>1
            DEF Triaged, Extracted, Rolled, WindowerRaises, Pending, queues, rows
  <1>9. CASE JobStep \/ JobRaises \/ CloseSession \/ UNCHANGED vars
    BY <1>5, <1>9
       DEF JobStep, Asked, EventsWritten, JobRaises, CloseSession, Alive, Pending,
           queues, rows, vars
  <1>10. CASE Cancel \/ Kill
    <2>1. UNCHANGED <<utts, buf, stored, linked>>
      BY <1>10 DEF Cancel, Kill, queues, rows
    <2>2. CASE UNCHANGED <<asr, windower>>
      BY <1>5, <2>1, <2>2 DEF Alive, Pending
    <2>3. CASE StopTasks
      <3>1. /\ windower'.step \in {windower.step, "stopped"} \cap Ended
            /\ asr'.step \in {asr.step, "stopped"} \cap Ended
            /\ windower.step \in Ended => windower'.step = windower.step
        BY <2>3, StopType
      <3>2. Pending' \subseteq Pending
        BY <2>1, <2>3, <3>1, StopType DEF Pending, Ended
      <3>3. Alive' => windower.step = "done"
        BY <3>1 DEF Alive, Ended
      <3>4. Alive' => Alive /\ Pending = {}
        BY <3>3 DEF EndOK, Alive, Pending
      <3> QED BY <1>5, <2>1, <3>2, <3>4
    <2> QED BY <1>10, <2>2, <2>3 DEF Cancel, Kill
  <1> QED
    BY <1>1, <1>2, <1>3, <1>4, <1>6, <1>7, <1>8, <1>9, <1>10, <1>11
       DEF Next, AsrStep, WindowerStep, Raises

-------------------------------------------------------------------------------
(* Windows in order                                                        *)

LEMMA OrderStep ==
    ASSUME TypeOK, AsrOK, PlacesOK, WindowsInOrder, [Next]_vars
    PROVE  WindowsInOrder'
  <1>t. stored \subseteq Segs /\ Segs \subseteq Nat /\ linked \in [Segs -> 0 .. Len(windows)]
    BY SegFacts DEF TypeOK
  <1>1. CASE UNCHANGED <<stored, linked>>
    BY <1>1 DEF WindowsInOrder
  <1>2. CASE StoreSegment \/ RowStranded
    <2>1. /\ stored' = stored \cup {asr.seg} /\ linked' = linked
          /\ asr.seg \in Segs /\ Before(stored, {asr.seg})
      BY <1>2 DEF StoreSegment, RowStranded, AsrOK, Holding
    <2>2. asr.seg \in Nat /\ asr.seg \notin stored /\ asr.seg # EOS
      <3>1. asr.seg \in Nat /\ asr.seg # EOS
        BY <2>1, SegFacts
      <3>2. asr.seg \in stored => asr.seg < asr.seg
        BY <2>1, <3>1 DEF Before
      <3> QED BY <3>1, <3>2
    <2>3. linked[asr.seg] = 0
      BY <2>1, <2>2 DEF PlacesOK
    <2>4. ASSUME NEW t \in stored
          PROVE  ~(asr.seg < t)
      <3>1. t < asr.seg /\ t \in Nat
        BY <1>t, <2>1, <2>2 DEF Before
      <3> QED BY <2>2, <3>1
    <2> QED BY <2>1, <2>3, <2>4 DEF WindowsInOrder
  <1>3. CASE TakeUtterance /\ linked' # linked
    <2>1. PICK window \in Seq(Segs), stopping \in BOOLEAN :
              /\ Segments(buf) \cup Segments(utts)
                    \subseteq Segments(window) \cup Segments(buf') \cup Segments(utts') \cup {EOS}
              /\ Segments(window) \cup Segments(buf') \subseteq stored
              /\ Before(Segments(window), Segments(buf'))
              /\ Before(Segments(window) \cup Segments(buf'), Segments(utts') \cup Pending)
              /\ Before(Linked, Segments(window))
              /\ OpenWindow(window, stopping)
      BY <1>3, TakePlaces DEF NoWindow, rows, Before
    <2>2. /\ \A s \in Segments(window) : linked'[s] = Len(windows) + 1
          /\ \A s \in Segs : s \notin Segments(window) => linked'[s] = linked[s]
          /\ Linked' = Linked \cup Segments(window) /\ stored' = stored
      BY <1>3, <2>1, LinkFacts DEF OpenWindow
    <2>3. /\ stored \subseteq Linked \cup Segments(window) \cup Segments(buf') \cup Segments(utts') \cup Pending
          /\ EOS \notin stored
      BY <1>3, <2>1, SegFacts DEF PlacesOK, TakeUtterance, Alive, TypeOK
    <2> SUFFICES ASSUME NEW s \in stored, NEW t \in stored, s < t, linked'[t] # 0
                 PROVE  linked'[s] # 0 /\ linked'[s] <= linked'[t]
      BY <2>2 DEF WindowsInOrder
    <2>n. s \in Nat /\ t \in Nat /\ s # EOS /\ t # EOS /\ s \in Segs /\ t \in Segs
      BY <1>t, <2>3
    <2>l. Len(windows) \in Nat /\ linked[s] \in 0 .. Len(windows)
      BY <1>t, <2>n DEF TypeOK
    <2>4. CASE t \in Segments(window)
      <3>1. s \in Linked \/ s \in Segments(window)
        <4>1. s \in Segments(buf') \cup Segments(utts') \cup Pending => t < s
          BY <2>1, <2>4, <2>n DEF Before
        <4> QED BY <2>3, <2>n, <4>1
      <3>2. CASE s \in Segments(window)
        BY <2>2, <2>4, <2>l, <3>2
      <3>3. CASE s \in Linked /\ s \notin Segments(window)
        <4>1. linked'[s] = linked[s] /\ linked[s] # 0
          BY <2>2, <2>n, <3>3 DEF Linked
        <4> QED BY <2>2, <2>4, <2>l, <4>1
      <3> QED BY <3>1, <3>2, <3>3
    <2>5. CASE t \notin Segments(window)
      <3>1. linked'[t] = linked[t] /\ t \in Linked
        BY <2>2, <2>5, <2>n DEF Linked
      <3>2. linked[s] # 0 /\ linked[s] <= linked[t]
        BY <3>1 DEF WindowsInOrder, Linked
      <3>3. s \notin Segments(window)
        <4>1. s \in Segments(window) => t < s
          BY <2>1, <2>n, <3>1 DEF Before
        <4> QED BY <2>n, <4>1
      <3>4. linked'[s] = linked[s]
        BY <2>2, <2>n, <3>3
      <3> QED BY <3>1, <3>2, <3>4
    <2> QED BY <2>4, <2>5
  <1>4. CASE TakeUtterance /\ linked' = linked
    <2>1. stored' = stored
      BY <1>4, TakeFacts DEF NoWindow, OpenWindow, rows
    <2> QED BY <1>1, <1>4, <2>1
  <1>5. CASE \/ IngestSegment \/ IngestEnds \/ IngestRaises \/ AsrRaises \/ WindowerRaises
             \/ JobRaises \/ Cancel \/ Kill \/ CloseSession \/ UNCHANGED vars
    BY <1>1, <1>5
       DEF IngestSegment, IngestEnds, IngestRaises, AsrRaises, WindowerRaises,
           JobRaises, Cancel, Kill, CloseSession, rows, vars
  <1>6. CASE GetSegment \/ Transcribed \/ PutUtterance \/ PassEnd \/ JobStep
    BY <1>1, <1>6
       DEF GetSegment, Transcribed, PutUtterance, PassEnd, JobStep, Asked, EventsWritten, rows
  <1>7. CASE Triaged \/ Extracted \/ Rolled
    BY <1>1, <1>7 DEF Triaged, Extracted, Rolled, rows
  <1> QED
    BY <1>2, <1>3, <1>4, <1>5, <1>6, <1>7 DEF Next, AsrStep, WindowerStep, Raises

-------------------------------------------------------------------------------
(* How the gather ends, and the end of the stream                          *)

LEMMA TaskTypes ==
    ASSUME TypeOK
    PROVE  /\ ingest \in {"reading", "done", "failed", "stopped"}
           /\ asr.step \in {"get", "transcribe", "identify", "put", "eos",
                             "done", "failed", "stopped"}
           /\ windower.step \in {"get", "triage", "extract", "roll",
                                  "done", "failed", "stopped"}
           /\ windower.stopping \in BOOLEAN
  BY DEF TypeOK, AsrStates, WindowerStates, Ended

\* What one step does to the gather and to tasks that have not failed.
QuietStep ==
    /\ UNCHANGED <<main, closed>>
    /\ ingest' = ingest \/ ingest' = "done"
    /\ asr'.step = asr.step \/ asr'.step \notin {"failed", "stopped"}
    /\ windower'.step = windower.step \/ windower'.step \notin {"failed", "stopped"}
FailingStep == Raise /\ Failed'
StoppingStep == main' \in {"cancelled", "killed"} /\ (main = "gather" => ~Running')
ClosingStep ==
    /\ UNCHANGED <<ingest, asr, windower>>
    /\ main' # "gather" /\ (main = "gather" => AllDone)

LEMMA KindsOfSteps ==
    ASSUME TypeOK, [Next]_vars
    PROVE  QuietStep \/ FailingStep \/ StoppingStep \/ ClosingStep
  <1>1. CASE IngestSegment \/ IngestEnds
    BY <1>1 DEF IngestSegment, IngestEnds, QuietStep, end
  <1>2. CASE IngestRaises
    BY <1>2 DEF IngestRaises, FailingStep, Failed
  <1>3. CASE GetSegment \/ Transcribed \/ StoreSegment \/ PutUtterance \/ PassEnd
    <2>1. asr'.step \notin {"failed", "stopped"}
      <3>1. CASE GetSegment
        BY <3>1 DEF GetSegment
      <3>2. CASE Transcribed \/ StoreSegment \/ PutUtterance \/ PassEnd
        BY <3>2, AsrType DEF Transcribed, StoreSegment, PutUtterance, PassEnd, TypeOK, Ended
      <3> QED BY <1>3, <3>1, <3>2
    <2> QED BY <1>3, <2>1
            DEF GetSegment, Transcribed, StoreSegment, PutUtterance, PassEnd, QuietStep, end
  <1>4. CASE AsrRaises
    <2>1. asr'.step = "failed"
      BY <1>4, AsrType DEF AsrRaises, TypeOK, Ended
    <2> QED BY <1>4, <2>1 DEF AsrRaises, FailingStep, Failed
  <1>12. CASE RowStranded
    <2>1. asr'.step = "failed"
      BY <1>12, AsrType DEF RowStranded, TypeOK, Ended
    <2> QED BY <1>12, <2>1 DEF RowStranded, FailingStep, Failed
  <1>5. CASE TakeUtterance
    <2>1. PICK window \in Seq(Segs), stopping \in BOOLEAN :
              \/ NoWindow(stopping)
              \/ OpenWindow(window, stopping)
              \/ WindowerGoes("failed", stopping) /\ Raise
      BY TakeFacts, <1>5
    <2>2. ingest' = ingest /\ asr' = asr
      BY <1>5 DEF TakeUtterance
    <2>3. CASE WindowerGoes("failed", stopping) /\ Raise
      <3>1. windower'.step = "failed"
        BY <2>3, WindowerType DEF Ended
      <3> QED BY <2>3, <3>1 DEF FailingStep, Failed
    <2>4. CASE NoWindow(stopping)
      <3>1. windower'.step \in {"get", "done"} /\ UNCHANGED <<main, closed>>
        BY <2>4, WindowerType DEF NoWindow, Ended, end
      <3> QED BY <2>2, <3>1 DEF QuietStep
    <2>5. CASE WindowerGoes("triage", stopping) /\ UNCHANGED end
      <3>1. windower'.step = "triage" /\ UNCHANGED <<main, closed>>
        BY <2>5, WindowerType DEF end
      <3> QED BY <2>2, <3>1 DEF QuietStep
    <2> QED BY <2>1, <2>3, <2>4, <2>5 DEF OpenWindow
  <1>6. CASE Triaged \/ Rolled \/ (Extracted /\ job = "ok")
    <2>1. windower'.step \in {"get", "done", "extract", "roll"}
      BY <1>6, TaskTypes, WindowerType DEF Triaged, Rolled, Extracted, AfterWindow, Ended
    <2> QED BY <1>6, <2>1 DEF Triaged, Rolled, Extracted, QuietStep, end
  <1>7. CASE WindowerRaises \/ (Extracted /\ job = "raised")
    <2>1. windower'.step = "failed" /\ Raise
      BY <1>7, TaskTypes, WindowerType DEF WindowerRaises, Extracted, Ended
    <2> QED BY <2>1 DEF FailingStep, Failed
  <1>8. CASE JobStep \/ JobRaises \/ UNCHANGED vars
    BY <1>8 DEF JobStep, Asked, EventsWritten, JobRaises, QuietStep, vars, end
  <1>9. CASE Cancel \/ Kill
    <2>1. main = "gather" => StopTasks
      BY <1>9 DEF Cancel, Kill
    <2>2. StopTasks => ~Running'
      <3>1. StopTasks => /\ ingest' \in {ingest, "stopped"} /\ (ingest = "reading" => ingest' = "stopped")
                         /\ asr'.step \in Ended /\ windower'.step \in Ended
        BY StopType DEF StopTasks, Ended
      <3> QED BY <3>1, TaskTypes DEF Running
    <2> QED BY <1>9, <2>1, <2>2 DEF Cancel, Kill, StoppingStep
  <1>10. CASE CloseSession
    BY <1>10 DEF CloseSession, ClosingStep
  <1>11. CASE Extracted
    BY <1>6, <1>7, <1>11 DEF Extracted
  <1> QED
    BY <1>1, <1>2, <1>3, <1>4, <1>5, <1>6, <1>7, <1>8, <1>9, <1>10, <1>11, <1>12
       DEF Next, AsrStep, WindowerStep, Raises

LEMMA GatherStep ==
    ASSUME TypeOK, GatherOK, [Next]_vars
    PROVE  GatherOK'
  <1>e. /\ ingest \in Ended => ingest' = ingest
        /\ asr.step \in Ended => asr'.step = asr.step
        /\ windower.step \in Ended => windower'.step = windower.step
    BY EndedStays
  <1>f. "failed" \in Ended /\ (ingest \in Ended <=> ingest # "reading")
    BY TaskTypes DEF Ended
  <1>1. /\ ~Running => ~Running'
        /\ Failed => Failed'
    <2>1. ~Running => ~Running'
      BY <1>e, <1>f DEF Running
    <2>2. Failed => Failed'
      BY <1>e, <1>f DEF Failed
    <2> QED BY <2>1, <2>2
  <1>2. CASE QuietStep
    BY <1>1, <1>2 DEF QuietStep, GatherOK
  <1>3. CASE FailingStep
    BY <1>3 DEF FailingStep, Raise, GatherOK
  <1>4. CASE StoppingStep
    BY <1>1, <1>4 DEF StoppingStep, GatherOK
  <1>5. CASE ClosingStep
    <2>1. AllDone => ~Running
      BY DEF AllDone, Running, Ended
    <2> QED BY <1>1, <1>5, <2>1 DEF ClosingStep, GatherOK
  <1> QED BY <1>2, <1>3, <1>4, <1>5, KindsOfSteps

LEMMA PassStep ==
    ASSUME TypeOK, HearingOK, PlacesOK, WindowsOK, EndOK, PassOK, [Next]_vars
    PROVE  PassOK'
  <1>t. /\ segQ \in Seq(Items) /\ utts \in Seq(Items)
        /\ asr \in AsrStates /\ windower.stopping \in BOOLEAN
    BY TaskTypes DEF TypeOK
  <1>1. CASE IngestSegment
    BY <1>1 DEF IngestSegment, PassOK, Alive
  <1>2. CASE IngestEnds
    <2>1. EOS \in Segments(segQ')
      BY <1>2, <1>t, SegFacts, AppendQueue DEF IngestEnds
    <2> QED BY <1>2, <2>1 DEF IngestEnds, PassOK, Alive
  <1>3. CASE GetSegment
    <2>1. Segments(segQ) = {Head(segQ)} \cup Segments(segQ')
      BY <1>3, <1>t, TakeQueue DEF GetSegment
    <2>2. asr'.step = "eos" \/ (asr'.step = "transcribe" /\ Head(segQ) # EOS)
      BY <1>3 DEF GetSegment
    <2>3. /\ asr.step = "get" /\ ingest' = ingest
          /\ UNCHANGED <<utts, windower, job>>
      BY <1>3 DEF GetSegment
    <2> QED BY <2>1, <2>2, <2>3 DEF PassOK, Holding, Alive
  <1>4. CASE Transcribed \/ StoreSegment \/ PutUtterance
    <2>1. asr'.step \in {"get", "identify", "put"} /\ asr.step \in Holding
      BY <1>4, <1>t, AsrType DEF Transcribed, StoreSegment, PutUtterance, Holding
    <2> QED BY <1>4, <2>1
            DEF Transcribed, StoreSegment, PutUtterance, PassOK, Alive, queues, Holding
  <1>5. CASE PassEnd
    <2>1. EOS \in Segments(utts')
      BY <1>5, <1>t, SegFacts, AppendQueue DEF PassEnd
    <2>2. asr'.step = "done"
      BY <1>5, <1>t, AsrType DEF PassEnd, Ended
    <2> QED BY <1>5, <2>1, <2>2 DEF PassEnd, PassOK, Holding, Alive
  <1>6. CASE TakeUtterance
    <2>1. PICK window \in Seq(Segs), stopping \in BOOLEAN :
              /\ stopping <=> Head(utts) = EOS
              /\ \/ NoWindow(stopping)
                 \/ OpenWindow(window, stopping)
                 \/ WindowerGoes("failed", stopping)
      BY TakeFacts, <1>6
    <2>2. /\ windower'.stopping = stopping /\ windower'.step # "extract"
          /\ windower'.step = "get" => ~stopping
      BY <2>1, WindowerType DEF NoWindow, OpenWindow, Ended
    <2>3. /\ UNCHANGED <<ingest, segQ, asr>> /\ utts' = Tail(utts)
          /\ windower.step = "get" /\ utts # <<>>
      BY <1>6 DEF TakeUtterance
    <2>4. Segments(utts) = {Head(utts)} \cup Segments(utts')
      BY <1>t, <2>3, TakeQueue
    <2>5. Alive /\ ~windower.stopping
      BY <2>3 DEF PassOK, Alive
    <2> QED BY <2>1, <2>2, <2>3, <2>4, <2>5 DEF PassOK
  <1>7. CASE Triaged \/ Extracted \/ Rolled \/ WindowerRaises
    <2>1. /\ windower'.stopping = windower.stopping
          /\ windower'.step = "get" => ~windower.stopping
          /\ windower'.step = "extract" => job' # "none"
      BY <1>7, <1>t, WindowerType
         DEF Triaged, Extracted, Rolled, WindowerRaises, AfterWindow, Ended
    <2>2. UNCHANGED <<ingest, queues, asr>> /\ Alive
      BY <1>7 DEF Triaged, Extracted, Rolled, WindowerRaises, Alive
    <2> QED BY <2>1, <2>2 DEF PassOK, queues
  <1>8. CASE JobStep \/ JobRaises \/ CloseSession \/ UNCHANGED vars
    BY <1>8 DEF JobStep, Asked, EventsWritten, JobRaises, CloseSession, PassOK, Alive, queues, vars
  <1>9. CASE IngestRaises \/ AsrRaises \/ RowStranded
    <2>1. ingest' # "done" \/ (asr'.step = "failed" /\ ingest' = ingest)
      BY <1>9, <1>t, AsrType DEF IngestRaises, AsrRaises, RowStranded, Ended
    <2>2. UNCHANGED <<queues, windower, job>> /\ (asr' = asr \/ asr'.step = "failed")
      BY <1>9, <1>t, AsrType DEF IngestRaises, AsrRaises, RowStranded, Ended
    <2> QED BY <2>1, <2>2 DEF PassOK, Holding, Alive, queues
  <1>10. CASE Cancel \/ Kill
    <2>1. UNCHANGED queues /\ (StopTasks \/ UNCHANGED <<ingest, asr, windower, job>>)
      BY <1>10 DEF Cancel, Kill
    <2>2. CASE UNCHANGED <<ingest, asr, windower, job>>
      BY <2>1, <2>2 DEF PassOK, Alive, queues
    <2>3. CASE StopTasks
      <3>1. /\ ingest' \in {ingest, "stopped"}
            /\ asr'.step \in {asr.step, "stopped"} \cap Ended
            /\ windower'.step \in {windower.step, "stopped"} \cap Ended
            /\ windower'.stopping = windower.stopping
        BY <2>3, StopType
      <3>2. asr'.step \notin {"get"} \cup Holding /\ windower'.step \notin {"get", "extract"}
        BY <3>1 DEF Holding, Ended
      <3>3. asr'.step = "done" => asr.step = "done"
        BY <3>1
      <3>4. Alive' => Alive
        BY <3>1 DEF Alive, Ended
      <3> QED BY <2>1, <3>1, <3>2, <3>3, <3>4 DEF PassOK, queues
    <2> QED BY <2>1, <2>2, <2>3
  <1> QED
    BY <1>1, <1>2, <1>3, <1>4, <1>5, <1>6, <1>7, <1>8, <1>9, <1>10
       DEF Next, AsrStep, WindowerStep, Raises

-------------------------------------------------------------------------------
(* The invariant, and what follows                                         *)

LEMMA InitInv == Init => IInv
  <1> SUFFICES ASSUME Init PROVE IInv
    OBVIOUS
  <1>1. TypeOK
    BY TypeInit
  <1>2. HearingOK /\ AsrOK
    BY EmptyQueue DEF Init, HearingOK, AsrOK, Before, Holding
  <1>3. PlacesOK
    BY EmptyQueue DEF Init, PlacesOK, Before, Pending, Linked
  <1>4. WindowsOK
    <2>1. 1 .. Len(windows) - 1 = {}
      BY DEF Init
    <2> QED BY <2>1 DEF Init, WindowsOK
  <1>5. EndOK /\ WindowsInOrder
    BY DEF Init, EndOK, WindowsInOrder
  <1>6. GatherOK /\ PassOK
    BY DEF Init, GatherOK, PassOK
  <1> QED BY <1>1, <1>2, <1>3, <1>4, <1>5, <1>6 DEF IInv

LEMMA NextInv ==
    ASSUME IInv, [Next]_vars
    PROVE  IInv'
  <1> USE DEF IInv
  <1>1. TypeOK'
    <2>1. CASE UNCHANGED vars
      BY <2>1 DEF TypeOK, vars, queues, rows, end
    <2> QED BY <2>1, TypeStep
  <1> QED
    BY <1>1, HearingStep, AsrOKStep, PlacesStep, WindowsStep, EndStep, OrderStep,
       GatherStep, PassStep

LEMMA Invariant == Spec => []IInv
  BY InitInv, NextInv, PTL DEF Spec

\* Every variable keeps its type: in particular neither queue ever holds more
\* than its maxsize.
THEOREM TypeCorrect == Spec => []TypeOK
  <1>1. IInv => TypeOK
    BY DEF IInv
  <1> QED BY <1>1, Invariant, PTL

\* For a stream of any length and queues of any size, windows are runs of the
\* transcript in its order, whatever raises, is cancelled or is killed.
THEOREM TranscriptOrder == Spec => []WindowsInOrder
  <1>1. IInv => WindowsInOrder
    BY DEF IInv
  <1> QED BY <1>1, Invariant, PTL

\* A window_task that returns, as it does before a gather ends by itself, leaves
\* nothing in a queue or the builder, no row outside the windows, no window
\* unsettled and no "done" window without events, and so it stays.
THEOREM NothingLost == Spec => []EndedIsComplete
  <1>1. IInv => EndedIsComplete
    <2> SUFFICES ASSUME IInv, main = "over" \/ windower.step = "done" PROVE EndedIsComplete
      BY DEF EndedIsComplete
    <2>0. windower.step = "done"
      BY DEF IInv, EndOK, AllDone
    <2>1. asr.step = "done" /\ segQ = <<>> /\ utts = <<>> /\ buf = <<>>
      BY <2>0 DEF IInv, EndOK, HearingOK
    <2>2. Alive /\ Pending = {} /\ stored \subseteq Linked
      BY <2>0, <2>1, EmptyQueue DEF IInv, PlacesOK, Alive, Pending
    <2>3. Len(windows) \in Nat /\ (windows = <<>> => Len(windows) = 0)
      BY DEF IInv, TypeOK
    <2>4. \A w \in 1 .. Len(windows) : Complete(w)
      <3>1. \A w \in 1 .. Len(windows) : w = Len(windows) \/ w \in 1 .. Len(windows) - 1
        BY <2>3
      <3>2. windows # <<>> => Complete(Len(windows))
        BY <2>0 DEF IInv, WindowsOK
      <3>3. \A w \in 1 .. Len(windows) - 1 : Complete(w)
        BY <2>2 DEF IInv, WindowsOK
      <3> QED BY <2>3, <3>1, <3>2, <3>3
    <2> QED BY <2>1, <2>2, <2>4 DEF EndedIsComplete, Linked, Complete
  <1> QED BY <1>1, Invariant, PTL

-------------------------------------------------------------------------------
(* The gather's end                                                        *)

LEMMA RoomFacts ==
    ASSUME TypeOK
    PROVE  /\ segQ = <<>> => SegRoom /\ Segments(segQ) = {}
           /\ utts = <<>> => UttRoom /\ Segments(utts) = {}
  <1>1. Len(<<>>) = 0 /\ 0 < SegCap /\ 0 < UttCap
    BY PipelineAssumption DEF PipelineAssumption
  <1> QED BY <1>1, EmptyQueue DEF SegRoom, UttRoom

\* Bounded queues make the tasks wait for each other in a line, never in a
\* circle: a task that waits for room has one behind it that does not, and the end
\* of the stream reaches each of them.
THEOREM NoDeadlock == Spec => []NeverStuck
  <1>1. IInv => NeverStuck
    <2> SUFFICES ASSUME IInv, main = "gather", ~CanGo PROVE FALSE
      BY DEF NeverStuck
    <2> USE DEF IInv
    <2>1. ingest = "reading" \/ ingest = "done"
      BY DEF GatherOK
    <2>2. asr.step \in {"get", "put", "eos", "done"}
      BY TaskTypes DEF GatherOK, CanGo
    <2>3. windower.step \in {"get", "extract", "done"}
      BY TaskTypes DEF GatherOK, CanGo
    <2>4. windower.step # "extract"
      BY DEF CanGo, PassOK, TypeOK, JobStates
    <2>5. windower.step = "get" => utts = <<>> /\ UttRoom
      BY RoomFacts DEF CanGo
    <2>6. windower.step = "done" => asr.step = "done"
      BY DEF EndOK
    <2>7. CASE asr.step = "get"
      <3>1. segQ = <<>> /\ SegRoom /\ EOS \notin Segments(segQ)
        BY <2>7, RoomFacts DEF CanGo
      <3> QED BY <2>1, <2>7, <3>1 DEF CanGo, PassOK
    <2>8. CASE asr.step \in {"put", "eos"}
      BY <2>3, <2>4, <2>5, <2>6, <2>8 DEF CanGo
    <2>9. CASE asr.step = "done"
      <3>1. ingest = "done"
        BY <2>9 DEF HearingOK
      <3>2. CASE windower.step = "get"
        <4>1. utts = <<>> /\ EOS \notin Segments(utts)
          BY <2>5, <3>2, RoomFacts
        <4> QED BY <2>9, <3>2, <4>1 DEF PassOK, Alive
      <3>3. CASE windower.step = "done"
        BY <2>9, <3>1, <3>3 DEF CanGo, AllDone
      <3> QED BY <2>3, <2>4, <3>2, <3>3
    <2> QED BY <2>2, <2>7, <2>8, <2>9
  <1> QED BY <1>1, Invariant, PTL

\* After run_session has ended a task runs on only if a task has failed: the way
\* IngestUnderLease breaks is the only one.
THEOREM TasksEndWithTheSession == Spec => []LeftOnlyByFailure
  <1>1. IInv => LeftOnlyByFailure
    BY DEF IInv, GatherOK, LeftOnlyByFailure
  <1> QED BY <1>1, Invariant, PTL

-------------------------------------------------------------------------------
(* Every step counts                                                       *)

LEMMA Ranks ==
    /\ AsrLeft("get") = 0 /\ AsrLeft("transcribe") = 10 /\ AsrLeft("identify") = 9
    /\ AsrLeft("put") = 8 /\ AsrLeft("eos") = 8 /\ \A e \in Ended : AsrLeft(e) = 0
    /\ WindowerLeft("get") = 0 /\ WindowerLeft("triage") = 6 /\ WindowerLeft("extract") = 2
    /\ WindowerLeft("roll") = 1 /\ \A e \in Ended : WindowerLeft(e) = 0
    /\ JobLeft("none") = 0 /\ JobLeft("asking") = 3 /\ JobLeft("writing") = 2
    /\ JobLeft("ok") = 1 /\ JobLeft("raised") = 1
    /\ MainLeft("gather") = 3 /\ MainLeft("raised") = 2 /\ MainLeft("over") = 1
    /\ MainLeft("cancelled") = 1 /\ MainLeft("killed") = 0
  BY DEF AsrLeft, WindowerLeft, JobLeft, MainLeft, Ended

LEMMA LeftTypes ==
    ASSUME TypeOK
    PROVE  /\ IngestLeft \in Nat /\ (ingest = "reading" => IngestLeft >= 12)
           /\ Len(segQ) \in Nat /\ Len(utts) \in Nat
           /\ AsrLeft(asr.step) \in Nat /\ WindowerLeft(windower.step) \in Nat
           /\ JobLeft(job) \in Nat /\ MainLeft(main) \in Nat /\ ClosedLeft \in Nat
  <1>1. heard \in 0 .. MaxSegments /\ MaxSegments \in Nat
    BY PipelineAssumption DEF TypeOK, PipelineAssumption
  <1>2. /\ IngestLeft \in Nat /\ (ingest = "reading" => IngestLeft >= 12)
    BY <1>1 DEF IngestLeft
  <1>3. Len(segQ) \in Nat /\ Len(utts) \in Nat
    BY DEF TypeOK
  <1> QED BY <1>2, <1>3 DEF AsrLeft, WindowerLeft, JobLeft, MainLeft, ClosedLeft

LEMMA EveryStepFalls ==
    ASSUME TypeOK, WindowsOK, Next
    PROVE  Left' < Left
  <1> DEFINE I == IngestLeft
             S == Len(segQ)
             A == AsrLeft(asr.step)
             U == Len(utts)
             W == WindowerLeft(windower.step)
             J == JobLeft(job)
             M == MainLeft(main)
             C == ClosedLeft
  <1>t. /\ I \in Nat /\ (ingest = "reading" => I >= 12) /\ S \in Nat /\ U \in Nat
        /\ A \in Nat /\ W \in Nat /\ J \in Nat /\ M \in Nat /\ C \in Nat
    BY LeftTypes
  <1>l. Left = I + 11 * S + A + 7 * U + W + J + M + C
    BY DEF Left
  <1>m. Left' = I' + 11 * S' + A' + 7 * U' + W' + J' + M' + C'
    BY DEF Left
  <1>k. /\ UNCHANGED <<heard, ingest>> => I' = I
        /\ ingest' \in Ended => I' = 0
        /\ UNCHANGED segQ => S' = S
        /\ UNCHANGED asr => A' = A
        /\ asr'.step \in Ended => A' = 0
        /\ UNCHANGED utts => U' = U
        /\ UNCHANGED windower => W' = W
        /\ windower'.step \in Ended => W' = 0
        /\ UNCHANGED job => J' = J
        /\ UNCHANGED main => M' = M
        /\ UNCHANGED closed => C' = C
    BY Ranks DEF IngestLeft, ClosedLeft, Ended
  <1>r. Raise => (M' = M \/ (M' = 2 /\ M = 3)) /\ C' = C
    BY Ranks DEF Raise, ClosedLeft
  <1>s. StopTasks => (I' = I \/ I' = 0) /\ (A' = A \/ A' = 0) /\ (W' = W \/ W' = 0)
    <2> SUFFICES ASSUME StopTasks
                 PROVE  (I' = I \/ I' = 0) /\ (A' = A \/ A' = 0) /\ (W' = W \/ W' = 0)
      OBVIOUS
    <2>1. asr'.step \in Ended /\ windower'.step \in Ended
      BY StopType
    <2>2. ingest \in Ended \/ ingest' \in Ended
      BY DEF StopTasks, Ended
    <2>3. ingest \in Ended => ingest' \in Ended
      BY DEF StopTasks
    <2> QED BY <1>k, <2>1, <2>2, <2>3
  <1>q. /\ segQ \in Seq(Items) /\ utts \in Seq(Items)
        /\ asr \in AsrStates /\ windower.stopping \in BOOLEAN
    BY TaskTypes DEF TypeOK
  <1>1. CASE IngestSegment
    <2>1. S' = S + 1
      BY <1>1, <1>q, NumberFacts, AppendQueue DEF IngestSegment
    <2>2. I' = I - 12
      BY <1>1, PipelineAssumption DEF IngestSegment, IngestLeft, PipelineAssumption, TypeOK
    <2>3. A' = A /\ U' = U /\ W' = W /\ J' = J /\ M' = M /\ C' = C
      BY <1>1, <1>k DEF IngestSegment, end
    <2> HIDE DEF I, S, A, U, W, J, M, C
    <2> QED BY <1>t, <1>l, <1>m, <2>1, <2>2, <2>3
  <1>2. CASE IngestEnds
    <2>1. S' = S + 1 /\ I >= 12
      BY <1>2, <1>q, <1>t, SegFacts, AppendQueue DEF IngestEnds
    <2>2. I' = 0 /\ A' = A /\ U' = U /\ W' = W /\ J' = J /\ M' = M /\ C' = C
      BY <1>2, <1>k DEF IngestEnds, end, Ended
    <2> HIDE DEF I, S, A, U, W, J, M, C
    <2> QED BY <1>t, <1>l, <1>m, <2>1, <2>2
  <1>3. CASE IngestRaises
    <2>1. I' = 0 /\ I >= 12 /\ (M' = M \/ (M' = 2 /\ M = 3)) /\ C' = C
      BY <1>3, <1>k, <1>r, <1>t DEF IngestRaises, Ended
    <2>2. S' = S /\ A' = A /\ U' = U /\ W' = W /\ J' = J
      BY <1>3, <1>k DEF IngestRaises, queues
    <2> HIDE DEF I, S, A, U, W, J, M, C
    <2> QED BY <1>t, <1>l, <1>m, <2>1, <2>2
  <1>4. CASE GetSegment
    <2>1. S' = S - 1
      BY <1>4, <1>q, TakeQueue DEF GetSegment
    <2>2. A = 0 /\ (A' = 8 \/ A' = 10)
      BY <1>4, Ranks DEF GetSegment
    <2>3. I' = I /\ U' = U /\ W' = W /\ J' = J /\ M' = M /\ C' = C
      BY <1>4, <1>k DEF GetSegment, end
    <2> HIDE DEF I, S, A, U, W, J, M, C
    <2> QED BY <1>t, <1>l, <1>m, <2>1, <2>2, <2>3
  <1>5. CASE Transcribed
    <2>1. A = 10 /\ (A' = 0 \/ A' = 9)
      BY <1>5, <1>q, Ranks, AsrType DEF Transcribed
    <2>2. I' = I /\ S' = S /\ U' = U /\ W' = W /\ J' = J /\ M' = M /\ C' = C
      BY <1>5, <1>k DEF Transcribed, queues, end
    <2> HIDE DEF I, S, A, U, W, J, M, C
    <2> QED BY <1>t, <1>l, <1>m, <2>1, <2>2
  <1>6. CASE StoreSegment
    <2>1. A = 9 /\ ((A' = 0 /\ U' = U + 1) \/ (A' = 8 /\ U' = U))
      <3>1. utts' = Append(utts, asr.seg) => U' = U + 1
        BY <1>q, NumberFacts, AppendQueue
      <3>2. AsrAt("get") => A' = 0
        BY <1>q, Ranks, AsrType
      <3>3. AsrAt("put") => A' = 8
        BY <1>q, Ranks, AsrType
      <3>4. A = 9
        BY <1>6, Ranks DEF StoreSegment
      <3>5. utts' = utts => U' = U
        OBVIOUS
      <3> HIDE DEF A, U
      <3> QED BY <1>6, <3>1, <3>2, <3>3, <3>4, <3>5 DEF StoreSegment
    <2>2. I' = I /\ S' = S /\ W' = W /\ J' = J /\ M' = M /\ C' = C
      BY <1>6, <1>k DEF StoreSegment, end
    <2> HIDE DEF I, S, A, U, W, J, M, C
    <2> QED BY <1>t, <1>l, <1>m, <2>1, <2>2
  <1>7. CASE PutUtterance \/ PassEnd
    <2>1. U' = U + 1
      BY <1>7, <1>q, NumberFacts, SegFacts, AppendQueue DEF PutUtterance, PassEnd
    <2>2. A = 8 /\ A' = 0
      BY <1>7, <1>q, Ranks, AsrType DEF PutUtterance, PassEnd, Ended
    <2>3. I' = I /\ S' = S /\ W' = W /\ J' = J /\ M' = M /\ C' = C
      BY <1>7, <1>k DEF PutUtterance, PassEnd, end
    <2> HIDE DEF I, S, A, U, W, J, M, C
    <2> QED BY <1>t, <1>l, <1>m, <2>1, <2>2, <2>3
  <1>8. CASE AsrRaises \/ RowStranded
    <2>1. (A = 9 \/ A = 10) /\ A' = 0 /\ (M' = M \/ (M' = 2 /\ M = 3)) /\ C' = C
      BY <1>8, <1>q, <1>k, <1>r, Ranks, AsrType DEF AsrRaises, RowStranded, Ended
    <2>2. I' = I /\ S' = S /\ U' = U /\ W' = W /\ J' = J
      BY <1>8, <1>k DEF AsrRaises, RowStranded, queues
    <2> HIDE DEF I, S, A, U, W, J, M, C
    <2> QED BY <1>t, <1>l, <1>m, <2>1, <2>2
  <1>9. CASE TakeUtterance
    <2>1. U' = U - 1
      BY <1>9, <1>q, TakeQueue DEF TakeUtterance
    <2>2. PICK window \in Seq(Segs), stopping \in BOOLEAN :
              \/ NoWindow(stopping)
              \/ OpenWindow(window, stopping)
              \/ WindowerGoes("failed", stopping) /\ Raise
      BY TakeFacts, <1>9
    <2>3. W' = 0 \/ W' = 6
      BY <2>2, WindowerType, Ranks DEF NoWindow, OpenWindow, Ended
    <2>4. (M' = M \/ (M' = 2 /\ M = 3)) /\ C' = C
      BY <1>k, <1>r, <1>t, <2>2 DEF NoWindow, OpenWindow, end
    <2>5. W = 0 /\ I' = I /\ S' = S /\ A' = A /\ J' = J
      BY <1>9, <1>k, Ranks DEF TakeUtterance
    <2> HIDE DEF I, S, A, U, W, J, M, C
    <2> QED BY <1>t, <1>l, <1>m, <2>1, <2>3, <2>4, <2>5
  <1>10. CASE Triaged
    <2>1. W = 6 /\ ((W' = 0 /\ J' = J) \/ (W' = 2 /\ J' = 3 /\ J = 0))
      <3>1. AfterWindow => W' = 0
        BY <1>q, WindowerType, Ranks DEF AfterWindow, Ended
      <3>2. WindowerGoes("extract", windower.stopping) => W' = 2
        BY <1>q, WindowerType, Ranks
      <3>3. W = 6 /\ J = 0
        BY <1>10, Ranks DEF Triaged, WindowsOK
      <3>4. job' = "asking" => J' = 3
        BY Ranks
      <3>5. job' = job => J' = J
        OBVIOUS
      <3> HIDE DEF W, J
      <3> QED BY <1>10, <3>1, <3>2, <3>3, <3>4, <3>5 DEF Triaged
    <2>2. I' = I /\ S' = S /\ A' = A /\ U' = U /\ M' = M /\ C' = C
      BY <1>10, <1>k DEF Triaged, queues, end
    <2> HIDE DEF I, S, A, U, W, J, M, C
    <2> QED BY <1>t, <1>l, <1>m, <2>1, <2>2
  <1>11. CASE Extracted
    <2>1. W = 2 /\ (W' = 0 \/ W' = 1) /\ J = 1 /\ J' = 0
      BY <1>11, <1>q, WindowerType, Ranks DEF Extracted, Ended
    <2>2. (M' = M \/ (M' = 2 /\ M = 3)) /\ C' = C
      BY <1>11, <1>k, <1>r, <1>t DEF Extracted, end
    <2>3. I' = I /\ S' = S /\ A' = A /\ U' = U
      BY <1>11, <1>k DEF Extracted, queues
    <2> HIDE DEF I, S, A, U, W, J, M, C
    <2> QED BY <1>t, <1>l, <1>m, <2>1, <2>2, <2>3
  <1>12. CASE Rolled
    <2>1. W = 1 /\ W' = 0
      BY <1>12, <1>q, WindowerType, Ranks DEF Rolled, AfterWindow, Ended
    <2>2. I' = I /\ S' = S /\ A' = A /\ U' = U /\ J' = J /\ M' = M /\ C' = C
      BY <1>12, <1>k DEF Rolled, queues, end
    <2> HIDE DEF I, S, A, U, W, J, M, C
    <2> QED BY <1>t, <1>l, <1>m, <2>1, <2>2
  <1>13. CASE WindowerRaises
    <2>1. (W = 1 \/ W = 6) /\ W' = 0 /\ (M' = M \/ (M' = 2 /\ M = 3)) /\ C' = C
      BY <1>13, <1>q, <1>k, <1>r, WindowerType, Ranks DEF WindowerRaises, Ended
    <2>2. I' = I /\ S' = S /\ A' = A /\ U' = U /\ J' = J
      BY <1>13, <1>k DEF WindowerRaises, queues
    <2> HIDE DEF I, S, A, U, W, J, M, C
    <2> QED BY <1>t, <1>l, <1>m, <2>1, <2>2
  <1>14. CASE JobStep \/ JobRaises
    <2>1. (J = 2 \/ J = 3) /\ (J' = 1 \/ (J' = 2 /\ J = 3))
      <3>1. CASE Asked
        BY <3>1, Ranks DEF Asked
      <3>2. CASE EventsWritten
        BY <3>2, Ranks DEF EventsWritten
      <3>3. CASE JobRaises
        <4>1. job = "asking" \/ job = "writing"
          BY <3>3 DEF JobRaises
        <4> QED BY <3>3, <4>1, Ranks DEF JobRaises
      <3> QED BY <1>14, <3>1, <3>2, <3>3 DEF JobStep
    <2>2. I' = I /\ S' = S /\ A' = A /\ U' = U /\ W' = W /\ M' = M /\ C' = C
      BY <1>14, <1>k DEF JobStep, Asked, EventsWritten, JobRaises, queues, end
    <2> HIDE DEF I, S, A, U, W, J, M, C
    <2> QED BY <1>t, <1>l, <1>m, <2>1, <2>2
  <1>15. CASE Cancel
    <2>1. (M = 2 \/ M = 3) /\ M' = 1 /\ C' = C
      BY <1>15, <1>k, Ranks DEF Cancel
    <2>2. (I' = I \/ I' = 0) /\ (A' = A \/ A' = 0) /\ (W' = W \/ W' = 0)
      <3>1. UNCHANGED <<heard, ingest, asr, windower>> => (I' = I \/ I' = 0) /\ (A' = A \/ A' = 0) /\ (W' = W \/ W' = 0)
        BY <1>k, <1>t
      <3> QED BY <1>15, <1>s, <3>1 DEF Cancel
    <2>3. S' = S /\ U' = U /\ J' = J
      BY <1>15, <1>k DEF Cancel, queues
    <2> HIDE DEF I, S, A, U, W, J, M, C
    <2> QED BY <1>t, <1>l, <1>m, <2>1, <2>2, <2>3
  <1>16. CASE Kill
    <2>1. (M = 1 \/ M = 2 \/ M = 3) /\ M' = 0 /\ C' = C /\ J' = 0
      BY <1>16, <1>k, Ranks DEF Kill, TypeOK
    <2>2. (I' = I \/ I' = 0) /\ (A' = A \/ A' = 0) /\ (W' = W \/ W' = 0)
      BY <1>16, <1>s DEF Kill
    <2>3. S' = S /\ U' = U
      BY <1>16, <1>k DEF Kill, queues
    <2> HIDE DEF I, S, A, U, W, J, M, C
    <2> QED BY <1>t, <1>l, <1>m, <2>1, <2>2, <2>3
  <1>17. CASE CloseSession
    <2>1. C = 1 /\ C' = 0
      BY <1>17 DEF CloseSession, ClosedLeft
    <2>2. M' = M \/ (M' = 1 /\ M = 3)
      BY <1>17, Ranks DEF CloseSession
    <2>3. I' = I /\ S' = S /\ A' = A /\ U' = U /\ W' = W /\ J' = J
      BY <1>17, <1>k DEF CloseSession, queues
    <2> HIDE DEF I, S, A, U, W, J, M, C
    <2> QED BY <1>t, <1>l, <1>m, <2>1, <2>2, <2>3
  <1> QED
    BY <1>1, <1>2, <1>3, <1>4, <1>5, <1>6, <1>7, <1>8, <1>9, <1>10, <1>11, <1>12,
       <1>13, <1>14, <1>15, <1>16, <1>17
       DEF Next, AsrStep, WindowerStep, JobStep, Raises

\* A run takes only so many steps, however its queues fill, its thread asks again
\* and its tasks fail: with NoDeadlock, all that Drains owes to fairness is that
\* what can go on does.
THEOREM RunsEnd == Spec => EveryStepCounts /\ [](Left \in Nat)
  <1>1. IInv => Left \in Nat
    <2> SUFFICES ASSUME IInv PROVE Left \in Nat
      OBVIOUS
    <2>1. /\ IngestLeft \in Nat /\ Len(segQ) \in Nat /\ Len(utts) \in Nat
          /\ AsrLeft(asr.step) \in Nat /\ WindowerLeft(windower.step) \in Nat
          /\ JobLeft(job) \in Nat /\ MainLeft(main) \in Nat /\ ClosedLeft \in Nat
      BY LeftTypes DEF IInv
    <2> QED BY <2>1 DEF Left
  <1>2. IInv /\ [Next]_vars => [Left' < Left]_vars
    BY EveryStepFalls DEF IInv
  <1> QED BY <1>1, <1>2, Invariant, PTL DEF Spec, EveryStepCounts

-------------------------------------------------------------------------------
(* The pipeline implements the windowed transcript                         *)

LEMMA OpenRefines ==
    ASSUME IInv, TakeUtterance
    PROVE  Transcript!Next \/ UNCHANGED rows
  <1> USE DEF IInv
  <1>1. PICK window \in Seq(Segs), stopping \in BOOLEAN :
              /\ Increasing(window)
              /\ Segments(buf) \cup Segments(utts)
                    \subseteq Segments(window) \cup Segments(buf') \cup Segments(utts') \cup {EOS}
              /\ Segments(window) \cup Segments(buf') \subseteq stored
              /\ Before(Segments(window), Segments(buf'))
              /\ Before(Segments(window) \cup Segments(buf'), Segments(utts') \cup Pending)
              /\ Before(Linked, Segments(window))
              /\ \/ NoWindow(stopping)
                 \/ window # <<>> /\ OpenWindow(window, stopping)
                 \/ UNCHANGED rows
    BY TakePlaces DEF Before
  <1>2. CASE NoWindow(stopping) \/ UNCHANGED rows
    BY <1>2 DEF NoWindow
  <1>3. CASE window # <<>> /\ OpenWindow(window, stopping)
    <2>1. windower.step = "get"
      BY DEF TakeUtterance
    <2>2. Transcript!Settled
      BY <2>1 DEF WindowsOK, Complete, Transcript!Settled
    <2>3. windows' = Append(windows, "extracting") /\ UNCHANGED <<stored, facts>>
      BY <1>3 DEF OpenWindow
    <2>4. CASE linked' = linked
      BY <2>2, <2>3, <2>4 DEF Transcript!OpenEmpty, Transcript!Next
    <2>5. CASE linked' # linked
      <3> DEFINE last == Last(window)
      <3>1. last \in Segments(window) /\ \A s \in Segments(window) : s <= last
        BY <1>1, <1>3, LastIsLatest
      <3>2. stored \subseteq Segs /\ Segs \subseteq Nat /\ EOS \notin stored
        BY SegFacts DEF TypeOK
      <3>3. stored \subseteq Linked \cup Segments(window) \cup Segments(buf') \cup Segments(utts') \cup Pending
        BY <1>1, <2>1, <3>2 DEF PlacesOK, Alive
      <3>4. Transcript!Loose = stored \ Linked
        BY DEF Transcript!Loose, Linked
      <3>5. ASSUME NEW s \in Segs
            PROVE  s \in Segments(window) <=> s \in Transcript!Loose /\ s <= last
        <4>1. CASE s \in Segments(window)
          <5>1. s \in Linked => s < s
            BY <1>1, <3>2, <4>1 DEF Before
          <5>2. s \notin Linked /\ s \in stored
            BY <1>1, <3>2, <4>1, <5>1
          <5> QED BY <3>1, <3>4, <4>1, <5>2
        <4>2. CASE s \in Transcript!Loose /\ s <= last /\ s \notin Segments(window)
          <5>1. s \in Segments(buf') \cup Segments(utts') \cup Pending /\ s # EOS
            BY <3>2, <3>3, <3>4, <4>2
          <5>2. last < s
            BY <1>1, <3>1, <5>1 DEF Before
          <5>3. last \in Nat /\ s \in Nat
            BY <1>1, <3>1, <3>2
          <5> QED BY <4>2, <5>2, <5>3
        <4> QED BY <4>1, <4>2
      <3>6. linked' = [s \in Segs |-> IF s \in Segments(window) THEN WindowId + 1 ELSE linked[s]]
        BY <1>3, <2>5 DEF OpenWindow
      <3>7. linked' = [s \in Segs |-> IF s \in Transcript!Loose /\ s <= last
                                       THEN Len(windows) + 1 ELSE linked[s]]
        BY <3>5, <3>6 DEF WindowId
      <3>8. last \in Segs /\ last \in Transcript!Loose
        <4>1. last \in Segs
          BY <1>1, <3>1, <3>2
        <4> QED BY <3>1, <3>5, <4>1
      <3>9. Transcript!Open(last)
        BY <2>2, <2>3, <3>7, <3>8 DEF Transcript!Open
      <3> QED BY <3>8, <3>9 DEF Transcript!Next
    <2> QED BY <2>4, <2>5
  <1> QED BY <1>1, <1>2, <1>3

LEMMA StepRefines ==
    ASSUME IInv, [Next]_vars
    PROVE  [Transcript!Next]_(Transcript!vars)
  <1> SUFFICES Transcript!Next \/ UNCHANGED rows
    BY DEF Transcript!vars, rows
  <1>1. CASE StoreSegment
    <2>1. asr.seg \in Segs /\ Before(stored, {asr.seg}) /\ asr.seg # EOS
      BY <1>1, SegFacts DEF IInv, StoreSegment, AsrOK, Holding
    <2>2. Transcript!Store(asr.seg)
      BY <1>1, <2>1 DEF StoreSegment, Transcript!Store, Before
    <2> QED BY <2>1, <2>2 DEF Transcript!Next
  <1>9. CASE RowStranded
    <2>1. asr.seg \in Segs /\ Before(stored, {asr.seg}) /\ asr.seg # EOS
      BY <1>9, SegFacts DEF IInv, RowStranded, AsrOK, Holding
    <2>2. Transcript!Store(asr.seg)
      BY <1>9, <2>1 DEF RowStranded, Transcript!Store, Before
    <2> QED BY <2>1, <2>2 DEF Transcript!Next
  <1>2. CASE TakeUtterance
    BY <1>2, OpenRefines
  <1>3. ASSUME NEW v \in {"done", "failed", "skipped-idle"}, Verdict(v),
               windower.step = "triage" \/ job = "asking", UNCHANGED <<stored, linked, facts>>
        PROVE  Transcript!Next
    <2>1. windows # <<>> /\ windows[Len(windows)] = "extracting"
      BY <1>3 DEF IInv, WindowsOK, Last
    <2>2. Transcript!Settle(v)
      BY <1>3, <2>1 DEF Transcript!Settle, Transcript!Settled, Verdict, WindowId
    <2> QED BY <2>2 DEF Transcript!Next
  <1>4. CASE Triaged
    BY <1>3, <1>4 DEF Triaged, rows
  <1>5. CASE Asked
    BY <1>3, <1>5 DEF Asked
  <1>6. CASE EventsWritten
    <2>1. Transcript!WriteEvents
      BY <1>6 DEF IInv, WindowsOK, Last, EventsWritten, WindowId, Transcript!WriteEvents
    <2> QED BY <2>1 DEF Transcript!Next
  <1>7. CASE \/ IngestSegment \/ IngestEnds \/ IngestRaises \/ AsrRaises \/ WindowerRaises
             \/ JobRaises \/ Cancel \/ Kill \/ CloseSession \/ UNCHANGED vars
    BY <1>7
       DEF IngestSegment, IngestEnds, IngestRaises, AsrRaises, WindowerRaises,
           JobRaises, Cancel, Kill, CloseSession, vars
  <1>8. CASE GetSegment \/ Transcribed \/ PutUtterance \/ PassEnd \/ Extracted \/ Rolled
    BY <1>8 DEF GetSegment, Transcribed, PutUtterance, PassEnd, Extracted, Rolled
  <1> QED
    BY <1>1, <1>2, <1>4, <1>5, <1>6, <1>7, <1>8, <1>9
       DEF Next, AsrStep, WindowerStep, JobStep, Raises

\* Through failures, cancellations and kills the rows of a session change only as
\* WindowedTranscript says.
THEOREM ImplementsTranscript == Spec => RefinesTranscript
  <1>1. Init => Transcript!Init
    BY DEF Init, Transcript!Init
  <1>2. IInv /\ [Next]_vars => [Transcript!Next]_(Transcript!vars)
    BY StepRefines
  <1> QED BY <1>1, <1>2, Invariant, PTL DEF Spec, RefinesTranscript, Transcript!Spec
===============================================================================
