----------------------------- MODULE IngestProofs -----------------------------
(***************************************************************************)
(* What Ingest promises of processes, gaps and rows, for any stream.       *)
(*                                                                         *)
(* GapsAddUp needs to know where the next gap will begin: not before the   *)
(* end of the last one, as long as each process starts its own.            *)
(* GapsDrained needs to know of every gap without a row that the drain     *)
(* still finds it, and that the generator reads on only while the task     *)
(* runs that drains.                                                       *)
(***************************************************************************)
EXTENDS Ingest, TLAPS

\* Without a process: from the end of _stop_process to the next start.
ProcOK == step \in {"spawn", "sleep", "stopped", "over"} => proc = "none"

\* Gaps follow one another, and none ends later than the audio heard.
InOrder ==
    /\ \A g, h \in GapIds : g < h => gaps[g].to <= gaps[h].from
    /\ \A g \in GapIds : gaps[g].from <= gaps[g].to /\ gaps[g].to <= heard

\* A process that has begun emits gaps from its start on.
OrderOK ==
    /\ InOrder
    /\ step \in {"read", "yield", "wait"} => \A g \in GapIds : gaps[g].to <= gapStart
    /\ step = "read" /\ first => gapStart = heard
    /\ step = "yield" => ~first

\* A gap has one row, or none and is known as unwritten.
RowsOK ==
    \A g \in GapIds :
        /\ gapRows[g] \in {0, 1}
        /\ [gap |-> g, written |-> FALSE] \in pending => gapRows[g] = 0
        /\ task = "running" /\ gapRows[g] = 0 => [gap |-> g, written |-> FALSE] \in pending

\* Chunks in the pipe are of the stream.
AudioLeft == waiting # "no" => heard < MaxChunks

\* Nothing reads on once the task is over.
TaskOK ==
    /\ step = "over" => next # "retry"
    /\ step = "abandoned" => task # "running"
    /\ task # "running" =>
          /\ step \in {"stop", "term", "kill", "stopped", "over", "abandoned"}
          /\ next # "retry"
    /\ step = "read" /\ ~first => pending = {}

IInv == TypeOK /\ ProcOK /\ AudioLeft /\ OrderOK /\ RowsOK /\ TaskOK

LEMMA InitInv == ASSUME IngestConstants, Init PROVE IInv
  BY DEF IngestConstants, Init, IInv, TypeOK, ProcOK, AudioLeft, OrderOK, InOrder,
         RowsOK, TaskOK, GapIds, Processes, Steps, Outcomes

ClockTypes ==
    /\ live \in BOOLEAN /\ first \in BOOLEAN
    /\ waiting \in {"no", "fresh", "held"}
    /\ proc \in Processes /\ step \in Steps /\ next \in Outcomes
    /\ heard \in 0 .. MaxChunks
    /\ gapStart \in 0 .. heard
    /\ silent \in 0 .. Timeout
    /\ backoff \in 1 .. MaxBackoff /\ sleep \in 0 .. MaxBackoff
    /\ task \in {"running", "done", "failed", "stopped"}

GapTypes ==
    /\ gaps \in Seq([from : 0 .. heard, to : 0 .. heard])
    /\ pending \in SUBSET [gap : GapIds, written : BOOLEAN]
    /\ gapRows \in [GapIds -> Nat]

LEMMA Elements == ASSUME NEW S, NEW s \in Seq(S) PROVE \A i \in 1 .. Len(s) : s[i] \in S
  OBVIOUS

LEMMA TypesSplit == TypeOK <=> ClockTypes /\ GapTypes
  BY DEF TypeOK, ClockTypes, GapTypes

LEMMA Widened == ASSUME NEW S, NEW T, S \subseteq T, NEW s \in Seq(S) PROVE s \in Seq(T)
  OBVIOUS

-------------------------------------------------------------------------------
(* A gap is emitted: at the end, without a row or with one.                  *)

LEMMA Emitted ==
    ASSUME IngestConstants, IInv, NEW from \in 0 .. heard, NEW to \in from .. heard,
           EmitGap(from, to)
    PROVE  /\ Len(gaps') = Len(gaps) + 1
           /\ gaps' \in Seq([from : 0 .. heard, to : 0 .. heard])
           /\ \A g \in GapIds : gaps'[g] = gaps[g] /\ gapRows'[g] = gapRows[g]
           /\ gaps'[Len(gaps) + 1] = [from |-> from, to |-> to]
           /\ gapRows' \in [GapIds' -> Nat]
           /\ gapRows'[Len(gaps) + 1] \in {0, 1}
           /\ pending' = pending \cup {[gap |-> Len(gaps) + 1,
                                        written |-> gapRows'[Len(gaps) + 1] = 1]}
  <1> USE DEF IngestConstants, IInv, TypeOK, GapIds
  <1>1. PICK ok \in BOOLEAN :
          /\ pending' = pending \cup {[gap |-> Len(gaps) + 1, written |-> ok]}
          /\ gapRows' = Append(gapRows, IF ok THEN 1 ELSE 0)
    BY DEF EmitGap
  <1>2. gaps' = Append(gaps, [from |-> from, to |-> to])
    BY DEF EmitGap
  <1>3. gapRows \in Seq(Nat) /\ Len(gapRows) = Len(gaps)
    BY SMTT(30)
  <1>4. /\ gapRows' \in [1 .. Len(gaps) + 1 -> Nat]
        /\ \A g \in GapIds : gapRows'[g] = gapRows[g]
        /\ gapRows'[Len(gaps) + 1] = IF ok THEN 1 ELSE 0
    <2> DEFINE x == IF ok THEN 1 ELSE 0
    <2>1. x \in Nat
      OBVIOUS
    <2>2. gapRows' = Append(gapRows, x)
      BY <1>1
    <2> HIDE DEF x
    <2>3. gapRows' \in Seq(Nat) /\ Len(gapRows') = Len(gaps) + 1
      BY <1>3, <2>1, <2>2
    <2>4. /\ \A g \in 1 .. Len(gapRows) : gapRows'[g] = gapRows[g]
          /\ gapRows'[Len(gapRows) + 1] = x
      BY <1>3, <2>1, <2>2
    <2> USE DEF x
    <2> QED BY <1>3, <2>3, <2>4
  <1>5. ok = (gapRows'[Len(gaps) + 1] = 1)
    BY <1>4
  <1> QED BY <1>1, <1>2, <1>4, <1>5


LEMMA EmittedInv ==
    ASSUME IngestConstants, IInv, NEW from \in 0 .. heard, EmitGap(from, heard),
           \A g \in GapIds : gaps[g].to <= from,
           task' = task, heard' \in heard .. MaxChunks
    PROVE  GapTypes' /\ RowsOK' /\ InOrder'
           /\ \A g \in GapIds' : gaps'[g].to <= heard
  <1>0. /\ heard \in Nat /\ heard' \in Nat /\ heard <= heard'
        /\ gaps \in Seq([from : 0 .. heard, to : 0 .. heard])
        /\ pending \in SUBSET [gap : GapIds, written : BOOLEAN]
    BY DEF IngestConstants, IInv, TypeOK
  <1>1. /\ Len(gaps') = Len(gaps) + 1
        /\ gaps' \in Seq([from : 0 .. heard, to : 0 .. heard])
        /\ \A g \in GapIds : gaps'[g] = gaps[g] /\ gapRows'[g] = gapRows[g]
        /\ gaps'[Len(gaps) + 1] = [from |-> from, to |-> heard]
        /\ gapRows' \in [GapIds' -> Nat]
        /\ gapRows'[Len(gaps) + 1] \in {0, 1}
        /\ pending' = pending \cup {[gap |-> Len(gaps) + 1,
                                     written |-> gapRows'[Len(gaps) + 1] = 1]}
    <2>1. heard \in from .. heard
      BY <1>0
    <2> QED BY <2>1, Emitted
  <1>2. GapIds' = GapIds \cup {Len(gaps) + 1} /\ Len(gaps) + 1 \notin GapIds
    BY <1>0, <1>1 DEF GapIds
  <1>3. gaps' \in Seq([from : 0 .. heard', to : 0 .. heard'])
    <2>1. [from : 0 .. heard, to : 0 .. heard] \subseteq [from : 0 .. heard', to : 0 .. heard']
      BY <1>0
    <2> QED BY <1>1, <2>1, Widened
  <1>4. pending' \in SUBSET [gap : GapIds', written : BOOLEAN]
    <2>1. \A b \in BOOLEAN : [gap |-> Len(gaps) + 1, written |-> b] \in
                                [gap : GapIds', written : BOOLEAN]
      BY <1>2
    <2>2. (gapRows'[Len(gaps) + 1] = 1) \in BOOLEAN
      OBVIOUS
    <2>3. pending \in SUBSET [gap : GapIds', written : BOOLEAN]
      BY <1>0, <1>2
    <2>4. pending' = pending \cup {[gap |-> Len(gaps) + 1,
                                    written |-> gapRows'[Len(gaps) + 1] = 1]}
      BY <1>1
    <2> QED BY <2>1, <2>2, <2>3, <2>4
  <1>5. RowsOK'
    <2> SUFFICES ASSUME NEW g \in GapIds'
                 PROVE  /\ gapRows'[g] \in {0, 1}
                        /\ [gap |-> g, written |-> FALSE] \in pending' => gapRows'[g] = 0
                        /\ task' = "running" /\ gapRows'[g] = 0 =>
                              [gap |-> g, written |-> FALSE] \in pending'
      BY DEF RowsOK
    <2>1. CASE g \in GapIds
      <3>1. [gap |-> g, written |-> FALSE] \in pending' <=>
               [gap |-> g, written |-> FALSE] \in pending
        BY <1>1, <1>2, <2>1
      <3> QED BY <1>1, <2>1, <3>1 DEF IInv, RowsOK
    <2>2. CASE g = Len(gaps) + 1
      <3>1. [gap |-> g, written |-> FALSE] \notin pending
        BY <1>0, <1>2, <2>2
      <3>2. (gapRows'[g] = 1) \in BOOLEAN
        OBVIOUS
      <3>3. [gap |-> g, written |-> FALSE] \in pending' <=> (gapRows'[g] = 1) = FALSE
        BY <1>1, <2>2, <3>1
      <3> QED BY <1>1, <2>2, <3>3
    <2> QED BY <1>2, <2>1, <2>2
  <1>6. \A g \in GapIds' : gaps'[g].from <= gaps'[g].to /\ gaps'[g].to <= heard
    BY <1>0, <1>1, <1>2, SMTT(30) DEF IInv, OrderOK, InOrder
  <1>7. \A g, h \in GapIds' : g < h => gaps'[g].to <= gaps'[h].from
    <2> SUFFICES ASSUME NEW g \in GapIds', NEW h \in GapIds', g < h
                 PROVE  gaps'[g].to <= gaps'[h].from
      OBVIOUS
    <2>1. g \in GapIds /\ (h \in GapIds \/ h = Len(gaps) + 1)
      BY <1>0, <1>2 DEF GapIds
    <2> QED BY <1>1, <2>1 DEF IInv, OrderOK, InOrder
  <1>8. \A g \in GapIds' : gaps'[g].to <= heard'
    <2>1. \A g \in GapIds' : gaps'[g] \in [from : 0 .. heard, to : 0 .. heard]
      BY <1>1, Elements DEF GapIds
    <2> QED BY <1>0, <1>6, <2>1
  <1> QED BY <1>1, <1>3, <1>4, <1>5, <1>6, <1>7, <1>8 DEF GapTypes, InOrder

\* Where no gap is emitted and no row written.
LEMMA GapsKept ==
    ASSUME IngestConstants, IInv, UNCHANGED gapVars, heard' \in heard .. MaxChunks,
           task' = "running" => task = "running"
    PROVE  GapTypes' /\ RowsOK' /\ InOrder'
           /\ GapIds' = GapIds /\ \A g \in GapIds' : gaps'[g].to <= heard
  <1>1. /\ heard \in Nat /\ heard' \in Nat /\ heard <= heard'
        /\ gaps \in Seq([from : 0 .. heard, to : 0 .. heard])
        /\ GapTypes /\ InOrder /\ RowsOK
    BY DEF IngestConstants, IInv, TypeOK, GapTypes, OrderOK
  <1>2. GapIds' = GapIds /\ gaps' = gaps /\ gapRows' = gapRows /\ pending' = pending
    BY DEF gapVars, GapIds
  <1>3. gaps' \in Seq([from : 0 .. heard', to : 0 .. heard'])
    <2>1. [from : 0 .. heard, to : 0 .. heard] \subseteq [from : 0 .. heard', to : 0 .. heard']
      BY <1>1
    <2> QED BY <1>1, <1>2, <2>1, Widened
  <1>4. \A g \in GapIds : gaps[g].to \in Nat
    <2>1. \A g \in GapIds : gaps[g] \in [from : 0 .. heard, to : 0 .. heard]
      BY <1>1, Elements DEF GapIds
    <2> QED BY <1>1, <2>1
  <1> QED BY <1>1, <1>2, <1>3, <1>4 DEF GapTypes, InOrder, RowsOK

-------------------------------------------------------------------------------
(* One step per operation                                                    *)

LEMMA Cancelled ==
    ASSUME ClockTypes, TaskOK, Cancel
    PROVE  \/ step' = "over" /\ step \in {"spawn", "sleep", "stopped", "over"}
           \/ step' = "stop"
           \/ step' = "abandoned"
  <1> USE DEF ClockTypes, Steps, Cancel, TaskOK
  <1>1. CASE step \in {"spawn", "sleep", "stopped", "over"}
    BY <1>1
  <1>2. CASE step \in {"read", "yield", "wait", "stop"}
    BY <1>2
  <1>3. CASE step \in {"term", "kill"}
    BY <1>3
  <1>4. CASE step = "abandoned"
    BY <1>4
  <1> QED BY <1>1, <1>2, <1>3, <1>4

LEMMA TypeStep ==
    ASSUME IngestConstants, TypeOK, AudioLeft, TaskOK, GapTypes', [Next]_ingestVars
    PROVE  TypeOK' /\ AudioLeft'
  <1>0. ClockTypes /\ AudioLeft
    BY TypesSplit
  <1>a. ClockTypes' /\ AudioLeft'
    <2> USE <1>0 DEF IngestConstants, ClockTypes, AudioLeft, Processes, Steps, Outcomes, clocks, Least,
            Doubled
    <2>1. CASE Spawn
      BY <2>1 DEF Spawn
    <2>11. CASE SpawnFails
      BY <2>11 DEF SpawnFails
    <2>2. CASE ReadChunk
      <3>1. /\ heard \in Nat /\ heard < MaxChunks /\ heard' = heard + 1
            /\ gapStart' = gapStart /\ silent' = 0 /\ backoff' = 1 /\ sleep' = sleep
            /\ waiting' = "no" /\ step' = "yield" /\ first' = FALSE
            /\ UNCHANGED <<live, proc, next, task>>
        BY <2>2 DEF ReadChunk
      <3>2. heard' \in 0 .. MaxChunks /\ gapStart' \in 0 .. heard'
        BY <1>0, <3>1
      <3>3. silent' \in 0 .. Timeout /\ backoff' \in 1 .. MaxBackoff
        BY <3>1
      <3>4. AudioLeft'
        BY <3>1
      <3> QED BY <3>1, <3>2, <3>3, <3>4
    <2>3. CASE ReadTimesOut \/ ReadEOF \/ Exited
      BY <2>3 DEF ReadTimesOut, ReadEOF, Exited
    <2>4. CASE Stop \/ Terminated \/ TermIgnored
      BY <2>4 DEF Stop, Terminated, TermIgnored
    <2>5. CASE Stopped \/ Awake
      BY <2>5 DEF Stopped, Awake
    <2>6. CASE ChunkDone
      BY <2>6 DEF ChunkDone
    <2>12. CASE DrainRaises
      BY <2>12 DEF DrainRaises
    <2>13. CASE TaskEnds
      BY <2>13 DEF TaskEnds
    <2>7. CASE Cancel
      BY <2>7, Cancelled DEF Cancel
    <2>8. CASE AudioArrives \/ ProcessCloses \/ ProcessExits
      BY <2>8 DEF AudioArrives, ProcessCloses, ProcessExits
    <2>9. CASE Tick
      BY <2>9 DEF Tick
    <2>10. CASE UNCHANGED ingestVars
      BY <2>10 DEF ingestVars
    <2> QED BY <2>1, <2>2, <2>3, <2>4, <2>5, <2>6, <2>7, <2>8, <2>9, <2>10,
               <2>11, <2>12, <2>13 DEF Next, Generator, Task, Environment
  <1> QED BY <1>a, TypesSplit DEF TypeOK, ClockTypes, GapTypes

\* What emits nothing, and goes on reading only where it was reading.
LEMMA QuietStep ==
    ASSUME IngestConstants, IInv, [Next]_ingestVars, UNCHANGED gapVars
    PROVE  IInv'
  <1>0. ClockTypes
    BY TypesSplit DEF IInv
  <1>1. heard' \in heard .. MaxChunks /\ (task' = "running" => task = "running")
    <2>1. heard \in 0 .. MaxChunks /\ MaxChunks \in Nat /\ AudioLeft
      BY <1>0 DEF IngestConstants, ClockTypes, IInv
    <2>2. /\ heard' = heard \/ (waiting # "no" /\ heard' = heard + 1)
          /\ task' = task \/ task' # "running"
      BY DEF Next, Generator, Task, Environment, Spawn, SpawnFails, ReadChunk,
             ReadTimesOut, ReadEOF, Exited, Stop, Terminated, TermIgnored, Stopped, Awake,
             ChunkDone, DrainRaises, TaskEnds, Cancel, AudioArrives, ProcessCloses,
             ProcessExits, Tick, ingestVars
    <2> QED BY <2>1, <2>2 DEF AudioLeft
  <1>2. /\ GapTypes' /\ RowsOK' /\ InOrder' /\ GapIds' = GapIds
        /\ \A g \in GapIds' : gaps'[g].to <= heard
    BY <1>1, GapsKept
  <1>3. TypeOK' /\ AudioLeft'
    BY <1>2, TypeStep DEF IInv
  <1>4. ProcOK' /\ TaskOK'
    <2> USE <1>0 DEF ClockTypes, ProcOK, TaskOK, Steps, Outcomes, Processes, gapVars
    <2>0. ProcOK /\ TaskOK
      BY DEF IInv
    <2> USE <2>0
    <2>1. CASE Spawn
      BY <2>1 DEF Spawn
    <2>8. CASE SpawnFails \/ ReadTimesOut \/ ReadEOF
      BY <2>8 DEF SpawnFails, ReadTimesOut, ReadEOF
    <2>9. CASE ReadChunk \/ Exited
      BY <2>9 DEF ReadChunk, Exited
    <2>10. CASE Stop \/ Terminated \/ TermIgnored
      BY <2>10 DEF Stop, Terminated, TermIgnored
    <2>11. CASE Stopped \/ Awake
      BY <2>11 DEF Stopped, Awake
    <2>2. CASE ChunkDone
      BY <2>2 DEF ChunkDone
    <2>6. CASE DrainRaises
      BY <2>6 DEF DrainRaises
    <2>7. CASE TaskEnds
      BY <2>7 DEF TaskEnds
    <2>3. CASE Cancel
      BY <2>3, Cancelled DEF Cancel
    <2>4. CASE Environment
      BY <2>4 DEF Environment, AudioArrives, ProcessCloses, ProcessExits, Tick
    <2>5. CASE UNCHANGED ingestVars
      BY <2>5 DEF ingestVars
    <2> QED BY <2>1, <2>2, <2>3, <2>4, <2>5, <2>6, <2>7, <2>8, <2>9, <2>10,
           <2>11 DEF Next, Generator, Task
  <1>5. OrderOK'
    <2>1. /\ gaps' = gaps
          /\ OrderOK /\ step \in Steps /\ first \in BOOLEAN
      BY DEF gapVars, IInv, TypeOK
    <2>2. /\ step' \in {"read", "yield", "wait"} =>
               \/ step \in {"read", "yield", "wait"} /\ gapStart' = gapStart
               \/ gapStart' = heard
          /\ step' = "read" /\ first' => gapStart' = heard'
          /\ step' = "yield" => ~first'
      <3>0. OrderOK /\ TaskOK
        BY DEF IInv
      <3> USE <1>0, <3>0 DEF ClockTypes, OrderOK, Steps, gapVars, TaskOK
      <3>1. CASE Spawn
        BY <3>1 DEF Spawn
      <3>8. CASE SpawnFails \/ ReadTimesOut \/ ReadEOF
        BY <3>8 DEF SpawnFails, ReadTimesOut, ReadEOF
      <3>9. CASE ReadChunk \/ Exited
        BY <3>9 DEF ReadChunk, Exited
      <3>10. CASE Stop \/ Terminated \/ TermIgnored
        BY <3>10 DEF Stop, Terminated, TermIgnored
      <3>11. CASE Stopped \/ Awake
        BY <3>11 DEF Stopped, Awake
      <3>2. CASE ChunkDone
        BY <3>2 DEF ChunkDone
      <3>6. CASE DrainRaises
        BY <3>6 DEF DrainRaises
      <3>7. CASE TaskEnds
        BY <3>7 DEF TaskEnds
      <3>3. CASE Cancel
        BY <3>3, Cancelled DEF Cancel
      <3>4. CASE Environment
        BY <3>4 DEF Environment, AudioArrives, ProcessCloses, ProcessExits, Tick
      <3>5. CASE UNCHANGED ingestVars
        BY <3>5 DEF ingestVars
      <3> QED BY <3>1, <3>2, <3>3, <3>4, <3>5, <3>6, <3>7, <3>8, <3>9, <3>10,
             <3>11 DEF Next, Generator, Task
    <2> QED BY <1>2, <2>1, <2>2 DEF OrderOK
  <1> QED BY <1>2, <1>3, <1>4, <1>5 DEF IInv

\* What emits a gap and leaves the pipe, or is about to hand a chunk over.
LEMMA EmitStep ==
    ASSUME IngestConstants, IInv, NEW from \in {gapStart, heard}, EmitGap(from, heard),
           SpawnFails \/ ReadChunk \/ Exited,
           \A g \in GapIds : gaps[g].to <= from,
           step = "read" => gapStart = heard
    PROVE  IInv'
  <1>0. ClockTypes
    BY TypesSplit DEF IInv
  <1>1. /\ from \in 0 .. heard
        /\ task' = task /\ heard' \in heard .. MaxChunks
        /\ [Next]_ingestVars
    <2>1. heard' = heard \/ (waiting # "no" /\ heard' = heard + 1)
      BY DEF SpawnFails, ReadChunk, Exited
    <2>2. heard' \in heard .. MaxChunks
      BY <1>0, <2>1 DEF IngestConstants, ClockTypes, IInv, AudioLeft
    <2> QED BY <1>0, <2>2 DEF ClockTypes, SpawnFails, ReadChunk, Exited, Next, Generator
  <1>2. /\ GapTypes' /\ RowsOK' /\ InOrder'
        /\ \A g \in GapIds' : gaps'[g].to <= heard
    BY <1>1, EmittedInv
  <1>3. TypeOK' /\ AudioLeft'
    BY <1>1, <1>2, TypeStep DEF IInv
  <1>4. ProcOK' /\ TaskOK'
    BY <1>0 DEF IInv, ProcOK, TaskOK, ClockTypes, SpawnFails, ReadChunk, Exited
  <1>5. OrderOK'
    <2>1. CASE ReadChunk
      <3>1. step' = "yield" /\ first' = FALSE /\ gapStart' = heard
        BY <2>1 DEF ReadChunk
      <3> QED BY <1>2, <3>1 DEF OrderOK
    <2>2. CASE SpawnFails \/ Exited
      <3>1. step' = "stop"
        BY <2>2 DEF SpawnFails, Exited
      <3> QED BY <1>2, <3>1 DEF OrderOK
    <2> QED BY <2>1, <2>2
  <1> QED BY <1>2, <1>3, <1>4, <1>5 DEF IInv

LEMMA DrainStep == ASSUME IngestConstants, IInv, ChunkDone \/ DrainRaises PROVE IInv'
  <1>1. /\ gaps' = gaps /\ heard' = heard /\ GapIds' = GapIds /\ task = "running"
        /\ [Next]_ingestVars
    BY DEF ChunkDone, DrainRaises, Next, Task, GapIds
  <1>2. /\ pending \in SUBSET [gap : GapIds, written : BOOLEAN]
        /\ gapRows \in [GapIds -> Nat]
        /\ gaps \in Seq([from : 0 .. heard, to : 0 .. heard])
        /\ RowsOK /\ OrderOK
    BY DEF IInv, TypeOK
  <1>3. pending' \in SUBSET [gap : GapIds', written : BOOLEAN]
    BY <1>1, <1>2 DEF ChunkDone, DrainRaises
  <1>4. gapRows' \in [GapIds' -> Nat] /\ RowsOK'
    <2>1. CASE ChunkDone
      <3>1. gapRows' = [g \in GapIds |-> gapRows[g] + IF g \in UnwrittenGaps THEN 1 ELSE 0]
        BY <2>1 DEF ChunkDone, Drained
      <3>2. \A g \in GapIds : gapRows'[g] = 1
        <4> SUFFICES ASSUME NEW g \in GapIds PROVE gapRows'[g] = 1
          OBVIOUS
        <4>1. gapRows[g] \in {0, 1} /\ (g \in UnwrittenGaps <=> gapRows[g] = 0)
          BY <1>1, <1>2 DEF UnwrittenGaps, RowsOK
        <4> QED BY <3>1, <4>1
      <3>3. gapRows' \in [GapIds' -> Nat] /\ pending' = {}
        BY <1>1, <1>2, <2>1, <3>1 DEF ChunkDone
      <3> QED BY <1>1, <3>2, <3>3 DEF RowsOK
    <2>2. CASE DrainRaises
      <3>1. \A g : [gap |-> g, written |-> FALSE] \notin pending'
        BY <1>2, <2>2 DEF DrainRaises
      <3>2. gapRows' = gapRows /\ task' = "failed"
        BY <2>2 DEF DrainRaises
      <3> QED BY <1>1, <1>2, <3>1, <3>2 DEF RowsOK
    <2> QED BY <2>1, <2>2
  <1>5. TypeOK' /\ AudioLeft'
    BY <1>1, <1>2, <1>3, <1>4, TypeStep DEF IInv, GapTypes
  <1>6. ProcOK' /\ TaskOK'
    BY DEF IInv, ProcOK, TaskOK, ChunkDone, DrainRaises
  <1>7. step = "yield" /\ first' = first /\ gapStart' = gapStart
    BY DEF ChunkDone, DrainRaises
  <1>8. OrderOK'
    BY <1>1, <1>2, <1>7 DEF IInv, TaskOK, OrderOK, InOrder, ChunkDone, DrainRaises
  <1> QED BY <1>4, <1>5, <1>6, <1>8 DEF IInv

LEMMA NextInv == ASSUME IngestConstants, IInv, [Next]_ingestVars PROVE IInv'
  <1>1. CASE SpawnFails
    <2>1. EmitGap(heard, heard) /\ step # "read"
      BY <1>1 DEF SpawnFails
    <2>2. \A g \in GapIds : gaps[g].to <= heard
      BY DEF IInv, OrderOK, InOrder
    <2> QED BY <1>1, <2>1, <2>2, EmitStep
  <1>2. CASE (ReadChunk \/ Exited) /\ ~UNCHANGED gapVars
    <2>1. /\ EmitGap(gapStart, heard) /\ step \in {"read", "wait"}
          /\ step = "read" => gapStart = heard
      BY <1>2 DEF ReadChunk, Exited, IInv, OrderOK
    <2>2. \A g \in GapIds : gaps[g].to <= gapStart
      BY <2>1 DEF IInv, OrderOK
    <2> QED BY <1>2, <2>1, <2>2, EmitStep
  <1>3. CASE ChunkDone \/ DrainRaises
    BY <1>3, DrainStep
  <1>4. CASE UNCHANGED gapVars
    BY <1>4, QuietStep
  <1>5. CASE /\ ~SpawnFails /\ ~ChunkDone /\ ~DrainRaises
             /\ ~((ReadChunk \/ Exited) /\ ~UNCHANGED gapVars)
    <2>1. UNCHANGED gapVars
      BY <1>5 DEF Next, Generator, Task, Environment, Spawn, ReadTimesOut, ReadEOF, Stop,
                  Terminated, TermIgnored, Stopped, Awake, TaskEnds, Cancel, AudioArrives,
                  ProcessCloses, ProcessExits, Tick, ingestVars, gapVars
    <2> QED BY <2>1, QuietStep
  <1> QED BY <1>1, <1>2, <1>3, <1>4, <1>5

LEMMA Invariant == ASSUME IngestConstants PROVE Spec => []IInv
  <1>1. Init => IInv
    BY InitInv
  <1>2. IInv /\ [Next]_ingestVars => IInv'
    BY NextInv
  <1> QED BY <1>1, <1>2, PTL DEF Spec

-------------------------------------------------------------------------------
(* What follows                                                              *)

\* Every variable of the stream's audio has its type, clocks and pauses included.
THEOREM TypeCorrect == ASSUME IngestConstants PROVE Spec => []TypeOK
  <1>1. IInv => TypeOK
    BY DEF IInv
  <1> QED BY <1>1, Invariant, PTL

\* No process is started beside another one or left when the generator is over
\* (supervisor.py:88-102).
THEOREM ProcessesOneByOne == ASSUME IngestConstants PROVE Spec => []OneProcess
  <1>1. IInv => OneProcess
    BY DEF IInv, ProcOK, OneProcess
  <1> QED BY <1>1, Invariant, PTL

\* However many gaps a stream has and however many inserts fail, no gap has two rows
\* and no two gaps overlap (pipeline.py:277-282, supervisor.py:116-144).
THEOREM GapsCountedOnce == ASSUME IngestConstants PROVE Spec => []GapsAddUp
  <1>1. IInv => GapsAddUp
    <2>1. IInv => \A g \in GapIds : gapRows[g] <= 1
      <3> SUFFICES ASSUME IInv, NEW g \in GapIds PROVE gapRows[g] <= 1
        OBVIOUS
      <3>1. gapRows[g] \in {0, 1}
        BY DEF IInv, RowsOK
      <3> QED BY <3>1
    <2> QED BY <2>1 DEF IInv, OrderOK, InOrder, GapsAddUp
  <1> QED BY <1>1, Invariant, PTL

\* Every gap met before a chunk has its row when the chunk has been worked off
\* (supervisor.py:70-71).
THEOREM NoGapForgotten == ASSUME IngestConstants PROVE Spec => []GapsDrained
  <1>1. IInv => GapsDrained
    <2> SUFFICES ASSUME IInv, step = "read", ~first
                 PROVE  pending = {} /\ \A g \in GapIds : gapRows[g] >= 1
      BY DEF GapsDrained
    <2>1. pending = {} /\ task = "running"
      BY DEF IInv, TypeOK, TaskOK
    <2>2. \A g \in GapIds : gapRows[g] = 1
      BY <2>1 DEF IInv, RowsOK
    <2> QED BY <2>1, <2>2
  <1> QED BY <1>1, Invariant, PTL
=============================================================================
