----------------------------- MODULE RecapsProofs -----------------------------
(***************************************************************************)
(* What Recaps promises of the summaries a viewer gets, for any number of  *)
(* requests, events, thread updates and votes.                             *)
(*                                                                         *)
(* A row stands for its key: what has a key was made from at least what    *)
(* the key counts (RowsOK).  A request stands for its key in the other     *)
(* direction: the key counts all that had happened when it was asked       *)
(* (AskOK).  Equal keys then make a cached text good enough.  That fails  *)
(* for thread updates as soon as one is committed out of order, which is   *)
(* why MovesOK compares keys only before that.                             *)
(***************************************************************************)
EXTENDS Recaps, FiniteSetTheorems, TLAPS

Pairs == Nat \X Nat
Row(r) == summaries[r.kind][r.row]

Asking == {"key", "build", "save", "set"}
Adding == {"preview", "shorten", "label"}

\* A request is for a catch-up or an overview, and its rows exist.
PlaceOK(r) ==
    /\ r.kind \in {"recap", "full"}
    /\ r.step \in Adding => r.kind = "full"
    /\ r.step \in {"set", "answer"} \cup Adding => r.row \in 1 .. Len(summaries[r.kind])
    /\ r.preview <= Len(PreviewRows)
    /\ r.step = "label" => r.preview # 0
    /\ r.asked.events <= Len(events) /\ r.asked.moves <= moves
    /\ r.asked.votes \subseteq Marked

\* Its key counts all there was to be seen, up to two small events in an overview.
Counts(kind, key, n) ==
    IF kind = "recap" THEN key[1] = n
    ELSE /\ key[1] <= n /\ 3 * key[2] <= n + 2 /\ n <= 3 * key[2]
         /\ \A i \in key[1] + 1 .. n : ~events[i]
AskOK(r) ==
    r.step \in Asking => r.key \in Pairs /\ Counts(r.kind, r.key, r.asked.events)

\* Text made for it has seen what it asked for, and every vote that has looked for
\* the newest catch-up, unless it is late for that vote.
Sees(saw, asked) == saw.events >= asked.events /\ saw.moves >= asked.moves
Selected(v) == vote[v].step \in {"chosen", "done"}
Knows(row, v) == v \in row.saw.votes \cup row.late
Heeds(kind, row) == kind = "recap" => \A v \in Votes : Selected(v) => Knows(row, v)
MadeOK(r) ==
    /\ r.step = "save" => Sees(r.saw, r.asked) /\ Heeds(r.kind, r)
    /\ r.step = "set" => Sees(Row(r).saw, r.asked) /\ Heeds(r.kind, Row(r)) /\ Row(r).key \notin Pairs

\* A catch-up's key tells thread updates apart that came in the order of their stamps.
AsksMoves(r) == r.kind = "recap" /\ r.step \in Asking /\ ~disordered
Since(key, n) == key[2] <= LastUpdate /\ (key[2] = LastUpdate => n >= moves)
MovesOK(r) ==
    AsksMoves(r) =>
        /\ Since(r.key, r.asked.moves)
        /\ \A i \in 1 .. Newest("recap") : LET row == summaries["recap"][i] IN
             row.key \in Pairs /\ row.key[2] = r.key[2] => row.saw.moves >= r.asked.moves

\* A catch-up that is answered, and an overview before and after it gets its preview.
CatchUpOK(r) ==
    r.kind = "recap" /\ r.step = "answer" /\ ~r.limited =>
        /\ Row(r).saw.events >= r.asked.events
        /\ disordered \/ Row(r).saw.moves >= r.asked.moves
        /\ r.asked.votes \subseteq Row(r).saw.votes \cup Row(r).late

CloseTo(n, text) == n <= text.events + 2 /\ \A i \in text.events + 1 .. n : ~events[i]
OverviewOK(r) ==
    /\ r.step = "label" => PreviewRows[r.preview].saw = Row(r).saw
    /\ r.kind = "full" /\ ~r.limited =>
         /\ r.step \in Adding \cup {"answer"} => CloseTo(r.asked.events, Row(r).saw)
         /\ r.step \in Adding =>
              Row(r).key \in Pairs /\ Counts("full", Row(r).key, r.asked.events)
         /\ r.step = "answer" /\ r.preview # 0 =>
              CloseTo(r.asked.events, PreviewRows[r.preview].saw)

RequestOK(r) ==
    PlaceOK(r) /\ AskOK(r) /\ MadeOK(r) /\ MovesOK(r) /\ CatchUpOK(r) /\ OverviewOK(r)

\* Two requests that have one key, or a row each to set the key of.
Alike(r, s) ==
    /\ AsksMoves(r) /\ AsksMoves(s) /\ r.key[2] = s.key[2] => r.asked.moves = s.asked.moves
    /\ ~(r.step = "set" /\ s.step = "set" /\ r.kind = s.kind /\ r.row = s.row)
RequestsOK ==
    /\ \A q \in Requests : RequestOK(request[q])
    /\ \A p, q \in Requests : p # q => Alike(request[p], request[q])

\* A row has seen what its key counts.
RowOK(kind, row) ==
    /\ row.key \in Pairs \cup {NoKey, Stale}
    /\ row.key \in Pairs =>
        /\ row.key[1] <= row.saw.events
        /\ kind # "recap" => 3 * row.key[2] <= row.saw.events + 2
        /\ kind = "recap" /\ ~disordered => Since(row.key, row.saw.moves)
RowsOK == \A k \in AllKinds : \A i \in 1 .. Len(summaries[k]) : RowOK(k, summaries[k][i])

\* The newest catch-up knows of every vote that has looked for it, is late for it, or
\* is stale, or will be as soon as that vote commits.
Handled(row, n, v) ==
    Knows(row, v) \/ row.key = Stale \/ (vote[v].step = "chosen" /\ vote[v].row = n)
NewestOK ==
    Newest("recap") > 0 =>
        \A v \in Votes : Selected(v) =>
            Handled(summaries["recap"][Newest("recap")], Newest("recap"), v)

\* What a vote has found is there.
VotesOK == \A v \in Votes : vote[v].step = "chosen" => vote[v].row \in 1 .. Newest("recap")

\* Every stamp is committed once.
StampsOK ==
    /\ moves + Cardinality(stamped) = clock
    /\ \A t \in Threads : updated[t] \notin stamped

\* Requests that have checked the budget and not yet used it.
Paid == {"build", "save", "shorten"}
Spending == {q \in Requests : request[q].step \in Paid}
BudgetOK == Written + Cardinality(Spending) <= Limit + Cardinality(Requests) - 1

IInv == TypeOK /\ RequestsOK /\ RowsOK /\ NewestOK /\ VotesOK /\ StampsOK /\ BudgetOK
-------------------------------------------------------------------------------
(* Types, keys and maxima                                                    *)

LEMMA Constant ==
    ASSUME RecapsConstants
    PROVE  /\ IsFiniteSet(Requests) /\ IsFiniteSet(Threads) /\ Kinds \subseteq {"recap", "full"}
           /\ MaxEvents \in Nat /\ MaxMoves \in Nat /\ Limit \in Nat \ {0}
  BY DEF RecapsConstants

LEMMA Fields ==
    ASSUME TypeOK
    PROVE  /\ events \in Seq(BOOLEAN) /\ Len(events) <= MaxEvents
           /\ moves \in 0 .. clock /\ clock \in 0 .. MaxMoves /\ stamped \subseteq 1 .. clock
           /\ updated \in [Threads -> 0 .. clock] /\ disordered \in BOOLEAN
           /\ vote \in [Votes -> Ballots]
           /\ summaries \in [AllKinds -> Seq(Rows)] /\ request \in [Requests -> Places]
           /\ \A q \in Requests :
                request[q] \in Places /\ request[q].row <= Len(summaries[request[q].kind])
  BY DEF TypeOK

LEMMA PlaceFields ==
    ASSUME RecapsConstants, NEW r \in Places
    PROVE  /\ r.step \in Steps /\ r.kind \in AllKinds /\ r.key \in Keys /\ r.asked \in Seen
           /\ r.saw \in Seen /\ r.row \in Nat /\ r.preview \in Nat
           /\ r.limited \in BOOLEAN /\ r.late \in SUBSET Votes
           /\ r.asked.events \in Nat /\ r.asked.moves \in Nat /\ r.asked.votes \subseteq Votes
           /\ r.saw.events \in Nat /\ r.saw.moves \in Nat /\ r.saw.votes \subseteq Votes
  BY Constant DEF Places, Seen

LEMMA RowFields ==
    ASSUME RecapsConstants, NEW row \in Rows
    PROVE  /\ row.key \in Keys /\ row.saw \in Seen /\ row.late \in SUBSET Votes
           /\ row.saw.events \in Nat /\ row.saw.moves \in Nat /\ row.saw.votes \subseteq Votes
  BY Constant DEF Rows, Seen

LEMMA RowIn ==
    ASSUME TypeOK, NEW k \in AllKinds, NEW i \in 1 .. Len(summaries[k])
    PROVE  summaries[k] \in Seq(Rows) /\ summaries[k][i] \in Rows
  BY Fields

LEMMA Lengths ==
    ASSUME TypeOK
    PROVE  /\ \A k \in AllKinds : Len(summaries[k]) \in Nat
           /\ Newest("recap") \in Nat /\ Newest("full") \in Nat /\ Newest("full-preview") \in Nat
           /\ Written \in Nat /\ PreviewRows \in Seq(Rows) /\ PreviewRows = summaries["full-preview"]
  <1>1. \A k \in AllKinds : summaries[k] \in Seq(Rows)
    BY Fields
  <1>2. "recap" \in AllKinds /\ "full" \in AllKinds /\ "full-preview" \in AllKinds
    BY DEF AllKinds
  <1> HIDE DEF AllKinds, Rows
  <1>3. \A k \in AllKinds : Len(summaries[k]) \in Nat
    BY <1>1
  <1>4. /\ Newest("recap") \in Nat /\ Newest("full") \in Nat /\ Newest("full-preview") \in Nat
    BY <1>2, <1>3 DEF Newest
  <1>5. Written \in Nat
    BY <1>4 DEF Written
  <1>6. PreviewRows \in Seq(Rows) /\ PreviewRows = summaries["full-preview"]
    BY <1>1, <1>2 DEF PreviewRows
  <1> QED BY <1>3, <1>4, <1>5, <1>6

LEMMA NotPairs == NoKey \notin Pairs /\ Stale \notin Pairs
  BY DEF NoKey, Stale, Pairs

LEMMA PairKey == ASSUME NEW key \in Pairs PROVE key[1] \in Nat /\ key[2] \in Nat
  BY DEF Pairs

\* A finite set of numbers has a greatest one.
LEMMA MaxIn ==
    ASSUME NEW S \in SUBSET Int, IsFiniteSet(S), S # {}
    PROVE  Max(S) \in S /\ \A y \in S : y <= Max(S)
  <1> DEFINE Above(x) == {y \in S : x < y}
             T == {Above(x) : x \in S}
             R == StrictSubsetOrdering(S)
  <1>1. IsWellFoundedOn(R, FiniteSubsetsOf(S))
    BY FS_StrictSubsetOrderingWellFounded
  <1>2. T \subseteq FiniteSubsetsOf(S)
    <2> SUFFICES ASSUME NEW x \in S PROVE Above(x) \in FiniteSubsetsOf(S)
      OBVIOUS
    <2>1. IsFiniteSet(Above(x))
      BY FS_Subset
    <2> QED BY <2>1 DEF FiniteSubsetsOf
  <1>3. T # {}
    <2> HIDE DEF Above
    <2> QED OBVIOUS
  <1>4. \E a \in T : \A b \in T : <<b, a>> \notin R
    <2> HIDE DEF T, R
    <2> QED BY <1>1, <1>2, <1>3, WFMin
  <1>5. PICK x \in S : \A y \in S : <<Above(y), Above(x)>> \notin R
    <2> HIDE DEF Above, R
    <2> QED BY <1>4
  <1>6. ASSUME NEW y \in S PROVE y <= x
    <2> SUFFICES ASSUME x < y PROVE FALSE
      OBVIOUS
    <2>1. y \in Above(x) /\ y \notin Above(y)
      OBVIOUS
    <2>2. \A z \in S : y < z => x < z
      OBVIOUS
    <2>3. Above(y) \subseteq Above(x)
      BY <2>2
    <2>4. <<Above(y), Above(x)>> \in R
      BY <2>1, <2>3 DEF StrictSubsetOrdering
    <2> QED BY <1>5, <2>4
  <1> QED BY <1>6 DEF Max

LEMMA LastUpdateIs ==
    ASSUME RecapsConstants, NEW n \in Nat, updated \in [Threads -> 0 .. n]
    PROVE  /\ LastUpdate \in 0 .. n /\ \A t \in Threads : updated[t] <= LastUpdate
           /\ LastUpdate = 0 \/ \E t \in Threads : LastUpdate = updated[t]
  <1> DEFINE S == {0} \cup {updated[t] : t \in Threads}
  <1>1. S \in SUBSET Int /\ S # {} /\ S \subseteq 0 .. n
    OBVIOUS
  <1>2. IsFiniteSet(S)
    <2>1. IsFiniteSet(0 .. n)
      BY FS_Interval
    <2> QED BY <1>1, <2>1, FS_Subset
  <1>3. Max(S) \in S /\ \A y \in S : y <= Max(S)
    <2> HIDE DEF S
    <2> QED BY <1>1, <1>2, MaxIn
  <1>4. LastUpdate = Max(S)
    BY DEF LastUpdate
  <1>5. \A t \in Threads : updated[t] \in S
    OBVIOUS
  <1>6. \A x \in S : x = 0 \/ \E t \in Threads : x = updated[t]
    OBVIOUS
  <1> HIDE DEF S
  <1> QED BY <1>1, <1>3, <1>4, <1>5, <1>6

\* The key of an overview counts the notable events, and the others by threes.
LEMMA NotableIs ==
    ASSUME events \in Seq(BOOLEAN)
    PROVE  /\ NotableMax \in 0 .. Len(events)
           /\ \A i \in NotableMax + 1 .. Len(events) : ~events[i]
  <1> DEFINE S == {0} \cup {i \in 1 .. Len(events) : events[i]}
  <1>0. Len(events) \in Nat
    OBVIOUS
  <1>1. S \in SUBSET Int /\ S # {} /\ S \subseteq 0 .. Len(events)
    <2>1. {i \in 1 .. Len(events) : events[i]} \subseteq 0 .. Len(events)
      BY <1>0
    <2> QED BY <1>0, <2>1
  <1>2. IsFiniteSet(S)
    <2>1. IsFiniteSet(0 .. Len(events))
      BY <1>0, FS_Interval
    <2> QED BY <1>1, <2>1, FS_Subset
  <1>3. Max(S) \in S /\ \A y \in S : y <= Max(S)
    <2> HIDE DEF S
    <2> QED BY <1>1, <1>2, MaxIn
  <1>4. NotableMax = Max(S)
    BY DEF NotableMax
  <1>5. \A i \in 1 .. Len(events) : events[i] => i \in S
    OBVIOUS
  <1> HIDE DEF S
  <1>6. NotableMax \in 0 .. Len(events)
    BY <1>1, <1>3, <1>4
  <1>7. ASSUME NEW i \in NotableMax + 1 .. Len(events) PROVE ~events[i]
    <2>1. i \in 1 .. Len(events) /\ ~(i <= NotableMax)
      BY <1>0, <1>6
    <2> QED BY <1>3, <1>4, <1>5, <2>1
  <1> QED BY <1>6, <1>7

LEMMA KeyIs ==
    ASSUME RecapsConstants, TypeOK, NEW k \in {"recap", "full"}, k = "full" => events # <<>>
    PROVE  /\ KeyOf(k) \in Keys /\ KeyOf(k) \in Pairs /\ Counts(k, KeyOf(k), Len(events))
           /\ k = "recap" => KeyOf(k)[2] = LastUpdate
  <1> DEFINE N == 0 .. MaxEvents + MaxMoves
  <1>1. /\ events \in Seq(BOOLEAN) /\ Len(events) \in Nat /\ Len(events) <= MaxEvents
        /\ MaxEvents \in Nat /\ MaxMoves \in Nat
    BY Fields, Constant
  <1>2. LastUpdate \in Nat /\ LastUpdate <= MaxMoves
    BY Fields, Constant, LastUpdateIs
  <1>3. \A a, b \in N : <<a, b>> \in Keys /\ <<a, b>> \in Pairs
    <2>1. N \subseteq Nat
      BY <1>1
    <2> HIDE DEF N
    <2> SUFFICES ASSUME NEW a \in N, NEW b \in N PROVE <<a, b>> \in Seq(N) /\ <<a, b>> \in Pairs
      BY DEF Keys, N
    <2>2. <<a, b>> \in Seq(N)
      OBVIOUS
    <2> QED BY <2>1, <2>2 DEF Pairs
  <1>4. CASE k = "recap"
    <2>1. KeyOf(k) = <<Len(events), LastUpdate>>
      BY <1>4 DEF KeyOf, RecapKey
    <2>2. Len(events) \in N /\ LastUpdate \in N
      BY <1>1, <1>2
    <2> HIDE DEF N
    <2> QED BY <1>3, <1>4, <2>1, <2>2 DEF Counts
  <1>5. CASE k = "full"
    <2> DEFINE third == 1 + (Len(events) - 1) \div 3
    <2>1. events # <<>> /\ Len(events) # 0
      BY <1>1, <1>5
    <2>2. KeyOf(k) = <<NotableMax, third>>
      BY <1>5, <2>1 DEF KeyOf, FullKey
    <2>3. third \in Nat /\ third <= Len(events) /\ 3 * third <= Len(events) + 2 /\ Len(events) <= 3 * third
      BY <1>1, <2>1
    <2>4. NotableMax \in 0 .. Len(events) /\ \A i \in NotableMax + 1 .. Len(events) : ~events[i]
      BY <1>1, NotableIs
    <2> HIDE DEF third
    <2>5. NotableMax \in N /\ third \in N
      BY <1>1, <2>3, <2>4
    <2> HIDE DEF N
    <2>6. KeyOf(k) \in Keys /\ KeyOf(k) \in Pairs
      BY <1>3, <2>2, <2>5
    <2>7. KeyOf(k)[1] = NotableMax /\ KeyOf(k)[2] = third
      BY <2>2
    <2>8. Counts(k, KeyOf(k), Len(events))
      BY <1>1, <1>5, <2>3, <2>4, <2>7 DEF Counts
    <2> QED BY <1>5, <2>6, <2>8
  <1> QED BY <1>4, <1>5
-------------------------------------------------------------------------------
(* Steps of a request that leave the rows and the session alone              *)

LEMMA Unmoved ==
    ASSUME UNCHANGED <<events, moves, vote, disordered, updated, summaries>>
    PROVE  /\ LastUpdate' = LastUpdate /\ Written' = Written
           /\ \A r : RequestOK(r) => RequestOK(r)'
           /\ \A r, s : Alike(r, s) => Alike(r, s)'
           /\ RowsOK => RowsOK'
           /\ NewestOK => NewestOK'
           /\ VotesOK => VotesOK'
  <1>1. /\ events' = events /\ moves' = moves /\ vote' = vote /\ disordered' = disordered
        /\ updated' = updated /\ summaries' = summaries
    OBVIOUS
  <1>2. LastUpdate' = LastUpdate
    BY <1>1 DEF LastUpdate
  <1>3. /\ PreviewRows' = PreviewRows /\ Written' = Written
        /\ Newest("recap")' = Newest("recap")
    BY <1>1 DEF PreviewRows, Written, Newest
  <1>4. ASSUME NEW r, RequestOK(r) PROVE RequestOK(r)'
    <2>1. PlaceOK(r)'
      BY <1>1, <1>3, <1>4 DEF RequestOK, PlaceOK, Marked
    <2>2. AskOK(r)' /\ MadeOK(r)'
      BY <1>1, <1>4 DEF RequestOK, AskOK, MadeOK, Counts, Sees, Heeds, Row, Selected, Knows
    <2>3. MovesOK(r)'
      BY <1>1, <1>2, <1>3, <1>4 DEF RequestOK, MovesOK, AsksMoves, Since
    <2>4. CatchUpOK(r)' /\ OverviewOK(r)'
      BY <1>1, <1>3, <1>4 DEF RequestOK, CatchUpOK, OverviewOK, CloseTo, Counts, Row
    <2> QED BY <2>1, <2>2, <2>3, <2>4 DEF RequestOK
  <1>5. ASSUME NEW r, NEW s, Alike(r, s) PROVE Alike(r, s)'
    BY <1>1, <1>5 DEF Alike, AsksMoves
  <1>6. ASSUME RowsOK PROVE RowsOK'
    BY <1>1, <1>2, <1>6 DEF RowsOK, RowOK, Since
  <1>7. ASSUME NewestOK PROVE NewestOK'
    BY <1>1, <1>3, <1>7 DEF NewestOK, Handled, Selected, Knows
  <1>8. ASSUME VotesOK PROVE VotesOK'
    BY <1>1, <1>3, <1>8 DEF VotesOK
  <1> QED BY <1>2, <1>3, <1>4, <1>5, <1>6, <1>7, <1>8

\* A request spends what it has checked the budget for; others do not notice.
LEMMA Spent ==
    ASSUME RecapsConstants, TypeOK, BudgetOK, NEW q \in Requests, NEW r,
           request' = [request EXCEPT ![q] = r], Written' = Written,
           r.step \in Paid => request[q].step \in Paid \/ Written < Limit
    PROVE  BudgetOK'
  <1>1. IsFiniteSet(Requests) /\ Limit \in Nat /\ Written \in Nat /\ DOMAIN request = Requests
    BY Constant, Lengths, Fields
  <1>2. /\ IsFiniteSet(Spending) /\ Cardinality(Spending) \in Nat /\ Cardinality(Requests) \in Nat
        /\ IsFiniteSet(Spending') /\ Cardinality(Spending') \in Nat
        /\ Cardinality(Spending') <= Cardinality(Requests)
    <2>1. Spending \subseteq Requests /\ Spending' \subseteq Requests
      BY DEF Spending
    <2> QED BY <1>1, <2>1, FS_Subset, FS_CardinalityType
  <1>3. \A p \in Requests : p # q => request'[p] = request[p]
    BY <1>1
  <1>4. request'[q] = r
    BY <1>1
  <1>5. CASE Written < Limit
    BY <1>1, <1>2, <1>5 DEF BudgetOK
  <1>6. CASE ~(Written < Limit)
    <2>1. Spending' \subseteq Spending
      BY <1>3, <1>4, <1>6 DEF Spending
    <2>2. Cardinality(Spending') <= Cardinality(Spending)
      BY <1>2, <2>1, FS_Subset
    <2> QED BY <1>1, <1>2, <2>2 DEF BudgetOK
  <1> QED BY <1>5, <1>6

LEMMA RequestMoved ==
    ASSUME RecapsConstants, IInv, NEW q \in Requests, NEW r \in Places,
           request' = [request EXCEPT ![q] = r], UNCHANGED <<story, vote, summaries>>,
           RequestOK(r), r.row <= Len(summaries[r.kind]),
           \A p \in Requests \ {q} : Alike(request[p], r) /\ Alike(r, request[p]),
           r.step \in Paid => request[q].step \in Paid \/ Written < Limit
    PROVE  IInv'
  <1>1. /\ events' = events /\ clock' = clock /\ stamped' = stamped /\ updated' = updated
        /\ moves' = moves /\ disordered' = disordered /\ vote' = vote
        /\ summaries' = summaries
    BY DEF story, moved
  <1>2. /\ LastUpdate' = LastUpdate /\ Written' = Written
        /\ \A x : RequestOK(x) => RequestOK(x)'
        /\ \A x, y : Alike(x, y) => Alike(x, y)'
        /\ RowsOK => RowsOK'
        /\ NewestOK => NewestOK'
        /\ VotesOK => VotesOK'
    BY <1>1, Unmoved
  <1>3. request \in [Requests -> Places] /\ TypeOK
    BY Fields DEF IInv
  <1>4. request'[q] = r /\ \A p \in Requests : p # q => request'[p] = request[p]
    BY <1>3
  <1>5. TypeOK'
    <2>1. request' \in [Requests -> Places]
      BY <1>3
    <2>2. \A p \in Requests : request'[p].row <= Len(summaries[request'[p].kind])
      BY <1>3, <1>4, Fields
    <2> HIDE DEF Places, Rows, AllKinds
    <2> QED BY <1>1, <1>3, <2>1, <2>2 DEF TypeOK
  <1>6. RequestsOK'
    <2>1. ASSUME NEW p \in Requests PROVE RequestOK(request[p])'
      <3>1. CASE p = q
        <4>1. RequestOK(r)'
          BY <1>2
        <4> QED BY <1>4, <3>1, <4>1
      <3>2. CASE p # q
        <4>1. PICK x : x = request[p]
          OBVIOUS
        <4>2. RequestOK(x)'
          BY <1>2, <4>1 DEF IInv, RequestsOK
        <4> QED BY <1>4, <3>2, <4>1, <4>2
      <3> QED BY <3>1, <3>2
    <2>2. ASSUME NEW p1 \in Requests, NEW p2 \in Requests, p1 # p2
          PROVE  Alike(request[p1], request[p2])'
      <3>1. PICK x, y : x = request'[p1] /\ y = request'[p2]
        OBVIOUS
      <3>2. Alike(x, y)
        BY <1>4, <2>2, <3>1 DEF IInv, RequestsOK
      <3>3. Alike(x, y)'
        BY <1>2, <3>2
      <3> QED BY <3>1, <3>3
    <2> QED BY <2>1, <2>2 DEF RequestsOK
  <1>7. RowsOK' /\ NewestOK' /\ VotesOK'
    BY <1>2 DEF IInv
  <1>8. StampsOK'
    BY <1>1 DEF IInv, StampsOK
  <1>9. BudgetOK'
    BY <1>2, <1>3, Spent DEF IInv
  <1> QED BY <1>5, <1>6, <1>7, <1>8, <1>9 DEF IInv

\* What moves one request is a record of the fields that change.
LEMMA IdlePlace ==
    ASSUME RecapsConstants
    PROVE  /\ Idle \in Places /\ Idle.step = "idle" /\ Idle.kind = "recap" /\ Idle.row = 0
           /\ Idle.preview = 0 /\ Idle.limited = FALSE /\ Idle.late = {}
           /\ Idle.asked = NoSeen /\ NoSeen \in Seen
           /\ NoSeen.events = 0 /\ NoSeen.moves = 0 /\ NoSeen.votes = {}
  <1>1. NoSeen \in Seen /\ NoSeen.events = 0 /\ NoSeen.moves = 0 /\ NoSeen.votes = {}
    BY Constant DEF NoSeen, Seen
  <1>2. NoKey \in Keys
    BY DEF Keys
  <1> HIDE DEF NoSeen, Seen, NoKey, Keys
  <1>3. Idle \in Places
    BY <1>1, <1>2 DEF Idle, Places, Steps, AllKinds
  <1> QED BY <1>1, <1>3 DEF Idle

LEMMA BecomesIdle ==
    ASSUME RecapsConstants, IInv, NEW q \in Requests, request' = [request EXCEPT ![q] = Idle],
           UNCHANGED <<story, vote, summaries>>
    PROVE  IInv'
  <1>1. TypeOK
    BY DEF IInv
  <1>2. /\ Len(events) \in Nat /\ moves \in Nat /\ Len(PreviewRows) \in Nat
        /\ Len(summaries["recap"]) \in Nat
    BY <1>1, Fields, Constant, Lengths DEF Newest
  <1>3. RequestOK(Idle)
    BY <1>2, IdlePlace DEF RequestOK, PlaceOK, AskOK, MadeOK, MovesOK, AsksMoves, CatchUpOK,
                           OverviewOK, Asking, Adding
  <1>4. \A p : Alike(request[p], Idle) /\ Alike(Idle, request[p])
    BY IdlePlace DEF Alike, AsksMoves, Asking
  <1>5. Idle \in Places /\ Idle.row <= Len(summaries[Idle.kind]) /\ Idle.step \notin Paid
    BY <1>2, IdlePlace DEF Paid
  <1> QED BY <1>3, <1>4, <1>5, RequestMoved

LEMMA AskStep ==
    ASSUME RecapsConstants, IInv, NEW q \in Requests, NEW k \in Kinds, Ask(q, k)
    PROVE  IInv'
  <1> DEFINE r == [Idle EXCEPT !.step = "key", !.kind = k, !.key = KeyOf(k), !.asked = Now(Marked)]
  <1>1. TypeOK /\ k \in {"recap", "full"} /\ RowsOK
    BY Constant DEF IInv
  <1>2. /\ At(q, "idle") /\ (k = "full" => events # <<>>)
        /\ request' = [request EXCEPT ![q] = r] /\ UNCHANGED <<story, vote, summaries>>
    BY DEF Ask
  <1>3. /\ KeyOf(k) \in Keys /\ KeyOf(k) \in Pairs /\ Counts(k, KeyOf(k), Len(events))
        /\ k = "recap" => KeyOf(k)[2] = LastUpdate
    BY <1>1, <1>2, KeyIs
  <1>4. /\ Len(events) \in Nat /\ moves \in Nat /\ Len(PreviewRows) \in Nat
        /\ Len(summaries[k]) \in Nat /\ LastUpdate \in Nat
    <2>1. k \in AllKinds
      BY <1>1 DEF AllKinds
    <2> QED BY <1>1, <2>1, Fields, Constant, Lengths, LastUpdateIs
  <1>5. PICK now \in Seen :
           /\ now = Now(Marked) /\ now.events = Len(events) /\ now.moves = moves
           /\ now.votes = Marked
    <2>1. Len(events) \in 0 .. MaxEvents /\ moves \in 0 .. MaxMoves /\ Marked \subseteq Votes
      BY <1>1, <1>4, Constant, Fields DEF Marked
    <2>2. [events |-> Len(events), moves |-> moves, votes |-> Marked] \in Seen
      BY <2>1 DEF Seen
    <2> HIDE DEF Seen, Marked
    <2> QED BY <2>2 DEF Now
  <1>6. /\ r \in Places /\ r.step = "key" /\ r.kind = k /\ r.key = KeyOf(k) /\ r.asked = now
        /\ r.row = 0 /\ r.preview = 0
    <2> HIDE DEF Now, Marked, Seen, KeyOf, Keys, Idle
    <2>1. Idle \in Places /\ Idle.row = 0 /\ Idle.preview = 0
      BY IdlePlace
    <2> QED BY <1>1, <1>3, <1>5, <2>1 DEF Places, Steps, AllKinds
  <1> HIDE DEF r
  <1>7. PlaceOK(r) /\ AskOK(r) /\ MadeOK(r) /\ CatchUpOK(r) /\ OverviewOK(r)
    BY <1>1, <1>3, <1>4, <1>5, <1>6
       DEF PlaceOK, AskOK, MadeOK, CatchUpOK, OverviewOK, Asking, Adding
  <1>8. MovesOK(r)
    <2> SUFFICES ASSUME AsksMoves(r) PROVE MovesOK(r)
      BY DEF MovesOK
    <2>1. k = "recap" /\ ~disordered /\ r.key[2] = LastUpdate /\ r.asked.moves = moves
      BY <1>3, <1>5, <1>6 DEF AsksMoves
    <2>2. \A i \in 1 .. Newest("recap") : summaries["recap"][i].key \in Pairs =>
            Since(summaries["recap"][i].key, summaries["recap"][i].saw.moves)
      BY <1>1, <2>1 DEF RowsOK, RowOK, Newest, AllKinds
    <2> QED BY <1>4, <2>1, <2>2 DEF MovesOK, Since
  <1>9. ASSUME NEW p \in Requests \ {q} PROVE Alike(request[p], r) /\ Alike(r, request[p])
    <2>1. PICK s : s = request[p]
      OBVIOUS
    <2>2. s \in Places /\ RequestOK(s)
      BY <1>1, <2>1, Fields DEF IInv, RequestsOK
    <2>3. s.asked.moves <= moves /\ s.asked.moves \in Nat
      BY <2>2, PlaceFields DEF RequestOK, PlaceOK
    <2>4. ASSUME AsksMoves(s), AsksMoves(r), s.key[2] = r.key[2]
          PROVE  s.asked.moves = r.asked.moves
      <3>1. Since(s.key, s.asked.moves)
        BY <2>2, <2>4 DEF RequestOK, MovesOK
      <3>2. r.key[2] = LastUpdate /\ r.asked.moves = moves
        BY <1>3, <1>5, <1>6, <2>4 DEF AsksMoves
      <3> QED BY <1>4, <2>3, <2>4, <3>1, <3>2 DEF Since
    <2> QED BY <1>6, <2>1, <2>4 DEF Alike
  <1>10. RequestOK(r)
    BY <1>7, <1>8 DEF RequestOK
  <1>11. r.row <= Len(summaries[r.kind]) /\ r.step \notin Paid
    BY <1>4, <1>6 DEF Paid
  <1>12. request' = [request EXCEPT ![q] = r]
    BY <1>2 DEF r
  <1> QED BY <1>2, <1>6, <1>9, <1>10, <1>11, <1>12, RequestMoved

\* A request that asks for what it asked for is like the others as it was.
LEMMA AlikeKept ==
    ASSUME RequestsOK, NEW q \in Requests, NEW r,
           r.step \in Asking => /\ request[q].step \in Asking /\ r.kind = request[q].kind
                                /\ r.key = request[q].key /\ r.asked = request[q].asked,
           r.step # "set"
    PROVE  \A p \in Requests \ {q} : Alike(request[p], r) /\ Alike(r, request[p])
  <1> SUFFICES ASSUME NEW p \in Requests \ {q}
               PROVE  Alike(request[p], r) /\ Alike(r, request[p])
    OBVIOUS
  <1>1. PICK s, t : s = request[q] /\ t = request[p]
    OBVIOUS
  <1>2. Alike(t, s) /\ Alike(s, t)
    BY <1>1 DEF RequestsOK
  <1>3. AsksMoves(r) => AsksMoves(s) /\ r.key = s.key /\ r.asked = s.asked
    BY <1>1 DEF AsksMoves
  <1> QED BY <1>1, <1>2, <1>3 DEF Alike

\* What the steps of one request need to know of it.
LEMMA OfRequest ==
    ASSUME RecapsConstants, IInv, NEW q \in Requests
    PROVE  /\ TypeOK /\ RequestsOK /\ RowsOK /\ NewestOK
           /\ request[q] \in Places /\ RequestOK(request[q])
           /\ request[q].row <= Len(summaries[request[q].kind])
           /\ request[q].kind \in AllKinds /\ Len(summaries[request[q].kind]) \in Nat
  <1>1. TypeOK /\ RequestsOK /\ RowsOK /\ NewestOK
    BY DEF IInv
  <1>2. request[q] \in Places /\ request[q].row <= Len(summaries[request[q].kind])
    BY <1>1, Fields
  <1>3. request[q].kind \in AllKinds
    BY <1>2, PlaceFields
  <1> QED BY <1>1, <1>2, <1>3, Lengths DEF RequestsOK

LEMMA GenerateStep ==
    ASSUME RecapsConstants, IInv, NEW q \in Requests, Generate(q)
    PROVE  IInv'
  <1>1. PICK s : s = request[q]
    OBVIOUS
  <1> DEFINE r == [s EXCEPT !.step = "build"]
  <1>2. /\ s.step = "key" /\ ~Exceeded
        /\ request' = [request EXCEPT ![q] = r] /\ UNCHANGED <<story, vote, summaries>>
    BY <1>1 DEF Generate, At
  <1>3. s \in Places /\ RequestOK(s) /\ s.row <= Len(summaries[s.kind]) /\ RequestsOK /\ TypeOK
    BY <1>1, OfRequest
  <1>4. /\ r \in Places /\ r.step = "build" /\ r.kind = s.kind /\ r.key = s.key /\ r.asked = s.asked
        /\ r.row = s.row /\ r.preview = s.preview
    <2> HIDE DEF Seen, Keys
    <2> QED BY <1>3 DEF Places, Steps
  <1> HIDE DEF r
  <1>5. RequestOK(r)
    BY <1>2, <1>3, <1>4 DEF RequestOK, PlaceOK, AskOK, MadeOK, MovesOK, AsksMoves, CatchUpOK,
                            OverviewOK, Asking, Adding
  <1>6. \A p \in Requests \ {q} : Alike(request[p], r) /\ Alike(r, request[p])
    BY <1>1, <1>2, <1>3, <1>4, AlikeKept DEF Asking
  <1>7. Written < Limit
    BY <1>2, <1>3, Lengths, Constant DEF Exceeded
  <1>8. request' = [request EXCEPT ![q] = r]
    BY <1>2
  <1> QED BY <1>2, <1>3, <1>4, <1>5, <1>6, <1>7, <1>8, RequestMoved

LEMMA BuildStep ==
    ASSUME RecapsConstants, IInv, NEW q \in Requests, Build(q)
    PROVE  IInv'
  <1>1. PICK s : s = request[q]
    OBVIOUS
  <1> DEFINE r == [s EXCEPT !.step = "save", !.saw = Now(Recorded)]
  <1>2. /\ s.step = "build"
        /\ request' = [request EXCEPT ![q] = r] /\ UNCHANGED <<story, vote, summaries>>
    BY <1>1 DEF Build, At
  <1>3. s \in Places /\ RequestOK(s) /\ s.row <= Len(summaries[s.kind]) /\ RequestsOK /\ TypeOK
    BY <1>1, OfRequest
  <1>4. PICK now \in Seen :
           /\ now = Now(Recorded) /\ now.events = Len(events) /\ now.moves = moves
           /\ now.votes = Recorded
    <2>1. Len(events) \in 0 .. MaxEvents /\ moves \in 0 .. MaxMoves /\ Recorded \subseteq Votes
      BY <1>3, Fields, Constant DEF Recorded
    <2>2. [events |-> Len(events), moves |-> moves, votes |-> Recorded] \in Seen
      BY <2>1 DEF Seen
    <2> HIDE DEF Seen, Recorded
    <2> QED BY <2>2 DEF Now
  <1>5. /\ r \in Places /\ r.step = "save" /\ r.kind = s.kind /\ r.key = s.key /\ r.asked = s.asked
        /\ r.row = s.row /\ r.preview = s.preview /\ r.saw = now
    <2> HIDE DEF Seen, Keys, Now, Recorded
    <2> QED BY <1>3, <1>4 DEF Places, Steps
  <1> HIDE DEF r
  <1>6. MadeOK(r)
    <2>1. /\ s.asked.events <= Len(events) /\ s.asked.moves <= moves
          /\ s.asked.events \in Nat /\ s.asked.moves \in Nat /\ Len(events) \in Nat /\ moves \in Nat
      BY <1>3, PlaceFields, Fields, Constant DEF RequestOK, PlaceOK
    <2>2. \A v \in Votes : Selected(v) => v \in Recorded
      BY DEF Selected, Recorded
    <2> QED BY <1>4, <1>5, <2>1, <2>2 DEF MadeOK, Sees, Heeds, Knows
  <1>7. RequestOK(r)
    BY <1>2, <1>3, <1>5, <1>6 DEF RequestOK, PlaceOK, AskOK, MovesOK, AsksMoves, CatchUpOK,
                                  OverviewOK, Asking, Adding
  <1>8. \A p \in Requests \ {q} : Alike(request[p], r) /\ Alike(r, request[p])
    BY <1>1, <1>2, <1>3, <1>5, AlikeKept DEF Asking
  <1>9. request[q].step \in Paid
    BY <1>1, <1>2 DEF Paid
  <1>10. request' = [request EXCEPT ![q] = r]
    BY <1>2
  <1> QED BY <1>2, <1>3, <1>5, <1>7, <1>8, <1>9, <1>10, RequestMoved

\* An answer keeps of a request what it asked for.
Given(s, i, limited) ==
    [Idle EXCEPT !.step = IF s.kind = "full" THEN "preview" ELSE "answer",
                 !.kind = s.kind, !.asked = s.asked, !.row = i, !.limited = limited]

GivenAs(r, s, i, limited) ==
    /\ r \in Places /\ r.kind = s.kind /\ r.asked = s.asked /\ r.row = i
    /\ r.limited = limited /\ r.preview = 0
    /\ r.step = IF s.kind = "full" THEN "preview" ELSE "answer"

LEMMA GivenPlace ==
    ASSUME RecapsConstants, NEW s \in Places, NEW i \in Nat, NEW limited \in BOOLEAN
    PROVE  GivenAs(Given(s, i, limited), s, i, limited)
  <1> DEFINE r == Given(s, i, limited)
  <1>1. s.kind \in AllKinds /\ s.asked \in Seen
    BY PlaceFields
  <1>2. Idle \in Places /\ Idle.preview = 0
    BY IdlePlace
  <1> DEFINE step == IF s.kind = "full" THEN "preview" ELSE "answer"
  <1>3. step \in Steps
    BY DEF Steps
  <1>4. r = [Idle EXCEPT !.step = step, !.kind = s.kind, !.asked = s.asked, !.row = i,
                         !.limited = limited]
    BY DEF Given
  <1> HIDE DEF r, step, Idle, Seen, Keys, Steps, AllKinds
  <1>5. /\ r \in Places /\ r.kind = s.kind /\ r.asked = s.asked /\ r.row = i
        /\ r.limited = limited /\ r.preview = 0 /\ r.step = step
    BY <1>1, <1>2, <1>3, <1>4 DEF Places
  <1>6. GivenAs(r, s, i, limited)
    BY <1>5 DEF step, GivenAs
  <1> QED BY <1>6 DEF r

\* What is found by the key of a request is good enough for it.
LEMMA CachedStep ==
    ASSUME RecapsConstants, IInv, NEW q \in Requests, Cached(q)
    PROVE  IInv'
  <1>1. PICK s : s = request[q]
    OBVIOUS
  <1>2. PICK k : k = s.kind
    OBVIOUS
  <1>3. PICK n : n = Len(summaries[k])
    OBVIOUS
  <1>4. PICK row : row = summaries[k][n]
    OBVIOUS
  <1>5. PICK r : r = Given(s, n, FALSE)
    OBVIOUS
  <1>6. /\ s.step = "key" /\ n > 0 /\ row.key = s.key
        /\ request' = [request EXCEPT ![q] = r] /\ UNCHANGED <<story, vote, summaries>>
    BY <1>1, <1>2, <1>3, <1>4, <1>5 DEF Cached, Fresh, Answer, At, Kind, Newest, Given
  <1>7. /\ s \in Places /\ RequestOK(s) /\ RequestsOK /\ RowsOK /\ NewestOK /\ TypeOK
        /\ k \in AllKinds /\ n \in Nat
    BY <1>1, <1>2, <1>3, OfRequest
  <1>8. /\ r \in Places /\ r.kind = k /\ r.asked = s.asked /\ r.row = n
        /\ r.limited = FALSE /\ r.preview = 0
        /\ r.step = IF k = "full" THEN "preview" ELSE "answer"
    <2>1. FALSE \in BOOLEAN
      OBVIOUS
    <2>2. GivenAs(r, s, n, FALSE)
      BY <1>5, <1>7, <2>1, GivenPlace
    <2> QED BY <1>2, <2>2 DEF GivenAs
  <1>9. /\ s.key \in Pairs /\ Counts(k, s.key, s.asked.events) /\ k \in {"recap", "full"}
        /\ s.asked.events \in Nat /\ s.asked.moves \in Nat /\ s.asked.votes \subseteq Marked
        /\ s.asked.events <= Len(events) /\ s.asked.moves <= moves
        /\ moves \in Nat /\ Len(events) \in Nat
    BY <1>2, <1>6, <1>7, PlaceFields, Fields, Constant
       DEF RequestOK, PlaceOK, AskOK, Asking
  <1>10. /\ row \in Rows /\ RowOK(k, row) /\ Row(r) = row /\ row.saw.events \in Nat
         /\ row.saw.moves \in Nat
         /\ s.key[1] \in Nat /\ s.key[2] \in Nat
    <2>1. n \in 1 .. Len(summaries[k])
      BY <1>3, <1>6, <1>7
    <2>2. row \in Rows /\ RowOK(k, row)
      BY <1>4, <1>7, <2>1, RowIn DEF RowsOK
    <2>3. Row(r) = row
      BY <1>4, <1>8 DEF Row
    <2> QED BY <1>9, <2>2, <2>3, RowFields, PairKey
  <1>11. PlaceOK(r) /\ AskOK(r) /\ MadeOK(r) /\ MovesOK(r)
    <2>1. Len(PreviewRows) \in Nat
      BY <1>7, Lengths
    <2> QED BY <1>3, <1>6, <1>7, <1>8, <1>9, <2>1
               DEF PlaceOK, AskOK, MadeOK, MovesOK, AsksMoves, Asking, Adding
  <1>12. CatchUpOK(r)
    <2> SUFFICES ASSUME k = "recap" PROVE CatchUpOK(r)
      BY <1>8 DEF CatchUpOK
    <2>1. row.saw.events >= s.asked.events
      BY <1>6, <1>9, <1>10 DEF RowOK, Counts
    <2>2. disordered \/ row.saw.moves >= s.asked.moves
      <3>1. CASE ~disordered
        <4>1. AsksMoves(s)
          BY <1>2, <1>6, <3>1 DEF AsksMoves, Asking
        <4>2. n \in 1 .. Newest("recap") /\ row = summaries["recap"][n]
          BY <1>3, <1>4, <1>6, <1>7 DEF Newest
        <4> QED BY <1>6, <1>7, <1>9, <4>1, <4>2 DEF RequestOK, MovesOK
      <3> QED BY <3>1
    <2>3. s.asked.votes \subseteq row.saw.votes \cup row.late
      <3>1. row.key # Stale
        BY <1>6, <1>9, NotPairs
      <3>2. row = summaries["recap"][Newest("recap")] /\ Newest("recap") > 0
        BY <1>3, <1>4, <1>6 DEF Newest
      <3>3. ASSUME NEW v \in s.asked.votes PROVE v \in row.saw.votes \cup row.late
        <4>1. v \in Votes /\ vote[v].step = "done"
          BY <1>9 DEF Marked
        <4> QED BY <1>7, <3>1, <3>2, <4>1 DEF NewestOK, Handled, Selected, Knows
      <3> QED BY <3>3
    <2> QED BY <1>8, <1>10, <2>1, <2>2, <2>3 DEF CatchUpOK
  <1>13. OverviewOK(r)
    <2> SUFFICES ASSUME k = "full" PROVE OverviewOK(r)
      BY <1>8, <1>9 DEF OverviewOK
    <2>1. CloseTo(s.asked.events, row.saw)
      <3>1. /\ s.key[1] <= row.saw.events /\ 3 * s.key[2] <= row.saw.events + 2
            /\ s.asked.events <= 3 * s.key[2]
            /\ \A i \in s.key[1] + 1 .. s.asked.events : ~events[i]
        BY <1>6, <1>9, <1>10 DEF RowOK, Counts
      <3>2. s.asked.events <= row.saw.events + 2
        BY <1>9, <1>10, <3>1, SMTT(30)
      <3>3. \A i \in row.saw.events + 1 .. s.asked.events : i \in s.key[1] + 1 .. s.asked.events
        BY <1>9, <1>10, <3>1
      <3> QED BY <3>1, <3>2, <3>3 DEF CloseTo
    <2> QED BY <1>6, <1>8, <1>9, <1>10, <2>1 DEF OverviewOK, Adding
  <1>14. RequestOK(r)
    BY <1>11, <1>12, <1>13 DEF RequestOK
  <1>15. r.step \notin Asking /\ r.step \notin Paid /\ r.step # "set"
    BY <1>8 DEF Asking, Paid
  <1>16. \A p \in Requests \ {q} : Alike(request[p], r) /\ Alike(r, request[p])
    BY <1>7, <1>15, AlikeKept
  <1>17. r.row <= Len(summaries[r.kind])
    BY <1>3, <1>7, <1>8
  <1> QED BY <1>6, <1>8, <1>14, <1>15, <1>16, <1>17, RequestMoved

LEMMA LimitedStep ==
    ASSUME RecapsConstants, IInv, NEW q \in Requests, Limited(q)
    PROVE  IInv'
  <1>1. PICK s : s = request[q]
    OBVIOUS
  <1>2. PICK n : n = Len(summaries[s.kind])
    OBVIOUS
  <1>3. UNCHANGED <<story, vote, summaries>>
    BY DEF Limited
  <1>4. CASE n > 0
    <2>1. PICK r : r = Given(s, n, TRUE)
      OBVIOUS
    <2>2. request' = [request EXCEPT ![q] = r]
      BY <1>1, <1>2, <1>4, <2>1 DEF Limited, Answer, Kind, Newest, Given
    <2>3. /\ s \in Places /\ RequestOK(s) /\ RequestsOK /\ TypeOK
          /\ s.kind \in AllKinds /\ n \in Nat
      BY <1>1, <1>2, OfRequest
    <2>4. /\ r \in Places /\ r.kind = s.kind /\ r.asked = s.asked /\ r.row = n
          /\ r.limited = TRUE /\ r.preview = 0
          /\ r.step = IF s.kind = "full" THEN "preview" ELSE "answer"
      <3>1. GivenAs(r, s, n, TRUE)
        BY <2>1, <2>3, GivenPlace
      <3> QED BY <3>1 DEF GivenAs
    <2>5. RequestOK(r)
      <3>1. Len(PreviewRows) \in Nat
        BY <2>3, Lengths
      <3>2. PlaceOK(r) /\ AskOK(r) /\ MadeOK(r) /\ MovesOK(r)
        BY <1>2, <1>4, <2>3, <2>4, <3>1
           DEF RequestOK, PlaceOK, AskOK, MadeOK, MovesOK, AsksMoves, Asking, Adding
      <3>3. CatchUpOK(r) /\ OverviewOK(r)
        BY <2>4 DEF CatchUpOK, OverviewOK
      <3> QED BY <3>2, <3>3 DEF RequestOK
    <2>6. r.step \notin Asking /\ r.step \notin Paid /\ r.step # "set"
      BY <2>4 DEF Asking, Paid
    <2>7. \A p \in Requests \ {q} : Alike(request[p], r) /\ Alike(r, request[p])
      BY <2>3, <2>6, AlikeKept
    <2>8. r.row <= Len(summaries[r.kind])
      BY <1>2, <2>3, <2>4
    <2> QED BY <1>3, <2>2, <2>4, <2>5, <2>6, <2>7, <2>8, RequestMoved
  <1>5. CASE ~(n > 0)
    <2>1. request' = [request EXCEPT ![q] = Idle]
      BY <1>1, <1>2, <1>5 DEF Limited, Kind, Newest
    <2> QED BY <1>3, <2>1, BecomesIdle
  <1> QED BY <1>4, <1>5

LEMMA FailsStep ==
    ASSUME RecapsConstants, IInv, NEW q \in Requests, Fails(q)
    PROVE  IInv'
  BY BecomesIdle DEF Fails

LEMMA ReturnStep ==
    ASSUME RecapsConstants, IInv, NEW q \in Requests, Return(q)
    PROVE  IInv'
  BY BecomesIdle DEF Return

LEMMA ShortenAskedStep ==
    ASSUME RecapsConstants, IInv, NEW q \in Requests, ShortenAsked(q)
    PROVE  IInv'
  <1>1. PICK s : s = request[q]
    OBVIOUS
  <1> DEFINE r == [s EXCEPT !.step = "shorten"]
  <1>2. /\ s.step = "preview" /\ ~Exceeded
        /\ request' = [request EXCEPT ![q] = r] /\ UNCHANGED <<story, vote, summaries>>
    BY <1>1 DEF ShortenAsked, At
  <1>3. s \in Places /\ RequestOK(s) /\ s.row <= Len(summaries[s.kind]) /\ RequestsOK /\ TypeOK
    BY <1>1, OfRequest
  <1>4. /\ r \in Places /\ r.step = "shorten" /\ r.kind = s.kind /\ r.asked = s.asked
        /\ r.row = s.row /\ r.preview = s.preview /\ r.limited = s.limited
    <2> HIDE DEF Seen, Keys
    <2> QED BY <1>3 DEF Places, Steps
  <1> HIDE DEF r
  <1>5. RequestOK(r)
    <2>1. PlaceOK(r) /\ AskOK(r) /\ MadeOK(r) /\ MovesOK(r)
      BY <1>2, <1>3, <1>4 DEF RequestOK, PlaceOK, AskOK, MadeOK, MovesOK, AsksMoves, Asking, Adding
    <2>2. Row(r) = Row(s)
      BY <1>4 DEF Row
    <2>3. OverviewOK(s)
      BY <1>3 DEF RequestOK
    <2>4. CatchUpOK(r) /\ OverviewOK(r)
      BY <1>2, <1>4, <2>2, <2>3 DEF CatchUpOK, OverviewOK, Adding
    <2> QED BY <2>1, <2>4 DEF RequestOK
  <1>6. \A p \in Requests \ {q} : Alike(request[p], r) /\ Alike(r, request[p])
    BY <1>3, <1>4, AlikeKept DEF Asking
  <1>7. Written < Limit
    BY <1>2, <1>3, Lengths, Constant DEF Exceeded
  <1>8. request' = [request EXCEPT ![q] = r]
    BY <1>2
  <1> QED BY <1>2, <1>3, <1>4, <1>5, <1>6, <1>7, <1>8, RequestMoved

\* An overview is returned with the preview in row i, or without one.
LEMMA PreviewShown ==
    ASSUME RecapsConstants, IInv, NEW q \in Requests, NEW i \in 0 .. Len(PreviewRows),
           request[q].step \in Adding, Preview(q, i), UNCHANGED <<story, vote, summaries>>,
           i # 0 /\ ~request[q].limited =>
               CloseTo(request[q].asked.events, PreviewRows[i].saw)
    PROVE  IInv'
  <1>1. PICK s : s = request[q]
    OBVIOUS
  <1>0. PICK n \in 0 .. Len(PreviewRows) : n = i
    OBVIOUS
  <1> DEFINE r == [s EXCEPT !.step = "answer", !.preview = n]
  <1>2. request' = [request EXCEPT ![q] = r]
    BY <1>0, <1>1 DEF Preview
  <1>3. /\ s \in Places /\ RequestOK(s) /\ s.row <= Len(summaries[s.kind]) /\ RequestsOK /\ TypeOK
        /\ Len(PreviewRows) \in Nat
    BY <1>1, OfRequest, Lengths
  <1>4. /\ r \in Places /\ r.step = "answer" /\ r.kind = s.kind /\ r.asked = s.asked
        /\ r.row = s.row /\ r.preview = n /\ r.limited = s.limited
    <2>1. n \in Nat
      BY <1>0, <1>3
    <2> HIDE DEF Seen, Keys
    <2> QED BY <1>3, <2>1 DEF Places, Steps
  <1> HIDE DEF r
  <1>5. RequestOK(r)
    <2>1. s.kind = "full"
      BY <1>1, <1>3 DEF RequestOK, PlaceOK
    <2>2. PlaceOK(r) /\ AskOK(r) /\ MadeOK(r) /\ MovesOK(r) /\ CatchUpOK(r)
      BY <1>0, <1>1, <1>3, <1>4, <2>1
         DEF RequestOK, PlaceOK, AskOK, MadeOK, MovesOK, AsksMoves, CatchUpOK, Asking, Adding
    <2>3. Row(r) = Row(s)
      BY <1>4 DEF Row
    <2>4. OverviewOK(s)
      BY <1>3 DEF RequestOK
    <2>5. OverviewOK(r)
      BY <1>0, <1>1, <1>4, <2>1, <2>3, <2>4 DEF OverviewOK, Adding
    <2> QED BY <2>2, <2>5 DEF RequestOK
  <1>6. r.step \notin Asking /\ r.step \notin Paid /\ r.step # "set"
    BY <1>4 DEF Asking, Paid
  <1>7. \A p \in Requests \ {q} : Alike(request[p], r) /\ Alike(r, request[p])
    BY <1>3, <1>6, AlikeKept
  <1>8. r.row <= Len(summaries[r.kind])
    BY <1>3, <1>4
  <1> QED BY <1>2, <1>4, <1>5, <1>6, <1>7, <1>8, RequestMoved

LEMMA PreviewCachedStep ==
    ASSUME RecapsConstants, IInv, NEW q \in Requests, PreviewCached(q)
    PROVE  IInv'
  <1>1. PICK s : s = request[q]
    OBVIOUS
  <1>2. PICK n : n = Len(PreviewRows)
    OBVIOUS
  <1>3. PICK row : row = PreviewRows[n]
    OBVIOUS
  <1>4. /\ s \in Places /\ RequestOK(s) /\ TypeOK /\ RowsOK /\ n \in Nat
        /\ PreviewRows \in Seq(Rows) /\ PreviewRows = summaries["full-preview"]
    BY <1>1, <1>2, OfRequest, Lengths
  <1>5. /\ s.step = "preview" /\ n > 0 /\ row.key = summaries["full"][s.row].key
        /\ Preview(q, n) /\ UNCHANGED <<story, vote, summaries>>
    <2>1. PreviewRows # <<>> /\ Last(PreviewRows).key = summaries["full"][s.row].key
      BY <1>1 DEF PreviewCached, PreviewFresh, PreviewKey
    <2>2. n > 0
      BY <1>2, <1>4, <2>1
    <2> QED BY <1>1, <1>2, <1>3, <2>1, <2>2 DEF PreviewCached, Last, At
  <1>6. ASSUME ~s.limited PROVE CloseTo(s.asked.events, row.saw)
    <2>1. s.kind = "full" /\ Row(s).key \in Pairs /\ Counts("full", Row(s).key, s.asked.events)
      BY <1>4, <1>5, <1>6 DEF RequestOK, PlaceOK, OverviewOK, Adding
    <2>2. row.key = Row(s).key
      BY <1>5, <2>1 DEF Row
    <2>3. RowOK("full-preview", row) /\ row \in Rows
      BY <1>2, <1>3, <1>4, <1>5 DEF RowsOK, AllKinds
    <2>4. /\ row.saw.events \in Nat /\ row.key[1] \in Nat /\ row.key[2] \in Nat
          /\ s.asked.events \in Nat
      BY <1>4, <2>1, <2>2, <2>3, RowFields, PairKey, PlaceFields
    <2>5. /\ row.key[1] <= row.saw.events /\ 3 * row.key[2] <= row.saw.events + 2
          /\ s.asked.events <= 3 * row.key[2]
          /\ \A i \in row.key[1] + 1 .. s.asked.events : ~events[i]
      BY <2>1, <2>2, <2>3 DEF RowOK, Counts
    <2>6. s.asked.events <= row.saw.events + 2
      BY <2>4, <2>5
    <2>7. \A i \in row.saw.events + 1 .. s.asked.events : i \in row.key[1] + 1 .. s.asked.events
      BY <2>4, <2>5
    <2> QED BY <2>5, <2>6, <2>7 DEF CloseTo
  <1>7. n \in 0 .. Len(PreviewRows) /\ request[q].step \in Adding
    BY <1>1, <1>2, <1>4, <1>5 DEF Adding
  <1>8. n # 0 /\ ~request[q].limited => CloseTo(request[q].asked.events, PreviewRows[n].saw)
    BY <1>1, <1>3, <1>6
  <1> QED BY <1>5, <1>7, <1>8, PreviewShown

LEMMA NoPreviewStep ==
    ASSUME RecapsConstants, IInv, NEW q \in Requests, NoPreview(q)
    PROVE  IInv'
  <1>1. request[q].step \in Adding /\ Preview(q, 0) /\ UNCHANGED <<story, vote, summaries>>
    BY DEF NoPreview, At, Adding
  <1>2. 0 \in 0 .. Len(PreviewRows)
    BY OfRequest, Lengths
  <1> QED BY <1>1, <1>2, PreviewShown

-------------------------------------------------------------------------------
(* Steps of the session                                                      *)

LEMMA RequestsStand ==
    ASSUME RequestsOK, request' = request,
           \A q \in Requests : RequestOK(request[q]) => RequestOK(request[q])',
           \A p, q \in Requests : Alike(request[p], request[q]) => Alike(request[p], request[q])'
    PROVE  RequestsOK'
  BY DEF RequestsOK

LEMMA BudgetStands ==
    ASSUME BudgetOK, request' = request, Written' = Written
    PROVE  BudgetOK'
  <1>1. Spending' = Spending
    BY DEF Spending
  <1> QED BY <1>1 DEF BudgetOK

\* A vote that is recorded has not looked for anything yet.
LEMMA VoteStep == ASSUME RecapsConstants, IInv, NEW v \in Votes, Vote(v) PROVE IInv'
  <1>1. /\ events' = events /\ clock' = clock /\ stamped' = stamped /\ updated' = updated
        /\ moves' = moves /\ disordered' = disordered
        /\ summaries' = summaries /\ request' = request
    BY DEF Vote, story, moved
  <1>2. /\ TypeOK /\ RequestsOK /\ RowsOK /\ NewestOK /\ VotesOK /\ StampsOK /\ BudgetOK
        /\ vote \in [Votes -> Ballots]
    BY Fields DEF IInv
  <1>3. vote' \in [Votes -> Ballots]
    <2>1. [vote[v] EXCEPT !.step = "recorded"] \in Ballots
      BY <1>2 DEF Ballots
    <2> HIDE DEF Ballots
    <2> QED BY <1>2, <2>1 DEF Vote
  <1>4. \A u \in Votes : (Selected(u)' <=> Selected(u)) /\ (Selected(u) => vote'[u] = vote[u])
    BY <1>2 DEF Vote, Selected
  <1>5. Marked' = Marked
    BY <1>2 DEF Vote, Marked
  <1>6. /\ LastUpdate' = LastUpdate /\ Written' = Written /\ PreviewRows' = PreviewRows
        /\ Newest("recap")' = Newest("recap")
    BY <1>1 DEF LastUpdate, Written, PreviewRows, Newest
  <1>7. ASSUME NEW x, RequestOK(x) PROVE RequestOK(x)'
    <2>1. PlaceOK(x)' /\ AskOK(x)'
      BY <1>1, <1>5, <1>6, <1>7 DEF RequestOK, PlaceOK, AskOK, Counts
    <2>2. MadeOK(x)'
      BY <1>1, <1>4, <1>7 DEF RequestOK, MadeOK, Sees, Heeds, Row, Knows
    <2>3. MovesOK(x)' /\ CatchUpOK(x)' /\ OverviewOK(x)'
      BY <1>1, <1>6, <1>7 DEF RequestOK, MovesOK, AsksMoves, Since, CatchUpOK, OverviewOK, CloseTo,
                              Counts, Row
    <2> QED BY <2>1, <2>2, <2>3 DEF RequestOK
  <1>8. RequestsOK'
    <2>1. ASSUME NEW q \in Requests, RequestOK(request[q]) PROVE RequestOK(request[q])'
      <3>1. PICK x : x = request[q]
        OBVIOUS
      <3> QED BY <1>1, <1>7, <2>1, <3>1
    <2>2. ASSUME NEW p \in Requests, NEW q \in Requests, Alike(request[p], request[q])
          PROVE  Alike(request[p], request[q])'
      BY <1>1, <2>2 DEF Alike, AsksMoves
    <2> QED BY <1>1, <1>2, <2>1, <2>2, RequestsStand
  <1>9. TypeOK'
    <2> HIDE DEF Places, Rows, Ballots
    <2> QED BY <1>1, <1>2, <1>3 DEF TypeOK
  <1>10. RowsOK'
    BY <1>1, <1>2, <1>6 DEF RowsOK, RowOK, Since
  <1>11. NewestOK' /\ VotesOK'
    <2>1. NewestOK'
      BY <1>1, <1>2, <1>4, <1>6 DEF NewestOK, Handled, Knows
    <2>2. ASSUME NEW u \in Votes, vote'[u].step = "chosen"
          PROVE  vote'[u].row \in 1 .. Newest("recap")'
      BY <1>2, <1>4, <1>6, <2>2 DEF VotesOK, Selected
    <2> QED BY <2>1, <2>2 DEF VotesOK
  <1>12. StampsOK' /\ BudgetOK'
    BY <1>1, <1>2, <1>6, BudgetStands DEF StampsOK
  <1> QED BY <1>8, <1>9, <1>10, <1>11, <1>12 DEF IInv

LEMMA WindowBeginsStep == ASSUME RecapsConstants, IInv, WindowBegins PROVE IInv'
  <1>1. /\ events' = events /\ updated' = updated /\ clock < MaxMoves
        /\ clock' = clock + 1 /\ stamped' = stamped \cup {clock + 1}
        /\ moves' = moves /\ disordered' = disordered /\ vote' = vote
        /\ summaries' = summaries /\ request' = request
    BY DEF WindowBegins
  <1>2. /\ Written' = Written
        /\ \A x : RequestOK(x) => RequestOK(x)'
        /\ \A x, y : Alike(x, y) => Alike(x, y)'
        /\ RowsOK => RowsOK'
        /\ NewestOK => NewestOK'
        /\ VotesOK => VotesOK'
    BY <1>1, Unmoved
  <1>3. RequestsOK'
    <2>1. ASSUME NEW q \in Requests, RequestOK(request[q]) PROVE RequestOK(request[q])'
      <3>1. PICK x : x = request[q]
        OBVIOUS
      <3> QED BY <1>1, <1>2, <2>1, <3>1
    <2>2. ASSUME NEW p \in Requests, NEW q \in Requests, Alike(request[p], request[q])
          PROVE  Alike(request[p], request[q])'
      <3>1. PICK x, y : x = request[p] /\ y = request[q]
        OBVIOUS
      <3> QED BY <1>1, <1>2, <2>2, <3>1
    <2> QED BY <1>1, <2>1, <2>2, RequestsStand DEF IInv
  <1>4. /\ moves \in 0 .. clock /\ clock \in Nat /\ MaxMoves \in Nat /\ stamped \subseteq 1 .. clock
        /\ updated \in [Threads -> 0 .. clock] /\ TypeOK
    BY Fields, Constant DEF IInv
  <1>5. TypeOK'
    <2>1. clock' \in 0 .. MaxMoves /\ moves' \in 0 .. clock' /\ stamped' \subseteq 1 .. clock'
      BY <1>1, <1>4
    <2>2. updated' \in [Threads -> 0 .. clock']
      <3>1. \A t \in Threads : updated[t] \in 0 .. clock'
        BY <1>1, <1>4
      <3> QED BY <1>1, <1>4, <3>1
    <2> HIDE DEF Places, Rows
    <2> QED BY <1>1, <1>4, <2>1, <2>2 DEF TypeOK
  <1>6. StampsOK'
    <2>1. IsFiniteSet(stamped) /\ clock + 1 \notin stamped
      <3>1. IsFiniteSet(1 .. clock)
        BY <1>4, FS_Interval
      <3>2. IsFiniteSet(stamped)
        BY <1>4, <3>1, FS_Subset
      <3>3. clock + 1 \notin 1 .. clock
        BY <1>4
      <3> QED BY <1>4, <3>2, <3>3
    <2>2. Cardinality(stamped') = Cardinality(stamped) + 1 /\ Cardinality(stamped) \in Nat
      BY <1>1, <2>1, FS_AddElement, FS_CardinalityType
    <2>3. \A t \in Threads : updated[t] # clock + 1
      BY <1>4
    <2> QED BY <1>1, <1>4, <2>2, <2>3 DEF IInv, StampsOK
  <1>7. BudgetOK'
    BY <1>1, <1>2, BudgetStands DEF IInv
  <1> QED BY <1>2, <1>3, <1>5, <1>6, <1>7 DEF IInv

LEMMA EventCommittedStep ==
    ASSUME RecapsConstants, IInv, NEW notable \in BOOLEAN, EventCommitted(notable)
    PROVE  IInv'
  <1>1. /\ Len(events) < MaxEvents /\ events' = Append(events, notable)
        /\ clock' = clock /\ stamped' = stamped /\ updated' = updated
        /\ moves' = moves /\ disordered' = disordered /\ vote' = vote
        /\ summaries' = summaries /\ request' = request
    BY DEF EventCommitted, moved
  <1>2. TypeOK /\ events \in Seq(BOOLEAN) /\ Len(events) \in Nat /\ MaxEvents \in Nat
    BY Fields, Constant DEF IInv
  <1>3. /\ events' \in Seq(BOOLEAN) /\ Len(events') = Len(events) + 1
        /\ \A i \in 1 .. Len(events) : events'[i] = events[i]
    BY <1>1, <1>2
  <1>4. /\ LastUpdate' = LastUpdate /\ Newest("recap")' = Newest("recap")
        /\ PreviewRows' = PreviewRows /\ Written' = Written
    BY <1>1 DEF LastUpdate, Newest, PreviewRows, Written
  <1>5. ASSUME NEW x \in Places, RequestOK(x) PROVE RequestOK(x)'
    <2>1. /\ x.asked.events <= Len(events) /\ x.asked.events \in Nat
      BY <1>5, PlaceFields DEF RequestOK, PlaceOK
    <2>2. \A i \in 1 .. x.asked.events : events'[i] = events[i]
      BY <1>2, <1>3, <2>1
    <2>3. PlaceOK(x)'
      BY <1>1, <1>2, <1>3, <1>4, <1>5, <2>1 DEF RequestOK, PlaceOK, Marked
    <2>4. \A k, key : key \in Pairs /\ Counts(k, key, x.asked.events) =>
                        Counts(k, key, x.asked.events)'
      BY <2>1, <2>2, PairKey DEF Counts
    <2>5. \A row \in Rows : CloseTo(x.asked.events, row.saw) => CloseTo(x.asked.events, row.saw)'
      BY <2>1, <2>2, RowFields DEF CloseTo
    <2>6. AskOK(x)' /\ MadeOK(x)'
      BY <1>1, <1>5, <2>4 DEF RequestOK, AskOK, MadeOK, Row, Heeds, Selected, Knows
    <2>7. MovesOK(x)' /\ CatchUpOK(x)'
      BY <1>1, <1>4, <1>5 DEF RequestOK, MovesOK, AsksMoves, Since, CatchUpOK, Row
    <2>8. OverviewOK(x)'
      <3>1. Row(x)' = Row(x)
        BY <1>1 DEF Row
      <3>2. OverviewOK(x) /\ PlaceOK(x)
        BY <1>5 DEF RequestOK
      <3>3. x.step \in Adding \cup {"answer"} => Row(x) \in Rows
        BY <1>2, <3>2, RowIn DEF PlaceOK, Row, AllKinds
      <3>4. x.preview # 0 => PreviewRows[x.preview] \in Rows
        <4>1. x.preview \in Nat /\ x.preview <= Len(PreviewRows) /\ PreviewRows \in Seq(Rows)
          BY <1>2, <3>2, PlaceFields, Lengths DEF PlaceOK
        <4> QED BY <4>1
      <3>5. ASSUME x.kind = "full", ~x.limited, x.step \in Adding \cup {"answer"}
            PROVE  CloseTo(x.asked.events, Row(x).saw)'
        <4>1. PICK row \in Rows : row = Row(x)
          BY <3>3, <3>5
        <4>2. CloseTo(x.asked.events, row.saw)'
          BY <2>5, <3>2, <3>5, <4>1 DEF OverviewOK
        <4> QED BY <3>1, <4>1, <4>2
      <3>6. ASSUME x.kind = "full", ~x.limited, x.step \in Adding
            PROVE  (Row(x).key \in Pairs /\ Counts("full", Row(x).key, x.asked.events))'
        <4>1. PICK key : key = Row(x).key
          OBVIOUS
        <4>2. key \in Pairs /\ Counts("full", key, x.asked.events)'
          BY <2>4, <3>2, <3>6, <4>1 DEF OverviewOK
        <4> QED BY <3>1, <4>1, <4>2
      <3>7. ASSUME x.kind = "full", ~x.limited, x.step = "answer", x.preview # 0
            PROVE  CloseTo(x.asked.events, PreviewRows[x.preview].saw)'
        <4>1. PICK row \in Rows : row = PreviewRows[x.preview]
          BY <3>4, <3>7
        <4>2. CloseTo(x.asked.events, row.saw)'
          BY <2>5, <3>2, <3>7, <4>1 DEF OverviewOK
        <4> QED BY <1>4, <4>1, <4>2
      <3> QED BY <1>4, <3>1, <3>2, <3>5, <3>6, <3>7 DEF OverviewOK
    <2> QED BY <2>3, <2>6, <2>7, <2>8 DEF RequestOK
  <1>6. RequestsOK'
    <2>1. ASSUME NEW q \in Requests, RequestOK(request[q]) PROVE RequestOK(request[q])'
      <3>1. PICK x \in Places : x = request[q]
        BY <1>2, Fields
      <3> QED BY <1>1, <1>5, <2>1, <3>1
    <2>2. ASSUME NEW p \in Requests, NEW q \in Requests, Alike(request[p], request[q])
          PROVE  Alike(request[p], request[q])'
      BY <1>1, <2>2 DEF Alike, AsksMoves
    <2> QED BY <1>1, <2>1, <2>2, RequestsStand DEF IInv
  <1>7. TypeOK'
    <2>1. Len(events') <= MaxEvents
      BY <1>1, <1>2, <1>3
    <2> HIDE DEF Places, Rows
    <2> QED BY <1>1, <1>2, <1>3, <2>1 DEF TypeOK
  <1>8. RowsOK' /\ NewestOK' /\ VotesOK'
    BY <1>1, <1>4 DEF IInv, RowsOK, RowOK, Since, NewestOK, VotesOK, Handled, Selected, Knows
  <1>9. StampsOK' /\ BudgetOK'
    BY <1>1, <1>4, BudgetStands DEF IInv, StampsOK
  <1> QED BY <1>6, <1>7, <1>8, <1>9 DEF IInv

LEMMA ThreadMovesStep ==
    ASSUME RecapsConstants, IInv, NEW t \in Threads, ThreadMoves(t)
    PROVE  IInv'
  <1>1. PICK stamp \in stamped :
          /\ stamped' = stamped \ {stamp}
          /\ updated' = [updated EXCEPT ![t] = stamp]
          /\ moves' = moves + 1
          /\ disordered' = (disordered \/ stamp < LastUpdate)
          /\ UNCHANGED <<events, clock, vote, summaries, request>>
    BY DEF ThreadMoves
  <1>2. /\ events' = events /\ clock' = clock /\ vote' = vote
        /\ summaries' = summaries /\ request' = request
    BY <1>1
  <1>3. /\ TypeOK /\ moves \in Nat /\ clock \in Nat /\ clock <= MaxMoves /\ stamp \in 1 .. clock
        /\ stamped \subseteq 1 .. clock /\ MaxMoves \in Nat
        /\ updated \in [Threads -> 0 .. clock] /\ disordered \in BOOLEAN
    BY Fields, Constant DEF IInv
  <1>4. updated' \in [Threads -> 0 .. clock] /\ updated'[t] = stamp
        /\ \A u \in Threads : u # t => updated'[u] = updated[u]
    BY <1>1, <1>3
  <1>5. /\ LastUpdate \in Nat /\ LastUpdate' \in Nat /\ stamp \in Nat
        /\ \A u \in Threads : updated'[u] <= LastUpdate'
        /\ stamp # LastUpdate
    <2>1. /\ LastUpdate \in 0 .. clock
          /\ LastUpdate = 0 \/ \E u \in Threads : LastUpdate = updated[u]
      BY <1>3, LastUpdateIs
    <2>2. (LastUpdate \in 0 .. clock /\ \A u \in Threads : updated[u] <= LastUpdate)'
      <3>1. ASSUME NEW n \in Nat, n = clock
            PROVE  (LastUpdate \in 0 .. n /\ \A u \in Threads : updated[u] <= LastUpdate)'
        <4> DEFINE S == {0} \cup {updated'[u] : u \in Threads}
        <4>1. updated' \in [Threads -> 0 .. n]
          BY <1>4, <3>1
        <4>2. S \in SUBSET Int /\ S # {} /\ S \subseteq 0 .. n
          BY <4>1
        <4>3. IsFiniteSet(S)
          <5>1. IsFiniteSet(0 .. n)
            BY FS_Interval
          <5> QED BY <4>2, <5>1, FS_Subset
        <4>4. Max(S) \in S /\ \A y \in S : y <= Max(S)
          <5> HIDE DEF S
          <5> QED BY <4>2, <4>3, MaxIn
        <4>5. LastUpdate' = Max(S)
          BY DEF LastUpdate
        <4>6. \A u \in Threads : updated'[u] \in S
          OBVIOUS
        <4> HIDE DEF S
        <4> QED BY <4>2, <4>4, <4>5, <4>6
      <3> QED BY <1>2, <1>3, <3>1
    <2>3. \A u \in Threads : updated[u] # stamp
      BY DEF IInv, StampsOK
    <2> QED BY <1>2, <1>3, <2>1, <2>2, <2>3
  <1>6. ~disordered' => ~disordered /\ LastUpdate < LastUpdate'
    <2>1. ~disordered' => ~disordered /\ ~(stamp < LastUpdate)
      BY <1>1
    <2>2. stamp <= LastUpdate'
      BY <1>4, <1>5
    <2> QED BY <1>5, <2>1, <2>2
  <1>7. \A key, n, m : key \in Pairs /\ n \in Nat /\ ~disordered' /\ Since(key, n) => Since(key, m)'
    BY <1>5, <1>6, PairKey DEF Since
  <1>8. /\ Newest("recap")' = Newest("recap") /\ PreviewRows' = PreviewRows /\ Written' = Written
    BY <1>2 DEF Newest, PreviewRows, Written
  <1>9. ASSUME NEW x \in Places, RequestOK(x) PROVE RequestOK(x)'
    <2>1. PlaceOK(x)'
      <3>1. x.asked.moves \in Nat /\ x.asked.moves <= moves
        BY <1>9, PlaceFields DEF RequestOK, PlaceOK
      <3>2. x.asked.moves <= moves'
        BY <1>1, <1>3, <3>1
      <3> QED BY <1>2, <1>8, <1>9, <3>2 DEF RequestOK, PlaceOK, Marked
    <2>2. AskOK(x)' /\ MadeOK(x)'
      BY <1>2, <1>9 DEF RequestOK, AskOK, Counts, MadeOK, Row, Heeds, Sees, Selected, Knows
    <2>3. MovesOK(x)'
      <3> SUFFICES ASSUME AsksMoves(x)' PROVE MovesOK(x)'
        BY DEF MovesOK
      <3>1. AsksMoves(x) /\ ~disordered'
        BY <1>6 DEF AsksMoves
      <3>2. x.key \in Pairs /\ x.asked.moves \in Nat /\ MovesOK(x)
        BY <1>9, <3>1, PlaceFields DEF RequestOK, AskOK, AsksMoves
      <3>3. Since(x.key, x.asked.moves)'
        BY <1>7, <3>1, <3>2 DEF MovesOK
      <3> QED BY <1>2, <1>8, <3>1, <3>2, <3>3 DEF MovesOK
    <2>4. CatchUpOK(x)' /\ OverviewOK(x)'
      BY <1>2, <1>6, <1>8, <1>9 DEF RequestOK, CatchUpOK, OverviewOK, Row, CloseTo, Counts
    <2> QED BY <2>1, <2>2, <2>3, <2>4 DEF RequestOK
  <1>10. RequestsOK'
    <2>1. ASSUME NEW q \in Requests, RequestOK(request[q]) PROVE RequestOK(request[q])'
      <3>1. PICK x \in Places : x = request[q]
        BY <1>3, Fields
      <3> QED BY <1>2, <1>9, <2>1, <3>1
    <2>2. ASSUME NEW p \in Requests, NEW q \in Requests, Alike(request[p], request[q])
          PROVE  Alike(request[p], request[q])'
      BY <1>2, <1>6, <2>2 DEF Alike, AsksMoves
    <2> QED BY <1>2, <2>1, <2>2, RequestsStand DEF IInv
  <1>11. RowsOK'
    <2>1. ASSUME NEW k \in AllKinds, NEW i \in 1 .. Len(summaries[k])
          PROVE  RowOK(k, summaries[k][i])'
      <3>1. PICK row \in Rows : row = summaries[k][i]
        BY <1>3, <2>1, RowIn
      <3>2. RowOK(k, row)
        BY <3>1 DEF IInv, RowsOK
      <3>3. row.saw.moves \in Nat
        BY <3>1, RowFields
      <3>4. RowOK(k, row)'
        BY <1>6, <1>7, <3>2, <3>3 DEF RowOK
      <3> QED BY <1>2, <3>1, <3>4
    <2> QED BY <1>2, <2>1 DEF RowsOK
  <1>12. NewestOK' /\ VotesOK'
    BY <1>2, <1>8 DEF IInv, NewestOK, VotesOK, Handled, Selected, Knows
  <1>13. IsFiniteSet(stamped) /\ Cardinality(stamped) \in Nat
         /\ Cardinality(stamped') = Cardinality(stamped) - 1 /\ Cardinality(stamped') \in Nat
    <2>1. IsFiniteSet(1 .. clock)
      BY <1>3, FS_Interval
    <2>2. IsFiniteSet(stamped)
      BY <1>3, <2>1, FS_Subset
    <2> QED BY <1>1, <2>2, FS_RemoveElement, FS_CardinalityType
  <1>14. StampsOK'
    BY <1>1, <1>2, <1>3, <1>4, <1>13 DEF IInv, StampsOK
  <1>15. TypeOK'
    <2>1. moves' \in 0 .. clock' /\ clock' \in 0 .. MaxMoves
      BY <1>1, <1>2, <1>3, <1>13 DEF IInv, StampsOK
    <2>2. stamped' \subseteq 1 .. clock' /\ disordered' \in BOOLEAN
          /\ updated' \in [Threads -> 0 .. clock']
      BY <1>1, <1>2, <1>3, <1>4
    <2> HIDE DEF Places, Rows
    <2> QED BY <1>2, <1>3, <2>1, <2>2 DEF TypeOK
  <1>16. BudgetOK'
    BY <1>2, <1>8, BudgetStands DEF IInv
  <1> QED BY <1>10, <1>11, <1>12, <1>14, <1>15, <1>16 DEF IInv

-------------------------------------------------------------------------------
(* Steps that change the rows                                                *)

\* One request moves, and rows with it, but none is taken away.
LEMMA RowsMoved ==
    ASSUME RecapsConstants, IInv, NEW q \in Requests, NEW r \in Places,
           request' = [request EXCEPT ![q] = r], UNCHANGED <<story, vote>>,
           summaries' \in [AllKinds -> Seq(Rows)],
           \A k \in AllKinds : Len(summaries'[k]) >= Len(summaries[k]),
           r.row <= Len(summaries'[r.kind]),
           RequestOK(r)',
           \A p \in Requests \ {q} : \A x \in Places : x = request[p] => RequestOK(x)',
           \A p \in Requests \ {q} : Alike(request[p], r) /\ Alike(r, request[p]),
           RowsOK', NewestOK', BudgetOK'
    PROVE  IInv'
  <1>1. /\ events' = events /\ clock' = clock /\ stamped' = stamped /\ updated' = updated
        /\ moves' = moves /\ disordered' = disordered /\ vote' = vote
    BY DEF story, moved
  <1>2. request \in [Requests -> Places] /\ TypeOK
    BY Fields DEF IInv
  <1>3. request'[q] = r /\ \A p \in Requests : p # q => request'[p] = request[p]
    BY <1>2
  <1>4. TypeOK'
    <2>1. request' \in [Requests -> Places]
      BY <1>2
    <2>2. ASSUME NEW p \in Requests PROVE request'[p].row <= Len(summaries'[request'[p].kind])
      <3>1. CASE p = q
        BY <1>3, <3>1
      <3>2. CASE p # q
        <4>1. PICK x \in Places : x = request[p]
          BY <1>2
        <4>2. /\ x.row <= Len(summaries[x.kind]) /\ x.row \in Nat /\ x.kind \in AllKinds
              /\ Len(summaries[x.kind]) \in Nat
          BY <1>2, <4>1, Fields, PlaceFields, Lengths
        <4>3. Len(summaries'[x.kind]) >= Len(summaries[x.kind]) /\ Len(summaries'[x.kind]) \in Nat
          BY <4>2
        <4>4. x.row <= Len(summaries'[x.kind])
          BY <4>2, <4>3
        <4> QED BY <1>3, <3>2, <4>1, <4>4
      <3> QED BY <3>1, <3>2
    <2> HIDE DEF Places, Rows, AllKinds
    <2> QED BY <1>1, <1>2, <2>1, <2>2 DEF TypeOK
  <1>5. RequestsOK'
    <2>1. ASSUME NEW p \in Requests PROVE RequestOK(request[p])'
      <3>1. CASE p = q
        BY <1>3, <3>1
      <3>2. CASE p # q
        <4>1. PICK x \in Places : x = request[p]
          BY <1>2
        <4>2. RequestOK(x)'
          BY <3>2, <4>1
        <4> QED BY <1>3, <3>2, <4>1, <4>2
      <3> QED BY <3>1, <3>2
    <2>2. ASSUME NEW p1 \in Requests, NEW p2 \in Requests, p1 # p2
          PROVE  Alike(request[p1], request[p2])'
      <3>1. PICK x, y : x = request'[p1] /\ y = request'[p2]
        OBVIOUS
      <3>2. Alike(x, y)
        BY <1>3, <2>2, <3>1 DEF IInv, RequestsOK
      <3>3. Alike(x, y)'
        BY <1>1, <3>2 DEF Alike, AsksMoves
      <3> QED BY <3>1, <3>3
    <2> QED BY <2>1, <2>2 DEF RequestsOK
  <1>6. StampsOK' /\ VotesOK'
    <2>1. Newest("recap")' >= Newest("recap") /\ Newest("recap") \in Nat /\ Newest("recap")' \in Nat
      BY <1>2, Lengths DEF Newest, AllKinds
    <2> QED BY <1>1, <2>1 DEF IInv, StampsOK, VotesOK
  <1> QED BY <1>4, <1>5, <1>6 DEF IInv

\* A row that has no key yet disturbs nobody.
LEMMA Appended ==
    ASSUME RecapsConstants, TypeOK, RowsOK, NewestOK, NEW k \in AllKinds, NEW row \in Rows,
           row.key = NoKey, k = "recap" => Heeds("recap", row),
           summaries' = [summaries EXCEPT ![k] = Append(@, row)], UNCHANGED <<story, vote>>
    PROVE  /\ summaries' \in [AllKinds -> Seq(Rows)]
           /\ Len(summaries'[k]) = Len(summaries[k]) + 1
           /\ summaries'[k][Len(summaries[k]) + 1] = row
           /\ \A j \in AllKinds :
                /\ Len(summaries'[j]) >= Len(summaries[j])
                /\ \A i \in 1 .. Len(summaries[j]) : summaries'[j][i] = summaries[j][i]
           /\ \A x \in Places : RequestOK(x) => RequestOK(x)'
           /\ RowsOK'
           /\ NewestOK'
           /\ Written' = Written + 1
  <1>1. /\ events' = events /\ clock' = clock /\ stamped' = stamped /\ updated' = updated
        /\ moves' = moves /\ disordered' = disordered /\ vote' = vote
    BY DEF story, moved
  <1>2. /\ summaries \in [AllKinds -> Seq(Rows)]
        /\ \A j \in AllKinds : summaries[j] \in Seq(Rows) /\ Len(summaries[j]) \in Nat
    BY Fields
  <1>3. PICK old \in Seq(Rows) : old = summaries[k]
    BY <1>2
  <1>4. PICK n \in Nat : n = Len(old)
    BY <1>3
  <1>5. PICK new : new = Append(old, row)
    OBVIOUS
  <1>6. /\ new \in Seq(Rows) /\ Len(new) = n + 1 /\ new[n + 1] = row
        /\ \A i \in 1 .. n : new[i] = old[i]
    <2> HIDE DEF Rows
    <2> QED BY <1>4, <1>5
  <1>7. summaries'[k] = new /\ \A j \in AllKinds : j # k => summaries'[j] = summaries[j]
    BY <1>2, <1>3, <1>5
  <1>8. summaries' \in [AllKinds -> Seq(Rows)]
    <2> HIDE DEF Rows, AllKinds
    <2> QED BY <1>2, <1>3, <1>5, <1>6
  <1>9. \A j \in AllKinds :
          /\ Len(summaries'[j]) \in Nat /\ Len(summaries'[j]) >= Len(summaries[j])
          /\ \A i \in 1 .. Len(summaries[j]) : summaries'[j][i] = summaries[j][i]
    BY <1>2, <1>3, <1>4, <1>6, <1>7
  <1>10. Len(summaries'[k]) = Len(summaries[k]) + 1 /\ summaries'[k][Len(summaries[k]) + 1] = row
    BY <1>3, <1>4, <1>6, <1>7
  <1>11. LastUpdate' = LastUpdate
    BY <1>1 DEF LastUpdate
  <1>12. ASSUME NEW j \in AllKinds, NEW i \in 1 .. Len(summaries'[j])
         PROVE  \/ i \in 1 .. Len(summaries[j]) /\ summaries'[j][i] = summaries[j][i]
                \/ j = k /\ i = Len(summaries[j]) + 1 /\ summaries'[j][i] = row
    <2>1. CASE j = k
      BY <1>3, <1>4, <1>6, <1>7, <2>1
    <2>2. CASE j # k
      BY <1>7, <2>2
    <2> QED BY <2>1, <2>2
  <1>13. ASSUME NEW x \in Places, RequestOK(x) PROVE RequestOK(x)'
    <2>1. /\ x.kind \in AllKinds /\ x.row \in Nat /\ x.preview \in Nat /\ x.kind \in {"recap", "full"}
          /\ PlaceOK(x) /\ AskOK(x) /\ MadeOK(x) /\ MovesOK(x) /\ CatchUpOK(x) /\ OverviewOK(x)
      BY <1>13, PlaceFields DEF RequestOK, PlaceOK
    <2>2. x.step \in {"set", "answer"} \cup Adding =>
            x.row \in 1 .. Len(summaries[x.kind]) /\ Row(x)' = Row(x)
      BY <1>9, <2>1 DEF PlaceOK, Row
    <2>3. x.preview # 0 => PreviewRows'[x.preview] = PreviewRows[x.preview]
      <3>1. "full-preview" \in AllKinds /\ x.preview <= Len(PreviewRows)
        BY <2>1 DEF AllKinds, PlaceOK
      <3> QED BY <1>2, <1>9, <2>1, <3>1 DEF PreviewRows
    <2>4. PlaceOK(x)'
      <3>1. "full-preview" \in AllKinds /\ x.preview <= Len(PreviewRows)
        BY <2>1 DEF AllKinds, PlaceOK
      <3>2. x.preview <= Len(PreviewRows')
        BY <1>2, <1>9, <2>1, <3>1 DEF PreviewRows
      <3>3. x.row \in 1 .. Len(summaries[x.kind]) => x.row \in 1 .. Len(summaries'[x.kind])
        BY <1>2, <1>9, <2>1
      <3> QED BY <1>1, <2>1, <3>2, <3>3 DEF PlaceOK, Marked
    <2>5. AskOK(x)' /\ MadeOK(x)'
      BY <1>1, <2>1, <2>2 DEF AskOK, Counts, MadeOK, Heeds, Selected, Knows
    <2>6. MovesOK(x)'
      <3> SUFFICES ASSUME AsksMoves(x)' PROVE MovesOK(x)'
        BY DEF MovesOK
      <3>1. AsksMoves(x)
        BY <1>1 DEF AsksMoves
      <3>2. Since(x.key, x.asked.moves)'
        BY <1>1, <1>11, <2>1, <3>1 DEF MovesOK, Since
      <3>3. ASSUME NEW i \in 1 .. Newest("recap")', NEW y, y = summaries'["recap"][i],
                   y.key \in Pairs, y.key[2] = x.key[2]
            PROVE  y.saw.moves >= x.asked.moves
        <4>1. "recap" \in AllKinds /\ i \in 1 .. Len(summaries'["recap"])
          BY <3>3 DEF AllKinds, Newest
        <4>2. y # row
          BY <3>3, NotPairs
        <4>3. i \in 1 .. Newest("recap") /\ y = summaries["recap"][i]
          BY <1>12, <3>3, <4>1, <4>2 DEF Newest
        <4> QED BY <2>1, <3>1, <3>3, <4>3 DEF MovesOK
      <3> QED BY <3>2, <3>3 DEF MovesOK
    <2>7. CatchUpOK(x)'
      BY <1>1, <2>1, <2>2 DEF CatchUpOK
    <2>8. OverviewOK(x)'
      BY <1>1, <2>1, <2>2, <2>3 DEF OverviewOK, CloseTo, Counts, Adding, PlaceOK
    <2> QED BY <2>4, <2>5, <2>6, <2>7, <2>8 DEF RequestOK
  <1>14. RowsOK'
    <2>1. ASSUME NEW j \in AllKinds, NEW i \in 1 .. Len(summaries'[j])
          PROVE  RowOK(j, summaries[j][i])'
      <3>1. PICK y : y = summaries'[j][i]
        OBVIOUS
      <3>2. RowOK(j, row)
        BY NotPairs DEF RowOK
      <3>3. RowOK(j, y)
        BY <1>12, <2>1, <3>1, <3>2 DEF RowsOK
      <3>4. RowOK(j, y)'
        BY <1>1, <1>11, <3>3 DEF RowOK, Since
      <3> QED BY <3>1, <3>4
    <2> QED BY <2>1 DEF RowsOK
  <1>15. NewestOK'
    <2>1. CASE k = "recap"
      <3>1. Newest("recap")' = Len(summaries[k]) + 1 /\ summaries'["recap"][Newest("recap")'] = row
        BY <1>10, <2>1 DEF Newest
      <3> QED BY <1>1, <2>1, <3>1 DEF NewestOK, Handled, Heeds, Selected, Knows
    <2>2. CASE k # "recap"
      <3>1. summaries'["recap"] = summaries["recap"]
        BY <1>7, <2>2 DEF AllKinds
      <3> QED BY <1>1, <3>1 DEF NewestOK, Handled, Selected, Knows, Newest
    <2> QED BY <2>1, <2>2
  <1>16. Written' = Written + 1
    <2>1. /\ Newest("recap")' = Newest("recap") + IF k = "recap" THEN 1 ELSE 0
          /\ Newest("full")' = Newest("full") + IF k = "full" THEN 1 ELSE 0
          /\ Newest("full-preview")' = Newest("full-preview") + IF k = "full-preview" THEN 1 ELSE 0
      BY <1>2, <1>7, <1>10 DEF Newest, AllKinds
    <2> QED BY <2>1, Lengths DEF Written, AllKinds
  <1> QED BY <1>8, <1>9, <1>10, <1>13, <1>14, <1>15, <1>16

\* What a request has checked the budget for is written.
LEMMA Used ==
    ASSUME RecapsConstants, TypeOK, BudgetOK, NEW q \in Requests, NEW r,
           request' = [request EXCEPT ![q] = r], Written' = Written + 1,
           request[q].step \in Paid, r.step \notin Paid
    PROVE  BudgetOK'
  <1>1. /\ IsFiniteSet(Requests) /\ Limit \in Nat /\ Written \in Nat /\ DOMAIN request = Requests
        /\ Cardinality(Requests) \in Nat
    BY Constant, Lengths, Fields, FS_CardinalityType
  <1>2. IsFiniteSet(Spending) /\ Cardinality(Spending) \in Nat /\ q \in Spending
    <2>1. Spending \subseteq Requests
      BY DEF Spending
    <2> QED BY <1>1, <2>1, FS_Subset, FS_CardinalityType DEF Spending
  <1>3. Spending' = Spending \ {q}
    BY <1>1 DEF Spending
  <1>4. Cardinality(Spending') = Cardinality(Spending) - 1
    BY <1>2, <1>3, FS_RemoveElement
  <1> QED BY <1>1, <1>2, <1>4 DEF BudgetOK

LEMMA SaveStep ==
    ASSUME RecapsConstants, IInv, NEW q \in Requests, Save(q)
    PROVE  IInv'
  <1>1. PICK s : s = request[q]
    OBVIOUS
  <1>2. PICK k : k = s.kind
    OBVIOUS
  <1>3. PICK n : n = Len(summaries[k])
    OBVIOUS
  <1> DEFINE row == [key |-> NoKey, saw |-> s.saw, late |-> s.late]
             r == [s EXCEPT !.step = "set", !.row = n + 1, !.saw = NoSeen]
  <1>4. /\ s.step = "save" /\ UNCHANGED <<story, vote>>
        /\ summaries' = [summaries EXCEPT ![k] = Append(@, row)]
        /\ request' = [request EXCEPT ![q] = r]
    BY <1>1, <1>2, <1>3 DEF Save, At, Kind, Newest
  <1>5. /\ s \in Places /\ RequestOK(s) /\ RequestsOK /\ RowsOK /\ NewestOK /\ TypeOK
        /\ k \in AllKinds /\ n \in Nat
    BY <1>1, <1>2, <1>3, OfRequest
  <1>6. row \in Rows /\ row.key = NoKey /\ row.saw = s.saw /\ row.late = s.late
    <2>1. s.saw \in Seen /\ s.late \in SUBSET Votes /\ NoKey \in Keys
      BY <1>5, PlaceFields DEF Keys
    <2> HIDE DEF Seen, Keys
    <2> QED BY <2>1 DEF Rows
  <1>7. /\ r \in Places /\ r.step = "set" /\ r.kind = k /\ r.key = s.key /\ r.asked = s.asked
        /\ r.row = n + 1 /\ r.preview = s.preview
    <2>1. NoSeen \in Seen /\ n + 1 \in Nat /\ s \in Places
      BY <1>5, IdlePlace
    <2>2. PICK m \in Nat : m = n + 1
      BY <2>1
    <2> HIDE DEF Seen, Keys, NoSeen, AllKinds
    <2>3. r = [s EXCEPT !.step = "set", !.row = m, !.saw = NoSeen]
      BY <2>2
    <2>4. /\ r \in Places /\ r.step = "set" /\ r.kind = s.kind /\ r.key = s.key
          /\ r.asked = s.asked /\ r.row = m /\ r.preview = s.preview
      BY <2>1, <2>3 DEF Places, Steps
    <2> QED BY <1>2, <2>2, <2>4
  <1> HIDE DEF r, row
  <1>8. /\ Sees(row.saw, s.asked) /\ Heeds(k, row) /\ k \in {"recap", "full"}
    BY <1>2, <1>4, <1>5, <1>6 DEF RequestOK, PlaceOK, MadeOK, Heeds, Knows
  <1>9. /\ summaries' \in [AllKinds -> Seq(Rows)]
        /\ Len(summaries'[k]) = n + 1 /\ summaries'[k][n + 1] = row
        /\ \A j \in AllKinds : Len(summaries'[j]) >= Len(summaries[j])
        /\ \A x \in Places : RequestOK(x) => RequestOK(x)'
        /\ RowsOK' /\ NewestOK' /\ Written' = Written + 1
    <2>1. k = "recap" => Heeds("recap", row)
      BY <1>8
    <2> HIDE DEF Rows, AllKinds, Places
    <2> QED BY <1>3, <1>4, <1>5, <1>6, <2>1, Appended
  <1>10. \A p \in Requests \ {q} : \A x \in Places : x = request[p] => RequestOK(x)'
    BY <1>5, <1>9 DEF RequestsOK
  <1>11. \A p \in Requests \ {q} : Alike(request[p], r) /\ Alike(r, request[p])
    <2> SUFFICES ASSUME NEW p \in Requests \ {q}
                 PROVE  Alike(request[p], r) /\ Alike(r, request[p])
      OBVIOUS
    <2>1. PICK t : t = request[p]
      OBVIOUS
    <2>2. Alike(t, s) /\ Alike(s, t) /\ PlaceOK(t)
      BY <1>1, <1>5, <2>1 DEF RequestsOK, RequestOK
    <2>3. AsksMoves(r) => AsksMoves(s) /\ r.key = s.key /\ r.asked = s.asked
      BY <1>2, <1>4, <1>7 DEF AsksMoves, Asking
    <2>4. t.step = "set" /\ t.kind = k => t.row # n + 1
      BY <1>3, <1>5, <2>2 DEF PlaceOK
    <2> QED BY <1>7, <2>1, <2>2, <2>3, <2>4 DEF Alike
  <1>12. RequestOK(r)'
    <2>1. events' = events /\ moves' = moves /\ vote' = vote /\ disordered' = disordered
          /\ updated' = updated
      BY <1>4 DEF story, moved
    <2>2. RequestOK(s)'
      BY <1>5, <1>9
    <2>3. PlaceOK(r)' /\ AskOK(r)' /\ MovesOK(r)' /\ CatchUpOK(r)' /\ OverviewOK(r)'
      <3>1. n + 1 \in 1 .. Len(summaries'[k])
        BY <1>5, <1>9
      <3>2. PlaceOK(r)' /\ AskOK(r)'
        BY <1>2, <1>4, <1>7, <2>2, <3>1 DEF RequestOK, PlaceOK, AskOK, Asking, Adding
      <3>3. AsksMoves(r)' => AsksMoves(s)'
        BY <1>2, <1>4, <1>7 DEF AsksMoves, Asking
      <3>4. MovesOK(r)'
        BY <1>7, <2>2, <3>3 DEF RequestOK, MovesOK
      <3>5. CatchUpOK(r)' /\ OverviewOK(r)'
        BY <1>7 DEF CatchUpOK, OverviewOK, Adding
      <3> QED BY <3>2, <3>4, <3>5
    <2>4. MadeOK(r)'
      <3>1. Row(r)' = row
        BY <1>7, <1>9 DEF Row
      <3>2. Sees(row.saw, r.asked) /\ Heeds(k, row)' /\ row.key \notin Pairs
        BY <1>6, <1>7, <1>8, <2>1, NotPairs DEF Heeds, Selected, Knows
      <3> QED BY <1>7, <3>1, <3>2 DEF MadeOK, Heeds, Sees
    <2> QED BY <2>3, <2>4 DEF RequestOK
  <1>13. BudgetOK'
    <2>1. request[q].step \in Paid /\ r.step \notin Paid
      BY <1>1, <1>4, <1>7 DEF Paid
    <2>2. BudgetOK
      BY DEF IInv
    <2> QED BY <1>4, <1>5, <1>9, <2>1, <2>2, Used
  <1>14. r.row <= Len(summaries'[r.kind])
    BY <1>5, <1>7, <1>9
  <1> QED BY <1>4, <1>7, <1>9, <1>10, <1>11, <1>12, <1>13, <1>14, RowsMoved

LEMMA SavePreviewStep ==
    ASSUME RecapsConstants, IInv, NEW q \in Requests, SavePreview(q)
    PROVE  IInv'
  <1>1. PICK s : s = request[q]
    OBVIOUS
  <1>2. PICK n : n = Len(PreviewRows)
    OBVIOUS
  <1> DEFINE row == [key |-> NoKey, saw |-> summaries["full"][s.row].saw, late |-> {}]
             r == [s EXCEPT !.step = "label", !.preview = n + 1]
             k == "full-preview"
  <1>3. /\ s.step = "shorten" /\ UNCHANGED <<story, vote>>
        /\ summaries' = [summaries EXCEPT ![k] = Append(@, row)]
        /\ request' = [request EXCEPT ![q] = r]
    BY <1>1, <1>2 DEF SavePreview, At
  <1>4. /\ s \in Places /\ RequestOK(s) /\ RequestsOK /\ RowsOK /\ NewestOK /\ TypeOK
        /\ k \in AllKinds /\ n \in Nat /\ n = Len(summaries[k]) /\ s.kind = "full"
        /\ s.row \in 1 .. Len(summaries["full"]) /\ s.row <= Len(summaries[s.kind])
    <2>1. s \in Places /\ RequestOK(s) /\ RequestsOK /\ RowsOK /\ NewestOK /\ TypeOK
          /\ s.row <= Len(summaries[s.kind])
      BY <1>1, OfRequest
    <2> QED BY <1>2, <1>3, <2>1, Lengths DEF RequestOK, PlaceOK, Adding, AllKinds
  <1>5. row \in Rows /\ row.key = NoKey /\ row.saw = Row(s).saw
    <2>1. summaries["full"][s.row] \in Rows /\ NoKey \in Keys
      BY <1>4, RowIn DEF AllKinds, Keys
    <2>2. summaries["full"][s.row].saw \in Seen
      BY <2>1, RowFields
    <2> HIDE DEF Seen, Keys
    <2> QED BY <1>4, <2>1, <2>2 DEF Rows, Row
  <1>6. /\ r \in Places /\ r.step = "label" /\ r.kind = "full" /\ r.asked = s.asked
        /\ r.row = s.row /\ r.preview = n + 1 /\ r.limited = s.limited
    <2>1. s \in Places /\ n + 1 \in Nat
      BY <1>4
    <2>2. PICK m \in Nat : m = n + 1
      BY <2>1
    <2> HIDE DEF Seen, Keys, AllKinds
    <2>3. r = [s EXCEPT !.step = "label", !.preview = m]
      BY <2>2
    <2>4. /\ r \in Places /\ r.step = "label" /\ r.kind = s.kind /\ r.asked = s.asked
          /\ r.row = s.row /\ r.preview = m /\ r.limited = s.limited
      BY <2>1, <2>3 DEF Places, Steps
    <2> QED BY <1>4, <2>2, <2>4
  <1> HIDE DEF r, row
  <1>7. /\ summaries' \in [AllKinds -> Seq(Rows)]
        /\ Len(summaries'[k]) = n + 1 /\ summaries'[k][n + 1] = row
        /\ \A j \in AllKinds :
             /\ Len(summaries'[j]) >= Len(summaries[j])
             /\ \A i \in 1 .. Len(summaries[j]) : summaries'[j][i] = summaries[j][i]
        /\ \A x \in Places : RequestOK(x) => RequestOK(x)'
        /\ RowsOK' /\ NewestOK' /\ Written' = Written + 1
    <2>1. k = "recap" => Heeds("recap", row)
      OBVIOUS
    <2> HIDE DEF Rows, AllKinds, Places
    <2> QED BY <1>3, <1>4, <1>5, <2>1, Appended
  <1>8. \A p \in Requests \ {q} : \A x \in Places : x = request[p] => RequestOK(x)'
    BY <1>4, <1>7 DEF RequestsOK
  <1>9. r.step \notin Asking /\ r.step \notin Paid /\ r.step # "set" /\ request[q].step \in Paid
    BY <1>1, <1>3, <1>6 DEF Asking, Paid
  <1>10. \A p \in Requests \ {q} : Alike(request[p], r) /\ Alike(r, request[p])
    BY <1>4, <1>9, AlikeKept
  <1>11. RequestOK(r)'
    <2>1. RequestOK(s)'
      BY <1>4, <1>7
    <2>2. Row(s)' = Row(s) /\ Row(r)' = Row(s)'
      BY <1>4, <1>6, <1>7 DEF Row, AllKinds
    <2>3. Len(PreviewRows') = n + 1 /\ PreviewRows'[n + 1] = row
      BY <1>7 DEF PreviewRows
    <2>4. PlaceOK(r)' /\ AskOK(r)' /\ MadeOK(r)' /\ MovesOK(r)' /\ CatchUpOK(r)'
      <3>1. n + 1 <= Len(PreviewRows') /\ n + 1 # 0
        BY <1>4, <2>3
      <3> QED BY <1>3, <1>4, <1>6, <2>1, <3>1
           DEF RequestOK, PlaceOK, AskOK, MadeOK, MovesOK, AsksMoves, CatchUpOK, Asking, Adding
    <2>5. OverviewOK(r)'
      <3>1. OverviewOK(s)' /\ s.kind = "full" /\ s.step \in Adding
        BY <1>3, <1>4, <2>1 DEF RequestOK, Adding
      <3> QED BY <1>5, <1>6, <2>2, <2>3, <3>1 DEF OverviewOK, Adding
    <2> QED BY <2>4, <2>5 DEF RequestOK
  <1>12. BudgetOK'
    <2>1. BudgetOK
      BY DEF IInv
    <2> QED BY <1>3, <1>4, <1>7, <1>9, <2>1, Used
  <1>13. r.row <= Len(summaries'[r.kind])
    <2>1. Len(summaries'["full"]) >= Len(summaries["full"]) /\ Len(summaries["full"]) \in Nat
          /\ Len(summaries'["full"]) \in Nat
      BY <1>4, <1>7, Lengths DEF AllKinds
    <2> QED BY <1>4, <1>6, <2>1
  <1> QED BY <1>3, <1>6, <1>7, <1>8, <1>10, <1>11, <1>12, <1>13, RowsMoved

\* A row that gets a key disturbs no request but the ones that were to set its key, as
\* long as the key counts no more than the row has seen.
KeyedAs(k, i, key, row) ==
    /\ summaries' \in [AllKinds -> Seq(Rows)]
    /\ \A j \in AllKinds : Len(summaries'[j]) = Len(summaries[j])
    /\ \A j \in AllKinds : \A m \in 1 .. Len(summaries[j]) :
         j # k \/ m # i => summaries'[j][m] = summaries[j][m]
    /\ summaries'[k][i] \in Rows /\ summaries'[k][i].key = key
    /\ summaries'[k][i].saw = row.saw /\ summaries'[k][i].late = row.late

LEMMA KeySet ==
    ASSUME RecapsConstants, TypeOK, NEW k \in AllKinds, NEW i \in 1 .. Len(summaries[k]),
           NEW key \in Keys, summaries' = [summaries EXCEPT ![k][i].key = key]
    PROVE  KeyedAs(k, i, key, summaries[k][i])
  <1>1. /\ summaries \in [AllKinds -> Seq(Rows)]
        /\ \A j \in AllKinds : summaries[j] \in Seq(Rows) /\ Len(summaries[j]) \in Nat
    BY Fields
  <1>2. PICK old \in Seq(Rows) : old = summaries[k]
    BY <1>1
  <1>3. PICK row \in Rows : row = old[i]
    BY <1>2
  <1> DEFINE keyed == [row EXCEPT !.key = key]
             new == [old EXCEPT ![i] = keyed]
  <1>4. keyed \in Rows /\ keyed.key = key /\ keyed.saw = row.saw /\ keyed.late = row.late
    <2> HIDE DEF Keys, Seen
    <2> QED BY <1>3 DEF Rows
  <1>5. summaries' = [summaries EXCEPT ![k] = new]
    BY <1>2, <1>3
  <1> HIDE DEF keyed, Rows, AllKinds
  <1>6. /\ new \in Seq(Rows) /\ Len(new) = Len(old) /\ new[i] = keyed
        /\ \A m \in 1 .. Len(old) : m # i => new[m] = old[m]
    BY <1>2, <1>4
  <1> HIDE DEF new
  <1>7. summaries' \in [AllKinds -> Seq(Rows)] /\ summaries'[k] = new
        /\ \A j \in AllKinds : j # k => summaries'[j] = summaries[j]
    BY <1>1, <1>5, <1>6
  <1>8. \A j \in AllKinds : Len(summaries'[j]) = Len(summaries[j])
    BY <1>2, <1>6, <1>7
  <1>9. \A j \in AllKinds : \A m \in 1 .. Len(summaries[j]) :
          j # k \/ m # i => summaries'[j][m] = summaries[j][m]
    BY <1>2, <1>6, <1>7
  <1>10. /\ summaries'[k][i] \in Rows /\ summaries'[k][i].key = key
         /\ summaries'[k][i].saw = row.saw /\ summaries'[k][i].late = row.late
    BY <1>4, <1>6, <1>7
  <1> QED BY <1>2, <1>3, <1>7, <1>8, <1>9, <1>10 DEF KeyedAs

LEMMA Keyed ==
    ASSUME RecapsConstants, TypeOK, RowsOK, NewestOK, NEW k \in AllKinds,
           NEW i \in 1 .. Len(summaries[k]), NEW key \in Keys, NEW row, row = summaries[k][i],
           KeyedAs(k, i, key, row), UNCHANGED <<story, vote>>,
           k = "full-preview" \/ row.key \notin Pairs,
           \A y \in Rows : y.key = key /\ y.saw = row.saw => RowOK(k, y),
           k = "recap" => Heeds("recap", row)
    PROVE  /\ \A x \in Places :
                /\ RequestOK(x)
                /\ ~(x.step = "set" /\ x.kind = k /\ x.row = i)
                /\ k = "recap" /\ AsksMoves(x) /\ key \in Pairs /\ key[2] = x.key[2]
                     => row.saw.moves >= x.asked.moves
                => RequestOK(x)'
           /\ RowsOK' /\ NewestOK' /\ Written' = Written /\ LastUpdate' = LastUpdate
  <1>1. /\ events' = events /\ clock' = clock /\ stamped' = stamped /\ updated' = updated
        /\ moves' = moves /\ disordered' = disordered /\ vote' = vote
    BY DEF story, moved
  <1>2. /\ \A j \in AllKinds : Len(summaries'[j]) = Len(summaries[j]) /\ Len(summaries[j]) \in Nat
        /\ \A j \in AllKinds : \A m \in 1 .. Len(summaries[j]) :
             j # k \/ m # i => summaries'[j][m] = summaries[j][m]
        /\ summaries'[k][i] \in Rows /\ summaries'[k][i].key = key
        /\ summaries'[k][i].saw = row.saw /\ summaries'[k][i].late = row.late
    BY Lengths DEF KeyedAs
  <1>3. LastUpdate' = LastUpdate
    BY <1>1 DEF LastUpdate
  <1>4. Newest("recap")' = Newest("recap") /\ Len(PreviewRows') = Len(PreviewRows) /\ Written' = Written
    BY <1>2 DEF Newest, PreviewRows, Written, AllKinds
  <1>5. \A j \in AllKinds : \A m \in 1 .. Len(summaries[j]) :
          /\ summaries'[j][m].saw = summaries[j][m].saw
          /\ summaries'[j][m].late = summaries[j][m].late
    BY <1>2
  <1>6. ASSUME NEW x \in Places, RequestOK(x), ~(x.step = "set" /\ x.kind = k /\ x.row = i),
               k = "recap" /\ AsksMoves(x) /\ key \in Pairs /\ key[2] = x.key[2]
                   => row.saw.moves >= x.asked.moves
        PROVE  RequestOK(x)'
    <2>1. /\ x.kind \in AllKinds /\ x.row \in Nat /\ x.preview \in Nat /\ x.kind \in {"recap", "full"}
          /\ PlaceOK(x) /\ AskOK(x) /\ MadeOK(x) /\ MovesOK(x) /\ CatchUpOK(x) /\ OverviewOK(x)
      BY <1>6, PlaceFields DEF RequestOK, PlaceOK
    <2>2. x.step \in {"set", "answer"} \cup Adding =>
            Row(x)'.saw = Row(x).saw /\ Row(x)'.late = Row(x).late
      BY <1>5, <2>1 DEF PlaceOK, Row
    <2>3. x.step = "set" => Row(x)' = Row(x)
      BY <1>2, <1>6, <2>1 DEF PlaceOK, Row
    <2>4. x.preview # 0 => PreviewRows'[x.preview].saw = PreviewRows[x.preview].saw
      BY <1>5, <2>1 DEF PlaceOK, PreviewRows, AllKinds
    <2>5. PlaceOK(x)' /\ AskOK(x)'
      BY <1>1, <1>2, <1>4, <2>1 DEF PlaceOK, Marked, AskOK, Counts
    <2>6. MadeOK(x)'
      BY <1>1, <2>1, <2>3 DEF MadeOK, Heeds, Selected, Knows
    <2>7. MovesOK(x)'
      <3> SUFFICES ASSUME AsksMoves(x)' PROVE MovesOK(x)'
        BY DEF MovesOK
      <3>1. AsksMoves(x)
        BY <1>1 DEF AsksMoves
      <3>2. Since(x.key, x.asked.moves)'
        BY <1>1, <1>3, <2>1, <3>1 DEF MovesOK, Since
      <3>3. ASSUME NEW m \in 1 .. Newest("recap")', NEW y, y = summaries'["recap"][m],
                   y.key \in Pairs, y.key[2] = x.key[2]
            PROVE  y.saw.moves >= x.asked.moves
        <4>1. "recap" \in AllKinds /\ m \in 1 .. Len(summaries["recap"]) /\ m \in 1 .. Newest("recap")
          BY <1>4, <3>3 DEF AllKinds, Newest
        <4>2. CASE k = "recap" /\ m = i
          BY <1>2, <1>6, <3>1, <3>3, <4>2
        <4>3. CASE ~(k = "recap" /\ m = i)
          <5>1. y = summaries["recap"][m]
            BY <1>2, <3>3, <4>1, <4>3
          <5> QED BY <2>1, <3>1, <3>3, <4>1, <5>1 DEF MovesOK
        <4> QED BY <4>2, <4>3
      <3> QED BY <3>2, <3>3 DEF MovesOK
    <2>8. CatchUpOK(x)'
      BY <1>1, <2>1, <2>2 DEF CatchUpOK
    <2>9. OverviewOK(x)'
      <3>1. ASSUME x.kind = "full", ~x.limited, x.step \in Adding PROVE Row(x)' = Row(x)
        <4>1. Row(x).key \in Pairs /\ x.row \in 1 .. Len(summaries["full"]) /\ "full" \in AllKinds
          BY <2>1, <3>1 DEF OverviewOK, PlaceOK, AllKinds
        <4>2. ~(k = "full" /\ x.row = i)
          BY <3>1, <4>1 DEF Row
        <4> QED BY <1>2, <3>1, <4>1, <4>2 DEF Row
      <3> QED BY <1>1, <2>1, <2>2, <2>4, <3>1 DEF OverviewOK, CloseTo, Counts, Adding, PlaceOK
    <2> QED BY <2>5, <2>6, <2>7, <2>8, <2>9 DEF RequestOK
  <1>7. RowsOK'
    <2>1. ASSUME NEW j \in AllKinds, NEW m \in 1 .. Len(summaries'[j])
          PROVE  RowOK(j, summaries[j][m])'
      <3>1. PICK y : y = summaries'[j][m]
        OBVIOUS
      <3>2. m \in 1 .. Len(summaries[j])
        BY <1>2
      <3>3. RowOK(j, y)
        <4>1. CASE j = k /\ m = i
          BY <1>2, <3>1, <4>1
        <4>2. CASE ~(j = k /\ m = i)
          BY <1>2, <3>1, <3>2, <4>2 DEF RowsOK
        <4> QED BY <4>1, <4>2
      <3>4. RowOK(j, y)'
        BY <1>1, <1>3, <3>3 DEF RowOK, Since
      <3> QED BY <3>1, <3>4
    <2> QED BY <2>1 DEF RowsOK
  <1>8. NewestOK'
    <2> SUFFICES ASSUME Newest("recap") > 0, NEW y, y = summaries'["recap"][Newest("recap")],
                        NEW v \in Votes, Selected(v)
                 PROVE  Handled(y, Newest("recap"), v)
      BY <1>1, <1>4 DEF NewestOK, Handled, Selected, Knows
    <2>1. "recap" \in AllKinds /\ Newest("recap") \in 1 .. Len(summaries["recap"])
      BY <1>2 DEF AllKinds, Newest
    <2>2. CASE k = "recap" /\ Newest("recap") = i
      BY <1>2, <2>2 DEF Heeds, Handled, Knows
    <2>3. CASE ~(k = "recap" /\ Newest("recap") = i)
      <3>1. y = summaries["recap"][Newest("recap")]
        BY <1>2, <2>1, <2>3
      <3> QED BY <3>1 DEF NewestOK
    <2> QED BY <2>2, <2>3
  <1> QED BY <1>3, <1>4, <1>6, <1>7, <1>8

\* A request that gets its key stored has a text that saw all the key counts.
LEMMA SetKeyStep ==
    ASSUME RecapsConstants, IInv, NEW q \in Requests, SetKey(q)
    PROVE  IInv'
  <1>1. PICK s : s = request[q]
    OBVIOUS
  <1>2. PICK k, i, key : k = s.kind /\ i = s.row /\ key = s.key
    OBVIOUS
  <1>3. PICK row : row = summaries[k][i]
    OBVIOUS
  <1>4. PICK r : r = Given(s, i, FALSE)
    OBVIOUS
  <1>5. /\ s.step = "set" /\ UNCHANGED <<story, vote>>
        /\ summaries' = [summaries EXCEPT ![k][i].key = key]
        /\ request' = [request EXCEPT ![q] = r]
    BY <1>1, <1>2, <1>4 DEF SetKey, Answer, At, Kind, Given
  <1>6. /\ s \in Places /\ RequestOK(s) /\ RequestsOK /\ RowsOK /\ NewestOK /\ TypeOK /\ BudgetOK
        /\ k \in AllKinds /\ i \in 1 .. Len(summaries[k]) /\ k \in {"recap", "full"}
        /\ Len(summaries[k]) \in Nat /\ i \in Nat /\ Len(PreviewRows) \in Nat
    <2>1. s \in Places /\ RequestOK(s) /\ RequestsOK /\ RowsOK /\ NewestOK /\ TypeOK /\ k \in AllKinds
          /\ Len(summaries[k]) \in Nat
      BY <1>1, <1>2, OfRequest
    <2>2. PlaceOK(s) /\ BudgetOK /\ Len(PreviewRows) \in Nat
      BY <2>1, Lengths DEF RequestOK, IInv
    <2> QED BY <1>2, <1>5, <2>1, <2>2, PlaceFields DEF PlaceOK
  <1>7. /\ GivenAs(r, s, i, FALSE)
        /\ r \in Places /\ r.kind = k /\ r.asked = s.asked /\ r.row = i
        /\ r.limited = FALSE /\ r.preview = 0
        /\ r.step = IF k = "full" THEN "preview" ELSE "answer"
    <2>1. FALSE \in BOOLEAN
      OBVIOUS
    <2>2. GivenAs(r, s, i, FALSE)
      BY <1>4, <1>6, <2>1, GivenPlace
    <2> QED BY <1>2, <2>2 DEF GivenAs
  <1>8. /\ key \in Pairs /\ key \in Keys /\ Counts(k, key, s.asked.events) /\ row \in Rows
        /\ row.key \notin Pairs /\ Sees(row.saw, s.asked) /\ Heeds(k, row)
        /\ key[1] \in Nat /\ key[2] \in Nat
        /\ s.asked.events \in Nat /\ s.asked.moves \in Nat
        /\ row.saw.events \in Nat /\ row.saw.moves \in Nat
    <2>1. key \in Pairs /\ Counts(k, key, s.asked.events) /\ key \in Keys
      BY <1>2, <1>5, <1>6, PlaceFields DEF RequestOK, AskOK, Asking
    <2>2. row = Row(s) /\ row \in Rows
      BY <1>2, <1>3, <1>6, RowIn DEF Row
    <2>3. row.key \notin Pairs /\ Sees(row.saw, s.asked) /\ Heeds(k, row)
      BY <1>2, <1>5, <1>6, <2>2 DEF RequestOK, MadeOK
    <2> QED BY <1>6, <2>1, <2>2, <2>3, PairKey, PlaceFields, RowFields
  <1>9. \A y \in Rows : y.key = key /\ y.saw = row.saw => RowOK(k, y)
    <2> SUFFICES ASSUME NEW y \in Rows, y.key = key, y.saw = row.saw PROVE RowOK(k, y)
      OBVIOUS
    <2>1. key[1] <= row.saw.events
      BY <1>6, <1>8 DEF Counts, Sees
    <2>2. ASSUME k # "recap" PROVE 3 * key[2] <= row.saw.events + 2
      <3>1. 3 * key[2] <= s.asked.events + 2
        BY <1>8, <2>2 DEF Counts
      <3>2. row.saw.events >= s.asked.events
        BY <1>8 DEF Sees
      <3> QED BY <1>8, <3>1, <3>2
    <2>3. ASSUME k = "recap", ~disordered PROVE Since(key, row.saw.moves)
      <3>1. Since(key, s.asked.moves)
        BY <1>2, <1>5, <1>6, <2>3 DEF RequestOK, MovesOK, AsksMoves, Asking
      <3>2. row.saw.moves >= s.asked.moves /\ moves \in Nat
        BY <1>6, <1>8, Fields, Constant DEF Sees
      <3> QED BY <1>8, <3>1, <3>2 DEF Since
    <2> QED BY <1>8, <2>1, <2>2, <2>3 DEF RowOK
  <1>10. k = "recap" => Heeds("recap", row)
    BY <1>8
  <1>11. /\ KeyedAs(k, i, key, row)
         /\ \A x \in Places :
              /\ RequestOK(x)
              /\ ~(x.step = "set" /\ x.kind = k /\ x.row = i)
              /\ k = "recap" /\ AsksMoves(x) /\ key \in Pairs /\ key[2] = x.key[2]
                   => row.saw.moves >= x.asked.moves
              => RequestOK(x)'
         /\ RowsOK' /\ NewestOK' /\ Written' = Written /\ LastUpdate' = LastUpdate
    <2> HIDE DEF AllKinds, Places, Rows
    <2>1. KeyedAs(k, i, key, row)
      BY <1>3, <1>5, <1>6, <1>8, KeySet
    <2>2. /\ RowsOK /\ NewestOK /\ TypeOK /\ k \in AllKinds /\ i \in 1 .. Len(summaries[k])
          /\ key \in Keys /\ row = summaries[k][i] /\ row.key \notin Pairs
          /\ UNCHANGED <<story, vote>>
      BY <1>3, <1>5, <1>6, <1>8
    <2>3. /\ \A x \in Places :
               /\ RequestOK(x)
               /\ ~(x.step = "set" /\ x.kind = k /\ x.row = i)
               /\ k = "recap" /\ AsksMoves(x) /\ key \in Pairs /\ key[2] = x.key[2]
                    => row.saw.moves >= x.asked.moves
               => RequestOK(x)'
          /\ RowsOK' /\ NewestOK' /\ Written' = Written /\ LastUpdate' = LastUpdate
      BY <1>9, <1>10, <2>1, <2>2, Keyed
    <2> QED BY <2>1, <2>3
  <1>12. \A p \in Requests \ {q} : \A x \in Places : x = request[p] => RequestOK(x)'
    <2> SUFFICES ASSUME NEW p \in Requests \ {q}, NEW x \in Places, x = request[p]
                 PROVE  RequestOK(x)'
      OBVIOUS
    <2>1. RequestOK(x) /\ Alike(x, s) /\ Alike(s, x)
      BY <1>1, <1>6 DEF RequestsOK
    <2>2. ~(x.step = "set" /\ x.kind = k /\ x.row = i)
      BY <1>2, <1>5, <2>1 DEF Alike
    <2>3. ASSUME k = "recap", AsksMoves(x), key[2] = x.key[2]
          PROVE  row.saw.moves >= x.asked.moves
      <3>1. AsksMoves(s)
        BY <1>2, <1>5, <2>3 DEF AsksMoves, Asking
      <3>2. s.asked.moves = x.asked.moves
        BY <1>2, <2>1, <2>3, <3>1 DEF Alike
      <3> QED BY <1>8, <3>2 DEF Sees
    <2> QED BY <1>11, <2>1, <2>2, <2>3
  <1>13. PICK new : new = summaries'[k][i]
    OBVIOUS
  <1>14. /\ Row(r)' = new /\ new.key = key /\ new.saw = row.saw /\ new.late = row.late
         /\ Len(summaries'[k]) = Len(summaries[k]) /\ Len(PreviewRows') = Len(PreviewRows)
    BY <1>6, <1>7, <1>11, <1>13 DEF KeyedAs, Row, PreviewRows, AllKinds
  <1>15. /\ events' = events /\ moves' = moves /\ Marked' = Marked
         /\ s.asked.events <= Len(events) /\ s.asked.moves <= moves /\ s.asked.votes \subseteq Marked
    BY <1>5, <1>6, Fields, Constant DEF story, moved, Marked, RequestOK, PlaceOK
  <1>16. RequestOK(r)'
    <2>1. PlaceOK(r)' /\ AskOK(r)' /\ MadeOK(r)' /\ MovesOK(r)'
      BY <1>6, <1>7, <1>14, <1>15
         DEF PlaceOK, AskOK, MadeOK, MovesOK, AsksMoves, Asking, Adding
    <2>2. CatchUpOK(r)'
      <3> SUFFICES ASSUME k = "recap" PROVE CatchUpOK(r)'
        BY <1>7 DEF CatchUpOK
      <3>1. row.saw.events >= s.asked.events /\ row.saw.moves >= s.asked.moves
        BY <1>8 DEF Sees
      <3>2. s.asked.votes \subseteq row.saw.votes \cup row.late
        BY <1>10, <1>15 DEF Heeds, Marked, Selected, Knows
      <3> QED BY <1>7, <1>14, <3>1, <3>2 DEF CatchUpOK
    <2>3. OverviewOK(r)'
      <3> SUFFICES ASSUME k = "full" PROVE OverviewOK(r)'
        BY <1>6, <1>7 DEF OverviewOK
      <3>1. s.asked.events <= row.saw.events
        BY <1>8 DEF Sees
      <3>2. CloseTo(s.asked.events, row.saw)'
        <4>1. s.asked.events <= row.saw.events + 2
          BY <1>8, <3>1
        <4>2. row.saw.events + 1 .. s.asked.events = {}
          BY <1>8, <3>1
        <4> QED BY <4>1, <4>2 DEF CloseTo
      <3>3. Counts("full", key, s.asked.events)'
        BY <1>8, <1>15 DEF Counts
      <3> QED BY <1>7, <1>8, <1>14, <3>2, <3>3 DEF OverviewOK, Adding
    <2> QED BY <2>1, <2>2, <2>3 DEF RequestOK
  <1>17. r.step \notin Asking /\ r.step \notin Paid /\ r.step # "set"
    BY <1>7 DEF Asking, Paid
  <1>18. \A p \in Requests \ {q} : Alike(request[p], r) /\ Alike(r, request[p])
    BY <1>6, <1>17, AlikeKept
  <1>19. BudgetOK'
    BY <1>5, <1>6, <1>11, <1>17, Spent
  <1>20. /\ summaries' \in [AllKinds -> Seq(Rows)] /\ r.row <= Len(summaries'[r.kind])
         /\ \A j \in AllKinds : Len(summaries'[j]) >= Len(summaries[j])
    <2>1. \A j \in AllKinds : Len(summaries'[j]) = Len(summaries[j]) /\ Len(summaries[j]) \in Nat
      BY <1>6, <1>11, Lengths DEF KeyedAs
    <2>2. \A j \in AllKinds : Len(summaries'[j]) >= Len(summaries[j])
      BY <2>1
    <2> HIDE DEF Rows, AllKinds
    <2> QED BY <1>6, <1>7, <1>11, <1>14, <2>2 DEF KeyedAs
  <1> QED BY <1>5, <1>7, <1>11, <1>12, <1>16, <1>18, <1>19, <1>20, RowsMoved

\* A preview gets the key of the overview it was made from.
LEMMA SetPreviewKeyStep ==
    ASSUME RecapsConstants, IInv, NEW q \in Requests, SetPreviewKey(q)
    PROVE  IInv'
  <1>1. PICK s : s = request[q]
    OBVIOUS
  <1>2. PICK i : i = s.preview
    OBVIOUS
  <1>3. PICK key : key = summaries["full"][s.row].key
    OBVIOUS
  <1> DEFINE k == "full-preview"
             r == [s EXCEPT !.step = "answer", !.preview = i]
  <1>4. PICK row : row = summaries[k][i]
    OBVIOUS
  <1>5. /\ s.step = "label" /\ UNCHANGED <<story, vote>>
        /\ summaries' = [summaries EXCEPT ![k][i].key = key]
        /\ request' = [request EXCEPT ![q] = r]
    BY <1>1, <1>2, <1>3 DEF SetPreviewKey, Preview, PreviewKey, At
  <1>6. /\ s \in Places /\ RequestOK(s) /\ RequestsOK /\ RowsOK /\ NewestOK /\ TypeOK /\ BudgetOK
        /\ k \in AllKinds /\ Len(summaries[k]) \in Nat /\ PreviewRows = summaries[k]
        /\ s.row <= Len(summaries[s.kind]) /\ s.preview \in Nat
    <2>1. s \in Places /\ RequestOK(s) /\ RequestsOK /\ RowsOK /\ NewestOK /\ TypeOK
          /\ s.row <= Len(summaries[s.kind])
      BY <1>1, OfRequest
    <2>2. BudgetOK /\ k \in AllKinds
      BY DEF IInv, AllKinds
    <2> QED BY <2>1, <2>2, Lengths, PlaceFields
  <1>7. /\ s.kind = "full" /\ s.row \in 1 .. Len(summaries["full"]) /\ i \in 1 .. Len(summaries[k])
        /\ row.saw = Row(s).saw /\ Row(s) = summaries["full"][s.row] /\ "full" \in AllKinds
    <2>1. PlaceOK(s) /\ OverviewOK(s)
      BY <1>6 DEF RequestOK
    <2> QED BY <1>2, <1>4, <1>5, <1>6, <2>1 DEF PlaceOK, OverviewOK, Adding, Row, AllKinds
  <1>8. /\ r \in Places /\ r.step = "answer" /\ r.kind = "full" /\ r.asked = s.asked
        /\ r.row = s.row /\ r.preview = i /\ r.limited = s.limited
    <2> HIDE DEF Seen, Keys, AllKinds
    <2> QED BY <1>2, <1>6, <1>7 DEF Places, Steps
  <1> HIDE DEF r
  <1>9. /\ key \in Keys /\ RowOK("full", Row(s)) /\ key = Row(s).key
    <2>1. Row(s) \in Rows
      BY <1>6, <1>7, RowIn
    <2> QED BY <1>3, <1>6, <1>7, <2>1, RowFields DEF RowsOK
  <1>10. \A y \in Rows : y.key = key /\ y.saw = row.saw => RowOK(k, y)
    BY <1>7, <1>9 DEF RowOK
  <1>11. /\ KeyedAs(k, i, key, row)
         /\ \A x \in Places : RequestOK(x) /\ ~(x.step = "set" /\ x.kind = k /\ x.row = i)
              => RequestOK(x)'
         /\ RowsOK' /\ NewestOK' /\ Written' = Written
    <2> HIDE DEF AllKinds, Places, Rows
    <2>1. KeyedAs(k, i, key, row)
      BY <1>4, <1>5, <1>6, <1>7, <1>9, KeySet
    <2>2. /\ RowsOK /\ NewestOK /\ TypeOK /\ k \in AllKinds /\ i \in 1 .. Len(summaries[k])
          /\ key \in Keys /\ row = summaries[k][i] /\ (k = "recap" => Heeds("recap", row))
          /\ UNCHANGED <<story, vote>>
      BY <1>4, <1>5, <1>6, <1>7, <1>9
    <2>3. /\ \A x \in Places :
               /\ RequestOK(x)
               /\ ~(x.step = "set" /\ x.kind = k /\ x.row = i)
               /\ k = "recap" /\ AsksMoves(x) /\ key \in Pairs /\ key[2] = x.key[2]
                    => row.saw.moves >= x.asked.moves
               => RequestOK(x)'
          /\ RowsOK' /\ NewestOK' /\ Written' = Written /\ LastUpdate' = LastUpdate
      BY <1>10, <2>1, <2>2, Keyed
    <2> QED BY <2>1, <2>3
  <1>12. \A x \in Places : RequestOK(x) => RequestOK(x)'
    <2>1. \A x : RequestOK(x) => x.kind # k
      BY DEF RequestOK, PlaceOK
    <2> QED BY <1>11, <2>1
  <1>13. \A p \in Requests \ {q} : \A x \in Places : x = request[p] => RequestOK(x)'
    BY <1>6, <1>12 DEF RequestsOK
  <1>14. r.step \notin Asking /\ r.step \notin Paid /\ r.step # "set"
    BY <1>8 DEF Asking, Paid
  <1>15. \A p \in Requests \ {q} : Alike(request[p], r) /\ Alike(r, request[p])
    BY <1>6, <1>14, AlikeKept
  <1>16. /\ \A j \in AllKinds : Len(summaries'[j]) = Len(summaries[j]) /\ Len(summaries[j]) \in Nat
         /\ summaries'["full"] = summaries["full"] /\ PreviewRows'[i].saw = row.saw
         /\ summaries' \in [AllKinds -> Seq(Rows)]
    <2>1. summaries \in [AllKinds -> Seq(Rows)]
      BY <1>6, Fields
    <2> QED BY <1>5, <1>6, <1>7, <1>11, <2>1, Lengths DEF KeyedAs, PreviewRows
  <1>17. RequestOK(r)'
    <2>1. RequestOK(s)'
      BY <1>6, <1>12
    <2>2. PlaceOK(r)' /\ AskOK(r)' /\ MadeOK(r)' /\ MovesOK(r)' /\ CatchUpOK(r)'
      <3>1. i <= Len(PreviewRows')
        BY <1>6, <1>7, <1>16 DEF PreviewRows
      <3> QED BY <1>5, <1>7, <1>8, <2>1, <3>1
           DEF RequestOK, PlaceOK, AskOK, MadeOK, MovesOK, AsksMoves, CatchUpOK, Asking, Adding
    <2>3. OverviewOK(r)'
      <3>1. Row(r)' = Row(s)' /\ Row(s)'.saw = row.saw
        BY <1>7, <1>8, <1>16 DEF Row
      <3>2. ASSUME ~s.limited PROVE CloseTo(s.asked.events, row.saw)'
        <4>1. CloseTo(s.asked.events, Row(s).saw)'
          BY <1>5, <1>7, <2>1, <3>2 DEF RequestOK, OverviewOK, Adding
        <4> QED BY <3>1, <4>1
      <3> QED BY <1>8, <1>16, <3>1, <3>2 DEF OverviewOK, Adding
    <2> QED BY <2>2, <2>3 DEF RequestOK
  <1>18. BudgetOK'
    BY <1>5, <1>6, <1>11, <1>14, Spent
  <1>19. /\ r.row <= Len(summaries'[r.kind])
         /\ \A j \in AllKinds : Len(summaries'[j]) >= Len(summaries[j])
    BY <1>7, <1>8, <1>16
  <1> QED BY <1>5, <1>8, <1>11, <1>13, <1>15, <1>16, <1>17, <1>18, <1>19, RowsMoved

\* A vote that chooses makes what is under way late, and changes nothing else of it.
Ages(n, v) ==
    /\ summaries' \in [AllKinds -> Seq(Rows)]
    /\ \A j \in AllKinds : j # "recap" => summaries'[j] = summaries[j]
    /\ Len(summaries'["recap"]) = n
    /\ \A i \in 1 .. n : LET old == summaries["recap"][i]
                             new == summaries'["recap"][i] IN
         /\ new.saw = old.saw /\ new.key = old.key
         /\ old.late \subseteq new.late /\ (Unfinished(i) => v \in new.late)
PlaceAges(v, s, r) ==
    /\ r \in Places /\ r.step = s.step /\ r.kind = s.kind /\ r.key = s.key /\ r.asked = s.asked
    /\ r.saw = s.saw /\ r.row = s.row /\ r.preview = s.preview /\ r.limited = s.limited
    /\ s.late \subseteq r.late /\ (s.step = "save" /\ s.kind = "recap" => v \in r.late)

LEMMA RowsAge ==
    ASSUME RecapsConstants, TypeOK, NEW v \in Votes, MakeLate(v)
    PROVE  Ages(Len(summaries["recap"]), v)
  <1>0. "recap" \in AllKinds
    BY DEF AllKinds
  <1>1. PICK old \in Seq(Rows) : old = summaries["recap"]
    BY <1>0, Fields
  <1>2. PICK n \in Nat : n = Len(old) /\ DOMAIN old = 1 .. n
    BY <1>1
  <1> DEFINE aged(i) == Aged(i, v)
             new == [i \in 1 .. n |-> aged(i)]
  <1>3. ASSUME NEW i \in 1 .. n
        PROVE  /\ aged(i) \in Rows /\ aged(i).saw = old[i].saw /\ aged(i).key = old[i].key
               /\ old[i].late \subseteq aged(i).late /\ (Unfinished(i) => v \in aged(i).late)
    <2>1. PICK x \in Rows : x = old[i]
      BY <1>1, <1>2
    <2>2. PICK late \in SUBSET Votes : late = x.late \cup {v}
      BY RowFields
    <2>3. PICK y : y = [x EXCEPT !.late = late]
      OBVIOUS
    <2>4. y \in Rows /\ y.saw = x.saw /\ y.key = x.key /\ y.late = late
      <3> HIDE DEF Keys, Seen
      <3> QED BY <2>3 DEF Rows
    <2>5. aged(i) = IF Unfinished(i) THEN y ELSE x
      BY <1>1, <2>1, <2>2, <2>3 DEF Aged
    <2> HIDE DEF aged
    <2> QED BY <2>1, <2>2, <2>4, <2>5
  <1>4. summaries' = [summaries EXCEPT !["recap"] = new]
    BY <1>1, <1>2 DEF MakeLate
  <1> HIDE DEF Rows, AllKinds, aged, Unfinished
  <1>5. new \in Seq(Rows) /\ Len(new) = n /\ \A i \in 1 .. n : new[i] = aged(i)
    BY <1>3
  <1> HIDE DEF new
  <1>6. summaries \in [AllKinds -> Seq(Rows)]
    BY Fields
  <1>7. /\ summaries' \in [AllKinds -> Seq(Rows)] /\ summaries'["recap"] = new
        /\ \A j \in AllKinds : j # "recap" => summaries'[j] = summaries[j]
    BY <1>0, <1>4, <1>5, <1>6
  <1> QED BY <1>1, <1>2, <1>3, <1>5, <1>7 DEF Ages

LEMMA PlacesAge ==
    ASSUME RecapsConstants, TypeOK, NEW v \in Votes, MakeLate(v), NEW p \in Requests
    PROVE  PlaceAges(v, request[p], request'[p])
  <1>1. PICK s \in Places : s = request[p]
    BY Fields
  <1> DEFINE made == s.step = "save" /\ s.kind = "recap"
  <1>2. request'[p] = IF made THEN [s EXCEPT !.late = @ \cup {v}] ELSE s
    BY <1>1 DEF MakeLate, At, Kind
  <1>3. CASE made
    <2>1. PICK late \in SUBSET Votes : late = s.late \cup {v}
      BY PlaceFields
    <2>2. PICK r : r = [s EXCEPT !.late = late]
      OBVIOUS
    <2>3. /\ r \in Places /\ r.step = s.step /\ r.kind = s.kind /\ r.key = s.key
          /\ r.asked = s.asked /\ r.saw = s.saw /\ r.row = s.row /\ r.preview = s.preview
          /\ r.limited = s.limited /\ r.late = late
      <3> HIDE DEF Seen, Keys, AllKinds, Steps
      <3> QED BY <2>2 DEF Places
    <2>4. request'[p] = r
      BY <1>2, <1>3, <2>1, <2>2
    <2> QED BY <1>1, <2>1, <2>3, <2>4 DEF PlaceAges
  <1>4. CASE ~made
    BY <1>1, <1>2, <1>4 DEF PlaceAges
  <1> QED BY <1>3, <1>4

LEMMA ChooseStep == ASSUME RecapsConstants, IInv, NEW v \in Votes, Choose(v) PROVE IInv'
  <1>1. /\ events' = events /\ clock' = clock /\ stamped' = stamped /\ updated' = updated
        /\ moves' = moves /\ disordered' = disordered /\ MakeLate(v)
    BY DEF Choose, story, moved
  <1>2. /\ TypeOK /\ RequestsOK /\ RowsOK /\ NewestOK /\ VotesOK
        /\ request \in [Requests -> Places] /\ vote \in [Votes -> Ballots]
        /\ "recap" \in AllKinds /\ "full" \in AllKinds
    BY Fields, Constant DEF IInv, AllKinds
  <1>3. PICK n : n = Len(summaries["recap"])
    OBVIOUS
  <1>4. /\ n \in Nat /\ Ages(n, v)
        /\ \A p \in Requests : PlaceAges(v, request[p], request'[p])
    <2>1. n \in Nat
      BY <1>2, <1>3, Lengths
    <2>2. Ages(n, v)
      BY <1>1, <1>2, <1>3, RowsAge
    <2> QED BY <1>1, <1>2, <2>1, <2>2, PlacesAge
  <1>5. /\ summaries' \in [AllKinds -> Seq(Rows)]
        /\ \A j \in AllKinds : j # "recap" => summaries'[j] = summaries[j]
        /\ \A j \in AllKinds : Len(summaries'[j]) = Len(summaries[j])
        /\ \A i \in 1 .. n : /\ summaries'["recap"][i].saw = summaries["recap"][i].saw
                             /\ summaries'["recap"][i].key = summaries["recap"][i].key
                             /\ summaries["recap"][i].late \subseteq summaries'["recap"][i].late
                             /\ Unfinished(i) => v \in summaries'["recap"][i].late
    <2> HIDE DEF AllKinds, Rows
    <2>1. \A j \in AllKinds : j # "recap" => summaries'[j] = summaries[j]
      BY <1>4 DEF Ages
    <2>2. Len(summaries'["recap"]) = Len(summaries["recap"])
      BY <1>3, <1>4 DEF Ages
    <2> QED BY <1>4, <2>1, <2>2 DEF Ages
  <1>6. /\ LastUpdate' = LastUpdate /\ Written' = Written /\ PreviewRows' = PreviewRows
        /\ Newest("recap")' = n /\ Newest("recap") = n
    <2>1. LastUpdate' = LastUpdate
      BY <1>1 DEF LastUpdate
    <2>2. "full-preview" \in AllKinds
      BY DEF AllKinds
    <2> QED BY <1>2, <1>3, <1>5, <2>1, <2>2 DEF Written, Newest, PreviewRows
  <1>7. /\ vote[v].step = "recorded" /\ vote' \in [Votes -> Ballots]
        /\ \A u \in Votes : u # v => vote'[u] = vote[u]
        /\ Stands => vote'[v].step = "chosen" /\ vote'[v].row = n
        /\ ~Stands => vote'[v].step = "done"
    <2>0. [step |-> "chosen", row |-> Newest("recap")] \in Ballots /\ Done \in Ballots
      BY <1>4, <1>6 DEF Ballots, Done
    <2>1. PICK x \in Ballots :
            x = IF Stands THEN [step |-> "chosen", row |-> Newest("recap")] ELSE Done
      <3> HIDE DEF Ballots, Done
      <3> QED BY <2>0
    <2>2. vote' = [vote EXCEPT ![v] = x] /\ vote[v].step = "recorded"
      BY <2>1 DEF Choose
    <2>3. /\ Stands => x.step = "chosen" /\ x.row = n
          /\ ~Stands => x.step = "done"
      BY <1>6, <2>1 DEF Done
    <2> HIDE DEF Ballots
    <2> QED BY <1>2, <2>2, <2>3
  <1>8. Marked \subseteq Marked' /\ \A u \in Votes : Selected(u)' => u = v \/ Selected(u)
    BY <1>7 DEF Marked, Selected
  <1>9. ASSUME NEW p \in Requests, NEW s \in Places, s = request[p], NEW r, PlaceAges(v, s, r)
        PROVE  RequestOK(r)'
    <2>1. /\ r \in Places /\ r.step = s.step /\ r.kind = s.kind /\ r.key = s.key
          /\ r.asked = s.asked /\ r.saw = s.saw /\ r.row = s.row /\ r.preview = s.preview
          /\ r.limited = s.limited /\ s.late \subseteq r.late
          /\ s.step = "save" /\ s.kind = "recap" => v \in r.late
      BY <1>9 DEF PlaceAges
    <2>2. /\ PlaceOK(s) /\ AskOK(s) /\ MadeOK(s) /\ MovesOK(s) /\ CatchUpOK(s) /\ OverviewOK(s)
          /\ s.row \in Nat
      BY <1>2, <1>9, PlaceFields DEF RequestsOK, RequestOK
    <2>3. PlaceOK(r)'
      <3>1. s.kind \in AllKinds
        BY PlaceFields
      <3>2. r.asked.votes \subseteq Marked'
        BY <1>8, <2>1, <2>2 DEF PlaceOK
      <3> QED BY <1>1, <1>5, <1>6, <2>1, <2>2, <3>1, <3>2 DEF PlaceOK
    <2>4. AskOK(r)'
      BY <1>1, <2>1, <2>2 DEF AskOK, Counts
    <2>5. s.kind = "full" => Row(r)' = Row(s)
      BY <1>2, <1>5, <2>1 DEF Row
    <2>6. s.kind = "recap" /\ s.step \in {"set", "answer"} =>
             /\ s.row \in 1 .. n /\ Row(r)' = summaries'["recap"][s.row]
             /\ Row(s) = summaries["recap"][s.row]
      BY <1>3, <2>1, <2>2 DEF Row, PlaceOK
    <2>7. MadeOK(r)'
      <3>1. ASSUME s.step = "save" PROVE Sees(r.saw, r.asked) /\ Heeds(r.kind, r)'
        <4>1. ASSUME s.kind = "recap", NEW u \in Votes, Selected(u)' PROVE Knows(r, u)
          BY <1>8, <2>1, <2>2, <3>1, <4>1 DEF MadeOK, Heeds, Knows
        <4> QED BY <2>1, <2>2, <3>1, <4>1 DEF MadeOK, Heeds, Knows
      <3>2. ASSUME s.step = "set", s.kind = "recap"
            PROVE  /\ Sees(Row(r)'.saw, r.asked) /\ Row(r)'.key \notin Pairs
                   /\ \A u \in Votes : Selected(u)' => Knows(Row(r)', u)
        <4>1. Unfinished(s.row)
          BY <1>9, <3>2 DEF Unfinished, Kind, At
        <4>2. /\ Row(r)'.saw = Row(s).saw /\ Row(r)'.key = Row(s).key
              /\ Row(s).late \subseteq Row(r)'.late /\ v \in Row(r)'.late
          BY <1>5, <2>6, <3>2, <4>1
        <4>3. Sees(Row(s).saw, s.asked) /\ Heeds("recap", Row(s)) /\ Row(s).key \notin Pairs
          BY <2>2, <3>2 DEF MadeOK
        <4> QED BY <1>8, <2>1, <4>2, <4>3 DEF Heeds, Knows
      <3>3. ASSUME s.step = "set", s.kind = "full"
            PROVE  Sees(Row(r)'.saw, r.asked) /\ Row(r)'.key \notin Pairs
        BY <2>1, <2>2, <2>5, <3>3 DEF MadeOK
      <3> QED BY <2>1, <2>2, <3>1, <3>2, <3>3 DEF MadeOK, Heeds, PlaceOK, Sees, Knows
    <2>8. MovesOK(r)'
      <3> SUFFICES ASSUME AsksMoves(r)' PROVE MovesOK(r)'
        BY DEF MovesOK
      <3>1. AsksMoves(s)
        BY <1>1, <2>1 DEF AsksMoves
      <3>2. Since(r.key, r.asked.moves)'
        BY <1>1, <1>6, <2>1, <2>2, <3>1 DEF MovesOK, Since
      <3>3. ASSUME NEW i \in 1 .. Newest("recap")', NEW y, y = summaries'["recap"][i],
                   y.key \in Pairs, y.key[2] = r.key[2]
            PROVE  y.saw.moves >= r.asked.moves
        <4>1. y.key = summaries["recap"][i].key /\ y.saw = summaries["recap"][i].saw
          BY <1>5, <1>6, <3>3
        <4> QED BY <1>6, <2>1, <2>2, <3>1, <3>3, <4>1 DEF MovesOK
      <3> QED BY <3>2, <3>3 DEF MovesOK
    <2>9. CatchUpOK(r)'
      <3> SUFFICES ASSUME r.kind = "recap", r.step = "answer", ~r.limited PROVE CatchUpOK(r)'
        BY DEF CatchUpOK
      <3>1. Row(r)'.saw = Row(s).saw /\ Row(s).late \subseteq Row(r)'.late
        BY <1>5, <2>1, <2>6
      <3> QED BY <1>1, <2>1, <2>2, <3>1 DEF CatchUpOK
    <2>10. OverviewOK(r)'
      <3>1. s.step \in Adding => s.kind = "full"
        BY <2>2 DEF PlaceOK
      <3> QED BY <1>1, <1>6, <2>1, <2>2, <2>5, <3>1 DEF OverviewOK, CloseTo, Counts, Adding
    <2> QED BY <2>3, <2>4, <2>7, <2>8, <2>9, <2>10 DEF RequestOK
  <1>10. TypeOK'
    <2>1. request' \in [Requests -> Places]
      <3>1. \A p \in Requests : request'[p] \in Places
        BY <1>4 DEF PlaceAges
      <3>2. request' = [p \in Requests |-> request'[p]]
        BY <1>1 DEF MakeLate
      <3> HIDE DEF Places
      <3> QED BY <3>1, <3>2
    <2>2. \A p \in Requests : request'[p].row <= Len(summaries'[request'[p].kind])
      <3>1. ASSUME NEW p \in Requests, NEW s \in Places, s = request[p]
            PROVE  request'[p].row <= Len(summaries'[request'[p].kind])
        <4>1. s.kind \in AllKinds /\ s.row <= Len(summaries[s.kind])
          BY <1>2, <3>1, Fields, PlaceFields
        <4> QED BY <1>4, <1>5, <3>1, <4>1 DEF PlaceAges
      <3> QED BY <1>2, <3>1
    <2> HIDE DEF Places, Rows, AllKinds, Ballots
    <2> QED BY <1>1, <1>2, <1>5, <1>7, <2>1, <2>2 DEF TypeOK
  <1>11. RequestsOK'
    <2>1. ASSUME NEW p \in Requests PROVE RequestOK(request[p])'
      <3>1. PICK s \in Places : s = request[p]
        BY <1>2
      <3>2. PICK r : r = request'[p]
        OBVIOUS
      <3>3. RequestOK(r)'
        BY <1>4, <1>9, <3>1, <3>2
      <3> QED BY <3>2, <3>3
    <2>2. ASSUME NEW p1 \in Requests, NEW p2 \in Requests, p1 # p2
          PROVE  Alike(request[p1], request[p2])'
      <3>1. PICK x, y : x = request[p1] /\ y = request[p2]
        OBVIOUS
      <3>2. PICK x1, y1 : x1 = request'[p1] /\ y1 = request'[p2]
        OBVIOUS
      <3>3. Alike(x, y) /\ PlaceAges(v, x, x1) /\ PlaceAges(v, y, y1)
        BY <1>2, <1>4, <2>2, <3>1, <3>2 DEF RequestsOK
      <3>4. Alike(x1, y1)'
        BY <1>1, <3>3 DEF Alike, AsksMoves, PlaceAges
      <3> QED BY <3>2, <3>4
    <2> QED BY <2>1, <2>2 DEF RequestsOK
  <1>12. RowsOK'
    <2>1. ASSUME NEW j \in AllKinds, NEW i \in 1 .. Len(summaries'[j])
          PROVE  RowOK(j, summaries[j][i])'
      <3>1. PICK y, x : y = summaries'[j][i] /\ x = summaries[j][i]
        OBVIOUS
      <3>2. RowOK(j, x)
        BY <1>2, <1>5, <3>1 DEF RowsOK
      <3>3. y.saw = x.saw /\ y.key = x.key
        BY <1>3, <1>5, <3>1
      <3>4. RowOK(j, y)'
        BY <1>1, <1>6, <3>2, <3>3 DEF RowOK, Since
      <3> QED BY <3>1, <3>4
    <2> QED BY <2>1 DEF RowsOK
  <1>13. NewestOK' /\ VotesOK'
    <2>1. ASSUME n > 0, NEW u \in Votes, Selected(u)'
          PROVE  Handled(summaries["recap"][n], n, u)'
      <3>1. PICK y, x : y = summaries'["recap"][n] /\ x = summaries["recap"][n]
        OBVIOUS
      <3>2. y.saw = x.saw /\ y.key = x.key /\ x.late \subseteq y.late
        BY <1>4, <1>5, <2>1, <3>1
      <3>3. CASE u = v
        <4>1. ~Stands => y.key = Stale
          BY <1>6, <2>1, <3>1, <3>2 DEF Stands
        <4>2. Handled(y, n, v)'
          BY <1>7, <4>1 DEF Handled
        <4> QED BY <3>1, <3>3, <4>2
      <3>4. CASE u # v
        <4>1. Handled(x, n, u) /\ vote'[u] = vote[u]
          BY <1>2, <1>6, <1>7, <1>8, <2>1, <3>1, <3>4 DEF NewestOK
        <4>2. Handled(y, n, u)'
          BY <3>2, <4>1 DEF Handled, Knows
        <4> QED BY <3>1, <4>2
      <3> QED BY <3>3, <3>4
    <2>2. ASSUME NEW u \in Votes, vote'[u].step = "chosen" PROVE vote'[u].row \in 1 .. n
      <3>1. CASE u = v
        BY <1>4, <1>6, <1>7, <2>2, <3>1 DEF Stands
      <3>2. CASE u # v
        BY <1>2, <1>6, <1>7, <2>2, <3>2 DEF VotesOK
      <3> QED BY <3>1, <3>2
    <2> QED BY <1>6, <2>1, <2>2 DEF NewestOK, VotesOK, Handled, Selected, Knows
  <1>14. StampsOK'
    BY <1>1 DEF IInv, StampsOK
  <1>15. BudgetOK'
    <2>1. \A p \in Requests : request'[p].step = request[p].step
      BY <1>4 DEF PlaceAges
    <2>2. Spending' = Spending
      BY <2>1 DEF Spending
    <2> QED BY <1>6, <2>2 DEF IInv, BudgetOK
  <1> QED BY <1>10, <1>11, <1>12, <1>13, <1>14, <1>15 DEF IInv

\* The row a vote found gets stale, the newest one or not by now.
LEMMA MarkStep == ASSUME RecapsConstants, IInv, NEW v \in Votes, Mark(v) PROVE IInv'
  <1>1. /\ events' = events /\ clock' = clock /\ stamped' = stamped /\ updated' = updated
        /\ moves' = moves /\ disordered' = disordered /\ request' = request
    BY DEF Mark, story, moved
  <1>2. /\ TypeOK /\ RequestsOK /\ RowsOK /\ NewestOK /\ VotesOK /\ StampsOK /\ BudgetOK
        /\ request \in [Requests -> Places] /\ vote \in [Votes -> Ballots]
        /\ "recap" \in AllKinds /\ "full" \in AllKinds
    BY Fields DEF IInv, AllKinds
  <1>3. PICK i : i = vote[v].row
    OBVIOUS
  <1>4. i \in 1 .. Len(summaries["recap"]) /\ Stale \in Keys
    BY <1>2, <1>3 DEF Mark, VotesOK, Newest, Keys
  <1>5. PICK row : row = summaries["recap"][i]
    OBVIOUS
  <1>6. KeyedAs("recap", i, Stale, row)
    <2>1. summaries' = [summaries EXCEPT !["recap"][i].key = Stale]
      BY <1>3 DEF Mark
    <2> HIDE DEF AllKinds, Keys, Stale
    <2> QED BY <1>2, <1>4, <1>5, <2>1, KeySet
  <1>7. /\ summaries' \in [AllKinds -> Seq(Rows)]
        /\ \A j \in AllKinds : Len(summaries'[j]) = Len(summaries[j])
        /\ \A j \in AllKinds : \A m \in 1 .. Len(summaries[j]) :
             /\ summaries'[j][m].saw = summaries[j][m].saw
             /\ summaries'[j][m].late = summaries[j][m].late
             /\ j # "recap" \/ m # i => summaries'[j][m] = summaries[j][m]
        /\ summaries'["recap"][i].key = Stale
    <2>1. summaries' \in [AllKinds -> Seq(Rows)]
      BY <1>6 DEF KeyedAs
    <2> HIDE DEF AllKinds, Rows
    <2> QED BY <1>5, <1>6, <2>1 DEF KeyedAs
  <1>8. /\ LastUpdate' = LastUpdate /\ Written' = Written
        /\ Newest("recap")' = Newest("recap") /\ Len(PreviewRows') = Len(PreviewRows)
    <2>1. \A j \in AllKinds : Newest(j)' = Newest(j)
      BY <1>7 DEF Newest
    <2>2. "recap" \in AllKinds /\ "full" \in AllKinds /\ "full-preview" \in AllKinds
      BY DEF AllKinds
    <2>3. Len(PreviewRows') = Len(PreviewRows)
      BY <2>1, <2>2 DEF PreviewRows, Newest
    <2>4. LastUpdate' = LastUpdate
      BY <1>1, Zenon DEF LastUpdate
    <2> HIDE DEF AllKinds, Newest, PreviewRows
    <2> QED BY <2>1, <2>2, <2>3, <2>4 DEF Written
  <1>9. /\ vote' \in [Votes -> Ballots] /\ vote'[v].step = "done" /\ vote[v].step = "chosen"
        /\ \A u \in Votes : u # v => vote'[u] = vote[u]
    <2>1. Done \in Ballots /\ Done.step = "done"
      BY DEF Done, Ballots
    <2>2. vote' = [vote EXCEPT ![v] = Done] /\ vote[v].step = "chosen"
      BY DEF Mark
    <2> HIDE DEF Ballots, Done
    <2> QED BY <1>2, <2>1, <2>2
  <1>10. Marked \subseteq Marked' /\ \A u \in Votes : Selected(u)' <=> Selected(u)
    BY <1>9 DEF Marked, Selected
  <1>11. ASSUME NEW x \in Places, RequestOK(x) PROVE RequestOK(x)'
    <2>1. /\ x.kind \in AllKinds /\ x.row \in Nat /\ x.preview \in Nat /\ x.kind \in {"recap", "full"}
          /\ PlaceOK(x) /\ AskOK(x) /\ MadeOK(x) /\ MovesOK(x) /\ CatchUpOK(x) /\ OverviewOK(x)
      BY <1>11, PlaceFields DEF RequestOK, PlaceOK
    <2>2. x.step \in {"set", "answer"} \cup Adding =>
            /\ Row(x)'.saw = Row(x).saw /\ Row(x)'.late = Row(x).late
            /\ x.kind = "full" => Row(x)' = Row(x)
            /\ Row(x)' = Row(x) \/ Row(x)'.key = Stale
      BY <1>7, <2>1 DEF PlaceOK, Row
    <2>3. x.preview # 0 => PreviewRows'[x.preview] = PreviewRows[x.preview]
      BY <1>7, <2>1 DEF PlaceOK, PreviewRows, AllKinds
    <2>4. PlaceOK(x)' /\ AskOK(x)'
      <3>1. x.asked.votes \subseteq Marked'
        BY <1>10, <2>1 DEF PlaceOK
      <3> QED BY <1>1, <1>7, <1>8, <2>1, <3>1 DEF PlaceOK, AskOK, Counts
    <2>5. MadeOK(x)'
      BY <1>10, <2>1, <2>2, NotPairs DEF MadeOK, Heeds, Knows
    <2>6. MovesOK(x)'
      <3> SUFFICES ASSUME AsksMoves(x)' PROVE MovesOK(x)'
        BY DEF MovesOK
      <3>1. AsksMoves(x)
        BY <1>1 DEF AsksMoves
      <3>2. Since(x.key, x.asked.moves)'
        BY <1>1, <1>8, <2>1, <3>1 DEF MovesOK, Since
      <3>3. ASSUME NEW m \in 1 .. Newest("recap")', NEW y, y = summaries'["recap"][m],
                   y.key \in Pairs, y.key[2] = x.key[2]
            PROVE  y.saw.moves >= x.asked.moves
        <4>1. m \in 1 .. Len(summaries["recap"]) /\ m \in 1 .. Newest("recap") /\ m # i
          BY <1>7, <1>8, <3>3, NotPairs DEF Newest
        <4>2. y = summaries["recap"][m]
          BY <1>2, <1>7, <3>3, <4>1
        <4> QED BY <2>1, <3>1, <3>3, <4>1, <4>2 DEF MovesOK
      <3> QED BY <3>2, <3>3 DEF MovesOK
    <2>7. CatchUpOK(x)'
      BY <1>1, <2>1, <2>2 DEF CatchUpOK
    <2>8. OverviewOK(x)'
      BY <1>1, <2>1, <2>2, <2>3 DEF OverviewOK, CloseTo, Counts, Adding, PlaceOK
    <2> QED BY <2>4, <2>5, <2>6, <2>7, <2>8 DEF RequestOK
  <1>12. RequestsOK'
    <2>1. ASSUME NEW q \in Requests, RequestOK(request[q]) PROVE RequestOK(request[q])'
      <3>1. PICK x \in Places : x = request[q]
        BY <1>2
      <3> QED BY <1>1, <1>11, <2>1, <3>1
    <2>2. ASSUME NEW p \in Requests, NEW q \in Requests, Alike(request[p], request[q])
          PROVE  Alike(request[p], request[q])'
      BY <1>1, <2>2 DEF Alike, AsksMoves
    <2> QED BY <1>1, <1>2, <2>1, <2>2, RequestsStand
  <1>13. TypeOK'
    <2>1. \A p \in Requests : request'[p].row <= Len(summaries'[request'[p].kind])
      <3>1. ASSUME NEW p \in Requests, NEW s \in Places, s = request[p]
            PROVE  request'[p].row <= Len(summaries'[request'[p].kind])
        <4>1. s.kind \in AllKinds /\ s.row <= Len(summaries[s.kind])
          BY <1>2, <3>1, Fields, PlaceFields
        <4> QED BY <1>1, <1>7, <3>1, <4>1
      <3> QED BY <1>2, <3>1
    <2> HIDE DEF Places, Rows, AllKinds, Ballots
    <2> QED BY <1>1, <1>2, <1>7, <1>9, <2>1 DEF TypeOK
  <1>14. RowsOK'
    <2>1. ASSUME NEW j \in AllKinds, NEW m \in 1 .. Len(summaries'[j])
          PROVE  RowOK(j, summaries[j][m])'
      <3>1. PICK y, x : y = summaries'[j][m] /\ x = summaries[j][m]
        OBVIOUS
      <3>2. RowOK(j, x) /\ (y = x \/ y.key = Stale)
        BY <1>2, <1>7, <3>1 DEF RowsOK
      <3>3. RowOK(j, y)'
        BY <1>1, <1>8, <3>2, NotPairs DEF RowOK, Since
      <3> QED BY <3>1, <3>3
    <2> QED BY <2>1 DEF RowsOK
  <1>15. NewestOK' /\ VotesOK'
    <2>1. PICK n : n = Newest("recap")
      OBVIOUS
    <2>2. ASSUME n > 0, NEW u \in Votes, Selected(u)
          PROVE  Handled(summaries["recap"][n], n, u)'
      <3>1. PICK y, x : y = summaries'["recap"][n] /\ x = summaries["recap"][n]
        OBVIOUS
      <3>2. Handled(x, n, u) /\ n \in 1 .. Len(summaries["recap"])
        BY <1>2, <2>1, <2>2, <3>1, Lengths DEF NewestOK, Newest
      <3>3. CASE n = i
        BY <1>7, <3>3 DEF Handled
      <3>4. CASE n # i
        <4>1. y = x
          BY <1>2, <1>7, <3>1, <3>2, <3>4
        <4>2. Handled(y, n, u)'
          BY <1>3, <1>9, <3>2, <3>4, <4>1 DEF Handled
        <4> QED BY <3>1, <4>2
      <3> QED BY <3>3, <3>4
    <2>3. \A u \in Votes : vote'[u].step = "chosen" => vote'[u].row \in 1 .. n
      BY <1>2, <1>9, <2>1 DEF VotesOK
    <2>4. ASSUME NEW u \in Votes, Selected(u)', n > 0
          PROVE  Handled(summaries["recap"][n], n, u)'
      BY <1>10, <2>2, <2>4
    <2> QED BY <1>8, <2>1, <2>3, <2>4 DEF NewestOK, VotesOK, Handled, Selected, Knows
  <1>16. StampsOK' /\ BudgetOK'
    BY <1>1, <1>2, <1>8, BudgetStands DEF StampsOK
  <1> QED BY <1>12, <1>13, <1>14, <1>15, <1>16 DEF IInv

-------------------------------------------------------------------------------
(* The invariant                                                             *)

LEMMA InitInv == ASSUME RecapsConstants, Init PROVE IInv
  <1>1. /\ events = <<>> /\ clock = 0 /\ stamped = {} /\ updated = [t \in Threads |-> 0]
        /\ moves = 0 /\ disordered = FALSE
        /\ vote = [v \in Votes |-> [step |-> "none", row |-> 0]]
        /\ summaries = [k \in AllKinds |-> <<>>] /\ request = [q \in Requests |-> Idle]
    BY DEF Init
  <1>2. \A k \in AllKinds : summaries[k] = <<>> /\ Len(summaries[k]) = 0
    BY <1>1
  <1>3. "recap" \in AllKinds /\ "full" \in AllKinds /\ "full-preview" \in AllKinds
    BY DEF AllKinds
  <1>4. Newest("recap") = 0 /\ Len(PreviewRows) = 0 /\ Written = 0
    <2>1. Newest("recap") = 0 /\ Newest("full") = 0 /\ Newest("full-preview") = 0
      BY <1>2, <1>3 DEF Newest
    <2> QED BY <1>2, <1>3, <2>1 DEF PreviewRows, Written
  <1>5. /\ MaxEvents \in Nat /\ MaxMoves \in Nat /\ Limit \in Nat \ {0}
        /\ Cardinality(Requests) \in Nat
    BY Constant, FS_CardinalityType
  <1>6. /\ Idle \in Places /\ Idle.step = "idle" /\ Idle.kind = "recap" /\ Idle.row = 0
        /\ Idle.preview = 0 /\ Idle.asked.events = 0 /\ Idle.asked.moves = 0
        /\ Idle.asked.votes = {}
    BY IdlePlace
  <1>7. TypeOK
    <2> HIDE DEF Places, Rows, AllKinds, Idle
    <2>1. events \in Seq(BOOLEAN) /\ Len(events) <= MaxEvents
      BY <1>1, <1>5
    <2>2. summaries \in [AllKinds -> Seq(Rows)]
      BY <1>1
    <2>3. request \in [Requests -> Places]
      BY <1>1, <1>6
    <2>4. \A q \in Requests : request[q].row <= Len(summaries[request[q].kind])
      BY <1>1, <1>2, <1>3, <1>6
    <2>5. moves = 0 /\ clock = 0 /\ stamped = {}
      BY <1>1
    <2>6. /\ moves \in 0 .. clock /\ clock \in 0 .. MaxMoves /\ stamped \subseteq 1 .. clock
      BY <1>5, <2>5
    <2>7. disordered \in BOOLEAN /\ vote \in [Votes -> Ballots]
      BY <1>1 DEF Ballots
    <2>8. updated \in [Threads -> 0 .. clock]
      BY <1>1, <2>5
    <2> QED BY <2>1, <2>2, <2>3, <2>4, <2>6, <2>7, <2>8 DEF TypeOK
  <1>8. RequestOK(Idle)
    <2>1. Len(events) = 0
      BY <1>1
    <2> HIDE DEF Idle
    <2> QED BY <1>1, <1>4, <1>6, <2>1
            DEF RequestOK, PlaceOK, AskOK, MadeOK, MovesOK, AsksMoves, CatchUpOK, OverviewOK,
                Asking, Adding
  <1>9. Alike(Idle, Idle)
    BY <1>6 DEF Alike, AsksMoves, Asking
  <1>10. RequestsOK
    BY <1>1, <1>8, <1>9 DEF RequestsOK
  <1>11. RowsOK /\ NewestOK /\ VotesOK
    BY <1>1, <1>2, <1>4 DEF RowsOK, NewestOK, VotesOK
  <1>12. StampsOK
    BY <1>1, FS_EmptySet DEF StampsOK
  <1>13. BudgetOK
    <2>1. Spending = {}
      BY <1>1, <1>6 DEF Spending, Paid
    <2>2. Cardinality(Spending) = 0
      BY <2>1, FS_EmptySet
    <2> QED BY <1>4, <1>5, <2>2 DEF BudgetOK
  <1> QED BY <1>7, <1>10, <1>11, <1>12, <1>13 DEF IInv

LEMMA StutterStep == ASSUME RecapsConstants, IInv, UNCHANGED recapVars PROVE IInv'
  <1>1. /\ events' = events /\ clock' = clock /\ stamped' = stamped /\ updated' = updated
        /\ moves' = moves /\ disordered' = disordered /\ vote' = vote
        /\ summaries' = summaries /\ request' = request
    BY DEF recapVars
  <1>2. /\ Written' = Written
        /\ \A x : RequestOK(x) => RequestOK(x)'
        /\ \A x, y : Alike(x, y) => Alike(x, y)'
        /\ RowsOK => RowsOK'
        /\ NewestOK => NewestOK'
        /\ VotesOK => VotesOK'
    BY <1>1, Unmoved
  <1>3. RequestsOK'
    <2>1. ASSUME NEW q \in Requests, RequestOK(request[q]) PROVE RequestOK(request[q])'
      <3>1. PICK x : x = request[q]
        OBVIOUS
      <3> QED BY <1>1, <1>2, <2>1, <3>1
    <2>2. ASSUME NEW p \in Requests, NEW q \in Requests, Alike(request[p], request[q])
          PROVE  Alike(request[p], request[q])'
      <3>1. PICK x, y : x = request[p] /\ y = request[q]
        OBVIOUS
      <3> QED BY <1>1, <1>2, <2>2, <3>1
    <2> QED BY <1>1, <2>1, <2>2, RequestsStand DEF IInv
  <1>4. TypeOK'
    <2> HIDE DEF Places, Rows
    <2> QED BY <1>1 DEF IInv, TypeOK
  <1>5. StampsOK' /\ BudgetOK'
    BY <1>1, <1>2, BudgetStands DEF IInv, StampsOK
  <1> QED BY <1>2, <1>3, <1>4, <1>5 DEF IInv

LEMMA NextInv == ASSUME RecapsConstants, IInv, [Next]_recapVars PROVE IInv'
  <1>1. ASSUME NEW q \in Requests, NEW k \in Kinds, Ask(q, k) PROVE IInv'
    BY <1>1, AskStep
  <1>2. ASSUME NEW q \in Requests, Cached(q) PROVE IInv'
    BY <1>2, CachedStep
  <1>3. ASSUME NEW q \in Requests, Limited(q) PROVE IInv'
    BY <1>3, LimitedStep
  <1>4. ASSUME NEW q \in Requests, Generate(q) PROVE IInv'
    BY <1>4, GenerateStep
  <1>5. ASSUME NEW q \in Requests, Build(q) PROVE IInv'
    BY <1>5, BuildStep
  <1>6. ASSUME NEW q \in Requests, Fails(q) PROVE IInv'
    BY <1>6, FailsStep
  <1>7. ASSUME NEW q \in Requests, Save(q) PROVE IInv'
    BY <1>7, SaveStep
  <1>8. ASSUME NEW q \in Requests, SetKey(q) PROVE IInv'
    BY <1>8, SetKeyStep
  <1>9. ASSUME NEW q \in Requests, Return(q) PROVE IInv'
    BY <1>9, ReturnStep
  <1>10. ASSUME NEW q \in Requests, PreviewCached(q) PROVE IInv'
    BY <1>10, PreviewCachedStep
  <1>11. ASSUME NEW q \in Requests, ShortenAsked(q) PROVE IInv'
    BY <1>11, ShortenAskedStep
  <1>12. ASSUME NEW q \in Requests, NoPreview(q) PROVE IInv'
    BY <1>12, NoPreviewStep
  <1>13. ASSUME NEW q \in Requests, SavePreview(q) PROVE IInv'
    BY <1>13, SavePreviewStep
  <1>14. ASSUME NEW q \in Requests, SetPreviewKey(q) PROVE IInv'
    BY <1>14, SetPreviewKeyStep
  <1>15. ASSUME NEW v \in Votes, Vote(v) \/ Choose(v) \/ Mark(v) PROVE IInv'
    BY <1>15, VoteStep, ChooseStep, MarkStep
  <1>16. ASSUME NEW notable \in BOOLEAN, EventCommitted(notable) PROVE IInv'
    BY <1>16, EventCommittedStep
  <1>17. ASSUME NEW t \in Threads, ThreadMoves(t) PROVE IInv'
    BY <1>17, ThreadMovesStep
  <1>18. ASSUME UNCHANGED recapVars PROVE IInv'
    BY <1>18, StutterStep
  <1> QED BY <1>1, <1>2, <1>3, <1>4, <1>5, <1>6, <1>7, <1>8, <1>9, <1>10, <1>11, <1>12, <1>13,
             <1>14, <1>15, <1>16, <1>17, <1>18, WindowBeginsStep DEF Next

LEMMA Invariant == ASSUME RecapsConstants PROVE Spec => []IInv
  <1>1. Init => IInv
    BY InitInv
  <1>2. IInv /\ [Next]_recapVars => IInv'
    BY NextInv
  <1> QED BY <1>1, <1>2, PTL DEF Spec

-------------------------------------------------------------------------------
(* What follows from it                                                      *)

\* Requests, rows, keys and counts keep their types, and every request that has
\* a row has one of its kind (routes_sessions.py, rolling.py).
THEOREM TypeCorrect == ASSUME RecapsConstants PROVE Spec => []TypeOK
  <1>1. IInv => TypeOK
    BY DEF IInv
  <1> QED BY <1>1, Invariant, PTL

\* A catch-up misses nothing that had happened when it was asked for, cached or
\* not, with any number of requests, windows and threads
\* (routes_sessions.py:116-121, 239-263).
THEOREM CatchUpsMissNothing == ASSUME RecapsConstants PROVE Spec => []CatchUpComplete
  <1>1. IInv => CatchUpComplete
    <2> SUFFICES ASSUME IInv, NEW q \in Requests, Answered(q, "recap")
                 PROVE  /\ TextOf(q).events >= request[q].asked.events
                        /\ disordered \/ TextOf(q).moves >= request[q].asked.moves
      BY DEF CatchUpComplete
    <2>1. CatchUpOK(request[q])
      BY DEF IInv, RequestsOK, RequestOK
    <2> QED BY <2>1 DEF CatchUpOK, Answered, TextOf, Row
  <1> QED BY <1>1, Invariant, PTL

\* An overview, and the preview found by its key, are never older than two small
\* events and no notable one (routes_sessions.py:93-97, 124-139, 185-215).
THEOREM OverviewsStayNear == ASSUME RecapsConstants PROVE Spec => []OverviewNear
  <1>1. ASSUME IInv, NEW q \in Requests, NEW text \in Seen, CloseTo(request[q].asked.events, text)
        PROVE  Near(q, text)
    <2>1. PICK n : n = request[q].asked.events
      OBVIOUS
    <2>2. n \in Nat /\ text.events \in Nat
      BY <1>1, <2>1, OfRequest, PlaceFields, Constant DEF Seen
    <2>3. n <= text.events + 2 /\ \A i \in text.events + 1 .. n : ~events[i]
      BY <1>1, <2>1 DEF CloseTo
    <2>4. Cardinality(text.events + 1 .. n) <= 2
      <3>1. PICK a \in Int : a = text.events + 1
        BY <2>2
      <3>2. Cardinality(a .. n) = IF a > n THEN 0 ELSE n - a + 1
        BY <2>2, FS_Interval
      <3> QED BY <2>2, <2>3, <3>1, <3>2
    <2> QED BY <2>1, <2>3, <2>4 DEF Near
  <1>2. ASSUME IInv, NEW q \in Requests, Answered(q, "full")
        PROVE  /\ Near(q, TextOf(q))
               /\ request[q].preview # 0 => Near(q, PreviewRows[request[q].preview].saw)
    <2>1. PICK s : s = request[q]
      OBVIOUS
    <2>2. /\ s \in Places /\ PlaceOK(s) /\ OverviewOK(s) /\ TypeOK
          /\ s.step = "answer" /\ s.kind = "full" /\ ~s.limited /\ s.preview \in Nat
      BY <1>2, <2>1, OfRequest, PlaceFields DEF RequestOK, Answered
    <2>3. TextOf(q) = Row(s).saw /\ Row(s).saw \in Seen
      <3>1. Row(s) \in Rows
        BY <2>2, RowIn DEF PlaceOK, Row, AllKinds
      <3> QED BY <2>1, <3>1, RowFields DEF TextOf, Row
    <2>4. Near(q, TextOf(q))
      BY <1>1, <1>2, <2>1, <2>2, <2>3 DEF OverviewOK
    <2>5. ASSUME s.preview # 0 PROVE Near(q, PreviewRows[s.preview].saw)
      <3>1. s.preview \in 1 .. Len(PreviewRows) /\ PreviewRows \in Seq(Rows)
        BY <2>2, <2>5, Lengths DEF PlaceOK
      <3>2. PreviewRows[s.preview] \in Rows
        BY <3>1
      <3>3. PreviewRows[s.preview].saw \in Seen
        BY <3>2, RowFields
      <3> QED BY <1>1, <1>2, <2>1, <2>2, <2>5, <3>3 DEF OverviewOK
    <2> QED BY <2>1, <2>4, <2>5
  <1>3. IInv => OverviewNear
    BY <1>2 DEF OverviewNear
  <1> QED BY <1>3, Invariant, PTL

\* With any number of votes and requests side by side, each between its own commits,
\* a catch-up asked for after a vote was dealt with is never one from before the vote,
\* unless it was being made when the vote looked for the newest one
\* (routes_sessions.py:234-235, 245-255).
THEOREM VotesAreHeeded == ASSUME RecapsConstants PROVE Spec => []VoteHeeded
  <1>1. IInv => VoteHeeded
    <2> SUFFICES ASSUME IInv, NEW q \in Requests, Answered(q, "recap")
                 PROVE  request[q].asked.votes \subseteq
                            TextOf(q).votes \cup summaries["recap"][request[q].row].late
      BY DEF VoteHeeded
    <2>1. CatchUpOK(request[q])
      BY DEF IInv, RequestsOK, RequestOK
    <2> QED BY <2>1 DEF CatchUpOK, Answered, TextOf, Row
  <1> QED BY <1>1, Invariant, PTL

\* However many requests check the budget together, each but one overshoots it
\* by one summary at most (budget.py:52-57).
THEOREM BudgetOvershoot == ASSUME RecapsConstants PROVE Spec => []OvershootBounded
  <1>1. IInv => OvershootBounded
    <2> SUFFICES ASSUME IInv PROVE OvershootBounded
      OBVIOUS
    <2>1. IsFiniteSet(Spending)
      <3>1. Spending \subseteq Requests
        BY DEF Spending
      <3> QED BY <3>1, Constant, FS_Subset
    <2>2. Cardinality(Spending) \in Nat /\ Cardinality(Requests) \in Nat
      BY <2>1, Constant, FS_CardinalityType
    <2>3. Written \in Nat /\ Limit \in Nat /\ BudgetOK
      BY Lengths, Constant DEF IInv
    <2> QED BY <2>2, <2>3 DEF BudgetOK, OvershootBounded
  <1> QED BY <1>1, Invariant, PTL
===============================================================================
