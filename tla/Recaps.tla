-------------------------------- MODULE Recaps --------------------------------
(***************************************************************************)
(* The cached summaries of one session: get_recap, get_full_summary and    *)
(* post_feedback of app/api/routes_sessions.py with build_recap and        *)
(* save_summary of app/summarize/rolling.py and the budget of              *)
(* app/llm/budget.py.  Requests run side by side in threads; each reads a  *)
(* key, then what is cached, then the story, calls the LLM, commits a row  *)
(* and commits its key; an overview then gets a preview in the same way.   *)
(*                                                                         *)
(* A text stands for what it was made from: how many events and thread     *)
(* updates, which votes.  A window stamps its thread updates with the time *)
(* write_extraction began, and commits them later.                         *)
(***************************************************************************)
EXTENDS RecapsState, FiniteSetsExt

CONSTANTS
    Kinds,        \* which of "recap" and "full" are asked for
    MaxEvents,    \* bound: events of the session
    Threads,      \* storylines of the channel
    MaxMoves,     \* bound: windows of the channel that move one
    Votes         \* bound: negative votes

AllKinds == {"recap", "full", "full-preview"}

\* What is assumed of them.
RecapsConstants ==
    /\ IsFiniteSet(Requests) /\ IsFiniteSet(Threads)
    /\ Kinds \subseteq {"recap", "full"}
    /\ {MaxEvents, MaxMoves} \subseteq Nat /\ Limit \in Nat \ {0}

NoKey == <<"NULL">>
Stale == <<"stale-feedback">>

moved == <<clock, stamped, updated, moves, disordered>>
story == <<events, moved>>

Steps == {"idle", "key", "build", "save", "set", "preview", "shorten", "label", "answer"}
Seen == [events : 0 .. MaxEvents, moves : 0 .. MaxMoves, votes : SUBSET Votes]
Keys == Seq(0 .. MaxEvents + MaxMoves) \cup {NoKey, Stale}
NoSeen == [events |-> 0, moves |-> 0, votes |-> {}]
Idle == [step |-> "idle", kind |-> "recap", key |-> NoKey, asked |-> NoSeen,
         saw |-> NoSeen, row |-> 0, preview |-> 0, limited |-> FALSE, late |-> {}]

Rows == [key : Keys, saw : Seen, late : SUBSET Votes]
Places == [step : Steps, kind : AllKinds, key : Keys, asked : Seen, saw : Seen,
           row : Nat, preview : Nat, limited : BOOLEAN, late : SUBSET Votes]

Ballots == [step : {"none", "recorded", "chosen", "done"}, row : Nat]
Done == [step |-> "done", row |-> 0]

TypeOK ==
    /\ events \in Seq(BOOLEAN) /\ Len(events) <= MaxEvents
    /\ moves \in 0 .. clock /\ clock \in 0 .. MaxMoves /\ stamped \subseteq 1 .. clock
    /\ updated \in [Threads -> 0 .. clock] /\ disordered \in BOOLEAN
    /\ vote \in [Votes -> Ballots]
    /\ summaries \in [AllKinds -> Seq(Rows)] /\ request \in [Requests -> Places]
    /\ \A q \in Requests : request[q].row <= Len(summaries[request[q].kind])

Init ==
    /\ events = <<>>
    /\ clock = 0 /\ stamped = {} /\ updated = [t \in Threads |-> 0] /\ moves = 0
    /\ disordered = FALSE
    /\ vote = [v \in Votes |-> [step |-> "none", row |-> 0]]
    /\ summaries = [k \in AllKinds |-> <<>>]
    /\ request = [q \in Requests |-> Idle]

Recorded == {v \in Votes : vote[v].step # "none"}
Marked == {v \in Votes : vote[v].step = "done"}
\* What there is to be read, where of the votes those in seen count.
Now(seen) == [events |-> Len(events), moves |-> moves, votes |-> seen]
At(q, step) == request[q].step = step
Kind(q) == request[q].kind

-------------------------------------------------------------------------------
(* Keys                                                                      *)

\* _recap_snapshot
LastUpdate == Max({0} \cup {updated[t] : t \in Threads})
RecapKey == <<Len(events), LastUpdate>>

NotableMax == Max({0} \cup {i \in 1 .. Len(events) : events[i]})
\* _full_snapshot.  A mutant: notable events wait for their turn, too.
FullKeyThirds == IF events = <<>> THEN <<0, 0>> ELSE <<0, 1 + (Len(events) - 1) \div 3>>
FullKey == IF events = <<>> THEN <<0, 0>> ELSE <<NotableMax, 1 + (Len(events) - 1) \div 3>>

KeyOf(k) == IF k = "recap" THEN RecapKey ELSE FullKey

\* should_skip_extraction.  A mutant: the last of the budget is spent twice.
OverLimit == Written > Limit
Exceeded == Written >= Limit

-------------------------------------------------------------------------------
(* A request                                                                 *)

\* Without events there is no full summary.
Ask(q, k) ==
    /\ At(q, "idle") /\ (k = "full" => events # <<>>)
    /\ request' = [request EXCEPT ![q] = [Idle EXCEPT
                     !.step = "key", !.kind = k, !.key = KeyOf(k), !.asked = Now(Marked)]]
    /\ UNCHANGED <<story, vote, summaries>>

\* A text was found: a catch-up is returned, an overview gets its preview first.
Answer(q, row, limited) ==
    request' = [request EXCEPT ![q] = [Idle EXCEPT
                  !.step = IF Kind(q) = "full" THEN "preview" ELSE "answer",
                  !.kind = Kind(q), !.asked = request[q].asked,
                  !.row = row, !.limited = limited]]

Fresh(q) == Newest(Kind(q)) > 0 /\ summaries[Kind(q)][Newest(Kind(q))].key = request[q].key

Cached(q) ==
    /\ At(q, "key") /\ Fresh(q)
    /\ Answer(q, Newest(Kind(q)), FALSE)
    /\ UNCHANGED <<story, vote, summaries>>

\* Whatever is cached, or 429.  Windows count against the session's budget, and
\* other sessions against the month's: it may be used up without any summary.
Limited(q) ==
    /\ At(q, "key") /\ ~Fresh(q)
    /\ IF Newest(Kind(q)) > 0 THEN Answer(q, Newest(Kind(q)), TRUE)
                              ELSE request' = [request EXCEPT ![q] = Idle]
    /\ UNCHANGED <<story, vote, summaries>>

Generate(q) ==
    /\ At(q, "key") /\ ~Fresh(q) /\ ~Exceeded
    /\ request' = [request EXCEPT ![q].step = "build"]
    /\ UNCHANGED <<story, vote, summaries>>

\* build_recap reads the story and what was voted; then the LLM answers ...
Build(q) ==
    /\ At(q, "build")
    /\ request' = [request EXCEPT ![q].step = "save", ![q].saw = Now(Recorded)]
    /\ UNCHANGED <<story, vote, summaries>>

\* ... or does not: 503.  So does the commit of a row, or of its key.
Fails(q) ==
    /\ At(q, "save") \/ At(q, "set")
    /\ request' = [request EXCEPT ![q] = Idle]
    /\ UNCHANGED <<story, vote, summaries>>

\* save_summary commits the row before it has its key.
Save(q) ==
    /\ At(q, "save")
    /\ summaries' = [summaries EXCEPT ![Kind(q)] = Append(@, [key |-> NoKey, saw |-> request[q].saw,
                                                    late |-> request[q].late])]
    /\ request' = [request EXCEPT ![q].step = "set", ![q].row = Newest(Kind(q)) + 1,
                                  ![q].saw = NoSeen]
    /\ UNCHANGED <<story, vote>>

\* A mutant: the key is computed when it is stored.
SetKeyNow(q) ==
    /\ At(q, "set")
    /\ summaries' = [summaries EXCEPT ![Kind(q)][request[q].row].key = KeyOf(Kind(q))]
    /\ Answer(q, request[q].row, FALSE)
    /\ UNCHANGED <<story, vote>>
SetKey(q) ==
    /\ At(q, "set")
    /\ summaries' = [summaries EXCEPT ![Kind(q)][request[q].row].key = request[q].key]
    /\ Answer(q, request[q].row, FALSE)
    /\ UNCHANGED <<story, vote>>

\* _full_with_preview: what is cached, by its key ...
PreviewKey(q) == summaries["full"][request[q].row].key
Preview(q, row) == request' = [request EXCEPT ![q].step = "answer", ![q].preview = row]
PreviewFresh(q) == PreviewRows # <<>> /\ Last(PreviewRows).key = PreviewKey(q)

PreviewCached(q) ==
    /\ At(q, "preview") /\ PreviewFresh(q)
    /\ Preview(q, Len(PreviewRows))
    /\ UNCHANGED <<story, vote, summaries>>

\* ... or another call to the LLM.
ShortenAsked(q) ==
    /\ At(q, "preview") /\ ~PreviewFresh(q) /\ ~Exceeded
    /\ request' = [request EXCEPT ![q].step = "shorten"]
    /\ UNCHANGED <<story, vote, summaries>>

\* No budget, no answer, an empty one or a commit that fails: the overview goes without.
NoPreview(q) ==
    /\ (At(q, "preview") /\ ~PreviewFresh(q)) \/ At(q, "shorten") \/ At(q, "label")
    /\ Preview(q, 0)
    /\ UNCHANGED <<story, vote, summaries>>

SavePreview(q) ==
    /\ At(q, "shorten")
    /\ summaries' = [summaries EXCEPT !["full-preview"] =
                  Append(@, [key |-> NoKey, saw |-> summaries["full"][request[q].row].saw,
                             late |-> {}])]
    /\ request' = [request EXCEPT ![q].step = "label", ![q].preview = Len(PreviewRows) + 1]
    /\ UNCHANGED <<story, vote>>

SetPreviewKey(q) ==
    /\ At(q, "label")
    /\ summaries' = [summaries EXCEPT !["full-preview"][request[q].preview].key = PreviewKey(q)]
    /\ Preview(q, request[q].preview)
    /\ UNCHANGED <<story, vote>>

Return(q) ==
    /\ At(q, "answer")
    /\ request' = [request EXCEPT ![q] = Idle]
    /\ UNCHANGED <<story, vote, summaries>>

-------------------------------------------------------------------------------
(* Feedback                                                                  *)

Vote(v) ==
    /\ vote[v].step = "none"
    /\ vote' = [vote EXCEPT ![v].step = "recorded"]
    /\ UNCHANGED <<story, summaries, request>>

\* The catch-ups a vote finds made and without a key yet are late for it.
Unfinished(i) == \E q \in Requests : At(q, "set") /\ Kind(q) = "recap" /\ request[q].row = i
Aged(i, v) ==
    LET row == summaries["recap"][i] IN
    IF Unfinished(i) THEN [row EXCEPT !.late = @ \cup {v}] ELSE row
MakeLate(v) ==
    /\ request' = [q \in Requests |-> IF At(q, "save") /\ Kind(q) = "recap"
                                      THEN [request[q] EXCEPT !.late = @ \cup {v}]
                                      ELSE request[q]]
    /\ summaries' = [summaries EXCEPT !["recap"] = [i \in DOMAIN @ |-> Aged(i, v)]]

\* The newest catch-up is read, after the vote is recorded.  If there is none, or it
\* is stale already, nothing is left to do ...
Stands == Newest("recap") > 0 /\ summaries["recap"][Newest("recap")].key # Stale
Choose(v) ==
    /\ vote[v].step = "recorded"
    /\ vote' = [vote EXCEPT ![v] = IF Stands THEN [step |-> "chosen", row |-> Newest("recap")]
                                            ELSE Done]
    /\ MakeLate(v)
    /\ UNCHANGED story

\* ... and otherwise that one, the newest or not by now, is made stale.  A mutant:
\* the vote is only recorded.
MarkNothing(v) ==
    /\ vote[v].step = "chosen"
    /\ vote' = [vote EXCEPT ![v] = Done]
    /\ UNCHANGED <<story, summaries, request>>
Mark(v) ==
    /\ vote[v].step = "chosen"
    /\ vote' = [vote EXCEPT ![v] = Done]
    /\ summaries' = [summaries EXCEPT !["recap"][vote[v].row].key = Stale]
    /\ UNCHANGED <<story, request>>

-------------------------------------------------------------------------------
(* The session goes on                                                       *)

EventCommitted(notable) ==
    /\ Len(events) < MaxEvents
    /\ events' = Append(events, notable)
    /\ UNCHANGED <<moved, vote, summaries, request>>

\* write_extraction begins, in this session or another one of the channel ...
WindowBegins ==
    /\ clock < MaxMoves
    /\ clock' = clock + 1 /\ stamped' = stamped \cup {clock + 1}
    /\ UNCHANGED <<events, updated, moves, disordered, vote, summaries, request>>

\* ... and commits what moves a thread.
ThreadMoves(t) ==
    \E stamp \in stamped :
        /\ stamped' = stamped \ {stamp}
        /\ updated' = [updated EXCEPT ![t] = stamp]
        /\ moves' = moves + 1
        /\ disordered' = (disordered \/ stamp < LastUpdate)
        /\ UNCHANGED <<events, clock, vote, summaries, request>>

Next ==
    \/ \E q \in Requests :
         \/ \E k \in Kinds : Ask(q, k)
         \/ Cached(q) \/ Limited(q) \/ Generate(q) \/ Build(q) \/ Fails(q)
         \/ Save(q) \/ SetKey(q) \/ Return(q)
         \/ PreviewCached(q) \/ ShortenAsked(q) \/ NoPreview(q)
         \/ SavePreview(q) \/ SetPreviewKey(q)
    \/ \E v \in Votes : Vote(v) \/ Choose(v) \/ Mark(v)
    \/ \E notable \in BOOLEAN : EventCommitted(notable)
    \/ WindowBegins \/ \E t \in Threads : ThreadMoves(t)

Spec == Init /\ [][Next]_recapVars

=============================================================================
