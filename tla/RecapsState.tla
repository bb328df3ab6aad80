----------------------------- MODULE RecapsState -----------------------------
(* The state of Recaps, and what Recaps promises of it.                     *)
EXTENDS Integers, Sequences, SequencesExt, FiniteSets

CONSTANTS
    Requests,     \* requests that may be under way at once
    Limit         \* LLM_SESSION_BUDGET_USD, in summaries

VARIABLES
    events,    \* the session's events in the order of their ids: notable or not
    clock,     \* how many windows began to write
    stamped,   \* the stamps of those that have not committed
    updated,   \* last_updated_at of each thread, 0 for none
    moves,     \* how many have committed
    disordered,   \* one committed a stamp older than another thread update
    vote,      \* each negative vote: how far it is, and the row it found
    summaries, \* rows of the table, by kind
    request    \* where each request is

recapVars == <<events, clock, stamped, updated, moves, disordered, vote, summaries, request>>

Newest(k) == Len(summaries[k])
Written == Newest("recap") + Newest("full") + Newest("full-preview")
PreviewRows == summaries["full-preview"]

\* q is answered with the text of row i, and not for want of a budget.
Answered(q, k) == request[q].step = "answer" /\ request[q].kind = k /\ ~request[q].limited
TextOf(q) == summaries[request[q].kind][request[q].row].saw

\* A catch-up, cached or not, misses nothing that had happened when it was asked
\* for, whatever requests, events and thread updates come between its reads and
\* its commits (routes_sessions.py:116-121), unless thread updates were committed
\* out of the order of their stamps.
CatchUpComplete ==
    \A q \in Requests : Answered(q, "recap") =>
        /\ TextOf(q).events >= request[q].asked.events
        /\ disordered \/ TextOf(q).moves >= request[q].asked.moves

\* text is at most two small events behind the request, and never a notable one.
Near(q, text) ==
    LET missed == text.events + 1 .. request[q].asked.events IN
    /\ Cardinality(missed) <= 2
    /\ \A i \in missed : ~events[i]

\* An overview is near the request, and so is the preview shown with it, although
\* previews are found by the key of a text and not by the text
\* (routes_sessions.py:93-97, 202-203).
OverviewNear ==
    \A q \in Requests : Answered(q, "full") =>
        /\ Near(q, TextOf(q))
        /\ request[q].preview # 0 => Near(q, PreviewRows[request[q].preview].saw)

\* A catch-up asked for after a vote was dealt with is not one from before the
\* vote, whatever is made, saved and voted on between the vote's own commits,
\* unless it was being made when the vote looked for the newest one
\* (routes_sessions.py:234-235, 245-255).
VoteHeeded ==
    \A q \in Requests : Answered(q, "recap") =>
        request[q].asked.votes \subseteq TextOf(q).votes \cup summaries["recap"][request[q].row].late

\* Requests that checked the budget together overshoot it together: by one
\* summary for each but one (budget.py:52-57).
OvershootBounded ==
    Written <= Limit + Cardinality(Requests) - 1
=============================================================================
