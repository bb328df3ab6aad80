------------------------------ MODULE LeaseTable ------------------------------
(***************************************************************************)
(* The monitor_leases table of app/leases.py: one row per key, and each    *)
(* database transaction the module runs on it as one action.  A caller     *)
(* that runs several transactions (try_acquire, start_live_session) takes  *)
(* several steps, so that other workers can act between them.              *)
(*                                                                         *)
(* A row does not keep the absolute expires_at but "left", the time until  *)
(* then in ticks: a row is valid while expires_at >= now, that is while    *)
(* left >= 0, and left = -1 stands for every expired row.                  *)
(***************************************************************************)
EXTENDS Integers

CONSTANTS
    Keys,       \* primary keys: a live channel, a replay session, the watcher
    Owners,     \* worker ids, one per incarnation of a worker process
    Sessions,   \* session ids
    None,       \* NULL
    TTL         \* MONITOR_LEASE_TTL_SECONDS, in ticks

VARIABLE lease  \* Keys -> row; NoRow where the table has none

Row(o, s, left, stop) ==
    [owner |-> o, session |-> s, left |-> left, stop |-> stop]

NoRow == Row(None, None, -1, FALSE)

Rows == [owner : Owners \cup {None}, session : Sessions \cup {None},
         left : -1 .. TTL, stop : BOOLEAN]

Present(k) == lease[k].owner # None
Valid(k) == Present(k) /\ lease[k].left >= 0
Expired(k) == Present(k) /\ lease[k].left < 0
OwnedBy(k, o) == lease[k].owner = o

-------------------------------------------------------------------------------
(* try_acquire: the INSERT commits only if the key has no row, the UPDATE  *)
(* that follows an IntegrityError only if the row has expired meanwhile.   *)

\* A mutant: key is not a primary key.
InsertableAlways(k) == TRUE
Insertable(k) == ~Present(k)

\* expires_at is computed before the INSERT: what a take-over starts with falls
\* short of TTL by the time of one statement, which is no tick.
Take(k, o, s) == lease' = [lease EXCEPT ![k] = Row(o, s, TTL, FALSE)]

\* A mutant: the take-over does not test expires_at.
ReplaceableAlways(k) == Present(k)
Replaceable(k) == Expired(k)

\* attach_session, renew and release touch no row when the owner differs.
\* A mutant: attach_session does not test the owner.
AttachAny(k, o, s) == lease' = [lease EXCEPT ![k].session = s]
Attach(k, o, s) ==
    lease' = IF OwnedBy(k, o)
             THEN [lease EXCEPT ![k] = Row(o, s, lease[k].left, lease[k].stop)]
             ELSE lease

\* A mutant: a renewal adds to expires_at, and not to the time it is.
RenewAdded(k, o) ==
    lease' = IF OwnedBy(k, o) THEN [lease EXCEPT ![k].left = @ + TTL] ELSE lease
Renew(k, o) ==
    lease' = IF OwnedBy(k, o) THEN [lease EXCEPT ![k].left = TTL] ELSE lease

\* A mutant: release deletes the row whoever owns it.
ReleaseAny(k, o) == lease' = [lease EXCEPT ![k] = NoRow]
Release(k, o) ==
    lease' = IF OwnedBy(k, o) THEN [lease EXCEPT ![k] = NoRow] ELSE lease

\* request_stop: no owner in the WHERE clause.
RequestStop(k) ==
    lease' = IF Present(k) THEN [lease EXCEPT ![k].stop = TRUE] ELSE lease

\* The sessions a valid lease names: the first query of reconcile_orphans.
Leased == {s \in Sessions : \E k \in Keys : Valid(k) /\ lease[k].session = s}

ExpiredKeys == {k \in Keys : Expired(k)}

\* reconcile_orphans' last statement: "stale" are the keys that had expired
\* when it read the clock, and a row renewed since then stays.
Purge(stale) ==
    lease' = [k \in Keys |-> IF k \in stale /\ Expired(k) THEN NoRow ELSE lease[k]]

\* One tick of time.time() for every row.
Age == lease' = [k \in Keys |->
                   IF Valid(k) THEN [lease[k] EXCEPT !.left = @ - 1] ELSE lease[k]]
===============================================================================
