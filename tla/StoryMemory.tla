------------------------------ MODULE StoryMemory ------------------------------
(***************************************************************************)
(* The entities a channel's story is told with: write_extraction           *)
(* (app/memory/writer.py) and resolve_entity (app/memory/resolution.py),   *)
(* one transaction per window, for the pipelines of one channel, since a   *)
(* replay runs beside the live one (routes_channels.py:187-200); and the   *)
(* owner's corrections of app/api/routes_memory.py between their steps.    *)
(*                                                                         *)
(* A transaction keeps an entity as it first read it, and writes nothing   *)
(* before it flushes: when it creates a row, and when it commits.  From    *)
(* its first flush on SQLite lets nobody else write, and "committed" is    *)
(* what the others see; before it, each of its lookups sees what is        *)
(* committed by then.                                                      *)
(***************************************************************************)
EXTENDS StoryMemoryState, Integers, Sequences, FiniteSets

CONSTANTS
    Writers,     \* pipelines of the channel
    Names,       \* names the LLM finds in a window
    Unmatched,   \* those with a capital outside ASCII, which lower() leaves as it is
    Alike,       \* pairs of names whose token_set_ratio is 90 or more, for names
                 \* of three characters or more
    MaxId,       \* bound: entity ids
    MaxUpdates,  \* bound: entity updates in a window
    MaxAliases   \* bound: aliases seen in an update

Ids == 1 .. MaxId
IdName(i) == <<"E", i>>   \* the reference itself, taken for a name
AllNames == Names \cup {IdName(i) : i \in Ids}

Rows == [name : AllNames, status : {"provisional", "confirmed", "merged"},
         mentions : 0 .. 2, into : Ids \cup {Null}, by : Writers \cup {Null}]
Entities == Rows \cup {Null}

\* What is assumed of the constants.
StoryMemoryConstants ==
    /\ Unmatched \subseteq Names /\ Alike \subseteq Names \X Names
    /\ {MaxId, MaxUpdates} \subseteq Nat \ {0} /\ MaxAliases \in Nat
    /\ Null \notin Rows \cup Writers

Updates == [id : Ids \cup {Null}, name : AllNames,
            aliases : {s \in SUBSET Names : Cardinality(s) <= MaxAliases}]
NoRead == [i \in Ids |-> Null]
Idle == [step |-> "idle", todo |-> <<>>, read |-> NoRead, promoted |-> {}, gone |-> {},
         added |-> {}, clash |-> FALSE, locked |-> FALSE]

Txs == [step : {"idle", "llm", "entities", "create"}, todo : Seq(Updates),
        read : [Ids -> Entities], promoted : SUBSET Ids, gone : SUBSET Ids,
        added : SUBSET (Ids \X AllNames), clash : BOOLEAN, locked : BOOLEAN]

TypeOK ==
    /\ entity \in [Ids -> Entities] /\ alias \subseteq Ids \X AllNames
    /\ committed \in [entity : [Ids -> Entities], alias : SUBSET alias]
    /\ tx \in [Writers -> Txs] /\ \A w \in Writers : Len(tx[w].todo) <= MaxUpdates
    /\ (\A w \in Writers : ~tx[w].locked) =>
           committed = [entity |-> entity, alias |-> alias]
    /\ renamed \subseteq Ids

Init ==
    /\ entity = [i \in Ids |-> Null] /\ alias = {}
    /\ committed = [entity |-> entity, alias |-> alias]
    /\ tx = [w \in Writers |-> Idle]
    /\ renamed = {}

\* Only one can write; the others wait, and give up in the end (RollBack).
Unlocked == \A w \in Writers : ~tx[w].locked
CanWrite(w) == \A v \in Writers \ {w} : ~tx[v].locked

\* What w sees, and an entity as its identity map has it: as it was when w read it.
Db(w) == IF tx[w].locked THEN [entity |-> entity, alias |-> alias] ELSE committed
Exists(w, i) == Db(w).entity[i] # Null
View(w, i) == IF tx[w].read[i] # Null THEN tx[w].read[i] ELSE Db(w).entity[i]

-------------------------------------------------------------------------------
(* resolve_entity                                                            *)

Aliased(w, n) == {i \in Ids : n \notin Unmatched /\ <<i, n>> \in Db(w).alias}
Named(w, n) == {i \in Ids : n \notin Unmatched /\ Exists(w, i) /\ Db(w).entity[i].name = n}
Fuzzy(w, n) ==
    {i \in Ids : Exists(w, i) /\
        \E m \in {Db(w).entity[i].name} \cup {a \in Names : <<i, a>> \in Db(w).alias} :
            <<n, m>> \in Alike}

First(a, b) == IF a # {} THEN a ELSE b
\* A mutant: what a window has created a moment ago is not looked for by its name.
MatchesAliases(w, n) == First(Aliased(w, n), Fuzzy(w, n))
Matches(w, n) == First(Aliased(w, n), First(Named(w, n), Fuzzy(w, n)))

\* The names a lookup finds again.
Findable(n) == n \notin Unmatched \/ <<n, n>> \in Alike

\* An id finds its entity unless it was merged; then it is taken for a name.
ById(w, u) == u.id # Null /\ View(w, u.id) # Null /\ View(w, u.id).status # "merged"
Found(w, u) == IF ById(w, u) THEN {u.id} ELSE Matches(w, u.name)

-------------------------------------------------------------------------------
(* write_extraction                                                          *)

\* A window's answer refers to entities by an id, of which the prompt shows none, so
\* that any may come; or by name.
Begin(w) ==
    /\ tx[w].step = "idle"
    /\ \E n \in 1 .. MaxUpdates :
         \E todo \in [1 .. n -> Updates] :
           /\ \A j \in 1 .. n : LET u == todo[j] IN
                IF u.id = Null THEN u.name \in Names ELSE u.name = IdName(u.id)
           /\ tx' = [tx EXCEPT ![w] = [Idle EXCEPT !.step = "llm", !.todo = todo]]
    /\ UNCHANGED <<entity, alias, committed, renamed>>

Answered(w) ==
    /\ tx[w].step = "llm" /\ tx' = [tx EXCEPT ![w].step = "entities"]
    /\ UNCHANGED <<entity, alias, committed, renamed>>

\* touch_entity confirms a provisional entity at its second mention.
\* A mutant: any entity.
ConfirmableAny(e) == e.mentions > 0
Confirmable(e) == e.status = "provisional" /\ e.mentions > 0

\* t touches i, which it sees as e.
Touch(t, i, e) ==
    [t EXCEPT
       !.read[i] = [e EXCEPT !.mentions = IF @ = 2 THEN 2 ELSE @ + 1,
                             !.status = IF Confirmable(e) THEN "confirmed" ELSE @],
       !.promoted = IF Confirmable(e) THEN @ \cup {i} ELSE @,
       !.gone = IF e.status = "merged" THEN @ \cup {i} ELSE @]

\* db.get finds no alias that was only added: adding it again clashes when the
\* rows are flushed.
WithAliases(w, t, i, names) ==
    LET new == {<<i, a>> : a \in names} \ Db(w).alias IN
    [t EXCEPT !.clash = @ \/ new \cap t.added # {}, !.added = @ \cup new]

Resolve(w) ==
    /\ tx[w].step = "entities" /\ tx[w].todo # <<>>
    /\ \E i \in Found(w, Head(tx[w].todo)) :
         LET t == [tx[w] EXCEPT !.todo = Tail(@)] IN
         tx' = [tx EXCEPT ![w] = WithAliases(w, Touch(t, i, View(w, i)),
                                             i, Head(tx[w].todo).aliases)]
    /\ UNCHANGED <<entity, alias, committed, renamed>>

\* No lookup finds the name.  Until the row is flushed another pipeline may create one.
Miss(w) ==
    /\ tx[w].step = "entities" /\ tx[w].todo # <<>> /\ Found(w, Head(tx[w].todo)) = {}
    /\ tx' = [tx EXCEPT ![w].step = "create"]
    /\ UNCHANGED <<entity, alias, committed, renamed>>

\* What the transaction writes: of an entity only the columns it has changed.
Flushed(w, i) ==
    IF tx[w].read[i] = Null THEN entity[i]
    ELSE [entity[i] EXCEPT !.mentions = tx[w].read[i].mentions,
                           !.status = IF i \in tx[w].promoted THEN "confirmed" ELSE @]

\* Its own aliases clash, or with those others have committed since it looked.
CanFlush(w) == CanWrite(w) /\ ~tx[w].clash /\ tx[w].added \cap alias = {}

Free == {i \in Ids : entity[i] = Null}

Create(w) ==
    /\ tx[w].step = "create" /\ CanFlush(w)
    /\ \E i \in Free :
         /\ \A j \in Free : i <= j
         /\ LET u == Head(tx[w].todo)
                new == [name |-> u.name, status |-> "provisional", mentions |-> 0,
                        into |-> Null, by |-> IF Findable(u.name) THEN w ELSE Null]
                t == [tx[w] EXCEPT !.step = "entities", !.todo = Tail(@), !.locked = TRUE,
                                   !.added = {<<i, u.name>>}]
            IN
            /\ entity' = [j \in Ids |-> IF j = i THEN new ELSE Flushed(w, j)]
            /\ alias' = alias \cup tx[w].added
            /\ tx' = [tx EXCEPT ![w] = WithAliases(w, Touch(t, i, new), i, u.aliases)]
    /\ UNCHANGED <<committed, renamed>>

\* Threads, events and attributions follow; then everything is committed.
Commit(w) ==
    /\ tx[w].step = "entities" /\ tx[w].todo = <<>> /\ CanFlush(w)
    /\ entity' = [i \in Ids |-> Flushed(w, i)] /\ alias' = alias \cup tx[w].added
    /\ committed' = [entity |-> entity', alias |-> alias']
    /\ tx' = [tx EXCEPT ![w] = Idle]
    /\ UNCHANGED renamed

\* A clash, a lock not got in time or any other error: the window's memory is lost
\* as a whole.
RollBack(w) ==
    /\ tx[w].step # "idle"
    /\ IF tx[w].locked THEN entity' = committed.entity /\ alias' = committed.alias
       ELSE UNCHANGED <<entity, alias>>
    /\ tx' = [tx EXCEPT ![w] = Idle]
    /\ UNCHANGED <<committed, renamed>>

-------------------------------------------------------------------------------
(* The owner's corrections                                                   *)

Merge(into, from) ==
    /\ Unlocked
    /\ into # from /\ entity[into] # Null /\ entity[from] # Null
    /\ entity' = [entity EXCEPT ![from].status = "merged", ![from].into = into]
    /\ committed' = [committed EXCEPT !.entity = entity']
    /\ UNCHANGED <<alias, tx, renamed>>

Rename(i, n) ==
    /\ Unlocked /\ entity[i] # Null
    /\ entity' = [entity EXCEPT ![i].name = n]
    /\ committed' = [committed EXCEPT !.entity = entity']
    /\ renamed' = renamed \cup {i}
    /\ UNCHANGED <<alias, tx>>

Next ==
    \/ \E w \in Writers :
         \/ Begin(w) \/ Answered(w) \/ Resolve(w) \/ Miss(w) \/ Create(w)
         \/ Commit(w) \/ RollBack(w)
    \/ \E i, j \in Ids : Merge(i, j)
    \/ \E i \in Ids, n \in Names : Rename(i, n)

Spec == Init /\ [][Next]_memoryVars

=============================================================================
