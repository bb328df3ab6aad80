-------------------------- MODULE StoryMemoryProofs ---------------------------
(***************************************************************************)
(* What StoryMemory promises of names and merges, for any number of        *)
(* pipelines, ids, names and updates.                                      *)
(*                                                                         *)
(* NamesUnique has to hold of what a transaction has flushed, too, since   *)
(* that is what its names are looked for in.  Others write between a       *)
(* lookup and its INSERT: what the lookup did not find is still not there  *)
(* of the same pipeline (MissedOK), as only it creates its rows.           *)
(* MergesStand needs to know that a transaction never promotes what it has *)
(* read as merged, and that a rollback finds every merge it sees in the    *)
(* committed rows.                                                         *)
(***************************************************************************)
EXTENDS StoryMemory, TLAPS

\* A transaction has seen as confirmed what it promotes, and as merged what is gone, and
\* it holds the write lock only while it is under way.
Sees(t) ==
    /\ \A i \in t.promoted : t.read[i] # Null /\ t.read[i].status = "confirmed"
    /\ \A i \in t.gone : t.read[i] # Null /\ t.read[i].status = "merged"
Locks(t) == t.locked => t.step \in {"entities", "create"}
SeenOK == \A w \in Writers : Sees(tx[w]) /\ Locks(tx[w])
OneLock == \A v, w \in Writers : tx[v].locked /\ tx[w].locked => v = w

\* What a transaction has read, and what has an alias or is to get one, it sees.
Knows(t, rows) ==
    /\ \A i \in Ids : t.read[i] # Null => rows[i] # Null
    /\ \A p \in t.added : rows[p[1]] # Null
ReadOK == \A w \in Writers : Knows(tx[w], Db(w).entity)
AliasOK ==
    /\ \A p \in alias : entity[p[1]] # Null
    /\ \A p \in committed.alias : committed.entity[p[1]] # Null

\* What is committed is there, and what is not is its creator's, which has the lock.
KeptOK ==
    \A i \in Ids : committed.entity[i] # Null =>
        /\ entity[i] # Null
        /\ entity[i].name = committed.entity[i].name /\ entity[i].by = committed.entity[i].by
NewOK ==
    \A i \in Ids, w \in Writers :
        entity[i] # Null /\ entity[i].by = w /\ ~tx[w].locked => committed.entity[i] # Null

\* Who introduced a row finds its name, and has no other of that name ...
NamesOK ==
    /\ \A i \in Ids \ renamed :
         entity[i] # Null /\ entity[i].by # Null => Findable(entity[i].name)
    /\ \A i, j \in Ids \ renamed :
         entity[i] # Null /\ entity[j] # Null /\ entity[i].by # Null
             /\ entity[i].by = entity[j].by /\ entity[i].name = entity[j].name => i = j
\* ... nor has one that is about to.
Misses(w, t) ==
    t.step = "create" =>
        /\ t.todo # <<>>
        /\ \A i \in Ids \ renamed :
             entity[i] # Null /\ entity[i].by = w => entity[i].name # Head(t.todo).name
MissedOK == \A w \in Writers : Misses(w, tx[w])

Merged(rows, i) == rows[i] # Null /\ rows[i].status = "merged"
MergedOK == \A i \in Ids : Merged(entity, i) => Merged(committed.entity, i)

IInv == /\ TypeOK /\ SeenOK /\ OneLock /\ ReadOK /\ AliasOK /\ KeptOK /\ NewOK
        /\ NamesOK /\ MissedOK /\ MergedOK

LEMMA IdleTx ==
    ASSUME StoryMemoryConstants
    PROVE  /\ Idle \in Txs /\ Idle.todo = <<>> /\ Idle.read = NoRead /\ Idle.promoted = {}
           /\ Idle.gone = {} /\ Idle.added = {} /\ Idle.locked = FALSE /\ Idle.step = "idle"
           /\ Len(Idle.todo) <= MaxUpdates
           /\ \A i \in Ids : Idle.read[i] = Null
           /\ Sees(Idle) /\ Locks(Idle)
  <1>1. <<>> \in Seq(Updates) /\ Len(<<>>) = 0 /\ MaxUpdates \in Nat
    BY DEF StoryMemoryConstants
  <1>2. NoRead \in [Ids -> Entities] /\ \A i \in Ids : NoRead[i] = Null
    BY DEF Entities, NoRead
  <1> HIDE DEF Updates, Entities, Ids, AllNames, NoRead
  <1>3. Idle \in Txs
    BY <1>1, <1>2 DEF Idle, Txs
  <1>4. Sees(Idle) /\ Locks(Idle)
    BY DEF Idle, Sees, Locks
  <1> QED BY <1>1, <1>2, <1>3, <1>4 DEF Idle

LEMMA InitInv == ASSUME StoryMemoryConstants, Init PROVE IInv
  <1>1. /\ entity = [i \in Ids |-> Null] /\ alias = {} /\ renamed = {}
        /\ committed = [entity |-> entity, alias |-> alias] /\ tx = [w \in Writers |-> Idle]
    BY DEF Init
  <1>2. \A w \in Writers : tx[w] = Idle
    BY <1>1
  <1>3. \A i \in Ids : entity[i] = Null /\ committed.entity[i] = Null
    BY <1>1
  <1>4. TypeOK
    <2>1. entity \in [Ids -> Entities]
      BY <1>1 DEF Entities
    <2>2. tx \in [Writers -> Txs] /\ \A w \in Writers : Len(tx[w].todo) <= MaxUpdates
      <3> HIDE DEF Idle, Txs
      <3> QED BY <1>1, <1>2, IdleTx
    <2> HIDE DEF Entities, Txs, Ids, AllNames
    <2> QED BY <1>1, <2>1, <2>2 DEF TypeOK
  <1>5. SeenOK /\ OneLock /\ ReadOK /\ MissedOK
    <2> HIDE DEF Idle
    <2> QED BY <1>1, <1>2, IdleTx DEF SeenOK, OneLock, ReadOK, Knows, MissedOK, Misses
  <1>6. AliasOK /\ KeptOK /\ NewOK /\ NamesOK /\ MergedOK
    BY <1>1, <1>3 DEF AliasOK, KeptOK, NewOK, NamesOK, MergedOK, Merged
  <1> QED BY <1>4, <1>5, <1>6 DEF IInv

-------------------------------------------------------------------------------
(* One update                                                                *)

LEMMA Fields ==
    ASSUME TypeOK
    PROVE  /\ entity \in [Ids -> Entities] /\ alias \subseteq Ids \X AllNames
           /\ committed.entity \in [Ids -> Entities] /\ committed.alias \subseteq alias
           /\ committed = [entity |-> committed.entity, alias |-> committed.alias]
           /\ tx \in [Writers -> Txs] /\ renamed \subseteq Ids
  BY DEF TypeOK

LEMMA TxFields ==
    ASSUME NEW t \in Txs
    PROVE  /\ t.step \in {"idle", "llm", "entities", "create"} /\ t.todo \in Seq(Updates)
           /\ t.read \in [Ids -> Entities] /\ t.promoted \subseteq Ids /\ t.gone \subseteq Ids
           /\ t.added \subseteq Ids \X AllNames /\ t.clash \in BOOLEAN
           /\ t.locked \in BOOLEAN
  BY DEF Txs

\* Whoever sees a row, it is there.
LEMMA Seen ==
    ASSUME TypeOK, KeptOK, AliasOK, NEW w \in Writers
    PROVE  /\ Db(w).entity \in [Ids -> Entities] /\ Db(w).alias \subseteq Ids \X AllNames
           /\ \A i \in Ids : Db(w).entity[i] # Null =>
                /\ entity[i] # Null
                /\ Db(w).entity[i].name = entity[i].name /\ Db(w).entity[i].by = entity[i].by
           /\ \A p \in Db(w).alias : Db(w).entity[p[1]] # Null
  <1>1. CASE tx[w].locked
    <2>1. Db(w).entity = entity /\ Db(w).alias = alias
      BY <1>1 DEF Db
    <2> QED BY <2>1, Fields DEF AliasOK
  <1>2. CASE ~tx[w].locked
    <2>1. Db(w) = committed
      BY <1>2 DEF Db
    <2> QED BY <2>1, Fields DEF AliasOK, KeptOK
  <1> QED BY <1>1, <1>2

\* r is t after it has touched i, seen as e.
TouchedAs(r, t, i, e) ==
    /\ r \in Txs
    /\ r.step = t.step /\ r.todo = t.todo /\ r.added = t.added /\ r.clash = t.clash
    /\ r.locked = t.locked
    /\ \A j \in Ids : j # i => r.read[j] = t.read[j]
    /\ r.read[i] \in Rows
    /\ Confirmable(e) => r.read[i].status = "confirmed" /\ r.promoted = t.promoted \cup {i}
    /\ ~Confirmable(e) => r.read[i].status = e.status /\ r.promoted = t.promoted
    /\ r.gone = IF e.status = "merged" THEN t.gone \cup {i} ELSE t.gone

LEMMA Touched ==
    ASSUME NEW t \in Txs, NEW i \in Ids, NEW e \in Rows
    PROVE  TouchedAs(Touch(t, i, e), t, i, e)
  <1> DEFINE r == Touch(t, i, e)
  <1> DEFINE x == [e EXCEPT !.mentions = IF @ = 2 THEN 2 ELSE @ + 1,
                            !.status = IF Confirmable(e) THEN "confirmed" ELSE @]
             p == IF Confirmable(e) THEN t.promoted \cup {i} ELSE t.promoted
             g == IF e.status = "merged" THEN t.gone \cup {i} ELSE t.gone
  <1>1. x \in Rows /\ x.status = IF Confirmable(e) THEN "confirmed" ELSE e.status
    <2> DEFINE m == IF e.mentions = 2 THEN 2 ELSE e.mentions + 1
               c == IF Confirmable(e) THEN "confirmed" ELSE e.status
    <2>1. m \in 0 .. 2 /\ c \in {"provisional", "confirmed", "merged"}
      BY DEF Rows
    <2>2. x = [e EXCEPT !.mentions = m, !.status = c]
      OBVIOUS
    <2> HIDE DEF m, c, x, AllNames, Ids
    <2>3. x \in Rows /\ x.status = c
      BY <2>1, <2>2 DEF Rows
    <2> QED BY <2>3 DEF c
  <1>2. p \subseteq Ids /\ g \subseteq Ids
    BY DEF Txs
  <1>3. r = [t EXCEPT !.read[i] = x, !.promoted = p, !.gone = g]
    BY DEF Touch
  <1> HIDE DEF x, p, g, r
  <1>4. t.read \in [Ids -> Entities] /\ x \in Entities
    BY <1>1 DEF Txs, Entities
  <1>5. r = [t EXCEPT !.read = [t.read EXCEPT ![i] = x], !.promoted = p, !.gone = g]
    BY <1>3
  <1>6. [t.read EXCEPT ![i] = x] \in [Ids -> Entities]
    BY <1>4
  <1>7. /\ r \in Txs
        /\ r.step = t.step /\ r.todo = t.todo /\ r.added = t.added /\ r.clash = t.clash
        /\ r.locked = t.locked
        /\ r.read = [t.read EXCEPT ![i] = x] /\ r.promoted = p /\ r.gone = g
    BY <1>2, <1>5, <1>6 DEF Txs
  <1>8. r.read[i] = x /\ \A j \in Ids : j # i => r.read[j] = t.read[j]
    BY <1>4, <1>7
  <1>9. Confirmable(e) => x.status = "confirmed" /\ p = t.promoted \cup {i}
    BY <1>1 DEF p
  <1>10. ~Confirmable(e) => x.status = e.status /\ p = t.promoted
    BY <1>1 DEF p
  <1>11. g = IF e.status = "merged" THEN t.gone \cup {i} ELSE t.gone
    BY DEF g
  <1>12. TouchedAs(r, t, i, e)
    BY <1>1, <1>7, <1>8, <1>9, <1>10, <1>11 DEF TouchedAs
  <1> QED BY <1>12 DEF r

LEMMA AliasesAdded ==
    ASSUME NEW w \in Writers, NEW t \in Txs, NEW i \in Ids, NEW names \in SUBSET AllNames,
           NEW r, r = WithAliases(w, t, i, names)
    PROVE  /\ r \in Txs
           /\ r.step = t.step /\ r.todo = t.todo /\ r.read = t.read
           /\ r.promoted = t.promoted /\ r.gone = t.gone /\ r.locked = t.locked
           /\ \A p \in r.added : p \in t.added \/ p[1] = i
  <1> DEFINE new == {<<i, a>> : a \in names} \ Db(w).alias
  <1>1. new \subseteq Ids \X AllNames /\ \A p \in new : p[1] = i
    OBVIOUS
  <1>2. (t.clash \/ new \cap t.added # {}) \in BOOLEAN
    OBVIOUS
  <1>3. r = [t EXCEPT !.clash = t.clash \/ new \cap t.added # {}, !.added = t.added \cup new]
    BY DEF WithAliases
  <1> HIDE DEF new
  <1>4. t.added \cup new \subseteq Ids \X AllNames
    BY <1>1 DEF Txs
  <1>5. r \in Txs
    <2> DEFINE b == t.clash \/ new \cap t.added # {}
               all == t.added \cup new
    <2>1. b \in BOOLEAN /\ all \in SUBSET (Ids \X AllNames)
      BY <1>2, <1>4
    <2>2. r = [t EXCEPT !.clash = b, !.added = all]
      BY <1>3
    <2> HIDE DEF b, all
    <2> QED BY <2>1, <2>2 DEF Txs
  <1>6. r.added = t.added \cup new
    BY <1>3 DEF Txs
  <1>7. /\ r.step = t.step /\ r.todo = t.todo /\ r.read = t.read
        /\ r.promoted = t.promoted /\ r.gone = t.gone /\ r.locked = t.locked
    BY <1>3 DEF Txs
  <1> QED BY <1>1, <1>5, <1>6, <1>7

\* Flushing changes no name, makes nothing appear or vanish, and merges nothing; what
\* the transaction knows as merged stays so.
LEMMA FlushedRows ==
    ASSUME StoryMemoryConstants, IInv, NEW w \in Writers, NEW i \in Ids
    PROVE  /\ Flushed(w, i) \in Entities
           /\ Flushed(w, i) = Null <=> entity[i] = Null
           /\ entity[i] # Null =>
                /\ Flushed(w, i).name = entity[i].name /\ Flushed(w, i).by = entity[i].by
                /\ Flushed(w, i).status = "merged" => entity[i].status = "merged"
                /\ entity[i].status = "merged" /\ i \in tx[w].gone =>
                       Flushed(w, i).status = "merged"
  <1> DEFINE t == tx[w]
  <1>0. TypeOK /\ SeenOK /\ ReadOK /\ KeptOK /\ AliasOK
    BY DEF IInv
  <1>1. /\ entity[i] \in Entities /\ t \in Txs /\ Null \notin Rows
    BY <1>0, Fields DEF StoryMemoryConstants
  <1>2. t.read[i] \in Entities
    <2> HIDE DEF t
    <2> QED BY <1>1, TxFields
  <1>3. CASE t.read[i] = Null
    BY <1>1, <1>3 DEF Flushed
  <1>4. CASE t.read[i] # Null
    <2> DEFINE m == t.read[i].mentions
               c == IF i \in t.promoted THEN "confirmed" ELSE entity[i].status
    <2>1. entity[i] # Null
      BY <1>0, <1>4, Seen DEF ReadOK, Knows
    <2>2. entity[i] \in Rows /\ t.read[i] \in Rows
      BY <1>1, <1>2, <1>4, <2>1 DEF Entities
    <2>3. m \in 0 .. 2 /\ c \in {"provisional", "confirmed", "merged"}
      BY <2>2 DEF Rows
    <2>4. Flushed(w, i) = [entity[i] EXCEPT !.mentions = m, !.status = c]
      BY <1>4 DEF Flushed
    <2>5. i \in t.gone => i \notin t.promoted
      BY <1>0 DEF SeenOK, Sees
    <2> HIDE DEF m, c, Ids, AllNames, t
    <2>6. /\ Flushed(w, i) \in Rows /\ Flushed(w, i).name = entity[i].name
          /\ Flushed(w, i).by = entity[i].by /\ Flushed(w, i).status = c
      BY <2>2, <2>3, <2>4 DEF Rows
    <2> QED BY <1>1, <2>1, <2>2, <2>5, <2>6 DEF c, t, Entities
  <1> QED BY <1>3, <1>4

\* What an update is resolved to is seen.
LEMMA FoundExists ==
    ASSUME StoryMemoryConstants, IInv, NEW w \in Writers, NEW u \in Updates,
           NEW i \in Found(w, u)
    PROVE  i \in Ids /\ Db(w).entity[i] # Null /\ View(w, i) \in Rows
  <1>0. TypeOK /\ ReadOK /\ KeptOK /\ AliasOK /\ tx[w] \in Txs
    BY Fields DEF IInv
  <1>1. i \in Ids /\ Db(w).entity[i] # Null
    <2>1. CASE ById(w, u)
      <3>1. i = u.id /\ u.id \in Ids /\ View(w, i) # Null
        BY <2>1 DEF Found, ById, Updates
      <3> QED BY <1>0, <3>1 DEF View, ReadOK, Knows
    <2>2. CASE i \in Aliased(w, u.name)
      <3>1. i \in Ids /\ <<i, u.name>> \in Db(w).alias
        BY <2>2 DEF Aliased
      <3> QED BY <1>0, <3>1, Seen
    <2>3. CASE i \in Named(w, u.name) \/ i \in Fuzzy(w, u.name)
      BY <2>3 DEF Named, Fuzzy, Exists
    <2> QED BY <2>1, <2>2, <2>3 DEF Found, Matches, First
  <1>2. tx[w].read[i] \in Entities /\ Db(w).entity[i] \in Entities
    BY <1>0, <1>1, Seen, TxFields
  <1> QED BY <1>1, <1>2 DEF View, Entities

\* What its creator could find is found.
LEMMA NotFound ==
    ASSUME StoryMemoryConstants, IInv, NEW w \in Writers, NEW u \in Updates,
           Found(w, u) = {}, NEW i \in Ids \ renamed, entity[i] # Null, entity[i].by = w
    PROVE  entity[i].name # u.name
  <1> SUFFICES ASSUME entity[i].name = u.name PROVE FALSE
    OBVIOUS
  <1>1. Db(w).entity[i] # Null /\ Db(w).entity[i].name = u.name
    <2>1. CASE tx[w].locked
      BY <2>1 DEF Db
    <2>2. CASE ~tx[w].locked
      BY <2>2 DEF Db, IInv, NewOK, KeptOK
    <2> QED BY <2>1, <2>2
  <1>2. Findable(u.name)
    BY DEF IInv, NamesOK, StoryMemoryConstants
  <1>3. CASE u.name \notin Unmatched
    <2>1. i \in Named(w, u.name)
      BY <1>1, <1>3 DEF Named, Exists
    <2> QED BY <2>1 DEF Found, Matches, First
  <1>4. CASE <<u.name, u.name>> \in Alike
    <2>1. i \in Fuzzy(w, u.name)
      BY <1>1, <1>4 DEF Fuzzy, Exists
    <2> QED BY <2>1 DEF Found, Matches, First
  <1> QED BY <1>2, <1>3, <1>4 DEF Findable

-------------------------------------------------------------------------------
(* One step per operation                                                    *)

LEMMA HeadOf ==
    ASSUME StoryMemoryConstants, NEW t \in Txs, t.todo # <<>>, Len(t.todo) <= MaxUpdates
    PROVE  /\ Head(t.todo) \in Updates
           /\ Head(t.todo).name \in AllNames /\ Head(t.todo).aliases \in SUBSET AllNames
           /\ Tail(t.todo) \in Seq(Updates) /\ Len(Tail(t.todo)) <= MaxUpdates
  <1>1. t.todo \in Seq(Updates)
    BY DEF Txs
  <1>2. Head(t.todo) \in Updates /\ Tail(t.todo) \in Seq(Updates)
        /\ Len(Tail(t.todo)) = Len(t.todo) - 1 /\ Len(t.todo) \in Nat
    BY <1>1
  <1>3. Len(Tail(t.todo)) <= MaxUpdates
    <2>1. MaxUpdates \in Nat
      BY DEF StoryMemoryConstants
    <2> QED BY <1>2, <2>1
  <1> QED BY <1>2, <1>3 DEF Updates, AllNames

\* Steps of one transaction that leave all rows alone.
LEMMA TxChanged ==
    ASSUME StoryMemoryConstants, IInv, UNCHANGED <<entity, alias, committed, renamed>>,
           NEW w \in Writers, NEW t \in Txs, tx' = [tx EXCEPT ![w] = t],
           Len(t.todo) <= MaxUpdates, t.locked = tx[w].locked,
           Sees(t), Locks(t), Knows(t, Db(w).entity), Misses(w, t)
    PROVE  IInv'
  <1> HIDE DEF Txs, Ids, Entities, AllNames
  <1>1. /\ entity' = entity /\ alias' = alias /\ committed' = committed /\ renamed' = renamed
        /\ tx'[w] = t /\ \A v \in Writers : v # w => tx'[v] = tx[v]
        /\ tx' \in [Writers -> Txs]
        /\ \A v \in Writers : tx'[v].locked = tx[v].locked
    BY Fields DEF IInv
  <1>2. \A v \in Writers : Db(v)' = Db(v)
    BY <1>1 DEF Db
  <1>3. TypeOK'
    BY <1>1 DEF IInv, TypeOK
  <1>4. SeenOK' /\ OneLock'
    BY <1>1 DEF IInv, SeenOK, OneLock, Sees, Locks
  <1>5. ReadOK'
    BY <1>1, <1>2 DEF IInv, ReadOK, Knows
  <1>6. MissedOK'
    BY <1>1 DEF IInv, MissedOK, Misses
  <1>7. AliasOK' /\ KeptOK' /\ NewOK' /\ NamesOK' /\ MergedOK'
    BY <1>1 DEF IInv, AliasOK, KeptOK, NewOK, NamesOK, MergedOK, Merged
  <1> QED BY <1>3, <1>4, <1>5, <1>6, <1>7 DEF IInv

LEMMA BeginStep ==
    ASSUME StoryMemoryConstants, IInv, NEW w \in Writers, Begin(w) PROVE IInv'
  <1>1. PICK n \in 1 .. MaxUpdates : \E todo \in [1 .. n -> Updates] :
          tx' = [tx EXCEPT ![w] = [Idle EXCEPT !.step = "llm", !.todo = todo]]
    BY DEF Begin
  <1>2. PICK todo \in [1 .. n -> Updates] :
          tx' = [tx EXCEPT ![w] = [Idle EXCEPT !.step = "llm", !.todo = todo]]
    BY <1>1
  <1>3. todo \in Seq(Updates) /\ Len(todo) <= MaxUpdates
    <2>1. MaxUpdates \in Nat /\ n \in Nat /\ n <= MaxUpdates
      BY DEF StoryMemoryConstants
    <2> HIDE DEF Updates
    <2> QED BY <2>1
  <1> DEFINE t == [Idle EXCEPT !.step = "llm", !.todo = todo]
  <1>4. /\ t \in Txs /\ t.step = "llm" /\ t.todo = todo /\ t.read = Idle.read
        /\ t.promoted = {} /\ t.gone = {} /\ t.added = {} /\ t.locked = FALSE
    <2> HIDE DEF Updates, Ids, AllNames, Entities, Idle
    <2> QED BY <1>3, IdleTx DEF Txs
  <1>5. tx' = [tx EXCEPT ![w] = t]
    BY <1>2
  <1> HIDE DEF t, Idle
  <1>6. Sees(t) /\ Locks(t) /\ Knows(t, Db(w).entity) /\ Misses(w, t)
    BY <1>4, IdleTx DEF Sees, Locks, Knows, Misses
  <1>7. tx[w].locked = FALSE
    <2>1. tx[w] \in Txs /\ Locks(tx[w]) /\ tx[w].step = "idle"
      BY Fields DEF Begin, IInv, SeenOK
    <2>2. tx[w].locked \in BOOLEAN
      BY <2>1, TxFields
    <2> QED BY <2>1, <2>2 DEF Locks
  <1>8. UNCHANGED <<entity, alias, committed, renamed>>
    BY DEF Begin
  <1>9. Len(t.todo) <= MaxUpdates /\ t.locked = tx[w].locked
    BY <1>3, <1>4, <1>7
  <1> HIDE DEF Txs
  <1> QED BY <1>4, <1>5, <1>6, <1>8, <1>9, TxChanged

LEMMA AnsweredStep ==
    ASSUME StoryMemoryConstants, IInv, NEW w \in Writers, Answered(w) PROVE IInv'
  <1> DEFINE s == tx[w]
             t == [s EXCEPT !.step = "entities"]
  <1>1. s \in Txs /\ Len(s.todo) <= MaxUpdates /\ Sees(s) /\ Knows(s, Db(w).entity)
    BY Fields DEF IInv, TypeOK, SeenOK, ReadOK
  <1>2. tx' = [tx EXCEPT ![w] = t] /\ UNCHANGED <<entity, alias, committed, renamed>>
    BY DEF Answered
  <1>3. /\ t \in Txs /\ t.step = "entities" /\ t.todo = s.todo /\ t.read = s.read
        /\ t.promoted = s.promoted /\ t.gone = s.gone /\ t.added = s.added
        /\ t.locked = s.locked
    <2> HIDE DEF Updates, Ids, AllNames, Entities, s
    <2> QED BY <1>1 DEF Txs
  <1> HIDE DEF t
  <1>4. Sees(t) /\ Locks(t) /\ Knows(t, Db(w).entity) /\ Misses(w, t)
    BY <1>1, <1>3 DEF Sees, Locks, Knows, Misses
  <1> HIDE DEF Txs
  <1> QED BY <1>1, <1>2, <1>3, <1>4, TxChanged

LEMMA MissStep ==
    ASSUME StoryMemoryConstants, IInv, NEW w \in Writers, Miss(w) PROVE IInv'
  <1> DEFINE s == tx[w]
             t == [s EXCEPT !.step = "create"]
  <1>1. s \in Txs /\ Len(s.todo) <= MaxUpdates /\ Sees(s) /\ Knows(s, Db(w).entity)
    BY Fields DEF IInv, TypeOK, SeenOK, ReadOK
  <1>2. /\ s.todo # <<>> /\ Found(w, Head(s.todo)) = {}
        /\ tx' = [tx EXCEPT ![w] = t] /\ UNCHANGED <<entity, alias, committed, renamed>>
    BY DEF Miss
  <1>3. /\ t \in Txs /\ t.step = "create" /\ t.todo = s.todo /\ t.read = s.read
        /\ t.promoted = s.promoted /\ t.gone = s.gone /\ t.added = s.added
        /\ t.locked = s.locked
    <2> HIDE DEF Updates, Ids, AllNames, Entities, s
    <2> QED BY <1>1 DEF Txs
  <1> HIDE DEF t
  <1>4. Sees(t) /\ Locks(t) /\ Knows(t, Db(w).entity)
    BY <1>1, <1>3 DEF Sees, Locks, Knows
  <1>5. Misses(w, t)
    <2>1. Head(s.todo) \in Updates
      BY <1>1, <1>2, HeadOf
    <2> QED BY <1>2, <1>3, <2>1, NotFound DEF Misses
  <1> HIDE DEF Txs
  <1> QED BY <1>1, <1>2, <1>3, <1>4, <1>5, TxChanged

\* Touching what is seen as e, as it was read before or, if it was not, as it is.
LEMMA TouchedSees ==
    ASSUME StoryMemoryConstants, NEW t \in Txs, NEW i \in Ids, NEW e \in Rows, NEW r,
           Sees(t), t.read[i] # Null => e = t.read[i], TouchedAs(r, t, i, e)
    PROVE  Sees(r)
  <1> USE DEF TouchedAs
  <1>1. Null \notin Rows /\ t.promoted \subseteq Ids /\ t.gone \subseteq Ids
    BY DEF StoryMemoryConstants, Txs
  <1>2. ASSUME NEW j \in r.promoted PROVE r.read[j] # Null /\ r.read[j].status = "confirmed"
    <2>1. CASE j = i
      <3>1. CASE Confirmable(e)
        BY <1>1, <2>1, <3>1
      <3>2. CASE ~Confirmable(e)
        <4>1. i \in t.promoted
          BY <2>1, <3>2
        <4>2. e.status = "confirmed"
          BY <4>1 DEF Sees
        <4> QED BY <1>1, <2>1, <3>2, <4>2
      <3> QED BY <3>1, <3>2
    <2>2. CASE j # i
      <3>1. j \in t.promoted
        BY <2>2
      <3> QED BY <1>1, <2>2, <3>1 DEF Sees
    <2> QED BY <2>1, <2>2
  <1>3. ASSUME NEW j \in r.gone PROVE r.read[j] # Null /\ r.read[j].status = "merged"
    <2>1. CASE j = i
      <3>1. e.status = "merged"
        <4>1. CASE e.status # "merged"
          <5>1. i \in t.gone
            BY <2>1, <4>1
          <5> QED BY <4>1, <5>1 DEF Sees
        <4> QED BY <4>1
      <3>2. ~Confirmable(e)
        BY <3>1 DEF Confirmable
      <3> QED BY <1>1, <2>1, <3>1, <3>2
    <2>2. CASE j # i
      <3>1. j \in t.gone
        BY <2>2
      <3> QED BY <1>1, <2>2, <3>1 DEF Sees
    <2> QED BY <2>1, <2>2
  <1> QED BY <1>2, <1>3 DEF Sees

LEMMA ResolveStep ==
    ASSUME StoryMemoryConstants, IInv, NEW w \in Writers, Resolve(w) PROVE IInv'
  <1> DEFINE s == tx[w]
             u == Head(s.todo)
             t == [s EXCEPT !.todo = Tail(@)]
  <1>1. s.step = "entities" /\ s.todo # <<>> /\ UNCHANGED <<entity, alias, committed, renamed>>
    BY DEF Resolve
  <1>2. PICK i \in Found(w, u) :
          tx' = [tx EXCEPT ![w] = WithAliases(w, Touch(t, i, View(w, i)), i, u.aliases)]
    BY DEF Resolve
  <1>3. s \in Txs /\ Len(s.todo) <= MaxUpdates /\ Sees(s) /\ Knows(s, Db(w).entity)
    BY Fields DEF IInv, TypeOK, SeenOK, ReadOK
  <1>4. /\ u \in Updates /\ u.aliases \in SUBSET AllNames
        /\ Tail(s.todo) \in Seq(Updates) /\ Len(Tail(s.todo)) <= MaxUpdates
    BY <1>1, <1>3, HeadOf
  <1>5. i \in Ids /\ Db(w).entity[i] # Null /\ View(w, i) \in Rows
    <2> HIDE DEF u
    <2> QED BY <1>4, FoundExists
  <1>6. /\ t \in Txs /\ t.step = s.step /\ t.todo = Tail(s.todo) /\ t.read = s.read
        /\ t.promoted = s.promoted /\ t.gone = s.gone /\ t.added = s.added
        /\ t.locked = s.locked
    <2> HIDE DEF Updates, Ids, AllNames, Entities, s
    <2> QED BY <1>3, <1>4 DEF Txs
  <1> DEFINE e == View(w, i)
  <1>7. s.read[i] # Null => e = s.read[i]
    BY DEF View
  <1> HIDE DEF u, t, e
  <1> DEFINE r == Touch(t, i, e)
  <1>8. TouchedAs(r, t, i, e)
    <2> HIDE DEF s
    <2> QED BY <1>5, <1>6, Touched DEF e
  <1>9. Sees(r)
    <2>1. Sees(t) /\ (t.read[i] # Null => e = t.read[i])
      BY <1>3, <1>6, <1>7 DEF Sees
    <2> HIDE DEF r, s
    <2> QED BY <1>5, <1>6, <1>8, <2>1, TouchedSees DEF e
  <1> DEFINE q == WithAliases(w, r, i, u.aliases)
  <1>10. /\ q \in Txs
         /\ q.step = r.step /\ q.todo = r.todo /\ q.read = r.read
         /\ q.promoted = r.promoted /\ q.gone = r.gone /\ q.locked = r.locked
         /\ \A p \in q.added : p \in r.added \/ p[1] = i
    <2>1. r \in Txs
      <3> HIDE DEF r
      <3> QED BY <1>8 DEF TouchedAs
    <2> HIDE DEF r, s
    <2> QED BY <1>4, <1>5, <2>1, AliasesAdded
  <1>11. tx' = [tx EXCEPT ![w] = q]
    BY <1>2 DEF e, t
  <1> HIDE DEF r, q
  <1>12. /\ q.step = "entities" /\ q.locked = s.locked /\ Len(q.todo) <= MaxUpdates
         /\ \A j \in Ids : j # i => q.read[j] = s.read[j]
         /\ \A p \in q.added : p \in s.added \/ p[1] = i
    BY <1>1, <1>4, <1>6, <1>8, <1>10 DEF TouchedAs
  <1>13. Sees(q) /\ Locks(q) /\ Misses(w, q) /\ Knows(q, Db(w).entity)
    BY <1>3, <1>5, <1>9, <1>10, <1>12 DEF Sees, Locks, Misses, Knows
  <1> HIDE DEF Txs, Ids, Rows
  <1> QED BY <1>1, <1>10, <1>11, <1>12, <1>13, TxChanged

\* The transaction that writes is the only one that has.
LEMMA Alone ==
    ASSUME IInv, NEW w \in Writers, CanWrite(w)
    PROVE  /\ \A v \in Writers : v # w => tx[v].locked = FALSE /\ Db(v) = committed
           /\ ~tx[w].locked => Unlocked /\ committed = [entity |-> entity, alias |-> alias]
  <1>1. \A v \in Writers : tx[v].locked \in BOOLEAN
    <2>1. \A v \in Writers : tx[v] \in Txs
      BY Fields DEF IInv
    <2> QED BY <2>1, TxFields
  <1> QED BY <1>1 DEF CanWrite, Db, Unlocked, IInv, TypeOK

LEMMA CreateStep ==
    ASSUME StoryMemoryConstants, IInv, NEW w \in Writers, Create(w) PROVE IInv'
  <1> DEFINE s == tx[w]
             u == Head(s.todo)
             new == [name |-> u.name, status |-> "provisional", mentions |-> 0,
                     into |-> Null, by |-> IF Findable(u.name) THEN w ELSE Null]
  <1>1. /\ TypeOK /\ SeenOK /\ OneLock /\ ReadOK /\ AliasOK /\ KeptOK /\ NewOK
        /\ NamesOK /\ MissedOK /\ MergedOK
    BY DEF IInv
  <1>2. PICK i \in Free :
          /\ entity' = [j \in Ids |-> IF j = i THEN new ELSE Flushed(w, j)]
          /\ tx' = [tx EXCEPT ![w] = WithAliases(w,
               Touch([s EXCEPT !.step = "entities", !.todo = Tail(@), !.locked = TRUE,
                               !.added = {<<i, u.name>>}], i, new), i, u.aliases)]
    BY DEF Create
  <1>3. /\ s.step = "create" /\ s.todo # <<>> /\ CanWrite(w)
        /\ alias' = alias \cup s.added /\ committed' = committed /\ renamed' = renamed
        /\ \A j \in Ids \ renamed :
             entity[j] # Null /\ entity[j].by = w => entity[j].name # u.name
    BY <1>1 DEF Create, CanFlush, MissedOK, Misses
  <1>4. s \in Txs /\ Len(s.todo) <= MaxUpdates /\ Sees(s) /\ Knows(s, Db(w).entity)
    BY <1>1, Fields DEF TypeOK, SeenOK, ReadOK
  <1>5. /\ u \in Updates /\ u.name \in AllNames /\ u.aliases \in SUBSET AllNames
        /\ Tail(s.todo) \in Seq(Updates) /\ Len(Tail(s.todo)) <= MaxUpdates
    BY <1>3, <1>4, HeadOf
  <1>6. i \in Ids /\ entity[i] = Null /\ Null \notin Rows /\ Null \notin Writers
    BY DEF Free, StoryMemoryConstants
  <1>7. s.read[i] = Null
    BY <1>1, <1>4, <1>6, Seen DEF Knows
  <1>8. /\ new \in Rows /\ new # Null /\ new.name = u.name /\ new.by \in {w, Null}
        /\ new.by # Null => Findable(new.name)
        /\ ~Confirmable(new) /\ new.status = "provisional"
    <2> HIDE DEF u, Ids
    <2> QED BY <1>5, <1>6 DEF Rows, Confirmable
  <1> DEFINE t == [s EXCEPT !.step = "entities", !.todo = Tail(@), !.locked = TRUE,
                            !.added = {<<i, u.name>>}]
  <1>9. /\ t \in Txs /\ t.step = "entities" /\ t.todo = Tail(s.todo) /\ t.read = s.read
        /\ t.promoted = s.promoted /\ t.gone = s.gone /\ t.added = {<<i, u.name>>}
        /\ t.locked = TRUE
    <2>1. {<<i, u.name>>} \subseteq Ids \X AllNames
      BY <1>5, <1>6
    <2> HIDE DEF Updates, Ids, AllNames, Entities, s, u
    <2> QED BY <1>4, <1>5, <2>1 DEF Txs
  <1> HIDE DEF new, t
  <1> DEFINE r == Touch(t, i, new)
  <1>10. TouchedAs(r, t, i, new)
    BY <1>6, <1>8, <1>9, Touched
  <1>11. Sees(r)
    <2>1. Sees(t) /\ t.read[i] = Null
      BY <1>4, <1>7, <1>9 DEF Sees
    <2> HIDE DEF r, s
    <2> QED BY <1>6, <1>8, <1>9, <1>10, <2>1, TouchedSees
  <1> DEFINE q == WithAliases(w, r, i, u.aliases)
  <1>12. /\ q \in Txs
         /\ q.step = r.step /\ q.todo = r.todo /\ q.read = r.read
         /\ q.promoted = r.promoted /\ q.gone = r.gone /\ q.locked = r.locked
         /\ \A p \in q.added : p \in r.added \/ p[1] = i
    <2>1. r \in Txs
      <3> HIDE DEF r
      <3> QED BY <1>10 DEF TouchedAs
    <2> HIDE DEF r, s
    <2> QED BY <1>5, <1>6, <2>1, AliasesAdded
  <1>13. tx' = [tx EXCEPT ![w] = q]
    BY <1>2 DEF t, new
  <1> HIDE DEF r, q
  <1>14. /\ q.step = "entities" /\ q.locked = TRUE /\ Len(q.todo) <= MaxUpdates
         /\ \A j \in Ids : j # i => q.read[j] = s.read[j]
         /\ \A p \in q.added : p[1] = i
    <2>1. <<i, u.name>>[1] = i
      OBVIOUS
    <2> HIDE DEF u
    <2> QED BY <1>5, <1>9, <1>10, <1>12, <2>1 DEF TouchedAs
  <1>15. Sees(q) /\ Locks(q)
    BY <1>11, <1>12, <1>14 DEF Sees, Locks
  <1>16. /\ entity'[i] = new
         /\ \A j \in Ids : j # i => entity'[j] = Flushed(w, j)
         /\ entity' \in [Ids -> Entities]
    <2>1. \A j \in Ids : Flushed(w, j) \in Entities
      BY FlushedRows
    <2>2. new \in Entities
      BY <1>8 DEF Entities
    <2>3. entity' = [j \in Ids |-> IF j = i THEN new ELSE Flushed(w, j)]
      BY <1>2 DEF new
    <2> HIDE DEF Entities, Ids
    <2> QED BY <1>6, <2>1, <2>2, <2>3
  <1>17. \A j \in Ids : entity[j] # Null =>
            /\ j # i /\ entity'[j] # Null
            /\ entity'[j].name = entity[j].name /\ entity'[j].by = entity[j].by
    BY <1>6, <1>16, FlushedRows
  <1>18. \A j \in Ids : j # i /\ entity'[j] # Null => entity[j] # Null
    BY <1>16, FlushedRows
  <1>19. /\ tx' \in [Writers -> Txs] /\ tx'[w] = q
         /\ \A v \in Writers : v # w =>
              tx'[v] = tx[v] /\ tx[v].locked = FALSE /\ Db(v) = committed /\ Db(v)' = committed
    <2>1. tx' \in [Writers -> Txs] /\ tx'[w] = q /\ \A v \in Writers : v # w => tx'[v] = tx[v]
      <3> HIDE DEF Txs
      <3> QED BY <1>1, <1>12, <1>13, Fields
    <2> QED BY <1>3, <2>1, Alone DEF Db
  <1>20. TypeOK'
    <2>1. alias' \subseteq Ids \X AllNames
          /\ committed' \in [entity : [Ids -> Entities], alias : SUBSET alias']
      BY <1>1, <1>3, <1>4, Fields, TxFields
    <2>2. \A v \in Writers : Len(tx'[v].todo) <= MaxUpdates
      BY <1>1, <1>14, <1>19 DEF TypeOK
    <2> HIDE DEF Ids, AllNames, Entities, Txs, s
    <2> QED BY <1>1, <1>3, <1>14, <1>16, <1>19, <2>1, <2>2 DEF TypeOK
  <1>21. SeenOK' /\ OneLock'
    BY <1>1, <1>15, <1>19 DEF SeenOK, OneLock, Sees, Locks
  <1>22. ReadOK'
    <2>1. Db(w)'.entity = entity'
      BY <1>14, <1>19 DEF Db
    <2>2. Knows(q, entity')
      BY <1>1, <1>4, <1>8, <1>14, <1>16, <1>17, Seen DEF Knows
    <2> HIDE DEF Ids
    <2> QED BY <1>1, <1>19, <2>1, <2>2 DEF ReadOK, Knows
  <1>23. AliasOK'
    <2>1. \A p \in s.added : p[1] \in Ids /\ entity[p[1]] # Null
      BY <1>1, <1>4, Seen, TxFields DEF Knows
    <2>2. \A p \in alias : p[1] \in Ids /\ entity[p[1]] # Null
      BY <1>1, Fields DEF AliasOK
    <2> QED BY <1>1, <1>3, <1>17, <2>1, <2>2 DEF AliasOK
  <1>24. KeptOK' /\ NewOK'
    <2>1. \A j \in Ids, v \in Writers :
            entity'[j] # Null /\ entity'[j].by = v /\ ~tx'[v].locked =>
              /\ j # i /\ entity[j] # Null /\ entity[j].by = v /\ ~tx[v].locked
      BY <1>6, <1>8, <1>14, <1>16, <1>17, <1>18, <1>19
    <2> QED BY <1>1, <1>3, <1>17, <2>1 DEF KeptOK, NewOK
  <1>25. NamesOK'
    BY <1>1, <1>3, <1>8, <1>16, <1>17, <1>18 DEF NamesOK
  <1>26. MissedOK'
    <2>1. Misses(w, tx[w])'
      BY <1>14, <1>19 DEF Misses
    <2>2. ASSUME NEW v \in Writers, v # w PROVE Misses(v, tx[v])'
      <3>1. \A j \in Ids : entity'[j] # Null /\ entity'[j].by = v =>
              /\ entity[j] # Null /\ entity[j].by = v /\ entity'[j].name = entity[j].name
        BY <1>6, <1>8, <1>16, <1>17, <1>18, <2>2
      <3>2. Misses(v, tx[v])
        BY <1>1 DEF MissedOK
      <3> QED BY <1>3, <1>19, <2>2, <3>1, <3>2 DEF Misses
    <2> QED BY <2>1, <2>2 DEF MissedOK
  <1>27. MergedOK'
    <2>1. \A j \in Ids : Merged(entity', j) => Merged(entity, j)
      BY <1>8, <1>16, <1>18, FlushedRows DEF Merged
    <2> QED BY <1>1, <1>3, <2>1 DEF MergedOK, Merged
  <1> QED BY <1>20, <1>21, <1>22, <1>23, <1>24, <1>25, <1>26, <1>27 DEF IInv

LEMMA CommitStep ==
    ASSUME StoryMemoryConstants, IInv, NEW w \in Writers, Commit(w) PROVE IInv'
  <1>1. /\ TypeOK /\ SeenOK /\ OneLock /\ ReadOK /\ AliasOK /\ KeptOK /\ NewOK
        /\ NamesOK /\ MissedOK /\ MergedOK
    BY DEF IInv
  <1>2. /\ entity' = [i \in Ids |-> Flushed(w, i)] /\ alias' = alias \cup tx[w].added
        /\ committed' = [entity |-> entity', alias |-> alias']
        /\ tx' = [tx EXCEPT ![w] = Idle] /\ renamed' = renamed /\ CanWrite(w)
    BY DEF Commit, CanFlush
  <1>3. \A i \in Ids :
          /\ entity'[i] = Flushed(w, i) /\ Flushed(w, i) \in Entities
          /\ entity'[i] = Null <=> entity[i] = Null
          /\ entity[i] # Null => entity'[i].name = entity[i].name /\ entity'[i].by = entity[i].by
    BY <1>2, FlushedRows
  <1>4. committed'.entity = entity' /\ committed'.alias = alias'
    BY <1>2
  <1>5. /\ tx' \in [Writers -> Txs] /\ tx'[w] = Idle
        /\ \A v \in Writers : v # w =>
             tx'[v] = tx[v] /\ tx[v].locked = FALSE /\ Db(v) = committed
    <2>1. tx' \in [Writers -> Txs] /\ tx'[w] = Idle /\ \A v \in Writers : v # w => tx'[v] = tx[v]
      <3> HIDE DEF Txs, Idle
      <3> QED BY <1>1, <1>2, Fields, IdleTx
    <2> QED BY <1>2, <2>1, Alone
  <1>6. \A v \in Writers : Db(v)'.entity = entity'
    BY <1>4 DEF Db
  <1> HIDE DEF Idle
  <1>7. TypeOK'
    <2>1. entity' \in [Ids -> Entities]
      BY <1>2, <1>3
    <2>2. alias' \subseteq Ids \X AllNames /\ renamed' \subseteq Ids
      <3>1. tx[w].added \subseteq Ids \X AllNames
        BY <1>1, Fields, TxFields
      <3> QED BY <1>1, <1>2, <3>1, Fields
    <2>3. committed' \in [entity : [Ids -> Entities], alias : SUBSET alias']
      BY <1>2, <2>1
    <2>4. \A v \in Writers : Len(tx'[v].todo) <= MaxUpdates
      BY <1>1, <1>5, IdleTx DEF TypeOK
    <2> HIDE DEF Ids, AllNames, Entities, Txs
    <2> QED BY <1>2, <1>5, <2>1, <2>2, <2>3, <2>4 DEF TypeOK
  <1>8. SeenOK' /\ OneLock'
    BY <1>1, <1>5, IdleTx DEF SeenOK, OneLock, Sees, Locks
  <1>9. ReadOK'
    <2>1. \A i \in Ids : committed.entity[i] # Null => entity'[i] # Null
      BY <1>1, <1>3 DEF KeptOK
    <2>2. ASSUME NEW v \in Writers PROVE Knows(tx'[v], entity')
      <3>1. CASE v = w
        BY <1>5, <3>1, IdleTx DEF Knows
      <3>2. CASE v # w
        <4>1. tx[v].added \subseteq Ids \X AllNames
          BY <1>1, Fields, TxFields
        <4> QED BY <1>1, <1>5, <2>1, <3>2, <4>1 DEF ReadOK, Knows
      <3> QED BY <3>1, <3>2
    <2> QED BY <1>6, <2>2 DEF ReadOK, Knows
  <1>10. AliasOK'
    <2>1. \A p \in alias' : p[1] \in Ids /\ entity[p[1]] # Null
      <3>1. \A p \in tx[w].added : p[1] \in Ids /\ entity[p[1]] # Null
        BY <1>1, Seen, Fields, TxFields DEF ReadOK, Knows
      <3> QED BY <1>1, <1>2, <3>1, Fields DEF AliasOK
    <2> QED BY <1>3, <1>4, <2>1 DEF AliasOK
  <1>11. KeptOK' /\ NewOK' /\ MergedOK'
    BY <1>4 DEF KeptOK, NewOK, MergedOK, Merged
  <1>12. NamesOK'
    BY <1>1, <1>2, <1>3 DEF NamesOK
  <1>13. MissedOK'
    BY <1>1, <1>2, <1>3, <1>5, IdleTx DEF MissedOK, Misses
  <1> QED BY <1>7, <1>8, <1>9, <1>10, <1>11, <1>12, <1>13 DEF IInv

LEMMA RollBackStep ==
    ASSUME StoryMemoryConstants, IInv, NEW w \in Writers, RollBack(w) PROVE IInv'
  <1> HIDE DEF Idle
  <1>1. /\ TypeOK /\ SeenOK /\ OneLock /\ ReadOK /\ AliasOK /\ KeptOK /\ NewOK
        /\ NamesOK /\ MissedOK /\ MergedOK
    BY DEF IInv
  <1>2. tx' = [tx EXCEPT ![w] = Idle] /\ committed' = committed /\ renamed' = renamed
    BY DEF RollBack
  <1>3. tx[w] \in Txs /\ tx[w].locked \in BOOLEAN
    BY <1>1, Fields, TxFields
  <1>4. CASE ~tx[w].locked
    <2>1. UNCHANGED <<entity, alias, committed, renamed>> /\ Idle.locked = tx[w].locked
      BY <1>2, <1>3, <1>4, IdleTx DEF RollBack
    <2>2. Knows(Idle, Db(w).entity) /\ Misses(w, Idle)
      BY IdleTx DEF Knows, Misses
    <2> HIDE DEF Txs
    <2> QED BY <1>2, <2>1, <2>2, IdleTx, TxChanged
  <1>5. CASE tx[w].locked
    <2>1. entity' = committed.entity /\ alias' = committed.alias
      BY <1>5 DEF RollBack
    <2>2. CanWrite(w)
      BY <1>1, <1>5 DEF OneLock, CanWrite
    <2>3. /\ tx' \in [Writers -> Txs] /\ tx'[w] = Idle
          /\ \A v \in Writers : v # w =>
               tx'[v] = tx[v] /\ tx[v].locked = FALSE /\ Db(v) = committed
      <3>1. tx' \in [Writers -> Txs] /\ tx'[w] = Idle
            /\ \A v \in Writers : v # w => tx'[v] = tx[v]
        <4> HIDE DEF Txs
        <4> QED BY <1>1, <1>2, Fields, IdleTx
      <3> QED BY <2>2, <3>1, Alone
    <2>4. committed' = [entity |-> entity', alias |-> alias']
      BY <1>1, <1>2, <2>1, Fields
    <2>5. \A v \in Writers : Db(v)'.entity = committed.entity
      BY <1>2, <2>1 DEF Db
    <2>6. TypeOK'
      <3>1. entity' \in [Ids -> Entities] /\ alias' \subseteq Ids \X AllNames
            /\ renamed' \subseteq Ids
        BY <1>1, <1>2, <2>1, Fields
      <3>2. committed' \in [entity : [Ids -> Entities], alias : SUBSET alias']
        BY <2>4, <3>1
      <3>3. \A v \in Writers : Len(tx'[v].todo) <= MaxUpdates
        BY <1>1, <2>3, IdleTx DEF TypeOK
      <3> HIDE DEF Ids, AllNames, Entities, Txs
      <3> QED BY <2>3, <2>4, <3>1, <3>2, <3>3 DEF TypeOK
    <2>7. SeenOK' /\ OneLock'
      BY <1>1, <2>3, IdleTx DEF SeenOK, OneLock, Sees, Locks
    <2>8. ReadOK'
      <3>1. Knows(Idle, committed.entity)
        BY IdleTx DEF Knows
      <3> QED BY <1>1, <2>3, <2>5, <3>1 DEF ReadOK, Knows
    <2>9. AliasOK' /\ KeptOK' /\ NewOK' /\ MergedOK'
      BY <1>1, <1>2, <2>1 DEF AliasOK, KeptOK, NewOK, MergedOK, Merged
    <2>10. NamesOK'
      BY <1>1, <1>2, <2>1 DEF NamesOK, KeptOK
    <2>11. MissedOK'
      BY <1>1, <1>2, <2>1, <2>3, IdleTx DEF MissedOK, Misses, KeptOK
    <2> QED BY <2>6, <2>7, <2>8, <2>9, <2>10, <2>11 DEF IInv
  <1> QED BY <1>4, <1>5

\* The owner changes rows that exist, and finds what is committed.
LEMMA RowChanged ==
    ASSUME StoryMemoryConstants, IInv, Unlocked, NEW i \in Ids, NEW row \in Rows,
           entity[i] # Null, row.by = entity[i].by,
           entity' = [entity EXCEPT ![i] = row],
           committed' = [committed EXCEPT !.entity = entity'], UNCHANGED <<alias, tx>>,
           renamed' \in SUBSET Ids, renamed \subseteq renamed',
           i \in renamed' \/ row.name = entity[i].name
    PROVE  IInv'
  <1>1. /\ TypeOK /\ SeenOK /\ OneLock /\ ReadOK /\ AliasOK /\ KeptOK /\ NewOK
        /\ NamesOK /\ MissedOK /\ MergedOK
    BY DEF IInv
  <1>2. /\ committed.entity = entity /\ committed.alias = alias
        /\ committed' = [entity |-> entity', alias |-> alias]
        /\ committed'.entity = entity' /\ committed'.alias = alias
    BY <1>1, Fields DEF TypeOK, Unlocked
  <1>3. /\ entity' \in [Ids -> Entities]
        /\ \A j \in Ids : entity[j] # Null <=> entity'[j] # Null
        /\ \A j \in Ids : entity[j] # Null => entity'[j].by = entity[j].by
        /\ \A j \in Ids \ renamed' : j \notin renamed /\
              (entity[j] # Null => entity'[j].name = entity[j].name)
    <2>1. row \in Entities /\ row # Null
      BY DEF Entities, StoryMemoryConstants
    <2> HIDE DEF Entities
    <2> QED BY <1>1, <2>1, Fields
  <1>4. TypeOK'
    <2>1. committed' \in [entity : [Ids -> Entities], alias : SUBSET alias']
      BY <1>2, <1>3
    <2> HIDE DEF Ids, AllNames, Entities, Txs
    <2> QED BY <1>1, <1>2, <1>3, <2>1 DEF TypeOK
  <1>5. SeenOK' /\ OneLock'
    BY <1>1 DEF SeenOK, OneLock, Sees, Locks
  <1>6. ReadOK'
    <2>1. \A w \in Writers : Db(w).entity = entity /\ Db(w)'.entity = entity'
      BY <1>2 DEF Db
    <2>2. ASSUME NEW w \in Writers PROVE Knows(tx[w], entity')
      <3>1. Knows(tx[w], entity) /\ tx[w].added \subseteq Ids \X AllNames
        BY <1>1, <2>1, Fields, TxFields DEF ReadOK
      <3> QED BY <1>3, <3>1 DEF Knows
    <2> QED BY <2>1, <2>2 DEF ReadOK, Knows
  <1>7. AliasOK'
    <2>1. \A p \in alias : p[1] \in Ids
      BY <1>1, Fields
    <2> QED BY <1>1, <1>2, <1>3, <2>1 DEF AliasOK
  <1>8. KeptOK' /\ NewOK' /\ MergedOK'
    BY <1>2 DEF KeptOK, NewOK, MergedOK, Merged
  <1>9. NamesOK'
    BY <1>1, <1>3 DEF NamesOK
  <1>10. MissedOK'
    BY <1>1, <1>3 DEF MissedOK, Misses
  <1> QED BY <1>4, <1>5, <1>6, <1>7, <1>8, <1>9, <1>10 DEF IInv

LEMMA MergeStep ==
    ASSUME StoryMemoryConstants, IInv, NEW into \in Ids, NEW from \in Ids, Merge(into, from)
    PROVE  IInv'
  <1> DEFINE row == [entity[from] EXCEPT !.status = "merged", !.into = into]
  <1>1. /\ Unlocked /\ entity[from] # Null
        /\ committed' = [committed EXCEPT !.entity = entity']
        /\ UNCHANGED <<alias, tx, renamed>>
    BY DEF Merge
  <1>2. entity \in [Ids -> Entities] /\ entity[from] \in Rows /\ renamed \subseteq Ids
    BY <1>1, Fields DEF IInv, Entities
  <1>3. entity' = [entity EXCEPT ![from] = row]
    BY DEF Merge
  <1>4. row \in Rows /\ row.name = entity[from].name /\ row.by = entity[from].by
    <2> HIDE DEF Ids, AllNames
    <2> QED BY <1>2 DEF Rows
  <1> HIDE DEF row, Rows, Ids, Unlocked
  <1> QED BY <1>1, <1>2, <1>3, <1>4, RowChanged

LEMMA RenameStep ==
    ASSUME StoryMemoryConstants, IInv, NEW i \in Ids, NEW n \in Names, Rename(i, n)
    PROVE  IInv'
  <1> DEFINE row == [entity[i] EXCEPT !.name = n]
  <1>1. /\ Unlocked /\ entity[i] # Null
        /\ committed' = [committed EXCEPT !.entity = entity']
        /\ renamed' = renamed \cup {i}
        /\ UNCHANGED <<alias, tx>>
    BY DEF Rename
  <1>2. /\ entity \in [Ids -> Entities] /\ entity[i] \in Rows /\ renamed' \in SUBSET Ids
        /\ n \in AllNames
    BY <1>1, Fields DEF IInv, Entities, AllNames
  <1>3. entity' = [entity EXCEPT ![i] = row]
    BY DEF Rename
  <1>4. row \in Rows /\ row.by = entity[i].by
    <2> HIDE DEF Ids, AllNames
    <2> QED BY <1>2 DEF Rows
  <1> HIDE DEF row, Rows, Ids, Unlocked
  <1> QED BY <1>1, <1>2, <1>3, <1>4, RowChanged

LEMMA NextInv == ASSUME StoryMemoryConstants, IInv, [Next]_memoryVars PROVE IInv'
  <1>1. CASE UNCHANGED memoryVars
    <2>1. /\ entity' = entity /\ alias' = alias /\ committed' = committed /\ tx' = tx
          /\ renamed' = renamed
      BY <1>1 DEF memoryVars
    <2>2. \A w \in Writers : Db(w)' = Db(w)
      BY <2>1 DEF Db
    <2> QED BY <2>1, <2>2 DEF IInv, TypeOK, SeenOK, OneLock, Sees, Locks, ReadOK, Knows, AliasOK,
                        KeptOK, NewOK, NamesOK, MissedOK, Misses, MergedOK, Merged
  <1> QED BY <1>1, BeginStep, AnsweredStep, ResolveStep, MissStep, CreateStep, CommitStep,
             RollBackStep, MergeStep, RenameStep DEF Next

LEMMA Invariant == ASSUME StoryMemoryConstants PROVE Spec => []IInv
  BY InitInv, NextInv, PTL DEF Spec

-------------------------------------------------------------------------------
(* The theorems                                                              *)

\* The rows, the aliases and what the transactions hold of them are of their types, and
\* while none has written anything everybody sees what is there (writer.py:38-75).
THEOREM TypeCorrect == ASSUME StoryMemoryConstants PROVE Spec => []TypeOK
  <1>1. IInv => TypeOK
    BY DEF IInv
  <1> QED BY <1>1, Invariant, PTL

\* Whatever the windows' updates, the other pipelines of the channel and the owner's
\* merges, no pipeline ever commits two entities of one name that its lookups find and
\* the owner has given to neither (resolution.py:21-33).
THEOREM NamesStayUnique == ASSUME StoryMemoryConstants PROVE Spec => []NamesUnique
  <1>1. ASSUME StoryMemoryConstants PROVE IInv => NamesUnique
    <2> SUFFICES ASSUME IInv PROVE NamesUnique
      OBVIOUS
    <2>1. DOMAIN committed.entity = Ids
      BY Fields DEF IInv
    <2> QED BY <2>1 DEF IInv, NamesOK, KeptOK, NamesUnique
  <1> QED BY <1>1, Invariant, PTL

\* Creating a row takes the transaction to its next update.
LEMMA CreateGoesOn ==
    ASSUME StoryMemoryConstants, IInv, NEW w \in Writers, Create(w) PROVE tx'[w] # tx[w]
  <1> DEFINE s == tx[w]
             u == Head(s.todo)
             new == [name |-> u.name, status |-> "provisional", mentions |-> 0,
                     into |-> Null, by |-> IF Findable(u.name) THEN w ELSE Null]
  <1>1. PICK i \in Free :
          tx' = [tx EXCEPT ![w] = WithAliases(w,
               Touch([s EXCEPT !.step = "entities", !.todo = Tail(@), !.locked = TRUE,
                               !.added = {<<i, u.name>>}], i, new), i, u.aliases)]
    BY DEF Create
  <1> DEFINE t == [s EXCEPT !.step = "entities", !.todo = Tail(@), !.locked = TRUE,
                            !.added = {<<i, u.name>>}]
             r == Touch(t, i, new)
  <1>2. s \in Txs /\ s.step = "create" /\ tx \in [Writers -> Txs]
    BY Fields DEF IInv, Create
  <1>3. DOMAIN t = DOMAIN s /\ "step" \in DOMAIN s /\ t.step = "entities"
    <2> HIDE DEF s, u
    <2> QED BY <1>2 DEF Txs
  <1> HIDE DEF t, new, u
  <1>4. r.step = "entities" /\ "step" \in DOMAIN r
    BY <1>3 DEF Touch
  <1> HIDE DEF r
  <1>5. WithAliases(w, r, i, u.aliases).step = "entities"
    BY <1>4 DEF WithAliases
  <1>6. tx'[w] = WithAliases(w, r, i, u.aliases)
    <2> HIDE DEF Txs
    <2> QED BY <1>1, <1>2 DEF r, t, u, new
  <1> QED BY <1>2, <1>5, <1>6

\* No step makes a merged entity anything else, unless its transaction had read it before
\* it was merged (resolution.py:71).
THEOREM MergesAreKept == ASSUME StoryMemoryConstants PROVE Spec => MergesStand
  <1> DEFINE Kept == \A i \in DOMAIN entity :
                       entity[i] # Null /\ entity[i].status = "merged" /\ entity'[i].status # "merged"
                           => \E w \in DOMAIN tx : tx'[w] # tx[w] /\ i \notin tx[w].gone
  <1>1. ASSUME StoryMemoryConstants, IInv, [Next]_memoryVars PROVE [Kept]_memoryVars
    <2>1. /\ TypeOK /\ MergedOK /\ entity \in [Ids -> Entities] /\ DOMAIN entity = Ids
          /\ tx \in [Writers -> Txs] /\ DOMAIN tx = Writers
      BY <1>1, Fields DEF IInv
    <2>2. CASE UNCHANGED memoryVars
      BY <2>2
    <2>3. ASSUME NEW w \in Writers, Create(w) PROVE Kept
      <3>1. PICK i \in Free : \A j \in Ids : j # i => entity'[j] = Flushed(w, j)
        BY <2>3 DEF Create
      <3>2. entity[i] = Null
        BY <3>1 DEF Free
      <3>3. tx'[w] # tx[w]
        BY <1>1, <2>3, CreateGoesOn
      <3> QED BY <1>1, <2>1, <3>1, <3>2, <3>3, FlushedRows
    <2>4. ASSUME NEW w \in Writers, Commit(w) PROVE Kept
      <3>1. \A j \in Ids : entity'[j] = Flushed(w, j)
        BY <2>4 DEF Commit
      <3>2. tx'[w] # tx[w]
        <4>1. tx'[w] = Idle /\ tx[w].step = "entities"
          <5> HIDE DEF Txs, Idle
          <5> QED BY <2>1, <2>4 DEF Commit
        <4> QED BY <1>1, <4>1, IdleTx
      <3> QED BY <1>1, <2>1, <3>1, <3>2, FlushedRows
    <2>5. ASSUME NEW w \in Writers, RollBack(w) PROVE Kept
      BY <2>1, <2>5 DEF RollBack, MergedOK, Merged
    <2>6. ASSUME NEW w \in Writers, Begin(w) \/ Answered(w) \/ Resolve(w) \/ Miss(w) PROVE Kept
      BY <2>6 DEF Begin, Answered, Resolve, Miss
    <2>7. ASSUME NEW into \in Ids, NEW from \in Ids, Merge(into, from) PROVE Kept
      <3>1. \A j \in Ids : j # from => entity'[j] = entity[j]
        BY <2>1, <2>7 DEF Merge
      <3>2. entity[from] # Null => entity'[from].status = "merged"
        <4>1. ASSUME entity[from] # Null PROVE entity[from] \in Rows
          BY <2>1, <4>1 DEF Entities
        <4> QED BY <2>1, <2>7, <4>1 DEF Merge, Rows
      <3> QED BY <2>1, <3>1, <3>2
    <2>8. ASSUME NEW i \in Ids, NEW n \in Names, Rename(i, n) PROVE Kept
      <3>1. \A j \in Ids : j # i => entity'[j] = entity[j]
        BY <2>1, <2>8 DEF Rename
      <3>2. entity[i] # Null => entity'[i].status = entity[i].status
        <4>1. ASSUME entity[i] # Null PROVE entity[i] \in Rows
          BY <2>1, <4>1 DEF Entities
        <4> QED BY <2>1, <2>8, <4>1 DEF Rename, Rows
      <3> QED BY <2>1, <3>1, <3>2
    <2>9. CASE Next
      <3> HIDE DEF Kept
      <3> QED BY <2>3, <2>4, <2>5, <2>6, <2>7, <2>8, <2>9 DEF Next
    <2> QED BY <1>1, <2>2, <2>9
  <1> QED BY <1>1, Invariant, PTL DEF Spec, MergesStand
================================================================================
