--------------------------- MODULE StoryMemoryState ---------------------------
(* The state of StoryMemory, and what StoryMemory promises of it.           *)
CONSTANT Null

VARIABLES
    entity,     \* entities, by id, and by the pipeline whose lookups find the name
    alias,      \* entity_aliases
    committed,  \* both, as everybody but the transaction that has flushed sees them
    tx,         \* write_extraction, of each pipeline
    renamed     \* ids the owner gave another name

memoryVars == <<entity, alias, committed, tx, renamed>>

\* No pipeline introduces a name twice, unless the owner gave it to one of the two:
\* not even where a window names it several times, before any of it is committed,
\* and whatever another pipeline of the channel writes meanwhile
\* (resolution.py:21-33).  Two pipelines may each introduce it once, and a name that
\* no lookup finds is introduced at every mention.
NamesUnique ==
    \A i, j \in DOMAIN committed.entity \ renamed :
        committed.entity[i] # Null /\ committed.entity[j] # Null
            /\ committed.entity[i].by # Null
            /\ committed.entity[i].by = committed.entity[j].by
            /\ committed.entity[i].name = committed.entity[j].name => i = j

\* A merge stands, unless the pipeline that undoes it had read the entity before
\* it: what it read as merged it never makes anything else
\* (resolution.py:71, routes_memory.py:60-63).
MergesStand ==
    [][\A i \in DOMAIN entity :
         entity[i] # Null /\ entity[i].status = "merged" /\ entity'[i].status # "merged"
             => \E w \in DOMAIN tx : tx'[w] # tx[w] /\ i \notin tx[w].gone]_memoryVars
=============================================================================
