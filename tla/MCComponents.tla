----------------------------- MODULE MCComponents -----------------------------
(***************************************************************************)
(* The components that share no state with one another, each in a small    *)
(* instance, for TLC.  One behaviour is one of a single component: "part"  *)
(* says of which, and the others stay in an initial state.  The states are *)
(* the sum of those of the components and not their product.               *)
(*                                                                         *)
(* The variables and the properties are those of the extended modules.     *)
(* Theorems about a component are about the very same properties.          *)
(***************************************************************************)
EXTENDS IngestState, SegmentingState, WindowingState, WatcherState, RecapsState,
        StoryMemoryState, VoiceprintsState, TLC

CONSTANTS People, Names, Other, None

VARIABLE part

I == INSTANCE Ingest WITH
    MaxChunks <- 3, Timeout <- 3, MaxBackoff <- 2, WriteErrors <- TRUE, Lingers <- TRUE

G == INSTANCE Segmenting WITH
    MaxFrames <- 13, Silence <- 3, Cap <- 8, Tail5 <- 5, Loudness <- 2

B == INSTANCE Windowing WITH
    Gaps <- {0, 2}, Durations <- {1, 3}, Counts <- {1, 2}

\* Two hours and no final summary, and one hour with one.
W == INSTANCE Watcher WITH
    TTL <- 1, MaxSessions <- 1, HoursEach <- 2, BeatLimit <- 2, FinalLimit <- 1,
    Failing <- {}
NoFinal == \A w \in Workers : tick[w].sessions = {}
O == INSTANCE Watcher WITH
    TTL <- 1, MaxSessions <- 1, HoursEach <- 1, BeatLimit <- 1, FinalLimit <- 1,
    Failing <- {}

\* Catch-ups with events and a vote, catch-ups of two threads that two windows move,
\* and overviews of more events: up to three side by side, and beyond one at a time.
R == INSTANCE Recaps WITH
    Kinds <- {"recap"}, MaxEvents <- 1, Threads <- {}, MaxMoves <- 0, Votes <- {1}
T == INSTANCE Recaps WITH
    Kinds <- {"recap"}, MaxEvents <- 0, Threads <- {1, 2}, MaxMoves <- 2, Votes <- {}
F == INSTANCE Recaps WITH
    Kinds <- {"full"}, MaxEvents <- 3, Threads <- {}, MaxMoves <- 0, Votes <- {}
E == INSTANCE Recaps WITH
    Kinds <- {"full"}, MaxEvents <- 5, Threads <- {}, MaxMoves <- 0, Votes <- {}
InTurn == Cardinality({q \in Requests : request[q].step # "idle"}) <= 1

\* One pipeline: two names nothing like each other, and aliases; a name that comes twice in
\* a window; two names alike, with one too short to be found in capitals that lower() does
\* not fold.  And two pipelines.
M == INSTANCE StoryMemory WITH
    Writers <- {"live"}, Unmatched <- {}, Alike <- {},
    MaxId <- 2, MaxUpdates <- 1, MaxAliases <- 1
Q == INSTANCE StoryMemory WITH
    Writers <- {"live"}, Names <- {Other}, Unmatched <- {}, Alike <- {},
    MaxId <- 2, MaxUpdates <- 2, MaxAliases <- 0
N == INSTANCE StoryMemory WITH
    Writers <- {"live"}, Names <- Names \cup {Other}, Unmatched <- {Other},
    Alike <- {p \in Names \X Names : p[1] # p[2]},
    MaxId <- 2, MaxUpdates <- 1, MaxAliases <- 0
L == INSTANCE StoryMemory WITH
    Writers <- Workers, Names <- {Other}, Unmatched <- {}, Alike <- {},
    MaxId <- 2, MaxUpdates <- 1, MaxAliases <- 0

V == INSTANCE Voiceprints

ASSUME ComponentsAssumption ==
    /\ I!IngestConstants /\ G!SegmentingConstants /\ B!WindowingConstants
    /\ W!WatcherConstants /\ O!WatcherConstants /\ V!VoiceprintsConstants
    /\ R!RecapsConstants /\ T!RecapsConstants /\ F!RecapsConstants /\ E!RecapsConstants
    /\ M!StoryMemoryConstants /\ Q!StoryMemoryConstants /\ N!StoryMemoryConstants
    /\ L!StoryMemoryConstants

Parts == {"ingest", "segments", "windows", "watcher", "finals", "voices", "recaps", "threads",
          "overviews", "boundary", "memory", "repeated", "alike", "replays"}

Init ==
    /\ part \in Parts
    /\ I!Init /\ G!Init /\ B!Init /\ V!Init
    /\ IF part = "finals" THEN O!Init ELSE W!Init
    /\ IF part = "replays" THEN L!Init ELSE M!Init
    /\ CASE part = "threads" -> T!Init [] part = "overviews" -> F!Init
         [] part = "boundary" -> E!Init [] OTHER -> R!Init
    \* what an initial state leaves open is open in its own part only
    /\ part # "ingest" => live
    /\ part \notin {"watcher", "finals"} => prompt
    /\ part # "voices" => required

Next ==
    \/ /\ part = "ingest" /\ I!Next
       /\ UNCHANGED <<part, segmentVars, windowVars, watcherVars, voiceVars,
                      recapVars, memoryVars>>
    \/ /\ part = "segments" /\ G!Next
       /\ UNCHANGED <<part, ingestVars, windowVars, watcherVars, voiceVars,
                      recapVars, memoryVars>>
    \/ /\ part = "windows" /\ B!Next
       /\ UNCHANGED <<part, ingestVars, segmentVars, watcherVars, voiceVars,
                      recapVars, memoryVars>>
    \/ /\ part = "watcher" /\ W!Next /\ NoFinal'
       /\ UNCHANGED <<part, ingestVars, segmentVars, windowVars, voiceVars,
                      recapVars, memoryVars>>
    \/ /\ part = "finals" /\ O!Next
       /\ UNCHANGED <<part, ingestVars, segmentVars, windowVars, voiceVars,
                      recapVars, memoryVars>>
    \/ /\ part = "voices" /\ V!Next
       /\ UNCHANGED <<part, ingestVars, segmentVars, windowVars, watcherVars,
                      recapVars, memoryVars>>
    \/ /\ part = "recaps" /\ R!Next
       /\ UNCHANGED <<part, ingestVars, segmentVars, windowVars, watcherVars,
                      voiceVars, memoryVars>>
    \/ /\ part = "threads" /\ T!Next
       /\ UNCHANGED <<part, ingestVars, segmentVars, windowVars, watcherVars,
                      voiceVars, memoryVars>>
    \/ /\ part = "overviews" /\ F!Next
       /\ UNCHANGED <<part, ingestVars, segmentVars, windowVars, watcherVars,
                      voiceVars, memoryVars>>
    \/ /\ part = "boundary" /\ E!Next /\ InTurn'
       /\ UNCHANGED <<part, ingestVars, segmentVars, windowVars, watcherVars,
                      voiceVars, memoryVars>>
    \/ /\ part = "memory" /\ M!Next
       /\ UNCHANGED <<part, ingestVars, segmentVars, windowVars, watcherVars,
                      voiceVars, recapVars>>
    \/ /\ part = "replays" /\ L!Next
       /\ UNCHANGED <<part, ingestVars, segmentVars, windowVars, watcherVars, voiceVars,
                      recapVars>>
    \/ /\ part = "repeated" /\ Q!Next
       /\ UNCHANGED <<part, ingestVars, segmentVars, windowVars, watcherVars, voiceVars,
                      recapVars>>
    \/ /\ part = "alike" /\ N!Next
       /\ UNCHANGED <<part, ingestVars, segmentVars, windowVars, watcherVars,
                      voiceVars, recapVars>>

vars == <<part, ingestVars, segmentVars, windowVars, watcherVars, voiceVars, recapVars,
          memoryVars>>
Spec == Init /\ [][Next]_vars

\* The two workers, requests, people, names and pipelines of a channel are the same two
\* values, none of which means anything, so that one exchange will do for all.
Symmetry == Permutations(Workers)
===============================================================================
