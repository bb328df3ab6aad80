------------------------------ MODULE Voiceprints ------------------------------
(***************************************************************************)
(* Speakers, their consents and their voiceprints: the routes of           *)
(* app/api/routes_speakers.py and app/consent.py, the sweep of             *)
(* app/retention.py at startup and at the end of each pipeline, and what a *)
(* running pipeline (app/pipeline.py) reads of voiceprints once, when it   *)
(* starts, and writes of them ever after.                                  *)
(*                                                                         *)
(* A voice is its person's; the owner files a row under the person it is   *)
(* of and merges rows of one person only.  SQLite gives a new row the      *)
(* highest id plus one, so the id of a deleted row may come back.          *)
(***************************************************************************)
EXTENDS VoiceprintsState

CONSTANTS
    People,
    None

\* What is assumed of them.
VoiceprintsConstants == None \notin People /\ MaxId \in Nat \ {0}

rows == <<person, spoken, consent>>

Voices == People \cup {None}

TypeOK ==
    /\ required \in BOOLEAN /\ pipeline \in BOOLEAN
    /\ person \in [Ids -> Voices]
    /\ spoken \subseteq Ids
    /\ consent \in [Ids -> {"none", "granted", "expired"}]
    /\ prints \in [Ids -> SUBSET People]
    /\ uploads \in [Ids -> Voices] /\ centroids \in [Ids -> Voices]
    /\ overtaken \subseteq Ids

Init ==
    /\ required \in BOOLEAN
    /\ person = [i \in Ids |-> None] /\ spoken = {}
    /\ consent = [i \in Ids |-> "none"]
    /\ prints = [i \in Ids |-> {}]
    /\ uploads = [i \in Ids |-> None]
    /\ pipeline = FALSE /\ centroids = [i \in Ids |-> None]
    /\ overtaken = {}

Exists(i) == person[i] # None
HasConsent(i) == consent[i] = "granted"
Allowed(i) == required => HasConsent(i)
Writing(i) == uploads[i] # None \/ centroids[i] # None

NextId == CHOOSE i \in Ids : ~Exists(i) /\ \A j \in Ids : j >= i => ~Exists(j)
RoomForId == ~Exists(MaxId)

\* What this step leaves overtaken of ids: a writer is still at it, or its print is there.
Remain(ids) == overtaken' = {i \in ids : prints'[i] # {} \/ uploads'[i] # None \/ centroids'[i] # None}
Overtake(ids) == Remain(overtaken \cup {i \in ids : Writing(i)})

-------------------------------------------------------------------------------
(* The speaker routes                                                        *)

\* enroll; the consent it asks for is granted by a commit of its own (Grant).
Enroll(p) ==
    /\ RoomForId
    /\ person' = [person EXCEPT ![NextId] = p]
    /\ UNCHANGED <<required, spoken, consent, prints, uploads, pipeline, centroids, overtaken>>

Grant(i) ==
    /\ Exists(i)
    /\ consent' = [consent EXCEPT ![i] = "granted"]
    /\ UNCHANGED <<required, person, spoken, prints, uploads, pipeline, centroids, overtaken>>

\* CONSENT_TTL_DAYS pass.
Expire(i) ==
    /\ HasConsent(i)
    /\ consent' = [consent EXCEPT ![i] = "expired"]
    /\ UNCHANGED <<required, person, spoken, prints, uploads, pipeline, centroids, overtaken>>

\* A mutant: the consent is withdrawn and the voiceprints stay.
RevokeRowsOnly(i) ==
    /\ Exists(i)
    /\ consent' = [consent EXCEPT ![i] = "none"]
    /\ UNCHANGED prints
    /\ UNCHANGED <<required, person, spoken, uploads, pipeline, centroids>>
    /\ Overtake({i})
Revoke(i) ==
    /\ Exists(i)
    /\ consent' = [consent EXCEPT ![i] = "none"]
    /\ prints' = [prints EXCEPT ![i] = {}]
    /\ UNCHANGED <<required, person, spoken, uploads, pipeline, centroids>>
    /\ Overtake({i})

\* Consent is checked before the upload is awaited and embedded ...
UploadBegins(i) ==
    /\ Exists(i) /\ Allowed(i) /\ uploads[i] = None
    /\ uploads' = [uploads EXCEPT ![i] = person[i]]
    /\ UNCHANGED <<required, rows, prints, pipeline, centroids, overtaken>>

\* ... and not again before it is stored, in place of the rows there are.
\* Without a speaker the foreign key fails.
UploadEnds(i) ==
    /\ uploads[i] # None
    /\ prints' = IF Exists(i) THEN [prints EXCEPT ![i] = {uploads[i]}] ELSE prints
    /\ uploads' = [uploads EXCEPT ![i] = None]
    /\ UNCHANGED <<required, rows, pipeline, centroids>>
    /\ Remain(overtaken)

\* Nothing moves the segments: a speaker they refer to cannot be merged.
Merge(into, from) ==
    /\ into # from /\ Exists(into) /\ person[from] = person[into]
    /\ from \notin spoken
    /\ prints' = [prints EXCEPT ![into] = @ \cup prints[from], ![from] = {}]
    /\ person' = [person EXCEPT ![from] = None]
    /\ consent' = [consent EXCEPT ![from] = "none"]
    /\ UNCHANGED <<required, spoken, uploads, pipeline, centroids>>
    /\ Remain(overtaken \cup {from} \cup (IF prints[from] = {} THEN {} ELSE {into}))

\* A mutant: the voiceprints are left behind.
DeleteRowOnly(i) ==
    /\ Exists(i)
    /\ person' = [person EXCEPT ![i] = None] /\ spoken' = spoken \ {i}
    /\ consent' = [consent EXCEPT ![i] = "none"]
    /\ UNCHANGED prints
    /\ UNCHANGED <<required, uploads, pipeline, centroids>>
    /\ Overtake({i})
Delete(i) ==
    /\ Exists(i)
    /\ person' = [person EXCEPT ![i] = None] /\ spoken' = spoken \ {i}
    /\ consent' = [consent EXCEPT ![i] = "none"]
    /\ prints' = [prints EXCEPT ![i] = {}]
    /\ UNCHANGED <<required, uploads, pipeline, centroids>>
    /\ Overtake({i})

\* A segment is given to another speaker.
Reassign(i, j) ==
    /\ i \in spoken /\ Exists(j)
    /\ \E left \in {spoken, spoken \ {i}} : spoken' = left \cup {j}
    /\ UNCHANGED <<required, person, consent, prints, uploads, pipeline, centroids, overtaken>>

-------------------------------------------------------------------------------
(* The pipeline and the sweep                                                *)

\* _load_speaker_library
PipelineStarts ==
    /\ ~pipeline /\ pipeline' = TRUE
    /\ \E newest \in [Ids -> Voices] :
         /\ \A i \in Ids : IF prints[i] = {} \/ ~Allowed(i) THEN newest[i] = None
                                                             ELSE newest[i] \in prints[i]
         /\ centroids' = newest
    /\ UNCHANGED <<required, rows, prints, uploads, overtaken>>

\* enforce_retention
Swept == [i \in Ids |-> IF Allowed(i) THEN prints[i] ELSE {}]

\* A finally block that raises sweeps nothing.
PipelineEnds ==
    /\ pipeline /\ pipeline' = FALSE
    /\ centroids' = [i \in Ids |-> None]
    /\ prints' \in {prints, Swept}
    /\ UNCHANGED <<required, rows, uploads>>
    /\ Remain(overtaken)

\* A pipeline of another channel ends, or another worker starts.
Sweep ==
    /\ prints' = Swept
    /\ UNCHANGED <<required, rows, uploads, pipeline, centroids>>
    /\ Remain(overtaken)

\* A segment in the voice of centroid i: it is its speaker's; a long one goes
\* into the newest row of the voiceprints, or into a new one.  The set does not
\* tell how many rows hold a voice: another may be left.
Matched(i) ==
    /\ centroids[i] # None /\ Exists(i)
    /\ spoken' = spoken \cup {i}
    /\ \/ UNCHANGED prints
       \/ prints[i] = {} /\ prints' = [prints EXCEPT ![i] = {centroids[i]}]
       \/ \E v \in prints[i] :
            \/ prints' = [prints EXCEPT ![i] = (@ \ {v}) \cup {centroids[i]}]
            \/ prints' = [prints EXCEPT ![i] = @ \cup {centroids[i]}]
    /\ UNCHANGED <<required, person, consent, uploads, pipeline, centroids, overtaken>>

SpeakerMissing(i) ==
    /\ centroids[i] # None /\ ~Exists(i)
    /\ centroids' = [centroids EXCEPT ![i] = None]
    /\ UNCHANGED <<required, rows, prints, uploads, pipeline>>
    /\ Remain(overtaken)

\* A cluster of unknown segments becomes a speaker, never where consent is required.
Promote(p) ==
    /\ pipeline /\ ~required /\ RoomForId
    /\ person' = [person EXCEPT ![NextId] = p]
    /\ spoken' = spoken \cup {NextId}
    /\ prints' = [prints EXCEPT ![NextId] = {p}]
    /\ centroids' = [centroids EXCEPT ![NextId] = p]
    /\ UNCHANGED <<required, consent, uploads, pipeline, overtaken>>

\* The process stops and starts again: it sweeps before anything else.
Restart ==
    /\ pipeline' = FALSE
    /\ centroids' = [i \in Ids |-> None] /\ uploads' = [i \in Ids |-> None]
    /\ prints' = Swept
    /\ UNCHANGED <<required, rows>>
    /\ Remain(overtaken)

Next ==
    \/ \E p \in People : Enroll(p) \/ Promote(p)
    \/ \E i \in Ids :
         \/ Grant(i) \/ Expire(i) \/ Revoke(i) \/ Delete(i)
         \/ UploadBegins(i) \/ UploadEnds(i) \/ Matched(i) \/ SpeakerMissing(i)
    \/ \E i, j \in Ids : Merge(i, j) \/ Reassign(i, j)
    \/ PipelineStarts \/ PipelineEnds \/ Sweep \/ Restart

Spec == Init /\ [][Next]_voiceVars

=============================================================================
