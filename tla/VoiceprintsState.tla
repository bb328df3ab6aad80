--------------------------- MODULE VoiceprintsState ---------------------------
(* The state of Voiceprints, and what Voiceprints promises of it.           *)
EXTENDS Integers

CONSTANT MaxId       \* bound: speaker ids

Ids == 1 .. MaxId

VARIABLES
    required,   \* settings.CONSENT_REQUIRED
    person,     \* speakers: whose row an id is
    spoken,     \* ids that segments refer to
    consent,    \* the latest row of consents; "none" if there is none or it was withdrawn
    prints,     \* speaker_embeddings: the voices stored under an id
    uploads,    \* enroll_voiceprint: the voice being read and embedded for an id
    pipeline,   \* a pipeline of the channel runs
    centroids,  \* its voices, by id
    overtaken   \* ids whose consent or row went while somebody was writing

voiceVars == <<required, person, spoken, consent, prints, uploads, pipeline, centroids,
               overtaken>>

\* Where consent is required, a voiceprint without one is that of an id whose
\* consent or row went while an upload or a pipeline was writing it, or of one
\* merged into another; nothing else brings one about, and nothing lets it
\* outlive both its writer and a restart (consent.py:4, 53-57).
UnconsentedIsOvertaken ==
    required => \A i \in Ids :
        prints[i] # {} /\ consent[i] = "none" => i \in overtaken

\* Nobody's voice is stored under another person's row, short of an id that was
\* given out again while a voice was still being written to it
\* (routes_speakers.py:173, pipeline.py:329-333).
PrintsAreOwn ==
    \A i \in Ids : i \notin overtaken => prints[i] \subseteq {person[i]}

\* README.md:9: "Persisted voiceprints require active consent ...; revocation
\* deletes embeddings immediately."
PrintsNeedConsent ==
    required => \A i \in Ids : prints[i] # {} => consent[i] \in {"granted", "expired"}
=============================================================================
