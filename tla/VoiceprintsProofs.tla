--------------------------- MODULE VoiceprintsProofs ---------------------------
(***************************************************************************)
(* What Voiceprints promises, for any people and any number of speakers.   *)
(* Both properties follow from one invariant: an id that is not overtaken  *)
(* has nothing of anybody else's, and neither has a writer for it; and a   *)
(* writer for an id without consent makes it overtaken.                    *)
(***************************************************************************)
EXTENDS Voiceprints, TLAPS

\* There is a voiceprint of i, or somebody writes one.
Left(i) == prints[i] # {} \/ uploads[i] # None \/ centroids[i] # None

Covered == \A i \in Ids :
    required /\ consent[i] = "none" /\ Left(i) => i \in overtaken

Own == \A i \in Ids : i \notin overtaken =>
    /\ prints[i] \subseteq {person[i]}
    /\ uploads[i] \in {None, person[i]}
    /\ centroids[i] \in {None, person[i]}

IInv == TypeOK /\ Covered /\ Own

\* The id a new speaker gets is free.
LEMMA NextIdFree ==
    ASSUME VoiceprintsConstants, RoomForId
    PROVE  NextId \in Ids /\ person[NextId] = None
<1>1. MaxId \in Ids
  BY DEF VoiceprintsConstants, Ids
<1>2. ~Exists(MaxId) /\ \A j \in Ids : j >= MaxId => ~Exists(j)
  <2>1. ASSUME NEW j \in Ids, j >= MaxId PROVE j = MaxId
    BY <2>1 DEF VoiceprintsConstants, Ids
  <2> QED BY <2>1 DEF RoomForId
<1>3. \E i \in Ids : ~Exists(i) /\ \A j \in Ids : j >= i => ~Exists(j)
  BY <1>1, <1>2
<1> QED BY <1>3 DEF NextId, Exists

\* The invariant holds at the start.
LEMMA InitInv == ASSUME VoiceprintsConstants, Init PROVE IInv
  BY DEF VoiceprintsConstants, Init, IInv, TypeOK, Voices, Covered, Own, Left

\* No step ends it.
LEMMA NextInv ==
    ASSUME VoiceprintsConstants, IInv, [Next]_voiceVars PROVE IInv'
<1> USE DEF VoiceprintsConstants, IInv, TypeOK, Voices, Covered, Own, Left
<1>1. ASSUME NEW p \in People, Enroll(p) PROVE IInv'
  <2>1. NextId \in Ids /\ person[NextId] = None
    BY <1>1, NextIdFree DEF Enroll
  <2> QED BY <1>1, <2>1 DEF Enroll
<1>2. ASSUME NEW p \in People, Promote(p) PROVE IInv'
  <2>1. NextId \in Ids /\ person[NextId] = None
    BY <1>2, NextIdFree DEF Promote
  <2> QED BY <1>2, <2>1 DEF Promote
<1>3. ASSUME NEW i \in Ids, Grant(i) PROVE IInv'
  BY <1>3 DEF Grant
<1>4. ASSUME NEW i \in Ids, Expire(i) PROVE IInv'
  BY <1>4 DEF Expire
<1>5. ASSUME NEW i \in Ids, Revoke(i) PROVE IInv'
  BY <1>5 DEF Revoke, Overtake, Remain, Writing
<1>6. ASSUME NEW i \in Ids, Delete(i) PROVE IInv'
  BY <1>6 DEF Delete, Overtake, Remain, Writing
<1>7. ASSUME NEW i \in Ids, UploadBegins(i) PROVE IInv'
  BY <1>7 DEF UploadBegins, rows, Exists, Allowed, HasConsent
<1>8. ASSUME NEW i \in Ids, UploadEnds(i) PROVE IInv'
  BY <1>8 DEF UploadEnds, rows, Remain, Exists
<1>9. ASSUME NEW i \in Ids, Matched(i) PROVE IInv'
  BY <1>9 DEF Matched, Exists
<1>10. ASSUME NEW i \in Ids, SpeakerMissing(i) PROVE IInv'
  BY <1>10 DEF SpeakerMissing, rows, Remain, Exists
<1>11. ASSUME NEW i \in Ids, NEW j \in Ids, Merge(i, j) PROVE IInv'
  BY <1>11 DEF Merge, Remain, Exists
<1>12. ASSUME NEW i \in Ids, NEW j \in Ids, Reassign(i, j) PROVE IInv'
  BY <1>12 DEF Reassign
<1>13. ASSUME PipelineStarts PROVE IInv'
  BY <1>13 DEF PipelineStarts, rows, Allowed, HasConsent
<1>14. ASSUME PipelineEnds PROVE IInv'
  BY <1>14 DEF PipelineEnds, rows, Swept, Allowed, HasConsent, Remain
<1>15. ASSUME Sweep PROVE IInv'
  BY <1>15 DEF Sweep, rows, Swept, Allowed, HasConsent, Remain
<1>16. ASSUME Restart PROVE IInv'
  BY <1>16 DEF Restart, rows, Swept, Allowed, HasConsent, Remain
<1>17. ASSUME UNCHANGED voiceVars PROVE IInv'
  BY <1>17 DEF voiceVars
<1> QED
  BY <1>1, <1>2, <1>3, <1>4, <1>5, <1>6, <1>7, <1>8, <1>9, <1>10, <1>11, <1>12,
     <1>13, <1>14, <1>15, <1>16, <1>17 DEF Next

\* Every variable has its type.
THEOREM TypeCorrect == VoiceprintsConstants => (Spec => []TypeOK)
<1> SUFFICES ASSUME VoiceprintsConstants PROVE Spec => []TypeOK
  OBVIOUS
<1>1. Init => IInv BY InitInv
<1>2. IInv /\ [Next]_voiceVars => IInv' BY NextInv
<1>3. IInv => TypeOK BY DEF IInv
<1> QED BY <1>1, <1>2, <1>3, PTL DEF Spec

\* Where consent is required, a voiceprint without it is one that somebody was
\* writing when consent or speaker went, or that was merged in (consent.py:48-57,
\* routes_speakers.py:94-123, pipeline.py:347).
THEOREM ConsentKept == VoiceprintsConstants => (Spec => []UnconsentedIsOvertaken)
<1> SUFFICES ASSUME VoiceprintsConstants PROVE Spec => []UnconsentedIsOvertaken
  OBVIOUS
<1>1. Init => IInv BY InitInv
<1>2. IInv /\ [Next]_voiceVars => IInv' BY NextInv
<1>3. IInv => UnconsentedIsOvertaken
  BY DEF IInv, Covered, Left, UnconsentedIsOvertaken
<1> QED BY <1>1, <1>2, <1>3, PTL DEF Spec

\* Nobody's voice is under another person's row, short of ids overtaken
\* (routes_speakers.py:173, pipeline.py:329-333).
THEOREM VoicesKeptApart == VoiceprintsConstants => (Spec => []PrintsAreOwn)
<1> SUFFICES ASSUME VoiceprintsConstants PROVE Spec => []PrintsAreOwn
  OBVIOUS
<1>1. Init => IInv BY InitInv
<1>2. IInv /\ [Next]_voiceVars => IInv' BY NextInv
<1>3. IInv => PrintsAreOwn
  BY DEF IInv, Own, PrintsAreOwn
<1> QED BY <1>1, <1>2, <1>3, PTL DEF Spec
================================================================================
