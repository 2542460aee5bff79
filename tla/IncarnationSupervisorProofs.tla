---------------------- MODULE IncarnationSupervisorProofs ----------------------
(***************************************************************************)
(* Proofs about the start of a life, for any number of incarnations,       *)
(* promoted configurations, lessons and stops.                             *)
(***************************************************************************)
EXTENDS IncarnationSupervisor, TLAPS

USE SupervisorConstants DEF SupervisorConstants

\* The index of the process against the manifest on disk.
IndexFollows ==
  /\ pc \in {"reset", "resetSnapshot", "manifest", "dead"} => reincarnating
  /\ reincarnating =>
       /\ pc \in {"reset", "resetSnapshot", "claim", "archive",
                  "archiveStreams", "apply", "manifest"} =>
            \/ idx = manifest
            \/ idx = manifest + 1 /\ (manifest # -1 => deaths[manifest] > 0)
       /\ pc \in {"boot", "living"} => idx = manifest
       /\ pc = "dead" => idx = manifest /\ deaths[manifest] > 0

\* An adoption under way has its claim on disk, and builds on no weights.
AdoptionClaimed ==
  /\ pc \in {"archive", "archiveStreams", "apply"} =>
       consuming # 0 /\ carry = NoWeights
  /\ pc \in {"archiveStreams", "apply"} => snapshot = NoSnapshot /\ saved = {}
  /\ pc = "down" \/ (pc = "claim" /\ ~reincarnating) => carry = NoWeights

\* Left-over bets are on disk only while a claim waits to archive them.
GhostsClaimed ==
  openBets = "ghost" /\ ~unlinkFailed =>
    /\ consuming # 0
    /\ pc \in {"down", "reset", "claim", "archive", "archiveStreams"}
    /\ pc = "claim" => ~reincarnating

\* Weights that carry all that was adopted and all that was saved.
Complete(w) == w.config = promoted /\ saved \subseteq w.lessons

\* Whatever weights there are, on disk, carried or the loop's own, are
\* complete; without any there is nothing to remember.
NothingForgotten ==
  /\ snapshot # NoSnapshot => Complete(snapshot)
  /\ pc \in {"living", "dead"} => Complete(weights)
  /\ pc \in {"reset", "resetSnapshot", "claim", "manifest", "boot"}
       /\ carry # NoWeights => Complete(carry)
  /\ pc \in {"down", "reset", "resetSnapshot", "claim", "manifest", "boot"}
       /\ carry = NoWeights /\ snapshot = NoSnapshot
       => promoted = 0 /\ saved = {}
  /\ pc \in {"reset", "resetSnapshot"} /\ carry = NoWeights
       => snapshot = NoSnapshot
  /\ reincarnating /\ manifest = -1 => snapshot = NoSnapshot

\* The inductive invariant.
IInv ==
  /\ TypeOK
  /\ IndexFollows
  /\ AdoptionClaimed
  /\ GhostsClaimed
  /\ NothingForgotten

-----------------------------------------------------------------------------
\* The weights that the steps make.
LEMMA WeightFacts ==
  /\ DefaultWeights \in Weights
  /\ NoWeights \notin Weights
  /\ \A v \in 0..MaxConfigs : [config |-> v, lessons |-> {}] \in Weights
  /\ \A w \in Weights, n \in Lessons :
       [w EXCEPT !.lessons = @ \cup {n}] \in Weights
  /\ \A w \in Weights : w.lessons \subseteq Lessons
<1>1. \A v \in 0..MaxConfigs : [config |-> v, lessons |-> {}] \in Weights
  BY DEF Weights
<1>2. DefaultWeights \in Weights
  BY <1>1 DEF DefaultWeights
<1>3. NoWeights \notin Weights
  BY DEF NoWeights, Weights
<1>4. \A w \in Weights, n \in Lessons :
        [w EXCEPT !.lessons = @ \cup {n}] \in Weights
  BY DEF Weights, Lessons
<1>5. \A w \in Weights : w.lessons \subseteq Lessons
  BY DEF Weights
<1> QED
  BY <1>1, <1>2, <1>3, <1>4, <1>5

\* An empty disk: nothing is remembered, claimed or left over.
LEMMA InitEstablishes == Init => IInv
<1> SUFFICES ASSUME Init
             PROVE  IInv
  OBVIOUS
<1>1. TypeOK
  <2>1. deaths \in [Lives -> Nat]
    BY DEF Init
  <2>2. idx \in Lives /\ 0 \in 0..MaxConfigs /\ 0 \in 0..MaxLessons
    BY DEF Init, Lives
  <2>3. /\ {snapshot, carry} \subseteq Weights \cup {NoWeights}
        /\ weights \in Weights
    BY WeightFacts DEF Init, NoSnapshot
  <2>4. /\ {staged, consuming, applied, configs, promoted} \subseteq 0..MaxConfigs
        /\ learnt \in 0..MaxLessons /\ saved \subseteq Lessons
        /\ stops \in 0..MaxStops /\ idx \in 0..MaxLives
    BY DEF Init
  <2>5. /\ reincarnating \in Modes /\ manifest = -1 /\ pc = "down"
        /\ openBets = "none" /\ unlinkFailed = FALSE
    BY DEF Init
  <2> QED
    BY <2>1, <2>2, <2>3, <2>4, <2>5 DEF TypeOK
<1>2. IndexFollows /\ AdoptionClaimed /\ GhostsClaimed
  BY DEF Init, IndexFollows, AdoptionClaimed, GhostsClaimed
<1>3. NothingForgotten
  BY DEF Init, NothingForgotten
<1> QED
  BY <1>1, <1>2, <1>3 DEF IInv

\* Every step keeps the shapes.
LEMMA TypePreserved ==
  ASSUME TypeOK, [Next]_vars
  PROVE  TypeOK'
<1> USE WeightFacts DEF TypeOK, Lives, NoSnapshot,
           diskVars, configVars, historyVars
<1>1. CASE Configure
  BY <1>1 DEF Configure
<1>2. CASE Start
  <2>1. idx' \in 0..(MaxLives - 1) /\ carry' \in Weights \cup {NoWeights}
    BY <1>2 DEF Start
  <2>2. pc' \in {"reset", "claim"}
    BY <1>2 DEF Start
  <2> QED
    BY <1>2, <2>1, <2>2 DEF Start
<1>3. ASSUME NEW ok \in BOOLEAN, ResetStreams(ok)
      PROVE  TypeOK'
  BY <1>3 DEF ResetStreams, LeftOver
<1>4. ASSUME NEW ok \in BOOLEAN, ResetSnapshot(ok)
      PROVE  TypeOK'
  BY <1>4 DEF ResetSnapshot
<1>5. CASE Claim
  BY <1>5 DEF Claim, Built
<1>6. CASE ArchiveSnapshot
  BY <1>6 DEF ArchiveSnapshot, LeftOver
<1>7. CASE ArchiveStreams
  BY <1>7 DEF ArchiveStreams
<1>8. CASE Apply
  BY <1>8 DEF Apply, Built
<1>9. CASE WriteManifest
  BY <1>9 DEF WriteManifest
<1>10. CASE Boot
  BY <1>10 DEF Boot
<1>11. CASE PlaceBet
  BY <1>11 DEF PlaceBet
<1>12. CASE Learn
  <2>1. learnt + 1 \in Lessons /\ learnt' \in 0..MaxLessons
    BY <1>12 DEF Learn, Lessons
  <2>2. weights' \in Weights
    BY <1>12, <2>1 DEF Learn
  <2> QED
    BY <1>12, <2>1, <2>2 DEF Learn
<1>13. CASE WriteSnapshot
  BY <1>13 DEF WriteSnapshot, SaveSnapshot
<1>14. ASSUME NEW ok \in BOOLEAN, Die(ok)
      PROVE  TypeOK'
  <2>1. /\ deaths' \in [Lives -> Nat] /\ openBets' = "none"
        /\ pc' \in {"dead", "done"}
    BY <1>14 DEF Die
  <2>2. snapshot' \in {weights, snapshot} /\ saved' \subseteq Lessons
    BY <1>14 DEF Die, SaveSnapshot, Lessons, Weights
  <2> QED BY <1>14, <2>1, <2>2 DEF Die
<1>15. CASE Respawn
  BY <1>15 DEF Respawn
<1>16. CASE Stop
  BY <1>16 DEF Stop
<1>17. CASE UNCHANGED vars
  BY <1>17 DEF vars, diskVars, configVars, historyVars
<1> QED
  BY <1>1, <1>2, <1>3, <1>4, <1>5, <1>6, <1>7, <1>8, <1>9,
     <1>10, <1>11, <1>12, <1>13, <1>14, <1>15, <1>16, <1>17 DEF Next

\* Every step keeps the index next to the manifest.
LEMMA IndexPreserved ==
  ASSUME TypeOK, IndexFollows, [Next]_vars
  PROVE  IndexFollows'
<1> USE DEF TypeOK, IndexFollows, Lives, diskVars, configVars, historyVars
<1>1. CASE Configure
  BY <1>1 DEF Configure
<1>2. CASE Start
  BY <1>2 DEF Start
<1>3. ASSUME NEW ok \in BOOLEAN, ResetStreams(ok)
      PROVE  IndexFollows'
  BY <1>3 DEF ResetStreams, LeftOver
<1>4. ASSUME NEW ok \in BOOLEAN, ResetSnapshot(ok)
      PROVE  IndexFollows'
  BY <1>4 DEF ResetSnapshot
<1>5. CASE Claim
  BY <1>5 DEF Claim, Built
<1>6. CASE ArchiveSnapshot
  BY <1>6 DEF ArchiveSnapshot, LeftOver
<1>7. CASE ArchiveStreams
  BY <1>7 DEF ArchiveStreams
<1>8. CASE Apply
  BY <1>8 DEF Apply, Built
<1>9. CASE WriteManifest
  BY <1>9 DEF WriteManifest
<1>10. CASE Boot
  BY <1>10 DEF Boot
<1>11. CASE PlaceBet
  BY <1>11 DEF PlaceBet
<1>12. CASE Learn
  BY <1>12 DEF Learn, Lessons
<1>13. CASE WriteSnapshot
  BY <1>13 DEF WriteSnapshot, SaveSnapshot
<1>14. ASSUME NEW ok \in BOOLEAN, Die(ok)
      PROVE  IndexFollows'
  BY <1>14 DEF Die, SaveSnapshot, Lessons
<1>15. CASE Respawn
  BY <1>15 DEF Respawn
<1>16. CASE Stop
  BY <1>16 DEF Stop
<1>17. CASE UNCHANGED vars
  BY <1>17 DEF vars, diskVars, configVars, historyVars
<1> QED
  BY <1>1, <1>2, <1>3, <1>4, <1>5, <1>6, <1>7, <1>8, <1>9,
     <1>10, <1>11, <1>12, <1>13, <1>14, <1>15, <1>16, <1>17 DEF Next

\* Every step keeps the claim of an adoption.
LEMMA AdoptionPreserved ==
  ASSUME TypeOK, IndexFollows, AdoptionClaimed, [Next]_vars
  PROVE  AdoptionClaimed'
<1> USE DEF TypeOK, IndexFollows, AdoptionClaimed, NoSnapshot, diskVars, configVars, historyVars
<1>1. CASE Configure
  BY <1>1 DEF Configure
<1>2. CASE Start
  BY <1>2 DEF Start
<1>3. ASSUME NEW ok \in BOOLEAN, ResetStreams(ok)
      PROVE  AdoptionClaimed'
  BY <1>3 DEF ResetStreams, LeftOver
<1>4. ASSUME NEW ok \in BOOLEAN, ResetSnapshot(ok)
      PROVE  AdoptionClaimed'
  BY <1>4 DEF ResetSnapshot
<1>5. CASE Claim
  BY <1>5 DEF Claim, Built
<1>6. CASE ArchiveSnapshot
  BY <1>6 DEF ArchiveSnapshot, LeftOver
<1>7. CASE ArchiveStreams
  BY <1>7 DEF ArchiveStreams
<1>8. CASE Apply
  BY <1>8 DEF Apply, Built
<1>9. CASE WriteManifest
  BY <1>9 DEF WriteManifest
<1>10. CASE Boot
  BY <1>10 DEF Boot
<1>11. CASE PlaceBet
  BY <1>11 DEF PlaceBet
<1>12. CASE Learn
  BY <1>12 DEF Learn, Lessons
<1>13. CASE WriteSnapshot
  BY <1>13 DEF WriteSnapshot, SaveSnapshot
<1>14. ASSUME NEW ok \in BOOLEAN, Die(ok)
      PROVE  AdoptionClaimed'
  BY <1>14 DEF Die, SaveSnapshot, Lessons
<1>15. CASE Respawn
  BY <1>15 DEF Respawn
<1>16. CASE Stop
  BY <1>16 DEF Stop
<1>17. CASE UNCHANGED vars
  BY <1>17 DEF vars, diskVars, configVars, historyVars
<1> QED
  BY <1>1, <1>2, <1>3, <1>4, <1>5, <1>6, <1>7, <1>8, <1>9,
     <1>10, <1>11, <1>12, <1>13, <1>14, <1>15, <1>16, <1>17 DEF Next

\* No step leaves ghosts without a claim.
LEMMA GhostsPreserved ==
  ASSUME TypeOK, AdoptionClaimed, GhostsClaimed, [Next]_vars
  PROVE  GhostsClaimed'
<1> USE DEF TypeOK, AdoptionClaimed, GhostsClaimed, diskVars, configVars, historyVars
<1>1. CASE Configure
  BY <1>1 DEF Configure
<1>2. CASE Start
  BY <1>2 DEF Start
<1>3. ASSUME NEW ok \in BOOLEAN, ResetStreams(ok)
      PROVE  GhostsClaimed'
  BY <1>3 DEF ResetStreams, LeftOver
<1>4. ASSUME NEW ok \in BOOLEAN, ResetSnapshot(ok)
      PROVE  GhostsClaimed'
  BY <1>4 DEF ResetSnapshot
<1>5. CASE Claim
  BY <1>5 DEF Claim, Built
<1>6. CASE ArchiveSnapshot
  BY <1>6 DEF ArchiveSnapshot, LeftOver
<1>7. CASE ArchiveStreams
  BY <1>7 DEF ArchiveStreams
<1>8. CASE Apply
  BY <1>8 DEF Apply, Built
<1>9. CASE WriteManifest
  BY <1>9 DEF WriteManifest
<1>10. CASE Boot
  BY <1>10 DEF Boot
<1>11. CASE PlaceBet
  BY <1>11 DEF PlaceBet
<1>12. CASE Learn
  BY <1>12 DEF Learn, Lessons
<1>13. CASE WriteSnapshot
  BY <1>13 DEF WriteSnapshot, SaveSnapshot
<1>14. ASSUME NEW ok \in BOOLEAN, Die(ok)
      PROVE  GhostsClaimed'
  BY <1>14 DEF Die, SaveSnapshot, Lessons
<1>15. CASE Respawn
  BY <1>15 DEF Respawn
<1>16. CASE Stop
  BY <1>16 DEF Stop
<1>17. CASE UNCHANGED vars
  BY <1>17 DEF vars, diskVars, configVars, historyVars
<1> QED
  BY <1>1, <1>2, <1>3, <1>4, <1>5, <1>6, <1>7, <1>8, <1>9,
     <1>10, <1>11, <1>12, <1>13, <1>14, <1>15, <1>16, <1>17 DEF Next

\* No step forgets what there is to remember.
LEMMA MemoryPreserved ==
  ASSUME IInv, [Next]_vars
  PROVE  NothingForgotten'
<1> USE WeightFacts
    DEF IInv, TypeOK, IndexFollows, AdoptionClaimed, NothingForgotten,
        Complete, Lives, NoSnapshot, diskVars, configVars, historyVars
<1>1. CASE Configure
  BY <1>1 DEF Configure
<1>2. CASE Start
  BY <1>2 DEF Start
<1>3. ASSUME NEW ok \in BOOLEAN, ResetStreams(ok)
      PROVE  NothingForgotten'
  BY <1>3 DEF ResetStreams, LeftOver
<1>4. ASSUME NEW ok \in BOOLEAN, ResetSnapshot(ok)
      PROVE  NothingForgotten'
  BY <1>4 DEF ResetSnapshot
<1>5. CASE Claim
  BY <1>5 DEF Claim, Built
<1>6. CASE ArchiveSnapshot
  BY <1>6 DEF ArchiveSnapshot, LeftOver
<1>7. CASE ArchiveStreams
  BY <1>7 DEF ArchiveStreams
<1>8. CASE Apply
  BY <1>8 DEF Apply, Built
<1>9. CASE WriteManifest
  BY <1>9 DEF WriteManifest
<1>10. CASE Boot
  <2>1. CASE snapshot # NoSnapshot
    BY <1>10, <2>1 DEF Boot
  <2>2. CASE snapshot = NoSnapshot /\ carry # NoWeights
    BY <1>10, <2>2 DEF Boot
  <2>3. CASE snapshot = NoSnapshot /\ carry = NoWeights
    <3>1. promoted = 0 /\ saved = {} /\ weights' = DefaultWeights
      BY <1>10, <2>3 DEF Boot
    <3> QED
      BY <1>10, <2>3, <3>1 DEF Boot, DefaultWeights
  <2> QED
    BY <2>1, <2>2, <2>3
<1>11. CASE PlaceBet
  BY <1>11 DEF PlaceBet
<1>12. CASE Learn
  BY <1>12 DEF Learn, Lessons
<1>13. CASE WriteSnapshot
  BY <1>13 DEF WriteSnapshot, SaveSnapshot
<1>14. ASSUME NEW ok \in BOOLEAN, Die(ok)
      PROVE  NothingForgotten'
  BY <1>14 DEF Die, SaveSnapshot, Lessons
<1>15. CASE Respawn
  BY <1>15 DEF Respawn
<1>16. CASE Stop
  BY <1>16 DEF Stop
<1>17. CASE UNCHANGED vars
  BY <1>17 DEF vars, diskVars, configVars, historyVars
<1> QED
  BY <1>1, <1>2, <1>3, <1>4, <1>5, <1>6, <1>7, <1>8, <1>9,
     <1>10, <1>11, <1>12, <1>13, <1>14, <1>15, <1>16, <1>17 DEF Next

\* The invariant holds of every reachable state.
LEMMA Invariance == Spec => []IInv
<1>1. IInv /\ [Next]_vars => IInv'
  BY TypePreserved, IndexPreserved, AdoptionPreserved, GhostsPreserved,
     MemoryPreserved DEF IInv
<1> QED
  BY InitEstablishes, <1>1, PTL DEF Spec

-----------------------------------------------------------------------------
(* Theorems *)

\* Files, memory and tallies keep their shape, and no life is begun beyond the
\* last one allowed.
THEOREM TypeCorrect == Spec => []TypeOK
<1>1. IInv => TypeOK
  BY DEF IInv
<1> QED
  BY <1>1, Invariance, PTL

\* Wherever a process stops, in the middle of an archive included, no life
\* takes over the open bets of the one before, unless an unlink failed.
THEOREM CleanStart == Spec => []StartsClean
<1>1. IInv => StartsClean
  BY DEF IInv, GhostsClaimed, StartsClean
<1> QED
  BY <1>1, Invariance, PTL

\* A life runs under the configuration adopted last.
THEOREM Promotion == Spec => []PromotionLands
<1>1. IInv => PromotionLands
  BY DEF IInv, NothingForgotten, Complete, PromotionLands
<1> QED
  BY <1>1, Invariance, PTL

\* What reached the disk is known to every later life, unless the process
\* stopped while no snapshot existed.
THEOREM Memory == Spec => []LessonsKept
<1>1. IInv => LessonsKept
  BY DEF IInv, NothingForgotten, Complete, LessonsKept
<1> QED
  BY <1>1, Invariance, PTL

\* The manifest and the deaths on disk are a lineage: the manifest moves by one,
\* and only past a life that has died.
THEOREM Refinement == Spec => ImplementsLineage
<1> DEFINE dead == {i \in Lives : reincarnating /\ deaths[i] > 0}
<1>1. Init => L!Init
  BY DEF Init, L!Init, Lives
<1>2. IInv /\ [Next]_vars => [L!Next]_<<manifest, dead>>
  <2> SUFFICES ASSUME IInv, [Next]_vars
               PROVE  [L!Next]_<<manifest, dead>>
    OBVIOUS
  <2> USE DEF IInv, TypeOK, IndexFollows, Lives
  <2>1. CASE WriteManifest
    <3>1. dead' = dead
      BY <2>1 DEF WriteManifest, historyVars
    <3>2. CASE ~reincarnating
      BY <2>1, <3>2 DEF WriteManifest
    <3>3. CASE reincarnating /\ idx # manifest
      <4>1. manifest = -1 \/ manifest \in dead
        BY <2>1, <3>3 DEF WriteManifest
      <4>2. manifest' = manifest + 1
        BY <2>1, <3>3 DEF WriteManifest
      <4> QED
        BY <3>1, <4>1, <4>2 DEF L!Next, L!Begin
    <3>4. CASE idx = manifest
      BY <2>1, <3>1, <3>4 DEF WriteManifest
    <3> QED
      BY <3>2, <3>3, <3>4
  <2>2. ASSUME NEW ok \in BOOLEAN, Die(ok)
        PROVE  [L!Next]_<<manifest, dead>>
    <3>1. manifest' = manifest /\ reincarnating' = reincarnating
      BY <2>2 DEF Die
    <3>2. CASE ~reincarnating
      BY <3>1, <3>2
    <3>3. CASE reincarnating
      <4>1. manifest = idx /\ idx \in Lives
        BY <2>2, <3>3 DEF Die
      <4>2. dead' = dead \cup {manifest}
        BY <2>2, <3>3, <4>1 DEF Die
      <4> QED
        BY <3>1, <4>1, <4>2 DEF L!Next, L!Die
    <3> QED
      BY <3>2, <3>3
  <2>3. CASE UNCHANGED <<reincarnating, manifest, deaths>>
    BY <2>3
  <2> QED
    BY <2>1, <2>2, <2>3
    DEF Next, Configure, Start, ResetStreams, ResetSnapshot, Claim,
        ArchiveSnapshot, ArchiveStreams, Apply, Boot, PlaceBet, Learn,
        WriteSnapshot, Respawn, Stop, vars, diskVars, configVars, historyVars
<1> QED
  BY <1>1, <1>2, Invariance, PTL DEF Spec, ImplementsLineage, L!Spec

=============================================================================
