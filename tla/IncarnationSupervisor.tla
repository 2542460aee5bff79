------------------------- MODULE IncarnationSupervisor -------------------------
(***************************************************************************)
(* The start of a life: the reincarnation supervisor                       *)
(* (agent/runtime/incarnation_supervisor.py), which resets the streams of  *)
(* the life before, builds a loop and writes the manifest, and the loop    *)
(* builder of agent/server/main.py, which adopts a promoted configuration  *)
(* by claiming its file, archiving the life on disk and renaming the file. *)
(* Without reincarnation a start is the builder alone.                     *)
(*                                                                         *)
(* Each action is what happens between two writes to disk, since the       *)
(* process may stop between any two.  The life itself is abstract: it bets,*)
(* learns, saves a snapshot and dies, in any order (SandboxLife has it in  *)
(* detail).                                                                *)
(***************************************************************************)
EXTENDS Integers, FiniteSets, FiniteSetsExt

CONSTANTS
  Modes,                             \* may the process reincarnate?
  MaxLives,                          \* max_incarnations
  MaxConfigs, MaxLessons, MaxStops   \* bounds

ASSUME SupervisorConstants ==
  /\ Modes \subseteq BOOLEAN
  /\ MaxLives \in Nat \ {0}
  /\ {MaxConfigs, MaxLessons, MaxStops} \subseteq Nat

VARIABLES
  reincarnating,
  \* on disk
  manifest,         \* its incarnation index, -1 without a manifest
  openBets,         \* of whose life the bet stream has open rows
  snapshot,
  staged, consuming, applied,  \* version of the config under each name, 0 if none
  \* in the process
  pc, idx,
  carry,            \* the weights handed to the loop that is built
  weights,          \* the loop's own
  \* history
  configs,          \* versions the operator has promoted
  learnt,           \* lessons drawn by all lives
  saved,            \* lessons that reached a snapshot, see Stop
  promoted,         \* version adopted, see Stop
  deaths, stops, unlinkFailed

diskVars == <<manifest, openBets, snapshot>>
configVars == <<staged, consuming, applied>>
historyVars == <<configs, learnt, saved, promoted, deaths, stops, unlinkFailed>>
vars == <<reincarnating, diskVars, configVars, pc, idx, carry, weights,
          historyVars>>

Lives == 0..(MaxLives - 1)
Lessons == 1..MaxLessons
Weights == [config : 0..MaxConfigs, lessons : SUBSET Lessons]
NoWeights == [config |-> -1, lessons |-> {}]
DefaultWeights == [config |-> 0, lessons |-> {}]

\* Of a snapshot the weights are kept.
NoSnapshot == NoWeights

\* The open rows left behind when another life is about to begin.
LeftOver == IF openBets = "own" THEN "ghost" ELSE openBets

\* What follows the construction of a loop.
Built == IF reincarnating THEN "manifest" ELSE "boot"

-----------------------------------------------------------------------------
Init ==
  /\ reincarnating \in Modes
  /\ manifest = -1 /\ openBets = "none" /\ snapshot = NoSnapshot
  /\ staged = 0 /\ consuming = 0 /\ applied = 0
  /\ pc = "down" /\ idx = 0 /\ carry = NoWeights /\ weights = DefaultWeights
  /\ configs = 0 /\ learnt = 0 /\ saved = {} /\ promoted = 0
  /\ deaths = [i \in Lives |-> 0] /\ stops = 0 /\ unlinkFailed = FALSE

\* PROMOTE: the operator stages a configuration, at any time.
Configure ==
  /\ configs < MaxConfigs
  /\ configs' = configs + 1
  /\ staged' = configs + 1
  /\ UNCHANGED <<reincarnating, diskVars, consuming, applied, pc, idx, carry,
                 weights, learnt, saved, promoted, deaths, stops, unlinkFailed>>

\* Mutant: the manifest names the last life that finished.
StartAfterManifest ==
  /\ pc = "down"
  /\ IF reincarnating
     THEN /\ pc' = IF manifest + 1 < MaxLives THEN "reset" ELSE "done"
          /\ idx' = IF manifest + 1 < MaxLives THEN manifest + 1 ELSE manifest
          /\ carry' = IF manifest = -1 THEN NoWeights ELSE snapshot
     ELSE pc' = "claim" /\ UNCHANGED <<idx, carry>>
  /\ UNCHANGED <<reincarnating, diskVars, configVars, weights, historyVars>>

\* Mutant: the snapshot is not read before the reset.
StartForgetful ==
  /\ pc = "down"
  /\ IF reincarnating
     THEN /\ pc' = "reset"
          /\ idx' = IF manifest = -1 THEN 0 ELSE manifest
          /\ UNCHANGED carry
     ELSE pc' = "claim" /\ UNCHANGED <<idx, carry>>
  /\ UNCHANGED <<reincarnating, diskVars, configVars, weights, historyVars>>

\* The lineage resumes at the manifest's index, with the weights of the
\* snapshot, if any.
Start ==
  /\ pc = "down"
  /\ IF reincarnating
     THEN /\ pc' = "reset"
          /\ idx' = IF manifest = -1 THEN 0 ELSE manifest
          /\ carry' = IF manifest = -1 THEN NoWeights ELSE snapshot
     ELSE pc' = "claim" /\ UNCHANGED <<idx, carry>>
  /\ UNCHANGED <<reincarnating, diskVars, configVars, weights, historyVars>>

-----------------------------------------------------------------------------
(* Reset of the life before: the streams, the snapshot last.  An unlink     *)
(* that fails is a warning.                                                 *)

ResetStreams(ok) ==
  /\ pc = "reset" /\ pc' = "resetSnapshot"
  /\ openBets' = IF ok THEN "none" ELSE LeftOver
  /\ unlinkFailed' = (unlinkFailed \/ ~ok)
  /\ UNCHANGED <<reincarnating, manifest, snapshot, configVars, idx, carry,
                 weights, configs, learnt, saved, promoted, deaths, stops>>

ResetSnapshot(ok) ==
  /\ pc = "resetSnapshot" /\ pc' = "claim"
  /\ snapshot' = IF ok THEN NoSnapshot ELSE snapshot
  /\ unlinkFailed' = (unlinkFailed \/ ~ok)
  /\ UNCHANGED <<reincarnating, manifest, openBets, configVars, idx, carry,
                 weights, configs, learnt, saved, promoted, deaths, stops>>

-----------------------------------------------------------------------------
(* Adoption of a promoted configuration, when no weights are carried        *)

\* Mutant: the life on disk is left where it is.
ClaimWithoutArchive ==
  /\ pc = "claim"
  /\ IF carry = NoWeights /\ (staged # 0 \/ consuming # 0)
     THEN /\ pc' = "apply"
          /\ consuming' = IF consuming # 0 THEN consuming ELSE staged
          /\ staged' = IF consuming # 0 THEN staged ELSE 0
     ELSE pc' = Built /\ UNCHANGED <<staged, consuming>>
  /\ UNCHANGED <<reincarnating, diskVars, applied, idx, carry, weights,
                 historyVars>>

\* A claim left by a crash comes first; a staged file waits for a later start.
Claim ==
  /\ pc = "claim"
  /\ IF carry = NoWeights /\ (staged # 0 \/ consuming # 0)
     THEN /\ pc' = "archive"
          /\ consuming' = IF consuming # 0 THEN consuming ELSE staged
          /\ staged' = IF consuming # 0 THEN staged ELSE 0
     ELSE pc' = Built /\ UNCHANGED <<staged, consuming>>
  /\ UNCHANGED <<reincarnating, diskVars, applied, idx, carry, weights,
                 historyVars>>

\* From here on the life on disk is over, and what it learnt given up.
ArchiveSnapshot ==
  /\ pc = "archive" /\ pc' = "archiveStreams"
  /\ snapshot' = NoSnapshot
  /\ openBets' = LeftOver
  /\ saved' = {}
  /\ UNCHANGED <<reincarnating, manifest, configVars, idx, carry, weights,
                 configs, learnt, promoted, deaths, stops, unlinkFailed>>

ArchiveStreams ==
  /\ pc = "archiveStreams" /\ pc' = "apply"
  /\ openBets' = "none"
  /\ UNCHANGED <<reincarnating, manifest, snapshot, configVars, idx, carry,
                 weights, historyVars>>

Apply ==
  /\ pc = "apply" /\ pc' = Built
  /\ applied' = consuming /\ consuming' = 0
  /\ carry' = [config |-> consuming, lessons |-> {}]
  /\ promoted' = consuming
  /\ UNCHANGED <<reincarnating, diskVars, staged, idx, weights, configs, learnt,
                 saved, deaths, stops, unlinkFailed>>

-----------------------------------------------------------------------------
(* A life *)

WriteManifest ==
  /\ pc = "manifest" /\ pc' = "boot"
  /\ manifest' = idx
  /\ UNCHANGED <<reincarnating, openBets, snapshot, configVars, idx, carry,
                 weights, historyVars>>

\* The loop rebuilds itself: a snapshot on disk prevails over what it was
\* built with.
Boot ==
  /\ pc = "boot" /\ pc' = "living"
  /\ weights' = CASE snapshot # NoSnapshot -> snapshot
                  [] snapshot = NoSnapshot /\ carry # NoWeights -> carry
                  [] OTHER -> DefaultWeights
  /\ UNCHANGED <<reincarnating, diskVars, configVars, idx, carry, historyVars>>

PlaceBet ==
  /\ pc = "living" /\ openBets = "none"
  /\ openBets' = "own"
  /\ UNCHANGED <<reincarnating, manifest, snapshot, configVars, pc, idx, carry,
                 weights, historyVars>>

Learn ==
  /\ pc = "living" /\ learnt < MaxLessons
  /\ learnt' = learnt + 1
  /\ weights' = [weights EXCEPT !.lessons = @ \cup {learnt + 1}]
  /\ UNCHANGED <<reincarnating, diskVars, configVars, pc, idx, carry, configs,
                 saved, promoted, deaths, stops, unlinkFailed>>

SaveSnapshot ==
  /\ snapshot' = weights
  /\ saved' = saved \cup weights.lessons

WriteSnapshot ==
  /\ pc = "living" /\ SaveSnapshot
  /\ UNCHANGED <<reincarnating, manifest, openBets, configVars, pc, idx, carry,
                 weights, configs, learnt, promoted, deaths, stops, unlinkFailed>>

\* Death closes the open bets; its snapshot may fail to be written.
Die(ok) ==
  /\ pc = "living"
  /\ pc' = IF reincarnating THEN "dead" ELSE "done"
  /\ openBets' = "none"
  /\ deaths' = [deaths EXCEPT ![idx] = @ + 1]
  /\ IF ok THEN SaveSnapshot ELSE UNCHANGED <<snapshot, saved>>
  /\ UNCHANGED <<reincarnating, manifest, configVars, idx, carry, weights,
                 configs, learnt, promoted, stops, unlinkFailed>>

\* The next life, with the weights of the dead one.
Respawn ==
  /\ pc = "dead"
  /\ carry' = weights
  /\ idx' = idx + 1
  /\ pc' = IF idx + 1 < MaxLives THEN "reset" ELSE "done"
  /\ UNCHANGED <<reincarnating, diskVars, configVars, weights, historyVars>>

\* A crash, an exception or the operator's stop, at any point (after the last
\* death, the run that has ended making room for another).  Memory is gone:
\* without a snapshot nothing brings back what it held.
Stop ==
  /\ pc # "down" /\ stops < MaxStops
  /\ stops' = stops + 1
  /\ pc' = "down" /\ idx' = 0 /\ carry' = NoWeights /\ weights' = DefaultWeights
  /\ IF snapshot = NoSnapshot THEN saved' = {} /\ promoted' = 0
                              ELSE UNCHANGED <<saved, promoted>>
  /\ UNCHANGED <<reincarnating, diskVars, configVars, configs, learnt, deaths,
                 unlinkFailed>>

-----------------------------------------------------------------------------
Next ==
  \/ Configure \/ Start
  \/ \E ok \in BOOLEAN : ResetStreams(ok) \/ ResetSnapshot(ok)
  \/ Claim \/ ArchiveSnapshot \/ ArchiveStreams \/ Apply
  \/ WriteManifest \/ Boot
  \/ PlaceBet \/ Learn \/ WriteSnapshot
  \/ \E ok \in BOOLEAN : Die(ok)
  \/ Respawn \/ Stop

Spec == Init /\ [][Next]_vars

-----------------------------------------------------------------------------
(* Properties *)

\* Files, memory and tallies keep their shape; no life is begun beyond the
\* last.
TypeOK ==
  /\ reincarnating \in Modes
  /\ manifest \in Lives \cup {-1}
  /\ openBets \in {"none", "own", "ghost"}
  /\ {staged, consuming, applied, configs, promoted} \subseteq 0..MaxConfigs
  /\ pc \in {"down", "reset", "resetSnapshot", "claim", "archive",
             "archiveStreams", "apply", "manifest", "boot", "living", "dead",
             "done"}
  /\ idx \in 0..MaxLives /\ (pc # "done" => idx \in Lives)
  /\ {snapshot, carry} \subseteq Weights \cup {NoWeights} /\ weights \in Weights
  /\ learnt \in 0..MaxLessons /\ saved \subseteq Lessons
  /\ deaths \in [Lives -> Nat] /\ stops \in 0..MaxStops
  /\ unlinkFailed \in BOOLEAN

\* A life starts clean: unless an unlink failed, no open bet of the life before
\* is taken over, wherever an earlier process stopped, in the middle of an
\* archive included.
StartsClean == pc = "living" /\ ~unlinkFailed => openBets # "ghost"

\* A life runs under the configuration adopted last, whatever snapshot was on
\* disk when it was promoted and wherever the adoption was cut; only a stop
\* before the first snapshot loses it.
PromotionLands == pc = "living" => weights.config = promoted

\* A lesson that reached the disk is never unlearnt by a death, a reset or a
\* restart, unless the process stops while no snapshot exists.
LessonsKept == pc = "living" => saved \subseteq weights.lessons

\* The lineage on disk meets its abstract specification: see Lineage.
L == INSTANCE Lineage WITH
       life <- manifest,
       dead <- {i \in Lives : reincarnating /\ deaths[i] > 0}
ImplementsLineage == L!Spec

\* What the reset says of itself: "Safe to reset here -- called between lives,
\* after the dead life returned + finalized its tombstone".
ResetBetweenLives == pc = "reset" => openBets = "none"

=============================================================================
