---------------------------- MODULE Reincarnation -----------------------------
(***************************************************************************)
(* The two reincarnation experiments (agent/backtest/reincarnation.py)     *)
(* over the survival season: the training window is lived several times,   *)
(* weights and the EMA learner carried from one time to the next, then the *)
(* held-out window once, with learning frozen.                             *)
(*                                                                         *)
(* run_reincarnation_export lives a fixed number of seasons of many lives; *)
(* run_groundhog_export lives seasons of one life until one survives.      *)
(* The advisor is an LLM: between two seasons it may add a delta, written  *)
(* here as lesson 0 of the season it follows.  Artifact, baselines and     *)
(* physics checks are computed from what is modelled and left out.         *)
(***************************************************************************)
EXTENDS SurvivalSeason

CONSTANTS
  Cut,        \* rows of the training window before ties are absorbed
  MaxSeasons, \* passes, or max_incarnations
  MaxLives,   \* lives of a season, except of an incarnation
  Designs     \* the experiments run: [name, learning, gods]

ASSUME ReincarnationAssumption ==
  /\ Cut \in 1..(Cardinality(Markets) - 1)
  /\ MaxSeasons \in Nat \ {0} /\ MaxLives \in Nat \ {0}
  /\ Designs \subseteq [name : {"passes", "groundhog"}, learning : BOOLEAN,
                        gods : BOOLEAN]

VARIABLES
  design,   \* the experiment run
  stage,    \* "training", "verdict" or "done"
  seed,     \* carry_seed.weights
  advised   \* history: seasons the advisor's delta followed

vars == <<allSeasonVars, design, stage, seed, advised>>

-----------------------------------------------------------------------------
(* The split *)

\* split_rows_by_time: ties with the last row are pulled into train.
Train == {m \in Markets : Entry(m) <= Entry(Ordered(Markets)[Cut])}

Holdout == Markets \ Train

Init ==
  /\ SeasonInit /\ Holdout # {}
  /\ design \in Designs
  /\ stage = "training" /\ seed = {} /\ advised = {}

-----------------------------------------------------------------------------
(* The experiment *)

SeasonRules ==
  [lives |-> IF design.name = "groundhog" THEN 1 ELSE MaxLives,
   learning |-> design.learning,
   tribute |-> design.gods, tithe |-> design.gods]

VerdictRules ==
  [lives |-> MaxLives, learning |-> FALSE, tribute |-> FALSE, tithe |-> FALSE]

StartSeason ==
  /\ stage = "training" /\ BeginSeason(Train, seed, SeasonRules)
  /\ UNCHANGED <<design, stage, seed, advised>>

\* The last season: the cap is reached, or an incarnation survived.
LastSeason ==
  season = MaxSeasons \/ (design.name = "groundhog" /\ step = "survived")

\* The boundary: the terminal weights are carried and, when another season
\* follows, the advisor may move them.
CarrySeed(advice) ==
  /\ stage = "training" /\ SeasonOver /\ step' = "idle"
  /\ advice => ~LastSeason
  /\ advised' = IF advice THEN advised \cup {season} ELSE advised
  /\ seed' = carry \cup IF advice THEN {<<season, 0>>} ELSE {}
  /\ stage' = IF LastSeason THEN "verdict" ELSE "training"
  /\ UNCHANGED <<timing, seasonVars, lifeVars, read, decided, learned, design>>

\* _run_frozen_holdout
StartVerdict ==
  /\ stage = "verdict" /\ BeginSeason(Holdout, seed, VerdictRules)
  /\ UNCHANGED <<design, stage, seed, advised>>

Conclude ==
  /\ stage = "verdict" /\ SeasonOver /\ stage' = "done"
  /\ UNCHANGED <<allSeasonVars, design, seed, advised>>

Next ==
  \/ LifeNext /\ UNCHANGED <<design, stage, seed, advised>>
  \/ StartSeason \/ StartVerdict \/ Conclude
  \/ \E b \in BOOLEAN : CarrySeed(b)

Spec == Init /\ [][Next]_vars

-----------------------------------------------------------------------------
(* Properties *)

SeasonRows == IF stage = "training" THEN Train ELSE Holdout

\* The season's decisions follow its rows in order, without gap or repetition.
EveryMarketOnce == step # "idle" => DecidedInOrder(SeasonRows)

Living == step \notin {"idle", "between"}

\* "The agent carries its EXPERIENCE" (reincarnation.py): whatever deaths lie
\* between, a living agent's weights hold every lesson learned so far and every
\* delta advised, and the EMA learner every lesson.
LessonsKept ==
  /\ inner = learned
  /\ Living => weights = learned \cup {<<s, 0>> : s \in advised}

\* The verdict is on markets nobody has seen: every lesson comes from the
\* training window, all of which is entered strictly earlier ("no look-ahead
\* leakage", split_rows_by_time), and the verdict itself teaches nothing.
HoldoutUnseen ==
  \A lesson \in weights, m \in Holdout :
    lesson[2] # 0 => Entry(lesson[2]) < Entry(m)

================================================================================
