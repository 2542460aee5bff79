---------------------------- MODULE AgentLifecycle ----------------------------
(***************************************************************************)
(* The life-state machine (contracts/AgentLifecycle.sol) with the two      *)
(* contracts it alone writes to: the append-only DecisionLog and the       *)
(* TombstoneNFT.  It reads breath and initialBreath from the energy        *)
(* controller, which moves on its own.                                     *)
(*                                                                         *)
(* A call that reverts anywhere, the nested mint() or append() included,   *)
(* is rolled back whole and is not a step; only a rolled-back death is     *)
(* remembered, in the history variable deathRolledBack.                    *)
(***************************************************************************)
EXTENDS Integers, Sequences

CONSTANTS
  Accounts,      \* accounts that may own or call the contract
  Receivers,     \* those that accept an ERC-721 (EOAs, hook implementers)
  None,          \* address(0)
  Logs, OwnLogs, \* DecisionLog deployments; those whose immutable agentLifecycle is us
  Nfts, OwnNfts, \* TombstoneNFT deployments; likewise
  Decisions,     \* decision records (signature hash, market, outcome)
  Epitaphs,      \* lastWords arguments
  BreathValues,  \* readings the energy controller may give
  UintMax,       \* largest uint256
  MaxDecisions   \* bound on recorded decisions

ASSUME LifecycleConstants ==
  /\ Receivers \subseteq Accounts
  /\ OwnLogs \subseteq Logs /\ OwnNfts \subseteq Nfts
  /\ None \notin Accounts \cup Logs \cup Nfts
  /\ UintMax \in Nat /\ MaxDecisions \in Nat
  /\ BreathValues \subseteq 0..UintMax /\ 0 \in BreathValues

VARIABLES
  owner, decisionLog, lifeState, lastWords, totalDecisions,
  tombstoneNFT, tombstoneTokenId,
  log,                   \* log[l]: DecisionLog.log of deployment l
  tombstones,            \* tombstones[f]: payloads minted by f; token ids are indices
  breath, initialBreath, \* energyController.breath() and initialBreath()
  deepest,               \* history: deepest stage any breath reading called for
  deathRolledBack        \* history: a death call was undone by a failing mint

lifeVars == <<lifeState, lastWords, totalDecisions, log, tombstones,
              tombstoneTokenId>>
wiringVars == <<owner, decisionLog, tombstoneNFT>>
energyVars == <<breath, initialBreath, deepest>>
vars == <<lifeVars, wiringVars, energyVars, deathRolledBack>>

-----------------------------------------------------------------------------
(* LifeState, in the order of the enum *)
Alive == 0
Desperate == 1
TerminalLucidity == 2
Dead == 3
LifeStates == Alive .. Dead

TerminalThresholdPct == 5
DesperateThresholdPct == 20

Causes == {"TradingLoss", "Starvation", "Attrition"}
Stones == [cause : Causes, afterglow : BOOLEAN, words : Epitaphs,
           breathAtDeath : BreathValues]

\* _classify: the deepest stage short of death that a reading calls for.
Classify(b, initial) ==
  IF initial = 0 THEN Alive
  ELSE IF b * 100 < initial * TerminalThresholdPct THEN TerminalLucidity
  ELSE IF b * 100 < initial * DesperateThresholdPct THEN Desperate
  ELSE Alive

\* The products in _classify are checked uint256 arithmetic; the last one is
\* reached only when the first comparison fails.
ClassifyFits(b, initial) ==
  initial # 0 =>
    /\ b * 100 <= UintMax
    /\ initial * TerminalThresholdPct <= UintMax
    /\ \/ b * 100 < initial * TerminalThresholdPct
       \/ initial * DesperateThresholdPct <= UintMax

Deeper(s, t) == IF t > s THEN t ELSE s

ProjectedLifeState == Deeper(lifeState, Classify(breath, initialBreath))

CauseFromPrevious(previous) ==
  CASE previous = TerminalLucidity -> "Starvation"
    [] previous = Desperate -> "Attrition"
    [] OTHER -> "TradingLoss"

\* TombstoneNFT.mint reverts unless we are its agentLifecycle and the
\* recipient, our owner, takes the token in _safeMint.
MintSucceeds == tombstoneNFT \in OwnNfts /\ owner \in Receivers

-----------------------------------------------------------------------------
Init ==
  /\ owner \in Accounts
  /\ decisionLog = None /\ tombstoneNFT = None
  /\ lifeState = Alive
  /\ lastWords = None
  /\ totalDecisions = 0
  /\ tombstoneTokenId = 0
  /\ log = [l \in Logs |-> <<>>]
  /\ tombstones = [f \in Nfts |-> <<>>]
  /\ breath = 0 /\ initialBreath = 0
  /\ deepest = Alive
  /\ deathRolledBack = FALSE

\* Mutant: the log can be wired again.
SetDecisionLogAgain(caller, l) ==
  /\ caller = owner
  /\ decisionLog' = l
  /\ UNCHANGED <<lifeVars, owner, tombstoneNFT, energyVars, deathRolledBack>>

SetDecisionLog(caller, l) ==
  /\ caller = owner
  /\ decisionLog = None
  /\ decisionLog' = l
  /\ UNCHANGED <<lifeVars, owner, tombstoneNFT, energyVars, deathRolledBack>>

\* One-shot, but allowed after death too.
SetTombstoneNFT(caller, f) ==
  /\ caller = owner
  /\ tombstoneNFT = None
  /\ tombstoneNFT' = f
  /\ UNCHANGED <<lifeVars, owner, decisionLog, energyVars, deathRolledBack>>

\* _maybeAdvanceLifeState reads the controller now, and only deepens.
AdvanceLifeState ==
  /\ ClassifyFits(breath, initialBreath)
  /\ lifeState' = ProjectedLifeState

RecordDecision(caller, d) ==
  /\ caller = owner
  /\ lifeState # Dead
  /\ totalDecisions < MaxDecisions
  /\ decisionLog # None
  /\ totalDecisions' = totalDecisions + 1
  /\ AdvanceLifeState
  /\ decisionLog \in OwnLogs
  /\ log' = [log EXCEPT ![decisionLog] = Append(@, d)]
  /\ UNCHANGED <<lastWords, tombstones, tombstoneTokenId, wiringVars,
                 energyVars, deathRolledBack>>

\* pokeLifeState: anyone may call.
PokeLifeState ==
  /\ lifeState # Dead
  /\ AdvanceLifeState
  /\ UNCHANGED <<lastWords, totalDecisions, log, tombstones, tombstoneTokenId,
                 wiringVars, energyVars, deathRolledBack>>

\* What declareDeath and die share: settle the death, then mint.
Bury(stone) ==
  /\ lifeState' = Dead
  /\ lastWords' = stone.words
  /\ IF tombstoneNFT = None
     THEN UNCHANGED <<tombstones, tombstoneTokenId>>
     ELSE /\ MintSucceeds
          /\ tombstones' =
               [tombstones EXCEPT ![tombstoneNFT] = Append(@, stone)]
          /\ tombstoneTokenId' = Len(tombstones[tombstoneNFT]) + 1
  /\ UNCHANGED <<totalDecisions, log, wiringVars, energyVars, deathRolledBack>>

DeclareDeath(caller, words) ==
  /\ caller = owner
  /\ lifeState # Dead
  /\ Bury([cause |-> CauseFromPrevious(lifeState),
           afterglow |-> lifeState = TerminalLucidity,
           words |-> words,
           breathAtDeath |-> breath])

\* Mutant: a dead agent with no breath can die again.
DieAgain(caller, cause, afterglow, words) ==
  /\ caller = owner
  /\ breath = 0
  /\ Bury([cause |-> cause, afterglow |-> afterglow, words |-> words,
           breathAtDeath |-> 0])

\* The off-chain agent fills the payload; the contract only checks breath.
Die(caller, cause, afterglow, words) ==
  /\ caller = owner
  /\ lifeState # Dead
  /\ breath = 0
  /\ Bury([cause |-> cause, afterglow |-> afterglow, words |-> words,
           breathAtDeath |-> 0])

\* declareDeath() calls mint() directly, with no try/catch: when the mint
\* reverts, so does the death.
DeathReverts(caller) ==
  /\ caller = owner
  /\ lifeState # Dead
  /\ tombstoneNFT # None
  /\ ~MintSucceeds
  /\ deathRolledBack' = TRUE
  /\ UNCHANGED <<lifeVars, wiringVars, energyVars>>

\* Works after death as before it.
SetOwner(caller, newOwner) ==
  /\ caller = owner
  /\ newOwner # None
  /\ owner' = newOwner
  /\ UNCHANGED <<lifeVars, decisionLog, tombstoneNFT, energyVars,
                 deathRolledBack>>

\* The energy controller sets both at once, then moves breath alone.
EnergyMoves(b, initial) ==
  /\ breath' = b
  /\ initialBreath' = initial
  /\ IF initialBreath = 0 THEN b = initial ELSE initial = initialBreath
  /\ deepest' = Deeper(deepest, Classify(b, initial))
  /\ UNCHANGED <<lifeVars, wiringVars, deathRolledBack>>

OwnerStep(caller) ==
  \/ \E l \in Logs : SetDecisionLog(caller, l)
  \/ \E f \in Nfts : SetTombstoneNFT(caller, f)
  \/ \E d \in Decisions : RecordDecision(caller, d)
  \/ \E w \in Epitaphs : DeclareDeath(caller, w)
  \/ \E c \in Causes, g \in BOOLEAN, w \in Epitaphs : Die(caller, c, g, w)
  \/ DeathReverts(caller)
  \/ \E a \in Accounts : SetOwner(caller, a)

Next ==
  \/ \E caller \in Accounts : OwnerStep(caller)
  \/ PokeLifeState
  \/ \E b, initial \in BreathValues : EnergyMoves(b, initial)

Spec == Init /\ [][Next]_vars

-----------------------------------------------------------------------------
(* Properties *)

\* Every state variable keeps the type its Solidity declaration gives it.
TypeOK ==
  /\ owner \in Accounts
  /\ decisionLog \in Logs \cup {None}
  /\ tombstoneNFT \in Nfts \cup {None}
  /\ lifeState \in LifeStates
  /\ lastWords \in Epitaphs \cup {None}
  /\ totalDecisions \in Nat
  /\ tombstoneTokenId \in Nat
  /\ log \in [Logs -> Seq(Decisions)]
  /\ tombstones \in [Nfts -> Seq(Stones)]
  /\ breath \in BreathValues /\ initialBreath \in BreathValues
  /\ deepest \in Alive .. TerminalLucidity
  /\ deathRolledBack \in BOOLEAN

\* recordDecision bumps its counter before the append to another contract:
\* whatever fails in between, the counter and the log it is wired to agree,
\* and nothing is ever written to a log that is not ours.
CounterMatchesLog ==
  /\ totalDecisions = IF decisionLog = None THEN 0 ELSE Len(log[decisionLog])
  /\ \A l \in Logs : l # decisionLog \/ l \notin OwnLogs => log[l] = <<>>

\* A tombstone exists only for a dead agent, there is at most one over all
\* deployments, the contract points at it, and it carries the last words.
AtMostOneTombstone ==
  /\ \A f \in Nfts :
       tombstones[f] # <<>> =>
         /\ lifeState = Dead
         /\ f = tombstoneNFT
         /\ Len(tombstones[f]) = 1 /\ tombstoneTokenId = 1
         /\ tombstones[f][1].words = lastWords
  /\ tombstoneTokenId # 0 =>
       tombstoneNFT # None /\ tombstones[tombstoneNFT] # <<>>

\* The stored stage is a ratchet behind the readings: it may lag them (it
\* moves only when somebody pokes it or records), but it never claims a
\* fall that no reading of breath ever called for.
StageWitnessed == lifeState # Dead => lifeState <= deepest

\* The fall is one-way and death is final: no stage regresses, and after
\* death the epitaph, the log, the counter and the tombstones are frozen
\* (only ownership and the unused wiring can still move).
DeathIsFinal ==
  [][/\ lifeState' >= lifeState
     /\ lifeState = Dead => UNCHANGED lifeVars]_vars

\* The abstract life, read off the contract's state.
Life == INSTANCE MortalLife WITH
          stage <- lifeState,
          stones <- IF tombstoneNFT = None THEN 0
                    ELSE Len(tombstones[tombstoneNFT])

\* The contract implements the abstract life: no resurrection, one death, at
\* most one tombstone and only in the step of the death, whatever the wiring,
\* the ownership and the energy controller do.
ImplementsMortalLife == Life!Spec

\* What the comments of declareDeath promise: a failing mint is surfaced and
\* "does not roll back the death itself".
DeathSurvivesMint == deathRolledBack => lifeState = Dead

=============================================================================
