----------------------------- MODULE LaunchScripts -----------------------------
(***************************************************************************)
(* The energy controller and the phase manager driven through their phases *)
(* by the operator's Foundry scripts (script/AdvanceToApprenticeship,      *)
(* AdvanceToAdulthood, RenouncePhase3MutableRoles).                        *)
(*                                                                         *)
(* Foundry first runs a script against a local copy of the chain: its      *)
(* pre-checks, its calls and its post-checks must all pass there.  Only    *)
(* then are the calls broadcast, as separate transactions, which land in   *)
(* order; the rest may be lost.  The post-checks are not repeated.         *)
(*                                                                         *)
(* Meanwhile the agent watches its pressure and asks for Desperate Mode    *)
(* (run_pressure_check in agent/core/agent.py).                            *)
(***************************************************************************)
EXTENDS Integers, Sequences

CONSTANTS Accounts, Operator, Signers, Manager, None, Nonces, Amounts, UintMax,
          Cycles, MinCycles, Retries

ASSUME LaunchConstants ==
  /\ Operator \in Accounts
  /\ MinCycles \in Cycles /\ Cycles \subseteq Nat \ {0}
  /\ Retries \in Nat \ {0}

VARIABLES
  owner, breath, initialBreath, maxBreath, currentPhase, initialized, bankroll,
  attestationSigner, paused, phase3Locked, usedNonces, phaseManager, applied,
  pmOwner, pmPhase, pmDesperate, pmLocked,
  pending,    \* transactions of the running script that have not landed yet
  agentPhase, \* the phase the agent passes to its monitor
  cyclesHeld, latched,   \* the monitor
  attempts    \* attempts left to the dispatch under way; 0: none is

Managers == {Manager}

EC == INSTANCE EnergyController
        WITH desperate <- [m \in Managers |-> pmDesperate]
PM == INSTANCE PhaseManager
        WITH owner <- pmOwner, currentPhase <- pmPhase,
             desperateMode <- pmDesperate, phase3Locked <- pmLocked
Monitor == INSTANCE PressureMonitor

ecVars == <<owner, breath, initialBreath, maxBreath, currentPhase, initialized,
            bankroll, attestationSigner, paused, phase3Locked, usedNonces,
            phaseManager, applied>>
pmVars == <<pmOwner, pmPhase, pmDesperate, pmLocked>>
agentVars == <<agentPhase, cyclesHeld, latched, attempts>>
vars == <<ecVars, pmVars, pending, agentVars>>

Init ==
  /\ PM!Init /\ EC!LedgerInit /\ owner = Operator /\ pmOwner = Operator
  /\ pending = <<>>
  /\ agentPhase = "Childhood" /\ Monitor!MonitorInit /\ attempts = 0

-----------------------------------------------------------------------------
(* A script run: all its checks pass against the current chain state *)

\* Mutant: ownership of the ledger is not checked.
OperatorOwnsManager == pmOwner = Operator

OperatorOwnsBoth == owner = Operator /\ pmOwner = Operator

Broadcast(txs) ==
  /\ pending = <<>> /\ pending' = txs
  /\ UNCHANGED <<pmVars, ecVars, agentVars>>

\* Touches the phase manager only.
RunAdvanceToApprenticeship ==
  /\ pmPhase = "Childhood"
  /\ pmOwner = Operator /\ ~pmLocked
  /\ Broadcast(<<"pmApprenticeship">>)

\* Mutant: the ledger is flipped first.
RunAdvanceLedgerFirst ==
  /\ pmPhase = "Apprenticeship"
  /\ currentPhase = "Apprenticeship"
  /\ OperatorOwnsBoth
  /\ ~pmLocked /\ ~phase3Locked /\ initialized
  /\ Broadcast(<<"ecAdulthood", "pmAdulthood">>)

RunAdvanceToAdulthood ==
  /\ pmPhase = "Apprenticeship"
  /\ currentPhase = "Apprenticeship"
  /\ OperatorOwnsBoth
  /\ ~pmLocked /\ ~phase3Locked /\ initialized
  /\ Broadcast(<<"pmAdulthood", "ecAdulthood">>)

\* Mutant: the phase manager is locked first.
RunRenounceManagerFirst ==
  /\ pmPhase = "Adulthood"
  /\ currentPhase = "Adulthood"
  /\ ~pmLocked /\ ~phase3Locked
  /\ OperatorOwnsBoth
  /\ Broadcast(<<"pmLock", "ecLock">>)

RunRenounce ==
  /\ pmPhase = "Adulthood"
  /\ currentPhase = "Adulthood"
  /\ ~pmLocked /\ ~phase3Locked
  /\ OperatorOwnsBoth
  /\ Broadcast(<<"ecLock", "pmLock">>)

-----------------------------------------------------------------------------
(* Transactions landing *)

\* What the contracts require of each transaction: the guards of the actions
\* in Effect.
Accepted(tx) ==
  \/ /\ PM!MayAdmin(Operator)
     /\ \/ tx = "pmApprenticeship" /\ pmPhase = "Childhood"
        \/ tx = "pmAdulthood" /\ pmPhase = "Apprenticeship"
        \/ tx = "pmLock" /\ pmPhase = "Adulthood"
  \/ /\ EC!MayAdmin(Operator)
     /\ \/ tx = "ecAdulthood" /\ EC!PhaseSettable
        \/ tx = "ecLock" /\ currentPhase = "Adulthood"

Effect(tx) ==
  \/ tx = "pmApprenticeship" /\ PM!TransitionToApprenticeship(Operator)
                             /\ UNCHANGED ecVars
  \/ tx = "pmAdulthood" /\ PM!TransitionToAdulthood(Operator)
                        /\ UNCHANGED ecVars
  \/ tx = "ecAdulthood" /\ UNCHANGED pmVars
                        /\ EC!SetPhase(Operator, "Adulthood")
  \/ tx = "ecLock" /\ UNCHANGED pmVars /\ EC!LockPhase3(Operator)
  \/ tx = "pmLock" /\ PM!LockPhase3(Operator) /\ UNCHANGED ecVars

TxLands ==
  /\ pending # <<>>
  /\ pending' = Tail(pending)
  /\ Effect(Head(pending))
  /\ UNCHANGED agentVars

\* The next transaction never lands (gas, RPC, operator's machine), and with
\* it every later one, whose account nonce is behind it.
TxsLost ==
  /\ pending # <<>>
  /\ pending' = <<>>
  /\ UNCHANGED <<pmVars, ecVars, agentVars>>

-----------------------------------------------------------------------------
(* The rest of the system while the scripts run *)

\* What the agent, the deployer and the settlement signer do all along.
EnergyOperates(caller, amount) ==
  /\ UNCHANGED <<pmVars, pending, agentVars>>
  /\ \/ \E max \in Amounts, s \in Signers :
          EC!Initialize(caller, amount, max, s)
     \/ EC!BurnTax(caller, amount)
     \/ EC!TopUpBreath(caller, amount)
     \/ EC!DeepenBreath(caller, amount)
     \/ EC!BankrollCredit(caller, amount)
     \/ EC!BankrollDebit(caller, amount)
     \/ \E s \in Signers, n \in Nonces : EC!SettleMarketLoss(s, n, amount, TRUE)

\* The agent reads the phase from the chain, late or not.
SeePhase ==
  /\ attempts = 0 /\ agentPhase # pmPhase
  /\ agentPhase' = pmPhase
  /\ Monitor!HandlePhaseTransition(agentPhase, pmPhase)
  /\ UNCHANGED <<ecVars, pmVars, pending, attempts>>

\* run_pressure_check, up to the dispatch; it is lost without a dispatcher.
PressureTick(high, wired) ==
  /\ attempts = 0
  /\ Monitor!Observe(agentPhase, high)
  /\ attempts' = IF Monitor!Emits /\ wired THEN Retries ELSE 0
  /\ UNCHANGED <<ecVars, pmVars, pending, agentPhase>>

\* _dispatch_with_retries: the transaction lands, whether its receipt reaches
\* the agent or not, or it does not; without a receipt there is another attempt.
DispatchLands(caller, acknowledged) ==
  /\ attempts > 0
  /\ PM!EnterDesperateMode(caller, cyclesHeld)
  /\ attempts' = IF acknowledged THEN 0 ELSE attempts - 1
  /\ UNCHANGED <<ecVars, pending, agentPhase, cyclesHeld, latched>>

DispatchFails ==
  /\ attempts > 0 /\ attempts' = attempts - 1
  /\ UNCHANGED <<ecVars, pmVars, pending, agentPhase, cyclesHeld, latched>>

\* The agent's process restarts, with a new monitor.
AgentRestarts ==
  /\ agentPhase' = "Childhood" /\ cyclesHeld' = 0 /\ latched' = FALSE
  /\ attempts' = 0
  /\ UNCHANGED <<ecVars, pmVars, pending>>

\* The operator works alone: his manual calls never overlap a broadcast.
ManualAdmin ==
  /\ pending = <<>>
  /\ UNCHANGED <<pending, agentVars>>
  /\ \/ \E a \in Accounts : PM!SetOwner(Operator, a) /\ UNCHANGED ecVars
     \/ /\ UNCHANGED pmVars
        /\ \/ EC!SetPhaseManager(Operator, Manager)
           \/ EC!Pause(Operator)
           \/ EC!Unpause(Operator)
           \/ \E a \in Accounts : EC!SetOwner(Operator, a)

\* The operator's sync step of the launch rehearsal: no script brings the
\* energy controller to Apprenticeship.
ManualSync ==
  /\ pending = <<>>
  /\ pmPhase = "Apprenticeship"
  /\ UNCHANGED <<pmVars, pending, agentVars>>
  /\ EC!SetPhase(Operator, "Apprenticeship")

Next ==
  \/ RunAdvanceToApprenticeship \/ RunAdvanceToAdulthood \/ RunRenounce
  \/ TxLands \/ TxsLost
  \/ \E c \in Accounts, a \in Amounts : EnergyOperates(c, a)
  \/ ManualAdmin \/ ManualSync
  \/ SeePhase \/ DispatchFails \/ AgentRestarts
  \/ \E high, wired \in BOOLEAN : PressureTick(high, wired)
  \/ \E c \in Accounts, b \in BOOLEAN : DispatchLands(c, b)

Spec == Init /\ [][Next]_vars

-----------------------------------------------------------------------------
(* Properties *)

\* Whatever part of a launch is lost, the controller's mirror of the phase
\* never runs ahead of the phase authority.
MirrorNeverAhead ==
  /\ currentPhase # "Dead"
  /\ PM!PhaseOrder[currentPhase] <= PM!PhaseOrder[pmPhase]

\* A renunciation cut in half leaves the ledger locked and the phase manager
\* open, never the reverse; and nothing is locked below Adulthood.
LocksInOrder ==
  /\ pmLocked => phase3Locked
  /\ phase3Locked => currentPhase = "Adulthood" /\ pmPhase = "Adulthood"

\* A broadcast is never reverted on chain: what the local simulation accepted
\* still holds when each transaction lands, whatever happened in between.
BroadcastStillValid == pending # <<>> => Accepted(Head(pending))

\* Accepted says of the transaction in front exactly when it can land.
AcceptedIsEnabled ==
  pending # <<>> => (Accepted(Head(pending)) <=> ENABLED TxLands)

\* An attempt to enter Desperate Mode is refused by the chain for one reason
\* beside the caller, that an earlier attempt has landed: the intent never
\* outruns the chain's own checks of phase and cycles, however stale the agent's
\* view of the phase and whatever restarts ("the on-chain re-check gate",
\* EnterDesperateModeIntent).
IntentNeverPremature ==
  attempts > 0 =>
    \/ pmDesperate
    \/ pmPhase = "Adulthood" /\ cyclesHeld >= PM!MinPressureCycles

\* The composition respects the ledger's own specification, the desperate bit
\* of its environment being the real phase manager's.
LedgerRefined == EC!LedgerSpec

=============================================================================
