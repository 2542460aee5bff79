--------------------------- MODULE EnergyController ---------------------------
(***************************************************************************)
(* The BREATH ledger of the agent (contracts/EnergyController.sol).        *)
(*                                                                         *)
(* One action per external function.  A call whose require/revert guard    *)
(* fails leaves no trace on chain, so it is simply not a step.  A uint256  *)
(* is a number in 0..UintMax; checked arithmetic that would leave that     *)
(* range reverts.  Event payloads and reason strings are left out.         *)
(*                                                                         *)
(* The phase managers the contract may be linked to are other contracts:   *)
(* here each is only its sticky isDesperate() bit.                         *)
(***************************************************************************)
EXTENDS Integers

CONSTANTS
  Accounts,   \* externally owned accounts that may call or own the contract
  Signers,    \* keys that may sign settlement attestations
  Managers,   \* deployed PhaseManager contracts
  None,       \* address(0); also what recover() returns for a bad signature
  Nonces,     \* attestation nonces in use
  Amounts,    \* uint256 arguments that callers pass
  UintMax     \* largest uint256

ASSUME EnergyConstants ==
  /\ UintMax \in Nat
  /\ Amounts \subseteq 0..UintMax
  /\ None \notin Accounts \cup Signers \cup Managers

VARIABLES
  owner, breath, initialBreath, maxBreath, currentPhase, initialized,
  bankroll, attestationSigner, paused, phase3Locked, usedNonces,
  phaseManager,
  desperate,  \* desperate[m]: what isDesperate() of manager m answers
  applied     \* history: applied[s][n] counts the burns made under <<s, n>>

adminVars == <<owner, attestationSigner, phaseManager, paused, currentPhase>>
moneyVars == <<breath, maxBreath, bankroll, usedNonces>>
ledgerVars == <<adminVars, moneyVars, initialBreath, initialized, phase3Locked,
          desperate, applied>>

Phases == {"Childhood", "Apprenticeship", "Adulthood", "Dead"}

-----------------------------------------------------------------------------
(* Modifiers and helpers *)

\* Mutants are defined next to what they mutate; nothing else uses them.

WhenOperational == initialized /\ ~paused

NotDead == currentPhase # "Dead"

\* _burn: the three burn classes share it.
Burn(amount) ==
  /\ amount # 0
  /\ amount <= breath
  /\ breath' = breath - amount

Headroom == maxBreath - breath

\* Mutant: a top-up credits all it is given.
CreditUnclamped(amount) == amount

Credit(amount) == IF amount > Headroom THEN Headroom ELSE amount

\* isDesperate() of the linked manager; an unlinked contract has no gate.
LungsBlocked == phaseManager # None /\ desperate[phaseManager]

-----------------------------------------------------------------------------
LedgerInit ==
  /\ owner \in Accounts
  /\ breath = 0 /\ initialBreath = 0 /\ maxBreath = 0 /\ bankroll = 0
  /\ currentPhase = "Childhood"
  /\ initialized = FALSE /\ paused = FALSE /\ phase3Locked = FALSE
  /\ attestationSigner = None
  /\ phaseManager = None
  /\ usedNonces = [s \in Signers |-> {}]
  /\ desperate = [m \in Managers |-> FALSE]
  /\ applied = [s \in Signers |-> [n \in Nonces |-> 0]]

Initialize(caller, initial, max, signer) ==
  /\ caller = owner
  /\ ~initialized
  /\ initial # 0
  /\ signer # None
  /\ initialized' = TRUE
  /\ initialBreath' = initial
  /\ maxBreath' = IF max >= initial THEN max ELSE initial
  /\ breath' = initial
  /\ currentPhase' = "Childhood"
  /\ attestationSigner' = signer
  /\ UNCHANGED <<owner, bankroll, paused, phase3Locked, usedNonces,
                 phaseManager, desperate, applied>>

\* burnDecisionTax and burnTimeTax have the same body.
BurnTax(caller, amount) ==
  /\ caller = owner
  /\ WhenOperational /\ NotDead
  /\ Burn(amount)
  /\ UNCHANGED <<adminVars, maxBreath, bankroll, usedNonces, initialBreath,
                 initialized, phase3Locked, desperate, applied>>

\* Mutant: the replay check is forgotten.
NonceUnchecked(signer, nonce) == TRUE

NonceUnused(signer, nonce) == nonce \notin usedNonces[signer]

\* Anyone may submit an attestation.  live: deadline >= block.timestamp;
\* signer: what EIP712Settlement.recover returns.
SettleMarketLoss(signer, nonce, lossAmount, live) ==
  /\ WhenOperational /\ NotDead
  /\ lossAmount # 0
  /\ live
  /\ signer # None
  /\ signer = attestationSigner
  /\ NonceUnused(signer, nonce)
  /\ usedNonces' = [usedNonces EXCEPT ![signer] = @ \cup {nonce}]
  /\ Burn(lossAmount)
  /\ applied' = [applied EXCEPT ![signer][nonce] = @ + 1]
  /\ UNCHANGED <<adminVars, maxBreath, bankroll, initialBreath, initialized,
                 phase3Locked, desperate>>

TopUpBreath(caller, amount) ==
  /\ caller = owner
  /\ WhenOperational /\ NotDead
  /\ amount # 0
  /\ breath' = breath + Credit(amount)
  /\ UNCHANGED <<adminVars, maxBreath, bankroll, usedNonces, initialBreath,
                 initialized, phase3Locked, desperate, applied>>

DeepenBreath(caller, newMaxBreath) ==
  /\ caller = owner
  /\ WhenOperational /\ NotDead
  /\ ~LungsBlocked
  /\ newMaxBreath > maxBreath
  /\ maxBreath' = newMaxBreath
  /\ UNCHANGED <<adminVars, breath, bankroll, usedNonces, initialBreath,
                 initialized, phase3Locked, desperate, applied>>

\* The two bankroll moves have no notDead modifier.
BankrollCredit(caller, amount) ==
  /\ caller = owner
  /\ WhenOperational
  /\ amount # 0
  /\ bankroll + amount <= UintMax
  /\ bankroll' = bankroll + amount
  /\ UNCHANGED <<adminVars, breath, maxBreath, usedNonces, initialBreath,
                 initialized, phase3Locked, desperate, applied>>

BankrollDebit(caller, amount) ==
  /\ caller = owner
  /\ WhenOperational
  /\ amount # 0
  /\ amount <= bankroll
  /\ bankroll' = bankroll - amount
  /\ UNCHANGED <<adminVars, breath, maxBreath, usedNonces, initialBreath,
                 initialized, phase3Locked, desperate, applied>>

-----------------------------------------------------------------------------
(* Admin surface: every function is whenNotPhase3Locked *)

\* Mutant: onlyOwner without whenNotPhase3Locked.
AdminUnlocked(caller) ==
  /\ caller = owner
  /\ UNCHANGED <<moneyVars, initialBreath, initialized, desperate, applied>>

\* onlyOwner whenNotPhase3Locked.
MayAdmin(caller) == caller = owner /\ ~phase3Locked

Admin(caller) ==
  /\ MayAdmin(caller)
  /\ UNCHANGED <<moneyVars, initialBreath, initialized, desperate, applied>>

SetOwner(caller, newOwner) ==
  /\ Admin(caller)
  /\ newOwner # None
  /\ owner' = newOwner
  /\ UNCHANGED <<attestationSigner, phaseManager, paused, currentPhase,
                 phase3Locked>>

SetAttestationSigner(caller, newSigner) ==
  /\ Admin(caller)
  /\ newSigner # None
  /\ attestationSigner' = newSigner
  /\ UNCHANGED <<owner, phaseManager, paused, currentPhase, phase3Locked>>

SetPhaseManager(caller, newManager) ==
  /\ Admin(caller)
  /\ newManager # None
  /\ phaseManager' = newManager
  /\ UNCHANGED <<owner, attestationSigner, paused, currentPhase, phase3Locked>>

Pause(caller) ==
  /\ Admin(caller)
  /\ paused' = TRUE
  /\ UNCHANGED <<owner, attestationSigner, phaseManager, currentPhase,
                 phase3Locked>>

Unpause(caller) ==
  /\ Admin(caller)
  /\ paused' = FALSE
  /\ UNCHANGED <<owner, attestationSigner, phaseManager, currentPhase,
                 phase3Locked>>

\* Any phase may follow any phase, except that nothing follows Dead.
PhaseSettable == initialized /\ NotDead

SetPhase(caller, next) ==
  /\ Admin(caller)
  /\ PhaseSettable
  /\ currentPhase' = next
  /\ UNCHANGED <<owner, attestationSigner, phaseManager, paused, phase3Locked>>

LockPhase3(caller) ==
  /\ Admin(caller)
  /\ currentPhase = "Adulthood"
  /\ phase3Locked' = TRUE
  /\ UNCHANGED adminVars

-----------------------------------------------------------------------------
(* External: a linked PhaseManager turns desperate, once and for all *)
ManagerTurnsDesperate(m) ==
  /\ ~desperate[m]
  /\ desperate' = [desperate EXCEPT ![m] = TRUE]
  /\ UNCHANGED <<adminVars, moneyVars, initialBreath, initialized,
                 phase3Locked, applied>>

OwnerStep(caller) ==
  \/ \E initial, max \in Amounts, s \in Signers :
       Initialize(caller, initial, max, s)
  \/ \E a \in Amounts : BurnTax(caller, a)
  \/ \E a \in Amounts : TopUpBreath(caller, a)
  \/ \E a \in Amounts : DeepenBreath(caller, a)
  \/ \E a \in Amounts : BankrollCredit(caller, a)
  \/ \E a \in Amounts : BankrollDebit(caller, a)
  \/ \E a \in Accounts : SetOwner(caller, a)
  \/ \E s \in Signers : SetAttestationSigner(caller, s)
  \/ \E m \in Managers : SetPhaseManager(caller, m)
  \/ Pause(caller)
  \/ Unpause(caller)
  \/ \E p \in Phases : SetPhase(caller, p)
  \/ LockPhase3(caller)

LedgerNext ==
  \/ \E caller \in Accounts : OwnerStep(caller)
  \/ \E s \in Signers \cup {None}, n \in Nonces, a \in Amounts,
       live \in BOOLEAN : SettleMarketLoss(s, n, a, live)
  \/ \E m \in Managers : ManagerTurnsDesperate(m)

LedgerSpec == LedgerInit /\ [][LedgerNext]_ledgerVars

-----------------------------------------------------------------------------
(* Properties *)

\* Every state variable keeps the type its Solidity declaration gives it.
LedgerTypeOK ==
  /\ owner \in Accounts
  /\ breath \in 0..UintMax
  /\ initialBreath \in 0..UintMax
  /\ maxBreath \in 0..UintMax
  /\ bankroll \in 0..UintMax
  /\ currentPhase \in Phases
  /\ initialized \in BOOLEAN /\ paused \in BOOLEAN /\ phase3Locked \in BOOLEAN
  /\ attestationSigner \in Signers \cup {None}
  /\ phaseManager \in Managers \cup {None}
  /\ usedNonces \in [Signers -> SUBSET Nonces]
  /\ desperate \in [Managers -> BOOLEAN]
  /\ applied \in [Signers -> [Nonces -> Nat]]

\* topUpBreath subtracts breath from maxBreath relying on the comment "safe:
\* invariant breath <= maxBreath": no order of burns, top-ups, expansions and
\* (late) initialisation breaks it, so the subtraction never underflows.
BreathWithinCap ==
  /\ breath <= maxBreath
  /\ initialBreath <= maxBreath

\* A signed attestation burns breath at most once, whatever rotations of the
\* signer happen in between, and a nonce is marked exactly when its burn
\* went through (a settlement reverted for lack of breath gives it back).
AttestationAppliedOnce ==
  \A s \in Signers, n \in Nonces :
    applied[s][n] = IF n \in usedNonces[s] THEN 1 ELSE 0

\* Before initialize() nothing of the economy exists and the one-way lock is
\* out of reach, so initialize() cannot overwrite a phase or a balance.
UninitialisedInert ==
  ~initialized =>
    /\ breath = 0 /\ initialBreath = 0 /\ maxBreath = 0 /\ bankroll = 0
    /\ currentPhase = "Childhood"
    /\ ~phase3Locked
    /\ \A s \in Signers : usedNonces[s] = {}

\* Once lockPhase3() has fired the admin surface is frozen for ever: owner,
\* signer, manager link, pause flag and phase keep their values.
LockFreezesAdmin ==
  [][phase3Locked => phase3Locked' /\ UNCHANGED adminVars]_ledgerVars

\* A dead ledger neither breathes in nor out, and does not come back.
DeadBreathFrozen ==
  [][currentPhase = "Dead" =>
       UNCHANGED <<currentPhase, breath, maxBreath, usedNonces>>]_ledgerVars

\* Lung expansion is lost for good once the contract is locked while linked
\* to a desperate manager: the cap and everything it depends on are sealed.
DesperationSealsCap ==
  [][phase3Locked /\ LungsBlocked =>
       maxBreath' = maxBreath /\ phase3Locked' /\ LungsBlocked']_ledgerVars

\* What the NatSpec of lockPhase3 promises: after the lock, burns, top-ups,
\* bankroll moves, expansion and settlement remain callable.  All of them are
\* whenNotPaused, and unpause() is an admin function.
OperationalAfterLock == phase3Locked => ~paused

=============================================================================
