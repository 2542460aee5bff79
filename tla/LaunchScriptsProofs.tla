-------------------------- MODULE LaunchScriptsProofs --------------------------
(***************************************************************************)
(* Proofs about the launch: for any accounts, signers, nonces, amounts,    *)
(* retries and cycle counts, the two contracts climb and lock in order,    *)
(* the agent's intent is never premature, and the composition implements   *)
(* the specifications of both contracts.                                   *)
(***************************************************************************)
EXTENDS LaunchScripts, TLAPS

Rungs == {"Childhood", "Apprenticeship", "Adulthood"}

TypeInv ==
  /\ pmPhase \in Rungs /\ currentPhase \in Rungs /\ agentPhase \in Rungs
  /\ cyclesHeld \in 0..MinCycles /\ attempts \in 0..Retries

\* What is in flight fits what has landed: the later transaction of a pair is
\* alone only after the first, and the script's own checks bound the rest.
InFlight ==
  \/ pending \in {<<>>, <<"pmApprenticeship">>, <<"ecLock", "pmLock">>}
  \/ pending = <<"pmAdulthood", "ecAdulthood">>
  \/ pending = <<"ecAdulthood">> /\ pmPhase = "Adulthood"
  \/ pending = <<"pmLock">> /\ phase3Locked

\* A ledger that is not initialised has neither climbed nor been locked, so a
\* late initialize() takes nothing back.
LateInitialize == ~initialized => currentPhase = "Childhood" /\ ~phase3Locked

\* The agent's view of the phase lags behind the chain; a dispatch is under way
\* only for an intent that was full when it was emitted.
AgentBehind ==
  /\ PM!PhaseOrder[agentPhase] <= PM!PhaseOrder[pmPhase]
  /\ attempts > 0 => pmPhase = "Adulthood" /\ cyclesHeld = MinCycles

IInv ==
  /\ TypeInv /\ InFlight /\ LateInitialize
  /\ MirrorNeverAhead /\ LocksInOrder /\ AgentBehind

\* The chain as deployed satisfies the invariant.
LEMMA InitEstablishes == Init => IInv
<1> SUFFICES ASSUME Init
             PROVE  IInv
  OBVIOUS
<1> USE DEF Init, PM!Init, EC!LedgerInit, Monitor!MonitorInit
<1>1. cyclesHeld \in 0..MinCycles /\ attempts \in 0..Retries
  BY LaunchConstants DEF LaunchConstants
<1> QED
  BY <1>1 DEF IInv, TypeInv, InFlight, LateInitialize,
     MirrorNeverAhead, LocksInOrder, AgentBehind, Rungs, PM!PhaseOrder

\* A broadcast, or its loss, changes nothing but what is in flight.
LEMMA BroadcastPreserves ==
  ASSUME IInv,
         \/ RunAdvanceToApprenticeship \/ RunAdvanceToAdulthood \/ RunRenounce
         \/ TxsLost
  PROVE  IInv'
  BY DEF IInv, TypeInv, InFlight, LateInitialize, MirrorNeverAhead,
     LocksInOrder, AgentBehind, RunAdvanceToApprenticeship,
     RunAdvanceToAdulthood, RunRenounce, TxsLost, Broadcast, pmVars, ecVars,
     agentVars

\* Each transaction finds the state that the one before it left.
LEMMA LandingPreserves ==
  ASSUME IInv, TxLands
  PROVE  IInv'
<1> USE DEF IInv, TypeInv, InFlight, LateInitialize, MirrorNeverAhead,
            LocksInOrder, AgentBehind, Rungs, PM!PhaseOrder, agentVars
<1>1. pending # <<>> /\ pending' = Tail(pending) /\ Effect(Head(pending))
      /\ UNCHANGED agentVars
  BY DEF TxLands
<1>2. CASE pending = <<"pmApprenticeship">>
  <2>1. PM!TransitionToApprenticeship(Operator) /\ UNCHANGED ecVars
        /\ pending' = <<>>
    BY <1>1, <1>2 DEF Effect
  <2> QED BY <1>1, <2>1 DEF PM!TransitionToApprenticeship, PM!Climb,
             PM!MayAdmin, ecVars
<1>3. CASE pending = <<"pmAdulthood", "ecAdulthood">>
  <2>1. PM!TransitionToAdulthood(Operator) /\ UNCHANGED ecVars
        /\ pending' = <<"ecAdulthood">>
    BY <1>1, <1>3 DEF Effect
  <2>2. pmPhase = "Apprenticeship" /\ pmPhase' = "Adulthood" /\ pmLocked' = pmLocked
    BY <2>1 DEF PM!TransitionToAdulthood, PM!Climb, PM!MayAdmin
  <2>3. InFlight'
    BY <2>1, <2>2
  <2> HIDE DEF InFlight
  <2> QED BY <1>1, <2>1, <2>2, <2>3 DEF ecVars
<1>4. CASE pending = <<"ecAdulthood">>
  <2>1. UNCHANGED pmVars /\ EC!SetPhase(Operator, "Adulthood")
        /\ pending' = <<>>
    BY <1>1, <1>4 DEF Effect
  <2>2. pmPhase = "Adulthood"
    BY <1>4
  <2>3. InFlight'
    BY <2>1
  <2>4. currentPhase' = "Adulthood" /\ UNCHANGED <<initialized, phase3Locked>>
        /\ initialized
    BY <2>1 DEF EC!SetPhase, EC!PhaseSettable, EC!Admin,
       EC!MayAdmin
  <2> HIDE DEF InFlight
  <2> QED BY <1>1, <2>1, <2>2, <2>3, <2>4 DEF pmVars
<1>5. CASE pending = <<"ecLock", "pmLock">>
  <2>1. UNCHANGED pmVars /\ EC!LockPhase3(Operator) /\ pending' = <<"pmLock">>
    BY <1>1, <1>5 DEF Effect
  <2>2. /\ currentPhase = "Adulthood" /\ phase3Locked'
        /\ UNCHANGED <<initialized, currentPhase>>
    BY <2>1 DEF EC!LockPhase3, EC!Admin, EC!MayAdmin, EC!adminVars
  <2>3. pmPhase = "Adulthood" /\ initialized
    BY <2>2
  <2>4. InFlight'
    BY <2>1, <2>2
  <2> HIDE DEF InFlight
  <2> QED BY <1>1, <2>1, <2>2, <2>3, <2>4 DEF pmVars
<1>6. CASE pending = <<"pmLock">>
  <2>1. PM!LockPhase3(Operator) /\ UNCHANGED ecVars /\ pending' = <<>>
    BY <1>1, <1>6 DEF Effect
  <2> QED BY <1>1, <1>6, <2>1 DEF PM!LockPhase3, PM!MayAdmin, ecVars
<1> QED BY <1>1, <1>2, <1>3, <1>4, <1>5, <1>6

\* Operation moves money, never a phase, except that initialize() sets the
\* phase it finds.
LEMMA OperationPreserves ==
  ASSUME IInv, NEW caller \in Accounts, NEW amount \in Amounts,
         EnergyOperates(caller, amount)
  PROVE  IInv'
<1>1. UNCHANGED <<pmVars, pending, agentVars>>
  BY DEF EnergyOperates
<1> DEFINE PhasesStay ==
      /\ currentPhase' = currentPhase /\ phase3Locked' = phase3Locked
      /\ initialized => initialized'
<1>2. PhasesStay
  <2> USE DEF IInv, TypeInv, LateInitialize
  <2>1. ASSUME NEW max \in Amounts, NEW s \in Signers,
               EC!Initialize(caller, amount, max, s)
        PROVE  PhasesStay
    BY <2>1 DEF EC!Initialize
  <2>2. ASSUME \/ EC!BurnTax(caller, amount) \/ EC!TopUpBreath(caller, amount)
               \/ EC!DeepenBreath(caller, amount)
               \/ EC!BankrollCredit(caller, amount)
               \/ EC!BankrollDebit(caller, amount)
        PROVE  PhasesStay
    BY <2>2 DEF EC!BurnTax, EC!TopUpBreath, EC!DeepenBreath,
       EC!BankrollCredit, EC!BankrollDebit, EC!adminVars
  <2>3. ASSUME NEW s \in Signers, NEW n \in Nonces,
               EC!SettleMarketLoss(s, n, amount, TRUE)
        PROVE  PhasesStay
    BY <2>3 DEF EC!SettleMarketLoss, EC!adminVars
  <2> QED BY <2>1, <2>2, <2>3 DEF EnergyOperates
<1> QED
  BY <1>1, <1>2 DEF IInv, TypeInv, InFlight, LateInitialize, MirrorNeverAhead,
     LocksInOrder, AgentBehind, pmVars, agentVars

\* The agent's steps leave the chain alone but for the desperate bit, and a
\* dispatch begins only with a full count of ticks of Adulthood.
LEMMA AgentPreserves ==
  ASSUME IInv,
         \/ SeePhase \/ DispatchFails \/ AgentRestarts
         \/ \E high, wired \in BOOLEAN : PressureTick(high, wired)
         \/ \E c \in Accounts, b \in BOOLEAN : DispatchLands(c, b)
  PROVE  IInv'
<1> USE LaunchConstants DEF IInv, TypeInv, AgentBehind, Rungs, PM!PhaseOrder,
        LaunchConstants
<1>1. UNCHANGED <<pmPhase, pmLocked, currentPhase, phase3Locked, initialized,
                  pending>>
  BY DEF SeePhase, DispatchFails, AgentRestarts, PressureTick, DispatchLands,
     PM!EnterDesperateMode, pmVars, ecVars
<1>2. TypeInv' /\ AgentBehind'
  <2>1. CASE SeePhase
    BY <1>1, <2>1 DEF SeePhase, Monitor!HandlePhaseTransition
  <2>2. CASE DispatchFails \/ \E c \in Accounts, b \in BOOLEAN : DispatchLands(c, b)
    <3>1. UNCHANGED <<agentPhase, cyclesHeld>> /\ attempts > 0
          /\ attempts' \in {0, attempts - 1}
      BY <2>2 DEF DispatchFails, DispatchLands
    <3> QED BY <1>1, <3>1
  <2>3. CASE AgentRestarts
    BY <1>1, <2>3 DEF AgentRestarts
  <2>4. ASSUME NEW high \in BOOLEAN, NEW wired \in BOOLEAN,
               PressureTick(high, wired)
        PROVE  TypeInv' /\ AgentBehind'
    <3>1. cyclesHeld' \in 0..MinCycles
      BY <2>4 DEF PressureTick, Monitor!Observe, Monitor!Held
    <3>2. attempts' \in 0..Retries /\ agentPhase' = agentPhase
      BY <2>4 DEF PressureTick
    <3>3. ASSUME attempts' > 0
          PROVE  agentPhase = "Adulthood" /\ cyclesHeld' = MinCycles
      <4>1. Monitor!Emits
        BY <2>4, <3>3 DEF PressureTick
      <4>2. cyclesHeld' >= MinCycles
        BY ONLY <2>4, <4>1 DEF PressureTick, Monitor!Observe, Monitor!Emits
      <4>3. MinCycles \in Nat \ {0}
        OBVIOUS
      <4> QED
        BY <2>4, <3>1, <4>2, <4>3 DEF PressureTick, Monitor!Observe
    <3> QED BY <1>1, <3>1, <3>2, <3>3
  <2> QED BY <2>1, <2>2, <2>3, <2>4
<1> QED
  BY <1>1, <1>2 DEF InFlight, LateInitialize, MirrorNeverAhead, LocksInOrder

\* By hand the operator only brings the mirror up to the authority.
LEMMA ManualPreserves ==
  ASSUME IInv, ManualAdmin \/ ManualSync
  PROVE  IInv'
<1> USE DEF IInv, TypeInv, InFlight, LateInitialize, MirrorNeverAhead,
            LocksInOrder, AgentBehind, Rungs, PM!PhaseOrder, agentVars
<1>1. CASE ManualSync
  BY <1>1 DEF ManualSync, EC!SetPhase, EC!PhaseSettable, EC!Admin, EC!MayAdmin,
     pmVars
<1>2. CASE ManualAdmin
  <2>1. UNCHANGED <<pmPhase, pmLocked, currentPhase, phase3Locked, initialized,
                    pending, agentVars>>
    BY <1>2 DEF ManualAdmin, PM!SetOwner, EC!SetPhaseManager, EC!Pause,
       EC!Unpause, EC!SetOwner, EC!Admin, EC!MayAdmin, pmVars, ecVars
  <2> QED BY <2>1
<1> QED BY <1>1, <1>2

\* Every step of the launch preserves the invariant.
LEMMA NextPreserves == IInv /\ [Next]_vars => IInv'
<1> SUFFICES ASSUME IInv, [Next]_vars
             PROVE  IInv'
  OBVIOUS
<1>1. CASE UNCHANGED vars
  BY <1>1 DEF vars, ecVars, pmVars, agentVars, IInv, TypeInv, InFlight,
     LateInitialize, MirrorNeverAhead, LocksInOrder, AgentBehind
<1> QED
  BY <1>1, BroadcastPreserves, LandingPreserves, OperationPreserves,
     AgentPreserves, ManualPreserves DEF Next

\* Typing and the parts of the invariant, in every reachable state.
THEOREM Invariant == Spec => []IInv
  BY InitEstablishes, NextPreserves, PTL DEF Spec

\* Whatever is lost of any launch, the mirror is never ahead of the authority.
THEOREM MirrorBehind == Spec => []MirrorNeverAhead
  BY Invariant, PTL DEF IInv

\* The ledger is locked first, and nothing is locked below Adulthood.
THEOREM LockOrder == Spec => []LocksInOrder
  BY Invariant, PTL DEF IInv

-----------------------------------------------------------------------------
(* What the local simulation accepted *)

\* While a broadcast is in flight, the contracts accept all that is left of it:
\* its checks saw to the first transaction, each transaction to the next, and
\* nobody but the operator moves an owner, a phase upward or a lock.
Approved ==
  \/ pending = <<>>
  \/ pending = <<"pmApprenticeship">> /\ Accepted("pmApprenticeship")
  \/ /\ pending = <<"pmAdulthood", "ecAdulthood">>
     /\ Accepted("pmAdulthood") /\ Accepted("ecAdulthood")
  \/ pending = <<"ecAdulthood">> /\ Accepted("ecAdulthood")
  \/ /\ pending = <<"ecLock", "pmLock">>
     /\ Accepted("ecLock") /\ Accepted("pmLock")
  \/ pending = <<"pmLock">> /\ Accepted("pmLock")

\* A transaction that lands leaves the next one acceptable: the two of a pair
\* go to different contracts.
LEMMA LandingApproves ==
  ASSUME Approved, TxLands
  PROVE  Approved'
<1> USE DEF Approved, Accepted
<1>1. pending # <<>> /\ pending' = Tail(pending) /\ Effect(Head(pending))
  BY DEF TxLands
<1>2. CASE \/ pending = <<"pmApprenticeship">> \/ pending = <<"ecAdulthood">>
           \/ pending = <<"pmLock">>
  BY <1>1, <1>2
<1>3. CASE pending = <<"pmAdulthood", "ecAdulthood">>
  <2>1. UNCHANGED ecVars /\ pending' = <<"ecAdulthood">>
    BY <1>1, <1>3 DEF Effect
  <2>2. Accepted("ecAdulthood")
    BY <1>3
  <2> QED
    BY <2>1, <2>2 DEF ecVars, EC!MayAdmin, EC!PhaseSettable, EC!NotDead
<1>4. CASE pending = <<"ecLock", "pmLock">>
  <2>1. UNCHANGED pmVars /\ pending' = <<"pmLock">>
    BY <1>1, <1>4 DEF Effect
  <2>2. Accepted("pmLock")
    BY <1>4
  <2> QED BY <2>1, <2>2 DEF pmVars, PM!MayAdmin
<1> QED BY <1>1, <1>2, <1>3, <1>4

\* Operation leaves owners and locks alone, and a late initialize() meets no
\* broadcast that has to do with the ledger.
LEMMA OperationApproves ==
  ASSUME IInv, Approved, NEW caller \in Accounts, NEW amount \in Amounts,
         EnergyOperates(caller, amount)
  PROVE  Approved'
<1>1. UNCHANGED <<pmVars, pending>>
  BY DEF EnergyOperates
<1> DEFINE Held ==
      /\ UNCHANGED <<owner, phase3Locked>>
      /\ initialized => initialized' /\ currentPhase' = currentPhase
<1>2. Held
  <2>1. ASSUME NEW max \in Amounts, NEW s \in Signers,
               EC!Initialize(caller, amount, max, s)
        PROVE  Held
    BY <2>1 DEF EC!Initialize
  <2>2. ASSUME \/ EC!BurnTax(caller, amount) \/ EC!TopUpBreath(caller, amount)
               \/ EC!DeepenBreath(caller, amount)
               \/ EC!BankrollCredit(caller, amount)
               \/ EC!BankrollDebit(caller, amount)
        PROVE  Held
    BY <2>2 DEF EC!BurnTax, EC!TopUpBreath, EC!DeepenBreath,
       EC!BankrollCredit, EC!BankrollDebit, EC!adminVars
  <2>3. ASSUME NEW s \in Signers, NEW n \in Nonces,
               EC!SettleMarketLoss(s, n, amount, TRUE)
        PROVE  Held
    BY <2>3 DEF EC!SettleMarketLoss, EC!adminVars
  <2> QED BY <2>1, <2>2, <2>3 DEF EnergyOperates
<1>3. currentPhase = "Adulthood" => initialized
  BY DEF IInv, LateInitialize
<1> QED
  BY <1>1, <1>2, <1>3 DEF Approved, Accepted, pmVars, PM!MayAdmin,
     EC!MayAdmin, EC!PhaseSettable, EC!NotDead

\* A broadcast starts with what its script checked; by hand the operator acts
\* only when nothing is in flight; the agent moves no owner, phase or lock.
LEMMA StepApproves ==
  ASSUME IInv, Approved, [Next]_vars
  PROVE  Approved'
<1>1. CASE RunAdvanceToApprenticeship \/ RunAdvanceToAdulthood \/ RunRenounce
  BY <1>1 DEF RunAdvanceToApprenticeship, RunAdvanceToAdulthood, RunRenounce,
     Broadcast, OperatorOwnsBoth, Approved, Accepted, pmVars, ecVars,
     PM!MayAdmin, EC!MayAdmin, EC!PhaseSettable, EC!NotDead
<1>2. CASE TxsLost \/ ManualAdmin \/ ManualSync
  BY <1>2 DEF TxsLost, ManualAdmin, ManualSync, Approved
<1>3. CASE \/ UNCHANGED vars \/ SeePhase \/ DispatchFails \/ AgentRestarts
           \/ \E high, wired \in BOOLEAN : PressureTick(high, wired)
           \/ \E c \in Accounts, b \in BOOLEAN : DispatchLands(c, b)
  <2>1. UNCHANGED <<ecVars, pmOwner, pmPhase, pmLocked, pending>>
    BY <1>3 DEF vars, SeePhase, DispatchFails, AgentRestarts, PressureTick,
       DispatchLands, PM!EnterDesperateMode, pmVars
  <2> QED
    BY <2>1 DEF Approved, Accepted, ecVars, PM!MayAdmin, EC!MayAdmin,
       EC!PhaseSettable, EC!NotDead
<1> QED
  BY <1>1, <1>2, <1>3, LandingApproves, OperationApproves DEF Next

\* No transaction of a launch reverts on chain, whatever the agent, the signer
\* and the deployer do between the simulation and its landing.
THEOREM NothingReverts == Spec => []BroadcastStillValid
<1>1. Init => Approved
  BY DEF Init, Approved
<1>2. Approved => BroadcastStillValid
  BY DEF Approved, BroadcastStillValid
<1> QED
  BY <1>1, <1>2, Invariant, StepApproves, PTL DEF Spec

-----------------------------------------------------------------------------
(* The agent *)

\* If the agent's minimum is no less than the chain's, an intent never reaches
\* the chain too early, for any number of retries and any lag of the agent.
THEOREM IntentInTime ==
  ASSUME MinCycles >= PM!MinPressureCycles
  PROVE  Spec => []IntentNeverPremature
<1>1. IInv => IntentNeverPremature
  BY DEF IInv, TypeInv, AgentBehind, IntentNeverPremature
<1> QED BY <1>1, Invariant, PTL

-----------------------------------------------------------------------------
(* The refinements: every step of the launch is a step of one contract, of *)
(* both, or of neither                                                     *)

\* What the ledger sees of the phase manager is its desperate bit alone.
LEMMA LedgerUntouched ==
  ASSUME UNCHANGED <<ecVars, pmDesperate>>
  PROVE  UNCHANGED EC!ledgerVars
  BY DEF ecVars, EC!ledgerVars, EC!adminVars, EC!moneyVars

\* A transaction that lands is a step of one contract.
LEMMA LandingRefines ==
  ASSUME TxLands
  PROVE  [EC!LedgerNext]_(EC!ledgerVars) /\ [PM!Next]_(PM!vars)
<1>1. PICK tx : Effect(tx)
  BY DEF TxLands
<1>2. Operator \in Accounts
  BY LaunchConstants DEF LaunchConstants
<1>3. CASE tx = "pmApprenticeship" \/ tx = "pmAdulthood" \/ tx = "pmLock"
  <2>1. UNCHANGED ecVars
        /\ \/ PM!TransitionToApprenticeship(Operator)
           \/ PM!TransitionToAdulthood(Operator) \/ PM!LockPhase3(Operator)
    BY <1>1, <1>3 DEF Effect
  <2>2. UNCHANGED pmDesperate
    BY <2>1 DEF PM!TransitionToApprenticeship, PM!TransitionToAdulthood,
       PM!Climb, PM!MayAdmin, PM!LockPhase3
  <2>3. PM!Next
    BY <1>2, <2>1 DEF PM!Next
  <2> QED BY <2>1, <2>2, <2>3, LedgerUntouched
<1>4. CASE tx = "ecAdulthood" \/ tx = "ecLock"
  <2>1. UNCHANGED pmVars
        /\ (EC!SetPhase(Operator, "Adulthood") \/ EC!LockPhase3(Operator))
    BY <1>1, <1>4 DEF Effect
  <2>2. EC!OwnerStep(Operator)
    BY <2>1 DEF EC!OwnerStep, EC!Phases
  <2>3. EC!LedgerNext
    BY <1>2, <2>2 DEF EC!LedgerNext
  <2> QED BY <2>1, <2>3 DEF pmVars, PM!vars
<1> QED BY <1>1, <1>3, <1>4 DEF Effect

\* Operation is a step of the ledger.
LEMMA OperationRefines ==
  ASSUME NEW caller \in Accounts, NEW amount \in Amounts,
         EnergyOperates(caller, amount)
  PROVE  EC!LedgerNext /\ UNCHANGED PM!vars
<1>1. UNCHANGED PM!vars
  BY DEF EnergyOperates, pmVars, PM!vars
<1>2. CASE \E s \in Signers, n \in Nonces :
             EC!SettleMarketLoss(s, n, amount, TRUE)
  BY <1>1, <1>2 DEF EC!LedgerNext
<1>3. CASE ~ \E s \in Signers, n \in Nonces :
               EC!SettleMarketLoss(s, n, amount, TRUE)
  <2>1. EC!OwnerStep(caller)
    BY <1>3 DEF EnergyOperates, EC!OwnerStep
  <2> QED BY <1>1, <2>1 DEF EC!LedgerNext
<1> QED BY <1>2, <1>3

\* So is what the operator does by hand, to either contract.
LEMMA ManualRefines ==
  ASSUME ManualAdmin \/ ManualSync
  PROVE  [EC!LedgerNext]_(EC!ledgerVars) /\ [PM!Next]_(PM!vars)
<1>1. Operator \in Accounts
  BY LaunchConstants DEF LaunchConstants
<1>2. CASE \E a \in Accounts : PM!SetOwner(Operator, a) /\ UNCHANGED ecVars
  <2>1. UNCHANGED EC!ledgerVars
    BY <1>2, LedgerUntouched DEF PM!SetOwner
  <2>2. PM!Next
    BY <1>1, <1>2 DEF PM!Next
  <2> QED BY <2>1, <2>2
<1>3. CASE UNCHANGED pmVars /\ EC!OwnerStep(Operator)
  BY <1>1, <1>3 DEF EC!LedgerNext, pmVars, PM!vars
<1>4. ManualSync => UNCHANGED pmVars /\ EC!OwnerStep(Operator)
  BY DEF ManualSync, EC!OwnerStep, EC!Phases
<1>5. ManualAdmin =>
        \/ \E a \in Accounts : PM!SetOwner(Operator, a) /\ UNCHANGED ecVars
        \/ UNCHANGED pmVars /\ EC!OwnerStep(Operator)
  BY DEF ManualAdmin, EC!OwnerStep, Managers
<1> QED BY <1>2, <1>3, <1>4, <1>5

\* An attempt that lands turns the manager desperate, as the ledger expects of
\* its environment.
LEMMA DispatchRefines ==
  ASSUME IInv, NEW caller \in Accounts, NEW b \in BOOLEAN,
         DispatchLands(caller, b)
  PROVE  EC!LedgerNext /\ PM!Next
<1>1. cyclesHeld \in Cycles
  BY LaunchConstants DEF DispatchLands, IInv, TypeInv, AgentBehind,
     LaunchConstants
<1>2. PM!EnterDesperateMode(caller, cyclesHeld) /\ UNCHANGED ecVars
  BY DEF DispatchLands
<1>3. EC!ManagerTurnsDesperate(Manager)
  BY <1>2 DEF EC!ManagerTurnsDesperate, PM!EnterDesperateMode, Managers,
     ecVars, EC!adminVars, EC!moneyVars
<1> QED BY <1>1, <1>2, <1>3 DEF EC!LedgerNext, PM!Next, Managers

\* Every other step leaves both contracts as they are.
LEMMA StepRefines ==
  IInv /\ [Next]_vars => [EC!LedgerNext]_(EC!ledgerVars) /\ [PM!Next]_(PM!vars)
<1> SUFFICES ASSUME IInv, [Next]_vars
             PROVE  [EC!LedgerNext]_(EC!ledgerVars) /\ [PM!Next]_(PM!vars)
  OBVIOUS
<1>1. CASE UNCHANGED <<pmVars, ecVars>>
  BY <1>1, LedgerUntouched DEF pmVars, PM!vars
<1>2. \/ UNCHANGED vars \/ RunAdvanceToApprenticeship \/ RunAdvanceToAdulthood
      \/ RunRenounce \/ TxsLost \/ SeePhase \/ DispatchFails \/ AgentRestarts
      \/ \E high, wired \in BOOLEAN : PressureTick(high, wired)
      => UNCHANGED <<pmVars, ecVars>>
  BY DEF vars, RunAdvanceToApprenticeship, RunAdvanceToAdulthood, RunRenounce,
     Broadcast, TxsLost, SeePhase, DispatchFails, AgentRestarts, PressureTick
<1> QED
  BY <1>1, <1>2, LandingRefines, OperationRefines, ManualRefines,
     DispatchRefines DEF Next

\* The composition meets the ledger's own specification, so everything proved
\* of the ledger holds of it during a launch.
THEOREM LedgerRefinement == Spec => LedgerRefined
<1>1. Init => EC!LedgerInit
  BY DEF Init
<1> QED
  BY <1>1, Invariant, StepRefines, PTL DEF Spec, LedgerRefined, EC!LedgerSpec

\* The composition meets the phase authority's specification too.
THEOREM AuthorityRefinement == Spec => PM!Spec
<1>1. Init => PM!Init
  BY DEF Init
<1> QED
  BY <1>1, Invariant, StepRefines, PTL DEF Spec, PM!Spec

\* The authority climbs one rung at a time and takes neither the climb nor its
\* two one-way bits back; its lock pins the owner.
THEOREM OneWayClimb == Spec => PM!OneWay
<1>1. IInv /\ [PM!Next]_(PM!vars) =>
        [/\ PM!PhaseOrder[pmPhase'] \in
              {PM!PhaseOrder[pmPhase], PM!PhaseOrder[pmPhase] + 1}
         /\ pmDesperate => pmDesperate'
         /\ pmLocked => pmLocked' /\ pmOwner' = pmOwner]_(PM!vars)
  BY DEF PM!Next, PM!TransitionToApprenticeship, PM!TransitionToAdulthood,
     PM!Climb, PM!MayAdmin, PM!EnterDesperateMode, PM!SetOwner, PM!LockPhase3,
     PM!vars, PM!PhaseOrder
<1> QED
  BY <1>1, Invariant, StepRefines, PTL DEF Spec, PM!OneWay

=============================================================================
