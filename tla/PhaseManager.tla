----------------------------- MODULE PhaseManager -----------------------------
(***************************************************************************)
(* The phase authority (contracts/PhaseManager.sol): a one-way climb       *)
(* Childhood -> Apprenticeship -> Adulthood, the sticky Desperate Mode bit *)
(* and the one-way admin lock.                                             *)
(***************************************************************************)
EXTENDS Integers

CONSTANTS
  Accounts,  \* accounts that may own or call the contract
  Cycles     \* values of cyclesHeld that callers report

VARIABLES owner, currentPhase, desperateMode, phase3Locked

vars == <<owner, currentPhase, desperateMode, phase3Locked>>

PhaseOrder == [Childhood |-> 0, Apprenticeship |-> 1, Adulthood |-> 2]
Phases == DOMAIN PhaseOrder

MinPressureCycles == 2

Init ==
  /\ owner \in Accounts
  /\ currentPhase = "Childhood"
  /\ desperateMode = FALSE
  /\ phase3Locked = FALSE

\* onlyOwner whenNotPhase3Locked.
MayAdmin(caller) == caller = owner /\ ~phase3Locked

Climb(caller, from, to) ==
  /\ MayAdmin(caller)
  /\ currentPhase = from
  /\ currentPhase' = to
  /\ UNCHANGED <<owner, desperateMode, phase3Locked>>

TransitionToApprenticeship(caller) ==
  Climb(caller, "Childhood", "Apprenticeship")

TransitionToAdulthood(caller) == Climb(caller, "Apprenticeship", "Adulthood")

\* Deliberately not whenNotPhase3Locked: it is operational, not admin.
EnterDesperateMode(caller, cyclesHeld) ==
  /\ caller = owner
  /\ currentPhase = "Adulthood"
  /\ cyclesHeld >= MinPressureCycles
  /\ ~desperateMode
  /\ desperateMode' = TRUE
  /\ UNCHANGED <<owner, currentPhase, phase3Locked>>

\* address(0) is refused, so the next owner is an account.
SetOwner(caller, newOwner) ==
  /\ MayAdmin(caller)
  /\ newOwner \in Accounts
  /\ owner' = newOwner
  /\ UNCHANGED <<currentPhase, desperateMode, phase3Locked>>

\* Mutant: the lock clears Desperate Mode.
LockPhase3Resets(caller) ==
  /\ MayAdmin(caller)
  /\ currentPhase = "Adulthood"
  /\ phase3Locked' = TRUE /\ desperateMode' = FALSE
  /\ UNCHANGED <<owner, currentPhase>>

LockPhase3(caller) ==
  /\ MayAdmin(caller)
  /\ currentPhase = "Adulthood"
  /\ phase3Locked' = TRUE
  /\ UNCHANGED <<owner, currentPhase, desperateMode>>

Next ==
  \E caller \in Accounts :
    \/ TransitionToApprenticeship(caller)
    \/ TransitionToAdulthood(caller)
    \/ \E n \in Cycles : EnterDesperateMode(caller, n)
    \/ \E a \in Accounts : SetOwner(caller, a)
    \/ LockPhase3(caller)

Spec == Init /\ [][Next]_vars

-----------------------------------------------------------------------------
(* Properties *)

\* Every state variable keeps the type its Solidity declaration gives it.
TypeOK ==
  /\ owner \in Accounts
  /\ currentPhase \in Phases
  /\ desperateMode \in BOOLEAN
  /\ phase3Locked \in BOOLEAN

\* The climb takes one rung at a time and neither it nor the two one-way bits
\* are ever taken back; the lock also pins the owner.
OneWay ==
  [][/\ PhaseOrder[currentPhase'] \in
          {PhaseOrder[currentPhase], PhaseOrder[currentPhase] + 1}
     /\ desperateMode => desperateMode'
     /\ phase3Locked => phase3Locked' /\ owner' = owner]_vars

=============================================================================
