---------------------------- MODULE RhChainAdapter ----------------------------
(***************************************************************************)
(* The RPC chain adapter (agent/runtime/rh_chain_adapter.py) between the   *)
(* settlement poller's retry loop and the energy controller.               *)
(*                                                                         *)
(* One update of the breath takes several RPC round trips; a transaction   *)
(* of an earlier attempt, or of an earlier process, can land between any   *)
(* two.  The account nonce of a transaction is the count of mined ones     *)
(* (eth_getTransactionCount, "latest"), so at most one of the account's    *)
(* transactions waits in the node: slot.  A second one under the same      *)
(* account nonce replaces it or is refused, as the node likes.             *)
(*                                                                         *)
(* The attestation nonce is the adapter's own counter, which starts at     *)
(* zero in every process.  The ledger is EnergyController's, initialised,  *)
(* owned by the adapter's account and out of its admin's hands.            *)
(***************************************************************************)
EXTENDS Integers, FiniteSets

CONSTANTS
  Agent, None,
  InitialBreath, MaxBreath,
  Amounts,      \* wei of a PnL; 0 is one that rounds to no wei at all
  Attempts,     \* 1 + len(CHAIN_RETRY_DELAYS)
  NumBets, MaxRestarts  \* bounds: updates asked for, process restarts

ASSUME AdapterConstants ==
  /\ MaxBreath \in Nat /\ InitialBreath \in 0..MaxBreath
  /\ Amounts \subseteq 0..MaxBreath
  /\ Attempts \in Nat \ {0} /\ {NumBets, MaxRestarts} \subseteq Nat
  /\ Agent # None

VARIABLES
  \* the chain
  breath, usedNonces,
  applied,     \* history: see EnergyController
  txCount,     \* mined transactions of the account
  slot,        \* its transaction in the node, or NoTx
  \* the process
  pc, bet, attempt, nextNonce,
  tx,          \* the call of this attempt
  count,       \* the account nonce it read
  awaited,     \* slot is the transaction of this attempt
  outcome,     \* what became of it: "pending", "ok", "reverted"
  \* per bet: what the poller knows, and what really happened
  status,
  charged,     \* history: landed transactions of b
  abandoned,   \* history: attempts of b that sent, and never heard the outcome
  refused,     \* history: ReplayAttemptErrors of this process
  restarts

chainVars == <<breath, usedNonces, applied, txCount>>
callVars == <<tx, count>>
tallyVars == <<charged, abandoned, refused, restarts>>
vars == <<chainVars, slot, pc, bet, attempt, nextNonce, callVars, awaited,
          outcome, status, tallyVars>>

Bets == 1..NumBets
Nonces == 0..(NumBets * Attempts - 1)
NoTx == [loss |-> FALSE, wei |-> 0, nonce |-> 0, bet |-> 0]
Txs == [loss : BOOLEAN, wei : Amounts, nonce : Nonces, bet : Bets]

\* The rest of the controller's storage, which no step below moves.
Storage ==
  [account |-> Agent, manager |-> None, initial |-> InitialBreath,
   max |-> MaxBreath, set |-> TRUE, clear |-> FALSE, bankroll |-> 0,
   phase |-> "Apprenticeship", desperate |-> <<>>]

EC == INSTANCE EnergyController WITH
        Accounts <- {Agent}, Signers <- {Agent}, Managers <- {},
        UintMax <- MaxBreath,
        owner <- Storage.account, attestationSigner <- Storage.account,
        phaseManager <- Storage.manager, currentPhase <- Storage.phase,
        initialBreath <- Storage.initial, maxBreath <- Storage.max,
        initialized <- Storage.set, paused <- Storage.clear,
        phase3Locked <- Storage.clear, bankroll <- Storage.bankroll,
        desperate <- Storage.desperate

-----------------------------------------------------------------------------
(* Helpers *)

\* The controller takes the call in its current state.
CallSucceeds(t) ==
  /\ t.wei # 0
  /\ t.loss => t.wei <= breath /\ t.nonce \notin usedNonces[Agent]

\* An attempt raised: back off and try again, or give the update up.
Fail ==
  IF attempt < Attempts
  THEN attempt' = attempt + 1 /\ pc' = "start" /\ UNCHANGED status
  ELSE /\ pc' = "idle" /\ UNCHANGED attempt
       /\ status' = [status EXCEPT ![bet] = "failed"]

Abandon(b) == abandoned' = [abandoned EXCEPT ![b] = @ + 1]

-----------------------------------------------------------------------------
Init ==
  /\ breath = InitialBreath
  /\ usedNonces = [s \in {Agent} |-> {}]
  /\ applied = [s \in {Agent} |-> [n \in Nonces |-> 0]]
  /\ txCount = 0 /\ slot = NoTx
  /\ pc = "idle" /\ bet = 0 /\ attempt = 1 /\ nextNonce = 0
  /\ tx = NoTx /\ count = 0 /\ awaited = FALSE /\ outcome = "pending"
  /\ status = [b \in Bets |-> "new"]
  /\ charged = [b \in Bets |-> 0] /\ abandoned = [b \in Bets |-> 0]
  /\ refused = 0 /\ restarts = 0

\* The poller hands over the PnL of the next settled bet; one of zero
\* returns at once and is left out.
UpdateBreath(loss, wei) ==
  /\ pc = "idle" /\ bet < NumBets
  /\ bet' = bet + 1
  /\ tx' = [loss |-> loss, wei |-> wei, nonce |-> 0, bet |-> bet + 1]
  /\ status' = [status EXCEPT ![bet + 1] = "running"]
  /\ attempt' = 1 /\ pc' = "start"
  /\ UNCHANGED <<chainVars, slot, nextNonce, count, awaited, outcome, tallyVars>>

\* Mutant: the nonce is consumed only once it is known to be free.
ConsumeFreeNonce ==
  /\ pc = "start"
  /\ IF ~tx.loss
     THEN /\ pc' = "count"
          /\ UNCHANGED <<tx, nextNonce, attempt, status, refused>>
     ELSE /\ tx' = [tx EXCEPT !.nonce = nextNonce]
          /\ IF nextNonce \in usedNonces[Agent]
             THEN Fail /\ refused' = refused + 1 /\ UNCHANGED nextNonce
             ELSE /\ nextNonce' = nextNonce + 1 /\ pc' = "count"
                  /\ UNCHANGED <<attempt, status, refused>>
  /\ UNCHANGED <<chainVars, slot, bet, count, awaited, outcome, charged,
                 abandoned, restarts>>

\* A loss is signed under the next nonce, used up whatever follows, and the
\* ledger is asked whether it knows that nonce.  A gain needs none.
ConsumeNonce ==
  /\ pc = "start"
  /\ IF ~tx.loss
     THEN /\ pc' = "count"
          /\ UNCHANGED <<tx, nextNonce, attempt, status, refused>>
     ELSE /\ nextNonce' = nextNonce + 1
          /\ tx' = [tx EXCEPT !.nonce = nextNonce]
          /\ IF nextNonce \in usedNonces[Agent]
             THEN Fail /\ refused' = refused + 1
             ELSE pc' = "count" /\ UNCHANGED <<attempt, status, refused>>
  /\ UNCHANGED <<chainVars, slot, bet, count, awaited, outcome, charged,
                 abandoned, restarts>>

ReadTxCount ==
  /\ pc = "count" /\ pc' = "build"
  /\ count' = txCount
  /\ UNCHANGED <<chainVars, slot, bet, attempt, nextNonce, tx, awaited, outcome,
                 status, tallyVars>>

\* Building estimates the gas, which fails if the call would revert now.
Build ==
  /\ pc = "build"
  /\ IF CallSucceeds(tx) THEN pc' = "send" /\ UNCHANGED <<attempt, status>>
                         ELSE Fail
  /\ UNCHANGED <<chainVars, slot, bet, nextNonce, callVars, awaited, outcome,
                 tallyVars>>

\* A read on the way to the node fails; the nonce stays consumed.
RpcFails ==
  /\ pc \in {"count", "build", "send"}
  /\ Fail
  /\ UNCHANGED <<chainVars, slot, bet, nextNonce, callVars, awaited, outcome,
                 tallyVars>>

\* The node takes the transaction, in place of a waiting one if need be, and
\* the adapter waits for the receipt, unless the node's answer is lost.
Send(heard) ==
  /\ pc = "send" /\ count = txCount
  /\ slot' = tx
  /\ awaited' = heard
  /\ outcome' = "pending"
  /\ IF heard THEN pc' = "wait" /\ UNCHANGED <<attempt, status, abandoned>>
              ELSE Fail /\ Abandon(bet)
  /\ UNCHANGED <<chainVars, bet, nextNonce, callVars, charged, refused,
                 restarts>>

\* Mutant: a receipt is a success, whatever its status.
ReceiptUnread ==
  /\ pc = "wait" /\ outcome # "pending"
  /\ pc' = "idle"
  /\ status' = [status EXCEPT ![bet] = "ok"]
  /\ UNCHANGED <<chainVars, slot, bet, attempt, nextNonce, callVars, awaited,
                 outcome, tallyVars>>

Receipt ==
  /\ pc = "wait"
  /\ \/ /\ outcome = "ok" /\ pc' = "idle" /\ UNCHANGED attempt
        /\ status' = [status EXCEPT ![bet] = "ok"]
     \/ outcome = "reverted" /\ Fail
  /\ UNCHANGED <<chainVars, slot, bet, nextNonce, callVars, awaited, outcome,
                 tallyVars>>

\* Mutant: the wait for a receipt has no end.
TimeoutOnceMined ==
  /\ pc = "wait" /\ outcome # "pending" /\ Fail
  /\ awaited' = FALSE
  /\ Abandon(bet)
  /\ UNCHANGED <<chainVars, slot, bet, nextNonce, callVars, outcome, charged,
                 refused, restarts>>

\* The receipt does not come in time, mined or not.
Timeout ==
  /\ pc = "wait" /\ Fail
  /\ awaited' = FALSE
  /\ Abandon(bet)
  /\ UNCHANGED <<chainVars, slot, bet, nextNonce, callVars, outcome, charged,
                 refused, restarts>>

-----------------------------------------------------------------------------
(* The chain, and the process ending *)

\* The waiting transaction is mined.  One that nobody waits for any more may
\* find its attestation past the deadline, and any may run out of the gas that
\* the provider's estimate gave it.
Mine(live, gas) ==
  /\ slot # NoTx
  /\ slot' = NoTx /\ txCount' = txCount + 1
  /\ awaited => live
  /\ IF CallSucceeds(slot) /\ (slot.loss => live) /\ gas
     THEN /\ IF slot.loss
             THEN EC!SettleMarketLoss(Agent, slot.nonce, slot.wei, live)
             ELSE EC!TopUpBreath(Agent, slot.wei) /\ UNCHANGED applied
          /\ charged' = [charged EXCEPT ![slot.bet] = @ + 1]
          /\ outcome' = IF awaited THEN "ok" ELSE outcome
     ELSE /\ outcome' = IF awaited THEN "reverted" ELSE outcome
          /\ UNCHANGED <<breath, usedNonces, applied, charged>>
  /\ awaited' = FALSE
  /\ UNCHANGED <<pc, bet, attempt, nextNonce, callVars, status, abandoned,
                 refused, restarts>>

\* The node drops a transaction it never mined.
Dropped ==
  /\ slot # NoTx /\ slot' = NoTx /\ awaited' = FALSE
  /\ UNCHANGED <<chainVars, pc, bet, attempt, nextNonce, callVars, outcome,
                 status, tallyVars>>

\* A crash and a new process.  The bet's status flip is on disk before its
\* breath update, so the update under way is never taken up again.
Restart ==
  /\ restarts < MaxRestarts /\ restarts' = restarts + 1
  /\ pc' = "idle" /\ nextNonce' = 0 /\ awaited' = FALSE /\ refused' = 0
  /\ IF pc = "idle" THEN UNCHANGED status
                    ELSE status' = [status EXCEPT ![bet] = "cut"]
  /\ IF pc = "wait" THEN Abandon(bet) ELSE UNCHANGED abandoned
  /\ UNCHANGED <<chainVars, slot, bet, attempt, callVars, outcome, charged>>

Adapter ==
  \/ ConsumeNonce \/ ReadTxCount \/ Build \/ RpcFails
  \/ \E heard \in BOOLEAN : Send(heard)
  \/ Receipt \/ Timeout

Next ==
  \/ \E loss \in BOOLEAN, wei \in Amounts : UpdateBreath(loss, wei)
  \/ Adapter
  \/ \E live, gas \in BOOLEAN : Mine(live, gas)
  \/ Dropped \/ Restart

\* Every RPC call and the wait for a receipt have a timeout, so an update
\* under way goes on.  The chain owes nothing.
Spec == Init /\ [][Next]_vars /\ WF_vars(Adapter)

-----------------------------------------------------------------------------
(* Properties *)

\* An update reported to the poller as done moved the ledger, and beyond
\* that one move every other charge of a bet is an attempt whose outcome was
\* never heard: without lost receipts no bet is charged twice, and without
\* them none that is reported failed is charged at all.
ChargesAccounted ==
  \A b \in Bets :
    /\ status[b] = "ok" => charged[b] >= 1
    /\ charged[b] <= abandoned[b]
         + IF status[b] = "ok" \/ (b = bet /\ pc = "wait") THEN 1 ELSE 0

\* A restarted adapter hands out old nonces again, and each attempt that
\* draws one is refused, but the refusals end: a process meets no more of
\* them than the ledger has used nonces.
RefusalsBounded == refused <= Cardinality(usedNonces[Agent])

\* An update ends, charged or given up, whatever the node and the chain do.
UpdateEnds ==
  \A b \in Bets : status[b] = "running" ~> status[b] # "running"

\* What the adapter says of its counter: "We never re-use a nonce; ... the
\* on-chain mapping cannot accidentally lock the signer out".
SignerNotLockedOut == refused = 0

=============================================================================
