------------------------- MODULE RhChainAdapterProofs -------------------------
(***************************************************************************)
(* Proofs about the RPC chain adapter, for any number of updates, attempts *)
(* and restarts: what a bet was charged is accounted for by what its       *)
(* attempts heard, and the refusals a restart brings are bounded.          *)
(***************************************************************************)
EXTENDS RhChainAdapter, FiniteSetTheorems, TLAPS

Calls == [loss : BOOLEAN, wei : Nat, nonce : Nat, bet : Nat]

-----------------------------------------------------------------------------
(* Types of what the calls carry *)

CallInv ==
  /\ nextNonce \in Nat
  /\ tx \in Calls /\ slot \in Calls
  /\ tx.bet = bet
  /\ slot = NoTx \/ slot.bet \in Bets
  /\ bet \in 0..NumBets
  /\ pc # "idle" => bet \in Bets

\* Every step keeps the shape of the call in progress.
LEMMA CallStep ==
  ASSUME CallInv, [Next]_vars
  PROVE  CallInv'
<1> USE AdapterConstants DEF AdapterConstants, Bets, chainVars, callVars, tallyVars
<1>1. ASSUME NEW loss \in BOOLEAN, NEW wei \in Amounts, UpdateBreath(loss, wei)
      PROVE  CallInv'
  <2>1. tx' = [loss |-> loss, wei |-> wei, nonce |-> 0, bet |-> bet + 1]
        /\ bet' = bet + 1 /\ bet < NumBets /\ UNCHANGED <<slot, nextNonce>>
    BY <1>1 DEF UpdateBreath
  <2>2. bet' \in Bets /\ wei \in Nat
    BY <2>1 DEF CallInv
  <2>3. tx' \in Calls /\ tx'.bet = bet'
    BY <2>1, <2>2 DEF Calls
  <2> QED BY <2>1, <2>2, <2>3 DEF CallInv
<1>2. CASE ConsumeNonce
  <2>1. UNCHANGED <<slot, bet>> /\ bet \in Bets
    BY <1>2 DEF ConsumeNonce, CallInv
  <2>2. nextNonce' \in Nat
    BY <1>2 DEF ConsumeNonce, CallInv
  <2>3. tx' = tx \/ tx' = [tx EXCEPT !.nonce = nextNonce]
    BY <1>2 DEF ConsumeNonce
  <2>4. tx' \in Calls /\ tx'.bet = tx.bet
    BY <2>3 DEF CallInv, Calls
  <2> QED BY <2>1, <2>2, <2>4 DEF CallInv
<1>3. CASE ReadTxCount \/ Build \/ RpcFails \/ Receipt \/ Timeout
  <2>1. UNCHANGED <<slot, bet, tx, nextNonce>>
    BY <1>3 DEF ReadTxCount, Build, RpcFails, Receipt, Timeout
  <2>2. pc # "idle"
    BY <1>3 DEF ReadTxCount, Build, RpcFails, Receipt, Timeout
  <2> QED BY <2>1, <2>2 DEF CallInv
<1>4. ASSUME NEW heard \in BOOLEAN, Send(heard)
      PROVE  CallInv'
  <2>1. slot' = tx /\ pc = "send" /\ UNCHANGED <<bet, tx, nextNonce>>
    BY <1>4 DEF Send
  <2> QED BY <2>1 DEF CallInv
<1>5. ASSUME NEW live \in BOOLEAN, NEW gas \in BOOLEAN, Mine(live, gas)
      PROVE  CallInv'
  <2>1. slot' = NoTx /\ UNCHANGED <<bet, tx, nextNonce, pc>>
    BY <1>5 DEF Mine
  <2>2. NoTx \in Calls
    BY DEF NoTx, Calls
  <2> QED BY <2>1, <2>2 DEF CallInv
<1>6. CASE Dropped
  <2>1. slot' = NoTx /\ UNCHANGED <<bet, tx, nextNonce, pc>>
    BY <1>6 DEF Dropped
  <2>2. NoTx \in Calls
    BY DEF NoTx, Calls
  <2> QED BY <2>1, <2>2 DEF CallInv
<1>7. CASE Restart
  BY <1>7 DEF Restart, CallInv
<1>8. CASE UNCHANGED vars
  BY <1>8 DEF vars, CallInv
<1> QED
  BY <1>1, <1>2, <1>3, <1>4, <1>5, <1>6, <1>7, <1>8 DEF Next, Adapter

\* No call is in progress at first.
LEMMA CallInit == Init => CallInv
<1> SUFFICES ASSUME Init
             PROVE  CallInv
  OBVIOUS
<1>1. NoTx \in Calls /\ NoTx.bet = 0
  BY DEF NoTx, Calls
<1> QED BY <1>1, AdapterConstants DEF Init, CallInv, AdapterConstants

-----------------------------------------------------------------------------
(* Refusals *)

\* Each refusal of this process is a used nonce the counter has passed.
RefusalInv ==
  /\ usedNonces \in [{Agent} -> SUBSET Nat] /\ IsFiniteSet(usedNonces[Agent])
  /\ refused \in Nat
  /\ refused <= Cardinality(usedNonces[Agent] \cap 0..(nextNonce - 1))

\* A refusal moves the counter past one used nonce more.
LEMMA RefusalStep ==
  ASSUME CallInv, RefusalInv, [Next]_vars
  PROVE  RefusalInv'
<1> USE DEF chainVars, callVars, tallyVars
<1> DEFINE Met == usedNonces[Agent] \cap 0..(nextNonce - 1)
<1>0. IsFiniteSet(Met) /\ Cardinality(Met) \in Nat
  BY FS_Subset, FS_CardinalityType DEF RefusalInv
<1>1. CASE UNCHANGED <<usedNonces, refused, nextNonce>>
  BY <1>1 DEF RefusalInv
<1>2. CASE ConsumeNonce
  <2>1. UNCHANGED usedNonces
    BY <1>2 DEF ConsumeNonce
  <2>2. CASE UNCHANGED <<nextNonce, refused>>
    BY <1>1, <2>1, <2>2
  <2>3. CASE nextNonce' = nextNonce + 1 /\ refused' = refused
    <3>1. Met \subseteq usedNonces[Agent] \cap 0..(nextNonce' - 1)
      BY <2>3 DEF CallInv
    <3>2. IsFiniteSet(usedNonces[Agent] \cap 0..(nextNonce' - 1))
      BY FS_Subset DEF RefusalInv
    <3>3. Cardinality(Met) <= Cardinality(usedNonces[Agent] \cap 0..(nextNonce' - 1))
      BY <3>1, <3>2, FS_Subset
    <3>4. Cardinality(usedNonces[Agent] \cap 0..(nextNonce' - 1)) \in Nat
      BY <3>2, FS_CardinalityType
    <3> HIDE DEF Met
    <3>5. refused <= Cardinality(Met)
      BY DEF RefusalInv, Met
    <3>6. refused <= Cardinality(usedNonces[Agent] \cap 0..(nextNonce' - 1))
      BY <1>0, <3>3, <3>4, <3>5 DEF RefusalInv
    <3> QED BY <2>1, <2>3, <3>6 DEF RefusalInv
  <2>4. CASE /\ nextNonce' = nextNonce + 1 /\ refused' = refused + 1
             /\ nextNonce \in usedNonces[Agent]
    <3>1. usedNonces[Agent] \cap 0..(nextNonce' - 1) = Met \cup {nextNonce}
          /\ nextNonce \notin Met
      BY <2>4 DEF CallInv
    <3>2. Cardinality(Met \cup {nextNonce}) = Cardinality(Met) + 1
      BY <1>0, <3>1, FS_AddElement
    <3> HIDE DEF Met
    <3>3. refused <= Cardinality(Met) /\ refused \in Nat
      BY DEF RefusalInv, Met
    <3>a. refused' <= Cardinality(Met \cup {nextNonce}) /\ refused' \in Nat
      BY <1>0, <2>4, <3>2, <3>3
    <3>4. refused' \in Nat
          /\ refused' <= Cardinality(usedNonces[Agent] \cap 0..(nextNonce' - 1))
      BY <3>1, <3>a
    <3> QED BY <2>1, <3>4 DEF RefusalInv
  <2> QED BY <1>2, <2>2, <2>3, <2>4 DEF ConsumeNonce
<1>3. CASE Restart
  <2>1. UNCHANGED usedNonces /\ refused' = 0 /\ nextNonce' = 0
    BY <1>3 DEF Restart
  <2>2. usedNonces[Agent] \cap 0..(nextNonce' - 1) = {}
    BY <2>1
  <2> QED BY <2>1, <2>2, FS_EmptySet DEF RefusalInv
<1>4. ASSUME NEW live \in BOOLEAN, NEW gas \in BOOLEAN, Mine(live, gas)
      PROVE  RefusalInv'
  <2>1. UNCHANGED <<refused, nextNonce>>
    BY <1>4 DEF Mine
  <2>2. CASE UNCHANGED usedNonces
    BY <1>1, <2>1, <2>2
  <2>3. CASE usedNonces' = [usedNonces EXCEPT ![Agent] = usedNonces[Agent] \cup {slot.nonce}]
    <3>1. usedNonces'[Agent] = usedNonces[Agent] \cup {slot.nonce} /\ slot.nonce \in Nat
      BY <2>3 DEF RefusalInv, CallInv, Calls
    <3>2. IsFiniteSet(usedNonces'[Agent])
      BY <3>1, FS_AddElement DEF RefusalInv
    <3>3. usedNonces' \in [{Agent} -> SUBSET Nat]
      BY <2>3, <3>1 DEF RefusalInv
    <3>4. IsFiniteSet(usedNonces'[Agent] \cap 0..(nextNonce - 1))
      BY <3>2, FS_Subset
    <3>5. Met \subseteq usedNonces'[Agent] \cap 0..(nextNonce - 1)
      BY <3>1
    <3>6. /\ Cardinality(Met) <= Cardinality(usedNonces'[Agent] \cap 0..(nextNonce - 1))
          /\ Cardinality(usedNonces'[Agent] \cap 0..(nextNonce - 1)) \in Nat
      BY <3>4, <3>5, FS_Subset, FS_CardinalityType
    <3>7. refused <= Cardinality(Met)
      BY DEF RefusalInv
    <3> HIDE DEF Met
    <3>8. refused <= Cardinality(usedNonces'[Agent] \cap 0..(nextNonce - 1))
      BY <1>0, <3>6, <3>7 DEF RefusalInv
    <3> QED BY <2>1, <3>2, <3>3, <3>8 DEF RefusalInv
  <2>4. UNCHANGED usedNonces
        \/ usedNonces' = [usedNonces EXCEPT ![Agent] = usedNonces[Agent] \cup {slot.nonce}]
    <3>1. EC!TopUpBreath(Agent, slot.wei) => UNCHANGED usedNonces
      BY DEF EC!TopUpBreath
    <3>2. EC!SettleMarketLoss(Agent, slot.nonce, slot.wei, live) =>
            usedNonces' = [usedNonces EXCEPT ![Agent] = usedNonces[Agent] \cup {slot.nonce}]
      BY DEF EC!SettleMarketLoss
    <3> QED BY <1>4, <3>1, <3>2 DEF Mine
  <2> QED BY <2>2, <2>3, <2>4
<1>5. ASSUME NEW loss \in BOOLEAN, NEW wei \in Amounts, UpdateBreath(loss, wei)
      PROVE  RefusalInv'
  BY <1>1, <1>5 DEF UpdateBreath
<1>6. CASE ReadTxCount \/ Build \/ RpcFails \/ Receipt \/ Timeout \/ Dropped
  BY <1>1, <1>6 DEF ReadTxCount, Build, RpcFails, Receipt, Timeout, Dropped
<1>7. ASSUME NEW heard \in BOOLEAN, Send(heard)
      PROVE  RefusalInv'
  BY <1>1, <1>7 DEF Send
<1>8. CASE UNCHANGED vars
  BY <1>1, <1>8 DEF vars
<1> QED
  BY <1>2, <1>3, <1>4, <1>5, <1>6, <1>7, <1>8 DEF Next, Adapter

\* A restarted adapter draws old nonces again; it meets no more refusals than
\* the ledger has used nonces (settle_market_loss, isNonceUsed).
THEOREM RefusalsEnd == Spec => []RefusalsBounded
<1>1. Init => CallInv /\ RefusalInv
  <2> SUFFICES ASSUME Init
               PROVE  RefusalInv
    BY CallInit
  <2>1. usedNonces = [s \in {Agent} |-> {}] /\ refused = 0 /\ nextNonce = 0
    BY DEF Init
  <2>2. usedNonces[Agent] = {} /\ usedNonces[Agent] \cap 0..(nextNonce - 1) = {}
    BY <2>1
  <2> QED BY <2>1, <2>2, FS_EmptySet DEF RefusalInv
<1>2. CallInv /\ RefusalInv /\ [Next]_vars => CallInv' /\ RefusalInv'
  BY CallStep, RefusalStep
<1>3. RefusalInv => RefusalsBounded
  <2> SUFFICES ASSUME RefusalInv
               PROVE  RefusalsBounded
    OBVIOUS
  <2> DEFINE Met == usedNonces[Agent] \cap 0..(nextNonce - 1)
  <2>1. /\ Cardinality(Met) <= Cardinality(usedNonces[Agent]) /\ IsFiniteSet(Met)
        /\ Cardinality(usedNonces[Agent]) \in Nat
    BY FS_Subset, FS_CardinalityType DEF RefusalInv
  <2>2. Cardinality(Met) \in Nat
    BY <2>1, FS_CardinalityType
  <2>3. refused \in Nat /\ refused <= Cardinality(Met)
    BY DEF RefusalInv
  <2> HIDE DEF Met
  <2> QED BY <2>1, <2>2, <2>3 DEF RefusalsBounded
<1> QED BY <1>1, <1>2, <1>3, PTL DEF Spec

-----------------------------------------------------------------------------
(* Charges *)

\* The poller will hear, or has heard, that an attempt for b succeeded.
Credited(b) ==
  status[b] = "ok" \/ (b = bet /\ pc = "wait" /\ (awaited \/ outcome = "ok"))

InSlot(b) == IF slot.bet = b THEN 1 ELSE 0
Credit(b) == IF Credited(b) THEN 1 ELSE 0

\* A transaction that has landed or still may is one whose success is heard of,
\* or one whose outcome never is.
ChargeInv ==
  /\ status \in [Bets -> {"new", "running", "ok", "failed", "cut"}]
  /\ charged \in [Bets -> Nat] /\ abandoned \in [Bets -> Nat]
  /\ \A b \in Bets : b > bet => status[b] = "new"
  /\ pc # "idle" => status[bet] = "running"
  /\ awaited => /\ pc = "wait" /\ outcome = "pending"
                /\ slot # NoTx /\ slot.bet = bet
  /\ \A b \in Bets : charged[b] + InSlot(b) <= abandoned[b] + Credit(b)
  /\ \A b \in Bets : status[b] = "ok" => charged[b] >= 1
  /\ pc = "wait" /\ outcome = "ok" => charged[bet] >= 1

\* A step of the adapter before it sends, or the giving up of an update.
LEMMA CalmStep ==
  ASSUME CallInv, ChargeInv, UNCHANGED <<slot, bet, awaited, charged, abandoned>>,
         pc # "idle", pc' # "wait", ~awaited, pc = "wait" => outcome # "ok",
         \/ status' = status /\ pc' # "idle"
         \/ status' = [status EXCEPT ![bet] = "failed"] /\ pc' = "idle"
  PROVE  ChargeInv'
<1>1. bet \in Bets /\ status[bet] = "running"
  BY DEF CallInv, ChargeInv
<1>2. \A b \in Bets : (status'[b] = "ok") <=> (status[b] = "ok")
  BY <1>1 DEF ChargeInv
<1>3. \A b \in Bets : InSlot(b)' = InSlot(b) /\ (Credited(b)' <=> Credited(b))
  BY <1>2 DEF InSlot, Credited
<1>4. \A b \in Bets : Credit(b)' = Credit(b)
  BY <1>3 DEF Credit
<1>5. /\ status' \in [Bets -> {"new", "running", "ok", "failed", "cut"}]
      /\ \A b \in Bets : b > bet => status'[b] = "new"
  BY <1>1, AdapterConstants DEF ChargeInv, CallInv, Bets, AdapterConstants
<1>6. pc' # "idle" => status'[bet'] = "running"
  BY <1>1
<1> QED BY <1>2, <1>3, <1>4, <1>5, <1>6 DEF ChargeInv

\* An attempt whose outcome will never be heard.
LEMMA AbandonStep ==
  ASSUME CallInv, ChargeInv, pc # "idle", pc' # "wait",
         bet' = bet, ~awaited', charged' = charged, Abandon(bet),
         \/ slot' = slot
         \/ slot' = tx /\ pc # "wait",
         \/ status' = status /\ pc' # "idle"
         \/ \E how \in {"failed", "cut"} :
              status' = [status EXCEPT ![bet] = how] /\ pc' = "idle"
  PROVE  ChargeInv'
<1>1. bet \in Bets /\ status[bet] = "running" /\ tx.bet = bet
  BY DEF CallInv, ChargeInv
<1>2. /\ \A b \in Bets : (status'[b] = "ok") <=> (status[b] = "ok")
      /\ status' \in [Bets -> {"new", "running", "ok", "failed", "cut"}]
      /\ \A b \in Bets : b > bet => status'[b] = "new"
  BY <1>1, AdapterConstants DEF ChargeInv, CallInv, Bets, AdapterConstants
<1>3. \A b \in Bets : abandoned'[b] = IF b = bet THEN abandoned[b] + 1 ELSE abandoned[b]
  BY <1>1 DEF Abandon, ChargeInv
<1>4. abandoned' \in [Bets -> Nat]
  BY <1>1 DEF Abandon, ChargeInv
<1>5. ASSUME NEW b \in Bets
      PROVE  charged'[b] + InSlot(b)' <= abandoned'[b] + Credit(b)'
  <2>1. charged[b] + InSlot(b) <= abandoned[b] + Credit(b)
        /\ charged[b] \in Nat /\ abandoned[b] \in Nat
    BY DEF ChargeInv
  <2>2. Credited(b)' <=> status[b] = "ok"
    BY <1>2 DEF Credited
  <2>3. CASE b # bet
    <3>1. Credited(b) <=> status[b] = "ok"
      BY <2>3 DEF Credited
    <3>2. Credit(b)' = Credit(b)
      BY <2>2, <3>1 DEF Credit
    <3>3. InSlot(b)' <= InSlot(b) /\ InSlot(b)' \in Nat /\ InSlot(b) \in Nat
      BY <1>1, <2>3 DEF InSlot
    <3> QED BY <1>3, <2>1, <2>3, <3>2, <3>3 DEF Credit
  <2>4. CASE b = bet
    <3>1. Credit(b)' = 0 /\ abandoned'[b] = abandoned[b] + 1
      BY <1>1, <1>3, <2>2, <2>4 DEF Credit
    <3>2. charged[b] + InSlot(b)' <= abandoned[b] + 1
      <4>1. CASE pc = "wait"
        <5>1. InSlot(b)' = InSlot(b)
          BY <4>1 DEF InSlot
        <5> QED BY <2>1, <5>1 DEF Credit, InSlot
      <4>2. CASE pc # "wait"
        <5>1. Credit(b) = 0
          BY <1>1, <2>4, <4>2 DEF Credit, Credited
        <5> QED BY <2>1, <5>1 DEF InSlot
      <4> QED BY <4>1, <4>2
    <3>3. InSlot(b)' \in {0, 1} /\ charged'[b] = charged[b]
      BY DEF InSlot
    <3> QED BY <2>1, <3>1, <3>2, <3>3
  <2> QED BY <2>3, <2>4
<1>6. pc' # "idle" => status'[bet'] = "running"
  BY <1>1
<1> QED BY <1>2, <1>4, <1>5, <1>6 DEF ChargeInv

\* A mined transaction is charged once and leaves the node.
LEMMA MineStep ==
  ASSUME CallInv, ChargeInv, NEW live \in BOOLEAN, NEW gas \in BOOLEAN,
         Mine(live, gas)
  PROVE  ChargeInv'
<1>1. /\ slot # NoTx /\ slot' = NoTx /\ ~awaited'
      /\ UNCHANGED <<pc, bet, status, abandoned>>
  BY DEF Mine
<1>2. slot.bet \in Bets
  BY <1>1 DEF CallInv
<1>3. \A b \in Bets : InSlot(b)' = 0
  BY <1>1, AdapterConstants DEF InSlot, NoTx, Bets, AdapterConstants
<1>4. CASE /\ charged' = [charged EXCEPT ![slot.bet] = charged[slot.bet] + 1]
           /\ outcome' = IF awaited THEN "ok" ELSE outcome
  <2>1. \A b \in Bets : charged'[b] = charged[b] + InSlot(b)
    BY <1>2, <1>4 DEF InSlot, ChargeInv
  <2>2. charged' \in [Bets -> Nat]
    BY <1>2, <1>4 DEF ChargeInv
  <2>3. \A b \in Bets : Credited(b)' <=> Credited(b)
    BY <1>1, <1>4 DEF Credited
  <2>4. \A b \in Bets : charged'[b] + InSlot(b)' <= abandoned'[b] + Credit(b)'
    <3> SUFFICES ASSUME NEW b \in Bets
                 PROVE  charged'[b] + InSlot(b)' <= abandoned'[b] + Credit(b)'
      OBVIOUS
    <3>1. charged[b] + InSlot(b) <= abandoned[b] + Credit(b)
          /\ charged[b] \in Nat /\ abandoned[b] \in Nat
      BY DEF ChargeInv
    <3>2. Credit(b)' = Credit(b)
      BY <2>3 DEF Credit
    <3>3. InSlot(b) \in Nat /\ Credit(b) \in Nat
      BY DEF InSlot, Credit
    <3> QED BY <1>1, <1>3, <2>1, <3>1, <3>2, <3>3
  <2>5. \A b \in Bets : charged'[b] >= charged[b]
    BY <2>1 DEF InSlot, ChargeInv
  <2>6. pc' = "wait" /\ outcome' = "ok" => charged'[bet'] >= 1
    <3> SUFFICES ASSUME pc = "wait", outcome' = "ok"
                 PROVE  charged'[bet] >= 1
      BY <1>1
    <3>1. bet \in Bets /\ charged[bet] \in Nat
      BY DEF CallInv, ChargeInv
    <3>2. CASE awaited
      <4>1. slot.bet = bet
        BY <3>2 DEF ChargeInv
      <4>2. charged'[bet] = charged[bet] + 1
        BY <2>1, <3>1, <4>1 DEF InSlot
      <4> QED BY <3>1, <4>2
    <3>3. CASE ~awaited
      <4>1. charged[bet] >= 1
        BY <1>4, <3>3 DEF ChargeInv
      <4> QED BY <2>2, <2>5, <3>1, <4>1
    <3> QED BY <3>2, <3>3
  <2>7. \A b \in Bets : status'[b] = "ok" => charged'[b] >= 1
    BY <1>1, <2>2, <2>5 DEF ChargeInv
  <2> QED BY <1>1, <2>2, <2>4, <2>6, <2>7 DEF ChargeInv
<1>5. CASE charged' = charged /\ outcome' = IF awaited THEN "reverted" ELSE outcome
  <2>1. ASSUME NEW b \in Bets
        PROVE  charged'[b] + InSlot(b)' <= abandoned'[b] + Credit(b)'
    <3>1. charged[b] + InSlot(b) <= abandoned[b] + Credit(b)
          /\ charged[b] \in Nat /\ abandoned[b] \in Nat
      BY DEF ChargeInv
    <3>2. CASE awaited /\ b = bet
      <4>1. InSlot(b) = 1 /\ Credit(b) \in {0, 1} /\ Credit(b)' \in {0, 1}
        BY <3>2 DEF InSlot, ChargeInv, Credit
      <4> QED BY <1>1, <1>3, <1>5, <3>1, <4>1
    <3>3. CASE ~awaited \/ b # bet
      <4>1. Credited(b)' <=> Credited(b)
        BY <1>1, <1>5, <3>3 DEF Credited
      <4>2. Credit(b)' = Credit(b) /\ Credit(b) \in {0, 1} /\ InSlot(b) \in {0, 1}
        BY <4>1 DEF Credit, InSlot
      <4> QED BY <1>1, <1>3, <1>5, <3>1, <4>2
    <3> QED BY <3>2, <3>3
  <2>2. pc' = "wait" /\ outcome' = "ok" => charged'[bet'] >= 1
    BY <1>1, <1>5 DEF ChargeInv
  <2> QED BY <1>1, <1>5, <2>1, <2>2 DEF ChargeInv
<1> QED BY <1>4, <1>5 DEF Mine

\* Every step keeps the account of charges.
LEMMA ChargeStep ==
  ASSUME CallInv, ChargeInv, [Next]_vars
  PROVE  ChargeInv'
<1> USE DEF chainVars, callVars, tallyVars
<1>1. ASSUME NEW loss \in BOOLEAN, NEW wei \in Amounts, UpdateBreath(loss, wei)
      PROVE  ChargeInv'
  <2>1. /\ pc = "idle" /\ pc' = "start" /\ bet < NumBets /\ bet' = bet + 1
        /\ status' = [status EXCEPT ![bet + 1] = "running"]
        /\ UNCHANGED <<slot, charged, abandoned, awaited, outcome>>
    BY <1>1 DEF UpdateBreath
  <2>2. bet \in Nat /\ bet + 1 \in Bets /\ status[bet + 1] = "new"
    BY <2>1, AdapterConstants DEF CallInv, ChargeInv, Bets, AdapterConstants
  <2>3. \A b \in Bets : (status'[b] = "ok") <=> (status[b] = "ok")
    BY <2>1, <2>2 DEF ChargeInv
  <2>4. \A b \in Bets : InSlot(b)' = InSlot(b) /\ (Credited(b)' <=> Credited(b))
    BY <2>1, <2>3 DEF InSlot, Credited
  <2>5. \A b \in Bets : Credit(b)' = Credit(b)
    BY <2>4 DEF Credit
  <2>6. /\ status' \in [Bets -> {"new", "running", "ok", "failed", "cut"}]
        /\ status'[bet'] = "running"
        /\ \A b \in Bets : b > bet' => status'[b] = "new"
    BY <2>1, <2>2, AdapterConstants DEF ChargeInv, Bets, AdapterConstants
  <2>7. ~awaited
    BY <2>1 DEF ChargeInv
  <2> QED BY <2>1, <2>3, <2>4, <2>5, <2>6, <2>7 DEF ChargeInv
<1>2. CASE ConsumeNonce \/ ReadTxCount \/ Build \/ RpcFails
  <2>1. /\ UNCHANGED <<slot, bet, awaited, charged, abandoned>>
        /\ pc \in {"start", "count", "build", "send"}
    BY <1>2 DEF ConsumeNonce, ReadTxCount, Build, RpcFails
  <2>2. \/ status' = status /\ pc' \in {"start", "count", "build", "send"}
        \/ status' = [status EXCEPT ![bet] = "failed"] /\ pc' = "idle"
    BY <1>2 DEF ConsumeNonce, ReadTxCount, Build, RpcFails, Fail
  <2>3. ~awaited
    BY <2>1 DEF ChargeInv
  <2> QED BY <2>1, <2>2, <2>3, CalmStep
<1>3. CASE Send(TRUE)
  <2>1. /\ pc = "send" /\ pc' = "wait" /\ slot' = tx /\ awaited' /\ outcome' = "pending"
        /\ UNCHANGED <<bet, status, charged, abandoned>>
    BY <1>3 DEF Send
  <2>2. bet \in Bets /\ tx.bet = bet /\ status[bet] = "running" /\ tx # NoTx
    BY <2>1, AdapterConstants DEF CallInv, ChargeInv, NoTx, Bets, AdapterConstants
  <2>3. ASSUME NEW b \in Bets
        PROVE  charged'[b] + InSlot(b)' <= abandoned'[b] + Credit(b)'
    <3>1. charged[b] + InSlot(b) <= abandoned[b] + Credit(b)
          /\ charged[b] \in Nat /\ abandoned[b] \in Nat
      BY DEF ChargeInv
    <3>2. CASE b = bet
      <4>1. InSlot(b)' = 1 /\ Credit(b)' = 1
        BY <2>1, <2>2, <3>2 DEF InSlot, Credit, Credited
      <4>2. Credit(b) = 0 /\ InSlot(b) \in {0, 1}
        BY <2>1, <2>2, <3>2 DEF InSlot, Credit, Credited
      <4> QED BY <2>1, <3>1, <4>1, <4>2
    <3>3. CASE b # bet
      <4>1. InSlot(b)' = 0 /\ InSlot(b) \in {0, 1}
        BY <2>1, <2>2, <3>3 DEF InSlot
      <4>2. Credit(b)' = Credit(b) /\ Credit(b) \in {0, 1}
        BY <2>1, <3>3 DEF Credit, Credited
      <4> QED BY <2>1, <3>1, <4>1, <4>2
    <3> QED BY <3>2, <3>3
  <2> QED BY <2>1, <2>2, <2>3 DEF ChargeInv
<1>4. CASE Send(FALSE)
  <2>1. /\ pc = "send" /\ slot' = tx /\ ~awaited' /\ Abandon(bet)
        /\ UNCHANGED <<bet, charged>>
    BY <1>4 DEF Send
  <2>2. \/ status' = status /\ pc' = "start"
        \/ status' = [status EXCEPT ![bet] = "failed"] /\ pc' = "idle"
    BY <1>4 DEF Send, Fail
  <2> QED BY <2>1, <2>2, AbandonStep
<1>5. CASE Receipt
  <2>1. pc = "wait" /\ UNCHANGED <<slot, bet, awaited, outcome, charged, abandoned>>
    BY <1>5 DEF Receipt
  <2>2. CASE outcome = "ok" /\ pc' = "idle" /\ status' = [status EXCEPT ![bet] = "ok"]
    <3>1. bet \in Bets /\ ~awaited /\ charged[bet] >= 1
      BY <2>1, <2>2 DEF CallInv, ChargeInv
    <3>2. \A b \in Bets : status'[b] = IF b = bet THEN "ok" ELSE status[b]
      BY <2>2, <3>1 DEF ChargeInv
    <3>3. \A b \in Bets : InSlot(b)' = InSlot(b) /\ (Credited(b)' <=> Credited(b))
      BY <2>1, <2>2, <3>1, <3>2 DEF InSlot, Credited
    <3>4. \A b \in Bets : Credit(b)' = Credit(b)
      BY <3>3 DEF Credit
    <3>5. /\ status' \in [Bets -> {"new", "running", "ok", "failed", "cut"}]
          /\ \A b \in Bets : b > bet => status'[b] = "new"
      BY <2>2, <3>1, <3>2, AdapterConstants
         DEF ChargeInv, CallInv, Bets, AdapterConstants
    <3> QED BY <2>1, <2>2, <3>1, <3>2, <3>3, <3>4, <3>5 DEF ChargeInv
  <2>3. CASE outcome = "reverted" /\ Fail
    <3>1. ~awaited
      BY <2>3 DEF ChargeInv
    <3>2. \/ status' = status /\ pc' = "start"
          \/ status' = [status EXCEPT ![bet] = "failed"] /\ pc' = "idle"
      BY <2>3 DEF Fail
    <3> QED BY <2>1, <2>3, <3>1, <3>2, CalmStep
  <2> QED BY <1>5, <2>2, <2>3 DEF Receipt
<1>6. CASE Timeout
  <2>1. /\ pc = "wait" /\ ~awaited' /\ Abandon(bet) /\ UNCHANGED <<slot, bet, charged>>
    BY <1>6 DEF Timeout
  <2>2. \/ status' = status /\ pc' = "start"
        \/ status' = [status EXCEPT ![bet] = "failed"] /\ pc' = "idle"
    BY <1>6 DEF Timeout, Fail
  <2> QED BY <2>1, <2>2, AbandonStep
<1>7. ASSUME NEW live \in BOOLEAN, NEW gas \in BOOLEAN, Mine(live, gas)
      PROVE  ChargeInv'
  BY <1>7, MineStep
<1>8. CASE Dropped
  <2>1. slot' = NoTx /\ ~awaited'
        /\ UNCHANGED <<pc, bet, status, charged, abandoned, outcome>>
    BY <1>8 DEF Dropped
  <2>2. ASSUME NEW b \in Bets
        PROVE  charged'[b] + InSlot(b)' <= abandoned'[b] + Credit(b)'
    <3>1. charged[b] + InSlot(b) <= abandoned[b] + Credit(b)
          /\ charged[b] \in Nat /\ abandoned[b] \in Nat
      BY DEF ChargeInv
    <3>2. InSlot(b)' = 0 /\ InSlot(b) \in {0, 1}
      BY <2>1, AdapterConstants DEF InSlot, NoTx, Bets, AdapterConstants
    <3>3. CASE awaited /\ b = bet
      <4>1. InSlot(b) = 1 /\ Credit(b) \in {0, 1} /\ Credit(b)' \in {0, 1}
        BY <3>3 DEF InSlot, ChargeInv, Credit
      <4> QED BY <2>1, <3>1, <3>2, <4>1
    <3>4. CASE ~awaited \/ b # bet
      <4>1. Credit(b)' = Credit(b) /\ Credit(b) \in {0, 1}
        BY <2>1, <3>4 DEF Credit, Credited
      <4> QED BY <2>1, <3>1, <3>2, <4>1
    <3> QED BY <3>3, <3>4
  <2> QED BY <2>1, <2>2 DEF ChargeInv
<1>9. CASE Restart
  <2>1. pc' = "idle" /\ ~awaited' /\ UNCHANGED <<slot, bet, outcome, charged>>
    BY <1>9 DEF Restart
  <2>2. CASE pc = "idle"
    <3>1. UNCHANGED <<status, abandoned>> /\ ~awaited
      BY <1>9, <2>2 DEF Restart, ChargeInv
    <3>2. \A b \in Bets : InSlot(b)' = InSlot(b) /\ (Credited(b)' <=> Credited(b))
      BY <2>1, <2>2, <3>1 DEF InSlot, Credited
    <3>3. \A b \in Bets : Credit(b)' = Credit(b)
      BY <3>2 DEF Credit
    <3> QED BY <2>1, <3>1, <3>2, <3>3 DEF ChargeInv
  <2>3. CASE pc = "wait"
    <3>1. status' = [status EXCEPT ![bet] = "cut"] /\ Abandon(bet)
      BY <1>9, <2>3 DEF Restart
    <3> QED BY <2>1, <2>3, <3>1, AbandonStep
  <2>4. CASE pc \notin {"idle", "wait"}
    <3>1. status' = [status EXCEPT ![bet] = "cut"] /\ UNCHANGED abandoned /\ ~awaited
      BY <1>9, <2>4 DEF Restart, ChargeInv
    <3>2. bet \in Bets /\ status[bet] = "running"
      BY <2>4 DEF CallInv, ChargeInv
    <3>3. \A b \in Bets : (status'[b] = "ok") <=> (status[b] = "ok")
      BY <3>1, <3>2 DEF ChargeInv
    <3>4. \A b \in Bets : InSlot(b)' = InSlot(b) /\ (Credited(b)' <=> Credited(b))
      BY <2>1, <2>4, <3>3 DEF InSlot, Credited
    <3>5. \A b \in Bets : Credit(b)' = Credit(b)
      BY <3>4 DEF Credit
    <3>6. /\ status' \in [Bets -> {"new", "running", "ok", "failed", "cut"}]
          /\ \A b \in Bets : b > bet => status'[b] = "new"
      BY <3>1, <3>2, AdapterConstants DEF ChargeInv, CallInv, Bets, AdapterConstants
    <3> QED BY <2>1, <3>1, <3>3, <3>4, <3>5, <3>6 DEF ChargeInv
  <2> QED BY <2>2, <2>3, <2>4
<1>10. CASE UNCHANGED vars
  <2>1. UNCHANGED <<slot, bet, pc, awaited, outcome, status, charged, abandoned>>
    BY <1>10 DEF vars
  <2> QED BY <2>1 DEF ChargeInv, InSlot, Credit, Credited
<1> QED
  BY <1>1, <1>2, <1>3, <1>4, <1>5, <1>6, <1>7, <1>8, <1>9, <1>10 DEF Next, Adapter

\* Beyond the one move an update reported as done made, every charge of a bet
\* is an attempt whose outcome was never heard (_send_tx, the poller's retry).
THEOREM EveryChargeAccounted == Spec => []ChargesAccounted
<1>1. Init => CallInv /\ ChargeInv
  <2> SUFFICES ASSUME Init
               PROVE  ChargeInv
    BY CallInit
  <2>1. /\ slot = NoTx /\ pc = "idle" /\ awaited = FALSE
        /\ status = [b \in Bets |-> "new"]
        /\ charged = [b \in Bets |-> 0] /\ abandoned = [b \in Bets |-> 0]
    BY DEF Init
  <2>2. \A b \in Bets : InSlot(b) = 0 /\ Credit(b) \in {0, 1}
    BY <2>1, AdapterConstants DEF InSlot, Credit, NoTx, Bets, AdapterConstants
  <2> QED BY <2>1, <2>2 DEF ChargeInv
<1>2. CallInv /\ ChargeInv /\ [Next]_vars => CallInv' /\ ChargeInv'
  BY CallStep, ChargeStep
<1>3. CallInv /\ ChargeInv => ChargesAccounted
  <2> SUFFICES ASSUME CallInv, ChargeInv, NEW b \in Bets
               PROVE  /\ status[b] = "ok" => charged[b] >= 1
                      /\ charged[b] <= abandoned[b]
                           + IF status[b] = "ok" \/ (b = bet /\ pc = "wait")
                             THEN 1 ELSE 0
    BY DEF ChargesAccounted
  <2>1. charged[b] + InSlot(b) <= abandoned[b] + Credit(b)
        /\ charged[b] \in Nat /\ abandoned[b] \in Nat
    BY DEF ChargeInv
  <2>2. InSlot(b) \in {0, 1} /\ Credit(b) \in {0, 1}
    BY DEF InSlot, Credit
  <2>3. Credit(b) = 1 => status[b] = "ok" \/ (b = bet /\ pc = "wait")
    BY DEF Credit, Credited
  <2> QED BY <2>1, <2>2, <2>3 DEF ChargeInv
<1> QED BY <1>1, <1>2, <1>3, PTL DEF Spec

-----------------------------------------------------------------------------
(* The ledger behind the adapter *)

\* The attempts of one update draw at most Attempts nonces, so the counter of
\* a process stays below those of all its updates, and what waits in the node
\* is a call that an update made.
BudgetInv ==
  /\ bet \in 0..NumBets /\ nextNonce \in Nat /\ attempt \in 1..Attempts
  /\ pc # "idle" => bet \in Bets /\ tx \in Txs
  /\ pc = "idle" => nextNonce <= bet * Attempts
  /\ pc = "start" => nextNonce <= bet * Attempts - Attempts + (attempt - 1)
  /\ pc \notin {"idle", "start"} =>
       nextNonce <= bet * Attempts - Attempts + attempt
  /\ slot = NoTx \/ slot \in Txs

\* The nonces of whole updates, counted.
LEMMA Budgets ==
  \A b \in 0..NumBets :
    /\ b * Attempts \in Nat /\ b * Attempts <= NumBets * Attempts
    /\ (b + 1) * Attempts = b * Attempts + Attempts
<1> USE AdapterConstants DEF AdapterConstants
<1>1. \A a, n, b \in Nat : b <= n => b * a \in Nat /\ b * a <= n * a
  OBVIOUS
<1>2. \A a, b \in Nat : (b + 1) * a = b * a + a
  OBVIOUS
<1>3. Attempts \in Nat /\ NumBets \in Nat
  OBVIOUS
<1> QED BY <1>1, <1>2, <1>3

\* A process that has just started has drawn nothing.
LEMMA BudgetInit == Init => BudgetInv
<1> USE AdapterConstants DEF AdapterConstants
<1> SUFFICES ASSUME Init
             PROVE  BudgetInv
  OBVIOUS
<1>1. 0 * Attempts \in Nat
  BY Budgets
<1> QED BY <1>1 DEF Init, BudgetInv

\* A failed attempt has another one's budget before it, or ends the update.
LEMMA FailBudget ==
  ASSUME BudgetInv, pc # "idle", Fail,
         UNCHANGED <<bet, slot>>, tx' \in Txs, nextNonce' \in Nat,
         nextNonce' <= bet * Attempts - Attempts + attempt
  PROVE  BudgetInv'
<1> USE AdapterConstants DEF AdapterConstants, BudgetInv
<1>1. bet * Attempts \in Nat
  BY Budgets
<1>2. CASE attempt < Attempts
  BY <1>1, <1>2 DEF Fail
<1>3. CASE ~(attempt < Attempts)
  <2>1. attempt = Attempts /\ pc' = "idle" /\ attempt' = attempt
    BY <1>3 DEF Fail
  <2> QED BY <1>1, <2>1
<1> QED BY <1>2, <1>3

\* Every step stays within the budget.
LEMMA BudgetStep ==
  ASSUME BudgetInv, [Next]_vars
  PROVE  BudgetInv'
<1> USE AdapterConstants DEF AdapterConstants, BudgetInv, chainVars, callVars,
        tallyVars
<1>0. bet * Attempts \in Nat /\ bet * Attempts <= NumBets * Attempts
  BY Budgets
<1>1. ASSUME NEW loss \in BOOLEAN, NEW wei \in Amounts, UpdateBreath(loss, wei)
      PROVE  BudgetInv'
  <2>1. /\ bet' = bet + 1 /\ bet' \in Bets /\ attempt' = 1 /\ pc' = "start"
        /\ pc = "idle" /\ UNCHANGED <<slot, nextNonce>>
        /\ tx' = [loss |-> loss, wei |-> wei, nonce |-> 0, bet |-> bet']
    BY <1>1 DEF UpdateBreath, Bets
  <2>2. bet' * Attempts = bet * Attempts + Attempts
    BY <2>1, Budgets
  <2>3. 0 \in Nonces
    BY <1>0, <2>1, <2>2, Budgets DEF Nonces, Bets
  <2>4. tx' \in Txs
    BY <2>1, <2>3 DEF Txs
  <2>5. nextNonce' <= bet' * Attempts - Attempts + (attempt' - 1)
    BY <1>0, <2>1, <2>2
  <2>6. bet' \in 0..NumBets
    BY <2>1 DEF Bets
  <2> QED BY <2>1, <2>4, <2>5, <2>6
<1>2. CASE ConsumeNonce
  <2>1. pc = "start" /\ bet \in Bets /\ tx \in Txs /\ UNCHANGED <<slot, bet>>
    BY <1>2 DEF ConsumeNonce
  <2>2. CASE ~tx.loss
    BY <1>0, <1>2, <2>1, <2>2 DEF ConsumeNonce
  <2>3. CASE tx.loss
    <3>1. nextNonce' = nextNonce + 1 /\ tx' = [tx EXCEPT !.nonce = nextNonce]
      BY <1>2, <2>3 DEF ConsumeNonce
    <3>2. nextNonce' <= bet * Attempts - Attempts + attempt
      BY <1>0, <2>1, <3>1
    <3>3. nextNonce \in Nonces
      BY <1>0, <2>1, <3>1, <3>2 DEF Nonces
    <3>4. tx' \in Txs
      BY <2>1, <3>1, <3>3 DEF Txs
    <3>5. CASE nextNonce \in usedNonces[Agent]
      <4>1. Fail
        BY <1>2, <2>3, <3>5 DEF ConsumeNonce
      <4> QED BY <2>1, <3>1, <3>2, <3>4, <4>1, FailBudget
    <3>6. CASE nextNonce \notin usedNonces[Agent]
      <4>1. pc' = "count" /\ UNCHANGED attempt
        BY <1>2, <2>3, <3>6 DEF ConsumeNonce
      <4> QED BY <2>1, <3>1, <3>2, <3>4, <4>1
    <3> QED BY <3>5, <3>6
  <2> QED BY <2>2, <2>3
<1>3. ASSUME pc \notin {"idle", "start"}, Fail, UNCHANGED <<bet, nextNonce, tx>>,
             slot' = slot
      PROVE  BudgetInv'
  BY <1>3, FailBudget
<1>4. CASE ReadTxCount
  BY <1>4 DEF ReadTxCount
<1>5. CASE Build \/ RpcFails \/ Receipt \/ Timeout
  <2>1. /\ pc \in {"count", "build", "send", "wait"}
        /\ UNCHANGED <<bet, nextNonce, tx, slot>>
        /\ \/ Fail
           \/ pc' \in {"send", "idle"} /\ UNCHANGED attempt
    BY <1>5 DEF Build, RpcFails, Receipt, Timeout
  <2>2. CASE Fail
    BY <1>3, <2>1, <2>2
  <2>3. CASE pc' \in {"send", "idle"} /\ UNCHANGED attempt
    <3>1. nextNonce <= bet * Attempts
      BY <1>0, <2>1
    <3> QED BY <1>0, <2>1, <2>3, <3>1
  <2> QED BY <2>1, <2>2, <2>3
<1>6. ASSUME NEW heard \in BOOLEAN, Send(heard)
      PROVE  BudgetInv'
  <2>1. /\ pc = "send" /\ slot' = tx /\ tx \in Txs
        /\ UNCHANGED <<bet, nextNonce, tx>>
    BY <1>6 DEF Send
  <2>2. CASE heard
    BY <1>0, <1>6, <2>1, <2>2 DEF Send
  <2>3. CASE ~heard
    <3>1. Fail
      BY <1>6, <2>3 DEF Send
    <3>2. CASE attempt < Attempts
      BY <1>0, <2>1, <3>1, <3>2 DEF Fail
    <3>3. CASE ~(attempt < Attempts)
      BY <1>0, <2>1, <3>1, <3>3 DEF Fail
    <3> QED BY <3>2, <3>3
  <2> QED BY <2>2, <2>3
<1>7. ASSUME Dropped \/ \E live, gas \in BOOLEAN : Mine(live, gas)
      PROVE  BudgetInv'
  <2>1. slot' = NoTx /\ UNCHANGED <<pc, bet, attempt, nextNonce, tx>>
    BY <1>7 DEF Dropped, Mine
  <2> QED BY <2>1
<1>8. CASE Restart
  <2>1. pc' = "idle" /\ nextNonce' = 0 /\ UNCHANGED <<bet, attempt, tx, slot>>
    BY <1>8 DEF Restart
  <2> QED BY <1>0, <2>1
<1>9. CASE UNCHANGED vars
  BY <1>9 DEF vars
<1> QED
  BY <1>1, <1>2, <1>4, <1>5, <1>6, <1>7, <1>8, <1>9 DEF Next, Adapter

\* What is mined is a call of the controller's, or reverts without a trace.
LEMMA MiningIsLedgers ==
  ASSUME BudgetInv, NEW live \in BOOLEAN, NEW gas \in BOOLEAN, Mine(live, gas)
  PROVE  \/ UNCHANGED <<breath, usedNonces, applied>>
         \/ EC!TopUpBreath(Agent, slot.wei) /\ slot.wei \in Amounts
         \/ /\ EC!SettleMarketLoss(Agent, slot.nonce, slot.wei, live)
            /\ slot.nonce \in Nonces /\ slot.wei \in Amounts
<1>1. slot.wei \in Amounts /\ slot.nonce \in Nonces
  BY DEF BudgetInv, Mine, Txs
<1> QED BY <1>1 DEF Mine

\* Only mining moves the ledger.
LEMMA OnlyMining ==
  ASSUME [Next]_vars, ~ \E live, gas \in BOOLEAN : Mine(live, gas)
  PROVE  UNCHANGED <<breath, usedNonces, applied>>
  BY DEF Next, Adapter, vars, chainVars, UpdateBreath, ConsumeNonce,
     ReadTxCount, Build, RpcFails, Send, Receipt, Timeout, Dropped, Restart

\* Whatever the adapter, the node and the restarts do, the chain moves only by
\* the controller's own functions, called with what the code may call them with.
THEOREM LedgerMoves == Spec => [][EC!LedgerNext]_(EC!ledgerVars)
<1>1. ASSUME BudgetInv, [Next]_vars
      PROVE  [EC!LedgerNext]_(EC!ledgerVars)
  <2>1. CASE UNCHANGED <<breath, usedNonces, applied>>
    BY <2>1 DEF EC!ledgerVars, EC!adminVars, EC!moneyVars, Storage
  <2>2. ASSUME NEW live \in BOOLEAN, NEW gas \in BOOLEAN, Mine(live, gas)
        PROVE  [EC!LedgerNext]_(EC!ledgerVars)
    <3>1. CASE EC!TopUpBreath(Agent, slot.wei) /\ slot.wei \in Amounts
      <4>1. EC!OwnerStep(Agent)
        BY <3>1 DEF EC!OwnerStep
      <4> QED BY <4>1 DEF EC!LedgerNext
    <3>2. CASE /\ EC!SettleMarketLoss(Agent, slot.nonce, slot.wei, live)
               /\ slot.nonce \in Nonces /\ slot.wei \in Amounts
      BY <3>2 DEF EC!LedgerNext
    <3> QED BY <1>1, <2>1, <2>2, <3>1, <3>2, MiningIsLedgers
  <2> QED BY <1>1, <2>1, <2>2, OnlyMining
<1> QED BY <1>1, BudgetInit, BudgetStep, PTL DEF Spec

\* The ledger's own promises, of the ledger behind the adapter.
KeepingInv ==
  /\ breath \in 0..MaxBreath
  /\ usedNonces \in [{Agent} -> SUBSET Nonces]
  /\ applied \in [{Agent} -> [Nonces -> Nat]]
  /\ EC!AttestationAppliedOnce

\* A burn marks its nonce, a top-up stops at the cap.
LEMMA KeepingStep ==
  ASSUME BudgetInv, KeepingInv, [Next]_vars
  PROVE  KeepingInv'
<1> USE AdapterConstants DEF AdapterConstants, KeepingInv,
        EC!AttestationAppliedOnce
<1>1. CASE UNCHANGED <<breath, usedNonces, applied>>
  BY <1>1
<1>2. ASSUME NEW wei \in Amounts, EC!TopUpBreath(Agent, wei)
      PROVE  KeepingInv'
  <2>1. UNCHANGED <<usedNonces, applied>>
    BY <1>2 DEF EC!TopUpBreath
  <2>2. breath' \in 0..MaxBreath
    BY <1>2 DEF EC!TopUpBreath, EC!Credit, EC!Headroom, Storage
  <2> QED BY <2>1, <2>2
<1>3. ASSUME NEW nonce \in Nonces, NEW wei \in Amounts, NEW live \in BOOLEAN,
             EC!SettleMarketLoss(Agent, nonce, wei, live)
      PROVE  KeepingInv'
  <2>1. breath' \in 0..MaxBreath
    BY <1>3 DEF EC!SettleMarketLoss, EC!Burn
  <2>2. /\ nonce \notin usedNonces[Agent]
        /\ usedNonces' = [usedNonces EXCEPT ![Agent] = @ \cup {nonce}]
        /\ applied' = [applied EXCEPT ![Agent][nonce] = @ + 1]
    BY <1>3 DEF EC!SettleMarketLoss, EC!NonceUnused
  <2>3. usedNonces'[Agent] = usedNonces[Agent] \cup {nonce}
        /\ usedNonces' \in [{Agent} -> SUBSET Nonces]
    BY <2>2
  <2>4. /\ applied' \in [{Agent} -> [Nonces -> Nat]]
        /\ \A n \in Nonces : applied'[Agent][n] =
             IF n = nonce THEN applied[Agent][n] + 1 ELSE applied[Agent][n]
    BY <2>2
  <2>5. EC!AttestationAppliedOnce'
    BY <2>2, <2>3, <2>4
  <2> QED BY <2>1, <2>3, <2>4, <2>5
<1> QED BY <1>1, <1>2, <1>3, MiningIsLedgers, OnlyMining

\* However often calls are repeated, lost or replaced, breath stays within its
\* cap and each attestation burns at most once.
THEOREM LedgerKept == Spec => [](EC!BreathWithinCap /\ EC!AttestationAppliedOnce)
<1>1. Init => KeepingInv
  BY AdapterConstants DEF AdapterConstants, Init, KeepingInv,
     EC!AttestationAppliedOnce
<1>2. KeepingInv => EC!BreathWithinCap /\ EC!AttestationAppliedOnce
  BY AdapterConstants DEF AdapterConstants, KeepingInv, EC!BreathWithinCap,
     Storage
<1>3. BudgetInv /\ KeepingInv /\ [Next]_vars => BudgetInv' /\ KeepingInv'
  BY BudgetStep, KeepingStep
<1> QED BY <1>1, <1>2, <1>3, BudgetInit, PTL DEF Spec

=============================================================================
