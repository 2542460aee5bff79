------------------------- MODULE AgentLifecycleProofs -------------------------
(***************************************************************************)
(* Proofs about the life-state machine, for every set of accounts, logs,   *)
(* NFTs, decisions, epitaphs and breath readings, and any uint width.  The *)
(* last part is about the stream that tells the dashboard of the fall: for *)
(* any thresholds, readings and numbers of frames and restarts.            *)
(***************************************************************************)
EXTENDS AgentLifecycle, DeathWatchStream, FoldLemmas, TLAPS

USE LifecycleConstants DEF LifecycleConstants

\* What ties the stored stage to the history of readings.
ReadingCounted == Classify(breath, initialBreath) <= deepest

\* The inductive invariant.
IInv ==
  /\ TypeOK
  /\ CounterMatchesLog
  /\ AtMostOneTombstone
  /\ StageWitnessed
  /\ ReadingCounted

\* _classify returns a stage short of death.
LEMMA ClassifyStage ==
  \A b, initial : Classify(b, initial) \in Alive .. TerminalLucidity
  BY DEF Classify, Alive, Desperate, TerminalLucidity

\* A fresh deployment: no logs, no tombstones, a healthy agent.
LEMMA InitEstablishes == Init => IInv
<1> SUFFICES ASSUME Init
             PROVE  IInv
  OBVIOUS
<1>1. TypeOK
  <2>1. log \in [Logs -> Seq(Decisions)] /\ tombstones \in [Nfts -> Seq(Stones)]
    BY DEF Init
  <2>2. deathRolledBack \in BOOLEAN
    BY DEF Init
  <2> QED
    BY <2>1, <2>2
    DEF Init, TypeOK, LifeStates, Alive, Desperate, TerminalLucidity, Dead
<1>2. CounterMatchesLog /\ AtMostOneTombstone
  BY DEF Init, CounterMatchesLog, AtMostOneTombstone
<1>3. StageWitnessed /\ ReadingCounted
  BY DEF Init, StageWitnessed, ReadingCounted, Classify, Alive
<1> QED
  BY <1>1, <1>2, <1>3 DEF IInv

\* A fall in the stored stage stops at what the readings called for.
LEMMA AdvanceIsWitnessed ==
  ASSUME IInv, lifeState # Dead, AdvanceLifeState
  PROVE  /\ lifeState' \in Alive .. TerminalLucidity
         /\ lifeState' >= lifeState
         /\ lifeState' <= deepest
  BY ClassifyStage
  DEF IInv, TypeOK, StageWitnessed, ReadingCounted, AdvanceLifeState,
      ProjectedLifeState, Deeper, LifeStates, Alive, TerminalLucidity, Dead

\* recordDecision grows the counter and the log together.
LEMMA RecordPreserves ==
  ASSUME IInv, NEW caller \in Accounts, NEW d \in Decisions,
         RecordDecision(caller, d)
  PROVE  IInv'
<1>1. /\ lifeState' \in Alive .. TerminalLucidity
      /\ lifeState' <= deepest
  BY AdvanceIsWitnessed DEF RecordDecision
<1>2. log' \in [Logs -> Seq(Decisions)]
  BY DEF RecordDecision, IInv, TypeOK
<1>3. TypeOK'
  BY <1>1, <1>2
  DEF RecordDecision, IInv, TypeOK, LifeStates, Alive, TerminalLucidity, Dead,
      wiringVars, energyVars
<1>4. CounterMatchesLog'
  <2>1. /\ decisionLog \in Logs /\ decisionLog \in OwnLogs
        /\ decisionLog' = decisionLog
        /\ log'[decisionLog] = Append(log[decisionLog], d)
        /\ \A l \in Logs : l # decisionLog => log'[l] = log[l]
    BY DEF RecordDecision, IInv, TypeOK, wiringVars
  <2>2. Len(log'[decisionLog]) = Len(log[decisionLog]) + 1
    BY <2>1 DEF IInv, TypeOK
  <2> QED
    BY <2>1, <2>2 DEF RecordDecision, IInv, CounterMatchesLog
<1>5. AtMostOneTombstone'
  BY DEF RecordDecision, IInv, AtMostOneTombstone, wiringVars
<1>6. StageWitnessed' /\ ReadingCounted'
  BY <1>1 DEF RecordDecision, IInv, StageWitnessed, ReadingCounted, energyVars
<1> QED
  BY <1>3, <1>4, <1>5, <1>6 DEF IInv

\* pokeLifeState moves nothing but the stage.
LEMMA PokePreserves ==
  ASSUME IInv, PokeLifeState
  PROVE  IInv'
<1>1. /\ lifeState' \in Alive .. TerminalLucidity
      /\ lifeState' <= deepest
  BY AdvanceIsWitnessed DEF PokeLifeState
<1>2. TypeOK'
  BY <1>1
  DEF PokeLifeState, IInv, TypeOK, LifeStates, Alive, TerminalLucidity, Dead,
      wiringVars, energyVars
<1>3. CounterMatchesLog' /\ AtMostOneTombstone'
  BY DEF PokeLifeState, IInv, CounterMatchesLog, AtMostOneTombstone, wiringVars
<1>4. StageWitnessed' /\ ReadingCounted'
  BY <1>1 DEF PokeLifeState, IInv, StageWitnessed, ReadingCounted, energyVars
<1> QED
  BY <1>2, <1>3, <1>4 DEF IInv

\* The tombstone cut at a death is the first of all deployments.
LEMMA BuryPreserves ==
  ASSUME IInv, NEW stone \in Stones, lifeState # Dead, Bury(stone)
  PROVE  IInv'
<1>1. \A f \in Nfts : tombstones[f] = <<>>
  BY DEF IInv, AtMostOneTombstone
<1>2. tombstones' \in [Nfts -> Seq(Stones)] /\ tombstoneTokenId' \in Nat
  <2>1. CASE tombstoneNFT = None
    BY <2>1 DEF Bury, IInv, TypeOK
  <2>2. CASE tombstoneNFT # None
    BY <2>2, <1>1 DEF Bury, IInv, TypeOK
  <2> QED BY <2>1, <2>2
<1>3. TypeOK'
  <2>1. stone.words \in Epitaphs
    BY DEF Stones
  <2> QED
    BY <1>2, <2>1 DEF Bury, IInv, TypeOK, LifeStates, Alive, Dead, wiringVars,
       energyVars
<1>4. AtMostOneTombstone'
  <2>1. CASE tombstoneNFT = None
    BY <1>1, <2>1 DEF Bury, IInv, AtMostOneTombstone, wiringVars
  <2>2. CASE tombstoneNFT # None
    <3> DEFINE old == tombstones[tombstoneNFT]
               new == Append(old, stone)
    <3>1. /\ tombstoneNFT \in Nfts
          /\ tombstones' = [tombstones EXCEPT ![tombstoneNFT] = new]
          /\ tombstoneTokenId' = Len(old) + 1
          /\ tombstones \in [Nfts -> Seq(Stones)]
      BY <2>2 DEF Bury, IInv, TypeOK
    <3>2. old \in Seq(Stones) /\ Len(old) = 0
      BY <1>1, <3>1
    <3>3. Len(new) = 1 /\ new[1] = stone /\ new # <<>>
      BY <3>2
    <3>4. /\ tombstones'[tombstoneNFT] = new
          /\ \A f \in Nfts : f # tombstoneNFT => tombstones'[f] = <<>>
          /\ tombstoneTokenId' = 1
      BY <1>1, <3>1, <3>2
    <3> HIDE DEF old, new
    <3> QED
      BY <2>2, <3>3, <3>4 DEF Bury, AtMostOneTombstone, wiringVars
  <2> QED BY <2>1, <2>2
<1>5. CounterMatchesLog' /\ StageWitnessed' /\ ReadingCounted'
  BY DEF Bury, IInv, CounterMatchesLog, StageWitnessed, ReadingCounted,
         wiringVars, energyVars
<1> QED
  BY <1>3, <1>4, <1>5 DEF IInv

\* Both payloads, the computed one and the caller's, are tombstones.
LEMMA DeathPreserves ==
  ASSUME IInv, NEW caller \in Accounts, NEW words \in Epitaphs,
         NEW cause \in Causes, NEW afterglow \in BOOLEAN,
         DeclareDeath(caller, words) \/ Die(caller, cause, afterglow, words)
  PROVE  IInv'
<1>1. CASE DeclareDeath(caller, words)
  <2>1. CauseFromPrevious(lifeState) \in Causes
    BY DEF CauseFromPrevious, Causes
  <2>2. (lifeState = TerminalLucidity) \in BOOLEAN
    OBVIOUS
  <2>3. [cause |-> CauseFromPrevious(lifeState),
         afterglow |-> lifeState = TerminalLucidity,
         words |-> words, breathAtDeath |-> breath] \in Stones
    BY <2>1, <2>2 DEF Stones, IInv, TypeOK
  <2> QED
    BY <1>1, <2>3, BuryPreserves DEF DeclareDeath
<1>2. CASE Die(caller, cause, afterglow, words)
  BY <1>2, BuryPreserves DEF Die, Stones
<1> QED BY <1>1, <1>2

\* Every step of the contracts preserves the invariant.
LEMMA NextPreserves == IInv /\ [Next]_vars => IInv'
<1> SUFFICES ASSUME IInv, [Next]_vars
             PROVE  IInv'
  OBVIOUS
<1> USE DEF IInv, TypeOK, CounterMatchesLog, AtMostOneTombstone, StageWitnessed,
            ReadingCounted
<1>1. ASSUME NEW caller \in Accounts, NEW l \in Logs, SetDecisionLog(caller, l)
      PROVE  IInv'
  BY <1>1 DEF SetDecisionLog, lifeVars, energyVars
<1>2. ASSUME NEW caller \in Accounts, NEW f \in Nfts, SetTombstoneNFT(caller, f)
      PROVE  IInv'
  BY <1>2 DEF SetTombstoneNFT, lifeVars, energyVars
<1>3. ASSUME NEW caller \in Accounts, DeathReverts(caller)
      PROVE  IInv'
  <2>1. deathRolledBack' \in BOOLEAN
    BY <1>3 DEF DeathReverts
  <2> QED
    BY <1>3, <2>1 DEF DeathReverts, lifeVars, wiringVars, energyVars
<1>4. ASSUME NEW caller \in Accounts, NEW a \in Accounts, SetOwner(caller, a)
      PROVE  IInv'
  BY <1>4 DEF SetOwner, lifeVars, energyVars
<1>5. ASSUME NEW b \in BreathValues, NEW initial \in BreathValues,
             EnergyMoves(b, initial)
      PROVE  IInv'
  <2>1. /\ deepest' \in Alive .. TerminalLucidity
        /\ deepest <= deepest'
        /\ Classify(b, initial) <= deepest'
    BY <1>5, ClassifyStage DEF EnergyMoves, Deeper, Alive, TerminalLucidity
  <2>2. TypeOK'
    BY <1>5, <2>1 DEF EnergyMoves, lifeVars, wiringVars
  <2>3. CounterMatchesLog' /\ AtMostOneTombstone'
    BY <1>5 DEF EnergyMoves, lifeVars, wiringVars
  <2>4. StageWitnessed'
    BY <1>5, <2>1
    DEF EnergyMoves, lifeVars, LifeStates, Alive, TerminalLucidity, Dead
  <2>5. ReadingCounted'
    BY <1>5, <2>1 DEF EnergyMoves
  <2> QED BY <2>2, <2>3, <2>4, <2>5
<1>6. CASE UNCHANGED vars
  BY <1>6 DEF vars, lifeVars, wiringVars, energyVars
<1>7. CASE \E caller \in Accounts : OwnerStep(caller)
  <2> PICK caller \in Accounts : OwnerStep(caller)
    BY <1>7
  <2>1. CASE \E d \in Decisions : RecordDecision(caller, d)
    BY <2>1, RecordPreserves
  <2>2. CASE \E w \in Epitaphs : DeclareDeath(caller, w)
    <3>1. "Attrition" \in Causes /\ FALSE \in BOOLEAN
      BY DEF Causes
    <3> QED BY <2>2, <3>1, DeathPreserves
  <2>3. CASE \E c \in Causes, g \in BOOLEAN, w \in Epitaphs : Die(caller, c, g, w)
    BY <2>3, DeathPreserves
  <2> QED
    BY <1>1, <1>2, <1>3, <1>4, <2>1, <2>2, <2>3 DEF OwnerStep
<1> QED
  BY <1>5, <1>6, <1>7, PokePreserves DEF Next

\* The invariant holds of every reachable state.
THEOREM Invariance == Spec => []IInv
  BY InitEstablishes, NextPreserves, PTL DEF Spec

\* Every variable keeps the type its Solidity declaration gives it.
THEOREM TypeCorrect == Spec => []TypeOK
<1>1. IInv => TypeOK
  BY DEF IInv
<1> QED BY <1>1, Invariance, PTL

\* recordDecision: the counter and the log of another contract agree.
THEOREM LogIsCounted == Spec => []CounterMatchesLog
<1>1. IInv => CounterMatchesLog
  BY DEF IInv
<1> QED BY <1>1, Invariance, PTL

\* declareDeath and die: one tombstone in all, for a dead agent.
THEOREM OneTombstone == Spec => []AtMostOneTombstone
<1>1. IInv => AtMostOneTombstone
  BY DEF IInv
<1> QED BY <1>1, Invariance, PTL

\* _maybeAdvanceLifeState never outruns the readings.
THEOREM NoUnwitnessedFall == Spec => []StageWitnessed
<1>1. IInv => StageWitnessed
  BY DEF IInv
<1> QED BY <1>1, Invariance, PTL

\* What one step does to the stage and to a dead agent.
LEMMA StepOnlyFalls ==
  ASSUME IInv, [Next]_vars
  PROVE  /\ lifeState' >= lifeState
         /\ lifeState = Dead => UNCHANGED lifeVars
<1> DEFINE Falls == /\ lifeState' >= lifeState
                    /\ lifeState = Dead => UNCHANGED lifeVars
<1>0. lifeState \in LifeStates /\ Dead >= lifeState /\ lifeState >= lifeState
  BY DEF IInv, TypeOK, LifeStates, Alive, Dead
<1>1. ASSUME NEW caller \in Accounts, OwnerStep(caller)
      PROVE  Falls
  <2>1. ASSUME NEW d \in Decisions, RecordDecision(caller, d)
        PROVE  Falls
    BY <2>1, AdvanceIsWitnessed DEF RecordDecision
  <2>2. ASSUME NEW w \in Epitaphs, DeclareDeath(caller, w)
        PROVE  Falls
    BY <1>0, <2>2 DEF DeclareDeath, Bury
  <2>3. ASSUME NEW c \in Causes, NEW g \in BOOLEAN, NEW w \in Epitaphs,
               Die(caller, c, g, w)
        PROVE  Falls
    BY <1>0, <2>3 DEF Die, Bury
  <2>4. ASSUME \/ \E l \in Logs : SetDecisionLog(caller, l)
               \/ \E f \in Nfts : SetTombstoneNFT(caller, f)
               \/ DeathReverts(caller)
               \/ \E a \in Accounts : SetOwner(caller, a)
        PROVE  Falls
    BY <1>0, <2>4
    DEF SetDecisionLog, SetTombstoneNFT, DeathReverts, SetOwner, lifeVars
  <2> QED
    BY <1>1, <2>1, <2>2, <2>3, <2>4 DEF OwnerStep
<1>2. CASE PokeLifeState
  BY <1>2, AdvanceIsWitnessed DEF PokeLifeState
<1>3. CASE (\E b, initial \in BreathValues : EnergyMoves(b, initial))
           \/ UNCHANGED vars
  BY <1>0, <1>3 DEF EnergyMoves, vars, lifeVars
<1> QED
  BY <1>1, <1>2, <1>3 DEF Next

\* The fall is one-way and death is final.
THEOREM DeathStands == Spec => DeathIsFinal
<1>1. IInv /\ [Next]_vars =>
        /\ lifeState' >= lifeState
        /\ lifeState = Dead => UNCHANGED lifeVars
  BY StepOnlyFalls
<1> QED
  BY <1>1, Invariance, PTL DEF Spec, DeathIsFinal

-----------------------------------------------------------------------------
(* The contract implements the abstract life *)

StoneCount == IF tombstoneNFT = None THEN 0 ELSE Len(tombstones[tombstoneNFT])

\* The NFT contract is wired at most once.
LEMMA NftWiredOnce ==
  ASSUME [Next]_vars
  PROVE  tombstoneNFT' = tombstoneNFT \/ tombstoneNFT = None
<1>1. ASSUME NEW caller \in Accounts, OwnerStep(caller)
      PROVE  tombstoneNFT' = tombstoneNFT \/ tombstoneNFT = None
  BY <1>1 DEF OwnerStep, SetDecisionLog, SetTombstoneNFT, RecordDecision,
       DeclareDeath, Die, Bury, DeathReverts, SetOwner, wiringVars
<1> QED
  BY <1>1 DEF Next, PokeLifeState, EnergyMoves, vars, wiringVars

\* While the agent lives there is no tombstone; afterwards at most one.
LEMMA StoneCountBound ==
  ASSUME IInv
  PROVE  /\ StoneCount \in {0, 1}
         /\ lifeState # Dead => StoneCount = 0
<1>1. CASE tombstoneNFT = None
  BY <1>1 DEF StoneCount
<1>2. CASE tombstoneNFT # None
  <2>1. tombstoneNFT \in Nfts /\ tombstones[tombstoneNFT] \in Seq(Stones)
    BY <1>2 DEF IInv, TypeOK
  <2>2. CASE tombstones[tombstoneNFT] = <<>>
    BY <1>2, <2>2 DEF StoneCount
  <2>3. CASE tombstones[tombstoneNFT] # <<>>
    BY <1>2, <2>1, <2>3 DEF StoneCount, IInv, AtMostOneTombstone
  <2> QED BY <2>2, <2>3
<1> QED BY <1>1, <1>2

\* Wiring a dead agent to an NFT contract finds no tombstone there.
LEMMA DeadKeepsStones ==
  ASSUME IInv, [Next]_vars, lifeState = Dead
  PROVE  StoneCount' = StoneCount
<1>1. tombstones' = tombstones
  BY StepOnlyFalls DEF lifeVars
<1>2. CASE tombstoneNFT' = tombstoneNFT
  BY <1>1, <1>2 DEF StoneCount
<1>3. CASE tombstoneNFT = None /\ tombstoneNFT' # None
  <2>1. tombstoneNFT' \in Nfts
    BY <1>3, NextPreserves DEF IInv, TypeOK
  <2>2. tombstones[tombstoneNFT'] = <<>>
    BY <1>3, <2>1 DEF IInv, AtMostOneTombstone
  <2> QED
    BY <1>1, <1>3, <2>2 DEF StoneCount
<1> QED
  BY <1>2, <1>3, NftWiredOnce

\* AgentLifecycle implements MortalLife: every step of the contract is a fall,
\* the one death, or invisible.
THEOREM Refinement == Spec => ImplementsMortalLife
<1>1. Init => Life!Init
  BY DEF Init, Life!Init, Alive
<1>2. IInv /\ [Next]_vars => [Life!Next]_Life!vars
  <2> SUFFICES ASSUME IInv, [Next]_vars
               PROVE  [Life!Next]_Life!vars
    OBVIOUS
  <2>1. IInv'
    BY NextPreserves
  <2>2. lifeState \in LifeStates /\ lifeState' \in LifeStates
    BY <2>1 DEF IInv, TypeOK
  <2>3. StoneCount' \in {0, 1} /\ (lifeState' # Dead => StoneCount' = 0)
    <3>1. ASSUME IInv'
          PROVE  (StoneCount \in {0, 1} /\ (lifeState # Dead => StoneCount = 0))'
      BY <3>1, StoneCountBound, PTL
    <3> QED BY <2>1, <3>1
  <2>4. lifeState # Dead => StoneCount = 0
    BY StoneCountBound
  <2>5. CASE lifeState = Dead
    BY <2>2, <2>5, StepOnlyFalls, DeadKeepsStones
    DEF Life!vars, StoneCount, lifeVars
  <2>6. CASE lifeState # Dead /\ lifeState' = Dead
    BY <2>2, <2>3, <2>6
    DEF Life!Next, Life!Death, Life!Dead, StoneCount, LifeStates, Alive, Dead
  <2>7. CASE lifeState # Dead /\ lifeState' # Dead
    BY <2>2, <2>3, <2>4, <2>7, StepOnlyFalls
    DEF Life!Next, Life!Fall, Life!Dead, Life!vars, StoneCount, LifeStates,
        Alive, Dead
  <2> QED BY <2>5, <2>6, <2>7
<1> QED
  BY <1>1, <1>2, Invariance, PTL DEF Spec, ImplementsMortalLife, Life!Spec

-----------------------------------------------------------------------------
(* The Death Watch stream, on which the dashboard follows the agent to its *)
(* end: a component of its own, with constants and variables of its own.   *)

HIDE LifecycleConstants DEF LifecycleConstants

\* A socket that is open has taken back the loss before it.
SourceInv == NeverBlind /\ (socket = "open" => ~lost)

\* From a lost socket to the next open one, or to the stop, the client polls: an
\* attempt to reconnect leaves the poller alone, and only an open socket, which
\* forgets the loss, or a frame on one ends the polls (openSocket, onopen, onclose).
THEOREM SourceOfFrames == StreamSpec => []NeverBlind
<1>1. StreamInit => SourceInv
  BY DEF StreamInit, SourceInv, NeverBlind
<1>2. SourceInv /\ [StreamNext]_(watchVars) => SourceInv'
  <2> SUFFICES ASSUME SourceInv, [StreamNext]_(watchVars)
               PROVE  SourceInv'
    OBVIOUS
  <2> USE DEF SourceInv, NeverBlind, linkVars
  <2>1. ASSUME NEW throws \in BOOLEAN, OpenSocket(throws)
        PROVE  SourceInv'
    BY <2>1 DEF OpenSocket
  <2>2. ASSUME OnOpen \/ OnMessage \/ Disconnect
        PROVE  SourceInv'
    BY <2>2 DEF OnOpen, OnMessage, Disconnect
  <2>3. ASSUME OnClose \/ Silence
        PROVE  SourceInv'
    BY <2>3 DEF OnClose, Silence, StartPolling
  <2>4. ASSUME Restart \/ Stop
        PROVE  SourceInv'
    BY <2>4 DEF Restart, Stop
  <2>5. ASSUME UNCHANGED linkVars
        PROVE  SourceInv'
    BY <2>5
  <2>6. CASE (\E pct \in Levels, ok \in 0..Len(Thresholds) : ObserveEnergy(pct, ok))
             \/ (\E taken \in BOOLEAN : EmitTerminal(taken))
    BY <2>5, <2>6 DEF ObserveEnergy, EmitTerminal
  <2>7. CASE PollAsk \/ PollAnswered \/ PollFails
             \/ (\E whole \in BOOLEAN : PollServed(whole)) \/ UNCHANGED watchVars
    BY <2>5, <2>7 DEF PollAsk, PollAnswered, PollFails,
       PollServed, watchVars
  <2> QED BY <2>1, <2>2, <2>3, <2>4, <2>6, <2>7 DEF StreamNext
<1> QED BY <1>1, <1>2, PTL DEF StreamSpec, SourceInv

-----------------------------------------------------------------------------
Sides == {"above", "below"}
Frames == [life : Int, seq : Int, threshold : Int, side : Sides]

\* What the network carries are frames.
Carried ==
  /\ life \in Nat /\ seq \in Nat
  /\ side \in [Watched -> Sides \cup {"none"}]
  /\ sent \in Seq(Frames) /\ wire \in Seq(Frames) /\ answer \subseteq Seq(Frames)

\* What the store may have heard: each frame newer than all before it, and none
\* newer than the number it goes by.
InOrder ==
  {s \in [lastSeq : Int,
          crossing : [threshold : Int, side : Sides \cup {"none"}],
          terminal : BOOLEAN, heard : Seq(Frames)] :
     /\ \A i \in 1..Len(s.heard) : s.heard[i].seq <= s.lastSeq
     /\ \A i, j \in 1..Len(s.heard) : i < j => s.heard[i].seq < s.heard[j].seq}

\* One frame heard or skipped keeps the store in order.
LEMMA HearKeepsOrder ==
  ASSUME NEW s \in InOrder, NEW f \in Frames
  PROVE  Hear(s, f) \in InOrder
<1>1. CASE f.seq <= s.lastSeq
  BY <1>1 DEF Hear
<1>2. CASE ~(f.seq <= s.lastSeq)
  <2> DEFINE h == s.heard
             r == Ingest(s, f)
  <2>1. f.seq \in Int /\ s.lastSeq \in Int /\ s.lastSeq < f.seq
    BY <1>2 DEF Frames, InOrder
  <2>2. h \in Seq(Frames) /\ (\A i \in 1..Len(h) : h[i].seq <= s.lastSeq)
        /\ \A i, j \in 1..Len(h) : i < j => h[i].seq < h[j].seq
    BY DEF InOrder
  <2>3. r.heard = Append(h, f) /\ r.lastSeq = f.seq
    BY DEF Ingest
  <2>4. Len(r.heard) = Len(h) + 1 /\ r.heard[Len(h) + 1] = f /\ Len(h) \in Nat
        /\ \A i \in 1..Len(h) : r.heard[i] = h[i]
    BY <2>2, <2>3
  <2>5. r \in [lastSeq : Int,
               crossing : [threshold : Int, side : Sides \cup {"none"}],
               terminal : BOOLEAN, heard : Seq(Frames)]
    <3>1. f.threshold \in Int /\ f.side \in Sides \cup {"none"}
      BY DEF Frames
    <3>2. s.crossing \in [threshold : Int, side : Sides \cup {"none"}]
          /\ s.terminal \in BOOLEAN
      BY DEF InOrder
    <3>3. Append(h, f) \in Seq(Frames)
      BY <2>2
    <3>4. [threshold |-> f.threshold, side |-> f.side]
            \in [threshold : Int, side : Sides \cup {"none"}]
      BY <3>1
    <3>5. (s.terminal \/ f.threshold = Terminal) \in BOOLEAN
      BY <3>2
    <3> QED BY <2>1, <3>2, <3>3, <3>4, <3>5 DEF Ingest
  <2>6. \A i \in 1..Len(h) : h[i].seq \in Int
    <3>1. \A i \in 1..Len(h) : h[i] \in Frames
      BY <2>2
    <3> QED BY <3>1 DEF Frames
  <2> HIDE DEF h, r
  <2>7. \A i \in 1..Len(r.heard) : i \in 1..Len(h) \/ i = Len(h) + 1
    BY <2>4
  <2>8. ASSUME NEW i \in 1..Len(r.heard)
        PROVE  r.heard[i].seq <= r.lastSeq
    <3>1. CASE i \in 1..Len(h)
      BY <2>1, <2>2, <2>3, <2>4, <2>6, <3>1
    <3>2. CASE i = Len(h) + 1
      BY <2>1, <2>3, <2>4, <3>2
    <3> QED BY <2>7, <3>1, <3>2
  <2>9. ASSUME NEW i \in 1..Len(r.heard), NEW j \in 1..Len(r.heard), i < j
        PROVE  r.heard[i].seq < r.heard[j].seq
    <3>1. i \in 1..Len(h)
      <4>1. i # Len(h) + 1
        BY <2>4, <2>9
      <4> QED BY <2>7, <4>1
    <3>2. CASE j \in 1..Len(h)
      BY <2>2, <2>4, <2>9, <3>1, <3>2
    <3>3. CASE j = Len(h) + 1
      BY <2>1, <2>2, <2>4, <2>6, <3>1, <3>3
    <3> QED BY <2>7, <3>2, <3>3
  <2>10. r \in InOrder
    BY <2>5, <2>8, <2>9 DEF InOrder
  <2> QED BY <1>2, <2>10 DEF Hear, r
<1> QED BY <1>1, <1>2

\* handleFrame on a whole backlog does too.
LEMMA HandleKeepsOrder ==
  ASSUME NEW frames \in Seq(Frames), Handle(frames), Store \in InOrder
  PROVE  Store' \in InOrder
<1> DEFINE N == Len(frames)
           Is(g) == g = [i \in 0..N |->
                           IF i = 0 THEN Store ELSE Hear(g[i - 1], frames[i])]
           step == [i \in 1..N |-> [s \in InOrder |-> Hear(s, frames[i])]]
           hear == CHOOSE g : Is(g)
<1>1. N \in Nat /\ \A i \in 1..N : frames[i] \in Frames
  OBVIOUS
<1>2. /\ lastSeq' = hear[N].lastSeq /\ crossing' = hear[N].crossing
      /\ terminal' = hear[N].terminal /\ heard' = hear[N].heard
  BY DEF Handle
<1> HIDE DEF N
<1>3. step \in [1..N -> [InOrder -> InOrder]]
  BY <1>1, HearKeepsOrder
<1>4. \A i \in 1..N, s \in InOrder : step[i][s] = Hear(s, frames[i])
  OBVIOUS
<1> HIDE DEF step
<1>5. PICK f : Starts(f, N, InOrder, Store, step)
  BY <1>1, <1>3, Recursion
<1>6. f \in [0..N -> InOrder] /\ f[0] = Store /\ \A i \in 1..N : f[i] = step[i][f[i - 1]]
  BY <1>5 DEF Starts
<1>7. \A i \in 0..N : f[i] = IF i = 0 THEN Store ELSE Hear(f[i - 1], frames[i])
  <2> TAKE i \in 0..N
  <2>1. CASE i = 0
    BY <1>6, <2>1
  <2>2. CASE i # 0
    <3>1. i \in 1..N /\ i - 1 \in 0..N
      BY <1>1, <2>2
    <3>2. f[i - 1] \in InOrder /\ f[i] = step[i][f[i - 1]]
      BY <1>6, <3>1
    <3> QED BY <1>4, <2>2, <3>1, <3>2
  <2> QED BY <2>1, <2>2
<1>8. Is(f)
  BY <1>6, <1>7
<1>9. Is(hear)
  BY <1>8
<1>10. \A i \in 0..N :
         hear[i] = IF i = 0 THEN Store ELSE Hear(hear[i - 1], frames[i])
  <2> HIDE DEF hear
  <2> QED BY <1>9
<1> DEFINE T == {n \in Nat : n <= N => hear[n] \in InOrder}
<1> HIDE DEF hear
<1>11. 0 \in T
  BY <1>1, <1>10
<1>12. ASSUME NEW n \in Nat, n \in T
       PROVE  n + 1 \in T
  <2> SUFFICES ASSUME n + 1 <= N
               PROVE  hear[n + 1] \in InOrder
    OBVIOUS
  <2>1. n + 1 \in 0..N /\ n + 1 \in 1..N /\ (n + 1) - 1 = n
    BY <1>1
  <2>2. hear[n] \in InOrder /\ hear[n + 1] = Hear(hear[n], frames[n + 1])
    BY <1>1, <1>10, <1>12, <2>1
  <2> QED BY <1>1, <2>1, <2>2, HearKeepsOrder
<1>13. N \in T
  <2> HIDE DEF T
  <2> QED BY <1>1, <1>11, <1>12, Induct
<1>14. hear[N] \in InOrder
  BY <1>1, <1>13
<1>15. hear[N] = [lastSeq |-> hear[N].lastSeq, crossing |-> hear[N].crossing,
                  terminal |-> hear[N].terminal, heard |-> hear[N].heard]
  BY <1>14 DEF InOrder
<1> QED BY <1>2, <1>14, <1>15 DEF Store

-----------------------------------------------------------------------------
\* The thresholds crossed are those whose side changes, each once.
LEMMA CrossedOnce ==
  ASSUME NEW pct
  PROVE  /\ Crossed(pct) \in Seq(Watched)
         /\ \A i, j \in 1..Len(Crossed(pct)) :
              Crossed(pct)[i] = Crossed(pct)[j] => i = j
         /\ \A t \in Watched :
              (\E i \in 1..Len(Crossed(pct)) : Crossed(pct)[i] = t)
                <=> side[t] \notin {"none", Side(pct, t)}
<1> DEFINE A == {t \in Watched : side[t] \notin {"none", Side(pct, t)}}
           C == Kept(Thresholds, A)
<1>1. Crossed(pct) = C
  BY DEF Crossed
<1>2. /\ Thresholds \in Seq(Watched) /\ Len(Thresholds) \in Nat
      /\ \A i, j \in 1..Len(Thresholds) : Thresholds[i] = Thresholds[j] => i = j
      /\ \A t \in Watched : \E m \in 1..Len(Thresholds) : Thresholds[m] = t
  <2>1. Thresholds \in Seq(Int) /\ Watched = {Thresholds[i] : i \in 1..Len(Thresholds)}
    BY StreamAssumption DEF StreamAssumption, Watched, ToSet
  <2>2. Thresholds \in [1..Len(Thresholds) -> Watched] /\ Len(Thresholds) \in Nat
    BY <2>1
  <2>3. Thresholds \in Seq(Watched)
    BY <2>2
  <2>4. \A i, j \in 1..Len(Thresholds) : Thresholds[i] = Thresholds[j] => i = j
    BY StreamAssumption DEF StreamAssumption
  <2>5. \A t \in Watched : \E m \in 1..Len(Thresholds) : Thresholds[m] = t
    BY <2>1
  <2> QED BY <2>2, <2>3, <2>4, <2>5
<1> HIDE DEF A
<1>3. C \in Seq(Watched)
  BY <1>2, KeptSeq
<1>4. PICK at : Places(at, C, Thresholds, A)
  BY <1>2, KeptPlaces
<1> HIDE DEF C
<1>5. /\ at \in [1..Len(C) -> 1..Len(Thresholds)]
      /\ \A i, j \in 1..Len(C) : i < j => at[i] < at[j]
      /\ \A i \in 1..Len(C) : C[i] = Thresholds[at[i]] /\ C[i] \in A
      /\ \A m \in 1..Len(Thresholds) :
           Thresholds[m] \in A => \E i \in 1..Len(C) : at[i] = m
  BY <1>4 DEF Places
<1>6. ASSUME NEW i \in 1..Len(C), NEW j \in 1..Len(C), C[i] = C[j]
      PROVE  i = j
  <2>1. at[i] \in 1..Len(Thresholds) /\ at[j] \in 1..Len(Thresholds)
    BY <1>5
  <2>2. at[i] = at[j]
    <3>1. Thresholds[at[i]] = Thresholds[at[j]]
      BY <1>5, <1>6
    <3> QED BY <1>2, <2>1, <3>1
  <2>3. ~(i < j) /\ ~(j < i)
    BY <1>2, <1>5, <2>1, <2>2
  <2> QED BY <1>3, <2>3
<1>7. ASSUME NEW t \in Watched
      PROVE  (\E i \in 1..Len(C) : C[i] = t) <=> t \in A
  <2>1. ASSUME t \in A
        PROVE  \E i \in 1..Len(C) : C[i] = t
    <3>1. PICK m \in 1..Len(Thresholds) : Thresholds[m] = t
      BY <1>2
    <3>2. PICK i \in 1..Len(C) : at[i] = m
      BY <1>5, <2>1, <3>1
    <3> QED BY <1>5, <3>1, <3>2
  <2> QED BY <1>5, <2>1
<1>8. \A t \in Watched : t \in A <=> side[t] \notin {"none", Side(pct, t)}
  BY DEF A
<1> QED BY <1>1, <1>3, <1>6, <1>7, <1>8

\* What observe_energy does, told of its frames and of the trackers: each frame
\* tells a new side of a threshold of its own, a threshold left for the next
\* sample keeps the side it had, and any other side that changes was unknown.
Tells(frames, pct, left) ==
  /\ frames \in Seq(Frames) /\ left \subseteq Watched
  /\ sent' = sent \o frames
  /\ wire' \in {wire, wire \o frames}
  /\ side' = [t \in Watched |-> IF t \in left THEN side[t] ELSE Side(pct, t)]
  /\ \A i \in 1..Len(frames) :
       LET t == frames[i].threshold
       IN /\ t \in Watched \ left
          /\ side[t] # "none" /\ side[t] # Side(pct, t)
          /\ frames[i].side = Side(pct, t)
  /\ \A i, j \in 1..Len(frames) : frames[i].threshold = frames[j].threshold => i = j
  /\ \A t \in Watched \ left :
       (\A i \in 1..Len(frames) : frames[i].threshold # t)
         => side[t] \in {"none", Side(pct, t)}

\* A reading puts into the tape the frames of the thresholds it crosses.
LEMMA SampleTells ==
  ASSUME Carried, NEW pct \in Levels,
         NEW ok \in 0..Len(Thresholds), ObserveEnergy(pct, ok)
  PROVE  \E frames, left : Tells(frames, pct, left)
<1> DEFINE C == Crossed(pct)
           frames == [i \in 1..ok |-> Frame(seq + i - 1, C[i], Side(pct, C[i]))]
           left == ToSet(SubSeq(C, ok + 1, Len(C)))
<1>1. /\ C \in Seq(Watched) /\ Len(C) \in Nat
      /\ \A i, j \in 1..Len(C) : C[i] = C[j] => i = j
      /\ \A t \in Watched :
           (\E i \in 1..Len(C) : C[i] = t) <=> side[t] \notin {"none", Side(pct, t)}
  BY CrossedOnce
<1>2. /\ ok <= Len(C) /\ ok \in Nat
      /\ sent' = sent \o frames /\ wire' \in {wire, wire \o frames}
      /\ side' = [t \in Watched |-> IF t \in left THEN side[t] ELSE Side(pct, t)]
  <2>1. ok \in Nat
    BY StreamAssumption DEF StreamAssumption
  <2> QED BY <2>1 DEF ObserveEnergy, Transmit
<1> HIDE DEF C
<1>3. \A i \in 1..ok : i \in 1..Len(C) /\ C[i] \in Watched /\ C[i] \in Int
  <2>1. \A i \in 1..ok : i \in 1..Len(C)
    BY <1>1, <1>2
  <2>2. \A i \in 1..ok : C[i] \in Watched
    BY <1>1, <2>1
  <2>3. Watched \subseteq Int
    BY StreamAssumption DEF StreamAssumption, Watched, ToSet
  <2> QED BY <2>1, <2>2, <2>3
<1>4. \A t : Side(pct, t) \in Sides
  BY DEF Side, Sides
<1>5. frames \in Seq(Frames) /\ Len(frames) = ok
  <2>1. ASSUME NEW i \in 1..ok
        PROVE  Frame(seq + i - 1, C[i], Side(pct, C[i])) \in Frames
    <3>1. seq + i - 1 \in Int /\ life \in Int /\ C[i] \in Int /\ Side(pct, C[i]) \in Sides
      BY <1>3, <1>4 DEF Carried
    <3> QED BY <3>1 DEF Frame, Frames
  <2>2. frames \in [1..ok -> Frames]
    BY <2>1
  <2> HIDE DEF frames
  <2> QED BY <1>2, <2>2
<1>6. \A i \in 1..ok : frames[i].threshold = C[i] /\ frames[i].side = Side(pct, C[i])
  BY DEF Frame
<1>7. left = {C[i] : i \in (ok + 1)..Len(C)}
  <2> DEFINE rest == SubSeq(C, ok + 1, Len(C))
  <2>1. /\ Len(rest) = Len(C) - ok /\ rest \in Seq(Watched)
        /\ \A i \in 1..(Len(C) - ok) : rest[i] = C[ok + i]
    BY <1>1, <1>2
  <2>2. left = {rest[i] : i \in 1..(Len(C) - ok)}
    <3>1. left = {rest[i] : i \in DOMAIN rest}
      BY DEF ToSet
    <3>2. DOMAIN rest = 1..(Len(C) - ok)
      BY <2>1
    <3> QED BY <3>1, <3>2
  <2> HIDE DEF rest, left
  <2>3. ASSUME NEW i \in (ok + 1)..Len(C)
        PROVE  C[i] \in left
    <3>1. i - ok \in 1..(Len(C) - ok) /\ ok + (i - ok) = i
      BY <1>1, <1>2
    <3>2. rest[i - ok] = C[i]
      BY <2>1, <3>1
    <3> QED BY <2>2, <3>1, <3>2
  <2>4. ASSUME NEW i \in 1..(Len(C) - ok)
        PROVE  ok + i \in (ok + 1)..Len(C)
    BY <1>1, <1>2
  <2>5. ASSUME NEW x \in left
        PROVE  \E i \in (ok + 1)..Len(C) : x = C[i]
    <3>1. PICK i \in 1..(Len(C) - ok) : x = rest[i]
      BY <2>2
    <3> QED BY <2>1, <2>4, <3>1
  <2> QED BY <2>3, <2>5
<1> HIDE DEF frames, left
<1>8. left \subseteq Watched
  BY <1>1, <1>2, <1>7
<1>9. ASSUME NEW i \in 1..ok
      PROVE  C[i] \in Watched \ left /\ side[C[i]] # "none"
             /\ side[C[i]] # Side(pct, C[i])
  <2>1. C[i] \notin left
    <3> SUFFICES ASSUME NEW j \in (ok + 1)..Len(C), C[j] = C[i]
                 PROVE  FALSE
      BY <1>7
    <3>1. j \in 1..Len(C) /\ i \in 1..Len(C) /\ i # j
      BY <1>1, <1>2
    <3> QED BY <1>1, <3>1
  <2> QED BY <1>1, <1>3, <2>1
<1>10. \A i, j \in 1..ok : C[i] = C[j] => i = j
  BY <1>1, <1>3
<1>11. ASSUME NEW t \in Watched \ left, \A i \in 1..ok : C[i] # t
       PROVE  side[t] \in {"none", Side(pct, t)}
  <2>1. ASSUME NEW i \in 1..Len(C)
        PROVE  C[i] # t
    <3>1. i \in 1..ok \/ i \in (ok + 1)..Len(C)
      BY <1>1, <1>2
    <3> QED BY <1>7, <1>11, <3>1
  <2> QED BY <1>1, <2>1
<1>12. \A i, j \in 1..Len(frames) : frames[i].threshold = frames[j].threshold => i = j
  BY <1>5, <1>6, <1>10
<1>13. \A i \in 1..Len(frames) :
         LET t == frames[i].threshold
         IN /\ t \in Watched \ left
            /\ side[t] # "none" /\ side[t] # Side(pct, t)
            /\ frames[i].side = Side(pct, t)
  BY <1>5, <1>6, <1>9
<1>14. \A t \in Watched \ left :
         (\A i \in 1..Len(frames) : frames[i].threshold # t)
           => side[t] \in {"none", Side(pct, t)}
  BY <1>5, <1>6, <1>11
<1>15. Tells(frames, pct, left)
  BY <1>2, <1>5, <1>8, <1>12, <1>13, <1>14 DEF Tells
<1> QED BY <1>15

\* TapeTellsTheSide of any tape and any trackers.
Clear(tape, i, j) ==
  \A k \in (i + 1)..(j - 1) : tape[k].threshold # tape[i].threshold

Agree(tape, sides) ==
  \A i \in 1..Len(tape) :
    tape[i].threshold \in Watched =>
      /\ Clear(tape, i, Len(tape) + 1) => sides[tape[i].threshold] = tape[i].side
      /\ \A j \in (i + 1)..Len(tape) :
           tape[j].threshold = tape[i].threshold /\ Clear(tape, i, j)
             => tape[j].side # tape[i].side

\* The property, with the tape and the trackers as arguments.
LEMMA TapeAgrees ==
  /\ TapeTellsTheSide <=> Agree(sent, side)
  /\ TapeTellsTheSide' <=> Agree(sent', side')
  BY DEF TapeTellsTheSide, NoneBetween, Agree, Clear

\* The tape only grows: what lies between two of its frames stays as it is.
LEMMA TapeGrows ==
  ASSUME Carried, NEW frames \in Seq(Frames), sent' = sent \o frames
  PROVE  /\ sent' \in Seq(Frames)
         /\ Len(sent') = Len(sent) + Len(frames)
         /\ \A i \in 1..Len(sent) : i \in 1..Len(sent') /\ sent'[i] = sent[i]
         /\ \A i \in 1..Len(frames) : sent'[Len(sent) + i] = frames[i]
         /\ \A i \in 1..Len(sent) : \A j \in (i + 1)..(Len(sent') + 1) :
              Clear(sent', i, j) =>
                IF j <= Len(sent) THEN Clear(sent, i, j)
                ELSE Clear(sent, i, Len(sent) + 1)
<1>1. sent \in Seq(Frames) /\ Len(sent) \in Nat /\ Len(frames) \in Nat
  BY DEF Carried
<1>2. /\ sent' \in Seq(Frames)
      /\ Len(sent') = Len(sent) + Len(frames)
      /\ \A i \in 1..Len(sent) : i \in 1..Len(sent') /\ sent'[i] = sent[i]
      /\ \A i \in 1..Len(frames) : sent'[Len(sent) + i] = frames[i]
  BY <1>1
<1>3. ASSUME NEW i \in 1..Len(sent), NEW j \in (i + 1)..(Len(sent') + 1), Clear(sent', i, j)
      PROVE  IF j <= Len(sent) THEN Clear(sent, i, j) ELSE Clear(sent, i, Len(sent) + 1)
  <2>1. \A k \in (i + 1)..(j - 1) : sent'[k].threshold # sent'[i].threshold
    BY <1>3 DEF Clear
  <2>2. ASSUME NEW k \in (i + 1)..(j - 1), k \in 1..Len(sent)
        PROVE  sent[k].threshold # sent[i].threshold
    BY <1>2, <2>1, <2>2
  <2>3. CASE j <= Len(sent)
    <3>1. \A k \in (i + 1)..(j - 1) : k \in 1..Len(sent)
      BY <1>1, <2>3
    <3> QED BY <2>2, <2>3, <3>1 DEF Clear
  <2>4. CASE ~(j <= Len(sent))
    <3>1. \A k \in (i + 1)..((Len(sent) + 1) - 1) : k \in 1..Len(sent) /\ k \in (i + 1)..(j - 1)
      BY <1>1, <1>2, <2>4
    <3> QED BY <2>2, <2>4, <3>1 DEF Clear
  <2> QED BY <2>3, <2>4
<1> QED BY <1>2, <1>3

\* After a sample the tape and the trackers agree again.
LEMMA SampleKeepsTape ==
  ASSUME Carried, Agree(sent, side), NEW frames, NEW pct, NEW left,
         Tells(frames, pct, left)
  PROVE  Agree(sent', side')
<1> DEFINE n == Len(sent)
<1>1. /\ frames \in Seq(Frames) /\ sent' = sent \o frames
      /\ side' = [t \in Watched |-> IF t \in left THEN side[t] ELSE Side(pct, t)]
  BY DEF Tells
<1>2. /\ Len(sent') = n + Len(frames) /\ n \in Nat /\ Len(frames) \in Nat
      /\ \A i \in 1..n : i \in 1..Len(sent') /\ sent'[i] = sent[i]
      /\ \A i \in 1..Len(frames) : sent'[n + i] = frames[i]
      /\ \A i \in 1..n : \A j \in (i + 1)..(Len(sent') + 1) :
           Clear(sent', i, j) =>
             IF j <= n THEN Clear(sent, i, j) ELSE Clear(sent, i, n + 1)
  <2>1. n \in Nat /\ Len(frames) \in Nat
    BY <1>1 DEF Carried
  <2> QED BY <1>1, <2>1, TapeGrows
<1>3. \A i \in 1..n : sent[i].side \in Sides
  <2>1. \A i \in 1..n : sent[i] \in Frames
    BY DEF Carried
  <2> QED BY <2>1 DEF Frames
<1>4. \A i \in 1..n : sent[i].threshold \in Watched /\ Clear(sent, i, n + 1)
                         => side[sent[i].threshold] = sent[i].side
  BY DEF Agree
<1>5. ASSUME NEW i \in 1..n, NEW j \in (i + 1)..n, sent[i].threshold \in Watched,
             sent[j].threshold = sent[i].threshold, Clear(sent, i, j)
      PROVE  sent[j].side # sent[i].side
  BY <1>5 DEF Agree
<1> HIDE DEF n
<1>6. \A i \in 1..Len(sent') : i \in 1..n \/ (i - n \in 1..Len(frames) /\ i = n + (i - n))
  BY <1>2
<1>7. ASSUME NEW i \in 1..Len(sent'), sent'[i].threshold \in Watched,
             Clear(sent', i, Len(sent') + 1)
      PROVE  side'[sent'[i].threshold] = sent'[i].side
  <2> DEFINE t == sent'[i].threshold
  <2>1. CASE i \in 1..n
    <3>1. sent'[i] = sent[i] /\ t = sent[i].threshold /\ t \in Watched
      BY <1>2, <1>7, <2>1
    <3>2. Clear(sent, i, n + 1)
      <4>1. Len(sent') + 1 \in (i + 1)..(Len(sent') + 1) /\ ~(Len(sent') + 1 <= n)
        BY <1>2, <2>1
      <4> QED BY <1>2, <1>7, <2>1, <4>1
    <3>3. side[t] = sent[i].side /\ side[t] # "none"
      BY <1>3, <1>4, <2>1, <3>1, <3>2 DEF Sides
    <3>4. CASE t \in left
      BY <1>1, <3>1, <3>3, <3>4
    <3>5. CASE t \notin left
      <4>1. ASSUME NEW k \in 1..Len(frames)
            PROVE  frames[k].threshold # t
        <5>1. n + k \in (i + 1)..((Len(sent') + 1) - 1) /\ sent'[n + k] = frames[k]
          BY <1>2, <2>1
        <5> QED BY <1>7, <5>1 DEF Clear
      <4>2. side[t] = Side(pct, t)
        BY <3>1, <3>3, <3>5, <4>1 DEF Tells
      <4> QED BY <1>1, <3>1, <3>3, <3>5, <4>2
    <3> QED BY <3>4, <3>5
  <2>2. CASE i - n \in 1..Len(frames) /\ i = n + (i - n)
    <3>1. sent'[i] = frames[i - n]
      BY <1>2, <2>2
    <3>2. t \in Watched \ left /\ frames[i - n].side = Side(pct, t)
      BY <2>2, <3>1 DEF Tells
    <3> QED BY <1>1, <3>1, <3>2
  <2> QED BY <1>6, <2>1, <2>2
<1>8. ASSUME NEW i \in 1..Len(sent'), NEW j \in (i + 1)..Len(sent'),
             sent'[i].threshold \in Watched,
             sent'[j].threshold = sent'[i].threshold, Clear(sent', i, j)
      PROVE  sent'[j].side # sent'[i].side
  <2> DEFINE t == sent'[i].threshold
  <2>1. j \in 1..Len(sent') /\ i < j
    BY <1>2
  <2>2. CASE j \in 1..n
    <3>1. i \in 1..n /\ j \in (i + 1)..n /\ j <= n /\ j \in (i + 1)..(Len(sent') + 1)
      BY <1>2, <2>1, <2>2
    <3> QED BY <1>2, <1>5, <1>8, <2>2, <3>1
  <2>3. CASE i \in 1..n /\ j - n \in 1..Len(frames) /\ j = n + (j - n)
    <3>1. sent'[i] = sent[i] /\ t = sent[i].threshold /\ t \in Watched
      BY <1>2, <1>8, <2>3
    <3>2. j \in (i + 1)..(Len(sent') + 1) /\ ~(j <= n)
      BY <1>2, <2>3
    <3>3. side[t] = sent[i].side
      BY <1>2, <1>4, <1>8, <2>3, <3>1, <3>2
    <3>4. sent'[j] = frames[j - n] /\ frames[j - n].threshold = t
      BY <1>2, <1>8, <2>3
    <3>5. side[t] # Side(pct, t) /\ frames[j - n].side = Side(pct, t)
      BY <2>3, <3>4 DEF Tells
    <3> QED BY <3>1, <3>3, <3>4, <3>5
  <2>4. CASE /\ i - n \in 1..Len(frames) /\ i = n + (i - n)
             /\ j - n \in 1..Len(frames) /\ j = n + (j - n)
    <3>1. frames[i - n].threshold = frames[j - n].threshold
      BY <1>2, <1>8, <2>4
    <3>2. i - n = j - n
      BY <2>4, <3>1 DEF Tells
    <3> QED BY <1>2, <2>1, <3>2
  <2>5. i \in 1..n \/ (i - n \in 1..Len(frames) /\ i = n + (i - n))
    BY <1>6
  <2>6. j \in 1..n \/ (j - n \in 1..Len(frames) /\ j = n + (j - n))
    BY <1>6, <2>1
  <2>7. i - n \in 1..Len(frames) => ~(j \in 1..n)
    BY <1>2, <2>1
  <2> QED BY <2>2, <2>3, <2>4, <2>5, <2>6, <2>7
<1>9. ASSUME NEW i \in 1..Len(sent'), sent'[i].threshold \in Watched
      PROVE  /\ Clear(sent', i, Len(sent') + 1) => side'[sent'[i].threshold] = sent'[i].side
             /\ \A j \in (i + 1)..Len(sent') :
                  sent'[j].threshold = sent'[i].threshold /\ Clear(sent', i, j)
                    => sent'[j].side # sent'[i].side
  BY <1>7, <1>8, <1>9
<1> QED BY <1>9 DEF Agree

\* The one frame that is not a sample's is about no threshold.
LEMMA TerminalKeepsTape ==
  ASSUME Carried, Agree(sent, side),
         NEW taken \in BOOLEAN, EmitTerminal(taken)
  PROVE  Agree(sent', side') /\ Carried'
<1> DEFINE f == Frame(seq, Terminal, "below")
           frames == IF taken THEN <<f>> ELSE <<>>
           n == Len(sent)
<1>1. /\ sent' = sent \o frames /\ wire' \in {wire, wire \o frames}
      /\ UNCHANGED <<life, side, answer>> /\ seq' = seq + 1
  BY DEF EmitTerminal, Transmit, pollVars
<1>2. f \in Frames /\ f.threshold = 0
  BY DEF Frame, Frames, Terminal, Carried, Sides
<1> HIDE DEF f
<1>3. frames \in Seq(Frames) /\ Len(frames) \in {0, 1}
      /\ \A i \in 1..Len(frames) : frames[i].threshold = 0
  BY <1>2
<1>4. 0 \notin Watched
  BY StreamAssumption DEF StreamAssumption, Watched
<1> HIDE DEF frames
<1>5. /\ Len(sent') = n + Len(frames) /\ n \in Nat /\ sent' \in Seq(Frames)
      /\ \A i \in 1..n : i \in 1..Len(sent') /\ sent'[i] = sent[i]
      /\ \A i \in 1..Len(frames) : sent'[n + i] = frames[i]
      /\ \A i \in 1..n : \A j \in (i + 1)..(Len(sent') + 1) :
           Clear(sent', i, j) =>
             IF j <= n THEN Clear(sent, i, j) ELSE Clear(sent, i, n + 1)
  <2>1. n \in Nat
    BY DEF Carried
  <2> QED BY <1>1, <1>3, <2>1, TapeGrows
<1>6. \A i \in 1..n : sent[i].threshold \in Watched =>
        /\ Clear(sent, i, n + 1) => side[sent[i].threshold] = sent[i].side
        /\ \A j \in (i + 1)..n :
             sent[j].threshold = sent[i].threshold /\ Clear(sent, i, j)
               => sent[j].side # sent[i].side
  BY DEF Agree
<1> HIDE DEF n
<1>7. \A i \in 1..Len(sent') :
        i \in 1..n \/ (i - n \in 1..Len(frames) /\ sent'[i].threshold = 0)
  <2> TAKE i \in 1..Len(sent')
  <2>1. i \in 1..n \/ (i - n \in 1..Len(frames) /\ n + (i - n) = i)
    BY <1>3, <1>5
  <2> QED BY <1>3, <1>5, <2>1
<1>8. ASSUME NEW i \in 1..Len(sent'), sent'[i].threshold \in Watched
      PROVE  /\ Clear(sent', i, Len(sent') + 1) => side'[sent'[i].threshold] = sent'[i].side
             /\ \A j \in (i + 1)..Len(sent') :
                  sent'[j].threshold = sent'[i].threshold /\ Clear(sent', i, j)
                    => sent'[j].side # sent'[i].side
  <2>1. i \in 1..n /\ sent'[i] = sent[i]
    BY <1>4, <1>5, <1>7, <1>8
  <2>2. ASSUME Clear(sent', i, Len(sent') + 1)
        PROVE  side'[sent'[i].threshold] = sent'[i].side
    <3>1. Len(sent') + 1 \in (i + 1)..(Len(sent') + 1) /\ ~(Len(sent') + 1 <= n)
      BY <1>3, <1>5, <2>1
    <3>2. Clear(sent, i, n + 1)
      BY <1>5, <2>1, <2>2, <3>1
    <3> QED BY <1>1, <1>6, <1>8, <2>1, <3>2
  <2>3. ASSUME NEW j \in (i + 1)..Len(sent'),
               sent'[j].threshold = sent'[i].threshold, Clear(sent', i, j)
        PROVE  sent'[j].side # sent'[i].side
    <3>1. j \in 1..Len(sent')
      BY <1>3, <1>5
    <3>2. j \in 1..n /\ sent'[j] = sent[j]
      BY <1>4, <1>5, <1>7, <1>8, <2>3, <3>1
    <3>3. j \in (i + 1)..(Len(sent') + 1) /\ j <= n /\ j \in (i + 1)..n
      BY <1>3, <1>5, <3>2
    <3>4. Clear(sent, i, j)
      BY <1>5, <2>1, <2>3, <3>3
    <3> QED BY <1>6, <1>8, <2>1, <2>3, <3>2, <3>3, <3>4
  <2> QED BY <2>2, <2>3
<1>9. Agree(sent', side')
  BY <1>8 DEF Agree
<1>10. Carried'
  <2>1. wire \in Seq(Frames) /\ wire \o frames \in Seq(Frames)
    BY <1>3 DEF Carried
  <2>2. wire' \in Seq(Frames)
    BY <1>1, <2>1
  <2> QED BY <1>1, <1>5, <2>2 DEF Carried
<1> QED BY <1>9, <1>10

-----------------------------------------------------------------------------
(* The stream as a whole *)

StreamInv ==
  /\ Carried
  /\ Store \in InOrder
  /\ TapeTellsTheSide

\* A new emitter, an empty tape, a store that has heard nothing.
LEMMA StreamBegins ==
  ASSUME StreamInit
  PROVE  StreamInv
<1> USE DEF StreamInit
<1>1. Carried
  <2>1. side \in [Watched -> Sides \cup {"none"}]
    OBVIOUS
  <2> QED BY <2>1 DEF Carried
<1>2. Store \in InOrder
  <2>1. NoCrossing \in [threshold : Int, side : Sides \cup {"none"}]
    BY DEF NoCrossing
  <2>2. <<>> \in Seq(Frames) /\ Len(<<>>) = 0
    OBVIOUS
  <2>3. Store = [lastSeq |-> -1, crossing |-> NoCrossing,
                       terminal |-> FALSE, heard |-> <<>>]
    BY DEF Store
  <2> QED BY <2>1, <2>2, <2>3 DEF InOrder
<1>3. TapeTellsTheSide
  BY DEF TapeTellsTheSide
<1> QED BY <1>1, <1>2, <1>3 DEF StreamInv

\* Frames arrive as they were sent.
LEMMA CarriageKeeps ==
  ASSUME Carried,
         OnMessage \/ Disconnect \/ Stop
           \/ PollAnswered \/ PollFails
           \/ (\E whole \in BOOLEAN : PollServed(whole)) \/ Restart
  PROVE  Carried'
<1> USE DEF Carried
<1>1. CASE OnMessage
  <2>1. Tail(wire) \in Seq(Frames)
    BY <1>1 DEF OnMessage
  <2> QED BY <1>1, <2>1 DEF OnMessage, emitterVars, pollVars
<1>2. CASE Disconnect \/ Stop
  <2>1. wire' = <<>> /\ UNCHANGED <<life, side, seq, sent, answer>>
    BY <1>2 DEF Disconnect, Stop, emitterVars, pollVars
  <2>2. <<>> \in Seq(Frames)
    OBVIOUS
  <2> QED BY <2>1, <2>2
<1>3. CASE PollAnswered \/ PollFails
  BY <1>3 DEF PollAnswered, PollFails, emitterVars,
     pollVars
<1>4. CASE \E whole \in BOOLEAN : PollServed(whole)
  <2>1. sent # <<>> => <<sent[Len(sent)]>> \in Seq(Frames)
    OBVIOUS
  <2>2. answer' \subseteq Seq(Frames)
    BY <1>4, <2>1 DEF PollServed
  <2> QED BY <1>4, <2>2 DEF PollServed, emitterVars
<1>5. CASE Restart
  <2>1. life' \in Nat /\ side' \in [Watched -> Sides \cup {"none"}]
    BY <1>5 DEF Restart
  <2>2. <<>> \in Seq(Frames)
    OBVIOUS
  <2> QED BY <1>5, <2>1, <2>2 DEF Restart, pollVars
<1> QED BY <1>1, <1>2, <1>3, <1>4, <1>5

\* A sample sends frames and moves trackers, typed.
LEMMA SampleCarried ==
  ASSUME Carried, NEW pct \in Levels,
         NEW ok \in 0..Len(Thresholds), ObserveEnergy(pct, ok)
  PROVE  Carried'
<1>1. PICK frames, left : Tells(frames, pct, left)
  BY SampleTells
<1>2. frames \in Seq(Frames) /\ sent' = sent \o frames /\ wire' \in {wire, wire \o frames}
      /\ side' = [t \in Watched |-> IF t \in left THEN side[t] ELSE Side(pct, t)]
  BY <1>1 DEF Tells
<1>3. sent' \in Seq(Frames) /\ wire \o frames \in Seq(Frames)
  BY <1>2 DEF Carried
<1>4. side' \in [Watched -> Sides \cup {"none"}]
  BY <1>2 DEF Carried, Side, Sides
<1>5. seq' \in Nat
  <2>1. ok \in Nat
    BY StreamAssumption DEF StreamAssumption
  <2> QED BY <2>1 DEF ObserveEnergy, Carried
<1>6. UNCHANGED <<life, answer>>
  BY DEF ObserveEnergy, pollVars
<1> QED BY <1>2, <1>3, <1>4, <1>5, <1>6 DEF Carried

\* Every step keeps the stream invariant.
LEMMA StreamStep ==
  ASSUME StreamInv, [StreamNext]_(watchVars)
  PROVE  StreamInv'
<1> USE DEF StreamInv
<1>1. ASSUME UNCHANGED emitterVars, UNCHANGED wire, UNCHANGED answer
      PROVE  Carried'
  BY <1>1 DEF Carried, emitterVars
<1>2. ASSUME UNCHANGED storeVars
      PROVE  Store' \in InOrder
  BY <1>2 DEF Store, storeVars
<1>3. ASSUME UNCHANGED <<side, sent>>
      PROVE  TapeTellsTheSide'
  BY <1>3 DEF TapeTellsTheSide, NoneBetween
<1>4. CASE \E pct \in Levels, ok \in 0..Len(Thresholds) : ObserveEnergy(pct, ok)
  <2>1. PICK pct \in Levels, ok \in 0..Len(Thresholds) : ObserveEnergy(pct, ok)
    BY <1>4
  <2>2. PICK frames, left : Tells(frames, pct, left)
    BY <2>1, SampleTells
  <2>3. Agree(sent', side')
    BY <2>2, SampleKeepsTape, TapeAgrees
  <2>4. Carried'
    BY <2>1, SampleCarried
  <2> QED BY <1>2, <2>1, <2>3, <2>4, TapeAgrees DEF ObserveEnergy
<1>5. CASE \E taken \in BOOLEAN : EmitTerminal(taken)
  <2>1. PICK taken \in BOOLEAN : EmitTerminal(taken)
    BY <1>5
  <2>2. Agree(sent', side') /\ Carried'
    BY <2>1, TerminalKeepsTape, TapeAgrees
  <2> QED BY <1>2, <2>1, <2>2, TapeAgrees DEF EmitTerminal
<1>6. CASE Restart
  <2>1. TapeTellsTheSide'
    BY <1>6 DEF Restart, TapeTellsTheSide
  <2> QED BY <1>2, <1>6, <2>1, CarriageKeeps DEF Restart
<1>7. CASE OnMessage
  <2>1. <<Head(wire)>> \in Seq(Frames)
    BY <1>7 DEF OnMessage, Carried
  <2>2. Store' \in InOrder
    BY <1>7, <2>1, HandleKeepsOrder DEF OnMessage
  <2> QED BY <1>3, <1>7, <2>2, CarriageKeeps DEF OnMessage,
             emitterVars
<1>8. CASE PollAnswered
  <2>1. PICK frames \in answer : Handle(frames)
    BY <1>8 DEF PollAnswered
  <2>2. Store' \in InOrder
    BY <2>1, HandleKeepsOrder DEF Carried
  <2> QED BY <1>3, <1>8, <2>2, CarriageKeeps DEF PollAnswered,
             emitterVars
<1>9. CASE Disconnect \/ Stop \/ PollFails
           \/ \E whole \in BOOLEAN : PollServed(whole)
  BY <1>2, <1>3, <1>9, CarriageKeeps DEF Disconnect, Stop,
     PollFails, PollServed, emitterVars
<1>10. CASE (\E throws \in BOOLEAN : OpenSocket(throws)) \/ OnOpen
  BY <1>1, <1>2, <1>3, <1>10 DEF OpenSocket, OnOpen,
     emitterVars, pollVars
<1>11. CASE OnClose \/ Silence \/ PollAsk
  BY <1>1, <1>2, <1>3, <1>11 DEF OnClose, Silence, PollAsk,
     StartPolling, emitterVars
<1>12. CASE UNCHANGED watchVars
  BY <1>1, <1>2, <1>3, <1>12 DEF watchVars, emitterVars, pollVars
<1> QED
  BY <1>4, <1>5, <1>6, <1>7, <1>8, <1>9, <1>10, <1>11, <1>12 DEF StreamNext

\* What the client, the store and the frames on their way keep to.
THEOREM StreamInvariant == StreamSpec => []StreamInv
  BY StreamBegins, StreamStep, PTL DEF StreamSpec

\* The store hears each life's frames in their order, each at most once.
THEOREM InOrderHeard == StreamSpec => []HeardInOrder
<1>1. StreamInv => HeardInOrder
  <2> SUFFICES ASSUME Store \in InOrder
               PROVE  \A i, j \in 1..Len(heard) : i < j => heard[i].seq < heard[j].seq
    BY DEF StreamInv, HeardInOrder
  <2>1. Store.heard = heard
    BY DEF Store
  <2> QED BY <2>1 DEF InOrder
<1> QED BY <1>1, StreamInvariant, PTL

\* The tape and the trackers agree, whatever sends failed.
THEOREM TapeTrue == StreamSpec => []TapeTellsTheSide
<1>1. StreamInv => TapeTellsTheSide
  BY DEF StreamInv
<1> QED BY <1>1, StreamInvariant, PTL

=============================================================================
