--------------------------- MODULE SandboxLifeProofs ---------------------------
(***************************************************************************)
(* Proofs about a sandbox life, for any number of bets, ticks and crashes: *)
(* tick numbers are never reused, the money of a bet moves the breath at   *)
(* most once per attempt of one settlement, no bet is open when the agent  *)
(* is killed, surplus rows are paid for by crashes, and without a crash    *)
(* the bankroll is the sum of the settled profits.                         *)
(***************************************************************************)
EXTENDS SandboxLife, FoldLemmas, TLAPS

-----------------------------------------------------------------------------
(* Ticks *)

Increasing ==
  \A i, j \in 1..Len(decisions) : i < j => decisions[i] < decisions[j]

\* Every decision on disk lies before tick t.
AllBefore(t) == \A i \in 1..Len(decisions) : decisions[i] < t

OnDisk(t) == \E i \in 1..Len(decisions) : decisions[i] = t

\* Before a tick's decision is written its number is beyond all others; after
\* it, until the counter moves, it is the last.
TickInv ==
  /\ decisions \in Seq(Nat) /\ pc \in Steps
  /\ Increasing
  /\ snapshot.lastTick = -1 \/ OnDisk(snapshot.lastTick)
  /\ pc # "down" => tickCounter \in Nat
  /\ pc \notin {"down", "snap"} => AllBefore(tickCounter)
  /\ pc = "snap" => OnDisk(tickCounter) /\ AllBefore(tickCounter + 1)
  /\ pc \in {"check", "kill", "entomb"} \/ dying => OnDisk(tickCounter - 1)
  /\ pc = "down" => ~dying

\* The largest tick of an increasing stream is its last.
LEMMA LastIsLargest ==
  ASSUME decisions \in Seq(Nat), Increasing, decisions # <<>>
  PROVE  LastTickSeen \in Nat /\ AllBefore(LastTickSeen + 1)
<1> DEFINE last == decisions[Len(decisions)]
<1>1. Len(decisions) \in Nat \ {0}
  OBVIOUS
<1>2. last \in ToSet(decisions)
  BY <1>1 DEF ToSet
<1>3. \A y \in ToSet(decisions) : last >= y /\ y \in Nat
  BY <1>1 DEF ToSet, Increasing
<1>4. PICK m \in ToSet(decisions) : m = Max(ToSet(decisions))
        /\ \A y \in ToSet(decisions) : m >= y
  BY <1>2, <1>3 DEF Max
<1>5. LastTickSeen = m
  BY <1>4 DEF LastTickSeen
<1>6. \A i \in 1..Len(decisions) : decisions[i] \in ToSet(decisions)
  BY DEF ToSet
<1> QED BY <1>3, <1>4, <1>5, <1>6 DEF AllBefore

\* A step that leaves the stream, the snapshot and the counter alone.
LEMMA TickKept ==
  ASSUME TickInv, UNCHANGED <<decisions, snapshot, tickCounter>>, pc' \in Steps,
         pc # "down", pc' # "down", pc # "snap", pc' # "snap",
         pc' \in {"check", "kill", "entomb"} \/ dying'
           => pc \in {"check", "kill", "entomb"} \/ dying
  PROVE  TickInv'
BY DEF TickInv, Increasing, AllBefore, OnDisk

\* Every step keeps tick numbers in order.
LEMMA TickStep ==
  ASSUME TickInv, [Next]_vars
  PROVE  TickInv'
<1> USE DEF worldVars, diskVars, memVars, pollVars
<1>1. CASE Exit /\ UNCHANGED diskVars
  BY <1>1 DEF Exit, TickInv, Increasing, OnDisk, Steps
<1>2. ASSUME NEW armed \in BOOLEAN, Boot(armed)
      PROVE  TickInv'
  <2>1. /\ pc = "down" /\ pc' = "idle" /\ tickCounter' = ResumeTick
        /\ UNCHANGED <<decisions, snapshot, dying>>
    BY <1>2 DEF Boot
  <2>2. ResumeTick \in Nat /\ AllBefore(ResumeTick)
    <3>1. CASE decisions = <<>>
      <4>1. ~OnDisk(snapshot.lastTick)
        BY <3>1 DEF OnDisk
      <4> QED BY <3>1, <4>1 DEF ResumeTick, TickInv, AllBefore
    <3>2. CASE decisions # <<>>
      BY <3>2, LastIsLargest DEF ResumeTick, TickInv
    <3> QED BY <3>1, <3>2
  <2>3. AllBefore(tickCounter)'
    BY <2>1, <2>2 DEF AllBefore
  <2> QED BY <2>1, <2>2, <2>3 DEF TickInv, Increasing, OnDisk, Steps
<1>3. CASE StartTick \/ Poll \/ Refresh \/ (\E b \in Bets : PlaceBet(b))
           \/ NoBet \/ CheckDeath \/ Kill
  <2>1. UNCHANGED <<decisions, snapshot, tickCounter>>
    BY <1>3 DEF StartTick, Poll, Refresh, PlaceBet, NoBet, CheckDeath, Kill,
       Resolve, NoAnswer, Flip, Learn, Charge, FoldPoll
  <2>2. pc' \in Steps /\ pc' \notin {"down", "snap"} /\ pc \notin {"down", "snap"}
    <3>1. CASE StartTick \/ CheckDeath \/ Kill
      BY <3>1 DEF StartTick, CheckDeath, Kill, StartPoll, Steps, TickInv
    <3>2. CASE Refresh \/ (\E b \in Bets : PlaceBet(b)) \/ NoBet
      BY <3>2 DEF Refresh, PlaceBet, NoBet, Steps
    <3>3. CASE Resolve \/ NoAnswer \/ Flip \/ Learn \/ FoldPoll
      BY <3>3 DEF Resolve, NoAnswer, Flip, Learn, FoldPoll, Steps, TickInv
    <3>4. CASE \E n \in 0..ChainAttempts : Charge(n)
      BY <3>4 DEF Charge, Steps
    <3> QED BY <1>3, <3>1, <3>2, <3>3, <3>4 DEF Poll
  <2>3. pc' \in {"check", "kill", "entomb"} \/ dying'
           => pc \in {"check", "kill", "entomb"} \/ dying
    <3>1. CASE StartTick
      BY <3>1, Zenon DEF StartTick, StartPoll
    <3>2. CASE CheckDeath \/ Kill
      BY <3>2 DEF CheckDeath, Kill
    <3>3. CASE Refresh \/ (\E b \in Bets : PlaceBet(b)) \/ NoBet
      BY <3>3 DEF Refresh, PlaceBet, NoBet
    <3>4. CASE Resolve \/ NoAnswer \/ Flip \/ Learn \/ FoldPoll
      BY <3>4 DEF Resolve, NoAnswer, Flip, Learn, FoldPoll
    <3>5. CASE \E n \in 0..ChainAttempts : Charge(n)
      BY <3>5 DEF Charge
    <3> QED BY <1>3, <3>1, <3>2, <3>3, <3>4, <3>5 DEF Poll
  <2> QED BY <2>1, <2>2, <2>3, TickKept
<1>4. CASE RecordDecision
  <2>1. /\ pc = "record" /\ pc' = "snap" /\ decisions' = Append(decisions, tickCounter)
        /\ UNCHANGED <<snapshot, tickCounter, dying>>
    BY <1>4 DEF RecordDecision
  <2>2. tickCounter \in Nat /\ AllBefore(tickCounter)
    BY <2>1 DEF TickInv
  <2>3. /\ decisions' \in Seq(Nat) /\ Len(decisions') = Len(decisions) + 1
        /\ Len(decisions) \in Nat
        /\ \A i \in 1..Len(decisions) : decisions'[i] = decisions[i]
        /\ decisions'[Len(decisions) + 1] = tickCounter
    BY <2>1, <2>2 DEF TickInv
  <2>4. Increasing'
    <3> SUFFICES ASSUME NEW i \in 1..Len(decisions'), NEW j \in 1..Len(decisions'),
                        i < j
                 PROVE  decisions'[i] < decisions'[j]
      BY DEF Increasing
    <3>1. i \in 1..Len(decisions)
      BY <2>3
    <3>2. CASE j = Len(decisions) + 1
      BY <2>2, <2>3, <3>1, <3>2 DEF AllBefore
    <3>3. CASE j \in 1..Len(decisions)
      BY <2>3, <3>1, <3>3 DEF TickInv, Increasing
    <3> QED BY <2>3, <3>2, <3>3
  <2>5. \A t : OnDisk(t) => OnDisk(t)'
    BY <2>3 DEF OnDisk
  <2>6. OnDisk(tickCounter)'
    BY <2>1, <2>3 DEF OnDisk
  <2>7. AllBefore(tickCounter + 1)'
    BY <2>1, <2>2, <2>3 DEF AllBefore, TickInv
  <2>8. snapshot'.lastTick = -1 \/ OnDisk(snapshot.lastTick)'
    BY <2>1, <2>5 DEF TickInv
  <2>9. dying => OnDisk(tickCounter - 1)'
    BY <2>1, <2>5 DEF TickInv
  <2> QED BY <2>1, <2>2, <2>3, <2>4, <2>6, <2>7, <2>8, <2>9
         DEF TickInv, OnDisk, AllBefore, Steps
<1>5. CASE WriteSnapshot
  <2>1. /\ pc = "snap" /\ pc' = "check" /\ tickCounter' = tickCounter + 1
        /\ snapshot'.lastTick = tickCounter /\ UNCHANGED <<decisions, dying>>
    BY <1>5 DEF WriteSnapshot, Snapshot
  <2>2. tickCounter \in Nat /\ tickCounter' - 1 = tickCounter
    BY <2>1 DEF TickInv
  <2> QED BY <2>1, <2>2 DEF TickInv, Increasing, OnDisk, AllBefore, Steps
<1>6. ASSUME NEW written \in BOOLEAN, Entomb(written)
      PROVE  TickInv'
  <2>1. /\ pc = "entomb" /\ pc' = "sealed"
        /\ snapshot'.lastTick \in {snapshot.lastTick, tickCounter - 1}
        /\ UNCHANGED <<decisions, tickCounter, dying>>
    BY <1>6 DEF Entomb, Snapshot
  <2> QED BY <2>1 DEF TickInv, Increasing, OnDisk, AllBefore, Steps
<1>7. CASE UNCHANGED vars \/ (\E b \in Bets, pnl \in Pnls : MarketResolves(b, pnl))
           \/ (\E b \in Bets : Ripens(b))
  <2>1. UNCHANGED <<decisions, snapshot, tickCounter, pc, dying>>
    BY <1>7 DEF vars, MarketResolves, Ripens
  <2> QED BY <2>1 DEF TickInv, Increasing, OnDisk, AllBefore
<1>8. Crash \/ KillReverts => Exit /\ UNCHANGED diskVars
  BY DEF Crash, KillReverts
<1> QED BY <1>1, <1>2, <1>3, <1>4, <1>5, <1>6, <1>7, <1>8 DEF Next, Loop, World

\* No tick number is given to two decisions, across any crashes and restarts,
\* and the snapshot never claims a tick whose decision is not on disk (_tick
\* steps 6 and 7, _reconstruct_from_disk).
THEOREM TicksAreNew == Spec => []TicksNeverReused
<1>1. Init => TickInv
  BY DEF Init, TickInv, Increasing, AllBefore, OnDisk, NoSnapshot, Steps
<1>2. TickInv /\ [Next]_vars => TickInv'
  BY TickStep
<1>3. TickInv => TicksNeverReused
  <2> SUFFICES ASSUME TickInv
               PROVE  TicksNeverReused
    OBVIOUS
  <2>1. \A i \in 1..(Len(decisions) - 1) : decisions[i] < decisions[i + 1]
    BY DEF TickInv, Increasing
  <2>2. \A t : OnDisk(t) => t \in ToSet(decisions)
    BY DEF OnDisk, ToSet
  <2> QED BY <2>1, <2>2 DEF TickInv, TicksNeverReused
<1> QED BY <1>1, <1>2, <1>3, PTL DEF Spec

-----------------------------------------------------------------------------
(* Bets *)

Polling == {"settle", "flip", "flipVoid", "learn", "charge"}

\* A bet is charged only after its marker is on disk, and a poll takes up only
\* bets without one.  The poll of a dying agent has every open bet before it.
BetInv ==
  /\ openBets \in [Bets -> {"absent", "open", "settled"}]
  /\ charged \in [Bets -> Nat] /\ queue \in SUBSET Bets
  /\ \A b \in Bets : openBets[b] # "settled" => charged[b] = 0
  /\ \A b \in settled : openBets[b] = "settled"
  /\ pc # "down" => OpenOnDisk \subseteq openIds
  /\ pc \in {"settle", "flip", "flipVoid"} => queue \subseteq OpenOnDisk
  /\ pc \in {"flip", "flipVoid", "learn", "charge"} => queue # {}
  /\ pc \in {"learn", "charge"} =>
       /\ queue \ {Bet} \subseteq OpenOnDisk
       /\ openBets[Bet] = "settled" /\ charged[Bet] = 0
  /\ dying /\ pc \in Polling => OpenOnDisk \subseteq queue
  /\ DeathClosesBets
  /\ ChargedAtMostOnce

\* The oldest bet of a poll is one of its bets.
LEMMA OldestIsOne ==
  ASSUME queue \in SUBSET Bets, queue # {}
  PROVE  Bet \in queue
<1>1. queue \subseteq Nat
  BY SandboxConstants DEF Bets, SandboxConstants
<1>2. PICK x \in queue : \A y \in queue : x <= y
  BY <1>1, LeastNumber
<1> QED BY <1>2 DEF Bet, Min

\* A step that touches no bet.
LEMMA BetKept ==
  ASSUME BetInv,
         UNCHANGED <<openBets, charged, queue, settled, openIds, dying, adapter>>,
         pc' \in Polling => pc' = pc,
         pc' \in {"kill", "entomb"} => pc \in {"kill", "entomb"},
         pc' # "down" => pc # "down"
  PROVE  BetInv'
<1>1. OpenOnDisk' = OpenOnDisk /\ Bet' = Bet /\ OnChain' = OnChain
  BY DEF OpenOnDisk, Bet, OnChain
<1>2. DeathClosesBets' /\ ChargedAtMostOnce'
  BY <1>1 DEF BetInv, DeathClosesBets, ChargedAtMostOnce
<1>3. pc' \in {"learn", "charge"} =>
       /\ queue' \ {Bet'} \subseteq OpenOnDisk'
       /\ openBets'[Bet'] = "settled" /\ charged'[Bet'] = 0
  BY <1>1 DEF BetInv, Polling
<1> QED BY <1>1, <1>2, <1>3 DEF BetInv, Polling

\* A poll begins.
LEMMA PollBegins ==
  ASSUME BetInv, NEW bets, NEW terminal \in BOOLEAN, StartPoll(bets, terminal),
         bets \subseteq OpenOnDisk, terminal => bets = OpenOnDisk, pc # "down",
         UNCHANGED <<openBets, charged, openIds, adapter>>
  PROVE  BetInv'
<1>1. OpenOnDisk' = OpenOnDisk /\ OnChain' = OnChain /\ OpenOnDisk \subseteq Bets
  BY DEF OpenOnDisk, OnChain
<1>2. pc' = "settle" /\ queue' = bets /\ settled' = {} /\ dying' = terminal
  BY DEF StartPoll
<1>3. DeathClosesBets' /\ ChargedAtMostOnce'
  BY <1>1, <1>2 DEF BetInv, DeathClosesBets, ChargedAtMostOnce
<1> QED BY <1>1, <1>2, <1>3 DEF BetInv, Polling

\* A marker is written before anything is charged.
LEMMA FlipStep ==
  ASSUME BetInv, Flip
  PROVE  BetInv'
<1>1. /\ pc \in {"flip", "flipVoid"} /\ openBets' = [openBets EXCEPT ![Bet] = "settled"]
      /\ UNCHANGED <<charged, adapter, openIds, settled, dying>>
  BY DEF Flip, worldVars, memVars
<1>2. Bet \in queue /\ queue \subseteq OpenOnDisk /\ Bet \in Bets
  BY <1>1, OldestIsOne DEF BetInv
<1>3. openBets[Bet] = "open" /\ charged[Bet] = 0
  BY <1>2 DEF BetInv, OpenOnDisk
<1>4. OpenOnDisk' = OpenOnDisk \ {Bet}
  BY <1>1, <1>2 DEF BetInv, OpenOnDisk
<1>5. ChargedAtMostOnce'
  BY <1>1 DEF BetInv, ChargedAtMostOnce, OnChain
<1>6. /\ openBets' \in [Bets -> {"absent", "open", "settled"}]
      /\ \A b \in Bets : openBets'[b] # "settled" => charged'[b] = 0
      /\ \A b \in settled' : openBets'[b] = "settled"
  BY <1>1, <1>2 DEF BetInv
<1>7. CASE pc = "flip"
  <2>1. pc' = "learn" /\ queue' = queue /\ Bet' = Bet
    BY <1>7 DEF Flip, Bet
  <2>2. openBets'[Bet'] = "settled" /\ charged'[Bet'] = 0
    BY <1>1, <1>2, <1>3, <2>1 DEF BetInv
  <2>3. DeathClosesBets'
    BY <2>1 DEF DeathClosesBets
  <2> QED
    BY <1>1, <1>2, <1>4, <1>5, <1>6, <1>7, <2>1, <2>2, <2>3 DEF BetInv, Polling
<1>8. CASE pc = "flipVoid"
  <2>1. pc' = "settle" /\ queue' = queue \ {Bet}
    BY <1>8 DEF Flip, Done
  <2>2. DeathClosesBets'
    BY <2>1 DEF DeathClosesBets
  <2> QED
    BY <1>1, <1>2, <1>4, <1>5, <1>6, <1>8, <2>1, <2>2 DEF BetInv, Polling
<1> QED BY <1>1, <1>7, <1>8

\* A charge is one attempt of the settlement in progress.
LEMMA ChargeStep ==
  ASSUME BetInv, NEW n \in 0..ChainAttempts, Charge(n)
  PROVE  BetInv'
<1>1. /\ pc = "charge" /\ pc' = "settle" /\ (~OnChain => n = 1)
      /\ charged' = [charged EXCEPT ![Bet] = charged[Bet] + n]
      /\ settled' = settled \cup {Bet} /\ queue' = queue \ {Bet}
      /\ UNCHANGED <<adapter, openBets, openIds, dying>>
  BY DEF Charge, Done, diskVars, memVars
<1>2. Bet \in queue /\ Bet \in Bets /\ openBets[Bet] = "settled" /\ charged[Bet] = 0
  BY <1>1, OldestIsOne DEF BetInv
<1>3. OpenOnDisk' = OpenOnDisk /\ OnChain' = OnChain
  BY <1>1 DEF OpenOnDisk, OnChain
<1>4. \A b \in Bets : charged'[b] = IF b = Bet THEN n ELSE charged[b]
  BY <1>1, <1>2 DEF BetInv
<1>5. charged' \in [Bets -> Nat]
  BY <1>1, <1>2 DEF BetInv
<1>6. ChargedAtMostOnce'
  BY <1>1, <1>3, <1>4 DEF BetInv, ChargedAtMostOnce
<1>7. DeathClosesBets'
  BY <1>1 DEF DeathClosesBets
<1>8. \A b \in Bets : openBets'[b] # "settled" => charged'[b] = 0
  BY <1>1, <1>2, <1>4 DEF BetInv
<1>9. queue' \in SUBSET Bets /\ queue' \subseteq OpenOnDisk'
  BY <1>1, <1>3 DEF BetInv
<1>10. \A b \in settled' : openBets'[b] = "settled"
  BY <1>1, <1>2 DEF BetInv
<1>11. dying => OpenOnDisk' \subseteq queue'
  <2>1. Bet \notin OpenOnDisk
    BY <1>2 DEF OpenOnDisk
  <2> QED BY <1>1, <1>3, <2>1 DEF BetInv, Polling
<1> QED
  BY <1>1, <1>3, <1>5, <1>6, <1>7, <1>8, <1>9, <1>10, <1>11 DEF BetInv, Polling

\* tick() or terminal_close() returns: every bet it had before it is closed.
LEMMA FoldStep ==
  ASSUME BetInv, FoldPoll
  PROVE  BetInv'
<1>1. /\ pc = "settle" /\ queue = {}
      /\ openIds' = IF dying THEN {} ELSE openIds \ settled
      /\ pc' = IF dying THEN "kill" ELSE "refresh"
      /\ UNCHANGED <<adapter, openBets, charged, queue, settled, dying>>
  BY DEF FoldPoll, worldVars, diskVars, pollVars
<1>2. OpenOnDisk' = OpenOnDisk /\ OnChain' = OnChain
  BY <1>1 DEF OpenOnDisk, OnChain
<1>3. dying => OpenOnDisk = {}
  BY <1>1 DEF BetInv, Polling
<1>4. OpenOnDisk' \subseteq openIds'
  BY <1>1, <1>2, <1>3 DEF BetInv, OpenOnDisk
<1>5. DeathClosesBets' /\ ChargedAtMostOnce'
  BY <1>1, <1>2, <1>3 DEF BetInv, DeathClosesBets, ChargedAtMostOnce
<1> QED BY <1>1, <1>2, <1>4, <1>5 DEF BetInv, Polling

\* The dying agent's poll takes up every open bet.
LEMMA CloseStep ==
  ASSUME BetInv, NoAnswer \/ Resolve \/ Learn
  PROVE  BetInv'
<1>1. /\ pc \in {"settle", "learn"}
      /\ UNCHANGED <<adapter, openBets, charged, openIds, dying, settled>>
  BY DEF NoAnswer, Resolve, Learn, worldVars, memVars, pollVars, diskVars
<1>2. \/ pc = "settle" /\ pc' = "settle" /\ queue' = queue \ {Bet} /\ ~dying
      \/ /\ pc = "settle" /\ queue # {} /\ pc' \in {"flip", "flipVoid"}
         /\ queue' = queue
      \/ pc = "learn" /\ pc' = "charge" /\ queue' = queue
  BY DEF NoAnswer, Resolve, Learn, Done, pollVars
<1>3. OpenOnDisk' = OpenOnDisk /\ OnChain' = OnChain /\ (queue' = queue => Bet' = Bet)
  BY <1>1 DEF OpenOnDisk, OnChain, Bet
<1>4. DeathClosesBets' /\ ChargedAtMostOnce'
  BY <1>1, <1>2, <1>3 DEF BetInv, DeathClosesBets, ChargedAtMostOnce
<1> QED BY <1>1, <1>2, <1>3, <1>4 DEF BetInv, Polling

\* Every step keeps charges behind markers.
LEMMA BetStep ==
  ASSUME BetInv, [Next]_vars
  PROVE  BetInv'
<1> USE DEF worldVars, diskVars, memVars, pollVars
<1>1. CASE Exit /\ UNCHANGED <<worldVars, diskVars>>
  <2>1. /\ pc' = "down" /\ queue' = {} /\ settled' = {}
        /\ UNCHANGED <<openBets, charged, adapter>>
    BY <1>1 DEF Exit
  <2> QED BY <2>1 DEF BetInv, DeathClosesBets, ChargedAtMostOnce, OnChain, Polling
<1>2. ASSUME NEW armed \in BOOLEAN, Boot(armed)
      PROVE  BetInv'
  <2>1. /\ pc' = "idle" /\ openIds' = OpenOnDisk
        /\ UNCHANGED <<openBets, charged, adapter, queue, settled>>
    BY <1>2 DEF Boot
  <2>2. OpenOnDisk' = OpenOnDisk
    BY <2>1 DEF OpenOnDisk
  <2> QED BY <2>1, <2>2 DEF BetInv, DeathClosesBets, ChargedAtMostOnce, OnChain, Polling
<1>3. CASE StartTick
  <2>1. StartPoll(OpenOnDisk \cap ripe, FALSE) /\ pc = "idle"
        /\ UNCHANGED <<openBets, charged, openIds, adapter>>
    BY <1>3 DEF StartTick
  <2>2. FALSE \in BOOLEAN /\ (FALSE => OpenOnDisk \cap ripe = OpenOnDisk)
    OBVIOUS
  <2>3. OpenOnDisk \cap ripe \subseteq OpenOnDisk
    OBVIOUS
  <2> QED BY <2>1, <2>2, <2>3, PollBegins, Zenon
<1>4. CASE CheckDeath
  <2>1. CASE pc' = "idle" /\ UNCHANGED pollVars
    BY <1>4, <2>1, BetKept DEF CheckDeath, Polling
  <2>2. CASE openIds = {} /\ pc' = "kill" /\ UNCHANGED pollVars
    <3>1. /\ pc = "check" /\ OpenOnDisk' = OpenOnDisk /\ OnChain' = OnChain
          /\ UNCHANGED <<openBets, charged, adapter, openIds>>
      BY <1>4 DEF CheckDeath, OpenOnDisk, OnChain
    <3>2. OpenOnDisk = {}
      BY <2>2, <3>1 DEF BetInv
    <3> QED BY <2>2, <3>1, <3>2
            DEF BetInv, DeathClosesBets, ChargedAtMostOnce, Polling
  <2>3. CASE StartPoll(OpenOnDisk, TRUE)
    BY <1>4, <2>3, PollBegins DEF CheckDeath
  <2> QED BY <1>4, <2>1, <2>2, <2>3 DEF CheckDeath
<1>5. CASE Poll
  BY <1>5, CloseStep, FlipStep, ChargeStep, FoldStep DEF Poll
<1>6. ASSUME NEW b \in Bets, PlaceBet(b)
      PROVE  BetInv'
  <2>1. /\ pc = "decide" /\ pc' = "record" /\ openBets[b] = "absent"
        /\ openBets' = [openBets EXCEPT ![b] = "open"]
        /\ openIds' = openIds \cup {b}
        /\ UNCHANGED <<charged, adapter, queue, settled, dying>>
    BY <1>6 DEF PlaceBet
  <2>2. OpenOnDisk' = OpenOnDisk \cup {b}
    BY <2>1 DEF BetInv, OpenOnDisk
  <2>3. \A c \in settled' : openBets'[c] = "settled"
    <3>1. \A c \in settled : c # b
      BY <2>1 DEF BetInv
    <3> QED BY <2>1, <3>1 DEF BetInv
  <2>4. DeathClosesBets' /\ ChargedAtMostOnce'
    BY <2>1 DEF BetInv, DeathClosesBets, ChargedAtMostOnce, OnChain
  <2> QED BY <2>1, <2>2, <2>3, <2>4 DEF BetInv, Polling
<1>7. CASE Refresh \/ NoBet \/ RecordDecision \/ WriteSnapshot
  BY <1>7, BetKept DEF Refresh, NoBet, RecordDecision, WriteSnapshot, Polling
<1>8. CASE Kill \/ \E written \in BOOLEAN : Entomb(written)
  BY <1>8, BetKept DEF Kill, Entomb, Polling
<1>9. CASE UNCHANGED vars \/ (\E b \in Bets, pnl \in Pnls : MarketResolves(b, pnl))
           \/ (\E b \in Bets : Ripens(b))
  BY <1>9, BetKept DEF vars, MarketResolves, Ripens
<1>10. Crash \/ KillReverts => Exit /\ UNCHANGED <<worldVars, diskVars>>
  BY DEF Crash, KillReverts
<1> QED
  BY <1>1, <1>2, <1>3, <1>4, <1>5, <1>6, <1>7, <1>8, <1>9, <1>10
     DEF Next, Loop, World

\* The invariant of the bets, for any number of them.
THEOREM BetInvariant == Spec => []BetInv
<1>1. Init => BetInv
  <2> SUFFICES ASSUME Init
               PROVE  BetInv
    OBVIOUS
  <2>1. /\ openBets = [b \in Bets |-> "absent"] /\ charged = [b \in Bets |-> 0]
        /\ queue = {} /\ settled = {} /\ pc = "down" /\ openIds = {}
    BY DEF Init
  <2>2. DeathClosesBets /\ ChargedAtMostOnce
    BY <2>1, SandboxConstants DEF DeathClosesBets, ChargedAtMostOnce, SandboxConstants
  <2> QED BY <2>1, <2>2 DEF BetInv, Polling
<1>2. BetInv /\ [Next]_vars => BetInv'
  BY BetStep
<1> QED BY <1>1, <1>2, PTL DEF Spec

\* A settlement moves the breath once per attempt at most and is never taken
\* up again, however often the process crashes (_resolve_and_settle steps 1
\* to 4, _update_chain_with_retry).
THEOREM ChargedOnce == Spec => []ChargedAtMostOnce
<1>1. BetInv => ChargedAtMostOnce
  BY DEF BetInv
<1> QED BY <1>1, BetInvariant, PTL

\* When the agent is killed and its tombstone minted no bet is open any more
\* (_die, terminal_close).
THEOREM ClosedAtDeath == Spec => []DeathClosesBets
<1>1. BetInv => DeathClosesBets
  BY DEF BetInv
<1> QED BY <1>1, BetInvariant, PTL

-----------------------------------------------------------------------------
(* The settled rows *)

\* The rows of a bet that its marker does not account for.
Debt == [b \in Bets |-> Len(settledBets[b]) - (IF openBets[b] = "settled" THEN 1 ELSE 0)]

\* The poll has written the row of a bet and not yet its marker.
HalfSettled == pc \in {"flip", "flipVoid"}

\* A marker is written after a row, and a row without a marker of its own is
\* the poll's last step or was left behind by a crash.
RowInv ==
  /\ market \in [Bets -> Pnls \cup {Pending}]
  /\ settledBets \in [Bets -> Seq(Int)]
  /\ crashes \in Nat
  /\ \A b \in Bets : openBets[b] = "settled" => settledBets[b] # <<>>
  /\ HalfSettled => settledBets[Bet] # <<>>
  /\ Total(Debt, NumBets) <= crashes + (IF HalfSettled THEN 1 ELSE 0)

\* The rows are sequences, so what they leave open is a number.
LEMMA DebtType ==
  ASSUME settledBets \in [Bets -> Seq(Int)]
  PROVE  Debt \in [1..NumBets -> Int] /\ NumBets \in Nat
<1>1. \A b \in Bets : Len(settledBets[b]) \in Nat
  OBVIOUS
<1> QED BY <1>1, SandboxConstants DEF Debt, Bets, SandboxConstants

\* What the rows of one bet leave open.
LEMMA DebtAt ==
  ASSUME NEW b \in Bets
  PROVE  Debt[b] = IF openBets[b] = "settled" THEN Len(settledBets[b]) - 1
                   ELSE Len(settledBets[b]) - 0
BY DEF Debt

\* A step that writes no row and no marker and does not leave a bet half
\* settled, unless the process ends.
LEMMA RowsKept ==
  ASSUME RowInv, UNCHANGED <<openBets, settledBets>>,
         \/ UNCHANGED crashes /\ ~HalfSettled
         \/ UNCHANGED <<crashes, pc, queue>>
         \/ crashes' = crashes + 1,
         market' \in [Bets -> Pnls \cup {Pending}],
         HalfSettled' => UNCHANGED <<pc, queue>>
  PROVE  RowInv'
<1>1. Debt' = Debt
  BY DEF Debt
<1>2. Total(Debt, NumBets) \in Int
  BY DebtType, TotalInt DEF RowInv
<1>3. Total(Debt, NumBets) <= crashes + (IF HalfSettled THEN 1 ELSE 0) /\ crashes \in Nat
  BY DEF RowInv
<1>4. Total(Debt, NumBets) <= crashes' + (IF HalfSettled' THEN 1 ELSE 0) /\ crashes' \in Nat
  <2> DEFINE owed == Total(Debt, NumBets)
  <2>1. owed \in Int /\ owed <= crashes + (IF HalfSettled THEN 1 ELSE 0) /\ crashes \in Nat
    BY <1>2, <1>3
  <2> HIDE DEF owed
  <2>2. owed <= crashes' + (IF HalfSettled' THEN 1 ELSE 0) /\ crashes' \in Nat
    <3>1. CASE UNCHANGED crashes /\ ~HalfSettled
      BY <2>1, <3>1 DEF HalfSettled
    <3>2. CASE UNCHANGED <<crashes, pc, queue>>
      BY <2>1, <3>2 DEF HalfSettled
    <3>3. CASE crashes' = crashes + 1
      BY <2>1, <3>3 DEF HalfSettled
    <3> QED BY <3>1, <3>2, <3>3
  <2> QED BY <2>2 DEF owed
<1>5. HalfSettled' => HalfSettled /\ Bet' = Bet
  BY DEF HalfSettled, Bet
<1> QED BY <1>1, <1>4, <1>5 DEF RowInv

\* The poll writes the row of a bet.
LEMMA RowStep ==
  ASSUME RowInv, BetInv, NEW pnl \in Int, AppendSettled(pnl), pc = "settle", queue # {},
         UNCHANGED <<openBets, market, crashes, queue>>, HalfSettled'
  PROVE  RowInv'
<1>1. Bet \in Bets /\ openBets[Bet] = "open" /\ Bet' = Bet
  BY OldestIsOne DEF BetInv, OpenOnDisk, Bet
<1>2. /\ settledBets' = [settledBets EXCEPT ![Bet] = Append(settledBets[Bet], pnl)]
      /\ settledBets[Bet] \in Seq(Int)
  BY <1>1 DEF AppendSettled, RowInv
<1>3. /\ Append(settledBets[Bet], pnl) \in Seq(Int)
      /\ Len(Append(settledBets[Bet], pnl)) = Len(settledBets[Bet]) + 1
      /\ Append(settledBets[Bet], pnl) # <<>> /\ Len(settledBets[Bet]) \in Nat
  BY <1>2
<1>4. settledBets' \in [Bets -> Seq(Int)]
  BY <1>2, <1>3 DEF RowInv
<1>5. \A b \in Bets : b # Bet => Debt'[b] = Debt[b]
  BY <1>1, <1>2 DEF Debt, RowInv
<1>6. Debt'[Bet] - Debt[Bet] = 1
  BY <1>1, <1>2, <1>3 DEF Debt, RowInv
<1>7. Total(Debt', NumBets) = Total(Debt, NumBets) + 1
  <2>1. Debt \in [1..NumBets -> Int] /\ Debt' \in [1..NumBets -> Int] /\ NumBets \in Nat
    BY <1>4, DebtType DEF RowInv, Debt
  <2>2. Bet \in 1..NumBets /\ \A b \in 1..NumBets : b # Bet => Debt'[b] = Debt[b]
    BY <1>1, <1>5 DEF Bets
  <2>3. Total(Debt', NumBets) = Total(Debt, NumBets) + (Debt'[Bet] - Debt[Bet])
    BY <2>1, <2>2, TotalChange
  <2> QED BY <1>6, <2>3
<1>8. Total(Debt, NumBets) <= crashes /\ Total(Debt, NumBets) \in Int
  <2>1. Total(Debt, NumBets) \in Int
    BY DebtType, TotalInt DEF RowInv
  <2>2. Total(Debt, NumBets) <= crashes + (IF HalfSettled THEN 1 ELSE 0) /\ crashes \in Nat
    BY DEF RowInv
  <2> QED BY <2>1, <2>2 DEF HalfSettled
<1>9. Total(Debt', NumBets) <= crashes' + (IF HalfSettled' THEN 1 ELSE 0)
  BY <1>7, <1>8 DEF RowInv
<1>10. \A b \in Bets : openBets'[b] = "settled" => settledBets'[b] # <<>>
  BY <1>1, <1>2 DEF RowInv
<1>11. settledBets'[Bet'] # <<>>
  BY <1>1, <1>2, <1>3 DEF RowInv
<1> QED BY <1>4, <1>9, <1>10, <1>11 DEF RowInv

\* The poll writes the marker of a bet.
LEMMA MarkerStep ==
  ASSUME RowInv, BetInv, Flip
  PROVE  RowInv'
<1>1. /\ pc \in {"flip", "flipVoid"} /\ openBets' = [openBets EXCEPT ![Bet] = "settled"]
      /\ pc' \in {"learn", "settle"}
      /\ UNCHANGED <<settledBets, market, crashes>>
  BY DEF Flip, worldVars
<1>2. Bet \in Bets /\ openBets[Bet] = "open" /\ settledBets[Bet] # <<>>
  BY <1>1, OldestIsOne DEF BetInv, OpenOnDisk, RowInv, HalfSettled
<1>3. \A b \in Bets : openBets'[b] = IF b = Bet THEN "settled" ELSE openBets[b]
  BY <1>1, <1>2 DEF BetInv
<1>4. \A b \in Bets : b # Bet => Debt'[b] = Debt[b]
  BY <1>1, <1>3 DEF Debt
<1>5. Debt'[Bet] - Debt[Bet] = -1
  <2>1. Len(settledBets[Bet]) \in Nat
    BY <1>2 DEF RowInv
  <2>2. Debt[Bet] = Len(settledBets[Bet]) /\ Debt'[Bet] = Len(settledBets[Bet]) - 1
    <3>1. Debt[Bet] = Len(settledBets[Bet]) - 0
      BY <1>2, DebtAt
    <3>2. Debt'[Bet] = Len(settledBets'[Bet]) - 1
      <4>1. openBets'[Bet] = "settled"
        BY <1>2, <1>3
      <4> QED BY <1>2, <4>1 DEF Debt
    <3> QED BY <1>1, <2>1, <3>1, <3>2
  <2> QED BY <2>1, <2>2
<1>6. Total(Debt', NumBets) = Total(Debt, NumBets) - 1
  <2>1. Debt \in [1..NumBets -> Int] /\ Debt' \in [1..NumBets -> Int] /\ NumBets \in Nat
    BY <1>1, DebtType DEF RowInv, Debt
  <2>2. Bet \in 1..NumBets /\ \A b \in 1..NumBets : b # Bet => Debt'[b] = Debt[b]
    BY <1>2, <1>4 DEF Bets
  <2>3. Total(Debt', NumBets) = Total(Debt, NumBets) + (Debt'[Bet] - Debt[Bet])
    BY <2>1, <2>2, TotalChange
  <2>4. Total(Debt, NumBets) \in Int
    BY <2>1, TotalInt
  <2> QED BY <1>5, <2>3, <2>4
<1>7. Total(Debt, NumBets) <= crashes + 1 /\ Total(Debt, NumBets) \in Int
  BY <1>1, DebtType, TotalInt DEF RowInv, HalfSettled
<1>8. ~HalfSettled'
  BY <1>1 DEF HalfSettled
<1> QED BY <1>1, <1>2, <1>3, <1>6, <1>7, <1>8 DEF RowInv

\* What a market answers once it has resolved.
LEMMA AnswerIsInt ==
  ASSUME RowInv, NEW b \in Bets, market[b] # Pending
  PROVE  market[b] \in Int
BY SandboxConstants DEF RowInv, SandboxConstants

\* A row more is a marker more, or a crash more.
LEMMA RowInvStep ==
  ASSUME RowInv, BetInv, [Next]_vars
  PROVE  RowInv'
<1> USE DEF worldVars, diskVars, memVars, pollVars, HalfSettled
<1>1. market \in [Bets -> Pnls \cup {Pending}]
  BY DEF RowInv
<1>2. CASE Crash \/ KillReverts
  BY <1>1, <1>2, RowsKept DEF Crash, KillReverts, Exit
<1>3. ASSUME NEW armed \in BOOLEAN, Boot(armed)
      PROVE  RowInv'
  BY <1>1, <1>3, RowsKept DEF Boot
<1>4. CASE StartTick \/ CheckDeath
  BY <1>1, <1>4, RowsKept DEF StartTick, CheckDeath, StartPoll
<1>5. CASE Resolve
  <2>1. market[Bet] \in Int
    BY <1>5, OldestIsOne, AnswerIsInt DEF Resolve, BetInv
  <2> QED BY <1>5, <2>1, RowStep DEF Resolve
<1>6. CASE NoAnswer
  <2>1. CASE dying
    BY <1>6, <2>1, RowStep DEF NoAnswer
  <2>2. CASE ~dying
    BY <1>1, <1>6, <2>2, RowsKept DEF NoAnswer
  <2> QED BY <2>1, <2>2
<1>7. CASE Flip
  BY <1>7, MarkerStep
<1>8. CASE Learn \/ FoldPoll
  BY <1>1, <1>8, RowsKept DEF Learn, FoldPoll
<1>9. ASSUME NEW n \in 0..ChainAttempts, Charge(n)
      PROVE  RowInv'
  BY <1>1, <1>9, RowsKept DEF Charge
<1>10. ASSUME NEW b \in Bets, PlaceBet(b)
       PROVE  RowInv'
  <2>1. /\ openBets[b] = "absent" /\ openBets' = [openBets EXCEPT ![b] = "open"]
        /\ pc = "decide" /\ pc' = "record"
        /\ UNCHANGED <<settledBets, market, crashes>>
    BY <1>10 DEF PlaceBet
  <2>2. \A c \in Bets : openBets'[c] = "settled" <=> openBets[c] = "settled"
    BY <2>1 DEF BetInv
  <2>3. Debt' = Debt
    BY <2>1, <2>2 DEF Debt
  <2> QED BY <2>1, <2>2, <2>3 DEF RowInv
<1>11. CASE Refresh \/ NoBet \/ RecordDecision \/ WriteSnapshot \/ Kill
            \/ \E written \in BOOLEAN : Entomb(written)
  BY <1>1, <1>11, RowsKept
     DEF Refresh, NoBet, RecordDecision, WriteSnapshot, Kill, Entomb
<1>12. ASSUME NEW b \in Bets, NEW pnl \in Pnls, MarketResolves(b, pnl)
       PROVE  RowInv'
  <2>1. market' \in [Bets -> Pnls \cup {Pending}]
    BY <1>1, <1>12 DEF MarketResolves
  <2> QED BY <1>12, <2>1, RowsKept DEF MarketResolves
<1>13. CASE UNCHANGED vars \/ \E b \in Bets : Ripens(b)
  BY <1>1, <1>13, RowsKept DEF vars, Ripens
<1> QED
  BY <1>2, <1>3, <1>4, <1>5, <1>6, <1>7, <1>8, <1>9, <1>10, <1>11, <1>12, <1>13
     DEF Next, Loop, World, Poll

\* The invariant of the rows, for any number of bets.
THEOREM RowInvariant == Spec => []RowInv
<1>1. Init => RowInv
  <2> SUFFICES ASSUME Init
               PROVE  RowInv
    OBVIOUS
  <2>1. /\ market = [b \in Bets |-> Pending] /\ crashes = 0 /\ pc = "down"
        /\ settledBets = [b \in Bets |-> <<>>] /\ openBets = [b \in Bets |-> "absent"]
    BY DEF Init
  <2>2. <<>> \in Seq(Int) /\ Len(<<>>) = 0
    OBVIOUS
  <2>3. Total(Debt, NumBets) = 0
    <3>1. Debt \in [1..NumBets -> Int] /\ NumBets \in Nat
      BY <2>1, <2>2, DebtType
    <3>2. \A b \in 1..NumBets : Debt[b] = 0
      BY <2>1, <2>2 DEF Debt, Bets
    <3> QED BY <3>1, <3>2, TotalZero
  <2> QED BY <2>1, <2>2, <2>3 DEF RowInv, HalfSettled
<1>2. RowInv /\ BetInv /\ [Next]_vars => RowInv'
  BY RowInvStep
<1> QED BY <1>1, <1>2, BetInvariant, PTL DEF Spec

\* A settled row beyond the first of its bet is paid for with a crash between
\* the row and its marker (_resolve_and_settle steps 1 and 2).
THEOREM DuplicatesArePaid == Spec => []DuplicatesNeedCrashes
<1>1. RowInv /\ BetInv => DuplicatesNeedCrashes
  <2> SUFFICES ASSUME RowInv, BetInv
               PROVE  DuplicatesNeedCrashes
    OBVIOUS
  <2> DEFINE extra == [b \in Bets |-> IF settledBets[b] = <<>> THEN 0
                                      ELSE Len(settledBets[b]) - 1]
  <2>1. Debt \in [1..NumBets -> Int] /\ NumBets \in Nat
    BY DebtType DEF RowInv
  <2>2. \A b \in Bets : Len(settledBets[b]) \in Nat
                        /\ (settledBets[b] = <<>> => Len(settledBets[b]) = 0)
    BY DEF RowInv
  <2>3. extra \in [1..NumBets -> Int]
    BY <2>2 DEF Bets
  <2>4. \A b \in 1..NumBets : extra[b] <= Debt[b]
    <3> SUFFICES ASSUME NEW b \in Bets
                 PROVE  extra[b] <= Debt[b]
      BY DEF Bets
    <3>1. extra[b] = IF settledBets[b] = <<>> THEN 0 ELSE Len(settledBets[b]) - 1
      OBVIOUS
    <3> HIDE DEF extra
    <3>2. openBets[b] = "settled" => settledBets[b] # <<>>
      BY DEF RowInv
    <3> QED BY <2>2, <3>1, <3>2, DebtAt
  <2>5. Total(extra, NumBets) + (IF HalfSettled THEN 1 ELSE 0) <= Total(Debt, NumBets)
    <3>1. CASE ~HalfSettled
      <4> HIDE DEF extra
      <4>1. Total(extra, NumBets) <= Total(Debt, NumBets)
        BY <2>1, <2>3, <2>4, TotalMonotone
      <4>2. Total(extra, NumBets) \in Int
        BY <2>1, <2>3, TotalInt
      <4> QED BY <3>1, <4>1, <4>2
    <3>2. CASE HalfSettled
      <4>1. Bet \in Bets /\ openBets[Bet] = "open" /\ settledBets[Bet] # <<>>
        BY <3>2, OldestIsOne DEF HalfSettled, BetInv, OpenOnDisk, RowInv
      <4>2. extra[Bet] + 1 = Debt[Bet] /\ extra[Bet] \in Int
        <5>1. Debt[Bet] = Len(settledBets[Bet]) - 0
          BY <4>1, DebtAt
        <5>2. extra[Bet] = Len(settledBets[Bet]) - 1 /\ Len(settledBets[Bet]) \in Nat
          BY <2>2, <4>1
        <5> HIDE DEF extra
        <5> QED BY <5>1, <5>2
      <4> HIDE DEF extra
      <4> DEFINE more == [b \in 1..NumBets |-> IF b = Bet THEN extra[b] + 1 ELSE extra[b]]
      <4>3. more \in [1..NumBets -> Int] /\ Bet \in 1..NumBets
        BY <2>3, <4>1 DEF Bets
      <4>4. \A b \in 1..NumBets : more[b] <= Debt[b]
        BY <2>4, <4>2
      <4>5. more[Bet] - extra[Bet] = 1
            /\ \A b \in 1..NumBets : b # Bet => more[b] = extra[b]
        BY <4>2, <4>3
      <4> HIDE DEF more
      <4>6. Total(more, NumBets) <= Total(Debt, NumBets)
        BY <2>1, <4>3, <4>4, TotalMonotone
      <4>7. Total(more, NumBets) = Total(extra, NumBets) + (more[Bet] - extra[Bet])
        BY <2>1, <2>3, <4>3, <4>5, TotalChange
      <4> QED BY <3>2, <4>5, <4>6, <4>7
    <3> QED BY <3>1, <3>2
  <2> HIDE DEF extra
  <2>6. Total(extra, NumBets) \in Int /\ Total(Debt, NumBets) \in Int
    BY <2>1, <2>3, TotalInt
  <2>7. Total(extra, NumBets) <= crashes
    BY <2>5, <2>6 DEF RowInv
  <2> QED BY <2>7 DEF DuplicatesNeedCrashes, extra
<1> QED BY <1>1, RowInvariant, BetInvariant, PTL

-----------------------------------------------------------------------------
(* The bankroll *)

\* The bets that the poll in progress has marked as resolved and the loop has
\* not folded yet.
Taken ==
  IF pc \notin Polling THEN {}
  ELSE settled \cup (IF pc \in {"learn", "charge"} THEN {Bet} ELSE {})

\* While nothing crashed, the bankroll lags behind the credit of the settled
\* bets by what the poll in progress has taken.
MoneyInv ==
  crashes = 0 =>
    /\ pc = "down" => snapshot = NoSnapshot /\ \A b \in Bets : openBets[b] # "settled"
    /\ settled \in SUBSET {b \in Bets : market[b] # Pending}
    /\ pc \in {"flip", "learn", "charge"} => market[Bet] # Pending
    /\ pc = "flip" => Last(settledBets[Bet]) = market[Bet]
    /\ pc = "flipVoid" => Last(settledBets[Bet]) = 0
    /\ pc # "down" => bankroll = InitialBankroll + Total(Credit, NumBets) - PnlOf(Taken)

\* A credit is a number.
LEMMA CreditType ==
  ASSUME RowInv
  PROVE  /\ Credit \in [1..NumBets -> Int] /\ NumBets \in Nat
         /\ Total(Credit, NumBets) \in Int
<1>1. \A b \in Bets : openBets[b] = "settled" => Last(settledBets[b]) \in Int
  <2> SUFFICES ASSUME NEW b \in Bets, openBets[b] = "settled"
               PROVE  Last(settledBets[b]) \in Int
    OBVIOUS
  <2>1. settledBets[b] \in Seq(Int) /\ settledBets[b] # <<>>
    BY DEF RowInv
  <2> QED BY <2>1 DEF Last
<1>2. Credit \in [1..NumBets -> Int] /\ NumBets \in Nat
  BY <1>1, SandboxConstants DEF Credit, Bets, SandboxConstants
<1> QED BY <1>2, TotalInt

\* The PnL of resolved bets is a number, and nothing for no bets.
LEMMA PnlType ==
  ASSUME RowInv, NEW bets, bets \subseteq {b \in Bets : market[b] # Pending}
  PROVE  /\ [b \in Bets |-> IF b \in bets THEN market[b] ELSE 0] \in [1..NumBets -> Int]
         /\ PnlOf(bets) \in Int
         /\ bets = {} => PnlOf(bets) = 0
<1> DEFINE pnl == [b \in Bets |-> IF b \in bets THEN market[b] ELSE 0]
<1>1. \A b \in bets : market[b] \in Int
  BY AnswerIsInt
<1>2. pnl \in [1..NumBets -> Int] /\ NumBets \in Nat
  BY <1>1, SandboxConstants DEF Bets, SandboxConstants
<1>3. bets = {} => \A b \in 1..NumBets : pnl[b] = 0
  BY DEF Bets
<1> HIDE DEF pnl
<1>4. Total(pnl, NumBets) \in Int
  BY <1>2, TotalInt
<1>5. bets = {} => Total(pnl, NumBets) = 0
  BY <1>2, <1>3, TotalZero
<1>6. PnlOf(bets) = Total(pnl, NumBets)
  BY DEF PnlOf, pnl
<1> QED BY <1>2, <1>4, <1>5, <1>6 DEF pnl

\* One bet more adds its answer.
LEMMA PnlGrows ==
  ASSUME RowInv, NEW bets, bets \subseteq {b \in Bets : market[b] # Pending},
         NEW c \in Bets, market[c] # Pending, c \notin bets
  PROVE  PnlOf(bets \cup {c}) = PnlOf(bets) + market[c]
<1> DEFINE more == bets \cup {c}
           f == [b \in Bets |-> IF b \in bets THEN market[b] ELSE 0]
           g == [b \in Bets |-> IF b \in more THEN market[b] ELSE 0]
<1>1. more \subseteq {b \in Bets : market[b] # Pending}
  OBVIOUS
<1>2. f \in [1..NumBets -> Int] /\ g \in [1..NumBets -> Int]
  BY <1>1, PnlType
<1>3. NumBets \in Nat /\ c \in 1..NumBets
  BY SandboxConstants DEF Bets, SandboxConstants
<1>4. \A b \in 1..NumBets : b # c => g[b] = f[b]
  BY DEF Bets
<1>5. f[c] = 0 /\ g[c] = market[c] /\ market[c] \in Int
  BY AnswerIsInt
<1>6. PnlOf(bets) = Total(f, NumBets) /\ PnlOf(more) = Total(g, NumBets)
  BY DEF PnlOf
<1> HIDE DEF f, g
<1>7. Total(g, NumBets) = Total(f, NumBets) + (g[c] - f[c])
  BY <1>2, <1>3, <1>4, TotalChange
<1> QED BY <1>5, <1>6, <1>7 DEF more

\* A step that marks no bet, folds none and does not end the process.
LEMMA MoneyKept ==
  ASSUME MoneyInv, UNCHANGED <<crashes, bankroll, openBets, settledBets, snapshot>>,
         settled' \in SUBSET {b \in Bets : market[b] # Pending},
         \A b \in Bets : market[b] # Pending => market'[b] = market[b],
         pc' = "down" => pc = "down", pc = "down" => pc' = "down",
         pc' \in {"flip", "flipVoid"} => UNCHANGED <<pc, queue>>,
         pc' \in {"learn", "charge"} => pc \in {"learn", "charge"} /\ UNCHANGED queue,
         BetInv, Taken' = Taken
  PROVE  MoneyInv'
<1> SUFFICES ASSUME crashes = 0
             PROVE  MoneyInv'
  BY DEF MoneyInv
<1>1. Credit' = Credit
  BY DEF Credit
<1>2. queue' = queue => Bet' = Bet
  BY DEF Bet
<1>3. pc \in {"flip", "flipVoid", "learn", "charge"} => Bet \in Bets
  BY OldestIsOne DEF BetInv
<1>4. Taken \subseteq {b \in Bets : market[b] # Pending}
  BY <1>3 DEF Taken, MoneyInv
<1>5. PnlOf(Taken)' = PnlOf(Taken)
  <2>1. [b \in Bets |-> IF b \in Taken THEN market'[b] ELSE 0]
          = [b \in Bets |-> IF b \in Taken THEN market[b] ELSE 0]
    BY <1>4
  <2> QED BY <2>1 DEF PnlOf
<1>6. pc' # "down" => bankroll' = InitialBankroll + Total(Credit', NumBets) - PnlOf(Taken)'
  BY <1>1, <1>5 DEF MoneyInv
<1>7. /\ pc' \in {"flip", "learn", "charge"} => market'[Bet'] # Pending
      /\ pc' = "flip" => Last(settledBets'[Bet']) = market'[Bet']
      /\ pc' = "flipVoid" => Last(settledBets'[Bet']) = 0
  BY <1>2, <1>3 DEF MoneyInv
<1>8. settled' \in SUBSET {b \in Bets : market'[b] # Pending}
  OBVIOUS
<1>9. pc' = "down" => snapshot' = NoSnapshot /\ \A b \in Bets : openBets'[b] # "settled"
  BY <1>1 DEF MoneyInv
<1> QED BY <1>6, <1>7, <1>8, <1>9 DEF MoneyInv

\* The poll writes the row of a bet: the answer, or nothing for a void.
LEMMA MoneyRow ==
  ASSUME MoneyInv, RowInv, BetInv, Resolve \/ NoAnswer, pc' # pc
  PROVE  MoneyInv'
<1> SUFFICES ASSUME crashes = 0
             PROVE  MoneyInv'
  BY DEF MoneyInv, Resolve, NoAnswer
<1>1. /\ pc = "settle" /\ queue # {}
      /\ UNCHANGED <<market, openBets, snapshot, queue, settled, bankroll, crashes>>
      /\ \/ pc' = "flip" /\ AppendSettled(market[Bet]) /\ market[Bet] # Pending
         \/ pc' = "flipVoid" /\ AppendSettled(0)
  BY DEF Resolve, NoAnswer, worldVars, memVars, pollVars
<1>2. Bet \in Bets /\ openBets[Bet] = "open" /\ Bet' = Bet
  BY <1>1, OldestIsOne DEF BetInv, OpenOnDisk, Bet
<1>3. Taken' = Taken
  BY <1>1 DEF Taken, Polling
<1>4. PnlOf(Taken)' = PnlOf(Taken)
  BY <1>1, <1>3 DEF PnlOf
<1>5. ASSUME NEW pnl \in Int, AppendSettled(pnl)
      PROVE  Last(settledBets'[Bet]) = pnl /\ Credit' = Credit
  <2>1. /\ settledBets' = [settledBets EXCEPT ![Bet] = Append(settledBets[Bet], pnl)]
        /\ settledBets[Bet] \in Seq(Int)
    BY <1>2, <1>5 DEF AppendSettled, RowInv
  <2>2. settledBets'[Bet] = Append(settledBets[Bet], pnl)
        /\ \A b \in Bets : b # Bet => settledBets'[b] = settledBets[b]
    BY <1>2, <2>1 DEF RowInv
  <2>3. Last(Append(settledBets[Bet], pnl)) = pnl
    BY <2>1 DEF Last
  <2>4. Credit' = Credit
    BY <1>1, <1>2, <2>2 DEF Credit
  <2> QED BY <2>2, <2>3, <2>4
<1>6. /\ Credit' = Credit
      /\ pc' = "flip" => market'[Bet'] # Pending /\ Last(settledBets'[Bet']) = market'[Bet']
      /\ pc' = "flipVoid" => Last(settledBets'[Bet']) = 0
  <2>1. CASE pc' = "flip"
    <3>1. market[Bet] \in Int
      BY <1>1, <1>2, <2>1, AnswerIsInt
    <3> QED BY <1>1, <1>2, <1>5, <2>1, <3>1
  <2>2. CASE pc' = "flipVoid"
    BY <1>1, <1>2, <1>5, <2>2
  <2> QED BY <1>1, <2>1, <2>2
<1>7. bankroll' = InitialBankroll + Total(Credit', NumBets) - PnlOf(Taken)'
  BY <1>1, <1>4, <1>6 DEF MoneyInv
<1> QED BY <1>1, <1>2, <1>6, <1>7 DEF MoneyInv

\* The poll writes the marker of a bet: its last row is credited, and what it
\* credits is what the poll has taken.
LEMMA MoneyMarker ==
  ASSUME MoneyInv, RowInv, BetInv, Flip
  PROVE  MoneyInv'
<1> SUFFICES ASSUME crashes = 0
             PROVE  MoneyInv'
  BY DEF MoneyInv, Flip
<1>1. /\ pc \in {"flip", "flipVoid"} /\ openBets' = [openBets EXCEPT ![Bet] = "settled"]
      /\ UNCHANGED <<market, settledBets, snapshot, settled, bankroll, crashes>>
      /\ pc' = IF pc = "flip" THEN "learn" ELSE "settle"
      /\ pc = "flip" => queue' = queue
  BY DEF Flip, worldVars, memVars
<1>2. Bet \in Bets /\ openBets[Bet] = "open" /\ settledBets[Bet] # <<>>
  BY <1>1, OldestIsOne DEF BetInv, OpenOnDisk, RowInv, HalfSettled
<1>3. \A b \in Bets : openBets'[b] = IF b = Bet THEN "settled" ELSE openBets[b]
  BY <1>1, <1>2 DEF BetInv
<1>4. /\ Taken = settled /\ Bet \notin settled
      /\ Taken' = IF pc = "flip" THEN settled \cup {Bet} ELSE settled
      /\ settled \subseteq {b \in Bets : market[b] # Pending}
  <2>1. pc = "flip" => Bet' = Bet
    BY <1>1 DEF Bet
  <2> QED BY <1>1, <1>2, <2>1 DEF Taken, Polling, MoneyInv, BetInv
<1>5. Total(Credit', NumBets) = Total(Credit, NumBets) + Last(settledBets[Bet])
  <2>1. Credit[Bet] = 0 /\ Credit'[Bet] = Last(settledBets[Bet])
    BY <1>1, <1>2, <1>3 DEF Credit
  <2>2. \A b \in 1..NumBets : b # Bet => Credit'[b] = Credit[b]
    BY <1>1, <1>3 DEF Credit, Bets
  <2>3. Last(settledBets[Bet]) \in Int
    <3>1. settledBets[Bet] \in Seq(Int) /\ settledBets[Bet] # <<>>
      BY <1>2 DEF RowInv
    <3> QED BY <3>1 DEF Last
  <2>4. /\ Credit \in [1..NumBets -> Int] /\ Credit' \in [1..NumBets -> Int]
        /\ NumBets \in Nat /\ Bet \in 1..NumBets
    <3>1. Credit \in [1..NumBets -> Int] /\ NumBets \in Nat /\ Bet \in 1..NumBets
      BY <1>2, CreditType DEF Bets
    <3>2. \A b \in 1..NumBets : Credit'[b] \in Int
      BY <2>1, <2>2, <2>3, <3>1
    <3>3. Credit' = [b \in 1..NumBets |-> Credit'[b]]
      BY DEF Credit, Bets
    <3> QED BY <3>1, <3>2, <3>3
  <2>5. Total(Credit', NumBets) = Total(Credit, NumBets) + (Credit'[Bet] - Credit[Bet])
    BY <2>2, <2>4, TotalChange
  <2>6. Credit'[Bet] \in Int
    BY <2>4
  <2> QED BY <2>1, <2>5, <2>6
<1>6. PnlOf(Taken)' = PnlOf(Taken) + Last(settledBets[Bet])
  <2>1. PnlOf(Taken)' = PnlOf(Taken')
    BY <1>1 DEF PnlOf
  <2>2. CASE pc = "flip"
    <3>1. market[Bet] # Pending /\ Last(settledBets[Bet]) = market[Bet]
      BY <2>2 DEF MoneyInv
    <3>2. PnlOf(settled \cup {Bet}) = PnlOf(settled) + market[Bet]
      BY <1>2, <1>4, <3>1, PnlGrows
    <3> QED BY <1>4, <2>1, <2>2, <3>1, <3>2
  <2>3. CASE pc = "flipVoid"
    <3>1. Last(settledBets[Bet]) = 0
      BY <2>3 DEF MoneyInv
    <3>2. PnlOf(settled) \in Int
      BY <1>4, PnlType
    <3> QED BY <1>4, <2>1, <2>3, <3>1, <3>2
  <2> QED BY <1>1, <2>2, <2>3
<1>7. bankroll' = InitialBankroll + Total(Credit', NumBets) - PnlOf(Taken)'
  <2>1. bankroll = InitialBankroll + Total(Credit, NumBets) - PnlOf(Taken)
    BY <1>1 DEF MoneyInv
  <2>2. Total(Credit, NumBets) \in Int /\ PnlOf(Taken) \in Int /\ InitialBankroll \in Int
    BY <1>4, CreditType, PnlType, SandboxConstants DEF SandboxConstants
  <2>3. Last(settledBets[Bet]) \in Int
    <3>1. settledBets[Bet] \in Seq(Int) /\ settledBets[Bet] # <<>>
      BY <1>2 DEF RowInv
    <3> QED BY <3>1 DEF Last
  <2> QED BY <1>1, <1>5, <1>6, <2>1, <2>2, <2>3
<1>8. pc' = "learn" => market'[Bet'] # Pending
  <2>1. pc' = "learn" => pc = "flip" /\ Bet' = Bet
    BY <1>1 DEF Bet
  <2> QED BY <1>1, <2>1 DEF MoneyInv
<1>9. settled' \in SUBSET {b \in Bets : market'[b] # Pending}
  BY <1>1, <1>4
<1>10. pc' \in {"learn", "settle"}
  BY <1>1
<1> QED BY <1>1, <1>7, <1>8, <1>9, <1>10 DEF MoneyInv

\* The loop folds what the poll has taken.
LEMMA MoneyFold ==
  ASSUME MoneyInv, RowInv, FoldPoll
  PROVE  MoneyInv'
<1> SUFFICES ASSUME crashes = 0
             PROVE  MoneyInv'
  BY DEF MoneyInv, FoldPoll
<1>1. /\ pc = "settle" /\ pc' \in {"kill", "refresh"}
      /\ bankroll' = bankroll + PnlOf(settled)
      /\ UNCHANGED <<market, openBets, settledBets, settled, crashes>>
  BY DEF FoldPoll, worldVars, diskVars, pollVars
<1>2. Taken = settled /\ Taken' = {} /\ Credit' = Credit
  BY <1>1 DEF Taken, Polling, Credit
<1>3. settled' \in SUBSET {b \in Bets : market'[b] # Pending}
  BY <1>1 DEF MoneyInv
<1>4. PnlOf(settled) \in Int /\ PnlOf({})' = 0
  <2>1. PnlOf({})' = PnlOf({})
    BY <1>1 DEF PnlOf
  <2>2. PnlOf({}) = 0
    BY PnlType
  <2>3. settled \subseteq {b \in Bets : market[b] # Pending}
    BY DEF MoneyInv
  <2> QED BY <2>1, <2>2, <2>3, PnlType
<1>5. PnlOf(Taken)' = 0
  BY <1>2, <1>4 DEF PnlOf
<1>6. bankroll' = InitialBankroll + Total(Credit', NumBets) - PnlOf(Taken)'
  <2>1. bankroll = InitialBankroll + Total(Credit, NumBets) - PnlOf(settled)
    BY <1>1, <1>2 DEF MoneyInv
  <2>2. Total(Credit, NumBets) \in Int /\ InitialBankroll \in Int
    BY CreditType, SandboxConstants DEF SandboxConstants
  <2> QED BY <1>1, <1>2, <1>4, <1>5, <2>1, <2>2
<1> QED BY <1>1, <1>3, <1>6 DEF MoneyInv

\* Every step keeps the bankroll up with the credits.
LEMMA MoneyStep ==
  ASSUME MoneyInv, RowInv, BetInv, [Next]_vars
  PROVE  MoneyInv'
<1> SUFFICES ASSUME crashes = 0, crashes' = 0
             PROVE  MoneyInv'
  <2>1. crashes' = crashes \/ crashes' = crashes + 1
    <3>1. CASE Poll \/ StartTick \/ Refresh \/ NoBet \/ \E b \in Bets : PlaceBet(b)
      BY <3>1 DEF Poll, StartTick, Resolve, NoAnswer, Flip, Learn, Charge, FoldPoll,
                  Refresh, NoBet, PlaceBet
    <3>2. CASE RecordDecision \/ WriteSnapshot \/ CheckDeath \/ Kill \/ KillReverts
               \/ \E written \in BOOLEAN : Entomb(written)
      BY <3>2 DEF RecordDecision, WriteSnapshot, CheckDeath, Kill, KillReverts, Entomb
    <3>3. CASE World \/ UNCHANGED vars
      BY <3>3 DEF World, vars, Boot, Crash, MarketResolves, Ripens
    <3> QED BY <3>1, <3>2, <3>3 DEF Next, Loop
  <2> QED BY <2>1 DEF MoneyInv, RowInv
<1> USE DEF worldVars, diskVars, memVars, pollVars
<1>1. settled \in SUBSET {b \in Bets : market[b] # Pending}
  BY DEF MoneyInv
<1>2. ~(Crash \/ KillReverts)
  BY DEF Crash, KillReverts
<1>3. ASSUME NEW armed \in BOOLEAN, Boot(armed)
      PROVE  MoneyInv'
  <2>1. /\ pc = "down" /\ pc' = "idle"
        /\ UNCHANGED <<market, openBets, settledBets, settled, crashes>>
        /\ snapshot = NoSnapshot => bankroll' = InitialBankroll
    BY <1>3 DEF Boot
  <2>2. snapshot = NoSnapshot /\ \A b \in Bets : openBets[b] # "settled"
    BY <2>1 DEF MoneyInv
  <2>3. Taken' = {} /\ Credit' = Credit
    BY <2>1 DEF Taken, Polling, Credit
  <2>4. Total(Credit, NumBets) = 0
    <3>1. \A b \in 1..NumBets : Credit[b] = 0
      BY <2>2 DEF Credit, Bets
    <3> QED BY <3>1, CreditType, TotalZero
  <2>5. PnlOf(Taken)' = 0
    <3>1. PnlOf({})' = PnlOf({})
      BY <2>1 DEF PnlOf
    <3>2. PnlOf({}) = 0
      BY PnlType
    <3> QED BY <2>3, <3>1, <3>2 DEF PnlOf
  <2>6. bankroll' = InitialBankroll + Total(Credit', NumBets) - PnlOf(Taken)'
    BY <2>1, <2>2, <2>3, <2>4, <2>5, SandboxConstants DEF SandboxConstants
  <2>7. settled' \in SUBSET {b \in Bets : market'[b] # Pending}
    BY <1>1, <2>1
  <2> QED BY <2>1, <2>6, <2>7 DEF MoneyInv
<1>4. CASE StartTick \/ CheckDeath
  <2>1. /\ pc \in {"idle", "check"} /\ pc' \in {"settle", "idle", "kill"}
        /\ pc' = "settle" => settled' = {}
        /\ pc' # "settle" => settled' = settled
        /\ UNCHANGED <<market, openBets, settledBets, snapshot, bankroll, crashes>>
    BY <1>4 DEF StartTick, CheckDeath, StartPoll
  <2>2. Taken' = Taken
    BY <2>1 DEF Taken, Polling
  <2> QED BY <1>1, <2>1, <2>2, MoneyKept
<1>5. CASE Resolve \/ NoAnswer
  <2>1. CASE pc' # pc
    BY <1>5, <2>1, MoneyRow
  <2>2. CASE pc' = pc
    <3>1. /\ pc = "settle"
          /\ UNCHANGED <<market, openBets, settledBets, snapshot, settled, bankroll, crashes>>
      BY <1>5, <2>2 DEF Resolve, NoAnswer
    <3>2. Taken' = Taken
      BY <2>2, <3>1 DEF Taken, Polling
    <3> QED BY <1>1, <2>2, <3>1, <3>2, MoneyKept
  <2> QED BY <2>1, <2>2
<1>6. CASE Flip
  BY <1>6, MoneyMarker
<1>7. CASE Learn
  <2>1. /\ pc = "learn" /\ pc' = "charge"
        /\ UNCHANGED <<market, openBets, settledBets, snapshot, settled, bankroll,
                       crashes, queue>>
    BY <1>7 DEF Learn
  <2>2. Taken' = Taken
    BY <2>1 DEF Taken, Polling, Bet
  <2> QED BY <1>1, <2>1, <2>2, MoneyKept
<1>8. ASSUME NEW n \in 0..ChainAttempts, Charge(n)
      PROVE  MoneyInv'
  <2>1. /\ pc = "charge" /\ pc' = "settle" /\ settled' = settled \cup {Bet}
        /\ UNCHANGED <<market, openBets, settledBets, snapshot, bankroll, crashes>>
    BY <1>8 DEF Charge
  <2>2. Taken' = Taken
    BY <2>1 DEF Taken, Polling
  <2>3. settled' \in SUBSET {b \in Bets : market[b] # Pending}
    <3>1. Bet \in Bets /\ market[Bet] # Pending
      BY <2>1, OldestIsOne DEF BetInv, MoneyInv
    <3> QED BY <1>1, <2>1, <3>1
  <2> QED BY <2>1, <2>2, <2>3, MoneyKept
<1>9. CASE FoldPoll
  BY <1>9, MoneyFold
<1>10. ASSUME NEW b \in Bets, PlaceBet(b)
       PROVE  MoneyInv'
  <2>1. /\ openBets[b] = "absent" /\ openBets' = [openBets EXCEPT ![b] = "open"]
        /\ pc = "decide" /\ pc' = "record"
        /\ UNCHANGED <<settledBets, market, settled, bankroll, crashes>>
    BY <1>10 DEF PlaceBet
  <2>2. \A c \in Bets : openBets'[c] = "settled" <=> openBets[c] = "settled"
    BY <2>1 DEF BetInv
  <2>3. Credit' = Credit /\ Taken = {} /\ Taken' = {}
    BY <2>1, <2>2 DEF Credit, Taken, Polling
  <2>4. PnlOf(Taken)' = PnlOf(Taken)
    BY <2>1, <2>3 DEF PnlOf
  <2>5. bankroll' = InitialBankroll + Total(Credit', NumBets) - PnlOf(Taken)'
    BY <2>1, <2>3, <2>4 DEF MoneyInv
  <2> QED BY <1>1, <2>1, <2>5 DEF MoneyInv
<1>11. CASE Refresh \/ NoBet \/ RecordDecision \/ Kill
  <2>1. /\ pc \notin Polling \cup {"down"} /\ pc' \notin Polling \cup {"down"}
        /\ UNCHANGED <<market, openBets, settledBets, snapshot, settled, bankroll, crashes>>
    BY <1>11 DEF Refresh, NoBet, RecordDecision, Kill, Polling
  <2>2. Taken' = Taken
    BY <2>1 DEF Taken
  <2> QED BY <1>1, <2>1, <2>2, MoneyKept DEF Polling
<1>12. CASE WriteSnapshot \/ \E written \in BOOLEAN : Entomb(written)
  <2>1. /\ pc \notin Polling \cup {"down"} /\ pc' \notin Polling \cup {"down"}
        /\ UNCHANGED <<market, openBets, settledBets, settled, bankroll, crashes>>
    BY <1>12 DEF WriteSnapshot, Entomb, Polling
  <2>2. Taken = {} /\ Taken' = {} /\ Credit' = Credit
    BY <2>1 DEF Taken, Credit
  <2>3. PnlOf(Taken)' = PnlOf(Taken)
    BY <2>1, <2>2 DEF PnlOf
  <2>4. bankroll' = InitialBankroll + Total(Credit', NumBets) - PnlOf(Taken)'
    BY <2>1, <2>2, <2>3 DEF MoneyInv
  <2> QED BY <1>1, <2>1, <2>4 DEF MoneyInv, Polling
<1>13. ASSUME NEW b \in Bets, NEW pnl \in Pnls, MarketResolves(b, pnl)
       PROVE  MoneyInv'
  <2>1. /\ market[b] = Pending /\ market' = [market EXCEPT ![b] = pnl]
        /\ UNCHANGED <<openBets, settledBets, snapshot, settled, bankroll, crashes, pc, queue>>
    BY <1>13 DEF MarketResolves
  <2>2. \A c \in Bets : market[c] # Pending => market'[c] = market[c]
    BY <2>1 DEF RowInv
  <2>3. Taken' = Taken
    BY <2>1 DEF Taken, Bet
  <2> QED BY <1>1, <2>1, <2>2, <2>3, MoneyKept
<1>14. CASE UNCHANGED vars \/ \E b \in Bets : Ripens(b)
  <2>1. UNCHANGED <<market, openBets, settledBets, snapshot, settled, bankroll,
                    crashes, pc, queue>>
    BY <1>14 DEF vars, Ripens
  <2>2. Taken' = Taken
    BY <2>1 DEF Taken, Bet
  <2> QED BY <1>1, <2>1, <2>2, MoneyKept
<1> QED
  BY <1>2, <1>3, <1>4, <1>5, <1>6, <1>7, <1>8, <1>9, <1>10, <1>11, <1>12, <1>13, <1>14
     DEF Next, Loop, World, Poll

\* Without a crash the bankroll is the initial one plus the PnL of every
\* settled bet, each counted once, the tombstone's included (_tick step 1,
\* _die).
THEOREM BankrollAddsUp == Spec => []BankrollReconciles
<1>1. Init => MoneyInv
  BY DEF Init, MoneyInv
<1>2. MoneyInv /\ RowInv /\ BetInv /\ [Next]_vars => MoneyInv'
  BY MoneyStep
<1>3. MoneyInv /\ RowInv => BankrollReconciles
  <2> SUFFICES ASSUME MoneyInv, RowInv, crashes = 0,
                      pc \in {"idle", "decide", "record", "snap", "kill", "entomb"}
               PROVE  bankroll = InitialBankroll + Total(Credit, NumBets)
    BY DEF BankrollReconciles
  <2>1. Taken = {}
    BY DEF Taken, Polling
  <2>2. PnlOf(Taken) = 0
    BY <2>1, PnlType
  <2>3. bankroll = InitialBankroll + Total(Credit, NumBets) - PnlOf(Taken)
    BY DEF MoneyInv
  <2> QED BY <2>2, <2>3, CreditType, SandboxConstants DEF SandboxConstants
<1> QED BY <1>1, <1>2, <1>3, BetInvariant, RowInvariant, PTL DEF Spec

================================================================================
