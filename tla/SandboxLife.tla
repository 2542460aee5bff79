------------------------------ MODULE SandboxLife ------------------------------
(***************************************************************************)
(* One life of the sandbox agent (agent/runtime/sandbox_phase2_loop.py)    *)
(* with the settlement poller it drives (sandbox_settlement_poller.py),    *)
(* the JSONL streams and snapshot both write (agent/data/sandbox_state.py) *)
(* and the chain adapter that holds its breath.                            *)
(*                                                                         *)
(* The process is sequential: pc is the next step of the tick in progress. *)
(* One action is what happens between two durable writes (a JSONL append,  *)
(* the snapshot replace, a chain call), because a crash can fall between   *)
(* any two of them.  An exception that leaves run() is a crash too.        *)
(*                                                                         *)
(* Bets are numbered in the order they are placed.  Storm, tribute and     *)
(* tithe are backtest features, off in the live runtime, and left out; so  *)
(* are reflections and proposals, which never feed the money.              *)
(***************************************************************************)
EXTENDS Integers, Sequences, FiniteSetsExt, SequencesExt, FirstOrderFolds

CONSTANTS
  Adapters,         \* chain adapters to consider: "rpc", "memory"
  InitialBreath, InitialBankroll,
  MaxBreath,        \* cap of the on-chain ledger
  Stake,            \* size of a bet
  Pnls,             \* profits or losses a market may resolve to
  Pending,          \* the answer of a market that has not resolved
  ChainAttempts,    \* attempts of one breath update (4 in the code)
  NumBets, MaxTicks, MaxCrashes  \* bounds: bets placed, ticks, crashes

Bets == 1..NumBets
NoSnapshot == [lastTick |-> -1, bankroll |-> 0, phase |-> "None", weights |-> {}]

ASSUME SandboxConstants ==
  /\ Adapters \subseteq {"rpc", "memory"}
  /\ Stake \in Nat \ {0} /\ InitialBankroll \in Nat
  /\ MaxBreath \in Nat /\ InitialBreath \in 1..MaxBreath
  /\ Pnls \subseteq Int /\ Pending \notin Int
  /\ {ChainAttempts, NumBets, MaxTicks, MaxCrashes} \subseteq Nat

VARIABLES
  \* the world
  adapter,     \* "rpc": RhChainAdapter; "memory": the server's in-memory one
  market,      \* market[b]: what gamma-api answers, Pending until it resolves
  ripe,        \* bets whose expected_settle_ts has passed
  chainBreath, tombstones,
  charged,     \* history: times the PnL of b moved the chain's breath
  \* the disk
  openBets,    \* latest status per bet_id in open_bets.jsonl
  settledBets, \* settledBets[b]: the pnl_usd of its rows in settled_bets.jsonl
  decisions,   \* ticks of the rows of decisions.jsonl
  snapshot,    \* agent_state.json
  \* the process
  phase, bankroll, weights, openIds, tickCounter, breath, forceTerminal,
  pc,
  dying,       \* the poll in progress is the terminal close
  queue,       \* bets it has not dealt with yet; the oldest is next
  settled,     \* bets it has settled
  crashes      \* history: times a process ended

worldVars == <<adapter, market, ripe, chainBreath, tombstones, charged>>
diskVars == <<openBets, settledBets, decisions, snapshot>>
memVars == <<phase, bankroll, weights, openIds, tickCounter, breath,
             forceTerminal>>
pollVars == <<dying, queue, settled>>
vars == <<worldVars, diskVars, memVars, pollVars, pc, crashes>>

OnChain == adapter = "rpc"

Steps == {"down", "idle", "settle", "flip", "flipVoid", "learn", "charge",
          "refresh", "decide", "record", "snap", "check", "kill", "entomb",
          "sealed"}

-----------------------------------------------------------------------------
(* Folds over the streams *)

\* Mutant: the first row of a bet counts, not the latest.
EverOpened == {b \in Bets : openBets[b] # "absent"}

OpenOnDisk == {b \in Bets : openBets[b] = "open"}

LastTickSeen == IF decisions = <<>> THEN -1 ELSE Max(ToSet(decisions))

\* Mutant: the snapshot's tick, which a crash may have left one behind.
ResumeFromSnapshot == snapshot.lastTick + 1

\* last_tick + 1, the decision stream being ahead of the snapshot.
ResumeTick == IF decisions = <<>> THEN snapshot.lastTick + 1
              ELSE LastTickSeen + 1

PnlOf(bets) == Total([b \in Bets |-> IF b \in bets THEN market[b] ELSE 0], NumBets)

\* AgentStateSnapshot as of tick; breath is dashboard hint only.
Snapshot(tick, ph) ==
  [lastTick |-> tick, bankroll |-> bankroll, phase |-> ph, weights |-> weights]

\* The chain's breath after n effective calls of update_breath_from_pnl.
\* On chain a loss above the balance reverts and a gain is clamped to the cap.
AfterUpdates(pnl, n) ==
  IF ~OnChain THEN Max({0, chainBreath + pnl})
  ELSE IF pnl < 0 THEN chainBreath + n * pnl
  ELSE Min({MaxBreath, chainBreath + n * pnl})

-----------------------------------------------------------------------------
Init ==
  /\ adapter \in Adapters
  /\ market = [b \in Bets |-> Pending] /\ ripe = {}
  /\ chainBreath = InitialBreath /\ tombstones = 0
  /\ charged = [b \in Bets |-> 0]
  /\ openBets = [b \in Bets |-> "absent"]
  /\ settledBets = [b \in Bets |-> <<>>]
  /\ decisions = <<>> /\ snapshot = NoSnapshot
  /\ phase = "Extended" /\ bankroll = 0 /\ weights = {} /\ openIds = {}
  /\ tickCounter = 0 /\ breath = 0 /\ forceTerminal = FALSE
  /\ pc = "down" /\ dying = FALSE /\ queue = {} /\ settled = {}
  /\ crashes = 0

\* The process is gone and its memory with it.
Exit ==
  /\ phase' = "Extended" /\ bankroll' = 0 /\ weights' = {} /\ openIds' = {}
  /\ tickCounter' = 0 /\ breath' = 0 /\ forceTerminal' = FALSE
  /\ pc' = "down" /\ dying' = FALSE /\ queue' = {} /\ settled' = {}

\* run() on a fresh process: arm the forced terminal if the environment asks
\* for it, then _reconstruct_from_disk.  The in-memory adapter is born full.
Boot(armed) ==
  /\ pc = "down" /\ pc' = "idle"
  /\ forceTerminal' = armed
  /\ IF snapshot = NoSnapshot
     THEN /\ weights' = {} /\ phase' = "Extended"
          /\ bankroll' = InitialBankroll
     ELSE /\ weights' = snapshot.weights /\ phase' = snapshot.phase
          /\ bankroll' = snapshot.bankroll
  /\ tickCounter' = ResumeTick
  /\ openIds' = OpenOnDisk
  /\ chainBreath' = IF OnChain THEN chainBreath ELSE InitialBreath
  /\ breath' = chainBreath'
  /\ UNCHANGED <<adapter, market, ripe, tombstones, charged, diskVars, pollVars,
                 crashes>>

-----------------------------------------------------------------------------
(* The settlement poller: tick() over the due bets, terminal_close() over   *)
(* all open ones                                                            *)

\* The queue is read off the disk once; the oldest bet is taken up first.
StartPoll(bets, terminal) ==
  /\ pc' = "settle"
  /\ dying' = terminal
  /\ queue' = bets
  /\ settled' = {}

StartTick ==
  /\ pc = "idle" /\ tickCounter < MaxTicks
  /\ StartPoll(OpenOnDisk \cap ripe, FALSE)
  /\ UNCHANGED <<worldVars, diskVars, memVars, crashes>>

Bet == Min(queue)
Done == queue' = queue \ {Bet}

AppendSettled(pnl) ==
  settledBets' = [settledBets EXCEPT ![Bet] = Append(@, pnl)]

\* gamma-api answers with a resolution: step 1, the settled row.
Resolve ==
  /\ pc = "settle" /\ queue # {}
  /\ market[Bet] # Pending
  /\ AppendSettled(market[Bet])
  /\ pc' = "flip"
  /\ UNCHANGED <<worldVars, openBets, decisions, snapshot, memVars, pollVars,
                 crashes>>

\* Mutant: the terminal close waits for the market.
NoAnswerWaits ==
  /\ pc = "settle" /\ queue # {}
  /\ queue' = IF dying THEN queue ELSE queue \ {Bet}
  /\ UNCHANGED <<worldVars, diskVars, memVars, dying, settled, pc, crashes>>

\* Still pending, or every retry failed: the tick skips the bet, the
\* terminal close voids it.
NoAnswer ==
  /\ pc = "settle" /\ queue # {}
  /\ IF dying
     THEN AppendSettled(0) /\ pc' = "flipVoid" /\ UNCHANGED queue
     ELSE Done /\ UNCHANGED <<settledBets, pc>>
  /\ UNCHANGED <<worldVars, openBets, decisions, snapshot, memVars, dying,
                 settled, crashes>>

\* Mutant: no marker is written for a resolved bet.
FlipOnlyVoids ==
  /\ pc \in {"flip", "flipVoid"}
  /\ IF pc = "flip"
     THEN pc' = "learn" /\ UNCHANGED <<queue, openBets>>
     ELSE /\ pc' = "settle" /\ Done
          /\ openBets' = [openBets EXCEPT ![Bet] = "settled"]
  /\ UNCHANGED <<worldVars, settledBets, decisions, snapshot, memVars, dying,
                 settled, crashes>>

\* Step 2: the status-flip marker.  A void has no further effect.
Flip ==
  /\ pc \in {"flip", "flipVoid"}
  /\ openBets' = [openBets EXCEPT ![Bet] = "settled"]
  /\ IF pc = "flip" THEN pc' = "learn" /\ UNCHANGED queue
                    ELSE pc' = "settle" /\ Done
  /\ UNCHANGED <<worldVars, settledBets, decisions, snapshot, memVars, dying,
                 settled, crashes>>

\* Step 3: the settlement gradient.
Learn ==
  /\ pc = "learn" /\ pc' = "charge"
  /\ weights' = weights \cup {Bet}
  /\ UNCHANGED <<worldVars, diskVars, phase, bankroll, openIds, tickCounter,
                 breath, forceTerminal, pollVars, crashes>>

\* Step 4: the breath update with its retries.  In memory it takes effect
\* once; over RPC n attempts take effect, a receipt may be lost and the call
\* repeated under a fresh nonce.  The bet counts as settled in any case.
Charge(n) ==
  /\ pc = "charge"
  /\ IF OnChain THEN market[Bet] < 0 => n * (-market[Bet]) <= chainBreath
     ELSE n = 1
  /\ chainBreath' = AfterUpdates(market[Bet], n)
  /\ charged' = [charged EXCEPT ![Bet] = @ + n]
  /\ settled' = settled \cup {Bet}
  /\ Done
  /\ pc' = "settle"
  /\ UNCHANGED <<adapter, market, ripe, tombstones, diskVars, memVars, dying,
                 crashes>>

\* Mutants: settled bets stay in the open set; and the settlements of the
\* terminal close are not folded.
FoldPollKeepsIds ==
  /\ pc = "settle" /\ queue = {}
  /\ bankroll' = bankroll + PnlOf(settled)
  /\ pc' = IF dying THEN "kill" ELSE "refresh"
  /\ UNCHANGED <<worldVars, diskVars, phase, weights, openIds, tickCounter,
                 breath, forceTerminal, pollVars, crashes>>

FoldPollSkipsClose ==
  /\ pc = "settle" /\ queue = {}
  /\ bankroll' = IF dying THEN bankroll ELSE bankroll + PnlOf(settled)
  /\ openIds' = IF dying THEN {} ELSE openIds \ settled
  /\ pc' = IF dying THEN "kill" ELSE "refresh"
  /\ UNCHANGED <<worldVars, diskVars, phase, weights, tickCounter, breath,
                 forceTerminal, pollVars, crashes>>

\* tick() or terminal_close() returns; the loop folds its settlements.
FoldPoll ==
  /\ pc = "settle" /\ queue = {}
  /\ bankroll' = bankroll + PnlOf(settled)
  /\ openIds' = IF dying THEN {} ELSE openIds \ settled
  /\ pc' = IF dying THEN "kill" ELSE "refresh"
  /\ UNCHANGED <<worldVars, diskVars, phase, weights, tickCounter, breath,
                 forceTerminal, pollVars, crashes>>

-----------------------------------------------------------------------------
(* The rest of the tick *)

\* The forced terminal drives the chain's breath to zero, once; then the
\* loop re-reads it.
Refresh ==
  /\ pc = "refresh" /\ pc' = "decide"
  /\ chainBreath' = IF forceTerminal THEN 0 ELSE chainBreath
  /\ breath' = chainBreath'
  /\ forceTerminal' = FALSE
  /\ UNCHANGED <<adapter, market, ripe, tombstones, charged, diskVars, phase,
                 bankroll, weights, openIds, tickCounter, pollVars, crashes>>

NoBet ==
  /\ pc = "decide" /\ pc' = "record"
  /\ UNCHANGED <<worldVars, diskVars, memVars, pollVars, crashes>>

\* The sizer never stakes more than breath or bankroll allows.
PlaceBet(b) ==
  /\ pc = "decide" /\ pc' = "record"
  /\ Stake <= breath /\ Stake <= bankroll
  /\ openBets[b] = "absent" /\ \A c \in 1..(b - 1) : openBets[c] # "absent"
  /\ openBets' = [openBets EXCEPT ![b] = "open"]
  /\ openIds' = openIds \cup {b}
  /\ UNCHANGED <<worldVars, settledBets, decisions, snapshot, phase, bankroll,
                 weights, tickCounter, breath, forceTerminal, pollVars, crashes>>

RecordDecision ==
  /\ pc = "record" /\ pc' = "snap"
  /\ decisions' = Append(decisions, tickCounter)
  /\ UNCHANGED <<worldVars, openBets, settledBets, snapshot, memVars, pollVars,
                 crashes>>

WriteSnapshot ==
  /\ pc = "snap" /\ pc' = "check"
  /\ tickCounter' = tickCounter + 1
  /\ snapshot' = Snapshot(tickCounter, phase)
  /\ UNCHANGED <<worldVars, openBets, settledBets, decisions, phase, bankroll,
                 weights, openIds, breath, forceTerminal, pollVars, crashes>>

\* Mutant: only the due bets are closed at death.
CheckDeathDueOnly ==
  /\ pc = "check"
  /\ IF breath > 0 THEN pc' = "idle" /\ UNCHANGED pollVars
     ELSE StartPoll(OpenOnDisk \cap ripe, TRUE)
  /\ UNCHANGED <<worldVars, diskVars, memVars, crashes>>

\* The death check; _die begins with the terminal close.
CheckDeath ==
  /\ pc = "check"
  /\ IF breath > 0 THEN pc' = "idle" /\ UNCHANGED pollVars
     ELSE IF openIds = {} THEN pc' = "kill" /\ UNCHANGED pollVars
     ELSE StartPoll(OpenOnDisk, TRUE)
  /\ UNCHANGED <<worldVars, diskVars, memVars, crashes>>

KillAccepted == OnChain => chainBreath = 0 /\ tombstones = 0

\* kill_and_mint_tombstone.
Kill ==
  /\ pc = "kill" /\ pc' = "entomb"
  /\ KillAccepted
  /\ tombstones' = tombstones + 1
  /\ UNCHANGED <<adapter, market, ripe, chainBreath, charged, diskVars, memVars,
                 pollVars, crashes>>

\* AgentLifecycle.die() reverts; the exception ends the process.
KillReverts ==
  /\ pc = "kill" /\ Exit
  /\ ~KillAccepted
  /\ crashes' = crashes + 1
  /\ UNCHANGED <<worldVars, diskVars>>

\* The terminal snapshot; a failing write is logged and swallowed.
Entomb(written) ==
  /\ pc = "entomb" /\ pc' = "sealed"
  /\ phase' = "Terminal"
  /\ snapshot' = IF written THEN Snapshot(tickCounter - 1, "Terminal")
                 ELSE snapshot
  /\ UNCHANGED <<worldVars, openBets, settledBets, decisions, bankroll, weights,
                 openIds, tickCounter, breath, forceTerminal, pollVars, crashes>>

-----------------------------------------------------------------------------
(* The environment *)

\* The process dies between two steps, or a sealed one is started again.
Crash ==
  /\ pc # "down" /\ Exit
  /\ crashes < MaxCrashes /\ crashes' = crashes + 1
  /\ UNCHANGED <<worldVars, diskVars>>

MarketResolves(b, pnl) ==
  /\ openBets[b] # "absent" /\ market[b] = Pending
  /\ market' = [market EXCEPT ![b] = pnl]
  /\ UNCHANGED <<adapter, ripe, chainBreath, tombstones, charged, diskVars, memVars,
                 pollVars, pc, crashes>>

Ripens(b) ==
  /\ openBets[b] # "absent" /\ b \notin ripe
  /\ ripe' = ripe \cup {b}
  /\ UNCHANGED <<adapter, market, chainBreath, tombstones, charged, diskVars, memVars,
                 pollVars, pc, crashes>>

Poll ==
  \/ Resolve \/ NoAnswer \/ Flip \/ Learn
  \/ \E n \in 0..ChainAttempts : Charge(n)
  \/ FoldPoll

Loop ==
  \/ StartTick \/ Poll \/ Refresh \/ NoBet
  \/ \E b \in Bets : PlaceBet(b)
  \/ RecordDecision \/ WriteSnapshot \/ CheckDeath \/ Kill \/ KillReverts
  \/ \E written \in BOOLEAN : Entomb(written)

World ==
  \/ \E armed \in BOOLEAN : Boot(armed)
  \/ Crash
  \/ \E b \in Bets, pnl \in Pnls : MarketResolves(b, pnl)
  \/ \E b \in Bets : Ripens(b)

Next == Loop \/ World

Spec == Init /\ [][Next]_vars

\* The event loop keeps a live process running: every retry is bounded, so a
\* step that can be taken is taken.  Nothing obliges anyone to start it.
FairSpec == Spec /\ WF_vars(Loop)

-----------------------------------------------------------------------------
(* Properties *)

\* A duplicated settled row costs a crash between the row and the flip: the
\* stream holds at most one row per bet plus one per crash.
DuplicatesNeedCrashes ==
  LET extra == [b \in Bets |-> IF settledBets[b] = <<>> THEN 0
                               ELSE Len(settledBets[b]) - 1]
  IN Total(extra, NumBets) <= crashes

\* The flip comes before the gradient and the chain call, so a crash can lose
\* the breath delta of a bet but never repeat it; only lost receipts can.
ChargedAtMostOnce ==
  \A b \in Bets : charged[b] <= IF OnChain THEN ChainAttempts ELSE 1

\* No open bet dangles into a tombstone.
DeathClosesBets == pc \in {"kill", "entomb"} => OpenOnDisk = {}

\* What the last row of a bet that is marked as settled gives.
Credit ==
  [b \in Bets |-> IF openBets[b] = "settled" THEN Last(settledBets[b]) ELSE 0]

\* Without a crash the bankroll, the one carved on the tombstone included,
\* is the initial one plus every settled PnL, each counted once.
BankrollReconciles ==
  crashes = 0 /\ pc \in {"idle", "decide", "record", "snap", "kill", "entomb"}
    => bankroll = InitialBankroll + Total(Credit, NumBets)

\* No tick number is ever given to two decisions, across any restarts, and
\* the snapshot never claims a tick whose decision is not on disk.
TicksNeverReused ==
  /\ \A i \in 1..(Len(decisions) - 1) : decisions[i] < decisions[i + 1]
  /\ snapshot.lastTick # -1 => snapshot.lastTick \in ToSet(decisions)

\* A death check that finds no breath ends in a tombstone or with the
\* process down, whatever the markets and the ledger answer.
DyingEnds == pc = "check" /\ breath = 0 ~> pc \in {"sealed", "down"}

\* What the loop's comments say: a restart of a tombstoned agent finds
\* PHASE_4_TERMINAL in the snapshot and cannot resurrect it.
TombstonedNeverDecides ==
  [][snapshot.phase = "Terminal" => UNCHANGED decisions]_vars

\* What the chain adapter says: _die drives breath to zero before the kill.
KillAtZeroBreath == pc = "kill" => chainBreath = 0

=============================================================================
