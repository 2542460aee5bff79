# autopoiesis in TLA+

*autopoiesis* is an agent that trades prediction markets and lives on BREATH: a
balance kept by a contract, taxed by every decision and by time, burnt by
losses, topped up by wins. When it is gone the agent dies, once, and a tombstone
is minted. This directory holds a TLA+ development of the parts of the program
whose correctness depends on order, failure and restart.

* [The system](#the-system)
* [Modules](#modules)
* [Runs](#runs)
* [Where the code and its comments disagree](#where-the-code-and-its-comments-disagree)
* [Proofs](#proofs)
* [What is not modelled](#what-is-not-modelled)
* [Plan](#plan)

All paths below are relative to the repository.

## The system

| part | state it keeps | operations | what makes it correct |
|---|---|---|---|
| `contracts/EnergyController.sol` | breath, its cap, bankroll, phase mirror, signer, used nonces, owner, pause and lock flags | `initialize`, two burns, `settleMarketLoss` by attestation, `topUpBreath`, `deepenBreath`, bankroll moves, admin setters, `lockPhase3` | breath never exceeds the cap; an attestation burns once; a locked admin surface stays as it is |
| `contracts/PhaseManager.sol` | phase, desperate bit, lock, owner | two climbs, `enterDesperateMode`, `setOwner`, `lockPhase3` | the climb is one-way; desperation and lock belong to Adulthood |
| `contracts/AgentLifecycle.sol`, `DecisionLog.sol`, `TombstoneNFT.sol` | life state, epitaph, decision counter, wiring; the log; the tombstones | `recordDecision`, `pokeLifeState`, `declareDeath`, `die`, one-shot wiring | life states only fall; one death, at most one tombstone; counter and log agree |
| `script/Advance*.s.sol`, `script/Renounce*.s.sol` | none of their own; a broadcast in flight | check, broadcast one or two transactions, check again locally | whatever part of a launch is lost, the next script can go on or refuses |
| `agent/core/pressure_monitor.py`, its dispatch in `agent/core/agent.py` | cycles held, latch | observe, phase transition, dispatch with retries | the intent never reaches the chain before its time |
| `agent/runtime/sandbox_phase2_loop.py` | phase, bankroll, weights, open ids, tick counter, last breath read | boot from disk, tick, death | the bankroll adds up, ticks are numbered once, a dead agent closes its bets |
| `agent/runtime/sandbox_settlement_poller.py`, `agent/data/sandbox_state.py` | the JSONL streams and `agent_state.json` | `tick`, `terminal_close`; append, replace | no bet is charged twice; a fold of the streams after a crash is a state the loop had |
| `agent/runtime/rh_chain_adapter.py`, in-memory adapter in `agent/server/main.py` | nonce counter; breath | `update_breath_from_pnl`, `kill_and_mint_tombstone` | one change of breath per settlement |
| `agent/runtime/incarnation_supervisor.py`, promotion in `agent/server/main.py` | manifest, incarnation index, carried weights; staged and claimed configuration | reset, adopt, write manifest, run a life | a restart resumes the lineage; nothing learned or promoted is lost |
| `agent/server/runner.py` | the task in the slot, a lock, the error envelope | start, stop, `_safe_run` | one loop at a time; the end of a run is told |
| `agent/runtime/agent_runner.py`, approval routes and SSE stream of `agent/server/main.py` | queue of weight deltas; `proposals.jsonl` | emit, approve, reject, drain, stream | an approval is carried out once and reaches a loop; nothing pending is hidden |
| `agent/backtest/survival_season.py`, `replay_runner.py`, `settlement_learner.py`, `reincarnation.py` | schedule, driven clock, what is left to decide, carried weights and learner | season of lives, tithe, tribute, time split, frozen verdict | no look-ahead; every market once; experience outlives the agent |
| `agent/dashboard_bridge/death_watch_emitter.py`, `dashboard/lib/ws-client.ts`, `wsStore.ts` | side of each threshold, sequence number; socket, timers, last number heard; the screen's projection | observe, emit; open, fall silent, poll, reconnect, stop; ingest | frames are told and heard once, in order; the screen always has a source |

How they interact. The operator's scripts drive the phase manager (the
authority) and the energy controller (its mirror), while the agent watches its
own pressure and may ask the authority for Desperate Mode. The energy controller
calls `isDesperate()` of the phase manager it is linked to. The lifecycle
contract reads breath from the energy controller at each call, appends to the
log and mints into the NFT, whose `_safeMint` calls the owner back.

Off chain the server's runner owns one asyncio task, the loop: each tick takes
the approved weight deltas from the queue, runs the poller, which writes two
streams and calls the chain adapter, places at most one bet, writes the decision
row, then the snapshot, looks at its breath, and may append a proposal for the
operator. Routes run between the awaits of that task. At death it closes the
open bets, calls `die()` through the adapter and writes the terminal snapshot;
the supervisor then resets the streams and starts the next life. A backtest runs
the same loop over cached markets under a clock of its own. The emitter and the
browser share nothing but the frames.

Hard behaviours: calls of several accounts in any order; transactions lost after
the first of a broadcast; a callee that reverts; a crash between any two durable
writes; a receipt lost and its call repeated; markets that never resolve; a
stop that gives up on a task; an append that tears; lives that end between
two steps; a socket that drops or goes silent while polls overlap it.
`PROJECT.json` lists them line by line under `hazards`.

## Modules

**`EnergyController`** — one action per external function. A reverted call leaves
no trace on chain and is not a step, so each `require` is a conjunct. A uint256
is a number up to `UintMax`; checked arithmetic that leaves the range reverts. The
two burn functions share a body and an action (`BurnTax`). The phase managers
the contract may be linked to are their sticky `isDesperate()` bit. `applied` is
a history variable: the burns made under each signed nonce.

**`PhaseManager`** — its own latch, lock and owner.

**`AgentLifecycle`** — with the two contracts that only it can write to. Several
deployments of log and NFT exist, some built for another lifecycle (`OwnLogs`,
`OwnNfts`), and some owners refuse ERC-721 tokens (`Receivers`): these are the
ways in which the nested calls fail and roll the whole call back. The breath
readings are an environment action. `deepest` and `deathRolledBack` are history.

**`MortalLife`** — the abstract promise of the lifecycle contract: a stage that only
falls, one death, at most one tombstone, cut in the step of the death.
`AgentLifecycle` implements it with `stage <- lifeState` and `stones <-` the length
of the wired NFT's tombstones.

**`PressureMonitor`** — the counter of ticks under pressure, its latch and its reset.
A pressure is above the threshold or not.

**`LaunchScripts`** — composes the two contracts (`INSTANCE EnergyController` with
the real desperate bit of `INSTANCE PhaseManager`) and the monitor under the
operator's scripts. A script starts only if its checks pass on the current state,
as Foundry simulates it first; then its transactions land one by one, and the
rest may be lost. Meanwhile the agent, the deployer and the signer go on
operating. The agent learns of a phase when it reads it (`SeePhase`), its intent is
sent up to `Retries` times, may land with or without its receipt, and may meet no
dispatcher at all; a restart forgets the monitor.

**`SandboxLife`** — the loop, the poller, the streams and the breath, as one
sequential process with a program counter `pc`. One action is what happens
between two durable writes, because a crash can fall between any two:

| `pc` | action | code |
|---|---|---|
| `down` | `Boot` | `run`, `_reconstruct_from_disk` |
| `idle` | `StartTick` | `tick` selects due bets |
| `settle` | `Resolve`, `NoAnswer`, `FoldPoll` | settled row; skip or void; return to the loop |
| `flip`, `flipVoid` | `Flip` | status marker |
| `learn`, `charge` | `Learn`, `Charge` | gradient; breath update with its retries |
| `refresh`, `decide`, `record`, `snap` | `Refresh`, `NoBet`/`PlaceBet`, `RecordDecision`, `WriteSnapshot` | steps 3 to 7 of `_tick` |
| `check` | `CheckDeath` | step 8; `_die` begins with the terminal close |
| `kill`, `entomb` | `Kill`, `KillReverts`, `Entomb` | `die()`; terminal snapshot |

`adapter` is the one the process was built with: in memory breath has a floor and
no ceiling and is reborn full at every boot; over RPC a loss above the balance
reverts, a gain is clamped at the cap, and `Charge(n)` says how many of the attempts
took effect. Bets are numbered as they are placed, so the next of a poll is the
smallest of its set `queue`.

**`RhChainAdapter`** — one breath update over RPC, composed with the ledger
(`INSTANCE EnergyController`, initialised and owned by the adapter's account). Where
`SandboxLife` lets an update take effect at once, here it is a sequence: consume a
nonce and ask the ledger about it, read the transaction count, estimate the gas,
send, wait for the receipt, and after any failure the next of the poller's
attempts. The node holds at most one of the account's transactions (`slot`), since
the account nonce is the count of mined ones; it may mine it at any later moment
(with or without enough gas), drop it, or let a newer one replace it, whether or
not anybody still waits. A restart keeps the chain and the node, and resets the
adapter's nonce counter. `charged`, `abandoned` and `refused` are history.

**`IncarnationSupervisor`** — the start of a life, in the plain mode and in the
reincarnating one (`reincarnating`). One action is again what happens between two
writes to disk:

| `pc` | action | code |
|---|---|---|
| `down` | `Start` | `run` of the supervisor, or `_factory` alone |
| `reset`, `resetSnapshot` | `ResetStreams`, `ResetSnapshot` | `_reset_per_life_streams`; an unlink may fail |
| `claim`, `archive`, `archiveStreams`, `apply` | `Claim`, `ArchiveSnapshot`, `ArchiveStreams`, `Apply` | `_consume_staged_config`, `_reset_durable_life` |
| `manifest` | `WriteManifest` | `write_manifest` |
| `boot` | `Boot` | the snapshot step of `_reconstruct_from_disk` |
| `living` | `PlaceBet`, `Learn`, `WriteSnapshot`, `Die` | the loop, abstractly |
| `dead` | `Respawn` | next turn of the `while` |

Weights are the version of the configuration they started from and the lessons
learnt since; bet rows are the current life's (`own`) or left over from another
(`ghost`). `saved` and `promoted` are history: what the disk owes to later lives.

**`Lineage`** — the abstract promise of the supervisor: life n + 1 begins only after
life n has died. `IncarnationSupervisor` implements it with `life <- manifest`.

**`AgentRunner`** — start, stop and `_safe_run` on one event loop: what happens
between two awaits is one action. A stop cancels the task and waits for it under
the lock (`Stop`), until the task has ended (`StopReturns`) or the window is over
(`StopTimesOut`, which clears the slot with the task still alive). A cancelled task
takes no further step of its own: the cancellation reaches it at its next await,
before its first step perhaps (`CancelBeforeFirstStep`), and it may raise something
else while it unwinds (`Fails`).

**`ControlPlane`** — extends the runner with what its loops and its routes share: the
log of proposals, the queue of approved deltas, the snapshot, and the client of the
event stream. A route does not await between reading the log and appending to it
and is one action; a tick is three (`Drain`, `Save`, and `Rest` or `Advise`), because its
awaits let routes in. An append succeeds, fails, or leaves a fragment to which the
next row is glued, so that both are unreadable. `Respawn` and the reset in
`StartAgent` begin a life afresh; `Restart` ends the process. Rows are of one length,
so that a line is what an offset counts.

**`SurvivalSeason`** — one season of a backtest: the two passes of
`build_survival_schedule`, the clock pinned to a stop and advanced at every read, the
tick (`Poll`, `Decide`, `Tithe`, `Live`), the tribute at the death bed, `Die`, and the
hand-over of what is undecided from a life to the next. Times are seconds; weights
and the EMA learner are the sets of lessons they contain.

**`Reincarnation`** — the two experiments over it, a fixed number of seasons or one
life after another until one survives: the split of the rows by time, the weights
carried and the advisor's delta between two seasons, the frozen verdict on the
held-out window.

**`DeathWatchStream`** — emitter, wire, client and store. `ObserveEnergy(pct, ok)` is one
reading that crosses some thresholds, of whose frames the transport takes the first
`ok`. The server between them is not in the repository: it sends a frame on the open
socket and answers a poll with its backlog or its last frame. The client is the whole
of `WsClient`; the poller runs on beside an attempt to reconnect and beside an open
socket that fell silent, and a poll under way outlives both the poller and `stop`.
`lost` is `reconnectAttempts > 0`: the count itself only sets the delay. Time is left
out: the silence watch may strike whenever the fallback is not already on.

**`FirstOrderFolds`** — a filter by a set (`Kept`) and a sum (`Total`), written as
recursive functions of values, so that what `SelectSeq` and a fold would compute can
be reasoned about.

**`*Proofs`** — theorems and proofs, in modules that extend the ones they are about.
The ledger's are the last section of `ControlPlaneProofs`, those of `DeathWatchStream`
the last of `AgentLifecycleProofs`. **`FoldLemmas`** holds induction over numbers and
sequences and what the two folds return.

The `MC*` modules hold the sets that a configuration cannot write. Definitions
marked *Mutant* are deliberately wrong versions of the definition below them,
kept to show that each property can fail.

## Runs

| run | question | bounds | kind |
|---|---|---|---|
| `ledger` | Can any order of calls break the breath ledger? | two owners, two signers and nonces, a three-unit uint | pass |
| `lifecycle` | Does the lifecycle contract implement `MortalLife`? | two accounts (one refuses tokens), own and foreign log and NFT, breath on both sides of the 5% and 20% thresholds and one overflowing reading, two decisions | pass |
| `launch` | Do cut launches and a lagging agent leave a sane pair of contracts? | operator and agent, one signer and nonce, amounts 1 and 2, two cycles, two retries | pass |
| `sandbox` | Do streams, memory, bankroll and breath survive crashes anywhere, under either adapter? | two bets, four ticks, two crashes, a loss of 2 or a gain of 3 | pass |
| `rh_chain` | Does every breath update end, and charge what it reports? | three bets of nothing or two on a breath of four, two attempts each, one restart | pass |
| `supervisor` | Do lineage, weights and promotions survive a stop between any two writes? | both modes, three lives, two promotions, two lessons, two stops | pass |
| `control_plane` | Does every approval reach a loop, its snapshot and the stream, whatever starts, stops, fails or restarts? | two runs, one proposal of either kind, two upsets | pass |
| `reincarnation` | Does the schedule let nothing settle early, and does experience outlive the agent? | four markets, five timings, three designs, two seasons of two lives and the verdict | pass |
| `death_watch` | Are frames told and heard once, in order and in the end? | two thresholds, readings on and between both sides, two frames a life, one restart | pass |
| `lifecycle_mint_failure`, `sandbox_resurrection`, `death_watch_restart` | see the next section | the same, smaller | violation |

Why the bounds are enough. Ledger: a signer that is rotated away and back needs
two; a top-up beyond the cap, an overflow and a cap above the initial breath all
happen within three units. Lifecycle: each threshold has a reading on either
side; two deployments of each kind allow a wrong wiring before or after death.
Launch: no script broadcasts more than two transactions, so losing none, one or
both is everything; two retries allow a landed attempt whose receipt is lost and
one that follows it. Sandbox: two bets let one be settled, voided or open while
the other is in progress; two losses kill; two crashes let a bet be settled a
third time, and a dead agent be restarted and crash again. RPC adapter: two losses
exhaust the breath, so that a third fails at its gas estimate; an accepted call
reverts when it runs out of gas, and an abandoned one past its deadline; of the
code's four attempts two already let a receipt be lost and its call repeated; one
restart meets used nonces on every later loss. Start of a life: three lives have
one in the middle, two stops cut an adoption and then its recovery, two promotions
let one be staged while the other is claimed. Control plane: two runs let one be
given up while the other is in the slot; two upsets let an append tear and the next
be glued to it, or fail and the process restart; a second proposal multiplies the
states by four and adds no interleaving. Seasons: the timings let entries tie,
follow within the clock's drift or lie apart, and bets fall due before, with or
after the next decision; a breath of two dies of one loss, by rent or in debt.
Death Watch: one reading crosses no threshold, one or both; two frames let the
second overtake the first by a poll.

`MaxTicks`, `NumBets`, `MaxCrashes`, `MaxRestarts`, `MaxStops`, `MaxConfigs`, `MaxLessons`,
`MaxDecisions`, `MaxRuns`, `MaxProposals`, `MaxUpsets` and `MaxFrames` are the only
artificial bounds, each in a guard (`MaxLives` and `MaxSeasons` are arguments of the
code, smaller). In `DeathWatchStream` there is moreover at most one poll at a time; the
code's interval may overlap a slow one, whose late answer then brings only frames that
are newer than the last heard, or none.

Deadlock is checked in the lifecycle runs. Elsewhere it is off because the
bounded system really stops: a ledger locked while paused, a sandbox that has
used its ticks, an experiment that is over, a client that is stopped.

What the properties say:

* ledger: `BreathWithinCap`, `AttestationAppliedOnce`, `LockFreezesAdmin`;
* lifecycle: `CounterMatchesLog`, `ImplementsMortalLife`;
* launch: `MirrorNeverAhead`, `LocksInOrder`, `BroadcastStillValid` (what the local
  simulation accepted still holds when each transaction lands),
  `IntentNeverPremature` (an attempt finds the chain ready, or is the second),
  `LedgerRefined` (the composition still meets `LedgerSpec`);
* sandbox: `DuplicatesNeedCrashes`, `ChargedAtMostOnce`, `DeathClosesBets`,
  `BankrollReconciles`, `TicksNeverReused`, and the liveness property `DyingEnds`;
* adapter: `ChargesAccounted` (a reported success moved the ledger, and every other
  charge of the bet is an attempt whose outcome was never heard),
  `RefusalsBounded` (after a restart the refusals are no more than the used
  nonces), and the liveness property `UpdateEnds`;
* start of a life: `PromotionLands`, `LessonsKept`, `ImplementsLineage`;
* control plane: `OneLoopUnlessAbandoned`, `EndIsTold` (the runner); `CarriedOutOnce`,
  `DeltaConserved`, `SavedAtRest`, `NoProposalHidden` (an approval on its way through
  log, queue, loop and snapshot); `StreamComplete`; and the liveness property
  `ApprovalReachesLoop`;
* seasons: `LivingHaveBreath`, `EveryMarketOnce`, `SurvivorsAreDrained`, `NoLookahead`,
  `LessonsKept`, `HoldoutUnseen`;
* Death Watch: `TapeTellsTheSide` (the tracker agrees with what got out),
  `HeardInOrder`, `NeverBlind` (from a lost socket to the next open one, failed attempts
  included, the client polls), and the liveness property `AlwaysCatchesUp`.

Fairness. `FairSpec` of `SandboxLife` assumes `WF_vars(Loop)`: every await in the
loop is bounded (HTTP timeouts, a fixed number of retries), so a live process
keeps taking steps. Nothing obliges a market to resolve, a process not to crash
or anyone to restart it. `Spec` of `RhChainAdapter` assumes `WF_vars(Adapter)`: each
RPC request and the wait for a receipt have a timeout, and the attempts are
counted. Nothing obliges the node to mine or to answer. `Spec` of `ControlPlane`
assumes weak fairness of each step of a loop that runs and of the answer of a stop:
one event loop serves every ready task, and a stop waits a bounded time. Nobody is
obliged to start, stop, approve or fail. `StreamSpec` of `DeathWatchStream` assumes that
timers fire and events are delivered (weak fairness of `OpenSocket`, `OnClose`,
`OnMessage`, `Silence` and `PollAsk`), and strong fairness of a poll's answer: a client
that asks every two seconds for ever is answered now and then. Nothing is assumed
of the socket. The other specifications assume no fairness.

## Where the code and its comments disagree

Three are runs that end in a counterexample.

1. `lifecycle_mint_failure`: a reverting mint rolls the death back, though the
   comment says that it does not.
2. `sandbox_resurrection`: a restarted dead agent goes on deciding, though three
   comments say that it cannot.
3. `death_watch_restart`: the client drops the first frames of a restarted emitter,
   because its last number outlives the connection, though the emitter's comment
   relies on numbers being per connection.

Further configurations end in a counterexample too and are kept for the reader:

* `EnergyLockWhilePaused.cfg` (`OperationalAfterLock`): a ledger locked while paused is
  paused for ever, though the lock promises that operations remain callable.
* `SandboxKillAboveZero.cfg` (`KillAtZeroBreath`): the terminal close may credit a win,
  so `die()` is called with breath above zero and reverts, though the adapter says
  that breath was driven to zero.
* `RhRestartReusesNonce.cfg` (`SignerNotLockedOut`): the nonce counter restarts at zero,
  so a restarted adapter signs used nonces and is refused, though the comment says
  that a nonce is never used again. As each bet gets four attempts, a process that
  follows one with n used nonces drops about n / 4 losses before the counter has
  caught up.
* `SupervisorResetsTheLiving.cfg` (`ResetBetweenLives`): a supervisor that resumes a life
  which was merely stopped unlinks its streams, open bets included, though the reset
  is said to run between lives.
* `SeasonClockCrossesStop.cfg` (`ReadsStayWithinStop`): the reads of one tick advance the
  clock past the next stop when entries are seconds apart, though
  `agent/backtest/survival_season.py:1165-1171` says "without crossing into the next
  stop". `NoLookahead` therefore allows for the drift.
* `DeathWatchTakeover.cfg` (`TakeoverShown`): a later frame about another threshold
  overwrites the crossing that the Death Watch screen looks for; the store's fallback
  on the vitals, which is not modelled, may hide it.

Others were met while modelling. A crash between the settled row and the status
flip gives a bet two settled rows
(`agent/runtime/sandbox_settlement_poller.py:44-47` says exactly one;
`DuplicatesNeedCrashes` bounds them). `AdvanceToAdulthood` is two transactions, though
`script/RenouncePhase3MutableRoles.s.sol:83-85` calls it atomic (`MirrorNeverAhead` is
what remains true). `script/AdvanceToAdulthood.s.sol:74-75` asks for the
Apprenticeship launch first, but that script never moves the energy controller:
`ManualSync` is the step done by hand in the launch rehearsal. A promotion is lost if the process stops after the file was
renamed to applied and before the first snapshot, though
`agent/server/main.py:755-756` says that it never is (`PromotionLands` says exactly
when it is not). The comment behind `_classify`
(`contracts/AgentLifecycle.sol:584-586`) says the cap is bounded by the initial
breath; `initialize` and `deepenBreath` allow any cap, and `ClassifyFits` therefore
models the checked products. `agent/server/runner.py:503-508` says that the loop
honours a cancellation only between ticks; it does at any await
(`StopsBetweenTicks` states it), and the hard cancel announced for a stop that times
out does not happen: the task was cancelled once, and is left alone.
`agent/runtime/agent_runner.py` (about line 57) puts the approved row before the call;
`agent/server/main.py:1347-1372` calls first, so that a failed append leaves a
proposal which can be approved twice (`CarriedOutOnce`). The pending proposals
that `agent/data/sandbox_state.py:414-417` calls "not yet resolved" include approved
ones, which nobody removes. The event stream keeps its offset when a life is reset
(`agent/server/main.py:872`), so the rows of the next life are not told until the file
has outgrown it. `PressureMonitor`'s doc says that further ticks keep the counter
pinned; a tick below the threshold resets it. The emitter's doc promises dedup per
kind; the client has one number for all kinds. A frame emitted while the client
reconnects is lost if a newer one arrives on the socket before the next poll; a
client whose socket constructor throws polls for ever and never tries the socket
again; a poll under way delivers its frames after `stop`.
`agent/ops/settlement_reconciler.py` (about line 270) counts one attestation per
market and outcome; the ledger rejects a replay by signer and nonce.

## Proofs

Eight modules prove, for every value of the constants that satisfies the named
assumptions, what `PROJECT.json` lists under `theorems`: every safety property of
the passing runs, and the refinements. The assumptions `EnergyConstants`,
`LifecycleConstants`, `SupervisorConstants`, `LaunchConstants`, `AdapterConstants`,
`SandboxConstants`, `RunsAssumption`, `ControlPlaneAssumption`, `SeasonAssumption` and
`ReincarnationAssumption` are about types: a uint has a largest value, amounts are such
values, the zero address is no account, there is at least one life, counts are
natural numbers, a season has finitely many markets. Two say more:

* `StreamAssumption`: the thresholds of the Death Watch are distinct and none is zero, as
  in the tuple of `agent/dashboard_bridge/death_watch_emitter.py:169`.
* `SettlementAssumption`: a bet falls due after the nudges that separate ties. It is a
  property of the cached data: a market is entered by the middle of its price ledger,
  the settle lag is two hours and a nudge one second
  (`agent/backtest/survival_season.py:137-145`). It is what puts the last checkpoint of a
  schedule after its last decision (`DrainLast`): with more ties than seconds before the
  last due time the schedule would end on a decision whose bet no later tick settles.

*Ledger.* The inductive invariant is `LedgerTypeOK`, `BreathWithinCap`,
`AttestationAppliedOnce` and `UninitialisedInert` together. The cap alone is not
inductive: `Initialize` sets breath and cap afresh, and only the inertness of an
uninitialised ledger says that nothing was there before; the nonce count needs
the types of the two functions. The action properties `LockFreezesAdmin`,
`DeadBreathFrozen` and `DesperationSealsCap` follow from the invariant, one case per
action.

*Lifecycle.* `TypeOK`, `CounterMatchesLog`, `AtMostOneTombstone`, `StageWitnessed`, and
a strengthening that ties the current reading to the deepest one and an empty
epitaph to the living. With it each step maps to `Fall`, to `Death` or to a stutter
of `MortalLife`: a tombstone of the wired NFT exists only after death, so the one
that `Bury` appends is the first.

*Launch.* The mirror is kept behind the authority by what a broadcast in flight
presupposes (`InFlight`): the second transaction of a pair is alone only after the
first has landed. A late `initialize` would set the mirror back and undo a lock,
unless an uninitialised ledger had neither (`LateInitialize`). The agent's phase lags
(`AgentBehind`), and attempts under way mean a full count, which with
`MinCycles >= MinPressureCycles` is the chain's condition. That no transaction
reverts (`NothingReverts`) is not inductive for the head of the queue alone: the
invariant (`Approved`) is that the contracts accept everything still in flight, which
nobody disturbs, since the two of a pair go to different contracts and only the
operator, who works alone, moves owners and locks. `Accepted` uses the guards of the
contracts' own actions; `LaunchGuards.cfg` (of `MCLaunchScripts`) checks that it holds
exactly when the transaction is enabled. From the invariant each step is a step of
the ledger, of the phase manager, of both or of neither, so both specifications are
implemented and everything proved of the ledger holds of the launch.

*Sandbox.* Ticks: before the decision is written its number is beyond all on disk,
after it and until the counter moves it is the last (`TickInv`); the counter a boot
resumes from is beyond the largest number on disk. Bets: a bet is charged only after
its marker, a poll takes up only bets without one, and the poll of a dying agent has
every open bet before it (`BetInv`); `BetInv` is why a crash can drop a charge but not
repeat it. Rows: what the bets owe in settled rows beyond their markers, summed
(`Debt`), is at most the crashes and the half settled bet of the moment (`RowInv`); a
crash in the middle of a settlement turns that half into a paid duplicate. Money:
without a crash the bankroll is the initial one plus the credited profits less those
still on their way through the poll (`MoneyInv`).

*Adapter.* Refusals: each is a used nonce that the counter has already passed
(`RefusalInv`), so there are no more than used nonces. Charges: what a bet was charged
and what the node still holds of it are together no more than its abandoned
attempts and the one that is or was waited for (`ChargeInv`). Without the transaction in
the slot the count is not inductive, since it may land long after it was given up.
The ledger: an update draws at most `Attempts` nonces (`BudgetInv`), so what is mined is
always a call that `LedgerNext` allows (`LedgerMoves`), and the ledger's cap and its one
burn per attestation hold behind the adapter as well (`LedgerKept`).

*Start of a life.* The inductive invariant adds to the types: the index is the
manifest's or the next one, and then the manifest's life has died
(`IndexFollows`, from which the refinement follows); an adoption under way has its
claim on disk (`AdoptionClaimed`); bets left over wait for such a claim
(`GhostsClaimed`); and whatever weights exist, on disk, carried or the loop's own,
are complete (`NothingForgotten`). The last is what makes the memory properties
inductive: at each step at least one complete copy exists, or there is nothing to
remember.

*Control plane.* It implements the runner (`RunnerRefined`). The slot holds the newest
run or none, and a run that is being stopped or was given up is doomed (`SlotInv`):
only the run in the slot takes steps, so two loops never drain or save against each
other. Approvals: while the latest row of a proposal is pending, it was carried out
only as often as a row was lost (`ApprovalInv`). Queue: drained and queued together are
what was dispatched (`QueueInv`), which holds by counting positions of a sequence before
and after an append. Snapshot and list: a task that does not run has no loop past its
boot (`AtBoot`), so a new loop starts from the disk (`LoopInv`). Stream: what was sent is
the readable part of the log up to the offset (`StreamInv`), and filtering a
concatenation is concatenating the filtered parts.

*Seasons.* `Ordered` is the one sorted sequence of its set, and the schedule is a
recursion that the proofs unfold once per market (`ScheduleRecurses`): its decisions are
the markets in order, no stop up to a decision is later than that market's entry by more
than the nudges before it, and the last stop is a checkpoint at which all is due
(`Laid`). Within a life the decisions made are exactly those behind the tick
(`Underway`); between two lives what is left is the rest of the season's order
(`SeasonInv`), whence every market once. A survivor has passed the checkpoint, hence has
no open bet. No lesson of the season resolves, but for the drift and the nudges, after
the entry of a market still to be decided (`KnowInv`), hence no look-ahead; and what the
verdict's agent knows was learned in training, from markets entered earlier.

*Reincarnation.* From birth to the death bed the loop's breath is the chain's, and
positive between two ticks (`BreathInv`). Everything learned or advised is in the seed
between two seasons, in the carried weights between two lives, in the loop's weights
during a life (`LessonInv`).

*Death Watch.* A store that has heard frames in increasing order, none newer than its
last number, stays so whatever frame reaches it (`InOrder`), and so through a whole
backlog: nothing is heard twice or after a newer frame. One reading yields at most one
frame of a threshold, so after a sample, of which the first `ok` frames got out, the
tracker of each threshold is the side of its last frame on the tape (`TapeTellsTheSide`).
The poller that a lost socket starts outlives every attempt to reconnect (`SourceInv`):
only an open socket, or a frame on one, ends it, and an open socket has forgotten the
loss.

*Folds and recursion.* The provers cannot instantiate an operator, so the library's
induction theorems are of no use here. `FoldLemmas` states induction of sets instead
(`Induct`, `SeqInduct`: the set of those numbers or sequences that have the property),
and existence and uniqueness of functions defined by recursion (`Recursion`), both from
the least number of a nonempty set (`LeastNumber`). `Kept`, `Total`, the schedule and the
emitter's memory are recursive functions for that reason.

What is only model-checked: liveness (`DyingEnds`, `UpdateEnds`, `ApprovalReachesLoop`,
`AlwaysCatchesUp`), which is beyond the prover.

## What is not modelled

* Authentication, CORS, request parsing, read-only routes; `BacktestRegistry`, whose
  tasks share nothing with the loop.
* Storms, reflections and epitaph texts: they observe, and move no money.
* Power loss. A process crash loses no flushed write; a power loss can, because
  appends are flushed and the snapshot is fsynced.
* Floating point, signal engines, the sizer beyond "never more than breath or
  bankroll". An amount that rounds to no wei is the 0 of `RhChainAdapter`.
* The adapter's `kill_and_mint_tombstone` step by step, another process signing
  with the same account, and `build_and_sign_settlement`, which the loop never calls.
* The settlement reconciler, a pure comparison of two lists; the LLM budget and
  breaker, used by one caller at a time.
* Vitals on the dashboard, activation events, rendering of any kind.
* Memory bank, IPFS pinning, data feeds, LLM clients, training and simulation,
  deployment, the submission manifest: I/O, arithmetic or formatting without an
  order that could go wrong.

The largest files of the repository are of the last two kinds, or consist mostly of
prompts, statistics and reports around the logic modelled here, so the definitions
translate a small share of its lines.

## Plan

Done: the modules above, their runs, and proofs of every safety property that the
passing runs check.

What could follow, in this order:

1. The vitals emitter beside the Death Watch emitter, and the store's fallback on it.
2. The settlement reconciler on the ledger and the adapter: every gap reported.
3. A file system whose unsynced appends may be lost, under `SandboxLife`.
4. `SandboxLife`'s breath update as an abstract specification that `RhChainAdapter`
   implements.
