---------------------------- MODULE SurvivalSeason ----------------------------
(***************************************************************************)
(* The backtest's survival season (agent/backtest/survival_season.py): the *)
(* markets of a season in order of entry, a schedule of stops to which the *)
(* clock is pinned tick after tick, and lives that follow one another over *)
(* what the dead left undecided.  A life is one run() of the sandbox loop  *)
(* over cached markets, with the deathbed tribute and the periodic tithe   *)
(* that only the backtest enables.                                         *)
(*                                                                         *)
(* Times are seconds.  Weights and the EMA learner are the sets of lessons *)
(* (season, market) they contain; the amounts won and lost are the data    *)
(* the properties need.  The storm percept, reflections and the recorder   *)
(* only observe and are left out.                                          *)
(***************************************************************************)
EXTENDS Integers, FiniteSets, FiniteSetsExt, Sequences, SequencesExt,
        FirstOrderFolds

CONSTANTS
  Markets,          \* market ids: integers, ordered as the strings are
  Timings,          \* when a market is entered, due by its end date, resolved
  Win, Loss,        \* what a bet earns or costs
  LossMultiplier,   \* a loss hits breath harder than it hits the bankroll
  InitialBreath, InitialBankroll,
  TitheEvery, TitheAmount, TitheBreath,
  TributeMin

Nudge == 1      \* _TIED_DECISION_NUDGE
Margin == 1     \* _SETTLE_CHECKPOINT_MARGIN
Advance == 1    \* DEFAULT_WITHIN_TICK_ADVANCE

ASSUME SeasonAssumption ==
  /\ Markets \subseteq Nat \ {0} /\ IsFiniteSet(Markets)
  /\ Timings \subseteq [entry : Nat, expected : Nat, resolution : Nat]
  /\ {Win, Loss, LossMultiplier, InitialBreath, TitheEvery, TributeMin}
       \subseteq Nat \ {0}
  /\ {InitialBankroll, TitheAmount, TitheBreath} \subseteq Nat

\* Of the cached markets: a bet falls due after the nudges that separate ties.
\* A market is entered by the middle of its price ledger (_entry_asof), and the
\* settle lag is two hours, far more seconds than a season has markets.
ASSUME SettlementAssumption ==
  \A t \in Timings :
    t.entry + Cardinality(Markets) <= Max({t.expected, t.resolution})

VARIABLES
  timing,     \* the cached snapshots: timing[m]
  \* the season
  rules,      \* the arguments: lives, learning, tribute, tithe
  season,     \* seasons begun, to tell lessons apart
  remaining,  \* markets no life has decided yet
  lives,      \* lives lived
  carry,      \* carry_weights
  inner,      \* the shared EMA learner
  \* the life
  stops,      \* schedule.stops
  tick,       \* the loop's tick_counter, from 1
  step,       \* where the loop, or the season around it, is
  open,       \* open bets in the order they were placed
  weights, breath, bankroll,   \* the loop's memory
  chain,      \* breath in the chain adapter
  seen,       \* _markets_since_start
  \* history
  read,       \* the last value of the clock
  decided,    \* the markets decided in this season, in order
  learned     \* every lesson learned in a season that learns

seasonVars == <<rules, season, remaining, lives, carry, inner>>
lifeVars == <<stops, tick, open, weights, breath, bankroll, chain, seen>>
allSeasonVars == <<timing, seasonVars, lifeVars, step, read, decided, learned>>

-----------------------------------------------------------------------------
(* The schedule *)

Entry(m) == timing[m].entry

\* _due_settle_ts: the poller's gate and the settlement client's, both passed.
Due(m) == Max({timing[m].expected, timing[m].resolution})

Before(m, n) == Entry(m) < Entry(n) \/ (Entry(m) = Entry(n) /\ m < n)

Ordered(rows) ==
  [i \in 1..Cardinality(rows) |->
     CHOOSE m \in rows : Cardinality({n \in rows : Before(n, m)}) = i - 1]

\* Pass 1: every market has a decision stop; a tied one is nudged forward.
DecisionTimes(order) ==
  LET at[i \in 1..Len(order)] ==
        IF i > 1 /\ Entry(order[i]) <= at[i - 1] THEN at[i - 1] + Nudge
        ELSE Entry(order[i])
  IN at

Stop(ts, m) == [ts |-> ts, market |-> m]

\* Mutant: the season ends at its last decision.
DrainUnlessLast(order, at, i) ==
  LET gap == {t \in {Due(order[j]) : j \in 1..i} : at[i] < t /\ t < at[i + 1]}
  IN IF i = Len(order) \/ gap = {} \/ Max(gap) + Margin >= at[i + 1]
     THEN <<>> ELSE <<Stop(Max(gap) + Margin, 0)>>

\* Mutant: a checkpoint waits for every bet placed so far.
DrainUnclamped(order, at, i) ==
  <<Stop(Max({at[i]} \cup {Due(order[j]) : j \in 1..i}) + Margin, 0)>>

\* Pass 2: the settle-only stop after decision i, if any; it never reaches the
\* next decision.  The last one drains every bet.
Drain(order, at, i) ==
  LET due == {Due(order[j]) : j \in 1..i}
      gap == {t \in due : at[i] < t /\ t < at[i + 1]}
      all == {Due(order[j]) : j \in 1..Len(order)}
  IN IF i < Len(order)
     THEN IF gap = {} \/ Max(gap) + Margin >= at[i + 1] THEN <<>>
          ELSE <<Stop(Max(gap) + Margin, 0)>>
     ELSE IF Max(all) + Margin <= at[i] THEN <<>>
          ELSE <<Stop(Max(all) + Margin, 0)>>

BuildSchedule(rows) ==
  LET order == Ordered(rows)
      at == DecisionTimes(order)
      upTo[i \in 0..Len(order)] ==
        IF i = 0 THEN <<>>
        ELSE upTo[i - 1] \o <<Stop(at[i], order[i])>> \o Drain(order, at, i)
  IN upTo[Len(order)]

\* _ScheduleDrivingClock.now: the first read of tick t.
Pinned(t) == stops[Min({t, Len(stops)})].ts

-----------------------------------------------------------------------------
(* The season's driver *)

NoRules == [lives |-> 0, learning |-> FALSE, tribute |-> FALSE, tithe |-> FALSE]

SeasonInit ==
  /\ timing \in [Markets -> Timings]
  /\ rules = NoRules /\ season = 0 /\ remaining = {} /\ lives = 0
  /\ carry = {} /\ inner = {}
  /\ stops = <<>> /\ tick = 1 /\ open = <<>> /\ weights = {}
  /\ breath = InitialBreath /\ chain = InitialBreath
  /\ bankroll = InitialBankroll /\ seen = 0
  /\ step = "idle" /\ read = 0 /\ decided = <<>> /\ learned = {}

\* run_survival_season(rows, seed, ...)
BeginSeason(rows, seed, r) ==
  /\ step = "idle"
  /\ rules' = r /\ season' = season + 1
  /\ remaining' = rows /\ lives' = 0 /\ carry' = seed
  /\ decided' = <<>> /\ step' = "between"
  /\ UNCHANGED <<timing, inner, lifeVars, read, learned>>

\* Mutant: every life starts from the seed's first weights.
BeginLifeUntaught ==
  /\ step = "between"
  /\ stops' = BuildSchedule(remaining) /\ tick' = 1
  /\ open' = <<>> /\ weights' = {}
  /\ breath' = InitialBreath /\ chain' = InitialBreath
  /\ bankroll' = InitialBankroll /\ seen' = 0
  /\ step' = "rest"
  /\ UNCHANGED <<timing, seasonVars, read, decided, learned>>

\* The while loop's body: a schedule of what remains, and a loop with a fresh
\* state directory and chain adapter and the weights of the one before.
BeginLife ==
  /\ step = "between"
  /\ stops' = BuildSchedule(remaining) /\ tick' = 1
  /\ open' = <<>> /\ weights' = carry
  /\ breath' = InitialBreath /\ chain' = InitialBreath
  /\ bankroll' = InitialBankroll /\ seen' = 0
  /\ step' = "rest"
  /\ UNCHANGED <<timing, seasonVars, read, decided, learned>>

Consumed == {stops[t].market : t \in 1..(tick - 1)}

\* Mutant: the market of the tick that killed is left for the next life.
EndLifeRetry ==
  LET died == step = "dead"
      kept == {stops[t].market : t \in 1..(tick - 2)}
  IN /\ died \/ (step = "rest" /\ tick > Len(stops))
     /\ lives' = lives + 1 /\ carry' = weights
     /\ remaining' = remaining \ IF died THEN kept ELSE Consumed
     /\ step' = IF died /\ remaining' # {} /\ lives' < rules.lives
                THEN "between" ELSE IF died THEN "lost" ELSE "survived"
     /\ UNCHANGED <<timing, rules, season, inner, lifeVars, read, decided,
                    learned>>

\* What it decided is consumed, dead or alive; the dead are followed by another
\* life while markets and lives last.
EndLife ==
  LET died == step = "dead"
  IN /\ died \/ (step = "rest" /\ tick > Len(stops))
     /\ lives' = lives + 1 /\ carry' = weights
     /\ remaining' = remaining \ Consumed
     /\ step' = IF died /\ remaining' # {} /\ lives' < rules.lives
                THEN "between" ELSE IF died THEN "lost" ELSE "survived"
     /\ UNCHANGED <<timing, rules, season, inner, lifeVars, read, decided,
                    learned>>

-----------------------------------------------------------------------------
(* A tick *)

BreathMove(pnl) == IF pnl < 0 THEN pnl * LossMultiplier ELSE pnl

\* Mutant: the frozen pass learns.
SettleLearning(ms, pnl) ==
  LET lessons == {<<season, m>> : m \in ToSet(ms)}
  IN /\ bankroll' = FoldLeft(LAMBDA b, m : b + pnl[m], bankroll, ms)
     /\ chain' = FoldLeft(LAMBDA b, m : Max({0, b + BreathMove(pnl[m])}),
                          chain, ms)
     /\ weights' = weights \cup lessons /\ inner' = inner \cup lessons
     /\ learned' = learned \cup lessons

\* The bets of the sequence ms settle at these profits: bankroll and breath
\* move, and the learner steps unless it is frozen.
Settle(ms, pnl) ==
  LET lessons == {<<season, m>> : m \in ToSet(ms)}
  IN /\ bankroll' = FoldLeft(LAMBDA b, m : b + pnl[m], bankroll, ms)
     /\ chain' = FoldLeft(LAMBDA b, m : Max({0, b + BreathMove(pnl[m])}),
                          chain, ms)
     /\ IF rules.learning
        THEN /\ weights' = weights \cup lessons /\ inner' = inner \cup lessons
             /\ learned' = learned \cup lessons
        ELSE UNCHANGED <<weights, inner, learned>>

Profits(ms) == [ToSet(ms) -> {Win, 0 - Loss}]

\* The settlement client answers for bet i of the sequence if its market has
\* resolved by the clock it reads, one Advance after the one before it.
Resolved(bets, now) ==
  {bets[i] : i \in {j \in 1..Len(bets) :
                      timing[bets[j]].resolution <= now + j * Advance}}

\* Steps 1 and 2: the guard, the tick and the poller read the clock, then the
\* bets due settle; breath is read back.
Poll ==
  /\ step = "rest" /\ tick <= Len(stops)
  /\ LET now == Pinned(tick) + 2 * Advance
         due == Kept(open, {m \in Markets : timing[m].expected < now})
         done == Resolved(due, now)
         settled == Kept(due, done)
     IN /\ \E pnl \in Profits(settled) : Settle(settled, pnl)
        /\ open' = Kept(open, Markets \ done)
        /\ read' = now + Len(due) * Advance
  /\ breath' = chain' /\ step' = "polled"
  /\ UNCHANGED <<timing, rules, season, remaining, lives, carry, stops, tick,
                 seen, decided>>

\* Steps 3 to 7: the stop's market, if it has one, is decided, a bet needing
\* breath and money; the snapshot advances the tick counter.
Decide(bets) ==
  LET m == stops[tick].market
  IN /\ step = "polled"
     /\ bets => m # 0 /\ breath > 0 /\ bankroll > 0
     /\ open' = IF bets THEN Append(open, m) ELSE open
     /\ read' = IF bets THEN read + Advance ELSE read
     /\ decided' = IF m = 0 THEN decided ELSE Append(decided, m)
     /\ seen' = IF m = 0 THEN seen ELSE seen + 1
     /\ tick' = tick + 1
     /\ step' = IF rules.tithe /\ m # 0 /\ seen' % TitheEvery = 0
                THEN "tithed" ELSE "judged"
     /\ UNCHANGED <<timing, seasonVars, stops, weights, breath, bankroll, chain,
                    learned>>

\* Mutant: rent is paid after the death check.
TitheLate ==
  /\ step = "tithed" /\ step' = "rest"
  /\ IF bankroll >= TitheAmount
     THEN bankroll' = bankroll - TitheAmount /\ UNCHANGED <<chain, breath>>
     ELSE /\ chain' = Max({0, chain + BreathMove(0 - TitheBreath)}) /\ breath' = chain'
          /\ UNCHANGED bankroll
  /\ UNCHANGED <<timing, seasonVars, stops, tick, open, weights, seen, read,
                 decided, learned>>

\* Step 7.5, _attempt_tithe: cash if there is enough, else breath, the
\* cost amplified like any loss.
Tithe ==
  /\ step = "tithed" /\ step' = "judged"
  /\ IF bankroll >= TitheAmount
     THEN bankroll' = bankroll - TitheAmount /\ UNCHANGED <<chain, breath>>
     ELSE /\ chain' = Max({0, chain + BreathMove(0 - TitheBreath)}) /\ breath' = chain'
          /\ UNCHANGED bankroll
  /\ UNCHANGED <<timing, seasonVars, stops, tick, open, weights, seen, read,
                 decided, learned>>

\* Step 8: breath is left.
Live ==
  /\ step = "judged" /\ breath > 0 /\ step' = "rest"
  /\ UNCHANGED <<timing, seasonVars, lifeVars, read, decided, learned>>

\* _attempt_tribute: an offer within the bankroll is kept, granted or not; a
\* grant goes through the chain.
Tribute(amount, granted) ==
  /\ step = "judged" /\ breath = 0 /\ rules.tribute
  /\ amount >= TributeMin /\ amount <= bankroll
  /\ bankroll' = bankroll - amount
  /\ IF granted THEN chain' = InitialBreath /\ breath' = InitialBreath
     ELSE UNCHANGED <<chain, breath>>
  /\ step' = IF granted THEN "rest" ELSE "dying"
  /\ UNCHANGED <<timing, seasonVars, stops, tick, open, weights, seen, read,
                 decided, learned>>

\* No policy, or it stays silent or offers what the altar refuses.
Silence ==
  /\ step = "judged" /\ breath = 0 /\ step' = "dying"
  /\ UNCHANGED <<timing, seasonVars, lifeVars, read, decided, learned>>

\* _die: every open bet settles if its market has resolved by now, and is void
\* if not.  The tick counter has moved on, so the clock is at the next stop.
Die ==
  /\ step = "dying" /\ step' = "dead"
  /\ LET now == Pinned(tick)
         done == Resolved(open, now)
         settled == Kept(open, done)
     IN /\ \E pnl \in Profits(settled) : Settle(settled, pnl)
        /\ read' = IF open = <<>> THEN read ELSE now + Len(open) * Advance
  /\ open' = <<>>
  /\ UNCHANGED <<timing, rules, season, remaining, lives, carry, stops, tick,
                 breath, seen, decided>>

LifeNext ==
  \/ BeginLife \/ EndLife
  \/ Poll \/ Tithe \/ Live \/ Silence \/ Die
  \/ \E b \in BOOLEAN : Decide(b)
  \/ \E amount \in 1..Max({0, bankroll}), b \in BOOLEAN : Tribute(amount, b)

-----------------------------------------------------------------------------
(* Properties *)

SeasonOver == step \in {"lost", "survived"}

\* Between two ticks a living agent has breath, and its memory of it is the
\* chain's: no loss, rent or grant leaves a life that should be over, or one
\* whose breath evaporates at the next poll (_tick steps 2, 7.5 and 8).
LivingHaveBreath == step = "rest" => breath = chain /\ breath > 0

\* The season's decisions, over all its lives, follow the markets in order of
\* entry without a gap or a repetition, ties included ("NEVER dropped",
\* build_survival_schedule; "never re-decided", run_survival_season).
DecidedInOrder(rows) == IsPrefix(decided, Ordered(rows))

\* A life that survives its schedule has decided every market that was left and
\* settled every bet (the final drain, codex R6).
SurvivorsAreDrained == step = "survived" => remaining = {} /\ open = <<>>

\* The seconds by which reads of the clock within a tick, and nudges, may put a
\* settlement ahead of a decision.
Slack == 2 * Cardinality(Markets) + 4

\* A decision draws on no market of its season that resolves after it: the
\* schedule lets nothing settle early, a death included ("lookahead",
\* build_survival_schedule).
NoLookahead ==
  step \in {"polled", "rest"} /\ tick <= Len(stops) /\ stops[tick].market # 0 =>
    \A lesson \in weights :
      lesson[1] = season /\ lesson[2] # 0 =>
        timing[lesson[2]].resolution <= Entry(stops[tick].market) + Slack

\* "Successive reads inside one tick ... without crossing into the next stop"
\* (_ScheduleDrivingClock).
ReadsStayWithinStop ==
  step = "polled" /\ tick < Len(stops) => read < Pinned(tick + 1)

================================================================================
