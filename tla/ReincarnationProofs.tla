-------------------------- MODULE ReincarnationProofs --------------------------
(***************************************************************************)
(* Proofs about the reincarnation experiments, for any markets, timings,   *)
(* designs and numbers of seasons and lives.                               *)
(*                                                                         *)
(* A living agent has breath, and experience survives every death and      *)
(* every season's end.  Then the schedule: markets sorted by entry and     *)
(* nudged apart, stops that never overtake a decision, a last one that     *)
(* drains every bet.  From what BuildSchedule lays out, by induction over  *)
(* its decisions, follow what is true of a season over all its lives: it   *)
(* decides every market once and in order, its survivors leave nothing     *)
(* open, no lesson settles early and the verdict is on unseen markets.     *)
(***************************************************************************)
EXTENDS Reincarnation, FoldLemmas, FiniteSetTheorems, SequenceTheorems, TLAPS

-----------------------------------------------------------------------------
(* Breath *)

\* From birth to the death bed the loop's breath is the chain's.
BreathInv ==
  /\ step \in {"rest", "polled", "tithed", "judged"} => breath = chain
  /\ step = "rest" => breath > 0

\* Every step keeps the breath and its memory together.
LEMMA BreathStep ==
  ASSUME BreathInv, [Next]_vars
  PROVE  BreathInv'
<1> USE DEF seasonVars, lifeVars, allSeasonVars
<1>1. InitialBreath > 0
  BY SeasonAssumption
<1>2. CASE StartSeason \/ StartVerdict \/ Conclude \/ (\E b \in BOOLEAN : CarrySeed(b))
  <2>1. step' \in {"between", "idle"} \/ UNCHANGED <<step, breath, chain>>
    BY <1>2 DEF StartSeason, StartVerdict, BeginSeason, Conclude, CarrySeed
  <2> QED BY <2>1 DEF BreathInv
<1>3. CASE LifeNext
  <2>1. CASE BeginLife
    BY <2>1, <1>1 DEF BeginLife, BreathInv
  <2>2. CASE EndLife \/ Die \/ Silence
    <3>1. step' \in {"between", "lost", "survived", "dead", "dying"}
      BY <2>2 DEF EndLife, Die, Silence
    <3> QED BY <3>1 DEF BreathInv
  <2>3. CASE Poll
    <3>1. breath' = chain' /\ step' = "polled"
      BY <2>3 DEF Poll
    <3> QED BY <3>1 DEF BreathInv
  <2>4. CASE \E b \in BOOLEAN : Decide(b)
    <3>1. /\ step = "polled" /\ step' \in {"tithed", "judged"}
          /\ UNCHANGED <<breath, chain>>
      BY <2>4 DEF Decide
    <3> QED BY <3>1 DEF BreathInv
  <2>5. CASE Tithe
    <3>1. step = "tithed" /\ step' = "judged"
      BY <2>5 DEF Tithe
    <3>2. UNCHANGED <<breath, chain>> \/ breath' = chain'
      BY <2>5 DEF Tithe
    <3> QED BY <3>1, <3>2 DEF BreathInv
  <2>6. CASE Live
    BY <2>6 DEF Live, BreathInv
  <2>7. ASSUME NEW amount, NEW granted, Tribute(amount, granted)
        PROVE  BreathInv'
    BY <2>7, <1>1 DEF Tribute, BreathInv
  <2> QED BY <1>3, <2>1, <2>2, <2>3, <2>4, <2>5, <2>6, <2>7 DEF LifeNext
<1>4. CASE UNCHANGED vars
  BY <1>4 DEF vars, BreathInv
<1> QED BY <1>2, <1>3, <1>4 DEF Next

\* Between two ticks a living agent has breath, and remembers what the chain
\* says: polls, rent, tributes and deaths leave no life that should be over.
THEOREM LivingBreathe == Spec => []LivingHaveBreath
<1>1. Init => BreathInv
  BY DEF Init, SeasonInit, BreathInv
<1>2. BreathInv /\ [Next]_vars => BreathInv'
  BY BreathStep
<1>3. BreathInv => LivingHaveBreath
  BY DEF BreathInv, LivingHaveBreath
<1> QED BY <1>1, <1>2, <1>3, PTL DEF Spec

-----------------------------------------------------------------------------
(* Lessons *)

\* Everything the agent should know by now.
Experience == learned \cup {<<s, 0>> : s \in advised}

\* Where the experience is kept: in the seed between two seasons, in the
\* carried weights between two lives, in the loop's weights during a life.
LessonInv ==
  /\ inner = learned
  /\ step = "idle" => seed = Experience
  /\ step \in {"between", "lost", "survived"} => carry = Experience
  /\ step \notin {"idle", "between"} => weights = Experience

\* A step of a life that settles nothing.
LEMMA LessonsUntouched ==
  ASSUME LessonInv, UNCHANGED <<inner, learned, advised, seed, carry, weights>>,
         \/ step' = step
         \/ /\ step \notin {"idle", "between", "lost", "survived"}
            /\ step' \notin {"idle", "between", "lost", "survived"}
  PROVE  LessonInv'
BY DEF LessonInv, Experience

\* Settlements teach the loop, the shared learner and the record alike.
LEMMA LessonsLearned ==
  ASSUME LessonInv, NEW ms, NEW pnl, Settle(ms, pnl),
         UNCHANGED <<advised, seed, carry>>,
         step \notin {"idle", "between", "lost", "survived"},
         step' \notin {"idle", "between", "lost", "survived"}
  PROVE  LessonInv'
<1> DEFINE lessons == {<<season, m>> : m \in ToSet(ms)}
<1>1. CASE rules.learning
  <2>1. /\ weights' = weights \cup lessons /\ inner' = inner \cup lessons
        /\ learned' = learned \cup lessons
    BY <1>1 DEF Settle
  <2> HIDE DEF lessons
  <2> QED BY <2>1 DEF LessonInv, Experience
<1>2. CASE ~rules.learning
  <2>1. UNCHANGED <<weights, inner, learned>>
    BY <1>2 DEF Settle
  <2> QED BY <2>1, LessonsUntouched
<1> QED BY <1>1, <1>2

\* Every step keeps the experience where it belongs.
LEMMA LessonStep ==
  ASSUME LessonInv, [Next]_vars
  PROVE  LessonInv'
<1> USE DEF seasonVars, lifeVars, allSeasonVars
<1>1. CASE StartSeason \/ StartVerdict
  <2>1. /\ step = "idle" /\ step' = "between" /\ carry' = seed
        /\ UNCHANGED <<inner, learned, advised, seed>>
    BY <1>1 DEF StartSeason, StartVerdict, BeginSeason
  <2> QED BY <2>1 DEF LessonInv, Experience
<1>2. ASSUME NEW b \in BOOLEAN, CarrySeed(b)
      PROVE  LessonInv'
  <2>1. /\ step \in {"lost", "survived"} /\ step' = "idle"
        /\ UNCHANGED <<inner, learned>>
    BY <1>2 DEF CarrySeed, SeasonOver
  <2>2. CASE b
    <3>1. seed' = carry \cup {<<season, 0>>} /\ advised' = advised \cup {season}
      BY <1>2, <2>2 DEF CarrySeed
    <3> QED BY <2>1, <3>1 DEF LessonInv, Experience
  <2>3. CASE ~b
    <3>1. seed' = carry /\ advised' = advised
      BY <1>2, <2>3 DEF CarrySeed
    <3> QED BY <2>1, <3>1 DEF LessonInv, Experience
  <2> QED BY <2>2, <2>3
<1>3. CASE Conclude
  BY <1>3, LessonsUntouched DEF Conclude
<1>4. CASE LifeNext /\ UNCHANGED <<design, stage, seed, advised>>
  <2>1. CASE BeginLife
    <3>1. /\ step = "between" /\ step' = "rest" /\ weights' = carry
          /\ UNCHANGED <<inner, learned, advised, seed>>
      BY <1>4, <2>1 DEF BeginLife
    <3> QED BY <3>1 DEF LessonInv, Experience
  <2>2. CASE EndLife
    <3>1. /\ step \in {"dead", "rest"} /\ step' \in {"between", "lost", "survived"}
          /\ carry' = weights /\ UNCHANGED <<inner, learned, advised, seed, weights>>
      BY <1>4, <2>2 DEF EndLife
    <3> QED BY <3>1 DEF LessonInv, Experience
  <2>3. CASE Poll
    <3>1. /\ step = "rest" /\ step' = "polled" /\ UNCHANGED <<advised, seed, carry>>
          /\ \E ms, pnl : Settle(ms, pnl)
      BY <1>4, <2>3 DEF Poll
    <3> QED BY <3>1, LessonsLearned
  <2>4. CASE Die
    <3>1. /\ step = "dying" /\ step' = "dead" /\ UNCHANGED <<advised, seed, carry>>
          /\ \E ms, pnl : Settle(ms, pnl)
      BY <1>4, <2>4 DEF Die
    <3> QED BY <3>1, LessonsLearned
  <2>5. CASE Tithe \/ Live \/ Silence \/ (\E b \in BOOLEAN : Decide(b))
             \/ (\E amount \in 1..Max({0, bankroll}), b \in BOOLEAN : Tribute(amount, b))
    <3>1. /\ step \in {"tithed", "judged", "polled"}
          /\ step' \in {"rest", "tithed", "judged", "dying"}
          /\ UNCHANGED <<inner, learned, advised, seed, carry, weights>>
      BY <1>4, <2>5 DEF Tithe, Live, Silence, Decide, Tribute
    <3> QED BY <3>1, LessonsUntouched
  <2> QED BY <1>4, <2>1, <2>2, <2>3, <2>4, <2>5 DEF LifeNext
<1>5. CASE UNCHANGED vars
  BY <1>5, LessonsUntouched DEF vars
<1> QED BY <1>1, <1>2, <1>3, <1>4, <1>5 DEF Next

\* The agent carries its experience: whatever deaths and season ends lie
\* between, a living agent's weights hold every lesson learned and every delta
\* advised so far (run_survival_season, run_reincarnation_export).
THEOREM ExperienceKept == Spec => []LessonsKept
<1>1. Init => LessonInv
  BY DEF Init, SeasonInit, LessonInv, Experience
<1>2. LessonInv /\ [Next]_vars => LessonInv'
  BY LessonStep
<1>3. LessonInv => LessonsKept
  BY DEF LessonInv, LessonsKept, Living, Experience
<1> QED BY <1>1, <1>2, <1>3, PTL DEF Spec

-----------------------------------------------------------------------------
(* The order of entry *)

\* timing is a function of the markets: the cached snapshots never change.
Cached == timing \in [Markets -> Timings]

\* Times are numbers.
LEMMA TimesAreNumbers ==
  ASSUME Cached, NEW m \in Markets
  PROVE  Entry(m) \in Nat /\ timing[m].expected \in Nat /\ timing[m].resolution \in Nat
<1>1. timing[m] \in [entry : Nat, expected : Nat, resolution : Nat]
  BY SeasonAssumption DEF Cached
<1> QED BY <1>1 DEF Entry

\* Before is a strict order on the markets, and ties are broken by the id.
LEMMA BeforeIsOrder ==
  ASSUME Cached
  PROVE  /\ \A m \in Markets : ~Before(m, m)
         /\ \A m, n, k \in Markets : Before(m, n) /\ Before(n, k) => Before(m, k)
         /\ \A m, n \in Markets : m # n => Before(m, n) \/ Before(n, m)
<1>1. \A m \in Markets : m \in Nat /\ Entry(m) \in Nat
  BY TimesAreNumbers, SeasonAssumption
<1> QED BY <1>1 DEF Before

\* s lists S in the order of entry.
SortedOf(s, S) ==
  /\ s \in Seq(S)
  /\ \A m \in S : \E i \in 1..Len(s) : s[i] = m
  /\ \A i, j \in 1..Len(s) : i < j => Before(s[i], s[j])

\* Of some markets one is entered last.
LEMMA LatestExists ==
  ASSUME Cached, NEW S \in SUBSET Markets, S # {}
  PROVE  \E m \in S : \A n \in S : n # m => Before(n, m)
<1> DEFINE T == {k \in Nat : \A R \in SUBSET Markets :
                   Cardinality(R) = k /\ R # {} =>
                     \E m \in R : \A n \in R : n # m => Before(n, m)}
<1>1. \A R \in SUBSET Markets : IsFiniteSet(R) /\ Cardinality(R) \in Nat
  BY SeasonAssumption, FS_Subset, FS_CardinalityType
<1>2. 0 \in T
  BY <1>1, FS_EmptySet
<1>3. ASSUME NEW k \in Nat, k \in T
      PROVE  k + 1 \in T
  <2> SUFFICES ASSUME NEW R \in SUBSET Markets, Cardinality(R) = k + 1
               PROVE  \E m \in R : \A n \in R : n # m => Before(n, m)
    OBVIOUS
  <2>1. PICK x \in R : TRUE
    BY <1>1, FS_EmptySet
  <2>2. R \ {x} \in SUBSET Markets /\ Cardinality(R \ {x}) = k
    BY <1>1, <2>1, FS_RemoveElement
  <2>3. CASE R \ {x} = {}
    BY <2>1, <2>3
  <2>4. CASE R \ {x} # {}
    <3>1. PICK m \in R \ {x} : \A n \in R \ {x} : n # m => Before(n, m)
      BY <1>3, <2>2, <2>4
    <3>2. CASE Before(x, m)
      BY <3>1, <3>2
    <3>3. CASE ~Before(x, m)
      <4>1. Before(m, x)
        BY <2>1, <3>1, <3>3, BeforeIsOrder
      <4>2. \A n \in R : n # x => Before(n, x)
        BY <3>1, <4>1, BeforeIsOrder
      <4> QED BY <2>1, <4>2
    <3> QED BY <3>2, <3>3
  <2> QED BY <2>3, <2>4
<1>4. \A k \in Nat : k \in T
  <2> HIDE DEF T
  <2> QED BY <1>2, <1>3, Induct
<1> QED BY <1>1, <1>4

\* A list in the order of entry exists.
LEMMA SortedExists ==
  ASSUME Cached, NEW S \in SUBSET Markets
  PROVE  \E s : SortedOf(s, S)
<1> DEFINE T == {k \in Nat : \A R \in SUBSET Markets :
                   Cardinality(R) = k => \E s : SortedOf(s, R)}
<1>1. \A R \in SUBSET Markets : IsFiniteSet(R) /\ Cardinality(R) \in Nat
  BY SeasonAssumption, FS_Subset, FS_CardinalityType
<1>2. 0 \in T
  <2>1. SortedOf(<<>>, {})
    BY DEF SortedOf
  <2> QED BY <1>1, <2>1, FS_EmptySet
<1>3. ASSUME NEW k \in Nat, k \in T
      PROVE  k + 1 \in T
  <2> SUFFICES ASSUME NEW R \in SUBSET Markets, Cardinality(R) = k + 1
               PROVE  \E s : SortedOf(s, R)
    OBVIOUS
  <2>1. R # {}
    BY FS_EmptySet
  <2>2. PICK x \in R : \A n \in R : n # x => Before(n, x)
    BY <2>1, LatestExists
  <2>3. R \ {x} \in SUBSET Markets /\ Cardinality(R \ {x}) = k
    BY <1>1, <2>2, FS_RemoveElement
  <2>4. PICK s : SortedOf(s, R \ {x})
    BY <1>3, <2>3
  <2> DEFINE t == Append(s, x)
  <2>5. s \in Seq(R \ {x}) /\ Len(s) \in Nat /\ \A i \in 1..Len(s) : s[i] \in R \ {x}
    BY <2>4 DEF SortedOf
  <2>6. /\ t \in Seq(R) /\ Len(t) = Len(s) + 1 /\ t[Len(s) + 1] = x
        /\ \A i \in 1..Len(s) : t[i] = s[i]
    <3>1. s \in Seq(R)
      BY <2>5
    <3> QED BY <2>5, <3>1
  <2> HIDE DEF t
  <2>7. \A m \in R : \E i \in 1..Len(t) : t[i] = m
    <3> SUFFICES ASSUME NEW m \in R
                 PROVE  \E i \in 1..Len(t) : t[i] = m
      OBVIOUS
    <3>1. CASE m = x
      BY <2>5, <2>6, <3>1
    <3>2. CASE m # x
      <4>1. PICK i \in 1..Len(s) : s[i] = m
        BY <2>4, <3>2 DEF SortedOf
      <4> QED BY <2>5, <2>6, <4>1
    <3> QED BY <3>1, <3>2
  <2>8. ASSUME NEW i \in 1..Len(t), NEW j \in 1..Len(t), i < j
        PROVE  Before(t[i], t[j])
    <3>1. i \in 1..Len(s) /\ t[i] = s[i] /\ t[i] \in R \ {x}
      BY <2>5, <2>6, <2>8
    <3>2. CASE j = Len(s) + 1
      BY <2>2, <2>6, <3>1, <3>2
    <3>3. CASE j \in 1..Len(s)
      BY <2>4, <2>6, <2>8, <3>1, <3>3 DEF SortedOf
    <3> QED BY <2>5, <2>6, <3>2, <3>3
  <2> QED BY <2>6, <2>7, <2>8 DEF SortedOf
<1>4. \A k \in Nat : k \in T
  <2> HIDE DEF T
  <2> QED BY <1>2, <1>3, Induct
<1> QED BY <1>1, <1>4

\* There is one such list: it agrees with any other from the start.
LEMMA SortedAgree ==
  ASSUME Cached, NEW S \in SUBSET Markets, NEW s, NEW t, SortedOf(s, S), SortedOf(t, S)
  PROVE  \A i \in 1..Len(s) : i \in 1..Len(t) /\ t[i] = s[i]
<1> DEFINE B == {i \in 1..Len(s) : ~(i \in 1..Len(t) /\ t[i] = s[i])}
<1>1. /\ Len(s) \in Nat /\ Len(t) \in Nat
      /\ \A i \in 1..Len(s) : s[i] \in S
      /\ \A i \in 1..Len(t) : t[i] \in S
  BY DEF SortedOf
<1>2. B = {}
  <2> SUFFICES ASSUME B # {}
               PROVE  FALSE
    OBVIOUS
  <2>1. B \subseteq Nat
    OBVIOUS
  <2>2. PICK i \in B : \A j \in B : i <= j
    BY <2>1, LeastNumber
  <2>3. \A j \in 1..Len(s) : j < i => j \in 1..Len(t) /\ t[j] = s[j]
    BY <1>1, <2>2
  <2>4. i \in 1..Len(s) /\ s[i] \in S
    BY <1>1, <2>2
  <2>5. PICK k \in 1..Len(t) : t[k] = s[i]
    BY <2>4 DEF SortedOf
  <2>6. k >= i
    <3> SUFFICES ASSUME k < i
                 PROVE  FALSE
      BY <2>4, <2>5
    <3>1. k \in 1..Len(s) /\ k < i /\ i \in 1..Len(s)
      BY <1>1, <2>4, <2>5
    <3>2. s[k] = s[i]
      BY <2>3, <2>5, <3>1
    <3>3. Before(s[k], s[i])
      BY <3>1 DEF SortedOf
    <3> QED BY <2>4, <3>2, <3>3, BeforeIsOrder
  <2>7. i \in 1..Len(t) /\ t[i] \in S
    BY <1>1, <2>4, <2>5, <2>6
  <2>8. k > i /\ Before(t[i], t[k])
    <3>1. k # i
      BY <2>2, <2>5, <2>7
    <3>2. i < k
      BY <2>5, <2>6, <2>7, <3>1
    <3> QED BY <2>5, <2>7, <3>2 DEF SortedOf
  <2>9. PICK l \in 1..Len(s) : s[l] = t[i]
    BY <2>7 DEF SortedOf
  <2>10. l > i
    <3>1. l # i
      BY <2>5, <2>7, <2>8, <2>9, BeforeIsOrder
    <3>2. CASE l < i
      <4>1. l \in 1..Len(t) /\ t[l] = t[i] /\ Before(t[l], t[i])
        BY <2>3, <2>7, <2>9, <3>2 DEF SortedOf
      <4> QED BY <2>7, <4>1, BeforeIsOrder
    <3> QED BY <2>4, <2>9, <3>1, <3>2
  <2>11. Before(s[i], s[l])
    BY <2>4, <2>9, <2>10 DEF SortedOf
  <2> QED BY <2>4, <2>5, <2>7, <2>8, <2>9, <2>11, BeforeIsOrder
<1> QED BY <1>2

LEMMA SortedUnique ==
  ASSUME Cached, NEW S \in SUBSET Markets, NEW s, NEW t, SortedOf(s, S), SortedOf(t, S)
  PROVE  s = t
<1>1. /\ \A i \in 1..Len(s) : i \in 1..Len(t) /\ t[i] = s[i]
      /\ \A i \in 1..Len(t) : i \in 1..Len(s)
  BY SortedAgree
<1>2. s \in Seq(S) /\ t \in Seq(S) /\ Len(s) \in Nat /\ Len(t) \in Nat
  BY DEF SortedOf
<1>3. Len(s) = Len(t)
  <2>1. Len(s) # 0 => Len(s) \in 1..Len(s)
    BY <1>2
  <2>2. Len(t) # 0 => Len(t) \in 1..Len(t)
    BY <1>2
  <2>3. Len(s) <= Len(t)
    BY <1>1, <1>2, <2>1
  <2>4. Len(t) <= Len(s)
    BY <1>1, <1>2, <2>2
  <2> QED BY <1>2, <2>3, <2>4
<1> QED BY <1>1, <1>2, <1>3, SeqEqual

\* The first i markets of such a list are i markets.
LEMMA SortedCounts ==
  ASSUME Cached, NEW S \in SUBSET Markets, NEW s, SortedOf(s, S), NEW k \in 0..Len(s)
  PROVE  Cardinality({s[j] : j \in 1..k}) = k
<1> DEFINE T == {s[j] : j \in 1..k}
           f == [j \in 1..k |-> s[j]]
<1>1. Len(s) \in Nat /\ k \in Nat /\ \A i \in 1..Len(s) : s[i] \in Markets
  BY DEF SortedOf
<1>2. \A i, j \in 1..k : i # j => s[i] # s[j]
  <2> SUFFICES ASSUME NEW i \in 1..k, NEW j \in 1..k, i # j, s[i] = s[j]
               PROVE  FALSE
    OBVIOUS
  <2>1. i \in 1..Len(s) /\ j \in 1..Len(s) /\ (i < j \/ j < i)
    BY <1>1
  <2>2. Before(s[i], s[j]) \/ Before(s[j], s[i])
    BY <2>1 DEF SortedOf
  <2> QED BY <1>1, <2>1, <2>2, BeforeIsOrder
<1>3. f \in Bijection(1..k, T)
  BY <1>2 DEF Bijection, Injection, Surjection, IsInjective
<1>4. ExistsBijection(1..k, T)
  BY <1>3 DEF ExistsBijection
<1> QED BY <1>1, <1>4, FS_CountingElements

\* Ordered lists the markets in the order of entry.
LEMMA OrderedIsSorted ==
  ASSUME Cached, NEW S \in SUBSET Markets
  PROVE  SortedOf(Ordered(S), S)
<1>1. PICK s : SortedOf(s, S)
  BY SortedExists
<1>2. s \in Seq(S) /\ Len(s) \in Nat /\ \A i \in 1..Len(s) : s[i] \in S
  BY <1>1 DEF SortedOf
<1>3. Cardinality(S) = Len(s)
  <2>1. S = {s[j] : j \in 1..Len(s)}
    BY <1>1, <1>2 DEF SortedOf
  <2>2. Len(s) \in 0..Len(s)
    BY <1>2
  <2>3. Cardinality({s[j] : j \in 1..Len(s)}) = Len(s)
    BY <1>1, <2>2, SortedCounts
  <2> QED BY <2>1, <2>3
<1>4. ASSUME NEW i \in 1..Len(s)
      PROVE  Cardinality({n \in S : Before(n, s[i])}) = i - 1
  <2>1. ASSUME NEW n \in S
        PROVE  Before(n, s[i]) <=> \E j \in 1..(i - 1) : n = s[j]
    <3>1. PICK j \in 1..Len(s) : s[j] = n
      BY <1>1 DEF SortedOf
    <3>2. j < i => Before(n, s[i])
      BY <1>1, <3>1 DEF SortedOf
    <3>3. j = i => ~Before(n, s[i])
      BY <1>2, <3>1, BeforeIsOrder
    <3>4. i < j => ~Before(n, s[i])
      <4>1. i < j => Before(s[i], n)
        BY <1>1, <3>1 DEF SortedOf
      <4>2. s[i] \in Markets /\ n \in Markets
        BY <1>2
      <4> QED BY <4>1, <4>2, BeforeIsOrder
    <3>5. ASSUME NEW l \in 1..(i - 1), n = s[l]
          PROVE  Before(n, s[i])
      <4>1. l \in 1..Len(s) /\ l < i
        BY <1>2
      <4> QED BY <1>1, <3>5, <4>1 DEF SortedOf
    <3>6. j < i => j \in 1..(i - 1)
      BY <1>2
    <3>7. j < i \/ j = i \/ i < j
      BY <1>2
    <3> QED BY <3>1, <3>2, <3>3, <3>4, <3>5, <3>6, <3>7
  <2>2. {n \in S : Before(n, s[i])} = {s[j] : j \in 1..(i - 1)}
    <3>1. \A j \in 1..(i - 1) : s[j] \in S
      BY <1>2
    <3> QED BY <2>1, <3>1
  <2>3. i - 1 \in 0..Len(s)
    BY <1>2
  <2> QED BY <1>1, <2>2, <2>3, SortedCounts
<1>5. ASSUME NEW i \in 1..Len(s)
      PROVE  (CHOOSE m \in S : Cardinality({n \in S : Before(n, m)}) = i - 1) = s[i]
  <2> DEFINE Rank(m) == Cardinality({n \in S : Before(n, m)})
  <2>1. \A j \in 1..Len(s) : Rank(s[j]) = j - 1
    BY <1>4
  <2>2. \A m \in S : \E j \in 1..Len(s) : m = s[j]
    BY <1>1 DEF SortedOf
  <2> HIDE DEF Rank
  <2>3. \A m \in S : Rank(m) = i - 1 => m = s[i]
    <3> SUFFICES ASSUME NEW m \in S, Rank(m) = i - 1
                 PROVE  m = s[i]
      OBVIOUS
    <3>1. PICK j \in 1..Len(s) : m = s[j]
      BY <2>2
    <3>2. j - 1 = i - 1
      BY <2>1, <3>1
    <3> QED BY <1>2, <3>1, <3>2
  <2>4. s[i] \in S /\ Rank(s[i]) = i - 1
    BY <1>2, <2>1
  <2>5. (CHOOSE m \in S : Rank(m) = i - 1) = s[i]
    BY <2>3, <2>4
  <2> QED BY <2>5 DEF Rank
<1>6. Ordered(S) = [i \in 1..Len(s) |-> s[i]]
  BY <1>3, <1>5 DEF Ordered
<1>7. Ordered(S) = s
  BY <1>2, <1>6
<1> QED BY <1>1, <1>7

\* The order of some markets has their number.
LEMMA OrderedLength ==
  ASSUME Cached, NEW S \in SUBSET Markets
  PROVE  /\ Len(Ordered(S)) = Cardinality(S) /\ Cardinality(S) <= Cardinality(Markets)
         /\ Cardinality(S) \in Nat /\ Cardinality(Markets) \in Nat
<1> DEFINE order == Ordered(S)
<1>1. IsFiniteSet(Markets) /\ IsFiniteSet(S) /\ Cardinality(S) <= Cardinality(Markets)
  BY SeasonAssumption, FS_Subset
<1>2. Cardinality(S) \in Nat /\ Cardinality(Markets) \in Nat
  BY <1>1, FS_CardinalityType
<1>3. order \in Seq(S)
  BY OrderedIsSorted DEF SortedOf
<1>4. DOMAIN order = 1..Cardinality(S)
  BY DEF Ordered
<1> HIDE DEF order
<1>5. Len(order) \in Nat /\ DOMAIN order = 1..Len(order)
  BY <1>3
<1>6. Len(order) = Cardinality(S)
  <2>1. 1..Len(order) = 1..Cardinality(S)
    BY <1>4, <1>5
  <2> QED BY <1>2, <1>5, <2>1
<1> QED BY <1>1, <1>2, <1>6 DEF order

\* What remains after the first c markets is listed by the rest of the list.
LEMMA OrderedRest ==
  ASSUME Cached, NEW S \in SUBSET Markets, NEW c \in 0..Len(Ordered(S))
  PROVE  LET s == Ordered(S)
             rest == {s[i] : i \in (c + 1)..Len(s)}
         IN /\ rest \in SUBSET Markets
            /\ Ordered(rest) = SubSeq(s, c + 1, Len(s))
            /\ Len(Ordered(rest)) = Len(s) - c
            /\ \A i \in 1..(Len(s) - c) : Ordered(rest)[i] = s[c + i]
<1> DEFINE s == Ordered(S)
           rest == {s[i] : i \in (c + 1)..Len(s)}
           r == SubSeq(s, c + 1, Len(s))
<1>1. SortedOf(s, S)
  BY OrderedIsSorted
<1> HIDE DEF s
<1>2. /\ s \in Seq(S) /\ Len(s) \in Nat /\ c \in Nat /\ c <= Len(s)
      /\ \A i \in 1..Len(s) : s[i] \in S
  BY <1>1 DEF SortedOf, s
<1>3. rest \in SUBSET Markets
  BY <1>2
<1>4. \A i \in (c + 1)..Len(s) : s[i] \in rest
  OBVIOUS
<1>5. r \in Seq(rest) /\ Len(r) = Len(s) - c /\ \A i \in 1..(Len(s) - c) : r[i] = s[c + i]
  <2>1. /\ r \in Seq(rest)
        /\ Len(r) = IF c + 1 <= Len(s) THEN Len(s) - (c + 1) + 1 ELSE 0
        /\ \A i \in 1..(Len(s) - (c + 1) + 1) : r[i] = s[(c + 1) + i - 1]
    <3> HIDE DEF rest
    <3>1. c + 1 \in Int /\ Len(s) \in Int
      BY <1>2
    <3> QED BY <1>4, <3>1, SubSeqProperties
  <2>2. Len(s) - (c + 1) + 1 = Len(s) - c
        /\ \A i \in 1..(Len(s) - c) : (c + 1) + i - 1 = c + i
    BY <1>2
  <2>3. Len(r) = Len(s) - c
    BY <1>2, <2>1
  <2> QED BY <2>1, <2>2, <2>3
<1>6. SortedOf(r, rest)
  <2>1. ASSUME NEW m \in rest
        PROVE  \E i \in 1..Len(r) : r[i] = m
    <3>1. PICK j \in (c + 1)..Len(s) : m = s[j]
      OBVIOUS
    <3>2. j - c \in 1..(Len(s) - c) /\ c + (j - c) = j
      BY <1>2
    <3>3. r[j - c] = m
      BY <1>5, <3>1, <3>2
    <3> HIDE DEF r
    <3> QED BY <1>5, <3>2, <3>3
  <2>2. ASSUME NEW i \in 1..Len(r), NEW j \in 1..Len(r), i < j
        PROVE  Before(r[i], r[j])
    <3>1. i \in 1..(Len(s) - c) /\ j \in 1..(Len(s) - c)
      BY <1>5
    <3>2. r[i] = s[c + i] /\ r[j] = s[c + j]
      BY <1>5, <3>1
    <3>3. c + i \in 1..Len(s) /\ c + j \in 1..Len(s) /\ c + i < c + j
      BY <1>2, <2>2, <3>1
    <3> QED BY <1>1, <3>2, <3>3 DEF SortedOf
  <2> QED BY <1>5, <2>1, <2>2 DEF SortedOf
<1>7. SortedOf(Ordered(rest), rest)
  BY <1>3, OrderedIsSorted
<1>8. Ordered(rest) = r
  <2> HIDE DEF rest, r
  <2> QED BY <1>3, <1>6, <1>7, SortedUnique
<1>9. /\ rest \in SUBSET Markets
      /\ Ordered(rest) = SubSeq(s, c + 1, Len(s))
      /\ Len(Ordered(rest)) = Len(s) - c
      /\ \A i \in 1..(Len(s) - c) : Ordered(rest)[i] = s[c + i]
  BY <1>3, <1>5, <1>8
<1> QED BY <1>9 DEF s

-----------------------------------------------------------------------------
(* The schedule *)

\* Finitely many times have a largest.
LEMMA LargestTime ==
  ASSUME NEW n \in Nat, NEW f \in [1..n -> Nat], NEW S, S \subseteq {f[j] : j \in 1..n}, S # {}
  PROVE  Max(S) \in S /\ \A y \in S : y <= Max(S)
<1> DEFINE T == {k \in Nat : k <= n => \E b \in Nat : \A j \in 1..k : f[j] <= b}
<1>1. 0 \in T
  OBVIOUS
<1>2. ASSUME NEW k \in Nat, k \in T
      PROVE  k + 1 \in T
  <2> SUFFICES ASSUME k + 1 <= n
               PROVE  \E b \in Nat : \A j \in 1..(k + 1) : f[j] <= b
    OBVIOUS
  <2>1. PICK b \in Nat : \A j \in 1..k : f[j] <= b
    BY <1>2
  <2>2. f[k + 1] \in Nat
    OBVIOUS
  <2> DEFINE c == b + f[k + 1]
  <2>3. c \in Nat /\ b <= c /\ f[k + 1] <= c
    BY <2>1, <2>2
  <2> HIDE DEF c
  <2>4. ASSUME NEW j \in 1..(k + 1)
        PROVE  f[j] <= c
    <3>1. j \in 1..k \/ j = k + 1
      OBVIOUS
    <3>2. f[j] \in Nat
      OBVIOUS
    <3>3. CASE j \in 1..k
      <4>1. f[j] <= b
        BY <2>1, <3>3
      <4> QED BY <2>3, <3>2, <4>1
    <3>4. CASE j = k + 1
      BY <2>3, <3>4
    <3> QED BY <3>1, <3>3, <3>4
  <2> QED BY <2>3, <2>4
<1>3. PICK b \in Nat : \A j \in 1..n : f[j] <= b
  <2> HIDE DEF T
  <2>1. n \in T
    BY <1>1, <1>2, Induct
  <2> QED BY <2>1 DEF T
<1>4. S \subseteq Nat /\ \A y \in S : y <= b
  BY <1>3
<1> DEFINE R == {b - y : y \in S}
<1>5. R \subseteq Nat /\ R # {}
  <2>1. \A y \in S : b - y \in Nat
    BY <1>4
  <2> QED BY <2>1
<1>6. PICK r \in R : \A q \in R : r <= q
  BY <1>5, LeastNumber
<1>7. PICK m \in S : r = b - m
  BY <1>6
<1>8. ASSUME NEW y \in S
      PROVE  m >= y /\ y <= m
  <2>1. b - y \in R
    OBVIOUS
  <2>2. b - m <= b - y
    BY <1>6, <1>7, <2>1
  <2>3. b \in Int /\ m \in Int /\ y \in Int
    BY <1>4
  <2> QED BY <2>2, <2>3
<1>9. \A x \in S : (\A y \in S : x >= y) => \A y \in S : y <= x
  BY <1>4
<1>10. Max(S) \in S /\ \A y \in S : Max(S) >= y
  BY <1>8 DEF Max
<1> QED BY <1>9, <1>10

\* The times of the decisions, as build_survival_schedule's first pass leaves
\* them.
LEMMA DecisionTimesRecurse ==
  ASSUME Cached, NEW order \in Seq(Markets)
  PROVE  LET at == DecisionTimes(order)
         IN /\ at \in [1..Len(order) -> Nat]
            /\ \A i \in 1..Len(order) :
                 at[i] = IF i > 1 /\ Entry(order[i]) <= at[i - 1] THEN at[i - 1] + Nudge
                         ELSE Entry(order[i])
<1> DEFINE n == Len(order)
           Is(at) == at = [i \in 1..n |->
                        IF i > 1 /\ Entry(order[i]) <= at[i - 1] THEN at[i - 1] + Nudge
                        ELSE Entry(order[i])]
           turn == [i \in 1..n |-> [x \in Nat |->
                      IF i > 1 /\ Entry(order[i]) <= x THEN x + Nudge ELSE Entry(order[i])]]
<1>1. n \in Nat /\ \A i \in 1..n : order[i] \in Markets
  OBVIOUS
<1>2. \A i \in 1..n : Entry(order[i]) \in Nat
  BY <1>1, TimesAreNumbers
<1>3. /\ turn \in [1..n -> [Nat -> Nat]]
      /\ \A i \in 1..n, x \in Nat :
           turn[i][x] = IF i > 1 /\ Entry(order[i]) <= x THEN x + Nudge ELSE Entry(order[i])
  BY <1>2 DEF Nudge
<1> HIDE DEF turn
<1>4. PICK f : Starts(f, n, Nat, 0, turn)
  BY <1>1, <1>3, Recursion
<1> DEFINE h == [i \in 1..n |-> f[i]]
<1>5. f \in [0..n -> Nat] /\ \A i \in 1..n : f[i] = turn[i][f[i - 1]]
  BY <1>4 DEF Starts
<1>6. ASSUME NEW i \in 1..n
      PROVE  h[i] = IF i > 1 /\ Entry(order[i]) <= h[i - 1] THEN h[i - 1] + Nudge
                    ELSE Entry(order[i])
  <2>1. i - 1 \in 0..n /\ f[i - 1] \in Nat
    BY <1>1, <1>5
  <2>2. f[i] = IF i > 1 /\ Entry(order[i]) <= f[i - 1] THEN f[i - 1] + Nudge
               ELSE Entry(order[i])
    BY <1>3, <1>5, <2>1
  <2>3. i > 1 => i - 1 \in 1..n
    BY <1>1
  <2> QED BY <2>2, <2>3
<1>7. Is(h)
  BY <1>6
<1> HIDE DEF h
<1> DEFINE g == CHOOSE at : Is(at)
<1>8. Is(g)
  BY <1>7
<1>9. DecisionTimes(order) = g
  BY DEF DecisionTimes
<1> HIDE DEF g
<1>10. \A i \in 1..n : g[i] = IF i > 1 /\ Entry(order[i]) <= g[i - 1] THEN g[i - 1] + Nudge
                              ELSE Entry(order[i])
  BY <1>8
<1>11. \A i \in 1..n : g[i] \in Nat
  <2> DEFINE T == {k \in Nat : k \in 1..n => g[k] \in Nat}
  <2>1. 0 \in T
    OBVIOUS
  <2>2. ASSUME NEW k \in Nat, k \in T
        PROVE  k + 1 \in T
    <3> SUFFICES ASSUME k + 1 \in 1..n
                 PROVE  g[k + 1] \in Nat
      OBVIOUS
    <3>1. (k + 1) - 1 = k /\ (k + 1 > 1 => k \in 1..n)
      BY <1>1
    <3>2. g[k + 1] = IF k + 1 > 1 /\ Entry(order[k + 1]) <= g[k] THEN g[k] + Nudge
                     ELSE Entry(order[k + 1])
      BY <1>10, <3>1
    <3>3. Entry(order[k + 1]) \in Nat
      BY <1>2
    <3> QED BY <2>2, <3>1, <3>2, <3>3 DEF Nudge
  <2> HIDE DEF T
  <2>3. \A k \in Nat : k \in T
    BY <2>1, <2>2, Induct
  <2> QED BY <1>1, <2>3 DEF T
<1>12. g \in [1..n -> Nat]
  BY <1>8, <1>11
<1> QED BY <1>9, <1>10, <1>12

\* Decisions are nudged by no more than there are markets before them.
LEMMA NudgesAreFew ==
  ASSUME Cached, NEW S \in SUBSET Markets
  PROVE  LET order == Ordered(S)
         IN \A i \in 1..Len(order) : DecisionTimes(order)[i] <= Entry(order[i]) + (i - 1)
<1> DEFINE order == Ordered(S)
           n == Len(order)
           at == DecisionTimes(order)
<1>1. SortedOf(order, S)
  BY OrderedIsSorted
<1> HIDE DEF order
<1>2. order \in Seq(S) /\ order \in Seq(Markets) /\ n \in Nat
  BY <1>1 DEF SortedOf
<1>3. \A i \in 1..n : order[i] \in Markets /\ Entry(order[i]) \in Nat
  BY <1>2, TimesAreNumbers
<1>4. /\ at \in [1..n -> Nat]
      /\ \A i \in 1..n :
           at[i] = IF i > 1 /\ Entry(order[i]) <= at[i - 1] THEN at[i - 1] + Nudge
                   ELSE Entry(order[i])
  BY <1>2, DecisionTimesRecurse
<1> HIDE DEF at, n
<1> DEFINE T == {k \in Nat : k \in 1..n => at[k] <= Entry(order[k]) + (k - 1)}
<1>5. 0 \in T
  OBVIOUS
<1>6. ASSUME NEW k \in Nat, k \in T
      PROVE  k + 1 \in T
  <2> SUFFICES ASSUME k + 1 \in 1..n
               PROVE  at[k + 1] <= Entry(order[k + 1]) + k
    OBVIOUS
  <2>1. (k + 1) - 1 = k /\ k + 1 \in 1..n /\ Entry(order[k + 1]) \in Nat
    BY <1>3
  <2>2. at[k + 1] = IF k + 1 > 1 /\ Entry(order[k + 1]) <= at[k] THEN at[k] + Nudge
                    ELSE Entry(order[k + 1])
    BY <1>4, <2>1
  <2>3. CASE k + 1 > 1 /\ Entry(order[k + 1]) <= at[k]
    <3>1. k \in 1..n /\ k < k + 1
      BY <2>1, <2>3, <1>2
    <3>2. Before(order[k], order[k + 1])
      BY <1>1, <2>1, <3>1 DEF SortedOf, n
    <3>3. Entry(order[k]) <= Entry(order[k + 1]) /\ Entry(order[k]) \in Nat
      BY <1>3, <2>1, <3>1, <3>2 DEF Before
    <3>4. at[k] <= Entry(order[k]) + (k - 1) /\ at[k] \in Nat
      BY <1>4, <1>6, <3>1
    <3> QED BY <2>1, <2>2, <2>3, <3>3, <3>4 DEF Nudge
  <2>4. CASE ~(k + 1 > 1 /\ Entry(order[k + 1]) <= at[k])
    BY <2>1, <2>2, <2>4
  <2> QED BY <2>3, <2>4
<1>7. \A k \in Nat : k \in T
  <2> HIDE DEF T
  <2> QED BY <1>5, <1>6, Induct
<1> QED BY <1>2, <1>7 DEF at, n, order

\* The stops of a schedule.
Stops == [ts : Nat, market : Nat]

\* When a bet can settle is a number, and no earlier than either gate.
LEMMA DueIsTime ==
  ASSUME Cached, NEW m \in Markets
  PROVE  /\ Due(m) \in Nat
         /\ timing[m].expected <= Due(m) /\ timing[m].resolution <= Due(m)
<1> DEFINE e == timing[m].expected
           r == timing[m].resolution
<1>1. e \in Nat /\ r \in Nat
  BY TimesAreNumbers
<1> HIDE DEF e, r
<1>2. \E x \in {e, r} : \A y \in {e, r} : x >= y
  <2>1. e >= r \/ r >= e
    BY <1>1
  <2> QED BY <1>1, <2>1
<1>3. Max({e, r}) \in {e, r} /\ \A y \in {e, r} : Max({e, r}) >= y
  BY <1>2 DEF Max
<1>4. Max({e, r}) \in Nat /\ e <= Max({e, r}) /\ r <= Max({e, r})
  BY <1>1, <1>3
<1> QED BY <1>4 DEF Due, e, r

\* Settlement checkpoints lie before the next decision; the last drains all.
LEMMA DrainStops ==
  ASSUME NEW order \in Seq(Markets), NEW at \in [1..Len(order) -> Nat], Cached,
         NEW i \in 1..Len(order)
  PROVE  \/ Drain(order, at, i) = <<>>
         \/ \E c \in Nat : /\ Drain(order, at, i) = <<Stop(c, 0)>>
                           /\ i < Len(order) => c < at[i + 1]
<1> DEFINE n == Len(order)
           f == [j \in 1..n |-> Due(order[j])]
           due == {Due(order[j]) : j \in 1..i}
           gap == {t \in due : at[i] < t /\ t < at[i + 1]}
           all == {Due(order[j]) : j \in 1..n}
<1>1. n \in Nat /\ i \in Nat /\ i <= n /\ \A j \in 1..n : order[j] \in Markets
  OBVIOUS
<1>2. f \in [1..n -> Nat]
  BY <1>1, DueIsTime
<1>3. gap \subseteq {f[j] : j \in 1..n} /\ all \subseteq {f[j] : j \in 1..n}
  BY <1>1
<1>4. CASE i < n
  <2>1. CASE gap = {} \/ Max(gap) + Margin >= at[i + 1]
    BY <1>4, <2>1 DEF Drain
  <2>2. CASE ~(gap = {} \/ Max(gap) + Margin >= at[i + 1])
    <3>1. Drain(order, at, i) = <<Stop(Max(gap) + Margin, 0)>>
      BY <1>4, <2>2 DEF Drain
    <3>2. Max(gap) \in gap
      <4> HIDE DEF gap, f
      <4> QED BY <1>1, <1>2, <1>3, <2>2, LargestTime
    <3>3. Max(gap) \in Nat
      <4>1. gap \subseteq Nat
        BY <1>2, <1>3
      <4> HIDE DEF gap
      <4> QED BY <3>2, <4>1
    <3>4. at[i + 1] \in Nat
      BY <1>1, <1>4
    <3> HIDE DEF gap
    <3>5. Max(gap) + Margin \in Nat /\ Max(gap) + Margin < at[i + 1]
      BY <2>2, <3>3, <3>4 DEF Margin
    <3> QED BY <3>1, <3>5
  <2> QED BY <2>1, <2>2
<1>5. CASE ~(i < n)
  <2>1. \/ Drain(order, at, i) = <<>>
        \/ Drain(order, at, i) = <<Stop(Max(all) + Margin, 0)>>
    BY <1>5 DEF Drain
  <2>2. Max(all) \in all
    <3>1. all # {}
      BY <1>1
    <3> HIDE DEF all, f
    <3> QED BY <1>1, <1>2, <1>3, <3>1, LargestTime
  <2>3. Max(all) \in Nat
    <3>1. all \subseteq Nat
      BY <1>2, <1>3
    <3> HIDE DEF all
    <3> QED BY <2>2, <3>1
  <2> HIDE DEF all
  <2>4. Max(all) + Margin \in Nat
    BY <2>3 DEF Margin
  <2> QED BY <1>5, <2>1, <2>4
<1> QED BY <1>4, <1>5

\* The last checkpoint comes after every bet is due, and is never left out.
LEMMA DrainLast ==
  ASSUME Cached, NEW S \in SUBSET Markets, Len(Ordered(S)) > 0
  PROVE  LET order == Ordered(S)
             n == Len(order)
         IN \E c \in Nat : /\ Drain(order, DecisionTimes(order), n) = <<Stop(c, 0)>>
                           /\ \A j \in 1..n : Due(order[j]) < c
<1> DEFINE order == Ordered(S)
           n == Len(order)
           at == DecisionTimes(order)
           f == [j \in 1..n |-> Due(order[j])]
           all == {Due(order[j]) : j \in 1..n}
<1>1. at[n] <= Entry(order[n]) + (n - 1)
  BY NudgesAreFew
<1>2. SortedOf(order, S)
  BY OrderedIsSorted
<1>3. n = Cardinality(S) /\ Cardinality(S) <= Cardinality(Markets) /\ Cardinality(Markets) \in Nat
  BY OrderedLength
<1> HIDE DEF order
<1>4. order \in Seq(Markets) /\ n \in Nat /\ n \in 1..n /\ \A i \in 1..n : order[i] \in Markets
  BY <1>2, n > 0 DEF SortedOf, order
<1>5. at[n] \in Nat
  BY <1>4, DecisionTimesRecurse
<1>6. \A j \in 1..n : Due(order[j]) \in Nat /\ Entry(order[j]) \in Nat
  BY <1>4, DueIsTime, TimesAreNumbers
<1>7. Entry(order[n]) + Cardinality(Markets) <= Due(order[n])
  <2>1. timing[order[n]] \in Timings
    BY <1>4 DEF Cached
  <2> QED BY <2>1, SettlementAssumption DEF Due, Entry
<1>8. f \in [1..n -> Nat] /\ all \subseteq {f[j] : j \in 1..n} /\ all # {} /\ Due(order[n]) \in all
  BY <1>4, <1>6
<1>9. Max(all) \in all /\ \A y \in all : y <= Max(all)
  <2> HIDE DEF f, all
  <2> QED BY <1>4, <1>8, LargestTime
<1>10. Max(all) \in Nat /\ all \subseteq Nat
  <2>1. all \subseteq Nat
    BY <1>6
  <2> QED BY <1>9, <2>1
<1>11. ~(Max(all) + Margin <= at[n])
  <2>1. Due(order[n]) <= Max(all)
    BY <1>8, <1>9
  <2> HIDE DEF all, at
  <2> QED BY <1>1, <1>3, <1>4, <1>5, <1>6, <1>7, <1>10, <2>1 DEF Margin
<1>12. Drain(order, at, n) = <<Stop(Max(all) + Margin, 0)>>
  <2>1. ~(n < Len(order))
    BY <1>4
  <2> QED BY <1>11, <2>1 DEF Drain
<1>13. \A j \in 1..n : Due(order[j]) < Max(all) + Margin
  <2> TAKE j \in 1..n
  <2>1. Due(order[j]) \in all
    OBVIOUS
  <2>2. Due(order[j]) <= Max(all) /\ Due(order[j]) \in Nat
    BY <1>6, <1>9, <2>1
  <2> HIDE DEF all
  <2> QED BY <1>10, <2>2 DEF Margin
<1>14. Max(all) + Margin \in Nat
  <2> HIDE DEF all
  <2> QED BY <1>10 DEF Margin
<1> HIDE DEF all
<1> QED BY <1>12, <1>13, <1>14 DEF order

\* The schedule s has its first k decisions at pos, in order, each no later
\* than its time, and nothing else but checkpoints.
Placed(pos, s, order, at, k) ==
  /\ pos \in [1..k -> 1..Len(s)]
  /\ \A i, j \in 1..k : i < j => pos[i] < pos[j]
  /\ \A i \in 1..k : s[pos[i]].market = order[i]
  /\ \A t \in 1..Len(s) : s[t].market = 0 \/ \E i \in 1..k : t = pos[i]
  /\ \A i \in 1..k : \A t \in 1..pos[i] : s[t].ts <= at[i]

\* Another decision, with or without a checkpoint after it, has its place.
LEMMA PlacedNext ==
  ASSUME NEW n \in Nat, NEW order \in Seq(Markets), Len(order) = n,
         NEW at \in [1..n -> Nat], NEW k \in Nat, k + 1 <= n,
         NEW s \in Seq(Stops), NEW pos, Placed(pos, s, order, at, k),
         \A t \in 1..Len(s) : s[t].ts <= at[k + 1],
         NEW D \in Seq(Stops), Len(D) \in {0, 1}, \A i \in 1..Len(D) : D[i].market = 0
  PROVE  \E p : Placed(p, s \o <<Stop(at[k + 1], order[k + 1])>> \o D, order, at, k + 1)
<1> DEFINE e == Stop(at[k + 1], order[k + 1])
           s2 == s \o <<e>> \o D
           L == Len(s)
           p == [i \in 1..(k + 1) |-> IF i <= k THEN pos[i] ELSE L + 1]
<1>1. k + 1 \in 1..n /\ order[k + 1] \in Nat /\ at[k + 1] \in Nat
  <2>1. k + 1 \in 1..n
    OBVIOUS
  <2>2. order[k + 1] \in Markets
    BY <2>1
  <2> QED BY <2>1, <2>2, SeasonAssumption
<1>2. e \in Stops /\ e.market = order[k + 1] /\ e.ts = at[k + 1]
  BY <1>1 DEF Stop, Stops
<1>3. L \in Nat /\ s \o <<e>> \in Seq(Stops) /\ Len(s \o <<e>>) = L + 1
      /\ (s \o <<e>>)[L + 1] = e /\ \A t \in 1..L : (s \o <<e>>)[t] = s[t]
  <2> HIDE DEF e
  <2> QED BY <1>2
<1>4. /\ s2 \in Seq(Stops) /\ Len(s2) = L + 1 + Len(D) /\ s2[L + 1] = e
      /\ \A t \in 1..L : s2[t] = s[t]
      /\ \A t \in (L + 2)..Len(s2) : s2[t].market = 0
  <2> DEFINE u == s \o <<e>>
  <2>1. u \in Seq(Stops) /\ Len(u) = L + 1 /\ u[L + 1] = e /\ (\A t \in 1..L : u[t] = s[t])
    BY <1>3
  <2> HIDE DEF u
  <2>2. /\ u \o D \in Seq(Stops) /\ Len(u \o D) = L + 1 + Len(D)
        /\ \A t \in 1..(L + 1) : (u \o D)[t] = u[t]
    <3>1. u \o D \in Seq(Stops) /\ Len(u \o D) = Len(u) + Len(D)
      BY <2>1, ConcatProperties
    <3>2. \A t \in 1..Len(u) : (u \o D)[t] = u[t]
      BY <2>1, ConcatProperties
    <3> HIDE DEF L
    <3> QED BY <1>3, <2>1, <3>1, <3>2
  <2>3. L + 1 \in 1..(L + 1) /\ \A t \in 1..L : t \in 1..(L + 1)
    BY <1>3
  <2>4. \A t \in (L + 2)..Len(u \o D) : (u \o D)[t].market = 0
    <3> TAKE t \in (L + 2)..Len(u \o D)
    <3>1. t - (L + 1) \in 1..Len(D) /\ (u \o D)[t] = D[t - (L + 1)]
      BY <1>3, <2>1, <2>2
    <3> QED BY <3>1
  <2> QED BY <2>1, <2>2, <2>3, <2>4 DEF u
<1> HIDE DEF e, s2
<1>5. pos \in [1..k -> 1..L] /\ \A i \in 1..k : pos[i] \in Nat /\ pos[i] <= L
  <2>1. pos \in [1..k -> 1..L]
    BY DEF Placed
  <2>2. L \in Nat
    BY <1>3
  <2> HIDE DEF L
  <2>3. \A i \in 1..k : pos[i] \in 1..L
    BY <2>1
  <2>4. \A i \in 1..k : pos[i] \in Nat /\ pos[i] <= L
    <3> TAKE i \in 1..k
    <3>1. pos[i] \in 1..L
      BY <2>3
    <3> QED BY <2>2, <3>1
  <2> QED BY <2>1, <2>4
<1>6. p \in [1..(k + 1) -> 1..Len(s2)]
  <2>1. L + 1 \in 1..Len(s2) /\ \A j \in 1..L : j \in 1..Len(s2)
    <3>1. Len(s2) = L + 1 + Len(D) /\ Len(D) \in Nat
      BY <1>4
    <3> HIDE DEF L
    <3> QED BY <1>3, <3>1
  <2> HIDE DEF L
  <2>2. \A i \in 1..(k + 1) : i <= k => i \in 1..k
    OBVIOUS
  <2>3. \A i \in 1..(k + 1) : (IF i <= k THEN pos[i] ELSE L + 1) \in 1..Len(s2)
    BY <1>5, <2>1, <2>2
  <2> QED BY <2>3
<1>7. p[k + 1] = L + 1 /\ \A i \in 1..k : p[i] = pos[i]
  <2>1. k + 1 \in 1..(k + 1) /\ ~(k + 1 <= k)
    OBVIOUS
  <2>2. \A i \in 1..k : i \in 1..(k + 1) /\ i <= k
    OBVIOUS
  <2> HIDE DEF L
  <2> QED BY <2>1, <2>2
<1> HIDE DEF p, L
<1>8. ASSUME NEW i \in 1..(k + 1), NEW j \in 1..(k + 1), i < j
      PROVE  p[i] < p[j]
  <2>1. i \in 1..k
    BY <1>8
  <2>2. CASE j = k + 1
    <3>1. p[i] = pos[i] /\ pos[i] \in Nat /\ pos[i] <= L /\ p[j] = L + 1 /\ L \in Nat
      BY <1>3, <1>5, <1>7, <2>1, <2>2
    <3> QED BY <3>1
  <2>3. CASE j # k + 1
    <3>1. j \in 1..k
      BY <2>3
    <3> QED BY <1>7, <1>8, <2>1, <3>1 DEF Placed
  <2> QED BY <2>2, <2>3
<1>9. ASSUME NEW i \in 1..(k + 1)
      PROVE  s2[p[i]].market = order[i] /\ \A t \in 1..p[i] : s2[t].ts <= at[i]
  <2>1. CASE i \in 1..k
    <3>1. p[i] = pos[i] /\ pos[i] \in 1..L
      BY <1>5, <1>7, <2>1
    <3>2. \A t \in 1..pos[i] : t \in 1..L
      BY <3>1, <1>3
    <3> QED BY <1>4, <2>1, <3>1, <3>2 DEF Placed
  <2>2. CASE i = k + 1
    <3>1. p[i] = L + 1
      BY <1>7, <2>2
    <3>2. ASSUME NEW t \in 1..(L + 1)
          PROVE  s2[t].ts <= at[i]
      <4>1. CASE t = L + 1
        BY <1>1, <1>2, <1>4, <2>2, <4>1
      <4>2. CASE t # L + 1
        <5>1. t \in 1..L
          BY <4>2, <1>3
        <5> QED BY <5>1, <1>4, <2>2 DEF L
      <4> QED BY <4>1, <4>2
    <3> QED BY <1>2, <1>4, <2>2, <3>1, <3>2
  <2> QED BY <2>1, <2>2
<1>10. ASSUME NEW t \in 1..Len(s2)
       PROVE  s2[t].market = 0 \/ \E i \in 1..(k + 1) : t = p[i]
  <2>1. CASE t \in 1..L
    <3>1. s[t].market = 0 \/ \E i \in 1..k : t = pos[i]
      BY <2>1 DEF Placed, L
    <3>2. \A i \in 1..k : i \in 1..(k + 1)
      OBVIOUS
    <3> QED BY <1>4, <1>7, <2>1, <3>1, <3>2
  <2>2. CASE t = L + 1
    <3>1. k + 1 \in 1..(k + 1)
      OBVIOUS
    <3> QED BY <1>7, <2>2, <3>1
  <2>3. CASE t \in (L + 2)..Len(s2)
    BY <1>4, <2>3
  <2>4. Len(s2) \in Nat /\ t \in Nat
    BY <1>4
  <2> QED BY <1>3, <2>1, <2>2, <2>3, <2>4
<1>11. Placed(p, s2, order, at, k + 1)
  BY <1>6, <1>8, <1>9, <1>10 DEF Placed
<1> QED BY <1>11 DEF s2, e

\* A schedule of an order of markets: its decisions, at pos, are those markets
\* in order, each later than its entry by the nudges before it at the most; its
\* last stop is a checkpoint after everything is due.
Laid(pos, s, order) ==
  /\ s \in Seq(Stops)
  /\ pos \in [1..Len(order) -> 1..Len(s)]
  /\ \A i, j \in 1..Len(order) : i < j => pos[i] < pos[j]
  /\ \A i \in 1..Len(order) : s[pos[i]].market = order[i]
  /\ \A t \in 1..Len(s) : s[t].market = 0 \/ \E i \in 1..Len(order) : t = pos[i]
  /\ \A i \in 1..Len(order) : \A t \in 1..pos[i] :
       s[t].ts <= Entry(order[i]) + (i - 1)
  /\ Len(order) > 0 =>
       /\ Len(s) > 0 /\ s[Len(s)].market = 0
       /\ \A j \in 1..Len(order) : Due(order[j]) < s[Len(s)].ts

\* The schedule is built decision by decision.
LEMMA ScheduleRecurses ==
  ASSUME Cached, NEW S \in SUBSET Markets
  PROVE  LET order == Ordered(S)
             at == DecisionTimes(order)
             n == Len(order)
         IN \E f : /\ f \in [0..n -> Seq(Stops)] /\ f[0] = <<>>
                   /\ \A i \in 1..n :
                        f[i] = f[i - 1] \o <<Stop(at[i], order[i])>> \o Drain(order, at, i)
                   /\ BuildSchedule(S) = f[n]
<1> DEFINE order == Ordered(S)
           at == DecisionTimes(order)
           n == Len(order)
           next == [i \in 1..n |-> <<Stop(at[i], order[i])>>]
           drain == [i \in 1..n |-> Drain(order, at, i)]
           Is(g) == g = [i \in 0..n |-> IF i = 0 THEN <<>>
                           ELSE g[i - 1] \o <<Stop(at[i], order[i])>> \o Drain(order, at, i)]
           turn == [i \in 1..n |-> [x \in Seq(Stops) |-> x \o next[i] \o drain[i]]]
<1>1. SortedOf(order, S)
  BY OrderedIsSorted
<1>2. BuildSchedule(S) = (CHOOSE g : Is(g))[n]
  BY DEF BuildSchedule
<1> HIDE DEF order
<1>3. order \in Seq(Markets) /\ n \in Nat /\ \A i \in 1..n : order[i] \in Markets
  BY <1>1 DEF SortedOf
<1>4. at \in [1..n -> Nat]
  BY <1>3, DecisionTimesRecurse
<1> HIDE DEF at
<1>5. ASSUME NEW i \in 1..n
      PROVE  next[i] \in Seq(Stops) /\ drain[i] \in Seq(Stops)
  <2>1. Stop(at[i], order[i]) \in Stops
    BY <1>3, <1>4, SeasonAssumption DEF Stop, Stops
  <2>2. <<Stop(at[i], order[i])>> \in Seq(Stops)
    BY <2>1
  <2>3. Drain(order, at, i) = <<>> \/ \E c \in Nat : Drain(order, at, i) = <<Stop(c, 0)>>
    BY <1>3, <1>4, DrainStops
  <2>4. \A c \in Nat : Stop(c, 0) \in Stops
    BY DEF Stop, Stops
  <2>5. Drain(order, at, i) \in Seq(Stops)
    <3>1. <<>> \in Seq(Stops)
      OBVIOUS
    <3>2. \A c \in Nat : <<Stop(c, 0)>> \in Seq(Stops)
      BY <2>4
    <3> QED BY <2>3, <3>1, <3>2
  <2> QED BY <2>2, <2>5
<1>6. \A i \in 1..n : next[i] = <<Stop(at[i], order[i])>> /\ drain[i] = Drain(order, at, i)
  OBVIOUS
<1> HIDE DEF next, drain, n
<1>7. turn \in [1..n -> [Seq(Stops) -> Seq(Stops)]]
  <2>1. ASSUME NEW i \in 1..n, NEW x \in Seq(Stops)
        PROVE  x \o next[i] \o drain[i] \in Seq(Stops)
    <3>1. x \o next[i] \in Seq(Stops)
      BY <1>5, ConcatProperties
    <3> QED BY <1>5, <3>1, ConcatProperties
  <2> QED BY <2>1
<1>8. \A i \in 1..n : \A x \in Seq(Stops) : turn[i][x] = x \o next[i] \o drain[i]
  OBVIOUS
<1> HIDE DEF turn
<1>9. <<>> \in Seq(Stops)
  OBVIOUS
<1>10. PICK f : Starts(f, n, Seq(Stops), <<>>, turn)
  BY <1>3, <1>7, <1>9, Recursion
<1>11. /\ f \in [0..n -> Seq(Stops)] /\ f[0] = <<>>
       /\ \A i \in 1..n : f[i] = turn[i][f[i - 1]]
  BY <1>10 DEF Starts
<1>12. \A i \in 1..n :
         f[i] = f[i - 1] \o <<Stop(at[i], order[i])>> \o Drain(order, at, i)
  <2> TAKE i \in 1..n
  <2>1. i - 1 \in 0..n
    BY <1>3
  <2>2. f[i - 1] \in Seq(Stops)
    BY <1>11, <2>1
  <2> QED BY <1>6, <1>8, <1>11, <2>2
<1>13. Is(f)
  <2>1. f = [i \in 0..n |-> f[i]]
    BY <1>11
  <2>2. \A i \in 0..n : i # 0 => i \in 1..n
    BY <1>3
  <2>3. \A i \in 0..n : f[i] = IF i = 0 THEN <<>>
          ELSE f[i - 1] \o <<Stop(at[i], order[i])>> \o Drain(order, at, i)
    BY <1>11, <1>12, <2>2
  <2> QED BY <2>1, <2>3
<1> DEFINE g == CHOOSE h : Is(h)
<1>14. Is(g)
  BY <1>13
<1>15. BuildSchedule(S) = g[n]
  BY <1>2
<1> HIDE DEF g
<1>16. g \in [0..n -> Seq(Stops)] /\ g[0] = <<>>
       /\ \A i \in 1..n : g[i] = g[i - 1] \o <<Stop(at[i], order[i])>> \o Drain(order, at, i)
  <2>1. DOMAIN g = 0..n /\ g = [i \in 0..n |-> g[i]]
    BY <1>14
  <2>2. 0 \in 0..n /\ \A i \in 1..n : i \in 0..n /\ i # 0
    BY <1>3
  <2>3. g[0] = <<>>
    BY <1>14, <2>2
  <2>4. \A i \in 1..n : g[i] = g[i - 1] \o <<Stop(at[i], order[i])>> \o Drain(order, at, i)
    BY <1>14, <2>2
  <2> DEFINE T == {k \in Nat : k \in 0..n => g[k] \in Seq(Stops)}
  <2>5. 0 \in T
    BY <2>3, <1>9
  <2>6. ASSUME NEW k \in Nat, k \in T
        PROVE  k + 1 \in T
    <3> SUFFICES ASSUME k + 1 \in 0..n
                 PROVE  g[k + 1] \in Seq(Stops)
      OBVIOUS
    <3>1. k + 1 \in 1..n /\ k \in 0..n /\ (k + 1) - 1 = k
      BY <1>3
    <3>2. g[k + 1] = g[k] \o next[k + 1] \o drain[k + 1]
      BY <2>4, <3>1, <1>6
    <3>3. g[k] \o next[k + 1] \in Seq(Stops)
      BY <1>5, <2>6, <3>1, ConcatProperties
    <3> QED BY <1>5, <3>1, <3>2, <3>3, ConcatProperties
  <2> HIDE DEF T
  <2>7. \A k \in Nat : k \in T
    BY <2>5, <2>6, Induct
  <2>8. \A k \in 0..n : g[k] \in Seq(Stops)
    BY <2>7 DEF T
  <2> QED BY <2>1, <2>3, <2>4, <2>8
<1> QED BY <1>15, <1>16 DEF at, order, n

\* The times of the decisions are strictly increasing.
LEMMA TimesIncrease ==
  ASSUME Cached, NEW order \in Seq(Markets), NEW i \in 1..Len(order), i + 1 <= Len(order)
  PROVE  DecisionTimes(order)[i] < DecisionTimes(order)[i + 1]
<1> DEFINE at == DecisionTimes(order)
<1>1. at \in [1..Len(order) -> Nat] /\ i + 1 \in 1..Len(order) /\ (i + 1) - 1 = i /\ i + 1 > 1
  BY DecisionTimesRecurse
<1>2. at[i + 1] = IF i + 1 > 1 /\ Entry(order[i + 1]) <= at[i] THEN at[i] + Nudge
                  ELSE Entry(order[i + 1])
  BY <1>1, DecisionTimesRecurse
<1>3. at[i] \in Nat /\ Entry(order[i + 1]) \in Nat
  <2>1. order[i + 1] \in Markets
    BY <1>1
  <2> QED BY <1>1, <2>1, TimesAreNumbers
<1> HIDE DEF at
<1>4. CASE Entry(order[i + 1]) <= at[i]
  BY <1>1, <1>2, <1>3, <1>4 DEF Nudge, at
<1>5. CASE ~(Entry(order[i + 1]) <= at[i])
  BY <1>1, <1>2, <1>3, <1>5 DEF at
<1> QED BY <1>4, <1>5

\* build_survival_schedule lays its stops out in order.
LEMMA ScheduleLaid ==
  ASSUME Cached, NEW S \in SUBSET Markets
  PROVE  \E pos : Laid(pos, BuildSchedule(S), Ordered(S))
<1> DEFINE order == Ordered(S)
           at == DecisionTimes(order)
           n == Len(order)
<1>1. SortedOf(order, S)
  BY OrderedIsSorted
<1>2. PICK f : /\ f \in [0..n -> Seq(Stops)] /\ f[0] = <<>>
               /\ \A i \in 1..n :
                    f[i] = f[i - 1] \o <<Stop(at[i], order[i])>> \o Drain(order, at, i)
               /\ BuildSchedule(S) = f[n]
  BY ScheduleRecurses
<1>3. \A i \in 1..n : at[i] <= Entry(order[i]) + (i - 1)
  BY NudgesAreFew
<1>4. n > 0 => \E c \in Nat : /\ Drain(order, at, n) = <<Stop(c, 0)>>
                              /\ \A j \in 1..n : Due(order[j]) < c
  BY DrainLast
<1> HIDE DEF order
<1>5. order \in Seq(Markets) /\ n \in Nat /\ \A i \in 1..n : order[i] \in Markets
  BY <1>1 DEF SortedOf
<1>6. at \in [1..n -> Nat] /\ \A i \in 1..n : i + 1 <= n => at[i] < at[i + 1]
  BY <1>5, DecisionTimesRecurse, TimesIncrease
<1>7. \A i \in 1..n : \/ Drain(order, at, i) = <<>>
                      \/ \E c \in Nat : /\ Drain(order, at, i) = <<Stop(c, 0)>>
                                        /\ i < n => c < at[i + 1]
  BY <1>5, <1>6, DrainStops
<1> HIDE DEF at
<1> DEFINE Early(s, k) == k + 1 <= n => \A t \in 1..Len(s) : s[t].ts <= at[k + 1]
           T == {k \in Nat : k <= n =>
                   (\E pos : Placed(pos, f[k], order, at, k)) /\ Early(f[k], k)}
<1>8. 0 \in T
  <2>1. Len(f[0]) = 0 /\ 1..Len(f[0]) = {}
    BY <1>2
  <2>2. Placed(<<>>, f[0], order, at, 0)
    <3>1. 1..0 = {} /\ <<>> \in [1..0 -> 1..Len(f[0])]
      OBVIOUS
    <3> QED BY <2>1, <3>1 DEF Placed
  <2> QED BY <2>1, <2>2
<1>9. ASSUME NEW k \in Nat, k \in T
      PROVE  k + 1 \in T
  <2> SUFFICES ASSUME k + 1 <= n
               PROVE  /\ \E pos : Placed(pos, f[k + 1], order, at, k + 1)
                      /\ Early(f[k + 1], k + 1)
    OBVIOUS
  <2>1. k <= n /\ k + 1 \in 1..n /\ k \in 0..n /\ (k + 1) - 1 = k
    BY <1>5
  <2>2. PICK pos : Placed(pos, f[k], order, at, k)
    BY <1>9, <2>1
  <2>3. \A t \in 1..Len(f[k]) : f[k][t].ts <= at[k + 1]
    BY <1>9, <2>1
  <2> HIDE DEF n
  <2> DEFINE D == Drain(order, at, k + 1)
             e == Stop(at[k + 1], order[k + 1])
             u == f[k] \o <<e>>
  <2>4. f[k + 1] = u \o D
    BY <1>2, <2>1
  <2>5. at[k + 1] \in Nat /\ order[k + 1] \in Nat /\ f[k] \in Seq(Stops)
    BY <1>2, <1>5, <1>6, <2>1, SeasonAssumption
  <2>6. e \in Stops /\ e.ts = at[k + 1]
    BY <2>5 DEF Stop, Stops
  <2>7. D = <<>> \/ \E c \in Nat : D = <<Stop(c, 0)>> /\ (k + 1 < n => c < at[k + 2])
    <3>1. (k + 1) + 1 = k + 2
      OBVIOUS
    <3> QED BY <1>7, <2>1, <3>1
  <2> HIDE DEF D, e
  <2>8. /\ D \in Seq(Stops) /\ Len(D) \in {0, 1} /\ \A i \in 1..Len(D) : D[i].market = 0
        /\ k + 2 <= n => \A i \in 1..Len(D) : D[i].ts <= at[k + 2]
    <3>1. CASE D = <<>>
      <4>1. D \in Seq(Stops) /\ Len(D) = 0
        BY <3>1
      <4> QED BY <4>1
    <3>2. CASE D # <<>>
      <4>1. PICK c \in Nat : D = <<Stop(c, 0)>> /\ (k + 1 < n => c < at[k + 2])
        BY <2>7, <3>2
      <4>2. Stop(c, 0) \in Stops /\ Stop(c, 0).market = 0 /\ Stop(c, 0).ts = c
        BY DEF Stop, Stops
      <4>3. D \in Seq(Stops) /\ Len(D) = 1 /\ D[1] = Stop(c, 0)
        <5> DEFINE d == Stop(c, 0)
        <5> HIDE DEF d
        <5>1. <<d>> \in Seq(Stops) /\ Len(<<d>>) = 1 /\ <<d>>[1] = d
          BY <4>2 DEF d
        <5> QED BY <4>1, <5>1 DEF d
      <4>4. k + 2 <= n => c <= at[k + 2]
        <5> SUFFICES ASSUME k + 2 <= n
                     PROVE  c <= at[k + 2]
          OBVIOUS
        <5>1. k + 1 < n /\ k + 2 \in 1..n
          BY <1>5
        <5>2. at[k + 2] \in Nat
          BY <1>6, <5>1
        <5> QED BY <4>1, <5>1, <5>2
      <4> QED BY <4>2, <4>3, <4>4
    <3> QED BY <3>1, <3>2
  <2>9. \E p : Placed(p, f[k] \o <<e>> \o D, order, at, k + 1)
    BY <1>5, <1>6, <2>1, <2>2, <2>3, <2>5, <2>8, PlacedNext DEF e, n
  <2>10. Early(f[k + 1], k + 1)
    <3> SUFFICES ASSUME k + 2 <= n, NEW t \in 1..Len(u \o D)
                 PROVE  (u \o D)[t].ts <= at[k + 2]
      BY <2>4
    <3>1. k + 2 \in 1..n /\ (k + 1) + 1 = k + 2
      BY <1>5
    <3>2. at[k + 1] < at[k + 2] /\ at[k + 2] \in Nat
      BY <1>6, <2>1, <3>1
    <3>3. /\ u \in Seq(Stops) /\ Len(u) = Len(f[k]) + 1 /\ u[Len(f[k]) + 1] = e
          /\ \A i \in 1..Len(f[k]) : u[i] = f[k][i]
      BY <2>5, <2>6
    <3>4. /\ Len(u \o D) = Len(u) + Len(D)
          /\ \A i \in 1..(Len(u) + Len(D)) :
               (u \o D)[i] = IF i <= Len(u) THEN u[i] ELSE D[i - Len(u)]
      <4> HIDE DEF u
      <4> QED BY <2>8, <3>3, ConcatProperties
    <3>5. Len(f[k]) \in Nat /\ Len(D) \in Nat
      BY <2>5, <2>8
    <3> HIDE DEF u
    <3>6. CASE t \in 1..Len(f[k])
      <4>1. (u \o D)[t] = f[k][t] /\ f[k][t].ts <= at[k + 1]
        BY <2>3, <3>3, <3>4, <3>5, <3>6
      <4>2. f[k][t].ts \in Nat
        <5>1. f[k][t] \in Stops
          BY <2>5, <3>6
        <5> QED BY <5>1 DEF Stops
      <4> QED BY <2>5, <3>2, <4>1, <4>2
    <3>7. CASE t = Len(f[k]) + 1
      <4>1. (u \o D)[t] = e
        BY <3>3, <3>4, <3>5, <3>7
      <4> QED BY <2>5, <2>6, <3>2, <4>1
    <3>8. CASE t > Len(f[k]) + 1
      <4>1. t - Len(u) \in 1..Len(D) /\ (u \o D)[t] = D[t - Len(u)]
        BY <3>3, <3>4, <3>5, <3>8
      <4> QED BY <2>8, <4>1
    <3>9. t \in Nat /\ 1 <= t
      BY <3>3, <3>4, <3>5
    <3> QED BY <3>5, <3>6, <3>7, <3>8, <3>9
  <2> QED BY <2>4, <2>9, <2>10
<1>10. n \in T
  <2> HIDE DEF T
  <2>1. \A k \in Nat : k \in T
    BY <1>8, <1>9, Induct
  <2> QED BY <1>5, <2>1
<1>11. PICK pos : Placed(pos, f[n], order, at, n)
  BY <1>5, <1>10
<1> DEFINE s == f[n]
<1>12. s \in Seq(Stops) /\ BuildSchedule(S) = s
  BY <1>2, <1>5
<1>13. n > 0 => /\ Len(s) > 0 /\ s[Len(s)].market = 0
               /\ \A j \in 1..n : Due(order[j]) < s[Len(s)].ts
  <2> SUFFICES ASSUME n > 0
               PROVE  /\ Len(s) > 0 /\ s[Len(s)].market = 0
                      /\ \A j \in 1..n : Due(order[j]) < s[Len(s)].ts
    OBVIOUS
  <2>1. PICK c \in Nat : /\ Drain(order, at, n) = <<Stop(c, 0)>>
                         /\ \A j \in 1..n : Due(order[j]) < c
    BY <1>4
  <2>2. n \in 1..n /\ n - 1 \in 0..n
    BY <1>5
  <2> DEFINE e == Stop(at[n], order[n])
             d == Stop(c, 0)
  <2>3. s = f[n - 1] \o <<e>> \o <<d>>
    BY <1>2, <2>1, <2>2
  <2>4. at[n] \in Nat /\ order[n] \in Nat /\ f[n - 1] \in Seq(Stops)
    BY <1>2, <1>5, <1>6, <2>2, SeasonAssumption
  <2>5. e \in Stops /\ d \in Stops /\ d.market = 0 /\ d.ts = c
    BY <2>4 DEF Stop, Stops
  <2> HIDE DEF s, e, d
  <2>6. f[n - 1] \o <<e>> \in Seq(Stops)
    BY <2>4, <2>5
  <2> DEFINE u == f[n - 1] \o <<e>>
  <2> HIDE DEF u
  <2>7. u \in Seq(Stops) /\ s = u \o <<d>>
    BY <2>3, <2>6 DEF u
  <2>8. Len(s) = Len(u) + 1 /\ s[Len(u) + 1] = d /\ Len(u) \in Nat
    BY <2>5, <2>7
  <2> QED BY <2>1, <2>5, <2>8
<1>14. \A i \in 1..n : \A t \in 1..pos[i] : s[t].ts <= Entry(order[i]) + (i - 1)
  <2> SUFFICES ASSUME NEW i \in 1..n, NEW t \in 1..pos[i]
               PROVE  s[t].ts <= Entry(order[i]) + (i - 1)
    OBVIOUS
  <2>1. pos[i] \in 1..Len(s) /\ s[t].ts <= at[i]
    BY <1>11 DEF Placed
  <2>2. s[t] \in Stops
    <3>1. Len(s) \in Nat
      BY <1>12
    <3>2. t \in 1..Len(s)
      BY <2>1, <3>1
    <3> QED BY <1>12, <3>2
  <2>3. s[t].ts \in Nat /\ at[i] \in Nat /\ Entry(order[i]) \in Nat
    <3>1. s[t].ts \in Nat
      BY <2>2 DEF Stops
    <3>2. at[i] \in Nat /\ order[i] \in Markets
      BY <1>5, <1>6
    <3> QED BY <3>1, <3>2, TimesAreNumbers
  <2>4. at[i] <= Entry(order[i]) + (i - 1)
    BY <1>3
  <2> HIDE DEF s, n
  <2> QED BY <1>5, <2>1, <2>3, <2>4
<1>15. Laid(pos, s, order)
  <2> HIDE DEF s
  <2>1. Placed(pos, s, order, at, n)
    BY <1>11 DEF s
  <2> QED BY <1>12, <1>13, <1>14, <2>1 DEF Placed, Laid
<1> QED BY <1>12, <1>15 DEF order

-----------------------------------------------------------------------------
(* The season *)

\* The rows of the season in the order they are decided, and what is left of
\* them after c decisions.
SeasonOrder == Ordered(SeasonRows)

RestFrom(c) == {SeasonOrder[i] : i \in (c + 1)..Len(SeasonOrder)}

LifeSteps == {"rest", "polled", "tithed", "judged", "dying", "dead"}

SeasonEnds == {"between", "lost", "survived"}

\* A life that began after c decisions, its own at pos: the ones before the
\* tick are made, bets are on what it had left, and the last poll settles them.
Underway(c, pos) ==
  /\ c \in Nat /\ c <= Len(decided)
  /\ remaining = RestFrom(c)
  /\ Laid(pos, stops, Ordered(remaining))
  /\ tick \in Nat /\ 1 <= tick /\ tick <= Len(stops) + 1
  /\ \A i \in 1..Len(Ordered(remaining)) : pos[i] < tick <=> i <= Len(decided) - c
  /\ open \in Seq(remaining) /\ Len(open) <= Len(decided) - c
  /\ step = "polled" => tick <= Len(stops)
  /\ tick > Len(stops) \/ (step = "polled" /\ tick = Len(stops)) => open = <<>>

\* What is decided is the first rows of the season, what is left the others.
DecidedInv ==
  step # "idle" => /\ decided \in Seq(Markets) /\ Len(decided) <= Len(SeasonOrder)
                   /\ \A i \in 1..Len(decided) : decided[i] = SeasonOrder[i]

BetweenInv ==
  /\ step \in SeasonEnds => remaining = RestFrom(Len(decided))
  /\ step = "survived" => remaining = {} /\ open = <<>>

SeasonInv ==
  /\ Cached /\ step \in LifeSteps \cup SeasonEnds \cup {"idle"}
  /\ DecidedInv /\ BetweenInv
  /\ step \in LifeSteps => \E c, pos : Underway(c, pos)

\* The rows of a season are markets, sorted.
LEMMA SeasonSorted ==
  ASSUME Cached
  PROVE  /\ SeasonRows \in SUBSET Markets /\ SortedOf(SeasonOrder, SeasonRows)
         /\ SeasonOrder \in Seq(Markets) /\ Len(SeasonOrder) \in Nat
         /\ \A i \in 1..Len(SeasonOrder) : SeasonOrder[i] \in SeasonRows
<1>1. SeasonRows \in SUBSET Markets
  BY DEF SeasonRows, Train, Holdout
<1>2. SortedOf(SeasonOrder, SeasonRows)
  BY <1>1, OrderedIsSorted DEF SeasonOrder
<1> HIDE DEF SeasonRows, SeasonOrder
<1>3. SeasonOrder \in Seq(SeasonRows)
  BY <1>2 DEF SortedOf
<1> QED BY <1>1, <1>2, <1>3

\* The rows of a season are distinct.
LEMMA SeasonDistinct ==
  ASSUME Cached, NEW i \in 1..Len(SeasonOrder), NEW j \in 1..Len(SeasonOrder), i # j
  PROVE  SeasonOrder[i] # SeasonOrder[j]
<1>1. /\ Len(SeasonOrder) \in Nat
      /\ SeasonOrder[i] \in Markets /\ SeasonOrder[j] \in Markets
      /\ \A a, b \in 1..Len(SeasonOrder) : a < b => Before(SeasonOrder[a], SeasonOrder[b])
  BY SeasonSorted DEF SortedOf
<1>2. i < j \/ j < i
  BY <1>1
<1>3. Before(SeasonOrder[i], SeasonOrder[j]) \/ Before(SeasonOrder[j], SeasonOrder[i])
  BY <1>1, <1>2
<1> QED BY <1>1, <1>3, BeforeIsOrder

\* What a life finds left is the tail of the season.
LEMMA LifeOrder ==
  ASSUME Cached, NEW c \in Nat, c <= Len(SeasonOrder)
  PROVE  /\ RestFrom(c) \in SUBSET Markets
         /\ Len(Ordered(RestFrom(c))) = Len(SeasonOrder) - c
         /\ \A i \in 1..(Len(SeasonOrder) - c) :
              Ordered(RestFrom(c))[i] = SeasonOrder[c + i]
<1>1. SeasonRows \in SUBSET Markets /\ Len(SeasonOrder) \in Nat
  BY SeasonSorted
<1>2. c \in 0..Len(Ordered(SeasonRows))
  BY <1>1 DEF SeasonOrder
<1> QED BY <1>1, <1>2, OrderedRest DEF SeasonOrder, RestFrom

\* The order depends on the rows and the cached times alone.
LEMMA SeasonStands ==
  ASSUME UNCHANGED timing, SeasonRows' = SeasonRows
  PROVE  SeasonOrder' = SeasonOrder
BY DEF SeasonOrder, Ordered, Before, Entry

\* So does the schedule of a life.
LEMMA LifeStands ==
  ASSUME UNCHANGED <<timing, stops, remaining>>, NEW pos,
         Laid(pos, stops, Ordered(remaining))
  PROVE  Laid(pos, stops, Ordered(remaining))' /\ Ordered(remaining)' = Ordered(remaining)
<1>1. Ordered(remaining)' = Ordered(remaining)
  BY DEF Ordered, Before, Entry
<1> QED BY <1>1 DEF Laid, Entry, Due

\* Where a life stands within its season.
LEMMA LifeFacts ==
  ASSUME SeasonInv, NEW c, NEW pos, Underway(c, pos), step # "idle"
  PROVE  LET r == Ordered(remaining)
             n == Len(r)
             d == Len(decided) - c
         IN /\ n = Len(SeasonOrder) - c /\ d \in 0..n
            /\ \A i \in 1..n : r[i] = SeasonOrder[c + i]
            /\ \A i \in 1..n : r[i] \in Markets /\ r[i] \in remaining
            /\ \A m \in remaining : \E i \in 1..n : m = r[i]
            /\ remaining \in SUBSET Markets /\ Len(stops) \in Nat
            /\ \A i \in 1..n : pos[i] \in 1..Len(stops)
<1> DEFINE r == Ordered(remaining)
           n == Len(r)
<1>1. Cached /\ Len(SeasonOrder) \in Nat /\ c \in Nat /\ c <= Len(decided)
      /\ Len(decided) \in Nat /\ Len(decided) <= Len(SeasonOrder)
  BY SeasonSorted DEF SeasonInv, DecidedInv, Underway
<1>2. c <= Len(SeasonOrder)
  BY <1>1
<1>3. remaining = RestFrom(c)
  BY DEF Underway
<1>4. /\ remaining \in SUBSET Markets /\ n = Len(SeasonOrder) - c
      /\ \A i \in 1..(Len(SeasonOrder) - c) : r[i] = SeasonOrder[c + i]
  BY <1>1, <1>2, <1>3, LifeOrder
<1>5. SortedOf(r, remaining)
  BY <1>1, <1>4, OrderedIsSorted
<1> HIDE DEF r
<1>6. /\ r \in Seq(remaining) /\ \A i \in 1..n : r[i] \in remaining
      /\ \A m \in remaining : \E i \in 1..n : m = r[i]
  BY <1>5 DEF SortedOf
<1>7. Len(stops) \in Nat /\ \A i \in 1..n : pos[i] \in 1..Len(stops)
  <2>1. Laid(pos, stops, r)
    BY DEF Underway, r
  <2>2. stops \in Seq(Stops) /\ pos \in [1..n -> 1..Len(stops)]
    BY <2>1 DEF Laid
  <2> QED BY <2>2
<1>8. n = Len(SeasonOrder) - c /\ Len(decided) - c \in 0..n
  BY <1>1, <1>2, <1>4
<1>9. /\ \A i \in 1..n : r[i] = SeasonOrder[c + i]
      /\ \A i \in 1..n : r[i] \in Markets /\ r[i] \in remaining
  BY <1>4, <1>6, <1>8
<1> HIDE DEF n
<1> QED BY <1>4, <1>6, <1>7, <1>8, <1>9 DEF r, n

\* A step of a life that neither reads the schedule nor decides.
LEMMA LifeKept ==
  ASSUME NEW c, NEW pos, Underway(c, pos), SeasonOrder' = SeasonOrder,
         UNCHANGED <<timing, stops, tick, open, decided, remaining>>,
         step' # "polled"
  PROVE  Underway(c, pos)'
<1>1. Laid(pos, stops, Ordered(remaining))' /\ Ordered(remaining)' = Ordered(remaining)
  BY LifeStands DEF Underway
<1>2. RestFrom(c)' = RestFrom(c)
  BY DEF RestFrom
<1> QED BY <1>1, <1>2 DEF Underway

\* The last stop has no market.
LEMMA LastIsCheckpoint ==
  ASSUME NEW s, NEW order, NEW pos, Laid(pos, s, order), Len(order) \in Nat, Len(s) \in Nat,
         Len(s) > 0
  PROVE  s[Len(s)].market = 0
<1>1. CASE Len(order) > 0
  BY <1>1 DEF Laid
<1>2. CASE ~(Len(order) > 0)
  <2>1. Len(s) \in 1..Len(s) /\ 1..Len(order) = {}
    BY <1>2
  <2> QED BY <2>1 DEF Laid
<1> QED BY <1>1, <1>2

\* At a tick of the schedule the clock starts at its stop.
LEMMA PinnedAt ==
  ASSUME NEW t \in 1..Len(stops), stops \in Seq(Stops)
  PROVE  Pinned(t) = stops[t].ts /\ Pinned(t) \in Nat
<1> DEFINE L == Len(stops)
<1>1. t \in Nat /\ L \in Nat /\ t <= L
  OBVIOUS
<1>2. Min({t, L}) = t
  <2> HIDE DEF L
  <2>1. t \in {t, L} /\ \A y \in {t, L} : t <= y
    BY <1>1
  <2>2. \A y \in {t, L} : (\A z \in {t, L} : y <= z) => y = t
    BY <1>1
  <2> QED BY <2>1, <2>2 DEF Min
<1>3. stops[t] \in Stops
  OBVIOUS
<1> QED BY <1>2, <1>3 DEF Pinned, Stops

\* A poll settles some bets; the last poll settles them all.
LEMMA PollStep ==
  ASSUME SeasonInv, NEW c, NEW pos, Underway(c, pos), Poll, SeasonOrder' = SeasonOrder
  PROVE  Underway(c, pos)'
<1> DEFINE r == Ordered(remaining)
           now == Pinned(tick) + 2 * Advance
           late == {m \in Markets : timing[m].expected < now}
           due == Kept(open, late)
           done == Resolved(due, now)
<1>1. /\ step = "rest" /\ step' = "polled" /\ tick <= Len(stops)
      /\ UNCHANGED <<timing, stops, tick, decided, remaining>>
      /\ open' = Kept(open, Markets \ done)
  BY DEF Poll
<1>2. /\ Len(r) = Len(SeasonOrder) - c /\ Len(decided) - c \in 0..Len(r)
      /\ \A i \in 1..Len(r) : r[i] \in Markets /\ r[i] \in remaining
      /\ \A m \in remaining : \E i \in 1..Len(r) : m = r[i]
      /\ remaining \in SUBSET Markets /\ Len(stops) \in Nat
  BY <1>1, LifeFacts
<1>3. Laid(pos, stops, r) /\ open \in Seq(remaining) /\ Len(open) <= Len(decided) - c
  BY DEF Underway
<1>4. Laid(pos, stops, Ordered(remaining))' /\ Ordered(remaining)' = Ordered(remaining)
      /\ RestFrom(c)' = RestFrom(c)
  BY <1>1, <1>3, LifeStands DEF RestFrom
<1>5. Len(r) \in Nat /\ tick \in Nat /\ Len(open) \in Nat
  BY <1>2, <1>3 DEF Underway
<1>6. open' \in Seq(remaining) /\ Len(open') <= Len(open)
  BY <1>1, <1>3, KeptSeq, KeptShorter
<1>7. ASSUME tick = Len(stops)
      PROVE  open' = <<>>
  <2> HIDE DEF r
  <2>1. CASE Len(r) = 0
    <3>1. Len(open) = 0
      BY <1>2, <1>3, <1>5, <2>1
    <3>2. open = <<>>
      BY <1>3, <3>1
    <3> QED BY <1>1, <3>2, KeptEmpty
  <2>2. CASE Len(r) > 0
    <3>1. stops \in Seq(Stops) /\ Len(stops) \in Nat /\ Len(stops) > 0
          /\ \A j \in 1..Len(r) : Due(r[j]) < stops[Len(stops)].ts
      BY <1>3, <2>2 DEF Laid
    <3>2. tick \in 1..Len(stops)
      BY <1>7, <3>1
    <3>3. Pinned(tick) = stops[Len(stops)].ts /\ Pinned(tick) \in Nat
      BY <1>7, <3>1, <3>2, PinnedAt
    <3> HIDE DEF now
    <3>4. now \in Nat /\ now = Pinned(tick) + 2
      BY <3>3 DEF now, Advance
    <3>5. ASSUME NEW i \in 1..Len(open)
          PROVE  /\ open[i] \in Markets /\ timing[open[i]].expected < now
                 /\ timing[open[i]].resolution <= now + i * Advance
      <4>1. open[i] \in remaining
        BY <1>3
      <4>2. PICK j \in 1..Len(r) : open[i] = r[j]
        BY <1>2, <4>1
      <4>3. Due(open[i]) < Pinned(tick) /\ open[i] \in Markets
        BY <1>2, <3>1, <3>3, <4>2
      <4>4. /\ Due(open[i]) \in Nat /\ timing[open[i]].expected \in Nat
            /\ timing[open[i]].resolution \in Nat
            /\ timing[open[i]].expected <= Due(open[i])
            /\ timing[open[i]].resolution <= Due(open[i])
        BY <4>3, DueIsTime, TimesAreNumbers DEF SeasonInv
      <4>5. i \in Nat
        BY <1>5
      <4> DEFINE p == Pinned(tick)
                 u == Due(open[i])
                 x == timing[open[i]].expected
                 y == timing[open[i]].resolution
      <4>6. /\ p \in Nat /\ now = p + 2 /\ u < p /\ u \in Nat /\ x \in Nat
            /\ y \in Nat /\ x <= u /\ y <= u
        BY <3>3, <3>4, <4>3, <4>4
      <4> HIDE DEF p, u, x, y
      <4>7. x < now /\ y <= now + i * 1
        BY <4>5, <4>6
      <4> QED BY <4>3, <4>7 DEF Advance, x, y
    <3>6. due = open
      <4>1. \A i \in 1..Len(open) : open[i] \in late
        BY <3>5
      <4> HIDE DEF late
      <4> QED BY <1>3, <4>1, KeptAll
    <3> HIDE DEF due, late
    <3>7. \A i \in 1..Len(open) : open[i] \notin Markets \ done
      <4>1. \A i \in 1..Len(open) : open[i] \in done
        BY <3>5, <3>6 DEF Resolved
      <4> QED BY <4>1
    <3> HIDE DEF done
    <3> QED BY <1>1, <1>3, <3>7, KeptNone
  <2> QED BY <1>5, <2>1, <2>2
<1> HIDE DEF done
<1>8. Len(open') \in Nat /\ Len(decided) - c \in Nat
  BY <1>2, <1>5, <1>6
<1>9. Len(open') <= Len(decided) - c
  BY <1>3, <1>5, <1>6, <1>8
<1> HIDE DEF r
<1>10. ~(tick > Len(stops))
  BY <1>1, <1>2, <1>5
<1> QED BY <1>1, <1>4, <1>6, <1>7, <1>9, <1>10 DEF Underway

\* The market of a decision is the next of the season.
LEMMA NextMarket ==
  ASSUME SeasonInv, NEW c, NEW pos, Underway(c, pos), step # "idle",
         tick <= Len(stops), stops[tick].market # 0
  PROVE  LET i == Len(decided) - c + 1
         IN /\ i \in 1..Len(Ordered(remaining)) /\ pos[i] = tick
            /\ c + i = Len(decided) + 1 /\ Len(decided) + 1 \in 1..Len(SeasonOrder)
            /\ stops[tick].market = SeasonOrder[Len(decided) + 1]
<1> DEFINE r == Ordered(remaining)
           n == Len(r)
           d == Len(decided) - c
<1>1. /\ n = Len(SeasonOrder) - c /\ d \in 0..n
      /\ \A i \in 1..n : r[i] = SeasonOrder[c + i]
      /\ Len(stops) \in Nat /\ \A i \in 1..n : pos[i] \in 1..Len(stops)
  BY LifeFacts
<1>2. /\ tick \in 1..Len(stops) /\ c \in Nat
      /\ \A i \in 1..n : pos[i] < tick <=> i <= d
      /\ Laid(pos, stops, r)
  BY <1>1 DEF Underway
<1>3. Len(SeasonOrder) \in Nat /\ Len(decided) \in Nat
  BY SeasonSorted DEF SeasonInv, DecidedInv
<1> HIDE DEF r
<1>4. n \in Nat /\ d \in Nat /\ d <= n
  BY <1>1, <1>2, <1>3
<1>5. PICK i \in 1..n : tick = pos[i]
  BY <1>2 DEF Laid
<1>6. ~(i <= d)
  BY <1>2, <1>5
<1> HIDE DEF d, n
<1>7. d + 1 \in 1..n
  BY <1>4, <1>5, <1>6
<1>8. i = d + 1
  <2> SUFFICES ASSUME i # d + 1
               PROVE  FALSE
    OBVIOUS
  <2>1. d + 1 < i
    BY <1>4, <1>6
  <2>2. pos[d + 1] < pos[i]
    BY <1>2, <1>7, <2>1 DEF Laid, n
  <2>3. d + 1 <= d
    BY <1>2, <1>5, <1>7, <2>2
  <2> QED BY <1>4, <2>3
<1>9. c + (d + 1) = Len(decided) + 1 /\ Len(decided) + 1 \in 1..Len(SeasonOrder)
  BY <1>1, <1>2, <1>3, <1>7 DEF d, n
<1>10. stops[tick].market = r[d + 1] /\ r[d + 1] = SeasonOrder[c + (d + 1)]
  BY <1>1, <1>2, <1>5, <1>7, <1>8 DEF Laid, n
<1> QED BY <1>5, <1>7, <1>8, <1>9, <1>10 DEF d, n, r

\* A decision is the next market's, or none.
LEMMA DecideStep ==
  ASSUME SeasonInv, NEW c, NEW pos, Underway(c, pos), NEW b \in BOOLEAN, Decide(b),
         SeasonOrder' = SeasonOrder
  PROVE  Underway(c, pos)' /\ DecidedInv'
<1> DEFINE r == Ordered(remaining)
           n == Len(r)
           d == Len(decided) - c
           m == stops[tick].market
<1>1. /\ step = "polled" /\ step' \in {"tithed", "judged"} /\ tick' = tick + 1
      /\ UNCHANGED <<timing, stops, remaining>>
      /\ open' = IF b THEN Append(open, m) ELSE open
      /\ decided' = IF m = 0 THEN decided ELSE Append(decided, m)
      /\ b => m # 0
  BY DEF Decide, seasonVars
<1>2. /\ n = Len(SeasonOrder) - c /\ d \in 0..n
      /\ \A i \in 1..n : r[i] = SeasonOrder[c + i]
      /\ \A i \in 1..n : r[i] \in Markets /\ r[i] \in remaining
      /\ remaining \in SUBSET Markets
      /\ Len(stops) \in Nat /\ \A i \in 1..n : pos[i] \in 1..Len(stops)
  BY <1>1, LifeFacts
<1>3. /\ tick \in 1..Len(stops) /\ c \in Nat /\ remaining = RestFrom(c)
      /\ \A i \in 1..n : pos[i] < tick <=> i <= d
      /\ Laid(pos, stops, r) /\ open \in Seq(remaining) /\ Len(open) <= d
      /\ tick = Len(stops) => open = <<>>
  BY <1>1, <1>2 DEF Underway
<1>4. Laid(pos, stops, Ordered(remaining))' /\ Ordered(remaining)' = r
      /\ RestFrom(c)' = RestFrom(c)
  BY <1>1, <1>3, LifeStands DEF RestFrom
<1>5. /\ decided \in Seq(Markets) /\ Len(decided) <= Len(SeasonOrder)
      /\ \A i \in 1..Len(decided) : decided[i] = SeasonOrder[i]
      /\ Len(SeasonOrder) \in Nat /\ Len(decided) \in Nat /\ c <= Len(decided)
  BY <1>1, SeasonSorted DEF SeasonInv, DecidedInv, Underway
<1>6. \A i \in 1..n : stops[pos[i]].market = r[i] /\ r[i] # 0 /\ pos[i] \in Nat
  <2> TAKE i \in 1..n
  <2>1. stops[pos[i]].market = r[i]
    BY <1>3 DEF Laid
  <2>2. r[i] \in Markets /\ pos[i] \in 1..Len(stops)
    BY <1>2
  <2> HIDE DEF r
  <2> QED BY <1>2, <2>1, <2>2, SeasonAssumption
<1>7. tick + 1 \in Nat /\ 1 <= tick + 1 /\ tick + 1 <= Len(stops) + 1
  BY <1>2, <1>3
<1> HIDE DEF r, m
<1>8. CASE m = 0
  <2>1. decided' = decided /\ open' = open /\ ~b
    BY <1>1, <1>8
  <2>2. ASSUME NEW i \in 1..n
        PROVE  pos[i] < tick + 1 <=> i <= d
    <3>1. pos[i] # tick
      BY <1>6, <1>8 DEF m
    <3> QED BY <1>3, <1>6, <3>1
  <2>3. tick + 1 > Len(stops) => open = <<>>
    BY <1>2, <1>3
  <2>4. Underway(c, pos)'
    <3>1. Len(decided') - c = d /\ Ordered(remaining)' = r
      BY <1>4, <2>1
    <3> QED BY <1>1, <1>3, <1>4, <1>5, <1>7, <2>1, <2>2, <2>3, <3>1 DEF Underway
  <2> QED BY <1>5, <2>1, <2>4 DEF DecidedInv
<1>9. CASE m # 0
  <2> DEFINE i == d + 1
  <2>1. /\ i \in 1..n /\ pos[i] = tick /\ c + i = Len(decided) + 1
        /\ Len(decided) + 1 \in 1..Len(SeasonOrder) /\ m = SeasonOrder[Len(decided) + 1]
    <3>1. tick <= Len(stops)
      BY <1>2, <1>3
    <3> QED BY <1>1, <1>9, <3>1, NextMarket DEF m, r
  <2>2. m \in Markets /\ m \in remaining
    BY <1>6, <1>2, <2>1 DEF m
  <2>3. /\ decided' = Append(decided, m) /\ decided' \in Seq(Markets)
        /\ Len(decided') = Len(decided) + 1 /\ decided'[Len(decided) + 1] = m
        /\ \A j \in 1..Len(decided) : decided'[j] = decided[j]
    <3>1. decided' = Append(decided, m)
      BY <1>1, <1>9
    <3> QED BY <1>5, <2>2, <3>1
  <2>4. Len(decided') - c = i /\ d \in Nat
    BY <1>2, <1>3, <1>5, <2>3
  <2>5. ASSUME NEW j \in 1..n
        PROVE  pos[j] < tick + 1 <=> j <= i
    <3>1. j < i => pos[j] < pos[i]
      BY <1>3, <2>1 DEF Laid
    <3>2. j > i => pos[i] < pos[j]
      BY <1>3, <2>1 DEF Laid
    <3>3. pos[j] \in Nat /\ pos[i] = tick /\ tick \in Nat /\ i \in Nat /\ j \in Nat
      <4>1. pos[j] \in Nat /\ pos[i] = tick
        BY <1>6, <2>1
      <4>2. tick \in Nat
        BY <1>3
      <4>3. i \in Nat /\ j \in Nat
        <5> HIDE DEF d
        <5> QED BY <2>4
      <4> QED BY <4>1, <4>2, <4>3
    <3> HIDE DEF i
    <3>4. CASE j < i
      BY <3>1, <3>3, <3>4
    <3>5. CASE j = i
      BY <3>3, <3>5
    <3>6. CASE j > i
      BY <3>2, <3>3, <3>6
    <3> QED BY <3>3, <3>4, <3>5, <3>6
  <2>6. open' \in Seq(remaining) /\ Len(open') <= i
    <3>1. CASE b
      <4>1. open' = Append(open, m)
        BY <1>1, <3>1
      <4>2. open' \in Seq(remaining) /\ Len(open') = Len(open) + 1 /\ Len(open) \in Nat
        BY <1>3, <2>2, <4>1
      <4> HIDE DEF d
      <4> QED BY <1>3, <2>4, <4>2
    <3>2. CASE ~b
      <4>1. open' = open /\ Len(open) \in Nat
        BY <1>1, <1>3, <3>2
      <4> HIDE DEF d
      <4> QED BY <1>3, <2>4, <4>1
    <3> QED BY <3>1, <3>2
  <2>7. ~(tick + 1 > Len(stops))
    <3>1. n \in Nat /\ Len(stops) > 0
      BY <1>2, <1>3, <1>5
    <3>2. stops[Len(stops)].market = 0
      BY <1>2, <1>3, <3>1, LastIsCheckpoint DEF n
    <3>3. tick # Len(stops)
      BY <1>9, <3>2 DEF m
    <3> QED BY <1>2, <1>3, <3>3
  <2>8. Underway(c, pos)'
    <3>1. c <= Len(decided')
      BY <1>5, <2>3, <1>3
    <3>2. \A j \in 1..Len(Ordered(remaining)') : pos[j] < tick' <=> j <= Len(decided') - c
      BY <1>1, <1>4, <2>4, <2>5
    <3>3. Len(open') <= Len(decided') - c
      BY <2>4, <2>6
    <3>4. tick' \in Nat /\ 1 <= tick' /\ tick' <= Len(stops') + 1 /\ ~(tick' > Len(stops'))
      BY <1>1, <1>7, <2>7
    <3>5. remaining' = RestFrom(c)' /\ open' \in Seq(remaining') /\ step' # "polled"
      BY <1>1, <1>3, <1>4, <2>6
    <3> QED BY <1>3, <1>4, <3>1, <3>2, <3>3, <3>4, <3>5 DEF Underway
  <2>9. DecidedInv'
    <3>1. Len(decided') <= Len(SeasonOrder)
      BY <1>5, <2>1, <2>3
    <3>2. ASSUME NEW j \in 1..Len(decided')
          PROVE  decided'[j] = SeasonOrder[j]
      <4>1. j \in 1..Len(decided) \/ j = Len(decided) + 1
        BY <1>5, <2>3
      <4> QED BY <1>5, <2>1, <2>3, <4>1
    <3> QED BY <2>3, <3>1, <3>2 DEF DecidedInv
  <2> QED BY <2>8, <2>9
<1> QED BY <1>8, <1>9

\* What a life leaves is the season from its last decision on.
LEMMA LifeLeaves ==
  ASSUME SeasonInv, NEW c, NEW pos, Underway(c, pos), step # "idle"
  PROVE  remaining \ Consumed = RestFrom(Len(decided))
<1> DEFINE r == Ordered(remaining)
           n == Len(r)
           d == Len(decided) - c
           N == Len(SeasonOrder)
<1>1. /\ n = N - c /\ d \in 0..n
      /\ \A i \in 1..n : r[i] = SeasonOrder[c + i]
      /\ \A i \in 1..n : r[i] \in Markets /\ r[i] \in remaining
      /\ \A m \in remaining : \E i \in 1..n : m = r[i]
      /\ Len(stops) \in Nat /\ \A i \in 1..n : pos[i] \in 1..Len(stops)
  BY LifeFacts
<1>2. /\ tick \in 1..(Len(stops) + 1) /\ c \in Nat
      /\ \A i \in 1..n : pos[i] < tick <=> i <= d
      /\ Laid(pos, stops, r)
  BY <1>1 DEF Underway
<1>3. N \in Nat /\ Len(decided) \in Nat /\ Cached
  BY SeasonSorted DEF SeasonInv, DecidedInv
<1>4. \A i, j \in 1..n : r[i] = r[j] => i = j
  <2> SUFFICES ASSUME NEW i \in 1..n, NEW j \in 1..n, i # j
               PROVE  r[i] # r[j]
    OBVIOUS
  <2>1. c + i \in 1..N /\ c + j \in 1..N /\ c + i # c + j
    <3> HIDE DEF n, N
    <3> QED BY <1>1, <1>2, <1>3
  <2>2. SeasonOrder[c + i] # SeasonOrder[c + j]
    BY <1>3, <2>1, SeasonDistinct
  <2> QED BY <1>1, <2>2
<1> HIDE DEF r
<1>5. \A i \in 1..n : r[i] \in Consumed <=> i <= d
  <2> TAKE i \in 1..n
  <2>1. pos[i] \in 1..Len(stops) /\ stops[pos[i]].market = r[i] /\ r[i] # 0
    <3>1. r[i] \in Markets /\ stops[pos[i]].market = r[i]
      BY <1>1, <1>2 DEF Laid
    <3> QED BY <1>1, <3>1, SeasonAssumption
  <2>2. ASSUME i <= d
        PROVE  r[i] \in Consumed
    <3>1. pos[i] \in 1..(tick - 1)
      <4>1. pos[i] < tick
        BY <1>2, <2>2
      <4> QED BY <1>1, <1>2, <2>1, <4>1
    <3> QED BY <2>1, <3>1 DEF Consumed
  <2>3. ASSUME r[i] \in Consumed
        PROVE  i <= d
    <3>1. PICK t \in 1..(tick - 1) : stops[t].market = r[i]
      BY <2>3 DEF Consumed
    <3>2. t \in 1..Len(stops) /\ t < tick
      BY <1>1, <1>2
    <3>3. PICK j \in 1..n : t = pos[j]
      BY <1>2, <2>1, <3>1, <3>2 DEF Laid
    <3>4. j <= d
      BY <1>2, <3>2, <3>3
    <3>5. r[j] = r[i]
      BY <1>2, <3>1, <3>3 DEF Laid
    <3> QED BY <1>4, <3>4, <3>5
  <2> QED BY <2>2, <2>3
<1>6. RestFrom(Len(decided)) = {r[i] : i \in (d + 1)..n}
  <2>1. ASSUME NEW k \in (Len(decided) + 1)..N
        PROVE  SeasonOrder[k] \in {r[i] : i \in (d + 1)..n}
    <3>1. k - c \in (d + 1)..n /\ k - c \in 1..n /\ c + (k - c) = k
      <4> HIDE DEF n, N
      <4> QED BY <1>1, <1>2, <1>3
    <3> QED BY <1>1, <3>1
  <2>2. ASSUME NEW i \in (d + 1)..n
        PROVE  r[i] \in RestFrom(Len(decided))
    <3>1. c + i \in (Len(decided) + 1)..N /\ i \in 1..n
      <4> HIDE DEF n, N
      <4> QED BY <1>1, <1>2, <1>3
    <3> QED BY <1>1, <3>1 DEF RestFrom
  <2> QED BY <2>1, <2>2 DEF RestFrom
<1>7. \A i \in 1..n : i > d <=> ~(i <= d)
  <2> HIDE DEF d, n
  <2> QED BY <1>1, <1>2, <1>3 DEF d
<1>8. \A i \in (d + 1)..n : i \in 1..n /\ i > d
  <2> HIDE DEF n
  <2> QED BY <1>1, <1>2, <1>3
<1>9. \A i \in 1..n : i > d => i \in (d + 1)..n
  <2> HIDE DEF n
  <2> QED BY <1>1, <1>2, <1>3
<1> HIDE DEF d, n
<1>10. \A x : x \in remaining \ Consumed <=> x \in {r[i] : i \in (d + 1)..n}
  <2> TAKE x
  <2>1. ASSUME x \in remaining \ Consumed
        PROVE  x \in {r[i] : i \in (d + 1)..n}
    <3>1. PICK i \in 1..n : x = r[i]
      BY <1>1, <2>1
    <3>2. ~(i <= d)
      BY <1>5, <2>1, <3>1
    <3> QED BY <1>7, <1>9, <3>1, <3>2
  <2>2. ASSUME x \in {r[i] : i \in (d + 1)..n}
        PROVE  x \in remaining \ Consumed
    <3>1. PICK i \in (d + 1)..n : x = r[i]
      BY <2>2
    <3>2. i \in 1..n /\ ~(i <= d)
      BY <1>7, <1>8
    <3> QED BY <1>1, <1>5, <3>1, <3>2
  <2> QED BY <2>1, <2>2
<1> QED BY <1>6, <1>10

\* A life begins with a schedule of what is left.
LEMMA BeginStep ==
  ASSUME SeasonInv, BeginLife, SeasonOrder' = SeasonOrder
  PROVE  \E c, pos : Underway(c, pos)'
<1> DEFINE c == Len(decided)
           r == Ordered(remaining)
<1>1. /\ step = "between" /\ step' = "rest" /\ stops' = BuildSchedule(remaining) /\ tick' = 1
      /\ open' = <<>> /\ UNCHANGED <<timing, remaining, decided>>
  BY DEF BeginLife, seasonVars
<1>2. Cached /\ remaining = RestFrom(c) /\ c \in Nat /\ c <= Len(SeasonOrder)
      /\ Len(SeasonOrder) \in Nat
  BY <1>1, SeasonSorted DEF SeasonInv, DecidedInv, BetweenInv, SeasonEnds
<1>3. remaining \in SUBSET Markets
  BY <1>2, LifeOrder
<1>4. PICK pos : Laid(pos, BuildSchedule(remaining), r)
  BY <1>2, <1>3, ScheduleLaid
<1>5. r' = r /\ RestFrom(c)' = RestFrom(c)
  BY <1>1 DEF Ordered, Before, Entry, RestFrom
<1>6. Laid(pos, stops', r)
  BY <1>1, <1>4
<1>7. Laid(pos, stops, Ordered(remaining))'
  BY <1>1, <1>5, <1>6 DEF Laid, Entry, Due
<1> HIDE DEF r
<1>8. \A i \in 1..Len(r) : ~(pos[i] < 1) /\ ~(i <= 0)
  <2> TAKE i \in 1..Len(r)
  <2>1. stops' \in Seq(Stops) /\ pos[i] \in 1..Len(stops')
    BY <1>6 DEF Laid
  <2>2. Len(stops') \in Nat
    BY <2>1
  <2>3. r \in Seq(remaining)
    BY <1>2, <1>3, OrderedIsSorted DEF SortedOf, r
  <2> QED BY <2>1, <2>2, <2>3
<1>9. stops' \in Seq(Stops) /\ Len(stops') \in Nat
  BY <1>6 DEF Laid
<1>10. open' \in Seq(remaining) /\ Len(open') = 0
  BY <1>1
<1>11. Len(decided) - Len(decided) = 0
  BY <1>2
<1>12. Underway(c, pos)'
  <2>1. c \in Nat /\ c <= Len(decided') /\ Len(decided') - c = 0
    BY <1>1, <1>2, <1>11
  <2>2. \A i \in 1..Len(Ordered(remaining)') : pos[i] < tick' <=> i <= Len(decided') - c
    BY <1>1, <1>5, <1>8, <2>1 DEF r
  <2>3. tick' \in Nat /\ 1 <= tick' /\ tick' <= Len(stops') + 1
    BY <1>1, <1>9
  <2>4. remaining' = RestFrom(c)' /\ open' \in Seq(remaining') /\ step' # "polled"
        /\ Len(open') <= Len(decided') - c
    BY <1>1, <1>2, <1>5, <1>10, <2>1
  <2> HIDE DEF c
  <2> QED BY <1>1, <1>7, <2>1, <2>2, <2>3, <2>4 DEF Underway, c
<1> QED BY <1>12

\* A life that reaches the end of its schedule has decided everything.
LEMMA ScheduleDone ==
  ASSUME SeasonInv, NEW c, NEW pos, Underway(c, pos), step # "idle", tick > Len(stops)
  PROVE  RestFrom(Len(decided)) = {} /\ open = <<>>
<1> DEFINE n == Len(Ordered(remaining))
           d == Len(decided) - c
           N == Len(SeasonOrder)
<1>1. /\ n = N - c /\ d \in 0..n /\ Len(stops) \in Nat
      /\ \A i \in 1..n : pos[i] \in 1..Len(stops)
  BY LifeFacts
<1>2. /\ tick \in Nat /\ c \in Nat /\ open = <<>>
      /\ \A i \in 1..n : pos[i] < tick <=> i <= d
  BY DEF Underway
<1>3. N \in Nat /\ Len(decided) \in Nat
  BY SeasonSorted DEF SeasonInv, DecidedInv
<1> HIDE DEF n, N
<1>4. \A i \in 1..n : i <= d
  <2> TAKE i \in 1..n
  <2>1. pos[i] < tick
    BY <1>1, <1>2
  <2> QED BY <1>2, <2>1
<1>5. n = d
  <2>1. n # 0 => n \in 1..n
    BY <1>1, <1>2, <1>3
  <2> HIDE DEF d
  <2> QED BY <1>1, <1>2, <1>3, <1>4, <2>1
<1>6. (Len(decided) + 1)..N = {}
  BY <1>1, <1>2, <1>3, <1>5
<1> QED BY <1>2, <1>6 DEF RestFrom, N

\* The loop and the driver around it leave a season in order.
LEMMA LoopStep ==
  ASSUME SeasonInv, LifeNext, UNCHANGED <<design, stage, seed, advised>>
  PROVE  SeasonInv'
<1> USE DEF LifeSteps, SeasonEnds
<1>1. UNCHANGED timing
  BY DEF LifeNext, BeginLife, EndLife, Poll, Tithe, Live, Silence, Die, Decide,
     Tribute, seasonVars
<1>2. SeasonRows' = SeasonRows
  <2>1. Train' = Train
    BY <1>1 DEF Train, Ordered, Before, Entry
  <2> QED BY <2>1 DEF SeasonRows, Holdout
<1>3. SeasonOrder' = SeasonOrder /\ Cached'
  BY <1>1, <1>2, SeasonStands DEF SeasonInv, Cached
<1>4. \A k : RestFrom(k)' = RestFrom(k)
  BY <1>3 DEF RestFrom
<1>5. CASE BeginLife
  <2>1. step = "between" /\ step' = "rest" /\ decided' = decided
    BY <1>5 DEF BeginLife
  <2>2. \E c, pos : Underway(c, pos)'
    BY <1>3, <1>5, BeginStep
  <2>3. DecidedInv' /\ BetweenInv'
    BY <1>3, <2>1 DEF SeasonInv, DecidedInv, BetweenInv
  <2> QED BY <1>3, <2>1, <2>2, <2>3 DEF SeasonInv
<1>6. CASE EndLife
  <2>1. /\ step = "dead" \/ (step = "rest" /\ tick > Len(stops))
        /\ remaining' = remaining \ Consumed /\ UNCHANGED <<decided, open>>
        /\ step' \in SeasonEnds /\ (step' = "survived" => step # "dead")
    BY <1>6 DEF EndLife, lifeVars
  <2>2. PICK c, pos : Underway(c, pos)
    BY <2>1 DEF SeasonInv
  <2>3. step # "idle"
    BY <2>1
  <2>4. remaining' = RestFrom(Len(decided))
    BY <2>1, <2>2, <2>3, LifeLeaves
  <2>5. step' = "survived" => remaining' = {} /\ open' = <<>>
    BY <2>1, <2>2, <2>3, <2>4, ScheduleDone
  <2>6. BetweenInv'
    BY <1>4, <2>1, <2>4, <2>5 DEF BetweenInv
  <2>7. DecidedInv'
    BY <1>3, <2>1, <2>3 DEF SeasonInv, DecidedInv
  <2> QED BY <1>3, <2>1, <2>6, <2>7 DEF SeasonInv
<1>7. ASSUME step \in LifeSteps, step' \in LifeSteps, decided' = decided,
             NEW c, NEW pos, Underway(c, pos)'
      PROVE  SeasonInv'
  <2>1. DecidedInv' /\ BetweenInv'
    BY <1>3, <1>7 DEF SeasonInv, DecidedInv, BetweenInv
  <2> QED BY <1>3, <1>7, <2>1 DEF SeasonInv
<1>8. CASE Poll
  <2>1. step = "rest" /\ step' = "polled" /\ decided' = decided
    BY <1>8 DEF Poll
  <2>2. PICK c, pos : Underway(c, pos)
    BY <2>1 DEF SeasonInv
  <2>3. Underway(c, pos)'
    BY <1>3, <1>8, <2>2, PollStep
  <2> QED BY <1>7, <2>1, <2>3
<1>9. ASSUME NEW b \in BOOLEAN, Decide(b)
      PROVE  SeasonInv'
  <2>1. step = "polled" /\ step' \in {"tithed", "judged"}
    BY <1>9 DEF Decide
  <2>2. PICK c, pos : Underway(c, pos)
    BY <2>1 DEF SeasonInv
  <2>3. Underway(c, pos)' /\ DecidedInv'
    BY <1>3, <1>9, <2>2, DecideStep
  <2>4. BetweenInv'
    BY <2>1 DEF BetweenInv
  <2> QED BY <1>3, <2>1, <2>3, <2>4 DEF SeasonInv
<1>10. CASE Die
  <2>1. /\ step = "dying" /\ step' = "dead" /\ open' = <<>>
        /\ UNCHANGED <<timing, stops, tick, decided, remaining>>
    BY <1>10 DEF Die
  <2>2. PICK c, pos : Underway(c, pos)
    BY <2>1 DEF SeasonInv
  <2>3. Laid(pos, stops, Ordered(remaining))' /\ Ordered(remaining)' = Ordered(remaining)
    BY <2>1, <2>2, LifeStands DEF Underway
  <2>4. open' \in Seq(remaining) /\ Len(open') = 0 /\ Len(decided) - c \in Nat
    <3>1. Len(decided) - c \in 0..Len(Ordered(remaining))
      BY <2>1, <2>2, LifeFacts
    <3> QED BY <2>1, <3>1
  <2>5. Underway(c, pos)'
    <3>1. Len(open') <= Len(decided) - c
      BY <2>4
    <3> QED BY <1>4, <2>1, <2>2, <2>3, <2>4, <3>1 DEF Underway
  <2> QED BY <1>7, <2>1, <2>5
<1>11. CASE Tithe \/ Live \/ Silence
            \/ (\E amount \in 1..Max({0, bankroll}), b \in BOOLEAN : Tribute(amount, b))
  <2>1. /\ step \in {"tithed", "judged"} /\ step' \in {"judged", "rest", "dying"}
        /\ UNCHANGED <<timing, stops, tick, open, decided, remaining>>
    BY <1>11 DEF Tithe, Live, Silence, Tribute, seasonVars, lifeVars
  <2>2. PICK c, pos : Underway(c, pos)
    BY <2>1 DEF SeasonInv
  <2>3. Underway(c, pos)'
    BY <1>3, <2>1, <2>2, LifeKept
  <2> QED BY <1>7, <2>1, <2>3
<1> QED BY <1>5, <1>6, <1>8, <1>9, <1>10, <1>11 DEF LifeNext

\* So do the experiment's steps between seasons.
LEMMA SeasonStep ==
  ASSUME SeasonInv, [Next]_vars
  PROVE  SeasonInv'
<1> USE DEF LifeSteps, SeasonEnds
<1>1. ASSUME UNCHANGED timing, SeasonRows' = SeasonRows
      PROVE  SeasonOrder' = SeasonOrder /\ Cached' /\ \A k : RestFrom(k)' = RestFrom(k)
  BY <1>1, SeasonStands DEF SeasonInv, Cached, RestFrom
<1>2. ASSUME UNCHANGED timing
      PROVE  Train' = Train /\ Holdout' = Holdout
  BY <1>2 DEF Train, Holdout, Ordered, Before, Entry
<1>3. CASE StartSeason \/ StartVerdict
  <2>1. /\ step' = "between" /\ decided' = <<>> /\ remaining' = SeasonRows
        /\ UNCHANGED <<timing, stage>>
    BY <1>3 DEF StartSeason, StartVerdict, BeginSeason, SeasonRows
  <2>2. SeasonRows' = SeasonRows
    BY <1>2, <2>1 DEF SeasonRows
  <2>3. SeasonOrder' = SeasonOrder /\ Cached' /\ \A k : RestFrom(k)' = RestFrom(k)
    BY <1>1, <2>1, <2>2
  <2>4. RestFrom(0) = SeasonRows
    <3>1. SortedOf(SeasonOrder, SeasonRows) /\ Len(SeasonOrder) \in Nat
          /\ \A i \in 1..Len(SeasonOrder) : SeasonOrder[i] \in SeasonRows
      BY SeasonSorted DEF SeasonInv
    <3>2. \A m \in SeasonRows : \E i \in 1..Len(SeasonOrder) : SeasonOrder[i] = m
      BY <3>1 DEF SortedOf
    <3>3. (0 + 1)..Len(SeasonOrder) = 1..Len(SeasonOrder)
      OBVIOUS
    <3> QED BY <3>1, <3>2, <3>3 DEF RestFrom
  <2>5. Len(decided') = 0 /\ decided' \in Seq(Markets) /\ Len(SeasonOrder) \in Nat
    BY <2>1, SeasonSorted DEF SeasonInv
  <2>6. DecidedInv'
    BY <2>1, <2>3, <2>5 DEF DecidedInv
  <2>7. BetweenInv'
    <3>1. RestFrom(Len(decided))' = RestFrom(0)
      BY <2>3, <2>5 DEF RestFrom
    <3> QED BY <2>1, <2>4, <3>1 DEF BetweenInv
  <2> QED BY <2>1, <2>3, <2>6, <2>7 DEF SeasonInv
<1>4. ASSUME NEW b \in BOOLEAN, CarrySeed(b)
      PROVE  SeasonInv'
  <2>1. step' = "idle" /\ UNCHANGED timing
    BY <1>4 DEF CarrySeed
  <2> QED BY <2>1 DEF SeasonInv, DecidedInv, BetweenInv, Cached
<1>5. CASE Conclude
  <2>1. /\ step \in {"lost", "survived"} /\ UNCHANGED <<timing, step, decided, remaining, open>>
        /\ stage = "verdict" /\ stage' = "done"
    BY <1>5 DEF Conclude, SeasonOver, allSeasonVars, seasonVars, lifeVars
  <2>2. SeasonRows' = SeasonRows
    BY <1>2, <2>1 DEF SeasonRows
  <2>3. SeasonOrder' = SeasonOrder /\ Cached' /\ \A k : RestFrom(k)' = RestFrom(k)
    BY <1>1, <2>1, <2>2
  <2> QED BY <2>1, <2>3 DEF SeasonInv, DecidedInv, BetweenInv
<1>6. CASE UNCHANGED vars
  <2>1. UNCHANGED <<timing, stage, step, decided, remaining, open, stops, tick>>
    BY <1>6 DEF vars, allSeasonVars, seasonVars, lifeVars
  <2>2. SeasonRows' = SeasonRows
    BY <1>2, <2>1 DEF SeasonRows
  <2>3. SeasonOrder' = SeasonOrder /\ Cached' /\ \A k : RestFrom(k)' = RestFrom(k)
    BY <1>1, <2>1, <2>2
  <2>4. DecidedInv' /\ BetweenInv'
    BY <2>1, <2>3 DEF SeasonInv, DecidedInv, BetweenInv
  <2>5. ASSUME step \in LifeSteps
        PROVE  \E c, pos : Underway(c, pos)'
    <3>1. PICK c, pos : Underway(c, pos)
      BY <2>5 DEF SeasonInv
    <3>2. Laid(pos, stops, Ordered(remaining))' /\ Ordered(remaining)' = Ordered(remaining)
      BY <2>1, <3>1, LifeStands DEF Underway
    <3>3. Underway(c, pos)'
      BY <2>1, <2>3, <3>1, <3>2 DEF Underway
    <3> QED BY <3>3
  <2> QED BY <2>1, <2>3, <2>4, <2>5 DEF SeasonInv
<1> QED BY <1>3, <1>4, <1>5, <1>6, LoopStep DEF Next

\* The experiment begins before any season.
LEMMA SeasonBegins == Init => SeasonInv
BY DEF Init, SeasonInit, SeasonInv, DecidedInv, BetweenInv, Cached, LifeSteps,
   SeasonEnds

\* A season's decisions, over all its lives, follow its markets in order of
\* entry, without gap or repetition, ties included (build_survival_schedule,
\* run_survival_season).
THEOREM DecisionsInOrder == Spec => []EveryMarketOnce
<1>1. SeasonInv => EveryMarketOnce
  <2> SUFFICES ASSUME SeasonInv, step # "idle"
               PROVE  IsPrefix(decided, Ordered(SeasonRows))
    BY DEF EveryMarketOnce, DecidedInOrder
  <2>1. /\ decided \in Seq(Markets) /\ Len(decided) <= Len(SeasonOrder)
        /\ \A i \in 1..Len(decided) : decided[i] = SeasonOrder[i]
        /\ SeasonOrder \in Seq(Markets)
    BY SeasonSorted DEF SeasonInv, DecidedInv
  <2>2. SubSeq(decided, 1, Len(decided)) = SubSeq(SeasonOrder, 1, Len(decided))
    BY <2>1
  <2> QED BY <2>1, <2>2 DEF IsPrefix, SeasonOrder
<1> QED BY <1>1, SeasonBegins, SeasonStep, PTL DEF Spec

\* A life that survives its schedule has decided every market that was left
\* and settled every bet (the final drain of build_survival_schedule).
THEOREM SurvivorsDrained == Spec => []SurvivorsAreDrained
<1>1. SeasonInv => SurvivorsAreDrained
  BY DEF SeasonInv, BetweenInv, SurvivorsAreDrained
<1> QED BY <1>1, SeasonBegins, SeasonStep, PTL DEF Spec

-----------------------------------------------------------------------------
(* What the lessons know *)

\* Lessons come from the seasons begun, and from the training window.
Typed(W) ==
  \A lesson \in W : /\ lesson[1] \in Nat /\ lesson[1] <= season
                    /\ lesson[2] = 0 \/ lesson[2] \in Train

\* No lesson of this season resolves after a decision that follows the k-th.
NoneEarly(W, k) ==
  \A lesson \in W : lesson[1] = season /\ lesson[2] # 0 =>
    \A i \in (k + 1)..Len(SeasonOrder) :
      timing[lesson[2]].resolution <= Entry(SeasonOrder[i]) + Slack

KnowInv ==
  /\ season \in Nat /\ Typed(weights) /\ Typed(carry) /\ Typed(seed)
  /\ step \in LifeSteps => NoneEarly(weights, Len(decided))
  /\ step \in SeasonEnds => NoneEarly(carry, Len(decided))
  /\ stage # "training" /\ step # "idle" => ~rules.learning

\* A bet that resolves by the clock of a stop has resolved, up to the slack, by
\* the entry of every market not yet decided.
LEMMA ResolvedInTime ==
  ASSUME SeasonInv, NEW c, NEW pos, Underway(c, pos), step # "idle", tick <= Len(stops),
         NEW x \in 0..2, NEW bets \in Seq(remaining), Len(bets) <= Len(open),
         NEW m \in Resolved(bets, Pinned(tick) + x),
         NEW k \in (Len(decided) + 1)..Len(SeasonOrder)
  PROVE  timing[m].resolution <= Entry(SeasonOrder[k]) + Slack
<1> DEFINE r == Ordered(remaining)
           n == Len(r)
           d == Len(decided) - c
           N == Len(SeasonOrder)
           i == d + 1
<1>1. /\ n = N - c /\ d \in 0..n
      /\ \A j \in 1..n : r[j] = SeasonOrder[c + j]
      /\ \A j \in 1..n : r[j] \in Markets
      /\ remaining \in SUBSET Markets
      /\ Len(stops) \in Nat /\ \A j \in 1..n : pos[j] \in 1..Len(stops)
  BY LifeFacts
<1>2. /\ tick \in 1..Len(stops) /\ c \in Nat /\ open \in Seq(remaining) /\ Len(open) <= d
      /\ \A j \in 1..n : pos[j] < tick <=> j <= d
      /\ Laid(pos, stops, r)
  BY <1>1 DEF Underway
<1>3. N \in Nat /\ Len(decided) \in Nat /\ Cached
  BY SeasonSorted DEF SeasonInv, DecidedInv
<1>4. n <= Cardinality(Markets) /\ Cardinality(Markets) \in Nat /\ n \in Nat
  BY <1>1, <1>3, OrderedLength
<1>5. i \in 1..n /\ c + i = Len(decided) + 1 /\ ~(i <= d) /\ d \in Nat
  <2> HIDE DEF n, N
  <2> QED BY <1>1, <1>2, <1>3 DEF N
<1>6. stops[tick].ts <= Entry(r[i]) + d
  <2>1. ~(pos[i] < tick) /\ pos[i] \in 1..Len(stops)
    BY <1>1, <1>2, <1>5
  <2>2. tick \in 1..pos[i]
    BY <1>1, <1>2, <2>1
  <2>3. stops[tick].ts <= Entry(r[i]) + (i - 1)
    BY <1>2, <1>5, <2>2 DEF Laid
  <2>4. i - 1 = d
    BY <1>5
  <2> QED BY <2>3, <2>4
<1>7. stops[tick].ts \in Nat /\ Pinned(tick) = stops[tick].ts
  <2>1. stops \in Seq(Stops)
    BY <1>2 DEF Laid
  <2> QED BY <1>2, <2>1, PinnedAt
<1>8. /\ Entry(r[i]) \in Nat /\ Entry(SeasonOrder[k]) \in Nat
      /\ Entry(r[i]) <= Entry(SeasonOrder[k])
  <2>1. r[i] = SeasonOrder[Len(decided) + 1]
    BY <1>1, <1>5
  <2>2. /\ k \in 1..N /\ Len(decided) + 1 \in 1..N
        /\ k = Len(decided) + 1 \/ Len(decided) + 1 < k
    BY <1>3
  <2>3. /\ SeasonOrder[k] \in Markets /\ r[i] \in Markets
        /\ \A a, b \in 1..N : a < b => Before(SeasonOrder[a], SeasonOrder[b])
    BY <1>1, <1>3, <1>5, <2>2, SeasonSorted DEF SortedOf
  <2>4. Entry(r[i]) \in Nat /\ Entry(SeasonOrder[k]) \in Nat
    BY <1>3, <2>3, TimesAreNumbers
  <2>5. k = Len(decided) + 1 \/ Before(r[i], SeasonOrder[k])
    BY <2>1, <2>2, <2>3
  <2> HIDE DEF r, N, i
  <2> QED BY <2>1, <2>4, <2>5 DEF Before
<1>9. PICK j \in 1..Len(bets) : /\ m = bets[j]
                                /\ timing[m].resolution <= Pinned(tick) + x + j * Advance
  BY DEF Resolved
<1>10. timing[m].resolution \in Nat
  <2>1. m \in Markets
    BY <1>1, <1>9
  <2> QED BY <1>3, <2>1, TimesAreNumbers
<1>11. j \in Nat /\ j <= d
  <2>1. Len(bets) \in Nat /\ Len(open) \in Nat
    BY <1>2
  <2> QED BY <1>2, <1>5, <2>1
<1> DEFINE C == Cardinality(Markets)
           e == Entry(r[i])
           f == Entry(SeasonOrder[k])
           res == timing[m].resolution
           p == Pinned(tick)
<1>12. C \in Nat /\ d \in Nat /\ d <= C /\ e \in Nat /\ f \in Nat /\ e <= f /\ res \in Nat
       /\ p \in Nat /\ p <= e + d /\ j \in Nat /\ j <= d /\ res <= p + x + j
  <2>1. d <= C
    BY <1>1, <1>4
  <2>2. res <= p + x + j
    <3> HIDE DEF res, p
    <3> QED BY <1>9, <1>11 DEF Advance, res, p
  <2> QED BY <1>4, <1>5, <1>6, <1>7, <1>8, <1>10, <1>11, <2>1, <2>2
<1> HIDE DEF C, d, e, f, res, p
<1>13. res <= f + (2 * C + 4)
  BY <1>12
<1> QED BY <1>13 DEF C, f, res, Slack

\* Bets that settle teach lessons of the training window that are not early.
LEMMA SettleKnows ==
  ASSUME SeasonInv, KnowInv, step \in LifeSteps, NEW c, NEW pos, Underway(c, pos),
         NEW x \in 0..2, NEW bets \in Seq(remaining), Len(bets) <= Len(open),
         NEW ms \in Seq(remaining \cap Resolved(bets, Pinned(tick) + x)),
         NEW pnl, Settle(ms, pnl),
         UNCHANGED <<timing, stage, season, decided, rules, carry, seed>>,
         step' \in LifeSteps
  PROVE  KnowInv'
<1> USE DEF LifeSteps, SeasonEnds
<1> DEFINE lessons == {<<season, m>> : m \in ToSet(ms)}
<1>1. Train' = Train /\ SeasonRows' = SeasonRows /\ SeasonOrder' = SeasonOrder
  <2>1. Train' = Train
    BY DEF Train, Ordered, Before, Entry
  <2>2. SeasonRows' = SeasonRows
    BY <2>1 DEF SeasonRows, Holdout
  <2> QED BY <2>1, <2>2, SeasonStands
<1>2. \A m \in ToSet(ms) : m \in remaining /\ m \in Resolved(bets, Pinned(tick) + x)
  BY DEF ToSet
<1>3. Typed(carry)' /\ Typed(seed)' /\ season' \in Nat
  BY <1>1 DEF KnowInv, Typed
<1>4. CASE rules.learning
  <2>1. weights' = weights \cup lessons
    BY <1>4 DEF Settle
  <2>2. stage = "training" /\ SeasonRows = Train
    BY <1>4 DEF KnowInv, SeasonRows
  <2>3. remaining \subseteq Train
    <3>1. remaining = RestFrom(c) /\ c \in Nat
      BY DEF Underway
    <3>2. \A i \in 1..Len(SeasonOrder) : SeasonOrder[i] \in Train
      BY <2>2, SeasonSorted DEF SeasonInv
    <3>3. \A i \in (c + 1)..Len(SeasonOrder) : i \in 1..Len(SeasonOrder)
      BY <3>1, SeasonSorted DEF SeasonInv
    <3> QED BY <3>1, <3>2, <3>3 DEF RestFrom
  <2>4. ASSUME NEW lesson \in lessons
        PROVE  /\ lesson[1] = season /\ lesson[2] \in Train
               /\ \A i \in (Len(decided) + 1)..Len(SeasonOrder) :
                    timing[lesson[2]].resolution <= Entry(SeasonOrder[i]) + Slack
    <3>1. PICK m \in ToSet(ms) : lesson = <<season, m>>
      OBVIOUS
    <3>2. lesson[1] = season /\ lesson[2] = m
      BY <3>1
    <3>3. m \in Train
      BY <1>2, <2>3
    <3>4. ASSUME NEW i \in (Len(decided) + 1)..Len(SeasonOrder)
          PROVE  timing[m].resolution <= Entry(SeasonOrder[i]) + Slack
      <4>1. tick <= Len(stops)
        <5> SUFFICES ASSUME ~(tick <= Len(stops))
                     PROVE  FALSE
          OBVIOUS
        <5>1. tick > Len(stops)
          BY LifeFacts DEF Underway
        <5>2. RestFrom(Len(decided)) = {}
          BY <5>1, ScheduleDone
        <5> QED BY <5>2 DEF RestFrom
      <4>2. m \in Resolved(bets, Pinned(tick) + x)
        BY <1>2
      <4> QED BY <4>1, <4>2, ResolvedInTime
    <3> QED BY <3>2, <3>3, <3>4
  <2> HIDE DEF lessons
  <2>5. Typed(weights)'
    <3>1. season \in Nat /\ Typed(weights)
      BY DEF KnowInv
    <3>2. \A lesson \in weights' : /\ lesson[1] \in Nat /\ lesson[1] <= season
                                   /\ lesson[2] = 0 \/ lesson[2] \in Train
      BY <2>1, <2>4, <3>1 DEF Typed
    <3> QED BY <1>1, <3>2 DEF Typed
  <2>6. NoneEarly(weights, Len(decided))'
    <3>1. NoneEarly(weights, Len(decided))
      BY DEF KnowInv
    <3>2. \A lesson \in weights' : lesson[1] = season /\ lesson[2] # 0 =>
            \A i \in (Len(decided) + 1)..Len(SeasonOrder) :
              timing[lesson[2]].resolution <= Entry(SeasonOrder[i]) + Slack
      BY <2>1, <2>4, <3>1 DEF NoneEarly
    <3> QED BY <1>1, <3>2 DEF NoneEarly, Entry, Slack
  <2> QED BY <1>3, <2>2, <2>5, <2>6 DEF KnowInv
<1>5. CASE ~rules.learning
  <2>1. weights' = weights
    BY <1>5 DEF Settle
  <2>2. Typed(weights)' /\ NoneEarly(weights, Len(decided))'
    BY <1>1, <2>1 DEF KnowInv, Typed, NoneEarly, Entry, Slack
  <2> QED BY <1>3, <1>5, <2>2 DEF KnowInv
<1> QED BY <1>4, <1>5

\* A step that teaches nothing and decides no earlier market.
LEMMA KnowsStill ==
  ASSUME SeasonInv, KnowInv, UNCHANGED <<timing, season, rules, seed>>,
         SeasonRows' = SeasonRows, step # "idle", step' # "idle",
         weights' = weights \/ weights' = carry, carry' = carry \/ carry' = weights,
         decided' \in Seq(Markets), Len(decided') >= Len(decided),
         stage # "training" => ~rules.learning, stage' # "training" => stage # "training",
         step' \in LifeSteps =>
           \/ step \in LifeSteps /\ weights' = weights
           \/ step \in SeasonEnds /\ weights' = carry,
         step' \in SeasonEnds =>
           \/ step \in LifeSteps /\ carry' = weights
           \/ step \in SeasonEnds /\ carry' = carry
  PROVE  KnowInv'
<1>1. Train' = Train /\ SeasonOrder' = SeasonOrder
  BY SeasonStands DEF Train, Ordered, Before, Entry
<1>2. Len(decided) \in Nat /\ Len(decided') \in Nat /\ Len(SeasonOrder) \in Nat
  BY SeasonSorted DEF SeasonInv, DecidedInv
<1>3. \A i \in (Len(decided') + 1)..Len(SeasonOrder) :
        i \in (Len(decided) + 1)..Len(SeasonOrder)
  BY <1>2
<1>4. ASSUME NEW W, NoneEarly(W, Len(decided))
      PROVE  \A lesson \in W : lesson[1] = season /\ lesson[2] # 0 =>
               \A i \in (Len(decided') + 1)..Len(SeasonOrder) :
                 timing[lesson[2]].resolution <= Entry(SeasonOrder[i]) + Slack
  BY <1>3, <1>4 DEF NoneEarly
<1>5. Typed(weights)' /\ Typed(carry)' /\ Typed(seed)'
  BY <1>1 DEF KnowInv, Typed
<1>6. step' \in LifeSteps => NoneEarly(weights, Len(decided))'
  <2> SUFFICES ASSUME step' \in LifeSteps
               PROVE  NoneEarly(weights, Len(decided))'
    OBVIOUS
  <2>1. NoneEarly(weights', Len(decided))
    BY DEF KnowInv, NoneEarly
  <2> QED BY <1>1, <1>4, <2>1 DEF NoneEarly, Entry, Slack
<1>7. step' \in SeasonEnds => NoneEarly(carry, Len(decided))'
  <2> SUFFICES ASSUME step' \in SeasonEnds
               PROVE  NoneEarly(carry, Len(decided))'
    OBVIOUS
  <2>1. NoneEarly(carry', Len(decided))
    BY DEF KnowInv, NoneEarly
  <2> QED BY <1>1, <1>4, <2>1 DEF NoneEarly, Entry, Slack
<1> QED BY <1>5, <1>6, <1>7 DEF KnowInv

\* Every step keeps the lessons within what could be known.
LEMMA KnowStep ==
  ASSUME SeasonInv, SeasonInv', KnowInv, [Next]_vars
  PROVE  KnowInv'
<1> USE DEF LifeSteps, SeasonEnds
<1>1. ASSUME UNCHANGED timing
      PROVE  Train' = Train /\ Holdout' = Holdout
  BY <1>1 DEF Train, Holdout, Ordered, Before, Entry
<1>2. CASE StartSeason \/ StartVerdict
  <2>1. /\ step = "idle" /\ step' = "between" /\ season' = season + 1 /\ carry' = seed
        /\ UNCHANGED <<timing, weights, seed, stage>>
        /\ stage # "training" => rules' = VerdictRules
    BY <1>2 DEF StartSeason, StartVerdict, BeginSeason, lifeVars
  <2>2. Train' = Train /\ season \in Nat /\ Typed(weights) /\ Typed(seed)
    BY <1>1, <2>1 DEF KnowInv
  <2>3. Typed(weights)' /\ Typed(carry)' /\ Typed(seed)'
    BY <2>1, <2>2 DEF Typed
  <2>4. NoneEarly(carry, Len(decided))'
    <3>1. \A lesson \in seed : lesson[1] # season + 1
      BY <2>2 DEF Typed
    <3> QED BY <2>1, <3>1 DEF NoneEarly
  <2>5. stage' # "training" => ~rules'.learning
    BY <2>1 DEF VerdictRules
  <2> QED BY <2>1, <2>2, <2>3, <2>4, <2>5 DEF KnowInv
<1>3. ASSUME NEW b \in BOOLEAN, CarrySeed(b)
      PROVE  KnowInv'
  <2>1. /\ step' = "idle" /\ seed' = carry \cup (IF b THEN {<<season, 0>>} ELSE {})
        /\ UNCHANGED <<timing, season, carry, weights>>
    BY <1>3 DEF CarrySeed, seasonVars, lifeVars
  <2>2. Train' = Train /\ season \in Nat /\ Typed(weights) /\ Typed(carry)
    BY <1>1, <2>1 DEF KnowInv
  <2>3. Typed(weights)' /\ Typed(carry)'
    BY <2>1, <2>2 DEF Typed
  <2>4. Typed(seed)'
    <3>1. \A lesson \in seed' : lesson \in carry \/ lesson = <<season, 0>>
      BY <2>1
    <3>2. \A lesson \in seed' : /\ lesson[1] \in Nat /\ lesson[1] <= season
                                /\ lesson[2] = 0 \/ lesson[2] \in Train
      BY <2>2, <3>1 DEF Typed
    <3> QED BY <2>1, <2>2, <3>2 DEF Typed
  <2> QED BY <2>1, <2>2, <2>3, <2>4 DEF KnowInv
<1>4. CASE Conclude
  <2>1. /\ step \in {"lost", "survived"} /\ stage = "verdict" /\ stage' = "done"
        /\ UNCHANGED <<timing, season, rules, seed, step, weights, carry, decided>>
    BY <1>4 DEF Conclude, SeasonOver, allSeasonVars, seasonVars, lifeVars
  <2>2. SeasonRows' = SeasonRows
    BY <1>1, <2>1 DEF SeasonRows
  <2>3. /\ decided' \in Seq(Markets) /\ Len(decided') >= Len(decided)
        /\ stage # "training" => ~rules.learning
    BY <2>1 DEF SeasonInv, DecidedInv, KnowInv
  <2> QED BY <2>1, <2>2, <2>3, KnowsStill
<1>5. CASE UNCHANGED vars
  <2>1. UNCHANGED <<timing, season, rules, seed, step, stage, weights, carry, decided>>
    BY <1>5 DEF vars, allSeasonVars, seasonVars, lifeVars
  <2>2. Train' = Train /\ SeasonRows' = SeasonRows /\ SeasonOrder' = SeasonOrder
    <3>1. SeasonRows' = SeasonRows
      BY <1>1, <2>1 DEF SeasonRows
    <3> QED BY <1>1, <2>1, <3>1, SeasonStands
  <2> QED BY <2>1, <2>2 DEF KnowInv, Typed, NoneEarly, Entry, Slack
<1>6. CASE LifeNext /\ UNCHANGED <<design, stage, seed, advised>>
  <2> USE <1>6
  <2>1. UNCHANGED <<timing, season, rules, stage, seed>>
    BY DEF LifeNext, BeginLife, EndLife, Poll, Tithe, Live, Silence, Die,
       Decide, Tribute, seasonVars
  <2>2. SeasonRows' = SeasonRows
    BY <1>1, <2>1 DEF SeasonRows
  <2>3. step # "idle" /\ step' # "idle"
    BY DEF LifeNext, BeginLife, EndLife, Poll, Tithe, Live, Silence, Die,
       Decide, Tribute
  <2>4. /\ decided \in Seq(Markets) /\ decided' \in Seq(Markets)
        /\ stage # "training" => ~rules.learning
    BY <2>3 DEF SeasonInv, DecidedInv, KnowInv
  <2>5. CASE BeginLife
    <3>1. /\ step = "between" /\ step' = "rest" /\ weights' = carry
          /\ UNCHANGED <<carry, decided>>
      BY <2>5 DEF BeginLife, seasonVars
    <3>2. Len(decided') >= Len(decided)
      BY <2>4, <3>1
    <3> QED BY <2>1, <2>2, <2>3, <2>4, <3>1, <3>2, KnowsStill
  <2>6. CASE EndLife
    <3>1. /\ step \in {"dead", "rest"} /\ step' \in {"between", "lost", "survived"}
          /\ carry' = weights /\ UNCHANGED <<weights, decided>>
      BY <2>6 DEF EndLife, lifeVars
    <3>2. Len(decided') >= Len(decided)
      BY <2>4, <3>1
    <3> QED BY <2>1, <2>2, <2>3, <2>4, <3>1, <3>2, KnowsStill
  <2>7. CASE Tithe \/ Live \/ Silence \/ (\E b \in BOOLEAN : Decide(b))
             \/ (\E amount \in 1..Max({0, bankroll}), b \in BOOLEAN : Tribute(amount, b))
    <3>1. /\ step \in {"tithed", "judged", "polled"}
          /\ step' \in {"rest", "tithed", "judged", "dying"}
          /\ UNCHANGED <<weights, carry>>
      BY <2>7 DEF Tithe, Live, Silence, Decide, Tribute, seasonVars, lifeVars
    <3>2. decided' = decided \/ \E m : decided' = Append(decided, m)
      BY <2>7 DEF Tithe, Live, Silence, Decide, Tribute
    <3>3. Len(decided') >= Len(decided)
      <4>1. Len(decided) \in Nat
        BY <2>4
      <4>2. \A m : Len(Append(decided, m)) = Len(decided) + 1
        BY <2>4
      <4> QED BY <3>2, <4>1, <4>2
    <3> QED BY <2>1, <2>2, <2>3, <2>4, <3>1, <3>3, KnowsStill
  <2>8. CASE Poll
    <3> DEFINE now == Pinned(tick) + 2 * Advance
               due == Kept(open, {m \in Markets : timing[m].expected < now})
               done == Resolved(due, now)
               settled == Kept(due, done)
    <3>1. /\ step = "rest" /\ step' = "polled" /\ UNCHANGED <<carry, decided>>
          /\ \E pnl \in Profits(settled) : Settle(settled, pnl)
      BY <2>8 DEF Poll
    <3>2. PICK c, pos : Underway(c, pos)
      BY <3>1 DEF SeasonInv
    <3>3. open \in Seq(remaining)
      BY <3>2 DEF Underway
    <3>4. due \in Seq(remaining) /\ Len(due) <= Len(open)
      BY <3>3, KeptSeq, KeptShorter
    <3>5. now = Pinned(tick) + 2
      BY DEF Advance
    <3> HIDE DEF now, due
    <3>6. done = Resolved(due, Pinned(tick) + 2)
      BY <3>5
    <3>7. settled \in Seq(remaining \cap Resolved(due, Pinned(tick) + 2))
      BY <3>4, <3>6, KeptIn
    <3> HIDE DEF done, settled
    <3>8. PICK pnl : Settle(settled, pnl)
      BY <3>1
    <3>9. 2 \in 0..2
      OBVIOUS
    <3> QED BY <2>1, <3>1, <3>2, <3>4, <3>7, <3>8, <3>9, SettleKnows
  <2>9. CASE Die
    <3> DEFINE now == Pinned(tick)
               done == Resolved(open, now)
               settled == Kept(open, done)
    <3>1. /\ step = "dying" /\ step' = "dead" /\ UNCHANGED <<carry, decided>>
          /\ \E pnl \in Profits(settled) : Settle(settled, pnl)
      BY <2>9 DEF Die
    <3>2. PICK c, pos : Underway(c, pos)
      BY <3>1 DEF SeasonInv
    <3>3. open \in Seq(remaining) /\ Len(open) \in Nat
      BY <3>2 DEF Underway
    <3>4. settled \in Seq(remaining \cap Resolved(open, Pinned(tick)))
      BY <3>3, KeptIn
    <3> HIDE DEF settled
    <3>5. PICK pnl : Settle(settled, pnl)
      BY <3>1
    <3>6. CASE tick <= Len(stops)
      <4>1. Pinned(tick) + 0 = Pinned(tick) /\ 0 \in 0..2 /\ Len(open) <= Len(open)
        <5>1. tick \in 1..Len(stops) /\ stops \in Seq(Stops)
          <6>1. Len(stops) \in Nat
            BY <2>3, <3>2, LifeFacts
          <6> QED BY <3>2, <3>6, <6>1 DEF Underway, Laid
        <5>2. Pinned(tick) \in Nat
          BY <5>1, PinnedAt
        <5> QED BY <3>3, <5>2
      <4>2. settled \in Seq(remaining \cap Resolved(open, Pinned(tick) + 0))
        BY <3>4, <4>1
      <4> QED BY <2>1, <3>1, <3>2, <3>3, <3>5, <4>1, <4>2, SettleKnows
    <3>7. CASE ~(tick <= Len(stops))
      <4>1. open = <<>>
        <5>1. tick > Len(stops)
          BY <2>3, <3>2, <3>7, LifeFacts DEF Underway
        <5> QED BY <2>3, <3>2, <5>1, ScheduleDone
      <4>2. settled = <<>>
        BY <4>1, KeptEmpty DEF settled
      <4>3. weights' = weights
        <5>1. {<<season, m>> : m \in ToSet(settled)} = {}
          BY <4>2 DEF ToSet
        <5> QED BY <3>5, <5>1 DEF Settle
      <4>4. Len(decided') >= Len(decided)
        BY <2>4, <3>1
      <4> QED BY <2>1, <2>2, <2>3, <2>4, <3>1, <4>3, <4>4, KnowsStill
    <3> QED BY <3>6, <3>7
  <2> QED BY <2>5, <2>6, <2>7, <2>8, <2>9 DEF LifeNext
<1> QED BY <1>2, <1>3, <1>4, <1>5, <1>6 DEF Next

\* The experiment begins without lessons.
LEMMA KnowBegins == Init => KnowInv
BY DEF Init, SeasonInit, KnowInv, Typed, LifeSteps, SeasonEnds

\* The season and what its lessons know go together.
LEMMA KnowInvariance == Spec => [](SeasonInv /\ KnowInv)
<1>1. Init => SeasonInv /\ KnowInv
  BY SeasonBegins, KnowBegins
<1>2. SeasonInv /\ KnowInv /\ [Next]_vars => (SeasonInv /\ KnowInv)'
  BY SeasonStep, KnowStep
<1> QED BY <1>1, <1>2, PTL DEF Spec

\* The verdict is on markets nobody has seen: every lesson comes from the
\* training window, all of it entered strictly earlier (split_rows_by_time), and
\* the frozen verdict itself teaches nothing (_run_frozen_holdout).
THEOREM VerdictUnseen == Spec => []HoldoutUnseen
<1>1. SeasonInv /\ KnowInv => HoldoutUnseen
  <2> SUFFICES ASSUME SeasonInv, KnowInv, NEW lesson \in weights, NEW m \in Holdout,
                      lesson[2] # 0
               PROVE  Entry(lesson[2]) < Entry(m)
    BY DEF HoldoutUnseen
  <2> DEFINE last == Ordered(Markets)[Cut]
  <2>1. lesson[2] \in Train
    BY DEF KnowInv, Typed
  <2>2. Cached
    BY DEF SeasonInv
  <2>3. last \in Markets
    <3>1. /\ SortedOf(Ordered(Markets), Markets)
          /\ Len(Ordered(Markets)) = Cardinality(Markets) /\ Cardinality(Markets) \in Nat
      BY <2>2, OrderedIsSorted, OrderedLength
    <3>2. Cut \in 1..Len(Ordered(Markets))
      BY <3>1, ReincarnationAssumption
    <3>3. Ordered(Markets) \in Seq(Markets)
      BY <3>1 DEF SortedOf
    <3> QED BY <3>2, <3>3
  <2> HIDE DEF last
  <2>4. lesson[2] \in Markets /\ Entry(lesson[2]) <= Entry(last)
    BY <2>1 DEF Train, last
  <2>5. m \in Markets /\ ~(Entry(m) <= Entry(last))
    BY DEF Holdout, Train, last
  <2>6. Entry(lesson[2]) \in Nat /\ Entry(m) \in Nat /\ Entry(last) \in Nat
    BY <2>2, <2>3, <2>4, <2>5, TimesAreNumbers
  <2> QED BY <2>4, <2>5, <2>6
<1> QED BY <1>1, KnowInvariance, PTL

\* A decision draws on no market of its season that resolves after it, but for
\* the seconds of the clock's reads and nudges: nothing settles early, a death
\* included ("lookahead", build_survival_schedule).
THEOREM NothingSettlesEarly == Spec => []NoLookahead
<1>1. SeasonInv /\ KnowInv => NoLookahead
  <2> SUFFICES ASSUME SeasonInv, KnowInv, step \in {"polled", "rest"}, tick <= Len(stops),
                      stops[tick].market # 0, NEW lesson \in weights, lesson[1] = season,
                      lesson[2] # 0
               PROVE  timing[lesson[2]].resolution <= Entry(stops[tick].market) + Slack
    BY DEF NoLookahead
  <2>1. PICK c, pos : Underway(c, pos)
    BY DEF SeasonInv, LifeSteps
  <2>2. /\ stops[tick].market = SeasonOrder[Len(decided) + 1]
        /\ Len(decided) + 1 \in 1..Len(SeasonOrder)
    BY <2>1, NextMarket
  <2>3. Len(decided) + 1 \in (Len(decided) + 1)..Len(SeasonOrder)
    BY <2>2, SeasonSorted DEF SeasonInv
  <2>4. NoneEarly(weights, Len(decided))
    BY DEF KnowInv, LifeSteps
  <2> QED BY <2>2, <2>3, <2>4 DEF NoneEarly
<1> QED BY <1>1, KnowInvariance, PTL

================================================================================
