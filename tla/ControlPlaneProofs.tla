--------------------------- MODULE ControlPlaneProofs ---------------------------
(***************************************************************************)
(* Proofs about the control plane, for any number of runs, proposals and   *)
(* upsets.  The first part is about the runner alone: whatever else a step *)
(* does, it moves the runner's variables by one of the runner's actions or *)
(* not at all.  The second is about approvals, the third about what the    *)
(* event stream tells of the log.                                          *)
(*                                                                         *)
(* The last part is about another component, the breath ledger, which      *)
(* shares no symbol with this one: for every set of accounts, signers,     *)
(* managers, nonces and amounts.                                           *)
(***************************************************************************)
EXTENDS ControlPlane, EnergyController, FoldLemmas, FiniteSetTheorems, SequenceTheorems, TLAPS

-----------------------------------------------------------------------------
(* The runner *)

\* The slot holds the newest run or nothing; a stop waits for the slot's run;
\* and whoever is being stopped, or was given up, will be cancelled at its next
\* await: it takes no step of its own any more.
SlotInv ==
  /\ slot \in {0, started} /\ lock \in {0, slot}
  /\ \A r \in Runs : r > started => task[r] = "unborn" /\ r \notin abandoned
  /\ \A r \in Runs : (r = lock \/ r \in abandoned) /\ task[r] \in Alive
                       => r \in doomed

RunnerInv ==
  /\ RunnerTypeOK /\ SlotInv
  /\ OneLoopUnlessAbandoned /\ HealthyRunLooksHealthy /\ EndIsTold

\* A server that has just come up for the first time.
LEMMA RunnerInitEstablishes == RunnerInit => RunnerInv
<1> SUFFICES ASSUME RunnerInit
             PROVE  RunnerInv
  OBVIOUS
<1> USE RunsAssumption DEF RunnerInit, RunsAssumption, Runs, Alive, Over,
       NoError
<1>1. uncleared \in BOOLEAN
  BY Zenon
<1>2. task \in [Runs -> {"unborn"} \cup Alive \cup Over]
  OBVIOUS
<1>3. error \in Envelopes
  BY DEF Envelopes
<1>4. RunnerTypeOK
  BY <1>1, <1>2, <1>3 DEF RunnerTypeOK
<1>5. SlotInv /\ OneLoopUnlessAbandoned /\ EndIsTold
  BY DEF SlotInv, OneLoopUnlessAbandoned, LiveRuns, EndIsTold
<1>6. HealthyRunLooksHealthy
  BY DEF HealthyRunLooksHealthy, IsRunning
<1> QED BY <1>4, <1>5, <1>6 DEF RunnerInv

\* Types are kept.
LEMMA RunnerTyping ==
  ASSUME RunnerTypeOK, RunnerNext
  PROVE  RunnerTypeOK'
<1> USE RunsAssumption DEF RunsAssumption, Runs
<1>1. ASSUME NEW b \in BOOLEAN, Start(b)
      PROVE  RunnerTypeOK'
  <2>1. uncleared' \in BOOLEAN
    BY <1>1, Zenon DEF Start
  <2>2. error' \in Envelopes
    BY <1>1 DEF Start, NoError, Envelopes, RunnerTypeOK
  <2>3. started' \in Runs /\ slot' = started' /\ lock' = 0
    BY <1>1 DEF Start, RunnerTypeOK
  <2>4. task' \in [Runs -> {"unborn"} \cup Alive \cup Over]
    BY <1>1, <2>3 DEF Start, RunnerTypeOK, Alive
  <2>5. UNCHANGED <<doomed, abandoned, silent>>
    BY <1>1 DEF Start
  <2> QED BY <2>1, <2>2, <2>3, <2>4, <2>5 DEF RunnerTypeOK
<1>2. ASSUME StopIdle \/ Stop \/ StopReturns \/ StopTimesOut
      PROVE  RunnerTypeOK'
  <2>1. slot' \in 0..MaxRuns /\ lock' \in 0..MaxRuns
    BY <1>2 DEF StopIdle, Stop, StopReturns, StopTimesOut, RunnerTypeOK
  <2>2. doomed' \in SUBSET Runs /\ abandoned' \in SUBSET Runs
    <3>1. CASE Stop
      BY <3>1 DEF Stop, IsRunning, RunnerTypeOK
    <3>2. CASE StopTimesOut
      BY <3>2 DEF StopTimesOut, RunnerTypeOK
    <3>3. CASE StopIdle \/ StopReturns
      BY <3>3 DEF StopIdle, StopReturns, RunnerTypeOK
    <3> QED BY <1>2, <3>1, <3>2, <3>3
  <2>3. UNCHANGED <<task, error, started, silent, uncleared>>
    BY <1>2 DEF StopIdle, Stop, StopReturns, StopTimesOut
  <2> QED BY <2>1, <2>2, <2>3 DEF RunnerTypeOK
<1>3. ASSUME ProcessDies
      PROVE  RunnerTypeOK'
  BY <1>3 DEF ProcessDies, RunnerTypeOK, Over
<1>4. ASSUME NEW r \in Runs, FirstStep(r) \/ Returns(r) \/ CancelBeforeFirstStep(r)
      PROVE  RunnerTypeOK'
  <2>1. PICK how \in {"running", "returned", "neverRan"} :
          task' = [task EXCEPT ![r] = how]
    BY <1>4 DEF FirstStep, Returns, CancelBeforeFirstStep
  <2>2. task' \in [Runs -> {"unborn"} \cup Alive \cup Over]
    BY <2>1 DEF RunnerTypeOK, Alive, Over
  <2>3. doomed' \in SUBSET Runs
    BY <1>4 DEF FirstStep, Returns, CancelBeforeFirstStep, RunnerTypeOK
  <2>4. UNCHANGED <<slot, lock, error, started, abandoned, silent, uncleared>>
    BY <1>4 DEF FirstStep, Returns, CancelBeforeFirstStep
  <2> QED BY <2>2, <2>3, <2>4 DEF RunnerTypeOK
<1>5. ASSUME NEW r \in Runs, NEW b \in BOOLEAN, Fails(r, b) \/ CancelLands(r, b)
      PROVE  RunnerTypeOK'
  <2>1. PICK how \in {"failed", "cancelled"} : Finish(r, how, b)
    BY <1>5 DEF Fails, CancelLands
  <2>2. error' \in Envelopes
    BY <2>1 DEF Finish, Envelopes, RunnerTypeOK
  <2>3. task' \in [Runs -> {"unborn"} \cup Alive \cup Over]
    BY <2>1 DEF Finish, RunnerTypeOK, Over
  <2>4. silent' \in SUBSET Runs /\ doomed' \in SUBSET Runs
    BY <2>1 DEF Finish, RunnerTypeOK
  <2> QED BY <2>1, <2>2, <2>3, <2>4 DEF Finish, RunnerTypeOK
<1> QED BY <1>1, <1>2, <1>3, <1>4, <1>5 DEF RunnerNext

\* Only a stop that times out leaves a live task outside the slot.
LEMMA RunnerStep ==
  ASSUME RunnerInv, RunnerNext
  PROVE  RunnerInv'
<1> USE RunsAssumption DEF RunnerTypeOK, RunsAssumption, Runs, Alive, Over,
        RunnerInv, SlotInv, OneLoopUnlessAbandoned, LiveRuns,
        HealthyRunLooksHealthy, EndIsTold, IsRunning
<1>0. RunnerTypeOK'
  BY RunnerTyping
<1>1. ASSUME NEW b \in BOOLEAN, Start(b)
      PROVE  RunnerInv'
  <2>1. /\ slot' = started' /\ lock' = lock /\ lock = 0
        /\ started' = started + 1 /\ started' \in Runs
        /\ task' = [task EXCEPT ![started'] = "created"]
        /\ UNCHANGED <<doomed, abandoned, silent>>
    BY <1>1 DEF Start
  <2>2. \A r \in Runs : task[r] \in Alive => r \in abandoned
    BY <1>1 DEF Start
  <2>a. \A r \in Runs : task'[r] = IF r = started' THEN "created" ELSE task[r]
    BY <2>1
  <2>b. SlotInv'
    BY <2>1, <2>2, <2>a
  <2>c. OneLoopUnlessAbandoned'
    BY <2>1, <2>2, <2>a
  <2>d. EndIsTold'
    BY <2>a
  <2>3. SlotInv' /\ OneLoopUnlessAbandoned' /\ EndIsTold'
    BY <2>b, <2>c, <2>d
  <2>4. b => error'.run = 0
    BY <1>1 DEF Start, NoError
  <2>5. ~b => uncleared'
    BY <1>1, Zenon DEF Start
  <2>6. HealthyRunLooksHealthy'
    <3>1. error'.run = 0 \/ uncleared'
      BY <2>4, <2>5, Zenon
    <3> QED BY <3>1, Zenon DEF HealthyRunLooksHealthy
  <2> QED BY <1>0, <2>3, <2>6 DEF RunnerInv
<1>2. ASSUME StopIdle
      PROVE  RunnerInv'
  BY <1>0, <1>2 DEF StopIdle
<1>3. ASSUME Stop
      PROVE  RunnerInv'
  BY <1>0, <1>3 DEF Stop
<1>4. ASSUME StopReturns
      PROVE  RunnerInv'
  BY <1>0, <1>4 DEF StopReturns
<1>5. ASSUME StopTimesOut
      PROVE  RunnerInv'
  BY <1>0, <1>5 DEF StopTimesOut
<1>6. ASSUME ProcessDies
      PROVE  RunnerInv'
  BY <1>0, <1>6 DEF ProcessDies
<1>7. ASSUME NEW r \in Runs, FirstStep(r) \/ Returns(r) \/ CancelBeforeFirstStep(r)
      PROVE  RunnerInv'
  BY <1>0, <1>7 DEF FirstStep, Returns, CancelBeforeFirstStep
<1>8. ASSUME NEW r \in Runs, NEW b \in BOOLEAN, Fails(r, b) \/ CancelLands(r, b)
      PROVE  RunnerInv'
  BY <1>0, <1>8 DEF Fails, CancelLands, Finish
<1> QED
  BY <1>1, <1>2, <1>3, <1>4, <1>5, <1>6, <1>7, <1>8 DEF RunnerNext

-----------------------------------------------------------------------------
(* The control plane moves the runner only by the runner's own actions *)

\* A step of the control plane is one of the runner's, or leaves it alone.
LEMMA RunnerMoves ==
  ASSUME Next
  PROVE  RunnerNext \/ UNCHANGED runnerVars
<1>1. ASSUME NEW b \in BOOLEAN, StartAgent(b)
      PROVE  RunnerNext
  BY <1>1 DEF StartAgent, RunnerNext
<1>2. ASSUME StopAgent \/ StopAnswers
      PROVE  RunnerNext
  BY <1>2 DEF StopAgent, StopAnswers, RunnerNext
<1>3. ASSUME Restart
      PROVE  RunnerNext
  BY <1>3 DEF Restart, Die, RunnerNext
<1>4. ASSUME Poll
      PROVE  UNCHANGED runnerVars
  BY <1>4 DEF Poll
<1>5. ASSUME NEW r \in Runs, Begin(r) \/ CancelUnstarted(r) \/ RunReturns(r)
      PROVE  RunnerNext
  BY <1>5 DEF Begin, CancelUnstarted, RunReturns, RunnerNext
<1>6. ASSUME NEW r \in Runs, LoopStep(r)
      PROVE  UNCHANGED runnerVars
  BY <1>6 DEF LoopStep, Boot, Drain, Save, Rest, Advise, Respawn
<1>7. ASSUME NEW r \in Runs, AdviseCut(r)
      PROVE  RunnerNext
  BY <1>7 DEF AdviseCut, Die, RunnerNext
<1>8. ASSUME NEW r \in Runs, NEW b \in BOOLEAN, EndRun(r, b)
      PROVE  RunnerNext
  BY <1>8 DEF EndRun, RunnerNext
<1>9. ASSUME NEW r \in Runs, NEW how \in Appends, AdviseFails(r, how)
      PROVE  RunnerNext
  BY <1>9 DEF AdviseFails, RunnerNext
<1>10. ASSUME NEW p \in Proposals, NEW how \in Appends,
              Approve(p, how) \/ Reject(p, how)
       PROVE  UNCHANGED runnerVars
  BY <1>10 DEF Approve, Reject
<1> QED
  BY <1>1, <1>2, <1>3, <1>4, <1>5, <1>6, <1>7, <1>8, <1>9, <1>10 DEF Next

\* The runner's invariant, through whatever the control plane does.
LEMMA RunnerInvStep ==
  ASSUME RunnerInv, [Next]_vars
  PROVE  RunnerInv'
<1>1. ASSUME UNCHANGED runnerVars
      PROVE  RunnerInv'
  BY <1>1 DEF runnerVars, RunnerInv, RunnerTypeOK, SlotInv, LiveRuns,
     OneLoopUnlessAbandoned, HealthyRunLooksHealthy, EndIsTold, IsRunning
<1>2. UNCHANGED vars => UNCHANGED runnerVars
  BY DEF vars
<1> QED BY <1>1, <1>2, RunnerMoves, RunnerStep

\* For any number of runs.
THEOREM RunnerInvariant == Spec => []RunnerInv
<1>1. Init => RunnerInv
  BY RunnerInitEstablishes DEF Init
<1>2. RunnerInv /\ [Next]_vars => RunnerInv'
  BY RunnerInvStep
<1> QED BY <1>1, <1>2, PTL DEF Spec

\* The control plane implements the runner: its loops and routes move the task,
\* the slot and the lock only by the runner's own actions.
THEOREM RunnerRefined == Spec => RunnerSpec
<1>1. Init => RunnerInit
  BY DEF Init
<1>2. [Next]_vars => [RunnerNext]_runnerVars
  BY RunnerMoves DEF vars
<1> QED BY <1>1, <1>2, PTL DEF Spec, RunnerSpec

\* "At most ONE active loop at any time": a second live loop is always one
\* whose stop timed out (AgentRunner.start and stop).
THEOREM OneLoop == Spec => []OneLoopUnlessAbandoned
<1>1. RunnerInv => OneLoopUnlessAbandoned
  BY DEF RunnerInv
<1> QED BY <1>1, RunnerInvariant, PTL

\* The envelope tells how the newest run ended (_safe_run).
THEOREM EndTold == Spec => []EndIsTold
<1>1. RunnerInv => EndIsTold
  BY DEF RunnerInv
<1> QED BY <1>1, RunnerInvariant, PTL

\* /status never shows a healthy run under the envelope of another one that
\* was not given up (AgentRunner.start clears the old envelope).
THEOREM HealthyShown == Spec => []HealthyRunLooksHealthy
<1>1. RunnerInv => HealthyRunLooksHealthy
  BY DEF RunnerInv
<1> QED BY <1>1, RunnerInvariant, PTL

-----------------------------------------------------------------------------
(* Approvals: what a step does to the log, and what that does to a proposal *)

\* A new proposal, an approval, a rejection, as far as the log goes.
Emits ==
  /\ emitted' = emitted + 1 /\ emitted' \in Proposals
  /\ \E how \in Appends : AppendRow(Row(emitted', "pending"), how)
  /\ UNCHANGED <<dispatched, lost>>

Carries(p, how) ==
  /\ LatestIs(p, "pending")
  /\ AppendRow(Row(p, "approved"), how)
  /\ dispatched' = [dispatched EXCEPT ![p] = @ + 1]
  /\ lost' = [lost EXCEPT ![p] = @ + IF Reached(how) THEN 0 ELSE 1]
  /\ UNCHANGED emitted

Drops(p, how) ==
  /\ LatestIs(p, "pending")
  /\ AppendRow(Row(p, "rejected"), how)
  /\ UNCHANGED <<emitted, dispatched, lost>>

ApprovalInv ==
  /\ emitted \in 0..MaxProposals
  /\ proposals \in Seq(Rows \cup {Garbage})
  /\ dispatched \in [Proposals -> Nat] /\ lost \in [Proposals -> Nat]
  /\ \A i \in 1..Len(proposals) : proposals[i].id \in 0..emitted
  /\ \A p \in Proposals : p > emitted => dispatched[p] = 0
  /\ \A p \in Proposals : LatestIs(p, "pending") => dispatched[p] <= lost[p]
  /\ CarriedOutOnce

\* A tally that grows at one place.
LEMMA Tallied ==
  ASSUME NEW S, NEW f \in [S -> Nat], NEW p \in S, NEW n \in Nat
  PROVE  LET g == [f EXCEPT ![p] = f[p] + n]
         IN /\ g \in [S -> Nat] /\ g[p] = f[p] + n
            /\ \A q \in S : q # p => g[q] = f[q]
            /\ \A q \in S : g[q] >= f[q]
OBVIOUS

\* No step touches the log and the tallies but in one of these ways.
LEMMA LogSteps ==
  ASSUME Next, emitted \in 0..MaxProposals
  PROVE  \/ proposals' \in {proposals, <<>>} /\ UNCHANGED <<emitted, dispatched, lost>>
         \/ Emits
         \/ \E p \in Proposals, how \in Appends : Carries(p, how) \/ Drops(p, how)
<1> USE DEF logVars, historyVars
<1>1. ASSUME NEW b \in BOOLEAN, StartAgent(b)
      PROVE  proposals' \in {proposals, <<>>} /\ UNCHANGED <<emitted, dispatched, lost>>
  BY <1>1 DEF StartAgent, KeepLife, ResetLife
<1>2. ASSUME StopAgent \/ StopAnswers
      PROVE  UNCHANGED <<proposals, emitted, dispatched, lost>>
  BY <1>2 DEF StopAgent, StopAnswers, OthersOfRunner
<1>3. ASSUME Restart \/ Poll
      PROVE  UNCHANGED <<proposals, emitted, dispatched, lost>>
  BY <1>3 DEF Restart, Poll
<1>4. ASSUME NEW r \in Runs, Begin(r) \/ CancelUnstarted(r) \/ RunReturns(r)
      PROVE  UNCHANGED <<proposals, emitted, dispatched, lost>>
  BY <1>4 DEF Begin, CancelUnstarted, RunReturns, OthersOfRunner
<1>5. ASSUME NEW r \in Runs, Boot(r) \/ Drain(r) \/ Save(r) \/ Rest(r)
      PROVE  UNCHANGED <<proposals, emitted, dispatched, lost>>
  BY <1>5 DEF Boot, Drain, Save, Rest
<1>6. ASSUME NEW r \in Runs, Respawn(r)
      PROVE  proposals' = <<>> /\ UNCHANGED <<emitted, dispatched, lost>>
  BY <1>6 DEF Respawn, ResetLife
<1>7. ASSUME NEW r \in Runs, Advise(r)
      PROVE  Emits
  BY <1>7, ControlPlaneAssumption
     DEF Advise, Emits, Appends, Proposals, ControlPlaneAssumption
<1>8. ASSUME NEW r \in Runs, AdviseCut(r)
      PROVE  Emits
  BY <1>8, ControlPlaneAssumption
     DEF AdviseCut, Emits, Appends, Proposals, ControlPlaneAssumption
<1>9. ASSUME NEW r \in Runs, NEW how \in Appends, AdviseFails(r, how)
      PROVE  Emits
  BY <1>9, ControlPlaneAssumption
     DEF AdviseFails, Emits, Proposals, ControlPlaneAssumption
<1>10. ASSUME NEW r \in Runs, NEW b \in BOOLEAN, EndRun(r, b)
       PROVE  UNCHANGED <<proposals, emitted, dispatched, lost>>
  BY <1>10 DEF EndRun
<1>11. ASSUME NEW p \in Proposals, NEW how \in Appends, Approve(p, how)
       PROVE  Carries(p, how)
  BY <1>11 DEF Approve, Carries
<1>12. ASSUME NEW p \in Proposals, NEW how \in Appends, Reject(p, how)
       PROVE  Drops(p, how)
  BY <1>12 DEF Reject, Drops
<1> QED
  BY <1>1, <1>2, <1>3, <1>4, <1>5, <1>6, <1>7, <1>8, <1>9, <1>10, <1>11, <1>12
     DEF Next, LoopStep

\* What an append does: the log keeps its rows and gains one or none; a row of
\* garbage belongs to no proposal.
LEMMA Appending ==
  ASSUME proposals \in Seq(Rows \cup {Garbage}), NEW row \in Rows,
         NEW how \in Appends, AppendRow(row, how)
  PROVE  /\ proposals' \in Seq(Rows \cup {Garbage})
         /\ \A i \in 1..Len(proposals') :
              (i \in 1..Len(proposals) /\ proposals'[i] = proposals[i])
                \/ proposals'[i] = row \/ proposals'[i].id = 0
         /\ \A q \in Proposals, s \in Statuses :
              LatestIs(q, s)' => LatestIs(q, s) \/ row = Row(q, s)
         /\ Reached(how) =>
              \A s \in Statuses : LatestIs(row.id, s)' => row.status = s
<1> DEFINE new == IF torn THEN Garbage ELSE row
<1>1. CASE how # "ok"
  <2>1. proposals' = proposals /\ ~Reached(how)
    BY <1>1 DEF AppendRow, Reached
  <2> QED BY <2>1 DEF LatestIs
<1>2. CASE how = "ok"
  <2>1. proposals' = Append(proposals, new)
    BY <1>2 DEF AppendRow
  <2>2. new \in Rows \cup {Garbage} /\ (new = row \/ new.id = 0)
    BY DEF Garbage
  <2> HIDE DEF new
  <2>3. /\ proposals' \in Seq(Rows \cup {Garbage})
        /\ Len(proposals') = Len(proposals) + 1 /\ Len(proposals) \in Nat
        /\ \A i \in 1..Len(proposals) : proposals'[i] = proposals[i]
        /\ proposals'[Len(proposals) + 1] = new
    BY <2>1, <2>2
  <2>4. \A i \in 1..Len(proposals') :
              (i \in 1..Len(proposals) /\ proposals'[i] = proposals[i])
                \/ proposals'[i] = row \/ proposals'[i].id = 0
    BY <2>2, <2>3
  <2>5. ASSUME NEW q \in Proposals, NEW s \in Statuses, LatestIs(q, s)',
               row # Row(q, s)
        PROVE  LatestIs(q, s)
    <3>1. PICK i \in 1..Len(proposals') :
            /\ proposals'[i] = Row(q, s)
            /\ \A j \in 1..Len(proposals') : j > i => proposals'[j].id # q
      BY <2>5 DEF LatestIs
    <3>2. Row(q, s).id # 0
      BY DEF Row, Proposals
    <3>3. i \in 1..Len(proposals) /\ proposals[i] = Row(q, s)
      BY <2>4, <2>5, <3>1, <3>2
    <3>4. \A j \in 1..Len(proposals) : j > i => proposals[j].id # q
      BY <2>3, <3>1
    <3> QED BY <3>3, <3>4 DEF LatestIs
  <2>6. ASSUME Reached(how), NEW s \in Statuses, LatestIs(row.id, s)'
        PROVE  row.status = s
    <3>1. new = row
      BY <2>6 DEF Reached, new
    <3>2. PICK i \in 1..Len(proposals') :
            /\ proposals'[i] = Row(row.id, s)
            /\ \A j \in 1..Len(proposals') : j > i => proposals'[j].id # row.id
      BY <2>6 DEF LatestIs
    <3>3. i = Len(proposals) + 1
      BY <2>3, <3>1, <3>2
    <3> QED BY <2>3, <3>1, <3>2, <3>3 DEF Row
  <2> QED BY <2>3, <2>4, <2>5, <2>6
<1> QED BY <1>1, <1>2

\* Rows, approvals and losses stay in step.
LEMMA ApprovalStep ==
  ASSUME ApprovalInv, [Next]_vars
  PROVE  ApprovalInv'
<1> USE ControlPlaneAssumption DEF ControlPlaneAssumption, Proposals
<1>1. CASE UNCHANGED <<proposals, emitted, dispatched, lost>>
  BY <1>1 DEF ApprovalInv, LatestIs, CarriedOutOnce
<1>2. CASE proposals' = <<>> /\ UNCHANGED <<emitted, dispatched, lost>>
  <2>1. \A p \in Proposals : ~LatestIs(p, "pending")'
    BY <1>2 DEF LatestIs
  <2>2. proposals' \in Seq(Rows \cup {Garbage}) /\ Len(proposals') = 0
    BY <1>2
  <2>3. \A i \in 1..Len(proposals') : proposals'[i].id \in 0..emitted'
    BY <2>2
  <2>4. CarriedOutOnce'
    BY <1>2 DEF ApprovalInv, CarriedOutOnce
  <2> HIDE DEF Proposals
  <2> QED BY <1>2, <2>1, <2>2, <2>3, <2>4 DEF ApprovalInv
<1>3. CASE Emits
  <2>1. PICK how \in Appends : AppendRow(Row(emitted', "pending"), how)
    BY <1>3 DEF Emits
  <2>2. emitted' = emitted + 1 /\ emitted' \in Proposals /\ UNCHANGED <<dispatched, lost>>
    BY <1>3 DEF Emits
  <2>3. Row(emitted', "pending") \in Rows /\ Row(emitted', "pending").id = emitted'
    BY <2>2 DEF Row, Rows, Statuses
  <2>4. /\ proposals' \in Seq(Rows \cup {Garbage})
        /\ \A i \in 1..Len(proposals') :
              (i \in 1..Len(proposals) /\ proposals'[i] = proposals[i])
                \/ proposals'[i] = Row(emitted', "pending") \/ proposals'[i].id = 0
        /\ \A q \in Proposals :
              LatestIs(q, "pending")' =>
                LatestIs(q, "pending") \/ Row(emitted', "pending") = Row(q, "pending")
    BY <2>1, <2>3, Appending DEF ApprovalInv, Statuses
  <2>5. \A i \in 1..Len(proposals') : proposals'[i].id \in 0..emitted'
    <3> SUFFICES ASSUME NEW i \in 1..Len(proposals')
                 PROVE  proposals'[i].id \in 0..emitted'
      OBVIOUS
    <3>1. CASE i \in 1..Len(proposals) /\ proposals'[i] = proposals[i]
      <4>1. proposals[i].id \in 0..emitted
        BY <3>1 DEF ApprovalInv
      <4> QED BY <3>1, <4>1, <2>2, <2>3 DEF ApprovalInv
    <3>2. CASE proposals'[i] = Row(emitted', "pending")
      BY <3>2, <2>2, <2>3 DEF ApprovalInv
    <3>3. CASE proposals'[i].id = 0
      BY <3>3, <2>2, <2>3 DEF ApprovalInv
    <3> QED BY <3>1, <3>2, <3>3, <2>4
  <2>6. dispatched[emitted'] = 0 /\ lost[emitted'] \in Nat
    BY <2>2 DEF ApprovalInv
  <2>7. \A p \in Proposals : LatestIs(p, "pending")' => dispatched'[p] <= lost'[p]
    <3> SUFFICES ASSUME NEW p \in Proposals, LatestIs(p, "pending")'
                 PROVE  dispatched[p] <= lost[p]
      BY <2>2
    <3>1. Row(emitted', "pending") = Row(p, "pending") => p = emitted'
      BY DEF Row
    <3>2. CASE p = emitted'
      BY <2>6, <3>2
    <3>3. CASE LatestIs(p, "pending")
      BY <3>3 DEF ApprovalInv
    <3> QED BY <2>4, <3>1, <3>2, <3>3
  <2> QED BY <2>2, <2>4, <2>5, <2>7 DEF ApprovalInv, CarriedOutOnce
<1>4. ASSUME NEW p \in Proposals, NEW how \in Appends, Carries(p, how)
      PROVE  ApprovalInv'
  <2>1. Row(p, "approved") \in Rows /\ Row(p, "approved").id = p
        /\ Row(p, "approved").status = "approved"
    BY DEF Row, Rows, Statuses
  <2>2. /\ proposals' \in Seq(Rows \cup {Garbage})
        /\ \A i \in 1..Len(proposals') :
              (i \in 1..Len(proposals) /\ proposals'[i] = proposals[i])
                \/ proposals'[i] = Row(p, "approved") \/ proposals'[i].id = 0
        /\ \A q \in Proposals :
              LatestIs(q, "pending")' =>
                LatestIs(q, "pending") \/ Row(p, "approved") = Row(q, "pending")
        /\ Reached(how) => ~LatestIs(p, "pending")'
    BY <1>4, <2>1, Appending DEF ApprovalInv, Carries, Statuses
  <2>3. p <= emitted
    <3>1. PICK i \in 1..Len(proposals) : proposals[i] = Row(p, "pending")
      BY <1>4 DEF Carries, LatestIs
    <3> QED BY <3>1 DEF ApprovalInv, Row
  <2>4. /\ dispatched' = [dispatched EXCEPT ![p] = dispatched[p] + 1]
        /\ lost' = [lost EXCEPT ![p] = lost[p] + IF Reached(how) THEN 0 ELSE 1]
        /\ emitted' = emitted /\ dispatched[p] <= lost[p]
    BY <1>4 DEF Carries, ApprovalInv
  <2>a. dispatched \in [Proposals -> Nat] /\ lost \in [Proposals -> Nat]
    BY DEF ApprovalInv
  <2>b. (IF Reached(how) THEN 0 ELSE 1) \in Nat
    OBVIOUS
  <2>c. /\ dispatched' \in [Proposals -> Nat] /\ dispatched'[p] = dispatched[p] + 1
        /\ \A q \in Proposals : q # p => dispatched'[q] = dispatched[q]
    <3> HIDE DEF Proposals
    <3> QED BY <2>4, <2>a, Tallied
  <2>d. /\ lost' \in [Proposals -> Nat]
        /\ lost'[p] = lost[p] + IF Reached(how) THEN 0 ELSE 1
        /\ \A q \in Proposals : lost'[q] >= lost[q]
    <3> HIDE DEF Proposals, Reached
    <3> QED BY <2>4, <2>a, <2>b, Tallied
  <2>5. dispatched' \in [Proposals -> Nat] /\ lost' \in [Proposals -> Nat]
    BY <2>c, <2>d
  <2>6. \A i \in 1..Len(proposals') : proposals'[i].id \in 0..emitted'
    <3> SUFFICES ASSUME NEW i \in 1..Len(proposals')
                 PROVE  proposals'[i].id \in 0..emitted'
      OBVIOUS
    <3>1. CASE i \in 1..Len(proposals) /\ proposals'[i] = proposals[i]
      <4>1. proposals[i].id \in 0..emitted
        BY <3>1 DEF ApprovalInv
      <4> QED BY <3>1, <4>1, <2>4
    <3>2. CASE proposals'[i] = Row(p, "approved")
      BY <3>2, <2>1, <2>3, <2>4 DEF ApprovalInv
    <3>3. CASE proposals'[i].id = 0
      BY <3>3, <2>4 DEF ApprovalInv
    <3> QED BY <3>1, <3>2, <3>3, <2>2
  <2>7. \A q \in Proposals : q > emitted' => dispatched'[q] = 0
    <3> SUFFICES ASSUME NEW q \in Proposals, q > emitted
                 PROVE  dispatched'[q] = 0
      BY <2>4
    <3>1. q # p
      BY <2>3 DEF ApprovalInv
    <3> QED BY <3>1, <2>c DEF ApprovalInv
  <2>8. \A q \in Proposals : LatestIs(q, "pending")' => LatestIs(q, "pending")
    BY <2>2 DEF Row
  <2>9. \A q \in Proposals : LatestIs(q, "pending")' => dispatched'[q] <= lost'[q]
    <3> SUFFICES ASSUME NEW q \in Proposals, LatestIs(q, "pending")'
                 PROVE  dispatched'[q] <= lost'[q]
      OBVIOUS
    <3>1. CASE q = p
      <4>1. ~Reached(how)
        BY <2>2, <3>1
      <4> QED BY <2>4, <2>a, <2>c, <2>d, <3>1, <4>1
    <3>2. CASE q # p
      <4>1. LatestIs(q, "pending")
        BY <2>8
      <4>2. dispatched[q] <= lost[q]
        BY <4>1 DEF ApprovalInv
      <4> QED BY <2>a, <2>5, <2>c, <2>d, <3>2, <4>2
    <3> QED BY <3>1, <3>2
  <2>10. CarriedOutOnce'
    <3> SUFFICES ASSUME NEW q \in Proposals
                 PROVE  dispatched'[q] <= 1 + lost'[q]
      BY DEF CarriedOutOnce
    <3>1. /\ dispatched[q] \in Nat /\ lost[q] \in Nat /\ lost'[q] \in Nat
          /\ dispatched[q] <= 1 + lost[q]
      BY <2>a, <2>5 DEF ApprovalInv, CarriedOutOnce
    <3>2. CASE q = p
      BY <2>4, <2>c, <2>d, <3>1, <3>2
    <3>3. CASE q # p
      BY <2>c, <2>d, <3>1, <3>3
    <3> QED BY <3>2, <3>3
  <2> QED BY <2>2, <2>4, <2>5, <2>6, <2>7, <2>9, <2>10 DEF ApprovalInv
<1>5. ASSUME NEW p \in Proposals, NEW how \in Appends, Drops(p, how)
      PROVE  ApprovalInv'
  <2>1. Row(p, "rejected") \in Rows /\ Row(p, "rejected").id = p
        /\ \A q \in Proposals : Row(p, "rejected") # Row(q, "pending")
    BY DEF Row, Rows, Statuses
  <2>2. /\ proposals' \in Seq(Rows \cup {Garbage})
        /\ \A i \in 1..Len(proposals') :
              (i \in 1..Len(proposals) /\ proposals'[i] = proposals[i])
                \/ proposals'[i] = Row(p, "rejected") \/ proposals'[i].id = 0
        /\ \A q \in Proposals :
              LatestIs(q, "pending")' => LatestIs(q, "pending")
    BY <1>5, <2>1, Appending DEF ApprovalInv, Drops, Statuses
  <2>3. p <= emitted
    <3>1. PICK i \in 1..Len(proposals) : proposals[i] = Row(p, "pending")
      BY <1>5 DEF Drops, LatestIs
    <3> QED BY <3>1 DEF ApprovalInv, Row
  <2>4. UNCHANGED <<emitted, dispatched, lost>>
    BY <1>5 DEF Drops
  <2>5. \A i \in 1..Len(proposals') : proposals'[i].id \in 0..emitted'
    <3> SUFFICES ASSUME NEW i \in 1..Len(proposals')
                 PROVE  proposals'[i].id \in 0..emitted'
      OBVIOUS
    <3>1. CASE i \in 1..Len(proposals) /\ proposals'[i] = proposals[i]
      <4>1. proposals[i].id \in 0..emitted
        BY <3>1 DEF ApprovalInv
      <4> QED BY <3>1, <4>1, <2>1, <2>3, <2>4 DEF ApprovalInv
    <3>2. CASE proposals'[i] = Row(p, "rejected")
      BY <3>2, <2>1, <2>3, <2>4 DEF ApprovalInv
    <3>3. CASE proposals'[i].id = 0
      BY <3>3, <2>1, <2>3, <2>4 DEF ApprovalInv
    <3> QED BY <3>1, <3>2, <3>3, <2>2
  <2> QED BY <2>2, <2>4, <2>5 DEF ApprovalInv, CarriedOutOnce
<1>6. CASE UNCHANGED vars
  BY <1>1, <1>6 DEF vars, logVars, historyVars
<1> QED
  BY <1>1, <1>2, <1>3, <1>4, <1>5, <1>6, LogSteps DEF ApprovalInv

\* A log that is still empty.
LEMMA ApprovalInitEstablishes == Init => ApprovalInv
<1> SUFFICES ASSUME Init
             PROVE  ApprovalInv
  OBVIOUS
<1>1. proposals = <<>> /\ emitted = 0
      /\ dispatched = [p \in Proposals |-> 0] /\ lost = [p \in Proposals |-> 0]
  BY DEF Init
<1>2. proposals \in Seq(Rows \cup {Garbage}) /\ Len(proposals) = 0
  BY <1>1
<1>3. \A p \in Proposals : ~LatestIs(p, "pending")
  BY <1>2 DEF LatestIs
<1> QED
  BY <1>1, <1>2, <1>3, ControlPlaneAssumption
     DEF ApprovalInv, CarriedOutOnce, ControlPlaneAssumption

\* An approval is carried out a second time only when the row of the first
\* never reached the log (_load_pending_proposal_or_raise).
THEOREM CarriedOnce == Spec => []CarriedOutOnce
<1>1. Init => ApprovalInv
  BY ApprovalInitEstablishes
<1>2. ApprovalInv /\ [Next]_vars => ApprovalInv'
  BY ApprovalStep
<1>3. ApprovalInv => CarriedOutOnce
  BY DEF ApprovalInv
<1> QED BY <1>1, <1>2, <1>3, PTL DEF Spec

-----------------------------------------------------------------------------
(* The queue of weight deltas *)

\* What has been approved was drained or waits; a restart drops what waits.
QueueInv ==
  /\ queue \in Seq(Proposals) /\ deltas \in SUBSET Proposals
  /\ dispatched \in [Proposals -> Nat] /\ drained \in [Proposals -> Nat]
  /\ DeltaConserved

\* How often p is in the queue q.
Times(q, p) == Cardinality({i \in 1..Len(q) : q[i] = p})

\* Finitely often; never in the empty queue; once more in one that p was
\* appended to.
LEMMA TimesNat ==
  ASSUME NEW q \in Seq(Proposals), NEW p
  PROVE  Times(q, p) \in Nat /\ IsFiniteSet({i \in 1..Len(q) : q[i] = p})
<1>1. IsFiniteSet(1..Len(q))
  BY FS_Interval
<1>2. {i \in 1..Len(q) : q[i] = p} \subseteq 1..Len(q)
  OBVIOUS
<1> QED BY <1>1, <1>2, FS_Subset, FS_CardinalityType DEF Times

\* Nothing occurs in an empty queue.
LEMMA TimesNone ==
  ASSUME NEW p
  PROVE  Times(<<>>, p) = 0
<1>1. {i \in 1..Len(<<>>) : <<>>[i] = p} = {}
  OBVIOUS
<1> QED BY <1>1, FS_EmptySet DEF Times

\* An element more occurs once more.
LEMMA TimesAppend ==
  ASSUME NEW q \in Seq(Proposals), NEW new \in Proposals, NEW p
  PROVE  Times(Append(q, new), p) = Times(q, p) + IF p = new THEN 1 ELSE 0
<1> DEFINE Old == {i \in 1..Len(q) : q[i] = p}
           New == {i \in 1..Len(Append(q, new)) : Append(q, new)[i] = p}
<1>1. /\ IsFiniteSet(Old) /\ Times(q, p) \in Nat
      /\ Times(q, p) = Cardinality(Old)
      /\ Times(Append(q, new), p) = Cardinality(New)
  BY TimesNat DEF Times
<1>a. /\ Len(q) \in Nat /\ Len(Append(q, new)) = Len(q) + 1
      /\ \A i \in 1..Len(q) : Append(q, new)[i] = q[i]
      /\ Append(q, new)[Len(q) + 1] = new
  OBVIOUS
<1>b. \A i : i \in New <=> i \in Old \/ (i = Len(q) + 1 /\ new = p)
  BY <1>a
<1>2. CASE p = new
  <2>1. New = Old \cup {Len(q) + 1} /\ Len(q) + 1 \notin Old
    BY <1>2, <1>a, <1>b
  <2> HIDE DEF New, Old
  <2>2. Cardinality(Old \cup {Len(q) + 1}) = Cardinality(Old) + 1
    BY <1>1, <2>1, FS_AddElement
  <2>3. Cardinality(New) = Cardinality(Old) + 1
    BY <2>1, <2>2, Zenon
  <2> QED BY <1>1, <1>2, <2>3
<1>3. CASE p # new
  <2> HIDE DEF New, Old
  <2>1. New = Old
    <3>1. \A i : i \in New <=> i \in Old
      BY <1>3, <1>b
    <3> QED BY <3>1, Zenon
  <2> QED BY <1>1, <1>3, <2>1
<1> QED BY <1>2, <1>3

\* No step touches the queue but an approval, a loop's step 0 and the end of
\* the process.
LEMMA QueueSteps ==
  ASSUME Next
  PROVE  /\ UNCHANGED deltas
         /\ \/ UNCHANGED <<queue, drained, dispatched, restarted>>
            \/ queue' = <<>> /\ restarted' /\ UNCHANGED <<drained, dispatched>>
            \/ \E r \in Runs : Drain(r)
            \/ \E p \in Proposals, how \in Appends : Approve(p, how)
<1> USE DEF historyVars, countVars
<1>1. ASSUME NEW b \in BOOLEAN, StartAgent(b)
      PROVE  UNCHANGED <<queue, drained, dispatched, restarted, deltas>>
  BY <1>1 DEF StartAgent
<1>2. ASSUME StopAgent \/ StopAnswers
      PROVE  UNCHANGED <<queue, drained, dispatched, restarted, deltas>>
  BY <1>2 DEF StopAgent, StopAnswers, OthersOfRunner
<1>3. ASSUME Restart
      PROVE  queue' = <<>> /\ restarted' /\ UNCHANGED <<drained, dispatched, deltas>>
  BY <1>3 DEF Restart, Die
<1>4. ASSUME Poll
      PROVE  UNCHANGED <<queue, drained, dispatched, restarted, deltas>>
  BY <1>4 DEF Poll
<1>5. ASSUME NEW r \in Runs, Begin(r) \/ CancelUnstarted(r) \/ RunReturns(r)
      PROVE  UNCHANGED <<queue, drained, dispatched, restarted, deltas>>
  BY <1>5 DEF Begin, CancelUnstarted, RunReturns, OthersOfRunner
<1>6. ASSUME NEW r \in Runs, Boot(r) \/ Save(r) \/ Rest(r) \/ Advise(r) \/ Respawn(r)
      PROVE  UNCHANGED <<queue, drained, dispatched, restarted, deltas>>
  BY <1>6 DEF Boot, Save, Rest, Advise, Respawn
<1>7. ASSUME NEW r \in Runs, Drain(r)
      PROVE  UNCHANGED deltas
  BY <1>7 DEF Drain
<1>8. ASSUME NEW r \in Runs, AdviseCut(r)
      PROVE  queue' = <<>> /\ restarted' /\ UNCHANGED <<drained, dispatched, deltas>>
  BY <1>8 DEF AdviseCut, Die
<1>9. ASSUME NEW r \in Runs, NEW b \in BOOLEAN, EndRun(r, b)
      PROVE  UNCHANGED <<queue, drained, dispatched, restarted, deltas>>
  BY <1>9 DEF EndRun
<1>10. ASSUME NEW r \in Runs, NEW how \in Appends, AdviseFails(r, how)
       PROVE  UNCHANGED <<queue, drained, dispatched, restarted, deltas>>
  BY <1>10 DEF AdviseFails
<1>11. ASSUME NEW p \in Proposals, NEW how \in Appends, Approve(p, how)
       PROVE  UNCHANGED deltas
  BY <1>11 DEF Approve
<1>12. ASSUME NEW p \in Proposals, NEW how \in Appends, Reject(p, how)
       PROVE  UNCHANGED <<queue, drained, dispatched, restarted, deltas>>
  BY <1>12 DEF Reject
<1> QED
  BY <1>1, <1>2, <1>3, <1>4, <1>5, <1>6, <1>7, <1>8, <1>9, <1>10, <1>11, <1>12
     DEF Next, LoopStep

\* A delta leaves the queue only for the loop, or with the process.
LEMMA QueueStep ==
  ASSUME QueueInv, [Next]_vars
  PROVE  QueueInv'
<1>0. \A p \in Proposals : Queued(p) \in Nat
  BY TimesNat DEF Queued, Times, QueueInv
<1>1. CASE UNCHANGED <<queue, drained, dispatched, restarted, deltas>>
  <2>1. \A p : Queued(p)' = Queued(p)
    BY <1>1 DEF Queued
  <2>2. DeltaConserved'
    BY <1>1, <2>1 DEF QueueInv, DeltaConserved
  <2> QED BY <1>1, <2>2 DEF QueueInv
<1>2. CASE queue' = <<>> /\ restarted' /\ UNCHANGED <<drained, dispatched, deltas>>
  <2>1. \A p : Queued(p)' = 0
    BY <1>2, TimesNone DEF Queued, Times
  <2>2. \A p \in deltas : drained[p] <= dispatched[p]
    BY <1>0 DEF QueueInv, DeltaConserved
  <2>3. ASSUME NEW p \in deltas
        PROVE  drained'[p] + Queued(p)' <= dispatched'[p]
    BY <1>2, <2>1, <2>2 DEF QueueInv
  <2>4. DeltaConserved'
    BY <1>2, <2>3, Zenon DEF DeltaConserved
  <2>5. queue' \in Seq(Proposals)
    BY <1>2
  <2> QED BY <1>2, <2>4, <2>5 DEF QueueInv
<1>3. ASSUME NEW r \in Runs, Drain(r), UNCHANGED deltas
      PROVE  QueueInv'
  <2>1. /\ queue' = <<>> /\ UNCHANGED <<dispatched, restarted>>
        /\ drained' = [p \in Proposals |-> drained[p] + Queued(p)]
    BY <1>3 DEF Drain, countVars
  <2>2. \A p : Queued(p)' = 0
    BY <2>1, TimesNone DEF Queued, Times
  <2>3. \A p \in deltas : drained'[p] + Queued(p)' = drained[p] + Queued(p)
    BY <1>0, <2>1, <2>2 DEF QueueInv
  <2>4. DeltaConserved'
    BY <1>3, <2>1, <2>3 DEF DeltaConserved, QueueInv
  <2>5. queue' \in Seq(Proposals) /\ drained' \in [Proposals -> Nat]
    BY <1>0, <2>1 DEF QueueInv
  <2> QED BY <1>3, <2>1, <2>4, <2>5 DEF QueueInv
<1>4. ASSUME NEW a \in Proposals, NEW how \in Appends, Approve(a, how), UNCHANGED deltas
      PROVE  QueueInv'
  <2>1. /\ dispatched' = [dispatched EXCEPT ![a] = dispatched[a] + 1]
        /\ queue' = IF a \in deltas THEN Append(queue, a) ELSE queue
        /\ UNCHANGED <<drained, restarted>>
    BY <1>4 DEF Approve
  <2>2. \A p \in deltas : Queued(p)' = Queued(p) + IF p = a THEN 1 ELSE 0
    <3>1. CASE a \in deltas
      <4> SUFFICES ASSUME NEW p \in deltas
                   PROVE  Queued(p)' = Queued(p) + IF p = a THEN 1 ELSE 0
        OBVIOUS
      <4>1. queue' = Append(queue, a) /\ queue \in Seq(Proposals)
        BY <2>1, <3>1 DEF QueueInv
      <4>2. Queued(p) = Times(queue, p) /\ Queued(p)' = Times(queue', p)
        BY DEF Queued, Times
      <4> QED BY <4>1, <4>2, TimesAppend
    <3>2. CASE a \notin deltas
      <4>1. queue' = queue /\ queue \in Seq(Proposals)
        BY <2>1, <3>2 DEF QueueInv
      <4>2. \A p : Queued(p)' = Queued(p) /\ Queued(p) \in Nat
        BY <4>1, TimesNat DEF Queued, Times
      <4> QED BY <4>2, <3>2
    <3> QED BY <3>1, <3>2
  <2>3. \A p \in deltas : dispatched'[p] = dispatched[p] + IF p = a THEN 1 ELSE 0
    BY <2>1 DEF QueueInv
  <2>4. \A p \in deltas : /\ Queued(p) \in Nat /\ drained[p] \in Nat
                          /\ dispatched[p] \in Nat
    BY <1>0 DEF QueueInv
  <2>5. ASSUME NEW p \in deltas
        PROVE  /\ drained[p] + Queued(p)' <= dispatched'[p]
               /\ drained[p] + Queued(p) = dispatched[p]
                    => drained[p] + Queued(p)' = dispatched'[p]
    <3>1. drained[p] + Queued(p) <= dispatched[p]
      BY DEF QueueInv, DeltaConserved
    <3> QED BY <2>2, <2>3, <2>4, <3>1
  <2>6. DeltaConserved'
    BY <1>4, <2>1, <2>5 DEF DeltaConserved, QueueInv
  <2>7. queue' \in Seq(Proposals) /\ dispatched' \in [Proposals -> Nat]
    BY <2>1 DEF QueueInv
  <2> QED BY <1>4, <2>1, <2>6, <2>7 DEF QueueInv
<1>5. CASE UNCHANGED vars
  BY <1>1, <1>5 DEF vars, historyVars, countVars
<1> QED BY <1>1, <1>2, <1>3, <1>4, <1>5, QueueSteps

\* The queue neither loses nor multiplies an approved delta; only a restart of
\* the process drops it (apply_weight_delta, drain_pending_deltas).
THEOREM DeltasConserved == Spec => []DeltaConserved
<1>1. Init => QueueInv
  <2> SUFFICES ASSUME Init
               PROVE  QueueInv
    OBVIOUS
  <2>1. /\ queue = <<>> /\ deltas \in SUBSET Proposals
        /\ drained = [p \in Proposals |-> 0] /\ dispatched = [p \in Proposals |-> 0]
    BY DEF Init
  <2>2. \A p \in Proposals : Queued(p) = 0
    BY <2>1, TimesNone DEF Queued, Times
  <2>3. DeltaConserved
    BY <2>1, <2>2 DEF DeltaConserved
  <2> QED BY <2>1, <2>3 DEF QueueInv
<1>2. QueueInv /\ [Next]_vars => QueueInv'
  BY QueueStep
<1>3. QueueInv => DeltaConserved
  BY DEF QueueInv
<1> QED BY <1>1, <1>2, <1>3, PTL DEF Spec

-----------------------------------------------------------------------------
(* The loops, their snapshot and their list *)

LoopTypes ==
  /\ at \in [Runs -> {"boot", "rest", "drained", "saved"}]
  /\ weights \in [Runs -> SUBSET Proposals]
  /\ pending \in [Runs -> SUBSET Proposals]
  /\ snapshot.weights \in SUBSET Proposals
  /\ snapshot.pending \in SUBSET Proposals
  /\ emitted \in 0..MaxProposals
  /\ queue \in Seq(Proposals)

\* A task that does not run has no loop under way.
AtBoot == \A r \in Runs : task[r] # "running" => at[r] = "boot"

LoopInv == LoopTypes /\ AtBoot /\ SavedAtRest /\ NoProposalHidden

\* Only the run in the slot takes steps: one that was given up is cancelled at
\* its next await.
LEMMA OnlySlotSteps ==
  ASSUME RunnerInv, NEW r \in Runs, task[r] = "running", r \notin doomed
  PROVE  r = slot /\ IsRunning
BY RunsAssumption DEF RunnerInv, SlotInv, OneLoopUnlessAbandoned, LiveRuns,
   Alive, IsRunning, Runs, RunsAssumption

\* With no loop past its boot in the slot there is nothing to keep.
LEMMA NothingToKeep ==
  ASSUME slot' = 0 \/ task'[slot'] # "running" \/ at'[slot'] = "boot"
  PROVE  SavedAtRest' /\ NoProposalHidden'
BY DEF SavedAtRest, NoProposalHidden, IsRunning

\* A step that leaves the slot's loop, the log and the snapshot alone.
LEMMA LoopKept ==
  ASSUME LoopInv, UNCHANGED <<slot, proposals, snapshot>>,
         task'[slot] = task[slot], at'[slot] = at[slot],
         weights'[slot] = weights[slot], pending'[slot] = pending[slot]
  PROVE  SavedAtRest' /\ NoProposalHidden'
<1>1. PendingOnDisk' = PendingOnDisk
  BY DEF PendingOnDisk, LatestIs
<1>2. IsRunning' = IsRunning
  BY DEF IsRunning
<1> QED BY <1>1, <1>2 DEF LoopInv, SavedAtRest, NoProposalHidden

\* A loop that boots reads what the disk says.
LEMMA BootStep ==
  ASSUME RunnerInv, LoopInv, NEW r \in Runs, Boot(r)
  PROVE  LoopInv'
<1>1. /\ task[r] = "running" /\ r \notin doomed /\ at' = [at EXCEPT ![r] = "rest"]
      /\ UNCHANGED <<slot, task, proposals, snapshot, emitted, queue>>
  BY DEF Boot, Step, runnerVars, logVars, historyVars
<1>2. r = slot
  BY <1>1, OnlySlotSteps
<1>3. /\ snapshot.exists => weights' = [weights EXCEPT ![r] = snapshot.weights]
      /\ ~snapshot.exists => weights' = weights
      /\ pending' = [pending EXCEPT ![r] = PendingOnDisk]
  BY DEF Boot
<1>4. PendingOnDisk' = PendingOnDisk /\ PendingOnDisk \in SUBSET Proposals
  BY <1>1 DEF PendingOnDisk, LatestIs
<1>5. LoopTypes'
  <2>1. weights' \in [Runs -> SUBSET Proposals]
    BY <1>3 DEF LoopInv, LoopTypes
  <2> QED BY <1>1, <1>3, <1>4, <2>1 DEF LoopInv, LoopTypes
<1>6. AtBoot'
  BY <1>1 DEF LoopInv, LoopTypes, AtBoot
<1>7. snapshot'.exists => snapshot'.weights = weights'[slot']
  BY <1>1, <1>2, <1>3 DEF LoopInv, LoopTypes
<1>8. PendingOnDisk' \subseteq pending'[slot']
  BY <1>1, <1>2, <1>3, <1>4 DEF LoopInv, LoopTypes
<1> QED BY <1>5, <1>6, <1>7, <1>8 DEF LoopInv, SavedAtRest, NoProposalHidden

\* The drain comes before the decision of its tick.
LEMMA DrainStep ==
  ASSUME RunnerInv, LoopInv, NEW r \in Runs, Drain(r)
  PROVE  LoopInv'
<1>1. /\ task[r] = "running" /\ r \notin doomed /\ at[r] = "rest"
      /\ at' = [at EXCEPT ![r] = "drained"]
      /\ weights' = [weights EXCEPT ![r] = weights[r] \cup ToSet(queue)]
      /\ queue' = <<>>
      /\ UNCHANGED <<slot, task, proposals, snapshot, emitted, pending>>
  BY DEF Drain, Step, runnerVars, logVars
<1>2. r = slot /\ IsRunning
  BY <1>1, OnlySlotSteps
<1>3. ToSet(queue) \in SUBSET Proposals
  BY DEF ToSet, LoopInv, LoopTypes
<1>4. LoopTypes' /\ AtBoot'
  BY <1>1, <1>3 DEF LoopInv, LoopTypes, AtBoot
<1>5. SavedAtRest'
  BY <1>1, <1>2 DEF LoopInv, LoopTypes, SavedAtRest
<1>6. PendingOnDisk' = PendingOnDisk
  BY <1>1 DEF PendingOnDisk, LatestIs
<1>7. NoProposalHidden'
  BY <1>1, <1>2, <1>6 DEF LoopInv, NoProposalHidden
<1> QED BY <1>4, <1>5, <1>7 DEF LoopInv

\* A tick's snapshot holds the loop's weights.
LEMMA SaveStep ==
  ASSUME RunnerInv, LoopInv, NEW r \in Runs, Save(r) \/ Rest(r)
  PROVE  LoopInv'
<1>1. /\ task[r] = "running" /\ r \notin doomed
      /\ at' \in {[at EXCEPT ![r] = "saved"], [at EXCEPT ![r] = "rest"]}
      /\ UNCHANGED <<slot, task, proposals, emitted, queue, weights, pending>>
  BY DEF Save, Rest, Step, runnerVars, logVars, historyVars
<1>2. r = slot /\ IsRunning
  BY <1>1, OnlySlotSteps
<1>3. \/ snapshot' = SnapshotOf(r)
      \/ snapshot' = snapshot /\ at[r] = "saved"
  BY DEF Save, Rest, Step
<1>4. LoopTypes' /\ AtBoot'
  <2>1. snapshot'.weights \in SUBSET Proposals /\ snapshot'.pending \in SUBSET Proposals
    BY <1>3 DEF SnapshotOf, LoopInv, LoopTypes
  <2>2. at' \in [Runs -> {"boot", "rest", "drained", "saved"}]
    BY <1>1 DEF LoopInv, LoopTypes
  <2>3. AtBoot'
    BY <1>1 DEF LoopInv, LoopTypes, AtBoot
  <2> QED BY <1>1, <2>1, <2>2, <2>3 DEF LoopInv, LoopTypes
<1>5. snapshot'.exists => snapshot'.weights = weights'[slot']
  <2>1. CASE snapshot' = SnapshotOf(r)
    BY <1>1, <1>2, <2>1 DEF SnapshotOf
  <2>2. CASE snapshot' = snapshot /\ at[r] = "saved"
    BY <1>1, <1>2, <2>2 DEF LoopInv, LoopTypes, SavedAtRest
  <2> QED BY <1>3, <2>1, <2>2
<1>6. PendingOnDisk' = PendingOnDisk
  BY <1>1 DEF PendingOnDisk, LatestIs
<1>7. at[r] # "boot"
  BY DEF Save, Rest, Step
<1>8. NoProposalHidden'
  BY <1>1, <1>2, <1>6, <1>7 DEF LoopInv, NoProposalHidden
<1> QED BY <1>4, <1>5, <1>8 DEF LoopInv, SavedAtRest

\* A proposal is listed when it is emitted.
LEMMA AdviseStep ==
  ASSUME RunnerInv, LoopInv, ApprovalInv, NEW r \in Runs, Advise(r)
  PROVE  LoopInv'
<1>1. /\ task[r] = "running" /\ r \notin doomed /\ at[r] = "saved"
      /\ at' = [at EXCEPT ![r] = "rest"]
      /\ emitted' = emitted + 1 /\ emitted < MaxProposals
      /\ AppendRow(Row(emitted', "pending"), "ok")
      /\ pending' = [pending EXCEPT ![r] = pending[r] \cup {emitted'}]
      /\ snapshot' = [weights |-> weights[r], pending |-> pending'[r], exists |-> TRUE]
      /\ UNCHANGED <<slot, task, queue, weights>>
  BY DEF Advise, Step, runnerVars
<1>2. r = slot /\ IsRunning
  BY <1>1, OnlySlotSteps
<1>3. emitted' \in Proposals
  BY <1>1, ControlPlaneAssumption
     DEF LoopInv, LoopTypes, Proposals, ControlPlaneAssumption
<1>4. pending' \in [Runs -> SUBSET Proposals] /\ pending'[r] = pending[r] \cup {emitted'}
  BY <1>1, <1>3 DEF LoopInv, LoopTypes
<1>5. snapshot'.weights = weights[r] /\ snapshot'.pending = pending'[r]
  BY <1>1
<1>6. LoopTypes' /\ AtBoot'
  <2>1. emitted' \in 0..MaxProposals
    BY <1>3, ControlPlaneAssumption DEF Proposals, ControlPlaneAssumption
  <2> QED BY <1>1, <1>4, <1>5, <2>1 DEF LoopInv, LoopTypes, AtBoot
<1>7. SavedAtRest'
  BY <1>1, <1>2, <1>5 DEF SavedAtRest
<1>8. \A q \in Proposals : LatestIs(q, "pending")' =>
         LatestIs(q, "pending") \/ Row(emitted', "pending") = Row(q, "pending")
  <2>1. Row(emitted', "pending") \in Rows
    BY <1>3 DEF Row, Rows, Statuses
  <2> QED BY <1>1, <2>1, Appending DEF ApprovalInv, Statuses, Appends
<1>9. PendingOnDisk' \subseteq PendingOnDisk \cup {emitted'}
  BY <1>8 DEF PendingOnDisk, Row
<1>10. NoProposalHidden'
  BY <1>1, <1>2, <1>4, <1>9 DEF LoopInv, NoProposalHidden
<1> QED BY <1>6, <1>7, <1>10 DEF LoopInv

\* A route takes out of the list what it resolves.
LEMMA ResolveStep ==
  ASSUME LoopInv, ApprovalInv, NEW p \in Proposals, NEW how \in Appends,
         Approve(p, how) \/ Reject(p, how)
  PROVE  LoopInv'
<1>1. PICK status \in {"approved", "rejected"} : AppendRow(Row(p, status), how)
  BY DEF Approve, Reject
<1>2. UNCHANGED <<slot, task, at, weights, pending, snapshot, emitted>>
  BY DEF Approve, Reject, runnerVars, loopVars, historyVars
<1>3. queue' \in Seq(Proposals)
  <2>1. queue \in Seq(Proposals)
    BY DEF LoopInv, LoopTypes
  <2>2. queue' = queue \/ queue' = Append(queue, p)
    BY DEF Approve, Reject
  <2> QED BY <2>1, <2>2
<1>4. \A q \in Proposals : LatestIs(q, "pending")' => LatestIs(q, "pending")
  <2>1. Row(p, status) \in Rows
    BY DEF Row, Rows, Statuses
  <2>2. \A q \in Proposals : Row(p, status) # Row(q, "pending")
    BY DEF Row
  <2> QED BY <1>1, <2>1, <2>2, Appending DEF ApprovalInv, Statuses
<1>5. PendingOnDisk' \subseteq PendingOnDisk
  BY <1>4 DEF PendingOnDisk
<1>6. LoopTypes' /\ AtBoot' /\ SavedAtRest'
  BY <1>2, <1>3 DEF LoopInv, LoopTypes, AtBoot, SavedAtRest, IsRunning
<1>7. NoProposalHidden'
  BY <1>2, <1>5 DEF LoopInv, NoProposalHidden, IsRunning
<1> QED BY <1>6, <1>7 DEF LoopInv

\* A start finds no loop past its boot.
LEMMA StartStep ==
  ASSUME RunnerInv, LoopInv, NEW b \in BOOLEAN, StartAgent(b)
  PROVE  LoopInv'
<1>1. /\ slot' = started + 1 /\ slot' \in Runs
      /\ task' = [task EXCEPT ![slot'] = "created"]
      /\ UNCHANGED <<at, weights, pending, emitted, queue>>
  BY RunsAssumption
     DEF StartAgent, Start, RunnerInv, RunnerTypeOK, Runs, RunsAssumption,
         loopVars, historyVars
<1>2. snapshot' \in {snapshot, NoSnapshot}
  BY DEF StartAgent, KeepLife, ResetLife
<1>3. LoopTypes' /\ AtBoot'
  <2>1. task[slot'] = "unborn"
    BY <1>1, RunsAssumption DEF RunnerInv, RunnerTypeOK, SlotInv, Runs,
       RunsAssumption
  <2>2. snapshot'.weights \in SUBSET Proposals /\ snapshot'.pending \in SUBSET Proposals
    BY <1>2 DEF NoSnapshot, LoopInv, LoopTypes
  <2>3. AtBoot'
    BY <1>1, <2>1 DEF LoopInv, AtBoot
  <2> QED BY <1>1, <2>2, <2>3 DEF LoopInv, LoopTypes
<1>4. task'[slot'] # "running"
  BY <1>1 DEF RunnerInv, RunnerTypeOK
<1> QED BY <1>3, <1>4, NothingToKeep DEF LoopInv

\* A stop takes nothing from the loop it cancels.
LEMMA StopStep ==
  ASSUME LoopInv, StopAgent \/ StopAnswers
  PROVE  LoopInv'
<1>1. /\ slot' \in {0, slot}
      /\ UNCHANGED <<task, at, weights, pending, snapshot, proposals, emitted, queue>>
  BY DEF StopAgent, StopAnswers, StopIdle, Stop, StopReturns, StopTimesOut,
     OthersOfRunner, loopVars, logVars, historyVars
<1>2. LoopTypes' /\ AtBoot'
  BY <1>1 DEF LoopInv, LoopTypes, AtBoot
<1>3. SavedAtRest' /\ NoProposalHidden'
  BY <1>1, LoopKept, NothingToKeep
<1> QED BY <1>2, <1>3 DEF LoopInv

\* A restart of the process leaves no loop.
LEMMA DeathStep ==
  ASSUME LoopInv, NEW r \in Runs, Restart \/ AdviseCut(r)
  PROVE  LoopInv'
<1>1. /\ slot' = 0 /\ queue' = <<>> /\ snapshot' = snapshot
      /\ at' = [q \in Runs |-> "boot"]
      /\ weights' = [q \in Runs |-> {}] /\ pending' = [q \in Runs |-> {}]
  BY DEF Restart, AdviseCut, Die, Forget, ProcessDies
<1>2. emitted' \in 0..MaxProposals
  BY ControlPlaneAssumption DEF Restart, AdviseCut, LoopInv, LoopTypes,
     historyVars, ControlPlaneAssumption
<1>3. LoopTypes' /\ AtBoot'
  BY <1>1, <1>2 DEF LoopInv, LoopTypes, AtBoot
<1> QED BY <1>1, <1>3, NothingToKeep DEF LoopInv

\* What the runner alone does leaves the loop's memory.
LEMMA TaskStep ==
  ASSUME RunnerInv, LoopInv, NEW r \in Runs, Begin(r) \/ CancelUnstarted(r)
  PROVE  LoopInv'
<1>1. /\ task[r] = "created" /\ \E how : task' = [task EXCEPT ![r] = how]
      /\ UNCHANGED <<slot, at, weights, pending, snapshot, proposals, emitted, queue>>
  BY DEF Begin, CancelUnstarted, FirstStep, CancelBeforeFirstStep,
     OthersOfRunner, loopVars, logVars, historyVars
<1>2. at[r] = "boot"
  BY <1>1 DEF LoopInv, AtBoot
<1>3. LoopTypes' /\ AtBoot'
  BY <1>1, <1>2 DEF LoopInv, LoopTypes, AtBoot, RunnerInv, RunnerTypeOK
<1>4. CASE slot = r
  BY <1>1, <1>2, <1>3, <1>4, NothingToKeep DEF LoopInv
<1>5. CASE slot # r
  <2>1. task'[slot] = task[slot]
    BY <1>1, <1>5 DEF RunnerInv, RunnerTypeOK
  <2> QED BY <1>1, <1>3, <2>1, LoopKept DEF LoopInv
<1> QED BY <1>4, <1>5

\* A run that ends takes its memory with it.
LEMMA EndStep ==
  ASSUME RunnerInv, LoopInv, NEW r \in Runs,
         \/ RunReturns(r)
         \/ \E b \in BOOLEAN : EndRun(r, b)
         \/ \E how \in Appends : AdviseFails(r, how)
  PROVE  LoopInv'
<1>1. /\ \E how \in Over : task' = [task EXCEPT ![r] = how]
      /\ Forget({r}) /\ UNCHANGED <<slot, snapshot, queue>>
  BY DEF RunReturns, EndRun, AdviseFails, Returns, Fails, CancelLands, Finish,
     Over
<1>2. proposals' = proposals
  BY DEF RunReturns, EndRun, AdviseFails, AppendRow, logVars
<1>3. emitted' \in 0..MaxProposals
  <2>1. CASE RunReturns(r) \/ \E b \in BOOLEAN : EndRun(r, b)
    BY <2>1 DEF RunReturns, EndRun, historyVars, LoopInv, LoopTypes
  <2>2. CASE \E how \in Appends : AdviseFails(r, how)
    <3>1. emitted < MaxProposals /\ emitted' = emitted + 1
      BY <2>2 DEF AdviseFails
    <3> QED BY <3>1, ControlPlaneAssumption
               DEF LoopInv, LoopTypes, ControlPlaneAssumption
  <2> QED BY <2>1, <2>2
<1>4. task'[r] # "running"
  BY <1>1 DEF Over, RunnerInv, RunnerTypeOK
<1>5. LoopTypes' /\ AtBoot'
  <2>1. LoopTypes'
    BY <1>1, <1>3 DEF Forget, LoopInv, LoopTypes
  <2>2. \A q \in Runs : q # r => task'[q] = task[q] /\ at'[q] = at[q]
    BY <1>1 DEF Forget, RunnerInv, RunnerTypeOK
  <2>3. at'[r] = "boot"
    BY <1>1 DEF Forget
  <2> QED BY <2>1, <2>2, <2>3 DEF LoopInv, AtBoot
<1>6. CASE slot = r
  BY <1>1, <1>4, <1>5, <1>6, NothingToKeep DEF LoopInv
<1>7. CASE slot \in Runs \ {r}
  <2>1. /\ task'[slot] = task[slot] /\ at'[slot] = at[slot]
        /\ weights'[slot] = weights[slot] /\ pending'[slot] = pending[slot]
    BY <1>1, <1>7 DEF Forget, RunnerInv, RunnerTypeOK
  <2> QED BY <1>1, <1>2, <1>5, <2>1, LoopKept DEF LoopInv
<1>8. CASE slot = 0
  BY <1>1, <1>5, <1>8, NothingToKeep DEF LoopInv
<1>9. slot = 0 \/ slot \in Runs
  BY RunsAssumption DEF RunnerInv, RunnerTypeOK, Runs, RunsAssumption
<1> QED BY <1>6, <1>7, <1>8, <1>9

\* A life begun afresh begins with an empty log.
LEMMA RespawnStep ==
  ASSUME RunnerInv, LoopInv, NEW r \in Runs, Respawn(r)
  PROVE  LoopInv'
<1>1. /\ task[r] = "running" /\ r \notin doomed /\ at' = [at EXCEPT ![r] = "boot"]
      /\ pending' = [pending EXCEPT ![r] = {}] /\ snapshot' = NoSnapshot
      /\ UNCHANGED <<slot, task, weights, emitted, queue>>
  BY DEF Respawn, Step, ResetLife, runnerVars, historyVars
<1>2. r = slot
  BY <1>1, OnlySlotSteps
<1>3. LoopTypes' /\ AtBoot'
  BY <1>1 DEF LoopInv, LoopTypes, AtBoot, NoSnapshot
<1>4. at'[slot'] = "boot"
  BY <1>1, <1>2 DEF LoopInv, LoopTypes
<1> QED BY <1>3, <1>4, NothingToKeep DEF LoopInv

\* The three invariants together, for any number of runs and proposals.
THEOREM LoopInvariant == Spec => [](RunnerInv /\ ApprovalInv /\ LoopInv)
<1>1. Init => LoopInv
  <2> SUFFICES ASSUME Init
               PROVE  LoopInv
    OBVIOUS
  <2>1. /\ slot = 0 /\ queue = <<>> /\ snapshot = NoSnapshot /\ emitted = 0
        /\ at = [r \in Runs |-> "boot"]
        /\ weights = [r \in Runs |-> {}] /\ pending = [r \in Runs |-> {}]
    BY DEF Init, RunnerInit
  <2>2. LoopTypes /\ AtBoot
    BY <2>1, ControlPlaneAssumption
       DEF LoopTypes, AtBoot, NoSnapshot, ControlPlaneAssumption
  <2>3. SavedAtRest /\ NoProposalHidden
    BY <2>1 DEF SavedAtRest, NoProposalHidden, IsRunning
  <2> QED BY <2>2, <2>3 DEF LoopInv
<1>2. RunnerInv /\ ApprovalInv /\ LoopInv /\ [Next]_vars => LoopInv'
  <2> SUFFICES ASSUME RunnerInv, ApprovalInv, LoopInv, [Next]_vars
               PROVE  LoopInv'
    OBVIOUS
  <2>1. CASE UNCHANGED vars \/ Poll
    <3>1. UNCHANGED <<slot, task, at, weights, pending, snapshot, proposals, emitted, queue>>
      BY <2>1 DEF vars, Poll, runnerVars, loopVars, logVars, historyVars
    <3>2. LoopTypes' /\ AtBoot'
      BY <3>1 DEF LoopInv, LoopTypes, AtBoot
    <3> QED BY <3>1, <3>2, LoopKept DEF LoopInv
  <2>2. CASE StopAgent \/ StopAnswers
    BY <2>2, StopStep
  <2>3. CASE Restart
    <3>1. CASE Runs = {}
      <4>1. slot' = 0 /\ queue' = <<>> /\ UNCHANGED <<snapshot, emitted>>
            /\ at' = [q \in Runs |-> "boot"]
            /\ weights' = [q \in Runs |-> {}] /\ pending' = [q \in Runs |-> {}]
        BY <2>3 DEF Restart, Die, Forget, ProcessDies, historyVars
      <4>2. LoopTypes' /\ AtBoot'
        BY <4>1 DEF LoopInv, LoopTypes, AtBoot
      <4> QED BY <4>1, <4>2, NothingToKeep DEF LoopInv
    <3>2. CASE Runs # {}
      BY <2>3, <3>2, DeathStep
    <3> QED BY <3>1, <3>2
  <2>4. ASSUME NEW r \in Runs, LoopStep(r)
        PROVE  LoopInv'
    BY <2>4, BootStep, DrainStep, SaveStep, AdviseStep, RespawnStep DEF LoopStep
  <2> QED
    BY <2>1, <2>2, <2>3, <2>4, StartStep, DeathStep, TaskStep, EndStep,
       ResolveStep DEF Next
<1>3. Init => RunnerInv /\ ApprovalInv
  BY RunnerInitEstablishes, ApprovalInitEstablishes DEF Init
<1>4. RunnerInv /\ [Next]_vars => RunnerInv'
  BY RunnerInvStep
<1>5. ApprovalInv /\ [Next]_vars => ApprovalInv'
  BY ApprovalStep
<1> QED BY <1>1, <1>2, <1>3, <1>4, <1>5, PTL DEF Spec

\* What a loop drained survives a stop: between two ticks the snapshot holds
\* the weights the loop decides with (steps 0, 7 and 10 of a tick).
THEOREM SnapshotTrue == Spec => []SavedAtRest
<1>1. LoopInv => SavedAtRest
  BY DEF LoopInv
<1> QED BY <1>1, LoopInvariant, PTL

\* A proposal that waits for the operator is in the list of the loop in the
\* slot (_reconstruct_from_disk, step 10, the approve and reject routes).
THEOREM PendingListed == Spec => []NoProposalHidden
<1>1. LoopInv => NoProposalHidden
  BY DEF LoopInv
<1> QED BY <1>1, LoopInvariant, PTL

-----------------------------------------------------------------------------
(* The stream *)

\* The client has read no more lines than there are, and was sent the readable
\* ones among them.
StreamInv ==
  /\ proposals \in Seq(Rows \cup {Garbage}) /\ offset \in Nat
  /\ ~cut => offset <= Len(proposals)
  /\ StreamComplete

\* A row appended, glued to a fragment or lost.
LEMMA RowAppended ==
  ASSUME NEW row \in Rows, NEW how \in Appends, AppendRow(row, how)
  PROVE  \/ UNCHANGED proposals
         \/ \E x \in Rows \cup {Garbage} : proposals' = Append(proposals, x)
BY DEF AppendRow

\* Every step leaves the stream alone while the log grows by at most a line, or
\* cuts it, or begins it again, or is a poll.
StreamMoves ==
  \/ /\ UNCHANGED <<offset, sent, cut>>
     /\ \/ UNCHANGED proposals
        \/ \E x \in Rows \cup {Garbage} : proposals' = Append(proposals, x)
  \/ proposals' = <<>> /\ cut' /\ UNCHANGED offset
  \/ /\ offset' = 0 /\ sent' = <<>>
     /\ \/ UNCHANGED proposals
        \/ \E x \in Rows \cup {Garbage} : proposals' = Append(proposals, x)
  \/ Poll

\* How a step moves what the stream reads.
LEMMA StreamSteps ==
  ASSUME Next, emitted \in 0..MaxProposals
  PROVE  StreamMoves
<1> USE DEF StreamMoves, logVars, streamVars
<1>1. ASSUME NEW b \in BOOLEAN, StartAgent(b)
      PROVE  StreamMoves
  BY <1>1 DEF StartAgent, KeepLife, ResetLife
<1>2. ASSUME StopAgent \/ StopAnswers
      PROVE  StreamMoves
  BY <1>2 DEF StopAgent, StopAnswers, OthersOfRunner
<1>3. ASSUME Restart
      PROVE  StreamMoves
  BY <1>3 DEF Restart, Die
<1>4. ASSUME NEW r \in Runs, Begin(r) \/ CancelUnstarted(r) \/ RunReturns(r)
      PROVE  StreamMoves
  BY <1>4 DEF Begin, CancelUnstarted, RunReturns, OthersOfRunner
<1>5. ASSUME NEW r \in Runs, Boot(r) \/ Drain(r) \/ Save(r) \/ Rest(r)
      PROVE  StreamMoves
  BY <1>5 DEF Boot, Drain, Save, Rest
<1>6. ASSUME NEW r \in Runs, Respawn(r)
      PROVE  StreamMoves
  BY <1>6 DEF Respawn, ResetLife
<1>7. ASSUME emitted < MaxProposals, emitted' = emitted + 1
      PROVE  Row(emitted', "pending") \in Rows
  <2>1. emitted' \in Proposals
    BY <1>7, ControlPlaneAssumption DEF Proposals, ControlPlaneAssumption
  <2> QED BY <2>1 DEF Row, Rows, Statuses
<1>8. ASSUME NEW r \in Runs, Advise(r)
      PROVE  StreamMoves
  BY <1>7, <1>8, RowAppended DEF Advise, Appends
<1>9. ASSUME NEW r \in Runs, AdviseCut(r)
      PROVE  StreamMoves
  BY <1>7, <1>9, RowAppended DEF AdviseCut, Die, Appends
<1>10. ASSUME NEW r \in Runs, NEW how \in Appends, AdviseFails(r, how)
       PROVE  StreamMoves
  BY <1>7, <1>10, RowAppended DEF AdviseFails
<1>11. ASSUME NEW r \in Runs, NEW b \in BOOLEAN, EndRun(r, b)
       PROVE  StreamMoves
  BY <1>11 DEF EndRun
<1>12. ASSUME NEW p \in Proposals
       PROVE  Row(p, "approved") \in Rows /\ Row(p, "rejected") \in Rows
  BY DEF Row, Rows, Statuses
<1>13. ASSUME NEW p \in Proposals, NEW how \in Appends, Approve(p, how) \/ Reject(p, how)
       PROVE  StreamMoves
  BY <1>12, <1>13, RowAppended DEF Approve, Reject
<1> QED
  BY <1>1, <1>2, <1>3, <1>4, <1>5, <1>6, <1>8, <1>9, <1>10, <1>11, <1>13
     DEF Next, LoopStep

\* A poll sends what is readable between the old offset and the new one.
LEMMA PollStep ==
  ASSUME StreamInv, Poll
  PROVE  StreamInv'
<1> DEFINE S == Rows \cup {Garbage}
           n == Len(proposals)
           old == SubSeq(proposals, 1, offset)
           new == SubSeq(proposals, offset + 1, n)
<1>1. /\ proposals \in Seq(S) /\ n \in Nat /\ offset \in Nat /\ offset < n
      /\ offset' = n /\ UNCHANGED <<proposals, cut>>
      /\ ~cut => sent = Kept(old, Rows) /\ sent' = sent \o Kept(new, Rows)
  BY DEF StreamInv, StreamComplete, Poll, Whole, logVars
<1>2. old \in Seq(S) /\ new \in Seq(S)
  BY <1>1
<1>3. SubSeq(proposals, 1, n) = old \o new
  <2>1. /\ 1 \in 1..Len(proposals) + 1 /\ offset \in 1 - 1..Len(proposals)
        /\ Len(proposals) \in offset..Len(proposals)
    BY <1>1
  <2> QED BY <1>1, <2>1, ConcatAdjacentSubSeq
<1> HIDE DEF old, new, n
<1>4. Kept(old \o new, Rows) = Kept(old, Rows) \o Kept(new, Rows)
  BY <1>2, KeptConcat
<1>5. ~cut' => sent' = Kept(SubSeq(proposals', 1, offset'), Rows)
  BY <1>1, <1>3, <1>4
<1>6. offset' <= Len(proposals')
  BY <1>1 DEF n
<1> QED BY <1>1, <1>5, <1>6 DEF StreamInv, StreamComplete, Whole

\* Lines that come after the offset are nothing to the client yet.
LEMMA StreamStep ==
  ASSUME StreamInv, StreamMoves
  PROVE  StreamInv'
<1> USE DEF StreamInv, StreamComplete, Whole
<1>1. ASSUME NEW x \in Rows \cup {Garbage}, proposals' = Append(proposals, x)
      PROVE  /\ proposals' \in Seq(Rows \cup {Garbage})
             /\ Len(proposals') = Len(proposals) + 1
             /\ \A n \in Nat : n <= Len(proposals) =>
                  SubSeq(proposals', 1, n) = SubSeq(proposals, 1, n)
  <2>1. /\ proposals' \in Seq(Rows \cup {Garbage})
        /\ Len(proposals') = Len(proposals) + 1 /\ Len(proposals) \in Nat
        /\ \A i \in 1..Len(proposals) : proposals'[i] = proposals[i]
    BY <1>1, AppendProperties
  <2>2. ASSUME NEW n \in Nat, n <= Len(proposals)
        PROVE  SubSeq(proposals', 1, n) = SubSeq(proposals, 1, n)
    <3>1. n \in 0..Len(proposals) /\ n \in 0..Len(proposals')
      BY <2>1, <2>2
    <3>2. /\ SubSeq(proposals, 1, n) = Restrict(proposals, 1..n)
          /\ SubSeq(proposals', 1, n) = Restrict(proposals', 1..n)
      BY <2>1, <3>1, SubSeqRestrict
    <3>3. \A i \in 1..n : proposals'[i] = proposals[i]
      BY <2>1, <2>2
    <3> QED BY <3>2, <3>3 DEF Restrict
  <2> QED BY <2>1, <2>2
<1>2. CASE /\ UNCHANGED <<offset, sent, cut>>
           /\ \/ UNCHANGED proposals
              \/ \E x \in Rows \cup {Garbage} : proposals' = Append(proposals, x)
  <2>1. CASE UNCHANGED proposals
    BY <1>2, <2>1
  <2>2. CASE \E x \in Rows \cup {Garbage} : proposals' = Append(proposals, x)
    <3>1. /\ proposals' \in Seq(Rows \cup {Garbage})
          /\ Len(proposals') = Len(proposals) + 1 /\ Len(proposals) \in Nat
          /\ \A n \in Nat : n <= Len(proposals) =>
               SubSeq(proposals', 1, n) = SubSeq(proposals, 1, n)
      BY <1>1, <2>2
    <3>2. ~cut' => sent' = Kept(SubSeq(proposals', 1, offset'), Rows)
      BY <1>2, <3>1
    <3> QED BY <1>2, <3>1, <3>2
  <2> QED BY <1>2, <2>1, <2>2
<1>3. CASE proposals' = <<>> /\ cut' /\ UNCHANGED offset
  <2>1. <<>> \in Seq(Rows \cup {Garbage})
    OBVIOUS
  <2> QED BY <1>3, <2>1
<1>4. CASE /\ offset' = 0 /\ sent' = <<>>
           /\ \/ UNCHANGED proposals
              \/ \E x \in Rows \cup {Garbage} : proposals' = Append(proposals, x)
  <2>1. proposals' \in Seq(Rows \cup {Garbage}) /\ 0 <= Len(proposals')
    BY <1>1, <1>4
  <2>2. SubSeq(proposals', 1, 0) = <<>>
    BY <2>1
  <2>3. Kept(<<>>, Rows) = <<>>
    BY KeptEmpty
  <2> QED BY <1>4, <2>1, <2>2, <2>3
<1>5. CASE Poll
  BY <1>5, PollStep
<1> QED BY <1>2, <1>3, <1>4, <1>5 DEF StreamMoves

\* The client of the stream was sent every readable row up to its offset, once
\* and in order, unless a reset replaced the file (_sse_event_stream).
THEOREM StreamWhole == Spec => []StreamComplete
<1>1. Init => StreamInv
  <2> SUFFICES ASSUME Init
               PROVE  StreamInv
    OBVIOUS
  <2>1. /\ proposals = <<>> /\ offset = 0 /\ sent = <<>>
        /\ <<>> \in Seq(Rows \cup {Garbage}) /\ SubSeq(<<>>, 1, 0) = <<>> /\ Len(<<>>) = 0
    BY DEF Init
  <2>2. Kept(<<>>, Rows) = <<>>
    BY KeptEmpty
  <2>3. StreamComplete
    BY <2>1, <2>2 DEF StreamComplete, Whole
  <2> QED BY <2>1, <2>3 DEF StreamInv
<1>2. StreamInv /\ ApprovalInv /\ [Next]_vars => StreamInv'
  <2> SUFFICES ASSUME StreamInv, ApprovalInv, [Next]_vars
               PROVE  StreamInv'
    OBVIOUS
  <2>1. CASE Next
    BY <2>1, StreamSteps, StreamStep DEF ApprovalInv
  <2>2. CASE UNCHANGED vars
    <3>1. StreamMoves
      BY <2>2 DEF vars, logVars, streamVars, StreamMoves
    <3> QED BY <3>1, StreamStep
  <2> QED BY <2>1, <2>2
<1>3. StreamInv => StreamComplete
  BY DEF StreamInv
<1> QED BY <1>1, <1>2, <1>3, LoopInvariant, PTL DEF Spec

-----------------------------------------------------------------------------
(* The breath ledger, a component of its own.  Its four state invariants   *)
(* are inductive together: the bound on breath survives initialize() only  *)
(* because an uninitialised ledger is inert, and so does the admin lock.   *)

USE EnergyConstants DEF EnergyConstants

\* The inductive invariant.
LedgerInv ==
  /\ LedgerTypeOK
  /\ BreathWithinCap
  /\ AttestationAppliedOnce
  /\ UninitialisedInert

\* A fresh deployment satisfies the invariant.
LEMMA LedgerBegins == LedgerInit => LedgerInv
<1> SUFFICES ASSUME LedgerInit
             PROVE  LedgerInv
  OBVIOUS
<1>1. LedgerTypeOK
  <2>1. initialized \in BOOLEAN /\ paused \in BOOLEAN /\ phase3Locked \in BOOLEAN
    BY DEF LedgerInit
  <2>2. /\ usedNonces \in [Signers -> SUBSET Nonces]
        /\ desperate \in [Managers -> BOOLEAN]
        /\ applied \in [Signers -> [Nonces -> Nat]]
    BY DEF LedgerInit
  <2> QED BY <2>1, <2>2 DEF LedgerInit, LedgerTypeOK, Phases
<1>2. BreathWithinCap /\ UninitialisedInert
  BY DEF LedgerInit, BreathWithinCap, UninitialisedInert
<1>3. AttestationAppliedOnce
  BY DEF LedgerInit, AttestationAppliedOnce
<1> QED
  BY <1>1, <1>2, <1>3 DEF LedgerInv

\* What a call may change, by the action that models it.
LEMMA OwnerStepPreserves ==
  ASSUME LedgerInv, NEW caller \in Accounts, OwnerStep(caller)
  PROVE  LedgerInv'
<1> USE DEF LedgerInv, LedgerTypeOK, BreathWithinCap, AttestationAppliedOnce,
            UninitialisedInert, Phases, WhenOperational, NotDead
<1>1. ASSUME NEW initial \in Amounts, NEW max \in Amounts, NEW s \in Signers,
             Initialize(caller, initial, max, s)
      PROVE  LedgerInv'
  BY <1>1 DEF Initialize
<1>2. ASSUME NEW a \in Amounts, BurnTax(caller, a)
      PROVE  LedgerInv'
  BY <1>2 DEF BurnTax, Burn, adminVars
<1>3. ASSUME NEW a \in Amounts, TopUpBreath(caller, a)
      PROVE  LedgerInv'
  BY <1>3 DEF TopUpBreath, Credit, Headroom, adminVars
<1>4. ASSUME NEW a \in Amounts, DeepenBreath(caller, a)
      PROVE  LedgerInv'
  BY <1>4 DEF DeepenBreath, adminVars
<1>5. ASSUME NEW a \in Amounts,
             BankrollCredit(caller, a) \/ BankrollDebit(caller, a)
      PROVE  LedgerInv'
  BY <1>5 DEF BankrollCredit, BankrollDebit, adminVars
<1>6. ASSUME \/ \E a \in Accounts : SetOwner(caller, a)
             \/ \E s \in Signers : SetAttestationSigner(caller, s)
             \/ \E m \in Managers : SetPhaseManager(caller, m)
      PROVE  LedgerInv'
  BY <1>6 DEF SetOwner, SetAttestationSigner, SetPhaseManager, Admin, MayAdmin,
     moneyVars
<1>7. ASSUME Pause(caller) \/ Unpause(caller)
      PROVE  LedgerInv'
  <2>1. paused' \in BOOLEAN
    BY <1>7 DEF Pause, Unpause
  <2> QED
    BY <1>7, <2>1 DEF Pause, Unpause, Admin, MayAdmin, moneyVars
<1>8. ASSUME (\E p \in Phases : SetPhase(caller, p)) \/ LockPhase3(caller)
      PROVE  LedgerInv'
  BY <1>8 DEF SetPhase, PhaseSettable, LockPhase3, Admin, MayAdmin, moneyVars,
     adminVars
<1> QED
  BY <1>1, <1>2, <1>3, <1>4, <1>5, <1>6, <1>7, <1>8 DEF OwnerStep

\* A settlement marks a nonce that was unmarked, so its first burn is its last.
LEMMA SettlementPreserves ==
  ASSUME LedgerInv, NEW s \in Signers \cup {None}, NEW n \in Nonces,
         NEW a \in Amounts, NEW live \in BOOLEAN,
         SettleMarketLoss(s, n, a, live)
  PROVE  LedgerInv'
<1> USE DEF LedgerInv, LedgerTypeOK, BreathWithinCap, AttestationAppliedOnce,
       UninitialisedInert, SettleMarketLoss, NonceUnused, WhenOperational,
       NotDead, Burn, adminVars
<1>1. s \in Signers /\ n \notin usedNonces[s] /\ applied[s][n] = 0
  OBVIOUS
<1>2. LedgerTypeOK'
  <2>1. usedNonces' \in [Signers -> SUBSET Nonces]
    BY <1>1
  <2>2. applied' \in [Signers -> [Nonces -> Nat]]
    BY <1>1
  <2> QED BY <2>1, <2>2
<1>3. AttestationAppliedOnce'
  <2> SUFFICES ASSUME NEW t \in Signers, NEW m \in Nonces
               PROVE  applied'[t][m] = IF m \in usedNonces'[t] THEN 1 ELSE 0
    OBVIOUS
  <2>1. CASE t = s /\ m = n
    BY <1>1, <2>1
  <2>2. CASE t = s /\ m # n
    BY <1>1, <2>2
  <2>3. CASE t # s
    BY <1>1, <2>3
  <2> QED BY <2>1, <2>2, <2>3
<1>4. BreathWithinCap' /\ UninitialisedInert'
  OBVIOUS
<1> QED BY <1>2, <1>3, <1>4

\* Every step of the specification preserves the invariant.
LEMMA LedgerSteps == LedgerInv /\ [LedgerNext]_ledgerVars => LedgerInv'
<1> SUFFICES ASSUME LedgerInv, [LedgerNext]_ledgerVars
             PROVE  LedgerInv'
  OBVIOUS
<1>1. CASE \E m \in Managers : ManagerTurnsDesperate(m)
  BY <1>1 DEF ManagerTurnsDesperate, LedgerInv, LedgerTypeOK, BreathWithinCap,
              AttestationAppliedOnce, UninitialisedInert, adminVars, moneyVars
<1>2. CASE UNCHANGED ledgerVars
  BY <1>2 DEF ledgerVars, adminVars, moneyVars, LedgerInv, LedgerTypeOK,
     BreathWithinCap, AttestationAppliedOnce, UninitialisedInert
<1> QED
  BY <1>1, <1>2, OwnerStepPreserves, SettlementPreserves DEF LedgerNext

\* The invariant holds of every reachable state.
THEOREM LedgerInvariance == LedgerSpec => []LedgerInv
  BY LedgerBegins, LedgerSteps, PTL DEF LedgerSpec

\* Every variable keeps the type its Solidity declaration gives it.
THEOREM LedgerTypeCorrect == LedgerSpec => []LedgerTypeOK
<1>1. LedgerInv => LedgerTypeOK
  BY DEF LedgerInv
<1> QED BY <1>1, LedgerInvariance, PTL

\* "safe: invariant breath <= maxBreath" (topUpBreath): it is one.
THEOREM BreathNeverExceedsCap == LedgerSpec => []BreathWithinCap
<1>1. LedgerInv => BreathWithinCap
  BY DEF LedgerInv
<1> QED BY <1>1, LedgerInvariance, PTL

\* settleMarketLoss: one attestation, at most one burn, under any rotation of
\* the signer.
THEOREM NoReplay == LedgerSpec => []AttestationAppliedOnce
<1>1. LedgerInv => AttestationAppliedOnce
  BY DEF LedgerInv
<1> QED BY <1>1, LedgerInvariance, PTL

\* initialize() finds an inert ledger.
THEOREM InertBeforeInitialize == LedgerSpec => []UninitialisedInert
<1>1. LedgerInv => UninitialisedInert
  BY DEF LedgerInv
<1> QED BY <1>1, LedgerInvariance, PTL

\* lockPhase3() freezes the admin surface for ever.  initialize() is the one
\* unlocked function that writes admin state; it is out of reach because a
\* locked ledger is an initialised one.
THEOREM LockIsFinal == LedgerSpec => LockFreezesAdmin
<1>1. LedgerInv /\ [LedgerNext]_ledgerVars =>
        (phase3Locked => phase3Locked' /\ UNCHANGED adminVars)
  <2> SUFFICES ASSUME LedgerInv, [LedgerNext]_ledgerVars, phase3Locked
               PROVE  phase3Locked' /\ UNCHANGED adminVars
    OBVIOUS
  <2>1. initialized
    BY DEF LedgerInv, UninitialisedInert
  <2>2. ASSUME NEW caller \in Accounts, OwnerStep(caller)
        PROVE  phase3Locked' /\ UNCHANGED adminVars
    BY <2>1, <2>2 DEF OwnerStep, Initialize, BurnTax, TopUpBreath,
       DeepenBreath, BankrollCredit, BankrollDebit, SetOwner,
       SetAttestationSigner, SetPhaseManager, Pause, Unpause, SetPhase,
       PhaseSettable, LockPhase3, Admin, MayAdmin
  <2>3. ASSUME NEW s \in Signers \cup {None}, NEW n \in Nonces,
               NEW a \in Amounts, NEW live \in BOOLEAN,
               SettleMarketLoss(s, n, a, live)
        PROVE  phase3Locked' /\ UNCHANGED adminVars
    BY <2>3 DEF SettleMarketLoss
  <2>4. ASSUME NEW m \in Managers, ManagerTurnsDesperate(m)
        PROVE  phase3Locked' /\ UNCHANGED adminVars
    BY <2>4 DEF ManagerTurnsDesperate
  <2> QED BY <2>2, <2>3, <2>4 DEF LedgerNext, ledgerVars
<1> QED
  BY <1>1, LedgerInvariance, PTL DEF LedgerSpec, LockFreezesAdmin

\* A dead ledger is frozen: no burn, no top-up, no return from Dead.
THEOREM DeadIsFinal == LedgerSpec => DeadBreathFrozen
<1>1. LedgerInv /\ [LedgerNext]_ledgerVars =>
        (currentPhase = "Dead" =>
           UNCHANGED <<currentPhase, breath, maxBreath, usedNonces>>)
  <2> SUFFICES ASSUME LedgerInv, [LedgerNext]_ledgerVars, currentPhase = "Dead"
               PROVE  UNCHANGED <<currentPhase, breath, maxBreath, usedNonces>>
    OBVIOUS
  <2>1. initialized /\ ~NotDead
    BY DEF LedgerInv, UninitialisedInert, NotDead
  <2>2. ASSUME NEW caller \in Accounts, OwnerStep(caller)
        PROVE  UNCHANGED <<currentPhase, breath, maxBreath, usedNonces>>
    BY <2>1, <2>2 DEF OwnerStep, Initialize, BurnTax, TopUpBreath,
       DeepenBreath, BankrollCredit, BankrollDebit, SetOwner,
       SetAttestationSigner, SetPhaseManager, Pause, Unpause, SetPhase,
       PhaseSettable, LockPhase3, Admin, MayAdmin, adminVars, moneyVars
  <2>3. ASSUME NEW m \in Managers, ManagerTurnsDesperate(m)
        PROVE  UNCHANGED <<currentPhase, breath, maxBreath, usedNonces>>
    BY <2>3 DEF ManagerTurnsDesperate, adminVars, moneyVars
  <2> QED BY <2>1, <2>2, <2>3 DEF LedgerNext, SettleMarketLoss, ledgerVars,
             adminVars, moneyVars
<1> QED
  BY <1>1, LedgerInvariance, PTL DEF LedgerSpec, DeadBreathFrozen

\* A lock over a link to a desperate manager seals the cap for good.
THEOREM SealedLungs == LedgerSpec => DesperationSealsCap
<1>1. LedgerInv /\ [LedgerNext]_ledgerVars =>
        (phase3Locked /\ LungsBlocked =>
           maxBreath' = maxBreath /\ phase3Locked' /\ LungsBlocked')
  <2> SUFFICES ASSUME LedgerInv, [LedgerNext]_ledgerVars, phase3Locked, LungsBlocked
               PROVE  maxBreath' = maxBreath /\ phase3Locked' /\ LungsBlocked'
    OBVIOUS
  <2>1. initialized /\ phaseManager \in Managers
    BY DEF LedgerInv, UninitialisedInert, LedgerTypeOK, LungsBlocked
  <2>2. ASSUME NEW caller \in Accounts, OwnerStep(caller)
        PROVE  maxBreath' = maxBreath /\ phase3Locked' /\ LungsBlocked'
    BY <2>1, <2>2 DEF OwnerStep, Initialize, BurnTax, TopUpBreath,
       DeepenBreath, BankrollCredit, BankrollDebit, SetOwner,
       SetAttestationSigner, SetPhaseManager, Pause, Unpause, SetPhase,
       PhaseSettable, LockPhase3, Admin, MayAdmin, LungsBlocked, adminVars,
       moneyVars
  <2>3. ASSUME NEW m \in Managers, ManagerTurnsDesperate(m)
        PROVE  maxBreath' = maxBreath /\ phase3Locked' /\ LungsBlocked'
    BY <2>1, <2>3 DEF ManagerTurnsDesperate, LungsBlocked, adminVars, moneyVars,
         LedgerInv, LedgerTypeOK
  <2> QED BY <2>2, <2>3 DEF LedgerNext, SettleMarketLoss, LungsBlocked,
             ledgerVars, adminVars, moneyVars
<1> QED
  BY <1>1, LedgerInvariance, PTL DEF LedgerSpec, DesperationSealsCap

================================================================================
