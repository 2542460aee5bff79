----------------------------- MODULE ControlPlane -----------------------------
(***************************************************************************)
(* The FastAPI control plane and the loops it runs in its own process:     *)
(* start and stop (AgentRunner), the operator's approval of the strategy   *)
(* advisor's proposals (agent/server/main.py), the in-memory weight-delta  *)
(* queue that carries an approval to a loop (agent/runtime/agent_runner.py,*)
(* the loop's steps 0, 7 and 10) and the SSE stream that tails             *)
(* proposals.jsonl.                                                        *)
(*                                                                         *)
(* Routes never await between reading the log and appending to it, so one  *)
(* route is one action.  A tick awaits between its steps: `at' is the last *)
(* step a loop has completed.                                              *)
(*                                                                         *)
(* An append may fail, leaving nothing or an unterminated fragment; the    *)
(* next append is then glued to the fragment and both are lost to every    *)
(* reader (iter_jsonl skips the line).  All rows have the same length.     *)
(***************************************************************************)
EXTENDS AgentRunner, Sequences, SequencesExt, FirstOrderFolds

CONSTANTS
  MaxProposals,   \* bound: proposals the advisor emits
  MaxUpsets       \* bound: writes and unlinks that fail, process restarts and
                  \* lives begun afresh (promotion, reincarnation), together

Proposals == 1..MaxProposals

ASSUME ControlPlaneAssumption == MaxProposals \in Nat /\ MaxUpsets \in Nat

VARIABLES
  \* the disk
  proposals,  \* proposals.jsonl, one row per status of a proposal
  torn,       \* it ends in an unterminated fragment
  snapshot,   \* agent_state.json: weights and pending_proposals
  \* the process
  queue,      \* the weight deltas approved and not yet drained
  at,         \* at[r]: the last step the loop of run r completed
  weights,    \* weights[r]: the deltas its weights contain
  pending,    \* pending[r]: its _pending_proposals
  \* the stream's client
  offset,     \* lines of proposals.jsonl it has read
  sent,       \* history: rows it was sent, kept until a reset
  \* history
  emitted,    \* proposals emitted
  dispatched, \* dispatched[p]: times its approval was carried out
  drained,    \* drained[p]: times a loop took it from the queue
  lost,       \* lost[p]: times the row of its approval did not reach the log
  upsets,     \* failures, restarts and resets so far
  restarted,  \* the process has been restarted
  deltas,     \* the proposals that are of kind weight_delta
  cut         \* the log was reset since the client connected

logVars == <<proposals, torn>>
loopVars == <<at, weights, pending>>
streamVars == <<offset, sent, cut>>
historyVars == <<emitted, dispatched, drained, lost>>
countVars == <<upsets, restarted, deltas>>
vars == <<runnerVars, logVars, snapshot, queue, loopVars, streamVars,
          historyVars, countVars>>

NoSnapshot == [weights |-> {}, pending |-> {}, exists |-> FALSE]
Garbage == [id |-> 0, status |-> "garbage"]
Row(p, s) == [id |-> p, status |-> s]
Statuses == {"pending", "approved", "rejected"}
Rows == [id : Proposals, status : Statuses]

\* The fold over proposals.jsonl: the latest row of a proposal counts.
LatestIs(p, status) ==
  \E i \in 1..Len(proposals) :
    /\ proposals[i] = Row(p, status)
    /\ \A j \in 1..Len(proposals) : j > i => proposals[j].id # p

PendingOnDisk == {p \in Proposals : LatestIs(p, "pending")}

\* How often p is in the queue.
Queued(p) == Cardinality({i \in 1..Len(queue) : queue[i] = p})

\* The step is an upset if bad holds.
Upset(bad) ==
  /\ bad => upsets < MaxUpsets
  /\ upsets' = IF bad THEN upsets + 1 ELSE upsets

\* One append of a row: ok, or nothing written, or a fragment.
Appends == {"ok", "clean", "torn"}
AppendRow(row, how) ==
  /\ proposals' = IF how # "ok" THEN proposals
                  ELSE Append(proposals, IF torn THEN Garbage ELSE row)
  /\ torn' = IF how = "ok" THEN FALSE ELSE torn \/ how = "torn"

Reached(how) == how = "ok" /\ ~torn

Init ==
  /\ RunnerInit
  /\ proposals = <<>> /\ torn = FALSE /\ snapshot = NoSnapshot
  /\ queue = <<>>
  /\ at = [r \in Runs |-> "boot"]
  /\ weights = [r \in Runs |-> {}] /\ pending = [r \in Runs |-> {}]
  /\ offset = 0 /\ sent = <<>> /\ cut = FALSE
  /\ emitted = 0
  /\ dispatched = [p \in Proposals |-> 0]
  /\ drained = [p \in Proposals |-> 0]
  /\ lost = [p \in Proposals |-> 0]
  /\ upsets = 0 /\ restarted = FALSE
  /\ deltas \in SUBSET Proposals

-----------------------------------------------------------------------------
(* Runs *)

\* The streams and the snapshot of a life are archived or unlinked.
ResetLife ==
  /\ proposals' = <<>> /\ torn' = FALSE /\ snapshot' = NoSnapshot
  /\ cut' = TRUE /\ sent' = <<>>

KeepLife == UNCHANGED <<logVars, snapshot, cut, sent>>

\* POST /api/agent/start: the factory adopts a staged configuration, if there
\* is one, and so resets the life; then the old envelope is unlinked.
StartAgent(cleared) ==
  /\ Start(cleared)
  /\ \/ Upset(~cleared) /\ KeepLife
     \/ cleared /\ Upset(TRUE) /\ ResetLife
  /\ UNCHANGED <<queue, loopVars, offset, historyVars, restarted, deltas>>

\* The loops of the runs rs are gone, and their memory with them.
Forget(rs) ==
  /\ at' = [r \in Runs |-> IF r \in rs THEN "boot" ELSE at[r]]
  /\ weights' = [r \in Runs |-> IF r \in rs THEN {} ELSE weights[r]]
  /\ pending' = [r \in Runs |-> IF r \in rs THEN {} ELSE pending[r]]

OthersOfRunner ==
  UNCHANGED <<logVars, snapshot, queue, loopVars, streamVars, historyVars,
              countVars>>

\* POST /api/agent/stop, from the request to its answer.
StopAgent == (StopIdle \/ Stop) /\ OthersOfRunner
StopAnswers == (StopReturns \/ StopTimesOut) /\ OthersOfRunner

\* An envelope that cannot be written is a failure like any other.
EndRun(r, written) ==
  /\ Fails(r, written) \/ CancelLands(r, written)
  /\ Upset(~written)
  /\ Forget({r})
  /\ UNCHANGED <<logVars, snapshot, queue, streamVars, historyVars, restarted, deltas>>

CancelUnstarted(r) == CancelBeforeFirstStep(r) /\ OthersOfRunner
Begin(r) == FirstStep(r) /\ OthersOfRunner

\* Death of the last life.
RunReturns(r) ==
  /\ at[r] = "saved" /\ Returns(r) /\ Forget({r})
  /\ UNCHANGED <<logVars, snapshot, queue, streamVars, historyVars, countVars>>

\* The process is gone; clients will reconnect from the beginning.
Die ==
  /\ Upset(TRUE) /\ restarted' = TRUE
  /\ ProcessDies
  /\ Forget(Runs)
  /\ queue' = <<>> /\ offset' = 0 /\ sent' = <<>> /\ cut' = FALSE

Restart == Die /\ UNCHANGED <<logVars, snapshot, historyVars, deltas>>

-----------------------------------------------------------------------------
(* The loop *)

Step(r, from, to) ==
  /\ task[r] = "running" /\ r \notin doomed /\ at[r] = from
  /\ at' = [at EXCEPT ![r] = to]

\* Mutant: the list comes from the snapshot, which is only a cache of it.
BootFromSnapshot(r) ==
  /\ Step(r, "boot", "rest")
  /\ weights' = IF snapshot.exists
                THEN [weights EXCEPT ![r] = snapshot.weights] ELSE weights
  /\ pending' = [pending EXCEPT ![r] = snapshot.pending]
  /\ UNCHANGED <<runnerVars, logVars, snapshot, queue, streamVars,
                 historyVars, countVars>>

\* _reconstruct_from_disk: the snapshot's weights, the log's proposals.
Boot(r) ==
  /\ Step(r, "boot", "rest")
  /\ weights' = IF snapshot.exists
                THEN [weights EXCEPT ![r] = snapshot.weights] ELSE weights
  /\ pending' = [pending EXCEPT ![r] = PendingOnDisk]
  /\ UNCHANGED <<runnerVars, logVars, snapshot, queue, streamVars,
                 historyVars, countVars>>

\* Mutant: the queue is drained by the first tick of a life only.
DrainOnce(r) ==
  /\ Step(r, "rest", "drained")
  /\ weights' = IF snapshot.exists THEN weights
                ELSE [weights EXCEPT ![r] = @ \cup ToSet(queue)]
  /\ drained' = [p \in Proposals |-> drained[p] +
                   IF snapshot.exists THEN 0 ELSE Queued(p)]
  /\ queue' = IF snapshot.exists THEN queue ELSE <<>>
  /\ UNCHANGED <<runnerVars, logVars, snapshot, pending, streamVars,
                 emitted, dispatched, lost, countVars>>

\* Mutant: one delta is taken and the whole queue cleared.
DrainFirst(r) ==
  /\ Step(r, "rest", "drained")
  /\ weights' = IF queue = <<>> THEN weights
                ELSE [weights EXCEPT ![r] = @ \cup {Head(queue)}]
  /\ drained' = [p \in Proposals |->
                   drained[p] + IF queue # <<>> /\ Head(queue) = p THEN 1 ELSE 0]
  /\ queue' = <<>>
  /\ UNCHANGED <<runnerVars, logVars, snapshot, pending, streamVars,
                 emitted, dispatched, lost, countVars>>

\* Step 0 of a tick: take every delta from the queue and apply it.  The polls,
\* chain calls and bets of steps 1 to 6 follow, each an await.
Drain(r) ==
  /\ Step(r, "rest", "drained")
  /\ weights' = [weights EXCEPT ![r] = @ \cup ToSet(queue)]
  /\ drained' = [p \in Proposals |-> drained[p] + Queued(p)]
  /\ queue' = <<>>
  /\ UNCHANGED <<runnerVars, logVars, snapshot, pending, streamVars,
                 emitted, dispatched, lost, countVars>>

SnapshotOf(r) ==
  [weights |-> weights[r], pending |-> pending[r], exists |-> TRUE]

\* Mutant: the snapshot keeps the weights the tick began with.
SaveOldWeights(r) ==
  /\ Step(r, "drained", "saved")
  /\ snapshot' = [SnapshotOf(r) EXCEPT !.weights =
                    IF snapshot.exists THEN snapshot.weights ELSE @]
  /\ UNCHANGED <<runnerVars, logVars, queue, weights, pending, streamVars,
                 historyVars, countVars>>

\* Step 7: the snapshot.
Save(r) ==
  /\ Step(r, "drained", "saved")
  /\ snapshot' = SnapshotOf(r)
  /\ UNCHANGED <<runnerVars, logVars, queue, weights, pending, streamVars,
                 historyVars, countVars>>

\* Step 10 without a proposal.
Rest(r) ==
  /\ Step(r, "saved", "rest")
  /\ UNCHANGED <<runnerVars, logVars, snapshot, queue, weights, pending,
                 streamVars, historyVars, countVars>>

\* Step 10: the advisor's proposal is appended, listed and the snapshot
\* written again; a failed append leaves run().
Advise(r) ==
  /\ emitted < MaxProposals /\ emitted' = emitted + 1
  /\ Step(r, "saved", "rest")
  /\ AppendRow(Row(emitted', "pending"), "ok")
  /\ pending' = [pending EXCEPT ![r] = @ \cup {emitted'}]
  /\ snapshot' = [weights |-> weights[r], pending |-> pending'[r],
                  exists |-> TRUE]
  /\ UNCHANGED <<runnerVars, queue, weights, streamVars, dispatched, drained,
                 lost, countVars>>

AdviseFails(r, how) ==
  /\ how # "ok" /\ emitted < MaxProposals /\ emitted' = emitted + 1
  /\ at[r] = "saved" /\ r \notin doomed /\ Fails(r, TRUE)
  /\ Upset(how # "ok") /\ AppendRow(Row(emitted', "pending"), how)
  /\ Forget({r})
  /\ UNCHANGED <<snapshot, queue, streamVars, dispatched, drained, lost,
                 restarted, deltas>>

\* The process ends between the row and the snapshot that lists it.
AdviseCut(r) ==
  /\ emitted < MaxProposals /\ emitted' = emitted + 1
  /\ task[r] = "running" /\ r \notin doomed /\ at[r] = "saved"
  /\ AppendRow(Row(emitted', "pending"), "ok")
  /\ Die
  /\ UNCHANGED <<snapshot, dispatched, drained, lost, deltas>>

\* Reincarnation: the life dies and the supervisor, in the same task, resets
\* the streams and builds the next loop with the weights of the last.
Respawn(r) ==
  /\ Step(r, "saved", "boot")
  /\ Upset(TRUE) /\ ResetLife
  /\ pending' = [pending EXCEPT ![r] = {}]
  /\ UNCHANGED <<runnerVars, queue, weights, offset, historyVars,
                 restarted, deltas>>

-----------------------------------------------------------------------------
(* Approval *)

\* Mutant: the status is not looked at.
ApproveAgain(p, how) ==
  /\ (\E status \in Statuses : LatestIs(p, status)) /\ dispatched[p] < 3
  /\ dispatched' = [dispatched EXCEPT ![p] = @ + 1]
  /\ queue' = IF p \in deltas THEN Append(queue, p) ELSE queue
  /\ Upset(how # "ok") /\ AppendRow(Row(p, "approved"), how)
  /\ lost' = [lost EXCEPT ![p] = @ + IF Reached(how) THEN 0 ELSE 1]
  /\ UNCHANGED <<runnerVars, snapshot, loopVars, streamVars, emitted, drained,
                 restarted, deltas>>

\* POST /api/proposals/{id}/approve: 404 and 409 unless pending; queue the
\* delta, or write the TODO row of another kind; then append the status row.
Approve(p, how) ==
  /\ LatestIs(p, "pending")
  /\ dispatched' = [dispatched EXCEPT ![p] = @ + 1]
  /\ queue' = IF p \in deltas THEN Append(queue, p) ELSE queue
  /\ Upset(how # "ok") /\ AppendRow(Row(p, "approved"), how)
  /\ lost' = [lost EXCEPT ![p] = @ + IF Reached(how) THEN 0 ELSE 1]
  /\ UNCHANGED <<runnerVars, snapshot, loopVars, streamVars, emitted, drained,
                 restarted, deltas>>

\* POST /api/proposals/{id}/reject
Reject(p, how) ==
  /\ LatestIs(p, "pending")
  /\ Upset(how # "ok") /\ AppendRow(Row(p, "rejected"), how)
  /\ UNCHANGED <<runnerVars, snapshot, queue, loopVars, streamVars,
                 historyVars, restarted, deltas>>

-----------------------------------------------------------------------------
(* GET /api/stream *)

Whole(rows) == Kept(rows, Rows)

\* Mutant: a malformed line takes the whole chunk with it.
PollAllOrNothing ==
  /\ offset < Len(proposals)
  /\ LET chunk == SubSeq(proposals, offset + 1, Len(proposals))
     IN sent' = IF cut \/ Garbage \in ToSet(chunk) THEN sent ELSE sent \o chunk
  /\ offset' = Len(proposals)
  /\ UNCHANGED <<runnerVars, logVars, snapshot, queue, loopVars, cut,
                 historyVars, countVars>>

\* One poll: the whole lines past the offset, garbage skipped; nothing when
\* the file is no longer than the offset.
Poll ==
  /\ offset < Len(proposals)
  /\ sent' = IF cut THEN <<>>
             ELSE sent \o Whole(SubSeq(proposals, offset + 1, Len(proposals)))
  /\ offset' = Len(proposals)
  /\ UNCHANGED <<runnerVars, logVars, snapshot, queue, loopVars, cut,
                 historyVars, countVars>>

-----------------------------------------------------------------------------
LoopStep(r) ==
  Boot(r) \/ Drain(r) \/ Save(r) \/ Rest(r) \/ Advise(r) \/ Respawn(r)

Next ==
  \/ \E b \in BOOLEAN : StartAgent(b)
  \/ StopAgent \/ StopAnswers \/ Restart \/ Poll
  \/ \E r \in Runs :
       \/ Begin(r) \/ CancelUnstarted(r) \/ RunReturns(r) \/ LoopStep(r)
       \/ AdviseCut(r)
       \/ \E b \in BOOLEAN : EndRun(r, b)
       \/ \E how \in Appends : AdviseFails(r, how)
  \/ \E p \in Proposals, how \in Appends : Approve(p, how) \/ Reject(p, how)

\* The event loop runs every task and timer that is ready: the loop's tick, a
\* cancelled task, the wait of a stop.
Fairness ==
  /\ WF_vars(StopAnswers)
  /\ \A r \in Runs : WF_vars(Begin(r)) /\ WF_vars(Boot(r)) /\ WF_vars(Drain(r))
                     /\ WF_vars(Save(r)) /\ WF_vars(Rest(r) \/ Advise(r))

Spec == Init /\ [][Next]_vars /\ Fairness

(* Properties *)

\* Types of the variables.
TypeOK ==
  /\ RunnerTypeOK
  /\ proposals \in Seq(Rows \cup {Garbage}) /\ torn \in BOOLEAN
  /\ snapshot \in [weights : SUBSET Proposals, pending : SUBSET Proposals,
                   exists : BOOLEAN]
  /\ deltas \in SUBSET Proposals /\ queue \in Seq(deltas)
  /\ at \in [Runs -> {"boot", "rest", "drained", "saved"}]
  /\ weights \in [Runs -> SUBSET Proposals]
  /\ pending \in [Runs -> SUBSET Proposals]
  /\ offset \in Nat /\ sent \in Seq(Rows) /\ cut \in BOOLEAN
  /\ emitted \in 0..MaxProposals
  /\ dispatched \in [Proposals -> Nat] /\ drained \in [Proposals -> Nat]
  /\ lost \in [Proposals -> Nat]
  /\ upsets \in 0..MaxUpsets /\ restarted \in BOOLEAN

\* "Re-applying a delta on a second approve would silently re-rewrite the
\* weights" (_load_pending_proposal_or_raise): an approval is carried out a
\* second time only when the row of the first never reached the log.
CarriedOutOnce == \A p \in Proposals : dispatched[p] <= 1 + lost[p]

\* The queue neither loses nor multiplies an approved delta, whatever loops
\* start, stop, fail or respawn meanwhile; only a restart of the process
\* drops it (apply_weight_delta, drain_pending_deltas).
DeltaConserved ==
  \A p \in deltas :
    /\ drained[p] + Queued(p) <= dispatched[p]
    /\ ~restarted => drained[p] + Queued(p) = dispatched[p]

\* Between two ticks, and once a tick has saved, the snapshot holds the very
\* weights the loop in the slot decides with: what it drained survives a stop.
SavedAtRest ==
  (IsRunning /\ task[slot] = "running" /\ at[slot] \in {"rest", "saved"}
     /\ snapshot.exists)
    => snapshot.weights = weights[slot]

\* No proposal that waits for the operator is missing from the loop's list,
\* however appends failed and whichever loop took over from which.  (The list
\* also keeps proposals long resolved: approve and reject do not touch it.)
NoProposalHidden ==
  (IsRunning /\ task[slot] = "running" /\ at[slot] # "boot")
    => PendingOnDisk \subseteq pending[slot]

\* "Each newly-appended whole line yields one SSE event": the client was sent
\* every readable row up to its offset, once and in order, as long as no reset
\* replaced the file under it (_sse_event_stream, _read_complete_lines).
StreamComplete == ~cut => sent = Whole(SubSeq(proposals, 1, offset))

\* A queued delta reaches a loop, unless the loop in the slot ends first.
ApprovalReachesLoop ==
  \A p \in Proposals : Queued(p) > 0 /\ IsRunning ~> Queued(p) = 0 \/ ~IsRunning

\* "The loop honours asyncio.CancelledError only between ticks" (runner.py).
StopsBetweenTicks ==
  [][\A r \in Runs : task[r] = "running" /\ task'[r] = "cancelled"
       => at[r] \in {"boot", "rest"}]_vars

================================================================================
