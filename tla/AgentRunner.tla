------------------------------ MODULE AgentRunner ------------------------------
(***************************************************************************)
(* The server's single-tenant wrapper around the sandbox loop              *)
(* (agent/server/runner.py, class AgentRunner and _safe_run): one slot, a  *)
(* transition lock that start and stop hold, one asyncio task per run and  *)
(* the envelope agent_error.json that tells /status how a run ended.       *)
(*                                                                         *)
(* Everything runs on one event loop, so what happens between two awaits   *)
(* is one action.  Only stop holds the lock across an await: it waits for  *)
(* the task it cancelled, 65 seconds at most.  A task is cancelled at      *)
(* whatever await it is suspended in.                                      *)
(*                                                                         *)
(* Runs are numbered in the order they are started (uuid4 in the code).    *)
(***************************************************************************)
EXTENDS Integers, FiniteSets

CONSTANT MaxRuns   \* bound: runs started

ASSUME RunsAssumption == MaxRuns \in Nat

VARIABLES
  slot,      \* AgentRunner._state: the run in the slot, 0 when empty
  lock,      \* the run a stop in progress waits for, 0 when the lock is free
  task,      \* task[r]: how far the task of run r got
  doomed,    \* runs whose task has a cancellation pending
  error,     \* agent_error.json: the run that wrote it and the status it wrote
  started,   \* runs started so far
  abandoned, \* history: runs whose stop timed out
  silent,    \* history: runs whose envelope could not be written
  uncleared  \* history: the last start could not unlink the old envelope

runnerVars == <<slot, lock, task, doomed, error, started, abandoned, silent,
                uncleared>>

Runs == 1..MaxRuns
Alive == {"created", "running"}
Over == {"returned", "failed", "cancelled", "neverRan", "killed"}
NoError == [run |-> 0, status |-> "none"]
Envelopes == [run : 0..MaxRuns, status : {"none", "failed", "cancelled"}]

\* is_running: the task in the slot is not done.
IsRunning == slot # 0 /\ task[slot] \in Alive

RunnerTypeOK ==
  /\ slot \in 0..MaxRuns /\ lock \in 0..MaxRuns /\ started \in 0..MaxRuns
  /\ task \in [Runs -> {"unborn"} \cup Alive \cup Over]
  /\ doomed \in SUBSET Runs /\ abandoned \in SUBSET Runs
  /\ silent \in SUBSET Runs /\ uncleared \in BOOLEAN
  /\ error \in Envelopes

RunnerInit ==
  /\ slot = 0 /\ lock = 0 /\ started = 0 /\ uncleared = FALSE
  /\ task = [r \in Runs |-> "unborn"]
  /\ doomed = {} /\ abandoned = {} /\ silent = {}
  /\ error = NoError

-----------------------------------------------------------------------------
(* start and stop *)

\* Mutant: the transition lock is not taken.
StartUnlocked(cleared) ==
  /\ ~IsRunning /\ started < MaxRuns
  /\ started' = started + 1 /\ slot' = started'
  /\ task' = [task EXCEPT ![started'] = "created"]
  /\ error' = IF cleared THEN NoError ELSE error
  /\ uncleared' = ~cleared
  /\ UNCHANGED <<lock, doomed, abandoned, silent>>

\* start: 409 while running; unlink the old envelope, which may fail; create
\* the task and put it in the slot.
Start(cleared) ==
  /\ lock = 0 /\ ~IsRunning /\ started < MaxRuns
  /\ started' = started + 1 /\ slot' = started'
  /\ task' = [task EXCEPT ![started'] = "created"]
  /\ error' = IF cleared THEN NoError ELSE error
  /\ uncleared' = ~cleared
  /\ UNCHANGED <<lock, doomed, abandoned, silent>>

\* stop with nothing running: clear the slot.
StopIdle ==
  /\ lock = 0 /\ ~IsRunning
  /\ slot' = 0
  /\ UNCHANGED <<lock, task, doomed, error, started, abandoned, silent,
                 uncleared>>

\* stop: cancel the task, then wait for it under the lock.
Stop ==
  /\ lock = 0 /\ IsRunning
  /\ doomed' = doomed \cup {slot} /\ lock' = slot
  /\ UNCHANGED <<slot, task, error, started, abandoned, silent, uncleared>>

\* The task ended within the window.
StopReturns ==
  /\ lock # 0 /\ task[lock] \in Over
  /\ slot' = 0 /\ lock' = 0
  /\ UNCHANGED <<task, doomed, error, started, abandoned, silent, uncleared>>

\* It did not: the slot is cleared all the same, with the task still alive.
StopTimesOut ==
  /\ lock # 0 /\ task[lock] \in Alive
  /\ abandoned' = abandoned \cup {lock}
  /\ slot' = 0 /\ lock' = 0
  /\ UNCHANGED <<task, doomed, error, started, silent, uncleared>>

-----------------------------------------------------------------------------
(* _safe_run *)

\* The task's first step: the coroutine enters _safe_run and loop.run().
FirstStep(r) ==
  /\ task[r] = "created" /\ r \notin doomed
  /\ task' = [task EXCEPT ![r] = "running"]
  /\ UNCHANGED <<slot, lock, doomed, error, started, abandoned, silent,
                 uncleared>>

\* Task r is over in this way; an envelope is written unless that fails.
Finish(r, how, written) ==
  /\ task' = [task EXCEPT ![r] = how]
  /\ doomed' = doomed \ {r}
  /\ error' = IF written THEN [run |-> r, status |-> how] ELSE error
  /\ silent' = IF written THEN silent ELSE silent \cup {r}
  /\ UNCHANGED <<slot, lock, started, abandoned, uncleared>>

\* run() returned: no envelope.
Returns(r) ==
  /\ task[r] = "running" /\ r \notin doomed
  /\ task' = [task EXCEPT ![r] = "returned"]
  /\ UNCHANGED <<slot, lock, doomed, error, started, abandoned, silent,
                 uncleared>>

\* An Exception left run(); a doomed task may raise while it unwinds.
Fails(r, written) ==
  /\ task[r] = "running"
  /\ Finish(r, "failed", written)

\* Mutant: the cancellation is re-raised before the envelope is written.
CancelLandsUntold(r, written) ==
  /\ r \in doomed /\ task[r] = "running"
  /\ task' = [task EXCEPT ![r] = "cancelled"] /\ doomed' = doomed \ {r}
  /\ UNCHANGED <<slot, lock, error, started, abandoned, silent, uncleared>>

\* CancelledError reached the await the task was suspended in.
CancelLands(r, written) ==
  /\ r \in doomed /\ task[r] = "running"
  /\ Finish(r, "cancelled", written)

\* A task cancelled before its first step never enters _safe_run.
CancelBeforeFirstStep(r) ==
  /\ r \in doomed /\ task[r] = "created"
  /\ task' = [task EXCEPT ![r] = "neverRan"]
  /\ doomed' = doomed \ {r}
  /\ UNCHANGED <<slot, lock, error, started, abandoned, silent, uncleared>>

\* The process ends: slot, lock and tasks are gone, the envelope stays.
ProcessDies ==
  /\ task' = [r \in Runs |-> IF task[r] \in Alive THEN "killed" ELSE task[r]]
  /\ slot' = 0 /\ lock' = 0 /\ doomed' = {}
  /\ UNCHANGED <<error, started, abandoned, silent, uncleared>>

RunnerNext ==
  \/ \E b \in BOOLEAN : Start(b)
  \/ StopIdle \/ Stop \/ StopReturns \/ StopTimesOut \/ ProcessDies
  \/ \E r \in Runs :
       \/ FirstStep(r) \/ Returns(r) \/ CancelBeforeFirstStep(r)
       \/ \E b \in BOOLEAN : Fails(r, b) \/ CancelLands(r, b)

RunnerSpec == RunnerInit /\ [][RunnerNext]_runnerVars

-----------------------------------------------------------------------------
(* Properties *)

LiveRuns == {r \in Runs : task[r] \in Alive}

\* "At most ONE active loop at any time" (AgentRunner): every task alive is
\* the one in the slot or one whose stop timed out.
OneLoopUnlessAbandoned == LiveRuns \subseteq {slot} \cup abandoned

\* /status never shows a healthy run as failed or cancelled, unless a run
\* whose stop timed out wrote its envelope late or the old one could not be
\* unlinked (start, _safe_run).
HealthyRunLooksHealthy ==
  (IsRunning /\ ~uncleared) => error.run \in {0} \cup abandoned

\* A run that died of an exception or a stop is told by the envelope until
\* the next start, unless it could not be written or an abandoned run wrote
\* over it (_safe_run's promise that no exception vanishes).
EndIsTold ==
  \A r \in Runs :
    (r = started /\ task[r] \in {"failed", "cancelled"} /\ r \notin silent)
      => error = [run |-> r, status |-> task[r]] \/ error.run \in abandoned

================================================================================
