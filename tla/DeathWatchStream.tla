--------------------------- MODULE DeathWatchStream ---------------------------
(***************************************************************************)
(* The Death Watch stream: the agent's emitter                             *)
(* (agent/dashboard_bridge/death_watch_emitter.py) numbers its frames, a   *)
(* WebSocket server carries them, and the browser's client                 *)
(* (dashboard/lib/ws-client.ts) hears them over a socket that may drop or  *)
(* fall silent, and over the HTTP polls it falls back to.  The store       *)
(* (dashboard/lib/wsStore.ts) projects what is heard.                      *)
(*                                                                         *)
(* The server is not part of the repository.  It is modelled from how the  *)
(* client uses it: it sends a frame on the open socket, in order, and      *)
(* answers a poll with its latest frame or with all of this life's.        *)
(* Vitals come from another emitter and are left out, with the store's     *)
(* fallback on them.  Time is left out: the silence watch may strike       *)
(* whenever the fallback is not already shown.                             *)
(***************************************************************************)
EXTENDS Integers, Sequences, SequencesExt, FirstOrderFolds

CONSTANTS
  Thresholds,   \* thresholds_pct, in the order of the tuple
  Takeover,     \* DEATH_WATCH_PRIMARY_THRESHOLD_PCT
  Levels,       \* energy readings, in percent
  MaxFrames,    \* bound: frames of one life of the emitter
  MaxRestarts   \* bound: restarts of the agent

\* The trackers are kept by threshold, so the tuple names each once; 0 is a
\* threshold no reading crosses, and stands for none below.
ASSUME StreamAssumption ==
  /\ Thresholds \in Seq(Int) /\ Takeover \in ToSet(Thresholds)
  /\ \A i, j \in 1..Len(Thresholds) : Thresholds[i] = Thresholds[j] => i = j
  /\ 0 \notin ToSet(Thresholds)
  /\ Levels \subseteq 0..100
  /\ MaxFrames \in Nat /\ MaxRestarts \in Nat

VARIABLES
  \* the emitter and the server behind it
  life,       \* restarts so far
  side,       \* _energy_states[t].last_side
  seq,        \* _seq
  sent,       \* frames the transport took in this life
  \* the network
  wire,       \* frames on the socket
  asked,      \* a poll is on its way to the server
  answer,     \* or its answer is on its way back: at most one poll at a time
  \* the client
  socket,     \* "none", "connecting", "open" or "closing" (onclose is due)
  state,      \* what the badge shows
  polling,    \* pollTimer is set
  reconnect,  \* reconnectTimer is set
  lost,       \* reconnectAttempts > 0: a socket was lost, none has opened since
  stopped,
  lastSeq,
  \* the store
  crossing,   \* energyThresholdCrossing
  terminal,   \* terminalLucidityEntered
  heard       \* history: the frames the store ingested, in order

emitterVars == <<life, side, seq, sent>>
linkVars == <<socket, state, polling, reconnect, lost, stopped>>
storeVars == <<lastSeq, crossing, terminal, heard>>
pollVars == <<asked, answer>>
watchVars == <<emitterVars, wire, pollVars, linkVars, storeVars>>

Watched == ToSet(Thresholds)
NoCrossing == [threshold |-> 0, side |-> "none"]

StreamInit ==
  /\ life = 0 /\ side = [t \in Watched |-> "none"] /\ seq = 0 /\ sent = <<>>
  /\ wire = <<>> /\ asked = FALSE /\ answer = {}
  /\ socket = "none" /\ state = "idle"
  /\ polling = FALSE /\ reconnect = FALSE /\ lost = FALSE /\ stopped = FALSE
  /\ lastSeq = -1 /\ crossing = NoCrossing /\ terminal = FALSE /\ heard = <<>>

-----------------------------------------------------------------------------
(* The emitter *)

Side(pct, t) == IF pct >= t THEN "above" ELSE "below"

Frame(n, t, s) == [life |-> life, seq |-> n, threshold |-> t, side |-> s]

Terminal == 0   \* the threshold written for a terminal_lucidity_entered frame

Transmit(frames) ==
  /\ sent' = sent \o frames
  /\ wire' = IF socket = "open" THEN wire \o frames ELSE wire

Crossed(pct) ==
  Kept(Thresholds, {t \in Watched : side[t] \notin {"none", Side(pct, t)}})

\* Mutant: the tracker moves before the frame is out.
ObserveEnergyMarkFirst(pct, ok) ==
  LET crossed == Crossed(pct)
  IN /\ ok <= Len(crossed) /\ seq + Len(crossed) <= MaxFrames
     /\ Transmit([i \in 1..ok |-> Frame(seq + i - 1, crossed[i],
                                        Side(pct, crossed[i]))])
     /\ seq' = IF ok < Len(crossed) THEN seq + ok + 1 ELSE seq + ok
     /\ side' = [t \in Watched |->
                   IF t \in ToSet(SubSeq(crossed, ok + 2, Len(crossed)))
                   THEN side[t] ELSE Side(pct, t)]
     /\ UNCHANGED <<life, pollVars, linkVars, storeVars>>

\* observe_energy: a frame per threshold crossed, in the tuple's order; if the
\* transport refuses one, its number is spent and the rest are left for the
\* next sample.  ok is the number of frames it takes.
ObserveEnergy(pct, ok) ==
  LET crossed == Crossed(pct)
  IN /\ ok <= Len(crossed) /\ seq + Len(crossed) <= MaxFrames
     /\ Transmit([i \in 1..ok |-> Frame(seq + i - 1, crossed[i],
                                        Side(pct, crossed[i]))])
     /\ seq' = IF ok < Len(crossed) THEN seq + ok + 1 ELSE seq + ok
     /\ side' = [t \in Watched |->
                   IF t \in ToSet(SubSeq(crossed, ok + 1, Len(crossed)))
                   THEN side[t] ELSE Side(pct, t)]
     /\ UNCHANGED <<life, pollVars, linkVars, storeVars>>

\* emit_terminal_lucidity_entered: the agent loop calls it once.
EmitTerminal(taken) ==
  /\ seq < MaxFrames
  /\ \A i \in 1..Len(sent) : sent[i].threshold # Terminal
  /\ Transmit(IF taken THEN <<Frame(seq, Terminal, "below")>> ELSE <<>>)
  /\ seq' = seq + 1
  /\ UNCHANGED <<life, side, pollVars, linkVars, storeVars>>

\* The agent's process restarts: a new emitter, a new backlog, and the socket
\* is cut.
Restart ==
  /\ life < MaxRestarts /\ life' = life + 1
  /\ side' = [t \in Watched |-> "none"] /\ seq' = 0 /\ sent' = <<>>
  /\ wire' = <<>>
  /\ socket' = IF socket \in {"connecting", "open"} THEN "closing" ELSE socket
  /\ UNCHANGED <<pollVars, state, polling, reconnect, lost, stopped, storeVars>>

-----------------------------------------------------------------------------
(* The store and handleFrame *)

Ingest(s, f) ==
  [lastSeq |-> f.seq,
   crossing |-> IF f.threshold = Terminal THEN s.crossing
                ELSE [threshold |-> f.threshold, side |-> f.side],
   terminal |-> s.terminal \/ f.threshold = Terminal,
   heard |-> Append(s.heard, f)]

\* Mutant: no dedup by seq.
HearUnchecked(s, f) == Ingest(s, f)

\* handleFrame: one number for both sources and every kind.
Hear(s, f) == IF f.seq <= s.lastSeq THEN s ELSE Ingest(s, f)

Store == [lastSeq |-> lastSeq, crossing |-> crossing, terminal |-> terminal,
          heard |-> heard]

Handle(frames) ==
  LET hear[i \in 0..Len(frames)] ==
        IF i = 0 THEN Store ELSE Hear(hear[i - 1], frames[i])
      s == hear[Len(frames)]
  IN /\ lastSeq' = s.lastSeq /\ crossing' = s.crossing
     /\ terminal' = s.terminal /\ heard' = s.heard

\* selectDeathWatchVisible
Visible == terminal \/ crossing = [threshold |-> Takeover, side |-> "below"]

-----------------------------------------------------------------------------
(* The client *)

\* startPolling: the first poll is sent at once; an earlier poller goes on,
\* whatever the badge shows.
StartPolling ==
  /\ polling' = TRUE
  /\ state' = IF polling THEN state ELSE "polling_fallback"
  /\ asked' = (asked \/ (~polling /\ answer = {}))
  /\ UNCHANGED answer

\* Mutant: a reconnection attempt takes the place of the poller.
OpenSocketUnpolled(throws) ==
  /\ ~stopped /\ (state = "idle" \/ reconnect)
  /\ reconnect' = FALSE
  /\ IF throws
     THEN /\ socket' = "none" /\ state' = "polling_fallback" /\ polling' = TRUE
          /\ asked' = (asked \/ (~polling /\ answer = {})) /\ UNCHANGED answer
     ELSE /\ socket' = "connecting" /\ state' = "connecting" /\ polling' = FALSE
          /\ UNCHANGED pollVars
  /\ UNCHANGED <<emitterVars, wire, lost, stopped, storeVars>>

\* openSocket; if the constructor throws, the client only polls from then on.
OpenSocket(throws) ==
  /\ ~stopped /\ (state = "idle" \/ reconnect)
  /\ reconnect' = FALSE
  /\ IF throws
     THEN /\ socket' = "none" /\ state' = "polling_fallback" /\ polling' = TRUE
          /\ asked' = (asked \/ (~polling /\ answer = {})) /\ UNCHANGED answer
     ELSE /\ socket' = "connecting" /\ state' = "connecting"
          /\ UNCHANGED <<polling, pollVars>>
  /\ UNCHANGED <<emitterVars, wire, lost, stopped, storeVars>>

OnOpen ==
  /\ socket = "connecting" /\ socket' = "open"
  /\ state' = "open" /\ polling' = FALSE /\ lost' = FALSE
  /\ UNCHANGED <<emitterVars, wire, pollVars, reconnect, stopped, storeVars>>

OnMessage ==
  /\ socket = "open" /\ wire # <<>> /\ wire' = Tail(wire)
  /\ Handle(<<Head(wire)>>)
  /\ IF state = "polling_fallback" THEN state' = "open" /\ polling' = FALSE
     ELSE UNCHANGED <<state, polling>>
  /\ UNCHANGED <<emitterVars, pollVars, socket, reconnect, lost, stopped>>

\* The connection is lost, and with it what it still carried.
Disconnect ==
  /\ socket \in {"connecting", "open"} /\ socket' = "closing" /\ wire' = <<>>
  /\ UNCHANGED <<emitterVars, pollVars, state, polling, reconnect, lost, stopped,
                 storeVars>>

\* Mutant: a lost socket is reopened, nothing more.
OnCloseUnpolled ==
  /\ socket = "closing" /\ socket' = "none"
  /\ reconnect' = TRUE /\ lost' = TRUE
  /\ UNCHANGED <<emitterVars, wire, pollVars, state, polling, stopped, storeVars>>

OnClose ==
  /\ socket = "closing" /\ socket' = "none"
  /\ reconnect' = TRUE /\ lost' = TRUE
  /\ StartPolling
  /\ UNCHANGED <<emitterVars, wire, stopped, storeVars>>

\* Mutant: only a socket that does not open is watched.
SilenceUntilOpen ==
  /\ ~stopped /\ state = "connecting" /\ ~polling
  /\ StartPolling
  /\ UNCHANGED <<emitterVars, wire, socket, reconnect, lost, stopped, storeVars>>

\* The silence watch, five seconds after the last frame.
Silence ==
  /\ ~stopped /\ state \in {"connecting", "open"} /\ ~polling
  /\ StartPolling
  /\ UNCHANGED <<emitterVars, wire, socket, reconnect, lost, stopped, storeVars>>

\* pollOnce, up to its await: then again every two seconds.
PollAsk ==
  /\ polling /\ ~asked /\ answer = {} /\ asked' = TRUE
  /\ UNCHANGED <<emitterVars, wire, answer, linkVars, storeVars>>

\* The server answers with its backlog or with its last frame.
PollServed(whole) ==
  /\ asked /\ asked' = FALSE
  /\ answer' = {IF whole \/ sent = <<>> THEN sent ELSE <<sent[Len(sent)]>>}
  /\ UNCHANGED <<emitterVars, wire, linkVars, storeVars>>

\* pollOnce, after it; it does not look at stopped again.
PollAnswered ==
  /\ \E frames \in answer : Handle(frames)
  /\ answer' = {}
  /\ UNCHANGED <<emitterVars, wire, asked, linkVars>>

PollFails ==
  /\ asked \/ answer # {}
  /\ asked' = FALSE /\ answer' = {}
  /\ UNCHANGED <<emitterVars, wire, linkVars, storeVars>>

\* stop: the component unmounts; a poll under way goes on.
Stop ==
  /\ ~stopped /\ state # "idle" /\ stopped' = TRUE
  /\ socket' = "none" /\ wire' = <<>> /\ state' = "closed"
  /\ polling' = FALSE /\ reconnect' = FALSE
  /\ UNCHANGED <<emitterVars, pollVars, lost, storeVars>>

StreamNext ==
  \/ \E pct \in Levels, ok \in 0..Len(Thresholds) : ObserveEnergy(pct, ok)
  \/ \E taken \in BOOLEAN : EmitTerminal(taken)
  \/ Restart
  \/ \E throws \in BOOLEAN : OpenSocket(throws)
  \/ OnOpen \/ OnMessage \/ Disconnect \/ OnClose \/ Silence
  \/ PollAsk \/ PollAnswered \/ PollFails \/ Stop
  \/ \E whole \in BOOLEAN : PollServed(whole)

\* Timers fire, events are delivered, and a poll asked for ever is answered in
\* the end: nothing is assumed of the socket, which may never open or stay open.
Fairness ==
  /\ WF_watchVars(\E throws \in BOOLEAN : OpenSocket(throws))
  /\ WF_watchVars(OnClose) /\ WF_watchVars(OnMessage) /\ WF_watchVars(Silence)
  /\ WF_watchVars(PollAsk) /\ SF_watchVars(\E whole \in BOOLEAN : PollServed(whole))
  /\ SF_watchVars(PollAnswered)

StreamSpec == StreamInit /\ [][StreamNext]_watchVars /\ Fairness

-----------------------------------------------------------------------------
(* Properties *)

\* No frame of the tape after i and before j is of i's threshold.
NoneBetween(i, j) ==
  \A k \in (i + 1)..(j - 1) : sent[k].threshold # sent[i].threshold

\* The tracker and the tape agree: the side an emitter remembers is the side of
\* the last frame it got out for that threshold, and each frame tells another
\* side than the one before it, whatever sends failed in between, so that no
\* crossing is lost or told twice (observe_energy).
TapeTellsTheSide ==
  \A i \in 1..Len(sent) :
    sent[i].threshold \in Watched =>
      /\ NoneBetween(i, Len(sent) + 1) => side[sent[i].threshold] = sent[i].side
      /\ \A j \in (i + 1)..Len(sent) :
           sent[j].threshold = sent[i].threshold /\ NoneBetween(i, j)
             => sent[j].side # sent[i].side

\* The store never sees a frame twice, nor an older frame of the same emitter
\* after a newer one, whichever of socket and poll brings it and however late
\* ("polling and WS may emit overlap during failover", handleFrame).
HeardInOrder ==
  \A i, j \in 1..Len(heard) :
    i < j /\ heard[i].life = heard[j].life => heard[i].seq < heard[j].seq

\* A client that has lost its socket polls until the next one is open, through
\* every attempt that fails, or it is stopped ("polling stays alive in the
\* meantime", ws-client.ts): no reconnection leaves the screen without a source
\* of frames (TECHNICAL_PLAN 10, risk 1c).  So does one that never had a socket,
\* and the badge says "open" only without polls.
NeverBlind ==
  /\ lost => polling \/ stopped
  /\ socket = "none" => polling \/ state = "idle" \/ stopped
  /\ state = "open" => ~polling
  /\ state = "polling_fallback" => polling

\* Whatever drops, falls silent or fails to open, the client of an emitter that
\* does not restart catches up with its last frame again and again, unless it
\* is stopped.
AlwaysCatchesUp ==
  []<>(sent # <<>> => lastSeq >= Last(sent).seq \/ stopped \/ life > 0)

\* "A restart resets seq to 0 (the dashboard tolerates monotonic-per-connection
\* seq, and a restart is a new connection semantically)" (DeathWatchEmitter): a
\* frame that arrives is heard unless a later one of its life has been.
RestartTolerated ==
  [][wire # <<>> /\ wire' = Tail(wire) /\ socket' = socket =>
       \E i \in 1..Len(heard') :
         heard'[i].life = Head(wire).life /\ heard'[i].seq >= Head(wire).seq]_watchVars

\* "True iff the Death Watch UI should currently be visible ... Triggers on
\* energy_threshold_crossed (direction=below, threshold=10)"
\* (selectDeathWatchVisible): a crossing of the takeover threshold, heard and
\* not taken back, shows it.
TakeoverShown ==
  LET told == SelectSeq(heard, LAMBDA f : f.threshold = Takeover)
  IN told # <<>> /\ Last(told).side = "below" => Visible

=============================================================================
