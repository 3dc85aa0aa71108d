-------------------------------- MODULE Status --------------------------------
(***************************************************************************)
(* The status page: ApplicationProxyAdapter::status puts one picture        *)
(* together from three places that change on their own: the supervisor's   *)
(* snapshot, the counters the pipeline keeps for one epoch (under its lock, *)
(* at every connection), and the settings the adapter last started with.   *)
(* The command is not serialised with start and stop.                      *)
(*                                                                         *)
(* The supervisor is reduced to its published state: a runtime ends when    *)
(* all its connections are closed or aborted (Supervisor, NoStrayTasks).    *)
(***************************************************************************)
EXTENDS Integers, FiniteSets, Optional

CONSTANTS Channels, Conns,
          MaxStarts,  (* bound: runtimes, and so epochs                       *)
          MaxAccepts  (* bound: connections accepted                          *)

VARIABLES state,      (* ProxyState, as the supervisor publishes it           *)
          epoch,      (* runtime_epoch of the snapshot; 0 stands for None     *)
          current,    (* the epoch of the last runtime                        *)
          started,    (* the channels it was started with                     *)
          failing,    (* one of its listeners has failed, the watchdog is due *)
          settings,   (* the channels enabled in the adapter's settings       *)
          metrics,    (* metrics_epoch and channels of PipelineState          *)
          conns,      (* connection -> its channel and stage, or Null         *)
          accepts,
          last,       (* history: what upstream last did on a channel         *)
          asked       (* the snapshot a status command works on, or Null      *)

statusVars == <<state, epoch, current, started, failing, settings, metrics, conns, accepts, last, asked>>

Stages == {"handshake", "open", "sent", "answered"}
NoMetrics == [clients |-> 0, answered |-> FALSE, failed |-> FALSE]
Nothing == [ch \in Channels |-> NoMetrics]

\* All that is assumed of the constants: the connections are finitely many, and no
\* record is the absent value.
StatusAssumption ==
  /\ IsFiniteSet(Conns)
  /\ Null \notin [on : Channels, at : Stages]
  /\ Null \notin [state : {"Stopped", "Starting", "Running", "Stopping", "Faulted"}, epoch : Nat]

StatusInit ==
  /\ state = "Stopped" /\ epoch = 0 /\ current = 0
  /\ started = {} /\ failing = FALSE /\ settings \in SUBSET Channels \ {{}}
  /\ metrics = [epoch |-> 0, of |-> Nothing]
  /\ conns = [c \in Conns |-> Null] /\ accepts = 0
  /\ last = [ch \in Channels |-> "none"]
  /\ asked = Null

-----------------------------------------------------------------------------
(* The runtime. *)

Launch(enabled) ==
  /\ state \in {"Stopped", "Faulted"}
  /\ \A c \in Conns : conns[c] = Null
  /\ current < MaxStarts
  /\ state' = "Starting" /\ epoch' = 0
  /\ started' = enabled
  /\ UNCHANGED <<current, failing, settings, metrics, conns, accepts, last, asked>>

StartFails ==
  /\ state = "Starting"
  /\ state' = "Faulted"
  /\ UNCHANGED <<epoch, current, started, failing, settings, metrics, conns, accepts, last, asked>>

Publish ==
  /\ state = "Starting"
  /\ state' = "Running" /\ current' = current + 1 /\ epoch' = current + 1
  /\ last' = [ch \in Channels |-> "none"]
  /\ UNCHANGED <<started, failing, settings, metrics, conns, accepts, asked>>

\* start returned: the adapter takes its settings over.
Adopt ==
  /\ state = "Running" /\ settings # started
  /\ settings' = started
  /\ UNCHANGED <<state, epoch, current, started, failing, metrics, conns, accepts, last, asked>>

\* An accept error ends the listener, and its JoinSet takes the connections with it:
\* connection_closed is not called for them.
ListenerFails(ch) ==
  /\ state = "Running" /\ ch \in started
  /\ failing' = TRUE
  /\ conns' = [c \in Conns |-> IF conns[c] # Null /\ conns[c].on = ch THEN Null ELSE conns[c]]
  /\ UNCHANGED <<state, epoch, current, started, settings, metrics, accepts, last, asked>>

\* The watchdog keeps the epoch of the runtime it takes down.
Watchdog ==
  /\ state = "Running" /\ failing
  /\ state' = "Faulted" /\ failing' = FALSE
  /\ UNCHANGED <<epoch, current, started, settings, metrics, conns, accepts, last, asked>>

Halt ==
  /\ state \in {"Running", "Faulted"}
  /\ state' = "Stopping" /\ failing' = FALSE
  /\ UNCHANGED <<epoch, current, started, settings, metrics, conns, accepts, last, asked>>

\* Faulted: the clean-up has failed.
Stopped ==
  /\ state = "Stopping"
  /\ \A c \in Conns : conns[c] = Null
  /\ state' \in {"Stopped", "Faulted"} /\ epoch' = 0
  /\ UNCHANGED <<current, started, failing, settings, metrics, conns, accepts, last, asked>>

-----------------------------------------------------------------------------
(* The connections, and what the pipeline counts. *)

Accept(c, ch) ==
  /\ state = "Running" /\ conns[c] = Null /\ ch \in started
  /\ accepts < MaxAccepts /\ accepts' = accepts + 1
  /\ conns' = [conns EXCEPT ![c] = [on |-> ch, at |-> "handshake"]]
  /\ UNCHANGED <<state, epoch, current, started, failing, settings, metrics, last, asked>>

At(c, stage) == conns[c] # Null /\ conns[c].at = stage

OfEpochFault(e) == [metrics EXCEPT !.epoch = e]

\* The first connection of an epoch clears the counters of the one before.
OfEpoch(e) == IF metrics.epoch = e THEN metrics ELSE [epoch |-> e, of |-> Nothing]

\* connection_opened
Open(c) ==
  /\ At(c, "handshake")
  /\ metrics' = [OfEpoch(current) EXCEPT !.of[conns[c].on].clients = @ + 1]
  /\ conns' = [conns EXCEPT ![c].at = "open"]
  /\ UNCHANGED <<state, epoch, current, started, failing, settings, accepts, last, asked>>

Send(c) ==
  /\ At(c, "open")
  /\ conns' = [conns EXCEPT ![c].at = "sent"]
  /\ UNCHANGED <<state, epoch, current, started, failing, settings, metrics, accepts, last, asked>>

\* PipelinePorts::response: an answer also takes the last failure away.
Response(c) ==
  /\ At(c, "sent")
  /\ metrics' = [metrics EXCEPT !.of[conns[c].on].answered = TRUE,
                                !.of[conns[c].on].failed = FALSE]
  /\ last' = [last EXCEPT ![conns[c].on] = "response"]
  /\ conns' = [conns EXCEPT ![c].at = "answered"]
  /\ UNCHANGED <<state, epoch, current, started, failing, settings, accepts, asked>>

\* connection_closed: only of a connection that was opened.  Which errors count as
\* upstream's is in Exchange (UpstreamErrors).
ConnectionClosed(c, upstreamError) ==
  /\ conns[c] # Null
  /\ upstreamError => ~At(c, "handshake")
  /\ metrics' = IF At(c, "handshake") THEN metrics
                ELSE [metrics EXCEPT !.of[conns[c].on].clients = IF @ = 0 THEN 0 ELSE @ - 1,
                                     !.of[conns[c].on].failed = @ \/ upstreamError]
  /\ last' = IF upstreamError THEN [last EXCEPT ![conns[c].on] = "failure"] ELSE last
  /\ conns' = [conns EXCEPT ![c] = Null]
  /\ UNCHANGED <<state, epoch, current, started, failing, settings, accepts, asked>>

\* A stop that waits no longer drops the task: connection_closed is never called.
Abort(c) ==
  /\ state \in {"Stopping", "Faulted"} /\ conns[c] # Null
  /\ conns' = [conns EXCEPT ![c] = Null]
  /\ UNCHANGED <<state, epoch, current, started, failing, settings, metrics, accepts, last, asked>>

-----------------------------------------------------------------------------
(* The status command. *)

Ask ==
  /\ asked = Null
  /\ asked' = [state |-> state, epoch |-> epoch]
  /\ UNCHANGED <<state, epoch, current, started, failing, settings, metrics, conns, accepts, last>>

\* RuntimeMetricsProvider::snapshot
Counters(e) == IF e # 0 /\ e # metrics.epoch THEN Nothing ELSE metrics.of

\* upstream_status
Tone(s, m) ==
  IF s # "Running" THEN "neutral"
  ELSE IF m.failed THEN "danger" ELSE IF m.answered THEN "positive" ELSE "info"

Inbound(s) ==
  CASE s = "Running" -> "Healthy"
    [] s = "Starting" -> "Waiting"
    [] s = "Faulted" -> "Faulted"
    [] s \in {"Stopped", "Stopping"} -> "Unavailable"

\* outbound_health
Outbound(s, tones) ==
  IF s = "Faulted" THEN "Faulted"
  ELSE IF s # "Running" THEN "Unavailable"
  ELSE IF "danger" \in tones THEN "Faulted"
  ELSE IF tones \subseteq {"positive"} THEN "Healthy" ELSE "Waiting"

\* view_model: the counters, then the settings, are read now, for a snapshot taken
\* before.
View(snapshot) ==
  LET counters == Counters(snapshot.epoch)
      tones == {Tone(snapshot.state, counters[ch]) : ch \in settings}
  IN  [epoch |-> snapshot.epoch, enabled |-> settings,
       clients |-> [ch \in Channels |-> counters[ch].clients],
       inbound |-> Inbound(snapshot.state), outbound |-> Outbound(snapshot.state, tones),
       start |-> snapshot.state = "Stopped",
       stop |-> snapshot.state \in {"Running", "Faulted"}]

Answer ==
  /\ asked # Null
  /\ asked' = Null
  /\ UNCHANGED <<state, epoch, current, started, failing, settings, metrics, conns, accepts, last>>

StatusNext ==
  \/ \E enabled \in SUBSET Channels \ {{}} : Launch(enabled)
  \/ StartFails \/ Publish \/ Adopt \/ Watchdog \/ Halt \/ Stopped
  \/ \E ch \in Channels : ListenerFails(ch) \/ \E c \in Conns : Accept(c, ch)
  \/ \E c \in Conns : Open(c) \/ Send(c) \/ Response(c) \/ Abort(c)
  \/ \E c \in Conns, b \in BOOLEAN : ConnectionClosed(c, b)
  \/ Ask \/ Answer

StatusSpec == StatusInit /\ [][StatusNext]_statusVars

-----------------------------------------------------------------------------
OpenOn(ch) == {c \in Conns : conns[c] # Null /\ conns[c].on = ch /\ ~At(c, "handshake")}

(* A status about the runtime that still runs, all its listeners alive, is true  *)
(* whatever changed while it was put together: it shows as many clients as there *)
(* are, calls the way to the upstream healthy only if each enabled channel's     *)
(* last word from there, in this epoch, was an answer, and broken only if some   *)
(* channel's was a failure.  Counters of an earlier epoch never show through.    *)
StatusIsTrue ==
  [][(asked # Null /\ asked' = Null /\ asked.epoch = current
     /\ state = "Running" /\ ~ failing) =>
       LET view == View(asked)
       IN  /\ \A ch \in Channels : view.clients[ch] = Cardinality(OpenOn(ch))
           /\ view.outbound = "Healthy" => \A ch \in view.enabled : last[ch] = "response"
           /\ view.outbound = "Faulted" => \E ch \in view.enabled : last[ch] = "failure"]_statusVars
=============================================================================
