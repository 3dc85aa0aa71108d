------------------------------- MODULE Exchange -------------------------------
(***************************************************************************)
(* One connection of a running channel, from the TLS handshake to          *)
(* connection_closed: ConnectionService of transport.rs with the upstream   *)
(* connector, the fault actions of fault.rs and the framing of the          *)
(* response.  A connection carries one request (keep_alive is off).         *)
(*                                                                         *)
(* The client may disappear and the proxy may be stopped at any moment,     *)
(* every stage may fail or time out, and rules or a breakpoint hand the     *)
(* connection any list of fault actions.  A body is its length, a head the  *)
(* length it declares; 1xx heads are counted.                               *)
(***************************************************************************)
EXTENDS Integers, Sequences, FiniteSets

CONSTANTS MaxBody,  (* bound: bytes of a body                              *)
          MaxInfo,  (* bound: 1xx heads the upstream sends                 *)
          None      (* the absent value of every Option                    *)

ASSUME SizeAssumption == MaxBody \in Nat /\ MaxInfo \in Nat

VARIABLES pc,      (* the stage of the connection                          *)
          acts,    (* the fault actions of the stage                       *)
          next,    (* how many of them have been carried out               *)
          asked,   (* the request actions, as send() sees them             *)
          head,    (* the request is a HEAD request                        *)
          msg,     (* the response: declared length, body, cut offset      *)
          up,      (* what has reached the upstream                        *)
          seen,    (* 1xx heads captured from the upstream                 *)
          wire,    (* what has reached the client                          *)
          fault,   (* intentional_wire_fault                               *)
          tail,    (* raw_tail: bytes behind the declared length           *)
          result,  (* what connection_closed is told                       *)
          stopped, (* the cancellation token                               *)
          gone,    (* the client has hung up                               *)
          blamed   (* last_upstream_error of the channel is set            *)

exchange == <<acts, next, asked, head, msg>>
ends == <<up, seen, wire>>
verdict == <<fault, tail, result>>
vars == <<pc, exchange, ends, verdict, stopped, gone, blamed>>

Sizes == 0 .. MaxBody
Act(kind, n) == [kind |-> kind, n |-> n]
Plain(kinds) == {Act(k, 0) : k \in kinds}
Sized(kinds) == {Act(k, n) : k \in kinds, n \in Sizes}

\* What rules and breakpoints may ask for in each direction (apply_rule_actions).
RequestActs == Plain({"delay", "disconnect", "reject", "connectTimeout", "writeTimeout",
                      "readTimeout", "dropUnread", "dropRead"})
               \cup Sized({"mock", "cutUpload"})
ResponseActs == Plain({"delay", "drop", "status", "misplaced"})
                \cup Sized({"replace", "mock", "truncate", "cut"})
                \cup {Act("offset", n) : n \in {-1, 1}}
Lists(s) == {<<>>} \cup {<<a>> : a \in s} \cup {<<a, b>> : a \in s, b \in s}

Stages == {"tls", "head", "body", "request", "requested", "connect", "upload", "uploaded",
           "answered", "response", "respond", "write", "finish", "closing", "closed"}
Codes == {"ok", "stopped", "io", "tls", "connect_timeout", "write_timeout", "read_timeout",
          "disconnected", "config", "limit", "internal", "bad_length", "truncated", "aborted",
          "cancelled"}
Faults == {"bad_length", "truncated", "aborted"}

ASSUME NoneAssumption == None \notin Nat \cup Codes

\* A response: the length it declares, if any, its body, and where it is cut off.
Responses == [declared : 0 .. MaxBody + 1 \cup {None}, body : Sizes, cut : Sizes \cup {None}]

TypeOK ==
  /\ pc \in Stages
  /\ acts \in Lists(RequestActs) \cup Lists(ResponseActs)
  /\ next \in 0 .. 2
  /\ asked \in Lists(RequestActs)
  /\ head \in BOOLEAN
  /\ msg \in Responses
  /\ up \in {"none", "trying", "connected", "partial", "full"}
  /\ seen \in 0 .. MaxInfo
  /\ wire \in [info : 0 .. MaxInfo, head : 0 .. MaxBody + 1 \cup {None}, bytes : Sizes]
  /\ fault \in Faults \cup {None}
  /\ tail \in Sizes
  /\ result \in Codes \cup {None}
  /\ stopped \in BOOLEAN /\ gone \in BOOLEAN /\ blamed \in BOOLEAN

Init ==
  /\ pc = "tls"
  /\ acts = <<>> /\ next = 0 /\ asked = <<>>
  /\ head = FALSE
  /\ msg = [declared |-> None, body |-> 0, cut |-> None]
  /\ up = "none" /\ seen = 0
  /\ wire = [info |-> 0, head |-> None, bytes |-> 0]
  /\ fault = None /\ tail = 0 /\ result = None
  /\ stopped = FALSE /\ gone = FALSE /\ blamed = FALSE

-----------------------------------------------------------------------------
(* Ends of a stage. *)

Fail(code) == pc' = "closing" /\ result' = code

\* Before the handshake is through nobody knows the connection: its end changes nothing.
Refuse(code) == pc' = "closed" /\ result' = code

\* An injected action of this kind is among the request actions; of two the last counts.
Injected(kind) == \E k \in 1 .. Len(asked) : asked[k].kind = kind
InjectedSize(kind) ==
  asked[CHOOSE k \in 1 .. Len(asked) :
          /\ asked[k].kind = kind
          /\ \A j \in k + 1 .. Len(asked) : asked[j].kind # kind].n

InterruptedFault ==
  /\ pc \notin {"closing", "closed"}
  /\ \/ pc = "tls" /\ ((stopped /\ Refuse("stopped")) \/ (gone /\ Refuse("tls")))
     \/ pc \notin {"tls", "request", "response"} /\ stopped /\ Fail("stopped")
     \/ gone /\ pc \notin {"tls", "write", "finish"} /\ Fail("io")
  /\ UNCHANGED <<exchange, ends, fault, tail, stopped, gone, blamed>>

\* timeout_stage and the outer select: the token is cancelled, or the client is gone
\* and Hyper drops the handler.  Between two ready branches select! picks at random,
\* so a transfer that was cancelled may also surface as its own error.
Interrupted ==
  /\ pc \notin {"closing", "closed"}
  /\ \/ pc = "tls" /\ ((stopped /\ Refuse("stopped")) \/ (gone /\ Refuse("tls")))
     \/ pc # "tls" /\ stopped /\ Fail("stopped")
     \/ pc \in {"upload", "write"} /\ stopped
        /\ Fail(IF fault # None THEN fault
                ELSE IF Injected("cutUpload") THEN "cancelled" ELSE "io")
     \/ gone /\ pc \notin {"tls", "write", "finish"} /\ Fail("io")
  /\ UNCHANGED <<exchange, ends, fault, tail, stopped, gone, blamed>>

Stop ==
  /\ ~ stopped /\ pc \notin {"closing", "closed"} /\ stopped' = TRUE
  /\ UNCHANGED <<pc, exchange, ends, verdict, gone, blamed>>

HangUp ==
  /\ ~ gone /\ pc \notin {"closing", "closed"} /\ gone' = TRUE
  /\ UNCHANGED <<pc, exchange, ends, verdict, stopped, blamed>>

-----------------------------------------------------------------------------
(* The client's side: handshake and request. *)

\* accept: the chain, the pinned fingerprint and the rules of the TLS stage decide
\* about the client certificate; a rule that cannot be evaluated rejects it.
Handshake ==
  /\ pc = "tls"
  /\ \/ ~ gone /\ pc' = "head" /\ UNCHANGED result
     \/ Refuse("tls")
  /\ UNCHANGED <<exchange, ends, fault, tail, stopped, gone, blamed>>

\* Nothing bounds the wait for the head; its limits are checked before the body is read.
ReceiveHead ==
  /\ pc = "head" /\ ~ gone
  /\ \/ head' \in BOOLEAN /\ pc' = "body" /\ UNCHANGED result
     \/ Fail("limit") /\ UNCHANGED head
  /\ UNCHANGED <<acts, next, asked, msg, ends, fault, tail, stopped, gone, blamed>>

ReceiveBody ==
  /\ pc = "body"
  /\ \/ ~ gone /\ pc' = "request" /\ UNCHANGED result
     \/ \E code \in {"io", "limit"} : Fail(code)
  /\ UNCHANGED <<exchange, ends, fault, tail, stopped, gone, blamed>>

\* PipelinePorts::request: rules and a breakpoint give the actions, or it fails.
AskRules ==
  /\ pc = "request"
  /\ \/ \E list \in Lists(RequestActs) :
          acts' = list /\ asked' = list /\ next' = 0
          /\ pc' = "requested" /\ UNCHANGED result
     \/ Fail("internal") /\ UNCHANGED <<acts, asked, next>>
  /\ UNCHANGED <<head, msg, ends, fault, tail, stopped, gone, blamed>>

Current == acts[next + 1]
Remaining == next < Len(acts)

-----------------------------------------------------------------------------
(* response_from_disposition: how a response goes on the wire. *)

\* claimed_length: what the head declares, else the length of the whole body.
Claimed(m) == IF m.declared = None THEN m.body ELSE m.declared

\* The bytes that will be sent: cut off by a truncation or by a disconnection.
Sent(m, kept) == IF m.cut # None THEN m.cut ELSE kept

FaultOfFault(m, kept, truncated) ==
  IF truncated THEN "truncated"
  ELSE IF m.cut # None THEN "aborted"
  ELSE IF Claimed(m) > kept THEN "bad_length" ELSE None

\* A truncation is named before an abort, an abort before a wrong length.
FaultOf(m, kept, truncated) ==
  IF truncated THEN "truncated"
  ELSE IF m.cut # None THEN "aborted"
  ELSE IF Claimed(m) # kept THEN "bad_length" ELSE None

\* Bytes beyond the declared length go out behind Hyper's back.
Surplus(m, kept) == IF Claimed(m) < Sent(m, kept) THEN Sent(m, kept) - Claimed(m) ELSE 0

Dispose(m, kept, truncated) ==
  IF m.cut # None /\ m.cut >= kept
  THEN Fail("config") /\ UNCHANGED <<fault, tail, msg>>
  ELSE /\ fault' = FaultOf(m, kept, truncated)
       /\ tail' = Surplus(m, kept)
       /\ msg' = [declared |-> Claimed(m), body |-> Sent(m, kept) - tail', cut |-> None]
       /\ pc' = "write" /\ UNCHANGED result

-----------------------------------------------------------------------------
(* Request actions and the upstream. *)

Mock(n) == [declared |-> n, body |-> n, cut |-> None]

\* The loop over the request actions: only these end the request here, and a delay
\* waits.  The others are left for send().
RequestAction ==
  /\ pc = "requested" /\ Remaining
  /\ CASE Current.kind = "disconnect" ->
            Fail("disconnected") /\ UNCHANGED <<next, msg, fault, tail>>
       [] Current.kind = "reject" -> Fail("tls") /\ UNCHANGED <<next, msg, fault, tail>>
       [] Current.kind = "mock" ->
            Dispose(Mock(Current.n), Current.n, FALSE) /\ UNCHANGED next
       [] OTHER -> next' = next + 1 /\ UNCHANGED <<pc, msg, fault, tail, result>>
  /\ UNCHANGED <<acts, asked, head, ends, stopped, gone, blamed>>

\* send() begins; an injected timeout waits in its stage and then fails.
Send ==
  /\ pc = "requested" /\ ~ Remaining
  /\ up' = "trying"
  /\ IF Injected("connectTimeout") THEN Fail("connect_timeout")
     ELSE pc' = "connect" /\ UNCHANGED result
  /\ UNCHANGED <<exchange, seen, wire, fault, tail, stopped, gone, blamed>>

\* TCP and TLS, each under the connect timeout.
Connect ==
  /\ pc = "connect"
  /\ \/ up' = "connected" /\ pc' = "upload" /\ UNCHANGED result
     \/ \E code \in {"io", "tls", "connect_timeout"} : Fail(code) /\ UNCHANGED up
  /\ UNCHANGED <<exchange, seen, wire, fault, tail, stopped, gone, blamed>>

UploadFaults == {"writeTimeout", "cutUpload", "dropUnread", "readTimeout"}

WriteErrors == {"io", "write_timeout"}

\* send_scheduled_upstream_abort: the connection ends within the body, as scheduled or
\* because a write fails before.
CutUpload(body) ==
  IF InjectedSize("cutUpload") >= body THEN Fail("config") /\ UNCHANGED up
  ELSE up' = "partial" /\ \E code \in {"aborted"} \cup WriteErrors : Fail(code)

\* The whole request is written and no answer is read; a write, the flush or the
\* shutdown may fail.
WriteOnly ==
  \/ up' = "full" /\ Fail(IF Injected("dropUnread") THEN "disconnected" ELSE "read_timeout")
  \/ up' \in {"partial", "full"} /\ \E code \in WriteErrors : Fail(code)

\* (Fault: the cut is made before the injected timeout is looked for.)
InjectedUploadFault(body) ==
  CASE Injected("cutUpload") -> CutUpload(body)
    [] ~ Injected("cutUpload") /\ Injected("writeTimeout") ->
         Fail("write_timeout") /\ UNCHANGED up
    [] OTHER -> WriteOnly

\* The faults of the upload, of a request with a body of this size, in the order
\* send() looks for them.
InjectedUpload(body) ==
  CASE Injected("writeTimeout") -> Fail("write_timeout") /\ UNCHANGED up
    [] ~ Injected("writeTimeout") /\ Injected("cutUpload") -> CutUpload(body)
    [] OTHER -> WriteOnly

UploadWithFault ==
  /\ pc = "upload" /\ \E k \in UploadFaults : Injected(k)
  /\ \E body \in Sizes : InjectedUpload(body)
  /\ UNCHANGED <<exchange, seen, wire, fault, tail, stopped, gone, blamed>>

\* send_http1_request: the request is written under the write timeout, which the
\* schedule of a slow upload extends.
Upload ==
  /\ pc = "upload" /\ ~ \E k \in UploadFaults : Injected(k)
  /\ \/ up' = "full" /\ pc' = "uploaded" /\ UNCHANGED result
     \/ \E code \in WriteErrors : Fail(code) /\ up' = "partial"
  /\ UNCHANGED <<exchange, seen, wire, fault, tail, stopped, gone, blamed>>

Exchanging == pc = "uploaded" \/ (pc = "upload" /\ ~ \E k \in UploadFaults : Injected(k))

\* TrackedIo captures a 1xx head, during the upload or after it.
Capture ==
  /\ Exchanging /\ seen < MaxInfo
  /\ seen' = seen + 1
  /\ UNCHANGED <<pc, exchange, up, wire, verdict, stopped, gone, blamed>>

\* publish_new_informational_heads writes it to the client ahead of the final response.
Publish ==
  /\ Exchanging /\ wire.info < seen
  /\ \/ ~ gone /\ wire' = [wire EXCEPT !.info = @ + 1] /\ UNCHANGED <<pc, result>>
     \/ Fail("io") /\ UNCHANGED wire
  /\ UNCHANGED <<exchange, up, seen, fault, tail, stopped, gone, blamed>>

\* Heads that were captured with the final response are published before it is read.
AllPublished == wire.info = seen

\* The final response, perhaps before the whole request was written.  Its body has the
\* declared length, or no length is declared; the answer to HEAD has no body.
Answer ==
  /\ Exchanging /\ AllPublished
  /\ \/ \E n \in Sizes, declares \in BOOLEAN :
          /\ msg' = [declared |-> IF declares THEN n ELSE None,
                     body |-> IF head THEN 0 ELSE n, cut |-> None]
          /\ up' \in {up, "full"} \ {"connected"}
          /\ pc' = "answered" /\ UNCHANGED result
     \/ /\ pc = "uploaded" /\ UNCHANGED <<msg, up>>
        /\ \E code \in {"io", "read_timeout", "limit"} : Fail(code)
  /\ UNCHANGED <<acts, next, asked, head, seen, wire, fault, tail, stopped, gone, blamed>>

-----------------------------------------------------------------------------
(* The response on its way back. *)

\* PipelinePorts::response: the upstream is well again; rules give the actions.
AskResponseRules ==
  /\ pc = "answered" /\ ~ Injected("dropRead")
  /\ blamed' = FALSE
  /\ pc' = "response" /\ UNCHANGED <<exchange, ends, verdict, stopped, gone>>

DropAnswer ==
  /\ pc = "answered" /\ Injected("dropRead")
  /\ Fail("disconnected")
  /\ UNCHANGED <<exchange, ends, fault, tail, stopped, gone, blamed>>

GetResponseActions ==
  /\ pc = "response"
  /\ \/ \E list \in Lists(ResponseActs) :
          acts' = list /\ next' = 0 /\ pc' = "respond" /\ UNCHANGED result
     \/ Fail("internal") /\ UNCHANGED <<acts, next>>
  /\ UNCHANGED <<asked, head, msg, ends, fault, tail, stopped, gone, blamed>>

\* apply_response_actions, one action: what becomes of the message.
Applied(m, a) ==
  CASE a.kind = "replace" -> [m EXCEPT !.declared = a.n, !.body = a.n]
    [] a.kind = "mock"    -> [m EXCEPT !.declared = a.n, !.body = a.n]
    [] a.kind = "status"  -> [m EXCEPT !.declared = m.body]
    [] a.kind = "offset"  -> [m EXCEPT !.declared = m.body + a.n]
    [] a.kind = "cut"     -> [m EXCEPT !.cut = a.n]
    [] OTHER -> m

Refused(m, a) ==
  \/ a.kind = "misplaced"
  \/ a.kind = "offset" /\ m.body + a.n < 0
  \/ a.kind = "truncate" /\ a.n >= m.body

ResponseAction ==
  /\ pc = "respond" /\ Remaining
  /\ CASE Refused(msg, Current) -> Fail("config") /\ UNCHANGED <<next, msg, fault, tail>>
       [] Current.kind = "drop" ->
            Fail("disconnected") /\ UNCHANGED <<next, msg, fault, tail>>
       [] ~ Refused(msg, Current) /\ Current.kind = "truncate" ->
            Dispose(msg, Current.n, TRUE) /\ UNCHANGED next
       [] OTHER -> /\ msg' = Applied(msg, Current) /\ next' = next + 1
                   /\ UNCHANGED <<pc, fault, tail, result>>
  /\ UNCHANGED <<acts, asked, head, ends, stopped, gone, blamed>>

Respond ==
  /\ pc = "respond" /\ ~ Remaining
  /\ Dispose(msg, msg.body, FALSE)
  /\ UNCHANGED <<acts, next, asked, head, ends, stopped, gone, blamed>>

\* Hyper writes the canonical head and the body; a body that ends early is its error,
\* which is then reported as the intended fault.  HEAD is answered without a body.
WriteResponse ==
  /\ pc = "write"
  /\ \/ /\ ~ gone
        /\ wire' = [wire EXCEPT !.head = msg.declared,
                                !.bytes = IF head THEN 0 ELSE msg.body]
        /\ IF head \/ msg.body = msg.declared
           THEN pc' = "finish" /\ UNCHANGED result
           ELSE Fail(fault)
     \/ /\ wire' \in {wire, [wire EXCEPT !.head = msg.declared]}
        /\ Fail("io") \/ (gone /\ fault # None /\ Fail(fault))
  /\ UNCHANGED <<exchange, up, seen, fault, tail, stopped, gone, blamed>>

\* finish_downstream_write: the tail, a flush and a shutdown; the fault wins over what
\* goes wrong here.
FinishResponse ==
  /\ pc = "finish"
  /\ \/ ~ gone /\ wire' = [wire EXCEPT !.bytes = @ + tail]
        /\ Fail(IF fault # None THEN fault ELSE "ok")
     \/ Fail(IF fault # None THEN fault ELSE "io") /\ UNCHANGED wire
  /\ UNCHANGED <<exchange, up, seen, fault, tail, stopped, gone, blamed>>

\* is_upstream_error: judged by the code alone.
UpstreamErrors == {"connect_timeout", "write_timeout", "read_timeout", "tls", "io"}

Close ==
  /\ pc = "closing"
  /\ pc' = "closed"
  /\ blamed' = (blamed \/ result \in UpstreamErrors)
  /\ UNCHANGED <<exchange, ends, verdict, stopped, gone>>

Over == pc = "closed" /\ UNCHANGED vars

Advance ==
  \/ Handshake \/ ReceiveBody \/ RequestAction \/ Send \/ Connect \/ UploadWithFault
  \/ Upload \/ Publish \/ AskResponseRules \/ DropAnswer \/ ResponseAction \/ Respond
  \/ WriteResponse \/ FinishResponse \/ Close \/ Interrupted

Next ==
  \/ Advance \/ ReceiveHead \/ AskRules \/ GetResponseActions \/ Capture \/ Answer
  \/ Stop \/ HangUp \/ Over

Spec == Init /\ [][Next]_vars

\* Tasks that can go on are polled, and every stage but the wait for the head has a
\* timeout or a token; neither the client, the upstream nor a user has to do anything.
\* The read timeout is the failing half of Answer.
Fairness == WF_vars(Advance) /\ WF_vars(Answer)
FairSpec == Spec /\ Fairness

-----------------------------------------------------------------------------
(* Properties. *)

\* A response that reached the client short, long or not at all is never reported as a
\* success (requirements WN-009).
ResultIsHonest ==
  result = "ok" =>
    wire.head # None /\ (head \/ wire.bytes = wire.head) /\ tail = 0

\* The faults act where requirements ACTION-002 to ACTION-007 place them: how far the
\* request may get, and that no final response reaches the client.
Answered(kinds) == \E k \in kinds : Injected(k)
FaultsAct ==
  /\ Answered({"mock", "disconnect", "reject"}) => up = "none"
  /\ Injected("connectTimeout") => up \in {"none", "trying"}
  /\ Injected("writeTimeout") => up \in {"none", "trying", "connected"}
  /\ Injected("cutUpload") => up # "full"
  /\ Answered(UploadFaults \cup {"connectTimeout", "dropRead", "disconnect"})
       /\ ~ Answered({"mock"}) => wire.head = None

\* Each 1xx head goes to the client once, and all of them before the final head.
InformationalFirst == wire.info <= seen /\ (wire.head # None => wire.info = seen)

\* Both: what the client gets is complete and in order, or is recorded as a failure.
ClientIsServed == ResultIsHonest /\ InformationalFirst

\* A connection rests only while it waits for a head or for rules and breakpoints, and a
\* stop of the proxy ends it even there.
Waiting == {"head", "request", "response"}
StagesEnd == /\ pc \notin Waiting ~> pc \in Waiting \cup {"closed"}
             /\ stopped ~> pc = "closed"

\* "the last connection from the proxy to the upstream failed" (application_proxy.rs:237)
\* is shown only for a connection that tried to reach the upstream.
UpstreamIsToBlame == blamed => up # "none"

\* INCORRECT_CONTENT_LENGTH says that a rule misdeclared the length (requirements.md:1545).
WrongLengthIsIntended ==
  result = "bad_length" => \E k \in 1 .. Len(acts) : acts[k].kind = "offset"

\* ACTION-006 (requirements.md:770): after it no response at all reaches the client.
NothingReturned == Injected("dropRead") /\ ~ Injected("mock") => wire.info = 0
=============================================================================
