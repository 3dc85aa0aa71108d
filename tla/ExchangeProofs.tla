---------------------------- MODULE ExchangeProofs ----------------------------
(***************************************************************************)
(* Proofs about Exchange, for bodies of any size and any number of 1xx     *)
(* heads.                                                                  *)
(***************************************************************************)
EXTENDS Exchange, TLAPS

(***************************************************************************)
(* The inductive invariant.                                                *)
(***************************************************************************)
Unasked == {"tls", "head", "body", "request"}
Ended == {"closing", "closed"}
Writing == {"write", "finish"}

\* The request actions that end a request before anything is sent.
Enders == {"mock", "disconnect", "reject"}

\* Those without a final response of the upstream.
Unanswered == UploadFaults \cup {"connectTimeout", "dropRead", "disconnect"}

\* What a connection that has come this far was not asked to do.
AskedInv ==
  /\ pc \in Unasked => asked = <<>> /\ up = "none"
  /\ pc = "requested" =>
       acts = asked /\ next <= Len(asked) /\ \A k \in 1 .. next : asked[k].kind \notin Enders
  /\ pc \in {"connect", "upload", "uploaded", "answered", "response", "respond"} =>
       ~ Answered(Enders \cup {"connectTimeout"})
  /\ pc \in {"uploaded", "answered", "response", "respond"} => ~ Answered(UploadFaults)
  /\ pc \in {"response", "respond"} => ~ Injected("dropRead")
  /\ pc = "respond" => acts \in Lists(ResponseActs)
  /\ pc \in Writing => Injected("mock") \/ ~ Answered(Unanswered)

\* What the client has got so far.
WireInv ==
  /\ wire.info <= seen
  /\ pc \notin {"upload", "uploaded"} \cup Ended => wire.info = seen
  /\ pc \notin Writing \cup Ended => wire.head = None

\* What it will get: the declared length is that of the body, or a fault says why not.
WriteInv ==
  /\ pc \notin Ended => result = None
  /\ pc \in Writing => /\ msg.declared # None
                       /\ msg.body + tail <= MaxBody
                       /\ fault = None => msg.body = msg.declared /\ tail = 0
  /\ pc = "finish" => /\ wire.head = msg.declared
                      /\ wire.bytes = IF head THEN 0 ELSE msg.body

Inv == TypeOK /\ AskedInv /\ WireInv /\ WriteInv /\ ClientIsServed /\ FaultsAct

-----------------------------------------------------------------------------
\* A list of actions is a short sequence of them.
LEMMA ListsAreShort ==
  ASSUME NEW S, NEW l \in Lists(S)
  PROVE  l \in Seq(S) /\ Len(l) \in 0 .. 2 /\ \A k \in 1 .. Len(l) : l[k] \in S
<1>1. CASE l = <<>>
  BY <1>1
<1>2. ASSUME NEW a \in S, l = <<a>> PROVE l \in Seq(S) /\ Len(l) = 1 /\ l[1] = a
  BY <1>2
<1>3. ASSUME NEW a \in S, NEW b \in S, l = <<a, b>>
      PROVE  l \in Seq(S) /\ Len(l) = 2 /\ l[1] = a /\ l[2] = b
  BY <1>3
<1> QED BY <1>1, <1>2 DEF Lists

\* What the actions of each direction carry.
LEMMA RequestActsCarry ==
  ASSUME NEW a \in RequestActs
  PROVE  a.kind \in {"mock", "cutUpload"} => a.n \in Sizes
  BY DEF RequestActs, Plain, Sized, Act

LEMMA ResponseActsCarry ==
  ASSUME NEW a \in ResponseActs
  PROVE  /\ a.kind \in {"replace", "mock", "truncate", "cut"} => a.n \in Sizes
         /\ a.kind = "offset" => a.n \in {-1, 1}
  BY DEF ResponseActs, Plain, Sized, Act

\* The action a loop has come to is one of its direction.
LEMMA CurrentRequestAction ==
  ASSUME Inv, pc = "requested", Remaining
  PROVE  /\ Current \in RequestActs /\ Current = asked[next + 1]
         /\ next + 1 \in 1 .. Len(asked) /\ next + 1 \in 0 .. 2
<1>1. acts = asked /\ asked \in Lists(RequestActs) /\ next \in 0 .. 2
  BY DEF Inv, AskedInv, TypeOK
<1>2. asked \in Seq(RequestActs) /\ Len(asked) \in 0 .. 2
      /\ \A k \in 1 .. Len(asked) : asked[k] \in RequestActs
  BY <1>1, ListsAreShort
<1> QED BY <1>1, <1>2 DEF Remaining, Current

LEMMA CurrentResponseAction ==
  ASSUME Inv, pc = "respond", Remaining
  PROVE  Current \in ResponseActs /\ next + 1 \in 0 .. 2
<1>1. acts \in Lists(ResponseActs) /\ next \in 0 .. 2
  BY DEF Inv, AskedInv, TypeOK
<1>2. Len(acts) \in 0 .. 2 /\ \A k \in 1 .. Len(acts) : acts[k] \in ResponseActs
  BY <1>1, ListsAreShort
<1> QED BY <1>1, <1>2 DEF Remaining, Current

\* A response goes on the wire as declared, or with the fault that says why not.
LEMMA Disposed ==
  ASSUME NEW m \in Responses, NEW kept \in 0 .. m.body, NEW truncated \in BOOLEAN,
         Dispose(m, kept, truncated)
  PROVE  \/ pc' = "closing" /\ result' = "config" /\ UNCHANGED <<fault, tail, msg>>
         \/ /\ pc' = "write" /\ UNCHANGED result
            /\ fault' \in Faults \cup {None} /\ tail' \in Sizes
            /\ msg' \in Responses /\ msg'.declared # None
            /\ msg'.body + tail' <= MaxBody
            /\ fault' = None => msg'.body = msg'.declared /\ tail' = 0
  BY SizeAssumption, NoneAssumption
  DEF Responses, Sizes, Codes, Faults, Dispose, Fail, FaultOf, Surplus, Sent, Claimed


\* A connection that fails before its end keeps what was true of it.
LEMMA FailKeeps ==
  ASSUME Inv, pc \notin Ended, NEW code \in Codes \ {"ok"}, Fail(code),
         UNCHANGED <<exchange, ends, fault, tail, stopped, gone, blamed>>
  PROVE  Inv'
<1>1. pc' = "closing" /\ result' = code
  BY DEF Fail
<1> QED BY <1>1
        DEF Inv, TypeOK, AskedInv, WireInv, WriteInv, ClientIsServed, ResultIsHonest,
            InformationalFirst, FaultsAct, Answered, Injected, Unasked, Ended, Writing,
            Stages, exchange, ends

\* So does one whose response is on its way.
LEMMA DisposeKeeps ==
  ASSUME Inv, pc \in {"requested", "respond"},
         NEW m \in Responses, NEW kept \in 0 .. m.body, NEW truncated \in BOOLEAN,
         Dispose(m, kept, truncated), pc = "requested" => Injected("mock"),
         UNCHANGED <<acts, next, asked, head, ends, stopped, gone, blamed>>
  PROVE  Inv'
<1>1. CASE pc' = "closing" /\ result' = "config" /\ UNCHANGED <<fault, tail, msg>>
  <2>1. Fail("config") /\ pc \notin Ended /\ "config" \in Codes \ {"ok"}
    BY <1>1 DEF Fail, Ended, Codes
  <2>2. UNCHANGED <<exchange, ends, fault, tail, stopped, gone, blamed>>
    BY <1>1 DEF exchange
  <2> QED BY <2>1, <2>2, FailKeeps
<1>2. CASE /\ pc' = "write" /\ UNCHANGED result
           /\ fault' \in Faults \cup {None} /\ tail' \in Sizes
           /\ msg' \in Responses /\ msg'.declared # None
           /\ msg'.body + tail' <= MaxBody
           /\ fault' = None => msg'.body = msg'.declared /\ tail' = 0
  <2>1. UNCHANGED <<acts, next, asked, head, up, seen, wire, stopped, gone, blamed>>
    BY DEF ends
  <2>2. TypeOK'
    BY <1>2, <2>1 DEF Inv, TypeOK, Stages
  <2>3. AskedInv'
    BY <1>2 DEF Inv, AskedInv, Answered, Injected, Unanswered, Enders, Unasked
  <2>4. WireInv'
    BY <2>1 DEF Inv, WireInv, Ended, Writing
  <2>5. WriteInv'
    BY <1>2 DEF Inv, WriteInv, Ended
  <2>6. ClientIsServed' /\ FaultsAct'
    BY <1>2, <2>1, NoneAssumption
    DEF Inv, WriteInv, Ended, ClientIsServed, ResultIsHonest, InformationalFirst, FaultsAct,
        Answered, Injected, Codes
  <2> QED BY <2>2, <2>3, <2>4, <2>5, <2>6 DEF Inv
<1> QED BY <1>1, <1>2, Disposed

\* The loop over the request actions keeps the invariant: a mocked answer goes on the
\* wire whole, before anything has been sent.
LEMMA RequestActionKeeps ==
  ASSUME Inv, RequestAction
  PROVE  Inv'
<1>1. /\ pc = "requested" /\ Remaining
      /\ UNCHANGED <<acts, asked, head, ends, stopped, gone, blamed>>
  BY DEF RequestAction
<1>2. /\ Current \in RequestActs /\ Current = asked[next + 1]
      /\ next + 1 \in 1 .. Len(asked) /\ next + 1 \in 0 .. 2
  BY <1>1, CurrentRequestAction
<1>3. ASSUME Current.kind \in {"disconnect", "reject"} PROVE Inv'
  <2>1. \E code \in {"disconnected", "tls"} :
           Fail(code) /\ UNCHANGED <<next, msg, fault, tail>>
    BY <1>3 DEF RequestAction
  <2>2. PICK code \in {"disconnected", "tls"} : Fail(code)
    BY <2>1
  <2>3. UNCHANGED <<exchange, ends, fault, tail, stopped, gone, blamed>>
    BY <1>1, <2>1 DEF exchange
  <2> QED BY <1>1, <2>2, <2>3, FailKeeps DEF Codes, Ended
<1>4. ASSUME Current.kind = "mock" PROVE Inv'
  <2>1. Dispose(Mock(Current.n), Current.n, FALSE) /\ next' = next
    BY <1>4 DEF RequestAction
  <2>2. Current.n \in 0 .. MaxBody
    BY <1>2, <1>4, RequestActsCarry DEF Sizes
  <2>3. Mock(Current.n) \in Responses /\ Current.n \in 0 .. Mock(Current.n).body
    BY <2>2, SizeAssumption DEF Mock, Responses, Sizes
  <2>4. Injected("mock")
    BY <1>2, <1>4 DEF Injected
  <2> QED BY <1>1, <2>1, <2>3, <2>4, DisposeKeeps
<1>5. ASSUME Current.kind \notin Enders PROVE Inv'
  <2>1. next' = next + 1 /\ UNCHANGED <<pc, msg, fault, tail, result>>
    BY <1>5 DEF RequestAction, Enders
  <2> QED BY <1>1, <1>2, <1>5, <2>1
          DEF Inv, TypeOK, AskedInv, WireInv, WriteInv, ClientIsServed, ResultIsHonest,
              InformationalFirst, FaultsAct, Answered, Injected, ends
<1> QED BY <1>3, <1>4, <1>5 DEF Enders

\* So does the loop over the response actions: until it ends nothing is on the wire.
LEMMA ResponseActionKeeps ==
  ASSUME Inv, ResponseAction
  PROVE  Inv'
<1>1. /\ pc = "respond" /\ Remaining
      /\ UNCHANGED <<acts, asked, head, ends, stopped, gone, blamed>>
  BY DEF ResponseAction
<1>2. Current \in ResponseActs /\ next + 1 \in 0 .. 2
  BY <1>1, CurrentResponseAction
<1>3. msg \in Responses /\ msg.body \in 0 .. MaxBody
  BY DEF Inv, TypeOK, Responses, Sizes
<1>4. ASSUME Refused(msg, Current) \/ Current.kind = "drop" PROVE Inv'
  <2>1. \E code \in {"config", "disconnected"} :
           Fail(code) /\ UNCHANGED <<next, msg, fault, tail>>
    BY <1>4 DEF ResponseAction
  <2>2. PICK code \in {"config", "disconnected"} : Fail(code)
    BY <2>1
  <2>3. UNCHANGED <<exchange, ends, fault, tail, stopped, gone, blamed>>
    BY <1>1, <2>1 DEF exchange
  <2> QED BY <1>1, <2>2, <2>3, FailKeeps DEF Codes, Ended
<1>5. ASSUME ~ Refused(msg, Current), Current.kind = "truncate" PROVE Inv'
  <2>1. Dispose(msg, Current.n, TRUE) /\ next' = next
    BY <1>5 DEF ResponseAction
  <2>2. Current.n \in 0 .. MaxBody /\ Current.n < msg.body
    BY <1>2, <1>3, <1>5, ResponseActsCarry DEF Refused, Sizes
  <2>3. Current.n \in 0 .. msg.body
    BY <1>3, <2>2
  <2> QED BY <1>1, <1>3, <2>1, <2>3, DisposeKeeps
<1>6. ASSUME ~ Refused(msg, Current), Current.kind \notin {"drop", "truncate"} PROVE Inv'
  <2>1. /\ msg' = Applied(msg, Current) /\ next' = next + 1
        /\ UNCHANGED <<pc, fault, tail, result>>
    BY <1>6 DEF ResponseAction
  <2>2. Applied(msg, Current) \in Responses
    <3>1. CASE Current.kind \in {"replace", "mock", "cut"}
      <4>1. Current.n \in 0 .. MaxBody
        BY <1>2, <3>1, ResponseActsCarry DEF Sizes
      <4>2. \/ Applied(msg, Current) = [msg EXCEPT !.declared = Current.n, !.body = Current.n]
            \/ Applied(msg, Current) = [msg EXCEPT !.cut = Current.n]
        BY <3>1 DEF Applied
      <4>3. Current.n \in Sizes /\ Current.n \in 0 .. MaxBody + 1
        BY <4>1, SizeAssumption DEF Sizes
      <4>4. /\ [msg EXCEPT !.declared = Current.n, !.body = Current.n] \in Responses
            /\ [msg EXCEPT !.cut = Current.n] \in Responses
        BY <1>3, <4>3 DEF Responses
      <4> QED BY <4>2, <4>4
    <3>2. CASE Current.kind = "offset"
      <4>1. Current.n \in {-1, 1} /\ msg.body + Current.n >= 0
        BY <1>2, <1>3, <1>6, <3>2, ResponseActsCarry DEF Refused
      <4> QED BY <1>3, <3>2, <4>1, SizeAssumption DEF Applied, Responses
    <3>3. CASE Current.kind \notin {"replace", "mock", "cut", "offset"}
      BY <1>3, <3>3, SizeAssumption DEF Applied, Responses
    <3> QED BY <3>1, <3>2, <3>3
  <2> QED BY <1>1, <1>2, <2>1, <2>2
          DEF Inv, TypeOK, AskedInv, WireInv, WriteInv, ClientIsServed, ResultIsHonest,
              InformationalFirst, FaultsAct, Answered, Injected, Writing, ends
<1> QED BY <1>4, <1>5, <1>6

\* And its end, where the response is disposed of as it is.
LEMMA RespondKeeps ==
  ASSUME Inv, Respond
  PROVE  Inv'
<1>1. /\ pc = "respond" /\ Dispose(msg, msg.body, FALSE)
      /\ UNCHANGED <<acts, next, asked, head, ends, stopped, gone, blamed>>
  BY DEF Respond
<1>2. msg \in Responses /\ msg.body \in 0 .. MaxBody
  BY DEF Inv, TypeOK, Responses, Sizes
<1>3. msg.body \in 0 .. msg.body
  BY <1>2
<1> QED BY <1>1, <1>2, <1>3, DisposeKeeps

\* The faults of an upload: they end it where each of them says.
LEMMA UploadWithFaultKeeps ==
  ASSUME Inv, UploadWithFault
  PROVE  Inv'
<1>1. PICK body \in Sizes : InjectedUpload(body)
  BY DEF UploadWithFault
<1>2. pc = "upload" /\ UNCHANGED <<exchange, seen, wire, fault, tail, stopped, gone, blamed>>
  BY DEF UploadWithFault
<1>3. /\ ~ Answered(Enders \cup {"connectTimeout"})
      /\ up \in {"none", "trying", "connected", "partial", "full"}
  BY <1>2 DEF Inv, AskedInv, TypeOK
<1>4. PICK code \in Codes \ {"ok"} : Fail(code)
  BY <1>1 DEF InjectedUpload, CutUpload, WriteOnly, WriteErrors, Codes
<1>5. up' = up \/ (~ Injected("writeTimeout") /\ up' = "partial")
      \/ (~ Injected("writeTimeout") /\ ~ Injected("cutUpload") /\ up' = "full")
  BY <1>1 DEF InjectedUpload, CutUpload, WriteOnly
<1>6. CASE up' = up
  BY <1>2, <1>4, <1>6, FailKeeps DEF ends, Ended
<1>7. CASE up' # up
  <2>1. pc' = "closing" /\ result' = code
    BY <1>4 DEF Fail
  <2> QED BY <1>2, <1>5, <2>1
          DEF Inv, TypeOK, AskedInv, WireInv, WriteInv, ClientIsServed, ResultIsHonest,
              InformationalFirst, FaultsAct, Answered, Injected, Enders, Unasked, Ended,
              Writing, Stages, exchange
<1> QED BY <1>6, <1>7

\* What is written is what was declared, or the fault is named.
LEMMA WriteKeeps ==
  ASSUME Inv, WriteResponse
  PROVE  Inv'
<1>1. /\ pc = "write"
      /\ UNCHANGED <<exchange, up, seen, fault, tail, stopped, gone, blamed>>
  BY DEF WriteResponse
<1>2. \/ UNCHANGED wire
      \/ wire' = [wire EXCEPT !.head = msg.declared]
      \/ wire' = [wire EXCEPT !.head = msg.declared, !.bytes = IF head THEN 0 ELSE msg.body]
  BY DEF WriteResponse
<1>3. \/ /\ pc' = "finish" /\ UNCHANGED result /\ (head \/ msg.body = msg.declared)
         /\ wire'.head = msg.declared /\ wire'.bytes = IF head THEN 0 ELSE msg.body
      \/ pc' = "closing" /\ result' \in Faults \cup {"io"}
  <2>1. /\ wire \in [info : 0 .. MaxInfo, head : 0 .. MaxBody + 1 \cup {None}, bytes : Sizes]
        /\ fault \in Faults \cup {None} /\ head \in BOOLEAN
        /\ fault = None => msg.body = msg.declared
    BY <1>1 DEF Inv, TypeOK, WriteInv, Writing
  <2> QED BY <2>1 DEF WriteResponse, Fail
<1>4. msg \in Responses /\ msg.declared # None /\ wire.info = seen
  BY <1>1 DEF Inv, TypeOK, WriteInv, WireInv, Writing, Ended
<1>5. wire' \in [info : 0 .. MaxInfo, head : 0 .. MaxBody + 1 \cup {None}, bytes : Sizes]
      /\ wire'.info = wire.info /\ wire'.head \in {wire.head, msg.declared}
  <2>1. wire \in [info : 0 .. MaxInfo, head : 0 .. MaxBody + 1 \cup {None}, bytes : Sizes]
    BY DEF Inv, TypeOK
  <2>2. /\ (IF head THEN 0 ELSE msg.body) \in Sizes
        /\ msg.declared \in 0 .. MaxBody + 1 \cup {None}
    BY <1>4, SizeAssumption DEF Responses, Sizes
  <2> QED BY <1>2, <2>1, <2>2
<1>6. TypeOK'
  BY <1>1, <1>3, <1>5 DEF Inv, TypeOK, exchange, Stages, Faults, Codes
<1>7. AskedInv'
  BY <1>1, <1>3 DEF Inv, AskedInv, Answered, Injected, Unasked, Writing, exchange
<1>8. WireInv'
  BY <1>1, <1>3, <1>4, <1>5 DEF WireInv, Writing, Ended
<1>9. WriteInv'
  BY <1>1, <1>3 DEF Inv, WriteInv, Writing, Ended, exchange
<1>10. ClientIsServed'
  BY <1>1, <1>3, <1>4, <1>5, NoneAssumption
  DEF Inv, ClientIsServed, ResultIsHonest, InformationalFirst, WriteInv, Ended, Faults, Codes
<1>11. FaultsAct'
  BY <1>1 DEF Inv, FaultsAct, AskedInv, Answered, Injected, Writing, Unanswered, exchange
<1> QED BY <1>6, <1>7, <1>8, <1>9, <1>10, <1>11 DEF Inv

\* The upstream has answered, and nothing tells the proxy to drop the answer.
LEMMA AskResponseRulesKeeps ==
  ASSUME Inv, AskResponseRules
  PROVE  Inv'
<1>1. /\ pc = "answered" /\ pc' = "response" /\ ~ Injected("dropRead") /\ blamed' = FALSE
      /\ UNCHANGED <<exchange, ends, verdict, stopped, gone>>
  BY DEF AskResponseRules
<1>2. TypeOK'
  BY <1>1 DEF Inv, TypeOK, Stages, exchange, ends, verdict
<1>3. AskedInv'
  BY <1>1 DEF Inv, AskedInv, Answered, Injected, Unasked, Writing, exchange
<1>4. WireInv' /\ WriteInv' /\ ClientIsServed' /\ FaultsAct'
  BY <1>1
  DEF Inv, WireInv, WriteInv, ClientIsServed, ResultIsHonest, InformationalFirst, FaultsAct,
      Answered, Injected, Writing, Ended, exchange, ends, verdict
<1> QED BY <1>2, <1>3, <1>4 DEF Inv

\* And so is what is finished.
LEMMA FinishKeeps ==
  ASSUME Inv, FinishResponse
  PROVE  Inv'
<1>1. /\ pc = "finish" /\ pc' = "closing"
      /\ UNCHANGED <<exchange, up, seen, fault, tail, stopped, gone, blamed>>
  BY DEF FinishResponse, Fail
<1>2. /\ msg \in Responses /\ tail \in Sizes /\ msg.body + tail <= MaxBody /\ head \in BOOLEAN
      /\ wire \in [info : 0 .. MaxInfo, head : 0 .. MaxBody + 1 \cup {None}, bytes : Sizes]
      /\ wire.bytes = IF head THEN 0 ELSE msg.body
      /\ msg.declared # None /\ wire.head = msg.declared /\ wire.info = seen
      /\ fault \in Faults \cup {None}
      /\ fault = None => msg.body = msg.declared /\ tail = 0
  BY <1>1 DEF Inv, TypeOK, WriteInv, WireInv, Writing, Ended
<1>3. \/ UNCHANGED wire /\ result' \in Faults \cup {"io"}
      \/ /\ wire' = [wire EXCEPT !.bytes = @ + tail]
         /\ result' = IF fault # None THEN fault ELSE "ok"
  BY <1>2 DEF FinishResponse, Fail
<1>4. wire.bytes + tail \in Sizes
  BY <1>2 DEF Sizes
<1>5. /\ wire' \in [info : 0 .. MaxInfo, head : 0 .. MaxBody + 1 \cup {None}, bytes : Sizes]
      /\ wire'.info = wire.info /\ wire'.head = wire.head
  BY <1>2, <1>3, <1>4
<1>6. TypeOK'
  BY <1>1, <1>3, <1>5 DEF Inv, TypeOK, exchange, Stages, Faults, Codes
<1>7. AskedInv' /\ WireInv' /\ WriteInv'
  BY <1>1, <1>2, <1>5 DEF AskedInv, WireInv, WriteInv, Unasked, Writing, Ended
<1>8. ResultIsHonest'
  <2>1. CASE result' = "ok"
    <3>1. fault = None /\ wire' = [wire EXCEPT !.bytes = @ + tail]
      BY <1>2, <1>3, <2>1 DEF Faults
    <3>2. wire'.bytes = IF head THEN 0 ELSE msg.body
      BY <1>2, <3>1
    <3> QED BY <1>1, <1>2, <3>1 DEF ResultIsHonest, exchange
  <2> QED BY <2>1 DEF ResultIsHonest
<1>9. InformationalFirst'
  BY <1>1, <1>2, <1>5 DEF InformationalFirst
<1>10. FaultsAct'
  BY <1>1, <1>5 DEF Inv, FaultsAct, Answered, Injected, exchange
<1> QED BY <1>6, <1>7, <1>8, <1>9, <1>10 DEF Inv, ClientIsServed

\* A 1xx head goes to the client while the final response is still out.
LEMMA PublishKeeps ==
  ASSUME Inv, Publish
  PROVE  Inv'
<1>1. /\ pc \in {"upload", "uploaded"} /\ wire.info < seen
      /\ UNCHANGED <<exchange, up, seen, fault, tail, stopped, gone, blamed>>
  BY DEF Publish, Exchanging
<1>2. CASE UNCHANGED wire /\ Fail("io")
  BY <1>1, <1>2, FailKeeps DEF ends, Ended, Codes
<1>3. CASE wire' = [wire EXCEPT !.info = @ + 1] /\ UNCHANGED <<pc, result>>
  <2>1. /\ wire \in [info : 0 .. MaxInfo, head : 0 .. MaxBody + 1 \cup {None}, bytes : Sizes]
        /\ seen \in 0 .. MaxInfo /\ wire.head = None
    BY <1>1 DEF Inv, TypeOK, WireInv, Writing, Ended
  <2>2. wire.info + 1 \in 0 .. MaxInfo
    BY <1>1, <2>1, SizeAssumption
  <2>3. /\ wire' \in [info : 0 .. MaxInfo, head : 0 .. MaxBody + 1 \cup {None}, bytes : Sizes]
        /\ wire'.info <= seen /\ wire'.head = None
    BY <1>1, <1>3, <2>1, <2>2
  <2>4. TypeOK'
    BY <1>1, <1>3, <2>3 DEF Inv, TypeOK, exchange
  <2>5. AskedInv' /\ WireInv' /\ WriteInv'
    BY <1>1, <1>3, <2>3 DEF Inv, AskedInv, WireInv, WriteInv, Answered, Injected, exchange
  <2>6. ClientIsServed' /\ FaultsAct'
    BY <1>1, <1>3, <2>3
    DEF Inv, ClientIsServed, ResultIsHonest, InformationalFirst, FaultsAct, Answered,
        Injected, exchange
  <2> QED BY <2>4, <2>5, <2>6 DEF Inv
<1> QED BY <1>2, <1>3 DEF Publish

\* The final response comes after every 1xx head was published.
LEMMA AnswerKeeps ==
  ASSUME Inv, Answer
  PROVE  Inv'
<1>1. /\ Exchanging /\ wire.info = seen
      /\ UNCHANGED <<acts, next, asked, head, seen, wire, fault, tail, stopped, gone, blamed>>
  BY DEF Answer, AllPublished
<1>2. ASSUME NEW code \in {"io", "read_timeout", "limit"}, pc = "uploaded", Fail(code),
             UNCHANGED <<msg, up>>
      PROVE  Inv'
  BY <1>1, <1>2, FailKeeps DEF exchange, ends, Ended, Codes
<1>3. ASSUME NEW n \in Sizes, NEW declares \in BOOLEAN,
             msg' = [declared |-> IF declares THEN n ELSE None,
                     body |-> IF head THEN 0 ELSE n, cut |-> None],
             up' \in {up, "full"} \ {"connected"}, pc' = "answered", UNCHANGED result
      PROVE  Inv'
  <2>1. msg' \in Responses
    BY <1>3, SizeAssumption DEF Responses, Sizes
  <2>2. /\ pc \in {"upload", "uploaded"} /\ wire.head = None /\ result = None
        /\ ~ Answered(Enders \cup {"connectTimeout"}) /\ ~ Answered(UploadFaults)
    BY <1>1 DEF Inv, AskedInv, WireInv, WriteInv, Exchanging, Answered, Writing, Ended
  <2>3. TypeOK'
    BY <1>1, <1>3, <2>1 DEF Inv, TypeOK, Stages
  <2>4. AskedInv' /\ WireInv' /\ WriteInv'
    BY <1>1, <1>3, <2>2
    DEF Inv, AskedInv, WireInv, WriteInv, Answered, Injected, Unasked, Writing
  <2>5. ClientIsServed' /\ FaultsAct'
    BY <1>1, <1>3, <2>2
    DEF Inv, ClientIsServed, ResultIsHonest, InformationalFirst, FaultsAct, Answered,
        Injected, Enders, UploadFaults
  <2> QED BY <2>3, <2>4, <2>5 DEF Inv
<1> QED BY <1>2, <1>3 DEF Answer

\* Every step keeps it.
LEMMA InvStep ==
  ASSUME Inv, [Next]_vars
  PROVE  Inv'
<1>1. CASE Handshake
  BY <1>1
  DEF Handshake, Refuse, Inv, TypeOK, AskedInv, WireInv, WriteInv, ClientIsServed,
      ResultIsHonest, InformationalFirst, FaultsAct, Unasked, Ended, Writing, Stages, Codes,
      exchange, ends
<1>2. CASE ReceiveHead
  BY <1>2
  DEF ReceiveHead, Fail, Inv, TypeOK, AskedInv, WireInv, WriteInv, ClientIsServed,
      ResultIsHonest, InformationalFirst, FaultsAct, Unasked, Ended, Writing, Stages, Codes,
      ends
<1>3. CASE ReceiveBody
  BY <1>3
  DEF ReceiveBody, Fail, Inv, TypeOK, AskedInv, WireInv, WriteInv, ClientIsServed,
      ResultIsHonest, InformationalFirst, FaultsAct, Unasked, Ended, Writing, Stages, Codes,
      exchange, ends
<1>4. CASE AskRules
  BY <1>4
  DEF AskRules, Fail, Inv, TypeOK, AskedInv, WireInv, WriteInv, ClientIsServed,
      ResultIsHonest, InformationalFirst, FaultsAct, Unasked, Ended, Writing, Stages, Codes,
      ends
<1>5. CASE RequestAction
  BY <1>5, RequestActionKeeps
<1>6. CASE Send
  BY <1>6, SizeAssumption, NoneAssumption
  DEF Send, Fail, Remaining, Inv, TypeOK, AskedInv, WireInv, WriteInv, ClientIsServed,
      ResultIsHonest, InformationalFirst, FaultsAct, Answered, Injected, Enders, Unanswered,
      UploadFaults, Unasked, Ended, Writing, Responses, Sizes, Stages, Codes, Faults,
      exchange, ends, verdict
<1>7. CASE Connect
  BY <1>7
  DEF Connect, Fail, Inv, TypeOK, AskedInv, WireInv, WriteInv, ClientIsServed, ResultIsHonest,
      InformationalFirst, FaultsAct, Answered, Injected, Enders, Unasked, Ended, Writing,
      Stages, Codes, exchange
<1>8. CASE UploadWithFault
  BY <1>8, UploadWithFaultKeeps
<1>9. CASE Upload
  BY <1>9
  DEF Upload, WriteErrors, Fail, Inv, TypeOK, AskedInv, WireInv, WriteInv, ClientIsServed, ResultIsHonest,
      InformationalFirst, FaultsAct, Answered, Injected, Enders, UploadFaults, Unasked, Ended,
      Writing, Stages, Codes, Faults, exchange
<1>10. CASE Capture
  BY <1>10, SizeAssumption
  DEF Capture, Exchanging, Inv, TypeOK, AskedInv, WireInv, WriteInv, ClientIsServed,
      ResultIsHonest, InformationalFirst, FaultsAct, Answered, Injected, Ended, Writing,
      Stages, exchange, verdict
<1>11. CASE Publish
  BY <1>11, PublishKeeps
<1>12. CASE Answer
  BY <1>12, AnswerKeeps
<1>13. CASE AskResponseRules
  BY <1>13, AskResponseRulesKeeps
<1>14. CASE DropAnswer
  BY <1>14
  DEF DropAnswer, Fail, Inv, TypeOK, AskedInv, WireInv, WriteInv, ClientIsServed,
      ResultIsHonest, InformationalFirst, FaultsAct, Answered, Injected, Unasked, Ended,
      Writing, Stages, Codes, exchange, ends
<1>15. CASE GetResponseActions
  BY <1>15
  DEF GetResponseActions, Fail, Inv, TypeOK, AskedInv, WireInv, WriteInv, ClientIsServed,
      ResultIsHonest, InformationalFirst, FaultsAct, Answered, Injected, Unasked, Ended,
      Writing, Stages, Codes, ends
<1>16. CASE ResponseAction
  BY <1>16, ResponseActionKeeps
<1>17. CASE Respond
  BY <1>17, RespondKeeps
<1>18. CASE WriteResponse
  BY <1>18, WriteKeeps
<1>19. CASE FinishResponse
  BY <1>19, FinishKeeps
<1>20. CASE Interrupted
  BY <1>20, SizeAssumption, NoneAssumption, SMTT(30)
  DEF Interrupted, Refuse, Fail, Inv, TypeOK, AskedInv, WireInv, WriteInv, ClientIsServed,
      ResultIsHonest, InformationalFirst, FaultsAct, Answered, Injected, Enders, Unanswered,
      UploadFaults, Unasked, Ended, Writing, Responses, Sizes, Stages, Codes, Faults,
      exchange, ends, verdict
<1>21. CASE Close
  BY <1>21
  DEF Close, Inv, TypeOK, AskedInv, WireInv, WriteInv, ClientIsServed, ResultIsHonest,
      InformationalFirst, FaultsAct, Answered, Injected, Unasked, Ended, Writing, Stages,
      exchange, ends, verdict
<1>22. CASE Stop
  BY <1>22
  DEF Stop, Inv, TypeOK, AskedInv, WireInv, WriteInv, ClientIsServed, ResultIsHonest,
      InformationalFirst, FaultsAct, Answered, Injected, exchange, ends, verdict
<1>23. CASE HangUp
  BY <1>23
  DEF HangUp, Inv, TypeOK, AskedInv, WireInv, WriteInv, ClientIsServed, ResultIsHonest,
      InformationalFirst, FaultsAct, Answered, Injected, exchange, ends, verdict
<1>24. CASE UNCHANGED vars
  BY <1>24
  DEF vars, Inv, TypeOK, AskedInv, WireInv, WriteInv, ClientIsServed, ResultIsHonest,
      InformationalFirst, FaultsAct, Answered, Injected, exchange, ends, verdict
<1> QED
  BY <1>1, <1>2, <1>3, <1>4, <1>5, <1>6, <1>7, <1>8, <1>9, <1>10, <1>11, <1>12, <1>13, <1>14,
     <1>15, <1>16, <1>17, <1>18, <1>19, <1>20, <1>21, <1>22, <1>23, <1>24
  DEF Next, Advance, Over

\* A connection that has just been accepted.
LEMMA InvInit == ASSUME Init PROVE Inv
<1>1. TypeOK
  <2>1. <<>> \in Lists(RequestActs)
    BY DEF Lists
  <2>2. 0 \in Sizes /\ 0 \in 0 .. MaxInfo
    BY SizeAssumption DEF Sizes
  <2>3. msg \in Responses
    BY <2>2 DEF Init, Responses
  <2>4. wire \in [info : 0 .. MaxInfo, head : 0 .. MaxBody + 1 \cup {None}, bytes : Sizes]
    BY <2>2 DEF Init
  <2>5. head \in BOOLEAN /\ stopped \in BOOLEAN /\ gone \in BOOLEAN /\ blamed \in BOOLEAN
    BY DEF Init
  <2>6. acts \in Lists(RequestActs) \cup Lists(ResponseActs) /\ asked \in Lists(RequestActs)
    BY <2>1 DEF Init
  <2>7. next \in 0 .. 2 /\ seen \in 0 .. MaxInfo /\ tail \in Sizes
    BY <2>2 DEF Init
  <2>8. /\ pc \in Stages /\ up \in {"none", "trying", "connected", "partial", "full"}
        /\ fault \in Faults \cup {None} /\ result \in Codes \cup {None}
    BY DEF Init, Stages
  <2> QED BY <2>3, <2>4, <2>5, <2>6, <2>7, <2>8 DEF TypeOK
<1>2. AskedInv
  BY DEF Init, AskedInv, Writing
<1>3. WireInv /\ WriteInv
  BY DEF Init, WireInv, WriteInv, Writing
<1>4. ClientIsServed /\ FaultsAct
  BY NoneAssumption
  DEF Init, ClientIsServed, ResultIsHonest, InformationalFirst, FaultsAct, Codes
<1> QED BY <1>1, <1>2, <1>3, <1>4 DEF Inv

(* The inductive invariant: what a connection has come to tells what it was not asked to   *)
(* do, what the client has, and what is still to be sent.                                  *)
THEOREM Invariant == Spec => []Inv
<1>1. Inv /\ [Next]_vars => Inv'
  BY InvStep
<1> QED BY <1>1, InvInit, PTL DEF Spec

(* A response that reached the client short, long or not at all is never recorded as a     *)
(* success, and every 1xx head is sent once and ahead of it, for bodies of any length, any *)
(* number of 1xx heads, and every way a connection can be cut off.                         *)
THEOREM ServedInFull == Spec => []ClientIsServed
<1>1. Inv => ClientIsServed
  BY DEF Inv
<1> QED BY <1>1, Invariant, PTL

(* The injected faults act where the requirements place them: a request stops where its    *)
(* fault says, and no final response gets around one.                                      *)
THEOREM FaultsTakeEffect == Spec => []FaultsAct
<1>1. Inv => FaultsAct
  BY DEF Inv
<1> QED BY <1>1, Invariant, PTL

===============================================================================
