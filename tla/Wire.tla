---------------------------------- MODULE Wire ----------------------------------
(***************************************************************************)
(* One HTTP/1 message on its way out of the proxy: the paced body of        *)
(* proxy::traffic, Hyper's buffer, and the writer of raw_http1.rs that      *)
(* puts the canonical head in the place of the head Hyper generates.        *)
(*                                                                         *)
(* A request goes up (with the tracker that tells the write stage it was    *)
(* flushed), or up and cut off in the middle, which bypasses Hyper; a       *)
(* response goes down, with a declared length that a rule may have          *)
(* falsified.  A head is two parts, a body its bytes 1, 2, ...; time is     *)
(* counted in units, and passes while the body waits or the peer stalls.    *)
(***************************************************************************)
EXTENDS Integers, Sequences, SequencesExt, Optional

CONSTANTS Plans,        (* the messages: length, schedule, direction          *)
          DefaultChunk, (* DEFAULT_TRAFFIC_CHUNK_BYTES                        *)
          Second,       (* time units in a second, of which rates speak       *)
          MaxStall      (* bound: time units for which the peer stalls        *)

\* What the checks of a rule let through as a schedule.
IsSchedule(p) ==
  /\ p.jitter # Null => /\ p.jitter.min \in Nat /\ p.jitter.max \in Nat
                        /\ p.jitter.min <= p.jitter.max /\ p.jitter.each \in BOOLEAN
  /\ p.throttle # Null => p.throttle.rate \in Nat \ {0} /\ p.throttle.chunk \in Nat \ {0}
  /\ p.gaps # Null => p.gaps.available \in Nat \ {0} /\ p.gaps.blocked \in Nat \ {0}

\* What a message can be: only a request is cut off in the middle, only the length of a
\* response may be falsified, and only a response has 1xx heads before it.
IsPlan(p) ==
  /\ IsSchedule(p)
  /\ p.dir \in {"up", "down"} /\ p.body \in Nat /\ p.claimed \in Nat
  /\ p.expect \in BOOLEAN
  /\ p.cut # Null => p.dir = "up" /\ p.cut \in 0 .. p.body - 1
  /\ p.dir = "up" => p.claimed = p.body /\ ~ p.expect

\* What is assumed of the constants (the rule checks of Rules see to the schedules).
WireAssumption ==
  /\ \A p \in Plans : IsPlan(p)
  /\ DefaultChunk \in Nat \ {0} /\ Second \in Nat /\ MaxStall \in Nat

VARIABLES plan,      (* the message                                          *)
          offset,    (* bytes PacedBody has handed out                       *)
          elapsed,   (* time since the body was made                         *)
          stalled,   (* of which the peer did not read                       *)
          wait,      (* the deadline PacedBody or WireBody sleeps for        *)
          throttleAt,(* next_throttle_at                                     *)
          jittered,  (* jittered_offset; -1 before_message_waited            *)
          ended,     (* how the body ended, if it did                        *)
          mode,      (* what Hyper's connection does                         *)
          buf,       (* Hyper's write buffer                                 *)
          head,      (* generated_head_complete, for which head; its parts   *)
          sent,      (* canonical_offset                                     *)
          wire,      (* what the peer was sent                               *)
          complete,  (* RequestWriteTracker::body_complete                   *)
          flushed,   (* RequestWriteTracker::request_flushed                 *)
          cancelled  (* the cancellation token                               *)

pacing == <<offset, wait, throttleAt, jittered, ended>>
writer == <<buf, head, sent, wire>>
wireVars == <<plan, pacing, elapsed, stalled, mode, writer, complete, flushed, cancelled>>

Bytes(n) == [i \in 1 .. n |-> <<"byte", i>>]
Final == <<<<"final", 1>>, <<"final", 2>>>>
Info == <<<<"info", 1>>, <<"info", 2>>>>
Generated(p) == (IF p.expect THEN Info ELSE <<>>) \o <<<<"generated", 1>>, <<"generated", 2>>>>
Direct(p) == p.cut # Null

\* The bytes Hyper is given: no more than the length the head declares.
BodyBytes(p) == IF p.claimed < p.body THEN p.claimed ELSE p.body

\* What the peer is to receive, in this order.
Expected(p) == (IF p.expect THEN Info ELSE <<>>) \o Final \o Bytes(p.body)

WireTypeOK ==
  /\ plan \in Plans
  /\ offset \in 0 .. plan.body /\ elapsed \in Nat /\ stalled \in 0 .. MaxStall
  /\ wait \in Nat \cup {Null} /\ throttleAt \in Nat /\ jittered \in -2 .. plan.body
  /\ ended \in {"no", "done", "short", "cut", "cancelled"}
  /\ mode \in {"rest", "poll", "flush", "tail", "closed"}
  /\ head \in {"none", "info", "final"} /\ sent \in 0 .. 2
  /\ complete \in BOOLEAN /\ flushed \in BOOLEAN /\ cancelled \in BOOLEAN

WireInit ==
  /\ plan \in Plans
  /\ offset = 0 /\ elapsed = 0 /\ stalled = 0 /\ wait = Null /\ throttleAt = 0
  /\ jittered = -2
  /\ ended = "no" /\ mode = "rest" /\ flushed = FALSE /\ cancelled = FALSE
  /\ complete = (plan.dir = "up" /\ plan.body = 0)
  /\ IF Direct(plan)
     THEN buf = <<>> /\ head = "final" /\ sent = 2 /\ wire = Final
     ELSE buf = Generated(plan) /\ head = "none" /\ sent = 0 /\ wire = <<>>

-----------------------------------------------------------------------------
(* The schedule (schedule.rs). *)

ChunkBytes(p, len) ==
  CASE p.throttle # Null -> p.throttle.chunk
    [] p.throttle = Null /\ (p.gaps # Null \/ (p.jitter # Null /\ p.jitter.each)) ->
         IF len < DefaultChunk THEN len ELSE DefaultChunk
    [] OTHER -> len

Rate(p, len) == (len * Second) \div p.throttle.rate

Chunks(p, len) ==
  IF len = 0 THEN 1 ELSE (len + ChunkBytes(p, len) - 1) \div ChunkBytes(p, len)

EstimateFault(p) ==
  (IF p.throttle = Null THEN 0 ELSE Rate(p, p.body))
  + (IF p.jitter = Null THEN 0
     ELSE p.jitter.max * (IF p.jitter.each THEN Chunks(p, p.body) ELSE 1))
  + (IF p.gaps = Null THEN 0 ELSE p.gaps.blocked)

\* estimated_delay: by this much the write timeout of a request is extended.
Estimate(p) ==
  (IF p.throttle = Null THEN 0 ELSE Rate(p, p.body))
  + (IF p.jitter = Null THEN 0
     ELSE p.jitter.max * (IF p.jitter.each THEN Chunks(p, p.body) ELSE 1))
  + (IF p.gaps = Null THEN 0 ELSE p.gaps.blocked * Chunks(p, p.body))

-----------------------------------------------------------------------------
(* PacedBody::poll_frame, which Hyper calls while it has room in its buffer. *)

Polled == mode = "poll" /\ ended = "no"
Awake == (wait # Null => elapsed >= wait)

\* Jitter before the message is drawn once, jitter per chunk once at each offset.
MustJitter ==
  /\ plan.jitter # Null
  /\ IF plan.jitter.each THEN jittered # offset ELSE jittered # -1
JitterMark == IF plan.jitter.each THEN offset ELSE -1

Cycle == plan.gaps.available + plan.gaps.blocked
Blocked == plan.gaps # Null /\ elapsed % Cycle >= plan.gaps.available
GapEnd == IF Blocked THEN elapsed + Cycle - (elapsed % Cycle) ELSE elapsed

Later(a, b) == IF a < b THEN b ELSE a
More == offset < BodyBytes(plan)
AtCut == Direct(plan) /\ offset >= plan.cut

\* A pending poll: Hyper flushes what it has and rests.
Pend(deadline) == wait' = deadline /\ mode' = "flush"

Cancelled ==
  /\ Polled /\ cancelled
  /\ ended' = "cancelled" /\ mode' = "closed"
  /\ UNCHANGED <<plan, offset, wait, throttleAt, jittered, elapsed, stalled, writer,
                 complete, flushed, cancelled>>

MayPoll == Polled /\ ~ cancelled /\ Awake

\* next_wait_deadline: the jitter and the end of the gap, whichever is later.
Sleep ==
  /\ MayPoll /\ More /\ ~ AtCut
  /\ IF MustJitter
     THEN \E draw \in plan.jitter.min .. plan.jitter.max :
            /\ jittered' = JitterMark
            /\ Later(elapsed + draw, GapEnd) > elapsed
            /\ Pend(Later(elapsed + draw, GapEnd))
     ELSE GapEnd > elapsed /\ Pend(GapEnd) /\ UNCHANGED jittered
  /\ UNCHANGED <<plan, offset, throttleAt, ended, elapsed, stalled, writer, complete,
                 flushed, cancelled>>

\* No jitter is due, or a draw of nothing, and the gap is over.
MayGoOn == ~ Blocked /\ (MustJitter => plan.jitter.min = 0)

Marked == jittered' = IF MustJitter THEN JitterMark ELSE jittered

Throttle ==
  /\ MayPoll /\ More /\ ~ AtCut /\ MayGoOn
  /\ elapsed < throttleAt
  /\ Pend(throttleAt) /\ Marked
  /\ UNCHANGED <<plan, offset, throttleAt, ended, elapsed, stalled, writer, complete,
                 flushed, cancelled>>

NextChunk ==
  LET end == Later(0, offset + ChunkBytes(plan, BodyBytes(plan)))
      capped == IF end > BodyBytes(plan) THEN BodyBytes(plan) ELSE end
  IN IF Direct(plan) /\ capped > plan.cut THEN plan.cut ELSE capped

\* Hyper ends a body of the declared length with its last byte; the abort of an
\* upload writes every frame before it asks for the next one.
Emit ==
  /\ MayPoll /\ More /\ ~ AtCut /\ MayGoOn
  /\ elapsed >= throttleAt
  /\ Marked
  /\ offset' = NextChunk
  /\ buf' = buf \o [i \in 1 .. NextChunk - offset |-> <<"byte", offset + i>>]
  /\ throttleAt' = IF plan.throttle = Null THEN throttleAt
                   ELSE elapsed + Rate(plan, NextChunk - offset)
  /\ wait' = Null
  /\ complete' = (complete \/ (plan.dir = "up" /\ offset' = plan.body))
  /\ ended' = IF offset' = plan.claimed THEN "done" ELSE ended
  /\ mode' = IF offset' = plan.claimed \/ Direct(plan) THEN "flush" ELSE "poll"
  /\ UNCHANGED <<plan, elapsed, stalled, head, sent, wire, flushed, cancelled>>

\* The body is at its end before the declared length: WireBody waits until one unit
\* has passed since it was made, then Hyper fails and drops what it has buffered.
FinishDelayFault == 0
FinishDelay == 1

EndShort ==
  /\ MayPoll /\ ~ More /\ offset # plan.claimed
  /\ IF elapsed < FinishDelay
     THEN Pend(FinishDelay) /\ UNCHANGED <<ended, complete>>
     ELSE ended' = "short" /\ mode' = "closed" /\ UNCHANGED <<wait, complete>>
  /\ UNCHANGED <<plan, offset, throttleAt, jittered, elapsed, stalled, writer, flushed, cancelled>>

EndEmpty ==
  /\ MayPoll /\ ~ More /\ offset = plan.claimed
  /\ ended' = "done" /\ mode' = "flush"
  /\ UNCHANGED <<plan, offset, wait, throttleAt, jittered, elapsed, stalled, writer,
                 complete, flushed, cancelled>>

\* The upload has reached its cut: the connection is shut down.
CutOff ==
  /\ MayPoll /\ AtCut
  /\ ended' = "cut" /\ mode' = "closed"
  /\ UNCHANGED <<plan, offset, wait, throttleAt, jittered, elapsed, stalled, writer,
                 complete, flushed, cancelled>>

\* The buffer is full: Hyper flushes before it polls again.
Full ==
  /\ Polled /\ buf # <<>>
  /\ mode' = "flush"
  /\ UNCHANGED <<plan, pacing, elapsed, stalled, writer, complete, flushed, cancelled>>

-----------------------------------------------------------------------------
(* RequestHeadPreservingIo, ResponseHeadPreservingIo: one part or byte a step. *)

Canonical == IF head = "info" THEN Info ELSE Final
HeadDue == head # "none" /\ sent < 2

ForgetFault == UNCHANGED <<head, sent>>

\* A 1xx head has been written: the next generated head is looked for.
Forget == head' = "none" /\ sent' = 0

\* poll_flush_canonical, ahead of anything that follows the generated head.
WriteHead ==
  /\ mode \in {"flush", "tail"} /\ HeadDue
  /\ wire' = Append(wire, Canonical[sent + 1])
  /\ IF head = "info" /\ sent = 1 THEN Forget ELSE sent' = sent + 1 /\ UNCHANGED head
  /\ UNCHANGED <<plan, pacing, elapsed, stalled, mode, buf, complete, flushed, cancelled>>

\* The generated head is consumed up to its end, and not written.
SkipHead ==
  /\ mode = "flush" /\ head = "none" /\ buf # <<>>
  /\ buf' = Tail(buf)
  /\ head' = CASE Head(buf) = <<"info", 2>> -> "info"
               [] Head(buf) = <<"generated", 2>> -> "final"
               [] OTHER -> head
  /\ UNCHANGED <<plan, pacing, elapsed, stalled, mode, sent, wire, complete, flushed, cancelled>>

WriteByte ==
  /\ mode \in {"flush", "tail"} /\ head # "none" /\ ~ HeadDue /\ buf # <<>>
  /\ wire' = Append(wire, Head(buf)) /\ buf' = Tail(buf)
  /\ UNCHANGED <<plan, pacing, elapsed, stalled, mode, head, sent, complete, flushed, cancelled>>

\* Everything is written and flushed.  TrackedIo notes it once the body is complete.
\* When the body has ended, the rest of a response declared too short follows.
Flush ==
  /\ mode = "flush" /\ buf = <<>> /\ ~ HeadDue
  /\ flushed' = (flushed \/ complete)
  /\ IF ended = "no"
     THEN mode' = "rest" /\ UNCHANGED buf
     ELSE mode' = "tail" /\ buf' = SubSeq(Bytes(plan.body), plan.claimed + 1, plan.body)
  /\ UNCHANGED <<plan, pacing, elapsed, stalled, head, sent, wire, complete, cancelled>>

\* finish_downstream_write, or the end of the request.
Close ==
  /\ mode = "tail" /\ buf = <<>> /\ ~ HeadDue
  /\ mode' = "closed"
  /\ UNCHANGED <<plan, pacing, elapsed, stalled, writer, complete, flushed, cancelled>>

\* The connection's task is polled before the request has reached it, and flushes
\* nothing: an empty body is complete already.
IdleFlush ==
  /\ mode = "rest" /\ plan.dir = "up" /\ ~ Direct(plan) /\ wire = <<>> /\ offset = 0
  /\ flushed' = (flushed \/ complete)
  /\ UNCHANGED <<plan, pacing, elapsed, stalled, mode, writer, complete, cancelled>>

-----------------------------------------------------------------------------
(* Time, and the cancellation. *)

Wake ==
  /\ mode = "rest" /\ (Awake \/ cancelled)
  /\ mode' = "poll"
  /\ UNCHANGED <<plan, pacing, elapsed, stalled, writer, complete, flushed, cancelled>>

Tick ==
  /\ mode = "rest" /\ ~ Awake
  /\ elapsed' = elapsed + 1
  /\ UNCHANGED <<plan, pacing, stalled, mode, writer, complete, flushed, cancelled>>

Stall ==
  /\ mode = "flush" /\ stalled < MaxStall
  /\ elapsed' = elapsed + 1 /\ stalled' = stalled + 1
  /\ UNCHANGED <<plan, pacing, mode, writer, complete, flushed, cancelled>>

Cancel ==
  /\ ~ cancelled /\ ended = "no"
  /\ cancelled' = TRUE
  /\ UNCHANGED <<plan, pacing, elapsed, stalled, mode, writer, complete, flushed>>

WireNext ==
  \/ Cancelled \/ Sleep \/ Throttle \/ Emit \/ EndShort \/ EndEmpty
  \/ CutOff \/ Full \/ WriteHead \/ SkipHead \/ WriteByte \/ Flush \/ Close \/ IdleFlush
  \/ Wake \/ Tick \/ Stall \/ Cancel

WireSpec == WireInit /\ [][WireNext]_wireVars

-----------------------------------------------------------------------------
(* Properties. *)

\* Whatever is cut off, stalled, paced or split, the peer reads the 1xx heads, the
\* canonical head and the body in this order, each byte once and never out of place.
InOrder == IsPrefix(wire, Expected(plan))

Unpaced(p) == p.jitter = Null /\ p.throttle = Null /\ p.gaps = Null

\* A body that ends says how much of it the peer has: all of it when the connection
\* closes or the tracker reports the request as flushed (an empty one may be reported
\* early), exactly the bytes before the cut, and all there is of a short one that was
\* neither paced nor stalled.
EndsAreTrue ==
  /\ ended = "done" /\ mode = "closed" => wire = Expected(plan)
  /\ flushed /\ plan.body > 0 => wire = Expected(plan)
  /\ ended = "cut" => wire = Final \o Bytes(plan.cut)
  /\ ended = "short" /\ Unpaced(plan) /\ stalled = 0 => wire = Expected(plan)

\* The estimate by which the write timeout is extended covers every wait the schedule
\* can cause, however jitter, throttle and gaps fall together.
EstimateCovers ==
  elapsed <= Estimate(plan) + stalled + (IF plan.claimed > plan.body THEN FinishDelay ELSE 0)

\* requirements.md:775 and :780 (ACTION-011, ACTION-017): the bytes before the end are
\* sent, of a paced response too.
ShortIsDelivered == ended = "short" /\ stalled = 0 => wire = Expected(plan)
=============================================================================
