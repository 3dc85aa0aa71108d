-------------------------------- MODULE Effects --------------------------------
(***************************************************************************)
(* What the rules and a breakpoint do to a message: the checks a rule       *)
(* passes before it is saved (domain::rule), the fault templates that       *)
(* become rules (FaultServiceAdapter), the composition of the rules that    *)
(* hit, the decision a user may take at a breakpoint and its checks         *)
(* (BreakpointValidator), and the execution of the composed actions by the  *)
(* transport, for a request and for a response.                             *)
(*                                                                         *)
(* A body is what it is (id), how long, and whether a JSON field can be     *)
(* set in it: "no" JSON, JSON without the path's parent ("bare"), "yes".    *)
(***************************************************************************)
EXTENDS Integers, Sequences, FiniteSets, SequencesExt

CONSTANTS RuleActions,  (* the actions the rule editor may put into a draft  *)
          Given,        (* the numbers a fault form may be filled in with    *)
          Bodies,       (* the bodies that arrive                            *)
          Decisions,    (* the decisions a user may send                     *)
          MaxRules,     (* bound: rules saved                                *)
          MaxActions,   (* bound: actions of the first rule; later ones: 1   *)
          Null

ASSUME BoundAssumption == MaxRules \in Nat /\ MaxActions \in Nat \ {0}
ASSUME BodyAssumption ==
  \A b \in Bodies : /\ b = [id |-> b.id, len |-> b.len, json |-> b.json]
                    /\ b.len \in Nat /\ b.json \in {"no", "bare", "yes"}

VARIABLES rules,     (* the saved rules, by priority, until a message comes  *)
          stage,     (* of the message, Null before one arrives              *)
          original,  (* the message as it was received                       *)
          message,   (* as it stands: [body, status, declared]               *)
          faults,    (* the composed FaultActions, then the decision's       *)
          decision,  (* the decision taken, if any                           *)
          at,        (* how many faults have been executed                   *)
          waited,    (* the delays slept, in milliseconds                    *)
          schedule,  (* the TrafficSchedule the body is sent under           *)
          outcome    (* "rules", "paused", "running", or how it ended        *)

effects == <<rules, stage, original, message, faults, decision, at, waited, schedule, outcome>>

MaxDelay == 600000        (* MAX_TOTAL_DELAY_MS                              *)
MaxRate == 104857600      (* MAX_THROTTLE_BYTES_PER_SECOND                   *)
MaxChunk == 1048576       (* MAX_TRAFFIC_CHUNK_BYTES                         *)

Edits == {"SetJson", "ReplaceBody", "SetHeader"}
RequestEnds == {"Disconnect", "ConnectTimeout", "WriteTimeout", "ReadTimeout",
                "DropResponse", "Mock", "CutUpload"}
ResponseEnds == {"InvalidJson", "WrongLength", "Truncate", "CutDownload"}
Terminals == {"RejectTls"} \cup RequestEnds \cup ResponseEnds
Kinds == Edits \cup Terminals
           \cup {"Pause", "Delay", "Jitter", "Throttle", "Intermittent", "CustomStatus"}
UserKinds == {"ForwardOriginal", "ForwardModified", "Mock", "Delay", "Disconnect", "CustomStatus",
              "InvalidJson", "WrongLength", "Truncate", "DropResponse"}

\* What a parameter is, where something is computed from it.
Parameters(a) ==
  /\ a.kind \in {"ReplaceBody", "ForwardModified"} => a.len \in Nat
  /\ a.kind = "Delay" => a.ms \in Int
  /\ a.kind \in {"CustomStatus", "Mock"} => a.status \in Int
  /\ a.kind = "WrongLength" => a.delta \in Int
  /\ a.kind \in {"Truncate", "CutUpload", "CutDownload"} => a.n \in Int
  /\ a.kind = "DropResponse" => a.read \in BOOLEAN

ASSUME ActionAssumption ==
  /\ \A a \in RuleActions : a.kind \in Kinds /\ Parameters(a) /\ a # Null
  /\ \A d \in Decisions : d.kind \in UserKinds /\ Parameters(d) /\ d # Null
  /\ Given \subseteq Int

EffectsInit ==
  /\ rules = <<>> /\ stage = Null /\ original = Null /\ message = Null
  /\ faults = <<>> /\ decision = Null /\ at = 0 /\ waited = 0
  /\ schedule = [jitter |-> Null, throttle |-> Null, gaps |-> Null, cut |-> Null]
  /\ outcome = "rules"

-----------------------------------------------------------------------------
(* validate_rule_draft. *)

CompatibleFault(st, a) ==
  CASE a.kind \in Edits \cup {"Delay", "Jitter", "Pause", "Throttle", "Intermittent"} -> st # "tls"
    [] a.kind \in ResponseEnds \cup {"CustomStatus"} -> st = "response"
    [] a.kind \in RequestEnds -> st = "request"
    [] a.kind = "RejectTls" -> st = "tls"

\* action_compatible
Compatible(st, a) ==
  CASE a.kind \in Edits \cup {"Delay", "Jitter", "Pause"} -> st # "tls"
    [] a.kind \in {"Throttle", "Intermittent"} ->
         <<st, a.dir>> \in {<<"request", "up">>, <<"response", "down">>}
    [] a.kind \in ResponseEnds \cup {"CustomStatus"} -> st = "response"
    [] a.kind \in RequestEnds -> st = "request"
    [] a.kind = "RejectTls" -> st = "tls"

ValidStatus(s) == s \in 100 .. 599

\* validate_header: the header is not one the forwarding itself manages.
HeaderAllowed(a) == ~ a.managed

\* The parameters of one action, and what validate_action_content asks of its text.
InRange(a) ==
  CASE a.kind = "Jitter" -> a.min <= a.max /\ a.max <= MaxDelay
    [] a.kind = "Throttle" -> a.rate \in 1 .. MaxRate /\ a.chunk \in 1 .. MaxChunk
    [] a.kind = "Intermittent" -> a.on \in 1 .. MaxDelay /\ a.off \in 1 .. MaxDelay
    [] a.kind \in {"CustomStatus", "Mock"} -> ValidStatus(a.status)
    [] a.kind = "WrongLength" -> a.delta # 0
    [] a.kind \in {"ConnectTimeout", "WriteTimeout", "ReadTimeout"} -> a.ms > 0
    [] a.kind = "SetHeader" -> HeaderAllowed(a)
    [] a.kind = "SetJson" -> a.path = "good"
    [] OTHER -> TRUE

DelayOf(a) == CASE a.kind = "Delay" -> a.ms [] a.kind = "Jitter" -> a.max [] OTHER -> 0

Sum(ns) == FoldLeft(LAMBDA sum, n : sum + n, 0, ns)
Total(acts) == Sum([i \in DOMAIN acts |-> DelayOf(acts[i])])

\* A terminal action is the only one, and the last.
OneEnd(acts) == \A i \in DOMAIN acts : acts[i].kind \in Terminals => i = Len(acts)

\* byMessage: a condition on the address, the path or the body; a handshake has none.
Valid(draft) ==
  /\ draft.acts # <<>> /\ OneEnd(draft.acts) /\ Total(draft.acts) <= MaxDelay
  /\ \A i \in DOMAIN draft.acts :
       Compatible(draft.stage, draft.acts[i]) /\ InRange(draft.acts[i])
  /\ draft.stage = "tls" => ~ draft.byMessage

-----------------------------------------------------------------------------
(* The fault templates.  A form is filled in with numbers and a switch; the texts
   a template takes are checked where they are used. *)

Of(st, a) == [stage |-> st, act |-> a]

RequestTemplates(n, on) == {
  Of("tls", [kind |-> "RejectTls"]),
  Of("request", [kind |-> "Disconnect"]),
  Of("request", [kind |-> "Delay", ms |-> n]),
  Of("request", [kind |-> "SetJson", path |-> "good"]),
  Of("request", [kind |-> "DropResponse", read |-> ~ on]),
  Of("request", [kind |-> "ConnectTimeout", ms |-> n]),
  Of("request", [kind |-> "WriteTimeout", ms |-> n]),
  Of("request", [kind |-> "ReadTimeout", ms |-> n]),
  Of("request", [kind |-> "CutUpload", n |-> n]) }

\* status_parameter refuses a status out of range before a rule is made.
StatusTemplates(n) ==
  IF ValidStatus(n)
  THEN {Of("request", [kind |-> "Mock", status |-> n]),
        Of("response", [kind |-> "CustomStatus", status |-> n])}
  ELSE {}

ResponseTemplates(n) == {
  Of("response", [kind |-> "Delay", ms |-> n]),
  Of("response", [kind |-> "InvalidJson"]),
  Of("response", [kind |-> "WrongLength", delta |-> n]),
  Of("response", [kind |-> "Truncate", n |-> n]),
  Of("response", [kind |-> "CutDownload", n |-> n]) }

Shaped(st, dir, n, m, on) == {
  Of(st, [kind |-> "Throttle", rate |-> n, chunk |-> m, dir |-> dir]),
  Of(st, [kind |-> "Jitter", min |-> n, max |-> m, each |-> on]),
  Of(st, [kind |-> "Intermittent", on |-> n, off |-> m, dir |-> dir]) }

ShapingTemplates(n, m, on) ==
  Shaped("request", "up", n, m, on) \cup Shaped("response", "down", n, m, on)

\* Every template, filled in; u64_parameter refuses what is negative, but a length
\* offset is signed.
FilledIn ==
  UNION {RequestTemplates(n, on) \cup StatusTemplates(n)
         \cup ResponseTemplates(n) \cup ShapingTemplates(n, m, on)
         : n \in Given, m \in Given, on \in BOOLEAN}

Entered(a) == {a[f] : f \in DOMAIN a \ {"kind", "dir", "each", "read", "path"}}
WellTyped(a) == a.kind = "WrongLength" \/ \A v \in Entered(a) : v >= 0

ASSUME FormAssumption == \A t \in FilledIn : t.act # Null

\* The forms as they are first shown (parameter_definitions).
Shown(ms, n, mocked, failed) ==
  {t \in RequestTemplates(ms, FALSE) \cup ResponseTemplates(ms) :
     {"n", "delta"} \cap DOMAIN t.act = {}}
  \cup {t \in RequestTemplates(n, FALSE) \cup ResponseTemplates(n) : "ms" \notin DOMAIN t.act}
  \cup {t \in StatusTemplates(mocked) : t.act.kind = "Mock"}
  \cup {t \in StatusTemplates(failed) : t.act.kind = "CustomStatus"}

ShownShaping(rate, chunk, least, most, pause) ==
  {t \in ShapingTemplates(rate, chunk, TRUE) : t.act.kind = "Throttle"}
  \cup {t \in ShapingTemplates(least, most, TRUE) : t.act.kind = "Jitter"}
  \cup {t \in ShapingTemplates(pause, pause, TRUE) : t.act.kind = "Intermittent"}

Defaults == Shown(70000, 1, 200, 500)
ShapingDefaults == ShownShaping(1024, 16384, 0, 100, 1000)

-----------------------------------------------------------------------------
(* Saving. *)

Drafts ==
  {[stage |-> st, acts |-> acts, byMessage |-> by] :
     st \in {"tls", "request", "response"}, by \in BOOLEAN,
     acts \in UNION {[1 .. n -> RuleActions] :
                       n \in 1 .. IF rules = <<>> THEN MaxActions ELSE 1}}

MaySave == outcome = "rules" /\ Len(rules) < MaxRules

Added(draft) ==
  /\ Valid(draft)
  /\ rules' = Append(rules, [stage |-> draft.stage, acts |-> draft.acts])
  /\ UNCHANGED <<stage, original, message, faults, decision, at, waited, schedule, outcome>>

Save == MaySave /\ \E draft \in Drafts : Added(draft)

\* configure: the template's one action, with the conditions of the form, of which
\* a handshake takes none (configuration_conditions).
Configure ==
  /\ MaySave
  /\ \E t \in FilledIn, by \in BOOLEAN :
       /\ WellTyped(t.act)
       /\ t.stage = "tls" => ~ by
       /\ Added([stage |-> t.stage, acts |-> <<t.act>>, byMessage |-> by])

-----------------------------------------------------------------------------
(* A message arrives; the rules that match are composed (RuleEngine::evaluate).
   One message is followed to its end, so the rules are not looked at again. *)

FirstEnd(acts) ==
  LET ends == {i \in DOMAIN acts : acts[i].kind \in Terminals}
  IN IF ends = {} THEN Len(acts) ELSE CHOOSE i \in ends : \A j \in ends : i <= j

Composed(st, hits) ==
  LET all == FlattenSeq([i \in DOMAIN rules |->
               IF i \in hits /\ rules[i].stage = st THEN rules[i].acts ELSE <<>>])
  IN SubSeq(all, 1, FirstEnd(all))

Plain(body) == [body |-> body, status |-> 200, declared |-> body.len]
Text(id, n) == [id |-> id, len |-> n, json |-> "no"]

\* One edit of apply_rule_actions; a body that cannot take it ends the message.
Edited(m, a) ==
  CASE m = Null -> Null
    [] m # Null /\ a.kind = "SetJson" ->
         IF m.body.json = "yes" THEN [m EXCEPT !.body.id = "json"] ELSE Null
    [] m # Null /\ a.kind = "ReplaceBody" -> Plain(Text("text", a.len))
    [] OTHER -> m

Faults(acts) ==
  FoldLeft(LAMBDA rest, a : IF a.kind \in Edits \cup {"Pause"} THEN rest ELSE Append(rest, a),
           <<>>, acts)

Arrive ==
  /\ outcome = "rules"
  /\ \E st \in {"request", "response"}, body \in Bodies, hits \in SUBSET DOMAIN rules :
       LET acts == Composed(st, hits)
           edited == FoldLeft(Edited, Plain(body), acts)
       IN /\ stage' = st /\ original' = Plain(body)
          /\ message' = IF edited = Null THEN Plain(body) ELSE edited
          /\ faults' = Faults(acts)
          /\ outcome' = CASE edited = Null -> "unfit body"
                          [] edited # Null /\ \E i \in DOMAIN acts : acts[i].kind = "Pause" -> "paused"
                          [] OTHER -> "running"
  /\ rules' = <<>>
  /\ UNCHANGED <<decision, at, waited, schedule>>

\* reject_tls_handshake: only RejectTls is of a handshake.
Handshake ==
  /\ outcome = "rules"
  /\ \E hits \in SUBSET DOMAIN rules :
       /\ faults' = Faults(Composed("tls", hits))
       /\ outcome' = IF \E i \in DOMAIN faults' : faults'[i].kind = "RejectTls"
                     THEN "rejected" ELSE "accepted"
  /\ stage' = "tls" /\ rules' = <<>>
  /\ UNCHANGED <<original, message, decision, at, waited, schedule>>

-----------------------------------------------------------------------------
(* The breakpoint (validate_decision, apply_breakpoint_decision). *)

Supports(st, kind) ==
  IF st = "request"
  THEN kind \in {"ForwardOriginal", "ForwardModified", "Mock", "Delay", "Disconnect"}
  ELSE kind \notin {"Mock", "Disconnect"}

AcceptableFault(d) ==
  /\ Supports(stage, d.kind)
  /\ CASE d.kind \in {"ForwardModified", "Mock"} -> d.normal
       [] d.kind = "Delay" -> d.ms \in 1 .. MaxDelay
       [] d.kind = "CustomStatus" -> ValidStatus(d.status)
       [] d.kind = "WrongLength" -> d.delta # 0
       [] d.kind = "Truncate" -> d.n \in 0 .. message.body.len
       [] OTHER -> TRUE

\* normal: the message of the decision is its own normal form (validate_message).
Acceptable(d) ==
  /\ Supports(stage, d.kind)
  /\ CASE d.kind \in {"ForwardModified", "Mock"} -> d.normal
       [] d.kind = "Delay" -> d.ms \in 1 .. MaxDelay
       [] d.kind = "CustomStatus" -> ValidStatus(d.status)
       [] d.kind = "WrongLength" -> d.delta # 0
       [] d.kind = "Truncate" -> d.n \in 0 .. message.body.len - 1
       [] OTHER -> TRUE

Decide ==
  /\ outcome = "paused"
  /\ \E d \in Decisions :
       /\ Acceptable(d)
       /\ decision' = d
       /\ message' = CASE d.kind = "ForwardOriginal" -> original
                       [] d.kind = "ForwardModified" -> Plain(Text("user", d.len))
                       [] OTHER -> message
       /\ faults' = IF d.kind \in {"ForwardOriginal", "ForwardModified"}
                    THEN faults ELSE Append(faults, d)
  /\ outcome' = "running"
  /\ UNCHANGED <<rules, stage, original, at, waited, schedule>>

-----------------------------------------------------------------------------
(* Execution: handle_request and HyperUpstreamConnector::send of a request,
   apply_response_actions and response_from_disposition of a response. *)

Running(st, kinds) ==
  /\ outcome = "running" /\ stage = st
  /\ at < Len(faults) /\ faults[at + 1].kind \in kinds
Now == faults[at + 1]
Done == at' = at + 1
Kept == UNCHANGED <<rules, stage, original, faults, decision>>

Delay ==
  /\ \E st \in {"request", "response"} : Running(st, {"Delay"})
  /\ waited' = waited + Now.ms /\ Done
  /\ Kept /\ UNCHANGED <<message, schedule, outcome>>

\* These end a request at once.
EndRequest ==
  /\ Running("request", {"Disconnect", "Mock", "RejectTls"})
  /\ IF Now.kind = "Mock"
     THEN /\ outcome' = "mocked"
          /\ message' = [Plain(Text("mock", 1)) EXCEPT !.status = Now.status]
     ELSE /\ outcome' = IF Now.kind = "Disconnect" THEN "disconnected" ELSE "rejected"
          /\ UNCHANGED message
  /\ Done /\ Kept /\ UNCHANGED <<waited, schedule>>

\* Every other action is left to send, or to nobody.
Skip ==
  /\ outcome = "running" /\ stage = "request" /\ at < Len(faults)
  /\ Now.kind \notin {"Delay", "Disconnect", "Mock", "RejectTls"}
  /\ Done /\ Kept /\ UNCHANGED <<message, waited, schedule, outcome>>

Has(kind) == \E i \in DOMAIN faults : faults[i].kind = kind
DropMode(read) == \E i \in DOMAIN faults : faults[i].kind = "DropResponse" /\ faults[i].read = read

LastOfFault(kind) ==
  LET found == {i \in DOMAIN faults : faults[i].kind = kind}
  IN IF found = {} THEN Null ELSE faults[CHOOSE i \in found : \A j \in found : i <= j]

\* traffic_schedule: the last of a kind wins.
LastOf(kind) ==
  LET found == {i \in DOMAIN faults : faults[i].kind = kind}
  IN IF found = {} THEN Null ELSE faults[CHOOSE i \in found : \A j \in found : j <= i]

UploadSchedule ==
  [jitter |-> LastOf("Jitter"), throttle |-> LastOf("Throttle"),
   gaps |-> LastOf("Intermittent"), cut |-> LastOf("CutUpload")]

\* The order of the stages in send: connect, write, the cut, the read.
Send ==
  /\ outcome = "running" /\ stage = "request" /\ at = Len(faults)
  /\ outcome' = CASE Has("ConnectTimeout") -> "connect timeout"
                  [] ~ Has("ConnectTimeout") /\ Has("WriteTimeout") -> "write timeout"
                  [] ~ Has("WriteTimeout") /\ Has("CutUpload") ->
                       IF LastOf("CutUpload").n >= message.body.len
                       THEN "CONFIG_INVALID" ELSE "upload cut"
                  [] DropMode(FALSE) -> "not read"
                  [] ~ DropMode(FALSE) /\ Has("ReadTimeout") -> "read timeout"
                  [] ~ DropMode(FALSE) /\ DropMode(TRUE) -> "answer dropped"
                  [] OTHER -> "forwarded"
  /\ schedule' = IF Has("ConnectTimeout") \/ Has("WriteTimeout") \/ DropMode(FALSE)
                    \/ Has("ReadTimeout")
                 THEN schedule ELSE UploadSchedule
  /\ Kept /\ UNCHANGED <<message, at, waited>>

DropAnswer ==
  /\ Running("response", {"DropResponse"})
  /\ outcome' = "answer dropped" /\ Done
  /\ Kept /\ UNCHANGED <<message, waited, schedule>>

ReplaceBody ==
  /\ Running("response", {"InvalidJson"})
  /\ message' = [body |-> Text("bad", 1), status |-> message.status, declared |-> 1]
  /\ Done /\ Kept /\ UNCHANGED <<waited, schedule, outcome>>

OffsetLength ==
  /\ Running("response", {"WrongLength"})
  /\ IF message.body.len + Now.delta < 0
     THEN outcome' = "CONFIG_INVALID" /\ UNCHANGED message
     ELSE message' = [message EXCEPT !.declared = message.body.len + Now.delta] /\ UNCHANGED outcome
  /\ Done /\ Kept /\ UNCHANGED <<waited, schedule>>

Truncate ==
  /\ Running("response", {"Truncate"})
  /\ outcome' = IF Now.n >= message.body.len THEN "CONFIG_INVALID" ELSE "truncated"
  /\ Done /\ Kept /\ UNCHANGED <<message, waited, schedule>>

Restate ==
  /\ Running("response", {"CustomStatus", "Mock"})
  /\ message' = IF Now.kind = "Mock"
                THEN [Plain(Text("mock", 1)) EXCEPT !.status = Now.status]
                ELSE [body |-> message.body, status |-> Now.status, declared |-> message.body.len]
  /\ Done /\ Kept /\ UNCHANGED <<waited, schedule, outcome>>

\* A fault of a request in a response fails.
Foreign == {"RejectTls"} \cup (RequestEnds \ {"DropResponse", "Mock"})
Misplaced(f) ==
  \/ f.kind \in Foreign
  \/ f.kind \in {"Throttle", "Intermittent"} /\ f.dir = "up"

Shape ==
  /\ Running("response", {"Jitter", "Throttle", "Intermittent", "CutDownload"} \cup Foreign)
  /\ IF Misplaced(Now)
     THEN outcome' = "CONFIG_INVALID" /\ UNCHANGED schedule
     ELSE /\ schedule' = CASE Now.kind = "Jitter" -> [schedule EXCEPT !.jitter = Now]
                          [] Now.kind = "Throttle" -> [schedule EXCEPT !.throttle = Now]
                          [] Now.kind = "Intermittent" -> [schedule EXCEPT !.gaps = Now]
                          [] OTHER -> [schedule EXCEPT !.cut = Now]
          /\ UNCHANGED outcome
  /\ Done /\ Kept /\ UNCHANGED <<message, waited>>

Respond ==
  /\ outcome = "running" /\ stage = "response" /\ at = Len(faults)
  /\ outcome' = CASE schedule.cut = Null -> "sent"
                  [] schedule.cut # Null ->
                       IF schedule.cut.n >= message.body.len THEN "CONFIG_INVALID" ELSE "sent and cut"
  /\ Kept /\ UNCHANGED <<message, at, waited, schedule>>

Execute ==
  \/ Delay \/ EndRequest \/ Skip \/ Send
  \/ DropAnswer \/ ReplaceBody \/ OffsetLength \/ Truncate \/ Shape \/ Restate \/ Respond

EffectsNext == Save \/ Configure \/ Arrive \/ Handshake \/ Decide \/ Execute

EffectsSpec == EffectsInit /\ [][EffectsNext]_effects

-----------------------------------------------------------------------------
(* Properties. *)

Settled == outcome \notin {"rules", "paused", "running"}

\* An offset that the body that arrived is too short for.
TooFar ==
  \E i \in DOMAIN faults :
    \/ faults[i].kind \in {"Truncate", "CutUpload", "CutDownload"}
       /\ faults[i].n >= message.body.len
    \/ faults[i].kind = "WrongLength" /\ message.body.len + faults[i].delta < 0

\* A rule that was accepted, from the editor or from a template, runs: nothing it asks
\* for is refused by the transport, unless the body is too short for its offset; and
\* every template is accepted as its form first shows it.
AcceptedRulesRun ==
  /\ outcome = "CONFIG_INVALID" => TooFar
  /\ \A t \in Defaults \cup ShapingDefaults :
       Valid([stage |-> t.stage, acts |-> <<t.act>>, byMessage |-> FALSE])

Delays == Sum([i \in DOMAIN faults |-> IF faults[i].kind = "Delay" THEN faults[i].ms ELSE 0])

ByRules == IF decision = Null \/ decision.kind \in {"ForwardOriginal", "ForwardModified"}
           THEN faults ELSE Front(faults)

\* A decision that was accepted is what becomes of the message, whatever edits, delays
\* and shaping the rules had composed before it, unless a rule ends the message itself.
DecisionTakesEffect ==
  Settled /\ decision # Null /\ (\A i \in DOMAIN ByRules : ByRules[i].kind \notin Terminals) =>
    CASE decision.kind = "ForwardOriginal" -> message.body = original.body
      [] decision.kind = "ForwardModified" -> message.body.id = "user"
      [] decision.kind = "Mock" -> outcome = "mocked" /\ message.status = decision.status
      [] decision.kind = "Delay" -> waited = Delays
      [] decision.kind = "Disconnect" -> outcome = "disconnected"
      [] decision.kind = "CustomStatus" -> message.status = decision.status
      [] decision.kind = "InvalidJson" -> message.body.id = "bad"
      [] decision.kind = "WrongLength" ->
           IF message.body.len + decision.delta < 0 THEN outcome = "CONFIG_INVALID"
           ELSE message.declared = message.body.len + decision.delta
      [] decision.kind = "Truncate" -> outcome = "truncated"
      [] decision.kind = "DropResponse" -> outcome = "answer dropped"

EndOf(kind) ==
  CASE kind = "Disconnect" -> {"disconnected"} [] kind = "Mock" -> {"mocked"}
    [] kind = "ConnectTimeout" -> {"connect timeout"} [] kind = "WriteTimeout" -> {"write timeout"}
    [] kind = "ReadTimeout" -> {"read timeout"} [] kind = "CutUpload" -> {"upload cut"}
    [] kind = "DropResponse" -> {"not read", "answer dropped"}
    [] kind = "Truncate" -> {"truncated"} [] kind = "CutDownload" -> {"sent and cut"}
    [] kind = "RejectTls" -> {"rejected"}

\* No byte of the body was sent on, or (the last two) a request was written at once,
\* unshaped, because its answer is not wanted.
Unshaped ==
  \/ outcome \in {"disconnected", "mocked", "connect timeout", "write timeout"}
  \/ outcome = "answer dropped" /\ stage = "response"
  \/ outcome \in {"not read", "read timeout"}

Superseded(i) == \E j \in DOMAIN faults : j > i /\ faults[j].kind = faults[i].kind

\* Whatever the rules compose without a user is carried out: every delay is slept, every
\* kind of shaping is the last one composed, and the terminal action is how the message
\* ends.
NothingLost ==
  Settled /\ decision = Null /\ outcome \notin {"CONFIG_INVALID", "unfit body"} =>
    \A i \in DOMAIN faults : LET f == faults[i] IN
      CASE f.kind = "Delay" -> waited = Delays
        [] f.kind = "Jitter" -> Unshaped \/ Superseded(i) \/ schedule.jitter = f
        [] f.kind = "Throttle" -> Unshaped \/ Superseded(i) \/ schedule.throttle = f
        [] f.kind = "Intermittent" -> Unshaped \/ Superseded(i) \/ schedule.gaps = f
        [] f.kind = "CustomStatus" -> Superseded(i) \/ message.status = f.status
        [] f.kind = "InvalidJson" -> message.body.id = "bad"
        [] f.kind = "WrongLength" -> message.declared = message.body.len + f.delta
        [] OTHER -> outcome \in EndOf(f.kind)
=============================================================================
