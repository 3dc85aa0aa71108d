-------------------------------- MODULE Headers --------------------------------
(***************************************************************************)
(* The headers and the length of one message from the wire to the wire:     *)
(* captured as raw bytes (message.rs), changed by rules (rule_actions.rs),  *)
(* shown at a breakpoint as a map from names to values, edited there,       *)
(* checked (breakpoint_validation.rs), merged back into the raw headers     *)
(* (message_projection.rs) and prepared for the next hop (message.rs for a  *)
(* request, response_from_disposition for a response).                      *)
(*                                                                         *)
(* A name is <<key, spelling>>: names with one key differ only in case, and *)
(* spelling 1 is the capitalised one.  A raw header also has the white      *)
(* space around its value.  A body is its length.                           *)
(***************************************************************************)
EXTENDS Integers, Sequences, FiniteSets, SequencesExt

CONSTANTS Captured,    (* the messages that may arrive: [dir, headers, body]  *)
          MaxHeaders,  (* MessageLimits::max_headers                          *)
          KeyOrder,    (* the keys of all names, in alphabetical order        *)
          UpstreamHost, Close, (* the values of Host and Connection           *)
          Opaque,      (* the values that are no UTF-8                        *)
          Lossy,       (* what they are shown as                              *)
          Texts,       (* the lengths of the bodies a rule or a user writes   *)
          Names,       (* the names a rule or a user writes                   *)
          Entries,     (* the lists of values a user gives a name             *)
          MaxEdits,    (* bound: edits at the breakpoint                      *)
          Absent

VARIABLES phase,    (* "wire", "rules", "paused", "ready", "sent", "refused"  *)
          original, (* the message as captured                                *)
          message,  (* as it stands                                           *)
          draft,    (* the edited view: [raw, fields, text, bytes]            *)
          edits,    (* how many edits were made                               *)
          ruled,    (* a rule changed the message                             *)
          choice    (* Absent, "original" or "modified"                       *)

vars == <<phase, original, message, draft, edits, ruled, choice>>

HopByHop == {"connection", "keep-alive", "proxy-authenticate", "proxy-authorization",
             "te", "trailer", "transfer-encoding", "upgrade"}

\* validate_header: what a rule may not set.
Managed == {"content-length", "transfer-encoding", "connection", "proxy-connection",
            "keep-alive", "upgrade", "te", "trailer"}

Header(name, value) == [name |-> name, value |-> value, ows |-> "space"]
Key(h) == h.name[1]
Shown(v) == IF v \in Opaque THEN Lossy ELSE v
Rank(k) == CHOOSE i \in DOMAIN KeyOrder : KeyOrder[i] = k

Without(hs, keys) == SelectSeq(hs, LAMBDA h : Key(h) \notin keys)
Only(hs, keys) == SelectSeq(hs, LAMBDA h : Key(h) \in keys)
KeysOf(hs) == {Key(h) : h \in ToSet(hs)}

\* The values under a key, as the breakpoint shows them.
ValuesOf(hs, k) == [i \in 1 .. Len(Only(hs, {k})) |-> Shown(Only(hs, {k})[i].value)]

\* A Content-Length in another spelling stays where it is.
SetLengthFault(hs, n) ==
  Append(SelectSeq(hs, LAMBDA h : h.name # <<"content-length", 1>>),
         Header(<<"content-length", 1>>, n))

\* remove_header, then one new line at the end.
SetLength(hs, n) ==
  Append(Without(hs, {"content-length"}), Header(<<"content-length", 1>>, n))

\* The first Content-Length, whatever its spelling.
Declared(hs) ==
  LET all == Only(hs, {"content-length"})
  IN  IF all = <<>> THEN Absent ELSE all[1].value

-----------------------------------------------------------------------------
(* The breakpoint's view, and back. *)

\* The first spelling of a key is the one shown.
Display(hs) ==
  LET firsts == {Only(hs, {k})[1].name : k \in KeysOf(hs)}
  IN  [n \in firsts |-> ValuesOf(hs, n[1])]

\* A BTreeMap of the lower-cased names: of two spellings the last one remains.
Grouped(fields) ==
  LET spelling(k) == CHOOSE n \in DOMAIN fields :
                       n[1] = k /\ \A m \in DOMAIN fields : m[1] = k => m[2] <= n[2]
  IN  [k \in {n[1] : n \in DOMAIN fields} |->
         [name |-> spelling(k), values |-> fields[spelling(k)]]]

Lines(name, values) == [i \in 1 .. Len(values) |-> Header(name, values[i])]

\* Names in the order of their bytes: capitals come first.
ByName(m, n) == m[2] < n[2] \/ (m[2] = n[2] /\ Rank(m[1]) < Rank(n[1]))
ByKey(j, k) == Rank(j) < Rank(k)

\* The edited lines of a name come once for each line it had.
MergedFault(raw, fields) ==
  LET old == Grouped(Display(raw))
      new == Grouped(fields)
      piece(i) ==
        LET k == Key(raw[i])
        IN  IF k \notin DOMAIN new THEN <<>>
            ELSE IF new[k].values = old[k].values THEN <<raw[i]>>
            ELSE Lines(new[k].name, new[k].values)
      added == SetToSortSeq(DOMAIN new \ DOMAIN old, ByKey)
  IN  FlattenSeq([i \in 1 .. Len(raw) |-> piece(i)])
        \o FlattenSeq([i \in 1 .. Len(added) |-> Lines(new[added[i]].name, new[added[i]].values)])

\* merge_edited_headers: a name with its old values keeps its raw lines, an edited
\* one takes the place of its first line, a new one comes last.
Merged(raw, fields) ==
  LET old == Grouped(Display(raw))
      new == Grouped(fields)
      kept(k) == k \in DOMAIN new /\ new[k].values = old[k].values
      first(i) == \A j \in 1 .. i - 1 : Key(raw[j]) # Key(raw[i])
      piece(i) ==
        LET k == Key(raw[i])
        IN  IF kept(k) THEN <<raw[i]>>
            ELSE IF first(i) /\ k \in DOMAIN new THEN Lines(new[k].name, new[k].values)
            ELSE <<>>
      added == SetToSortSeq(DOMAIN new \ DOMAIN old, ByKey)
      names == SetToSortSeq(DOMAIN fields, ByName)
  IN  IF raw = <<>>
      THEN FlattenSeq([i \in 1 .. Len(names) |-> Lines(names[i], fields[names[i]])])
      ELSE FlattenSeq([i \in 1 .. Len(raw) |-> piece(i)])
             \o FlattenSeq([i \in 1 .. Len(added) |->
                              Lines(new[added[i]].name, new[added[i]].values)])

LengthNames(fields) == {n \in DOMAIN fields : n[1] = "content-length"}

ValidFields(fields) ==
  /\ \A n \in DOMAIN fields : fields[n] # <<>>
  /\ Cardinality(LengthNames(fields)) <= 1
  /\ \A n \in LengthNames(fields) : Len(fields[n]) = 1 /\ fields[n][1] \in Nat

\* set_content_length on the view: it keeps the first spelling it finds.
WithLength(fields, len) ==
  LET found == LengthNames(fields)
      name == IF found = {} THEN <<"content-length", 2>>
              ELSE CHOOSE n \in found : \A m \in found : n = m \/ ByName(n, m)
  IN  [n \in (DOMAIN fields \ found) \cup {name} |-> IF n = name THEN <<len>> ELSE fields[n]]

\* normalize_message: the bytes are the text, encoded.
Normalized(d) == [d EXCEPT !.bytes = d.text, !.fields = WithLength(d.fields, d.text)]

Acceptable(d) == ValidFields(d.fields) /\ Normalized(d) = d

-----------------------------------------------------------------------------
(* The two ends. *)

\* normalize_for_forward, of a request.
Forwarded(hs, len, rewrite) ==
  LET host == IF rewrite
              THEN Append(Without(hs, HopByHop \cup {"host"}), Header(<<"host", 1>>, UpstreamHost))
              ELSE Without(hs, HopByHop)
  IN  SetLength(Append(host, Header(<<"connection", 1>>, Close)), len)

\* response_from_disposition, of a response no fault touches.
Answered(hs, len) ==
  LET closed == Append(Without(hs, {"connection"}), Header(<<"connection", 1>>, Close))
  IN  IF Declared(closed) = Absent THEN SetLength(closed, len) ELSE closed

Init ==
  /\ phase = "wire" /\ original = Absent /\ message = Absent /\ draft = Absent
  /\ edits = 0 /\ ruled = FALSE /\ choice = Absent

\* validate: a message beyond the limits goes no further.
Receive ==
  /\ phase = "wire"
  /\ \E m \in Captured :
       /\ phase' = IF Len(m.headers) <= MaxHeaders THEN "rules" ELSE "refused"
       /\ original' = m /\ message' = m
  /\ UNCHANGED <<draft, edits, ruled, choice>>

\* SetHeader; the headers the proxy manages are refused when a rule is saved.
RuleHeader ==
  /\ phase = "rules" /\ ~ruled
  /\ \E n \in Names, v \in UNION {ToSet(e) : e \in Entries} :
       /\ n[1] \notin Managed
       /\ message' = [message EXCEPT !.headers =
                        Append(Without(message.headers, {n[1]}), Header(n, v))]
  /\ ruled' = TRUE
  /\ UNCHANGED <<phase, original, draft, edits, choice>>

\* ReplaceBodyText and SetJsonField, with the length set at the end.
RuleBody ==
  /\ phase = "rules" /\ ~ruled
  /\ \E len \in Texts :
       message' = [message EXCEPT !.headers = SetLength(message.headers, len), !.body = len]
  /\ ruled' = TRUE
  /\ UNCHANGED <<phase, original, draft, edits, choice>>

Pause ==
  /\ phase = "rules"
  /\ phase' = "paused"
  /\ draft' = [raw |-> message.headers, fields |-> Display(message.headers),
               text |-> message.body, bytes |-> message.body]
  /\ UNCHANGED <<original, message, edits, ruled, choice>>

\* The user gives a name its values; an empty list removes the name.
EditHeader ==
  /\ phase = "paused" /\ edits < MaxEdits
  /\ \E n \in Names, vs \in Entries \cup {<<>>} :
       LET rest == DOMAIN draft.fields \ {n}
           names == IF vs = <<>> THEN rest ELSE rest \cup {n}
       IN  draft' = [draft EXCEPT !.fields =
                       [m \in names |-> IF m = n THEN vs ELSE draft.fields[m]]]
  /\ edits' = edits + 1
  /\ UNCHANGED <<phase, original, message, ruled, choice>>

EditText ==
  /\ phase = "paused" /\ edits < MaxEdits
  /\ \E len \in Texts : draft' = [draft EXCEPT !.text = len]
  /\ edits' = edits + 1
  /\ UNCHANGED <<phase, original, message, ruled, choice>>

\* format_json: checks the fields, encodes the text, sets the length.
Format ==
  /\ phase = "paused" /\ ValidFields(draft.fields)
  /\ draft' = Normalized(draft)
  /\ UNCHANGED <<phase, original, message, edits, ruled, choice>>

ForwardModified ==
  /\ phase = "paused" /\ Acceptable(draft)
  /\ message' = [message EXCEPT !.headers = Merged(draft.raw, draft.fields), !.body = draft.bytes]
  /\ phase' = "ready" /\ choice' = "modified"
  /\ UNCHANGED <<original, draft, edits, ruled>>

ForwardOriginal ==
  /\ phase = "paused"
  /\ message' = original
  /\ phase' = "ready" /\ choice' = "original"
  /\ UNCHANGED <<original, draft, edits, ruled>>

Send ==
  /\ phase \in {"rules", "ready"}
  /\ \/ /\ message.dir = "request"
        /\ \E rewrite \in BOOLEAN :
             message' = [message EXCEPT !.headers =
                           Forwarded(message.headers, message.body, rewrite)]
     \/ /\ message.dir = "response"
        /\ message' = [message EXCEPT !.headers = Answered(message.headers, message.body)]
  /\ phase' = "sent"
  /\ UNCHANGED <<original, draft, edits, ruled, choice>>

Next ==
  \/ Receive \/ RuleHeader \/ RuleBody \/ Pause \/ EditHeader \/ EditText \/ Format
  \/ ForwardModified \/ ForwardOriginal \/ Send

Spec == Init /\ [][Next]_vars

-----------------------------------------------------------------------------

\* No other name of the draft differs from n only in case.
Alone(fields, n) == \A m \in DOMAIN fields : m[1] = n[1] => m = n

(* What a user accepts is what goes on: every name of the draft has exactly the *)
(* values the draft gives it, a name the user removed is gone, the body is the  *)
(* text as edited, and the headers whose values the user left alone keep their  *)
(* bytes, spelling, white space and order.                                      *)
EditsAreExact ==
  phase = "ready" /\ choice = "modified" =>
    LET shown == Display(draft.raw)
        left == {n[1] : n \in {m \in DOMAIN shown : m \in DOMAIN draft.fields
                                 /\ draft.fields[m] = shown[m] /\ Alone(draft.fields, m)}}
    IN  /\ \A n \in DOMAIN draft.fields :
             Alone(draft.fields, n) => ValuesOf(message.headers, n[1]) = draft.fields[n]
        /\ KeysOf(message.headers) = {n[1] : n \in DOMAIN draft.fields}
        /\ Only(message.headers, left) = Only(draft.raw, left)
        /\ message.body = draft.text

\* The lines the proxy writes itself.
Rewritten ==
  IF original.dir = "request" THEN HopByHop \cup {"host", "content-length"}
  ELSE {"connection"} \cup (IF Declared(original.headers) = Absent THEN {"content-length"} ELSE {})

\* The keys of the message that was chosen: as it came, or as a user accepted it.
Chosen == IF choice = "modified" THEN {n[1] : n \in DOMAIN draft.fields}
          ELSE KeysOf(original.headers)

(* However a message was changed on its way, the length it goes out with is the *)
(* length of its body, declared once, and it says once that the connection      *)
(* closes.  For a request that is the only framing: no header of the hop it     *)
(* came from is left.  A response has a second framing, in contradiction to the *)
(* first, exactly when it came in chunks or a user wrote it in, and no change   *)
(* of its headers or its body on the way adds or removes it otherwise.  A       *)
(* message nobody changed, or whose changes a user undid, goes out with the     *)
(* very lines it came with but for those the proxy writes; a response keeps its *)
(* own Content-Length.                                                          *)
SentAsDeclared ==
  phase = "sent" =>
    /\ Len(Only(message.headers, {"content-length"})) = 1
    /\ Declared(message.headers) = message.body
    /\ ValuesOf(message.headers, "connection") = <<Close>>
    /\ message.dir = "request" =>
         KeysOf(message.headers) \cap (HopByHop \ {"connection"}) = {}
    /\ message.dir = "response" =>
         ("transfer-encoding" \in KeysOf(message.headers) <=> "transfer-encoding" \in Chosen)
    /\ choice = "original" \/ (choice = Absent /\ ~ruled) =>
         /\ message.body = original.body
         /\ Without(message.headers, Rewritten) = Without(original.headers, Rewritten)

(* MESSAGE-005: no header of one hop reaches the next.  Responses keep theirs:  *)
(* one that came in chunks goes out with Transfer-Encoding and Content-Length,  *)
(* over a body that is not in chunks.                                           *)
HopEnds ==
  phase = "sent" => KeysOf(message.headers) \cap (HopByHop \ {"connection"}) = {}

(* No value of an accepted draft is lost.  Two spellings of a name lose one. *)
NothingDropped ==
  phase = "ready" /\ choice = "modified" =>
    \A n \in DOMAIN draft.fields : \A i \in DOMAIN draft.fields[n] :
      Contains(ValuesOf(message.headers, n[1]), draft.fields[n][i])
=============================================================================
