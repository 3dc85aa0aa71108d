------------------------------- MODULE MCMessages -------------------------------
(***************************************************************************)
(* One run for the two models of a message: Effects (rules, faults and the *)
(* decision at a breakpoint) and Headers (its lines and its length).  They *)
(* share no state: whichever moves first moves alone.                      *)
(***************************************************************************)
EXTENDS Effects

CONSTANTS v1, b1, b2, app, chunked, Lossy, UpstreamHost, Close

VARIABLES hPhase, hOriginal, hMessage, hDraft, hEdits, hRuled, hChoice
lines == <<hPhase, hOriginal, hMessage, hDraft, hEdits, hRuled, hChoice>>

Line(key, spelling, value) == [name |-> <<key, spelling>>, value |-> value, ows |-> "space"]

\* Ordinary headers: one name in two spellings, another between them, bytes that
\* are no UTF-8, white space that is not one blank.
x == Line("x", 1, v1)
y == Line("y", 1, b2)
Respelled == [Line("x", 2, v1) EXCEPT !.ows = "tab"]
Ordinary == {<<>>, <<x, Respelled>>, <<Line("x", 2, b1), x>>, <<y, x>>, <<x, y, Respelled>>}

ByLength == Line("content-length", 1, 1)
ByLengthInLowerCase == Line("content-length", 2, 1)
ByChunks == Line("transfer-encoding", 1, chunked)

KeepAlive == Line("connection", 2, v1)

\* A request has a Host and is framed by a length or by chunks, a response may be
\* framed by the end of the connection, and says how it takes leave.
OnTheWire ==
  {[dir |-> "request", headers |-> <<Line("host", 1, app)>> \o l \o <<f>>, body |-> 1] :
     l \in Ordinary, f \in {ByLengthInLowerCase, ByChunks}}
  \cup {[dir |-> "response", headers |-> f \o l, body |-> 1] :
           l \in Ordinary, f \in {<<>>, <<ByLength>>, <<ByChunks>>, <<KeepAlive, ByChunks>>,
                                 <<KeepAlive, ByLengthInLowerCase>>}}

H == INSTANCE Headers WITH
  Captured <- OnTheWire, MaxHeaders <- 4, Opaque <- {b1, b2}, Absent <- Null,
  KeyOrder <- <<"connection", "content-length", "host", "transfer-encoding", "x", "y", "z">>,
  Texts <- {0, 2},
  Names <- {<<"x", 1>>, <<"x", 2>>, <<"z", 2>>, <<"content-length", 1>>,
            <<"transfer-encoding", 1>>},
  Entries <- {<<1>>, <<2, v1>>}, MaxEdits <- 2,
  phase <- hPhase, original <- hOriginal, message <- hMessage, draft <- hDraft,
  edits <- hEdits, ruled <- hRuled, choice <- hChoice

MessagesInit == EffectsInit /\ H!Init

MessagesNext ==
  \/ hPhase = "wire" /\ EffectsNext /\ UNCHANGED lines
  \/ outcome = "rules" /\ rules = <<>> /\ H!Next /\ UNCHANGED effects

MessagesSpec == MessagesInit /\ [][MessagesNext]_<<effects, lines>>

\* The properties of Headers, stated there.
EditsAreExact == H!EditsAreExact
SentAsDeclared == H!SentAsDeclared
HopEnds == H!HopEnds
NothingDropped == H!NothingDropped

-----------------------------------------------------------------------------

Jitter(min, max) == [kind |-> "Jitter", min |-> min, max |-> max, each |-> TRUE]
Throttle(rate, dir) == [kind |-> "Throttle", rate |-> rate, chunk |-> 1, dir |-> dir]
Gaps(on, off, dir) == [kind |-> "Intermittent", on |-> on, off |-> off, dir |-> dir]

\* What the rule editor may send: one or two of each kind, in range and out of it.
Editor ==
  {[kind |-> "SetJson", path |-> p] : p \in {"good", "bad"}}
  \cup {[kind |-> "ReplaceBody", len |-> 1], [kind |-> "Pause"], [kind |-> "RejectTls"]}
  \cup {[kind |-> "SetHeader", managed |-> b] : b \in BOOLEAN}
  \cup {[kind |-> "Delay", ms |-> n] : n \in {1, 600000}}
  \cup {Jitter(2, 1), Jitter(0, 600000)}
  \cup {Throttle(r, d) : r \in {0, 1}, d \in {"up", "down"}}
  \cup {Gaps(1, n, d) : n \in {0, 1}, d \in {"up", "down"}}
  \cup {[kind |-> "CustomStatus", status |-> n] : n \in {99, 404}}
  \cup {[kind |-> "Disconnect"], [kind |-> "Mock", status |-> 500], [kind |-> "InvalidJson"]}
  \cup {[kind |-> k, ms |-> 1] : k \in {"ConnectTimeout", "WriteTimeout", "ReadTimeout"}}
  \cup {[kind |-> "DropResponse", read |-> b] : b \in BOOLEAN}
  \cup {[kind |-> "WrongLength", delta |-> n] : n \in {0, 1}}
  \cup {[kind |-> k, n |-> 1] : k \in {"Truncate", "CutUpload", "CutDownload"}}

FormNumbers == {-1, 200}

Arriving == {[id |-> "app", len |-> 2, json |-> "yes"], [id |-> "app", len |-> 0, json |-> "no"],
             [id |-> "app", len |-> 2, json |-> "bare"]}

UserChoices ==
  {[kind |-> "ForwardOriginal"], [kind |-> "Disconnect"], [kind |-> "InvalidJson"],
   [kind |-> "DropResponse", read |-> FALSE]}
  \cup {[kind |-> "ForwardModified", normal |-> b, len |-> 1] : b \in BOOLEAN}
  \cup {[kind |-> "Mock", normal |-> TRUE, status |-> 200]}
  \cup {[kind |-> "Delay", ms |-> n] : n \in {0, 1, 600000, 600001}}
  \cup {[kind |-> "CustomStatus", status |-> n] : n \in {200, 600}}
  \cup {[kind |-> "WrongLength", delta |-> n] : n \in {0, -1, 1}}
  \cup {[kind |-> "Truncate", n |-> n] : n \in 0 .. 2}
=============================================================================
