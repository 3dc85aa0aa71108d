--------------------------------- MODULE MCHost ---------------------------------
(***************************************************************************)
(* Three small models in one run: Startup, the settings and identities with *)
(* which a start succeeds; Status, the page about the runtime it started;   *)
(* Wire, a body on its way to a peer.  They share no state: a behaviour is  *)
(* one of theirs.                                                           *)
(***************************************************************************)
EXTENDS Startup, Status, Wire

VARIABLE part     (* the model a behaviour is one of                           *)

-----------------------------------------------------------------------------
(* Certificates: a root, a CA below it, another authority. *)

Cert(id, subject, issuer, key, signer, ca, usage, extended) ==
  [id |-> id, subject |-> subject, issuer |-> issuer, key |-> key, signer |-> signer,
   ca |-> ca, usage |-> usage, extended |-> extended, valid |-> TRUE]

Unsaid == {"unstated"}
Root == Cert("root", "r", "r", "kr", "kr", "yes", {"certs"}, Unsaid)
OldRoot == Cert("old", "o", "o", "ko", "ko", "none", Unsaid, Unsaid)
Middle == Cert("middle", "m", "r", "km", "kr", "yes", {"certs"}, Unsaid)
App(id, issuer, signer) == Cert(id, "a", issuer, "ka", signer, "no", {"sign"}, {"client"})

Identity(l, k, c) == [leaf |-> l, key |-> k, chain |-> c]
Good == Identity(App("app", "m", "km"), "ka", <<Middle, Root>>)
GoodOld == Identity(App("appOld", "o", "ko"), "ka", <<OldRoot>>)
Chosen ==
  {Good, GoodOld,
   Identity(App("app", "m", "km"), "kx", <<Middle, Root>>),
   Identity(App("app", "m", "km"), "ka", <<Root>>),
   Identity(App("app", "m", "km"), "ka", <<>>),
   Identity([App("app", "m", "km") EXCEPT !.extended = {"server"}], "ka", <<Middle, Root>>),
   Identity([App("app", "m", "km") EXCEPT !.valid = FALSE], "ka", <<Middle, Root>>),
   Identity(App("app", "m", "km"), "ka", <<[Middle EXCEPT !.ca = "no"], Root>>),
   Identity(App("app", "m", "km"), "ka", <<[Middle EXCEPT !.usage = {"sign"}], Root>>)}
Presented == {Good, GoodOld, Identity(App("sister", "m", "km"), "ks", <<Middle>>),
              Identity(App("sisterOld", "o", "ko"), "ks", <<>>)}

-----------------------------------------------------------------------------
(* Drafts: a valid one, and what a page can get wrong about it. *)

A(content) == <<content, "plain">>
Url == [scheme |-> "https", pad |-> FALSE, user |-> FALSE, host |-> "dns", port |-> "none",
        tail |-> ""]
ChannelOf(id, port, enabled) ==
  [id |-> id, name |-> A(id), enabled |-> enabled, port |-> port, url |-> Url]
One == ChannelOf("one", 1, TRUE)
Two == ChannelOf("two", 2, FALSE)
Product == [bind |-> A("any"), channels |-> <<One, Two>>, timeout |-> 1, body |-> 1,
            sessions |-> 1, memory |-> 1, sans |-> {}]
Named == [Product EXCEPT !.sans = {A("lan1")}]

Urls ==
  {[Url EXCEPT !.scheme = "http"], [Url EXCEPT !.pad = TRUE], [Url EXCEPT !.user = TRUE]}
  \cup {[Url EXCEPT !.host = h] : h \in {"", "ip", "v6", "[v6]", "odd", "gone"}}
  \cup {[Url EXCEPT !.port = p] : p \in {"some", "zero", "junk"}}
  \cup {[Url EXCEPT !.tail = t] : t \in {"/", "/path", "?query", "#fragment"}}

Lists ==
  {<<[One EXCEPT !.url = u], Two>> : u \in Urls}
  \cup {<<One, [Two EXCEPT !.url = u]>> : u \in {[Url EXCEPT !.host = ""]}}
  \cup {<<[One EXCEPT !.name = n], Two>> : n \in {<<"one", "padded">>, A("other"), A("")}}
  \cup {<<[One EXCEPT !.port = p], [Two EXCEPT !.enabled = b]>> : p \in 0 .. 2, b \in BOOLEAN}
  \cup {<<One>>, <<>>, <<One, One>>, <<One, Two, Two>>, <<Two, [One EXCEPT !.enabled = FALSE]>>,
        <<One, Two, ChannelOf("alien", 3, FALSE)>>}

Binds == {A("any"), <<"any", "padded">>, A("lan1"), A("v6"), <<"v6", "upper">>,
          <<"v6", "long">>, A("junk"), A("")}
SanLists == {{}, {<<"lan1", "padded">>, A("")}, {<<"v6", "upper">>},
             {<<"v6", "long">>}, {A("lan1"), <<"name", "upper">>}}

Drafted ==
  {[Named EXCEPT !.channels = l] : l \in Lists}
  \cup {[Named EXCEPT !.bind = b, !.sans = s] : b \in Binds, s \in SanLists}
  \cup {[Named EXCEPT !.timeout = n] : n \in {0, 2, 3}}
  \cup {[Named EXCEPT !.body = n] : n \in {0, 2, 3}}
  \cup {[Named EXCEPT !.sessions = n] : n \in {0, 2, 3}}
  \cup {[Named EXCEPT !.memory = n] : n \in {0, 2}}

Channeled == [id \in {"one", "two"} |-> id]
Certified == {{A("lan1")}, {<<"v6", "long">>, A("name")}, {A("lan2"), A("")}}

-----------------------------------------------------------------------------
(* Bodies of up to three bytes with every combination of jitter, throttle and gaps. *)

Longest == 3
Jitters == {Null} \cup {[min |-> 0, max |-> 1, each |-> e] : e \in BOOLEAN}
                  \cup {[min |-> 1, max |-> 2, each |-> TRUE]}
Throttles == {Null, [rate |-> 1, chunk |-> 1], [rate |-> 3, chunk |-> 2]}
Gaps == {Null, [available |-> 1, blocked |-> 2], [available |-> 2, blocked |-> 1]}

Schedules == [jitter : Jitters, throttle : Throttles, gaps : Gaps]

Message(s, dir, length, claimed, cut, expect) ==
  [jitter |-> s.jitter, throttle |-> s.throttle, gaps |-> s.gaps, dir |-> dir,
   body |-> length, claimed |-> claimed, cut |-> cut, expect |-> expect]

AllPlans ==
  {Message(s, "up", n, n, Null, FALSE) : s \in Schedules, n \in 0 .. Longest}
  \cup {Message(s, "up", Longest, Longest, k, FALSE) : s \in Schedules, k \in 0 .. Longest - 1}
  \cup {Message(s, "down", n, c, Null, e) :
          s \in Schedules, n \in {0, Longest}, c \in {1, Longest, Longest + 1}, e \in BOOLEAN}

-----------------------------------------------------------------------------
ASSUME HostAssumption == StatusAssumption /\ WireAssumption

SomePlan == CHOOSE p \in AllPlans : TRUE

HostInit ==
  /\ part \in {"startup", "status", "wire"}
  /\ StartupInit
  /\ part # "startup" => lan = Null
  /\ StatusInit
  /\ part # "status" => settings = {"one"}
  /\ WireInit
  /\ part # "wire" => plan = SomePlan

HostNext ==
  \/ part = "startup" /\ StartupNext /\ UNCHANGED <<part, statusVars, wireVars>>
  \/ part = "status" /\ StatusNext /\ UNCHANGED <<part, startupVars, wireVars>>
  \/ part = "wire" /\ WireNext /\ UNCHANGED <<part, startupVars, statusVars>>

HostSpec == HostInit /\ [][HostNext]_<<part, startupVars, statusVars, wireVars>>
==================================================================================
