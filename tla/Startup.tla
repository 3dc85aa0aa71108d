-------------------------------- MODULE Startup --------------------------------
(***************************************************************************)
(* From a form to a listener: the settings a user saves are checked four    *)
(* times (facade, domain, adapter, certificates), kept, read back, and     *)
(* checked again by the runtime when the proxy starts, next to the         *)
(* certificates it loads.  The checks overlap and are written separately;  *)
(* between a save and the start the certificates, the host's address and   *)
(* the ports in use change.                                                *)
(*                                                                         *)
(* Texts are pairs <<content, form>>: the form says how it is spelled, as  *)
(* its comparisons see it ("padded" by blanks, "upper" case, "long": an    *)
(* address not written the way a certificate prints it, else "plain").     *)
(* A URL is a record of its parts.  Revisions are in Application, commits  *)
(* and expiry of certificates in Certificates.                             *)
(***************************************************************************)
EXTENDS Trust, Optional, FiniteSets

CONSTANTS Ips, AnyIp,   (* contents that parse as an IP; the wildcard among them *)
          Catalog,    (* the product's channels: id -> display name           *)
          Default,    (* default_settings of the product                      *)
          Forms,      (* the drafts a page may send                           *)
          Issued,     (* the SANs a page may ask a leaf for                   *)
          Files,      (* the identities in the PKCS12 files a user may choose *)
          Clients,    (* the identities clients present at a handshake        *)
          Lans, Ports,(* the host's LAN addresses; ports others may occupy    *)
          Unresolved, (* DNS names without an answer                          *)
          MaxTimeout, MaxBody, MaxU32

VARIABLES stored,     (* the settings row                                     *)
          checked,    (* the leaf its save was checked against, or Null       *)
          leaf,       (* the SANs of the proxy's leaf as it prints them       *)
          identity,   (* the imported PKCS12 identity                         *)
          lan,        (* the LAN address of the host, or Null                 *)
          taken,      (* ports other programs listen on                       *)
          serving     (* settings, identity of the running proxy; or Null     *)

startupVars == <<stored, checked, leaf, identity, lan, taken, serving>>

StartupInit ==
  /\ stored = Default /\ checked = Null
  /\ leaf = Null /\ identity = Null
  /\ lan \in Lans \cup {Null} /\ taken = {}
  /\ serving = Null

-----------------------------------------------------------------------------
(* What the form holds after normalize_settings. *)

Trimmed(text) == IF text[2] = "padded" THEN <<text[1], "plain">> ELSE text
Lowered(text) == IF text[2] \in {"padded", "upper"} THEN <<text[1], "plain">> ELSE text

Normal(d) == [d EXCEPT
  !.bind = Trimmed(@),
  !.channels = [i \in DOMAIN @ |-> [@[i] EXCEPT !.name = Trimmed(@), !.url.pad = FALSE]],
  !.sans = {Lowered(s) : s \in {t \in @ : t[1] # ""}}]

ChannelsOf(d) == {d.channels[i] : i \in DOMAIN d.channels}
Enabled(d) == {c \in ChannelsOf(d) : c.enabled}

DistinctIds(d) ==
  \A i, j \in DOMAIN d.channels : d.channels[i].id = d.channels[j].id => i = j

\* No two enabled channels of the list listen on one port, a free choice (0) aside
\* where the code leaves it to the system.
DistinctPorts(d, free) ==
  \A i, j \in DOMAIN d.channels :
    /\ d.channels[i].enabled /\ d.channels[j].enabled
    /\ d.channels[i].port = d.channels[j].port
    /\ d.channels[i].port \notin free
    => i = j

\* is_valid_https_upstream_url
ValidUrl(u) ==
  /\ u.scheme = "https" /\ ~ u.pad /\ ~ u.user
  /\ u.host \in {"dns", "ip", "[v6]"} \cup Unresolved
  /\ u.port \in {"none", "some"}
  /\ u.tail \in {"", "/"}

\* validate_settings_locally
LocallyValid(d) ==
  /\ Enabled(d) # {}
  /\ DistinctIds(d) /\ DistinctPorts(d, {})
  /\ \A c \in ChannelsOf(d) : c.name[1] # ""
  /\ \A c \in Enabled(d) : ValidUrl(c.url)
  /\ d.bind[1] # ""
  /\ d.timeout \in 1 .. MaxTimeout /\ d.body \in 1 .. MaxBody
  /\ d.sessions >= 1 /\ d.memory >= 1

\* to_domain_settings and Settings::validate: the certificate must name an address
\* the proxy is bound to, letter by letter, unless it listens everywhere.
DomainValid(d) ==
  /\ d.sessions <= MaxU32
  /\ Enabled(d) # {} /\ DistinctIds(d) /\ DistinctPorts(d, {})
  /\ \A c \in Enabled(d) : c.port # 0 /\ ValidUrl(c.url)
  /\ d.timeout # 0 /\ d.body # 0 /\ d.sessions # 0 /\ d.memory # 0
  /\ d.bind[1] \in Ips
  /\ d.bind[1] # AnyIp => d.bind \in d.sans

\* validate_catalog, at a save and at every load: no channel but the product's, all
\* of them, under the names it gives them.
CatalogValid(d) ==
  /\ {c.id : c \in ChannelsOf(d)} = DOMAIN Catalog
  /\ \A c \in ChannelsOf(d) : c.name = <<Catalog[c.id], "plain">>

PortsOf(s) == {c.port : c \in Enabled(s)}
InUse == taken \cup (IF serving = Null THEN {} ELSE PortsOf(serving.settings))

\* The channel listens there already: its own port is not in its way.
Unchanged(d, c) ==
  /\ serving # Null
  /\ serving.settings.bind = d.bind
  /\ \E e \in Enabled(serving.settings) : e.id = c.id /\ e.port = c.port

\* validate_ports
PortsFree(d) == \A c \in Enabled(d) : Unchanged(d, c) \/ c.port \notin InUse

CoversFault(required) == \A s \in required : \E t \in leaf : s[1] = t[1]

\* settings_validate: the leaf names every required address, compared as text.
Covers(required) == required \subseteq leaf

\* settings_validate: with no certificates yet it only warns; after that all of them
\* must be there.
CertificatesFit(d) ==
  \/ leaf = Null
  \/ identity # Null /\ Covers(d.sans)

Accepted(d) ==
  /\ LocallyValid(d) /\ DomainValid(d) /\ CatalogValid(d)
  /\ PortsFree(d) /\ CertificatesFit(d)

-----------------------------------------------------------------------------
(* What the runtime requires. *)

\* load_stored: without SANs of its own it takes the host's address of the moment.
Loaded == IF stored.sans = {} /\ lan # Null
          THEN [stored EXCEPT !.sans = {<<lan, "plain">>}] ELSE stored

\* proxy_config and ProxyConfig::validate
ConfigValid(s) ==
  /\ s.bind[1] \in Ips
  /\ Enabled(s) # {} /\ DistinctIds(s)
  /\ s.timeout # 0 /\ s.body # 0
  /\ DistinctPorts(s, {0})

\* HttpsEndpoint::parse, as http::Uri reads a URL: it takes a port of zero, and a
\* name with labels DNS does not know.
Endpoint(u) ==
  /\ u.scheme = "https" /\ ~ u.pad /\ ~ u.user
  /\ u.host \in {"dns", "ip", "[v6]", "odd"} \cup Unresolved
  /\ u.port \in {"none", "some", "zero"}
  /\ u.tail \in {"", "/"}

Resolves(u) == u.host \notin Unresolved

MaterialsInvalid ==
  ~ (/\ ValidIdentity(identity.leaf, identity.key, identity.chain)
     /\ ValidAnchor(Anchor(identity.leaf, identity.chain)))

\* What start answers for the settings s, in the order it looks at them: the load,
\* proxy_config and validate, the listeners, load_epoch_snapshot, the endpoints.
StartCode(s) ==
  IF ~ CatalogValid(s) THEN "PERSISTENCE_CORRUPT"
  ELSE IF ~ ConfigValid(s) THEN "CONFIG_INVALID"
  ELSE IF PortsOf(s) \cap taken # {} THEN "PORT_IN_USE"
  ELSE IF leaf = Null THEN "CERTIFICATE_NOT_READY"
  ELSE IF ~ s.sans \subseteq leaf THEN "CERTIFICATE_INVALID"
  ELSE IF identity = Null THEN "CERTIFICATE_NOT_READY"
  ELSE IF MaterialsInvalid THEN "CERTIFICATE_INVALID"
  ELSE IF \E c \in Enabled(s) : ~ Endpoint(c.url) \/ ~ Resolves(c.url)
       THEN "CONFIG_INVALID"
  ELSE "ok"

-----------------------------------------------------------------------------
(* The commands, one at a time under mutation_gate. *)

Save(d) ==
  LET n == Normal(d)
  IN  /\ stored' = IF Accepted(n) THEN n ELSE stored
      /\ checked' = IF Accepted(n) THEN leaf ELSE checked
      /\ UNCHANGED <<leaf, identity, lan, taken, serving>>

\* certificate_generate_ca, certificate_reissue_leaf: an address is printed the one
\* way certificates print it, whichever way it was asked for.
Issue(sans) ==
  /\ serving = Null
  /\ leaf' = {<<s[1], "plain">> : s \in {t \in sans : t[1] # ""}}
  /\ leaf' # {}
  /\ UNCHANGED <<stored, checked, identity, lan, taken, serving>>

Import(i) ==
  /\ serving = Null
  /\ identity' = IF ValidIdentity(i.leaf, i.key, i.chain) THEN i ELSE identity
  /\ UNCHANGED <<stored, checked, leaf, lan, taken, serving>>

Start ==
  /\ serving = Null
  /\ serving' = IF StartCode(Loaded) = "ok"
                THEN [settings |-> Loaded, identity |-> identity] ELSE Null
  /\ UNCHANGED <<stored, checked, leaf, identity, lan, taken>>

Stop ==
  /\ serving # Null
  /\ serving' = Null
  /\ UNCHANGED <<stored, checked, leaf, identity, lan, taken>>

\* The host: another network, another program on a port.
Roam(to) ==
  /\ lan' = to /\ lan' # lan
  /\ UNCHANGED <<stored, checked, leaf, identity, taken, serving>>

Occupy(p) ==
  /\ taken' = IF p \in taken THEN taken \ {p} ELSE taken \cup {p}
  /\ serving # Null => p \notin PortsOf(serving.settings)
  /\ UNCHANGED <<stored, checked, leaf, identity, lan, serving>>

StartupNext ==
  \/ \E d \in Forms : Save(d)
  \/ \E sans \in Issued : Issue(sans)
  \/ \E i \in Files : Import(i)
  \/ Start
  \/ Stop
  \/ \E to \in Lans \cup {Null} : Roam(to)
  \/ \E p \in Ports : Occupy(p)

StartupSpec == StartupInit /\ [][StartupNext]_startupVars

-----------------------------------------------------------------------------
(* Settings that were accepted start the proxy.  It never refuses them as a      *)
(* configuration, but for a host DNS does not know, and they can always be read  *)
(* back.  It refuses the certificates only when there were none at the save,     *)
(* when the leaf is another one than the save was checked against, or when no    *)
(* SANs were saved and the host's address stands in for them.  So the checks of  *)
(* the facade, the domain and the adapter together imply those of the runtime.   *)
SavedStarts ==
  (serving = Null /\ stored # Default) =>
    LET code == StartCode(Loaded)
    IN  /\ code # "PERSISTENCE_CORRUPT"
        /\ code = "CONFIG_INVALID" => \E c \in Enabled(stored) : ~ Resolves(c.url)
        /\ code \in {"CERTIFICATE_NOT_READY", "CERTIFICATE_INVALID"} =>
             checked = Null \/ checked # leaf \/ stored.sans = {}

(* A running proxy lets its own app in: the identity accepted at the import gets *)
(* through the handshake with the chain it was imported with, and a client with  *)
(* any other certificate does not, whoever issued it.                            *)
OwnIdentityAdmitted ==
  serving # Null =>
    LET own == serving.identity
        admits(i) == Admitted(Anchor(own.leaf, own.chain), own.leaf.id, i.leaf, i.chain, FALSE)
    IN  admits(own) /\ \A i \in Clients : admits(i) => i.leaf.id = own.leaf.id
=============================================================================
