--------------------------------- MODULE Trust ---------------------------------
(***************************************************************************)
(* Who the proxy takes for the payment app: the identity a user imports as  *)
(* PKCS12 is checked (certificates.rs), its last certificate becomes the    *)
(* trust anchor of the listeners (load_epoch_snapshot), and a client's      *)
(* chain is verified against that anchor and the pinned fingerprint at      *)
(* every handshake (tls.rs, with WebPKI, which is external).                *)
(*                                                                         *)
(* A certificate is a record: its fingerprint (id), the names of subject    *)
(* and issuer, its key and the key that signed it, the CA flag of its basic *)
(* constraints ("none" when the extension is absent), the purposes of its   *)
(* key usage and extended key usage (Unstated when absent), and whether it  *)
(* is within its validity.                                                  *)
(***************************************************************************)
EXTENDS Integers, Sequences

CONSTANT Unstated

\* Issuer and signature: child names parent and is signed by its key.
Signs(parent, child) == child.issuer = parent.subject /\ child.signer = parent.key

Stated(c, purpose) == c.usage # Unstated /\ purpose \in c.usage

IsCa(c) == c.ca = "yes"

\* validate_ca
ValidCa(c) == c.valid /\ IsCa(c) /\ Stated(c, "certs")

\* is_legacy_self_signed_trust_anchor: an old root that states no usage at all.
Legacy(c) == c.valid /\ c.ca # "no" /\ c.usage = Unstated /\ Signs(c, c)

\* validate_client_end_entity
EndEntity(c) ==
  /\ c.valid /\ ~ IsCa(c) /\ Stated(c, "sign")
  /\ c.extended # Unstated /\ "client" \in c.extended

\* The certificate below the i-th of the chain.
Below(leaf, chain, i) == IF i = 1 THEN leaf ELSE chain[i - 1]

\* Only the end of the chain is asked whether it may sign.
ValidChainFault(leaf, chain) ==
  /\ EndEntity(leaf)
  /\ chain # <<>>
  /\ \A i \in 1 .. Len(chain) : Signs(chain[i], Below(leaf, chain, i))
  /\ ValidCa(chain[Len(chain)]) \/ Legacy(chain[Len(chain)])

\* validate_client_chain: each signs the one below it and may do so; only the last
\* one may be of the old kind.
ValidChain(leaf, chain) ==
  /\ EndEntity(leaf)
  /\ chain # <<>>
  /\ \A i \in 1 .. Len(chain) :
       /\ Signs(chain[i], Below(leaf, chain, i))
       /\ ValidCa(chain[i]) \/ (i = Len(chain) /\ Legacy(chain[i]))

\* validate_client_identity, at the import and again at every start.
ValidIdentity(leaf, key, chain) == leaf.key = key /\ leaf.valid /\ ValidChain(leaf, chain)

\* The listeners' trust anchor, and validate_client_trust_anchor_der.
Anchor(leaf, chain) == IF chain = <<>> THEN leaf ELSE chain[Len(chain)]
ValidAnchor(c) == ValidCa(c) \/ Legacy(c)

\* WebPKI: a client certificate, valid and no CA, with a path of valid CAs, taken
\* from what the client sent, up to the anchor.  The anchor itself is not examined.
Verified(anchor, leaf, sent) ==
  /\ leaf.valid /\ ~ IsCa(leaf)
  /\ leaf.extended = Unstated \/ "client" \in leaf.extended
  /\ \E n \in 0 .. Len(sent) :
       \E path \in [1 .. n -> {sent[i] : i \in 1 .. Len(sent)}] :
         /\ \A i \in 1 .. n : /\ Signs(path[i], Below(leaf, path, i))
                              /\ path[i].valid /\ IsCa(path[i])
         /\ Signs(anchor, IF n = 0 THEN leaf ELSE path[n])

\* verify_client_cert: the pin and the handshake rules come after the chain.
Admitted(anchor, pin, leaf, sent, rejected) ==
  Verified(anchor, leaf, sent) /\ leaf.id = pin /\ ~ rejected
=============================================================================
