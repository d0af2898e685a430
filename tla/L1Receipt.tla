----------------------------- MODULE L1Receipt -----------------------------
(***************************************************************************)
(* L1 receipts as values: how they are built, signed, verified, written to *)
(* a document and read back (src/ccs_verifier/ccs_verifier_l1.py).         *)
(*                                                                         *)
(* A signature is a key with the payload it was made over (none: {}), so   *)
(* it verifies exactly under that key for that payload; its Base64 text is *)
(* canonical or another spelling of the same bytes.  Of the 30 fields      *)
(* those are kept that some check reads; "body" stands for the others.     *)
(* Times are integers, OneSecond of them to a second.                      *)
(***************************************************************************)
EXTENDS Integers

CONSTANTS
  Keys,         \* Ed25519 key pairs
  Fingerprint,  \* public_key_fingerprint: 64 bits of a hash of a public key
  OneSecond     \* bound: the resolution of the clocks

\* What an empty or a missing field holds; field sizes are "", "ok" and "long",
\* the last for a string of more than 4096 characters.
NoKey == "no key"
NoFingerprint == 0
NoSignature == [by |-> NoKey, payload |-> {}, text |-> "canonical"]
Absent == [by |-> "absent", payload |-> {}, text |-> "canonical"]

ASSUME ReceiptAssumption ==
  /\ NoKey \notin Keys
  /\ Fingerprint \in [Keys -> Nat \ {0}]
  /\ OneSecond \in Nat \ {0}

Version == "1.1"
Algorithm == "Ed25519"

\* The content a receipt attests, everything but the four signature fields.
Draft(trace, verdict, issuer, audience, action, timestamp, bounds, body) ==
  [trace |-> trace, version |-> Version, verdict |-> verdict, issuer |-> issuer,
   audience |-> audience, action |-> action, timestamp |-> timestamp,
   issued |-> bounds.issued, expires |-> bounds.expires, skew |-> bounds.skew, body |-> body]

TimeBounds(issued, expires, skew) == [issued |-> issued, expires |-> expires, skew |-> skew]

\* signing_payload: all fields under their present names, save the signature.
SigningPayload(r) ==
  [names |-> "v1.1.7", content |-> r.content, alg |-> r.alg, fp |-> r.fp, key |-> r.key]

Receipt(draft, fp, key, signature) ==
  [content |-> draft, alg |-> Algorithm, fp |-> fp, key |-> key, signature |-> signature]

Unsigned(draft) == Receipt(draft, NoFingerprint, NoKey, NoSignature)

\* base64.b64encode of the signature a key makes over a payload.
Signature(key, payload) == [by |-> key, payload |-> {payload}, text |-> "canonical"]

\* Mutant of Sign: the key is embedded after the payload was computed.
SignBeforeEmbedding(draft, key) ==
  Receipt(draft, Fingerprint[key], key, Signature(key, SigningPayload(Unsigned(draft))))

\* sign_l1_receipt: key and fingerprint are embedded first, so that they are in
\* the payload that is signed.
Sign(draft, key) ==
  LET bound == Receipt(draft, Fingerprint[key], key, NoSignature)
  IN  Receipt(draft, Fingerprint[key], key, Signature(key, SigningPayload(bound)))
-----------------------------------------------------------------------------
(* L1ReceiptBuilder.build.                                                 *)

\* Less than a second of clock jitter is repaired, before anything is checked.
Aligned(draft) ==
  IF draft.issued > 0 /\ draft.issued - draft.timestamp \in 1 .. OneSecond - 1
  THEN [draft EXCEPT !.timestamp = draft.issued]
  ELSE draft

\* Mutant of Incomplete: an expiry of zero is taken for "no bound".
IncompleteUnlessUnbounded(draft) ==
  draft.issuer = "" \/ draft.audience = "" \/ draft.action = ""

Incomplete(draft) ==
  draft.issuer = "" \/ draft.audience = "" \/ draft.action = "" \/ draft.expires <= 0

Predates(draft) == draft.issued > 0 /\ draft.timestamp < draft.issued

\* canonical_json refuses integers beyond 2^53 - 1 and floats that are not finite.
Uncanonical(draft) == draft.body = "unsafe"

BuildRaises(draft, key) ==
  \/ Uncanonical(draft)
  \/ key # NoKey /\ Incomplete(draft)
  \/ Predates(Aligned(draft))

Built(draft, key) == IF key = NoKey THEN Unsigned(Aligned(draft)) ELSE Sign(Aligned(draft), key)
-----------------------------------------------------------------------------
(* L1Receipt.verify_signature, with the embedded key when none is given.   *)

\* Mutant of VerifySignature: the fingerprint is compared, the key is not.
VerifyByFingerprint(r, given) ==
  LET key == IF given = NoKey THEN r.key ELSE given
  IN  /\ r.signature # NoSignature
      /\ r.alg = Algorithm
      /\ r.signature.text = "canonical"
      /\ key \in Keys
      /\ r.fp = Fingerprint[key]
      /\ r.signature.payload = {SigningPayload(r)}

VerifySignature(r, given) ==
  LET key == IF given = NoKey THEN r.key ELSE given
  IN  /\ r.signature # NoSignature
      /\ r.alg = Algorithm
      /\ r.signature.text = "canonical"
      /\ key \in Keys
      /\ r.fp = Fingerprint[key]
      /\ r.signature.by = key
      /\ r.signature.payload = {SigningPayload(r)}
-----------------------------------------------------------------------------
(* to_dict and from_dict.  A document names its time bounds in the present *)
(* way or in that of v1.1.6 ("old").                                       *)

ToDict(r) == [names |-> "new", unknown |-> FALSE, receipt |-> r]

\* What v1.1.6 signed and wrote: the same content under the names of its time.
ToOldDict(draft, key) ==
  LET bound == Receipt(draft, Fingerprint[key], key, NoSignature)
      payload == [SigningPayload(bound) EXCEPT !.names = "v1.1.6"]
  IN  [names |-> "old", unknown |-> FALSE,
       receipt |-> Receipt(draft, Fingerprint[key], key, Signature(key, payload))]

\* Mutant of FromDictRaises: the old documents are not let in.
FromDictRaisesOnOld(doc, strict) ==
  LET content == doc.receipt.content
  IN  \/ doc.names = "old"
      \/ strict /\ (doc.unknown \/ content.version # Version)
      \/ content.trace \in {"", "long"} \/ content.body = "long"
      \/ doc.receipt.signature = NoSignature
      \/ strict /\ doc.receipt.signature = Absent /\ content.verdict = "allow"

\* "Present but empty" is refused for the signature fields, "absent" is not.
FromDictRaises(doc, strict) ==
  LET content == doc.receipt.content
  IN  \/ strict /\ (doc.unknown \/ content.version # Version)
      \/ content.trace \in {"", "long"} \/ content.body = "long"
      \/ doc.receipt.signature = NoSignature
      \/ strict /\ doc.receipt.signature = Absent /\ content.verdict = "allow"

\* The receipt that is read from a document, none when from_dict raises.  Old
\* names are mapped to new ones, unknown fields are dropped, missing ones take
\* their defaults: an absent signature is an empty one.
FromDict(doc, strict) ==
  IF FromDictRaises(doc, strict) THEN {}
  ELSE {[doc.receipt EXCEPT !.signature = IF @ = Absent THEN NoSignature ELSE @]}
=============================================================================
