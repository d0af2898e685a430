---------------------------- MODULE ReceiptTrust ----------------------------
(***************************************************************************)
(* A receipt from the server that signs it to the party that relies on it: *)
(* verifier servers with clocks and keys that are replaced, documents that *)
(* are kept and may be damaged, a relying party with pinned anchors and a  *)
(* clock of its own (src/ccs_verifier/trust.py), and a client that checks  *)
(* receipts with the key it fetched from its server (client.py).           *)
(***************************************************************************)
EXTENDS L1Receipt, Sequences, FiniteSets

CONSTANTS
  Servers,      \* verifier servers, possibly of several deployments
  IssuerOf,     \* the issuer each one names; "ccs-verifier" unless configured
  KeysOf,       \* the keys each one may sign with, one after the other
  Traces,       \* sizes of the trace_ids of the commands
  Bodies,       \* what else the commands hold: "ok", "long" or "unsafe"
  Jitters,      \* how the wall clock may move between two readings of verify
  ClockSkew,    \* clock_skew_bound, the max_clock_skew of the receipts
  Validity,     \* expires_at - now, 300 seconds in the code
  OwnBuilds,    \* whether programs use L1ReceiptBuilder themselves
  MaxDrift,     \* bound: how far the two clocks are apart
  Start,        \* the time at which everything starts, later than ClockSkew
  MaxTime,      \* bound: the time at which it ends
  MaxReceipts,  \* bound: documents
  MaxAnchors    \* bound: pinned anchors

ASSUME TrustAssumption ==
  /\ IssuerOf \in [Servers -> {"ccs-verifier", "ccs-other"}]
  /\ KeysOf \in [Servers -> SUBSET Keys]
  /\ \A s \in Servers : KeysOf[s] # {}
  /\ \A s, t \in Servers : s # t => KeysOf[s] \cap KeysOf[t] = {}
  /\ ClockSkew \in Nat /\ Validity \in Nat \ {0} /\ MaxDrift \in Nat
  /\ Jitters \subseteq Int
  /\ Start \in Nat /\ Start > ClockSkew /\ Start > MaxDrift
  /\ MaxTime \in Nat /\ MaxTime >= Start
  /\ MaxReceipts \in Nat /\ MaxAnchors \in Nat

VARIABLES
  serverClock,  \* the time the servers and their clients see
  partyClock,   \* the time the relying party sees
  signingKey,   \* per server: its _l1_signing_key
  cachedKey,    \* per server: _l1_public_key of a client of it
  signed,       \* ghost: every receipt ever signed, and with what
  documents,    \* the documents in circulation
  anchors       \* the anchors of the relying party, in order

clocks == <<serverClock, partyClock>>
vars == <<clocks, signingKey, cachedKey, signed, documents, anchors>>

Anchor(issuer, key) == [issuer |-> issuer, key |-> key, fp |-> Fingerprint[key]]
Anchors == {Anchor(IssuerOf[s], k) : s \in Servers, k \in Keys}

Decision(verified, accepted, reason) ==
  [verified |-> verified, accepted |-> accepted, reason |-> reason]

Apart(a, b) == IF a > b THEN a - b ELSE b - a

TypeOK ==
  /\ serverClock \in Start .. MaxTime
  /\ partyClock \in Start - MaxDrift .. MaxTime + MaxDrift
  /\ Apart(serverClock, partyClock) <= MaxDrift
  /\ signingKey \in [Servers -> Keys]
  /\ \A s \in Servers : signingKey[s] \in KeysOf[s]
  /\ \A s \in Servers : cachedKey[s] \in KeysOf[s] \cup {NoKey}
  /\ anchors \in Seq(Anchors)
  /\ Cardinality(documents) <= MaxReceipts
  /\ \A g \in signed :
       /\ g.server \in Servers /\ g.key \in KeysOf[g.server]
       /\ g.receipt.content.expires \in Nat \ {0} /\ g.receipt.content.timestamp \in Nat

Init ==
  /\ serverClock = Start
  /\ partyClock \in Start - MaxDrift .. Start + MaxDrift
  /\ signingKey \in {f \in [Servers -> Keys] : \A s \in Servers : f[s] \in KeysOf[s]}
  /\ cachedKey = [s \in Servers |-> NoKey]
  /\ signed = {}
  /\ documents = {}
  /\ anchors = <<>>
-----------------------------------------------------------------------------
(* Servers and programs that build receipts.                               *)

\* build: the receipt is signed and written down, or the builder raises.
Builds(s, draft, key) ==
  /\ Cardinality(documents) < MaxReceipts
  /\ ~BuildRaises(draft, key)
  /\ documents' = documents \cup {ToDict(Built(draft, key))}
  /\ signed' = IF key = NoKey THEN signed
               ELSE signed \cup {[server |-> s, key |-> key, receipt |-> Built(draft, key)]}
  /\ UNCHANGED <<clocks, signingKey, cachedKey, anchors>>

\* VerifierServer.verify: the bounds are taken from one reading of the clock,
\* the timestamp of the receipt from a later one.
ServerBounds == TimeBounds(serverClock - ClockSkew, serverClock + Validity, ClockSkew)

Attests(s) ==
  \E trace \in Traces, body \in Bodies, verdict \in {"allow", "deny"}, jitter \in Jitters :
    Builds(s, Draft(trace, verdict, IssuerOf[s], "ok", "ok", serverClock + jitter,
                    ServerBounds, body), signingKey[s])

\* A program that fills the builder itself: bindings may be missing, the bounds
\* may be unset or ahead, and the receipt may be left unsigned.
BuildsOwn(s) ==
  /\ OwnBuilds
  /\ \E issuer \in {"", IssuerOf[s]}, issued \in {0} \cup serverClock .. serverClock + OneSecond,
        expires \in {0, serverClock + Validity}, verdict \in {"allow", "deny"},
        key \in {NoKey, signingKey[s]} :
       Builds(s, Draft("ok", verdict, issuer, "ok", "ok", serverClock,
                       TimeBounds(issued, expires, ClockSkew), "ok"), key)

\* A document of v1.1.6 that was kept.
KeptFromOld(s) ==
  /\ OwnBuilds
  /\ Cardinality(documents) < MaxReceipts
  /\ documents' = documents \cup
       {ToOldDict(Draft("ok", "allow", IssuerOf[s], "ok", "ok", serverClock, ServerBounds, "ok"),
                  signingKey[s])}
  /\ UNCHANGED <<clocks, signingKey, cachedKey, signed, anchors>>

\* A copy of a document is damaged: a value is another one, a field is gone, or
\* the signature is spelled in another way.
Damaged(doc) ==
  {[doc EXCEPT !.receipt.content.verdict = "allow"],
   [doc EXCEPT !.receipt.content.expires = @ + 1],
   [doc EXCEPT !.receipt.signature = Absent],
   [doc EXCEPT !.unknown = TRUE]}
  \cup IF doc.receipt.signature \in {NoSignature, Absent} THEN {}
       ELSE {[doc EXCEPT !.receipt.signature.text = "other"]}

IsDamaged(doc) ==
  /\ Cardinality(documents) < MaxReceipts
  /\ documents' \in {documents \cup {other} : other \in Damaged(doc)}
  /\ UNCHANGED <<clocks, signingKey, cachedKey, signed, anchors>>

\* The server is started again with another key.
Rekeys(s) ==
  /\ \E key \in KeysOf[s] : signingKey' = [signingKey EXCEPT ![s] = key]
  /\ UNCHANGED <<clocks, cachedKey, signed, documents, anchors>>
-----------------------------------------------------------------------------
(* The relying party: evaluate_trust.                                      *)

Pins(anchor) ==
  /\ Len(anchors) < MaxAnchors
  /\ anchors' \in {Append(anchors, anchor), <<anchor>> \o anchors}
  /\ UNCHANGED <<clocks, signingKey, cachedKey, signed, documents>>

Unpins ==
  /\ \E i \in DOMAIN anchors : anchors' = SubSeq(anchors, 1, i - 1) \o SubSeq(anchors, i + 1, Len(anchors))
  /\ UNCHANGED <<clocks, signingKey, cachedKey, signed, documents>>

\* Mutant of Expired: the skew is granted to the issuer's side.
ExpiredEarly(receipt, now) ==
  receipt.content.expires > 0 /\ now + receipt.content.skew > receipt.content.expires

Expired(receipt, now) ==
  receipt.content.expires > 0 /\ now > receipt.content.expires + receipt.content.skew

Matching(receipt) == {i \in DOMAIN anchors : anchors[i].issuer = receipt.content.issuer}

\* Mutant of FirstAnchor: the loop goes on, and the last one is compared.
LastAnchor(receipt) ==
  anchors[CHOOSE i \in Matching(receipt) : \A j \in Matching(receipt) : j <= i]

\* Where the loop over the anchors stops: only this one is compared.
FirstAnchor(receipt) ==
  anchors[CHOOSE i \in Matching(receipt) : \A j \in Matching(receipt) : i <= j]

\* Mutant of EvaluateTrust: the fingerprint stands for the key.
EvaluateByFingerprint(receipt, now) ==
  IF ~VerifySignature(receipt, NoKey) THEN Decision(FALSE, FALSE, "signature_failed")
  ELSE IF Expired(receipt, now) THEN Decision(TRUE, FALSE, "receipt_expired")
  ELSE IF Matching(receipt) = {} THEN Decision(TRUE, FALSE, "no_pinned_anchor_for_issuer")
  ELSE IF receipt.fp # FirstAnchor(receipt).fp THEN Decision(TRUE, FALSE, "fingerprint_mismatch")
  ELSE Decision(TRUE, TRUE, "ok")

EvaluateTrust(receipt, now) ==
  IF ~VerifySignature(receipt, NoKey) THEN Decision(FALSE, FALSE, "signature_failed")
  ELSE IF Expired(receipt, now) THEN Decision(TRUE, FALSE, "receipt_expired")
  ELSE IF Matching(receipt) = {} THEN Decision(TRUE, FALSE, "no_pinned_anchor_for_issuer")
  ELSE IF receipt.fp # FirstAnchor(receipt).fp THEN Decision(TRUE, FALSE, "fingerprint_mismatch")
  ELSE IF receipt.key # FirstAnchor(receipt).key THEN Decision(TRUE, FALSE, "public_key_mismatch")
  ELSE Decision(TRUE, TRUE, "ok")

\* What the party concludes from a receipt, now.
Trusts(receipt) == EvaluateTrust(receipt, partyClock)
-----------------------------------------------------------------------------
(* A client of server s: get_l1_public_key and verify_l1_receipt.          *)

\* The key that was fetched first is used until close().
KeyUsed(s) == IF cachedKey[s] = NoKey THEN signingKey[s] ELSE cachedKey[s]

FetchesKey(s) ==
  /\ cachedKey' = [cachedKey EXCEPT ![s] = signingKey[s]]
  /\ UNCHANGED <<clocks, signingKey, signed, documents, anchors>>

ClientCloses(s) ==
  /\ cachedKey' = [cachedKey EXCEPT ![s] = NoKey]
  /\ UNCHANGED <<clocks, signingKey, signed, documents, anchors>>

\* The key is fetched, and kept, before the document is looked at.
ClientChecks(s) ==
  /\ cachedKey' = [cachedKey EXCEPT ![s] = KeyUsed(s)]
  /\ UNCHANGED <<clocks, signingKey, signed, documents, anchors>>

CheckIsTrue(s, doc) == \E r \in FromDict(doc, TRUE) : VerifySignature(r, KeyUsed(s))
-----------------------------------------------------------------------------
Ticks ==
  /\ \/ serverClock < MaxTime /\ serverClock' = serverClock + 1 /\ UNCHANGED partyClock
     \/ partyClock < MaxTime + MaxDrift /\ partyClock' = partyClock + 1 /\ UNCHANGED serverClock
  /\ Apart(serverClock', partyClock') <= MaxDrift
  /\ UNCHANGED <<signingKey, cachedKey, signed, documents, anchors>>

Next ==
  \/ \E s \in Servers :
       \/ Attests(s) \/ BuildsOwn(s) \/ KeptFromOld(s) \/ Rekeys(s)
       \/ FetchesKey(s) \/ ClientCloses(s) \/ ClientChecks(s)
  \/ \E doc \in documents : IsDamaged(doc)
  \/ \E anchor \in Anchors : Pins(anchor)
  \/ Unpins
  \/ Ticks

Spec == Init /\ [][Next]_vars
-----------------------------------------------------------------------------
\* An accepted receipt is, to the last field, one that was signed with a pinned
\* key of the issuer it names: by no other deployment of the same name, not
\* damaged since, and not merely matching in 64 bits of fingerprint
\* (trust.py:137-174).
AcceptedIsGenuine ==
  \A doc \in documents : \A r \in FromDict(doc, FALSE) : Trusts(r).accepted =>
    \E g \in signed :
      /\ g.receipt = r
      /\ Anchor(r.content.issuer, g.key) \in {anchors[i] : i \in DOMAIN anchors}

\* A receipt that was signed, is in time and whose key is pinned for its issuer
\* is refused only while another key stands before it among that issuer's
\* anchors: the order of the list decides during a rotation of keys, and nothing
\* else does (trust.py:149-174).
PinnedIsAccepted ==
  \A doc \in documents : \A r \in FromDict(doc, FALSE) :
    LET pinned == {i \in DOMAIN anchors : anchors[i] = Anchor(r.content.issuer, r.key)}
    IN  /\ \E g \in signed : g.receipt = r
        /\ r.content.expires > partyClock - r.content.skew
        /\ pinned # {}
        /\ ~Trusts(r).accepted
        => \E i \in Matching(r) : anchors[i].key # r.key /\ \A j \in pinned : i < j

\* As long as the clocks agree within a receipt's max_clock_skew, the party
\* refuses as expired only what has reached its expires_at for the server, and
\* accepts nothing that passed it more than twice that skew ago
\* (trust.py:140-147).  Whether a receipt still holds when the party's clock shows
\* exactly expires_at + max_clock_skew is left open here: line 126 says that it
\* does not, line 140 that it does.
ExpiryFollowsIssuer ==
  \A doc \in documents : \A r \in FromDict(doc, FALSE) :
    Apart(serverClock, partyClock) <= r.content.skew /\ r.content.expires > 0 =>
      /\ Trusts(r).reason = "receipt_expired" => serverClock >= r.content.expires
      /\ Trusts(r).accepted => serverClock <= r.content.expires + 2 * r.content.skew

\* What was signed has all its bindings, an expiry, and a timestamp not before
\* its issuance, and verifies for a third party and for whoever has the signing
\* key (ccs_verifier_l1.py:911-944, 305-307).  It is read back from its document as
\* it was signed, unless its trace_id is empty or a field exceeds 4096
\* characters: these are signed, and read by nobody (476, 488).
SignedIsConsistent ==
  \A g \in signed :
    LET content == g.receipt.content
    IN  /\ ~Incomplete(content)
        /\ ~Predates(content)
        /\ VerifySignature(g.receipt, NoKey) /\ VerifySignature(g.receipt, g.key)
        /\ \A strict \in BOOLEAN :
             FromDict(ToDict(g.receipt), strict) =
               IF content.trace \in {"", "long"} \/ content.body = "long" THEN {} ELSE {g.receipt}

\* "Old receipts can be deserialized and fields read, but signature verification
\* will FAIL" (ccs_verifier_l1.py:420-421).
OldIsReadNotVerified ==
  \A doc \in documents :
    doc.names = "old" /\ doc.receipt.signature # Absent =>
      /\ FromDict(doc, FALSE) # {}
      /\ \A r \in FromDict(doc, FALSE) : \A k \in Keys \cup {NoKey} : ~VerifySignature(r, k)

\* A client's check holds only for a receipt that its own server signed, with
\* this key or an earlier one (client.py:225-239).
CheckedIsGenuine ==
  \A s \in Servers, doc \in documents :
    CheckIsTrue(s, doc) => \E g \in signed : g.receipt = doc.receipt /\ g.server = s
=============================================================================
