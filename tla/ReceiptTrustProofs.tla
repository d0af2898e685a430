------------------------ MODULE ReceiptTrustProofs ------------------------
(***************************************************************************)
(* What is accepted, or checked by a client, was signed: for every number  *)
(* of servers, keys, documents and anchors, and whatever fingerprints have *)
(* in common.                                                              *)
(***************************************************************************)
EXTENDS ReceiptTrust, TLAPS, SequenceTheorems, WellFoundedInduction, FiniteSetTheorems

\* The fields of a receipt.
IsReceipt(r) ==
  /\ r = [content |-> r.content, alg |-> r.alg, fp |-> r.fp, key |-> r.key,
          signature |-> r.signature]
  /\ r.signature = [by |-> r.signature.by, payload |-> r.signature.payload,
                    text |-> r.signature.text]

Payload(content, key) ==
  [names |-> "v1.1.7", content |-> content, alg |-> Algorithm, fp |-> Fingerprint[key], key |-> key]

\* Everything that sign_l1_receipt puts into a receipt.
LEMMA SignFields ==
  ASSUME NEW draft, NEW key
  PROVE  /\ IsReceipt(Sign(draft, key))
         /\ Sign(draft, key).content = draft
         /\ Sign(draft, key).alg = Algorithm
         /\ Sign(draft, key).fp = Fingerprint[key]
         /\ Sign(draft, key).key = key
         /\ Sign(draft, key).signature = Signature(key, Payload(draft, key))
BY DEF Sign, Receipt, SigningPayload, IsReceipt, Payload, Signature

\* A loop over a list that stops at the first match stops at a match that none
\* stands before.
LEMMA FirstIsMatching ==
  ASSUME NEW receipt, anchors \in Seq(Anchors), Matching(receipt) # {}
  PROVE  \E i \in DOMAIN anchors :
           /\ FirstAnchor(receipt) = anchors[i] /\ anchors[i].issuer = receipt.content.issuer
           /\ \A j \in Matching(receipt) : i <= j
<1>1. Matching(receipt) \subseteq Nat
  BY DEF Matching
<1>2. \E i \in Matching(receipt) : \A j \in Matching(receipt) : ~(<<j, i>> \in OpToRel(<, Nat))
  BY <1>1, NatLessThanWellFounded, WFMin, Zenon
<1>3. \E i \in Matching(receipt) : \A j \in Matching(receipt) : i <= j
  <2>1. PICK i \in Matching(receipt) :
          \A j \in Matching(receipt) : ~(<<j, i>> \in OpToRel(<, Nat))
    BY <1>2
  <2>2. ASSUME NEW j \in Matching(receipt) PROVE i <= j
    <3>1. i \in Nat /\ j \in Nat
      BY <1>1
    <3>2. j < i => <<j, i>> \in OpToRel(<, Nat)
      BY <3>1 DEF OpToRel
    <3>3. ~(j < i)
      BY <2>1, <3>2, Zenon
    <3> QED BY <3>1, <3>3
  <2> QED BY <2>2
<1> DEFINE first == CHOOSE i \in Matching(receipt) : \A j \in Matching(receipt) : i <= j
<1>4. first \in Matching(receipt) /\ \A j \in Matching(receipt) : first <= j
  BY <1>3
<1> QED BY <1>4 DEF FirstAnchor, Matching

\* An anchor is known by its issuer and its key.
LEMMA AnchorsAreWhole ==
  ASSUME anchors \in Seq(Anchors), NEW i \in DOMAIN anchors
  PROVE  anchors[i] = Anchor(anchors[i].issuer, anchors[i].key)
<1>1. PICK s \in Servers, k \in Keys : anchors[i] = Anchor(IssuerOf[s], k)
  BY DEF Anchors
<1>2. k = anchors[i].key /\ IssuerOf[s] = anchors[i].issuer
  BY <1>1 DEF Anchor
<1> QED BY <1>1, <1>2
-----------------------------------------------------------------------------
\* The fields of a document.
IsDocument(doc) ==
  /\ doc = [names |-> doc.names, unknown |-> doc.unknown, receipt |-> doc.receipt]
  /\ IsReceipt(doc.receipt)

\* Where the signature of a document can come from: there is none, v1.1.6 made
\* it, it is spelled as nobody signs, or it is the one of a receipt that was signed.
Traced(doc) ==
  LET signature == doc.receipt.signature
  IN  \/ signature \in {NoSignature, Absent}
      \/ \E payload \in signature.payload : payload.names = "v1.1.6"
      \/ signature.text # "canonical"
      \/ \E g \in signed : signature = g.receipt.signature

IsSigned(g) ==
  /\ g.server \in Servers
  /\ g.key \in KeysOf[g.server]
  /\ g.receipt = Sign(g.receipt.content, g.key)

Provenance ==
  /\ \A g \in signed : IsSigned(g)
  /\ \A doc \in documents : IsDocument(doc) /\ Traced(doc)
  /\ anchors \in Seq(Anchors)
  /\ \A s \in Servers : signingKey[s] \in KeysOf[s]
  /\ \A s \in Servers : cachedKey[s] \in KeysOf[s] \cup {NoKey}

\* Reading a document changes nothing but the missing signature.
LEMMA FromDictKeeps ==
  ASSUME NEW doc, IsDocument(doc), NEW strict, NEW read \in FromDict(doc, strict)
  PROVE  /\ read.content = doc.receipt.content
         /\ read.alg = doc.receipt.alg
         /\ read.fp = doc.receipt.fp
         /\ read.key = doc.receipt.key
         /\ read.signature = IF doc.receipt.signature = Absent THEN NoSignature
                             ELSE doc.receipt.signature
<1> DEFINE r == doc.receipt
<1>1. r = [content |-> r.content, alg |-> r.alg, fp |-> r.fp, key |-> r.key,
           signature |-> r.signature]
  BY DEF IsDocument, IsReceipt
<1>2. read = [r EXCEPT !.signature = IF r.signature = Absent THEN NoSignature
                                     ELSE r.signature]
  BY DEF FromDict
<1> HIDE DEF r
<1>3. QED
  BY <1>1, <1>2 DEF r

\* What is read with its signature is the receipt of the document, to the last
\* field.
LEMMA ReadWithSignature ==
  ASSUME NEW doc, IsDocument(doc), NEW strict, NEW read \in FromDict(doc, strict),
         read.signature # NoSignature
  PROVE  read = doc.receipt
<1>1. doc.receipt.signature # Absent
  BY FromDictKeeps
<1> DEFINE r == doc.receipt
<1>2. r = [content |-> r.content, alg |-> r.alg, fp |-> r.fp, key |-> r.key,
           signature |-> r.signature]
  BY DEF IsDocument, IsReceipt
<1>3. read = [r EXCEPT !.signature = r.signature]
  BY <1>1 DEF FromDict
<1> HIDE DEF r
<1>4. read = r
  BY <1>2, <1>3
<1> QED BY <1>4 DEF r

\* A signature that verifies is that of a signed receipt, and the receipt is the
\* signed one in all its fields.
LEMMA VerifiedWasSigned ==
  ASSUME Provenance, NEW doc \in documents, NEW given, NEW strict,
         NEW r \in FromDict(doc, strict), VerifySignature(r, given)
  PROVE  \E g \in signed :
           /\ g.receipt = doc.receipt
           /\ g.key = IF given = NoKey THEN doc.receipt.key ELSE given
<1> DEFINE p == doc.receipt
<1>1. IsDocument(doc) /\ Traced(doc)
  BY DEF Provenance
<1>2. p.signature \notin {NoSignature, Absent} /\ r.signature = p.signature
  BY <1>1, FromDictKeeps DEF VerifySignature
<1> DEFINE ours == [names |-> "v1.1.7", content |-> p.content, alg |-> p.alg, fp |-> p.fp,
                    key |-> p.key]
<1>3. p.signature.payload = {ours} /\ p.signature.text = "canonical"
  BY <1>1, <1>2, FromDictKeeps DEF VerifySignature, SigningPayload
<1>4. PICK g \in signed : p.signature = g.receipt.signature
  BY <1>1, <1>2, <1>3 DEF Traced
<1>5. /\ IsReceipt(g.receipt)
      /\ g.receipt.alg = Algorithm /\ g.receipt.fp = Fingerprint[g.key] /\ g.receipt.key = g.key
      /\ g.receipt.signature.by = g.key
      /\ g.receipt.signature.payload = {Payload(g.receipt.content, g.key)}
  <2>1. g.receipt = Sign(g.receipt.content, g.key)
    BY DEF Provenance, IsSigned
  <2> DEFINE c == g.receipt.content
  <2> HIDE DEF c
  <2>2. /\ IsReceipt(g.receipt)
        /\ g.receipt.alg = Algorithm /\ g.receipt.fp = Fingerprint[g.key]
        /\ g.receipt.key = g.key
        /\ g.receipt.signature = Signature(g.key, Payload(g.receipt.content, g.key))
    BY <2>1, SignFields DEF c
  <2> QED BY <2>2 DEF Signature
<1>6. /\ p.content = g.receipt.content /\ p.alg = g.receipt.alg
      /\ p.fp = g.receipt.fp /\ p.key = g.receipt.key
  <2> DEFINE theirs == Payload(g.receipt.content, g.key)
  <2>1. ours = theirs
    <3>1. {ours} = {theirs}
      BY <1>3, <1>4, <1>5
    <3> HIDE DEF ours, theirs
    <3> QED BY <3>1
  <2>2. /\ ours.content = theirs.content /\ ours.alg = theirs.alg
        /\ ours.fp = theirs.fp /\ ours.key = theirs.key
    BY <2>1, Zenon
  <2> QED BY <1>5, <2>2 DEF Payload
<1>7. g.receipt = p
  BY <1>1, <1>4, <1>5, <1>6, Zenon DEF IsDocument, IsReceipt
<1>8. g.key = IF given = NoKey THEN p.key ELSE given
  BY <1>2, <1>4, <1>5, <1>6, <1>1, FromDictKeeps DEF VerifySignature
<1> QED BY <1>7, <1>8
-----------------------------------------------------------------------------
LEMMA ProvenanceFirst == Init => Provenance
BY TrustAssumption DEF Init, Provenance

\* What is built is a document, unsigned or with a signature of its own.
LEMMA BuiltIsTraced ==
  ASSUME NEW draft, NEW key
  PROVE  LET doc == ToDict(Built(draft, key)) IN
           /\ IsDocument(doc)
           /\ doc.receipt = Built(draft, key)
           /\ key = NoKey => doc.receipt.signature = NoSignature
<1>1. ToDict(Built(draft, key)) = [names |-> "new", unknown |-> FALSE, receipt |-> Built(draft, key)]
  BY DEF ToDict
<1>2. CASE key = NoKey
  <2>1. Built(draft, key) = Unsigned(Aligned(draft))
    BY <1>2 DEF Built
  <2> QED BY <1>1, <1>2, <2>1 DEF Unsigned, Receipt, NoSignature, IsDocument, IsReceipt
<1>3. CASE key # NoKey
  <2>1. Built(draft, key) = Sign(Aligned(draft), key)
    BY <1>3 DEF Built
  <2>2. IsReceipt(Sign(Aligned(draft), key))
    BY SignFields, Zenon
  <2> QED BY <1>1, <1>3, <2>1, <2>2 DEF IsDocument
<1> QED BY <1>2, <1>3

LEMMA BuildsKeepsProvenance ==
  ASSUME Provenance, NEW s \in Servers, NEW draft, NEW key \in KeysOf[s] \cup {NoKey},
         Builds(s, draft, key)
  PROVE  Provenance'
<1> DEFINE doc == ToDict(Built(draft, key))
           g == [server |-> s, key |-> key, receipt |-> Built(draft, key)]
<1>1. /\ documents' = documents \cup {doc}
      /\ signed' = IF key = NoKey THEN signed ELSE signed \cup {g}
      /\ UNCHANGED <<anchors, signingKey, cachedKey>>
  BY DEF Builds
<1>2. /\ IsDocument(doc) /\ doc.receipt = Built(draft, key)
      /\ key = NoKey => doc.receipt.signature = NoSignature
  BY BuiltIsTraced
<1>3. key # NoKey => IsSigned(g)
  <2> SUFFICES ASSUME key # NoKey PROVE IsSigned(g)
    OBVIOUS
  <2>1. g.receipt = Sign(Aligned(draft), key)
    BY DEF Built
  <2>2. g.receipt.content = Aligned(draft)
    <3>1. Sign(Aligned(draft), key).content = Aligned(draft)
      BY SignFields, Zenon
    <3> QED BY <2>1, <3>1
  <2> QED BY <2>1, <2>2 DEF IsSigned
<1>4. g.receipt = Built(draft, key)
  OBVIOUS
<1>5. ASSUME NEW d \in documents PROVE IsDocument(d) /\ Traced(d)'
  BY <1>1, <1>5 DEF Provenance, Traced
<1>6. Traced(doc)'
  BY <1>1, <1>2, <1>4 DEF Traced
<1> HIDE DEF doc, g
<1>7. (\A h \in signed : IsSigned(h))'
  BY <1>1, <1>3 DEF Provenance, IsSigned
<1> QED BY <1>1, <1>2, <1>5, <1>6, <1>7 DEF Provenance, IsDocument, IsReceipt

LEMMA AttestsKeepsProvenance ==
  ASSUME Provenance, NEW s \in Servers, Attests(s) \/ BuildsOwn(s)
  PROVE  Provenance'
<1>1. \E key \in KeysOf[s] \cup {NoKey} : \E draft : Builds(s, draft, key)
  <2>1. signingKey[s] \in KeysOf[s]
    BY DEF Provenance
  <2> QED BY <2>1 DEF Attests, BuildsOwn
<1> QED BY <1>1, BuildsKeepsProvenance

LEMMA OldKeepsProvenance ==
  ASSUME Provenance, NEW s \in Servers, KeptFromOld(s)
  PROVE  Provenance'
<1>1. PICK draft : /\ documents' = documents \cup {ToOldDict(draft, signingKey[s])}
                   /\ UNCHANGED <<anchors, signingKey, cachedKey, signed>>
  BY DEF KeptFromOld
<1> DEFINE doc == ToOldDict(draft, signingKey[s])
<1>2. IsDocument(doc) /\ Traced(doc)
  BY DEF ToOldDict, Receipt, SigningPayload, Signature, IsDocument, IsReceipt, Traced
<1> QED BY <1>1, <1>2 DEF Provenance, IsSigned, IsDocument, IsReceipt, Traced

\* Damage may take the signature away but makes no new one.
LEMMA DamagedIsTraced ==
  ASSUME NEW doc, IsDocument(doc), Traced(doc), NEW other \in Damaged(doc)
  PROVE  IsDocument(other) /\ Traced(other)
<1> DEFINE r == doc.receipt
<1>1. doc = [names |-> doc.names, unknown |-> doc.unknown, receipt |-> r] /\ IsReceipt(r)
  BY DEF IsDocument
<1>2. \E c : \/ other = [doc EXCEPT !.receipt = [r EXCEPT !.content = c]]
             \/ other = [doc EXCEPT !.receipt = [r EXCEPT !.signature = Absent]]
             \/ /\ other = [doc EXCEPT !.receipt =
                              [r EXCEPT !.signature = [r.signature EXCEPT !.text = "other"]]]
                /\ r.signature \notin {NoSignature, Absent}
             \/ other = [doc EXCEPT !.unknown = TRUE]
  BY DEF Damaged
<1>3. r.signature = [by |-> r.signature.by, payload |-> r.signature.payload,
                     text |-> r.signature.text]
  BY <1>1 DEF IsReceipt
<1>4. \/ other.receipt.signature \in {r.signature, Absent}
      \/ other.receipt.signature.text = "other"
  BY <1>1, <1>2, <1>3 DEF IsReceipt
<1>5. IsDocument(other)
  BY <1>1, <1>2, <1>3 DEF IsDocument, IsReceipt, Absent
<1>6. Traced(other)
  BY <1>4 DEF Traced
<1> QED BY <1>5, <1>6

LEMMA DamageKeepsProvenance ==
  ASSUME Provenance, NEW doc \in documents, IsDamaged(doc)
  PROVE  Provenance'
<1>1. PICK other \in Damaged(doc) : documents' = documents \cup {other}
  BY DEF IsDamaged
<1>2. UNCHANGED <<signed, anchors, signingKey, cachedKey>>
  BY DEF IsDamaged
<1>3. IsDocument(other) /\ Traced(other)
  BY DamagedIsTraced DEF Provenance
<1> QED BY <1>1, <1>2, <1>3 DEF Provenance, IsSigned, IsDocument, IsReceipt, Traced

\* Anchors and keys move without touching what was signed or written.
LEMMA OthersKeepProvenance ==
  ASSUME Provenance, UNCHANGED <<signed, documents>>,
         anchors' \in Seq(Anchors),
         \A s \in Servers : signingKey'[s] \in KeysOf[s],
         \A s \in Servers : cachedKey'[s] \in KeysOf[s] \cup {NoKey}
  PROVE  Provenance'
BY DEF Provenance, IsSigned, IsDocument, IsReceipt, Traced

LEMMA PinsKeepsProvenance ==
  ASSUME Provenance, (\E anchor \in Anchors : Pins(anchor)) \/ Unpins
  PROVE  Provenance'
<1>1. anchors \in Seq(Anchors)
  BY DEF Provenance
<1>2. CASE \E anchor \in Anchors : Pins(anchor)
  <2>1. PICK anchor \in Anchors : anchors' \in {Append(anchors, anchor), <<anchor>> \o anchors}
    BY <1>2 DEF Pins
  <2>2. <<anchor>> \in Seq(Anchors)
    OBVIOUS
  <2>3. <<anchor>> \o anchors \in Seq(Anchors) /\ Append(anchors, anchor) \in Seq(Anchors)
    BY <1>1, <2>2, ConcatProperties
  <2>4. anchors' \in Seq(Anchors)
    BY <2>1, <2>3
  <2> QED BY <1>2, <2>4, OthersKeepProvenance DEF Pins, Provenance
<1>3. CASE Unpins
  <2>1. PICK i \in DOMAIN anchors :
          anchors' = SubSeq(anchors, 1, i - 1) \o SubSeq(anchors, i + 1, Len(anchors))
    BY <1>3 DEF Unpins
  <2>2. /\ SubSeq(anchors, 1, i - 1) \in Seq(Anchors)
        /\ SubSeq(anchors, i + 1, Len(anchors)) \in Seq(Anchors)
    <3>1. i \in 1 .. Len(anchors) /\ Len(anchors) \in Nat
      BY <1>1, <2>1
    <3>2. \A j \in 1 .. Len(anchors) : anchors[j] \in Anchors
      BY <1>1
    <3> QED BY <1>1, <3>1, <3>2, SubSeqProperties
  <2>3. anchors' \in Seq(Anchors)
    BY <2>1, <2>2
  <2> QED BY <1>3, <2>3, OthersKeepProvenance DEF Unpins, Provenance
<1> QED BY <1>2, <1>3

LEMMA KeysKeepProvenance ==
  ASSUME Provenance, NEW s \in Servers,
         Rekeys(s) \/ FetchesKey(s) \/ ClientCloses(s) \/ ClientChecks(s)
  PROVE  Provenance'
<1>1. CASE Rekeys(s)
  BY <1>1, OthersKeepProvenance DEF Rekeys, Provenance
<1>2. CASE FetchesKey(s) \/ ClientCloses(s) \/ ClientChecks(s)
  <2>1. \E key \in KeysOf[s] \cup {NoKey} : cachedKey' = [cachedKey EXCEPT ![s] = key]
    BY <1>2 DEF FetchesKey, ClientCloses, ClientChecks, KeyUsed, Provenance
  <2>2. \A t \in Servers : cachedKey'[t] \in KeysOf[t] \cup {NoKey}
    BY <2>1 DEF Provenance
  <2>3. UNCHANGED <<signed, documents, anchors, signingKey>>
    BY <1>2 DEF FetchesKey, ClientCloses, ClientChecks
  <2> QED BY <2>2, <2>3, OthersKeepProvenance DEF Provenance
<1> QED BY <1>1, <1>2

LEMMA StepKeepsProvenance == Provenance /\ [Next]_vars => Provenance'
<1> SUFFICES ASSUME Provenance, [Next]_vars PROVE Provenance'
  OBVIOUS
<1>1. CASE \E s \in Servers : Attests(s) \/ BuildsOwn(s)
  BY <1>1, AttestsKeepsProvenance
<1>2. CASE \E s \in Servers : KeptFromOld(s)
  BY <1>2, OldKeepsProvenance
<1>3. CASE \E s \in Servers : Rekeys(s) \/ FetchesKey(s) \/ ClientCloses(s) \/ ClientChecks(s)
  BY <1>3, KeysKeepProvenance
<1>4. CASE \E doc \in documents : IsDamaged(doc)
  BY <1>4, DamageKeepsProvenance
<1>5. CASE (\E anchor \in Anchors : Pins(anchor)) \/ Unpins
  BY <1>5, PinsKeepsProvenance
<1>6. CASE Ticks \/ UNCHANGED vars
  BY <1>6, OthersKeepProvenance DEF Ticks, vars, Provenance
<1> QED BY <1>1, <1>2, <1>3, <1>4, <1>5, <1>6 DEF Next

LEMMA AlwaysProvenance == Spec => []Provenance
BY ProvenanceFirst, StepKeepsProvenance, PTL DEF Spec
-----------------------------------------------------------------------------
\* What evaluate_trust accepts is, field by field, what was signed with a key
\* pinned for its issuer, however many keys share a fingerprint.
THEOREM AcceptedWasSigned == Spec => []AcceptedIsGenuine
<1>1. Provenance => AcceptedIsGenuine
  <2> SUFFICES ASSUME Provenance, NEW doc \in documents, NEW r \in FromDict(doc, FALSE),
                      Trusts(r).accepted
               PROVE  \E g \in signed :
                        /\ g.receipt = r
                        /\ Anchor(r.content.issuer, g.key) \in {anchors[i] : i \in DOMAIN anchors}
    BY DEF AcceptedIsGenuine
  <2>1. IsDocument(doc)
    BY DEF Provenance
  <2>2. /\ VerifySignature(r, NoKey)
        /\ Matching(r) # {}
        /\ r.key = FirstAnchor(r).key
    BY DEF Trusts, EvaluateTrust, Decision
  <2>3. PICK g \in signed : g.receipt = doc.receipt /\ g.key = doc.receipt.key
    BY <2>2, VerifiedWasSigned
  <2>4. r = doc.receipt
    BY <2>1, <2>2, ReadWithSignature DEF VerifySignature
  <2>5. PICK i \in DOMAIN anchors :
          FirstAnchor(r) = anchors[i] /\ anchors[i].issuer = r.content.issuer
    BY <2>2, FirstIsMatching DEF Provenance
  <2>6. anchors[i] = Anchor(r.content.issuer, g.key)
    BY <2>2, <2>3, <2>4, <2>5, AnchorsAreWhole DEF Provenance
  <2> QED BY <2>3, <2>4, <2>6
<1> QED BY <1>1, AlwaysProvenance, PTL

\* What a client's check finds valid was signed by the client's own server.
THEOREM CheckedWasSigned == Spec => []CheckedIsGenuine
<1>1. Provenance => CheckedIsGenuine
  <2> SUFFICES ASSUME Provenance, NEW s \in Servers, NEW doc \in documents, CheckIsTrue(s, doc)
               PROVE  \E g \in signed : g.receipt = doc.receipt /\ g.server = s
    BY DEF CheckedIsGenuine
  <2>1. KeyUsed(s) \in KeysOf[s]
    BY DEF Provenance, KeyUsed
  <2>2. KeyUsed(s) # NoKey
    BY <2>1, ReceiptAssumption, TrustAssumption
  <2>3. PICK r \in FromDict(doc, TRUE) : VerifySignature(r, KeyUsed(s))
    BY DEF CheckIsTrue
  <2>4. PICK g \in signed : g.receipt = doc.receipt /\ g.key = KeyUsed(s)
    BY <2>2, <2>3, VerifiedWasSigned
  <2>5. g.server \in Servers /\ g.key \in KeysOf[g.server]
    BY DEF Provenance, IsSigned
  <2>6. g.server = s
    BY <2>1, <2>4, <2>5, TrustAssumption
  <2> QED BY <2>4, <2>6
<1> QED BY <1>1, AlwaysProvenance, PTL
-----------------------------------------------------------------------------
(* What is in the documents.                                               *)

IsContent(c) ==
  /\ c = [trace |-> c.trace, version |-> c.version, verdict |-> c.verdict, issuer |-> c.issuer,
          audience |-> c.audience, action |-> c.action, timestamp |-> c.timestamp,
          issued |-> c.issued, expires |-> c.expires, skew |-> c.skew, body |-> c.body]
  /\ c.version = Version
  /\ c.timestamp \in Int /\ c.issued \in Int /\ c.expires \in Int /\ c.skew \in Nat

\* A timestamp that is negative is one that the builder refuses.
IsDated(c) == c.issued > 0 \/ c.timestamp >= 0

\* Documents of v1.1.6 can be read, and their signature is over the old names.
KeptOld(doc) ==
  doc.names = "old" =>
    /\ doc.receipt.content.trace = "ok" /\ doc.receipt.content.body = "ok"
    /\ \/ doc.receipt.signature = Absent
       \/ \E payload \in doc.receipt.signature.payload : payload.names = "v1.1.6"

Clocks ==
  /\ serverClock \in Start .. MaxTime
  /\ partyClock \in Start - MaxDrift .. MaxTime + MaxDrift
  /\ Apart(serverClock, partyClock) <= MaxDrift

Attested(g) ==
  /\ IsContent(g.receipt.content)
  /\ ~Incomplete(g.receipt.content)
  /\ ~Predates(g.receipt.content)
  /\ g.receipt.content.timestamp >= 0

Contents ==
  /\ Clocks
  /\ signingKey \in [Servers -> Keys]
  /\ IsFiniteSet(documents) /\ Cardinality(documents) <= MaxReceipts
  /\ \A doc \in documents : IsContent(doc.receipt.content) /\ KeptOld(doc)
  /\ \A g \in signed : Attested(g)

LEMMA ContentsFirst == Init => Contents
<1> SUFFICES ASSUME Init PROVE Contents
  OBVIOUS
<1>1. Clocks
  BY TrustAssumption DEF Init, Clocks, Apart
<1>2. IsFiniteSet(documents) /\ Cardinality(documents) = 0
  BY FS_EmptySet DEF Init
<1> QED BY <1>1, <1>2, TrustAssumption DEF Init, Contents

LEMMA DraftIsContent ==
  ASSUME NEW trace, NEW verdict, NEW issuer, NEW audience, NEW action, NEW timestamp \in Int,
         NEW issued \in Int, NEW expires \in Int, NEW skew \in Nat, NEW body
  PROVE  LET draft == Draft(trace, verdict, issuer, audience, action, timestamp,
                            TimeBounds(issued, expires, skew), body) IN
           /\ IsContent(draft)
           /\ draft.trace = trace /\ draft.body = body
           /\ draft.timestamp = timestamp /\ draft.issued = issued
BY DEF Draft, TimeBounds, IsContent

\* Aligning moves the timestamp to issued_at, and changes nothing else.
LEMMA AlignedKeeps ==
  ASSUME NEW draft, IsContent(draft)
  PROVE  /\ IsContent(Aligned(draft))
         /\ Incomplete(Aligned(draft)) = Incomplete(draft)
         /\ Aligned(draft).issued = draft.issued
         /\ Aligned(draft).timestamp \in {draft.timestamp, draft.issued}
<1>1. CASE Aligned(draft) = draft
  BY <1>1
<1>2. CASE Aligned(draft) = [draft EXCEPT !.timestamp = draft.issued]
  <2> DEFINE d == [trace |-> draft.trace, version |-> draft.version, verdict |-> draft.verdict,
                   issuer |-> draft.issuer, audience |-> draft.audience, action |-> draft.action,
                   timestamp |-> draft.issued, issued |-> draft.issued,
                   expires |-> draft.expires, skew |-> draft.skew, body |-> draft.body]
  <2>1. Aligned(draft) = d
    BY <1>2 DEF IsContent
  <2>2. IsContent(d)
    BY DEF IsContent
  <2>3. Incomplete(d) = Incomplete(draft)
    BY DEF Incomplete
  <2>4. d.issued = draft.issued /\ d.timestamp = draft.issued
    OBVIOUS
  <2> HIDE DEF d
  <2> QED BY <2>1, <2>2, <2>3, <2>4
<1> QED BY <1>1, <1>2 DEF Aligned

LEMMA DocumentsGrow ==
  ASSUME Contents, Cardinality(documents) < MaxReceipts, NEW doc, documents' = documents \cup {doc}
  PROVE  IsFiniteSet(documents') /\ Cardinality(documents') <= MaxReceipts
<1>1. /\ IsFiniteSet(documents')
      /\ Cardinality(documents') \in {Cardinality(documents), Cardinality(documents) + 1}
  BY FS_AddElement DEF Contents
<1>2. Cardinality(documents) \in Nat
  BY FS_CardinalityType DEF Contents
<1> QED BY <1>1, <1>2, TrustAssumption DEF Contents

LEMMA DocumentKeepsContents ==
  ASSUME Contents, UNCHANGED <<serverClock, partyClock, signingKey, signed>>,
         Cardinality(documents) < MaxReceipts, NEW doc, documents' = documents \cup {doc},
         IsContent(doc.receipt.content), KeptOld(doc)
  PROVE  Contents'
<1>1. (\A d \in documents : IsContent(d.receipt.content) /\ KeptOld(d))'
  BY DEF Contents, KeptOld, IsContent
<1> QED BY <1>1, DocumentsGrow DEF Contents, Clocks, Attested

LEMMA BuildsKeepsContents ==
  ASSUME Contents, NEW s \in Servers, NEW draft, IsContent(draft), IsDated(draft), NEW key,
         Builds(s, draft, key)
  PROVE  Contents'
<1> DEFINE r == Built(draft, key)
           g == [server |-> s, key |-> key, receipt |-> r]
<1>1. /\ documents' = documents \cup {ToDict(r)}
      /\ signed' = IF key = NoKey THEN signed ELSE signed \cup {g}
      /\ UNCHANGED <<serverClock, partyClock, signingKey>>
      /\ Cardinality(documents) < MaxReceipts
  BY DEF Builds, clocks
<1>2. IsFiniteSet(documents') /\ Cardinality(documents') <= MaxReceipts
  BY <1>1, DocumentsGrow
<1>3. r.content = Aligned(draft)
  BY SignFields, Zenon DEF Built, Unsigned, Receipt, Sign
<1>4. IsContent(r.content)
  BY <1>3, AlignedKeeps
<1>5. ToDict(r).receipt = r /\ ToDict(r).names = "new"
  BY DEF ToDict
<1>6. key # NoKey => Attested(g)
  <2> SUFFICES ASSUME key # NoKey PROVE Attested(g)
    OBVIOUS
  <2>1. ~Incomplete(draft) /\ ~Predates(Aligned(draft))
    BY DEF Builds, BuildRaises
  <2>2. ~Incomplete(r.content) /\ ~Predates(r.content)
    BY <1>3, <2>1, AlignedKeeps
  <2>3. r.content.timestamp >= 0
    <3>1. /\ r.content.issued = draft.issued
          /\ r.content.timestamp \in {draft.timestamp, draft.issued}
      BY <1>3, AlignedKeeps
    <3>2. draft.issued > 0 => r.content.timestamp >= draft.issued
      BY <1>4, <2>2, <3>1 DEF Predates, IsContent
    <3>3. draft.issued <= 0 => Aligned(draft) = draft
      BY DEF Aligned, IsContent
    <3> QED BY <1>3, <1>4, <3>1, <3>2, <3>3 DEF IsDated, IsContent
  <2> QED BY <1>4, <2>2, <2>3 DEF Attested
<1> HIDE DEF r, g
<1>7. (\A doc \in documents : IsContent(doc.receipt.content) /\ KeptOld(doc))'
  BY <1>1, <1>4, <1>5 DEF Contents, KeptOld, IsContent
<1>8. (\A h \in signed : Attested(h))'
  BY <1>1, <1>6 DEF Contents, Attested
<1> QED BY <1>1, <1>2, <1>7, <1>8 DEF Contents, Clocks

LEMMA AttestsKeepsContents ==
  ASSUME Contents, NEW s \in Servers, Attests(s)
  PROVE  Contents'
<1>1. PICK trace \in Traces, body \in Bodies, verdict \in {"allow", "deny"}, jitter \in Jitters :
        Builds(s, Draft(trace, verdict, IssuerOf[s], "ok", "ok", serverClock + jitter,
                        ServerBounds, body), signingKey[s])
  BY DEF Attests
<1>2. /\ serverClock + jitter \in Int /\ serverClock - ClockSkew \in Int
      /\ serverClock + Validity \in Int /\ ClockSkew \in Nat /\ serverClock - ClockSkew > 0
  BY TrustAssumption DEF Contents, Clocks
<1> DEFINE draft == Draft(trace, verdict, IssuerOf[s], "ok", "ok", serverClock + jitter,
                          ServerBounds, body)
<1>3. IsContent(draft) /\ draft.issued = serverClock - ClockSkew
  BY <1>2, DraftIsContent DEF ServerBounds
<1>4. IsDated(draft)
  BY <1>2, <1>3 DEF IsDated
<1> HIDE DEF draft
<1> QED BY <1>1, <1>3, <1>4, BuildsKeepsContents DEF draft

LEMMA OwnKeepsContents ==
  ASSUME Contents, NEW s \in Servers, BuildsOwn(s)
  PROVE  Contents'
<1>1. serverClock \in Nat /\ ClockSkew \in Nat /\ Validity \in Nat /\ OneSecond \in Nat
  BY TrustAssumption, ReceiptAssumption DEF Contents, Clocks
<1>2. PICK issued \in {0} \cup serverClock .. serverClock + OneSecond,
           expires \in {0, serverClock + Validity} :
        \E issuer, verdict, key :
          Builds(s, Draft("ok", verdict, issuer, "ok", "ok", serverClock,
                          TimeBounds(issued, expires, ClockSkew), "ok"), key)
  <2>1. PICK issuer \in {"", IssuerOf[s]}, issued \in {0} \cup serverClock .. serverClock + OneSecond,
             expires \in {0, serverClock + Validity}, verdict \in {"allow", "deny"},
             key \in {NoKey, signingKey[s]} :
          Builds(s, Draft("ok", verdict, issuer, "ok", "ok", serverClock,
                          TimeBounds(issued, expires, ClockSkew), "ok"), key)
    BY DEF BuildsOwn
  <2>2. \E issuer0, verdict0, key0 :
          Builds(s, Draft("ok", verdict0, issuer0, "ok", "ok", serverClock,
                          TimeBounds(issued, expires, ClockSkew), "ok"), key0)
    BY <2>1, Zenon
  <2> QED BY <2>2, Zenon
<1>3. PICK issuer, verdict, key :
        Builds(s, Draft("ok", verdict, issuer, "ok", "ok", serverClock,
                        TimeBounds(issued, expires, ClockSkew), "ok"), key)
  BY <1>2
<1>4. issued \in Int
  <2>1. CASE issued = 0
    BY <2>1
  <2>2. CASE issued \in serverClock .. serverClock + OneSecond
    BY <1>1, <2>2
  <2> QED BY <2>1, <2>2
<1>5. expires \in Int
  BY <1>1
<1> DEFINE draft == Draft("ok", verdict, issuer, "ok", "ok", serverClock,
                          TimeBounds(issued, expires, ClockSkew), "ok")
<1>6. IsContent(draft) /\ draft.timestamp = serverClock
  BY <1>1, <1>4, <1>5, DraftIsContent
<1>7. IsDated(draft)
  BY <1>1, <1>6 DEF IsDated
<1> HIDE DEF draft
<1> QED BY <1>3, <1>6, <1>7, BuildsKeepsContents DEF draft

LEMMA OldKeepsContents ==
  ASSUME Contents, NEW s \in Servers, KeptFromOld(s)
  PROVE  Contents'
<1> DEFINE draft == Draft("ok", "allow", IssuerOf[s], "ok", "ok", serverClock, ServerBounds, "ok")
           doc == ToOldDict(draft, signingKey[s])
<1>1. /\ documents' = documents \cup {doc}
      /\ UNCHANGED <<serverClock, partyClock, signingKey, signed>>
      /\ Cardinality(documents) < MaxReceipts
  BY DEF KeptFromOld, clocks
<1>2. IsContent(draft) /\ draft.trace = "ok" /\ draft.body = "ok"
  <2>1. /\ serverClock \in Int /\ serverClock - ClockSkew \in Int
        /\ serverClock + Validity \in Int /\ ClockSkew \in Nat
    BY TrustAssumption DEF Contents, Clocks
  <2> QED BY <2>1, DraftIsContent DEF ServerBounds
<1> HIDE DEF draft
<1>3. doc.receipt.content = draft
  BY DEF ToOldDict, Receipt
<1>4. \E payload \in doc.receipt.signature.payload : payload.names = "v1.1.6"
  BY DEF ToOldDict, Receipt, Signature, SigningPayload
<1> HIDE DEF doc
<1>5. IsContent(doc.receipt.content) /\ KeptOld(doc)
  BY <1>2, <1>3, <1>4 DEF KeptOld
<1> QED BY <1>1, <1>5, DocumentKeepsContents

\* Damage leaves what a document of v1.1.6 is read by, and the payload of its
\* signature unless the signature goes.
LEMMA DamageKeepsContents ==
  ASSUME Provenance, Contents, NEW doc \in documents, IsDamaged(doc)
  PROVE  Contents'
<1>1. PICK other \in Damaged(doc) : documents' = documents \cup {other}
  BY DEF IsDamaged
<1>2. /\ UNCHANGED <<serverClock, partyClock, signingKey, signed>>
      /\ Cardinality(documents) < MaxReceipts
  BY DEF IsDamaged, clocks
<1> DEFINE r == doc.receipt
           c == doc.receipt.content
<1>3. /\ doc = [names |-> doc.names, unknown |-> doc.unknown, receipt |-> r]
      /\ r = [content |-> c, alg |-> r.alg, fp |-> r.fp, key |-> r.key, signature |-> r.signature]
      /\ r.signature = [by |-> r.signature.by, payload |-> r.signature.payload,
                        text |-> r.signature.text]
  BY DEF Provenance, IsDocument, IsReceipt
<1>4. IsContent(c) /\ KeptOld(doc)
  BY DEF Contents
<1> HIDE DEF r, c
<1> DEFINE Kept == IsContent(other.receipt.content) /\ KeptOld(other)
<1>5. ASSUME \E content \in {[c EXCEPT !.verdict = "allow"], [c EXCEPT !.expires = @ + 1]} :
             other = [doc EXCEPT !.receipt = [r EXCEPT !.content = content]]
      PROVE  Kept
  <2>1. PICK content \in {[c EXCEPT !.verdict = "allow"], [c EXCEPT !.expires = @ + 1]} :
          other = [doc EXCEPT !.receipt = [r EXCEPT !.content = content]]
    BY <1>5
  <2>2. IsContent(content) /\ content.trace = c.trace /\ content.body = c.body
    BY <1>4 DEF IsContent
  <2>3. /\ other.receipt.content = content /\ other.names = doc.names
        /\ other.receipt.signature = r.signature
    BY <1>3, <2>1
  <2>4. IsContent(other.receipt.content) /\ KeptOld(other)
    BY <1>4, <2>2, <2>3 DEF KeptOld, r, c
  <2> QED BY <2>4
<1>6. ASSUME other = [doc EXCEPT !.unknown = TRUE]
      PROVE  Kept
  <2>1. other.receipt = r /\ other.names = doc.names
    BY <1>3, <1>6
  <2> QED BY <1>4, <2>1 DEF KeptOld, r, c
<1>7. ASSUME other = [doc EXCEPT !.receipt = [r EXCEPT !.signature = Absent]]
      PROVE  Kept
  <2>1. /\ other.receipt.content = c /\ other.names = doc.names
        /\ other.receipt.signature = Absent
    BY <1>3, <1>7
  <2> QED BY <1>4, <2>1 DEF KeptOld, r, c
<1>8. ASSUME /\ other = [doc EXCEPT !.receipt =
                           [r EXCEPT !.signature = [r.signature EXCEPT !.text = "other"]]]
             /\ r.signature \notin {NoSignature, Absent}
      PROVE  Kept
  <2>1. /\ other.receipt.content = c /\ other.names = doc.names
        /\ other.receipt.signature.payload = r.signature.payload
    BY <1>3, <1>8
  <2> QED BY <1>4, <1>8, <2>1 DEF KeptOld, r, c
<1>9. Kept
  <2>1. \/ \E content \in {[c EXCEPT !.verdict = "allow"], [c EXCEPT !.expires = @ + 1]} :
             other = [doc EXCEPT !.receipt = [r EXCEPT !.content = content]]
        \/ other = [doc EXCEPT !.unknown = TRUE]
        \/ other = [doc EXCEPT !.receipt = [r EXCEPT !.signature = Absent]]
        \/ /\ other = [doc EXCEPT !.receipt =
                         [r EXCEPT !.signature = [r.signature EXCEPT !.text = "other"]]]
           /\ r.signature \notin {NoSignature, Absent}
    BY DEF Damaged, r, c
  <2> QED BY <2>1, <1>5, <1>6, <1>7, <1>8
<1> QED BY <1>1, <1>2, <1>9, DocumentKeepsContents

LEMMA OthersKeepContents ==
  ASSUME Contents, UNCHANGED <<documents, signed>>, Clocks', signingKey' \in [Servers -> Keys]
  PROVE  Contents'
BY DEF Contents, Attested, KeptOld

LEMMA StepKeepsContents == Provenance /\ Contents /\ [Next]_vars => Contents'
<1> SUFFICES ASSUME Provenance, Contents, [Next]_vars PROVE Contents'
  OBVIOUS
<1>1. CASE \E s \in Servers : Attests(s) \/ BuildsOwn(s) \/ KeptFromOld(s)
  BY <1>1, AttestsKeepsContents, OwnKeepsContents, OldKeepsContents
<1>2. CASE \E s \in Servers : Rekeys(s)
  <2>1. UNCHANGED <<serverClock, partyClock>> /\ UNCHANGED <<documents, signed>>
    BY <1>2 DEF Rekeys, clocks
  <2>2. signingKey' \in [Servers -> Keys]
    BY <1>2, TrustAssumption DEF Rekeys, Contents
  <2>3. Clocks'
    BY <2>1 DEF Contents, Clocks
  <2> QED BY <2>1, <2>2, <2>3, OthersKeepContents
<1>3. CASE \E s \in Servers : FetchesKey(s) \/ ClientCloses(s) \/ ClientChecks(s)
  <2>1. UNCHANGED <<serverClock, partyClock>> /\ UNCHANGED <<documents, signed, signingKey>>
    BY <1>3 DEF FetchesKey, ClientCloses, ClientChecks, clocks
  <2>2. Clocks' /\ signingKey' \in [Servers -> Keys]
    BY <2>1 DEF Contents, Clocks
  <2> QED BY <2>1, <2>2, OthersKeepContents
<1>4. CASE \E doc \in documents : IsDamaged(doc)
  BY <1>4, DamageKeepsContents
<1>5. CASE (\E anchor \in Anchors : Pins(anchor)) \/ Unpins \/ UNCHANGED vars
  <2>1. UNCHANGED <<serverClock, partyClock>> /\ UNCHANGED <<documents, signed, signingKey>>
    BY <1>5 DEF Pins, Unpins, vars, clocks
  <2>2. Clocks' /\ signingKey' \in [Servers -> Keys]
    BY <2>1 DEF Contents, Clocks
  <2> QED BY <2>1, <2>2, OthersKeepContents
<1>6. CASE Ticks
  <2>1. Clocks'
    BY <1>6, TrustAssumption DEF Ticks, Contents, Clocks, Apart
  <2> QED BY <1>6, <2>1, OthersKeepContents DEF Ticks, Contents
<1> QED BY <1>1, <1>2, <1>3, <1>4, <1>5, <1>6 DEF Next

LEMMA AlwaysContents == Spec => [](Provenance /\ Contents)
<1>1. Init => Provenance /\ Contents
  BY ProvenanceFirst, ContentsFirst
<1>2. Provenance /\ Contents /\ [Next]_vars => (Provenance /\ Contents)'
  BY StepKeepsProvenance, StepKeepsContents
<1> QED BY <1>1, <1>2, PTL DEF Spec
-----------------------------------------------------------------------------
\* The clocks, keys, anchors and documents keep their types.
THEOREM ReceiptTypes == Spec => []TypeOK
<1>1. Provenance /\ Contents => TypeOK
  <2> SUFFICES ASSUME Provenance, Contents PROVE TypeOK
    OBVIOUS
  <2>1. ASSUME NEW g \in signed
        PROVE  /\ g.server \in Servers /\ g.key \in KeysOf[g.server]
               /\ g.receipt.content.expires \in Nat \ {0} /\ g.receipt.content.timestamp \in Nat
    <3>1. Attested(g) /\ IsSigned(g)
      BY DEF Contents, Provenance
    <3>2. g.receipt.content.expires \in Int /\ g.receipt.content.timestamp \in Int
      BY <3>1 DEF Attested, IsContent
    <3>3. ~(g.receipt.content.expires <= 0) /\ g.receipt.content.timestamp >= 0
      BY <3>1 DEF Attested, Incomplete
    <3> QED BY <3>1, <3>2, <3>3 DEF IsSigned
  <2> QED BY <2>1 DEF Provenance, Contents, Clocks, TypeOK
<1> QED BY <1>1, AlwaysContents, PTL

\* Refused too early or accepted too late by no more than the skew on either
\* side, for any clocks, validity and skew.
THEOREM ExpiryIsTheIssuers == Spec => []ExpiryFollowsIssuer
<1>1. Provenance /\ Contents => ExpiryFollowsIssuer
  <2> SUFFICES ASSUME Provenance, Contents, NEW doc \in documents, NEW r \in FromDict(doc, FALSE),
                      Apart(serverClock, partyClock) <= r.content.skew,
                      r.content.expires > 0
               PROVE  /\ Trusts(r).reason = "receipt_expired" => serverClock >= r.content.expires
                      /\ Trusts(r).accepted =>
                           serverClock <= r.content.expires + 2 * r.content.skew
    BY DEF ExpiryFollowsIssuer
  <2> DEFINE c == r.content
  <2>1. IsDocument(doc) /\ IsContent(doc.receipt.content)
    BY DEF Provenance, Contents
  <2>2. IsContent(c)
    <3>1. c = doc.receipt.content
      BY <2>1, FromDictKeeps
    <3> QED BY <2>1, <3>1
  <2>3. serverClock \in Int /\ partyClock \in Int
    BY TrustAssumption DEF Contents, Clocks
  <2>4. Expired(r, partyClock) => partyClock > c.expires + c.skew
    BY DEF Expired
  <2>5. ~Expired(r, partyClock) => ~(partyClock > c.expires + c.skew)
    BY DEF Expired
  <2>6. EvaluateTrust(r, partyClock).reason = "receipt_expired" => Expired(r, partyClock)
    BY DEF EvaluateTrust, Decision
  <2>7. EvaluateTrust(r, partyClock).accepted => ~Expired(r, partyClock)
    BY DEF EvaluateTrust, Decision
  <2>8. c.expires \in Int /\ c.skew \in Nat
    BY <2>2 DEF IsContent
  <2>9. /\ Trusts(r).reason = "receipt_expired" => partyClock > c.expires + c.skew
        /\ Trusts(r).accepted => ~(partyClock > c.expires + c.skew)
    BY <2>4, <2>5, <2>6, <2>7 DEF Trusts
  <2> HIDE DEF c
  <2>10. partyClock - serverClock <= c.skew /\ serverClock - partyClock <= c.skew
    BY <2>3, <2>8 DEF Apart, c
  <2> QED BY <2>3, <2>8, <2>9, <2>10 DEF c
<1> QED BY <1>1, AlwaysContents, PTL

\* What was signed has a signature, which verifies for a third party and under
\* the key it was made with.
LEMMA SignedVerifies ==
  ASSUME NEW g, IsSigned(g)
  PROVE  /\ IsReceipt(g.receipt) /\ g.receipt.key = g.key /\ g.receipt.fp = Fingerprint[g.key]
         /\ g.receipt.signature # NoSignature /\ g.receipt.signature # Absent
         /\ VerifySignature(g.receipt, NoKey) /\ VerifySignature(g.receipt, g.key)
<1> DEFINE r == g.receipt
<1>1. g.key \in Keys /\ g.key # NoKey
  BY TrustAssumption, ReceiptAssumption DEF IsSigned
<1>2. /\ IsReceipt(r) /\ r.alg = Algorithm /\ r.fp = Fingerprint[g.key] /\ r.key = g.key
      /\ r.signature = Signature(g.key, Payload(r.content, g.key))
  <2>1. r = Sign(r.content, g.key)
    BY DEF IsSigned
  <2> DEFINE c == r.content
  <2> HIDE DEF c
  <2> QED BY <2>1, SignFields DEF c
<1>3. SigningPayload(r) = Payload(r.content, g.key)
  BY <1>2 DEF SigningPayload, Payload
<1>4. /\ r.signature.by = g.key /\ r.signature.text = "canonical"
      /\ r.signature.payload = {SigningPayload(r)}
  BY <1>2, <1>3 DEF Signature
<1>5. r.signature # NoSignature /\ r.signature # Absent
  BY <1>4 DEF NoSignature, Absent
<1>6. VerifySignature(r, NoKey) /\ VerifySignature(r, g.key)
  BY <1>1, <1>2, <1>4, <1>5 DEF VerifySignature
<1> QED BY <1>2, <1>5, <1>6

\* A signed receipt in time, whose key is pinned, is refused only while another
\* key of its issuer stands before it, for any list of anchors.
THEOREM PinnedIsTrusted == Spec => []PinnedIsAccepted
<1>1. Provenance /\ Contents => PinnedIsAccepted
  <2> DEFINE Pinned(r) == {j \in DOMAIN anchors : anchors[j] = Anchor(r.content.issuer, r.key)}
  <2> SUFFICES ASSUME Provenance, Contents, NEW doc \in documents, NEW r \in FromDict(doc, FALSE),
                      NEW g \in signed, g.receipt = r,
                      r.content.expires > partyClock - r.content.skew,
                      NEW k \in Pinned(r),
                      ~Trusts(r).accepted
               PROVE  \E i \in Matching(r) :
                        anchors[i].key # r.key /\ \A j \in Pinned(r) : i < j
    BY DEF PinnedIsAccepted
  <2>1. IsSigned(g) /\ Attested(g)
    BY DEF Provenance, Contents
  <2>2. VerifySignature(r, NoKey) /\ r.fp = Fingerprint[r.key]
    BY <2>1, SignedVerifies
  <2>3. ~Expired(r, partyClock)
    <3>1. r.content.expires \in Int /\ r.content.skew \in Nat
      BY <2>1 DEF Attested, IsContent
    <3>2. partyClock \in Int
      BY TrustAssumption DEF Contents, Clocks
    <3> QED BY <3>1, <3>2 DEF Expired
  <2>4. Pinned(r) \subseteq Matching(r)
    BY DEF Matching, Anchor
  <2>5. PICK i \in DOMAIN anchors :
          /\ FirstAnchor(r) = anchors[i] /\ anchors[i].issuer = r.content.issuer
          /\ \A j \in Matching(r) : i <= j
    BY <2>4, FirstIsMatching DEF Provenance
  <2>6. anchors[i].key # r.key
    <3> SUFFICES ASSUME anchors[i].key = r.key PROVE FALSE
      OBVIOUS
    <3>1. anchors[i] = Anchor(r.content.issuer, r.key)
      BY <2>5, AnchorsAreWhole DEF Provenance
    <3>2. FirstAnchor(r).fp = r.fp /\ FirstAnchor(r).key = r.key
      BY <2>2, <2>5, <3>1 DEF Anchor
    <3>3. Matching(r) # {}
      BY <2>4
    <3>4. EvaluateTrust(r, partyClock) = Decision(TRUE, TRUE, "ok")
      BY <2>2, <2>3, <3>2, <3>3 DEF EvaluateTrust
    <3> QED BY <3>4 DEF Trusts, Decision
  <2>7. ASSUME NEW j \in Pinned(r) PROVE i < j
    <3>1. j # i
      BY <2>6 DEF Anchor
    <3>2. i <= j
      BY <2>4, <2>5
    <3>3. i \in Int /\ j \in Int
      BY DEF Provenance
    <3> QED BY <3>1, <3>2, <3>3
  <2> QED BY <2>5, <2>6, <2>7 DEF Matching
<1> QED BY <1>1, AlwaysContents, PTL

\* What was signed is complete and verifies, whatever the clock did in between;
\* it is read back as it was signed, or not at all when a field is empty or long.
THEOREM SignedWasConsistent == Spec => []SignedIsConsistent
<1>1. Provenance /\ Contents => SignedIsConsistent
  <2> DEFINE Unreadable(r) == r.content.trace \in {"", "long"} \/ r.content.body = "long"
  <2> SUFFICES ASSUME Provenance, Contents, NEW g \in signed
               PROVE  /\ ~Incomplete(g.receipt.content)
                      /\ ~Predates(g.receipt.content)
                      /\ VerifySignature(g.receipt, NoKey) /\ VerifySignature(g.receipt, g.key)
                      /\ \A strict \in BOOLEAN :
                           FromDict(ToDict(g.receipt), strict) =
                             IF Unreadable(g.receipt) THEN {} ELSE {g.receipt}
    BY DEF SignedIsConsistent
  <2> DEFINE r == g.receipt
  <2>1. Attested(g) /\ IsSigned(g)
    BY DEF Contents, Provenance
  <2>2. /\ IsReceipt(r)
        /\ r.signature # NoSignature /\ r.signature # Absent
        /\ VerifySignature(r, NoKey) /\ VerifySignature(r, g.key)
    BY <2>1, SignedVerifies
  <2>3. ASSUME NEW strict \in BOOLEAN
        PROVE  FromDict(ToDict(r), strict) = IF Unreadable(r) THEN {} ELSE {r}
    <3> DEFINE doc == ToDict(r)
    <3>1. doc.receipt = r /\ doc.unknown = FALSE
      BY DEF ToDict
    <3>2. r.content.version = Version
      BY <2>1 DEF Attested, IsContent
    <3> HIDE DEF doc
    <3>3. FromDictRaises(doc, strict) <=> Unreadable(r)
      BY <2>2, <3>1, <3>2 DEF FromDictRaises
    <3>4. [r EXCEPT !.signature = IF r.signature = Absent THEN NoSignature ELSE r.signature] = r
      BY <2>2 DEF IsReceipt
    <3> HIDE DEF r, Unreadable
    <3>5. FromDict(doc, strict) = IF FromDictRaises(doc, strict) THEN {} ELSE {r}
      BY <3>1, <3>4 DEF FromDict
    <3> QED BY <3>3, <3>5 DEF doc
  <2> QED BY <2>1, <2>2, <2>3 DEF Attested
<1> QED BY <1>1, AlwaysContents, PTL

\* Old documents are read; no key verifies what v1.1.6 signed.
THEOREM OldNeverVerifies == Spec => []OldIsReadNotVerified
<1>1. Provenance /\ Contents => OldIsReadNotVerified
  <2> SUFFICES ASSUME Provenance, Contents, NEW doc \in documents,
                      doc.names = "old", doc.receipt.signature # Absent
               PROVE  /\ FromDict(doc, FALSE) # {}
                      /\ \A r \in FromDict(doc, FALSE) : \A k : ~VerifySignature(r, k)
    BY DEF OldIsReadNotVerified
  <2>1. IsDocument(doc) /\ KeptOld(doc)
    BY DEF Provenance, Contents
  <2>2. PICK payload \in doc.receipt.signature.payload : payload.names = "v1.1.6"
    BY <2>1 DEF KeptOld
  <2>3. FromDict(doc, FALSE) # {}
    <3>1. doc.receipt.content.trace = "ok" /\ doc.receipt.content.body = "ok"
      BY <2>1 DEF KeptOld
    <3>2. doc.receipt.signature # NoSignature
      BY <2>2 DEF NoSignature
    <3> QED BY <3>1, <3>2 DEF FromDict, FromDictRaises
  <2>4. ASSUME NEW r \in FromDict(doc, FALSE), NEW k, VerifySignature(r, k) PROVE FALSE
    <3>1. r.signature.payload = doc.receipt.signature.payload
      BY <2>1, FromDictKeeps
    <3>2. SigningPayload(r).names = "v1.1.7"
      BY DEF SigningPayload
    <3> QED BY <2>2, <2>4, <3>1, <3>2 DEF VerifySignature
  <2> QED BY <2>3, <2>4
<1> QED BY <1>1, AlwaysContents, PTL
=============================================================================
