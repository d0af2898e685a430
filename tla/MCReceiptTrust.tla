--------------------------- MODULE MCReceiptTrust ---------------------------
\* TLC instance of ReceiptTrust.
EXTENDS ReceiptTrust, TLC

CONSTANTS k1, k2, k3, s1, s2

\* k1 and k3 share their fingerprint.
MCFingerprint == k1 :> 7 @@ k2 :> 8 @@ k3 :> 7
MCFingerprint2 == k1 :> 7 @@ k2 :> 8
MCOneIssuer == [s \in Servers |-> "ccs-verifier"]
MCKeysOf2 == s1 :> {k1, k2} @@ s2 :> {k3}
MCKeysOf1 == s1 :> {k1, k2}
MCJitters == -3 .. 1
MCNoJitter == {0}
=============================================================================
