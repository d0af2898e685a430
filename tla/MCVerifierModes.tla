-------------------------- MODULE MCVerifierModes --------------------------
\* TLC instance of VerifierModes.
EXTENDS VerifierModes

Program(initial, requireOop, apis) == [mode |-> initial, requireOop |-> requireOop, apis |-> apis]

\* Every way to make a verifier with every method, and the synchronous program.
MCPrograms ==
  {Program(initial, requireOop, Methods \cup {"close"}) :
     initial \in Modes, requireOop \in BOOLEAN}
  \cup {Program("auto", FALSE, {"verify", "close"})}
MCAsync == {Program("auto", FALSE, {"averify"})}
=============================================================================
