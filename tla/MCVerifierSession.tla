------------------------- MODULE MCVerifierSession -------------------------
\* TLC instance of VerifierSession.
EXTENDS VerifierSession, TLC

CONSTANTS t1, t2

MCCommands == Tasks \X (1 .. MaxCalls)

MCNone == {}
TaskSymmetry == Permutations(Tasks)
=============================================================================
