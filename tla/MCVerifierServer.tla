-------------------------- MODULE MCVerifierServer --------------------------
\* TLC instance of VerifierServer: an ordinary command, one whose params the
\* receipt builder refuses and one whose params cannot be hashed.
EXTENDS VerifierServer

CONSTANTS plain, unsafeInt, unhashable

MCCommands == {plain, unsafeInt, unhashable}
MCUnsignable == {unsafeInt}
MCUnhashable == {unhashable}
=============================================================================
