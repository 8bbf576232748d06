--------------------------- MODULE MCCqsaForward ---------------------------
(* CqsaForward with more paths than streams, one of them empty.            *)
EXTENDS CqsaForward

NoTokens == {1}

=============================================================================
