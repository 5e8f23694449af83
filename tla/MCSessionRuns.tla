--------------------------- MODULE MCSessionRuns ---------------------------
(***************************************************************************)
(* Three call ids between the requests; every message weighs one token.    *)
(***************************************************************************)
EXTENDS SessionRuns

MCCallIds == 1..3
MCTokens(transcript) == Len(transcript)

=============================================================================
