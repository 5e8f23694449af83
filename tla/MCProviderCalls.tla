-------------------------- MODULE MCProviderCalls --------------------------
(***************************************************************************)
(* Three calls against one key: a minute bucket of two requests and four   *)
(* tokens, two days of two ticks.  One estimate is larger than the token   *)
(* bucket, one response dearer than any reservation.                       *)
(***************************************************************************)
EXTENDS ProviderCalls, TLC

MCEstimates == {[tokens |-> 2, usd |-> 1], [tokens |-> 6, usd |-> 2]}
MCUsages == {[tokens |-> 1, usd |-> 0], [tokens |-> 5, usd |-> 3]}

Configured(rpm, tpm, rpd, usd, concurrent) ==
    [rpm |-> rpm, tpm |-> tpm, rpd |-> rpd, dailyUsd |-> usd, concurrent |-> concurrent,
     day |-> 0, spent |-> 0, inFlight |-> 0]

MCStart == Configured(NewBucket(2, 1, 0), NewBucket(4, 4, 0), NewBucket(3, 1, 0), 3, 2)
MCBudgetOnly == Configured(None, None, None, 2, None)

Symmetry == Permutations(Calls)

=============================================================================
