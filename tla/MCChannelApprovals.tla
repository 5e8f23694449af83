------------------------- MODULE MCChannelApprovals -------------------------
(***************************************************************************)
(* Two questions on the queue, or one asked in a chat, at a risk every      *)
(* surface may answer and at one only some may.                            *)
(***************************************************************************)
EXTENDS ChannelApprovals

MCRisks == {External, Privileged}
MCCeilings == {External, Privileged}
MCChannelCeiling == External
MCScopes == [chat : Chats, thread : Threads]

\* Bound: a question asked in a chat, or tapped, has the queue to itself.
\* Questions meet only on the map, which the direct ones show.
ChannelAlone ==
    (taken > 0 \/ \E a \in Asks : post[a] # Nobody) =>
        Cardinality({a \in Asks : pc[a] # "idle" \/ post[a] # Nobody}) <= 1

MCNext == ChannelNext /\ ChannelAlone'

MCSpec == Init /\ InitChannel /\ [][MCNext]_allVars /\ ChannelFairness

=============================================================================
