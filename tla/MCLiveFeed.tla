----------------------------- MODULE MCLiveFeed -----------------------------
(***************************************************************************)
(* Rooms and streams only read what the writers leave in the store and on  *)
(* the bus, and no property relates one to the other.  So a behaviour is   *)
(* watched by one of the two, `focus` says by which: the writers and the   *)
(* runs go on in both, the other kind of watcher is left out.              *)
(***************************************************************************)
EXTENDS LiveFeed

VARIABLE focus

MCInit == Init /\ focus \in {"rooms", "streams"}

MCNext ==
    /\ Next
    /\ focus = "rooms" => (run' = run => feed' = feed)
    /\ focus = "streams" => room' = room
    /\ UNCHANGED focus

MCSpec == MCInit /\ [][MCNext]_<<vars, focus>>

=============================================================================
