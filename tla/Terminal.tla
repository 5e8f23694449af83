------------------------------ MODULE Terminal ------------------------------
(***************************************************************************)
(* A shell the daemon owns and several clients watch (hx-server terminal.rs*)
(* and terminal_ws.rs): a reader retains each chunk and then broadcasts    *)
(* it, a client subscribes and then takes the scrollback.  The shell is on *)
(* a local pty or behind a remote session.                                 *)
(*                                                                         *)
(* Chunks are numbered in the order printed.  Frame n of the broadcast is  *)
(* chunk n; the frame after the last chunk says that the shell exited.     *)
(***************************************************************************)
EXTENDS Integers

CONSTANTS
    Clients,     \* WebSocket attachments, one each
    Retained,    \* chunks the scrollback keeps
    Capacity,    \* frames the broadcast channel keeps
    MaxChunks,   \* bound: chunks printed
    None

VARIABLES
    kind,        \* TerminalBackend: "local" or "remote"
    registered,  \* Terminals has it under its id
    shell,       \* "running" or "ended"
    reader,      \* the reader thread or pump: "read", "send", "over", "aborted"
    printed,     \* chunks retained so far
    sent,        \* chunks broadcast so far
    exited,      \* the Exited frame was broadcast
    stopping,    \* stop_remote: "no", "close", "abort", "done"
    at, next,    \* of each client: where it is, the frame it reads next
    seen, lagged \* of each client: chunks it was sent, whether it was told of a hole

vars == <<kind, registered, shell, reader, printed, sent, exited, stopping, at, next,
          seen, lagged>>

clients == <<at, next, seen, lagged>>

TypeOK ==
    /\ kind \in {"local", "remote"} /\ shell \in {"running", "ended"}
    /\ registered \in BOOLEAN /\ exited \in BOOLEAN
    /\ reader \in {"read", "send", "over", "aborted"}
    /\ printed \in 0..MaxChunks /\ sent \in 0..printed
    /\ stopping \in {"no", "close", "abort", "done"}
    /\ at \in [Clients -> {"idle", "upgraded", "subscribed", "live", "ended"}]
    /\ next \in [Clients -> 1..MaxChunks + 2]
    /\ seen \in [Clients -> SUBSET (1..MaxChunks)]
    /\ lagged \in [Clients -> BOOLEAN]

Init ==
    /\ kind \in {"local", "remote"}
    /\ registered = TRUE
    /\ shell = "running"
    /\ reader = "read"
    /\ printed = 0 /\ sent = 0 /\ exited = FALSE
    /\ stopping = "no"
    /\ at = [c \in Clients |-> "idle"]
    /\ next = [c \in Clients |-> 1]
    /\ seen = [c \in Clients |-> {}]
    /\ lagged = [c \in Clients |-> FALSE]

-----------------------------------------------------------------------------
(* The reader of the pty, the pump of a remote session                     *)

Scrollback == {k \in 1..printed : k > printed - Retained}
Frames == sent + (IF exited THEN 1 ELSE 0)

\* A chunk is read and retained ...
Retain ==
    /\ reader = "read" /\ shell = "running"
    /\ printed < MaxChunks
    /\ printed' = printed + 1
    /\ reader' = "send"
    /\ UNCHANGED <<kind, registered, shell, sent, exited, stopping, clients>>

\* ... and then broadcast.
Broadcast ==
    /\ reader = "send"
    /\ sent' = sent + 1
    /\ reader' = "read"
    /\ UNCHANGED <<kind, registered, shell, printed, exited, stopping, clients>>

\* Mutant of EndOfFile: the reader stops without a word.
EndOfFileSilently ==
    /\ reader = "read" /\ shell = "ended"
    /\ reader' = "over"
    /\ UNCHANGED <<kind, registered, shell, printed, sent, exited, stopping, clients>>

EndOfFile ==
    /\ reader = "read" /\ shell = "ended"
    /\ exited' = TRUE
    /\ reader' = "over"
    /\ UNCHANGED <<kind, registered, shell, printed, sent, stopping, clients>>

Exit ==
    /\ shell = "running"
    /\ shell' = "ended"
    /\ UNCHANGED <<kind, registered, reader, printed, sent, exited, stopping, clients>>

-----------------------------------------------------------------------------
(* DELETE /v1/terminals/{id}                                               *)

Attached == {c \in Clients : at[c] \in {"subscribed", "live"}}

\* Everyone that holds the terminal's Arc, and with it the pty's master: the
\* registry, the clients, and the reader for as long as it reads.
Held == registered \/ Attached # {} \/ reader \in {"read", "send"}

Delete ==
    /\ registered
    /\ registered' = FALSE
    /\ stopping' = IF kind = "remote" THEN "close" ELSE stopping
    /\ UNCHANGED <<kind, shell, reader, printed, sent, exited, clients>>

\* The hang-up: the last Arc of a local terminal drops, or a remote session is
\* closed.
HangUp ==
    /\ IF kind = "local" THEN ~Held /\ stopping' = stopping
                         ELSE stopping = "close" /\ stopping' = "abort"
    /\ shell' = "ended"
    /\ UNCHANGED <<kind, registered, reader, printed, sent, exited, clients>>

\* The pump is stopped wherever it is.
Abort ==
    /\ stopping = "abort"
    /\ stopping' = "done"
    /\ reader' = IF reader = "over" THEN reader ELSE "aborted"
    /\ UNCHANGED <<kind, registered, shell, printed, sent, exited, clients>>

-----------------------------------------------------------------------------
(* terminal_ws                                                             *)

Move(c, l) == at' = [at EXCEPT ![c] = l]
daemon == <<kind, registered, shell, reader, printed, sent, exited, stopping>>

Upgrade(c) ==
    /\ at[c] = "idle" /\ registered
    /\ Move(c, "upgraded")
    /\ UNCHANGED <<daemon, next, seen, lagged>>

\* A terminal removed meanwhile reads as exited.
Subscribe(c) ==
    /\ at[c] = "upgraded"
    /\ Move(c, IF registered THEN "subscribed" ELSE "ended")
    /\ next' = [next EXCEPT ![c] = Frames + 1]
    /\ UNCHANGED <<daemon, seen, lagged>>

\* Mutant of Snapshot: the scrollback is the one from before the subscription.
SnapshotThenSubscribe(c) ==
    /\ at[c] = "subscribed"
    /\ Move(c, "live")
    /\ seen' = [seen EXCEPT ![c] = {k \in Scrollback : k < next[c]}]
    /\ next' = [next EXCEPT ![c] = Frames + 1]
    /\ UNCHANGED <<daemon, lagged>>

Snapshot(c) ==
    /\ at[c] = "subscribed"
    /\ Move(c, "live")
    /\ seen' = [seen EXCEPT ![c] = Scrollback]
    /\ UNCHANGED <<daemon, next, lagged>>

\* The oldest frame the channel still has.
Oldest == IF Frames > Capacity THEN Frames - Capacity + 1 ELSE 1

Deliver(c) ==
    /\ at[c] = "live"
    /\ next[c] =< Frames /\ next[c] >= Oldest
    /\ next' = [next EXCEPT ![c] = @ + 1]
    /\ IF next[c] =< sent
         THEN seen' = [seen EXCEPT ![c] = @ \cup {next[c]}] /\ UNCHANGED at
         ELSE Move(c, "ended") /\ UNCHANGED seen
    /\ UNCHANGED <<daemon, lagged>>

\* A client that fell behind is told, and goes on from the oldest frame.
Lag(c) ==
    /\ at[c] = "live"
    /\ next[c] < Oldest
    /\ next' = [next EXCEPT ![c] = Oldest]
    /\ lagged' = [lagged EXCEPT ![c] = TRUE]
    /\ UNCHANGED <<daemon, at, seen>>

\* The client leaves, or types at a shell that is gone.
Detach(c) ==
    /\ at[c] = "live"
    /\ Move(c, "ended")
    /\ UNCHANGED <<daemon, next, seen, lagged>>

Reading(c) == Upgrade(c) \/ Subscribe(c) \/ Snapshot(c) \/ Deliver(c) \/ Lag(c)

Next ==
    \/ Retain \/ Broadcast \/ EndOfFile \/ Exit \/ Delete \/ HangUp \/ Abort
    \/ \E c \in Clients : Reading(c) \/ Detach(c)

Fairness ==
    /\ WF_vars(Broadcast) /\ WF_vars(EndOfFile) /\ WF_vars(HangUp) /\ WF_vars(Abort)
    /\ \A c \in Clients : WF_vars(Subscribe(c) \/ Snapshot(c) \/ Deliver(c) \/ Lag(c))

Spec == Init /\ [][Next]_vars /\ Fairness

-----------------------------------------------------------------------------

\* No byte is lost between the scrollback and the live frames: from the first
\* chunk a client was sent up to where it has read, every chunk was sent to it,
\* unless it was told that it lagged.
NoHoleUnlessTold ==
    \A c \in Clients : at[c] = "live" /\ ~lagged[c] =>
        \A i \in seen[c] : \A k \in i..sent : k < next[c] => k \in seen[c]

\* A shell that ends is seen to end: every client attached to a local terminal
\* before the Exited frame gets it, or leaves, however far it lagged.
AttachedSeeTheEnd ==
    \A c \in Clients :
        (kind = "local" /\ at[c] = "live" /\ ~exited /\ shell = "ended") ~> at[c] = "ended"

\* What Terminals::remove says: the shell of a removed terminal is hung up once
\* the last client is gone.
RemovedShellEnds == (~registered /\ Attached = {}) ~> shell = "ended"

=============================================================================
