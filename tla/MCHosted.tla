------------------------------ MODULE MCHosted ------------------------------
(***************************************************************************)
(* What the daemon hosts for others: the sandboxes of its runs             *)
(* (Sandboxes), the shells of its users (Terminal) and the MCP server      *)
(* processes whose tools it offers (McpHost).                              *)
(*                                                                         *)
(* A shell in a box is one of the registry's terminals; of it Sandboxes    *)
(* keeps that it is there and Terminal what its watchers are sent.  So a   *)
(* behaviour is of one of the three: `focus` says of which, and the others *)
(* stay as they began.                                                     *)
(***************************************************************************)
EXTENDS Sandboxes

CONSTANTS
    Clients, Retained, Capacity, MaxChunks,
    McpCalls, Probes, MaxRestarts, MaxChildren

ASSUME HostedAssumption ==
    /\ Retained \in Nat /\ Capacity \in Nat /\ MaxChunks \in Nat
    /\ MaxRestarts \in Nat /\ MaxChildren \in Nat
    /\ None \notin Nat \cup McpCalls

VARIABLES focus

VARIABLES kind, registered, shell, reader, printed, sent, exited, stopping,
          at, next, seen, lagged
shellVars == <<kind, registered, shell, reader, printed, sent, exited, stopping,
               at, next, seen, lagged>>
Shell == INSTANCE Terminal

VARIABLES st, restarting, spent, alive, made, hostPc, mine, listed, catalogue
hostVars == <<st, restarting, spent, alive, made, hostPc, mine, listed, catalogue>>
Host == INSTANCE McpHost WITH Calls <- McpCalls, pc <- hostPc

-----------------------------------------------------------------------------
MCInit ==
    /\ focus \in {"boxes", "shell", "host"}
    /\ Init /\ Shell!Init /\ Host!Init
    /\ focus # "shell" => kind = "local"
    /\ focus # "host" => st = Host!Is("Down")

MCNext ==
    /\ \/ focus = "boxes" /\ Next       /\ UNCHANGED <<shellVars, hostVars>>
       \/ focus = "shell" /\ Shell!Next /\ UNCHANGED <<vars, hostVars>>
       \/ focus = "host"  /\ Host!Next  /\ UNCHANGED <<vars, shellVars>>
    /\ UNCHANGED focus

MCSpec ==
    /\ MCInit /\ [][MCNext]_<<vars, shellVars, hostVars, focus>>
    /\ Fairness /\ Shell!Fairness /\ Host!Fairness

\* Scrollback and live frames leave no hole a client is not told of (terminal_ws.rs).
NoHoleUnlessTold == Shell!NoHoleUnlessTold

\* A shell that ends is seen to end by those attached (terminal.rs, spawn).
AttachedSeeTheEnd == Shell!AttachedSeeTheEnd

\* No MCP server's process runs twice or unaccounted for (host.rs, ensure_up).
ChildrenAccountedFor == Host!ChildrenAccountedFor

\* A dead or wedged MCP server never wedges a run (host.rs, call).
EveryMcpCallReturns == Host!EveryCallReturns

=============================================================================
