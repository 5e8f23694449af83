----------------------------- MODULE MCConsent -----------------------------
(***************************************************************************)
(* The approval session in its three hands: a run's, behind the call gate  *)
(* (CallGate); a chat's, driven through its whole interface in any order   *)
(* (ApprovalSession); and the MCP server's, where calls meet on the lock   *)
(* and nobody answers (McpServer).                                         *)
(*                                                                         *)
(* No session is in two hands, so a behaviour is of one of them: `focus`   *)
(* says of which, and the others stay as they began.                       *)
(***************************************************************************)
EXTENDS MCCallGate, FiniteSets

CONSTANTS MaxAsks, MaxAuto, ServerCalls, ChatLevel, ServerLevel

VARIABLES focus

VARIABLES chatSession, chatNow, held, asks, last, unreviewed, yesAt, granted
chatVars == <<chatSession, chatNow, held, asks, last, unreviewed, yesAt, granted>>

Chat == INSTANCE ApprovalSession WITH
    InitialLevel <- ChatLevel, session <- chatSession, now <- chatNow

VARIABLES serverSession, serverPc, serverAsks, serverStats
serverVars == <<serverSession, serverPc, serverAsks, serverStats>>

Server == INSTANCE McpServer WITH
    Level <- ServerLevel, Calls <- ServerCalls, Uncovered <- Actions \ Capable,
    approvals <- serverSession, pc <- serverPc, asks <- serverAsks, stats <- serverStats

\* The levels a chat and the server start at; the server has been sent so many calls.
ASSUME ConsentAssumption ==
    /\ ChatLevel \in AutonomyLevel
    /\ ServerLevel \in AutonomyLevel
    /\ IsFiniteSet(ServerCalls)

-----------------------------------------------------------------------------
MCInit ==
    /\ focus \in {"gate", "chat", "server"}
    /\ Init /\ Chat!Init /\ Server!Init
    /\ focus # "gate" => asLevel = "balanced" /\ approver = "ApprovalQueue"

MCNext ==
    /\ \/ focus = "gate"   /\ Next        /\ UNCHANGED <<chatVars, serverVars>>
       \/ focus = "chat"   /\ Chat!Next   /\ UNCHANGED <<vars, serverVars>>
       \/ focus = "server" /\ Server!Next /\ UNCHANGED <<vars, chatVars>>
    /\ UNCHANGED focus

MCSpec == MCInit /\ [][MCNext]_<<vars, chatVars, serverVars, focus>> /\ Fairness

\* Rules outrank what is remembered (approval.rs, decide).
RulesOutrankMemory == Chat!RulesOutrankMemory

\* At most Budget unreviewed actions between two reviews (approval.rs, decide), and a
\* yes given under a scoped grant dies with it (drop_expired).
LenienceIsBounded == Chat!LenienceIsBounded

\* The MCP server leaves no question behind a refusal (server.rs, call).
NothingLeftToAnswer == Server!NothingLeftToAnswer

=============================================================================
