----------------------------- MODULE MCAnswers -----------------------------
(***************************************************************************)
(* How a person is asked, answers and is answered away from the desk:      *)
(* questions on the queue and in a chat (ChannelApprovals), questions      *)
(* pushed to a phone (PhoneApprover), and the model's answer growing in a  *)
(* Telegram message (AnswerStream).                                        *)
(*                                                                         *)
(* The three share no state, so a behaviour is of one of them: `focus`     *)
(* says of which, and the others stay as they began.                       *)
(***************************************************************************)
EXTENDS MCChannelApprovals

CONSTANTS Pushes, Unit, MaxAttempts, Chunks, MaxChars, MaxGhosts

VARIABLES focus

VARIABLES phonePc, phoneRisk, waiting, delivered, phoneChan, phoneDue, phoneWaited, phoneDecision,
          tapped, late
phoneVars == <<phonePc, phoneRisk, waiting, delivered, phoneChan, phoneDue, phoneWaited, phoneDecision,
               tapped, late>>
Phone == INSTANCE PhoneApprover WITH
    Asks <- Pushes, pc <- phonePc, risk <- phoneRisk, chan <- phoneChan, due <- phoneDue,
    waited <- phoneWaited, decision <- phoneDecision

VARIABLES buffer, written, started, failed, message, write, answerPc, screen, ghosts, overtaken
answerVars == <<buffer, written, started, failed, message, write, answerPc, screen, ghosts,
                overtaken>>
Telegram == INSTANCE AnswerStream WITH pc <- answerPc, sent <- written

ASSUME AnswersAssumption ==
    /\ Chunks \subseteq Nat
    /\ None \notin Nat \cup Telegram!Verdicts \cup Telegram!Write

-----------------------------------------------------------------------------
AnswersInit ==
    /\ focus \in {"channel", "phone", "answer"}
    /\ Init /\ InitChannel /\ Phone!Init /\ Telegram!Init

AnswersNext ==
    /\ \/ focus = "channel" /\ MCNext       /\ UNCHANGED <<phoneVars, answerVars>>
       \/ focus = "phone"   /\ Phone!Next   /\ UNCHANGED <<allVars, answerVars>>
       \/ focus = "answer"  /\ Telegram!Next /\ UNCHANGED <<allVars, phoneVars>>
    /\ UNCHANGED focus

AnswersSpec ==
    /\ AnswersInit /\ [][AnswersNext]_<<allVars, phoneVars, answerVars, focus>>
    /\ ChannelFairness /\ Phone!Fairness

\* A yes from a phone needs the question's own push and token, and a tap in time
\* decides, even during the push (phone.rs, respond and decide).
TapDecidesItsQuestion == Phone!TapDecidesItsQuestion

\* The phone keeps the promise every waiting approver makes (phone.rs, decide).
PhonePromise == Phone!PromiseSpec

\* The whole answer is on the screen when stream_answer says so (telegram_stream.rs).
AnswerDelivered == Telegram!AnswerDelivered

=============================================================================
