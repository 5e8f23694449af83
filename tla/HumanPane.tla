----------------------------- MODULE HumanPane -----------------------------
(***************************************************************************)
(* A page fetch that ends with a person (hx-browser ladder.rs,             *)
(* interactive.rs; hx-server pane.rs, challenge_notice.rs): the machine    *)
(* rungs are refused, a browser is shown on a screen, the question is      *)
(* registered and pushed to one operator, and an answer, a closed screen   *)
(* or the budget ends the wait.                                            *)
(*                                                                         *)
(* A challenge and its screen have the fetch's name.  The wait is dropped  *)
(* at an await, by its budget or by a bound around the fetch, at any time. *)
(* The screens' registry is external: a removal takes the screen out at    *)
(* once and returns when its browser is gone.                              *)
(***************************************************************************)
EXTENDS Integers, Sequences, SequencesExt, FiniteSets

CONSTANTS
    Fetches,
    Profile,        \* the browser profile of each fetch, which is its URL's
    MachineRungs,   \* rungs before the person
    Roster,         \* the operators, in the order they are asked
    Reached,        \* those with a webhook of their own
    Requests,       \* POST /v1/challenges/{id}, one each ...
    Says,           \* ... with its answer
    Remembered,     \* FINISHED_REMEMBERED
    None

VARIABLES
    pc, rung,            \* of each fetch: where it is
    screens, browsers,   \* screens registered, browsers that run
    pending, finished,   \* Challenges: the questions waiting, the last ones over
    minted,              \* questions that were registered, each with its token
    cursor, operator,    \* the rotation, and whom each fetch asked
    chan, result,        \* of each fetch: what was sent to the pane, how it ended
    announced, resolved, \* what was pushed: the questions, and how each ended
    killing,             \* DELETE /v1/screens/{id} waiting for the browser
    req,                 \* the requests
    cut                  \* history: dropped while the screen closed

pane == <<pc, rung, cursor, operator, result, announced, resolved, cut>>
registry == <<pending, finished, minted>>
host == <<screens, browsers, killing>>
vars == <<pane, registry, host, chan, req>>

Answers == {"Solved", "Abandoned"}
NoRequest == [to |-> None, token |-> None, at |-> "idle", told |-> None]

Init ==
    /\ pc = [f \in Fetches |-> "climbing"] /\ rung = [f \in Fetches |-> 1]
    /\ screens = {} /\ browsers = {} /\ pending = {} /\ finished = <<>>
    /\ minted = {} /\ cursor = 0 /\ operator = [f \in Fetches |-> None]
    /\ chan = [f \in Fetches |-> None] /\ result = [f \in Fetches |-> None]
    /\ announced = {} /\ resolved = [f \in Fetches |-> <<>>]
    /\ killing = {} /\ cut = {}
    /\ req = [a \in Requests |-> NoRequest]

Goto(f, l) == pc' = [pc EXCEPT ![f] = l]
End(f, how) == Goto(f, "over") /\ result' = [result EXCEPT ![f] = how]

-----------------------------------------------------------------------------
(* FetchLadder::fetch                                                      *)

\* A page, or any failure but a refusal or a missing rung, ends the climb; the
\* last rung is the person's.
TryRung(f) ==
    /\ pc[f] = "climbing"
    /\ \/ \E how \in {"page", "stopped"} : End(f, how) /\ UNCHANGED rung
       \/ /\ rung' = [rung EXCEPT ![f] = @ + 1]
          /\ IF rung[f] = MachineRungs THEN Goto(f, "launching") ELSE UNCHANGED pc
          /\ UNCHANGED result
    /\ UNCHANGED <<cursor, operator, announced, resolved, cut, registry, host, chan, req>>

-----------------------------------------------------------------------------
(* ScreenPane::present                                                     *)

\* The browser first: it starts, does not, or its wait is cut off.
Launch(f) ==
    /\ pc[f] = "launching"
    /\ \/ /\ Goto(f, "opening")
          /\ screens' = screens \cup {f} /\ browsers' = browsers \cup {f}
          /\ UNCHANGED result
       \/ /\ \E how \in {"failed", "expired"} : End(f, how)
          /\ UNCHANGED <<screens, browsers>>
    /\ UNCHANGED <<rung, cursor, operator, announced, resolved, cut, registry, killing,
                   chan, req>>

\* Challenges::open: one question to a profile (ids are never used twice).
Held(f) == \E g \in pending : Profile[g] = Profile[f]

\* next_operator, then open.  A question refused here already has a browser, which
\* is closed.
Open(f) ==
    /\ pc[f] = "opening"
    /\ cursor' = cursor + 1
    /\ operator' = [operator EXCEPT ![f] = Roster[(cursor % Len(Roster)) + 1]]
    /\ IF Held(f)
         THEN /\ Goto(f, "refusing")
              /\ screens' = screens \ {f}
              /\ UNCHANGED registry
         ELSE /\ Goto(f, "announcing")
              /\ pending' = pending \cup {f} /\ minted' = minted \cup {f}
              /\ UNCHANGED <<finished, screens>>
    /\ UNCHANGED <<rung, result, announced, resolved, cut, browsers, killing, chan, req>>

\* announce, then the guard is armed and the wait begins.
Announce(f) ==
    /\ pc[f] = "announcing"
    /\ announced' = IF operator[f] \in Reached THEN announced \cup {f} ELSE announced
    /\ Goto(f, "waiting")
    /\ UNCHANGED <<rung, cursor, operator, result, resolved, cut, registry, host, chan, req>>

\* take: a question over is remembered, among the last of them.  The two are
\* separate lock sections; an answer in between is told "Unknown" (404) where it
\* would be told "NobodyWaiting" (409), and no property tells these apart.
Remember(fs) ==
    LET longer == finished \o SetToSeq(fs)
    IN finished' = SubSeq(longer, Len(longer) - (IF Len(longer) > Remembered THEN Remembered - 1
                                                 ELSE Len(longer) - 1), Len(longer))

Take(f) ==
    /\ pending' = pending \ {f}
    /\ IF f \in pending THEN Remember({f}) ELSE UNCHANGED finished
    /\ UNCHANGED minted

\* The wait is over: the guard is disarmed, and the screen closed ...
Wake(f) ==
    /\ pc[f] = "waiting" /\ chan[f] # None
    /\ Take(f)
    /\ screens' = screens \ {f}
    /\ Goto(f, "closing")
    /\ UNCHANGED <<rung, cursor, operator, result, announced, resolved, cut, browsers, killing,
                   chan, req>>

Resolved(f, how) ==
    resolved' = [resolved EXCEPT ![f] = IF operator[f] \in Reached THEN Append(@, how) ELSE @]

\* ... and the operator told, before the rung is.  A screen somebody else removed
\* is not waited for.
Closed(f) ==
    /\ browsers' = IF f \in killing THEN browsers ELSE browsers \ {f}
    /\ \/ /\ pc[f] = "closing"
          /\ End(f, IF chan[f] \in Answers THEN chan[f] ELSE "failed")
          /\ Resolved(f, IF chan[f] \in Answers THEN chan[f] ELSE "withdrawn")
       \/ /\ pc[f] = "refusing"
          /\ End(f, "failed")
          /\ UNCHANGED resolved
    /\ UNCHANGED <<rung, cursor, operator, announced, cut, registry, screens, killing, chan,
                   req>>

\* Time is up while the screen closes: nothing is armed any more.
CutShort(f) ==
    /\ pc[f] \in {"closing", "refusing"}
    /\ End(f, "expired")
    /\ browsers' = IF f \in killing THEN browsers ELSE browsers \ {f}
    /\ cut' = cut \cup {f}
    /\ UNCHANGED <<rung, cursor, operator, announced, resolved, registry, screens, killing,
                   chan, req>>

\* Time is up while nobody has answered: the future is dropped, the receiver
\* first, and then the guard, which cleans up without an await.
Expire(f) ==
    /\ \/ pc[f] = "waiting" /\ chan[f] = None /\ Goto(f, "expired")
       \/ pc[f] = "expired" /\ Goto(f, "dropped")
    /\ UNCHANGED <<rung, cursor, operator, result, announced, resolved, cut, registry, host,
                   chan, req>>

GuardRemoves(f) ==
    /\ pc[f] = "dropped"
    /\ Take(f)
    /\ Goto(f, "removed")
    /\ UNCHANGED <<rung, cursor, operator, result, announced, resolved, cut, host, chan, req>>

\* Mutant of GuardForgets: the operator is not told.
GuardForgetsSilently(f) ==
    /\ pc[f] = "removed"
    /\ screens' = screens \ {f}
    /\ browsers' = IF f \in killing THEN browsers ELSE browsers \ {f}
    /\ End(f, "expired")
    /\ UNCHANGED <<resolved, rung, cursor, operator, announced, cut, registry, killing, chan,
                   req>>

GuardForgets(f) ==
    /\ pc[f] = "removed"
    /\ screens' = screens \ {f}
    /\ browsers' = IF f \in killing THEN browsers ELSE browsers \ {f}
    /\ Resolved(f, "withdrawn")
    /\ End(f, "expired")
    /\ UNCHANGED <<rung, cursor, operator, announced, cut, registry, killing, chan, req>>

-----------------------------------------------------------------------------
(* The routes.                                                             *)

\* The pane's receiver is there, and a send to it succeeds.
Listening(f) == pc[f] \in {"announcing", "waiting", "expired"}

\* DELETE /v1/screens/{id}: the browser goes first ...
KillScreen(f) ==
    /\ f \in screens
    /\ screens' = screens \ {f}
    /\ killing' = killing \cup {f}
    /\ UNCHANGED <<pane, registry, browsers, chan, req>>

\* ... then screen_closed ends the question that was on it, and remembers nothing.
ScreenClosed(f) ==
    /\ f \in killing
    /\ killing' = killing \ {f}
    /\ browsers' = browsers \ {f}
    /\ pending' = pending \ {f}
    /\ chan' = IF f \in pending /\ Listening(f) THEN [chan EXCEPT ![f] = "closed"] ELSE chan
    /\ UNCHANGED <<pane, finished, minted, screens, req>>

\* GET /v1/challenges drops the questions whose pane is gone.
ListPending ==
    LET gone == {f \in pending : ~Listening(f)}
    IN /\ gone # {}
       /\ pending' = pending \ gone
       /\ Remember(gone)
       /\ UNCHANGED <<pane, minted, host, chan, req>>

Ask(a, f, token, at, told) ==
    req' = [req EXCEPT ![a] = [to |-> f, token |-> token, at |-> at, told |-> told]]

Done(a, told) == req' = [req EXCEPT ![a].at = "done", ![a].told = told]

\* Mutant of Check: any token will do.
CheckNothing(a, f, token) ==
    /\ req[a].at = "idle"
    /\ Ask(a, f, token, "take", None)
    /\ UNCHANGED <<pane, registry, host, chan>>

\* A client that learned of a question answers it, with a token or without.  The
\* token is judged first, while the question stays where it is ...
Check(a, f, token) ==
    /\ req[a].at = "idle"
    /\ IF token # None /\ f \in pending /\ token # f
         THEN Ask(a, f, token, "done", "WrongToken")
         ELSE Ask(a, f, token, "take", None)
    /\ UNCHANGED <<pane, registry, host, chan>>

\* ... the question is taken under the lock again ...
TakeEntry(a) ==
    /\ req[a].at = "take"
    /\ Take(req[a].to)
    /\ IF req[a].to \in pending THEN req' = [req EXCEPT ![a].at = "send"]
       ELSE Done(a, IF Contains(finished, req[a].to) THEN "NobodyWaiting" ELSE "Unknown")
    /\ UNCHANGED <<pane, host, chan>>

\* ... and the answer sent outside it.
Deliver(a) ==
    LET f == req[a].to
    IN /\ req[a].at = "send"
       /\ IF Listening(f) THEN chan' = [chan EXCEPT ![f] = Says[a]] /\ Done(a, "Delivered")
          ELSE UNCHANGED chan /\ Done(a, "NobodyWaiting")
       /\ UNCHANGED <<pane, registry, host>>

-----------------------------------------------------------------------------
Next ==
    \/ \E f \in Fetches :
           \/ TryRung(f) \/ Launch(f) \/ Open(f) \/ Announce(f) \/ Wake(f)
           \/ Closed(f) \/ CutShort(f) \/ Expire(f) \/ GuardRemoves(f) \/ GuardForgets(f)
           \/ KillScreen(f) \/ ScreenClosed(f)
    \/ ListPending
    \/ \E a \in Requests :
           \/ \E f \in minted, token \in minted \cup {None} : Check(a, f, token)
           \/ TakeEntry(a) \/ Deliver(a)

Spec == Init /\ [][Next]_vars

-----------------------------------------------------------------------------
\* "The pane was still waiting and has been told": one request at most is told that
\* its answer was delivered, and the fetch ends with that answer unless its time
\* was up before it could; no fetch ends with an answer nobody gave it under its
\* own token.
AnswerHeard ==
    /\ \A a, b \in Requests :
           req[a].told = "Delivered" /\ req[b].told = "Delivered" /\ req[a].to = req[b].to => a = b
    /\ \A a \in Requests :
           req[a].told = "Delivered" /\ pc[req[a].to] = "over" =>
               result[req[a].to] \in {Says[a], "expired"}
    /\ \A f \in Fetches : result[f] \in Answers =>
           \E a \in Requests : /\ req[a].to = f /\ req[a].told = "Delivered"
                               /\ Says[a] = result[f] /\ req[a].token \in {None, f}

\* "A person told to hurry is owed the news that they can stop": a fetch that is over
\* leaves no question, no screen and no browser but one being killed, and whoever
\* was told of its question was told once how it ended, and rightly, unless the
\* time ran out while the answered screen closed.
ToldItIsOver ==
    \A f \in Fetches :
        /\ pc[f] = "over" => /\ f \notin pending \cup screens
                             /\ f \in browsers => f \in killing
                             /\ f \in announced => Len(resolved[f]) = IF f \in cut THEN 0 ELSE 1
        /\ resolved[f] # <<>> => /\ f \in announced
                                 /\ Head(resolved[f]) = IF result[f] \in Answers THEN result[f]
                                                        ELSE "withdrawn"

=============================================================================
