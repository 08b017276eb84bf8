------------------------------ MODULE ChatTurns ------------------------------
(***************************************************************************)
(* The turns of one agent session on the path that is taken unless the pi  *)
(* engine is switched on: send_agent_message, the agentic loop it spawns,  *)
(* the two maps of cancellation tokens it enters (cancellation_registry    *)
(* and running_sessions), and the two queues through which the user talks  *)
(* to a turn under way (agent/queues.rs).                                  *)
(*                                                                         *)
(* Nothing keeps two turns of a session apart: a new one cancels what the  *)
(* registry holds.  The maps are keyed by the session, so a turn removes   *)
(* whatever entry is there when it ends.  Every lock taken is a step.      *)
(***************************************************************************)
EXTENDS Naturals, FiniteSets

CONSTANTS Turns,        \* calls of send_agent_message
          Cards,        \* messages typed while a turn runs (banner cards, by uuid)
          MaxStops,     \* bound: stops and cancellations
          None

ASSUME ChatAssumption == None \notin Turns /\ MaxStops \in Nat

VARIABLES
    at,         \* per turn: where it is
    registry,   \* cancellation_registry: the turn whose token it holds
    running,    \* running_sessions: the turn whose token it holds
    fired,      \* the turns whose token is cancelled
    met,        \* history: the turns that were under way with another one
    followUp,   \* FollowUpQueue
    steering,   \* SteeringQueue
    follow,     \* per card: how far agent_follow_up is with it
    steer,      \* per card: how far agent_steer is with it
    back,       \* the cards agent_steer took out of the follow-up queue
    rows,       \* agent_messages: user rows of a card
    stops

queues == <<followUp, steering, follow, steer, back, rows>>
vars   == <<at, registry, running, fired, met, queues, stops>>

Places == {"unsent", "persisted", "registered", "turn", "compressing", "calling",
           "ending", "unregistering", "over"}

InLoop     == {"turn", "compressing", "calling"}
Inserted   == InLoop \cup {"ending"}                \* between insert and remove
Registered == Inserted \cup {"registered", "unregistering"}

TypeOK ==
    /\ at       \in [Turns -> Places]
    /\ registry \in Turns \cup {None} /\ running \in Turns \cup {None}
    /\ fired \subseteq Turns /\ met \subseteq Turns
    /\ followUp \subseteq Cards /\ steering \subseteq Cards /\ back \subseteq Cards
    /\ follow   \in [Cards -> {"no", "parking", "sending", "done"}]
    /\ steer    \in [Cards -> {"no", "taken", "done"}]
    /\ rows     \in [Cards -> Nat]
    /\ stops    \in Nat

Init ==
    /\ at       = [t \in Turns |-> "unsent"]
    /\ registry = None /\ running = None
    /\ fired = {} /\ met = {}
    /\ followUp = {} /\ steering = {} /\ back = {}
    /\ follow   = [c \in Cards |-> "no"]
    /\ steer    = [c \in Cards |-> "no"]
    /\ rows     = [c \in Cards |-> 0]
    /\ stops    = 0

Moves(t, from, to) == at[t] \in from /\ at' = [at EXCEPT ![t] = to]

-----------------------------------------------------------------------------
(***************************************************************************)
(* send_agent_message up to the spawn.                                     *)
(***************************************************************************)
\* The user's row is written first.
Send(t) ==
    /\ Moves(t, {"unsent"}, "persisted")
    /\ UNCHANGED <<registry, running, fired, met, queues, stops>>

\* The history cannot be read: the command fails, the row stays.
Refused(t) ==
    /\ Moves(t, {"persisted"}, "over")
    /\ UNCHANGED <<registry, running, fired, met, queues, stops>>

\* CancellationRegistry::register: the prior token is cancelled and replaced.
Register(t) ==
    LET others == {q \in Turns : at[q] \in Registered} IN
    /\ Moves(t, {"persisted"}, "registered")
    /\ registry' = t
    /\ fired' = fired \cup ({registry} \ {None})
    /\ met' = IF others = {} THEN met ELSE met \cup others \cup {t}
    /\ UNCHANGED <<running, queues, stops>>

Insert(t) ==
    /\ Moves(t, {"registered"}, "turn")
    /\ running' = t
    /\ UNCHANGED <<registry, fired, met, queues, stops>>

-----------------------------------------------------------------------------
(***************************************************************************)
(* run_agentic_loop, inside a select! with the token and a timeout.        *)
(***************************************************************************)
\* The token is looked at before the context is compressed.
Check(t) ==
    /\ t \notin fired
    /\ Moves(t, {"turn"}, "compressing")
    /\ UNCHANGED <<registry, running, fired, met, queues, stops>>

\* get_steering_messages takes all there are; each gets a user row.
Drain(t) ==
    /\ Moves(t, {"compressing"}, "calling")
    /\ steering' = {}
    /\ rows' = [c \in Cards |-> rows[c] + IF c \in steering THEN 1 ELSE 0]
    /\ UNCHANGED <<registry, running, fired, met, followUp, follow, steer, back, stops>>

\* Tools were called, or the model was nudged.
Again(t) ==
    /\ Moves(t, {"calling"}, "turn")
    /\ UNCHANGED <<registry, running, fired, met, queues, stops>>

\* Mutant: the follow-up is taken before the token is looked at.
Answer_Late(t) ==
    \/ /\ followUp = {}
       /\ Moves(t, {"calling"}, "ending")
       /\ UNCHANGED <<registry, running, fired, met, queues, stops>>
    \/ \E c \in followUp :
        /\ Moves(t, {"calling"}, IF t \in fired THEN "ending" ELSE "turn")
        /\ followUp' = followUp \ {c}
        /\ rows' = IF t \in fired THEN rows ELSE [rows EXCEPT ![c] = @ + 1]
        /\ UNCHANGED <<registry, running, fired, met, steering, follow, steer, back, stops>>

\* A natural stop: the loop goes on with one follow-up, if there is one.
Answer(t) ==
    \/ /\ followUp = {}
       /\ Moves(t, {"calling"}, "ending")
       /\ UNCHANGED <<registry, running, fired, met, queues, stops>>
    \/ \E c \in followUp :
        /\ Moves(t, {"calling"}, "turn")
        /\ followUp' = followUp \ {c}
        /\ rows' = [rows EXCEPT ![c] = @ + 1]
        /\ UNCHANGED <<registry, running, fired, met, steering, follow, steer, back, stops>>

\* The model's error, the last iteration, the timeout of the whole loop.
Fails(t) ==
    /\ Moves(t, InLoop, "ending")
    /\ UNCHANGED <<registry, running, fired, met, queues, stops>>

\* Mutant: the token is looked at between two iterations only.
Cancelled_Between(t) ==
    /\ t \in fired
    /\ Moves(t, {"turn"}, "ending")
    /\ UNCHANGED <<registry, running, fired, met, queues, stops>>

\* token.cancelled() wins the select!, or the loop sees the token itself.
Cancelled(t) ==
    /\ t \in fired
    /\ Moves(t, InLoop, "ending")
    /\ UNCHANGED <<registry, running, fired, met, queues, stops>>

\* Every end removes the session's entries, whosever they are.
Removes(t) ==
    /\ Moves(t, {"ending"}, "unregistering")
    /\ running' = None
    /\ UNCHANGED <<registry, fired, met, queues, stops>>

\* Mutant: an end that forgets the registry.
Unregisters_Not(t) ==
    /\ Moves(t, {"unregistering"}, "over")
    /\ UNCHANGED <<registry, running, fired, met, queues, stops>>

Unregisters(t) ==
    /\ Moves(t, {"unregistering"}, "over")
    /\ registry' = None
    /\ UNCHANGED <<running, fired, met, queues, stops>>

-----------------------------------------------------------------------------
(***************************************************************************)
(* The user's other commands.                                              *)
(***************************************************************************)
\* Mutant: a stop that does not look whether there is a token.
StopAgent_Blind ==
    /\ stops < MaxStops
    /\ fired' = fired \cup {running}
    /\ running' = None
    /\ stops' = stops + 1
    /\ UNCHANGED <<at, registry, met, queues>>

\* stop_agent, stop_agent_session, interrupt_current_agent_run, reset_ai_engine.
StopAgent ==
    /\ stops < MaxStops /\ running # None
    /\ fired' = fired \cup {running}
    /\ running' = None
    /\ stops' = stops + 1
    /\ UNCHANGED <<at, registry, met, queues>>

\* cancel_conversation.
CancelConversation ==
    /\ stops < MaxStops /\ registry # None
    /\ fired' = fired \cup {registry}
    /\ stops' = stops + 1
    /\ UNCHANGED <<at, registry, running, met, queues>>

\* agent_follow_up: is_session_running ...
AsksRunning(c) ==
    /\ follow[c] = "no"
    /\ follow' = [follow EXCEPT ![c] = IF running # None THEN "parking" ELSE "sending"]
    /\ UNCHANGED <<at, registry, running, fired, met, followUp, steering, steer, back,
                   rows, stops>>

\* ... and, whatever has happened since, the queue or a turn of its own.
Parks(c) ==
    /\ follow[c] = "parking"
    /\ follow' = [follow EXCEPT ![c] = "done"]
    /\ followUp' = followUp \cup {c}
    /\ UNCHANGED <<at, registry, running, fired, met, steering, steer, back, rows, stops>>

SendsCard(c, t) ==
    /\ follow[c] = "sending"
    /\ follow' = [follow EXCEPT ![c] = "done"]
    /\ rows' = [rows EXCEPT ![c] = @ + 1]
    /\ Moves(t, {"unsent"}, "persisted")
    /\ UNCHANGED <<registry, running, fired, met, followUp, steering, steer, back, stops>>

\* agent_steer: a card that waits as a follow-up is taken out of that queue ...
TakesBack(c) ==
    /\ steer[c] = "no"
    /\ steer' = [steer EXCEPT ![c] = "taken"]
    /\ followUp' = followUp \ {c}
    /\ back' = back \cup (followUp \cap {c})
    /\ UNCHANGED <<at, registry, running, fired, met, steering, follow, rows, stops>>

\* ... and put into the other one, turn or no turn.
Steers(c) ==
    /\ steer[c] = "taken"
    /\ steer' = [steer EXCEPT ![c] = "done"]
    /\ steering' = steering \cup {c}
    /\ UNCHANGED <<at, registry, running, fired, met, followUp, follow, back, rows, stops>>

-----------------------------------------------------------------------------
\* What a turn does without the model's help.
Own(t) ==
    \/ Register(t) \/ Insert(t) \/ Check(t) \/ Drain(t)
    \/ Cancelled(t) \/ Removes(t) \/ Unregisters(t)

Loop(t) == Again(t) \/ Answer(t) \/ Fails(t)

User ==
    \/ StopAgent \/ CancelConversation
    \/ \E c \in Cards : \/ AsksRunning(c) \/ Parks(c) \/ TakesBack(c) \/ Steers(c)
                        \/ \E t \in Turns : SendsCard(c, t)

Next ==
    \/ \E t \in Turns : Send(t) \/ Refused(t) \/ Own(t) \/ Loop(t)
    \/ User

\* The executor polls a task that can go on; a model or a tool may hang.
Fair(t) == WF_vars(Own(t))

Fairness == \A t \in Turns : Fair(t)

Spec == Init /\ [][Next]_vars /\ Fairness

-----------------------------------------------------------------------------
(***************************************************************************)
(* Properties.                                                             *)
(***************************************************************************)
\* The maps against the turns that overlap: an entry is never that of a turn that
\* is through with its map, so a stop and is_session_running find no dead turn;
\* and a turn that never met another one is found until it is stopped.  (One that
\* did may be lost: the turn it superseded removes its entries.)
Reachable ==
    /\ running # None => at[running] \in Inserted
    /\ registry # None => at[registry] \in Registered
    /\ \A t \in Turns \ (met \cup fired) :
           /\ at[t] \in Registered => registry = t
           /\ at[t] \in Inserted => running = t

\* Queues that outlive the turns: whatever is stopped, superseded or late, what the
\* two commands took is in a queue or has its row, once for each command, unless
\* steering took the card back.
CardsKept ==
    \A c \in Cards :
        rows[c] + Cardinality(followUp \cap {c}) + Cardinality(steering \cap {c})
            + Cardinality(back \cap {c})
        = (IF follow[c] = "done" THEN 1 ELSE 0) + (IF steer[c] = "done" THEN 1 ELSE 0)

\* select! on the token: a turn that was stopped or superseded ends, also when its
\* model or its tool hangs, and takes its entries along.
StoppedTurnsEnd == \A t \in Turns : t \in fired ~> at[t] = "over"
=============================================================================
