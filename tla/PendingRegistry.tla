--------------------------- MODULE PendingRegistry ---------------------------
(***************************************************************************)
(* The pending + oneshot machinery that both ApprovalRegistry              *)
(* (uclaw-pi-engine/src/approval.rs) and ToolResultRegistry                *)
(* (uclaw-pi-engine/src/tool_bridge.rs) are built from: a map from request *)
(* id to the sending half of a oneshot channel, a ticket that owns the     *)
(* receiving half, and a guard inside the ticket that removes the map      *)
(* entry when the ticket is dropped.                                       *)
(*                                                                         *)
(* A waiter is a task that holds at most one ticket.  A sender is          *)
(* represented by the waiter whose receiver it feeds.                      *)
(***************************************************************************)

CONSTANTS Waiters,    \* the tasks that register requests and await answers
          Ids,        \* request ids
          IdsOf,      \* IdsOf[w]: the ids waiter w may register under
          Answers,    \* what a responder may send
          NoWaiter,   \* "no entry" in the map
          NoId        \* "no ticket held"

ASSUME RegistryAssumption ==
    /\ IdsOf \in [Waiters -> SUBSET Ids]
    /\ NoWaiter \notin Waiters
    /\ NoId \notin Ids
    /\ Answers \cap {"empty", "closed"} = {}

VARIABLES slot,       \* the pending map: id -> sender
          inbox,      \* the receiving half of each waiter's current oneshot
          ask         \* the id of the ticket a waiter holds

regVars == <<slot, inbox, ask>>

TypeOK ==
    /\ slot  \in [Ids -> Waiters \cup {NoWaiter}]
    /\ inbox \in [Waiters -> Answers \cup {"empty", "closed"}]
    /\ ask   \in [Waiters -> Ids \cup {NoId}]

Init ==
    /\ slot  = [id \in Ids |-> NoWaiter]
    /\ inbox = [w \in Waiters |-> "empty"]
    /\ ask   = [w \in Waiters |-> NoId]

-----------------------------------------------------------------------------
(***************************************************************************)
(* The map operations.  Removing or overwriting an entry drops its sender, *)
(* which wakes the receiver on the other side with a closed channel.       *)
(***************************************************************************)

\* Mutant: overwriting an entry does not wake the receiver it belonged to.
Wake_Lost(box) == box

Wake(box) == IF box = "empty" THEN "closed" ELSE box

\* Mutant: the entry holds the id instead of the sender.
Insert_IdForSender(w, id) ==
    /\ slot'  = [slot EXCEPT ![id] = id]
    /\ inbox' = [inbox EXCEPT ![w] = "empty"]

Insert(w, id) ==
    /\ slot'  = [slot EXCEPT ![id] = w]
    /\ inbox' = [v \in Waiters |-> IF v = w THEN "empty"
                                   ELSE IF v = slot[id] THEN Wake(inbox[v])
                                   ELSE inbox[v]]

\* The answer reaches the sender on file, if there is one, and takes it off.
Deliver(id, a) ==
    /\ slot'  = [slot EXCEPT ![id] = NoWaiter]
    /\ inbox' = [v \in Waiters |-> IF v = slot[id] THEN a ELSE inbox[v]]

\* Mutant: a ticket without the guard, whose receiver goes and whose entry stays.
Release_NoGuard(S) ==
    /\ inbox' = [v \in Waiters |-> IF v \in S THEN "empty" ELSE inbox[v]]
    /\ UNCHANGED slot

\* Mutant: the guard clears the map instead of removing its key.
Release_ClearsAll(S) ==
    /\ slot'  = [id \in Ids |-> NoWaiter]
    /\ inbox' = [v \in Waiters |-> IF v \in S THEN "empty"
                                   ELSE IF \E id \in Ids : slot[id] = v
                                        THEN Wake(inbox[v])
                                   ELSE inbox[v]]

\* Tickets go: each takes its receiver with it, and then its guard removes
\* whatever entry stands under its key.
Release(S) ==
    LET keys == {ask[w] : w \in S} IN
    /\ slot'  = [id \in Ids |-> IF id \in keys THEN NoWaiter ELSE slot[id]]
    /\ inbox' = [v \in Waiters |-> IF v \in S THEN "empty"
                                   ELSE IF \E id \in Ids \cap keys : slot[id] = v
                                        THEN Wake(inbox[v])
                                   ELSE inbox[v]]

-----------------------------------------------------------------------------
Register(w, id) ==
    /\ ask[w] = NoId
    /\ Insert(w, id)
    /\ ask' = [ask EXCEPT ![w] = id]

Respond(id, a) ==
    /\ Deliver(id, a)
    /\ UNCHANGED ask

\* The futures that hold these tickets are gone, however they came to an end.
Leave(S) ==
    /\ \A w \in S : ask[w] \in Ids
    /\ Release(S)
    /\ ask' = [w \in Waiters |-> IF w \in S THEN NoId ELSE ask[w]]

\* The await returns with the answer or with a closed channel.
Resolve(w) == inbox[w] # "empty" /\ Leave({w})

\* Mutant: the timer only bounds the wait for a channel that is ready.
TimeOut_OnlyWhenReady(w) == inbox[w] # "empty" /\ Leave({w})

TimeOut(w) == Leave({w})

\* An abort drops a batch of tool calls at once.
Cancel(S) == Leave(S)

\* The await returns and the same task asks again under the same id at once:
\* exit_plan_mode asks for the plan under the id it was approved under.
AskAgain(w) ==
    /\ ask[w] \in Ids
    /\ inbox[w] # "empty"
    /\ Insert(w, ask[w])
    /\ UNCHANGED ask

Next ==
    \/ \E w \in Waiters : \E id \in IdsOf[w] : Register(w, id)
    \/ \E id \in Ids, a \in Answers : Respond(id, a)
    \/ \E w \in Waiters : Resolve(w)
    \/ \E w \in Waiters : TimeOut(w)
    \/ \E w \in Waiters : AskAgain(w)
    \/ \E S \in SUBSET Waiters : Cancel(S)

\* The executor polls a task whose channel is ready, and the timer fires.
Fair(w) == WF_regVars(Resolve(w)) /\ WF_regVars(TimeOut(w))

Fairness == \A w \in Waiters : Fair(w)

Spec == Init /\ [][Next]_regVars

FairSpec == Spec /\ Fairness

-----------------------------------------------------------------------------
(***************************************************************************)
(* Every entry of the map belongs to a waiter that still holds the ticket  *)
(* registered under that id and has not been answered: the guard leaves    *)
(* no entry behind on any exit path (approval.rs:29-30).                   *)
(***************************************************************************)
NoLeak ==
    \A id \in Ids : slot[id] \in Waiters =>
        /\ ask[slot[id]] = id
        /\ inbox[slot[id]] = "empty"

(***************************************************************************)
(* A waiter that has nothing in its channel can still be answered: its     *)
(* sender is on file.  Even when two tickets share an id, the displaced    *)
(* one is woken by its closed channel rather than left to wait.            *)
(***************************************************************************)
NobodyStranded ==
    \A w \in Waiters : ask[w] \in Ids /\ inbox[w] = "empty" => slot[ask[w]] = w

(***************************************************************************)
(* No waiter whose ids are its own has its channel closed under it: what   *)
(* ends its await is an answer, its timeout or its own cancellation,       *)
(* whatever the other waiters collide on (approval.rs:10-12, "a respond_*  *)
(* arriving the instant the dialog appears always finds its waiter").      *)
(***************************************************************************)
Alone(w) == \A v \in Waiters \ {w} : IdsOf[v] \cap IdsOf[w] = {}

NeverDisplaced == \A w \in Waiters : Alone(w) => inbox[w] # "closed"

(***************************************************************************)
(* No await lasts for ever, whether or not anybody answers: it gets an     *)
(* answer, is displaced and woken, times out, or is dropped (approval.rs:8,*)
(* "no leak and no deadlock under concurrency").                           *)
(***************************************************************************)
EveryAskEnds ==
    \A w \in Waiters :
        ask[w] # NoId /\ inbox[w] = "empty" ~> ask[w] = NoId \/ inbox[w] # "empty"
=============================================================================
