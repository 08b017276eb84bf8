------------------------------ MODULE PiEngine ------------------------------
(***************************************************************************)
(* The Engine Actor of crates/uclaw-pi-engine: the host sends commands     *)
(* over a bounded channel; an actor loop reads them one by one, creates    *)
(* sessions, spawns one task per prompt, and resolves the tool calls that  *)
(* wait for an approval or for an executor; the prompt tasks share one     *)
(* session handle per conversation behind an async mutex.                  *)
(*                                                                         *)
(* The runtime is single threaded (RuntimeBuilder::current_thread), so a   *)
(* step is what one task does from one await to the next; the host's       *)
(* threads interleave only through the channel.                            *)
(***************************************************************************)
EXTENDS Naturals, Sequences, FiniteSets

CONSTANTS
    Convs,          \* conversations
    Runs,           \* prompts (a prompt, the task spawned for it, its session
                    \* if it is the one that creates it)
    ConvOf,         \* the conversation a prompt is sent to
    Calls,          \* tool calls the model makes
    RunOf,          \* the prompt during which a call is made
    KindOf,         \* "builtin" (pi's own), "exit_plan" or "io" (bridged)
    Ids,            \* approval request ids: the provider's tool_call_ids
    IdOf,           \* the id a call came with
    Models,         \* provider/model configurations
    Want,           \* the configuration the host resolves for a prompt
    ApprovalGate,   \* UCLAW_PI_APPROVAL is set
    HostOps,        \* which of "Stop", "Drop", "SetModel" the host sends
    ChannelCap,     \* mpsc::channel(1024)
    MaxControls,    \* bound: how many of those commands the host sends
    MaxClicks,      \* bound: responses the user sends per tool call
    NoRun, NoCall, NoId

ASSUME EngineAssumption ==
    /\ ConvOf \in [Runs -> Convs]
    /\ RunOf  \in [Calls -> Runs]
    /\ KindOf \in [Calls -> {"builtin", "exit_plan", "io"}]
    /\ IdOf   \in [Calls -> Ids]
    /\ Want   \in [Runs -> Models]
    /\ ApprovalGate \in BOOLEAN
    /\ HostOps \subseteq {"Stop", "Drop", "SetModel"}
    /\ ChannelCap \in Nat \ {0} /\ MaxControls \in Nat /\ MaxClicks \in Nat
    /\ NoRun \notin Runs /\ NoCall \notin Calls /\ NoId \notin Ids

VARIABLES
    channel,        \* the command channel
    actor,          \* what the actor loop awaits
    modelCfg,       \* the loop's model_config
    entry,          \* sessions: the run that created a conversation's session
    lock,           \* per session: the run that holds its handle's mutex
    slot,           \* per session: the run whose abort handle is registered
    gen,            \* per session: run_gen
    sessModel,      \* per session: the model it runs under
    phase,          \* per run
    handle,         \* per run: the session it was given
    genOf,          \* per run: my_gen
    aborted,        \* per run: its abort signal has fired
    costModel,      \* per run: the model its cost is reported under
    call,           \* per tool call
    approvals, decision,   \* ApprovalRegistry: pending map, receivers
    results, output,       \* ToolResultRegistry: pending map, receivers
    requested,      \* tool calls the host's executor is working on
    controls,       \* how many control commands have been sent
    clicks,         \* per tool call: how many responses have been sent
    consent         \* history: the dialogs <<call, state>> the user allowed

hostVars     == <<controls, clicks, consent, requested>>
sessionVars  == <<entry, lock, slot, gen, sessModel>>
runVars      == <<phase, handle, genOf, aborted, costModel>>
approvalVars == <<approvals, decision>>
resultVars   == <<results, output>>
toolVars     == <<call, approvals, decision, results, output>>
vars == <<channel, actor, modelCfg, sessionVars, runVars, toolVars, hostVars>>

-----------------------------------------------------------------------------
(***************************************************************************)
(* The two registries.  A call holds a ticket exactly while it awaits one. *)
(***************************************************************************)
Approvals == INSTANCE PendingRegistry WITH
    Waiters <- Calls, IdsOf <- [c \in Calls |-> {IdOf[c]}],
    Answers <- {"allow", "deny"}, NoWaiter <- NoCall,
    slot <- approvals, inbox <- decision,
    ask <- [c \in Calls |-> IF call[c] \in {"asking", "planning"} THEN IdOf[c] ELSE NoId]

\* next_request_id is a counter: each call has an id of its own.
Results == INSTANCE PendingRegistry WITH
    Waiters <- Calls, Ids <- Calls, IdsOf <- [c \in Calls |-> {c}],
    Answers <- {"result"}, NoWaiter <- NoCall, NoId <- NoCall,
    slot <- results, inbox <- output,
    ask <- [c \in Calls |-> IF call[c] = "bridged" THEN c ELSE NoCall]

Command ==
    [op : {"Configure"}, model : Models]
    \cup [op : {"Prompt"}, run : Runs]
    \cup [op : {"Stop", "Drop"}, conv : Convs]
    \cup [op : {"SetModel"}, conv : Convs, model : Models]
    \cup [op : {"Respond"}, id : Ids, answer : {"allow", "deny"}]
    \cup [op : {"ToolResult"}, call : Calls]

ActorState ==
    [at : {"reading"}]
    \cup [at : {"creating"}, run : Runs]
    \cup [at : {"switching"}, session : Runs, model : Models]

Live == {"scheduled", "asking", "planning", "bridged", "executing"}

Over == {"denied", "accepted", "rejected", "ran", "failed", "dropped"}

CallsOf(r) == {c \in Calls : RunOf[c] = r}

LiveCalls(r) == {c \in CallsOf(r) : call[c] \in Live}

LoopOK ==
    /\ channel   \in Seq(Command)
    /\ actor     \in ActorState
    /\ modelCfg  \in Models

SessionsOK ==
    /\ entry     \in [Convs -> Runs \cup {NoRun}]
    /\ lock      \in [Runs -> Runs \cup {NoRun}]
    /\ slot      \in [Runs -> Runs \cup {NoRun}]
    /\ gen       \in [Runs -> Nat]
    /\ sessModel \in [Runs -> Models]

RunsOK ==
    /\ phase     \in [Runs -> {"idle", "configured", "sent", "refused", "creating",
                               "failed", "queued", "streaming", "ended"}]
    /\ handle    \in [Runs -> Runs \cup {NoRun}]
    /\ genOf     \in [Runs -> Nat]
    /\ aborted   \in [Runs -> BOOLEAN]
    /\ costModel \in [Runs -> Models]

ApprovalsOK ==
    /\ approvals \in [Ids -> Calls \cup {NoCall}]
    /\ decision  \in [Calls -> {"empty", "closed", "allow", "deny"}]

ResultsOK ==
    /\ results   \in [Calls -> Calls \cup {NoCall}]
    /\ output    \in [Calls -> {"empty", "closed", "result"}]

CallsOK == call \in [Calls -> {"new"} \cup Live \cup Over]

HostOK ==
    /\ controls  \in 0..MaxControls
    /\ clicks    \in [Calls -> 0..MaxClicks]
    /\ consent   \in SUBSET (Calls \X {"asking", "planning"})
    /\ requested \in SUBSET Calls

TypeOK ==
    /\ LoopOK /\ SessionsOK /\ RunsOK
    /\ CallsOK /\ ApprovalsOK /\ ResultsOK /\ HostOK

Init ==
    /\ channel   = << >>
    /\ actor     = [at |-> "reading"]
    /\ modelCfg  \in Models
    /\ entry     = [c \in Convs |-> NoRun]
    /\ lock      = [h \in Runs |-> NoRun]
    /\ slot      = [h \in Runs |-> NoRun]
    /\ gen       = [h \in Runs |-> 0]
    /\ sessModel = [h \in Runs |-> modelCfg]
    /\ phase     = [r \in Runs |-> "idle"]
    /\ handle    = [r \in Runs |-> NoRun]
    /\ genOf     = [r \in Runs |-> 0]
    /\ aborted   = [r \in Runs |-> FALSE]
    /\ costModel = [r \in Runs |-> modelCfg]
    /\ call      = [c \in Calls |-> "new"]
    /\ approvals = [id \in Ids |-> NoCall]
    /\ decision  = [c \in Calls |-> "empty"]
    /\ results   = [c \in Calls |-> NoCall]
    /\ output    = [c \in Calls |-> "empty"]
    /\ requested = {}
    /\ controls  = 0
    /\ clicks    = [c \in Calls |-> 0]
    /\ consent   = {}

-----------------------------------------------------------------------------
(***************************************************************************)
(* The host.  PiEngine::send is try_send: a command that finds the channel *)
(* full is dropped, and no caller retries.                                 *)
(***************************************************************************)
Room == Len(channel) < ChannelCap

Send(cmd) == channel' = IF Room THEN Append(channel, cmd) ELSE channel

\* send_message / send_agent_message resolve the provider and send Configure,
\* then await memory recall before they send the prompt itself.
SendConfigure(r) ==
    /\ phase[r] = "idle"
    /\ Send([op |-> "Configure", model |-> Want[r]])
    /\ phase' = [phase EXCEPT ![r] = "configured"]
    /\ UNCHANGED <<actor, modelCfg, sessionVars, handle, genOf, aborted, costModel,
                   toolVars, hostVars>>

SendPrompt(r) ==
    /\ phase[r] = "configured"
    /\ Send([op |-> "Prompt", run |-> r])
    /\ phase' = [phase EXCEPT ![r] = IF Room THEN "sent" ELSE "refused"]
    /\ UNCHANGED <<actor, modelCfg, sessionVars, handle, genOf, aborted, costModel,
                   toolVars, hostVars>>

SendControl(cmd) ==
    /\ cmd.op \in HostOps
    /\ controls < MaxControls
    /\ controls' = controls + 1
    /\ Send(cmd)
    /\ UNCHANGED <<actor, modelCfg, sessionVars, runVars, toolVars,
                   clicks, consent, requested>>

HasDialog(c) == ApprovalGate \/ KindOf[c] = "exit_plan"

\* The user answers the dialog of a call.  The dialog outlives the wait it was
\* shown for, so an answer may be late, and may be given twice.
Click(c, answer) ==
    /\ HasDialog(c)
    /\ call[c] \notin {"new", "scheduled"}
    /\ clicks[c] < MaxClicks
    /\ clicks' = [clicks EXCEPT ![c] = @ + 1]
    /\ Send([op |-> "Respond", id |-> IdOf[c], answer |-> answer])
    /\ consent' = IF answer = "allow" /\ call[c] \in {"asking", "planning"}
                  THEN consent \cup {<<c, call[c]>>} ELSE consent
    /\ UNCHANGED <<actor, modelCfg, sessionVars, runVars, toolVars, controls, requested>>

\* The tokio executor has run the tool; it does so whether or not anyone waits.
ExecutorReplies(c) ==
    /\ c \in requested
    /\ requested' = requested \ {c}
    /\ Send([op |-> "ToolResult", call |-> c])
    /\ UNCHANGED <<actor, modelCfg, sessionVars, runVars, toolVars,
                   controls, clicks, consent>>

-----------------------------------------------------------------------------
(***************************************************************************)
(* The actor loop: one command at a time, and nothing is read while it     *)
(* awaits a session's creation or, for SetModel, a session's mutex.        *)
(***************************************************************************)
Takes(op) ==
    /\ actor.at = "reading"
    /\ channel # << >>
    /\ Head(channel).op = op
    /\ channel' = Tail(channel)

TakeConfigure ==
    /\ Takes("Configure")
    /\ modelCfg' = Head(channel).model
    /\ UNCHANGED <<actor, sessionVars, runVars, toolVars, hostVars>>

\* start_run once the session is there: claim the next generation, register
\* the abort handle over whatever handle the slot holds, spawn the task.
StartRun(r, h) ==
    /\ gen'       = [gen EXCEPT ![h] = @ + 1]
    /\ genOf'     = [genOf EXCEPT ![r] = gen[h] + 1]
    /\ slot'      = [slot EXCEPT ![h] = r]
    /\ handle'    = [handle EXCEPT ![r] = h]
    /\ costModel' = [costModel EXCEPT ![r] = modelCfg]
    /\ phase'     = [phase EXCEPT ![r] = "queued"]

TakePrompt ==
    LET r == Head(channel).run
        h == entry[ConvOf[r]] IN
    /\ Takes("Prompt")
    /\ h # NoRun
    /\ StartRun(r, h)
    /\ UNCHANGED <<actor, modelCfg, entry, lock, sessModel, aborted, toolVars, hostVars>>

TakeFirstPrompt ==
    LET r == Head(channel).run IN
    /\ Takes("Prompt")
    /\ entry[ConvOf[r]] = NoRun
    /\ actor' = [at |-> "creating", run |-> r]
    /\ phase' = [phase EXCEPT ![r] = "creating"]
    /\ UNCHANGED <<modelCfg, sessionVars, handle, genOf, aborted, costModel,
                   toolVars, hostVars>>

\* Mutant: the session map is filled with the conversation, not the session.
SessionCreated_WrongValue ==
    LET r == actor.run IN
    /\ actor.at = "creating"
    /\ actor' = [at |-> "reading"]
    /\ entry' = [entry EXCEPT ![ConvOf[r]] = ConvOf[r]]
    /\ sessModel' = [sessModel EXCEPT ![r] = modelCfg]
    /\ StartRun(r, r)
    /\ UNCHANGED <<channel, modelCfg, lock, aborted, toolVars, hostVars>>

SessionCreated ==
    LET r == actor.run IN
    /\ actor.at = "creating"
    /\ actor' = [at |-> "reading"]
    /\ entry' = [entry EXCEPT ![ConvOf[r]] = r]
    /\ sessModel' = [sessModel EXCEPT ![r] = modelCfg]
    /\ StartRun(r, r)
    /\ UNCHANGED <<channel, modelCfg, lock, aborted, toolVars, hostVars>>

SessionCreateFails ==
    /\ actor.at = "creating"
    /\ actor' = [at |-> "reading"]
    /\ phase' = [phase EXCEPT ![actor.run] = "failed"]
    /\ UNCHANGED <<channel, modelCfg, sessionVars, handle, genOf, aborted, costModel,
                   toolVars, hostVars>>

\* Stop takes the registered abort handle and fires it.
TakeStop ==
    LET h == entry[Head(channel).conv] IN
    /\ Takes("Stop")
    /\ IF h \in Runs /\ slot[h] \in Runs
       THEN /\ aborted' = [aborted EXCEPT ![slot[h]] = TRUE]
            /\ slot' = [slot EXCEPT ![h] = NoRun]
       ELSE UNCHANGED <<aborted, slot>>
    /\ UNCHANGED <<actor, modelCfg, entry, lock, gen, sessModel, phase, handle, genOf,
                   costModel, toolVars, hostVars>>

TakeDrop ==
    /\ Takes("Drop")
    /\ entry' = [entry EXCEPT ![Head(channel).conv] = NoRun]
    /\ UNCHANGED <<actor, modelCfg, lock, slot, gen, sessModel, runVars, toolVars, hostVars>>

TakeSetModel ==
    LET h == entry[Head(channel).conv] IN
    /\ Takes("SetModel")
    /\ actor' = IF h \in Runs
                THEN [at |-> "switching", session |-> h, model |-> Head(channel).model]
                ELSE actor
    /\ UNCHANGED <<modelCfg, sessionVars, runVars, toolVars, hostVars>>

\* The mutex is the loop's at last; set_model succeeds, or fails and reports.
ModelSwitched ==
    /\ actor.at = "switching"
    /\ lock[actor.session] = NoRun
    /\ actor' = [at |-> "reading"]
    /\ \/ sessModel' = [sessModel EXCEPT ![actor.session] = actor.model]
       \/ UNCHANGED sessModel
    /\ UNCHANGED <<channel, modelCfg, entry, lock, slot, gen, runVars, toolVars, hostVars>>

TakeRespond ==
    /\ Takes("Respond")
    /\ Approvals!Deliver(Head(channel).id, Head(channel).answer)
    /\ UNCHANGED <<actor, modelCfg, sessionVars, runVars, call, resultVars, hostVars>>

TakeToolResult ==
    /\ Takes("ToolResult")
    /\ Results!Deliver(Head(channel).call, "result")
    /\ UNCHANGED <<actor, modelCfg, sessionVars, runVars, call, approvalVars, hostVars>>

-----------------------------------------------------------------------------
(***************************************************************************)
(* The task of a prompt.                                                   *)
(***************************************************************************)

\* Mutant: the task does not wait for the mutex.
AcquireLock_NoWait(r) ==
    /\ phase[r] = "queued"
    /\ lock'  = [lock EXCEPT ![handle[r]] = r]
    /\ phase' = [phase EXCEPT ![r] = "streaming"]
    /\ UNCHANGED <<channel, actor, modelCfg, entry, slot, gen, sessModel, handle, genOf,
                   aborted, costModel, toolVars, hostVars>>

AcquireLock(r) ==
    /\ phase[r] = "queued"
    /\ lock[handle[r]] = NoRun
    /\ lock'  = [lock EXCEPT ![handle[r]] = r]
    /\ phase' = [phase EXCEPT ![r] = "streaming"]
    /\ UNCHANGED <<channel, actor, modelCfg, entry, slot, gen, sessModel, handle, genOf,
                   aborted, costModel, toolVars, hostVars>>

\* Mutant: a finishing run always clears the slot.
Owns_Always(r) == TRUE

\* abort_slot_owns
Owns(r) == gen[handle[r]] = genOf[r]

\* Mutant: the mutex guard outlives the run.
RunEnds_KeepsLock(r) ==
    /\ phase[r] = "streaming"
    /\ LiveCalls(r) = {}
    /\ phase' = [phase EXCEPT ![r] = "ended"]
    /\ slot'  = IF Owns(r) THEN [slot EXCEPT ![handle[r]] = NoRun] ELSE slot
    /\ UNCHANGED <<channel, actor, modelCfg, entry, lock, gen, sessModel, handle, genOf,
                   aborted, costModel, toolVars, hostVars>>

\* prompt_with_abort returns: the reply is complete, the stream failed, the
\* iteration limit is reached, or the abort was seen at a turn boundary.  The
\* mutex guard goes, and then the abort handle if it is still this run's.
RunEnds(r) ==
    /\ phase[r] = "streaming"
    /\ LiveCalls(r) = {}
    /\ phase' = [phase EXCEPT ![r] = "ended"]
    /\ lock'  = [lock EXCEPT ![handle[r]] = NoRun]
    /\ slot'  = IF Owns(r) THEN [slot EXCEPT ![handle[r]] = NoRun] ELSE slot
    /\ UNCHANGED <<channel, actor, modelCfg, entry, gen, sessModel, handle, genOf,
                   aborted, costModel, toolVars, hostVars>>

-----------------------------------------------------------------------------
(***************************************************************************)
(* Tool calls.  execute_tool_calls runs batches of calls with compatible   *)
(* effects; a batch is polled as one future, which an abort drops.         *)
(***************************************************************************)
Compatible(batch) == Cardinality(batch) = 1 \/ \A c \in batch : KindOf[c] # "io"

StartBatch(r, batch) ==
    /\ phase[r] = "streaming"
    /\ ~aborted[r]
    /\ LiveCalls(r) = {}
    /\ batch # {} /\ Compatible(batch)
    /\ \A c \in batch : call[c] = "new"
    /\ call' = [c \in Calls |-> IF c \in batch THEN "scheduled" ELSE call[c]]
    /\ UNCHANGED <<channel, actor, modelCfg, sessionVars, runVars, approvalVars,
                   resultVars, hostVars>>

CallFrame == UNCHANGED <<channel, actor, modelCfg, sessionVars, runVars,
                         controls, clicks, consent>>

Becomes(c, state) == call' = [call EXCEPT ![c] = state]

AskApproval(c) ==
    /\ call[c] = "scheduled"
    /\ ApprovalGate
    /\ Approvals!Insert(c, IdOf[c])
    /\ Becomes(c, "asking")
    /\ CallFrame /\ UNCHANGED <<resultVars, requested>>

\* Mutant: only an explicit denial keeps a call from running.
MayExecute_UnlessDenied(c) ==
    \/ call[c] = "scheduled" /\ ~ApprovalGate
    \/ call[c] = "asking" /\ decision[c] # "deny"

MayExecute(c) ==
    \/ call[c] = "scheduled" /\ ~ApprovalGate
    \/ call[c] = "asking" /\ decision[c] = "allow"

\* ExitPlanTool asks through the same registry, under the same id.
ExecutePlan(c) ==
    /\ MayExecute(c)
    /\ KindOf[c] = "exit_plan"
    /\ Approvals!Insert(c, IdOf[c])
    /\ Becomes(c, "planning")
    /\ CallFrame /\ UNCHANGED <<resultVars, requested>>

\* Mutant: the approval ticket is kept across the execution.
ExecuteIo_KeepsTicket(c) ==
    /\ MayExecute(c)
    /\ KindOf[c] = "io"
    /\ Results!Insert(c, c)
    /\ requested' = requested \cup {c}
    /\ Becomes(c, "bridged")
    /\ CallFrame /\ UNCHANGED approvalVars

\* BridgedIoTool registers first and asks the executor second.
ExecuteIo(c) ==
    /\ MayExecute(c)
    /\ KindOf[c] = "io"
    /\ Approvals!Release({c})
    /\ Results!Insert(c, c)
    /\ requested' = requested \cup {c}
    /\ Becomes(c, "bridged")
    /\ CallFrame

ExecuteBuiltin(c) ==
    /\ MayExecute(c)
    /\ KindOf[c] = "builtin"
    /\ Approvals!Release({c})
    /\ Becomes(c, "executing")
    /\ CallFrame /\ UNCHANGED <<resultVars, requested>>

BuiltinReturns(c) ==
    /\ call[c] = "executing"
    /\ Becomes(c, "ran")
    /\ CallFrame /\ UNCHANGED <<approvalVars, resultVars, requested>>

\* A denial, or a closed channel, which denies.
GateDenies(c) ==
    /\ call[c] = "asking"
    /\ decision[c] \in {"deny", "closed"}
    /\ Approvals!Release({c})
    /\ Becomes(c, "denied")
    /\ CallFrame /\ UNCHANGED <<resultVars, requested>>

PlanDecided(c) ==
    /\ call[c] = "planning"
    /\ decision[c] # "empty"
    /\ Approvals!Release({c})
    /\ Becomes(c, IF decision[c] = "allow" THEN "accepted" ELSE "rejected")
    /\ CallFrame /\ UNCHANGED <<resultVars, requested>>

ResultArrives(c) ==
    /\ call[c] = "bridged"
    /\ output[c] # "empty"
    /\ Results!Release({c})
    /\ Becomes(c, IF output[c] = "result" THEN "ran" ELSE "failed")
    /\ CallFrame /\ UNCHANGED <<approvalVars, requested>>

\* Mutant: a plan nobody answered counts as accepted.
DialogTimesOut_Accepts(c) ==
    /\ call[c] \in {"asking", "planning"}
    /\ Approvals!Release({c})
    /\ Becomes(c, IF call[c] = "asking" THEN "denied" ELSE "accepted")
    /\ CallFrame /\ UNCHANGED <<resultVars, requested>>

\* The timer of the await fires (300 s; a tool may set its own).
DialogTimesOut(c) ==
    /\ call[c] \in {"asking", "planning"}
    /\ Approvals!Release({c})
    /\ Becomes(c, IF call[c] = "asking" THEN "denied" ELSE "rejected")
    /\ CallFrame /\ UNCHANGED <<resultVars, requested>>

ResultTimesOut(c) ==
    /\ call[c] = "bridged"
    /\ Results!Release({c})
    /\ Becomes(c, "failed")
    /\ CallFrame /\ UNCHANGED <<approvalVars, requested>>

\* Mutant: the dropped futures leave their pending results behind.
AbortBatch_KeepsResults(r) ==
    /\ aborted[r]
    /\ LiveCalls(r) # {}
    /\ Approvals!Release({c \in LiveCalls(r) : call[c] \in {"asking", "planning"}})
    /\ call' = [c \in Calls |-> IF c \in LiveCalls(r) THEN "dropped" ELSE call[c]]
    /\ CallFrame /\ UNCHANGED <<resultVars, requested>>

\* Mutant: the abort is noticed only once pi's own tools have returned.
AbortBatch_AfterBuiltins(r) ==
    /\ aborted[r]
    /\ LiveCalls(r) # {}
    /\ \A c \in LiveCalls(r) : call[c] # "executing"
    /\ Approvals!Release({c \in LiveCalls(r) : call[c] \in {"asking", "planning"}})
    /\ Results!Release({c \in LiveCalls(r) : call[c] = "bridged"})
    /\ call' = [c \in Calls |-> IF c \in LiveCalls(r) THEN "dropped" ELSE call[c]]
    /\ CallFrame /\ UNCHANGED requested

\* The select of execute_tool_batch sees the abort signal: the futures of the
\* batch are dropped where they stand, tickets included.
AbortBatch(r) ==
    /\ aborted[r]
    /\ LiveCalls(r) # {}
    /\ Approvals!Release({c \in LiveCalls(r) : call[c] \in {"asking", "planning"}})
    /\ Results!Release({c \in LiveCalls(r) : call[c] = "bridged"})
    /\ call' = [c \in Calls |-> IF c \in LiveCalls(r) THEN "dropped" ELSE call[c]]
    /\ CallFrame /\ UNCHANGED requested

-----------------------------------------------------------------------------
Host ==
    \/ \E r \in Runs : SendConfigure(r) \/ SendPrompt(r)
    \/ \E c \in Convs : \/ SendControl([op |-> "Stop", conv |-> c])
                        \/ SendControl([op |-> "Drop", conv |-> c])
                        \/ \E m \in Models :
                              SendControl([op |-> "SetModel", conv |-> c, model |-> m])
    \/ \E c \in Calls : \E a \in {"allow", "deny"} : Click(c, a)
    \/ \E c \in Calls : ExecutorReplies(c)

Actor ==
    \/ TakeConfigure \/ TakePrompt \/ TakeFirstPrompt \/ SessionCreated
    \/ SessionCreateFails \/ TakeStop \/ TakeDrop \/ TakeSetModel \/ ModelSwitched
    \/ TakeRespond \/ TakeToolResult

ToolStep(c) ==
    \/ AskApproval(c) \/ ExecutePlan(c) \/ ExecuteIo(c) \/ ExecuteBuiltin(c)
    \/ GateDenies(c) \/ PlanDecided(c) \/ ResultArrives(c)

Timer(c) == DialogTimesOut(c) \/ ResultTimesOut(c)

Task ==
    \/ \E r \in Runs : \/ AcquireLock(r) \/ RunEnds(r) \/ AbortBatch(r)
                       \/ \E batch \in SUBSET CallsOf(r) : StartBatch(r, batch)
    \/ \E c \in Calls : ToolStep(c) \/ BuiltinReturns(c) \/ Timer(c)

Next == Host \/ Actor \/ Task

Spec == Init /\ [][Next]_vars

(***************************************************************************)
(* What the scheduler owes: the executor polls every task that can make a  *)
(* step, and the actor loop is one of them.                                *)
(***************************************************************************)
PolledLoop == WF_vars(Actor)

PolledRun(r) ==
    /\ WF_vars(AcquireLock(r))
    /\ WF_vars(AbortBatch(r))
    /\ WF_vars(aborted[r] /\ RunEnds(r))

PolledCall(c) == WF_vars(ToolStep(c))

Scheduling ==
    /\ PolledLoop
    /\ \A r \in Runs : PolledRun(r)
    /\ \A c \in Calls : PolledCall(c)

(***************************************************************************)
(* What the world owes besides: timers fire, pi's own tools return, and a  *)
(* model's reply ends (the agent loop bounds the turns of one prompt).     *)
(***************************************************************************)
ReplyEnds(r) == WF_vars(RunEnds(r))

WorldAnswers(c) == WF_vars(Timer(c)) /\ WF_vars(BuiltinReturns(c))

Progress ==
    /\ \A r \in Runs : ReplyEnds(r)
    /\ \A c \in Calls : WorldAnswers(c)

StopSpec == Spec /\ Scheduling

FairSpec == Spec /\ Scheduling /\ Progress

-----------------------------------------------------------------------------
(***************************************************************************)
(* Properties.                                                             *)
(***************************************************************************)
Alive(r) == phase[r] \in {"queued", "streaming"}

(***************************************************************************)
(* The abort slot of a session holds exactly the handle of its newest run, *)
(* from the moment that run is spawned until it ends or is stopped: a run  *)
(* that finishes late never wipes its successor's handle, and a Stop never *)
(* fires a handle of a run that is over (engine.rs:178-182, 451-455).      *)
(***************************************************************************)
AbortSlotCoherent ==
    \A r \in Runs : \A h \in Runs :
        handle[r] = h =>
            (slot[h] = r <=> Alive(r) /\ ~aborted[r] /\ Owns(r))

\* How far a prompt has come, seen from outside.
StageOf(p) ==
    CASE p \in {"idle", "configured"}         -> "unsent"
      [] p \in {"sent", "creating", "queued"} -> "waiting"
      [] p = "streaming"                      -> "running"
      [] p \in {"refused", "failed", "ended"} -> "over"

Stage == [r \in Runs |-> StageOf(phase[r])]

Conversations == INSTANCE ConversationRuns WITH stage <- Stage

(***************************************************************************)
(* The engine implements ConversationRuns: prompts of one conversation     *)
(* run one at a time, each at most once, and none comes back once it is    *)
(* over (engine.rs:12-15).                                                 *)
(***************************************************************************)
SerializesPrompts == Conversations!Spec

(***************************************************************************)
(* A tool runs only after the user allowed that very call, in a dialog     *)
(* that was open at the time: time-outs, late and repeated answers, aborts *)
(* and full channels all fail closed (approval.rs:54-56).                  *)
(***************************************************************************)
ToolNeedsAllow ==
    ApprovalGate =>
        \A c \in Calls :
            call[c] \in {"executing", "bridged", "planning", "ran", "failed", "accepted"}
                => <<c, "asking">> \in consent

(***************************************************************************)
(* A plan is accepted only if the user said so to the plan, in the plan's  *)
(* own dialog (tool_factory.rs:157-162; engine.rs:312, "stale/duplicate    *)
(* respond is a harmless no-op").                                          *)
(***************************************************************************)
PlanNeedsItsAnswer ==
    \A c \in Calls : call[c] = "accepted" => <<c, "planning">> \in consent

(***************************************************************************)
(* Whatever way a run ends, nothing of it stays registered: every pending  *)
(* approval and every pending result is that of a call which a running     *)
(* prompt is waiting on (approval.rs:29-30, tool_bridge.rs:85-95).         *)
(***************************************************************************)
NothingPendingAfterRun ==
    /\ \A id \in Ids : approvals[id] \in Calls =>
         /\ phase[RunOf[approvals[id]]] = "streaming"
         /\ lock[handle[RunOf[approvals[id]]]] = RunOf[approvals[id]]
    /\ \A c \in Calls : results[c] \in Calls =>
         /\ phase[RunOf[results[c]]] = "streaming"
         /\ call[results[c]] = "bridged"

\* The engine uses the approvals' and the tool results' registry as the registry
\* means to be used, batches dropped by an abort and late answers included.
UsesRegistries == Approvals!Spec /\ Results!Spec

(***************************************************************************)
(* What Stop aborts is the conversation's in-flight run, if there is one   *)
(* (engine.rs:101, "Abort conv_id's in-flight run").                       *)
(***************************************************************************)
StopAbortsInFlightRun ==
    [][TakeStop => \A r \in Runs :
          phase[r] = "streaming" /\ ConvOf[r] = Head(channel).conv => aborted'[r]]_vars

(***************************************************************************)
(* The session a prompt creates runs under the model resolved for that     *)
(* prompt (tauri_commands.rs:1522-1523, "Sent before Prompt so the         *)
(* lazily-created session picks it up").                                   *)
(***************************************************************************)
SessionGetsItsModel ==
    \A r \in Runs : handle[r] = r => sessModel[r] = Want[r]

(***************************************************************************)
(* Stopping a run that executes ends it, even if its model never finishes  *)
(* the reply, its tool never returns and nobody answers its dialog.        *)
(***************************************************************************)
StopEndsTheRun ==
    \A r \in Runs : phase[r] = "streaming" /\ aborted[r] ~> phase[r] = "ended"

(***************************************************************************)
(* Every prompt the engine accepted comes to an end, and the conversation  *)
(* is free for the next one: no run waits for ever on a mutex, a dialog,   *)
(* an executor whose answer was lost, or the loop.                         *)
(***************************************************************************)
PromptsEnd ==
    \A r \in Runs : phase[r] = "sent" ~> phase[r] \in {"ended", "failed"}
=============================================================================
