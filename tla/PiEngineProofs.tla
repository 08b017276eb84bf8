--------------------------- MODULE PiEngineProofs ---------------------------
(***************************************************************************)
(* The engine for any number of conversations, prompts, tool calls and     *)
(* commands.                                                               *)
(***************************************************************************)
EXTENDS PiEngine, TLAPS

-----------------------------------------------------------------------------
(***************************************************************************)
(* Types of the operators the actions are built from.                      *)
(***************************************************************************)
LEMMA SendType ==
    ASSUME channel \in Seq(Command), NEW cmd \in Command, Send(cmd)
    PROVE  channel' \in Seq(Command)
BY DEF Send

LEMMA TakesType ==
    ASSUME channel \in Seq(Command), NEW op, Takes(op)
    PROVE  channel' \in Seq(Command) /\ Head(channel) \in Command /\ Head(channel).op = op
<1>1. channel # << >> /\ channel' = Tail(channel) /\ Head(channel).op = op
  BY DEF Takes
<1>2. Head(channel) \in Command
  <2> HIDE DEF Command
  <2> QED BY <1>1
<1>3. Tail(channel) \in Seq(Command)
  BY <1>1
<1> QED BY <1>1, <1>2, <1>3

\* What a command of each kind carries.
LEMMA CommandFields ==
    ASSUME NEW cmd \in Command
    PROVE  /\ cmd.op = "Configure" => cmd.model \in Models
           /\ cmd.op = "Prompt" => cmd.run \in Runs
           /\ cmd.op \in {"Stop", "Drop", "SetModel"} => cmd.conv \in Convs
           /\ cmd.op = "SetModel" => cmd.model \in Models
           /\ cmd.op = "Respond" => cmd.id \in Ids /\ cmd.answer \in {"allow", "deny"}
           /\ cmd.op = "ToolResult" => cmd.call \in Calls
BY DEF Command

\* The registries' operations keep the types of their maps.
LEMMA ApprovalsType ==
    ASSUME ApprovalsOK
    PROVE  /\ \A c \in Calls, id \in Ids : Approvals!Insert(c, id) => ApprovalsOK'
           /\ \A id \in Ids, a \in {"allow", "deny"} : Approvals!Deliver(id, a) => ApprovalsOK'
           /\ \A S : Approvals!Release(S) => ApprovalsOK'
<1>1. ASSUME NEW c \in Calls, NEW id \in Ids, Approvals!Insert(c, id)
      PROVE  ApprovalsOK'
  BY <1>1 DEF ApprovalsOK, Approvals!Insert, Approvals!Wake
<1>2. ASSUME NEW id \in Ids, NEW a \in {"allow", "deny"}, Approvals!Deliver(id, a)
      PROVE  ApprovalsOK'
  BY <1>2 DEF ApprovalsOK, Approvals!Deliver
<1>3. ASSUME NEW S, Approvals!Release(S)
      PROVE  ApprovalsOK'
  BY <1>3 DEF ApprovalsOK, Approvals!Release, Approvals!Wake
<1> QED BY <1>1, <1>2, <1>3

LEMMA ResultsType ==
    ASSUME ResultsOK
    PROVE  /\ \A c \in Calls : Results!Insert(c, c) => ResultsOK'
           /\ \A c \in Calls : Results!Deliver(c, "result") => ResultsOK'
           /\ \A S : Results!Release(S) => ResultsOK'
<1>1. ASSUME NEW c \in Calls, Results!Insert(c, c)
      PROVE  ResultsOK'
  BY <1>1 DEF ResultsOK, Results!Insert, Results!Wake
<1>2. ASSUME NEW c \in Calls, Results!Deliver(c, "result")
      PROVE  ResultsOK'
  BY <1>2 DEF ResultsOK, Results!Deliver
<1>3. ASSUME NEW S, Results!Release(S)
      PROVE  ResultsOK'
  BY <1>3 DEF ResultsOK, Results!Release, Results!Wake
<1> QED BY <1>1, <1>2, <1>3

(***************************************************************************)
(* Each of the three kinds of steps keeps the types.                       *)
(***************************************************************************)
LEMMA HostTypes ==
    ASSUME TypeOK, Host
    PROVE  TypeOK'
<1> USE EngineAssumption DEF TypeOK
<1> USE DEF hostVars, sessionVars, runVars, approvalVars, resultVars, toolVars
<1>1. ASSUME NEW r \in Runs, SendConfigure(r)
      PROVE  TypeOK'
  <2>1. [op |-> "Configure", model |-> Want[r]] \in Command
    BY DEF Command
  <2>2. channel' \in Seq(Command)
    BY <1>1, <2>1, SendType DEF SendConfigure, LoopOK
  <2>3. RunsOK'
    BY <1>1 DEF SendConfigure, RunsOK
  <2> QED BY <1>1, <2>2, <2>3 DEF SendConfigure, LoopOK, SessionsOK, CallsOK,
             ApprovalsOK, ResultsOK, HostOK
<1>2. ASSUME NEW r \in Runs, SendPrompt(r)
      PROVE  TypeOK'
  <2>1. [op |-> "Prompt", run |-> r] \in Command
    BY DEF Command
  <2>2. channel' \in Seq(Command)
    BY <1>2, <2>1, SendType DEF SendPrompt, LoopOK
  <2>3. RunsOK'
    BY <1>2 DEF SendPrompt, RunsOK
  <2> QED BY <1>2, <2>2, <2>3 DEF SendPrompt, LoopOK, SessionsOK, CallsOK,
             ApprovalsOK, ResultsOK, HostOK
<1>3. ASSUME NEW cmd \in Command, SendControl(cmd)
      PROVE  TypeOK'
  <2>1. channel' \in Seq(Command)
    BY <1>3, SendType DEF SendControl, LoopOK
  <2>2. HostOK'
    BY <1>3 DEF SendControl, HostOK
  <2> QED BY <1>3, <2>1, <2>2 DEF SendControl, LoopOK, SessionsOK, RunsOK, CallsOK,
             ApprovalsOK, ResultsOK
<1>4. ASSUME NEW c \in Calls, NEW a \in {"allow", "deny"}, Click(c, a)
      PROVE  TypeOK'
  <2>1. [op |-> "Respond", id |-> IdOf[c], answer |-> a] \in Command
    BY DEF Command
  <2>2. channel' \in Seq(Command)
    BY <1>4, <2>1, SendType DEF Click, LoopOK
  <2>3. HostOK'
    BY <1>4 DEF Click, HostOK
  <2> QED BY <1>4, <2>2, <2>3 DEF Click, LoopOK, SessionsOK, RunsOK, CallsOK,
             ApprovalsOK, ResultsOK
<1>5. ASSUME NEW c \in Calls, ExecutorReplies(c)
      PROVE  TypeOK'
  <2>1. [op |-> "ToolResult", call |-> c] \in Command
    BY DEF Command
  <2>2. channel' \in Seq(Command)
    BY <1>5, <2>1, SendType DEF ExecutorReplies, LoopOK
  <2>3. HostOK'
    BY <1>5 DEF ExecutorReplies, HostOK
  <2> QED BY <1>5, <2>2, <2>3 DEF ExecutorReplies, LoopOK, SessionsOK, RunsOK, CallsOK,
             ApprovalsOK, ResultsOK
<1>6. /\ \A c \in Convs : [op |-> "Stop", conv |-> c] \in Command
      /\ \A c \in Convs : [op |-> "Drop", conv |-> c] \in Command
      /\ \A c \in Convs : \A m \in Models :
            [op |-> "SetModel", conv |-> c, model |-> m] \in Command
  BY DEF Command
<1> HIDE DEF TypeOK
<1> QED BY <1>1, <1>2, <1>3, <1>4, <1>5, <1>6 DEF Host

LEMMA ActorTypes ==
    ASSUME TypeOK, Actor
    PROVE  TypeOK'
<1> USE EngineAssumption DEF TypeOK
<1> USE DEF hostVars, sessionVars, runVars, approvalVars, resultVars, toolVars
<1> DEFINE cmd == Head(channel)
<1>0. ASSUME NEW op, Takes(op)
      PROVE  channel' \in Seq(Command) /\ cmd \in Command /\ cmd.op = op
  BY <1>0, TakesType DEF LoopOK
<1>1. CASE TakeConfigure
  <2>1. channel' \in Seq(Command) /\ cmd.model \in Models
    BY <1>0, <1>1, CommandFields DEF TakeConfigure
  <2> QED BY <1>1, <2>1 DEF TakeConfigure, LoopOK, SessionsOK, RunsOK, CallsOK,
             ApprovalsOK, ResultsOK, HostOK
<1>2. ASSUME NEW r \in Runs, NEW h \in Runs, StartRun(r, h)
      PROVE  /\ gen' \in [Runs -> Nat] /\ genOf' \in [Runs -> Nat]
             /\ slot' \in [Runs -> Runs \cup {NoRun}]
             /\ handle' \in [Runs -> Runs \cup {NoRun}]
             /\ costModel' \in [Runs -> Models]
             /\ phase' \in [Runs -> {"idle", "configured", "sent", "refused", "creating",
                               "failed", "queued", "streaming", "ended"}]
  BY <1>2 DEF StartRun, LoopOK, SessionsOK, RunsOK
<1>3. CASE TakePrompt
  <2>1. channel' \in Seq(Command) /\ cmd.run \in Runs
    BY <1>0, <1>3, CommandFields DEF TakePrompt
  <2>2. entry[ConvOf[cmd.run]] \in Runs
    BY <1>3, <2>1 DEF TakePrompt, SessionsOK
  <2>3. StartRun(cmd.run, entry[ConvOf[cmd.run]])
    BY <1>3 DEF TakePrompt
  <2>4. SessionsOK' /\ RunsOK'
    BY <1>3, <1>2, <2>1, <2>2, <2>3 DEF TakePrompt, SessionsOK, RunsOK
  <2> QED BY <1>3, <2>1, <2>4 DEF TakePrompt, LoopOK, CallsOK, ApprovalsOK, ResultsOK, HostOK
<1>4. CASE TakeFirstPrompt
  <2>1. channel' \in Seq(Command) /\ cmd.run \in Runs
    BY <1>0, <1>4, CommandFields DEF TakeFirstPrompt
  <2>2. actor' \in ActorState
    BY <1>4, <2>1 DEF TakeFirstPrompt, ActorState
  <2>3. RunsOK'
    BY <1>4, <2>1 DEF TakeFirstPrompt, RunsOK
  <2> QED BY <1>4, <2>1, <2>2, <2>3 DEF TakeFirstPrompt, LoopOK, SessionsOK, CallsOK,
             ApprovalsOK, ResultsOK, HostOK
<1>5. actor.at = "creating" => actor.run \in Runs
  BY DEF LoopOK, ActorState
<1>6. [at |-> "reading"] \in ActorState
  BY DEF ActorState
<1>7. CASE SessionCreated
  <2>1. actor.run \in Runs /\ StartRun(actor.run, actor.run)
    BY <1>5, <1>7 DEF SessionCreated
  <2>2. SessionsOK' /\ RunsOK'
    BY <1>2, <1>7, <2>1 DEF SessionCreated, SessionsOK, RunsOK, LoopOK
  <2>3. LoopOK'
    BY <1>6, <1>7 DEF SessionCreated, LoopOK
  <2> QED BY <1>7, <2>2, <2>3 DEF SessionCreated, CallsOK, ApprovalsOK, ResultsOK, HostOK
<1>8. CASE SessionCreateFails
  <2>1. RunsOK'
    BY <1>5, <1>8 DEF SessionCreateFails, RunsOK
  <2> QED BY <1>6, <1>8, <2>1 DEF SessionCreateFails, LoopOK, SessionsOK, CallsOK,
             ApprovalsOK, ResultsOK, HostOK
<1>9. CASE TakeStop
  <2>1. channel' \in Seq(Command)
    BY <1>0, <1>9 DEF TakeStop
  <2>2. aborted' \in [Runs -> BOOLEAN] /\ slot' \in [Runs -> Runs \cup {NoRun}]
    BY <1>9 DEF TakeStop, RunsOK, SessionsOK
  <2> QED BY <1>9, <2>1, <2>2 DEF TakeStop, LoopOK, SessionsOK, RunsOK, CallsOK,
             ApprovalsOK, ResultsOK, HostOK
<1>10. CASE TakeDrop
  <2>1. channel' \in Seq(Command)
    BY <1>0, <1>10 DEF TakeDrop
  <2>2. SessionsOK'
    BY <1>10 DEF TakeDrop, SessionsOK
  <2> QED BY <1>10, <2>1, <2>2 DEF TakeDrop, LoopOK, RunsOK, CallsOK, ApprovalsOK,
             ResultsOK, HostOK
<1>11. CASE TakeSetModel
  <2>1. channel' \in Seq(Command) /\ cmd.model \in Models
    BY <1>0, <1>11, CommandFields DEF TakeSetModel
  <2>2. actor' \in ActorState
    BY <1>11, <2>1 DEF TakeSetModel, ActorState, LoopOK
  <2> QED BY <1>11, <2>1, <2>2 DEF TakeSetModel, LoopOK, SessionsOK, RunsOK, CallsOK,
             ApprovalsOK, ResultsOK, HostOK
<1>12. CASE ModelSwitched
  <2>1. actor.session \in Runs /\ actor.model \in Models
    BY <1>12 DEF ModelSwitched, LoopOK, ActorState
  <2>2. SessionsOK'
    BY <1>12, <2>1 DEF ModelSwitched, SessionsOK
  <2> QED BY <1>6, <1>12, <2>2 DEF ModelSwitched, LoopOK, RunsOK, CallsOK, ApprovalsOK,
             ResultsOK, HostOK
<1>13. CASE TakeRespond
  <2>1. channel' \in Seq(Command) /\ cmd.id \in Ids /\ cmd.answer \in {"allow", "deny"}
    BY <1>0, <1>13, CommandFields DEF TakeRespond
  <2>2. ApprovalsOK'
    BY <1>13, <2>1, ApprovalsType DEF TakeRespond
  <2> QED BY <1>13, <2>1, <2>2 DEF TakeRespond, LoopOK, SessionsOK, RunsOK, CallsOK,
             ResultsOK, HostOK
<1>14. CASE TakeToolResult
  <2>1. channel' \in Seq(Command) /\ cmd.call \in Calls
    BY <1>0, <1>14, CommandFields DEF TakeToolResult
  <2>2. ResultsOK'
    BY <1>14, <2>1, ResultsType DEF TakeToolResult
  <2> QED BY <1>14, <2>1, <2>2 DEF TakeToolResult, LoopOK, SessionsOK, RunsOK, CallsOK,
             ApprovalsOK, HostOK
<1> QED BY <1>1, <1>3, <1>4, <1>7, <1>8, <1>9, <1>10, <1>11, <1>12, <1>13, <1>14 DEF Actor

LEMMA TaskTypes ==
    ASSUME TypeOK, Task
    PROVE  TypeOK'
<1> USE EngineAssumption DEF TypeOK
<1> USE DEF hostVars, sessionVars, runVars, approvalVars, resultVars, toolVars
<1>1. ASSUME NEW r \in Runs, AcquireLock(r)
      PROVE  TypeOK'
  BY <1>1 DEF AcquireLock, LoopOK, SessionsOK, RunsOK, CallsOK, ApprovalsOK, ResultsOK, HostOK
<1>2. ASSUME NEW r \in Runs, RunEnds(r)
      PROVE  TypeOK'
  BY <1>2 DEF RunEnds, LoopOK, SessionsOK, RunsOK, CallsOK, ApprovalsOK, ResultsOK, HostOK
<1>3. ASSUME NEW r \in Runs, NEW batch \in SUBSET CallsOf(r), StartBatch(r, batch)
      PROVE  TypeOK'
  BY <1>3 DEF StartBatch, LoopOK, SessionsOK, RunsOK, CallsOK, ApprovalsOK, ResultsOK,
              HostOK, Live
<1>4. ASSUME NEW r \in Runs, AbortBatch(r)
      PROVE  TypeOK'
  <2>1. ApprovalsOK' /\ ResultsOK'
    BY <1>4, ApprovalsType, ResultsType DEF AbortBatch
  <2>2. CallsOK'
    BY <1>4 DEF AbortBatch, CallsOK, Over
  <2> QED BY <1>4, <2>1, <2>2 DEF AbortBatch, CallFrame, LoopOK, SessionsOK, RunsOK, HostOK
<1>5. ASSUME NEW c \in Calls, NEW state \in Live \cup Over, Becomes(c, state), CallFrame,
             ApprovalsOK', ResultsOK', requested' \in SUBSET Calls
      PROVE  TypeOK'
  <2>1. CallsOK'
    BY <1>5 DEF Becomes, CallsOK
  <2> QED BY <1>5, <2>1 DEF CallFrame, LoopOK, SessionsOK, RunsOK, HostOK
<1>6. ASSUME NEW c \in Calls, ToolStep(c) \/ BuiltinReturns(c) \/ Timer(c)
      PROVE  TypeOK'
  <2>1. UNCHANGED approvalVars => ApprovalsOK'
    BY DEF ApprovalsOK
  <2>2. UNCHANGED resultVars => ResultsOK'
    BY DEF ResultsOK
  <2>3. requested \in SUBSET Calls /\ IdOf[c] \in Ids
    BY DEF HostOK
  <2> USE <1>5, <2>1, <2>2, <2>3, ApprovalsType, ResultsType DEF Live, Over
  <2> HIDE EngineAssumption
  <2> HIDE DEF TypeOK
  <2>4. CASE AskApproval(c)
    BY <2>4 DEF AskApproval, TypeOK
  <2>5. CASE ExecutePlan(c)
    BY <2>5 DEF ExecutePlan, TypeOK
  <2>6. CASE ExecuteIo(c)
    BY <2>6 DEF ExecuteIo, TypeOK
  <2>7. CASE ExecuteBuiltin(c)
    BY <2>7 DEF ExecuteBuiltin, TypeOK
  <2>8. CASE BuiltinReturns(c)
    BY <2>8 DEF BuiltinReturns, TypeOK
  <2>9. CASE GateDenies(c)
    BY <2>9 DEF GateDenies, TypeOK
  <2>10. CASE PlanDecided(c)
    BY <2>10 DEF PlanDecided, TypeOK
  <2>11. CASE ResultArrives(c)
    BY <2>11 DEF ResultArrives, TypeOK
  <2>12. CASE DialogTimesOut(c)
    BY <2>12 DEF DialogTimesOut, TypeOK
  <2>13. CASE ResultTimesOut(c)
    BY <2>13 DEF ResultTimesOut, TypeOK
  <2> QED BY <1>6, <2>4, <2>5, <2>6, <2>7, <2>8, <2>9, <2>10, <2>11, <2>12, <2>13
          DEF ToolStep, Timer
<1> HIDE DEF TypeOK
<1> QED BY <1>1, <1>2, <1>3, <1>4, <1>6 DEF Task

LEMMA TypeStep ==
    ASSUME TypeOK, [Next]_vars
    PROVE  TypeOK'
<1>1. CASE UNCHANGED vars
  BY <1>1 DEF TypeOK, vars, hostVars, sessionVars, runVars, toolVars, LoopOK, SessionsOK,
              RunsOK, CallsOK, ApprovalsOK, ResultsOK, HostOK
<1> QED BY <1>1, HostTypes, ActorTypes, TaskTypes DEF Next

(***************************************************************************)
(* Type correctness of the engine.                                         *)
(***************************************************************************)
THEOREM TypeCorrect == Spec => []TypeOK
<1>1. Init => TypeOK
  <2> SUFFICES ASSUME Init
               PROVE  TypeOK
    OBVIOUS
  <2>1. LoopOK
    BY DEF Init, LoopOK, ActorState
  <2>2. SessionsOK /\ RunsOK
    BY DEF Init, SessionsOK, RunsOK
  <2>3. CallsOK /\ ApprovalsOK /\ ResultsOK
    BY DEF Init, CallsOK, ApprovalsOK, ResultsOK
  <2>4. HostOK
    BY EngineAssumption DEF Init, HostOK
  <2> QED BY <2>1, <2>2, <2>3, <2>4 DEF TypeOK
<1>2. TypeOK /\ [Next]_vars => TypeOK'
  BY TypeStep
<1> QED BY <1>1, <1>2, PTL DEF Spec

-----------------------------------------------------------------------------
(***************************************************************************)
(* The inductive invariant.  AbortSlotCoherent alone is not inductive: it  *)
(* needs that a session never gives two runs the same generation, that a   *)
(* slot only holds runs of its own session, and that a prompt is taken off *)
(* the channel once.                                                       *)
(***************************************************************************)
Spawned == {"queued", "streaming", "ended"}

\* A run belongs to a session from the moment it is spawned.
Placement ==
    \A r \in Runs : /\ handle[r] \in Runs <=> phase[r] \in Spawned
                    /\ aborted[r] => handle[r] \in Runs

\* The runs of a session are numbered apart, up to run_gen.
Generations ==
    /\ \A r \in Runs : handle[r] \in Runs => genOf[r] <= gen[handle[r]]
    /\ \A r, s \in Runs :
         handle[r] \in Runs /\ handle[s] = handle[r] /\ genOf[s] = genOf[r] => r = s

\* A slot holds a run of its own session.
SlotOfSession == \A h \in Runs : slot[h] \in Runs => handle[slot[h]] = h

\* The mutex of a session is held by the run of it that executes.
Exclusion ==
    \A h, r \in Runs : lock[h] = r <=> phase[r] = "streaming" /\ handle[r] = h

SessionInv ==
    /\ Placement /\ Generations /\ SlotOfSession /\ Exclusion /\ AbortSlotCoherent

\* A prompt in the channel has been sent and not yet taken, and is there once.
InChannel ==
    /\ \A i \in 1..Len(channel) :
         channel[i].op = "Prompt" => phase[channel[i].run] = "sent"
    /\ \A i, j \in 1..Len(channel) :
         /\ channel[i].op = "Prompt" /\ channel[j].op = "Prompt"
         /\ channel[i].run = channel[j].run
         => i = j

InActor == actor.at = "creating" => phase[actor.run] = "creating"

IInv == TypeOK /\ SessionInv /\ InChannel /\ InActor

-----------------------------------------------------------------------------
(***************************************************************************)
(* How the steps that concern sessions keep SessionInv.                    *)
(***************************************************************************)
LEMMA SessionFrame ==
    ASSUME TypeOK, SessionInv, UNCHANGED <<lock, slot, gen, handle, genOf, aborted>>,
           \A r \in Runs : phase[r] \in Spawned \/ phase'[r] \in Spawned
                           => phase'[r] = phase[r]
    PROVE  SessionInv'
<1> USE DEF TypeOK, SessionsOK, RunsOK, Spawned
<1>1. Placement'
  BY DEF SessionInv, Placement
<1>2. Generations'
  BY DEF SessionInv, Generations
<1>3. SlotOfSession'
  BY DEF SessionInv, SlotOfSession
<1>4. Exclusion'
  BY DEF SessionInv, Exclusion
<1>5. AbortSlotCoherent'
  BY DEF SessionInv, AbortSlotCoherent, Alive, Owns
<1> QED BY <1>1, <1>2, <1>3, <1>4, <1>5 DEF SessionInv

\* A new run supersedes whatever run its session's slot held.
LEMMA StartRunKeeps ==
    ASSUME TypeOK, SessionInv, NEW r \in Runs, NEW h \in Runs, phase[r] \notin Spawned,
           StartRun(r, h), UNCHANGED <<lock, aborted>>
    PROVE  SessionInv'
<1> USE EngineAssumption DEF TypeOK, SessionsOK, RunsOK, Spawned
<1>1. /\ handle[r] \notin Runs /\ ~aborted[r]
      /\ \A s \in Runs : handle'[s] = IF s = r THEN h ELSE handle[s]
      /\ \A s \in Runs : genOf'[s] = IF s = r THEN gen[h] + 1 ELSE genOf[s]
      /\ \A s \in Runs : phase'[s] = IF s = r THEN "queued" ELSE phase[s]
      /\ \A k \in Runs : gen'[k] = IF k = h THEN gen[h] + 1 ELSE gen[k]
      /\ \A k \in Runs : slot'[k] = IF k = h THEN r ELSE slot[k]
  BY DEF SessionInv, Placement, StartRun
<1>2. \A s \in Runs : s # r /\ handle[s] = h => genOf[s] <= gen[h]
  BY DEF SessionInv, Generations
<1>3. Placement'
  BY <1>1 DEF SessionInv, Placement
<1>4. Generations'
  <2>1. \A s \in Runs : handle'[s] \in Runs => genOf'[s] <= gen'[handle'[s]]
    BY <1>1, <1>2 DEF SessionInv, Generations
  <2>2. ASSUME NEW s \in Runs, NEW q \in Runs,
               handle'[s] \in Runs, handle'[q] = handle'[s], genOf'[q] = genOf'[s]
        PROVE  s = q
    <3>1. CASE s # r /\ q # r
      BY <2>2, <3>1, <1>1 DEF SessionInv, Generations
    <3>2. CASE s = r /\ q # r
      BY <2>2, <3>2, <1>1, <1>2
    <3>3. CASE s # r /\ q = r
      BY <2>2, <3>3, <1>1, <1>2
    <3> QED BY <3>1, <3>2, <3>3
  <2> QED BY <2>1, <2>2 DEF Generations
<1>5. SlotOfSession'
  <2> SUFFICES ASSUME NEW k \in Runs, slot'[k] \in Runs
               PROVE  handle'[slot'[k]] = k
    BY DEF SlotOfSession
  <2>1. CASE k = h
    BY <2>1, <1>1
  <2>2. CASE k # h
    BY <2>2, <1>1 DEF SessionInv, SlotOfSession
  <2> QED BY <2>1, <2>2
<1>6. Exclusion'
  BY <1>1 DEF SessionInv, Exclusion, Placement
<1>7. AbortSlotCoherent'
  <2> SUFFICES ASSUME NEW s \in Runs, NEW k \in Runs, handle'[s] = k
               PROVE  slot'[k] = s <=> Alive(s)' /\ ~aborted'[s] /\ Owns(s)'
    BY DEF AbortSlotCoherent
  <2>1. CASE s = r
    BY <2>1, <1>1 DEF Alive, Owns
  <2>2. CASE s # r /\ k = h
    BY <2>2, <1>1, <1>2 DEF Alive, Owns
  <2>3. CASE s # r /\ k # h
    BY <2>3, <1>1 DEF Alive, Owns, SessionInv, AbortSlotCoherent
  <2> QED BY <2>1, <2>2, <2>3
<1> QED BY <1>3, <1>4, <1>5, <1>6, <1>7 DEF SessionInv

\* A Stop takes the handle out of the slot and fires it.
LEMMA StopKeeps ==
    ASSUME TypeOK, SessionInv, NEW h \in Runs, slot[h] \in Runs,
           aborted' = [aborted EXCEPT ![slot[h]] = TRUE],
           slot' = [slot EXCEPT ![h] = NoRun],
           UNCHANGED <<lock, gen, phase, handle, genOf>>
    PROVE  SessionInv'
<1> USE EngineAssumption DEF TypeOK, SessionsOK, RunsOK
<1>1. handle[slot[h]] = h
  BY DEF SessionInv, SlotOfSession
<1>2. Placement'
  BY <1>1 DEF SessionInv, Placement
<1>3. Generations'
  BY DEF SessionInv, Generations
<1>4. SlotOfSession'
  BY DEF SessionInv, SlotOfSession
<1>5. Exclusion'
  BY DEF SessionInv, Exclusion
<1>6. AbortSlotCoherent'
  BY <1>1 DEF SessionInv, AbortSlotCoherent, Alive, Owns
<1> QED BY <1>2, <1>3, <1>4, <1>5, <1>6 DEF SessionInv

LEMMA AcquireKeeps ==
    ASSUME TypeOK, SessionInv, NEW r \in Runs, AcquireLock(r)
    PROVE  SessionInv'
<1> USE EngineAssumption DEF TypeOK, SessionsOK, RunsOK, AcquireLock
<1>1. handle[r] \in Runs
  BY DEF SessionInv, Placement, Spawned
<1>2. /\ \A s \in Runs : phase'[s] = IF s = r THEN "streaming" ELSE phase[s]
      /\ \A k \in Runs : lock'[k] = IF k = handle[r] THEN r ELSE lock[k]
  BY <1>1
<1>3. Placement'
  BY <1>2 DEF SessionInv, Placement, Spawned
<1>4. Generations'
  BY DEF SessionInv, Generations
<1>5. SlotOfSession'
  BY DEF SessionInv, SlotOfSession
<1>6. Exclusion'
  BY <1>1, <1>2 DEF SessionInv, Exclusion
<1>7. AbortSlotCoherent'
  BY <1>2 DEF SessionInv, AbortSlotCoherent, Alive, Owns
<1> QED BY <1>3, <1>4, <1>5, <1>6, <1>7 DEF SessionInv

\* A run that ends clears the slot if the slot is its own; that no other run
\* of the session has its generation is what keeps a successor's handle safe.
LEMMA RunEndsKeeps ==
    ASSUME TypeOK, SessionInv, NEW r \in Runs, RunEnds(r)
    PROVE  SessionInv'
<1> USE EngineAssumption DEF TypeOK, SessionsOK, RunsOK
<1> DEFINE h == handle[r]
<1>1. h \in Runs
  BY DEF SessionInv, Placement, Spawned, RunEnds
<1>2. /\ phase[r] = "streaming"
      /\ \A s \in Runs : phase'[s] = IF s = r THEN "ended" ELSE phase[s]
      /\ \A k \in Runs : lock'[k] = IF k = h THEN NoRun ELSE lock[k]
      /\ \A k \in Runs : slot'[k] = IF k = h /\ Owns(r) THEN NoRun ELSE slot[k]
      /\ UNCHANGED <<gen, handle, genOf, aborted>>
  BY <1>1 DEF RunEnds
<1>3. Placement'
  BY <1>2 DEF SessionInv, Placement, Spawned
<1>4. Generations'
  BY <1>2 DEF SessionInv, Generations
<1>5. SlotOfSession'
  BY <1>2 DEF SessionInv, SlotOfSession
<1>6. Exclusion'
  BY <1>1, <1>2 DEF SessionInv, Exclusion
<1>7. AbortSlotCoherent'
  <2> SUFFICES ASSUME NEW s \in Runs, NEW k \in Runs, handle'[s] = k
               PROVE  slot'[k] = s <=> Alive(s)' /\ ~aborted'[s] /\ Owns(s)'
    BY DEF AbortSlotCoherent
  <2>1. slot[k] = s <=> Alive(s) /\ ~aborted[s] /\ Owns(s)
    BY <1>2 DEF SessionInv, AbortSlotCoherent
  <2>2. Owns(s)' <=> Owns(s)
    BY <1>2 DEF Owns
  <2>3. CASE s = r
    <3>1. ~Alive(s)'
      BY <2>3, <1>2 DEF Alive
    <3>2. slot'[k] # s
      BY <2>1, <2>3, <1>1, <1>2
    <3> QED BY <3>1, <3>2
  <2>4. CASE s # r
    <3>1. Alive(s)' <=> Alive(s)
      BY <2>4, <1>2 DEF Alive
    <3>2. k = h /\ Owns(r) => ~Owns(s)
      BY <2>4, <1>1, <1>2 DEF Owns, SessionInv, Generations
    <3>3. slot'[k] = s <=> slot[k] = s
      BY <2>1, <3>2, <1>2
    <3> QED BY <2>1, <2>2, <3>1, <3>3, <1>2
  <2> QED BY <2>3, <2>4
<1> QED BY <1>3, <1>4, <1>5, <1>6, <1>7 DEF SessionInv

-----------------------------------------------------------------------------
(***************************************************************************)
(* How the steps on the channel keep InChannel.                            *)
(***************************************************************************)
LEMMA SendKeeps ==
    ASSUME channel \in Seq(Command), InChannel, NEW cmd \in Command, Send(cmd),
           cmd.op # "Prompt",
           \A r \in Runs : phase[r] = "sent" => phase'[r] = "sent"
    PROVE  InChannel'
<1>1. CASE channel' = channel
  BY <1>1, CommandFields DEF InChannel
<1>2. CASE channel' = Append(channel, cmd)
  <2>1. /\ Len(channel') = Len(channel) + 1
        /\ \A i \in 1..Len(channel) : channel'[i] = channel[i] /\ channel[i] \in Command
        /\ channel'[Len(channel) + 1] = cmd
    BY <1>2
  <2>2. \A i \in 1..Len(channel') : channel'[i].op = "Prompt" =>
          i \in 1..Len(channel) /\ channel'[i] = channel[i] /\ channel[i].run \in Runs
    BY <2>1, CommandFields
  <2> QED BY <2>2 DEF InChannel
<1> QED BY <1>1, <1>2 DEF Send

LEMMA SendPromptKeeps ==
    ASSUME TypeOK, InChannel, NEW r \in Runs, SendPrompt(r)
    PROVE  InChannel'
<1> DEFINE cmd == [op |-> "Prompt", run |-> r]
<1> USE DEF TypeOK, RunsOK, LoopOK
<1>1. CASE ~Room
  <2>1. channel' = channel /\ phase' = [phase EXCEPT ![r] = "refused"] /\ phase[r] # "sent"
    BY <1>1 DEF SendPrompt, Send
  <2>2. \A i \in 1..Len(channel) : channel[i].op = "Prompt" => channel[i].run \in Runs
    BY CommandFields
  <2> QED BY <2>1, <2>2 DEF InChannel
<1>2. CASE Room
  <2>1. /\ channel' = Append(channel, cmd)
        /\ phase' = [phase EXCEPT ![r] = "sent"] /\ phase[r] = "configured"
    BY <1>2 DEF SendPrompt, Send
  <2>2. /\ Len(channel') = Len(channel) + 1
        /\ \A i \in 1..Len(channel) : channel'[i] = channel[i] /\ channel[i] \in Command
        /\ channel'[Len(channel) + 1] = cmd
    BY <2>1
  <2>3. \A i \in 1..Len(channel) : channel[i].op = "Prompt" =>
          channel[i].run \in Runs /\ channel[i].run # r
    BY <2>1, <2>2, CommandFields DEF InChannel
  <2>4. \A i \in 1..Len(channel') : channel'[i].op = "Prompt" =>
          phase'[channel'[i].run] = "sent"
    BY <2>1, <2>2, <2>3 DEF InChannel
  <2>5. ASSUME NEW i \in 1..Len(channel'), NEW j \in 1..Len(channel'),
               channel'[i].op = "Prompt", channel'[j].op = "Prompt",
               channel'[i].run = channel'[j].run
        PROVE  i = j
    <3>0. \A k \in 1..Len(channel') : k \notin 1..Len(channel) => channel'[k].run = r
      <4>1. \A k \in 1..Len(channel') : k \notin 1..Len(channel) => k = Len(channel) + 1
        BY <2>2
      <4>2. cmd.run = r
        OBVIOUS
      <4> QED BY <4>1, <4>2, <2>2
    <3>1. CASE i \in 1..Len(channel) /\ j \in 1..Len(channel)
      BY <2>5, <3>1, <2>2 DEF InChannel
    <3>2. CASE i \notin 1..Len(channel) /\ j \in 1..Len(channel)
      BY <2>5, <3>0, <3>2, <2>2, <2>3
    <3>3. CASE i \in 1..Len(channel) /\ j \notin 1..Len(channel)
      BY <2>5, <3>0, <3>3, <2>2, <2>3
    <3>4. CASE i \notin 1..Len(channel) /\ j \notin 1..Len(channel)
      BY <3>4, <2>2
    <3> QED BY <3>1, <3>2, <3>3, <3>4
  <2> QED BY <2>4, <2>5 DEF InChannel
<1> QED BY <1>1, <1>2

LEMMA TakeKeeps ==
    ASSUME channel \in Seq(Command), InChannel, NEW op, Takes(op),
           \A r \in Runs : phase[r] = "sent" /\ phase'[r] # "sent"
                           => op = "Prompt" /\ r = Head(channel).run
    PROVE  InChannel'
<1>1. channel # << >> /\ channel' = Tail(channel) /\ Head(channel).op = op
  BY DEF Takes
<1>2. /\ Len(channel) \in Nat /\ Len(channel) > 0 /\ Len(channel') = Len(channel) - 1
      /\ \A i \in 1..Len(channel') :
           i + 1 \in 1..Len(channel) /\ channel'[i] = channel[i + 1]
      /\ Head(channel) = channel[1] /\ 1 \in 1..Len(channel)
      /\ \A i \in 1..Len(channel) : channel[i] \in Command
  <2> HIDE DEF Command
  <2> QED BY <1>1
<1>3. ASSUME NEW i \in 1..Len(channel'), channel'[i].op = "Prompt"
      PROVE  phase'[channel'[i].run] = "sent"
  <2>1. channel[i + 1].run \in Runs /\ phase[channel[i + 1].run] = "sent"
    BY <1>2, <1>3, CommandFields DEF InChannel
  <2>2. op = "Prompt" => channel[i + 1].run # Head(channel).run
    BY <1>1, <1>2, <1>3 DEF InChannel
  <2> QED BY <2>1, <2>2, <1>2
<1>4. ASSUME NEW i \in 1..Len(channel'), NEW j \in 1..Len(channel'),
             channel'[i].op = "Prompt", channel'[j].op = "Prompt",
             channel'[i].run = channel'[j].run
      PROVE  i = j
  <2>1. i + 1 = j + 1
    BY <1>2, <1>4, SMTT(30) DEF InChannel
  <2> QED BY <2>1
<1> QED BY <1>3, <1>4 DEF InChannel

\* The channel untouched, and no prompt in it.
LEMMA ChannelFrame ==
    ASSUME channel \in Seq(Command), InChannel, UNCHANGED channel,
           \A r \in Runs : phase[r] = "sent" => phase'[r] = "sent"
    PROVE  InChannel'
BY CommandFields DEF InChannel

-----------------------------------------------------------------------------
(***************************************************************************)
(* Every step keeps the inductive invariant.                               *)
(***************************************************************************)
LEMMA HostStep ==
    ASSUME IInv, Host
    PROVE  SessionInv' /\ InChannel' /\ InActor'
<1> USE DEF IInv, sessionVars, runVars
<1>0. channel \in Seq(Command) /\ phase \in [Runs -> {"idle", "configured", "sent",
        "refused", "creating", "failed", "queued", "streaming", "ended"}]
      /\ (actor.at = "creating" => actor.run \in Runs)
  BY DEF TypeOK, LoopOK, RunsOK, ActorState
<1>1. ASSUME NEW r \in Runs, SendConfigure(r)
      PROVE  SessionInv' /\ InChannel' /\ InActor'
  <2>1. [op |-> "Configure", model |-> Want[r]] \in Command
    BY EngineAssumption DEF Command
  <2>2. \A s \in Runs : phase'[s] = IF s = r THEN "configured" ELSE phase[s]
    BY <1>0, <1>1 DEF SendConfigure
  <2>3. phase[r] = "idle"
    BY <1>1 DEF SendConfigure
  <2>4. SessionInv'
    BY <1>1, <2>2, <2>3, SessionFrame DEF SendConfigure, Spawned
  <2>5. InChannel'
    BY <1>0, <1>1, <2>1, <2>2, <2>3, SendKeeps DEF SendConfigure
  <2>6. InActor'
    BY <1>0, <1>1, <2>2, <2>3 DEF InActor, SendConfigure
  <2> QED BY <2>4, <2>5, <2>6
<1>2. ASSUME NEW r \in Runs, SendPrompt(r)
      PROVE  SessionInv' /\ InChannel' /\ InActor'
  <2>1. \A s \in Runs : s # r => phase'[s] = phase[s]
    BY <1>0, <1>2 DEF SendPrompt
  <2>2. phase[r] = "configured" /\ phase'[r] \in {"sent", "refused"}
    BY <1>0, <1>2 DEF SendPrompt
  <2>3. SessionInv'
    BY <1>2, <2>1, <2>2, SessionFrame DEF SendPrompt, Spawned
  <2>4. InChannel'
    BY <1>2, SendPromptKeeps
  <2>5. InActor'
    BY <1>0, <1>2, <2>1, <2>2 DEF InActor, SendPrompt
  <2> QED BY <2>3, <2>4, <2>5
<1>3. ASSUME NEW cmd \in Command, cmd.op # "Prompt", Send(cmd),
             UNCHANGED <<sessionVars, runVars, actor>>
      PROVE  SessionInv' /\ InChannel' /\ InActor'
  BY <1>0, <1>3, SendKeeps, SessionFrame DEF InActor
<1>4. ASSUME NEW cmd \in Command, cmd.op # "Prompt", SendControl(cmd)
      PROVE  SessionInv' /\ InChannel' /\ InActor'
  BY <1>3, <1>4 DEF SendControl
<1>5. ASSUME NEW c \in Calls, NEW a \in {"allow", "deny"}, Click(c, a)
      PROVE  SessionInv' /\ InChannel' /\ InActor'
  <2>1. [op |-> "Respond", id |-> IdOf[c], answer |-> a] \in Command
    BY EngineAssumption DEF Command
  <2> QED BY <1>3, <1>5, <2>1 DEF Click
<1>6. ASSUME NEW c \in Calls, ExecutorReplies(c)
      PROVE  SessionInv' /\ InChannel' /\ InActor'
  <2>1. [op |-> "ToolResult", call |-> c] \in Command
    BY DEF Command
  <2> QED BY <1>3, <1>6, <2>1 DEF ExecutorReplies
<1>7. /\ \A c \in Convs : [op |-> "Stop", conv |-> c] \in Command
      /\ \A c \in Convs : [op |-> "Drop", conv |-> c] \in Command
      /\ \A c \in Convs : \A m \in Models :
            [op |-> "SetModel", conv |-> c, model |-> m] \in Command
  BY DEF Command
<1> HIDE DEF IInv
<1> QED BY <1>1, <1>2, <1>4, <1>5, <1>6, <1>7 DEF Host

LEMMA ActorStep ==
    ASSUME IInv, Actor
    PROVE  SessionInv' /\ InChannel' /\ InActor'
<1> USE DEF IInv, sessionVars, runVars
<1> DEFINE cmd == Head(channel)
<1>0. channel \in Seq(Command) /\ phase \in [Runs -> {"idle", "configured", "sent",
        "refused", "creating", "failed", "queued", "streaming", "ended"}]
      /\ (actor.at = "creating" => actor.run \in Runs)
  BY DEF TypeOK, LoopOK, RunsOK, ActorState
<1>1. ASSUME NEW op, Takes(op)
      PROVE  channel # << >> /\ cmd \in Command /\ cmd.op = op
  BY <1>0, <1>1, TakesType DEF Takes
<1>2. ASSUME Takes("Prompt")
      PROVE  cmd.run \in Runs /\ phase[cmd.run] = "sent"
  <2>1. cmd = channel[1] /\ 1 \in 1..Len(channel)
    BY <1>0, <1>1, <1>2
  <2> QED BY <1>1, <1>2, <2>1, CommandFields DEF InChannel
\* The commands that touch neither a session nor a run.
<1>3. ASSUME NEW op, Takes(op), UNCHANGED <<sessionVars, runVars>>,
             actor' = actor \/ actor'.at = "switching"
      PROVE  SessionInv' /\ InChannel' /\ InActor'
  BY <1>0, <1>3, TakeKeeps, SessionFrame DEF InActor
<1>4. CASE TakeConfigure
  BY <1>3, <1>4 DEF TakeConfigure
<1>5. CASE TakePrompt
  <2>1. cmd.run \in Runs /\ phase[cmd.run] = "sent" /\ Takes("Prompt")
    BY <1>2, <1>5 DEF TakePrompt
  <2>2. entry[ConvOf[cmd.run]] \in Runs
    BY <1>5, <2>1, EngineAssumption DEF TakePrompt, TypeOK, SessionsOK
  <2>3. StartRun(cmd.run, entry[ConvOf[cmd.run]]) /\ UNCHANGED <<lock, aborted, actor>>
    BY <1>5 DEF TakePrompt
  <2>4. SessionInv'
    BY <2>1, <2>2, <2>3, StartRunKeeps DEF Spawned
  <2>5. \A s \in Runs : phase'[s] = IF s = cmd.run THEN "queued" ELSE phase[s]
    BY <1>0, <2>1, <2>3 DEF StartRun
  <2>6. InChannel'
    BY <1>0, <2>1, <2>5, TakeKeeps
  <2>7. InActor'
    BY <2>1, <2>3 DEF InActor, Takes
  <2> QED BY <2>4, <2>6, <2>7
<1>6. CASE TakeFirstPrompt
  <2>1. cmd.run \in Runs /\ phase[cmd.run] = "sent" /\ Takes("Prompt")
    BY <1>2, <1>6 DEF TakeFirstPrompt
  <2>2. \A s \in Runs : phase'[s] = IF s = cmd.run THEN "creating" ELSE phase[s]
    BY <1>0, <1>6, <2>1 DEF TakeFirstPrompt
  <2>3. SessionInv'
    BY <1>6, <2>1, <2>2, SessionFrame DEF TakeFirstPrompt, Spawned
  <2>4. InChannel'
    BY <1>0, <2>1, <2>2, TakeKeeps
  <2>5. InActor'
    BY <1>6, <2>1, <2>2 DEF TakeFirstPrompt, InActor
  <2> QED BY <2>3, <2>4, <2>5
<1>7. CASE SessionCreated
  <2>1. actor.run \in Runs /\ phase[actor.run] = "creating"
    BY <1>0, <1>7 DEF SessionCreated, InActor
  <2>2. SessionInv'
    BY <1>7, <2>1, StartRunKeeps DEF SessionCreated, Spawned
  <2>3. \A s \in Runs : phase'[s] = IF s = actor.run THEN "queued" ELSE phase[s]
    BY <1>0, <1>7 DEF SessionCreated, StartRun
  <2>4. InChannel'
    BY <1>0, <1>7, <2>1, <2>3, ChannelFrame DEF SessionCreated
  <2>5. InActor'
    BY <1>7 DEF SessionCreated, InActor
  <2> QED BY <2>2, <2>4, <2>5
<1>8. CASE SessionCreateFails
  <2>1. actor.run \in Runs /\ phase[actor.run] = "creating"
    BY <1>0, <1>8 DEF SessionCreateFails, InActor
  <2>2. \A s \in Runs : phase'[s] = IF s = actor.run THEN "failed" ELSE phase[s]
    BY <1>0, <1>8 DEF SessionCreateFails
  <2>3. SessionInv'
    BY <1>8, <2>1, <2>2, SessionFrame DEF SessionCreateFails, Spawned
  <2>4. InChannel'
    BY <1>0, <1>8, <2>1, <2>2, ChannelFrame DEF SessionCreateFails
  <2>5. InActor'
    BY <1>8 DEF SessionCreateFails, InActor
  <2> QED BY <2>3, <2>4, <2>5
<1>9. CASE TakeStop
  <2> DEFINE h == entry[cmd.conv]
  <2>1. SessionInv'
    <3>1. CASE h \in Runs /\ slot[h] \in Runs
      BY <1>9, <3>1, StopKeeps DEF TakeStop
    <3>2. CASE ~(h \in Runs /\ slot[h] \in Runs)
      BY <1>9, <3>2, SessionFrame DEF TakeStop
    <3> QED BY <3>1, <3>2
  <2>2. InChannel'
    BY <1>0, <1>9, TakeKeeps DEF TakeStop
  <2>3. InActor'
    BY <1>9 DEF TakeStop, InActor
  <2> QED BY <2>1, <2>2, <2>3
<1>10. CASE TakeDrop
  <2>1. SessionInv'
    BY <1>10, SessionFrame DEF TakeDrop
  <2>2. InChannel'
    BY <1>0, <1>10, TakeKeeps DEF TakeDrop
  <2>3. InActor'
    BY <1>10 DEF TakeDrop, InActor
  <2> QED BY <2>1, <2>2, <2>3
<1>11. CASE TakeSetModel
  BY <1>3, <1>11 DEF TakeSetModel
<1>12. CASE ModelSwitched
  <2>1. SessionInv'
    BY <1>12, SessionFrame DEF ModelSwitched
  <2>2. InChannel'
    BY <1>0, <1>12, ChannelFrame DEF ModelSwitched
  <2>3. InActor'
    BY <1>12 DEF ModelSwitched, InActor
  <2> QED BY <2>1, <2>2, <2>3
<1>13. CASE TakeRespond
  BY <1>3, <1>13 DEF TakeRespond
<1>14. CASE TakeToolResult
  BY <1>3, <1>14 DEF TakeToolResult
<1> HIDE DEF IInv
<1> QED BY <1>4, <1>5, <1>6, <1>7, <1>8, <1>9, <1>10, <1>11, <1>12, <1>13, <1>14 DEF Actor

LEMMA TaskStep ==
    ASSUME IInv, Task
    PROVE  SessionInv' /\ InChannel' /\ InActor'
<1> USE DEF IInv, sessionVars, runVars
<1>0. channel \in Seq(Command) /\ phase \in [Runs -> {"idle", "configured", "sent",
        "refused", "creating", "failed", "queued", "streaming", "ended"}]
      /\ (actor.at = "creating" => actor.run \in Runs)
  BY DEF TypeOK, LoopOK, RunsOK, ActorState
<1>1. ASSUME NEW r \in Runs, AcquireLock(r)
      PROVE  SessionInv' /\ InChannel' /\ InActor'
  <2>1. /\ phase[r] = "queued" /\ UNCHANGED <<channel, actor>>
        /\ \A s \in Runs : phase'[s] = IF s = r THEN "streaming" ELSE phase[s]
    BY <1>0, <1>1 DEF AcquireLock
  <2>2. InChannel'
    BY <1>0, <2>1, ChannelFrame
  <2>3. InActor'
    BY <1>0, <2>1 DEF InActor
  <2> QED BY <1>1, <2>2, <2>3, AcquireKeeps
<1>2. ASSUME NEW r \in Runs, RunEnds(r)
      PROVE  SessionInv' /\ InChannel' /\ InActor'
  <2>1. /\ phase[r] = "streaming" /\ UNCHANGED <<channel, actor>>
        /\ \A s \in Runs : phase'[s] = IF s = r THEN "ended" ELSE phase[s]
    BY <1>0, <1>2 DEF RunEnds
  <2>2. InChannel'
    BY <1>0, <2>1, ChannelFrame
  <2>3. InActor'
    BY <1>0, <2>1 DEF InActor
  <2> QED BY <1>2, <2>2, <2>3, RunEndsKeeps
\* The steps of tool calls touch neither a session, a run, nor the channel.
<1>3. ASSUME UNCHANGED <<channel, actor, sessionVars, runVars>>
      PROVE  SessionInv' /\ InChannel' /\ InActor'
  BY <1>0, <1>3, SessionFrame, ChannelFrame DEF InActor
<1>4. ASSUME NEW r \in Runs, AbortBatch(r)
      PROVE  SessionInv' /\ InChannel' /\ InActor'
  BY <1>3, <1>4 DEF AbortBatch, CallFrame
<1>5. ASSUME NEW r \in Runs, NEW batch \in SUBSET CallsOf(r), StartBatch(r, batch)
      PROVE  SessionInv' /\ InChannel' /\ InActor'
  BY <1>3, <1>5 DEF StartBatch
<1>6. ASSUME NEW c \in Calls, ToolStep(c) \/ BuiltinReturns(c) \/ Timer(c)
      PROVE  SessionInv' /\ InChannel' /\ InActor'
  <2>1. CallFrame
    BY <1>6 DEF ToolStep, Timer, AskApproval, ExecutePlan, ExecuteIo, ExecuteBuiltin,
                GateDenies, PlanDecided, ResultArrives, BuiltinReturns, DialogTimesOut,
                ResultTimesOut
  <2> QED BY <1>3, <2>1 DEF CallFrame
<1> HIDE DEF IInv
<1> QED BY <1>1, <1>2, <1>4, <1>5, <1>6 DEF Task

LEMMA Invariance == Spec => []IInv
<1>1. Init => IInv
  <2> SUFFICES ASSUME Init
               PROVE  SessionInv /\ InChannel /\ InActor /\ TypeOK
    BY DEF IInv
  <2>0. TypeOK
    BY EngineAssumption DEF Init, TypeOK, LoopOK, ActorState, SessionsOK, RunsOK, CallsOK,
                            ApprovalsOK, ResultsOK, HostOK
  <2>1. SessionInv
    BY EngineAssumption DEF Init, SessionInv, Placement, Generations, SlotOfSession,
                            Exclusion, AbortSlotCoherent, Spawned, Alive
  <2>2. InChannel /\ InActor
    BY DEF Init, InChannel, InActor
  <2> QED BY <2>0, <2>1, <2>2
<1>2. IInv /\ [Next]_vars => IInv'
  <2> SUFFICES ASSUME IInv, [Next]_vars
               PROVE  IInv'
    OBVIOUS
  <2>1. TypeOK'
    BY TypeStep DEF IInv
  <2>2. CASE UNCHANGED vars
    <3>1. InChannel' /\ InActor'
      BY <2>2, ChannelFrame DEF vars, runVars, IInv, TypeOK, LoopOK, InActor
    <3>2. SessionInv'
      BY <2>2, SessionFrame DEF vars, runVars, sessionVars, IInv
    <3> QED BY <2>1, <3>1, <3>2 DEF IInv
  <2>3. CASE Host
    BY <2>1, <2>3, HostStep DEF IInv
  <2>4. CASE Actor
    BY <2>1, <2>4, ActorStep DEF IInv
  <2>5. CASE Task
    BY <2>1, <2>5, TaskStep DEF IInv
  <2> QED BY <2>2, <2>3, <2>4, <2>5 DEF Next
<1> QED BY <1>1, <1>2, PTL DEF Spec

(***************************************************************************)
(* For any number of prompts, sessions and Stops: the abort slot of a      *)
(* session holds the handle of its newest run exactly while that run is    *)
(* neither over nor stopped (engine.rs:178-182, 451-455, 532-536).         *)
(***************************************************************************)
THEOREM SlotAlwaysCoherent == Spec => []AbortSlotCoherent
<1>1. IInv => AbortSlotCoherent
  BY DEF IInv, SessionInv
<1> QED BY <1>1, Invariance, PTL

-----------------------------------------------------------------------------
(***************************************************************************)
(* Unless sessions are dropped, every run of a conversation is placed in   *)
(* the conversation's one session, so the session's mutex serializes them. *)
(***************************************************************************)
NotSent(op) == \A i \in 1..Len(channel) : channel[i].op # op

NoDrops == NotSent("Drop")

OneSession == \A r \in Runs : handle[r] \in Runs => handle[r] = entry[ConvOf[r]]

CreatesFirst == actor.at = "creating" => entry[ConvOf[actor.run]] = NoRun

SessionPerConv == NoDrops /\ OneSession /\ CreatesFirst

\* A command the host does not use is never in the channel.
LEMMA UnsentStays ==
    ASSUME NEW op \in {"Drop", "SetModel"}, op \notin HostOps, TypeOK, NotSent(op), [Next]_vars
    PROVE  NotSent(op)'
<1> USE DEF TypeOK, LoopOK
<1>1. ASSUME NEW cmd, cmd.op # op, Send(cmd)
      PROVE  NotSent(op)'
  BY <1>1 DEF NotSent, Send
<1>2. ASSUME NEW o, Takes(o)
      PROVE  NotSent(op)'
  <2>1. channel # << >> /\ channel' = Tail(channel)
    BY <1>2 DEF Takes
  <2>2. \A i \in 1..Len(channel') : i + 1 \in 1..Len(channel) /\ channel'[i] = channel[i + 1]
    BY <2>1
  <2> QED BY <2>2 DEF NotSent
<1>3. CASE UNCHANGED channel
  BY <1>3 DEF NotSent
<1>4. CASE Host
  <2>1. ASSUME NEW cmd, SendControl(cmd)
        PROVE  NotSent(op)'
    BY <1>1, <2>1 DEF SendControl
  <2>2. ASSUME NEW r \in Runs, SendConfigure(r) \/ SendPrompt(r)
        PROVE  NotSent(op)'
    <3>1. [op |-> "Configure", model |-> Want[r]].op # op
      OBVIOUS
    <3>2. [op |-> "Prompt", run |-> r].op # op
      OBVIOUS
    <3> QED BY <1>1, <2>2, <3>1, <3>2 DEF SendConfigure, SendPrompt
  <2>3. ASSUME NEW c \in Calls, NEW a, Click(c, a)
        PROVE  NotSent(op)'
    <3>1. [op |-> "Respond", id |-> IdOf[c], answer |-> a].op # op
      OBVIOUS
    <3> QED BY <1>1, <2>3, <3>1 DEF Click
  <2>4. ASSUME NEW c \in Calls, ExecutorReplies(c)
        PROVE  NotSent(op)'
    <3>1. [op |-> "ToolResult", call |-> c].op # op
      OBVIOUS
    <3> QED BY <1>1, <2>4, <3>1 DEF ExecutorReplies
  <2> HIDE DEF NotSent
  <2> QED BY <1>4, <2>1, <2>2, <2>3, <2>4 DEF Host
<1>5. CASE Actor
  BY <1>2, <1>3, <1>5 DEF Actor, TakeConfigure, TakePrompt, TakeFirstPrompt, SessionCreated,
      SessionCreateFails, TakeStop, TakeDrop, TakeSetModel, ModelSwitched, TakeRespond,
      TakeToolResult
<1>6. CASE Task
  BY <1>3, <1>6 DEF Task, AcquireLock, RunEnds, AbortBatch, StartBatch, CallFrame, ToolStep,
      Timer, AskApproval, ExecutePlan, ExecuteIo, ExecuteBuiltin, GateDenies, PlanDecided,
      ResultArrives, BuiltinReturns, DialogTimesOut, ResultTimesOut
<1>7. CASE UNCHANGED vars
  BY <1>3, <1>7 DEF vars
<1> QED BY <1>4, <1>5, <1>6, <1>7 DEF Next

LEMMA PerConvStep ==
    ASSUME "Drop" \notin HostOps, IInv, SessionPerConv, [Next]_vars
    PROVE  SessionPerConv'
<1> USE DEF IInv, SessionPerConv, TypeOK, SessionsOK, RunsOK, sessionVars, runVars
<1>0. (actor.at = "creating" => actor.run \in Runs)
      /\ (channel # << >> => Head(channel) \in Command)
  <2> HIDE DEF Command
  <2> QED BY DEF LoopOK, ActorState
<1>1. NoDrops'
  BY UnsentStays DEF NoDrops
<1> SUFFICES OneSession' /\ CreatesFirst'
  BY <1>1
<1>2. ASSUME UNCHANGED <<entry, handle>>, actor' = actor \/ actor'.at # "creating"
      PROVE  OneSession' /\ CreatesFirst'
  BY <1>2 DEF OneSession, CreatesFirst
<1>3. CASE Host
  BY <1>2, <1>3 DEF Host, SendConfigure, SendPrompt, SendControl, Click, ExecutorReplies
<1>4. CASE Actor
  <2>1. CASE TakePrompt
    <3> DEFINE r == Head(channel).run
    <3>1. r \in Runs /\ handle' = [handle EXCEPT ![r] = entry[ConvOf[r]]]
          /\ UNCHANGED <<entry, actor>> /\ actor.at = "reading"
      BY <1>0, <2>1, CommandFields DEF TakePrompt, Takes, StartRun
    <3> QED BY <3>1 DEF OneSession, CreatesFirst
  <2>2. CASE TakeFirstPrompt
    <3>1. UNCHANGED <<entry, handle>> /\ actor' = [at |-> "creating", run |-> Head(channel).run]
          /\ entry[ConvOf[Head(channel).run]] = NoRun
      BY <2>2 DEF TakeFirstPrompt
    <3> QED BY <3>1 DEF OneSession, CreatesFirst
  <2>3. CASE SessionCreated
    <3> DEFINE r == actor.run
    <3>1. /\ r \in Runs /\ entry[ConvOf[r]] = NoRun /\ ConvOf[r] \in Convs
          /\ entry' = [entry EXCEPT ![ConvOf[r]] = r]
          /\ handle' = [handle EXCEPT ![r] = r]
          /\ actor'.at = "reading"
      BY <1>0, <2>3, EngineAssumption DEF SessionCreated, StartRun, CreatesFirst
    <3>2. OneSession'
      <4> SUFFICES ASSUME NEW s \in Runs, handle'[s] \in Runs
                   PROVE  handle'[s] = entry'[ConvOf[s]]
        BY DEF OneSession
      <4>1. CASE s = r
        BY <4>1, <3>1
      <4>2. CASE s # r
        <5>1. handle'[s] = handle[s] /\ handle[s] = entry[ConvOf[s]]
          BY <4>2, <3>1 DEF OneSession
        <5>2. ConvOf[s] # ConvOf[r]
          BY <5>1, <3>1, EngineAssumption
        <5>3. ConvOf[s] \in Convs
          BY EngineAssumption
        <5> QED BY <5>1, <5>2, <5>3, <3>1
      <4> QED BY <4>1, <4>2
    <3>3. CreatesFirst'
      BY <3>1 DEF CreatesFirst
    <3> QED BY <3>2, <3>3
  <2>4. ~TakeDrop
    <3>1. channel # << >> => Head(channel) = channel[1] /\ 1 \in 1..Len(channel)
      BY DEF LoopOK
    <3> QED BY <3>1 DEF TakeDrop, Takes, NoDrops, NotSent
  <2>5. CASE TakeConfigure \/ TakeStop \/ TakeSetModel \/ TakeRespond \/ TakeToolResult
    BY <1>2, <2>5 DEF TakeConfigure, TakeStop, TakeSetModel, TakeRespond, TakeToolResult
  <2>6. CASE SessionCreateFails \/ ModelSwitched
    BY <1>2, <2>6 DEF SessionCreateFails, ModelSwitched
  <2> QED BY <1>4, <2>1, <2>2, <2>3, <2>4, <2>5, <2>6 DEF Actor
<1>5. CASE Task
  <2> HIDE DEF IInv, SessionPerConv, TypeOK, SessionsOK, RunsOK
  <2>1. ASSUME NEW r \in Runs, NEW batch,
               AcquireLock(r) \/ RunEnds(r) \/ AbortBatch(r) \/ StartBatch(r, batch)
        PROVE  UNCHANGED <<entry, handle, actor>>
    BY <2>1 DEF AcquireLock, RunEnds, AbortBatch, StartBatch, CallFrame
  <2>2. ASSUME NEW c \in Calls, ToolStep(c) \/ BuiltinReturns(c) \/ Timer(c)
        PROVE  UNCHANGED <<entry, handle, actor>>
    BY <2>2 DEF CallFrame, ToolStep, Timer, AskApproval, ExecutePlan, ExecuteIo,
        ExecuteBuiltin, GateDenies, PlanDecided, ResultArrives, BuiltinReturns,
        DialogTimesOut, ResultTimesOut
  <2>3. UNCHANGED <<entry, handle, actor>>
    BY <1>5, <2>1, <2>2 DEF Task
  <2> QED BY <1>2, <2>3
<1>6. CASE UNCHANGED vars
  BY <1>2, <1>6 DEF vars
<1> QED BY <1>1, <1>3, <1>4, <1>5, <1>6 DEF Next

\* A change of one prompt's phase is a change of its stage, or none.
LEMMA StageMoves ==
    ASSUME TypeOK, NEW r \in Runs, NEW p, phase' = [phase EXCEPT ![r] = p]
    PROVE  Stage' = [Stage EXCEPT ![r] = StageOf(p)]
BY DEF TypeOK, RunsOK, Stage

LEMMA StageStays ==
    ASSUME UNCHANGED phase
    PROVE  UNCHANGED Stage
BY DEF Stage

LEMMA StageStep ==
    ASSUME IInv, SessionPerConv, [Next]_vars
    PROVE  [Conversations!Next]_Stage
<1> USE DEF IInv, runVars
<1>0. /\ TypeOK /\ phase \in [Runs -> {"idle", "configured", "sent", "refused", "creating",
                               "failed", "queued", "streaming", "ended"}]
      /\ \A r \in Runs : Stage[r] = StageOf(phase[r])
      /\ (actor.at = "creating" => actor.run \in Runs /\ phase[actor.run] = "creating")
  BY DEF TypeOK, RunsOK, LoopOK, ActorState, InActor, Stage
<1>1. ASSUME NEW r \in Runs, NEW p, phase' = [phase EXCEPT ![r] = p],
             StageOf(p) = Stage[r]
      PROVE  UNCHANGED Stage
  BY <1>0, <1>1, StageMoves DEF Stage
<1>2. ASSUME Takes("Prompt")
      PROVE  Head(channel).run \in Runs /\ phase[Head(channel).run] = "sent"
  <2>1. Head(channel) = channel[1] /\ 1 \in 1..Len(channel) /\ Head(channel).op = "Prompt"
    BY <1>2 DEF Takes, TypeOK, LoopOK
  <2>2. Head(channel) \in Command
    BY <1>2, TakesType DEF TypeOK, LoopOK
  <2> QED BY <2>1, <2>2, CommandFields DEF InChannel
<1>3. CASE \E r \in Runs : SendConfigure(r)
  <2>1. PICK r \in Runs : SendConfigure(r)
    BY <1>3
  <2>2. phase[r] = "idle" /\ phase' = [phase EXCEPT ![r] = "configured"]
    BY <2>1 DEF SendConfigure
  <2>3. StageOf("configured") = Stage[r]
    BY <1>0, <2>2 DEF StageOf
  <2> QED BY <1>1, <2>2, <2>3
<1>4. CASE \E r \in Runs : SendPrompt(r)
  <2>1. PICK r \in Runs : SendPrompt(r)
    BY <1>4
  <2>2. Stage[r] = "unsent"
    BY <1>0, <2>1 DEF SendPrompt, StageOf
  <2>3. CASE Room
    <3>1. phase' = [phase EXCEPT ![r] = "sent"]
      BY <2>1, <2>3 DEF SendPrompt
    <3>2. Stage' = [Stage EXCEPT ![r] = "waiting"]
      BY <1>0, <3>1, StageMoves DEF StageOf
    <3> QED BY <2>2, <3>2 DEF Conversations!Next, Conversations!Submit
  <2>4. CASE ~Room
    <3>1. phase' = [phase EXCEPT ![r] = "refused"]
      BY <2>1, <2>4 DEF SendPrompt
    <3>2. Stage' = [Stage EXCEPT ![r] = "over"]
      BY <1>0, <3>1, StageMoves DEF StageOf
    <3> QED BY <2>2, <3>2 DEF Conversations!Next, Conversations!Reject
  <2> QED BY <2>3, <2>4
<1>5. CASE TakePrompt
  <2>1. Head(channel).run \in Runs /\ phase[Head(channel).run] = "sent"
    BY <1>2, <1>5 DEF TakePrompt
  <2>2. phase' = [phase EXCEPT ![Head(channel).run] = "queued"]
    BY <1>5 DEF TakePrompt, StartRun
  <2> QED BY <1>0, <1>1, <2>1, <2>2 DEF StageOf
<1>6. CASE TakeFirstPrompt
  <2>1. Head(channel).run \in Runs /\ phase[Head(channel).run] = "sent"
    BY <1>2, <1>6 DEF TakeFirstPrompt
  <2>2. phase' = [phase EXCEPT ![Head(channel).run] = "creating"]
    BY <1>6 DEF TakeFirstPrompt
  <2> QED BY <1>0, <1>1, <2>1, <2>2 DEF StageOf
<1>7. CASE SessionCreated
  <2>1. phase' = [phase EXCEPT ![actor.run] = "queued"] /\ actor.at = "creating"
    BY <1>7 DEF SessionCreated, StartRun
  <2> QED BY <1>0, <1>1, <2>1 DEF StageOf
<1>8. CASE SessionCreateFails
  <2>1. phase' = [phase EXCEPT ![actor.run] = "failed"] /\ actor.at = "creating"
    BY <1>8 DEF SessionCreateFails
  <2>2. Stage[actor.run] = "waiting"
    BY <1>0, <2>1 DEF StageOf
  <2>3. Stage' = [Stage EXCEPT ![actor.run] = "over"]
    BY <1>0, <2>1, StageMoves DEF StageOf
  <2> QED BY <1>0, <2>1, <2>2, <2>3 DEF Conversations!Next, Conversations!Reject
<1>9. CASE \E r \in Runs : AcquireLock(r)
  <2>1. PICK r \in Runs : AcquireLock(r)
    BY <1>9
  <2>2. Stage[r] = "waiting"
    BY <1>0, <2>1 DEF AcquireLock, StageOf
  <2>3. phase' = [phase EXCEPT ![r] = "streaming"]
    BY <2>1 DEF AcquireLock
  <2>4. Stage' = [Stage EXCEPT ![r] = "running"]
    BY <1>0, <2>3, StageMoves DEF StageOf
  <2>5. ~Conversations!Busy(ConvOf[r])
    <3> SUFFICES ASSUME NEW s \in Runs, ConvOf[s] = ConvOf[r], Stage[s] = "running"
                 PROVE  FALSE
      BY DEF Conversations!Busy
    <3>1. phase[s] = "streaming"
      BY <1>0 DEF StageOf
    <3>2. handle[s] \in Runs /\ handle[r] \in Runs
      BY <2>1, <3>1 DEF SessionInv, Placement, Spawned, AcquireLock
    <3>3. handle[s] = handle[r]
      BY <3>2 DEF SessionPerConv, OneSession
    <3>4. lock[handle[r]] = s
      BY <3>1, <3>2, <3>3 DEF SessionInv, Exclusion
    <3> QED BY <2>1, <3>4, EngineAssumption DEF AcquireLock
  <2> QED BY <2>2, <2>4, <2>5 DEF Conversations!Next, Conversations!Begin
<1>10. CASE \E r \in Runs : RunEnds(r)
  <2>1. PICK r \in Runs : RunEnds(r)
    BY <1>10
  <2>2. Stage[r] = "running"
    BY <1>0, <2>1 DEF RunEnds, StageOf
  <2>3. Stage' = [Stage EXCEPT ![r] = "over"]
    BY <1>0, <2>1, StageMoves DEF RunEnds, StageOf
  <2> QED BY <2>2, <2>3 DEF Conversations!Next, Conversations!Finish
<1>11. CASE UNCHANGED phase
  BY <1>11, StageStays
<1>12. CASE Host
  BY <1>3, <1>4, <1>11, <1>12 DEF Host, SendControl, Click, ExecutorReplies
<1>13. CASE Actor
  BY <1>5, <1>6, <1>7, <1>8, <1>11, <1>13 DEF Actor, TakeConfigure, TakeStop, TakeDrop,
     TakeSetModel, ModelSwitched, TakeRespond, TakeToolResult
<1>14. CASE Task
  BY <1>9, <1>10, <1>11, <1>14 DEF Task, AbortBatch, StartBatch, CallFrame, ToolStep,
      Timer, AskApproval, ExecutePlan, ExecuteIo, ExecuteBuiltin, GateDenies, PlanDecided,
      ResultArrives, BuiltinReturns, DialogTimesOut, ResultTimesOut
<1>15. CASE UNCHANGED vars
  BY <1>11, <1>15 DEF vars
<1> QED BY <1>12, <1>13, <1>14, <1>15 DEF Next

(***************************************************************************)
(* A host that drops no session gets what the engine's header promises:    *)
(* the engine implements ConversationRuns (engine.rs:12-15).               *)
(***************************************************************************)
THEOREM Serialization == "Drop" \notin HostOps => (Spec => SerializesPrompts)
<1> SUFFICES ASSUME "Drop" \notin HostOps
             PROVE  Spec => SerializesPrompts
  OBVIOUS
<1>1. Init => Conversations!Init /\ SessionPerConv
  BY EngineAssumption DEF Init, Conversations!Init, Stage, StageOf, SessionPerConv, NoDrops, NotSent,
                          OneSession, CreatesFirst
<1>2. IInv /\ SessionPerConv /\ [Next]_vars => SessionPerConv' /\ [Conversations!Next]_Stage
  BY PerConvStep, StageStep
<1> QED BY <1>1, <1>2, Invariance, PTL DEF Spec, SerializesPrompts, Conversations!Spec

-----------------------------------------------------------------------------
(***************************************************************************)
(* What a Stop does.  It does not do what its doc says (the run stop_misses*)
(* shows that), and this is what it does instead, and when it misses.      *)
(***************************************************************************)
\* A session serves one conversation, and first the prompt that created it.
ServesOne ==
    /\ \A c \in Convs : entry[c] \in Runs =>
         ConvOf[entry[c]] = c /\ handle[entry[c]] = entry[c]
    /\ \A r \in Runs : handle[r] \in Runs => ConvOf[handle[r]] = ConvOf[r]

\* The last number a session gave is that of one of its runs.
NewestThere ==
    \A h \in Runs : gen[h] = 0 \/ \E q \in Runs : handle[q] = h /\ genOf[q] = gen[h]

LEMMA StartRunServes ==
    ASSUME IInv, ServesOne, NewestThere, NEW r \in Runs, NEW h \in Runs,
           handle[r] \notin Runs, ConvOf[h] = ConvOf[r], StartRun(r, h)
    PROVE  /\ \A s \in Runs : handle'[s] \in Runs => ConvOf[handle'[s]] = ConvOf[s]
           /\ \A s \in Runs : handle[s] = s => handle'[s] = s
           /\ NewestThere'
<1> USE DEF IInv, TypeOK, SessionsOK, RunsOK
<1>1. \A s \in Runs : /\ handle'[s] = IF s = r THEN h ELSE handle[s]
                      /\ genOf'[s] = IF s = r THEN gen[h] + 1 ELSE genOf[s]
                      /\ gen'[s] = IF s = h THEN gen[h] + 1 ELSE gen[s]
  BY DEF StartRun
<1>2. \A s \in Runs : handle'[s] \in Runs => ConvOf[handle'[s]] = ConvOf[s]
  BY <1>1 DEF ServesOne
<1>3. ASSUME NEW g \in Runs, gen'[g] # 0
      PROVE  \E q \in Runs : handle'[q] = g /\ genOf'[q] = gen'[g]
  <2>1. CASE g = h
    BY <1>1, <2>1
  <2>2. CASE g # h
    <3>1. PICK q \in Runs : handle[q] = g /\ genOf[q] = gen[g]
      BY <1>1, <1>3, <2>2 DEF NewestThere
    <3>2. q # r
      BY <3>1
    <3> QED BY <1>1, <2>2, <3>1, <3>2
  <2> QED BY <2>1, <2>2
<1> QED BY <1>1, <1>2, <1>3 DEF NewestThere

LEMMA ServesStep ==
    ASSUME IInv, ServesOne, NewestThere, [Next]_vars
    PROVE  ServesOne' /\ NewestThere'
<1> USE DEF sessionVars, runVars
<1>1. ASSUME UNCHANGED <<entry, handle, gen, genOf>>
      PROVE  ServesOne' /\ NewestThere'
  BY <1>1 DEF ServesOne, NewestThere
<1>2. CASE Host
  BY <1>1, <1>2 DEF Host, SendConfigure, SendPrompt, SendControl, Click, ExecutorReplies
<1>3. CASE Actor
  <2>0. /\ actor.at = "creating" => actor.run \in Runs /\ phase[actor.run] = "creating"
        /\ channel # << >> => Head(channel) \in Command
        /\ Takes("Prompt") => phase[Head(channel).run] = "sent"
    <3>1. channel # << >> => Head(channel) = channel[1] /\ 1 \in 1..Len(channel)
                             /\ Head(channel) \in Command
      <4> HIDE DEF Command
      <4> QED BY DEF IInv, TypeOK, LoopOK
    <3> QED BY <3>1 DEF IInv, TypeOK, LoopOK, ActorState, InActor, InChannel, Takes
  <2>1. CASE TakePrompt
    <3> DEFINE r == Head(channel).run
               h == entry[ConvOf[r]]
    <3>1. /\ r \in Runs /\ ConvOf[r] \in Convs /\ h \in Runs /\ phase[r] = "sent"
          /\ StartRun(r, h) /\ UNCHANGED entry
      BY <2>0, <2>1, CommandFields, EngineAssumption
      DEF TakePrompt, Takes, IInv, TypeOK, SessionsOK
    <3>2. handle[r] \notin Runs
      BY <3>1 DEF IInv, SessionInv, Placement, Spawned
    <3>3. ConvOf[h] = ConvOf[r]
      BY <3>1 DEF ServesOne
    <3> HIDE DEF r, h
    <3>4. /\ NewestThere' /\ \A s \in Runs : handle[s] = s => handle'[s] = s
          /\ \A s \in Runs : handle'[s] \in Runs => ConvOf[handle'[s]] = ConvOf[s]
      BY <3>1, <3>2, <3>3, StartRunServes
    <3> QED BY <3>1, <3>4 DEF ServesOne
  <2>2. CASE SessionCreated
    <3> DEFINE r == actor.run
    <3>1. /\ r \in Runs /\ ConvOf[r] \in Convs /\ phase[r] = "creating"
          /\ StartRun(r, r) /\ entry' = [entry EXCEPT ![ConvOf[r]] = r]
      BY <2>0, <2>2, EngineAssumption DEF SessionCreated
    <3>2. handle[r] \notin Runs
      BY <3>1 DEF IInv, SessionInv, Placement, Spawned
    <3> HIDE DEF r
    <3>3. /\ NewestThere' /\ \A s \in Runs : handle[s] = s => handle'[s] = s
          /\ \A s \in Runs : handle'[s] \in Runs => ConvOf[handle'[s]] = ConvOf[s]
      BY <3>1, <3>2, StartRunServes
    <3>4. \A c \in Convs : entry'[c] = IF c = ConvOf[r] THEN r ELSE entry[c]
      BY <3>1 DEF IInv, TypeOK, SessionsOK
    <3>5. handle'[r] = r
      BY <3>1 DEF StartRun, IInv, TypeOK, RunsOK
    <3> QED BY <3>3, <3>4, <3>5 DEF ServesOne
  <2>3. CASE TakeDrop
    <3>1. \A c \in Convs : entry'[c] = entry[c] \/ entry'[c] = NoRun
      BY <2>3 DEF TakeDrop, IInv, TypeOK, SessionsOK
    <3>2. UNCHANGED <<handle, gen, genOf>>
      BY <2>3 DEF TakeDrop
    <3> QED BY <3>1, <3>2, EngineAssumption DEF ServesOne, NewestThere
  <2>4. CASE \/ TakeConfigure \/ TakeFirstPrompt \/ SessionCreateFails \/ TakeStop
             \/ TakeSetModel \/ ModelSwitched \/ TakeRespond \/ TakeToolResult
    BY <1>1, <2>4 DEF TakeConfigure, TakeFirstPrompt, SessionCreateFails, TakeStop,
                      TakeSetModel, ModelSwitched, TakeRespond, TakeToolResult
  <2> QED BY <1>3, <2>1, <2>2, <2>3, <2>4 DEF Actor
<1>4. CASE Task
  <2>1. ASSUME NEW r \in Runs, NEW batch,
               AcquireLock(r) \/ RunEnds(r) \/ AbortBatch(r) \/ StartBatch(r, batch)
        PROVE  UNCHANGED <<entry, handle, gen, genOf>>
    BY <2>1 DEF AcquireLock, RunEnds, AbortBatch, StartBatch, CallFrame
  <2>2. ASSUME NEW c \in Calls, ToolStep(c) \/ BuiltinReturns(c) \/ Timer(c)
        PROVE  UNCHANGED <<entry, handle, gen, genOf>>
    BY <2>2 DEF CallFrame, ToolStep, Timer, AskApproval, ExecutePlan, ExecuteIo,
        ExecuteBuiltin, GateDenies, PlanDecided, ResultArrives, BuiltinReturns,
        DialogTimesOut, ResultTimesOut
  <2> QED BY <1>1, <1>4, <2>1, <2>2 DEF Task
<1>5. CASE UNCHANGED vars
  BY <1>1, <1>5 DEF vars
<1> QED BY <1>2, <1>3, <1>4, <1>5 DEF Next

LEMMA ServesInvariance == Spec => [](IInv /\ ServesOne /\ NewestThere)
<1>1. Init => ServesOne /\ NewestThere
  BY EngineAssumption DEF Init, ServesOne, NewestThere
<1>2. IInv /\ ServesOne /\ NewestThere /\ [Next]_vars => ServesOne' /\ NewestThere'
  BY ServesStep
<1> QED BY <1>1, <1>2, Invariance, PTL DEF Spec

\* A Stop fires the abort of the newest run of the session that its conversation
\* has, if that run is still alive, whether it executes or only waits for the
\* mutex; and of no other run (engine.rs: the Stop arm of the loop).
StopAbortsTheNewest ==
    [][TakeStop =>
          \A r \in Runs :
              aborted'[r] <=> \/ aborted[r]
                              \/ /\ Alive(r) /\ Owns(r)
                                 /\ handle[r] = entry[Head(channel).conv]]_vars

THEOREM AStopAbortsTheNewest == Spec => StopAbortsTheNewest
<1>1. IInv /\ [Next]_vars
        => [TakeStop =>
              \A r \in Runs :
                  aborted'[r] <=> \/ aborted[r]
                                  \/ /\ Alive(r) /\ Owns(r)
                                     /\ handle[r] = entry[Head(channel).conv]]_vars
  <2> SUFFICES ASSUME IInv, TakeStop, NEW r \in Runs
               PROVE  aborted'[r] <=> \/ aborted[r]
                                      \/ /\ Alive(r) /\ Owns(r)
                                         /\ handle[r] = entry[Head(channel).conv]
    OBVIOUS
  <2> DEFINE h == entry[Head(channel).conv]
  <2>1. aborted \in [Runs -> BOOLEAN]
    BY DEF IInv, TypeOK, RunsOK
  <2>2. aborted' = IF h \in Runs /\ slot[h] \in Runs
                   THEN [aborted EXCEPT ![slot[h]] = TRUE] ELSE aborted
    BY DEF TakeStop
  <2> HIDE DEF h
  <2>3. aborted'[r] <=> aborted[r] \/ (h \in Runs /\ slot[h] = r)
    BY <2>1, <2>2
  <2>4. h \in Runs /\ slot[h] = r => handle[r] = h /\ Alive(r) /\ Owns(r)
    BY DEF IInv, SessionInv, SlotOfSession, AbortSlotCoherent
  <2>5. Alive(r) /\ Owns(r) /\ handle[r] = h => aborted[r] \/ (h \in Runs /\ slot[h] = r)
    <3>1. Alive(r) => handle[r] \in Runs
      BY DEF IInv, SessionInv, Placement, Alive, Spawned
    <3> QED BY <3>1 DEF IInv, SessionInv, AbortSlotCoherent
  <2> QED BY <2>3, <2>4, <2>5 DEF h
<1> QED BY <1>1, Invariance, PTL DEF Spec, StopAbortsTheNewest

\* Without Drop, the run in flight escapes a Stop only behind a later prompt of its
\* own conversation, which the loop has already given to the same session.
StopMissesOnlyBehindALater ==
    [][TakeStop =>
          \A r \in Runs : phase[r] = "streaming" /\ ConvOf[r] = Head(channel).conv =>
              \/ aborted'[r]
              \/ \E q \in Runs : /\ ConvOf[q] = ConvOf[r] /\ handle[q] = handle[r]
                                 /\ genOf[q] > genOf[r]]_vars

THEOREM AStopMissesOnlyBehindALater ==
    "Drop" \notin HostOps => (Spec => StopMissesOnlyBehindALater)
<1> SUFFICES ASSUME "Drop" \notin HostOps
             PROVE  Spec => StopMissesOnlyBehindALater
  OBVIOUS
<1>1. Spec => []SessionPerConv
  <2>1. Init => SessionPerConv
    BY EngineAssumption DEF Init, SessionPerConv, NoDrops, NotSent, OneSession, CreatesFirst
  <2>2. IInv /\ SessionPerConv /\ [Next]_vars => SessionPerConv'
    BY PerConvStep
  <2> QED BY <2>1, <2>2, Invariance, PTL DEF Spec
<1>2. IInv /\ ServesOne /\ NewestThere /\ SessionPerConv /\ [Next]_vars
        => [TakeStop =>
              \A r \in Runs : phase[r] = "streaming" /\ ConvOf[r] = Head(channel).conv =>
                  \/ aborted'[r]
                  \/ \E q \in Runs : /\ ConvOf[q] = ConvOf[r] /\ handle[q] = handle[r]
                                     /\ genOf[q] > genOf[r]]_vars
  <2> SUFFICES ASSUME IInv, ServesOne, NewestThere, SessionPerConv, TakeStop, NEW r \in Runs,
                      phase[r] = "streaming", ConvOf[r] = Head(channel).conv, ~aborted'[r]
               PROVE  \E q \in Runs : /\ ConvOf[q] = ConvOf[r] /\ handle[q] = handle[r]
                                      /\ genOf[q] > genOf[r]
    OBVIOUS
  <2> DEFINE h == handle[r]
  <2>1. h \in Runs /\ h = entry[Head(channel).conv]
    BY DEF IInv, SessionInv, Placement, Spawned, SessionPerConv, OneSession
  <2>2. aborted' = IF slot[h] \in Runs THEN [aborted EXCEPT ![slot[h]] = TRUE] ELSE aborted
    BY <2>1 DEF TakeStop
  <2>3. ~aborted[r] /\ slot[h] # r
    BY <2>2 DEF IInv, TypeOK, RunsOK
  <2>4. gen[h] # genOf[r]
    BY <2>1, <2>3 DEF IInv, SessionInv, AbortSlotCoherent, Alive, Owns
  <2>5. genOf[r] \in Nat /\ gen[h] \in Nat /\ genOf[r] <= gen[h]
    BY <2>1 DEF IInv, TypeOK, SessionsOK, RunsOK, SessionInv, Generations
  <2>6. PICK q \in Runs : handle[q] = h /\ genOf[q] = gen[h]
    BY <2>1, <2>4, <2>5 DEF NewestThere
  <2>7. ConvOf[q] = ConvOf[r]
    BY <2>1, <2>6 DEF ServesOne
  <2> QED BY <2>4, <2>5, <2>6, <2>7
<1> QED BY <1>1, <1>2, ServesInvariance, PTL DEF Spec, StopMissesOnlyBehindALater

-----------------------------------------------------------------------------
(***************************************************************************)
(* The model a cost is computed from can be another than the session's when*)
(* a session goes on after a Configure, but, unless models are switched,   *)
(* not for the prompt that creates the session: both are set from the      *)
(* loop's model in one step, and the session's never again.                *)
(***************************************************************************)
NoSwitch == NotSent("SetModel") /\ actor.at # "switching"

FirstCostRight == \A r \in Runs : handle[r] = r => costModel[r] = sessModel[r]

LEMMA NoSwitchStep ==
    ASSUME "SetModel" \notin HostOps, TypeOK, NoSwitch, [Next]_vars
    PROVE  NoSwitch' /\ ~ModelSwitched
<1>1. NotSent("SetModel")'
  BY UnsentStays DEF NoSwitch
<1>2. ~Takes("SetModel")
  <2>1. channel # << >> => Head(channel) = channel[1] /\ 1 \in 1..Len(channel)
    BY DEF TypeOK, LoopOK
  <2> QED BY <2>1 DEF Takes, NoSwitch, NotSent
<1>3. actor'.at # "switching"
  <2>1. CASE Host \/ UNCHANGED vars
    BY <2>1 DEF NoSwitch, vars, Host, SendConfigure, SendPrompt, SendControl, Click,
                ExecutorReplies
  <2>2. CASE Actor
    BY <1>2, <2>2 DEF NoSwitch, Actor, TakeConfigure, TakePrompt, TakeFirstPrompt,
        SessionCreated, SessionCreateFails, TakeStop, TakeDrop, TakeSetModel, ModelSwitched,
        TakeRespond, TakeToolResult
  <2>3. CASE Task
    <3>1. ASSUME NEW r \in Runs, NEW batch,
                 AcquireLock(r) \/ RunEnds(r) \/ AbortBatch(r) \/ StartBatch(r, batch)
          PROVE  UNCHANGED actor
      BY <3>1 DEF AcquireLock, RunEnds, AbortBatch, StartBatch, CallFrame
    <3>2. ASSUME NEW c \in Calls, ToolStep(c) \/ BuiltinReturns(c) \/ Timer(c)
          PROVE  UNCHANGED actor
      BY <3>2 DEF CallFrame, ToolStep, Timer, AskApproval, ExecutePlan, ExecuteIo,
          ExecuteBuiltin, GateDenies, PlanDecided, ResultArrives, BuiltinReturns,
          DialogTimesOut, ResultTimesOut
    <3> QED BY <2>3, <3>1, <3>2 DEF Task, NoSwitch
  <2> QED BY <2>1, <2>2, <2>3 DEF Next
<1> QED BY <1>1, <1>3 DEF NoSwitch, ModelSwitched

LEMMA FirstCostStep ==
    ASSUME IInv, ServesOne, FirstCostRight, ~ModelSwitched, [Next]_vars
    PROVE  FirstCostRight'
<1> USE DEF sessionVars, runVars
<1>1. ASSUME UNCHANGED <<handle, costModel, sessModel>>
      PROVE  FirstCostRight'
  BY <1>1 DEF FirstCostRight
<1>2. CASE Host
  BY <1>1, <1>2 DEF Host, SendConfigure, SendPrompt, SendControl, Click, ExecutorReplies
<1>3. CASE Actor
  <2>0. /\ actor.at = "creating" => actor.run \in Runs /\ phase[actor.run] = "creating"
        /\ channel # << >> => Head(channel) \in Command
    <3> HIDE DEF Command
    <3> QED BY DEF IInv, TypeOK, LoopOK, ActorState, InActor
  <2>1. CASE TakePrompt
    <3> DEFINE r == Head(channel).run
               h == entry[ConvOf[r]]
    <3>1. r \in Runs /\ ConvOf[r] \in Convs /\ h \in Runs /\ StartRun(r, h)
          /\ UNCHANGED sessModel
      BY <2>0, <2>1, CommandFields, EngineAssumption
      DEF TakePrompt, Takes, IInv, TypeOK, SessionsOK
    <3>2. h # r
      <4>1. phase[r] = "sent"
        <5>1. Head(channel) = channel[1] /\ 1 \in 1..Len(channel) /\ Head(channel).op = "Prompt"
          BY <2>1 DEF TakePrompt, Takes, IInv, TypeOK, LoopOK
        <5> QED BY <5>1 DEF IInv, InChannel
      <4>2. handle[r] \notin Runs
        BY <3>1, <4>1 DEF IInv, SessionInv, Placement, Spawned
      <4>3. handle[h] = h
        BY <3>1 DEF ServesOne
      <4> QED BY <3>1, <4>2, <4>3
    <3> HIDE DEF r, h
    <3>3. \A s \in Runs : /\ handle'[s] = IF s = r THEN h ELSE handle[s]
                          /\ costModel'[s] = IF s = r THEN modelCfg ELSE costModel[s]
      BY <3>1 DEF StartRun, IInv, TypeOK, RunsOK
    <3> QED BY <3>1, <3>2, <3>3 DEF FirstCostRight
  <2>2. CASE SessionCreated
    <3> DEFINE r == actor.run
    <3>1. /\ r \in Runs /\ StartRun(r, r)
          /\ sessModel' = [sessModel EXCEPT ![r] = modelCfg]
      BY <2>0, <2>2 DEF SessionCreated
    <3> HIDE DEF r
    <3>2. \A s \in Runs : /\ handle'[s] = IF s = r THEN r ELSE handle[s]
                          /\ costModel'[s] = IF s = r THEN modelCfg ELSE costModel[s]
                          /\ sessModel'[s] = IF s = r THEN modelCfg ELSE sessModel[s]
      BY <3>1 DEF StartRun, IInv, TypeOK, RunsOK, SessionsOK
    <3> QED BY <3>2 DEF FirstCostRight
  <2>3. CASE \/ TakeConfigure \/ TakeFirstPrompt \/ SessionCreateFails \/ TakeStop \/ TakeDrop
             \/ TakeSetModel \/ TakeRespond \/ TakeToolResult
    BY <1>1, <2>3 DEF TakeConfigure, TakeFirstPrompt, SessionCreateFails, TakeStop, TakeDrop,
                      TakeSetModel, TakeRespond, TakeToolResult
  <2> QED BY <1>3, <2>1, <2>2, <2>3 DEF Actor
<1>4. CASE Task
  <2>1. ASSUME NEW r \in Runs, NEW batch,
               AcquireLock(r) \/ RunEnds(r) \/ AbortBatch(r) \/ StartBatch(r, batch)
        PROVE  UNCHANGED <<handle, costModel, sessModel>>
    BY <2>1 DEF AcquireLock, RunEnds, AbortBatch, StartBatch, CallFrame
  <2>2. ASSUME NEW c \in Calls, ToolStep(c) \/ BuiltinReturns(c) \/ Timer(c)
        PROVE  UNCHANGED <<handle, costModel, sessModel>>
    BY <2>2 DEF CallFrame, ToolStep, Timer, AskApproval, ExecutePlan, ExecuteIo,
        ExecuteBuiltin, GateDenies, PlanDecided, ResultArrives, BuiltinReturns,
        DialogTimesOut, ResultTimesOut
  <2> QED BY <1>1, <1>4, <2>1, <2>2 DEF Task
<1>5. CASE UNCHANGED vars
  BY <1>1, <1>5 DEF vars
<1> QED BY <1>2, <1>3, <1>4, <1>5 DEF Next

\* start_run and get_or_create of the session: unless the host switches models, the
\* cost of the prompt that creates a session is computed from the session's model.
THEOREM FirstCostIsRight ==
    "SetModel" \notin HostOps => (Spec => []FirstCostRight)
<1> SUFFICES ASSUME "SetModel" \notin HostOps
             PROVE  Spec => []FirstCostRight
  OBVIOUS
<1>1. Init => NoSwitch /\ FirstCostRight
  BY EngineAssumption DEF Init, NoSwitch, NotSent, FirstCostRight
<1>2. IInv /\ NoSwitch /\ [Next]_vars => NoSwitch' /\ ~ModelSwitched
  BY NoSwitchStep DEF IInv
<1>3. IInv /\ ServesOne /\ FirstCostRight /\ NoSwitch /\ [Next]_vars => FirstCostRight'
  BY <1>2, FirstCostStep
<1> QED BY <1>1, <1>2, <1>3, ServesInvariance, PTL DEF Spec
=============================================================================
