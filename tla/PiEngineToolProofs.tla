-------------------------- MODULE PiEngineToolProofs --------------------------
(***************************************************************************)
(* The engine's tool calls, for any number of them: what they leave in the *)
(* two registries, how they use these, and whose consent they need.        *)
(***************************************************************************)
EXTENDS PiEngineProofs

Open == {"asking", "planning"}

\* An entry is that of a call which waits on it, a waiting call is one of a prompt
\* that runs, and a call that does not wait has nothing in its inboxes.
Filed ==
    /\ \A id \in Ids : approvals[id] \in Calls =>
         call[approvals[id]] \in Open /\ IdOf[approvals[id]] = id
    /\ \A c \in Calls : results[c] \in Calls => results[c] = c /\ call[c] = "bridged"
    /\ \A c \in Calls : call[c] \in Live => phase[RunOf[c]] = "streaming"
    /\ \A c \in Calls : call[c] \notin Open => decision[c] = "empty"
    /\ \A c \in Calls : call[c] # "bridged" => output[c] = "empty"

-----------------------------------------------------------------------------
(***************************************************************************)
(* The steps, by what they do to the calls.                                *)
(***************************************************************************)
\* A running prompt stops running only when it ends, with no call under way.
LEMMA PhaseStays ==
    ASSUME IInv, Next, NEW r \in Runs, phase[r] = "streaming"
    PROVE  phase'[r] = "streaming" \/ RunEnds(r)
<1>1. phase \in [Runs -> {"idle", "configured", "sent", "refused", "creating",
                          "failed", "queued", "streaming", "ended"}]
  BY DEF IInv, TypeOK, RunsOK
<1>2. ASSUME NEW s, NEW p, phase' = [phase EXCEPT ![s] = p], phase[s] # "streaming"
      PROVE  phase'[r] = "streaming"
  BY <1>1, <1>2
<1>3. CASE Host
  BY <1>2, <1>3 DEF Host, SendConfigure, SendPrompt, SendControl, Click, ExecutorReplies,
                    runVars
<1>4. CASE Actor
  <2>1. ASSUME Takes("Prompt")
        PROVE  phase[Head(channel).run] = "sent"
    <3>1. Head(channel) = channel[1] /\ 1 \in 1..Len(channel) /\ Head(channel).op = "Prompt"
      BY <2>1 DEF Takes, IInv, TypeOK, LoopOK
    <3> QED BY <3>1 DEF IInv, InChannel
  <2>2. CASE TakePrompt \/ TakeFirstPrompt
    BY <1>2, <2>1, <2>2 DEF TakePrompt, TakeFirstPrompt, StartRun
  <2>3. CASE SessionCreated \/ SessionCreateFails
    BY <1>2, <2>3 DEF SessionCreated, SessionCreateFails, StartRun, IInv, InActor
  <2>4. CASE \/ TakeConfigure \/ TakeStop \/ TakeDrop \/ TakeSetModel \/ ModelSwitched
             \/ TakeRespond \/ TakeToolResult
    BY <2>4 DEF TakeConfigure, TakeStop, TakeDrop, TakeSetModel, ModelSwitched, TakeRespond,
                TakeToolResult, runVars
  <2> QED BY <1>4, <2>2, <2>3, <2>4 DEF Actor
<1>5. CASE Task
  <2>1. ASSUME NEW q \in Runs, AcquireLock(q)
        PROVE  phase'[r] = "streaming"
    BY <1>2, <2>1 DEF AcquireLock
  <2>2. ASSUME NEW q \in Runs, RunEnds(q)
        PROVE  phase'[r] = "streaming" \/ RunEnds(r)
    BY <1>1, <2>2 DEF RunEnds
  <2>3. ASSUME NEW q \in Runs, NEW batch, AbortBatch(q) \/ StartBatch(q, batch)
        PROVE  phase'[r] = "streaming"
    BY <2>3 DEF AbortBatch, StartBatch, CallFrame, runVars
  <2>4. ASSUME NEW c \in Calls, ToolStep(c) \/ BuiltinReturns(c) \/ Timer(c)
        PROVE  phase'[r] = "streaming"
    BY <2>4 DEF CallFrame, runVars, ToolStep, Timer, AskApproval, ExecutePlan, ExecuteIo,
        ExecuteBuiltin, GateDenies, PlanDecided, ResultArrives, BuiltinReturns,
        DialogTimesOut, ResultTimesOut
  <2> QED BY <1>5, <2>1, <2>2, <2>3, <2>4 DEF Task
<1> QED BY <1>3, <1>4, <1>5 DEF Next

\* The steps that touch neither a call nor a registry.
Elsewhere ==
    UNCHANGED toolVars

LEMMA ToolKinds ==
    ASSUME [Next]_vars
    PROVE  \/ Elsewhere
           \/ TakeRespond \/ TakeToolResult
           \/ \E r \in Runs : AbortBatch(r)
           \/ \E r \in Runs : \E batch \in SUBSET CallsOf(r) : StartBatch(r, batch)
           \/ \E c \in Calls :
                \/ AskApproval(c) \/ ExecutePlan(c) \/ ExecuteIo(c) \/ ExecuteBuiltin(c)
                \/ GateDenies(c) \/ PlanDecided(c) \/ ResultArrives(c) \/ BuiltinReturns(c)
                \/ DialogTimesOut(c) \/ ResultTimesOut(c)
<1>1. CASE UNCHANGED vars
  BY <1>1 DEF vars, Elsewhere
<1>2. CASE Host
  BY <1>2 DEF Elsewhere, Host, SendConfigure, SendPrompt, SendControl, Click, ExecutorReplies
<1>3. CASE Actor
  BY <1>3 DEF Elsewhere, Actor, TakeConfigure, TakePrompt, TakeFirstPrompt, SessionCreated,
      SessionCreateFails, TakeStop, TakeDrop, TakeSetModel, ModelSwitched
<1>4. CASE Task
  <2>1. ASSUME NEW r \in Runs, AcquireLock(r) \/ RunEnds(r)
        PROVE  Elsewhere
    BY <2>1 DEF Elsewhere, AcquireLock, RunEnds
  <2> QED BY <1>4, <2>1 DEF Task, ToolStep, Timer
<1> QED BY <1>1, <1>2, <1>3, <1>4 DEF Next

\* A call gets under way only in a batch that its prompt starts.
LEMMA GetsUnderWay ==
    ASSUME TypeOK, [Next]_vars, NEW c \in Calls, call[c] \notin Live, call'[c] \in Live
    PROVE  \E batch \in SUBSET CallsOf(RunOf[c]) : StartBatch(RunOf[c], batch)
<1>1. call \in [Calls -> {"new"} \cup Live \cup Over]
  BY DEF TypeOK, CallsOK
<1>2. ASSUME NEW d \in Calls, NEW state, Becomes(d, state), call[d] \in Live
      PROVE  FALSE
  BY <1>1, <1>2 DEF Becomes
<1>3. ~ \E d \in Calls :
          \/ AskApproval(d) \/ ExecutePlan(d) \/ ExecuteIo(d) \/ ExecuteBuiltin(d)
          \/ GateDenies(d) \/ PlanDecided(d) \/ ResultArrives(d) \/ BuiltinReturns(d)
          \/ DialogTimesOut(d) \/ ResultTimesOut(d)
  BY <1>2 DEF Live, MayExecute, AskApproval, ExecutePlan, ExecuteIo, ExecuteBuiltin,
      GateDenies, PlanDecided, ResultArrives, BuiltinReturns, DialogTimesOut, ResultTimesOut
<1>4. ~Elsewhere /\ ~TakeRespond /\ ~TakeToolResult
  BY DEF Elsewhere, toolVars, TakeRespond, TakeToolResult
<1>5. ASSUME NEW r \in Runs, AbortBatch(r)
      PROVE  FALSE
  <2>1. call'[c] = IF c \in LiveCalls(r) THEN "dropped" ELSE call[c]
    BY <1>5 DEF AbortBatch
  <2> QED BY <2>1 DEF LiveCalls, Live
<1>6. PICK r \in Runs : \E batch \in SUBSET CallsOf(r) : StartBatch(r, batch)
  BY <1>3, <1>4, <1>5, ToolKinds
<1>7. RunOf[c] = r
  BY <1>6 DEF StartBatch, CallsOf
<1> QED BY <1>6, <1>7

\* A call that gets under way, or stays there, is one of a prompt that runs.
LEMMA LivePrompts ==
    ASSUME IInv, Filed, [Next]_vars
    PROVE  \A c \in Calls : call'[c] \in Live => phase'[RunOf[c]] = "streaming"
<1> USE EngineAssumption
<1>1. ASSUME NEW c \in Calls, call[c] \in Live, call'[c] \in Live
      PROVE  phase'[RunOf[c]] = "streaming"
  <2>1. phase[RunOf[c]] = "streaming" /\ RunOf[c] \in Runs
    BY <1>1 DEF Filed
  <2>2. ~RunEnds(RunOf[c])
    BY <1>1, <2>1 DEF RunEnds, LiveCalls, CallsOf
  <2>3. CASE UNCHANGED vars
    BY <2>1, <2>3 DEF vars, runVars
  <2> QED BY <2>1, <2>2, <2>3, PhaseStays
<1>2. ASSUME NEW c \in Calls, call[c] \notin Live, call'[c] \in Live
      PROVE  phase'[RunOf[c]] = "streaming"
  <2>1. PICK batch \in SUBSET CallsOf(RunOf[c]) : StartBatch(RunOf[c], batch)
    BY <1>2, GetsUnderWay DEF IInv
  <2> QED BY <2>1 DEF StartBatch, runVars
<1> QED BY <1>1, <1>2


-----------------------------------------------------------------------------
(***************************************************************************)
(* The steps, by what they do to the calls that wait and to the registries.*)
(***************************************************************************)
OpenCalls == {c \in Calls : call[c] \in Open}

BridgedCalls == {c \in Calls : call[c] = "bridged"}

ApprovalsMove ==
    \/ UNCHANGED approvalVars /\ OpenCalls' = OpenCalls
    \/ TakeRespond
    \/ \E c \in Calls : /\ c \in OpenCalls => decision[c] # "empty"
                        /\ Approvals!Insert(c, IdOf[c])
                        /\ OpenCalls' = OpenCalls \cup {c}
    \/ \E S \in SUBSET OpenCalls : /\ Approvals!Release(S)
                                   /\ OpenCalls' = OpenCalls \ S

ResultsMove ==
    \/ UNCHANGED resultVars /\ BridgedCalls' = BridgedCalls
    \/ TakeToolResult
    \/ \E c \in Calls \ BridgedCalls : /\ Results!Insert(c, c)
                                       /\ BridgedCalls' = BridgedCalls \cup {c}
    \/ \E S \in SUBSET BridgedCalls : /\ Results!Release(S)
                                      /\ BridgedCalls' = BridgedCalls \ S

\* One call that changes state.
LEMMA BecomesMoves ==
    ASSUME TypeOK, NEW c \in Calls, NEW state, Becomes(c, state)
    PROVE  /\ OpenCalls' = IF state \in Open THEN OpenCalls \cup {c} ELSE OpenCalls \ {c}
           /\ BridgedCalls' = IF state = "bridged" THEN BridgedCalls \cup {c}
                              ELSE BridgedCalls \ {c}
<1>1. \A d \in Calls : call'[d] = IF d = c THEN state ELSE call[d]
  BY DEF TypeOK, CallsOK, Becomes
<1> QED BY <1>1 DEF OpenCalls, BridgedCalls

\* A call that was not gated holds no ticket, and gives none back.
LEMMA NothingToRelease ==
    ASSUME TypeOK, Filed, NEW c \in Calls, call[c] = "scheduled", Approvals!Release({c})
    PROVE  UNCHANGED approvalVars
<1>1. decision[c] = "empty"
  BY DEF Filed, Open
<1>2. approvals \in [Ids -> Calls \cup {NoCall}] /\ decision \in [Calls -> {"empty", "closed", "allow", "deny"}]
  BY DEF TypeOK, ApprovalsOK
<1> DEFINE key == IF call[c] \in {"asking", "planning"} THEN IdOf[c] ELSE NoId
<1>3. key \notin Ids
  BY EngineAssumption
<1>4. approvals' = [id \in Ids |-> IF id \in {key} THEN NoCall ELSE approvals[id]]
  BY DEF Approvals!Release
<1>5. decision' = [v \in Calls |-> IF v \in {c} THEN "empty"
                                   ELSE IF \E id \in Ids \cap {key} : approvals[id] = v
                                        THEN Approvals!Wake(decision[v])
                                   ELSE decision[v]]
  BY DEF Approvals!Release
<1>6. approvals' = approvals
  BY <1>2, <1>3, <1>4
<1>7. decision' = decision
  BY <1>1, <1>2, <1>3, <1>5
<1> QED BY <1>6, <1>7 DEF approvalVars

LEMMA ApprovalsMoves ==
    ASSUME TypeOK, Filed, [Next]_vars
    PROVE  ApprovalsMove
<1>1. CASE Elsewhere
  BY <1>1 DEF Elsewhere, toolVars, approvalVars, ApprovalsMove, OpenCalls
<1>2. CASE TakeRespond
  BY <1>2 DEF ApprovalsMove
<1>3. CASE TakeToolResult
  BY <1>3 DEF TakeToolResult, ApprovalsMove, OpenCalls
<1>4. ASSUME NEW r \in Runs, AbortBatch(r)
      PROVE  ApprovalsMove
  <2> DEFINE S == {c \in LiveCalls(r) : call[c] \in {"asking", "planning"}}
  <2>1. \A c \in Calls : call'[c] = IF c \in LiveCalls(r) THEN "dropped" ELSE call[c]
    BY <1>4 DEF AbortBatch
  <2>2. S \in SUBSET OpenCalls
    BY DEF OpenCalls, Open, LiveCalls, CallsOf
  <2>3. OpenCalls' = OpenCalls \ S
    BY <2>1 DEF OpenCalls, Open
  <2>4. Approvals!Release(S)
    BY <1>4 DEF AbortBatch
  <2> QED BY <2>2, <2>3, <2>4 DEF ApprovalsMove
<1>5. ASSUME NEW r \in Runs, NEW batch \in SUBSET CallsOf(r), StartBatch(r, batch)
      PROVE  ApprovalsMove
  <2>1. \A c \in Calls : call'[c] = IF c \in batch THEN "scheduled" ELSE call[c]
    BY <1>5 DEF StartBatch
  <2>2. OpenCalls' = OpenCalls
    BY <1>5, <2>1 DEF OpenCalls, Open, StartBatch
  <2> QED BY <1>5, <2>2 DEF ApprovalsMove, StartBatch
<1>6. ASSUME NEW c \in Calls, AskApproval(c)
      PROVE  ApprovalsMove
  <2>1. c \notin OpenCalls
    BY <1>6 DEF AskApproval, OpenCalls, Open
  <2>2. OpenCalls' = OpenCalls \cup {c}
    BY <1>6, BecomesMoves DEF AskApproval, Open
  <2> QED BY <1>6, <2>1, <2>2 DEF AskApproval, ApprovalsMove
<1>7. ASSUME NEW c \in Calls, ExecutePlan(c)
      PROVE  ApprovalsMove
  <2>1. c \in OpenCalls => decision[c] # "empty"
    BY <1>7 DEF ExecutePlan, MayExecute, OpenCalls, Open
  <2>2. OpenCalls' = OpenCalls \cup {c}
    BY <1>7, BecomesMoves DEF ExecutePlan, Open
  <2> QED BY <1>7, <2>1, <2>2 DEF ExecutePlan, ApprovalsMove
<1>8. ASSUME NEW c \in Calls, NEW state, Becomes(c, state), state \notin Open,
             Approvals!Release({c}), call[c] \in Open \cup {"scheduled"}
      PROVE  ApprovalsMove
  <2>1. OpenCalls' = OpenCalls \ {c}
    BY <1>8, BecomesMoves
  <2>2. CASE call[c] \in Open
    <3>1. {c} \in SUBSET OpenCalls
      BY <2>2 DEF OpenCalls
    <3> QED BY <1>8, <2>1, <3>1 DEF ApprovalsMove
  <2>3. CASE call[c] = "scheduled"
    <3>1. UNCHANGED approvalVars
      BY <1>8, <2>3, NothingToRelease
    <3>2. OpenCalls' = OpenCalls
      BY <2>1, <2>3 DEF OpenCalls, Open
    <3> QED BY <3>1, <3>2 DEF ApprovalsMove
  <2> QED BY <1>8, <2>2, <2>3
<1>9. ASSUME NEW c \in Calls, NEW state, Becomes(c, state), state \notin Open,
             call[c] \notin Open, UNCHANGED approvalVars
      PROVE  ApprovalsMove
  <2>1. OpenCalls' = OpenCalls
    BY <1>9, BecomesMoves DEF OpenCalls
  <2> QED BY <1>9, <2>1 DEF ApprovalsMove
<1>10. ASSUME NEW c \in Calls,
              \/ ExecuteIo(c) \/ ExecuteBuiltin(c) \/ GateDenies(c)
              \/ PlanDecided(c) \/ DialogTimesOut(c)
       PROVE  ApprovalsMove
  BY <1>8, <1>10 DEF ExecuteIo, ExecuteBuiltin, GateDenies, PlanDecided, DialogTimesOut,
     MayExecute, Open
<1>11. ASSUME NEW c \in Calls, ResultArrives(c) \/ BuiltinReturns(c) \/ ResultTimesOut(c)
       PROVE  ApprovalsMove
  BY <1>9, <1>11 DEF ResultArrives, BuiltinReturns, ResultTimesOut, Open
<1> QED BY <1>1, <1>2, <1>3, <1>4, <1>5, <1>6, <1>7, <1>10, <1>11, ToolKinds

LEMMA ResultsMoves ==
    ASSUME TypeOK, [Next]_vars
    PROVE  ResultsMove
<1>1. CASE Elsewhere
  BY <1>1 DEF Elsewhere, toolVars, resultVars, ResultsMove, BridgedCalls
<1>2. CASE TakeRespond
  BY <1>2 DEF TakeRespond, ResultsMove, BridgedCalls
<1>3. CASE TakeToolResult
  BY <1>3 DEF ResultsMove
<1>4. ASSUME NEW r \in Runs, AbortBatch(r)
      PROVE  ResultsMove
  <2> DEFINE S == {c \in LiveCalls(r) : call[c] = "bridged"}
  <2>1. \A c \in Calls : call'[c] = IF c \in LiveCalls(r) THEN "dropped" ELSE call[c]
    BY <1>4 DEF AbortBatch
  <2>2. S \in SUBSET BridgedCalls
    BY DEF BridgedCalls, LiveCalls, CallsOf
  <2>3. BridgedCalls' = BridgedCalls \ S
    BY <2>1 DEF BridgedCalls
  <2>4. Results!Release(S)
    BY <1>4 DEF AbortBatch
  <2> QED BY <2>2, <2>3, <2>4 DEF ResultsMove
<1>5. ASSUME NEW r \in Runs, NEW batch \in SUBSET CallsOf(r), StartBatch(r, batch)
      PROVE  ResultsMove
  <2>1. \A c \in Calls : call'[c] = IF c \in batch THEN "scheduled" ELSE call[c]
    BY <1>5 DEF StartBatch
  <2>2. BridgedCalls' = BridgedCalls
    BY <1>5, <2>1 DEF BridgedCalls, StartBatch
  <2> QED BY <1>5, <2>2 DEF ResultsMove, StartBatch
<1>6. ASSUME NEW c \in Calls, ExecuteIo(c)
      PROVE  ResultsMove
  <2>1. c \in Calls \ BridgedCalls
    BY <1>6 DEF ExecuteIo, MayExecute, BridgedCalls
  <2>2. BridgedCalls' = BridgedCalls \cup {c}
    BY <1>6, BecomesMoves DEF ExecuteIo
  <2> QED BY <1>6, <2>1, <2>2 DEF ExecuteIo, ResultsMove
<1>7. ASSUME NEW c \in Calls, ResultArrives(c) \/ ResultTimesOut(c)
      PROVE  ResultsMove
  <2>1. {c} \in SUBSET BridgedCalls
    BY <1>7 DEF ResultArrives, ResultTimesOut, BridgedCalls
  <2>2. BridgedCalls' = BridgedCalls \ {c}
    BY <1>7, BecomesMoves DEF ResultArrives, ResultTimesOut
  <2> QED BY <1>7, <2>1, <2>2 DEF ResultArrives, ResultTimesOut, ResultsMove
<1>8. ASSUME NEW c \in Calls, NEW state, Becomes(c, state), state # "bridged",
             call[c] # "bridged", UNCHANGED resultVars
      PROVE  ResultsMove
  <2>1. BridgedCalls' = BridgedCalls
    BY <1>8, BecomesMoves DEF BridgedCalls
  <2> QED BY <1>8, <2>1 DEF ResultsMove
<1>9. ASSUME NEW c \in Calls,
             \/ AskApproval(c) \/ ExecutePlan(c) \/ ExecuteBuiltin(c) \/ GateDenies(c)
             \/ PlanDecided(c) \/ BuiltinReturns(c) \/ DialogTimesOut(c)
      PROVE  ResultsMove
  BY <1>8, <1>9 DEF AskApproval, ExecutePlan, ExecuteBuiltin, GateDenies, PlanDecided,
     BuiltinReturns, DialogTimesOut, MayExecute
<1> QED BY <1>1, <1>2, <1>3, <1>4, <1>5, <1>6, <1>7, <1>9, ToolKinds

-----------------------------------------------------------------------------
(***************************************************************************)
(* What is registered is waited for, by a call of a prompt that runs.      *)
(***************************************************************************)
ApprovalsFiled ==
    /\ \A id \in Ids : approvals[id] \in Calls =>
         approvals[id] \in OpenCalls /\ IdOf[approvals[id]] = id
    /\ \A c \in Calls \ OpenCalls : decision[c] = "empty"

ResultsFiled ==
    /\ \A c \in Calls : results[c] \in Calls => results[c] = c /\ c \in BridgedCalls
    /\ \A c \in Calls \ BridgedCalls : output[c] = "empty"

CallsStream == \A c \in Calls : call[c] \in Live => phase[RunOf[c]] = "streaming"

LEMMA FiledParts == Filed <=> ApprovalsFiled /\ ResultsFiled /\ CallsStream
BY DEF Filed, ApprovalsFiled, ResultsFiled, CallsStream, OpenCalls, BridgedCalls

LEMMA ApprovalsFiledStep ==
    ASSUME TypeOK, ApprovalsFiled, ApprovalsMove
    PROVE  ApprovalsFiled'
<1>1. /\ approvals \in [Ids -> Calls \cup {NoCall}]
      /\ decision \in [Calls -> {"empty", "closed", "allow", "deny"}]
      /\ IdOf \in [Calls -> Ids] /\ NoCall \notin Calls
  BY EngineAssumption DEF TypeOK, ApprovalsOK
<1>2. OpenCalls \subseteq Calls
  BY DEF OpenCalls
<1>3. CASE UNCHANGED approvalVars /\ OpenCalls' = OpenCalls
  BY <1>3 DEF ApprovalsFiled, approvalVars
<1>4. CASE TakeRespond
  <2>1. /\ OpenCalls' = OpenCalls
        /\ \E id \in Ids, a \in {"allow", "deny"} : Approvals!Deliver(id, a)
    <3>1. Takes("Respond") /\ Approvals!Deliver(Head(channel).id, Head(channel).answer)
      BY <1>4 DEF TakeRespond
    <3>2. Head(channel) \in Command /\ Head(channel).op = "Respond"
      BY <3>1, TakesType DEF TypeOK, LoopOK
    <3> QED BY <1>4, <3>1, <3>2, CommandFields DEF TakeRespond, OpenCalls
  <2>2. PICK id \in Ids, a \in {"allow", "deny"} : Approvals!Deliver(id, a)
    BY <2>1
  <2>3. /\ approvals' = [approvals EXCEPT ![id] = NoCall]
        /\ decision' = [v \in Calls |-> IF v = approvals[id] THEN a ELSE decision[v]]
    BY <2>2 DEF Approvals!Deliver
  <2> QED BY <1>1, <2>1, <2>3 DEF ApprovalsFiled
<1>5. ASSUME NEW c \in Calls, Approvals!Insert(c, IdOf[c]), OpenCalls' = OpenCalls \cup {c}
      PROVE  ApprovalsFiled'
  <2>1. /\ approvals' = [approvals EXCEPT ![IdOf[c]] = c]
        /\ decision' = [v \in Calls |-> IF v = c THEN "empty"
                                        ELSE IF v = approvals[IdOf[c]]
                                             THEN Approvals!Wake(decision[v])
                                        ELSE decision[v]]
    BY <1>5 DEF Approvals!Insert
  <2> QED BY <1>1, <1>5, <2>1 DEF ApprovalsFiled
<1>6. ASSUME NEW S \in SUBSET OpenCalls, Approvals!Release(S), OpenCalls' = OpenCalls \ S
      PROVE  ApprovalsFiled'
  <2> DEFINE keys == {[c \in Calls |-> IF call[c] \in {"asking", "planning"}
                                       THEN IdOf[c] ELSE NoId][w] : w \in S}
  <2>1. /\ approvals' = [id \in Ids |-> IF id \in keys THEN NoCall ELSE approvals[id]]
        /\ decision' = [v \in Calls |-> IF v \in S THEN "empty"
                                        ELSE IF \E id \in Ids \cap keys : approvals[id] = v
                                             THEN Approvals!Wake(decision[v])
                                        ELSE decision[v]]
    BY <1>6 DEF Approvals!Release
  <2>2. \A w \in S : IdOf[w] \in keys
    BY <1>2 DEF OpenCalls, Open
  <2> HIDE DEF keys
  <2> QED BY <1>1, <1>2, <1>6, <2>1, <2>2 DEF ApprovalsFiled
<1> QED BY <1>3, <1>4, <1>5, <1>6 DEF ApprovalsMove

LEMMA ResultsFiledStep ==
    ASSUME TypeOK, ResultsFiled, ResultsMove
    PROVE  ResultsFiled'
<1>1. /\ results \in [Calls -> Calls \cup {NoCall}]
      /\ output \in [Calls -> {"empty", "closed", "result"}]
      /\ NoCall \notin Calls
  BY EngineAssumption DEF TypeOK, ResultsOK
<1>2. BridgedCalls \subseteq Calls
  BY DEF BridgedCalls
<1>3. CASE UNCHANGED resultVars /\ BridgedCalls' = BridgedCalls
  BY <1>3 DEF ResultsFiled, resultVars
<1>4. CASE TakeToolResult
  <2> DEFINE c == Head(channel).call
  <2>1. c \in Calls /\ Results!Deliver(c, "result") /\ BridgedCalls' = BridgedCalls
    <3>1. Takes("ToolResult") /\ Results!Deliver(c, "result")
      BY <1>4 DEF TakeToolResult
    <3>2. Head(channel) \in Command /\ Head(channel).op = "ToolResult"
      BY <3>1, TakesType DEF TypeOK, LoopOK
    <3> QED BY <1>4, <3>1, <3>2, CommandFields DEF TakeToolResult, BridgedCalls
  <2>2. /\ results' = [results EXCEPT ![c] = NoCall]
        /\ output' = [v \in Calls |-> IF v = results[c] THEN "result" ELSE output[v]]
    BY <2>1 DEF Results!Deliver
  <2> HIDE DEF c
  <2> QED BY <1>1, <2>1, <2>2 DEF ResultsFiled
<1>5. ASSUME NEW c \in Calls, Results!Insert(c, c), BridgedCalls' = BridgedCalls \cup {c}
      PROVE  ResultsFiled'
  <2>1. /\ results' = [results EXCEPT ![c] = c]
        /\ output' = [v \in Calls |-> IF v = c THEN "empty"
                                      ELSE IF v = results[c] THEN Results!Wake(output[v])
                                      ELSE output[v]]
    BY <1>5 DEF Results!Insert
  <2> QED BY <1>1, <1>5, <2>1 DEF ResultsFiled
<1>6. ASSUME NEW S \in SUBSET BridgedCalls, Results!Release(S), BridgedCalls' = BridgedCalls \ S
      PROVE  ResultsFiled'
  <2> DEFINE keys == {[c \in Calls |-> IF call[c] = "bridged" THEN c ELSE NoCall][w] : w \in S}
  <2>1. /\ results' = [id \in Calls |-> IF id \in keys THEN NoCall ELSE results[id]]
        /\ output' = [v \in Calls |-> IF v \in S THEN "empty"
                                      ELSE IF \E id \in Calls \cap keys : results[id] = v
                                           THEN Results!Wake(output[v])
                                      ELSE output[v]]
    BY <1>6 DEF Results!Release
  <2>2. \A w \in S : w \in keys
    BY <1>2 DEF BridgedCalls
  <2> HIDE DEF keys
  <2> QED BY <1>1, <1>2, <1>6, <2>1, <2>2 DEF ResultsFiled
<1> QED BY <1>3, <1>4, <1>5, <1>6 DEF ResultsMove

LEMMA FiledInvariance == Spec => [](IInv /\ Filed)
<1>1. Init => Filed
  BY EngineAssumption DEF Init, Filed, Open, Live
<1>2. IInv /\ Filed /\ [Next]_vars => Filed'
  <2> SUFFICES ASSUME IInv, Filed, [Next]_vars
               PROVE  Filed'
    OBVIOUS
  <2>1. TypeOK
    BY DEF IInv
  <2>2. ApprovalsFiled' /\ ResultsFiled'
    BY <2>1, FiledParts, ApprovalsMoves, ResultsMoves, ApprovalsFiledStep, ResultsFiledStep
  <2>3. CallsStream'
    BY LivePrompts DEF CallsStream
  <2>4. (ApprovalsFiled /\ ResultsFiled /\ CallsStream)' => Filed'
    BY DEF Filed, ApprovalsFiled, ResultsFiled, CallsStream, OpenCalls, BridgedCalls
  <2> QED BY <2>2, <2>3, <2>4
<1> QED BY <1>1, <1>2, Invariance, PTL DEF Spec

(***************************************************************************)
(* Nothing of a run stays registered, however it ends and whatever the     *)
(* ids of its calls: NothingPendingAfterRun holds of every engine.         *)
(***************************************************************************)
THEOREM NothingStaysPending == Spec => []NothingPendingAfterRun
<1>1. IInv /\ Filed => NothingPendingAfterRun
  <2> SUFFICES ASSUME IInv, Filed
               PROVE  NothingPendingAfterRun
    OBVIOUS
  <2>1. RunOf \in [Calls -> Runs]
    BY EngineAssumption
  <2>2. \A r \in Runs : phase[r] = "streaming" => lock[handle[r]] = r
    BY DEF IInv, SessionInv, Placement, Exclusion, Spawned, TypeOK, RunsOK
  <2>3. \A c \in Calls : call[c] \in Open \cup {"bridged"} => phase[RunOf[c]] = "streaming"
    BY DEF Filed, Open, Live
  <2> QED BY <2>1, <2>2, <2>3 DEF Filed, NothingPendingAfterRun
<1> QED BY <1>1, FiledInvariance, PTL

(***************************************************************************)
(* The engine uses each registry as the registry means to be used.         *)
(***************************************************************************)
LEMMA ApprovalsStep ==
    ASSUME TypeOK, ApprovalsMove
    PROVE  [Approvals!Next]_(Approvals!regVars)
<1> DEFINE Ask == [c \in Calls |-> IF call[c] \in {"asking", "planning"} THEN IdOf[c] ELSE NoId]
<1>1. /\ NoId \notin Ids /\ IdOf \in [Calls -> Ids]
      /\ Ask \in [Calls -> Ids \cup {NoId}]
  BY EngineAssumption
<1>2. \A c \in Calls : /\ c \in OpenCalls => Ask[c] = IdOf[c]
                       /\ c \notin OpenCalls => Ask[c] = NoId
  BY DEF OpenCalls, Open
<1>3. \A c \in Calls : /\ c \in OpenCalls' => Ask'[c] = IdOf[c]
                       /\ c \notin OpenCalls' => Ask'[c] = NoId
  BY DEF OpenCalls, Open
<1>4. Ask' = [c \in Calls |-> Ask'[c]] /\ Ask = [c \in Calls |-> Ask[c]]
  OBVIOUS
<1>5. OpenCalls' = OpenCalls => Ask' = Ask
  <2> HIDE DEF Ask
  <2> QED BY <1>2, <1>3, <1>4
<1>6. CASE UNCHANGED approvalVars /\ OpenCalls' = OpenCalls
  BY <1>5, <1>6 DEF approvalVars, Approvals!regVars
<1>7. CASE TakeRespond
  <2>1. Takes("Respond") /\ Approvals!Deliver(Head(channel).id, Head(channel).answer)
    BY <1>7 DEF TakeRespond
  <2>2. Head(channel) \in Command /\ Head(channel).op = "Respond"
    BY <2>1, TakesType DEF TypeOK, LoopOK
  <2>3. Head(channel).id \in Ids /\ Head(channel).answer \in {"allow", "deny"}
    BY <2>2, CommandFields
  <2>4. Ask' = Ask
    BY <1>5, <1>7 DEF TakeRespond, OpenCalls
  <2>5. Approvals!Respond(Head(channel).id, Head(channel).answer)
    BY <2>1, <2>4 DEF Approvals!Respond
  <2> QED BY <2>3, <2>5 DEF Approvals!Next
<1>8. ASSUME NEW c \in Calls, c \in OpenCalls => decision[c] # "empty",
             Approvals!Insert(c, IdOf[c]), OpenCalls' = OpenCalls \cup {c}
      PROVE  Approvals!Next
  <2>1. CASE c \in OpenCalls
    <3>1. Ask[c] = IdOf[c] /\ IdOf[c] \in Ids
      BY <1>1, <1>2, <2>1
    <3>2. Ask' = Ask
      BY <1>5, <1>8, <2>1
    <3>3. Approvals!AskAgain(c)
      BY <1>8, <2>1, <3>1, <3>2 DEF Approvals!AskAgain
    <3> QED BY <3>3 DEF Approvals!Next
  <2>2. CASE c \notin OpenCalls
    <3>1. Ask[c] = NoId /\ IdOf[c] \in Ids
      BY <1>1, <1>2, <2>2
    <3>2. Ask' = [Ask EXCEPT ![c] = IdOf[c]]
      <4> HIDE DEF Ask
      <4> QED BY <1>2, <1>3, <1>4, <1>8
    <3>3. Approvals!Register(c, IdOf[c])
      BY <1>8, <3>1, <3>2 DEF Approvals!Register
    <3>4. IdOf[c] \in [d \in Calls |-> {IdOf[d]}][c]
      OBVIOUS
    <3> QED BY <3>3, <3>4 DEF Approvals!Next
  <2> QED BY <2>1, <2>2
<1>9. ASSUME NEW S \in SUBSET OpenCalls, Approvals!Release(S), OpenCalls' = OpenCalls \ S
      PROVE  Approvals!Next
  <2>1. S \in SUBSET Calls
    BY DEF OpenCalls
  <2>2. \A w \in S : Ask[w] \in Ids
    <3> HIDE DEF Ask
    <3> QED BY <1>1, <1>2, <2>1
  <2>3. Ask' = [w \in Calls |-> IF w \in S THEN NoId ELSE Ask[w]]
    <3> HIDE DEF Ask
    <3> QED BY <1>2, <1>3, <1>4, <1>9
  <2>4. Approvals!Cancel(S)
    BY <1>9, <2>2, <2>3 DEF Approvals!Cancel, Approvals!Leave
  <2> QED BY <2>1, <2>4 DEF Approvals!Next
<1> HIDE DEF Ask
<1> QED BY <1>6, <1>7, <1>8, <1>9 DEF ApprovalsMove

LEMMA ResultsStep ==
    ASSUME TypeOK, ResultsMove
    PROVE  [Results!Next]_(Results!regVars)
<1> DEFINE Ask == [c \in Calls |-> IF call[c] = "bridged" THEN c ELSE NoCall]
<1>1. NoCall \notin Calls
  BY EngineAssumption
<1>2. \A c \in Calls : /\ c \in BridgedCalls => Ask[c] = c
                       /\ c \notin BridgedCalls => Ask[c] = NoCall
  BY DEF BridgedCalls
<1>3. \A c \in Calls : /\ c \in BridgedCalls' => Ask'[c] = c
                       /\ c \notin BridgedCalls' => Ask'[c] = NoCall
  BY DEF BridgedCalls
<1>4. Ask' = [c \in Calls |-> Ask'[c]] /\ Ask = [c \in Calls |-> Ask[c]]
  OBVIOUS
<1>5. BridgedCalls' = BridgedCalls => Ask' = Ask
  <2> HIDE DEF Ask
  <2> QED BY <1>2, <1>3, <1>4
<1>6. CASE UNCHANGED resultVars /\ BridgedCalls' = BridgedCalls
  BY <1>5, <1>6 DEF resultVars, Results!regVars
<1>7. CASE TakeToolResult
  <2>1. Takes("ToolResult") /\ Results!Deliver(Head(channel).call, "result")
    BY <1>7 DEF TakeToolResult
  <2>2. Head(channel) \in Command /\ Head(channel).op = "ToolResult"
    BY <2>1, TakesType DEF TypeOK, LoopOK
  <2>3. Head(channel).call \in Calls
    BY <2>2, CommandFields
  <2>4. Ask' = Ask
    BY <1>5, <1>7 DEF TakeToolResult, BridgedCalls
  <2>5. Results!Respond(Head(channel).call, "result")
    BY <2>1, <2>4 DEF Results!Respond
  <2> QED BY <2>3, <2>5 DEF Results!Next
<1>8. ASSUME NEW c \in Calls \ BridgedCalls, Results!Insert(c, c),
             BridgedCalls' = BridgedCalls \cup {c}
      PROVE  Results!Next
  <2>1. Ask[c] = NoCall
    BY <1>2, <1>8
  <2>2. Ask' = [Ask EXCEPT ![c] = c]
    <3> HIDE DEF Ask
    <3> QED BY <1>2, <1>3, <1>4, <1>8
  <2>3. Results!Register(c, c)
    BY <1>8, <2>1, <2>2 DEF Results!Register
  <2>4. c \in [d \in Calls |-> {d}][c]
    OBVIOUS
  <2> QED BY <2>3, <2>4 DEF Results!Next
<1>9. ASSUME NEW S \in SUBSET BridgedCalls, Results!Release(S), BridgedCalls' = BridgedCalls \ S
      PROVE  Results!Next
  <2>1. S \in SUBSET Calls
    BY DEF BridgedCalls
  <2>2. \A w \in S : Ask[w] \in Calls
    <3> HIDE DEF Ask
    <3> QED BY <1>2, <2>1
  <2>3. Ask' = [w \in Calls |-> IF w \in S THEN NoCall ELSE Ask[w]]
    <3> HIDE DEF Ask
    <3> QED BY <1>2, <1>3, <1>4, <1>9
  <2>4. Results!Cancel(S)
    BY <1>9, <2>2, <2>3 DEF Results!Cancel, Results!Leave
  <2> QED BY <2>1, <2>4 DEF Results!Next
<1> HIDE DEF Ask
<1> QED BY <1>6, <1>7, <1>8, <1>9 DEF ResultsMove

(***************************************************************************)
(* The engine implements PendingRegistry twice over: what the gate, the    *)
(* plan tool, the bridged tools and the abort do to the two maps is what   *)
(* tickets and answers may do (UsesRegistries).                            *)
(***************************************************************************)
THEOREM RegistriesAreUsed == Spec => UsesRegistries
<1>1. Init => Approvals!Init /\ Results!Init
  BY DEF Init, Approvals!Init, Results!Init
<1>2. IInv /\ Filed /\ [Next]_vars =>
        /\ [Approvals!Next]_(Approvals!regVars)
        /\ [Results!Next]_(Results!regVars)
  BY ApprovalsMoves, ResultsMoves, ApprovalsStep, ResultsStep DEF IInv
<1> QED BY <1>1, <1>2, FiledInvariance, PTL DEF Spec, UsesRegistries, Approvals!Spec, Results!Spec

-----------------------------------------------------------------------------
(***************************************************************************)
(* Consent.  An answer carries an id, not a call; what follows is for      *)
(* providers that give every call an id of its own.                        *)
(***************************************************************************)
Distinct == \A c, d \in Calls : IdOf[c] = IdOf[d] => c = d

\* The first dialog of a call.
First == IF ApprovalGate THEN "asking" ELSE "planning"

\* An answer that allows the call is on its way.
AllowSent(c) ==
    \E i \in 1..Len(channel) : /\ channel[i].op = "Respond"
                               /\ channel[i].answer = "allow"
                               /\ channel[i].id = IdOf[c]

Passed == {"executing", "bridged", "planning", "ran", "failed", "accepted"}

\* An allow that is under way to a call's first dialog, or has arrived there, was
\* given to that dialog: none is sent to a call that has not asked yet.
Asked ==
    \A c \in Calls :
        /\ AllowSent(c) => /\ call[c] \notin {"new", "scheduled"}
                           /\ call[c] = First => <<c, First>> \in consent
        /\ call[c] = First /\ decision[c] = "allow" => <<c, First>> \in consent
        /\ ~ApprovalGate => call[c] # "asking"
        /\ ApprovalGate /\ call[c] \in Passed => <<c, "asking">> \in consent
        /\ ~ApprovalGate /\ call[c] = "accepted" => <<c, "planning">> \in consent

\* How a call may change.
CallMove(c) ==
    \/ call'[c] = call[c]
    \/ call[c] = "new" /\ call'[c] = "scheduled"
    \/ /\ call[c] = "scheduled" /\ ApprovalGate
       /\ call'[c] = "asking" /\ decision'[c] = "empty"
    \/ /\ MayExecute(c)
       /\ call'[c] \in {"planning", "bridged", "executing"} /\ decision'[c] = "empty"
    \/ call[c] \in {"bridged", "executing"} /\ call'[c] \in {"ran", "failed"}
    \/ call[c] = "planning" /\ decision[c] = "allow" /\ call'[c] = "accepted"
    \/ call'[c] \in {"denied", "rejected", "dropped"}

LEMMA CallMoves ==
    ASSUME TypeOK, [Next]_vars, NEW c \in Calls
    PROVE  CallMove(c)
<1>1. call \in [Calls -> {"new"} \cup Live \cup Over]
  BY DEF TypeOK, CallsOK
<1>2. CASE Elsewhere \/ TakeRespond \/ TakeToolResult
  BY <1>2 DEF Elsewhere, toolVars, TakeRespond, TakeToolResult, CallMove
<1>3. ASSUME NEW r \in Runs, AbortBatch(r)
      PROVE  CallMove(c)
  BY <1>3 DEF AbortBatch, CallMove
<1>4. ASSUME NEW r \in Runs, NEW batch \in SUBSET CallsOf(r), StartBatch(r, batch)
      PROVE  CallMove(c)
  BY <1>4 DEF StartBatch, CallMove
<1>5. ASSUME NEW d \in Calls,
             \/ AskApproval(d) \/ ExecutePlan(d) \/ ExecuteIo(d) \/ ExecuteBuiltin(d)
             \/ GateDenies(d) \/ PlanDecided(d) \/ ResultArrives(d) \/ BuiltinReturns(d)
             \/ DialogTimesOut(d) \/ ResultTimesOut(d)
      PROVE  CallMove(c)
  <2>1. PICK state : Becomes(d, state)
    BY <1>5 DEF AskApproval, ExecutePlan, ExecuteIo, ExecuteBuiltin, GateDenies, PlanDecided,
       ResultArrives, BuiltinReturns, DialogTimesOut, ResultTimesOut
  <2>2. CASE c # d
    BY <1>1, <2>1, <2>2 DEF Becomes, CallMove
  <2>3. ASSUME NEW s, Becomes(c, s)
        PROVE  call'[c] = s
    BY <1>1, <2>3 DEF Becomes
  <2>4. ASSUME NEW id, Approvals!Insert(c, id)
        PROVE  decision'[c] = "empty"
    BY <2>4 DEF Approvals!Insert
  <2>5. ASSUME Approvals!Release({c})
        PROVE  decision'[c] = "empty"
    BY <2>5 DEF Approvals!Release
  <2>6. CASE c = d /\ AskApproval(c)
    BY <2>3, <2>4, <2>6 DEF AskApproval, CallMove
  <2>7. CASE c = d /\ (ExecutePlan(c) \/ ExecuteIo(c) \/ ExecuteBuiltin(c))
    <3>1. decision'[c] = "empty" /\ MayExecute(c)
      BY <2>4, <2>5, <2>7 DEF ExecutePlan, ExecuteIo, ExecuteBuiltin
    <3>2. call'[c] \in {"planning", "bridged", "executing"}
      BY <2>3, <2>7 DEF ExecutePlan, ExecuteIo, ExecuteBuiltin
    <3> QED BY <3>1, <3>2 DEF CallMove
  <2>8. CASE c = d /\ (GateDenies(c) \/ PlanDecided(c) \/ DialogTimesOut(c))
    BY <2>3, <2>8 DEF GateDenies, PlanDecided, DialogTimesOut, CallMove
  <2>9. CASE c = d /\ (ResultArrives(c) \/ BuiltinReturns(c) \/ ResultTimesOut(c))
    BY <2>3, <2>9 DEF ResultArrives, BuiltinReturns, ResultTimesOut, CallMove
  <2> QED BY <1>5, <2>2, <2>6, <2>7, <2>8, <2>9
<1> QED BY <1>2, <1>3, <1>4, <1>5, ToolKinds

\* An allow that is new in the channel is a click on the call's open dialog, or comes
\* when the dialog is over.
LEMMA AllowMoves ==
    ASSUME TypeOK, Distinct, [Next]_vars, NEW c \in Calls, AllowSent(c)'
    PROVE  \/ AllowSent(c)
           \/ /\ UNCHANGED call /\ call[c] \notin {"new", "scheduled"}
              /\ call[c] \in Open => <<c, call[c]>> \in consent'
<1>1. channel \in Seq(Command)
  BY DEF TypeOK, LoopOK
<1>2. ASSUME NEW cmd \in Command, Send(cmd), ~AllowSent(c)
      PROVE  cmd.op = "Respond" /\ cmd.answer = "allow" /\ cmd.id = IdOf[c]
  <2>1. PICK i \in 1..Len(channel') : /\ channel'[i].op = "Respond"
                                      /\ channel'[i].answer = "allow"
                                      /\ channel'[i].id = IdOf[c]
    BY DEF AllowSent
  <2>2. channel' = channel \/ channel' = Append(channel, cmd)
    BY <1>2 DEF Send
  <2>3. i \in 1..Len(channel) => channel'[i] # channel[i]
    BY <1>2, <2>1 DEF AllowSent
  <2>4. channel'[i] = cmd
    <3> HIDE DEF Command
    <3> QED BY <1>1, <2>1, <2>2, <2>3
  <2> QED BY <2>1, <2>4
<1>3. CASE channel' = channel
  BY <1>3 DEF AllowSent
<1>4. CASE channel # << >> /\ channel' = Tail(channel)
  <2>1. PICK i \in 1..Len(channel') : /\ channel'[i].op = "Respond"
                                      /\ channel'[i].answer = "allow"
                                      /\ channel'[i].id = IdOf[c]
    BY DEF AllowSent
  <2>2. i + 1 \in 1..Len(channel) /\ channel'[i] = channel[i + 1]
    <3> HIDE DEF Command
    <3> QED BY <1>1, <1>4
  <2> QED BY <2>1, <2>2 DEF AllowSent
<1>5. ASSUME NEW d \in Calls, NEW a \in {"allow", "deny"}, Click(d, a), ~AllowSent(c)
      PROVE  /\ UNCHANGED call /\ call[c] \notin {"new", "scheduled"}
             /\ call[c] \in Open => <<c, call[c]>> \in consent'
  <2> DEFINE cmd == [op |-> "Respond", id |-> IdOf[d], answer |-> a]
  <2>1. cmd \in Command /\ Send(cmd)
    BY <1>5, EngineAssumption DEF Click, Command
  <2>2. cmd.answer = "allow" /\ cmd.id = IdOf[c]
    BY <1>2, <1>5, <2>1
  <2>3. d = c /\ a = "allow"
    BY <2>2 DEF Distinct
  <2> QED BY <1>5, <2>3 DEF Click, toolVars, Open
<1>6. CASE Host
  <2>1. /\ \A r \in Runs : [op |-> "Configure", model |-> Want[r]] \in Command
        /\ \A r \in Runs : [op |-> "Prompt", run |-> r] \in Command
        /\ \A v \in Convs : [op |-> "Stop", conv |-> v] \in Command
        /\ \A v \in Convs : [op |-> "Drop", conv |-> v] \in Command
        /\ \A v \in Convs : \A m \in Models :
              [op |-> "SetModel", conv |-> v, model |-> m] \in Command
        /\ \A d \in Calls : [op |-> "ToolResult", call |-> d] \in Command
    BY EngineAssumption DEF Command
  <2>2. ASSUME NEW r \in Runs, SendConfigure(r) \/ SendPrompt(r)
        PROVE  AllowSent(c)
    BY <1>2, <2>1, <2>2 DEF SendConfigure, SendPrompt
  <2>3. ASSUME NEW cmd \in Command, SendControl(cmd), cmd.op # "Respond"
        PROVE  AllowSent(c)
    BY <1>2, <2>3 DEF SendControl
  <2>4. ASSUME NEW d \in Calls, ExecutorReplies(d)
        PROVE  AllowSent(c)
    BY <1>2, <2>1, <2>4 DEF ExecutorReplies
  <2> QED BY <1>5, <1>6, <2>1, <2>2, <2>3, <2>4 DEF Host
<1>7. CASE Actor
  BY <1>3, <1>4, <1>7 DEF Actor, TakeConfigure, TakePrompt, TakeFirstPrompt, SessionCreated,
     SessionCreateFails, TakeStop, TakeDrop, TakeSetModel, ModelSwitched, TakeRespond,
     TakeToolResult, Takes
<1>8. CASE Task
  <2>1. ASSUME NEW r \in Runs, \/ AcquireLock(r) \/ RunEnds(r) \/ AbortBatch(r)
                               \/ \E batch \in SUBSET CallsOf(r) : StartBatch(r, batch)
        PROVE  channel' = channel
    BY <2>1 DEF AcquireLock, RunEnds, AbortBatch, StartBatch, CallFrame
  <2>2. ASSUME NEW d \in Calls, ToolStep(d) \/ BuiltinReturns(d) \/ Timer(d)
        PROVE  channel' = channel
    BY <2>2 DEF CallFrame, ToolStep, Timer, AskApproval, ExecutePlan, ExecuteIo,
        ExecuteBuiltin, GateDenies, PlanDecided, ResultArrives, BuiltinReturns,
        DialogTimesOut, ResultTimesOut
  <2> QED BY <1>3, <1>8, <2>1, <2>2 DEF Task
<1>9. CASE UNCHANGED vars
  BY <1>3, <1>9 DEF vars
<1> QED BY <1>6, <1>7, <1>8, <1>9 DEF Next

\* What the user has said stays said.
LEMMA ConsentStays == [Next]_vars => consent \subseteq consent'
<1> SUFFICES ASSUME [Next]_vars
             PROVE  consent \subseteq consent'
  OBVIOUS
<1>1. CASE Host
  BY <1>1 DEF Host, SendConfigure, SendPrompt, SendControl, Click, ExecutorReplies, hostVars
<1>2. CASE Actor
  BY <1>2 DEF Actor, TakeConfigure, TakePrompt, TakeFirstPrompt, SessionCreated,
     SessionCreateFails, TakeStop, TakeDrop, TakeSetModel, ModelSwitched, TakeRespond,
     TakeToolResult, hostVars
<1>3. CASE Task
  <2>1. ASSUME NEW r \in Runs, \/ AcquireLock(r) \/ RunEnds(r) \/ AbortBatch(r)
                               \/ \E batch \in SUBSET CallsOf(r) : StartBatch(r, batch)
        PROVE  consent' = consent
    BY <2>1 DEF AcquireLock, RunEnds, AbortBatch, StartBatch, CallFrame, hostVars
  <2>2. ASSUME NEW d \in Calls, ToolStep(d) \/ BuiltinReturns(d) \/ Timer(d)
        PROVE  consent' = consent
    BY <2>2 DEF CallFrame, ToolStep, Timer, AskApproval, ExecutePlan, ExecuteIo,
        ExecuteBuiltin, GateDenies, PlanDecided, ResultArrives, BuiltinReturns,
        DialogTimesOut, ResultTimesOut
  <2> QED BY <1>3, <2>1, <2>2 DEF Task
<1>4. CASE UNCHANGED vars
  BY <1>4 DEF vars, hostVars
<1> QED BY <1>1, <1>2, <1>3, <1>4 DEF Next

\* An allow that arrives was on its way.
LEMMA DecisionMoves ==
    ASSUME TypeOK, Filed, [Next]_vars, NEW c \in Calls, decision'[c] = "allow"
    PROVE  decision[c] = "allow" \/ (AllowSent(c) /\ UNCHANGED call)
<1>1. /\ approvals \in [Ids -> Calls \cup {NoCall}]
      /\ decision \in [Calls -> {"empty", "closed", "allow", "deny"}]
  BY DEF TypeOK, ApprovalsOK
<1>2. \A box : Approvals!Wake(box) = "allow" => box = "allow"
  BY DEF Approvals!Wake
<1>3. CASE UNCHANGED approvalVars
  BY <1>3 DEF approvalVars
<1>4. CASE TakeRespond
  <2> DEFINE cmd == Head(channel)
  <2>1. Takes("Respond") /\ Approvals!Deliver(cmd.id, cmd.answer) /\ UNCHANGED call
    BY <1>4 DEF TakeRespond
  <2>2. channel # << >> /\ cmd.op = "Respond" /\ cmd = channel[1] /\ 1 \in 1..Len(channel)
    BY <2>1 DEF Takes, TypeOK, LoopOK
  <2>3. cmd.id \in Ids
    <3>1. cmd \in Command
      BY <2>1, TakesType DEF TypeOK, LoopOK
    <3> QED BY <2>2, <3>1, CommandFields
  <2>4. decision'[c] = IF c = approvals[cmd.id] THEN cmd.answer ELSE decision[c]
    BY <2>1 DEF Approvals!Deliver
  <2>5. c = approvals[cmd.id] => IdOf[c] = cmd.id
    BY <2>3 DEF Filed
  <2> QED BY <2>1, <2>2, <2>4, <2>5 DEF AllowSent
<1>5. ASSUME NEW d \in Calls, Approvals!Insert(d, IdOf[d])
      PROVE  decision[c] = "allow"
  BY <1>2, <1>5 DEF Approvals!Insert
<1>6. ASSUME NEW S, Approvals!Release(S)
      PROVE  decision[c] = "allow"
  BY <1>2, <1>6 DEF Approvals!Release
<1> QED BY <1>3, <1>4, <1>5, <1>6, ApprovalsMoves DEF ApprovalsMove

LEMMA AskedStep ==
    ASSUME TypeOK, Filed, Distinct, Asked, [Next]_vars
    PROVE  Asked'
<1> SUFFICES ASSUME NEW c \in Calls
             PROVE  /\ AllowSent(c)' => /\ call'[c] \notin {"new", "scheduled"}
                                        /\ call'[c] = First => <<c, First>> \in consent'
                    /\ call'[c] = First /\ decision'[c] = "allow" => <<c, First>> \in consent'
                    /\ ~ApprovalGate => call'[c] # "asking"
                    /\ ApprovalGate /\ call'[c] \in Passed => <<c, "asking">> \in consent'
                    /\ ~ApprovalGate /\ call'[c] = "accepted" => <<c, "planning">> \in consent'
  BY DEF Asked, First
<1>1. /\ AllowSent(c) => /\ call[c] \notin {"new", "scheduled"}
                         /\ call[c] = First => <<c, First>> \in consent
      /\ call[c] = First /\ decision[c] = "allow" => <<c, First>> \in consent
      /\ ~ApprovalGate => call[c] # "asking"
      /\ ApprovalGate /\ call[c] \in Passed => <<c, "asking">> \in consent
      /\ ~ApprovalGate /\ call[c] = "accepted" => <<c, "planning">> \in consent
  BY DEF Asked
<1>2. CallMove(c) /\ consent \subseteq consent'
  BY CallMoves, ConsentStays
<1>3. First \in Open /\ (ApprovalGate => First = "asking") /\ (~ApprovalGate => First = "planning")
  BY DEF First, Open
<1>4. call'[c] = First => \/ call[c] = First
                          \/ call[c] = "scheduled" /\ decision'[c] = "empty"
  BY <1>1, <1>2, <1>3 DEF CallMove, MayExecute
<1>5. AllowSent(c) /\ call'[c] = First => call[c] = First
  BY <1>1, <1>4
<1>6. AllowSent(c)' => /\ call'[c] \notin {"new", "scheduled"}
                       /\ call'[c] = First => <<c, First>> \in consent'
  <2>1. AllowSent(c) => call'[c] \notin {"new", "scheduled"}
    BY <1>1, <1>2 DEF CallMove
  <2>2. AllowSent(c) /\ call'[c] = First => <<c, First>> \in consent'
    BY <1>1, <1>2, <1>5
  <2> QED BY <1>3, <2>1, <2>2, AllowMoves
<1>7. call'[c] = First /\ decision'[c] = "allow" => <<c, First>> \in consent'
  <2> SUFFICES ASSUME call'[c] = First, decision'[c] = "allow"
               PROVE  <<c, First>> \in consent'
    OBVIOUS
  <2>1. call[c] = First
    BY <1>4
  <2>2. decision[c] = "allow" \/ AllowSent(c)
    BY DecisionMoves
  <2> QED BY <1>1, <1>2, <2>1, <2>2
<1>8. ~ApprovalGate => call'[c] # "asking"
  BY <1>1, <1>2 DEF CallMove
<1>9. ApprovalGate /\ call'[c] \in Passed => <<c, "asking">> \in consent'
  BY <1>1, <1>2, <1>3 DEF CallMove, MayExecute, Passed
<1>10. ~ApprovalGate /\ call'[c] = "accepted" => <<c, "planning">> \in consent'
  BY <1>1, <1>2, <1>3 DEF CallMove, MayExecute
<1> QED BY <1>6, <1>7, <1>8, <1>9, <1>10

LEMMA AskedInvariance == Distinct => (Spec => []Asked)
<1> SUFFICES ASSUME Distinct
             PROVE  Spec => []Asked
  OBVIOUS
<1>1. Init => Asked
  BY DEF Init, Asked, AllowSent, First, Passed
<1>2. IInv /\ Filed /\ Asked /\ [Next]_vars => Asked'
  BY AskedStep DEF IInv
<1> QED BY <1>1, <1>2, FiledInvariance, PTL DEF Spec

(***************************************************************************)
(* With the gate on, and ids that tell calls apart, no tool runs but by    *)
(* the user's consent to that call (ToolNeedsAllow).                       *)
(***************************************************************************)
THEOREM ConsentIsNeeded == Distinct => (Spec => []ToolNeedsAllow)
<1> SUFFICES ASSUME Distinct
             PROVE  Spec => []ToolNeedsAllow
  OBVIOUS
<1>1. Asked => ToolNeedsAllow
  BY DEF Asked, ToolNeedsAllow, Passed
<1> QED BY <1>1, AskedInvariance, PTL

(***************************************************************************)
(* With the gate off, and ids that tell calls apart, a plan is accepted    *)
(* only by the user's answer to that plan (PlanNeedsItsAnswer).  With the  *)
(* gate on it is not so: the two dialogs of the plan tool share one id.    *)
(***************************************************************************)
THEOREM PlansAreAnswered ==
    Distinct /\ ~ApprovalGate => (Spec => []PlanNeedsItsAnswer)
<1> SUFFICES ASSUME Distinct, ~ApprovalGate
             PROVE  Spec => []PlanNeedsItsAnswer
  OBVIOUS
<1>1. Asked => PlanNeedsItsAnswer
  BY DEF Asked, PlanNeedsItsAnswer
<1> QED BY <1>1, AskedInvariance, PTL

-----------------------------------------------------------------------------
(***************************************************************************)
(* No wait is lost: whatever waits, waits for something that is there.     *)
(***************************************************************************)
Queued(r) == \E i \in 1..Len(channel) : channel[i].op = "Prompt" /\ channel[i].run = r

\* A command that the channel took stays in it until the loop has it.
Delivered ==
    \A r \in Runs : /\ phase[r] = "sent" => Queued(r)
                    /\ phase[r] = "creating" => actor.at = "creating" /\ actor.run = r

ApprovalsOnFile == \A c \in OpenCalls : decision[c] = "empty" => approvals[IdOf[c]] = c

ResultsOnFile == \A c \in BridgedCalls : output[c] = "empty" => results[c] = c

\* A session's mutex is held by a run that executes in it.
Held(h) == lock[h] \in Runs /\ phase[lock[h]] = "streaming" /\ handle[lock[h]] = h

NoWaitIsLost ==
    /\ Delivered
    /\ \A r \in Runs : phase[r] = "queued" => lock[handle[r]] = NoRun \/ Held(handle[r])
    /\ actor.at = "creating" => phase[actor.run] = "creating"
    /\ actor.at = "switching" => lock[actor.session] = NoRun \/ Held(actor.session)
    /\ \A c \in Calls :
         /\ call[c] \in Live => phase[RunOf[c]] = "streaming"
         /\ call[c] \in Open => decision[c] # "empty" \/ approvals[IdOf[c]] = c
         /\ call[c] = "bridged" => output[c] # "empty" \/ results[c] = c

\* What a step does to a prompt in the channel.
LEMMA QueueMoves ==
    ASSUME channel \in Seq(Command), NEW r \in Runs, Queued(r)
    PROVE  /\ channel' = channel => Queued(r)'
           /\ \A cmd : Send(cmd) => Queued(r)'
           /\ \A op : Takes(op) =>
                Queued(r)' \/ (Head(channel).op = "Prompt" /\ Head(channel).run = r)
<1>1. PICK i \in 1..Len(channel) : channel[i].op = "Prompt" /\ channel[i].run = r
  BY DEF Queued
<1>2. ASSUME channel' = channel
      PROVE  Queued(r)'
  BY <1>1, <1>2 DEF Queued
<1>3. ASSUME NEW cmd, channel' = Append(channel, cmd)
      PROVE  Queued(r)'
  <2>1. i \in 1..Len(channel') /\ channel'[i] = channel[i]
    <3> HIDE DEF Command
    <3> QED BY <1>1, <1>3
  <2> QED BY <1>1, <2>1 DEF Queued
<1>4. ASSUME NEW op, Takes(op)
      PROVE  Queued(r)' \/ (Head(channel).op = "Prompt" /\ Head(channel).run = r)
  <2>1. channel # << >> /\ channel' = Tail(channel)
    BY <1>4 DEF Takes
  <2>2. CASE i = 1
    <3>1. Head(channel) = channel[1]
      BY <2>1
    <3> QED BY <1>1, <2>2, <3>1
  <2>3. CASE i # 1
    <3>1. i - 1 \in 1..Len(channel') /\ channel'[i - 1] = channel[i]
      <4> HIDE DEF Command
      <4> QED BY <1>1, <2>1, <2>3
    <3> QED BY <1>1, <3>1 DEF Queued
  <2> QED BY <2>2, <2>3
<1> QED BY <1>2, <1>3, <1>4 DEF Send

\* What a step does to the phases and the loop, as far as a prompt waits there.
LEMMA DeliveredStep ==
    ASSUME IInv, Delivered, [Next]_vars
    PROVE  Delivered'
<1>0. /\ channel \in Seq(Command)
      /\ phase \in [Runs -> {"idle", "configured", "sent", "refused", "creating",
                             "failed", "queued", "streaming", "ended"}]
      /\ actor.at = "creating" => actor.run \in Runs
  BY DEF IInv, TypeOK, LoopOK, RunsOK, ActorState
<1>1. ASSUME \A r \in Runs : phase[r] = "sent" => Queued(r)',
             \A r \in Runs : phase'[r] = "sent" => phase[r] = "sent",
             \A r \in Runs : phase'[r] = "creating" => phase[r] = "creating",
             UNCHANGED actor
      PROVE  Delivered'
  BY <1>0, <1>1 DEF Delivered
<1>2. ASSUME UNCHANGED <<runVars, actor>>, channel' = channel \/ \E cmd : Send(cmd)
      PROVE  Delivered'
  BY <1>0, <1>1, <1>2, QueueMoves DEF Delivered, runVars
<1>3. CASE UNCHANGED vars
  BY <1>2, <1>3 DEF vars
<1>4. CASE Host
  <2>1. ASSUME NEW cmd, SendControl(cmd)
        PROVE  Delivered'
    BY <1>2, <2>1 DEF SendControl
  <2>2. ASSUME NEW r \in Runs, SendConfigure(r)
        PROVE  Delivered'
    <3>1. \A s \in Runs : phase'[s] \in {phase[s], "configured"}
      BY <1>0, <2>2 DEF SendConfigure
    <3> QED BY <1>0, <1>1, <2>2, <3>1, QueueMoves DEF SendConfigure, Delivered
  <2>3. ASSUME NEW r \in Runs, SendPrompt(r)
        PROVE  Delivered'
    <3> DEFINE cmd == [op |-> "Prompt", run |-> r]
    <3>1. /\ \A s \in Runs : s # r => phase'[s] = phase[s]
          /\ phase'[r] = IF Room THEN "sent" ELSE "refused"
          /\ Send(cmd) /\ actor' = actor
      BY <1>0, <2>3 DEF SendPrompt
    <3>2. ASSUME Room PROVE Queued(r)'
      <4>1. channel' = Append(channel, cmd)
        BY <3>1, <3>2 DEF Send
      <4>2. Len(channel') \in 1..Len(channel') /\ channel'[Len(channel')] = cmd
        <5> HIDE DEF Command
        <5> QED BY <1>0, <4>1
      <4> QED BY <4>2 DEF Queued
    <3>3. ASSUME NEW s \in Runs, s # r, phase'[s] = "sent" PROVE Queued(s)'
      BY <1>0, <3>1, <3>3, QueueMoves DEF Delivered
    <3> QED BY <3>1, <3>2, <3>3 DEF Delivered
  <2>4. ASSUME NEW c \in Calls, NEW a, Click(c, a)
        PROVE  Delivered'
    BY <1>2, <2>4 DEF Click
  <2>5. ASSUME NEW c \in Calls, ExecutorReplies(c)
        PROVE  Delivered'
    BY <1>2, <2>5 DEF ExecutorReplies
  <2> QED BY <1>4, <2>1, <2>2, <2>3, <2>4, <2>5 DEF Host
\* The commands that are no prompts.
<1>5. ASSUME NEW op, Takes(op), op # "Prompt", UNCHANGED phase,
             actor' = actor \/ actor'.at = "switching"
      PROVE  Delivered'
  <2>1. Head(channel).op # "Prompt" /\ actor.at = "reading"
    BY <1>5 DEF Takes
  <2>2. \A r \in Runs : phase[r] # "creating"
    BY <2>1 DEF Delivered
  <2>3. \A r \in Runs : phase[r] = "sent" => Queued(r)'
    BY <1>0, <1>5, <2>1, QueueMoves DEF Delivered
  <2> QED BY <1>5, <2>2, <2>3 DEF Delivered
<1>6. ASSUME NEW s \in Runs, Takes("Prompt"), Head(channel).run = s,
             \A r \in Runs : r # s => phase'[r] = phase[r],
             \/ phase'[s] = "queued" /\ actor' = actor
             \/ phase'[s] = "creating" /\ actor' = [at |-> "creating", run |-> s]
      PROVE  Delivered'
  <2>1. \A r \in Runs : phase[r] # "creating"
    BY <1>6 DEF Delivered, Takes
  <2>2. \A r \in Runs : phase[r] = "sent" /\ r # s => Queued(r)'
    BY <1>0, <1>6, QueueMoves DEF Delivered
  <2> QED BY <1>6, <2>1, <2>2 DEF Delivered
<1>7. ASSUME actor.at = "creating", UNCHANGED channel, actor' = [at |-> "reading"],
             \A r \in Runs : r # actor.run => phase'[r] = phase[r],
             phase'[actor.run] \in {"queued", "failed"}
      PROVE  Delivered'
  <2>1. \A r \in Runs : phase[r] = "creating" => r = actor.run
    BY <1>7 DEF Delivered
  <2>2. \A r \in Runs : phase[r] = "sent" => Queued(r)'
    BY <1>0, <1>7, QueueMoves DEF Delivered
  <2> QED BY <1>7, <2>1, <2>2 DEF Delivered
<1>8. CASE Actor
  <2>1. ASSUME Takes("Prompt") PROVE Head(channel).run \in Runs
    BY <1>0, <2>1, TakesType, CommandFields
  <2>2. CASE TakePrompt
    <3> DEFINE s == Head(channel).run
    <3>1. s \in Runs /\ Takes("Prompt") /\ actor' = actor
      BY <2>1, <2>2 DEF TakePrompt
    <3>2. phase' = [phase EXCEPT ![s] = "queued"]
      BY <2>2 DEF TakePrompt, StartRun
    <3> HIDE DEF s
    <3>3. phase'[s] = "queued" /\ \A r \in Runs : r # s => phase'[r] = phase[r]
      BY <1>0, <3>1, <3>2
    <3> QED BY <1>6, <3>1, <3>3 DEF s
  <2>3. CASE TakeFirstPrompt
    <3> DEFINE s == Head(channel).run
    <3>1. /\ s \in Runs /\ Takes("Prompt") /\ actor' = [at |-> "creating", run |-> s]
          /\ phase' = [phase EXCEPT ![s] = "creating"]
      BY <2>1, <2>3 DEF TakeFirstPrompt
    <3> HIDE DEF s
    <3>2. phase'[s] = "creating" /\ \A r \in Runs : r # s => phase'[r] = phase[r]
      BY <1>0, <3>1
    <3> QED BY <1>6, <3>1, <3>2 DEF s
  <2>4. CASE SessionCreated
    <3>1. /\ actor.at = "creating" /\ actor' = [at |-> "reading"] /\ channel' = channel
          /\ phase' = [phase EXCEPT ![actor.run] = "queued"]
      BY <2>4 DEF SessionCreated, StartRun
    <3> QED BY <1>0, <1>7, <3>1
  <2>5. CASE SessionCreateFails
    <3>1. /\ actor.at = "creating" /\ actor' = [at |-> "reading"] /\ channel' = channel
          /\ phase' = [phase EXCEPT ![actor.run] = "failed"]
      BY <2>5 DEF SessionCreateFails
    <3> QED BY <1>0, <1>7, <3>1
  <2>6. CASE ModelSwitched
    <3>1. actor.at = "switching" /\ UNCHANGED <<channel, phase>>
      BY <2>6 DEF ModelSwitched, runVars
    <3>2. \A r \in Runs : phase[r] # "creating"
      BY <3>1 DEF Delivered
    <3>3. \A r \in Runs : phase[r] = "sent" => Queued(r)'
      BY <1>0, <3>1, QueueMoves DEF Delivered
    <3> QED BY <3>1, <3>2, <3>3 DEF Delivered
  <2>7. CASE TakeConfigure \/ TakeStop \/ TakeDrop \/ TakeSetModel \/ TakeRespond
             \/ TakeToolResult
    BY <1>5, <2>7 DEF TakeConfigure, TakeStop, TakeDrop, TakeSetModel, TakeRespond,
                      TakeToolResult, runVars
  <2> QED BY <1>8, <2>2, <2>3, <2>4, <2>5, <2>6, <2>7 DEF Actor
<1>9. CASE Task
  <2>1. ASSUME NEW r \in Runs, AcquireLock(r) \/ RunEnds(r)
        PROVE  Delivered'
    <3>1. UNCHANGED <<channel, actor>> /\ \A s \in Runs :
            phase'[s] \in {phase[s], "streaming", "ended"}
      BY <1>0, <2>1 DEF AcquireLock, RunEnds
    <3>2. \A s \in Runs : phase[s] = "sent" => Queued(s)'
      BY <1>0, <3>1, QueueMoves DEF Delivered
    <3> QED BY <1>1, <3>1, <3>2
  <2>2. ASSUME NEW r \in Runs,
               AbortBatch(r) \/ \E batch \in SUBSET CallsOf(r) : StartBatch(r, batch)
        PROVE  Delivered'
    BY <1>2, <2>2 DEF AbortBatch, StartBatch, CallFrame
  <2>3. ASSUME NEW c \in Calls, ToolStep(c) \/ BuiltinReturns(c) \/ Timer(c)
        PROVE  Delivered'
    BY <1>2, <2>3 DEF CallFrame, ToolStep, Timer, AskApproval, ExecutePlan, ExecuteIo,
        ExecuteBuiltin, GateDenies, PlanDecided, ResultArrives, BuiltinReturns,
        DialogTimesOut, ResultTimesOut
  <2> QED BY <1>9, <2>1, <2>2, <2>3 DEF Task
<1> QED BY <1>3, <1>4, <1>8, <1>9 DEF Next

\* Overwriting an entry wakes whom it belonged to; removing one's own entry takes
\* nobody else's, as an entry stands under its owner's id.
LEMMA ApprovalsOnFileStep ==
    ASSUME TypeOK, ApprovalsFiled, ApprovalsOnFile, ApprovalsMove
    PROVE  ApprovalsOnFile'
<1>1. /\ approvals \in [Ids -> Calls \cup {NoCall}]
      /\ decision \in [Calls -> {"empty", "closed", "allow", "deny"}]
      /\ IdOf \in [Calls -> Ids] /\ NoCall \notin Calls
  BY EngineAssumption DEF TypeOK, ApprovalsOK
<1>2. OpenCalls \subseteq Calls
  BY DEF OpenCalls
<1>3. CASE UNCHANGED approvalVars /\ OpenCalls' = OpenCalls
  BY <1>3 DEF ApprovalsOnFile, approvalVars
<1>4. CASE TakeRespond
  <2>1. /\ OpenCalls' = OpenCalls
        /\ \E id \in Ids, a \in {"allow", "deny"} : Approvals!Deliver(id, a)
    <3>1. Takes("Respond") /\ Approvals!Deliver(Head(channel).id, Head(channel).answer)
      BY <1>4 DEF TakeRespond
    <3>2. Head(channel) \in Command /\ Head(channel).op = "Respond"
      BY <3>1, TakesType DEF TypeOK, LoopOK
    <3> QED BY <1>4, <3>1, <3>2, CommandFields DEF TakeRespond, OpenCalls
  <2>2. PICK id \in Ids, a \in {"allow", "deny"} : Approvals!Deliver(id, a)
    BY <2>1
  <2>3. /\ approvals' = [approvals EXCEPT ![id] = NoCall]
        /\ decision' = [v \in Calls |-> IF v = approvals[id] THEN a ELSE decision[v]]
    BY <2>2 DEF Approvals!Deliver
  <2> QED BY <1>1, <1>2, <2>1, <2>3 DEF ApprovalsOnFile
<1>5. ASSUME NEW c \in Calls, Approvals!Insert(c, IdOf[c]), OpenCalls' = OpenCalls \cup {c}
      PROVE  ApprovalsOnFile'
  <2>1. /\ approvals' = [approvals EXCEPT ![IdOf[c]] = c]
        /\ decision' = [v \in Calls |-> IF v = c THEN "empty"
                                        ELSE IF v = approvals[IdOf[c]]
                                             THEN Approvals!Wake(decision[v])
                                        ELSE decision[v]]
    BY <1>5 DEF Approvals!Insert
  <2>2. \A box : Approvals!Wake(box) # "empty"
    BY DEF Approvals!Wake
  <2> QED BY <1>1, <1>2, <1>5, <2>1, <2>2 DEF ApprovalsOnFile
<1>6. ASSUME NEW S \in SUBSET OpenCalls, Approvals!Release(S), OpenCalls' = OpenCalls \ S
      PROVE  ApprovalsOnFile'
  <2> DEFINE keys == {[c \in Calls |-> IF call[c] \in {"asking", "planning"}
                                       THEN IdOf[c] ELSE NoId][w] : w \in S}
  <2>1. /\ approvals' = [id \in Ids |-> IF id \in keys THEN NoCall ELSE approvals[id]]
        /\ decision' = [v \in Calls |-> IF v \in S THEN "empty"
                                        ELSE IF \E id \in Ids \cap keys : approvals[id] = v
                                             THEN Approvals!Wake(decision[v])
                                        ELSE decision[v]]
    BY <1>6 DEF Approvals!Release
  <2>2. \A box : Approvals!Wake(box) # "empty"
    BY DEF Approvals!Wake
  <2> HIDE DEF keys
  <2>3. ASSUME NEW v \in OpenCalls, v \notin S, decision'[v] = "empty"
        PROVE  approvals'[IdOf[v]] = v
    <3>1. decision[v] = "empty" /\ ~ \E id \in Ids \cap keys : approvals[id] = v
      BY <1>1, <1>2, <2>1, <2>2, <2>3
    <3>2. approvals[IdOf[v]] = v
      BY <2>3, <3>1 DEF ApprovalsOnFile
    <3> QED BY <1>1, <1>2, <2>1, <3>1, <3>2
  <2> QED BY <1>6, <2>3 DEF ApprovalsOnFile
<1> QED BY <1>3, <1>4, <1>5, <1>6 DEF ApprovalsMove

LEMMA ResultsOnFileStep ==
    ASSUME TypeOK, ResultsFiled, ResultsOnFile, ResultsMove
    PROVE  ResultsOnFile'
<1>1. /\ results \in [Calls -> Calls \cup {NoCall}]
      /\ output \in [Calls -> {"empty", "closed", "result"}]
      /\ NoCall \notin Calls
  BY EngineAssumption DEF TypeOK, ResultsOK
<1>2. BridgedCalls \subseteq Calls
  BY DEF BridgedCalls
<1>3. CASE UNCHANGED resultVars /\ BridgedCalls' = BridgedCalls
  BY <1>3 DEF ResultsOnFile, resultVars
<1>4. CASE TakeToolResult
  <2> DEFINE c == Head(channel).call
  <2>1. c \in Calls /\ Results!Deliver(c, "result") /\ BridgedCalls' = BridgedCalls
    <3>1. Takes("ToolResult") /\ Results!Deliver(c, "result")
      BY <1>4 DEF TakeToolResult
    <3>2. Head(channel) \in Command /\ Head(channel).op = "ToolResult"
      BY <3>1, TakesType DEF TypeOK, LoopOK
    <3> QED BY <1>4, <3>1, <3>2, CommandFields DEF TakeToolResult, BridgedCalls
  <2>2. /\ results' = [results EXCEPT ![c] = NoCall]
        /\ output' = [v \in Calls |-> IF v = results[c] THEN "result" ELSE output[v]]
    BY <2>1 DEF Results!Deliver
  <2> HIDE DEF c
  <2> QED BY <1>1, <1>2, <2>1, <2>2 DEF ResultsOnFile
<1>5. ASSUME NEW c \in Calls, Results!Insert(c, c), BridgedCalls' = BridgedCalls \cup {c}
      PROVE  ResultsOnFile'
  <2>1. /\ results' = [results EXCEPT ![c] = c]
        /\ output' = [v \in Calls |-> IF v = c THEN "empty"
                                      ELSE IF v = results[c] THEN Results!Wake(output[v])
                                      ELSE output[v]]
    BY <1>5 DEF Results!Insert
  <2>2. \A box : Results!Wake(box) # "empty"
    BY DEF Results!Wake
  <2> QED BY <1>1, <1>2, <1>5, <2>1, <2>2 DEF ResultsOnFile
<1>6. ASSUME NEW S \in SUBSET BridgedCalls, Results!Release(S), BridgedCalls' = BridgedCalls \ S
      PROVE  ResultsOnFile'
  <2> DEFINE keys == {[c \in Calls |-> IF call[c] = "bridged" THEN c ELSE NoCall][w] : w \in S}
  <2>1. /\ results' = [id \in Calls |-> IF id \in keys THEN NoCall ELSE results[id]]
        /\ output' = [v \in Calls |-> IF v \in S THEN "empty"
                                      ELSE IF \E id \in Calls \cap keys : results[id] = v
                                           THEN Results!Wake(output[v])
                                      ELSE output[v]]
    BY <1>6 DEF Results!Release
  <2>2. \A box : Results!Wake(box) # "empty"
    BY DEF Results!Wake
  <2> HIDE DEF keys
  <2>3. ASSUME NEW v \in BridgedCalls, v \notin S, output'[v] = "empty"
        PROVE  results'[v] = v
    <3>1. output[v] = "empty" /\ ~ \E id \in Calls \cap keys : results[id] = v
      BY <1>1, <1>2, <2>1, <2>2, <2>3
    <3>2. results[v] = v
      BY <2>3, <3>1 DEF ResultsOnFile
    <3> QED BY <1>1, <1>2, <2>1, <3>1, <3>2
  <2> QED BY <1>6, <2>3 DEF ResultsOnFile
<1> QED BY <1>3, <1>4, <1>5, <1>6 DEF ResultsMove

\* engine.rs, approval.rs and tool_bridge.rs together: a prompt that was accepted is
\* in the channel or in the loop's hands, a prompt or a SetModel that waits for a
\* mutex waits for a run that executes, and a call that waits for an answer can be
\* given it.  The safety half of PromptsEnd: nothing waits for what cannot come.
THEOREM WaitsAreNeverLost == Spec => []NoWaitIsLost
<1>1. Init => Delivered /\ ApprovalsOnFile /\ ResultsOnFile
  BY DEF Init, Delivered, ApprovalsOnFile, ResultsOnFile, OpenCalls, BridgedCalls, Open
<1>2. IInv /\ Filed /\ Delivered /\ ApprovalsOnFile /\ ResultsOnFile /\ [Next]_vars
          => Delivered' /\ ApprovalsOnFile' /\ ResultsOnFile'
  BY DeliveredStep, ApprovalsOnFileStep, ResultsOnFileStep, ApprovalsMoves, ResultsMoves,
     FiledParts DEF IInv
<1>3. IInv /\ Filed /\ Delivered /\ ApprovalsOnFile /\ ResultsOnFile => NoWaitIsLost
  <2> SUFFICES ASSUME IInv, Filed, Delivered, ApprovalsOnFile, ResultsOnFile
               PROVE  NoWaitIsLost
    OBVIOUS
  <2>1. ASSUME NEW h \in Runs PROVE lock[h] = NoRun \/ Held(h)
    BY DEF IInv, TypeOK, SessionsOK, SessionInv, Exclusion, Held
  <2>2. \A r \in Runs : phase[r] = "queued" => handle[r] \in Runs
    BY DEF IInv, SessionInv, Placement, Spawned
  <2>3. actor.at = "switching" => actor.session \in Runs
    BY DEF IInv, TypeOK, LoopOK, ActorState
  <2>4. actor.at = "creating" => phase[actor.run] = "creating"
    BY DEF IInv, InActor
  <2>5. ASSUME NEW c \in Calls
        PROVE  /\ call[c] \in Live => phase[RunOf[c]] = "streaming"
               /\ call[c] \in Open => decision[c] # "empty" \/ approvals[IdOf[c]] = c
               /\ call[c] = "bridged" => output[c] # "empty" \/ results[c] = c
    BY DEF Filed, ApprovalsOnFile, ResultsOnFile, OpenCalls, BridgedCalls
  <2> QED BY <2>1, <2>2, <2>3, <2>4, <2>5 DEF NoWaitIsLost
<1> QED BY <1>1, <1>2, <1>3, FiledInvariance, PTL DEF Spec

-----------------------------------------------------------------------------
(***************************************************************************)
(* The end of a stopped run.  Once the abort has fired no batch starts; if *)
(* one is under way the select drops it, and the loop then returns.        *)
(*                                                                         *)
(* The prover cannot find out when an action is enabled; that the two      *)
(* steps of a stopped run can be taken is a hypothesis.  AbortBatch asks   *)
(* for a call under way and RunEnds for none, and nothing else.            *)
(***************************************************************************)
Stopped(r) == phase[r] = "streaming" /\ aborted[r]

StoppedCanEnd ==
    \A r \in Runs : Stopped(r) =>
        /\ LiveCalls(r) # {} => ENABLED <<AbortBatch(r)>>_vars
        /\ LiveCalls(r) = {} => ENABLED <<aborted[r] /\ RunEnds(r)>>_vars

\* An abort that has fired stays so.
LEMMA AbortStays ==
    ASSUME TypeOK, [Next]_vars, NEW r \in Runs, aborted[r]
    PROVE  aborted'[r]
<1>1. CASE UNCHANGED vars
  BY <1>1 DEF vars, runVars
<1>2. CASE Host
  BY <1>2 DEF Host, SendConfigure, SendPrompt, SendControl, Click, ExecutorReplies, runVars
<1>3. CASE TakeStop
  BY <1>3 DEF TakeStop, TypeOK, RunsOK
<1>4. CASE Actor /\ ~TakeStop
  BY <1>4 DEF Actor, TakeConfigure, TakePrompt, TakeFirstPrompt, SessionCreated,
      SessionCreateFails, TakeDrop, TakeSetModel, ModelSwitched, TakeRespond,
      TakeToolResult, runVars
<1>5. ASSUME NEW q \in Runs,
             \/ AcquireLock(q) \/ RunEnds(q) \/ AbortBatch(q)
             \/ \E batch \in SUBSET CallsOf(q) : StartBatch(q, batch)
      PROVE  aborted'[r]
  BY <1>5 DEF AcquireLock, RunEnds, AbortBatch, StartBatch, CallFrame, runVars
<1>6. ASSUME NEW c \in Calls, ToolStep(c) \/ BuiltinReturns(c) \/ Timer(c)
      PROVE  aborted'[r]
  BY <1>6 DEF CallFrame, runVars, ToolStep, Timer, AskApproval, ExecutePlan, ExecuteIo,
      ExecuteBuiltin, GateDenies, PlanDecided, ResultArrives, BuiltinReturns,
      DialogTimesOut, ResultTimesOut
<1> QED BY <1>1, <1>2, <1>3, <1>4, <1>5, <1>6 DEF Next, Task

\* A stopped run stays one, with no new call under way, until it ends.
LEMMA StoppedStep ==
    ASSUME IInv, [Next]_vars, NEW r \in Runs, Stopped(r)
    PROVE  /\ Stopped(r)' \/ phase'[r] = "ended"
           /\ LiveCalls(r)' \subseteq LiveCalls(r)
<1>1. TypeOK /\ aborted'[r]
  BY AbortStays DEF Stopped, IInv
<1>2. phase'[r] \in {"streaming", "ended"}
  <2>1. CASE UNCHANGED vars
    BY <2>1 DEF vars, runVars, Stopped
  <2>2. CASE RunEnds(r)
    BY <1>1, <2>2 DEF RunEnds, TypeOK, RunsOK
  <2> QED BY <2>1, <2>2, PhaseStays DEF Stopped
<1>3. ASSUME NEW c \in LiveCalls(r)' PROVE c \in LiveCalls(r)
  <2>1. c \in Calls /\ RunOf[c] = r /\ call'[c] \in Live
    BY <1>3 DEF LiveCalls, CallsOf
  <2>2. ~ \E batch \in SUBSET CallsOf(r) : StartBatch(r, batch)
    BY DEF StartBatch, Stopped
  <2>3. call[c] \in Live
    BY <1>1, <2>1, <2>2, GetsUnderWay
  <2> QED BY <2>1, <2>3 DEF LiveCalls, CallsOf
<1> QED BY <1>1, <1>2, <1>3 DEF Stopped

\* Stop ends a run that executes, for any number of prompts and calls, whatever the
\* model, the tools and the user do not do.
THEOREM StopAlwaysEnds == StopSpec /\ []StoppedCanEnd => StopEndsTheRun
<1> SUFFICES ASSUME NEW r \in Runs
             PROVE  StopSpec /\ []StoppedCanEnd => (Stopped(r) ~> phase[r] = "ended")
  BY DEF StopEndsTheRun, Stopped
<1> DEFINE Idle == LiveCalls(r) = {}
<1>1. Scheduling => PolledRun(r)
  BY DEF Scheduling
<1>2. PolledRun(r) => WF_vars(AbortBatch(r)) /\ WF_vars(aborted[r] /\ RunEnds(r))
  BY PTL DEF PolledRun
<1>3. IInv /\ Stopped(r) /\ [Next]_vars => Stopped(r)' \/ (phase[r] = "ended")'
  BY StoppedStep
<1>4. IInv /\ Stopped(r) /\ Idle /\ [Next]_vars => Idle'
  BY StoppedStep
<1>5. IInv /\ Stopped(r) /\ <<AbortBatch(r)>>_vars => Idle'
  <2> SUFFICES ASSUME AbortBatch(r) PROVE LiveCalls(r)' = {}
    OBVIOUS
  <2>1. \A c \in Calls : call'[c] = IF c \in LiveCalls(r) THEN "dropped" ELSE call[c]
    BY DEF AbortBatch
  <2> QED BY <2>1 DEF LiveCalls, CallsOf, Live
<1>6. IInv /\ Stopped(r) /\ <<aborted[r] /\ RunEnds(r)>>_vars => (phase[r] = "ended")'
  BY DEF IInv, TypeOK, RunsOK, RunEnds
<1>7. StoppedCanEnd /\ Stopped(r) /\ ~Idle => ENABLED <<AbortBatch(r)>>_vars
  BY DEF StoppedCanEnd
<1>8. StoppedCanEnd /\ Stopped(r) /\ Idle => ENABLED <<aborted[r] /\ RunEnds(r)>>_vars
  BY DEF StoppedCanEnd
<1>9. Spec => [][Next]_vars
  BY PTL DEF Spec
<1> HIDE DEF Idle
<1> QED BY <1>1, <1>2, <1>3, <1>4, <1>5, <1>6, <1>7, <1>8, <1>9, Invariance, PTL
        DEF StopSpec

-----------------------------------------------------------------------------
(***************************************************************************)
(* The end of a tool call.  A call passes at most four places, and what    *)
(* takes it out of each is the executor's poll, a timer, or the return of  *)
(* a tool of pi's own.  That these steps can be taken is a hypothesis      *)
(* again: their guards are the call's place, and the call's kind.          *)
(***************************************************************************)
CallsCanGoOn ==
    \A c \in Calls :
        /\ call[c] = "scheduled" => ENABLED <<ToolStep(c)>>_vars
        /\ call[c] \in {"asking", "planning", "bridged"} => ENABLED <<Timer(c)>>_vars
        /\ call[c] = "executing" => ENABLED <<BuiltinReturns(c)>>_vars

EveryCallEnds == \A c \in Calls : call[c] \in Live ~> call[c] \in Over

\* Where a call may go from where it is.
LEMMA CallsAdvance ==
    ASSUME TypeOK, [Next]_vars, NEW c \in Calls
    PROVE  /\ call[c] = "scheduled"
                => call'[c] \in {"scheduled", "asking", "planning", "bridged", "executing"} \cup Over
           /\ call[c] = "asking"
                => call'[c] \in {"asking", "planning", "bridged", "executing"} \cup Over
           /\ call[c] \in {"planning", "bridged", "executing"}
                => call'[c] \in {call[c]} \cup Over
BY CallMoves DEF CallMove, MayExecute, Over

LEMMA FairCallSteps ==
    ASSUME TypeOK, NEW c \in Calls
    PROVE  /\ call[c] = "scheduled" /\ ToolStep(c)
                => call'[c] \in {"asking", "planning", "bridged", "executing"}
           /\ call[c] \in {"asking", "planning", "bridged"} /\ Timer(c) => call'[c] \in Over
           /\ call[c] = "executing" /\ BuiltinReturns(c) => call'[c] \in Over
<1>1. ASSUME NEW s, Becomes(c, s) PROVE call'[c] = s
  BY <1>1 DEF TypeOK, CallsOK, Becomes
<1>2. ASSUME call[c] = "scheduled", ToolStep(c)
      PROVE  call'[c] \in {"asking", "planning", "bridged", "executing"}
  BY <1>1, <1>2 DEF ToolStep, AskApproval, ExecutePlan, ExecuteIo, ExecuteBuiltin, GateDenies,
                    PlanDecided, ResultArrives
<1>3. ASSUME Timer(c) PROVE call'[c] \in Over
  BY <1>1, <1>3 DEF Timer, DialogTimesOut, ResultTimesOut, Over
<1>4. ASSUME BuiltinReturns(c) PROVE call'[c] \in Over
  BY <1>1, <1>4 DEF BuiltinReturns, Over
<1> QED BY <1>2, <1>3, <1>4

\* No call waits for ever: for any number of prompts, calls and ids, and whether or
\* not the user, the executor or the channel lets it down, it gets to its end
\* (approval.rs and tool_bridge.rs: the timeouts of the two awaits).
THEOREM CallsAlwaysEnd == FairSpec /\ []CallsCanGoOn => EveryCallEnds
<1> SUFFICES ASSUME NEW c \in Calls
             PROVE  FairSpec /\ []CallsCanGoOn => (call[c] \in Live ~> call[c] \in Over)
  BY DEF EveryCallEnds
<1> DEFINE Gone   == call[c] \in Over
           New    == call[c] = "scheduled"
           Asks   == call[c] = "asking"
           Waits  == call[c] \in {"planning", "bridged"}
           Runs_  == call[c] = "executing"
<1>1. Scheduling => PolledCall(c)
  BY DEF Scheduling
<1>2. Progress => WorldAnswers(c)
  BY DEF Progress
<1>3. /\ PolledCall(c) => WF_vars(ToolStep(c))
      /\ WorldAnswers(c) => WF_vars(Timer(c)) /\ WF_vars(BuiltinReturns(c))
  BY PTL DEF PolledCall, WorldAnswers
<1>4. TypeOK /\ New /\ [Next]_vars => New' \/ Asks' \/ Waits' \/ Runs_' \/ Gone'
  BY CallsAdvance
<1>5. TypeOK /\ Asks /\ [Next]_vars => Asks' \/ Waits' \/ Runs_' \/ Gone'
  BY CallsAdvance
<1>6. TypeOK /\ Waits /\ [Next]_vars => Waits' \/ Gone'
  BY CallsAdvance
<1>7. TypeOK /\ Runs_ /\ [Next]_vars => Runs_' \/ Gone'
  BY CallsAdvance
<1>8. TypeOK /\ New /\ <<ToolStep(c)>>_vars => Asks' \/ Waits' \/ Runs_'
  BY FairCallSteps
<1>9. TypeOK /\ (Asks \/ Waits) /\ <<Timer(c)>>_vars => Gone'
  BY FairCallSteps
<1>10. TypeOK /\ Runs_ /\ <<BuiltinReturns(c)>>_vars => Gone'
  BY FairCallSteps
<1>11. /\ CallsCanGoOn /\ New => ENABLED <<ToolStep(c)>>_vars
       /\ CallsCanGoOn /\ (Asks \/ Waits) => ENABLED <<Timer(c)>>_vars
       /\ CallsCanGoOn /\ Runs_ => ENABLED <<BuiltinReturns(c)>>_vars
  BY DEF CallsCanGoOn
<1>12. call[c] \in Live => New \/ Asks \/ Waits \/ Runs_
  BY DEF Live
<1>13. Spec => [][Next]_vars
  BY PTL DEF Spec
<1> HIDE DEF Gone, New, Asks, Waits, Runs_
<1>14. FairSpec /\ []CallsCanGoOn => (Waits ~> Gone) /\ (Runs_ ~> Gone)
  BY <1>1, <1>2, <1>3, <1>6, <1>7, <1>9, <1>10, <1>11, <1>13, TypeCorrect, PTL DEF FairSpec
<1>15. FairSpec /\ []CallsCanGoOn => (Asks ~> (Waits \/ Runs_ \/ Gone))
  BY <1>1, <1>2, <1>3, <1>5, <1>9, <1>11, <1>13, TypeCorrect, PTL DEF FairSpec
<1>16. FairSpec /\ []CallsCanGoOn => (New ~> (Asks \/ Waits \/ Runs_ \/ Gone))
  BY <1>1, <1>2, <1>3, <1>4, <1>8, <1>11, <1>13, TypeCorrect, PTL DEF FairSpec
<1>17. FairSpec /\ []CallsCanGoOn => (call[c] \in Live ~> Gone)
  BY <1>12, <1>14, <1>15, <1>16, PTL
<1> QED BY <1>17 DEF Gone
===============================================================================
