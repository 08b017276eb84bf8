------------------------- MODULE AutomationRunProofs -------------------------
(***************************************************************************)
(* Proofs about the runs of an automation spec, for any number of runs,    *)
(* threads and permits and any retention.                                  *)
(***************************************************************************)
EXTENDS AutomationRun, FiniteSetTheorems, TLAPS

-----------------------------------------------------------------------------
(***************************************************************************)
(* Types.  That a session has a number needs a count: every session was    *)
(* made for a run that had none.                                           *)
(***************************************************************************)
Owners == {r \in Runs : my[r] # NoSession}

\* Where a run has no session yet.
Early(r) ==
    \/ at[r] = "unfired"
    \/ ChatOf[r] = None /\ at[r] \in {"wait_chat", "screening", "wait_permit", "starting"}

Fresh == \A r \in Runs : Early(r) => my[r] = NoSession

Numbered ==
    /\ made <= Cardinality(Owners)
    /\ \A s \in alive : s <= made
    /\ \A r \in Runs : my[r] <= made
    /\ \A c \in Chats : chatRow[c] <= made

Basic == TypeOK /\ Fresh /\ Numbered

LEMMA RunsFinite == IsFiniteSet(Runs) /\ Cardinality(Runs) \in Nat
BY AutomationAssumption, FS_CardinalityType

LEMMA InitBasic == Init => Basic
<1> SUFFICES ASSUME Init PROVE Basic
    OBVIOUS
<1>1. TypeOK
    BY AutomationAssumption, RunsFinite
       DEF Init, TypeOK, Statuses, Places, Sessions, NoSession
<1>2. Fresh
    BY DEF Init, Fresh
<1>3. Owners = {}
    BY DEF Init, Owners
<1>4. Numbered
    BY <1>3, FS_EmptySet DEF Init, Numbered, NoSession
<1> QED BY <1>1, <1>2, <1>4 DEF Basic

\* A run that had no session gets the next one: there is a number for it.
LEMMA NextSession ==
    ASSUME Basic, NEW r \in Runs, my[r] = NoSession,
           my' = [my EXCEPT ![r] = made + 1]
    PROVE  /\ made \in Nat /\ made + 1 \in Sessions
           /\ made + 1 <= Cardinality(Owners')
           /\ \A q \in Runs : my'[q] <= made + 1
<1> DEFINE Old == Owners
           New == Owners \cup {r}
<1>1. made \in Nat
    BY RunsFinite DEF Basic, TypeOK, Sessions
<1>2. \A q \in Runs : my'[q] = IF q = r THEN made + 1 ELSE my[q]
    BY DEF Basic, TypeOK
<1>3. Owners' = New
    BY <1>1, <1>2 DEF Owners, NoSession
<1>4. r \notin Old /\ Old \subseteq Runs /\ New \subseteq Runs
    BY DEF Owners
<1>5. IsFiniteSet(Old) /\ Cardinality(New) = Cardinality(Old) + 1
    BY <1>4, RunsFinite, FS_Subset, FS_AddElement
<1>6. Cardinality(New) <= Cardinality(Runs) /\ Cardinality(Old) \in Nat
    BY <1>4, <1>5, RunsFinite, FS_Subset, FS_CardinalityType
<1>7. made <= Cardinality(Old)
    BY DEF Basic, Numbered
<1>8. made + 1 <= Cardinality(New) /\ made + 1 \in Sessions
    BY <1>1, <1>5, <1>6, <1>7, RunsFinite DEF Sessions
<1>9. \A q \in Runs : my[q] \in Nat /\ my[q] <= made
    BY RunsFinite DEF Basic, TypeOK, Numbered, Sessions, NoSession
<1> QED BY <1>1, <1>2, <1>3, <1>8, <1>9

LEMMA RowsNumbered ==
    ASSUME Basic, NEW d \in Chats
    PROVE  chatRow[d] \in Nat /\ chatRow[d] <= made + 1
<1>1. chatRow[d] \in Nat /\ made \in Nat
    BY RunsFinite DEF Basic, TypeOK, Sessions, NoSession
<1>2. chatRow[d] <= made
    BY DEF Basic, Numbered
<1> QED BY <1>1, <1>2

\* The steps that leave the sessions and the runs' hold on them alone.
LEMMA KeepsBasic ==
    ASSUME Basic, TypeOK', UNCHANGED <<my, made, alive, chatRow>>,
           \A r \in Runs : Early(r)' => Early(r)
    PROVE  Basic'
<1>1. Fresh'
    BY DEF Basic, Fresh
<1>2. Numbered'
    BY DEF Basic, Numbered, Owners
<1> QED BY <1>1, <1>2 DEF Basic

\* The steps of one run that create and delete no session.
Plain(r) ==
    \/ FireManual(r) \/ EnterChat(r) \/ ScreenOut(r) \/ PassScreen(r) \/ TakePermit(r)
    \/ CapReached(r) \/ NotReady(r) \/ BeginLoop(r) \/ SeesStop(r) \/ LoopEnds(r)
    \/ Report(r) \/ Escalate(r) \/ Ask(r) \/ Pause(r) \/ PathPrompt(r) \/ AnswerPrompt(r)
    \/ ResolveEscalation(r)

LEMMA PlainTyped ==
    ASSUME TypeOK, NEW r \in Runs, Plain(r)
    PROVE  TypeOK'
<1> USE DEF TypeOK, Places, Statuses, Moves, UnlessCancelled, ledger, answers, sessions,
            bounds
<1>1. CASE FireManual(r)
    BY <1>1 DEF FireManual
<1>2. CASE EnterChat(r)
    BY <1>2 DEF EnterChat
<1>3. CASE ScreenOut(r)
    BY <1>3 DEF ScreenOut
<1>4. CASE PassScreen(r)
    BY <1>4 DEF PassScreen
<1>5. CASE TakePermit(r)
    BY <1>5 DEF TakePermit
<1>6. CASE CapReached(r)
    BY <1>6 DEF CapReached
<1>7. CASE NotReady(r)
    BY <1>7 DEF NotReady
<1>8. CASE BeginLoop(r)
    BY <1>8 DEF BeginLoop
<1>9. CASE SeesStop(r)
    BY <1>9 DEF SeesStop
<1>10. CASE LoopEnds(r)
    BY <1>10 DEF LoopEnds
<1>11. CASE Report(r)
    BY <1>11 DEF Report
<1>12. CASE Escalate(r)
    BY <1>12 DEF Escalate
<1>13. CASE Ask(r)
    BY <1>13 DEF Ask, RecordsAsk
<1>14. CASE Pause(r)
    BY <1>14 DEF Pause
<1>15. CASE PathPrompt(r)
    BY <1>15 DEF PathPrompt
<1>16. CASE AnswerPrompt(r)
    BY <1>16 DEF AnswerPrompt
<1>17. CASE ResolveEscalation(r)
    BY <1>17 DEF ResolveEscalation
<1> QED BY <1>1, <1>2, <1>3, <1>4, <1>5, <1>6, <1>7, <1>8, <1>9, <1>10, <1>11, <1>12, <1>13, <1>14, <1>15, <1>16, <1>17 DEF Plain

LEMMA PlainBasic ==
    ASSUME Basic, NEW r \in Runs, Plain(r)
    PROVE  Basic'
<1>1. UNCHANGED <<my, made, alive, chatRow>>
    BY DEF Plain, FireManual, EnterChat, ScreenOut, PassScreen, TakePermit, CapReached,
           NotReady, BeginLoop, SeesStop, LoopEnds, Report, Escalate, Ask, RecordsAsk, Pause,
           PathPrompt, AnswerPrompt, ResolveEscalation, sessions
<1>2. ASSUME NEW q \in Runs, Early(q)' PROVE Early(q)
    BY <1>2 DEF Early, Basic, TypeOK, Moves,
           Plain, FireManual, EnterChat, ScreenOut, PassScreen, TakePermit, CapReached,
           NotReady, BeginLoop, SeesStop, LoopEnds, Report, Escalate, Ask, RecordsAsk, Pause,
           PathPrompt, AnswerPrompt, ResolveEscalation
<1>3. TypeOK'
    BY PlainTyped DEF Basic
<1> QED BY <1>1, <1>2, <1>3, KeepsBasic

LEMMA FireChatBasic ==
    ASSUME Basic, NEW r \in Runs, FireChat(r)
    PROVE  Basic'
<1> DEFINE c == ChatOf[r]
<1>1. at[r] = "unfired" /\ my[r] = NoSession /\ c \in Chats
    BY AutomationAssumption DEF FireChat, Moves, Basic, Fresh, Early
<1>2. at' = [at EXCEPT ![r] = "wait_chat"] /\ at' \in [Runs -> Places]
    BY DEF FireChat, Moves, Basic, TypeOK, Places
<1>3. \A q \in Runs : Early(q)' => Early(q) /\ q # r
    BY <1>1, <1>2, AutomationAssumption DEF Early, Basic, TypeOK
<1>4. CASE chatRow[c] # NoSession
  <2>1. my' = [my EXCEPT ![r] = chatRow[c]] /\ UNCHANGED sessions
    BY <1>4 DEF FireChat
  <2>2. TypeOK'
    BY <1>1, <1>2, <2>1 DEF FireChat, Basic, TypeOK, ledger, answers, sessions, bounds
  <2>3. Fresh'
    BY <1>3, <2>1 DEF Basic, Fresh, TypeOK
  <2>4. Owners \subseteq Owners' /\ Owners' \subseteq Runs
    BY <1>1, <2>1 DEF Owners, Basic, TypeOK
  <2>5. IsFiniteSet(Owners') /\ IsFiniteSet(Owners)
    BY <2>4, RunsFinite, FS_Subset
  <2>6. /\ Cardinality(Owners) <= Cardinality(Owners')
        /\ Cardinality(Owners) \in Nat /\ Cardinality(Owners') \in Nat
    BY <2>4, <2>5, FS_Subset, FS_CardinalityType
  <2>7. Numbered'
    <3>1. made <= Cardinality(Owners')
      BY <2>6, RunsFinite DEF Basic, Numbered, TypeOK, Sessions
    <3>2. \A q \in Runs : my'[q] <= made
      BY <1>1, <2>1 DEF Basic, Numbered, TypeOK
    <3> QED BY <2>1, <3>1, <3>2 DEF Basic, Numbered, sessions
  <2> QED BY <2>2, <2>3, <2>7 DEF Basic
<1>5. CASE chatRow[c] = NoSession
  <2>1. /\ made' = made + 1 /\ alive' = alive \cup {made + 1}
        /\ chatRow' = [chatRow EXCEPT ![c] = made + 1]
        /\ my' = [my EXCEPT ![r] = made + 1] /\ UNCHANGED transcript
    BY <1>5 DEF FireChat
  <2>2. /\ made \in Nat /\ made + 1 \in Sessions /\ made + 1 <= Cardinality(Owners')
        /\ \A q \in Runs : my'[q] <= made + 1
    BY <1>1, <2>1, NextSession
  <2>3. TypeOK'
    BY <1>1, <1>2, <2>1, <2>2 DEF FireChat, Basic, TypeOK, ledger, answers, bounds
  <2>4. Fresh'
    BY <1>3, <2>1 DEF Basic, Fresh, TypeOK
  <2>5. Numbered'
    <3>1. \A s \in alive' : s <= made + 1
      BY <2>1, <2>2, RunsFinite DEF Basic, Numbered, TypeOK, Sessions
    <3>2. \A d \in Chats : chatRow'[d] = IF d = c THEN made + 1 ELSE chatRow[d]
      BY <2>1 DEF Basic, TypeOK
    <3>3. \A d \in Chats : chatRow'[d] <= made + 1
      BY <2>2, <3>2, RowsNumbered
    <3> QED BY <2>1, <2>2, <3>1, <3>3 DEF Numbered
  <2> QED BY <2>3, <2>4, <2>5 DEF Basic
<1> QED BY <1>4, <1>5

LEMMA StartBasic ==
    ASSUME Basic, NEW r \in Runs, Start(r)
    PROVE  Basic'
<1>1. /\ at[r] = "starting" /\ at' \in [Runs -> Places]
      /\ \A q \in Runs : at'[q] = IF q = r THEN at'[r] ELSE at[q]
      /\ at'[r] \in {"started", "over"}
    BY DEF Start, Moves, Basic, TypeOK, Places
<1>2. \A q \in Runs : Early(q)' => Early(q) /\ q # r
    BY <1>1 DEF Early
<1>3. status' \in [Runs -> Statuses]
    BY DEF Start, Basic, TypeOK, Statuses
<1>4. CASE ChatOf[r] = None
  <2>1. my[r] = NoSession
    BY <1>1, <1>4 DEF Basic, Fresh, Early
  <2>2. /\ made' = made + 1 /\ alive' = alive \cup {made + 1}
        /\ my' = [my EXCEPT ![r] = made + 1] /\ UNCHANGED <<chatRow, transcript>>
        /\ link' = [link EXCEPT ![r] = IF status[r] = "queued" THEN made + 1 ELSE @]
    BY <1>4 DEF Start
  <2>3. /\ made \in Nat /\ made + 1 \in Sessions /\ made + 1 <= Cardinality(Owners')
        /\ \A q \in Runs : my'[q] <= made + 1
    BY <2>1, <2>2, NextSession
  <2>4. /\ link' \in [Runs -> Sessions \cup {NoSession}]
        /\ my' \in [Runs -> Sessions \cup {NoSession}]
        /\ made' \in Sessions \cup {0} /\ alive' \subseteq Sessions
    BY <2>2, <2>3 DEF Basic, TypeOK
  <2>5. TypeOK'
    BY <1>1, <1>3, <2>2, <2>4 DEF Start, Basic, TypeOK, answers, bounds
  <2>6. Fresh'
    BY <1>2, <2>2 DEF Basic, Fresh, TypeOK
  <2>7. Numbered'
    <3>1. \A s \in alive' : s <= made + 1
      BY <2>2, <2>3, RunsFinite DEF Basic, Numbered, TypeOK, Sessions
    <3>2. \A d \in Chats : chatRow'[d] <= made + 1
      BY <2>2, <2>3, RowsNumbered
    <3> QED BY <2>2, <2>3, <3>1, <3>2 DEF Numbered
  <2> QED BY <2>5, <2>6, <2>7 DEF Basic
<1>5. CASE ChatOf[r] # None
  <2>1. my' = my /\ UNCHANGED <<made, alive, chatRow, transcript>>
    BY <1>5 DEF Start, Basic, TypeOK
  <2>2. link' \in [Runs -> Sessions \cup {NoSession}]
    BY <1>5 DEF Start, Basic, TypeOK
  <2>3. TypeOK'
    BY <1>1, <1>3, <2>1, <2>2 DEF Start, Basic, TypeOK, answers, bounds
  <2> QED BY <1>2, <2>1, <2>3, KeepsBasic
<1> QED BY <1>4, <1>5

\* What a prune leaves is among what there was.
LEMMA FinishBasic ==
    ASSUME Basic, NEW r \in Runs, Finish(r)
    PROVE  Basic'
<1>1. /\ at' \in [Runs -> Places] /\ \A q \in Runs : Early(q)' => Early(q)
    BY DEF Finish, Moves, Basic, TypeOK, Places, Early
<1>2. status' \in [Runs -> Statuses]
    BY DEF Finish, UnlessCancelled, Basic, TypeOK, Statuses
<1>3. /\ alive' = alive \ Pruned
      /\ chatRow' = [c \in Chats |-> IF chatRow[c] \in Pruned THEN NoSession ELSE chatRow[c]]
      /\ link' = [q \in Runs |-> IF link[q] \in Pruned THEN NoSession ELSE link[q]]
      /\ transcript' = [s \in Sessions |-> IF s \in Pruned THEN None ELSE Persisted(r)[s]]
      /\ UNCHANGED <<pending, requests, escalation, gate, my, made, stopping, prompts, stops, crashes>>
    BY DEF Finish, Prune, answers, bounds
<1>4. Persisted(r) \in [Sessions -> Runs \cup {None}]
    BY DEF Persisted, Basic, TypeOK
<1>5. transcript' \in [Sessions -> Runs \cup {None}]
    BY <1>3, <1>4
<1>6. TypeOK'
    BY <1>1, <1>2, <1>3, <1>5 DEF Basic, TypeOK
<1>7. Fresh'
    BY <1>1, <1>3 DEF Basic, Fresh
<1>8. Owners' = Owners
    BY <1>3 DEF Owners
<1>9. \A c \in Chats : chatRow'[c] <= made
    BY <1>3, RunsFinite DEF Basic, Numbered, TypeOK, Sessions, NoSession
<1>10. Numbered'
    BY <1>3, <1>8, <1>9 DEF Basic, Numbered
<1> QED BY <1>6, <1>7, <1>10 DEF Basic

\* An answer is written in its place.
LEMMA AnswerKeepsLength ==
    ASSUME NEW r \in Runs, NEW i \in 1..MaxAsks, NEW answer \in {"approved", "denied"},
           TypeOK, RecordsAnswer(r, i, answer)
    PROVE  /\ requests' \in [Runs -> Seq({"pending", "approved", "denied"})]
           /\ \A j \in 1..Len(requests[r]) :
                  requests'[r][j] = IF j = i THEN answer ELSE requests[r][j]
           /\ i \in 1..Len(requests[r])
           /\ \A q \in Runs : /\ q # r => requests'[q] = requests[q]
                             /\ Len(requests'[q]) = Len(requests[q])
<1>1. /\ requests[r] \in Seq({"pending", "approved", "denied"})
      /\ i \in 1..Len(requests[r])
      /\ requests \in [Runs -> Seq({"pending", "approved", "denied"})]
      /\ requests' = [requests EXCEPT ![r] = [requests[r] EXCEPT ![i] = answer]]
    BY DEF RecordsAnswer, TypeOK
<1>2. /\ requests'[r] = [requests[r] EXCEPT ![i] = answer]
      /\ \A q \in Runs : q # r => requests'[q] = requests[q]
    BY <1>1
<1>3. /\ requests'[r] \in Seq({"pending", "approved", "denied"})
      /\ Len(requests'[r]) = Len(requests[r])
    BY <1>1, <1>2
<1> QED BY <1>1, <1>2, <1>3

LEMMA OthersBasic ==
    ASSUME Basic,
           \/ StopFinds \/ StopUpdates \/ Crash
           \/ \E r \in Runs, i \in 1..MaxAsks, answer \in {"approved", "denied"} :
                  ResolveApproval(r, i, answer)
    PROVE  Basic'
<1> USE DEF ledger, answers, sessions, bounds
<1>1. CASE StopFinds
  <2>1. TypeOK' /\ UNCHANGED <<at, my, made, alive, chatRow>>
    BY <1>1 DEF StopFinds, Basic, TypeOK
  <2> QED BY <2>1, KeepsBasic DEF Early
<1>2. CASE StopUpdates
  <2>1. TypeOK' /\ UNCHANGED <<at, my, made, alive, chatRow>>
    BY <1>2 DEF StopUpdates, Basic, TypeOK, Statuses
  <2> QED BY <2>1, KeepsBasic DEF Early
<1>3. CASE Crash
  <2>1. UNCHANGED <<my, made, alive, chatRow>>
    BY <1>3 DEF Crash
  <2>2. at' \in [Runs -> Places] /\ \A q \in Runs : Early(q)' => Early(q)
    BY <1>3 DEF Crash, Basic, TypeOK, Places, Early
  <2>3. requests' \in [Runs -> Seq({"pending", "approved", "denied"})]
    <3>1. CASE requests' = requests
      BY <3>1 DEF Basic, TypeOK
    <3>2. ASSUME NEW r \in Runs, RecordsAsk(r)
          PROVE  requests' \in [Runs -> Seq({"pending", "approved", "denied"})]
      <4>1. requests[r] \in Seq({"pending", "approved", "denied"})
        BY DEF Basic, TypeOK
      <4>2. Append(requests[r], "pending") \in Seq({"pending", "approved", "denied"})
        BY <4>1
      <4> QED BY <3>2, <4>2 DEF RecordsAsk, Basic, TypeOK
    <3>3. ASSUME NEW r \in Runs, NEW i \in 1..MaxAsks, NEW answer \in {"approved", "denied"},
                 RecordsAnswer(r, i, answer)
          PROVE  requests' \in [Runs -> Seq({"pending", "approved", "denied"})]
      BY <3>3, AnswerKeepsLength DEF Basic
    <3> QED BY <1>3, <3>1, <3>2, <3>3 DEF Crash
  <2>4. TypeOK'
    BY <1>3, <2>1, <2>2, <2>3 DEF Crash, Basic, TypeOK
  <2> QED BY <2>1, <2>2, <2>4, KeepsBasic
<1>4. ASSUME NEW r \in Runs, NEW i \in 1..MaxAsks, NEW answer \in {"approved", "denied"},
             ResolveApproval(r, i, answer)
      PROVE  Basic'
  <2>1. UNCHANGED <<at, my, made, alive, chatRow>>
    BY <1>4 DEF ResolveApproval, RecordsAnswer
  <2>2. requests' \in [Runs -> Seq({"pending", "approved", "denied"})]
    <3>1. requests[r] \in Seq({"pending", "approved", "denied"}) /\ i \in DOMAIN requests[r]
      BY <1>4 DEF ResolveApproval, RecordsAnswer, Basic, TypeOK
    <3>2. [requests[r] EXCEPT ![i] = answer] \in Seq({"pending", "approved", "denied"})
      BY <3>1
    <3> QED BY <1>4, <3>2 DEF ResolveApproval, RecordsAnswer, Basic, TypeOK
  <2>3. status' \in [Runs -> Statuses]
    BY <1>4 DEF ResolveApproval, RecordsAnswer, ActivityAfter, Basic, TypeOK, Statuses
  <2>4. TypeOK'
    BY <1>4, <2>2, <2>3 DEF ResolveApproval, RecordsAnswer, Basic, TypeOK
  <2> QED BY <2>1, <2>4, KeepsBasic DEF Early
<1> QED BY <1>1, <1>2, <1>3, <1>4

\* The steps, sorted by what they do to the sessions.
LEMMA Kinds ==
    ASSUME [Next]_vars
    PROVE  \/ \E r \in Runs : Plain(r) \/ FireChat(r) \/ Start(r) \/ Finish(r)
           \/ StopFinds \/ StopUpdates \/ Crash
           \/ \E r \in Runs, i \in 1..MaxAsks, answer \in {"approved", "denied"} :
                  ResolveApproval(r, i, answer)
           \/ UNCHANGED vars
BY DEF Next, Fires, Waits, Advances, User, Plain

LEMMA BasicStep == Basic /\ [Next]_vars => Basic'
<1> SUFFICES ASSUME Basic, [Next]_vars PROVE Basic'
    OBVIOUS
<1>1. CASE UNCHANGED vars
  <2>1. TypeOK' /\ UNCHANGED <<at, my, made, alive, chatRow>>
    BY <1>1 DEF vars, ledger, answers, sessions, bounds, Basic, TypeOK
  <2> QED BY <2>1, KeepsBasic DEF Early
<1> QED BY <1>1, Kinds, PlainBasic, FireChatBasic, StartBasic, FinishBasic, OthersBasic

LEMMA BasicInvariant == Spec => []Basic
BY InitBasic, BasicStep, PTL DEF Spec

\* Every variable of the automation runs keeps its type, for any number of runs.
THEOREM TypeCorrect == Spec => []TypeOK
<1>1. Basic => TypeOK
    BY DEF Basic
<1> QED BY <1>1, BasicInvariant, PTL
-----------------------------------------------------------------------------
(***************************************************************************)
(* The ledger.  What a run's row can say where the run is.                 *)
(***************************************************************************)
Answered == {"paused_pending_approval", "resumable", "cancelled_user_denied"}

Calm(r) ==
    gate[r] = "none" /\ escalation[r] = "none" /\ requests[r] = << >> /\ pending[r] = 0

\* A stop and an approval: once the run asked, the row is no longer active.
Open(r) == status[r] \in IF requests[r] = << >> THEN {"running", "cancelled"} ELSE Answered

Told(r) ==
    /\ at[r] \in {"unfired", "wait_chat"} => status[r] = "none" /\ Calm(r)
    /\ at[r] \in {"screening", "wait_permit", "starting"} =>
           status[r] \in {"queued", "cancelled"} /\ Calm(r)
    /\ at[r] \in {"started", "looping"} => status[r] \in {"running", "cancelled"} /\ Calm(r)
    /\ at[r] \in {"asked", "prompted"} =>
           Open(r) /\ gate[r] = "none" /\ (requests[r] = << >> => Calm(r))
    /\ at[r] = "asked" => requests[r] # << >>
    /\ at[r] = "ending" =>
           CASE gate[r] = "reported"  -> status[r] \in {"completed", "cancelled"}
             [] gate[r] = "escalated" -> status[r] \in {"running", "cancelled"}
             [] OTHER                 -> Open(r)
    /\ at[r] = "over" /\ status[r] # "cancelled" =>
           status[r] \in CASE gate[r] = "reported"   -> {"completed"}
                           [] gate[r] = "escalated"  -> {"waiting_user"}
                           [] requests[r] # << >>    -> {"failed", "resumable",
                                                         "cancelled_user_denied"}
                           [] OTHER                  -> {"failed", "filtered_out"}
    /\ at[r] # "lost" /\ gate[r] # "none" => requests[r] = << >>
    /\ pending[r] # 0 => gate[r] = "none"
    /\ gate[r] = "escalated" => escalation[r] # "none"
    /\ status[r] = "waiting_user" => escalation[r] # "none"
    /\ status[r] = "completed" => gate[r] = "reported"

Ledger == TypeOK /\ \A r \in Runs : Told(r)

\* A run's row depends on the run's own variables.
LEMMA SameRow ==
    ASSUME NEW q \in Runs, Told(q),
           at'[q] = at[q], status'[q] = status[q], requests'[q] = requests[q],
           pending'[q] = pending[q], gate'[q] = gate[q], escalation'[q] = escalation[q]
    PROVE  Told(q)'
BY DEF Told, Calm, Open

LEMMA AskAppends ==
    ASSUME Ledger, NEW r \in Runs, Ask(r)
    PROVE  requests'[r] # << >>
<1>1. requests[r] \in Seq({"pending", "approved", "denied"})
    BY DEF Ledger, TypeOK
<1>2. requests'[r] = Append(requests[r], "pending")
    BY DEF Ask, RecordsAsk, Ledger, TypeOK
<1> QED BY <1>1, <1>2

LEMMA OwnRow ==
    ASSUME Ledger, NEW r \in Runs,
           Plain(r) \/ FireChat(r) \/ Start(r) \/ Finish(r)
    PROVE  Told(r)'
<1> USE DEF Ledger, TypeOK, Told, Calm, Open, Answered, Moves, UnlessCancelled, ledger, answers
<1>1. CASE FireManual(r)
    BY <1>1 DEF FireManual
<1>2. CASE EnterChat(r)
    BY <1>2 DEF EnterChat
<1>3. CASE ScreenOut(r)
    BY <1>3 DEF ScreenOut
<1>4. CASE PassScreen(r)
    BY <1>4 DEF PassScreen
<1>5. CASE TakePermit(r)
    BY <1>5 DEF TakePermit
<1>6. CASE CapReached(r)
    BY <1>6 DEF CapReached
<1>7. CASE NotReady(r)
    BY <1>7 DEF NotReady
<1>8. CASE BeginLoop(r)
    BY <1>8 DEF BeginLoop
<1>9. CASE SeesStop(r)
    BY <1>9 DEF SeesStop
<1>10. CASE LoopEnds(r)
    BY <1>10 DEF LoopEnds
<1>11. CASE Report(r)
    BY <1>11 DEF Report
<1>12. CASE Escalate(r)
    BY <1>12 DEF Escalate
<1>13. CASE Ask(r)
  <2>1. requests'[r] # << >>
    BY <1>13, AskAppends
  <2>2. /\ at'[r] = "asked" /\ status'[r] = "paused_pending_approval"
        /\ gate'[r] = gate[r] /\ escalation'[r] = escalation[r]
        /\ at[r] \in {"looping", "asked"}
    BY <1>13 DEF Ask, RecordsAsk
  <2> QED BY <2>1, <2>2
<1>14. CASE Pause(r)
    BY <1>14 DEF Pause
<1>15. CASE PathPrompt(r)
    BY <1>15 DEF PathPrompt
<1>16. CASE AnswerPrompt(r)
    BY <1>16 DEF AnswerPrompt
<1>17. CASE ResolveEscalation(r)
    BY <1>17 DEF ResolveEscalation
<1>18. CASE FireChat(r)
    BY <1>18 DEF FireChat
<1>19. CASE Start(r)
    BY <1>19 DEF Start
<1>20. CASE Finish(r)
    BY <1>20 DEF Finish
<1> QED BY <1>1, <1>2, <1>3, <1>4, <1>5, <1>6, <1>7, <1>8, <1>9, <1>10, <1>11, <1>12, <1>13, <1>14, <1>15, <1>16, <1>17, <1>18, <1>19, <1>20 DEF Plain

LEMMA OtherRows ==
    ASSUME Ledger, NEW r \in Runs,
           Plain(r) \/ FireChat(r) \/ Start(r) \/ Finish(r),
           NEW q \in Runs, q # r
    PROVE  /\ at'[q] = at[q] /\ status'[q] = status[q] /\ requests'[q] = requests[q]
           /\ pending'[q] = pending[q] /\ gate'[q] = gate[q]
           /\ escalation'[q] = escalation[q]
<1> USE DEF Ledger, TypeOK, Moves, UnlessCancelled, ledger, answers
<1>1. CASE \/ FireManual(r) \/ EnterChat(r) \/ ScreenOut(r) \/ PassScreen(r) \/ TakePermit(r)
           \/ CapReached(r) \/ NotReady(r) \/ BeginLoop(r)
    BY <1>1 DEF FireManual, EnterChat, ScreenOut, PassScreen, TakePermit, CapReached,
                NotReady, BeginLoop
<1>2. CASE \/ SeesStop(r) \/ LoopEnds(r) \/ Report(r) \/ Escalate(r) \/ Ask(r) \/ Pause(r)
           \/ PathPrompt(r) \/ AnswerPrompt(r) \/ ResolveEscalation(r)
    BY <1>2 DEF SeesStop, LoopEnds, Report, Escalate, Ask, RecordsAsk, Pause, PathPrompt, AnswerPrompt,
                ResolveEscalation
<1>3. CASE FireChat(r) \/ Start(r)
    BY <1>3 DEF FireChat, Start
<1>4. CASE Finish(r)
    BY <1>4 DEF Finish
<1> QED BY <1>1, <1>2, <1>3, <1>4 DEF Plain

\* An answer to a run's request: the row is the run's if it points to the request.
LEMMA AnsweredRow ==
    ASSUME Ledger, NEW r \in Runs, NEW i \in 1..MaxAsks,
           NEW answer \in {"approved", "denied"}, ResolveApproval(r, i, answer),
           NEW q \in Runs
    PROVE  Told(q)'
<1>1. CASE q # r
    BY <1>1, SameRow DEF ResolveApproval, RecordsAnswer, Ledger, TypeOK, ledger
<1>2. CASE q = r
  <2>1. requests[r] # << >> /\ requests'[r] # << >>
    <3>1. i \in DOMAIN requests[r] /\ requests[r] \in Seq({"pending", "approved", "denied"})
      BY DEF ResolveApproval, RecordsAnswer, Ledger, TypeOK
    <3>2. requests'[r] = [requests[r] EXCEPT ![i] = answer]
      BY DEF ResolveApproval, RecordsAnswer, Ledger, TypeOK
    <3>3. DOMAIN requests'[r] = DOMAIN requests[r]
      BY <3>2
    <3>4. DOMAIN << >> = {}
      OBVIOUS
    <3> QED BY <3>1, <3>3, <3>4
  <2>2. /\ at'[r] = at[r] /\ pending'[r] = pending[r] /\ gate'[r] = gate[r]
        /\ escalation'[r] = escalation[r]
    BY DEF ResolveApproval, RecordsAnswer
  <2>3. \/ status'[r] = status[r]
        \/ pending[r] # 0 /\ status'[r] \in {"resumable", "cancelled_user_denied"}
    <3>1. ActivityAfter(answer) \in {"resumable", "cancelled_user_denied"}
      BY DEF ActivityAfter
    <3>2. pending[r] = i => pending[r] # 0
      BY AutomationAssumption
    <3>3. status' = IF pending[r] # i THEN status
                    ELSE [status EXCEPT ![r] = ActivityAfter(answer)]
      BY DEF ResolveApproval, RecordsAnswer
    <3>4. status \in [Runs -> Statuses]
      BY DEF Ledger, TypeOK
    <3>5. CASE pending[r] # i
      BY <3>3, <3>5
    <3>6. CASE pending[r] = i
      BY <3>1, <3>2, <3>3, <3>4, <3>6
    <3> QED BY <3>5, <3>6
  <2>4. Told(r)
    BY DEF Ledger
  <2>5. /\ at[r] \in {"asked", "prompted", "ending", "over", "lost"}
        /\ at[r] # "lost" => gate[r] = "none"
    BY <2>1, <2>4 DEF Told, Calm, Ledger, TypeOK, Places
  <2>6. CASE status'[r] = status[r]
    BY <1>2, <2>1, <2>2, <2>4, <2>5, <2>6 DEF Told, Calm, Open
  <2>7. CASE pending[r] # 0 /\ status'[r] \in {"resumable", "cancelled_user_denied"}
    BY <1>2, <2>1, <2>2, <2>4, <2>5, <2>7 DEF Told, Calm, Open, Answered
  <2> QED BY <1>2, <2>3, <2>6, <2>7
<1> QED BY <1>1, <1>2

\* A crash loses the run and may leave a request that no row points to.
LEMMA CrashedRow ==
    ASSUME Ledger, Crash, NEW q \in Runs
    PROVE  Told(q)'
<1>1. at'[q] = IF at[q] \in {"unfired", "over"} THEN at[q] ELSE "lost"
    BY DEF Crash
<1>2. /\ status'[q] = status[q] /\ pending'[q] = pending[q] /\ gate'[q] = gate[q]
      /\ escalation'[q] = escalation[q]
    BY DEF Crash, ledger
<1>3. at[q] \in {"unfired", "over"} => (requests'[q] = << >> <=> requests[q] = << >>)
  <2>1. ASSUME NEW r \in Runs, RecordsAsk(r), at[q] \in {"unfired", "over"}
        PROVE  requests'[q] = requests[q]
    BY <2>1 DEF RecordsAsk, Ledger, TypeOK
  <2>2. ASSUME NEW r \in Runs, NEW i \in 1..MaxAsks, NEW answer \in {"approved", "denied"},
               RecordsAnswer(r, i, answer)
        PROVE  requests'[q] = << >> <=> requests[q] = << >>
    <3>1. TypeOK /\ RecordsAnswer(r, i, answer)
      BY <2>2 DEF Ledger
    <3>2. /\ requests' \in [Runs -> Seq({"pending", "approved", "denied"})]
          /\ Len(requests'[q]) = Len(requests[q])
      BY <3>1, AnswerKeepsLength
    <3>3. /\ requests[q] \in Seq({"pending", "approved", "denied"})
          /\ requests'[q] \in Seq({"pending", "approved", "denied"})
      BY <3>1, <3>2 DEF TypeOK
    <3> QED BY <3>2, <3>3
  <2> QED BY <2>1, <2>2 DEF Crash
<1> QED BY <1>1, <1>2, <1>3 DEF Ledger, Told, Calm, Open

LEMMA ToldStep == Ledger /\ [Next]_vars => \A q \in Runs : Told(q)'
<1> SUFFICES ASSUME Ledger, [Next]_vars, NEW q \in Runs PROVE Told(q)'
    OBVIOUS
<1>1. CASE \E r \in Runs : Plain(r) \/ FireChat(r) \/ Start(r) \/ Finish(r)
  <2>1. PICK r \in Runs : Plain(r) \/ FireChat(r) \/ Start(r) \/ Finish(r)
    BY <1>1
  <2>2. CASE q = r
    BY <2>1, <2>2, OwnRow
  <2>3. CASE q # r
    BY <2>1, <2>3, OtherRows, SameRow DEF Ledger
  <2> QED BY <2>2, <2>3
<1>2. CASE StopFinds \/ UNCHANGED vars
    BY <1>2, SameRow DEF StopFinds, vars, ledger, answers, Ledger
<1>3. CASE StopUpdates
    BY <1>3 DEF StopUpdates, answers, Ledger, TypeOK, Told, Calm, Open, Answered, Active
<1>4. CASE \E r \in Runs, i \in 1..MaxAsks, answer \in {"approved", "denied"} :
               ResolveApproval(r, i, answer)
    BY <1>4, AnsweredRow
<1> QED BY <1>1, <1>2, <1>3, <1>4, CrashedRow, Kinds

LEMMA LedgerInvariant == Spec => [](Basic /\ Ledger)
<1>1. Init => Ledger
    BY InitBasic DEF Basic, Init, Ledger, Told, Calm, Open
<1>2. Basic /\ Ledger /\ [Next]_vars => Basic' /\ Ledger'
  <2> SUFFICES ASSUME Basic, Ledger, [Next]_vars PROVE Basic' /\ Ledger'
    OBVIOUS
  <2>1. Basic' /\ TypeOK'
    BY BasicStep DEF Basic
  <2>2. \A q \in Runs : Told(q)'
    BY ToldStep
  <2> QED BY <2>1, <2>2 DEF Ledger
<1> QED BY <1>1, <1>2, InitBasic, PTL DEF Spec

\* Every way out of execute_run leaves a row that says how the run ended.
THEOREM TheOutcomeIsTold == Spec => []OutcomeTold
<1>1. Ledger => OutcomeTold
  <2> SUFFICES ASSUME Ledger, NEW r \in Runs, Told(r)
               PROVE  /\ at[r] = "over" => status[r] \notin Active \cup {"none"}
                      /\ at[r] = "over" /\ requests[r] = << >> /\ status[r] # "cancelled" =>
                          status[r] \in CASE gate[r] = "reported"  -> {"completed"}
                                          [] gate[r] = "escalated" -> {"waiting_user"}
                                          [] OTHER                 -> {"failed", "filtered_out"}
                      /\ status[r] = "waiting_user" => escalation[r] # "none"
                      /\ status[r] = "completed" => gate[r] = "reported"
    BY DEF Ledger, OutcomeTold
  <2>1. CASE gate[r] = "reported"
    BY <2>1 DEF Told, Active
  <2>2. CASE gate[r] = "escalated"
    BY <2>2 DEF Told, Active
  <2>3. CASE gate[r] \notin {"reported", "escalated"}
    BY <2>3 DEF Told, Active
  <2> QED BY <2>1, <2>2, <2>3
<1> QED BY <1>1, LedgerInvariant, PTL
\* What only a question or an answer changes.
LEMMA RowsInHand ==
    ASSUME TypeOK, NEW r \in Runs,
           Plain(r) \/ FireChat(r) \/ Start(r) \/ Finish(r), ~ Ask(r), NEW q \in Runs
    PROVE  /\ requests' = requests /\ pending' = pending /\ crashes' = crashes
           /\ at[q] = "lost" => at'[q] = "lost"
           /\ status'[q] \in Answered => status'[q] = status[q]
<1> USE DEF TypeOK, Moves, UnlessCancelled, ledger, answers, bounds, Answered
<1>1. CASE \/ FireManual(r) \/ EnterChat(r) \/ ScreenOut(r) \/ PassScreen(r) \/ TakePermit(r)
           \/ CapReached(r) \/ NotReady(r) \/ BeginLoop(r)
    BY <1>1 DEF FireManual, EnterChat, ScreenOut, PassScreen, TakePermit, CapReached,
                NotReady, BeginLoop
<1>2. CASE \/ SeesStop(r) \/ LoopEnds(r) \/ Report(r) \/ Escalate(r) \/ Pause(r)
           \/ PathPrompt(r) \/ AnswerPrompt(r) \/ ResolveEscalation(r)
    BY <1>2 DEF SeesStop, LoopEnds, Report, Escalate, Pause, PathPrompt, AnswerPrompt,
                ResolveEscalation
<1>3. CASE FireChat(r) \/ Start(r)
    BY <1>3 DEF FireChat, Start
<1>4. CASE Finish(r)
    BY <1>4 DEF Finish
<1> QED BY <1>1, <1>2, <1>3, <1>4 DEF Plain

\* What AnswersAgree says of one run.
Agrees(r) ==
    /\ pending[r] <= Len(requests[r])
    /\ pending[r] < Len(requests[r]) =>
           at[r] = "lost" /\ Len(requests[r]) = pending[r] + 1
    /\ status[r] \in DOMAIN RequestOf =>
           /\ pending[r] # 0
           /\ crashes = 0 => requests[r][pending[r]] = RequestOf[status[r]]
           /\ requests[r][pending[r]] = "pending" => status[r] = "paused_pending_approval"

LEMMA AskAgrees ==
    ASSUME TypeOK, NEW r \in Runs, Ask(r), \A q \in Runs : Agrees(q), NEW q \in Runs
    PROVE  Agrees(q)'
<1>1. CASE q # r
    BY <1>1 DEF Ask, RecordsAsk, TypeOK, Agrees, bounds
<1>2. CASE q = r
  <2>1. /\ requests[r] \in Seq({"pending", "approved", "denied"})
        /\ requests'[r] = Append(requests[r], "pending")
        /\ pending'[r] = Len(requests[r]) + 1
        /\ status'[r] = "paused_pending_approval"
    BY DEF Ask, RecordsAsk, TypeOK
  <2>2. /\ Len(requests[r]) \in Nat /\ Len(requests'[r]) = Len(requests[r]) + 1
        /\ requests'[r][Len(requests[r]) + 1] = "pending"
    BY <2>1
  <2> QED BY <1>2, <2>1, <2>2 DEF Agrees, RequestOf
<1> QED BY <1>1, <1>2

\* An answer changes the row that points to the request, and no other.
LEMMA AnswerAgrees ==
    ASSUME TypeOK, NEW r \in Runs, NEW i \in 1..MaxAsks, NEW answer \in {"approved", "denied"},
           ResolveApproval(r, i, answer), \A q \in Runs : Agrees(q), NEW q \in Runs
    PROVE  Agrees(q)'
<1>1. /\ \A j \in 1..Len(requests[r]) :
             requests'[r][j] = IF j = i THEN answer ELSE requests[r][j]
      /\ i \in 1..Len(requests[r])
      /\ \A p \in Runs : p # r => requests'[p] = requests[p]
      /\ Len(requests'[r]) = Len(requests[r])
  <2>1. RecordsAnswer(r, i, answer)
    BY DEF ResolveApproval
  <2> QED BY <2>1, AnswerKeepsLength
<1>2. /\ UNCHANGED <<at, pending, crashes>>
      /\ status' = IF pending[r] # i THEN status
                   ELSE [status EXCEPT ![r] = ActivityAfter(answer)]
    BY DEF ResolveApproval, bounds
<1>3. /\ requests[r] \in Seq({"pending", "approved", "denied"})
      /\ pending[r] \in Nat /\ status \in [Runs -> Statuses] /\ i \in Nat
    BY AutomationAssumption DEF TypeOK
<1>4. CASE q # r
    BY <1>1, <1>2, <1>3, <1>4 DEF Agrees
<1>5. CASE q = r /\ pending[r] # i
  <2>1. pending[r] \in 1..Len(requests[r]) => requests'[r][pending[r]] = requests[r][pending[r]]
    BY <1>1, <1>3, <1>5
  <2>2. Agrees(r)
    OBVIOUS
  <2> QED BY <1>1, <1>2, <1>3, <1>5, <2>1, <2>2 DEF Agrees
<1>6. CASE q = r /\ pending[r] = i
  <2>1. requests'[r][pending[r]] = answer
    BY <1>1, <1>3, <1>6
  <2>2. status'[r] = ActivityAfter(answer)
    BY <1>2, <1>3, <1>6
  <2>3. answer # "pending" /\ answer = RequestOf[ActivityAfter(answer)]
    BY DEF ActivityAfter, RequestOf
  <2>4. Agrees(r) /\ pending[r] # 0
    BY <1>1, <1>3, <1>6
  <2> QED BY <1>1, <1>2, <1>6, <2>1, <2>2, <2>3, <2>4 DEF Agrees
<1> QED BY <1>4, <1>5, <1>6

\* A crash between two statements leaves the row behind.
LEMMA CrashAgrees ==
    ASSUME TypeOK, Crash, \A q \in Runs : Agrees(q), NEW q \in Runs
    PROVE  Agrees(q)'
<1>1. /\ UNCHANGED <<status, pending>> /\ crashes' # 0
      /\ at'[q] = IF at[q] \in {"unfired", "over"} THEN at[q] ELSE "lost"
      /\ requests[q] \in Seq({"pending", "approved", "denied"}) /\ pending[q] \in Nat
    BY DEF Crash, TypeOK, ledger
<1>2. Agrees(q)
    OBVIOUS
<1>3. CASE requests'[q] = requests[q]
    BY <1>1, <1>2, <1>3 DEF Agrees
<1>4. ASSUME NEW r \in Runs, RecordsAsk(r), requests'[q] # requests[q]
      PROVE  Agrees(q)'
  <2>1. /\ at[q] \in {"looping", "asked"}
        /\ requests'[q] = Append(requests[q], "pending")
    BY <1>4 DEF RecordsAsk, TypeOK
  <2>2. /\ Len(requests'[q]) = Len(requests[q]) + 1
        /\ \A j \in 1..Len(requests[q]) : requests'[q][j] = requests[q][j]
    BY <1>1, <2>1
  <2>3. Len(requests[q]) = pending[q] /\ at'[q] = "lost"
    BY <1>1, <1>2, <2>1 DEF Agrees
  <2> QED BY <1>1, <1>2, <2>2, <2>3 DEF Agrees
<1>5. ASSUME NEW r \in Runs, NEW i \in 1..MaxAsks, NEW answer \in {"approved", "denied"},
             RecordsAnswer(r, i, answer), requests'[q] # requests[q]
      PROVE  Agrees(q)'
  <2>1. /\ \A j \in 1..Len(requests[q]) :
               requests'[q][j] = IF j = i THEN answer ELSE requests[q][j]
        /\ Len(requests'[q]) = Len(requests[q])
    <3>1. /\ \A j \in 1..Len(requests[r]) :
                 requests'[r][j] = IF j = i THEN answer ELSE requests[r][j]
          /\ \A p \in Runs : /\ p # r => requests'[p] = requests[p]
                            /\ Len(requests'[p]) = Len(requests[p])
      BY <1>5, AnswerKeepsLength
    <3>2. q = r
      BY <1>5, <3>1
    <3> QED BY <3>1, <3>2
  <2>2. pending[q] \in 1..Len(requests[q]) /\ requests'[q][pending[q]] = "pending"
            => requests[q][pending[q]] = "pending"
    BY <1>1, <2>1
  <2> QED BY <1>1, <1>2, <2>1, <2>2 DEF Agrees
<1> QED BY <1>3, <1>4, <1>5 DEF Crash

\* The two tables of an approval agree, whatever was asked and answered in which
\* order, up to what a crash between two statements leaves.
THEOREM AnswersAlwaysAgree == Spec => []AnswersAgree
<1>1. Init => \A q \in Runs : Agrees(q)
    BY DEF Init, Agrees, RequestOf
<1>2. ASSUME TypeOK, \A q \in Runs : Agrees(q), [Next]_vars
      PROVE  \A q \in Runs : Agrees(q)'
  <2> TAKE q \in Runs
  <2>1. ASSUME NEW r \in Runs, Plain(r) \/ FireChat(r) \/ Start(r) \/ Finish(r)
        PROVE  Agrees(q)'
    <3>1. CASE Ask(r)
      BY <1>2, <3>1, AskAgrees
    <3>2. CASE ~ Ask(r)
      <4>1. /\ requests' = requests /\ pending' = pending /\ crashes' = crashes
            /\ at[q] = "lost" => at'[q] = "lost"
            /\ status'[q] \in Answered => status'[q] = status[q]
        BY <1>2, <2>1, <3>2, RowsInHand
      <4>2. DOMAIN RequestOf = Answered
        BY DEF RequestOf, Answered
      <4> QED BY <1>2, <4>1, <4>2 DEF Agrees
    <3> QED BY <3>1, <3>2
  <2>2. CASE StopFinds \/ UNCHANGED vars
    BY <1>2, <2>2 DEF StopFinds, vars, ledger, answers, bounds, Agrees
  <2>3. CASE StopUpdates
    BY <1>2, <2>3 DEF StopUpdates, TypeOK, answers, bounds, Agrees, RequestOf
  <2>4. ASSUME NEW r \in Runs, NEW i \in 1..MaxAsks, NEW answer \in {"approved", "denied"},
               ResolveApproval(r, i, answer)
        PROVE  Agrees(q)'
    BY <1>2, <2>4, AnswerAgrees
  <2>5. CASE Crash
    BY <1>2, <2>5, CrashAgrees
  <2> QED BY <1>2, <2>1, <2>2, <2>3, <2>4, <2>5, Kinds
<1>3. (\A q \in Runs : Agrees(q)) <=> AnswersAgree
    BY DEF Agrees, AnswersAgree
<1>4. AnswersAgree /\ TypeOK /\ TypeOK' /\ [Next]_vars => AnswersAgree'
  <2> SUFFICES ASSUME AnswersAgree, TypeOK, [Next]_vars PROVE AnswersAgree'
    OBVIOUS
  <2>1. \A q \in Runs : Agrees(q)
    BY <1>3
  <2>2. \A q \in Runs : Agrees(q)'
    BY <1>2, <2>1
  <2> QED BY <2>2 DEF Agrees, AnswersAgree
<1> QED BY <1>1, <1>3, <1>4, TypeCorrect, PTL DEF Spec
-----------------------------------------------------------------------------
(***************************************************************************)
(* A stop against the updates of the run it stopped.                       *)
(***************************************************************************)
KeepsStop(r) ==
    /\ status[r] = "cancelled" /\ requests'[r] = << >> => status'[r] = "cancelled"
    /\ status'[r] = "cancelled" => status[r] \in Active \cup {"cancelled"}

LEMMA OwnStop ==
    ASSUME Ledger, NEW r \in Runs,
           Plain(r) \/ FireChat(r) \/ Start(r) \/ Finish(r)
    PROVE  KeepsStop(r)
<1> USE DEF Ledger, TypeOK, KeepsStop, Moves, UnlessCancelled, ledger, answers
<1>1. Told(r)
    OBVIOUS
<1>2. CASE FireManual(r) \/ EnterChat(r)
    BY <1>1, <1>2 DEF FireManual, EnterChat, Told
<1>3. CASE Ask(r)
  <2>1. requests'[r] # << >>
    BY <1>3, AskAppends
  <2>2. status'[r] = "paused_pending_approval"
    BY <1>3 DEF Ask, RecordsAsk
  <2> QED BY <2>1, <2>2
<1>4. CASE \/ ScreenOut(r) \/ PassScreen(r) \/ TakePermit(r) \/ CapReached(r) \/ NotReady(r)
           \/ BeginLoop(r)
    BY <1>4 DEF ScreenOut, PassScreen, TakePermit, CapReached, NotReady, BeginLoop
<1>5. CASE \/ SeesStop(r) \/ LoopEnds(r) \/ Report(r) \/ Escalate(r) \/ Pause(r)
           \/ PathPrompt(r) \/ AnswerPrompt(r) \/ ResolveEscalation(r)
    BY <1>5 DEF SeesStop, LoopEnds, Report, Escalate, Pause, PathPrompt, AnswerPrompt,
                ResolveEscalation
<1>6. CASE FireChat(r) \/ Start(r)
    BY <1>6 DEF FireChat, Start
<1>7. CASE Finish(r)
    BY <1>7 DEF Finish
<1> QED BY <1>2, <1>3, <1>4, <1>5, <1>6, <1>7 DEF Plain

\* An answer never says that the run was stopped.
LEMMA AnswerKeepsStop ==
    ASSUME Ledger, NEW r \in Runs, NEW i \in 1..MaxAsks,
           NEW answer \in {"approved", "denied"}, ResolveApproval(r, i, answer),
           NEW q \in Runs
    PROVE  KeepsStop(q)
<1>1. ActivityAfter(answer) \in {"resumable", "cancelled_user_denied"}
    BY DEF ActivityAfter
<1>2. status \in [Runs -> Statuses]
      /\ requests \in [Runs -> Seq({"pending", "approved", "denied"})]
    BY DEF Ledger, TypeOK
<1>3. CASE status'[q] = status[q]
    BY <1>3 DEF KeepsStop
<1>4. CASE status'[q] # status[q]
  <2>1. q = r /\ status'[q] = ActivityAfter(answer)
    BY <1>2, <1>4 DEF ResolveApproval, RecordsAnswer
  <2>2. requests'[r] = [requests[r] EXCEPT ![i] = answer] /\ i \in DOMAIN requests[r]
    BY <1>2 DEF ResolveApproval, RecordsAnswer
  <2>3. DOMAIN requests'[r] = DOMAIN requests[r] /\ DOMAIN << >> = {}
    BY <2>2
  <2>4. requests'[r] # << >>
    BY <2>2, <2>3
  <2> QED BY <1>1, <2>1, <2>4 DEF KeepsStop
<1> QED BY <1>3, <1>4

\* The row of a stopped run stays 'cancelled' until the run asks for an approval,
\* and a stop replaces no outcome.
THEOREM AStopHolds == Spec => StopHolds
<1>1. Ledger /\ [Next]_vars => \A q \in Runs : KeepsStop(q)
  <2> SUFFICES ASSUME Ledger, [Next]_vars, NEW q \in Runs PROVE KeepsStop(q)
    OBVIOUS
  <2>1. CASE \E r \in Runs : Plain(r) \/ FireChat(r) \/ Start(r) \/ Finish(r)
    <3>1. PICK r \in Runs : Plain(r) \/ FireChat(r) \/ Start(r) \/ Finish(r)
      BY <2>1
    <3>2. CASE q = r
      BY <3>1, <3>2, OwnStop
    <3>3. CASE q # r
      BY <3>1, <3>3, OtherRows DEF KeepsStop
    <3> QED BY <3>2, <3>3
  <2>2. CASE StopFinds \/ Crash \/ UNCHANGED vars
    BY <2>2 DEF StopFinds, Crash, vars, ledger, KeepsStop
  <2>3. CASE StopUpdates
    BY <2>3 DEF StopUpdates, KeepsStop, Active, Ledger, TypeOK
  <2>4. CASE \E r \in Runs, i \in 1..MaxAsks, answer \in {"approved", "denied"} :
                 ResolveApproval(r, i, answer)
    BY <2>4, AnswerKeepsStop
  <2> QED BY <2>1, <2>2, <2>3, <2>4, Kinds
<1>2. Ledger /\ [Next]_vars =>
        [\A r \in Runs :
          /\ status[r] = "cancelled" /\ requests'[r] = << >> => status'[r] = "cancelled"
          /\ status'[r] = "cancelled" => status[r] \in Active \cup {"cancelled"}]_vars
    BY <1>1 DEF KeepsStop
<1> QED BY <1>2, LedgerInvariant, PTL DEF Spec, StopHolds

-----------------------------------------------------------------------------
(***************************************************************************)
(* The sessions.  Who uses a session, which thread points to it and whose  *)
(* transcript it has.                                                      *)
(***************************************************************************)
\* A run's row points to its own session or to none.
Linked == \A r \in Runs : link[r] \in {NoSession, my[r]}

\* Only runs of a thread share a session, and a thread's session is theirs.
Shared ==
    /\ \A q, r \in Runs : my[q] = my[r] /\ my[r] # NoSession /\ q # r => ChatOf[r] # None
    /\ \A c \in Chats, r \in Runs :
           my[r] = chatRow[c] /\ my[r] # NoSession => ChatOf[r] # None

\* A run whose session is alive uses the one its thread points to.
Threaded ==
    \A r \in Runs : ChatOf[r] # None /\ my[r] \in alive => chatRow[ChatOf[r]] = my[r]

\* The session's mutex: its holders are of different sessions.
Exclusive ==
    \A q, r \in Runs :
        /\ q # r /\ ChatOf[q] # None /\ ChatOf[r] # None
        /\ at[q] \in Inside /\ at[r] \in Inside
        => my[q] # my[r]

Written == \A s \in Sessions : transcript[s] # None => my[transcript[s]] = s

\* With LinksAreLive and TranscriptKept as they are stated.
Uses == Linked /\ Shared /\ Threaded /\ Exclusive /\ Written /\ LinksAreLive /\ TranscriptKept

LEMMA InitUses == Init => Uses
BY AutomationAssumption DEF Init, Uses, Linked, Shared, Threaded, Exclusive, Written, LinksAreLive,
       TranscriptKept, Inside, NoSession
\* The steps that leave the sessions, and what runs and threads point to, alone.
LEMMA KeepsUses ==
    ASSUME Uses, UNCHANGED <<my, link, alive, chatRow, transcript>>,
           \A q \in Runs : ChatOf[q] # None /\ at'[q] \in Inside => at[q] \in Inside,
           \A q \in Runs : at'[q] = "over" /\ gate'[q] # "none"
                               => at[q] = "over" /\ gate[q] # "none"
    PROVE  Uses'
<1>1. Linked' /\ Shared' /\ Threaded' /\ Written' /\ LinksAreLive'
    BY DEF Uses, Linked, Shared, Threaded, Written, LinksAreLive
<1>2. Exclusive'
    BY DEF Uses, Exclusive
<1>3. TranscriptKept'
    BY DEF Uses, TranscriptKept
<1> QED BY <1>1, <1>2, <1>3 DEF Uses

LEMMA PlainUses ==
    ASSUME Ledger, Uses, NEW r \in Runs, Plain(r)
    PROVE  Uses'
<1>1. UNCHANGED <<my, link, alive, chatRow, transcript>>
    BY DEF Plain, FireManual, EnterChat, ScreenOut, PassScreen, TakePermit, CapReached,
           NotReady, BeginLoop, SeesStop, LoopEnds, Report, Escalate, Ask, RecordsAsk, Pause,
           PathPrompt, AnswerPrompt, ResolveEscalation, sessions, ledger
<1>2. ASSUME NEW q \in Runs, at'[q] = "over", gate'[q] # "none"
      PROVE  at[q] = "over" /\ gate[q] # "none"
  <2>1. CASE q # r
      BY <1>2, <2>1, OtherRows
  <2>2. CASE q = r
    <3>1. Told(r)
        BY DEF Ledger
    <3> QED
      BY <1>2, <2>2, <3>1
         DEF Plain, FireManual, EnterChat, ScreenOut, PassScreen, TakePermit, CapReached,
             NotReady, BeginLoop, SeesStop, LoopEnds, Report, Escalate, Ask, RecordsAsk, Pause,
             PathPrompt, AnswerPrompt, ResolveEscalation, Moves, Told, Calm, Ledger, TypeOK
  <2> QED BY <2>1, <2>2
<1>3. CASE EnterChat(r)
  <2>1. at' = [at EXCEPT ![r] = "screening"] /\ at[r] = "wait_chat" /\ ChatIsFree(r)
      BY <1>3 DEF EnterChat, Moves
  <2>2. Exclusive'
    <3> SUFFICES ASSUME NEW p \in Runs, NEW q \in Runs, p # q, ChatOf[p] # None,
                        ChatOf[q] # None, at'[p] \in Inside, at'[q] \in Inside
                 PROVE  my[p] # my[q]
        BY <1>1 DEF Exclusive
    <3>1. CASE p # r /\ q # r
        BY <2>1, <3>1 DEF Uses, Exclusive, Ledger, TypeOK
    <3>2. CASE p = r
        BY <2>1, <3>2 DEF ChatIsFree, Ledger, TypeOK
    <3>3. CASE q = r
        BY <2>1, <3>3 DEF ChatIsFree, Ledger, TypeOK
    <3> QED BY <3>1, <3>2, <3>3
  <2>3. Linked' /\ Shared' /\ Threaded' /\ Written' /\ LinksAreLive'
      BY <1>1 DEF Uses, Linked, Shared, Threaded, Written, LinksAreLive
  <2>4. TranscriptKept'
      BY <1>1, <1>2 DEF Uses, TranscriptKept
  <2> QED BY <2>2, <2>3, <2>4 DEF Uses
<1>4. CASE ~EnterChat(r)
  <2>1. ASSUME NEW q \in Runs, ChatOf[q] # None, at'[q] \in Inside
        PROVE  at[q] \in Inside
    <3>1. CASE q # r
        BY <2>1, <3>1, OtherRows
    <3>2. CASE q = r
        BY <1>4, <2>1, <3>2
           DEF Plain, FireManual, ScreenOut, PassScreen, TakePermit, CapReached,
               NotReady, BeginLoop, SeesStop, LoopEnds, Report, Escalate, Ask, RecordsAsk, Pause,
               PathPrompt, AnswerPrompt, ResolveEscalation, Moves, Inside, Ledger, TypeOK
    <3> QED BY <3>1, <3>2
  <2> QED BY <1>1, <1>2, <2>1, KeepsUses
<1> QED BY <1>3, <1>4

LEMMA OthersUses ==
    ASSUME Ledger, Uses,
           \/ StopFinds \/ StopUpdates \/ Crash \/ UNCHANGED vars
           \/ \E r \in Runs, i \in 1..MaxAsks, answer \in {"approved", "denied"} :
                  ResolveApproval(r, i, answer)
    PROVE  Uses'
<1>1. UNCHANGED <<my, link, alive, chatRow, transcript, gate>>
    BY DEF StopFinds, StopUpdates, Crash, ResolveApproval, RecordsAnswer, vars, sessions, ledger
<1>2. \A q \in Runs : \/ at'[q] = at[q]
                      \/ at'[q] = "lost"
    BY DEF StopFinds, StopUpdates, Crash, ResolveApproval, RecordsAnswer, vars
<1> QED BY <1>1, <1>2, KeepsUses DEF Inside

\* A run of a thread without a session gets a new one; another takes over the
\* thread's.
LEMMA FireChatUses ==
    ASSUME Basic, Ledger, Uses, NEW r \in Runs, FireChat(r)
    PROVE  Uses'
<1> DEFINE c == ChatOf[r]
<1>1. /\ at[r] = "unfired" /\ at' = [at EXCEPT ![r] = "wait_chat"]
      /\ c # None /\ c \in Chats /\ my[r] = NoSession /\ link[r] = NoSession
      /\ UNCHANGED <<link, transcript, gate>>
    BY AutomationAssumption
       DEF FireChat, Moves, Basic, Fresh, Early, Uses, Linked, ledger, sessions
<1>2. \A q \in Runs : q # r => my'[q] = my[q]
    BY DEF FireChat, Basic, TypeOK
<1>3. /\ \A s \in alive : s <= made
      /\ \A q \in Runs : my[q] <= made
      /\ \A d \in Chats : chatRow[d] <= made
      /\ made \in Nat /\ alive \subseteq Nat /\ NoSession \in Nat
      /\ \A q \in Runs : my[q] \in Nat
      /\ \A d \in Chats : chatRow[d] \in Nat
      /\ NoSession \notin alive
    BY RunsFinite DEF Basic, Numbered, TypeOK, Sessions, NoSession
<1>4. Exclusive'
    BY <1>1, <1>2 DEF Uses, Exclusive, Inside, Basic, TypeOK
<1>5. Linked'
    BY <1>1, <1>2 DEF Uses, Linked
<1>6. Written'
  <2>1. \A s \in Sessions : transcript[s] # None => transcript[s] \in Runs
      BY DEF Basic, TypeOK
  <2>2. \A s \in Sessions : transcript[s] # None => transcript[s] # r
      BY <1>1 DEF Uses, Written, Sessions, NoSession
  <2> QED BY <1>1, <1>2, <2>1, <2>2 DEF Uses, Written
<1>7. CASE chatRow[c] # NoSession
  <2>1. my'[r] = chatRow[c] /\ UNCHANGED <<alive, chatRow>>
      BY <1>7 DEF FireChat, sessions, Basic, TypeOK
  <2>2. Shared'
      BY <1>1, <1>2, <1>7, <2>1 DEF Uses, Shared
  <2>3. Threaded'
      BY <1>1, <1>2, <2>1 DEF Uses, Threaded
  <2>4. LinksAreLive'
      BY <1>1, <2>1 DEF Uses, LinksAreLive
  <2>5. TranscriptKept'
      BY <1>1, <2>1 DEF Uses, TranscriptKept, Basic, TypeOK
  <2> QED BY <1>4, <1>5, <1>6, <2>2, <2>3, <2>4, <2>5 DEF Uses
<1>8. CASE chatRow[c] = NoSession
  <2>1. /\ my'[r] = made + 1 /\ alive' = alive \cup {made + 1}
        /\ \A d \in Chats : chatRow'[d] = IF d = c THEN made + 1 ELSE chatRow[d]
      BY <1>8 DEF FireChat, Basic, TypeOK
  <2>2. \A q \in Runs : q # r => my[q] # made + 1
      BY <1>3
  <2>3. \A d \in Chats : d # c => chatRow[d] # made + 1
      BY <1>3
  <2>4. Shared'
      BY <1>1, <1>2, <2>1, <2>2, <2>3 DEF Uses, Shared
  <2>5. Threaded'
    <3> SUFFICES ASSUME NEW q \in Runs, ChatOf[q] # None, my'[q] \in alive'
                 PROVE  chatRow'[ChatOf[q]] = my'[q]
        BY DEF Threaded
    <3>1. CASE q = r
        BY <1>1, <2>1, <3>1
    <3>2. CASE q # r
      <4>1. ChatOf[q] \in Chats /\ my[q] \in alive
          BY <1>2, <2>1, <2>2, <3>2, AutomationAssumption
      <4>2. chatRow[ChatOf[q]] = my[q]
          BY <4>1 DEF Uses, Threaded
      <4> QED BY <1>2, <1>3, <1>8, <2>1, <3>2, <4>1, <4>2
    <3> QED BY <3>1, <3>2
  <2>6. LinksAreLive'
      BY <1>1, <2>1 DEF Uses, LinksAreLive
  <2>7. TranscriptKept'
    <3>1. \A q \in Runs : at'[q] = "over" => at[q] = "over"
        BY <1>1 DEF Basic, TypeOK
    <3>2. \A q \in Runs : link[q] # made + 1
      <4>1. \A q \in Runs : my[q] # made + 1 /\ NoSession # made + 1
          BY <1>3 DEF NoSession
      <4> QED BY <4>1 DEF Uses, Linked
    <3> QED BY <1>1, <2>1, <3>1, <3>2 DEF Uses, TranscriptKept
  <2> QED BY <1>4, <1>5, <1>6, <2>4, <2>5, <2>6, <2>7 DEF Uses
<1> QED BY <1>7, <1>8
\* A manual run's session is new, and nobody else's.
LEMMA StartUses ==
    ASSUME Basic, Ledger, Uses, NEW r \in Runs, Start(r)
    PROVE  Uses'
<1>1. /\ at[r] = "starting" /\ at'[r] \in {"started", "over"}
      /\ \A q \in Runs : q # r => at'[q] = at[q] /\ my'[q] = my[q] /\ link'[q] = link[q]
      /\ UNCHANGED <<gate, transcript, chatRow>>
      /\ link'[r] \in {link[r], my'[r]}
    BY DEF Start, Moves, Basic, TypeOK
<1>2. gate[r] = "none"
    BY <1>1 DEF Ledger, Told, Calm
<1>3. /\ \A q \in Runs : at'[q] = "over" /\ gate'[q] # "none" => at[q] = "over" /\ q # r
      /\ \A q \in Runs : at'[q] \in Inside => at[q] \in Inside
    BY <1>1, <1>2 DEF Inside
<1>4. CASE ChatOf[r] # None
  <2>1. UNCHANGED <<alive, chatRow, transcript>> /\ my'[r] = my[r]
      BY <1>4 DEF Start, Basic, TypeOK
  <2>2. \A q \in Runs : my'[q] = my[q]
      BY <1>1, <2>1
  <2>3. Linked'
      BY <1>1, <2>1, <2>2 DEF Uses, Linked
  <2>4. Shared' /\ Threaded'
      BY <2>1, <2>2 DEF Uses, Shared, Threaded
  <2>5. Exclusive'
      BY <1>3, <2>2 DEF Uses, Exclusive
  <2>6. Written'
      BY <2>1, <2>2 DEF Uses, Written, Basic, TypeOK
  <2>7. LinksAreLive'
      BY <1>1, <1>4, <2>1 DEF Uses, LinksAreLive
  <2>8. TranscriptKept'
      BY <1>1, <1>3, <2>1 DEF Uses, TranscriptKept
  <2> QED BY <2>3, <2>4, <2>5, <2>6, <2>7, <2>8 DEF Uses
<1>5. CASE ChatOf[r] = None
  <2>1. my[r] = NoSession /\ link[r] = NoSession
      BY <1>1, <1>5 DEF Basic, Fresh, Early, Uses, Linked
  <2>2. my'[r] = made + 1 /\ alive' = alive \cup {made + 1}
      BY <1>5 DEF Start, Basic, TypeOK
  <2>3. /\ made \in Nat /\ NoSession # made + 1
        /\ \A q \in Runs : my[q] # made + 1
        /\ \A d \in Chats : chatRow[d] # made + 1
      BY RunsFinite DEF Basic, Numbered, TypeOK, Sessions, NoSession
  <2>4. Linked'
      BY <1>1, <2>1 DEF Uses, Linked
  <2>5. Shared'
      BY <1>1, <2>2, <2>3 DEF Uses, Shared
  <2>6. Threaded'
      BY <1>1, <1>5, <2>2, <2>3 DEF Uses, Threaded
  <2>7. Exclusive'
      BY <1>1, <1>3, <1>5 DEF Uses, Exclusive
  <2>8. Written'
    <3>1. \A s \in Sessions : transcript[s] # None => transcript[s] # r
        BY <2>1 DEF Uses, Written, Sessions, NoSession
    <3> QED BY <1>1, <3>1 DEF Uses, Written, Basic, TypeOK
  <2>9. LinksAreLive'
      BY <1>1, <2>1, <2>2 DEF Uses, LinksAreLive
  <2>10. TranscriptKept'
    <3>1. \A q \in Runs : q # r => link[q] # made + 1
        BY <2>3 DEF Uses, Linked
    <3> QED BY <1>1, <1>3, <2>2, <3>1 DEF Uses, TranscriptKept
  <2> QED BY <2>4, <2>5, <2>6, <2>7, <2>8, <2>9, <2>10 DEF Uses
<1> QED BY <1>4, <1>5

\* The end of a run writes a transcript and may delete sessions: what it deletes
\* is deleted everywhere.
LEMMA FinishUses ==
    ASSUME Basic, Ledger, Uses, NEW r \in Runs, Finish(r)
    PROVE  Uses'
<1> DEFINE gone == Pruned
<1>1. /\ at[r] = "ending" /\ at' = [at EXCEPT ![r] = "over"]
      /\ UNCHANGED <<gate, my>>
      /\ alive' = alive \ gone
      /\ chatRow' = [c \in Chats |-> IF chatRow[c] \in gone THEN NoSession ELSE chatRow[c]]
      /\ link' = [q \in Runs |-> IF link[q] \in gone THEN NoSession ELSE link[q]]
      /\ transcript' = [s \in Sessions |-> IF s \in gone THEN None ELSE Persisted(r)[s]]
    BY DEF Finish, Prune, Moves
<1> HIDE DEF gone
<1>2. NoSession \notin alive /\ alive \subseteq Sessions
    BY RunsFinite DEF Basic, TypeOK, Sessions, NoSession
<1>3. \A s \in Sessions :
          Persisted(r)[s] = IF s = my[r] /\ s \in alive /\ transcript[s] = None
                            THEN r ELSE transcript[s]
    BY <1>2 DEF Persisted, Basic, TypeOK
<1>4. \A q \in Runs : /\ at'[q] \in Inside => at[q] \in Inside
                      /\ at'[q] = "over" => at[q] = "over" \/ q = r
    BY <1>1 DEF Inside, Basic, TypeOK
<1>5. Linked'
    BY <1>1 DEF Uses, Linked
<1>6. Shared'
  <2>1. \A c \in Chats : chatRow'[c] \in {chatRow[c], NoSession}
      BY <1>1
  <2> QED BY <1>1, <2>1 DEF Uses, Shared
<1>7. Threaded'
  <2> SUFFICES ASSUME NEW q \in Runs, ChatOf[q] # None, my[q] \in alive, my[q] \notin gone
               PROVE  chatRow'[ChatOf[q]] = my[q]
      BY <1>1 DEF Threaded
  <2>1. ChatOf[q] \in Chats /\ chatRow[ChatOf[q]] = my[q]
      BY AutomationAssumption DEF Uses, Threaded
  <2> QED BY <1>1, <2>1
<1>8. Exclusive'
    BY <1>1, <1>4 DEF Uses, Exclusive
<1>9. Written'
  <2> SUFFICES ASSUME NEW s \in Sessions, transcript'[s] # None
               PROVE  my[transcript'[s]] = s
      BY <1>1 DEF Written
  <2>1. s \notin gone /\ transcript'[s] = Persisted(r)[s]
      BY <1>1
  <2> QED BY <1>3, <2>1 DEF Uses, Written
<1>10. LinksAreLive'
  <2>1. ASSUME NEW c \in Chats, chatRow'[c] # NoSession PROVE chatRow'[c] \in alive'
      BY <1>1, <2>1 DEF Uses, LinksAreLive
  <2>2. ASSUME NEW q \in Runs, ChatOf[q] = None, link'[q] # NoSession
        PROVE  link'[q] \in alive'
      BY <1>1, <2>2 DEF Uses, LinksAreLive
  <2>3. ASSUME NEW s \in Sessions, transcript'[s] # None PROVE s \in alive'
    <3>1. s \notin gone /\ transcript'[s] = Persisted(r)[s]
        BY <1>1, <2>3
    <3>2. s \in alive
        BY <1>3, <2>3, <3>1 DEF Uses, LinksAreLive
    <3> QED BY <1>1, <3>1, <3>2
  <2> QED BY <2>1, <2>2, <2>3 DEF LinksAreLive
<1>11. TranscriptKept'
  <2> SUFFICES ASSUME NEW q \in Runs, at'[q] = "over", gate[q] # "none",
                      link'[q] \in alive'
               PROVE  /\ transcript'[link'[q]] # None
                      /\ ChatOf[q] = None => transcript'[link'[q]] = q
      BY <1>1 DEF TranscriptKept
  <2> DEFINE s == link[q]
  <2>1. link'[q] = s /\ s \in alive /\ s \notin gone /\ s \in Sessions /\ s = my[q]
      BY <1>1, <1>2 DEF Uses, Linked
  <2>2. transcript'[s] = Persisted(r)[s]
      BY <1>1, <2>1
  <2>3. r # None /\ q # None
      BY AutomationAssumption
  <2>4. CASE q # r
    <3>1. transcript[s] # None /\ (ChatOf[q] = None => transcript[s] = q)
        BY <1>4, <2>1, <2>4 DEF Uses, TranscriptKept
    <3> QED BY <1>3, <2>1, <2>2, <3>1
  <2>5. CASE q = r /\ transcript[s] = None
      BY <1>3, <2>1, <2>2, <2>3, <2>5
  <2>6. CASE q = r /\ transcript[s] # None
    <3>1. transcript[s] \in Runs /\ my[transcript[s]] = s
        BY <2>1, <2>6 DEF Basic, TypeOK, Uses, Written
    <3>2. s # NoSession
        BY <1>2, <2>1
    <3>3. transcript[s] # q => ChatOf[q] # None
        BY <2>1, <3>1, <3>2 DEF Uses, Shared
    <3> QED BY <1>3, <2>1, <2>2, <2>6, <3>3
  <2> QED BY <2>1, <2>4, <2>5, <2>6
<1> QED BY <1>5, <1>6, <1>7, <1>8, <1>9, <1>10, <1>11 DEF Uses

LEMMA UsesInvariant == Spec => []Uses
<1>1. Basic /\ Ledger /\ Uses /\ [Next]_vars => Uses'
    BY Kinds, PlainUses, OthersUses, FireChatUses, StartUses, FinishUses
<1> QED BY <1>1, InitUses, LedgerInvariant, PTL DEF Spec

\* A prune leaves no thread, no manual run and no transcript without its session.
THEOREM AllLinksAreLive == Spec => []LinksAreLive
<1>1. Uses => LinksAreLive
    BY DEF Uses
<1> QED BY <1>1, UsesInvariant, PTL

\* Two runs of a thread whose sessions are both there are never under way together.
THEOREM RunsOfAThreadSerialize == Spec => []ThreadsSerialize
<1>1. Uses => ThreadsSerialize
    BY DEF Uses, Threaded, Exclusive, ThreadsSerialize
<1> QED BY <1>1, UsesInvariant, PTL

\* What a run that reported or escalated wrote stays as long as its session.
THEOREM TheTranscriptIsKept == Spec => []TranscriptKept
<1>1. Uses => TranscriptKept
    BY DEF Uses
<1> QED BY <1>1, UsesInvariant, PTL
=============================================================================
