---------------------------- MODULE AutomationRun ----------------------------
(***************************************************************************)
(* The runs of one automation spec (src-tauri/src/automation/runtime): the *)
(* pipeline of AppRuntimeService::execute_run, the agentic loop driven by  *)
(* HeadlessDelegate, and the rows they share with the user's commands: the *)
(* activity ledger, the run-sessions with their transcripts, the approval  *)
(* requests and the escalations.                                           *)
(*                                                                         *)
(* A run waits for its chat session's mutex, then for one of the spec's    *)
(* permits.  Each step that locks the database is one action; stop, the    *)
(* user's answers and the other runs come in between.  A crash loses the   *)
(* runs, the mutexes and the permits; start() repairs no row.              *)
(***************************************************************************)
EXTENDS Naturals, Sequences, FiniteSets

CONSTANTS Runs,         \* the fires of the spec
          Chats,        \* identities with a chat thread
          ChatOf,       \* a run's thread, None: a manual run
          Wired,        \* runs whose delegate has a ToolDispatcher
          Permits,      \* PER_SPEC_CONCURRENCY
          Keep,         \* retention_runs_per_spec
          MaxAsks,      \* bound: approvals asked for by one run
          MaxPrompts,   \* bound: path prompts, all runs
          MaxStops,     \* bound: stops
          MaxCrashes,   \* bound: crashes
          None

ASSUME AutomationAssumption ==
    /\ IsFiniteSet(Runs)
    /\ ChatOf \in [Runs -> Chats \cup {None}] /\ None \notin Chats \cup Runs
    /\ Wired \subseteq Runs
    /\ Permits \in Nat \ {0} /\ Keep \in Nat
    /\ MaxAsks \in Nat /\ MaxPrompts \in Nat /\ MaxStops \in Nat /\ MaxCrashes \in Nat

\* Sessions are numbered in the order of created_at; a run makes one at most.
Sessions == 1..Cardinality(Runs)
NoSession == 0

VARIABLES
    at,             \* per run: where execute_run is
    status,         \* automation_activities: status, "none": no row
    link,           \* automation_activities: session_id
    pending,        \* automation_activities: pending_approval_request_id
    requests,       \* automation_approval_requests of a run: their status
    escalation,     \* automation_escalations: the status of a run's row
    gate,           \* per run: how the delegate's gate was set
    my,             \* per run: the session it uses
    made,           \* how many sessions were created
    alive,          \* agent_sessions
    transcript,     \* agent_messages: the run a session's rows are of
    chatRow,        \* automation_chat_sessions: a thread's session
    stopping,       \* what a stop found active and has yet to update
    prompts, stops, crashes

ledger   == <<status, link, pending>>
answers  == <<requests, escalation>>
sessions == <<made, alive, transcript, chatRow>>
bounds   == <<prompts, stops, crashes>>
vars     == <<at, ledger, answers, gate, my, sessions, stopping, bounds>>

Statuses == {"none", "queued", "running", "filtered_out", "completed", "failed",
             "waiting_user", "cancelled", "paused_pending_approval", "resumable",
             "cancelled_user_denied"}

Places == {"unfired", "wait_chat", "screening", "wait_permit", "starting",
           "started", "looping", "asked", "prompted", "ending", "over", "lost"}

\* The run holds its chat session's mutex, if it has one; the spec's permit.
Inside  == {"screening", "wait_permit", "starting", "started",
            "looping", "asked", "prompted", "ending"}
Permitted == Inside \ {"screening", "wait_permit"}

Active == {"queued", "running"}

TypeOK ==
    /\ at         \in [Runs -> Places]
    /\ status     \in [Runs -> Statuses]
    /\ link       \in [Runs -> Sessions \cup {NoSession}]
    /\ pending    \in [Runs -> Nat]
    /\ requests   \in [Runs -> Seq({"pending", "approved", "denied"})]
    /\ escalation \in [Runs -> {"none", "waiting", "resolved"}]
    /\ gate       \in [Runs -> {"none", "reported", "escalated"}]
    /\ my         \in [Runs -> Sessions \cup {NoSession}]
    /\ made       \in Sessions \cup {0}
    /\ alive      \subseteq Sessions
    /\ transcript \in [Sessions -> Runs \cup {None}]
    /\ chatRow    \in [Chats -> Sessions \cup {NoSession}]
    /\ stopping   \subseteq Runs
    /\ prompts \in Nat /\ stops \in Nat /\ crashes \in Nat

Init ==
    /\ at         = [r \in Runs |-> "unfired"]
    /\ status     = [r \in Runs |-> "none"]
    /\ link       = [r \in Runs |-> NoSession]
    /\ pending    = [r \in Runs |-> 0]
    /\ requests   = [r \in Runs |-> << >>]
    /\ escalation = [r \in Runs |-> "none"]
    /\ gate       = [r \in Runs |-> "none"]
    /\ my         = [r \in Runs |-> NoSession]
    /\ made       = 0
    /\ alive      = {}
    /\ transcript = [s \in Sessions |-> None]
    /\ chatRow    = [c \in Chats |-> NoSession]
    /\ stopping   = {}
    /\ prompts = 0 /\ stops = 0 /\ crashes = 0

Moves(r, from, to) == at[r] = from /\ at' = [at EXCEPT ![r] = to]

\* Mutant: a late update does not spare a row the user stopped.
UnlessCancelled_Always(r, new) == status' = [status EXCEPT ![r] = new]

\* UPDATE ... WHERE status != 'cancelled'
UnlessCancelled(r, new) ==
    status' = [status EXCEPT ![r] = IF @ = "cancelled" THEN @ ELSE new]

-----------------------------------------------------------------------------
(***************************************************************************)
(* Firing: execute_run for a manual run, execute_run_in_chat_session for   *)
(* the triggers and the IM channels.                                       *)
(***************************************************************************)
FireManual(r) ==
    /\ ChatOf[r] = None
    /\ Moves(r, "unfired", "screening")
    /\ status' = [status EXCEPT ![r] = "queued"]
    /\ UNCHANGED <<link, pending, answers, gate, my, sessions, stopping, bounds>>

\* get_or_create_chat_session: a thread without a session gets a new one.
FireChat(r) ==
    LET c == ChatOf[r] IN
    /\ c # None
    /\ Moves(r, "unfired", "wait_chat")
    /\ IF chatRow[c] # NoSession
       THEN /\ my' = [my EXCEPT ![r] = chatRow[c]]
            /\ UNCHANGED sessions
       ELSE /\ made' = made + 1
            /\ alive' = alive \cup {made + 1}
            /\ chatRow' = [chatRow EXCEPT ![c] = made + 1]
            /\ my' = [my EXCEPT ![r] = made + 1]
            /\ UNCHANGED transcript
    /\ UNCHANGED <<ledger, answers, gate, stopping, bounds>>

\* Mutant: the runs of a thread do not wait for one another.
ChatIsFree_Always(r) == TRUE

\* Mutant: the guard outlives the run that took it.
ChatIsFree_Kept(r) ==
    \A q \in Runs :
        ChatOf[q] # None /\ at[q] \in Inside \cup {"over"} => my[q] # my[r]

\* The mutex of get_or_create_chat_lock, which is one per session id.
ChatIsFree(r) ==
    \A q \in Runs : ChatOf[q] # None /\ at[q] \in Inside => my[q] # my[r]

EnterChat(r) ==
    /\ ChatIsFree(r)
    /\ Moves(r, "wait_chat", "screening")
    /\ status' = [status EXCEPT ![r] = "queued"]
    /\ UNCHANGED <<link, pending, answers, gate, my, sessions, stopping, bounds>>

-----------------------------------------------------------------------------
(***************************************************************************)
(* execute_run up to the agentic loop.                                     *)
(***************************************************************************)
ScreenOut(r) ==
    /\ Moves(r, "screening", "over")
    /\ \E new \in {"failed", "filtered_out"} : UnlessCancelled(r, new)
    /\ UNCHANGED <<link, pending, answers, gate, my, sessions, stopping, bounds>>

PassScreen(r) ==
    /\ Moves(r, "screening", "wait_permit")
    /\ UNCHANGED <<ledger, answers, gate, my, sessions, stopping, bounds>>

\* A run that was stopped while it waited gives the permit back at once.
TakePermit(r) ==
    /\ Cardinality({q \in Runs : at[q] \in Permitted}) < Permits
    /\ Moves(r, "wait_permit", IF status[r] = "cancelled" THEN "over" ELSE "starting")
    /\ UNCHANGED <<ledger, answers, gate, my, sessions, stopping, bounds>>

\* The cost cap of the day is reached.
CapReached(r) ==
    /\ Moves(r, "starting", "over")
    /\ UnlessCancelled(r, "failed")
    /\ UNCHANGED <<link, pending, answers, gate, my, sessions, stopping, bounds>>

\* Step 7, under one lock: a manual run gets its session even if the update
\* that follows finds it stopped.
Start(r) ==
    LET s == IF ChatOf[r] = None THEN made + 1 ELSE my[r]
        runs == status[r] = "queued" IN
    /\ Moves(r, "starting", IF runs THEN "started" ELSE "over")
    /\ made' = IF ChatOf[r] = None THEN made + 1 ELSE made
    /\ alive' = IF ChatOf[r] = None THEN alive \cup {s} ELSE alive
    /\ my' = [my EXCEPT ![r] = s]
    /\ link' = [link EXCEPT ![r] = IF runs THEN s ELSE @]
    /\ status' = [status EXCEPT ![r] = IF runs THEN "running" ELSE @]
    /\ UNCHANGED <<pending, answers, gate, transcript, chatRow, stopping, bounds>>

\* Mutant: the early return forgets the ledger.
NotReady_Silent(r) ==
    /\ Moves(r, "started", "over")
    /\ UNCHANGED <<ledger, answers, gate, my, sessions, stopping, bounds>>

\* No provider, or permissions that cannot be read.
NotReady(r) ==
    /\ Moves(r, "started", "over")
    /\ UnlessCancelled(r, "failed")
    /\ UNCHANGED <<link, pending, answers, gate, my, sessions, stopping, bounds>>

BeginLoop(r) ==
    /\ Moves(r, "started", "looping")
    /\ UNCHANGED <<ledger, answers, gate, my, sessions, stopping, bounds>>

-----------------------------------------------------------------------------
(***************************************************************************)
(* The loop: check_signals, the model's answer, execute_tool_calls.        *)
(***************************************************************************)
SeesStop(r) ==
    /\ status[r] = "cancelled"
    /\ Moves(r, "looping", "ending")
    /\ UNCHANGED <<ledger, answers, gate, my, sessions, stopping, bounds>>

\* The run's cost cap, an error of the provider or of a tool call's arguments,
\* the last iteration, a text answer to an IM user.
LoopEnds(r) ==
    /\ Moves(r, "looping", "ending")
    /\ UNCHANGED <<ledger, answers, gate, my, sessions, stopping, bounds>>

\* report_to_user and request_escalation exist on the bespoke path only; the
\* dispatcher's registry has them as tools that return an error.
Report(r) ==
    /\ r \notin Wired
    /\ Moves(r, "looping", "ending")
    /\ UnlessCancelled(r, "completed")
    /\ gate' = [gate EXCEPT ![r] = "reported"]
    /\ UNCHANGED <<link, pending, answers, my, sessions, stopping, bounds>>

Escalate(r) ==
    /\ r \notin Wired
    /\ Moves(r, "looping", "ending")
    /\ escalation' = [escalation EXCEPT ![r] = "waiting"]
    /\ gate' = [gate EXCEPT ![r] = "escalated"]
    /\ UNCHANGED <<ledger, requests, my, sessions, stopping, bounds>>

\* The first of handle_ask's two statements.
RecordsAsk(r) ==
    /\ r \in Wired /\ at[r] \in {"looping", "asked"}
    /\ Len(requests[r]) < MaxAsks
    /\ requests' = [requests EXCEPT ![r] = Append(@, "pending")]

\* handle_ask, once for each tool of the batch that the permissions leave open.
Ask(r) ==
    /\ RecordsAsk(r)
    /\ at' = [at EXCEPT ![r] = "asked"]
    /\ pending' = [pending EXCEPT ![r] = Len(requests[r]) + 1]
    /\ status' = [status EXCEPT ![r] = "paused_pending_approval"]
    /\ UNCHANGED <<link, escalation, gate, my, sessions, stopping, bounds>>

\* The batch is done: NeedApproval ends the loop.
Pause(r) ==
    /\ Moves(r, "asked", "ending")
    /\ UNCHANGED <<ledger, answers, gate, my, sessions, stopping, bounds>>

\* gate_paths waits for the user without a timeout; a stop does not reach it.
PathPrompt(r) ==
    /\ r \in Wired /\ at[r] \in {"looping", "asked"}
    /\ prompts < MaxPrompts
    /\ at' = [at EXCEPT ![r] = "prompted"]
    /\ prompts' = prompts + 1
    /\ UNCHANGED <<ledger, answers, gate, my, sessions, stopping, stops, crashes>>

AnswerPrompt(r) ==
    /\ Moves(r, "prompted", IF requests[r] = << >> THEN "looping" ELSE "asked")
    /\ UNCHANGED <<ledger, answers, gate, my, sessions, stopping, bounds>>

-----------------------------------------------------------------------------
(***************************************************************************)
(* Steps 11 and 12, under one lock: the transcript, the activity's         *)
(* outcome, and the pruning of old run-sessions.                           *)
(***************************************************************************)
\* Mutant: only a report is worth a transcript.
Persisted_Reported(r) ==
    IF my[r] \in alive /\ transcript[my[r]] = None /\ gate[r] = "reported"
    THEN [transcript EXCEPT ![my[r]] = r] ELSE transcript

\* persist_transcript numbers its rows from 0: the first one collides when the
\* session has rows already, and has no session to refer to when it was pruned.
Persisted(r) ==
    IF my[r] \in alive /\ transcript[my[r]] = None
    THEN [transcript EXCEPT ![my[r]] = r] ELSE transcript

\* prune_old_run_sessions: one row per activity that is linked to a session,
\* newest session first; every session with a row past the first Keep goes.
Pruned ==
    {s \in alive : /\ \E q \in Runs : link[q] = s
                   /\ Cardinality({q \in Runs : link[q] \in alive /\ link[q] >= s}) > Keep}

\* Mutant: the activities keep their links to what is deleted.
Prune_KeepsLinks(gone) ==
    /\ alive' = alive \ gone
    /\ chatRow' = [c \in Chats |-> IF chatRow[c] \in gone THEN NoSession ELSE chatRow[c]]
    /\ UNCHANGED link

\* The thread's row goes with its session (ON DELETE CASCADE).
Prune(gone) ==
    /\ alive' = alive \ gone
    /\ chatRow' = [c \in Chats |-> IF chatRow[c] \in gone THEN NoSession ELSE chatRow[c]]
    /\ link' = [q \in Runs |-> IF link[q] \in gone THEN NoSession ELSE link[q]]

Finish(r) ==
    /\ Moves(r, "ending", "over")
    /\ CASE gate[r] = "reported"  -> UNCHANGED status
         [] gate[r] = "escalated" -> UnlessCancelled(r, "waiting_user")
         [] OTHER                 -> UnlessCancelled(r, "failed")
    /\ Prune(Pruned)
    /\ transcript' = [s \in Sessions |-> IF s \in Pruned THEN None ELSE Persisted(r)[s]]
    /\ UNCHANGED <<pending, answers, gate, my, made, stopping, bounds>>

-----------------------------------------------------------------------------
(***************************************************************************)
(* The user: stop_active_runs in its two locks, the approval and the       *)
(* escalation commands.  And the crash.                                    *)
(***************************************************************************)
StopFinds ==
    /\ stopping = {} /\ stops < MaxStops
    /\ stopping' = {r \in Runs : status[r] \in Active}
    /\ stopping' # {}
    /\ stops' = stops + 1
    /\ UNCHANGED <<at, ledger, answers, gate, my, sessions, prompts, crashes>>

StopUpdates ==
    /\ stopping # {}
    /\ status' = [r \in Runs |-> IF r \in stopping /\ status[r] \in Active
                          THEN "cancelled" ELSE status[r]]
    /\ stopping' = {}
    /\ UNCHANGED <<at, link, pending, answers, gate, my, sessions, bounds>>

\* Mutant: the activity is given the request's status.
ActivityAfter_Request(answer) == answer

ActivityAfter(answer) ==
    IF answer = "approved" THEN "resumable" ELSE "cancelled_user_denied"

\* The first of resolve_automation_approval's two statements: any request can be
\* answered, also one that is answered already.
RecordsAnswer(r, i, answer) ==
    /\ i \in DOMAIN requests[r]
    /\ requests' = [requests EXCEPT ![r][i] = answer]

\* Mutant: the answer reaches the run's row whatever request that points to.
ResolveApproval_AnyRequest(r, i, answer) ==
    /\ RecordsAnswer(r, i, answer)
    /\ status' = [status EXCEPT ![r] = ActivityAfter(answer)]
    /\ UNCHANGED <<at, link, pending, escalation, gate, my, sessions, stopping, bounds>>

\* resolve_automation_approval: the row it updates is the one that points to the
\* request.
ResolveApproval(r, i, answer) ==
    /\ RecordsAnswer(r, i, answer)
    /\ status' = IF pending[r] # i THEN status
                 ELSE [status EXCEPT ![r] = ActivityAfter(answer)]
    /\ UNCHANGED <<at, link, pending, escalation, gate, my, sessions, stopping, bounds>>

ResolveEscalation(r) ==
    /\ escalation[r] # "none"
    /\ escalation' = [escalation EXCEPT ![r] = "resolved"]
    /\ UNCHANGED <<at, ledger, requests, gate, my, sessions, stopping, bounds>>

\* handle_ask and resolve_automation_approval write the request and the activity
\* in two transactions: a crash may come between them.
Crash ==
    /\ crashes < MaxCrashes
    /\ at' = [r \in Runs |-> IF at[r] \in {"unfired", "over"} THEN at[r] ELSE "lost"]
    /\ \/ /\ \E r \in Runs : at[r] \in Inside \cup {"wait_chat"}
          /\ UNCHANGED requests
       \/ \E r \in Runs : RecordsAsk(r)
       \/ \E r \in Runs, i \in 1..MaxAsks, answer \in {"approved", "denied"} :
              RecordsAnswer(r, i, answer)
    /\ stopping' = {}
    /\ crashes' = crashes + 1
    /\ UNCHANGED <<ledger, escalation, gate, my, sessions, prompts, stops>>

-----------------------------------------------------------------------------
Waits(r) == EnterChat(r) \/ TakePermit(r)

Advances(r) ==
    \/ ScreenOut(r) \/ PassScreen(r) \/ CapReached(r) \/ Start(r)
    \/ NotReady(r) \/ BeginLoop(r)
    \/ SeesStop(r) \/ LoopEnds(r) \/ Report(r) \/ Escalate(r) \/ Ask(r) \/ Pause(r)
    \/ Finish(r)

Fires(r) == FireManual(r) \/ FireChat(r)

User ==
    \/ StopFinds \/ StopUpdates
    \/ \E r \in Runs : \/ AnswerPrompt(r) \/ ResolveEscalation(r)
                       \/ \E i \in 1..MaxAsks, answer \in {"approved", "denied"} :
                              ResolveApproval(r, i, answer)

Next ==
    \/ \E r \in Runs : Fires(r) \/ Waits(r) \/ Advances(r) \/ PathPrompt(r)
    \/ User
    \/ Crash

\* A run goes on by itself, and gets a mutex or a permit that stays free: every
\* stream has an idle timeout and the loop a last iteration.  The user owes no
\* answer.
Fairness == \A r \in Runs : WF_vars(Waits(r) \/ Advances(r))

Spec == Init /\ [][Next]_vars /\ Fairness

-----------------------------------------------------------------------------
(***************************************************************************)
(* Properties.                                                             *)
(***************************************************************************)
\* stop_active_runs against the updates of a run that has not noticed: the row
\* of a stopped run stays 'cancelled', until the run itself asks for an approval,
\* and a stop that comes late does not replace an outcome.
StopHolds ==
    [][\A r \in Runs :
          /\ status[r] = "cancelled" /\ requests'[r] = << >> => status'[r] = "cancelled"
          /\ status'[r] = "cancelled" => status[r] \in Active \cup {"cancelled"}]_vars

\* Steps 3 to 11, with the early returns: when a run is over its row no longer says
\* that it waits for its turn or runs, and if the run asked for no approval and was
\* not stopped it says how the run ended.
OutcomeTold ==
    \A r \in Runs :
        /\ at[r] = "over" => status[r] \notin Active \cup {"none"}
        /\ at[r] = "over" /\ requests[r] = << >> /\ status[r] # "cancelled" =>
            status[r] \in CASE gate[r] = "reported"  -> {"completed"}
                            [] gate[r] = "escalated" -> {"waiting_user"}
                            [] OTHER                 -> {"failed", "filtered_out"}
        /\ status[r] = "waiting_user" => escalation[r] # "none"
        /\ status[r] = "completed" => gate[r] = "reported"

\* What a row in the hands of the user says of the request it points to.
RequestOf == [paused_pending_approval |-> "pending",
              resumable               |-> "approved",
              cancelled_user_denied   |-> "denied"]

\* handle_ask against resolve_automation_approval, with answers that are late,
\* repeated or for an earlier request: a row that waits, may go on or was denied
\* says what the request it points to says.  A crash may leave the row behind the
\* request's answer, never ahead of it, and one request that no row points to.
AnswersAgree ==
    \A r \in Runs :
        /\ pending[r] <= Len(requests[r])
        /\ pending[r] < Len(requests[r]) =>
               at[r] = "lost" /\ Len(requests[r]) = pending[r] + 1
        /\ status[r] \in DOMAIN RequestOf =>
               /\ pending[r] # 0
               /\ crashes = 0 => requests[r][pending[r]] = RequestOf[status[r]]
               /\ requests[r][pending[r]] = "pending" =>
                      status[r] = "paused_pending_approval"

\* approval.rs:3-6, "a pause-and-resolve flow: [...] transitions the activity to
\* `paused_pending_approval`": it stays paused as long as its request is open.
PauseHolds ==
    \A r \in Runs :
        pending[r] # 0 /\ requests[r][pending[r]] = "pending"
            => status[r] = "paused_pending_approval"

\* execute_run_in_chat_session: "burst messages queue rather than race the agent
\* loop".  Two runs of a thread are under way together only after the session of
\* one of them was pruned.
ThreadsSerialize ==
    \A q, r \in Runs :
        /\ q # r /\ ChatOf[q] = ChatOf[r] /\ ChatOf[r] # None
        /\ at[q] \in Inside /\ at[r] \in Inside
        => ~ {my[q], my[r]} \subseteq alive

\* persist_transcript: the session of a run that reported or escalated has a
\* transcript as long as it is there; a manual run's session has its own.
TranscriptKept ==
    \A r \in Runs :
        at[r] = "over" /\ gate[r] # "none" /\ link[r] \in alive =>
            /\ transcript[link[r]] # None
            /\ ChatOf[r] = None => transcript[link[r]] = r

\* prune_old_run_sessions: what it deletes takes along everything that refers to
\* it, so no thread and no manual run points to a session that is gone.
LinksAreLive ==
    /\ \A c \in Chats : chatRow[c] # NoSession => chatRow[c] \in alive
    /\ \A r \in Runs : ChatOf[r] = None /\ link[r] # NoSession => link[r] \in alive
    /\ \A s \in Sessions : transcript[s] # None => s \in alive

\* Every fire comes to its end, on every early return, if the user answers the
\* prompts: neither the mutex of a thread nor a permit is kept.
RunsEnd ==
    (\A q \in Wired : []<>(at[q] # "prompted"))
        => <>[](\A r \in Runs : at[r] \in {"unfired", "over", "lost"})
=============================================================================
