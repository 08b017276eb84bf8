------------------------------ MODULE TurnSink ------------------------------
(***************************************************************************)
(* From the events of a run to the rows of the message table.  The run's   *)
(* task translates pi's events through an Acl of its own                   *)
(* (uclaw-pi-engine/src/acl.rs) and hands the result to the one            *)
(* TauriEventSink (src-tauri/src/engine_sink.rs), which keeps two buffers  *)
(* per conversation - the last turn_cost and the turn's tool activity -    *)
(* and writes the assistant's row when the turn is over.                   *)
(*                                                                         *)
(* The callback is synchronous, so each event is one step; the runs of     *)
(* different conversations interleave between events, those of one         *)
(* conversation hold its mutex in turn.  A run's text is the number of     *)
(* deltas that make it up.                                                 *)
(***************************************************************************)
EXTENDS Naturals, Sequences

CONSTANTS Convs,          \* conversations
          AgentSessions,  \* those with a row in agent_sessions
          Runs,           \* runs
          ConvOf,         \* the conversation of a run
          MaxDeltas,      \* bound: text deltas of a run
          MaxTools,       \* bound: tool calls of a run
          NoRun

ASSUME SinkAssumption ==
    /\ AgentSessions \subseteq Convs
    /\ ConvOf \in [Runs -> Convs]
    /\ MaxDeltas \in Nat /\ MaxTools \in Nat
    /\ NoRun \notin Runs

VARIABLES
    at,             \* per run: where the agent loop is
    said,           \* per run: Acl.acc_text, in deltas
    started,        \* per run: tool calls whose tool_start went out
    finished,       \* per run: tool calls whose tool_result went out
    completed,      \* per run: Acl.completed
    turnCost,       \* per conversation: the run the cached turn_cost is of
    activity,       \* per conversation: the buffered tool activity
    rows            \* the assistant rows, in the order they were written

vars == <<at, said, started, finished, completed, turnCost, activity, rows>>

Entry == [run : Runs, call : 1..MaxTools, kind : {"start", "result"}]

Row == [run : Runs, text : 1..MaxDeltas, usage : Runs \cup {NoRun},
        tools : Seq(Entry), cut : BOOLEAN]

TypeOK ==
    /\ at        \in [Runs -> {"waiting", "replying", "tooling", "failing", "over"}]
    /\ said      \in [Runs -> 0..MaxDeltas]
    /\ started   \in [Runs -> 0..MaxTools]
    /\ finished  \in [Runs -> 0..MaxTools]
    /\ completed \in [Runs -> BOOLEAN]
    /\ turnCost  \in [Convs -> Runs \cup {NoRun}]
    /\ activity  \in [Convs -> Seq(Entry)]
    /\ rows      \in Seq(Row)

Init ==
    /\ at        = [r \in Runs |-> "waiting"]
    /\ said      = [r \in Runs |-> 0]
    /\ started   = [r \in Runs |-> 0]
    /\ finished  = [r \in Runs |-> 0]
    /\ completed = [r \in Runs |-> FALSE]
    /\ turnCost  = [c \in Convs |-> NoRun]
    /\ activity  = [c \in Convs |-> << >>]
    /\ rows      = << >>

Moves(r, place) == at' = [at EXCEPT ![r] = place]

\* The tool events of calls from+1..to of a run, in the order of the reply.
Entries(r, from, to, kind) ==
    [i \in 1..(to - from) |-> [run |-> r, call |-> from + i, kind |-> kind]]

-----------------------------------------------------------------------------
(***************************************************************************)
(* The run.  It starts once its conversation's mutex is free.              *)
(***************************************************************************)
Busy(c) == \E r \in Runs : ConvOf[r] = c /\ at[r] \notin {"waiting", "over"}

Begin(r) ==
    /\ at[r] = "waiting"
    /\ ~Busy(ConvOf[r])
    /\ Moves(r, "replying")
    /\ UNCHANGED <<said, started, finished, completed, turnCost, activity, rows>>

TextDelta(r) ==
    /\ at[r] = "replying"
    /\ said[r] < MaxDeltas
    /\ said' = [said EXCEPT ![r] = @ + 1]
    /\ UNCHANGED <<at, started, finished, completed, turnCost, activity, rows>>

\* Mutant: the buffer holds only the calls of the last assistant message.
ToolsStart_Resets(r, n) ==
    /\ at[r] = "replying"
    /\ started[r] + n <= MaxTools
    /\ started' = [started EXCEPT ![r] = @ + n]
    /\ activity' = [activity EXCEPT ![ConvOf[r]] =
                       Entries(r, started[r], started[r] + n, "start")]
    /\ Moves(r, "tooling")
    /\ UNCHANGED <<said, finished, completed, turnCost, rows>>

\* An assistant message with n tool calls: all the starts go out first.
ToolsStart(r, n) ==
    /\ at[r] = "replying"
    /\ started[r] + n <= MaxTools
    /\ started' = [started EXCEPT ![r] = @ + n]
    /\ activity' = [activity EXCEPT ![ConvOf[r]] =
                       @ \o Entries(r, started[r], started[r] + n, "start")]
    /\ Moves(r, "tooling")
    /\ UNCHANGED <<said, finished, completed, turnCost, rows>>

\* Mutant: the reply is complete at the first TurnEnd.
ToolsEnd_CompletesTurn(r, n) ==
    /\ at[r] = "tooling"
    /\ finished[r] + n <= started[r]
    /\ finished' = [finished EXCEPT ![r] = @ + n]
    /\ IF finished[r] + n = started[r] /\ said[r] > 0 /\ ~completed[r]
       THEN /\ completed' = [completed EXCEPT ![r] = TRUE]
            /\ rows' = Append(rows, [run |-> r, text |-> said[r], usage |-> NoRun,
                                     tools |-> << >>, cut |-> FALSE])
       ELSE UNCHANGED <<completed, rows>>
    /\ activity' = [activity EXCEPT ![ConvOf[r]] =
                       @ \o Entries(r, finished[r], finished[r] + n, "result")]
    /\ Moves(r, IF finished[r] + n = started[r] THEN "replying" ELSE "tooling")
    /\ UNCHANGED <<said, started, turnCost>>

\* A batch of them has run, or was skipped or aborted, which yields results as
\* well.  The TurnEnd after the last one goes nowhere, and the model is asked
\* again.
ToolsEnd(r, n) ==
    /\ at[r] = "tooling"
    /\ finished[r] + n <= started[r]
    /\ finished' = [finished EXCEPT ![r] = @ + n]
    /\ activity' = [activity EXCEPT ![ConvOf[r]] =
                       @ \o Entries(r, finished[r], finished[r] + n, "result")]
    /\ Moves(r, IF finished[r] + n = started[r] THEN "replying" ELSE "tooling")
    /\ UNCHANGED <<said, started, completed, turnCost, rows>>

-----------------------------------------------------------------------------
(***************************************************************************)
(* The end of a turn.                                                      *)
(***************************************************************************)

\* persist_assistant, from the usage cached for the conversation.
FiledRow(r, usage) ==
    LET agent == ConvOf[r] \in AgentSessions IN
    [run |-> r, text |-> said[r], cut |-> FALSE,
     usage |-> IF agent THEN usage ELSE NoRun,
     tools |-> IF agent THEN activity[ConvOf[r]] ELSE << >>]

\* Mutant: the activity is copied to the row and stays in the buffer.
FileReply_KeepsBuffer(r, usage) ==
    IF said[r] = 0
    THEN UNCHANGED <<rows, activity>>
    ELSE /\ rows' = Append(rows, FiledRow(r, usage))
         /\ UNCHANGED activity

\* Mutant: an empty reply is filed as well.
FileReply_FilesEmpty(r, usage) ==
    /\ rows' = Append(rows, FiledRow(r, usage))
    /\ activity' = [activity EXCEPT ![ConvOf[r]] = << >>]

\* An empty reply returns early, before the activity is drained.
FileReply(r, usage) ==
    IF said[r] = 0
    THEN UNCHANGED <<rows, activity>>
    ELSE /\ rows' = Append(rows, FiledRow(r, usage))
         /\ activity' = [activity EXCEPT ![ConvOf[r]] = << >>]

CacheCost(r) == turnCost' = [turnCost EXCEPT ![ConvOf[r]] = r]

\* Mutant: the cost goes out after the reply it belongs to.
AgentEnds_CostLast(r) ==
    /\ at[r] = "replying"
    /\ ~completed[r]
    /\ completed' = [completed EXCEPT ![r] = TRUE]
    /\ FileReply(r, turnCost[ConvOf[r]])
    /\ CacheCost(r)
    /\ Moves(r, "over")
    /\ UNCHANGED <<said, started, finished>>

\* AgentEnd without an error: turn_cost, then STREAM_COMPLETE, once.
AgentEnds(r) ==
    /\ at[r] = "replying"
    /\ CacheCost(r)
    /\ IF completed[r]
       THEN UNCHANGED <<completed, rows, activity>>
       ELSE /\ completed' = [completed EXCEPT ![r] = TRUE]
            /\ FileReply(r, turnCost'[ConvOf[r]])
    /\ Moves(r, "over")
    /\ UNCHANGED <<said, started, finished>>

\* An abort, an error the provider streamed, or too many iterations: AgentEnd
\* carries the error, without the text, and the run returns Ok.
AgentAborts(r) ==
    /\ at[r] = "replying"
    /\ CacheCost(r)
    /\ Moves(r, "over")
    /\ UNCHANGED <<said, started, finished, completed, activity, rows>>

\* The stream could not be opened: AgentEnd as above, but the run returns Err.
AgentFails(r) ==
    /\ at[r] = "replying"
    /\ CacheCost(r)
    /\ Moves(r, "failing")
    /\ UNCHANGED <<said, started, finished, completed, activity, rows>>

\* The run's task reports the Err with the text so far, which
\* persist_interrupted_assistant files as a cut reply.
ReportFailure(r) ==
    /\ at[r] = "failing"
    /\ rows' = IF said[r] = 0 THEN rows
               ELSE Append(rows, [run |-> r, text |-> said[r], cut |-> TRUE,
                                  usage |-> NoRun, tools |-> << >>])
    /\ Moves(r, "over")
    /\ UNCHANGED <<said, started, finished, completed, turnCost, activity>>

\* The prompt fails before the agent loop starts.
Refused(r) ==
    /\ at[r] = "waiting"
    /\ ~Busy(ConvOf[r])
    /\ Moves(r, "over")
    /\ UNCHANGED <<said, started, finished, completed, turnCost, activity, rows>>

Next ==
    \E r \in Runs :
        \/ Begin(r) \/ TextDelta(r) \/ AgentEnds(r) \/ AgentAborts(r)
        \/ AgentFails(r) \/ ReportFailure(r) \/ Refused(r)
        \/ \E n \in 1..MaxTools : ToolsStart(r, n) \/ ToolsEnd(r, n)

Spec == Init /\ [][Next]_vars

-----------------------------------------------------------------------------
(***************************************************************************)
(* Properties.                                                             *)
(***************************************************************************)
RowsOf(r) == {i \in DOMAIN rows : rows[i].run = r}

ToolsOf(row) == {row.tools[k] : k \in DOMAIN row.tools}

(***************************************************************************)
(* A turn that completed with a text has one row, and it holds the whole   *)
(* text, of all the assistant messages between the tool calls; no turn has *)
(* two, and a row is marked as cut exactly if its turn did not complete    *)
(* (acl.rs:369-377, on completing at the first TurnEnd; engine.rs:509-521).*)
(***************************************************************************)
RepliesAreFiled ==
    \A r \in Runs :
        /\ \A i, j \in RowsOf(r) : i = j
        /\ \A i \in RowsOf(r) : rows[i].text = said[r] /\ (rows[i].cut <=> ~completed[r])
        /\ completed[r] /\ said[r] > 0 => RowsOf(r) # {}

(***************************************************************************)
(* The tokens and the cost on a row are those of the turn that wrote it,   *)
(* although the cache is per conversation and never emptied                *)
(* (engine_sink.rs:67-77).                                                 *)
(***************************************************************************)
UsageIsOwn ==
    \A i \in DOMAIN rows :
        ConvOf[rows[i].run] \in AgentSessions /\ ~rows[i].cut
            => rows[i].usage = rows[i].run

(***************************************************************************)
(* The row of an agent turn shows each of its tool calls, started before   *)
(* it ended (engine_sink.rs:87-95).                                        *)
(***************************************************************************)
ToolsAreFiled ==
    \A i \in DOMAIN rows :
        ConvOf[rows[i].run] \in AgentSessions /\ ~rows[i].cut =>
            \A n \in 1..started[rows[i].run] :
                \E j, k \in DOMAIN rows[i].tools :
                    /\ j < k
                    /\ rows[i].tools[j] = [run |-> rows[i].run, call |-> n, kind |-> "start"]
                    /\ rows[i].tools[k] = [run |-> rows[i].run, call |-> n, kind |-> "result"]

(***************************************************************************)
(* A tool call is shown in at most one row, and in its own conversation:   *)
(* what a failed turn leaves in the buffer may surface in a later turn's   *)
(* row, but in no other conversation and not twice (engine_sink.rs:87-95). *)
(***************************************************************************)
ActivityFiledOnce ==
    \A i \in DOMAIN rows : \A e \in ToolsOf(rows[i]) :
        /\ ConvOf[e.run] = ConvOf[rows[i].run]
        /\ \A j \in DOMAIN rows : e \in ToolsOf(rows[j]) => i = j

(***************************************************************************)
(* The text streamed before an abort or an error is persisted              *)
(* (engine_sink.rs:263-264, "so the interrupted reply isn't lost").        *)
(***************************************************************************)
InterruptedRepliesAreFiled ==
    \A r \in Runs : at[r] = "over" /\ said[r] > 0 => RowsOf(r) # {}
=============================================================================
