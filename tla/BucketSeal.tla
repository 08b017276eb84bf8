------------------------------ MODULE BucketSeal ------------------------------
(***************************************************************************)
(* The memory tree of one namespace (src-tauri/src/memory_bucket_seal).    *)
(* Callers ingest documents and chat turns through BucketSealAdapter: the  *)
(* chunks are stored, then appended one by one as leaves to the level-0    *)
(* buffer; a buffer that meets its gate is sealed into one summary of the  *)
(* level above, which is queued in that level's buffer, and so on up.      *)
(*                                                                         *)
(* A seal reads the buffer, awaits the summariser and the embedder with    *)
(* no database lock held, and writes everything in one transaction.  Only  *)
(* the adapter's per-namespace mutex keeps other callers out meanwhile.    *)
(* Every commit is durable; a crash loses the mutex and the calls.         *)
(*                                                                         *)
(* The order of a buffer's items shows only in the summary's text, so      *)
(* buffers and child lists are sets.                                       *)
(***************************************************************************)
EXTENDS Naturals, Sequences, FiniteSets, Functions, FiniteSetsExt

CONSTANTS Callers,        \* tasks that use the adapter
          Docs,           \* documents and chat turns, by key
          Chunks,         \* chunk ids
          ChunksOf,       \* the admitted chunks of a document, in order
          Tokens,         \* the token count of a chunk
          SummaryIds,     \* ids new_summary_id can return
          Budget,         \* INPUT_TOKEN_BUDGET
          Fanout,         \* SUMMARY_FANOUT
          MaxDepth,       \* MAX_CASCADE_DEPTH
          MaxIngests,     \* bound: ingests of one document
          MaxRemovals,    \* bound: deletes and clears
          MaxTroubles,    \* bound: failed seals and crashes
          None

ASSUME TreeAssumption ==
    /\ ChunksOf \in [Docs -> Seq(Chunks)]
    /\ Tokens \in [Chunks -> Nat]
    /\ Budget \in Nat \ {0} /\ Fanout \in Nat \ {0} /\ MaxDepth \in Nat \ {0}
    /\ MaxIngests \in Nat /\ MaxRemovals \in Nat /\ MaxTroubles \in Nat
    /\ None \notin Docs \cup SummaryIds \cup Callers
    /\ Chunks \cap SummaryIds = {}

Levels == 0..MaxDepth
Items  == Chunks \cup SummaryIds

VARIABLES
    ref,            \* mem_tree_chunks: the source_ref of a chunk, None: no row
    buffer,         \* mem_tree_buffers: the items of each level
    tokenSum,       \* mem_tree_buffers: token_sum of level 0
    level,          \* mem_tree_summaries: the level of a summary, 0: no row
    kids,           \* mem_tree_summaries: child_ids
    parent,         \* mem_tree_summaries: parent_id
    maxLevel,       \* mem_tree_trees: max_level
    root,           \* mem_tree_trees: root_id
    mutex,          \* the caller that holds the namespace's mutex
    pc,             \* per caller: where its call is
    doc,            \* per caller: the document it stores
    todo,           \* per caller: the leaves still to append
    depth,          \* per caller: the cascade's level
    snapshot,       \* per caller: the buffer that is being sealed
    inputs,         \* per caller: what the summariser was given of it
    ingests,        \* per document: how often it was stored
    removals,       \* how often something was removed
    troubles        \* how many seals failed or were cut off by a crash

store   == <<buffer, tokenSum, level, kids, parent, maxLevel, root>>
sealing == <<depth, snapshot, inputs>>
vars    == <<ref, store, mutex, pc, doc, todo, sealing, ingests, removals, troubles>>

Places == {"idle", "wait_store", "staging", "appending", "cascade", "summarising",
           "wait_delete"}

TypeOK ==
    /\ ref      \in [Chunks -> Docs \cup {None}]
    /\ buffer   \in [Levels -> SUBSET Items]
    /\ tokenSum \in Nat
    /\ level    \in [SummaryIds -> Levels]
    /\ kids     \in [SummaryIds -> SUBSET Items]
    /\ parent   \in [SummaryIds -> SummaryIds \cup {None}]
    /\ maxLevel \in Levels
    /\ root     \in SummaryIds \cup {None}
    /\ mutex    \in Callers \cup {None}
    /\ pc       \in [Callers -> Places]
    /\ doc      \in [Callers -> Docs \cup {None}]
    /\ todo     \in [Callers -> Seq(Chunks)]
    /\ depth    \in [Callers -> Levels]
    /\ snapshot \in [Callers -> SUBSET Items]
    /\ inputs   \in [Callers -> SUBSET Items]
    /\ ingests  \in [Docs -> Nat]
    /\ removals \in Nat
    /\ troubles \in Nat

Init ==
    /\ ref      = [k \in Chunks |-> None]
    /\ buffer   = [l \in Levels |-> {}]
    /\ tokenSum = 0
    /\ level    = [s \in SummaryIds |-> 0]
    /\ kids     = [s \in SummaryIds |-> {}]
    /\ parent   = [s \in SummaryIds |-> None]
    /\ maxLevel = 0
    /\ root     = None
    /\ mutex    = None
    /\ pc       = [c \in Callers |-> "idle"]
    /\ doc      = [c \in Callers |-> None]
    /\ todo     = [c \in Callers |-> << >>]
    /\ depth    = [c \in Callers |-> 0]
    /\ snapshot = [c \in Callers |-> {}]
    /\ inputs   = [c \in Callers |-> {}]
    /\ ingests  = [d \in Docs |-> 0]
    /\ removals = 0
    /\ troubles = 0

Sealed == {s \in SummaryIds : level[s] > 0}

Moves(c, from, to) == pc[c] = from /\ pc' = [pc EXCEPT ![c] = to]

\* The guard goes out of scope when the call returns.
Returns(c) == mutex' = IF mutex = c THEN None ELSE mutex

-----------------------------------------------------------------------------
(***************************************************************************)
(* ingest_canonical, shared by store and ingest_chat_turn.                 *)
(***************************************************************************)
Ingest(c, d) ==
    /\ ingests[d] < MaxIngests
    /\ Moves(c, "idle", "wait_store")
    /\ doc' = [doc EXCEPT ![c] = d]
    /\ ingests' = [ingests EXCEPT ![d] = @ + 1]
    /\ UNCHANGED <<ref, store, mutex, todo, sealing, removals, troubles>>

\* Mutant: the ingest does not wait for the namespace's mutex.
Lock_Shared(c) ==
    /\ Moves(c, "wait_store", "staging")
    /\ mutex' = c
    /\ UNCHANGED <<ref, store, doc, todo, sealing, ingests, removals, troubles>>

Lock(c) ==
    /\ mutex = None
    /\ Moves(c, "wait_store", "staging")
    /\ mutex' = c
    /\ UNCHANGED <<ref, store, doc, todo, sealing, ingests, removals, troubles>>

\* The admitted chunks are upserted in one transaction, before any is appended.
Staged(c) ==
    [k \in Chunks |-> IF k \in Range(ChunksOf[doc[c]]) THEN doc[c] ELSE ref[k]]

Stage(c) ==
    /\ Moves(c, "staging", "appending")
    /\ ref' = Staged(c)
    /\ todo' = [todo EXCEPT ![c] = ChunksOf[doc[c]]]
    /\ UNCHANGED <<store, mutex, doc, sealing, ingests, removals, troubles>>

\* A chunk's file, the transaction or, after it, a score row cannot be written:
\* the call returns before any append.
StageFails(c) ==
    /\ troubles < MaxTroubles
    /\ Moves(c, "staging", "idle")
    /\ Returns(c)
    /\ ref' \in {ref, Staged(c)}
    /\ troubles' = troubles + 1
    /\ UNCHANGED <<store, doc, todo, sealing, ingests, removals>>

Finish(c) ==
    /\ todo[c] = << >>
    /\ Moves(c, "appending", "idle")
    /\ Returns(c)
    /\ UNCHANGED <<ref, store, doc, todo, sealing, ingests, removals, troubles>>

-----------------------------------------------------------------------------
(***************************************************************************)
(* append_leaf: append_to_buffer, then cascade_all_from level 0.           *)
(***************************************************************************)
\* Mutant: the tokens of an item that is already there are counted again.
Enter_CountsAgain(k) ==
    /\ buffer' = [buffer EXCEPT ![0] = @ \cup {k}]
    /\ tokenSum' = tokenSum + Tokens[k]

\* append_to_buffer does nothing for an item the buffer already holds.
Enter(k) ==
    /\ buffer' = [buffer EXCEPT ![0] = @ \cup {k}]
    /\ tokenSum' = IF k \in buffer[0] THEN tokenSum ELSE tokenSum + Tokens[k]

AppendLeaf(c) ==
    /\ todo[c] # << >>
    /\ Moves(c, "appending", "cascade")
    /\ Enter(Head(todo[c]))
    /\ depth' = [depth EXCEPT ![c] = 0]
    /\ UNCHANGED <<ref, level, kids, parent, maxLevel, root, mutex, doc, todo,
                   snapshot, inputs, ingests, removals, troubles>>

\* Mutant: the gate asks for more than the fan-out.
ShouldSeal_Above(l) ==
    /\ buffer[l] # {}
    /\ \/ Cardinality(buffer[l]) > Fanout
       \/ l = 0 /\ tokenSum >= Budget

ShouldSeal(l) ==
    /\ buffer[l] # {}
    /\ \/ Cardinality(buffer[l]) >= Fanout
       \/ l = 0 /\ tokenSum >= Budget

\* hydrate_inputs skips the chunks that are gone; summaries are never deleted.
Hydrate(l) == IF l = 0 THEN {k \in buffer[0] : ref[k] # None}
                       ELSE buffer[l] \cap Sealed

\* Mutant: the error path leaves the mutex taken.
GivesUp_KeepsMutex(c) ==
    /\ pc' = [pc EXCEPT ![c] = "idle"]
    /\ UNCHANGED mutex

\* The error leaves append_leaf and the ingest: the remaining leaves are not
\* appended, and the one that was stays where it is.
GivesUp(c) ==
    /\ pc' = [pc EXCEPT ![c] = "idle"]
    /\ Returns(c)

\* Mutant: the cascade has no depth limit.
Due_AtAnyDepth(l) == ShouldSeal(l)

Due(l) == l < MaxDepth /\ ShouldSeal(l)

CascadeDone(c) ==
    /\ ~Due(depth[c])
    /\ Moves(c, "cascade", "appending")
    /\ todo' = [todo EXCEPT ![c] = Tail(@)]
    /\ UNCHANGED <<ref, store, mutex, doc, sealing, ingests, removals, troubles>>

\* seal_one_level up to the awaits on the summariser and the embedder; it
\* refuses to seal a buffer of which every chunk is gone.
BeginSeal(c) ==
    /\ pc[c] = "cascade"
    /\ Due(depth[c])
    /\ inputs' = [inputs EXCEPT ![c] = Hydrate(depth[c])]
    /\ snapshot' = [snapshot EXCEPT ![c] = buffer[depth[c]]]
    /\ IF Hydrate(depth[c]) = {}
       THEN GivesUp(c)
       ELSE Moves(c, "cascade", "summarising") /\ UNCHANGED mutex
    /\ UNCHANGED <<ref, store, doc, todo, depth, ingests, removals, troubles>>

\* The summariser or the embedder returns an error, or a vector of a wrong size.
SealFails(c) ==
    /\ troubles < MaxTroubles
    /\ pc[c] = "summarising"
    /\ GivesUp(c)
    /\ troubles' = troubles + 1
    /\ UNCHANGED <<ref, store, doc, todo, sealing, ingests, removals>>

-----------------------------------------------------------------------------
(***************************************************************************)
(* The write transaction of seal_one_level, for a buffer of level l, the   *)
(* items it read and a fresh id.                                           *)
(***************************************************************************)
\* Mutant: the buffer is emptied in a later transaction than the insert.
EmptiesBuffer_Later(l, s) ==
    /\ buffer' = [buffer EXCEPT ![l + 1] = @ \cup {s}]
    /\ UNCHANGED tokenSum

\* clear_buffer_tx empties what the buffer holds by now.
EmptiesBuffer(l, s) ==
    /\ buffer' = [buffer EXCEPT ![l] = {}, ![l + 1] = @ \cup {s}]
    /\ tokenSum' = IF l = 0 THEN 0 ELSE tokenSum

\* Mutant: max_level is the one the tree had when the ingest began.
ClimbsTo_Stale(l, s) == root' = s /\ maxLevel' = l

ClimbsTo(l, s) ==
    /\ root' = IF l > maxLevel THEN s ELSE root
    /\ maxLevel' = IF l > maxLevel THEN l ELSE maxLevel

Seal(c) ==
    LET l == depth[c] IN
    /\ Moves(c, "summarising", "cascade")
    /\ Sealed # SummaryIds
    /\ LET s == CHOOSE t \in SummaryIds : t \notin Sealed IN
       /\ level' = [level EXCEPT ![s] = l + 1]
       /\ kids' = [kids EXCEPT ![s] = snapshot[c]]
       /\ parent' = [t \in SummaryIds |-> IF t \in snapshot[c] /\ parent[t] = None
                                          THEN s ELSE parent[t]]
       /\ EmptiesBuffer(l, s)
       /\ ClimbsTo(l + 1, s)
    /\ depth' = [depth EXCEPT ![c] = l + 1]
    /\ UNCHANGED <<ref, mutex, doc, todo, snapshot, inputs, ingests, removals, troubles>>

-----------------------------------------------------------------------------
(***************************************************************************)
(* delete and clear_namespace, and the crash of the process.               *)
(***************************************************************************)
AskRemoval(c, d) ==
    /\ removals < MaxRemovals
    /\ Moves(c, "idle", "wait_delete")
    /\ doc' = [doc EXCEPT ![c] = d]
    /\ removals' = removals + 1
    /\ UNCHANGED <<ref, store, mutex, todo, sealing, ingests, troubles>>

\* Mutant: the removal does not take the mutex.
Remove_Unlocked(c) ==
    /\ Moves(c, "wait_delete", "idle")
    /\ ref' = [k \in Chunks |-> IF doc[c] \in {None, ref[k]} THEN None ELSE ref[k]]
    /\ UNCHANGED <<store, mutex, doc, todo, sealing, ingests, removals, troubles>>

\* Nothing is awaited once the mutex is held.  The buffers and the summaries
\* keep the ids of the chunks that go.  No key (None): the whole namespace.
Remove(c) ==
    /\ mutex = None
    /\ Moves(c, "wait_delete", "idle")
    /\ ref' = [k \in Chunks |-> IF doc[c] \in {None, ref[k]} THEN None ELSE ref[k]]
    /\ UNCHANGED <<store, mutex, doc, todo, sealing, ingests, removals, troubles>>

Crash ==
    /\ troubles < MaxTroubles
    /\ \E c \in Callers : pc[c] # "idle"
    /\ pc' = [c \in Callers |-> "idle"]
    /\ mutex' = None
    /\ troubles' = troubles + 1
    /\ UNCHANGED <<ref, store, doc, todo, sealing, ingests, removals>>

-----------------------------------------------------------------------------
Enters(c) == Lock(c) \/ Remove(c)

Works(c) ==
    Stage(c) \/ Finish(c) \/ AppendLeaf(c) \/ CascadeDone(c) \/ BeginSeal(c) \/ Seal(c)

Fails(c) == StageFails(c) \/ SealFails(c)

Step(c) ==
    \/ Enters(c) \/ Works(c) \/ Fails(c)
    \/ \E d \in Docs : Ingest(c, d)
    \/ \E d \in Docs \cup {None} : AskRemoval(c, d)

Next == Crash \/ \E c \in Callers : Step(c)

\* tokio's mutex is handed over in the order of the waiters, a task that can go
\* on is scheduled, and the embedder answers or times out.  Nobody has to call.
Fairness == \A c \in Callers : SF_vars(Enters(c)) /\ WF_vars(Works(c))

Spec == Init /\ [][Next]_vars /\ Fairness

-----------------------------------------------------------------------------
(***************************************************************************)
(* Properties.                                                             *)
(***************************************************************************)
InL1(k) == {s \in SummaryIds : level[s] = 1 /\ k \in kids[s]}

Held == {k \in Chunks : k \in buffer[0] \/ InL1(k) # {}}

Log == INSTANCE LeafLog WITH held <- Held

\* append_leaf, seal_one_level and the adapter's mutex: whatever fails or
\* crashes, and whoever else is at work on the namespace, a leaf that was
\* appended stays in the level-0 buffer or under a summary.  It implements
\* LeafLog: leaves come one at a time and never go.
LeavesAreHeld == Log!Spec

\* The leaf was handed to append_leaf by one ingest at most.
IngestedOnce(k) ==
    \A d, e \in Docs :
        /\ {k} \subseteq Range(ChunksOf[d]) \cap Range(ChunksOf[e])
        /\ ingests[d] > 0 /\ ingests[e] > 0
        => d = e /\ ingests[d] = 1

\* seal_one_level moves the buffer's items: a leaf that was ingested once is
\* in one place only, in the buffer or under a single summary.
LeafInOnePlace ==
    \A k \in Chunks : IngestedOnce(k) =>
        /\ k \in buffer[0] => InL1(k) = {}
        /\ \A s, t \in InL1(k) : s = t

\* The transaction of seal_one_level: every summary hangs in the tree once.  It
\* waits in its own level's buffer until a summary of the next level names it as
\* a child and it names that one as its parent; nothing else lists it.
TreeIsWhole ==
    \A s \in Sealed :
        /\ \A l \in Levels : s \in buffer[l] <=> parent[s] = None /\ l = level[s]
        /\ \A t \in SummaryIds : s \in kids[t] <=> t = parent[s]
        /\ parent[s] # None => level[parent[s]] = level[s] + 1

\* update_tree_after_seal_tx: the root is a summary of the highest level there
\* is, also when a cascade climbs several levels and when a crash cuts it off.
RootAtTop ==
    /\ \A s \in Sealed : level[s] <= maxLevel
    /\ IF Sealed = {} THEN root = None ELSE root \in Sealed /\ level[root] = maxLevel

\* append_to_buffer and clear_buffer_tx: the gate's token_sum is the sum over
\* the leaves the buffer holds, with retries, failed seals and crashes.
TokensCounted == tokenSum = MapThenSumSet(LAMBDA k : Tokens[k], buffer[0])

\* cascade_all_from: a failed or interrupted cascade leaves a level that met its
\* gate unsealed, and the next one that comes by makes up for it.  So a buffer
\* grows past its gate by at most the troubles there were, which bounds what the
\* summariser is given.
BuffersStaySmall ==
    mutex = None =>
        \A l \in 0..MaxDepth - 1 : Cardinality(buffer[l]) < Fanout + troubles

\* seal_one_level reads, awaits and writes: under the mutex the buffer it empties
\* is the one it read, its inputs are all still there, and there is always one,
\* however many chunks were deleted while they waited in the buffer.
SealsWhatItRead ==
    \A c \in Callers :
        /\ pc[c] = "cascade" /\ Due(depth[c]) => Hydrate(depth[c]) # {}
        /\ pc[c] = "summarising" =>
            /\ snapshot[c] = buffer[depth[c]]
            /\ inputs[c] = Hydrate(depth[c])

\* Every call ends, with an error if need be, and gives the mutex back.
CallsReturn == \A c \in Callers : pc[c] # "idle" ~> pc[c] = "idle"
=============================================================================
