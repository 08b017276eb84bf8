--------------------------- MODULE BucketSealProofs ---------------------------
(***************************************************************************)
(* The tree of one namespace for any number of callers, documents and      *)
(* chunks, any budget, fan-out and depth, and any number of failures.      *)
(***************************************************************************)
EXTENDS BucketSeal, SetSums, FiniteSetTheorems, TLAPS

(***************************************************************************)
(* What a call has at hand: types alone do not say that a call which       *)
(* stages has a document, and one that cascades a leaf.                    *)
(***************************************************************************)
AtHand ==
    \A c \in Callers :
        /\ pc[c] \in {"wait_store", "staging"} => doc[c] \in Docs
        /\ pc[c] \in {"cascade", "summarising"} => todo[c] # << >>
        /\ pc[c] = "summarising" => depth[c] < MaxDepth

\* The namespace's mutex: a call that is past its wait holds it.
Busy == {"staging", "appending", "cascade", "summarising"}

Exclusion == \A c \in Callers : pc[c] \in Busy => mutex = c

Basic == TypeOK /\ AtHand /\ Exclusion

-----------------------------------------------------------------------------
\* A level below the top, its successor, and the bottom are levels.
LEMMA LevelFacts ==
    /\ 0 \in Levels /\ Levels \subseteq Nat
    /\ \A l \in Levels : l < MaxDepth => l + 1 \in Levels
BY TreeAssumption DEF Levels

LEMMA InitBasic == Init => Basic
<1> SUFFICES ASSUME Init PROVE Basic
    OBVIOUS
<1>1. TypeOK
    BY TreeAssumption, LevelFacts DEF Init, TypeOK, Items, Places
<1>2. AtHand /\ Exclusion
    BY DEF Init, AtHand, Exclusion, Busy
<1> QED
    BY <1>1, <1>2 DEF Basic

\* The actions that end a call and leave the store alone.
LEMMA GivesUpBasic ==
    ASSUME Basic, NEW c \in Callers, GivesUp(c), 
           UNCHANGED <<doc, todo, depth>>
    PROVE  /\ pc' \in [Callers -> Places] /\ mutex' \in Callers \cup {None}
           /\ AtHand' /\ Exclusion'
<1> USE DEF Basic, TypeOK, GivesUp, Returns
<1>1. pc' \in [Callers -> Places] /\ mutex' \in Callers \cup {None}
    BY DEF Places
<1>2. AtHand'
    BY DEF AtHand
<1>3. Exclusion'
    BY TreeAssumption DEF Exclusion, Busy
<1> QED
    BY <1>1, <1>2, <1>3

\* The id a seal takes is one that no summary has.
LEMMA FreshId ==
    ASSUME Sealed # SummaryIds
    PROVE  LET s == CHOOSE t \in SummaryIds : t \notin Sealed
           IN  s \in SummaryIds /\ s \notin Sealed
<1>1. \E t \in SummaryIds : t \notin Sealed
    BY DEF Sealed
<1> QED
    BY <1>1

(***************************************************************************)
(* A call's first steps, up to the append.                                 *)
(***************************************************************************)
LEMMA EnterBasic ==
    ASSUME Basic, NEW c \in Callers,
           \/ \E d \in Docs : Ingest(c, d)
           \/ \E d \in Docs \cup {None} : AskRemoval(c, d)
           \/ Lock(c) \/ Remove(c)
    PROVE  Basic'
<1> USE DEF Basic, Moves
<1>1. ASSUME NEW d \in Docs, Ingest(c, d) PROVE Basic'
  <2>1. TypeOK'
    BY <1>1 DEF Ingest, TypeOK, store, sealing, Places
  <2>2. AtHand' /\ Exclusion'
    BY <1>1 DEF Ingest, TypeOK, AtHand, Exclusion, Busy, store, sealing
  <2> QED BY <2>1, <2>2
<1>2. ASSUME NEW d \in Docs \cup {None}, AskRemoval(c, d) PROVE Basic'
  <2>1. TypeOK'
    BY <1>2 DEF AskRemoval, TypeOK, store, sealing, Places
  <2>2. AtHand' /\ Exclusion'
    BY <1>2 DEF AskRemoval, TypeOK, AtHand, Exclusion, Busy, store, sealing
  <2> QED BY <2>1, <2>2
<1>3. CASE Lock(c)
  <2>1. TypeOK'
    BY <1>3 DEF Lock, TypeOK, store, sealing, Places
  <2>2. AtHand' /\ Exclusion'
    BY <1>3, TreeAssumption DEF Lock, TypeOK, AtHand, Exclusion, Busy, store, sealing
  <2> QED BY <2>1, <2>2
<1>4. CASE Remove(c)
  <2>1. TypeOK'
    BY <1>4 DEF Remove, TypeOK, store, sealing, Places
  <2>2. AtHand' /\ Exclusion'
    BY <1>4 DEF Remove, TypeOK, AtHand, Exclusion, Busy, store, sealing
  <2> QED BY <2>1, <2>2
<1> QED BY <1>1, <1>2, <1>3, <1>4

LEMMA StageBasic ==
    ASSUME Basic, NEW c \in Callers,
           Stage(c) \/ StageFails(c) \/ Finish(c)
    PROVE  Basic'
<1> USE DEF Basic, Moves
<1>1. ASSUME pc[c] = "staging" PROVE Staged(c) \in [Chunks -> Docs \cup {None}]
  <2>1. doc[c] \in Docs
    BY <1>1 DEF AtHand
  <2> QED BY <2>1 DEF Staged, TypeOK
<1>2. CASE Stage(c)
  <2>1. ChunksOf[doc[c]] \in Seq(Chunks)
    BY <1>2, TreeAssumption DEF Stage, AtHand
  <2>2. TypeOK'
    BY <1>1, <1>2, <2>1 DEF Stage, TypeOK, store, sealing, Places
  <2>3. AtHand' /\ Exclusion'
    BY <1>2 DEF Stage, TypeOK, AtHand, Exclusion, Busy, store, sealing
  <2> QED BY <2>2, <2>3
<1>3. CASE StageFails(c)
  <2>1. TypeOK'
    BY <1>1, <1>3 DEF StageFails, Returns, TypeOK, store, sealing, Places
  <2>2. AtHand' /\ Exclusion'
    BY <1>3, TreeAssumption
    DEF StageFails, Returns, TypeOK, AtHand, Exclusion, Busy, store, sealing
  <2> QED BY <2>1, <2>2
<1>4. CASE Finish(c)
  <2>1. TypeOK'
    BY <1>4 DEF Finish, Returns, TypeOK, store, sealing, Places
  <2>2. AtHand' /\ Exclusion'
    BY <1>4, TreeAssumption
    DEF Finish, Returns, TypeOK, AtHand, Exclusion, Busy, store, sealing
  <2> QED BY <2>1, <2>2
<1> QED BY <1>2, <1>3, <1>4

(***************************************************************************)
(* The append and the cascade.                                             *)
(***************************************************************************)
LEMMA AppendBasic ==
    ASSUME Basic, NEW c \in Callers, AppendLeaf(c)
    PROVE  Basic'
<1> USE DEF Basic, Moves
<1>1. Head(todo[c]) \in Chunks
    BY DEF AppendLeaf, TypeOK
<1>2. Tokens[Head(todo[c])] \in Nat
    BY <1>1, TreeAssumption
<1>3. buffer' \in [Levels -> SUBSET Items] /\ tokenSum' \in Nat
    BY <1>1, <1>2, LevelFacts DEF AppendLeaf, Enter, TypeOK, Items
<1>4. depth' \in [Callers -> Levels]
    BY LevelFacts DEF AppendLeaf, TypeOK
<1>5. TypeOK'
    BY <1>3, <1>4 DEF AppendLeaf, TypeOK, Places
<1>6. AtHand' /\ Exclusion'
    BY DEF AppendLeaf, TypeOK, AtHand, Exclusion, Busy
<1> QED BY <1>5, <1>6

LEMMA CascadeBasic ==
    ASSUME Basic, NEW c \in Callers,
           CascadeDone(c) \/ BeginSeal(c) \/ SealFails(c)
    PROVE  Basic'
<1> USE DEF Basic
<1>1. CASE CascadeDone(c)
  <2>1. Tail(todo[c]) \in Seq(Chunks)
    BY <1>1 DEF CascadeDone, Moves, AtHand, TypeOK
  <2>2. TypeOK'
    BY <1>1, <2>1 DEF CascadeDone, Moves, TypeOK, store, sealing, Places
  <2>3. AtHand' /\ Exclusion'
    BY <1>1 DEF CascadeDone, Moves, TypeOK, AtHand, Exclusion, Busy, store, sealing
  <2> QED BY <2>2, <2>3
<1>2. CASE BeginSeal(c)
  <2>1. depth[c] \in Levels
    BY DEF TypeOK
  <2>2. Hydrate(depth[c]) \in SUBSET Items /\ buffer[depth[c]] \in SUBSET Items
    BY <2>1, LevelFacts DEF Hydrate, TypeOK
  <2>3. inputs' \in [Callers -> SUBSET Items] /\ snapshot' \in [Callers -> SUBSET Items]
    BY <1>2, <2>2 DEF BeginSeal, TypeOK
  <2>4. /\ pc' \in [Callers -> Places] /\ mutex' \in Callers \cup {None}
        /\ AtHand' /\ Exclusion'
    <3>1. CASE Hydrate(depth[c]) = {}
      BY <1>2, <3>1, GivesUpBasic DEF BeginSeal
    <3>2. CASE Hydrate(depth[c]) # {}
      BY <1>2, <3>2
      DEF BeginSeal, Moves, Due, TypeOK, AtHand, Exclusion, Busy, Places
    <3> QED BY <3>1, <3>2
  <2>5. TypeOK'
    BY <1>2, <2>3, <2>4 DEF BeginSeal, TypeOK, store
  <2> QED BY <2>4, <2>5
<1>3. CASE SealFails(c)
  <2>1. /\ pc' \in [Callers -> Places] /\ mutex' \in Callers \cup {None}
        /\ AtHand' /\ Exclusion'
    BY <1>3, GivesUpBasic DEF SealFails, sealing
  <2>2. TypeOK'
    BY <1>3, <2>1 DEF SealFails, TypeOK, store, sealing
  <2> QED BY <2>1, <2>2
<1> QED BY <1>1, <1>2, <1>3

\* The write transaction of seal_one_level, with the id it takes named.
SealAs(c, s) ==
    LET l == depth[c] IN
    /\ s \in SummaryIds /\ s \notin Sealed
    /\ l \in Levels /\ l < MaxDepth /\ l + 1 \in Levels
    /\ Moves(c, "summarising", "cascade")
    /\ level' = [level EXCEPT ![s] = l + 1]
    /\ kids' = [kids EXCEPT ![s] = snapshot[c]]
    /\ parent' = [t \in SummaryIds |-> IF t \in snapshot[c] /\ parent[t] = None
                                       THEN s ELSE parent[t]]
    /\ EmptiesBuffer(l, s)
    /\ ClimbsTo(l + 1, s)
    /\ depth' = [depth EXCEPT ![c] = l + 1]
    /\ UNCHANGED <<ref, mutex, doc, todo, snapshot, inputs, ingests, removals, troubles>>

LEMMA SealNamed ==
    ASSUME Basic, NEW c \in Callers, Seal(c)
    PROVE  \E s \in SummaryIds : SealAs(c, s)
<1> DEFINE s == CHOOSE t \in SummaryIds : t \notin Sealed
<1>1. s \in SummaryIds /\ s \notin Sealed
    BY FreshId DEF Seal
<1>2. /\ depth[c] \in Levels /\ depth[c] < MaxDepth
      /\ depth[c] + 1 \in Levels
    BY LevelFacts DEF Basic, TypeOK, AtHand, Seal, Moves
<1>3. SealAs(c, s)
    BY <1>1, <1>2 DEF Seal, SealAs
<1> QED BY <1>1, <1>3

LEMMA SealBasic ==
    ASSUME Basic, NEW c \in Callers, Seal(c)
    PROVE  Basic'
<1>1. PICK s \in SummaryIds : SealAs(c, s)
    BY SealNamed
<1> DEFINE l == depth[c]
<1>2. l \in Levels /\ l + 1 \in Levels /\ l \in Nat
    BY <1>1, LevelFacts DEF SealAs
<1>3. buffer' \in [Levels -> SUBSET Items] /\ tokenSum' \in Nat
    BY <1>1, <1>2 DEF SealAs, EmptiesBuffer, Basic, TypeOK, Items
<1>4. /\ level' \in [SummaryIds -> Levels] /\ kids' \in [SummaryIds -> SUBSET Items]
      /\ parent' \in [SummaryIds -> SummaryIds \cup {None}]
    BY <1>1, <1>2 DEF SealAs, Basic, TypeOK
<1>5. maxLevel' \in Levels /\ root' \in SummaryIds \cup {None}
    BY <1>1, <1>2 DEF SealAs, ClimbsTo, Basic, TypeOK
<1>6. pc' \in [Callers -> Places] /\ depth' \in [Callers -> Levels]
    BY <1>1, <1>2 DEF SealAs, Moves, Basic, TypeOK, Places
<1>7. TypeOK'
    BY <1>1, <1>3, <1>4, <1>5, <1>6 DEF SealAs, Basic, TypeOK
<1>8. AtHand' /\ Exclusion'
    BY <1>1 DEF SealAs, Moves, Basic, TypeOK, AtHand, Exclusion, Busy
<1> QED BY <1>7, <1>8 DEF Basic

LEMMA CrashBasic ==
    ASSUME Basic, Crash
    PROVE  Basic'
<1>1. TypeOK'
    BY DEF Basic, Crash, TypeOK, store, sealing, Places
<1>2. AtHand' /\ Exclusion'
    BY DEF Crash, AtHand, Exclusion, Busy
<1> QED BY <1>1, <1>2 DEF Basic

LEMMA BasicStep ==
    ASSUME Basic, [Next]_vars
    PROVE  Basic'
<1>1. ASSUME NEW c \in Callers, Step(c) PROVE Basic'
    BY <1>1, EnterBasic, StageBasic, AppendBasic, CascadeBasic, SealBasic
    DEF Step, Enters, Works, Fails
<1>2. CASE UNCHANGED vars
    BY <1>2 DEF vars, store, sealing, Basic, TypeOK, AtHand, Exclusion
<1> QED BY <1>1, <1>2, CrashBasic DEF Next

LEMMA BasicInvariant == Spec => []Basic
<1>1. Init => Basic
    BY InitBasic
<1>2. Basic /\ [Next]_vars => Basic'
    BY BasicStep
<1> QED BY <1>1, <1>2, PTL DEF Spec

\* The types, for every caller, document, level and summary.
THEOREM TypeCorrect == Spec => []TypeOK
<1>1. Basic => TypeOK
    BY DEF Basic
<1> QED BY <1>1, BasicInvariant, PTL
-----------------------------------------------------------------------------
(***************************************************************************)
(* Under the mutex.  While a call is past its wait nobody else touches the *)
(* chunks or the tree, so what holds of the call's own steps holds.        *)
(***************************************************************************)
LEMMA OthersStill ==
    ASSUME Basic, NEW c \in Callers, NEW e \in Callers, e # c, Step(c)
    PROVE  /\ pc'[e] = pc[e] /\ doc'[e] = doc[e] /\ todo'[e] = todo[e]
           /\ depth'[e] = depth[e]
           /\ snapshot'[e] = snapshot[e] /\ inputs'[e] = inputs[e]
           /\ pc[e] \in Busy => UNCHANGED <<ref, store>>
<1> USE DEF Basic, TypeOK
<1>1. /\ pc'[e] = pc[e] /\ doc'[e] = doc[e] /\ todo'[e] = todo[e]
      /\ depth'[e] = depth[e]
      /\ snapshot'[e] = snapshot[e] /\ inputs'[e] = inputs[e]
  <2>1. CASE \/ \E d \in Docs : Ingest(c, d)
             \/ \E d \in Docs \cup {None} : AskRemoval(c, d)
             \/ Enters(c) \/ Stage(c) \/ StageFails(c) \/ Finish(c)
    BY <2>1 DEF Ingest, AskRemoval, Enters, Lock, Remove, Stage, StageFails, Finish,
                Moves, store, sealing
  <2>2. CASE AppendLeaf(c) \/ CascadeDone(c) \/ SealFails(c) \/ Seal(c)
    BY <2>2 DEF AppendLeaf, CascadeDone, SealFails, Seal, GivesUp, Moves, store, sealing
  <2>3. CASE BeginSeal(c)
    BY <2>3 DEF BeginSeal, GivesUp, Moves, store
  <2> QED BY <2>1, <2>2, <2>3 DEF Step, Works, Fails
<1>2. ASSUME pc[e] \in Busy PROVE UNCHANGED <<ref, store>>
  <2>1. mutex = e /\ mutex # None /\ pc[c] \notin Busy
    BY <1>2, TreeAssumption DEF Exclusion
  <2>2. \/ \E d \in Docs : Ingest(c, d)
        \/ \E d \in Docs \cup {None} : AskRemoval(c, d)
    BY <2>1 DEF Step, Enters, Works, Fails, Lock, Remove, Stage, StageFails, Finish,
                AppendLeaf, CascadeDone, BeginSeal, Seal, SealFails, Moves, Busy
  <2> QED BY <2>2 DEF Ingest, AskRemoval, store
<1> QED BY <1>1, <1>2

\* Level 0 holds chunks, the levels above hold summaries that were sealed.
Kinds ==
    /\ buffer[0] \subseteq Chunks
    /\ \A l \in Levels : l # 0 => buffer[l] \subseteq Sealed

\* The leaves a call has still to append are stored; the one whose cascade is at
\* the bottom is in the buffer; and a seal has read what is there.
Holds(c) ==
    /\ pc[c] \in {"appending", "cascade", "summarising"} =>
           \A i \in 1..Len(todo[c]) : ref[todo[c][i]] # None
    /\ pc[c] = "cascade" /\ depth[c] = 0 => Head(todo[c]) \in buffer[0]
    /\ pc[c] = "summarising" => /\ snapshot[c] = buffer[depth[c]]
                                /\ inputs[c] = Hydrate(depth[c])

Reads == Kinds /\ \A c \in Callers : Holds(c)

LEMMA InitReads == Init => Reads
BY LevelFacts DEF Init, Reads, Kinds, Holds

LEMMA SealGrows ==
    ASSUME Basic, NEW c \in Callers, NEW s \in SummaryIds, SealAs(c, s)
    PROVE  Sealed' = Sealed \cup {s}
<1>1. \A t \in SummaryIds : level'[t] = IF t = s THEN depth[c] + 1 ELSE level[t]
    BY DEF SealAs, Basic, TypeOK
<1>2. depth[c] + 1 > 0
    BY LevelFacts DEF SealAs
<1> QED BY <1>1, <1>2 DEF Sealed

LEMMA SealLevels ==
    ASSUME NEW c \in Callers, NEW s \in SummaryIds, SealAs(c, s)
    PROVE  /\ depth[c] \in Levels /\ depth[c] + 1 \in Levels /\ depth[c] \in Nat
           /\ depth[c] + 1 # depth[c] /\ depth[c] + 1 # 0
<1>1. depth[c] \in Levels /\ depth[c] + 1 \in Levels
    BY DEF SealAs
<1>2. depth[c] \in Nat
    BY <1>1, LevelFacts
<1> QED BY <1>1, <1>2

\* A seal empties its level, adds one item to the next and leaves the others.
LEMMA EmptiesLevels ==
    ASSUME Basic, NEW c \in Callers, NEW s \in SummaryIds, SealAs(c, s)
    PROVE  \A l \in Levels : buffer'[l] = IF l = depth[c] + 1 THEN buffer[l] \cup {s}
                                          ELSE IF l = depth[c] THEN {} ELSE buffer[l]
<1> DEFINE d == depth[c]
           u == depth[c] + 1
<1>1. d \in Levels /\ u \in Levels /\ u # d
    BY SealLevels
<1>2. buffer \in [Levels -> SUBSET Items]
    BY DEF Basic, TypeOK
<1>3. buffer' = [buffer EXCEPT ![d] = {}, ![u] = @ \cup {s}]
    BY DEF SealAs, EmptiesBuffer
<1> HIDE DEF d, u
<1>4. \A l \in Levels : buffer'[l] = IF l = u THEN buffer[l] \cup {s}
                                     ELSE IF l = d THEN {} ELSE buffer[l]
    BY <1>1, <1>2, <1>3
<1> QED BY <1>4 DEF d, u

LEMMA KindsStep ==
    ASSUME Basic, Kinds, NEW c \in Callers, Step(c)
    PROVE  Kinds'
<1> USE DEF Kinds
<1>1. CASE AppendLeaf(c)
  <2>1. Head(todo[c]) \in Chunks
    BY <1>1 DEF AppendLeaf, Basic, TypeOK
  <2> QED
    BY <1>1, <2>1, LevelFacts DEF AppendLeaf, Enter, Sealed, Basic, TypeOK
<1>2. CASE Seal(c)
  <2>1. PICK s \in SummaryIds : SealAs(c, s)
    BY <1>2, SealNamed
  <2>2. Sealed' = Sealed \cup {s}
    BY <2>1, SealGrows
  <2>3. depth[c] \in Levels /\ depth[c] + 1 \in Levels /\ depth[c] + 1 # 0
    BY <2>1, SealLevels
  <2>4. \A l \in Levels : buffer'[l] = IF l = depth[c] + 1 THEN buffer[l] \cup {s}
                                       ELSE IF l = depth[c] THEN {} ELSE buffer[l]
    BY <2>1, EmptiesLevels
  <2> QED BY <2>2, <2>3, <2>4, LevelFacts
<1>3. CASE ~AppendLeaf(c) /\ ~Seal(c)
  <2>1. UNCHANGED store
    BY <1>3 DEF Step, Enters, Works, Fails, Ingest, AskRemoval, Lock, Remove, Stage,
                StageFails, Finish, CascadeDone, BeginSeal, SealFails
  <2> QED BY <2>1 DEF store, Sealed
<1> QED BY <1>1, <1>2, <1>3

LEMMA HoldsStep ==
    ASSUME Basic, Reads, NEW c \in Callers, Step(c)
    PROVE  Holds(c)'
<1> USE DEF Basic
<1>0. Holds(c)
    BY DEF Reads
<1>1. CASE Stage(c)
  <2>1. doc[c] \in Docs /\ doc[c] # None
    BY <1>1, TreeAssumption DEF Stage, Moves, AtHand
  <2>2. ChunksOf[doc[c]] \in Seq(Chunks)
    BY <2>1, TreeAssumption
  <2>3. \A i \in 1..Len(ChunksOf[doc[c]]) : ref'[ChunksOf[doc[c]][i]] = doc[c]
    BY <1>1, <2>2 DEF Stage, Staged, Range
  <2>4. todo'[c] = ChunksOf[doc[c]] /\ pc'[c] = "appending"
    BY <1>1 DEF Stage, Moves, TypeOK
  <2> QED BY <2>1, <2>3, <2>4 DEF Holds
<1>2. CASE AppendLeaf(c)
  <2>1. /\ pc'[c] = "cascade" /\ depth'[c] = 0 /\ todo'[c] = todo[c] /\ ref' = ref
        /\ Head(todo[c]) \in buffer'[0]
    BY <1>2, LevelFacts DEF AppendLeaf, Enter, Moves, TypeOK
  <2>2. pc[c] = "appending"
    BY <1>2 DEF AppendLeaf, Moves
  <2> QED BY <1>0, <2>1, <2>2 DEF Holds
<1>3. CASE CascadeDone(c)
  <2>1. /\ pc[c] = "cascade" /\ pc'[c] = "appending" /\ todo'[c] = Tail(todo[c])
        /\ ref' = ref /\ todo[c] \in Seq(Chunks) /\ todo[c] # << >>
    BY <1>3 DEF CascadeDone, Moves, TypeOK, AtHand
  <2>2. \A i \in 1..Len(Tail(todo[c])) : /\ Tail(todo[c])[i] = todo[c][i + 1]
                                        /\ i + 1 \in 1..Len(todo[c])
    BY <2>1
  <2> QED BY <1>0, <2>1, <2>2 DEF Holds
<1>4. CASE BeginSeal(c)
  <2>1. CASE Hydrate(depth[c]) = {}
    BY <1>4, <2>1 DEF BeginSeal, GivesUp, TypeOK, Holds
  <2>2. CASE Hydrate(depth[c]) # {}
    <3>1. /\ pc[c] = "cascade" /\ pc'[c] = "summarising" /\ UNCHANGED <<ref, store, todo, depth>>
          /\ snapshot'[c] = buffer[depth[c]] /\ inputs'[c] = Hydrate(depth[c])
      BY <1>4, <2>2 DEF BeginSeal, Moves, TypeOK
    <3>2. Hydrate(depth[c])' = Hydrate(depth[c])
      BY <3>1 DEF Hydrate, Sealed, store
    <3> QED BY <1>0, <3>1, <3>2 DEF Holds, store
  <2> QED BY <2>1, <2>2
<1>5. CASE Seal(c)
  <2>1. PICK s \in SummaryIds : SealAs(c, s)
    BY <1>5, SealNamed
  <2>2. /\ pc[c] = "summarising" /\ pc'[c] = "cascade" /\ depth'[c] = depth[c] + 1
        /\ todo' = todo /\ ref' = ref /\ depth[c] \in Nat
    BY <2>1, LevelFacts DEF SealAs, Moves, TypeOK
  <2> QED BY <1>0, <2>2 DEF Holds
<1>6. CASE \/ \E d \in Docs : Ingest(c, d)
           \/ \E d \in Docs \cup {None} : AskRemoval(c, d)
           \/ Enters(c) \/ Finish(c) \/ Fails(c)
  <2>1. pc'[c] \in {"wait_store", "wait_delete", "staging", "idle"}
    BY <1>6 DEF Ingest, AskRemoval, Enters, Lock, Remove, Finish, Fails, StageFails,
                SealFails, GivesUp, Moves, TypeOK
  <2> QED BY <2>1 DEF Holds
<1> QED BY <1>1, <1>2, <1>3, <1>4, <1>5, <1>6 DEF Step, Works

LEMMA ReadsStep ==
    ASSUME Basic, Reads, [Next]_vars
    PROVE  Reads'
<1>1. ASSUME NEW c \in Callers, Step(c) PROVE Reads'
  <2>1. Kinds'
    BY <1>1, KindsStep DEF Reads
  <2>2. ASSUME NEW e \in Callers PROVE Holds(e)'
    <3>1. CASE e = c
      BY <1>1, <3>1, HoldsStep
    <3>2. CASE e # c /\ pc[e] \in Busy
      <4>1. /\ pc'[e] = pc[e] /\ todo'[e] = todo[e] /\ depth'[e] = depth[e]
            /\ snapshot'[e] = snapshot[e] /\ inputs'[e] = inputs[e]
            /\ UNCHANGED <<ref, store>>
        BY <1>1, <3>2, OthersStill
      <4>2. Hydrate(depth[e])' = Hydrate(depth[e])
        BY <4>1 DEF Hydrate, Sealed, store
      <4>3. ref' = ref /\ buffer' = buffer
        BY <4>1 DEF store
      <4> QED BY <4>1, <4>2, <4>3 DEF Reads, Holds
    <3>3. CASE e # c /\ pc[e] \notin Busy
      <4>1. pc'[e] \notin Busy
        BY <1>1, <3>3, OthersStill
      <4> QED BY <4>1 DEF Holds, Busy
    <3> QED BY <3>1, <3>2, <3>3
  <2> QED BY <2>1, <2>2 DEF Reads
<1>2. CASE Crash
  <2>1. \A e \in Callers : pc'[e] = "idle"
    BY <1>2 DEF Crash
  <2> QED BY <1>2, <2>1 DEF Crash, Reads, Kinds, Holds, Sealed, store
<1>3. CASE UNCHANGED vars
    BY <1>3 DEF vars, store, sealing, Reads, Kinds, Holds, Hydrate, Sealed
<1> QED BY <1>1, <1>2, <1>3 DEF Next

LEMMA ReadsInvariant == Spec => [](Basic /\ Reads)
<1>1. Init => Basic /\ Reads
    BY InitBasic, InitReads
<1>2. (Basic /\ Reads) /\ [Next]_vars => (Basic /\ Reads)'
    BY BasicStep, ReadsStep
<1> QED BY <1>1, <1>2, PTL DEF Spec

LEMMA ReadsSuffices ==
    ASSUME Basic, Reads
    PROVE  SealsWhatItRead
<1> SUFFICES ASSUME NEW c \in Callers
             PROVE  /\ pc[c] = "cascade" /\ Due(depth[c]) => Hydrate(depth[c]) # {}
                    /\ pc[c] = "summarising" => /\ snapshot[c] = buffer[depth[c]]
                                                /\ inputs[c] = Hydrate(depth[c])
    BY DEF SealsWhatItRead
<1>1. ASSUME pc[c] = "cascade", Due(depth[c]) PROVE Hydrate(depth[c]) # {}
  <2>1. CASE depth[c] = 0
    <3>1. Head(todo[c]) \in buffer[0]
      BY <1>1, <2>1 DEF Reads, Holds
    <3>2. todo[c] \in Seq(Chunks) /\ todo[c] # << >>
      BY <1>1 DEF Basic, TypeOK, AtHand
    <3>3. Head(todo[c]) = todo[c][1] /\ 1 \in 1..Len(todo[c])
      BY <3>2
    <3>4. ref[Head(todo[c])] # None
      BY <1>1, <3>3 DEF Reads, Holds
    <3> QED BY <2>1, <3>1, <3>4 DEF Hydrate
  <2>2. CASE depth[c] # 0
    <3>1. depth[c] \in Levels /\ buffer[depth[c]] # {}
      BY <1>1 DEF Due, ShouldSeal, Basic, TypeOK
    <3> QED BY <2>2, <3>1 DEF Reads, Kinds, Hydrate
  <2> QED BY <2>1, <2>2
<1> QED BY <1>1 DEF Reads, Holds

\* seal_one_level empties what it read, never nothing, and misses no item that
\* was added, and no chunk that was deleted, while it awaited its model.
THEOREM SealsAreOfWhatWasRead == Spec => []SealsWhatItRead
<1>1. Basic /\ Reads => SealsWhatItRead
    BY ReadsSuffices
<1> QED BY <1>1, ReadsInvariant, PTL
-----------------------------------------------------------------------------
(***************************************************************************)
(* The tree.  TreeIsWhole is inductive once it says as well that an id no  *)
(* summary has is nowhere in the tree, which makes it fresh for the next   *)
(* seal; RootAtTop, once it says that a tree without summaries is at       *)
(* level 0.                                                                *)
(***************************************************************************)
Loose ==
    \A s \in SummaryIds \ Sealed :
        /\ \A l \in Levels : s \notin buffer[l]
        /\ \A t \in SummaryIds : s \notin kids[t] /\ parent[t] # s
        /\ parent[s] = None

Tree == TreeIsWhole /\ Loose

Top == RootAtTop /\ (Sealed = {} => maxLevel = 0)

\* Only an append and a seal write to the tree.
LEMMA StoreMoves ==
    ASSUME [Next]_vars
    PROVE  \/ UNCHANGED store
           \/ \E c \in Callers : AppendLeaf(c)
           \/ \E c \in Callers : Seal(c)
<1>1. ASSUME NEW c \in Callers, Step(c), ~AppendLeaf(c), ~Seal(c)
      PROVE  UNCHANGED store
    BY <1>1 DEF Step, Enters, Works, Fails, Ingest, AskRemoval, Lock, Remove, Stage,
                StageFails, Finish, CascadeDone, BeginSeal, SealFails
<1>2. CASE Crash \/ UNCHANGED vars
    BY <1>2 DEF Crash, vars
<1> QED BY <1>1, <1>2 DEF Next

LEMMA InitTree == Init => Tree /\ Top
BY TreeAssumption, LevelFacts DEF Init, Tree, TreeIsWhole, Loose, Top, RootAtTop, Sealed

\* The seal of a buffer that is what was read of it.
LEMMA SealTree ==
    ASSUME Basic, Kinds, Tree, NEW c \in Callers, NEW s \in SummaryIds, SealAs(c, s),
           snapshot[c] = buffer[depth[c]]
    PROVE  Tree'
<1> DEFINE d == depth[c]
           u == depth[c] + 1
           B == buffer[depth[c]]
<1>1. d \in Levels /\ u \in Levels /\ u # d /\ u # 0 /\ d \in Nat
    BY SealLevels
<1>2. \A l \in Levels : buffer'[l] = IF l = u THEN buffer[l] \cup {s}
                                     ELSE IF l = d THEN {} ELSE buffer[l]
    BY EmptiesLevels
<1>3. Sealed' = Sealed \cup {s} /\ s \notin Sealed
    BY SealGrows DEF SealAs
<1>4. \A t \in SummaryIds : /\ level'[t] = IF t = s THEN u ELSE level[t]
                            /\ kids'[t] = IF t = s THEN B ELSE kids[t]
    BY DEF SealAs, Basic, TypeOK
<1>5. \A t \in SummaryIds :
          parent'[t] = IF t \in B /\ parent[t] = None THEN s ELSE parent[t]
    BY DEF SealAs
<1>6. None \notin SummaryIds
    BY TreeAssumption
<1>7. Sealed \subseteq SummaryIds /\ Sealed' \subseteq SummaryIds
    BY DEF Sealed
<1>8. \A t \in SummaryIds : parent[t] \in SummaryIds \cup {None}
    BY DEF Basic, TypeOK
\* What hangs in the buffer that is sealed, what does not, and the new summary.
<1>9. ASSUME NEW t \in Sealed, t \in B
      PROVE  /\ parent[t] = None /\ level[t] = d
             /\ \A l \in Levels : t \in buffer[l] <=> l = d
             /\ \A k \in SummaryIds : t \notin kids[k]
  <2>1. t \in buffer[d] <=> parent[t] = None /\ d = level[t]
    BY <1>1 DEF Tree, TreeIsWhole
  <2>2. parent[t] = None /\ level[t] = d
    BY <1>9, <2>1
  <2> QED BY <2>2, <1>6 DEF Tree, TreeIsWhole
<1>10. /\ s \notin B /\ parent[s] = None
       /\ \A l \in Levels : s \notin buffer[l]
       /\ \A t \in SummaryIds : s \notin kids[t] /\ parent[t] # s
    BY <1>1, <1>3 DEF Tree, Loose
<1> HIDE DEF d, u, B
<1>11. TreeIsWhole'
  <2> SUFFICES ASSUME NEW t \in Sealed'
               PROVE  /\ \A l \in Levels : t \in buffer'[l] <=> parent'[t] = None /\ l = level'[t]
                      /\ \A k \in SummaryIds : t \in kids'[k] <=> k = parent'[t]
                      /\ parent'[t] # None => level'[parent'[t]] = level'[t] + 1
    BY DEF TreeIsWhole
  <2>1. CASE t = s
    <3>1. parent'[t] = None /\ level'[t] = u
      BY <2>1, <1>4, <1>5, <1>10
    <3>2. \A l \in Levels : t \in buffer'[l] <=> l = u
      BY <2>1, <1>1, <1>2, <1>10
    <3>3. \A k \in SummaryIds : t \notin kids'[k]
      BY <2>1, <1>4, <1>10
    <3> QED BY <3>1, <3>2, <3>3, <1>6
  <2>2. CASE t # s /\ t \in B
    <3>1. t \in Sealed /\ t \in SummaryIds
      BY <2>2, <1>3, <1>7
    <3>2. /\ parent[t] = None /\ level[t] = d
          /\ \A l \in Levels : t \in buffer[l] <=> l = d
          /\ \A k \in SummaryIds : t \notin kids[k]
      BY <2>2, <3>1, <1>9
    <3>3. parent'[t] = s /\ level'[t] = d /\ level'[s] = u
      BY <2>2, <3>1, <3>2, <1>4, <1>5
    <3>4. ASSUME NEW l \in Levels PROVE t \notin buffer'[l]
      <4>1. CASE l = u
        <5>1. buffer'[l] = buffer[l] \cup {s} /\ l # d
          BY <4>1, <1>1, <1>2
        <5> QED BY <5>1, <2>2, <3>2
      <4>2. CASE l # u
        <5>1. buffer'[l] = IF l = d THEN {} ELSE buffer[l]
          BY <4>2, <1>2
        <5> QED BY <5>1, <3>2
      <4> QED BY <4>1, <4>2
    <3>5. \A k \in SummaryIds : t \in kids'[k] <=> k = s
      BY <2>2, <3>2, <1>4
    <3>6. u = d + 1
      BY DEF u, d
    <3> QED BY <3>3, <3>4, <3>5, <3>6, <1>6
  <2>3. CASE t # s /\ t \notin B
    <3>1. t \in Sealed /\ t \in SummaryIds
      BY <2>3, <1>3, <1>7
    <3>2. /\ \A l \in Levels : t \in buffer[l] <=> parent[t] = None /\ l = level[t]
          /\ \A k \in SummaryIds : t \in kids[k] <=> k = parent[t]
          /\ parent[t] # None => level[parent[t]] = level[t] + 1
      BY <3>1 DEF Tree, TreeIsWhole
    <3>3. parent'[t] = parent[t] /\ level'[t] = level[t] /\ parent[t] # s
      BY <2>3, <3>1, <1>4, <1>5, <1>10
    <3>4. \A l \in Levels : t \in buffer'[l] <=> t \in buffer[l]
      BY <2>3, <1>2 DEF B, d
    <3>5. \A k \in SummaryIds : t \in kids'[k] <=> t \in kids[k]
      <4>1. t \notin kids[s]
        BY <3>2, <3>3
      <4> QED BY <4>1, <2>3, <1>4
    <3>6. parent[t] # None => level'[parent[t]] = level[parent[t]]
      BY <3>1, <3>3, <1>4, <1>8
    <3> QED BY <3>2, <3>3, <3>4, <3>5, <3>6
  <2> QED BY <2>1, <2>2, <2>3
<1>12. Loose'
  <2> SUFFICES ASSUME NEW t \in SummaryIds, t \notin Sealed'
               PROVE  /\ \A l \in Levels : t \notin buffer'[l]
                      /\ \A k \in SummaryIds : t \notin kids'[k] /\ parent'[k] # t
                      /\ parent'[t] = None
    BY DEF Loose
  <2>1. t \notin Sealed /\ t # s
    BY <1>3
  <2>2. /\ \A l \in Levels : t \notin buffer[l]
        /\ \A k \in SummaryIds : t \notin kids[k] /\ parent[k] # t
        /\ parent[t] = None
    BY <2>1 DEF Tree, Loose
  <2>3. t \notin B
    BY <2>2, <1>1 DEF B, d
  <2>4. ASSUME NEW l \in Levels PROVE t \notin buffer'[l]
    <3>1. \/ buffer'[l] = buffer[l] \cup {s}
          \/ buffer'[l] = {}
          \/ buffer'[l] = buffer[l]
      BY <1>2
    <3> QED BY <3>1, <2>1, <2>2
  <2>5. ASSUME NEW k \in SummaryIds PROVE t \notin kids'[k] /\ parent'[k] # t
    <3>1. kids'[k] = B \/ kids'[k] = kids[k]
      BY <1>4
    <3>2. parent'[k] = s \/ parent'[k] = parent[k]
      BY <1>5
    <3> QED BY <3>1, <3>2, <2>1, <2>2, <2>3
  <2>6. parent'[t] = None
    BY <1>5, <2>2, <2>3
  <2> QED BY <2>4, <2>5, <2>6
<1> QED BY <1>11, <1>12 DEF Tree

LEMMA TreeStep ==
    ASSUME Basic, Reads, Tree, [Next]_vars
    PROVE  Tree'
<1>1. CASE UNCHANGED store
    BY <1>1 DEF store, Tree, TreeIsWhole, Loose, Sealed
<1>2. ASSUME NEW c \in Callers, AppendLeaf(c) PROVE Tree'
  <2>1. Head(todo[c]) \in Chunks
    BY <1>2 DEF AppendLeaf, Basic, TypeOK
  <2>2. \A s \in SummaryIds, l \in Levels : s \in buffer'[l] <=> s \in buffer[l]
    BY <1>2, <2>1, TreeAssumption, LevelFacts DEF AppendLeaf, Enter, Basic, TypeOK
  <2>3. UNCHANGED <<level, kids, parent>> /\ Sealed' = Sealed
    BY <1>2 DEF AppendLeaf, Sealed
  <2>4. Sealed \subseteq SummaryIds
    BY DEF Sealed
  <2> QED BY <2>2, <2>3, <2>4 DEF Tree, TreeIsWhole, Loose
<1>3. ASSUME NEW c \in Callers, Seal(c) PROVE Tree'
  <2>1. PICK s \in SummaryIds : SealAs(c, s)
    BY <1>3, SealNamed
  <2>2. snapshot[c] = buffer[depth[c]]
    BY <2>1 DEF SealAs, Moves, Reads, Holds
  <2> QED BY <2>1, <2>2, SealTree DEF Reads
<1> QED BY <1>1, <1>2, <1>3, StoreMoves

LEMMA TopStep ==
    ASSUME Basic, Top, [Next]_vars
    PROVE  Top'
<1>1. CASE UNCHANGED store
    BY <1>1 DEF store, Top, RootAtTop, Sealed
<1>2. ASSUME NEW c \in Callers, AppendLeaf(c) PROVE Top'
    BY <1>2 DEF AppendLeaf, Top, RootAtTop, Sealed
<1>3. ASSUME NEW c \in Callers, Seal(c) PROVE Top'
  <2>1. PICK s \in SummaryIds : SealAs(c, s)
    BY <1>3, SealNamed
  <2> DEFINE u == depth[c] + 1
  <2>2. Sealed' = Sealed \cup {s} /\ s \notin Sealed /\ u \in Nat /\ u > 0
    <3>1. Sealed' = Sealed \cup {s} /\ s \notin Sealed
      BY <2>1, SealGrows DEF SealAs
    <3>2. depth[c] \in Nat
      BY <2>1, SealLevels
    <3> QED BY <3>1, <3>2
  <2>3. \A t \in SummaryIds : level'[t] = IF t = s THEN u ELSE level[t]
    BY <2>1 DEF SealAs, Basic, TypeOK
  <2>4. /\ root' = IF u > maxLevel THEN s ELSE root
        /\ maxLevel' = IF u > maxLevel THEN u ELSE maxLevel
    BY <2>1 DEF SealAs, ClimbsTo
  <2>5. maxLevel \in Nat /\ Sealed \subseteq SummaryIds
        /\ \A t \in SummaryIds : level[t] \in Nat
    BY LevelFacts DEF Basic, TypeOK, Sealed
  <2> HIDE DEF u
  <2>6. \A t \in Sealed' : level'[t] <= maxLevel'
    <3> SUFFICES ASSUME NEW t \in Sealed' PROVE level'[t] <= maxLevel'
      OBVIOUS
    <3>1. CASE t = s
      BY <3>1, <2>2, <2>3, <2>4, <2>5
    <3>2. CASE t # s
      <4>1. t \in Sealed /\ level'[t] = level[t] /\ level[t] <= maxLevel
        BY <3>2, <2>2, <2>3, <2>5 DEF Top, RootAtTop
      <4> QED BY <4>1, <2>2, <2>4, <2>5
    <3> QED BY <3>1, <3>2
  <2>7. root' \in Sealed' /\ level'[root'] = maxLevel'
    <3>1. CASE u > maxLevel
      BY <3>1, <2>2, <2>3, <2>4
    <3>2. CASE ~(u > maxLevel)
      <4>1. Sealed # {}
        BY <3>2, <2>2, <2>5 DEF Top
      <4>2. root \in Sealed /\ level[root] = maxLevel
        BY <4>1 DEF Top, RootAtTop
      <4> QED BY <3>2, <4>2, <2>2, <2>3, <2>4, <2>5
    <3> QED BY <3>1, <3>2
  <2> QED BY <2>2, <2>6, <2>7 DEF Top, RootAtTop
<1> QED BY <1>1, <1>2, <1>3, StoreMoves

LEMMA TreeInvariant == Spec => [](Tree /\ Top)
<1>1. Init => Tree /\ Top
    BY InitTree
<1>2. (Basic /\ Reads) /\ (Tree /\ Top) /\ [Next]_vars => (Tree /\ Top)'
    BY TreeStep, TopStep
<1> QED BY <1>1, <1>2, ReadsInvariant, PTL DEF Spec

\* seal_one_level's transaction: every summary hangs in the tree once, for any
\* fan-out, depth and number of callers, whatever fails or is cut off.
THEOREM TreeAlwaysWhole == Spec => []TreeIsWhole
<1>1. Tree /\ Top => TreeIsWhole
    BY DEF Tree
<1> QED BY <1>1, TreeInvariant, PTL

\* update_tree_after_seal_tx: the root is a summary of the highest level.
THEOREM RootAlwaysAtTop == Spec => []RootAtTop
<1>1. Tree /\ Top => RootAtTop
    BY DEF Top
<1> QED BY <1>1, TreeInvariant, PTL

-----------------------------------------------------------------------------
(***************************************************************************)
(* The refinement of LeafLog: an append takes one leaf, a seal moves the   *)
(* leaves of level 0 to a summary of level 1, and nothing else touches     *)
(* them.                                                                   *)
(***************************************************************************)
\* A seal of level 0 puts the new summary over each leaf of the buffer.
LEMMA SealLeafs ==
    ASSUME Basic, NEW c \in Callers, NEW s \in SummaryIds, SealAs(c, s),
           snapshot[c] = buffer[depth[c]], NEW k \in Chunks
    PROVE  /\ s \notin InL1(k)
           /\ InL1(k)' = IF depth[c] = 0 /\ k \in buffer[0] THEN InL1(k) \cup {s} ELSE InL1(k)
           /\ depth[c] = 0 => buffer'[0] = {}
           /\ depth[c] # 0 => buffer'[0] = buffer[0]
<1> DEFINE d == depth[c]
           u == depth[c] + 1
<1>1. d \in Levels /\ u # d /\ u # 0 /\ d \in Nat /\ 0 \in Levels /\ u = d + 1
    BY SealLevels, LevelFacts
<1>2. \A l \in Levels : buffer'[l] = IF l = u THEN buffer[l] \cup {s}
                                     ELSE IF l = d THEN {} ELSE buffer[l]
    BY EmptiesLevels
<1>3. \A t \in SummaryIds : /\ level'[t] = IF t = s THEN u ELSE level[t]
                            /\ kids'[t] = IF t = s THEN buffer[d] ELSE kids[t]
    BY DEF SealAs, Basic, TypeOK
<1>4. level[s] # 1
    BY DEF SealAs, Sealed
<1> HIDE DEF d, u
<1>5. s \notin InL1(k)
    BY <1>4 DEF InL1
<1>6. u = 1 <=> d = 0
    BY <1>1
<1>7. ASSUME NEW t \in SummaryIds
      PROVE  t \in InL1(k)' <=> t \in InL1(k) \/ (t = s /\ d = 0 /\ k \in buffer[0])
  <2>1. CASE t = s
    <3>1. level'[t] = u /\ kids'[t] = buffer[d]
      BY <1>3, <2>1
    <3>2. t \in InL1(k)' <=> u = 1 /\ k \in buffer[d]
      BY <3>1 DEF InL1
    <3> QED BY <1>5, <1>6, <2>1, <3>2
  <2>2. CASE t # s
    <3>1. level'[t] = level[t] /\ kids'[t] = kids[t]
      BY <1>3, <2>2
    <3> QED BY <2>2, <3>1 DEF InL1
  <2> QED BY <2>1, <2>2
<1>8. InL1(k) \subseteq SummaryIds /\ InL1(k)' \subseteq SummaryIds
    BY DEF InL1
<1>9. InL1(k)' = IF d = 0 /\ k \in buffer[0] THEN InL1(k) \cup {s} ELSE InL1(k)
    BY <1>7, <1>8
<1>10. (d = 0 => buffer'[0] = {}) /\ (d # 0 => buffer'[0] = buffer[0])
    BY <1>1, <1>2
<1> QED BY <1>5, <1>9, <1>10 DEF d

LEMMA SealHolds ==
    ASSUME Basic, NEW c \in Callers, NEW s \in SummaryIds, SealAs(c, s),
           snapshot[c] = buffer[depth[c]]
    PROVE  Held' = Held
<1>1. \A k \in Chunks :
        (k \in buffer'[0] \/ InL1(k)' # {}) <=> (k \in buffer[0] \/ InL1(k) # {})
    BY SealLeafs
<1> QED BY <1>1 DEF Held

LEMMA HeldStep ==
    ASSUME Basic, Reads, Tree, [Next]_vars
    PROVE  (\E k \in Chunks : Held' = Held \cup {k}) \/ Held' = Held
<1>1. CASE UNCHANGED store
    BY <1>1 DEF store, Held, InL1
<1>2. ASSUME NEW c \in Callers, AppendLeaf(c)
      PROVE  \E k \in Chunks : Held' = Held \cup {k}
  <2>1. Head(todo[c]) \in Chunks
    BY <1>2 DEF AppendLeaf, Basic, TypeOK
  <2>2. buffer'[0] = buffer[0] \cup {Head(todo[c])}
    BY <1>2, LevelFacts DEF AppendLeaf, Enter, Basic, TypeOK
  <2>3. \A k \in Chunks : InL1(k)' = InL1(k)
    BY <1>2 DEF AppendLeaf, InL1
  <2>4. Held' = Held \cup {Head(todo[c])}
    BY <2>1, <2>2, <2>3 DEF Held
  <2> QED BY <2>1, <2>4
<1>3. ASSUME NEW c \in Callers, Seal(c) PROVE Held' = Held
  <2>1. PICK s \in SummaryIds : SealAs(c, s)
    BY <1>3, SealNamed
  <2>2. snapshot[c] = buffer[depth[c]]
    BY <2>1 DEF SealAs, Moves, Reads, Holds
  <2> QED BY <2>1, <2>2, SealHolds DEF Reads
<1> QED BY <1>1, <1>2, <1>3, StoreMoves

\* Whatever fails, crashes or runs beside it, a leaf that append_leaf took stays
\* in the buffer or under a summary: the tree implements the log of its leaves.
THEOREM ImplementsLeafLog == Spec => LeavesAreHeld
<1>1. Init => Log!Init
    BY LevelFacts DEF Init, Log!Init, Held, InL1
<1>2. (Basic /\ Reads) /\ (Tree /\ Top) /\ [Next]_vars => [Log!Next]_Held
    BY HeldStep DEF Log!Next, Log!Take
<1> QED BY <1>1, <1>2, ReadsInvariant, TreeInvariant, PTL
        DEF Spec, LeavesAreHeld, Log!Spec

-----------------------------------------------------------------------------
(***************************************************************************)
(* One place for a leaf.  A leaf of a document that is ingested once waits *)
(* in one caller's hands at most, and while it does it is not in the tree. *)
(***************************************************************************)
\* Chunk ids are made of the document's key and the chunk's number in it.
DistinctChunks ==
    \A d \in Docs : \A i, j \in 1..Len(ChunksOf[d]) :
        ChunksOf[d][i] = ChunksOf[d][j] => i = j

\* The caller will still append the leaf.
Pending(c, k) ==
    \/ pc[c] \in {"wait_store", "staging"} /\ k \in Range(ChunksOf[doc[c]])
    \/ pc[c] = "appending" /\ \E i \in 1..Len(todo[c]) : todo[c][i] = k
    \/ /\ pc[c] \in {"cascade", "summarising"}
       /\ \E i \in 1..Len(todo[c]) : i # 1 /\ todo[c][i] = k

Awaited ==
    \A c \in Callers : \A k \in Chunks : Pending(c, k) =>
        doc[c] \in Docs /\ ingests[doc[c]] > 0 /\ k \in Range(ChunksOf[doc[c]])

NoRepeats ==
    \A c \in Callers : pc[c] \in {"appending", "cascade", "summarising"} =>
        \A i, j \in 1..Len(todo[c]) : todo[c][i] = todo[c][j] => i = j

Origin == \A k \in Held : \E d \in Docs : ingests[d] > 0 /\ k \in Range(ChunksOf[d])

Single ==
    \A k \in Chunks : IngestedOnce(k) =>
        \A c \in Callers : Pending(c, k) =>
            k \notin Held /\ \A e \in Callers : Pending(e, k) => e = c

Leaves == Awaited /\ NoRepeats /\ Origin /\ Single /\ LeafInOnePlace

\* Who gets a leaf in hand, and who puts one into the tree.
LEMMA PendingMoves ==
    ASSUME Basic, NoRepeats, NEW c \in Callers, Step(c), NEW e \in Callers, NEW k \in Chunks
    PROVE  Pending(e, k)' =>
             \/ e = c /\ \E d \in Docs : Ingest(c, d) /\ k \in Range(ChunksOf[d]) /\ doc'[c] = d
             \/ /\ Pending(e, k) /\ doc'[e] = doc[e]
                /\ e = c => ~(AppendLeaf(c) /\ k = Head(todo[c]))
<1> USE DEF Basic, TypeOK
<1> SUFFICES ASSUME Pending(e, k)'
             PROVE  \/ e = c /\ \E d \in Docs : Ingest(c, d) /\ k \in Range(ChunksOf[d])
                                                /\ doc'[c] = d
                    \/ /\ Pending(e, k) /\ doc'[e] = doc[e]
                       /\ e = c => ~(AppendLeaf(c) /\ k = Head(todo[c]))
  OBVIOUS
<1>1. CASE e # c
  <2>1. pc'[e] = pc[e] /\ todo'[e] = todo[e]
    BY <1>1, OthersStill
  <2>2. doc'[e] = doc[e]
    BY <1>1 DEF Step, Enters, Works, Fails, Ingest, AskRemoval, Lock, Remove, Stage,
                StageFails, Finish, AppendLeaf, CascadeDone, BeginSeal, Seal, SealFails
  <2> QED BY <1>1, <2>1, <2>2 DEF Pending
<1>2. CASE e = c
  <2>1. ASSUME NEW d \in Docs, Ingest(c, d)
        PROVE  k \in Range(ChunksOf[d]) /\ doc'[c] = d
    BY <1>2, <2>1 DEF Ingest, Moves, Pending
  <2>2. ASSUME pc'[c] \in {"idle", "wait_delete"}
        PROVE  FALSE
    BY <1>2, <2>2 DEF Pending
  <2>3. CASE \/ \E d \in Docs \cup {None} : AskRemoval(c, d)
             \/ Remove(c) \/ Finish(c) \/ Fails(c)
    BY <2>2, <2>3 DEF AskRemoval, Remove, Finish, Fails, StageFails, SealFails, GivesUp, Moves
  <2>4. CASE Lock(c)
    BY <1>2, <2>4 DEF Lock, Moves, Pending, AppendLeaf
  <2>5. CASE Stage(c)
    <3>1. /\ pc[c] = "staging" /\ pc'[c] = "appending" /\ todo'[c] = ChunksOf[doc[c]]
          /\ doc' = doc /\ doc[c] \in Docs
      BY <2>5 DEF Stage, Moves, AtHand
    <3>2. \E i \in 1..Len(ChunksOf[doc[c]]) : ChunksOf[doc[c]][i] = k
      BY <1>2, <3>1 DEF Pending
    <3>3. ChunksOf[doc[c]] \in Seq(Chunks)
      BY <3>1, TreeAssumption
    <3>4. k \in Range(ChunksOf[doc[c]])
      BY <3>2, <3>3 DEF Range
    <3> QED BY <1>2, <3>1, <3>4 DEF Pending, AppendLeaf, Moves
  <2>6. CASE AppendLeaf(c)
    <3>1. /\ pc[c] = "appending" /\ pc'[c] = "cascade" /\ todo'[c] = todo[c] /\ doc' = doc
          /\ todo[c] \in Seq(Chunks) /\ todo[c] # << >>
      BY <2>6 DEF AppendLeaf, Moves
    <3>2. PICK i \in 1..Len(todo[c]) : i # 1 /\ todo[c][i] = k
      BY <1>2, <3>1 DEF Pending
    <3>3. Head(todo[c]) = todo[c][1] /\ 1 \in 1..Len(todo[c])
      BY <3>1
    <3>4. k # Head(todo[c])
      BY <3>1, <3>2, <3>3 DEF NoRepeats
    <3> QED BY <1>2, <3>1, <3>2, <3>4 DEF Pending
  <2>7. CASE CascadeDone(c)
    <3>1. /\ pc[c] = "cascade" /\ pc'[c] = "appending" /\ todo'[c] = Tail(todo[c]) /\ doc' = doc
          /\ todo[c] \in Seq(Chunks) /\ todo[c] # << >>
      BY <2>7 DEF CascadeDone, Moves, AtHand
    <3>2. PICK i \in 1..Len(Tail(todo[c])) : Tail(todo[c])[i] = k
      BY <1>2, <3>1 DEF Pending
    <3>3. i + 1 \in 1..Len(todo[c]) /\ i + 1 # 1 /\ todo[c][i + 1] = k
      BY <3>1, <3>2
    <3> QED BY <1>2, <3>1, <3>3 DEF Pending, AppendLeaf, Moves
  <2>8. CASE BeginSeal(c)
    <3>1. pc'[c] = "summarising"
      BY <2>2, <2>8 DEF BeginSeal, GivesUp, Moves
    <3> QED BY <1>2, <2>8, <3>1 DEF BeginSeal, Moves, Pending, AppendLeaf
  <2>9. CASE Seal(c)
    BY <1>2, <2>9 DEF Seal, Moves, Pending, AppendLeaf
  <2> QED BY <1>2, <2>1, <2>3, <2>4, <2>5, <2>6, <2>7, <2>8, <2>9 DEF Step, Enters, Works
<1> QED BY <1>1, <1>2

LEMMA NoRepeatsStep ==
    ASSUME Basic, DistinctChunks, NoRepeats, NEW c \in Callers, Step(c)
    PROVE  NoRepeats'
<1> USE DEF Basic, TypeOK
<1> SUFFICES ASSUME NEW e \in Callers, pc'[e] \in {"appending", "cascade", "summarising"}
             PROVE  \A i, j \in 1..Len(todo'[e]) : todo'[e][i] = todo'[e][j] => i = j
  BY DEF NoRepeats
<1>1. ASSUME todo'[e] = todo[e], pc[e] \in {"appending", "cascade", "summarising"}
      PROVE  \A i, j \in 1..Len(todo'[e]) : todo'[e][i] = todo'[e][j] => i = j
  BY <1>1 DEF NoRepeats
<1>2. CASE e # c
  BY <1>1, <1>2, OthersStill
<1>3. CASE e = c /\ Stage(c)
  <2>1. todo'[c] = ChunksOf[doc[c]] /\ doc[c] \in Docs
    BY <1>3 DEF Stage, Moves, AtHand
  <2> QED BY <1>3, <2>1 DEF DistinctChunks
<1>4. CASE e = c /\ CascadeDone(c)
  <2>1. /\ pc[c] = "cascade" /\ todo'[c] = Tail(todo[c])
        /\ todo[c] \in Seq(Chunks) /\ todo[c] # << >>
    BY <1>4 DEF CascadeDone, Moves, AtHand
  <2>2. \A i \in 1..Len(Tail(todo[c])) : /\ Tail(todo[c])[i] = todo[c][i + 1]
                                        /\ i + 1 \in 1..Len(todo[c])
    BY <2>1
  <2>3. \A i, j \in 1..Len(todo[c]) : todo[c][i] = todo[c][j] => i = j
    BY <2>1 DEF NoRepeats
  <2>4. ASSUME NEW i \in 1..Len(Tail(todo[c])), NEW j \in 1..Len(Tail(todo[c])),
               Tail(todo[c])[i] = Tail(todo[c])[j]
        PROVE  i = j
    <3>1. todo[c][i + 1] = todo[c][j + 1]
      BY <2>2, <2>4
    <3>2. i + 1 = j + 1
      BY <2>2, <2>3, <3>1
    <3> QED BY <3>2
  <2> QED BY <1>4, <2>1, <2>4
<1>5. CASE e = c /\ (AppendLeaf(c) \/ BeginSeal(c) \/ Seal(c))
  BY <1>1, <1>5 DEF AppendLeaf, BeginSeal, Seal, Moves, GivesUp
<1>6. CASE /\ e = c
           /\ \/ \E d \in Docs : Ingest(c, d)
              \/ \E d \in Docs \cup {None} : AskRemoval(c, d)
              \/ Enters(c) \/ Finish(c) \/ Fails(c)
  BY <1>6 DEF Ingest, AskRemoval, Enters, Lock, Remove, Finish, Fails, StageFails, SealFails,
     GivesUp, Moves
<1> QED BY <1>2, <1>3, <1>4, <1>5, <1>6 DEF Step, Works

\* An ingest is counted before anything else happens, and never uncounted.
LEMMA IngestCounts ==
    ASSUME Basic, NEW c \in Callers, Step(c)
    PROVE  \/ ingests' = ingests
           \/ \E d \in Docs : Ingest(c, d) /\ ingests' = [ingests EXCEPT ![d] = @ + 1]
BY DEF Step, Enters, Works, Fails, Ingest, AskRemoval, Lock, Remove, Stage, StageFails,
       Finish, AppendLeaf, CascadeDone, BeginSeal, Seal, SealFails

LEMMA OnceStays ==
    ASSUME Basic, NEW c \in Callers, Step(c), NEW k \in Chunks, IngestedOnce(k)'
    PROVE  IngestedOnce(k)
<1>1. CASE ingests' = ingests
  BY <1>1 DEF IngestedOnce
<1>2. ASSUME NEW d \in Docs, ingests' = [ingests EXCEPT ![d] = @ + 1]
      PROVE  IngestedOnce(k)
  <2>1. \A e \in Docs : ingests[e] \in Nat /\ ingests'[e] = IF e = d THEN ingests[d] + 1 ELSE ingests[e]
    BY <1>2 DEF Basic, TypeOK
  <2>2. \A e \in Docs : ingests[e] > 0 => ingests'[e] > 0
    BY <2>1
  <2>3. \A e \in Docs : ingests[e] > 0 /\ ingests'[e] = 1 => ingests[e] = 1
    BY <2>1
  <2> QED BY <2>2, <2>3 DEF IngestedOnce
<1> QED BY <1>1, <1>2, IngestCounts

\* A step after which the tree's leaves are those of before.
LEMMA QuietLeaves ==
    ASSUME Basic, Leaves, DistinctChunks, NEW c \in Callers, Step(c), ingests' = ingests,
           ~ \E d \in Docs : Ingest(c, d),
           Held' = Held, LeafInOnePlace'
    PROVE  Leaves'
<1>1. \A e \in Callers, k \in Chunks : Pending(e, k)' => Pending(e, k) /\ doc'[e] = doc[e]
  BY PendingMoves DEF Leaves
<1>2. Awaited'
  BY <1>1 DEF Leaves, Awaited
<1>3. NoRepeats'
  BY NoRepeatsStep DEF Leaves
<1>4. Origin'
  BY DEF Leaves, Origin
<1>5. \A k \in Chunks : IngestedOnce(k)' => IngestedOnce(k)
  BY OnceStays
<1>6. Single'
  BY <1>1, <1>5 DEF Leaves, Single
<1> QED BY <1>2, <1>3, <1>4, <1>6 DEF Leaves

LEMMA IngestLeaves ==
    ASSUME Basic, Leaves, DistinctChunks, NEW c \in Callers, NEW d \in Docs, Ingest(c, d)
    PROVE  Leaves'
<1> USE DEF Leaves
<1>0. Step(c)
  BY DEF Step
<1>1. /\ \A e \in Docs : ingests[e] \in Nat
      /\ \A e \in Docs : ingests'[e] = IF e = d THEN ingests[d] + 1 ELSE ingests[e]
      /\ UNCHANGED store /\ doc'[c] = d
  BY DEF Basic, TypeOK, Ingest
<1>2. Held' = Held /\ \A k \in Chunks : InL1(k)' = InL1(k)
  BY <1>1 DEF Held, InL1, store
<1>3. \A e \in Callers, k \in Chunks : Pending(e, k)' =>
         \/ e = c /\ k \in Range(ChunksOf[d]) /\ doc'[e] = d
         \/ Pending(e, k) /\ doc'[e] = doc[e]
  BY <1>0, <1>1, PendingMoves
<1>4. \A e \in Docs : ingests[e] > 0 => ingests'[e] > 0
  BY <1>1
<1>5. Awaited'
  BY <1>1, <1>3, <1>4 DEF Awaited
<1>6. NoRepeats'
  BY <1>0, NoRepeatsStep
<1>7. Origin'
  BY <1>2, <1>4 DEF Origin
<1>8. \A k \in Chunks : IngestedOnce(k)' => IngestedOnce(k)
  BY <1>0, OnceStays
<1>9. ASSUME NEW k \in Chunks, IngestedOnce(k)', k \in Range(ChunksOf[d])
      PROVE  \A e \in Docs : k \in Range(ChunksOf[e]) => ~(ingests[e] > 0)
  <2> SUFFICES ASSUME NEW e \in Docs, k \in Range(ChunksOf[e]), ingests[e] > 0
               PROVE  FALSE
    OBVIOUS
  <2>1. ingests'[d] > 0 /\ ingests'[e] > 0
    BY <1>1, <1>4
  <2>2. d = e /\ ingests'[d] = 1
    BY <1>9, <2>1 DEF IngestedOnce
  <2> QED BY <1>1, <2>2
<1>10. ASSUME NEW k \in Chunks, IngestedOnce(k)', NEW e \in Callers, Pending(e, k)'
       PROVE  k \notin Held /\ \A f \in Callers : Pending(f, k)' => f = e
  <2>1. CASE k \in Range(ChunksOf[d])
    <3>1. k \notin Held
      BY <1>9, <1>10, <2>1 DEF Origin
    <3>2. \A f \in Callers : ~Pending(f, k)
      BY <1>9, <1>10, <2>1 DEF Awaited
    <3> QED BY <1>3, <1>10, <3>1, <3>2
  <2>2. CASE k \notin Range(ChunksOf[d])
    <3>1. \A f \in Callers : Pending(f, k)' => Pending(f, k)
      BY <1>3, <2>2
    <3> QED BY <1>8, <1>10, <3>1 DEF Single
  <2> QED BY <2>1, <2>2
<1>11. Single'
  BY <1>2, <1>10 DEF Single
<1>12. LeafInOnePlace'
  BY <1>1, <1>2, <1>8 DEF LeafInOnePlace, store
<1> QED BY <1>5, <1>6, <1>7, <1>11, <1>12

LEMMA AppendLeaves ==
    ASSUME Basic, Leaves, DistinctChunks, NEW c \in Callers, AppendLeaf(c)
    PROVE  Leaves'
<1> USE DEF Leaves
<1> DEFINE h == Head(todo[c])
<1>0. Step(c)
  BY DEF Step, Works
<1>1. /\ pc[c] = "appending" /\ ingests' = ingests /\ todo[c] \in Seq(Chunks) /\ todo[c] # << >>
      /\ UNCHANGED <<level, kids>>
  BY DEF AppendLeaf, Moves, Basic, TypeOK
<1>2. h \in Chunks /\ h = todo[c][1] /\ 1 \in 1..Len(todo[c])
  BY <1>1
<1>3. Pending(c, h)
  BY <1>1, <1>2 DEF Pending
<1>4. buffer'[0] = buffer[0] \cup {h}
  BY <1>2, LevelFacts DEF AppendLeaf, Enter, Basic, TypeOK
<1>5. \A k \in Chunks : InL1(k)' = InL1(k)
  BY <1>1 DEF InL1
<1>6. Held' = Held \cup {h}
  BY <1>2, <1>4, <1>5 DEF Held
<1>7. ~ \E d \in Docs : Ingest(c, d)
  BY <1>1 DEF Ingest, Moves
<1>8. \A e \in Callers, k \in Chunks : Pending(e, k)' =>
         Pending(e, k) /\ doc'[e] = doc[e] /\ (e = c => k # h)
  BY <1>0, <1>7, PendingMoves
<1> HIDE DEF h
<1>9. Awaited'
  BY <1>1, <1>8 DEF Awaited
<1>10. NoRepeats'
  BY <1>0, NoRepeatsStep
<1>11. Origin'
  BY <1>1, <1>2, <1>3, <1>6 DEF Origin, Awaited
<1>12. \A k \in Chunks : IngestedOnce(k)' => IngestedOnce(k)
  BY <1>0, OnceStays
<1>13. Single'
  <2> SUFFICES ASSUME NEW k \in Chunks, IngestedOnce(k)', NEW e \in Callers, Pending(e, k)'
               PROVE  k \notin Held' /\ \A f \in Callers : Pending(f, k)' => f = e
    BY DEF Single
  <2>1. IngestedOnce(k) /\ Pending(e, k)
    BY <1>8, <1>12
  <2>2. k \notin Held /\ \A f \in Callers : Pending(f, k) => f = e
    BY <2>1 DEF Single
  <2>3. k # h
    BY <1>3, <1>8, <2>2
  <2> QED BY <1>6, <1>8, <2>2, <2>3
<1>14. LeafInOnePlace'
  <2> SUFFICES ASSUME NEW k \in Chunks, IngestedOnce(k)'
               PROVE  /\ k \in buffer'[0] => InL1(k)' = {}
                      /\ \A s, t \in InL1(k)' : s = t
    BY DEF LeafInOnePlace
  <2>1. /\ k \in buffer[0] => InL1(k) = {}
        /\ \A s, t \in InL1(k) : s = t
    BY <1>12 DEF LeafInOnePlace
  <2>2. k = h => InL1(k) = {}
    BY <1>3, <1>12 DEF Single, Held
  <2> QED BY <1>4, <1>5, <2>1, <2>2
<1> QED BY <1>9, <1>10, <1>11, <1>13, <1>14

LEMMA LeavesStep ==
    ASSUME Basic, Reads, Leaves, DistinctChunks, [Next]_vars
    PROVE  Leaves'
<1>1. ASSUME NEW c \in Callers, Step(c), ~AppendLeaf(c), ~ \E d \in Docs : Ingest(c, d)
      PROVE  Leaves'
  <2>1. ingests' = ingests
    BY <1>1, IngestCounts
  <2>2. \A k \in Chunks : IngestedOnce(k)' => IngestedOnce(k)
    BY <1>1, OnceStays
  <2>3. CASE Seal(c)
    <3>1. PICK s \in SummaryIds : SealAs(c, s)
      BY <2>3, SealNamed
    <3>2. snapshot[c] = buffer[depth[c]]
      BY <3>1 DEF SealAs, Moves, Reads, Holds
    <3>3. Held' = Held
      BY <3>1, <3>2, SealHolds
    <3>4. LeafInOnePlace'
      <4> SUFFICES ASSUME NEW k \in Chunks, IngestedOnce(k)'
                   PROVE  /\ k \in buffer'[0] => InL1(k)' = {}
                          /\ \A r, t \in InL1(k)' : r = t
        BY DEF LeafInOnePlace
      <4>1. /\ k \in buffer[0] => InL1(k) = {}
            /\ \A r, t \in InL1(k) : r = t
        BY <2>2 DEF Leaves, LeafInOnePlace
      <4> QED BY <3>1, <3>2, <4>1, SealLeafs
    <3> QED BY <1>1, <2>1, <3>3, <3>4, QuietLeaves
  <2>4. CASE ~Seal(c)
    <3>1. UNCHANGED store
      BY <1>1, <2>4 DEF Step, Enters, Works, Fails, AskRemoval, Lock, Remove, Stage,
         StageFails, Finish, CascadeDone, BeginSeal, SealFails
    <3>2. Held' = Held /\ \A k \in Chunks : InL1(k)' = InL1(k)
      BY <3>1 DEF Held, InL1, store
    <3>3. LeafInOnePlace'
      BY <2>2, <3>1, <3>2 DEF Leaves, LeafInOnePlace, store
    <3> QED BY <1>1, <2>1, <3>2, <3>3, QuietLeaves
  <2> QED BY <2>3, <2>4
<1>2. CASE Crash
  <2>1. \A e \in Callers : pc'[e] = "idle"
    BY <1>2 DEF Crash
  <2>2. UNCHANGED <<store, ingests>>
    BY <1>2 DEF Crash
  <2>3. Held' = Held /\ \A k \in Chunks : InL1(k)' = InL1(k)
    BY <2>2 DEF Held, InL1, store
  <2> QED BY <2>1, <2>2, <2>3 DEF Leaves, Awaited, NoRepeats, Origin, Single, LeafInOnePlace,
             Pending, IngestedOnce, store
<1>3. CASE UNCHANGED vars
  <2>1. UNCHANGED <<store, ingests, pc, todo, doc>>
    BY <1>3 DEF vars
  <2>2. Held' = Held /\ \A k \in Chunks : InL1(k)' = InL1(k)
    BY <2>1 DEF Held, InL1, store
  <2> QED BY <2>1, <2>2 DEF Leaves, Awaited, NoRepeats, Origin, Single, LeafInOnePlace,
             Pending, IngestedOnce, store
<1> QED BY <1>1, <1>2, <1>3, IngestLeaves, AppendLeaves DEF Next

\* append_leaf and seal_one_level: a chunk of a document that was ingested once
\* is in one place of the tree only, whatever else is ingested, deleted or fails.
THEOREM LeavesInOnePlace == DistinctChunks => (Spec => []LeafInOnePlace)
<1> SUFFICES ASSUME DistinctChunks
             PROVE  Spec => []LeafInOnePlace
  OBVIOUS
<1>1. Init => Leaves
  BY LevelFacts DEF Init, Leaves, Awaited, NoRepeats, Origin, Single, LeafInOnePlace, Pending,
     Held, InL1
<1>2. (Basic /\ Reads) /\ Leaves /\ [Next]_vars => Leaves'
  BY LeavesStep
<1>3. Leaves => LeafInOnePlace
  BY DEF Leaves
<1> QED BY <1>1, <1>2, <1>3, ReadsInvariant, PTL DEF Spec
-----------------------------------------------------------------------------
(***************************************************************************)
(* The sizes of the buffers.  A level may meet its gate while the cascade  *)
(* is at it, and then by one item at most; every way out of that place     *)
(* seals it or counts as a trouble.                                        *)
(***************************************************************************)
At(c, l) == pc[c] \in {"cascade", "summarising"} /\ depth[c] = l

Finite == \A l \in Levels : IsFiniteSet(buffer[l])

Fits(l) ==
    \/ Cardinality(buffer[l]) < Fanout + troubles
    \/ /\ Cardinality(buffer[l]) <= Fanout + troubles
       /\ \E c \in Callers : At(c, l)

Sizes == Finite /\ \A l \in Levels : l < MaxDepth => Fits(l)

\* A buffer takes one more item, or is emptied.
LEMMA FiniteStep ==
    ASSUME Basic, Finite, [Next]_vars
    PROVE  Finite'
<1> SUFFICES ASSUME NEW l \in Levels
             PROVE  IsFiniteSet(buffer'[l])
    BY DEF Finite
<1>0. IsFiniteSet(buffer[l])
    BY DEF Finite
<1>1. CASE UNCHANGED store
    BY <1>0, <1>1 DEF store
<1>2. ASSUME NEW c \in Callers, AppendLeaf(c) PROVE IsFiniteSet(buffer'[l])
  <2>1. buffer'[l] = buffer[l] \cup {Head(todo[c])} \/ buffer'[l] = buffer[l]
    BY <1>2 DEF AppendLeaf, Enter, Basic, TypeOK
  <2> QED BY <1>0, <2>1, FS_AddElement
<1>3. ASSUME NEW c \in Callers, Seal(c) PROVE IsFiniteSet(buffer'[l])
  <2>1. PICK s \in SummaryIds : SealAs(c, s)
    BY <1>3, SealNamed
  <2>2. buffer'[l] = buffer[l] \cup {s} \/ buffer'[l] = {} \/ buffer'[l] = buffer[l]
    <3>1. buffer'[l] = IF l = depth[c] + 1 THEN buffer[l] \cup {s}
                       ELSE IF l = depth[c] THEN {} ELSE buffer[l]
      BY <2>1, EmptiesLevels
    <3> QED BY <3>1
  <2>3. IsFiniteSet(buffer[l] \cup {s})
    BY <1>0, FS_AddElement
  <2>4. IsFiniteSet({})
    BY FS_EmptySet
  <2> QED BY <1>0, <2>2, <2>3, <2>4
<1> QED BY <1>1, <1>2, <1>3, StoreMoves

\* While one call holds the mutex, no other has a cascade under way.
LEMMA OneCascade ==
    ASSUME Basic, NEW c \in Callers, pc[c] \in Busy
    PROVE  \A e \in Callers, l \in Levels : At(e, l) => e = c
BY DEF Basic, Exclusion, Busy, At

\* A level the step does not touch, and that its call is not about to leave.
LEMMA FitsStays ==
    ASSUME Basic, NEW c \in Callers, Step(c), NEW l \in Levels, Fits(l),
           buffer'[l] = buffer[l], troubles' = troubles, At(c, l) => At(c, l)'
    PROVE  Fits(l)'
<1>1. ASSUME NEW e \in Callers, At(e, l) PROVE At(e, l)'
    BY <1>1, OthersStill DEF At
<1> QED BY <1>1 DEF Fits

\* The item that an append or a seal adds finds room below the gate.
LEMMA FitsOneMore ==
    ASSUME Basic, Finite, NEW c \in Callers, NEW l \in Levels, Fits(l),
           pc[c] \in Busy, ~At(c, l), NEW x, buffer'[l] = buffer[l] \cup {x},
           troubles' = troubles, At(c, l)'
    PROVE  Fits(l)'
<1>1. Cardinality(buffer[l]) < Fanout + troubles
    BY OneCascade DEF Fits
<1>2. IsFiniteSet(buffer[l])
    BY DEF Finite
<1>3. /\ Cardinality(buffer[l]) \in Nat
      /\ \/ Cardinality(buffer'[l]) = Cardinality(buffer[l])
         \/ Cardinality(buffer'[l]) = Cardinality(buffer[l]) + 1
    BY <1>2, FS_CardinalityType, FS_AddElement
<1>4. Fanout \in Nat /\ troubles \in Nat
    BY TreeAssumption DEF Basic, TypeOK
<1>5. Cardinality(buffer'[l]) <= Fanout + troubles'
    BY <1>1, <1>3, <1>4
<1> QED BY <1>5 DEF Fits

\* One more trouble makes up for a level that is left above its gate.
LEMMA FitsTrouble ==
    ASSUME Basic, Finite, NEW l \in Levels, Fits(l),
           buffer'[l] = buffer[l], troubles' = troubles + 1
    PROVE  Fits(l)'
<1>1. IsFiniteSet(buffer[l])
    BY DEF Finite
<1>2. Cardinality(buffer[l]) \in Nat
    BY <1>1, FS_CardinalityType
<1>3. Fanout \in Nat /\ troubles \in Nat
    BY TreeAssumption DEF Basic, TypeOK
<1>4. Cardinality(buffer[l]) <= Fanout + troubles
    BY <1>2, <1>3 DEF Fits
<1>5. Cardinality(buffer'[l]) < Fanout + troubles'
    BY <1>2, <1>3, <1>4
<1> QED BY <1>5 DEF Fits

\* A gate that is not met, and an empty buffer.
LEMMA FitsBelowGate ==
    ASSUME Basic, Finite, NEW l \in Levels, ~ShouldSeal(l),
           buffer'[l] = buffer[l], troubles' = troubles
    PROVE  Fits(l)'
<1>1. IsFiniteSet(buffer[l])
    BY DEF Finite
<1>2. Cardinality(buffer[l]) \in Nat /\ (buffer[l] = {} => Cardinality(buffer[l]) = 0)
    BY <1>1, FS_CardinalityType, FS_EmptySet
<1>3. Fanout \in Nat \ {0} /\ troubles \in Nat
    BY TreeAssumption DEF Basic, TypeOK
<1>4. Cardinality(buffer[l]) < Fanout
    BY <1>2, <1>3 DEF ShouldSeal
<1>5. Cardinality(buffer'[l]) < Fanout + troubles'
    BY <1>2, <1>3, <1>4
<1> QED BY <1>5 DEF Fits

LEMMA FitsStep ==
    ASSUME Basic, Reads, Sizes, NEW c \in Callers, Step(c), NEW l \in Levels, l < MaxDepth
    PROVE  Fits(l)'
<1>0. Finite /\ Fits(l)
    BY DEF Sizes
<1>1. CASE \/ \E d \in Docs : Ingest(c, d)
           \/ \E d \in Docs \cup {None} : AskRemoval(c, d)
           \/ Enters(c) \/ Stage(c) \/ Finish(c)
  <2>1. ~At(c, l)
    BY <1>1 DEF At, Ingest, AskRemoval, Enters, Lock, Remove, Stage, Finish, Moves
  <2>2. UNCHANGED <<store, troubles>>
    BY <1>1 DEF Ingest, AskRemoval, Enters, Lock, Remove, Stage, Finish
  <2> QED BY <1>0, <2>1, <2>2, FitsStays DEF store
<1>2. CASE StageFails(c) \/ SealFails(c)
  <2>1. troubles' = troubles + 1 /\ UNCHANGED store
    BY <1>2 DEF StageFails, SealFails
  <2> QED BY <1>0, <2>1, FitsTrouble DEF store
<1>3. CASE AppendLeaf(c)
  <2>1. /\ pc[c] = "appending" /\ pc'[c] = "cascade"
        /\ depth'[c] = 0 /\ troubles' = troubles
    BY <1>3 DEF AppendLeaf, Moves, Basic, TypeOK
  <2>2. pc[c] \in Busy /\ ~At(c, l)
    BY <2>1 DEF Busy, At
  <2>3. CASE l = 0
    <3>1. buffer'[l] = buffer[l] \cup {Head(todo[c])}
      BY <1>3, <2>3 DEF AppendLeaf, Enter, Basic, TypeOK
    <3>2. At(c, l)'
      BY <2>1, <2>3 DEF At
    <3> QED BY <1>0, <2>1, <2>2, <3>1, <3>2, FitsOneMore
  <2>4. CASE l # 0
    <3>1. buffer'[l] = buffer[l]
      BY <1>3, <2>4 DEF AppendLeaf, Enter, Basic, TypeOK
    <3> QED BY <1>0, <2>1, <2>2, <3>1, FitsStays
  <2> QED BY <2>3, <2>4
<1>4. CASE CascadeDone(c)
  <2>1. UNCHANGED <<store, troubles>> /\ ~Due(depth[c])
    BY <1>4 DEF CascadeDone
  <2>2. CASE l = depth[c]
    <3>1. ~ShouldSeal(l)
      BY <2>1, <2>2 DEF Due
    <3> QED BY <1>0, <2>1, <3>1, FitsBelowGate DEF store
  <2>3. CASE l # depth[c]
    <3>1. ~At(c, l)
      BY <2>3 DEF At
    <3> QED BY <1>0, <2>1, <3>1, FitsStays DEF store
  <2> QED BY <2>2, <2>3
<1>5. CASE BeginSeal(c)
  <2>1. Hydrate(depth[c]) # {}
    BY <1>5, ReadsSuffices DEF BeginSeal, SealsWhatItRead
  <2>2. UNCHANGED <<store, troubles, depth>> /\ pc'[c] = "summarising"
    BY <1>5, <2>1 DEF BeginSeal, Moves, Basic, TypeOK
  <2>3. At(c, l) => At(c, l)'
    BY <2>2 DEF At
  <2> QED BY <1>0, <2>2, <2>3, FitsStays DEF store
<1>6. CASE Seal(c)
  <2>1. PICK s \in SummaryIds : SealAs(c, s)
    BY <1>6, SealNamed
  <2>2. /\ depth[c] \in Levels /\ depth[c] + 1 \in Levels
        /\ depth[c] + 1 # depth[c]
    BY <2>1, SealLevels
  <2>3. /\ pc[c] = "summarising" /\ pc'[c] = "cascade"
        /\ depth'[c] = depth[c] + 1 /\ troubles' = troubles
    BY <2>1 DEF SealAs, Moves, Basic, TypeOK
  <2>4. buffer'[l] = IF l = depth[c] + 1 THEN buffer[l] \cup {s}
                     ELSE IF l = depth[c] THEN {} ELSE buffer[l]
    BY <2>1, EmptiesLevels
  <2>5. CASE l = depth[c] + 1
    <3>1. ~At(c, l) /\ At(c, l)' /\ pc[c] \in Busy
      BY <2>2, <2>3, <2>5 DEF At, Busy
    <3>2. buffer'[l] = buffer[l] \cup {s}
      BY <2>4, <2>5
    <3> QED BY <1>0, <2>3, <3>1, <3>2, FitsOneMore
  <2>6. CASE l = depth[c]
    <3>1. buffer'[l] = {}
      BY <2>2, <2>4, <2>6
    <3>2. Cardinality(buffer'[l]) = 0
      BY <3>1, FS_EmptySet
    <3>3. Fanout \in Nat /\ Fanout # 0 /\ troubles \in Nat
      BY TreeAssumption DEF Basic, TypeOK
    <3>4. 0 < Fanout + troubles
      BY <3>3
    <3>5. Cardinality(buffer'[l]) < Fanout + troubles'
      BY <2>3, <3>2, <3>4
    <3> QED BY <3>5 DEF Fits
  <2>7. CASE l # depth[c] /\ l # depth[c] + 1
    <3>1. ~At(c, l) /\ buffer'[l] = buffer[l]
      BY <2>4, <2>7 DEF At
    <3> QED BY <1>0, <2>3, <3>1, FitsStays
  <2> QED BY <2>5, <2>6, <2>7
<1> QED BY <1>1, <1>2, <1>3, <1>4, <1>5, <1>6 DEF Step, Works, Fails

LEMMA SizesStep ==
    ASSUME Basic, Reads, Sizes, [Next]_vars
    PROVE  Sizes'
<1>1. Finite'
    BY FiniteStep DEF Sizes
<1>2. ASSUME NEW l \in Levels, l < MaxDepth PROVE Fits(l)'
  <2>1. Finite /\ Fits(l)
    BY <1>2 DEF Sizes
  <2>2. CASE Crash
    <3>1. buffer'[l] = buffer[l] /\ troubles' = troubles + 1
      BY <2>2 DEF Crash, store
    <3> QED BY <2>1, <3>1, FitsTrouble
  <2>3. CASE UNCHANGED vars
    BY <2>1, <2>3 DEF vars, store, sealing, Fits, At
  <2> QED BY <1>2, <2>2, <2>3, FitsStep DEF Next
<1> QED BY <1>1, <1>2 DEF Sizes

LEMMA InitSizes == Init => Sizes
<1> SUFFICES ASSUME Init, NEW l \in Levels
             PROVE  IsFiniteSet(buffer[l]) /\ Fits(l)
    BY DEF Sizes, Finite
<1>1. buffer[l] = {} /\ troubles = 0
    BY DEF Init
<1>2. Cardinality(buffer[l]) = 0 /\ IsFiniteSet(buffer[l])
    BY <1>1, FS_EmptySet
<1> QED BY <1>1, <1>2, TreeAssumption DEF Fits

\* cascade_all_from: however many seals fail or are cut off, a level that no call
\* is at work on is below its gate but for one item per trouble.
THEOREM BuffersAreBounded == Spec => []BuffersStaySmall
<1>1. (Basic /\ Reads) /\ Sizes /\ [Next]_vars => Sizes'
    BY SizesStep
<1>2. Basic /\ Reads /\ Sizes => BuffersStaySmall
  <2> SUFFICES ASSUME Basic, Sizes, mutex = None, NEW l \in 0..MaxDepth - 1
               PROVE  Cardinality(buffer[l]) < Fanout + troubles
      BY DEF BuffersStaySmall
  <2>1. l \in Levels /\ l < MaxDepth
      BY TreeAssumption DEF Levels
  <2>2. \A c \in Callers : ~At(c, l)
      BY TreeAssumption DEF Basic, Exclusion, Busy, At
  <2> QED BY <2>1, <2>2 DEF Sizes, Fits
<1> QED BY <1>1, <1>2, InitSizes, ReadsInvariant, PTL DEF Spec
-----------------------------------------------------------------------------
(***************************************************************************)
(* The gate's token count.  TokensCounted is inductive with the kinds of   *)
(* the items, which give a leaf its count, and with the finite buffers,    *)
(* over which one more leaf adds its own.                                  *)
(***************************************************************************)
LEMMA CountIsTotal == TokensCounted <=> tokenSum = Total(Tokens, buffer[0])
BY DEF TokensCounted, Total

LEMMA CountIsTotalNext == TokensCounted' <=> tokenSum' = Total(Tokens, buffer'[0])
<1>1. TokensCounted' <=> (tokenSum = Total(Tokens, buffer[0]))'
    BY CountIsTotal, PTL
<1> QED BY <1>1

LEMMA AppendCounts ==
    ASSUME Basic, Kinds, Finite, TokensCounted, NEW c \in Callers, AppendLeaf(c)
    PROVE  TokensCounted'
<1> DEFINE k == Head(todo[c])
<1>1. k \in Chunks
    BY DEF AppendLeaf, Basic, TypeOK
<1>2. IsFiniteSet(buffer[0]) /\ \A x \in buffer[0] \cup {k} : Tokens[x] \in Nat
    BY <1>1, LevelFacts, TreeAssumption DEF Finite, Kinds
<1>3. /\ buffer'[0] = buffer[0] \cup {k}
      /\ tokenSum' = IF k \in buffer[0] THEN tokenSum ELSE tokenSum + Tokens[k]
    BY LevelFacts DEF AppendLeaf, Enter, Basic, TypeOK
<1> HIDE DEF k
<1>4. Total(Tokens, buffer[0] \cup {k})
          = IF k \in buffer[0] THEN Total(Tokens, buffer[0])
            ELSE Total(Tokens, buffer[0]) + Tokens[k]
    BY <1>2, TotalAdd
<1>5. tokenSum' = Total(Tokens, buffer'[0])
    BY <1>3, <1>4, CountIsTotal
<1> QED BY <1>5, CountIsTotalNext

LEMMA SealCounts ==
    ASSUME Basic, TokensCounted, NEW c \in Callers, Seal(c)
    PROVE  TokensCounted'
<1>1. PICK s \in SummaryIds : SealAs(c, s)
    BY SealNamed
<1>2. tokenSum' = IF depth[c] = 0 THEN 0 ELSE tokenSum
    BY <1>1 DEF SealAs, EmptiesBuffer
<1>3. buffer'[0] = IF depth[c] = 0 THEN {} ELSE buffer[0]
  <2>1. buffer'[0] = IF 0 = depth[c] + 1 THEN buffer[0] \cup {s}
                     ELSE IF 0 = depth[c] THEN {} ELSE buffer[0]
    BY <1>1, EmptiesLevels, LevelFacts
  <2>2. depth[c] + 1 # 0
    BY <1>1, SealLevels
  <2> QED BY <2>1, <2>2
<1>4. tokenSum' = Total(Tokens, buffer'[0])
  <2>1. CASE depth[c] = 0
    BY <1>2, <1>3, <2>1, TotalEmpty
  <2>2. CASE depth[c] # 0
    BY <1>2, <1>3, <2>2, CountIsTotal
  <2> QED BY <2>1, <2>2
<1> QED BY <1>4, CountIsTotalNext

LEMMA CountStep ==
    ASSUME Basic, Reads, Finite, TokensCounted, [Next]_vars
    PROVE  TokensCounted'
<1>1. CASE UNCHANGED store
    BY <1>1, CountIsTotal, CountIsTotalNext DEF store
<1>2. CASE \E c \in Callers : AppendLeaf(c)
    BY <1>2, AppendCounts DEF Reads
<1>3. CASE \E c \in Callers : Seal(c)
    BY <1>3, SealCounts
<1> QED BY <1>1, <1>2, <1>3, StoreMoves

\* append_to_buffer and clear_buffer_tx: token_sum is the sum of the counts of
\* the leaves in the level-0 buffer, whatever was retried, failed or cut off.
THEOREM TokensAreCounted == Spec => []TokensCounted
<1>1. Init => TokensCounted
  <2>1. Init => tokenSum = 0 /\ buffer[0] = {}
    BY LevelFacts DEF Init
  <2> QED BY <2>1, CountIsTotal, TotalEmpty
<1>2. Basic /\ Reads /\ Sizes /\ [Next]_vars => Sizes'
    BY SizesStep
<1>3. Basic /\ Reads /\ Sizes /\ TokensCounted /\ [Next]_vars => TokensCounted'
    BY CountStep DEF Sizes
<1> QED BY <1>1, <1>2, <1>3, InitSizes, ReadsInvariant, PTL DEF Spec
-----------------------------------------------------------------------------
(***************************************************************************)
(* How much is ahead of a call that holds the mutex, in steps: for a leaf  *)
(* its append, a look and a seal for each level below the last, and the    *)
(* look that ends the cascade.                                             *)
(***************************************************************************)
PerLeaf == 2 * MaxDepth + 2

Load(n) == n * PerLeaf

Ahead(c) ==
    CASE pc[c] = "staging"     -> Load(Len(ChunksOf[doc[c]])) + 2
      [] pc[c] = "appending"   -> Load(Len(todo[c])) + 1
      [] pc[c] = "cascade"     -> Load(Len(todo[c]) - 1) + 2 * (MaxDepth - depth[c]) + 2
      [] pc[c] = "summarising" -> Load(Len(todo[c]) - 1) + 2 * (MaxDepth - depth[c]) + 1
      [] OTHER                 -> 0

Measured == \A c \in Callers : Ahead(c) \in Nat /\ (pc[c] \in Busy => Ahead(c) > 0)

\* Nobody's step moves such a call away from its end.
Descends ==
    \A c \in Callers : pc[c] \in Busy =>
        \/ Ahead(c)' < Ahead(c)
        \/ UNCHANGED <<pc[c], doc[c], todo[c], depth[c]>>

LEMMA Loads ==
    /\ PerLeaf \in Nat /\ PerLeaf = 2 * MaxDepth + 2
    /\ \A n \in Nat : Load(n) \in Nat
    /\ \A n \in Nat : n # 0 => Load(n - 1) \in Nat /\ Load(n) = Load(n - 1) + PerLeaf
<1>1. PerLeaf \in Nat /\ PerLeaf = 2 * MaxDepth + 2
    BY TreeAssumption DEF PerLeaf
<1> HIDE DEF PerLeaf
<1>2. \A n \in Nat : Load(n) \in Nat
    BY <1>1 DEF Load
<1>3. \A n \in Nat : n # 0 => Load(n) = Load(n - 1) + PerLeaf
    BY <1>1 DEF Load
<1>4. \A n \in Nat : n # 0 => n - 1 \in Nat
    OBVIOUS
<1> QED BY <1>1, <1>2, <1>3, <1>4

\* The lengths and depths it is computed from.
LEMMA AtHandFacts ==
    ASSUME Basic, NEW c \in Callers
    PROVE  /\ Len(todo[c]) \in Nat
           /\ pc[c] \in {"cascade", "summarising"} => Len(todo[c]) # 0
           /\ pc[c] = "staging" => Len(ChunksOf[doc[c]]) \in Nat
           /\ depth[c] \in Nat /\ depth[c] <= MaxDepth /\ MaxDepth \in Nat
           /\ pc[c] = "summarising" => depth[c] < MaxDepth
<1>1. todo[c] \in Seq(Chunks) /\ depth[c] \in Levels
    BY DEF Basic, TypeOK
<1>2. Len(todo[c]) \in Nat /\ (todo[c] # << >> => Len(todo[c]) # 0)
    BY <1>1
<1>3. pc[c] = "staging" => ChunksOf[doc[c]] \in Seq(Chunks)
    BY TreeAssumption DEF Basic, AtHand
<1> QED BY <1>1, <1>2, <1>3, TreeAssumption DEF Basic, AtHand, Levels

LEMMA MeasuredAlways == ASSUME Basic PROVE Measured
<1> SUFFICES ASSUME NEW c \in Callers
             PROVE  Ahead(c) \in Nat /\ (pc[c] \in Busy => Ahead(c) > 0)
    BY DEF Measured
<1>1. CASE pc[c] = "staging"
  <2>1. Load(Len(ChunksOf[doc[c]])) \in Nat
    BY <1>1, AtHandFacts, Loads
  <2>2. Ahead(c) = Load(Len(ChunksOf[doc[c]])) + 2
    BY <1>1 DEF Ahead
  <2> QED BY <2>1, <2>2
<1>2. CASE pc[c] = "appending"
  <2>1. Load(Len(todo[c])) \in Nat
    BY AtHandFacts, Loads
  <2>2. Ahead(c) = Load(Len(todo[c])) + 1
    BY <1>2 DEF Ahead
  <2> QED BY <2>1, <2>2
<1>3. CASE pc[c] \in {"cascade", "summarising"}
  <2>1. Load(Len(todo[c]) - 1) \in Nat
    BY <1>3, AtHandFacts, Loads
  <2>2. 2 * (MaxDepth - depth[c]) \in Nat
    BY AtHandFacts
  <2>3. \E x \in {1, 2} : Ahead(c) = Load(Len(todo[c]) - 1) + 2 * (MaxDepth - depth[c]) + x
    BY <1>3 DEF Ahead
  <2> HIDE DEF Ahead
  <2> QED BY <2>1, <2>2, <2>3
<1>4. CASE pc[c] \notin Busy
    BY <1>4 DEF Ahead, Busy
<1> QED BY <1>1, <1>2, <1>3, <1>4 DEF Busy

\* The step of the call itself.
LEMMA OwnDescends ==
    ASSUME Basic, NEW c \in Callers, pc[c] \in Busy, Works(c) \/ Fails(c)
    PROVE  Ahead(c)' < Ahead(c)
<1> DEFINE n == Len(todo[c])  rest == 2 * (MaxDepth - depth[c])
<1>m. Ahead(c) \in Nat /\ Ahead(c) > 0
    BY MeasuredAlways DEF Measured
<1>f. /\ pc \in [Callers -> Places] /\ todo \in [Callers -> Seq(Chunks)]
      /\ depth \in [Callers -> Levels]
      /\ pc[c] = "cascade" => todo[c] # << >>
    BY DEF Basic, TypeOK, AtHand
<1>g. /\ n \in Nat /\ MaxDepth \in Nat /\ depth[c] \in Nat /\ rest \in Nat
      /\ pc[c] \in {"cascade", "summarising"} => n # 0 /\ Load(n - 1) \in Nat
      /\ pc[c] = "staging" => Load(Len(ChunksOf[doc[c]])) \in Nat
      /\ pc[c] = "summarising" => depth[c] < MaxDepth
  <2>1. /\ n \in Nat /\ MaxDepth \in Nat /\ depth[c] \in Nat /\ depth[c] <= MaxDepth
        /\ pc[c] \in {"cascade", "summarising"} => n # 0
        /\ pc[c] = "staging" => Len(ChunksOf[doc[c]]) \in Nat
        /\ pc[c] = "summarising" => depth[c] < MaxDepth
    BY AtHandFacts
  <2>2. rest \in Nat
    BY <2>1
  <2>3. n # 0 => Load(n - 1) \in Nat
    BY <2>1, Loads
  <2>4. pc[c] = "staging" => Load(Len(ChunksOf[doc[c]])) \in Nat
    BY <2>1, Loads
  <2> HIDE DEF n, rest
  <2> QED BY <2>1, <2>2, <2>3, <2>4
<1>1. CASE pc'[c] = "idle"
  <2>1. Ahead(c)' = 0
    BY <1>1 DEF Ahead
  <2> QED BY <1>m, <2>1
<1>2. CASE Stage(c)
  <2>1. pc[c] = "staging" /\ pc'[c] = "appending" /\ todo'[c] = ChunksOf[doc[c]]
    BY <1>2, <1>f DEF Stage, Moves
  <2>2. Ahead(c) = Load(Len(todo'[c])) + 2 /\ Ahead(c)' = Load(Len(todo'[c])) + 1
    BY <2>1 DEF Ahead
  <2>3. Load(Len(todo'[c])) \in Nat
    BY <2>1, <1>g
  <2> QED BY <2>2, <2>3
<1>3. CASE AppendLeaf(c)
  <2>1. /\ pc[c] = "appending" /\ pc'[c] = "cascade" /\ depth'[c] = 0
        /\ todo' = todo /\ todo[c] # << >>
    BY <1>3, <1>f DEF AppendLeaf, Moves
  <2>2. Ahead(c) = Load(n) + 1 /\ Ahead(c)' = Load(n - 1) + 2 * (MaxDepth - 0) + 2
    BY <2>1 DEF Ahead
  <2>3. n # 0
    BY <1>f, <2>1
  <2>4. Load(n - 1) \in Nat /\ Load(n) = Load(n - 1) + PerLeaf /\ PerLeaf = 2 * MaxDepth + 2
    <3> HIDE DEF n
    <3> QED BY <2>3, <1>g, Loads
  <2> QED BY <2>2, <2>4, <1>g
<1>4. CASE CascadeDone(c)
  <2>1. /\ pc[c] = "cascade" /\ pc'[c] = "appending" /\ todo'[c] = Tail(todo[c])
        /\ todo[c] # << >>
    BY <1>4, <1>f DEF CascadeDone, Moves, AtHand
  <2>2. Len(todo'[c]) = n - 1
    BY <2>1, <1>f
  <2>3. /\ Ahead(c) = Load(n - 1) + rest + 2
        /\ Ahead(c)' = Load(n - 1) + 1
    BY <2>1, <2>2 DEF Ahead
  <2>4. Load(n - 1) \in Nat /\ rest \in Nat
    BY <2>1, <1>g
  <2> QED BY <2>3, <2>4
<1>5. CASE BeginSeal(c) /\ pc'[c] # "idle"
  <2>1. /\ pc[c] = "cascade" /\ pc'[c] = "summarising" /\ todo' = todo /\ depth' = depth
    BY <1>5, <1>f DEF BeginSeal, Moves, GivesUp
  <2>2. /\ Ahead(c) = Load(n - 1) + rest + 2
        /\ Ahead(c)' = Load(n - 1) + rest + 1
    BY <2>1 DEF Ahead
  <2>3. Load(n - 1) \in Nat /\ rest \in Nat
    BY <2>1, <1>g
  <2> QED BY <2>2, <2>3
<1>6. CASE Seal(c)
  <2> DEFINE above == 2 * (MaxDepth - (depth[c] + 1))
  <2>1. /\ pc[c] = "summarising" /\ pc'[c] = "cascade" /\ todo' = todo
        /\ depth'[c] = depth[c] + 1
    BY <1>6, <1>f DEF Seal, Moves
  <2>2. Ahead(c) = Load(n - 1) + rest + 1 /\ Ahead(c)' = Load(n - 1) + above + 2
    BY <2>1 DEF Ahead
  <2>3. Load(n - 1) \in Nat
    BY <2>1, <1>g
  <2>4. above \in Nat /\ above + 2 = rest
    <3>1. MaxDepth \in Nat /\ depth[c] \in Nat /\ depth[c] < MaxDepth
      BY <2>1, <1>g
    <3>2. \A m, d \in Nat : d < m =>
              2 * (m - (d + 1)) \in Nat /\ 2 * (m - (d + 1)) + 2 = 2 * (m - d)
      OBVIOUS
    <3> QED BY <3>1, <3>2
  <2> HIDE DEF n, rest, above
  <2> QED BY <2>2, <2>3, <2>4
<1>7. CASE (Finish(c) \/ Fails(c)) /\ pc'[c] # "idle"
  <2> QED BY <1>7, <1>f DEF Finish, Fails, StageFails, SealFails, GivesUp, Moves
<1> QED BY <1>1, <1>2, <1>3, <1>4, <1>5, <1>6, <1>7 DEF Works

LEMMA AllDescend ==
    ASSUME Basic, [Next]_vars
    PROVE  Descends
<1> SUFFICES ASSUME NEW c \in Callers, pc[c] \in Busy
             PROVE  \/ Ahead(c)' < Ahead(c)
                    \/ UNCHANGED <<pc[c], doc[c], todo[c], depth[c]>>
    BY DEF Descends
<1>1. CASE UNCHANGED vars
    BY <1>1 DEF vars, sealing
<1>2. CASE Crash
  <2>1. Ahead(c)' = 0
    BY <1>2 DEF Crash, Ahead
  <2> QED BY <2>1, MeasuredAlways DEF Measured
<1>3. ASSUME NEW e \in Callers, e # c, Step(e)
      PROVE  UNCHANGED <<pc[c], doc[c], todo[c], depth[c]>>
    BY <1>3, OthersStill
<1>4. ASSUME Step(c) PROVE Ahead(c)' < Ahead(c)
  <2>1. Works(c) \/ Fails(c)
    BY <1>4 DEF Step, Enters, Lock, Remove, Ingest, AskRemoval, Moves, Busy
  <2> QED BY <2>1, OwnDescends
<1> QED BY <1>1, <1>2, <1>3, <1>4 DEF Next

\* Ingest and cascade (bucket_seal.rs, the loop up to MAX_CASCADE_DEPTH): a call
\* that has the mutex returns after at most two steps and, for every leaf,
\* PerLeaf more, whatever the buffers hold.  The safety half of CallsReturn.
THEOREM WorkRunsOut == Spec => []Measured /\ [][Descends]_vars
<1>1. Basic => Measured
    BY MeasuredAlways
<1>2. Basic /\ [Next]_vars => [Descends]_vars
    BY AllDescend
<1> QED BY <1>1, <1>2, BasicInvariant, PTL DEF Spec
=============================================================================
