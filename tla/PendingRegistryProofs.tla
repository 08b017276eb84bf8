----------------------- MODULE PendingRegistryProofs -----------------------
(***************************************************************************)
(* The registry for any number of waiters, ids and answers.                *)
(***************************************************************************)
EXTENDS PendingRegistry, TLAPS

(***************************************************************************)
(* The inductive invariant: NoLeak and NobodyStranded need each other's    *)
(* types only, and together say that the map is exactly the set of         *)
(* unanswered tickets.                                                     *)
(***************************************************************************)
Registered == TypeOK /\ NoLeak /\ NobodyStranded

\* What a waiter holds a ticket for is one of its own ids.
AsksOwn == \A w \in Waiters : ask[w] \in Ids => ask[w] \in IdsOf[w]

-----------------------------------------------------------------------------
\* The three shapes a step of the registry has.
Registers(w, id) == w \in Waiters /\ id \in IdsOf[w] /\ Register(w, id)
Answers_(id, a)  == id \in Ids /\ a \in Answers /\ Respond(id, a)
Leaves(S)        == S \in SUBSET Waiters /\ Leave(S)
Repeats(w)       == w \in Waiters /\ AskAgain(w)

(***************************************************************************)
(* Every step is a registration, an answer, a departure or a repetition.   *)
(***************************************************************************)
LEMMA StepShapes ==
    ASSUME Next
    PROVE  \/ \E w \in Waiters : \E id \in IdsOf[w] : Registers(w, id)
           \/ \E id \in Ids, a \in Answers : Answers_(id, a)
           \/ \E S \in SUBSET Waiters : Leaves(S)
           \/ \E w \in Waiters : Repeats(w)
<1>1. CASE \E w \in Waiters : \E id \in IdsOf[w] : Register(w, id)
  BY <1>1 DEF Registers
<1>2. CASE \E id \in Ids, a \in Answers : Respond(id, a)
  BY <1>2 DEF Answers_
<1>3. CASE \E w \in Waiters : Resolve(w) \/ TimeOut(w)
  <2>1. PICK w \in Waiters : Leave({w})
    BY <1>3 DEF Resolve, TimeOut
  <2>2. {w} \in SUBSET Waiters
    OBVIOUS
  <2> QED BY <2>1, <2>2 DEF Leaves
<1>4. CASE \E w \in Waiters : AskAgain(w)
  BY <1>4 DEF Repeats
<1>5. CASE \E S \in SUBSET Waiters : Cancel(S)
  BY <1>5 DEF Cancel, Leaves
<1> QED BY <1>1, <1>2, <1>3, <1>4, <1>5 DEF Next

(***************************************************************************)
(* The type invariant is preserved by every step.                          *)
(***************************************************************************)
LEMMA TypeStep ==
    ASSUME TypeOK, [Next]_regVars
    PROVE  TypeOK'
<1>1. CASE \E w \in Waiters : \E id \in IdsOf[w] : Registers(w, id)
  <2>1. PICK w \in Waiters : \E id \in IdsOf[w] : Register(w, id)
    BY <1>1 DEF Registers
  <2>2. PICK id \in IdsOf[w] : Register(w, id)
    BY <2>1
  <2>3. id \in Ids
    BY RegistryAssumption
  <2> QED BY <2>2, <2>3 DEF TypeOK, Register, Insert, Wake
<1>2. CASE \E id \in Ids, a \in Answers : Answers_(id, a)
  BY <1>2, RegistryAssumption DEF TypeOK, Answers_, Respond, Deliver
<1>3. CASE \E S \in SUBSET Waiters : Leaves(S)
  BY <1>3, RegistryAssumption DEF TypeOK, Leaves, Leave, Release, Wake
<1>4. CASE \E w \in Waiters : Repeats(w)
  BY <1>4, RegistryAssumption DEF TypeOK, Repeats, AskAgain, Insert, Wake
<1>5. CASE UNCHANGED regVars
  BY <1>5 DEF TypeOK, regVars
<1> QED BY <1>1, <1>2, <1>3, <1>4, <1>5, StepShapes

(***************************************************************************)
(* A registration, or a repetition, keeps the map the set of unanswered    *)
(* tickets: the one displaced is closed, hence answered.                   *)
(***************************************************************************)
LEMMA InsertStep ==
    ASSUME Registered, NEW w \in Waiters, NEW id \in Ids, Insert(w, id),
           ask' = [ask EXCEPT ![w] = id],
           ask[w] \notin Ids \/ inbox[w] # "empty"
    PROVE  NoLeak' /\ NobodyStranded'
<1> USE RegistryAssumption DEF Registered, TypeOK
<1>1. \A v \in Waiters : inbox'[v] = IF v = w THEN "empty"
                                     ELSE IF v = slot[id] THEN Wake(inbox[v])
                                     ELSE inbox[v]
  BY DEF Insert
<1>2. \A j \in Ids : slot'[j] = IF j = id THEN w ELSE slot[j]
  BY DEF Insert
<1>3. \A v \in Waiters : ask'[v] = IF v = w THEN id ELSE ask[v]
  OBVIOUS
<1>4. \A j \in Ids : slot[j] # w
  BY DEF NoLeak
<1>5. NoLeak'
  BY <1>1, <1>2, <1>3, <1>4 DEF NoLeak
<1>6. NobodyStranded'
  <2> SUFFICES ASSUME NEW v \in Waiters, ask'[v] \in Ids, inbox'[v] = "empty"
               PROVE  slot'[ask'[v]] = v
    BY DEF NobodyStranded
  <2>1. CASE v = w
    BY <2>1, <1>2, <1>3
  <2>2. CASE v # w
    <3>1. inbox[v] = "empty" /\ v # slot[id]
      BY <2>2, <1>1 DEF Wake
    <3>2. slot[ask[v]] = v /\ ask[v] # id
      BY <3>1, <2>2, <1>3 DEF NobodyStranded
    <3> QED BY <3>2, <2>2, <1>2, <1>3
  <2> QED BY <2>1, <2>2
<1> QED BY <1>5, <1>6

(***************************************************************************)
(* So does an answer, which takes the entry off with the ticket's wait.    *)
(***************************************************************************)
LEMMA DeliverStep ==
    ASSUME Registered, NEW id \in Ids, NEW a \in Answers, Respond(id, a)
    PROVE  NoLeak' /\ NobodyStranded'
<1> USE RegistryAssumption DEF Registered, TypeOK
<1>1. \A v \in Waiters : inbox'[v] = IF v = slot[id] THEN a ELSE inbox[v]
  BY DEF Respond, Deliver
<1>2. \A j \in Ids : slot'[j] = IF j = id THEN NoWaiter ELSE slot[j]
  BY DEF Respond, Deliver
<1>3. ask' = ask
  BY DEF Respond
<1>4. a # "empty"
  OBVIOUS
<1>5. NoLeak'
  BY <1>1, <1>2, <1>3 DEF NoLeak
<1>6. NobodyStranded'
  BY <1>1, <1>2, <1>3, <1>4 DEF NobodyStranded
<1> QED BY <1>5, <1>6

(***************************************************************************)
(* So does a departure: the guards remove just the keys of those who go,   *)
(* and whoever else stood there is closed.                                 *)
(***************************************************************************)
LEMMA LeaveStep ==
    ASSUME Registered, NEW S \in SUBSET Waiters, Leave(S)
    PROVE  NoLeak' /\ NobodyStranded'
<1> USE RegistryAssumption DEF Registered, TypeOK
<1> DEFINE keys == {ask[w] : w \in S}
<1>1. \A v \in Waiters :
        inbox'[v] = IF v \in S THEN "empty"
                    ELSE IF \E id \in Ids \cap keys : slot[id] = v THEN Wake(inbox[v])
                    ELSE inbox[v]
  BY DEF Leave, Release
<1>2. \A j \in Ids : slot'[j] = IF j \in keys THEN NoWaiter ELSE slot[j]
  BY DEF Leave, Release
<1>3. \A v \in Waiters : ask'[v] = IF v \in S THEN NoId ELSE ask[v]
  BY DEF Leave
<1>4. \A v \in S : ask[v] \in keys
  OBVIOUS
<1> HIDE DEF keys
<1>5. NoLeak'
  <2> SUFFICES ASSUME NEW j \in Ids, slot'[j] \in Waiters
               PROVE  ask'[slot'[j]] = j /\ inbox'[slot'[j]] = "empty"
    BY DEF NoLeak
  <2>1. j \notin keys /\ slot'[j] = slot[j]
    BY <1>2
  <2>2. ask[slot[j]] = j /\ inbox[slot[j]] = "empty"
    BY <2>1 DEF NoLeak
  <2>3. slot[j] \notin S
    BY <2>1, <2>2, <1>4
  <2>4. \A id \in Ids \cap keys : slot[id] # slot[j]
    BY <2>1, <2>2 DEF NoLeak
  <2> QED BY <2>1, <2>2, <2>3, <2>4, <1>1, <1>3
<1>6. NobodyStranded'
  <2> SUFFICES ASSUME NEW v \in Waiters, ask'[v] \in Ids, inbox'[v] = "empty"
               PROVE  slot'[ask'[v]] = v
    BY DEF NobodyStranded
  <2>1. v \notin S /\ ask'[v] = ask[v]
    BY <1>3
  <2>2. inbox[v] = "empty" /\ \A id \in Ids \cap keys : slot[id] # v
    BY <2>1, <1>1 DEF Wake
  <2>3. slot[ask[v]] = v
    BY <2>1, <2>2 DEF NobodyStranded
  <2> QED BY <2>1, <2>2, <2>3, <1>2
<1> QED BY <1>5, <1>6

(***************************************************************************)
(* Type correctness of the registry.                                       *)
(***************************************************************************)
THEOREM TypeCorrect == Spec => []TypeOK
<1>1. Init => TypeOK
  BY DEF Init, TypeOK
<1>2. TypeOK /\ [Next]_regVars => TypeOK'
  BY TypeStep
<1> QED BY <1>1, <1>2, PTL DEF Spec

\* The map holds exactly the unanswered tickets, however many waiters share an id.
LEMMA UnansweredOnFile == Spec => [](NoLeak /\ NobodyStranded)
<1>1. Init => Registered
  BY RegistryAssumption DEF Init, Registered, TypeOK, NoLeak, NobodyStranded
<1>2. Registered /\ [Next]_regVars => Registered'
  <2> SUFFICES ASSUME Registered, [Next]_regVars
               PROVE  Registered'
    OBVIOUS
  <2>1. TypeOK'
    BY TypeStep DEF Registered
  <2>2. NoLeak' /\ NobodyStranded'
    <3>1. CASE \E w \in Waiters : \E id \in IdsOf[w] : Registers(w, id)
      <4>0. PICK w \in Waiters : \E id \in IdsOf[w] : Registers(w, id)
        BY <3>1
      <4>1. PICK id \in IdsOf[w] : Registers(w, id)
        BY <4>0
      <4>2. id \in Ids /\ ask[w] \notin Ids
        BY <4>1, RegistryAssumption DEF Registers, Register
      <4> QED BY <4>1, <4>2, InsertStep DEF Registers, Register
    <3>2. CASE \E id \in Ids, a \in Answers : Answers_(id, a)
      BY <3>2, DeliverStep DEF Answers_
    <3>3. CASE \E S \in SUBSET Waiters : Leaves(S)
      BY <3>3, LeaveStep DEF Leaves
    <3>4. CASE \E w \in Waiters : Repeats(w)
      <4>1. PICK w \in Waiters : AskAgain(w)
        BY <3>4 DEF Repeats
      <4>2. ask' = [ask EXCEPT ![w] = ask[w]]
        BY <4>1 DEF AskAgain, Registered, TypeOK
      <4> QED BY <4>1, <4>2, InsertStep DEF AskAgain
    <3>5. CASE UNCHANGED regVars
      BY <3>5 DEF Registered, NoLeak, NobodyStranded, regVars
    <3> QED BY <3>1, <3>2, <3>3, <3>4, <3>5, StepShapes
  <2> QED BY <2>1, <2>2 DEF Registered
<1>3. Registered => NoLeak /\ NobodyStranded
  BY DEF Registered
<1> QED BY <1>1, <1>2, <1>3, PTL DEF Spec

(***************************************************************************)
(* An entry is that of a ticket which waits for an answer: the guard       *)
(* leaves none behind, however a waiter goes (approval.rs:29-30).          *)
(***************************************************************************)
THEOREM MapIsUnanswered == Spec => []NoLeak
<1>1. NoLeak /\ NobodyStranded => NoLeak
  OBVIOUS
<1> QED BY <1>1, UnansweredOnFile, PTL

(***************************************************************************)
(* A ticket that has neither an answer nor a closed channel has its sender *)
(* on file, also after its id was taken over by another.                   *)
(***************************************************************************)
THEOREM NobodyIsStranded == Spec => []NobodyStranded
<1>1. NoLeak /\ NobodyStranded => NobodyStranded
  OBVIOUS
<1> QED BY <1>1, UnansweredOnFile, PTL

(***************************************************************************)
(* A waiter that shares its ids with nobody never finds its channel closed:*)
(* only an answer, the timer or the waiter itself ends its await           *)
(* (approval.rs:10-12).                                                    *)
(***************************************************************************)
THEOREM NoDisplacement == Spec => []NeverDisplaced
<1> DEFINE Own == TypeOK /\ NoLeak /\ AsksOwn /\ NeverDisplaced
<1>1. Init => Own
  BY RegistryAssumption DEF Init, TypeOK, NoLeak, AsksOwn, NeverDisplaced
<1>2. Own /\ Registered /\ [Next]_regVars /\ Registered' => Own'
  <2> SUFFICES ASSUME Own, Registered, Registered', [Next]_regVars
               PROVE  AsksOwn' /\ NeverDisplaced'
    BY DEF Registered
  <2> USE RegistryAssumption DEF TypeOK
  <2>1. CASE \E w \in Waiters : \E id \in IdsOf[w] : Registers(w, id)
    <3>0. PICK w \in Waiters : \E id \in IdsOf[w] : Register(w, id)
      BY <2>1 DEF Registers
    <3>1. PICK id \in IdsOf[w] : Register(w, id)
      BY <3>0
    <3>2. \A v \in Waiters : v = slot[id] /\ Alone(v) => v = w
      BY DEF NoLeak, AsksOwn, Alone
    <3>3. NeverDisplaced'
      BY <3>1, <3>2 DEF NeverDisplaced, Register, Insert
    <3>4. AsksOwn'
      BY <3>1 DEF AsksOwn, Register
    <3> QED BY <3>3, <3>4
  <2>2. CASE \E id \in Ids, a \in Answers : Answers_(id, a)
    BY <2>2 DEF Answers_, Respond, Deliver, NeverDisplaced, AsksOwn
  <2>3. CASE \E S \in SUBSET Waiters : Leaves(S)
    <3>1. PICK S \in SUBSET Waiters : Leave(S)
      BY <2>3 DEF Leaves
    <3> DEFINE keys == {ask[w] : w \in S}
    <3>2. \A v \in Waiters \ S : Alone(v) => ~ \E id \in Ids \cap keys : slot[id] = v
      <4> SUFFICES ASSUME NEW v \in Waiters \ S, NEW w \in S, Alone(v),
                          ask[w] \in Ids, slot[ask[w]] = v
                   PROVE  FALSE
        OBVIOUS
      <4>1. ask[v] = ask[w]
        BY DEF NoLeak
      <4> QED BY <4>1 DEF AsksOwn, Alone
    <3>3. NeverDisplaced'
      BY <3>1, <3>2 DEF NeverDisplaced, Leave, Release
    <3>4. AsksOwn'
      BY <3>1 DEF AsksOwn, Leave
    <3> QED BY <3>3, <3>4
  <2>4. CASE \E w \in Waiters : Repeats(w)
    <3>1. PICK w \in Waiters : AskAgain(w)
      BY <2>4 DEF Repeats
    <3>2. \A v \in Waiters : v = slot[ask[w]] /\ Alone(v) => v = w
      BY <3>1 DEF NoLeak, AsksOwn, Alone, AskAgain
    <3>3. NeverDisplaced'
      BY <3>1, <3>2 DEF NeverDisplaced, AskAgain, Insert
    <3>4. AsksOwn'
      BY <3>1 DEF AsksOwn, AskAgain
    <3> QED BY <3>3, <3>4
  <2>5. CASE UNCHANGED regVars
    BY <2>5 DEF regVars, NeverDisplaced, AsksOwn
  <2> QED BY <2>1, <2>2, <2>3, <2>4, <2>5, StepShapes
<1>3. Spec => []Registered
  BY TypeCorrect, UnansweredOnFile, PTL DEF Registered
<1>4. Own => NeverDisplaced
  OBVIOUS
<1> HIDE DEF Own
<1> QED BY <1>1, <1>2, <1>3, <1>4, PTL DEF Spec

-----------------------------------------------------------------------------
(***************************************************************************)
(* Liveness.  The prover has no rule that finds out when an action is      *)
(* enabled, so what it needs of that is a hypothesis: a held ticket's      *)
(* timer can fire.  TimeOut's only guard is the ticket, and what it writes *)
(* is given by functions of the state.                                     *)
(***************************************************************************)
TimersCanFire ==
    \A w \in Waiters : ask[w] \in Ids => ENABLED <<TimeOut(w)>>_regVars

Waits(w) == ask[w] # NoId /\ inbox[w] = "empty"

(***************************************************************************)
(* Every await ends, for any number of waiters and whatever they collide   *)
(* on: what lasts long enough is ended by the timer (approval.rs:8).       *)
(***************************************************************************)
THEOREM AsksEnd == FairSpec /\ []TimersCanFire => EveryAskEnds
<1> SUFFICES ASSUME NEW w \in Waiters
             PROVE  FairSpec /\ []TimersCanFire
                        => (Waits(w) ~> (ask[w] = NoId \/ inbox[w] # "empty"))
  BY DEF EveryAskEnds, Waits
<1>1. Fairness => Fair(w)
  BY DEF Fairness
<1>2. Fair(w) => WF_regVars(TimeOut(w))
  BY PTL DEF Fair
<1>3. TypeOK /\ TimersCanFire /\ Waits(w) => ENABLED <<TimeOut(w)>>_regVars
  BY DEF TypeOK, TimersCanFire, Waits
<1>4. TypeOK /\ Waits(w) /\ <<TimeOut(w)>>_regVars => (ask[w] = NoId)'
  BY DEF TypeOK, Waits, TimeOut, Leave
<1>5. ~Waits(w) => ask[w] = NoId \/ inbox[w] # "empty"
  BY DEF Waits
<1>6. (ask[w] = NoId)' => ~Waits(w)'
  BY DEF Waits
<1> QED BY <1>1, <1>2, <1>3, <1>4, <1>5, <1>6, TypeCorrect, PTL DEF FairSpec
=============================================================================
