--------------------------- MODULE ChatTurnsProofs ---------------------------
(***************************************************************************)
(* The turns of a session for any number of turns, cards and stops.        *)
(***************************************************************************)
EXTENDS ChatTurns, FiniteSetTheorems, TLAPS

\* Every step of the specification, one action per disjunct.
LEMMA StepCases ==
    ASSUME Next
    PROVE  \/ \E t \in Turns :
                \/ Send(t) \/ Refused(t) \/ Register(t) \/ Insert(t) \/ Check(t)
                \/ Drain(t) \/ Cancelled(t) \/ Removes(t) \/ Unregisters(t)
                \/ Again(t) \/ Answer(t) \/ Fails(t)
           \/ StopAgent \/ CancelConversation
           \/ \E c \in Cards : AsksRunning(c) \/ Parks(c) \/ TakesBack(c) \/ Steers(c)
           \/ \E c \in Cards, t \in Turns : SendsCard(c, t)
BY DEF Next, Own, Loop, User

-----------------------------------------------------------------------------
(***************************************************************************)
(* Types.                                                                  *)
(***************************************************************************)
LEMMA TypeStep ==
    ASSUME TypeOK, [Next]_vars
    PROVE  TypeOK'
<1>1. CASE UNCHANGED vars
  BY <1>1 DEF TypeOK, vars, queues
<1>2. ASSUME NEW t \in Turns,
             \/ Send(t) \/ Refused(t) \/ Insert(t) \/ Check(t) \/ Again(t) \/ Fails(t)
             \/ Cancelled(t) \/ Removes(t) \/ Unregisters(t)
      PROVE  TypeOK'
  BY <1>2 DEF TypeOK, Places, Moves, queues, Send, Refused, Insert, Check, Again, Fails,
              Cancelled, Removes, Unregisters
<1>3. ASSUME NEW t \in Turns, Register(t)
      PROVE  TypeOK'
  BY <1>3 DEF TypeOK, Places, Moves, queues, Register
<1>4. ASSUME NEW t \in Turns, Drain(t) \/ Answer(t)
      PROVE  TypeOK'
  <2>1. at' \in [Turns -> Places]
    BY <1>4 DEF TypeOK, Places, Moves, Drain, Answer
  <2>2. rows' \in [Cards -> Nat]
    BY <1>4 DEF TypeOK, queues, Drain, Answer
  <2>3. followUp' \subseteq Cards /\ steering' \subseteq Cards
    BY <1>4 DEF TypeOK, queues, Drain, Answer
  <2> QED BY <1>4, <2>1, <2>2, <2>3 DEF TypeOK, queues, Drain, Answer
<1>5. CASE StopAgent \/ CancelConversation
  BY <1>5 DEF TypeOK, queues, StopAgent, CancelConversation
<1>6. ASSUME NEW c \in Cards, AsksRunning(c) \/ Parks(c) \/ TakesBack(c) \/ Steers(c)
      PROVE  TypeOK'
  BY <1>6 DEF TypeOK, AsksRunning, Parks, TakesBack, Steers
<1>7. ASSUME NEW c \in Cards, NEW t \in Turns, SendsCard(c, t)
      PROVE  TypeOK'
  BY <1>7 DEF TypeOK, Places, Moves, SendsCard
<1> QED BY <1>1, <1>2, <1>3, <1>4, <1>5, <1>6, <1>7, StepCases

\* The state keeps its type.
THEOREM TypeCorrect == Spec => []TypeOK
<1>1. Init => TypeOK
  BY DEF Init, TypeOK, Places
<1> QED BY <1>1, TypeStep, PTL DEF Spec

-----------------------------------------------------------------------------
(***************************************************************************)
(* The maps and the turns that overlap.                                    *)
(***************************************************************************)
\* Two turns that are under way have met.
Overlap == \A t, q \in Turns : at[t] \in Registered /\ at[q] \in Registered /\ t # q => t \in met

Sets == /\ Inserted = {"turn", "compressing", "calling", "ending"}
        /\ Registered = Inserted \cup {"registered", "unregistering"}

LEMMA SetsAre == Sets
BY DEF Sets, Inserted, Registered, InLoop

LEMMA ReachableStep ==
    ASSUME TypeOK, Overlap, Reachable, [Next]_vars
    PROVE  Overlap' /\ Reachable'
<1> USE SetsAre DEF Sets
<1>1. CASE UNCHANGED vars
  BY <1>1 DEF Overlap, Reachable, vars
<1>2. ASSUME NEW t \in Turns, Send(t) \/ Refused(t)
      PROVE  Overlap' /\ Reachable'
  BY <1>2 DEF TypeOK, Overlap, Reachable, Moves, Send, Refused
<1>3. ASSUME NEW t \in Turns, Register(t)
      PROVE  Overlap' /\ Reachable'
  <2> DEFINE others == {q \in Turns : at[q] \in Registered}
  <2>1. /\ at[t] = "persisted" /\ at' = [at EXCEPT ![t] = "registered"]
        /\ registry' = t /\ running' = running
        /\ fired' = fired \cup ({registry} \ {None})
        /\ met' = IF others = {} THEN met ELSE met \cup others \cup {t}
    BY <1>3 DEF Register, Moves
  <2>2. met \subseteq met' /\ fired \subseteq fired'
    BY <2>1
  <2>3. \A q \in Turns : q # t /\ at'[q] \in Registered => q \in met' /\ t \in met'
    BY <2>1 DEF TypeOK
  <2>4. Overlap'
    BY <2>1, <2>3 DEF Overlap, TypeOK
  <2>5. (running' # None => at'[running'] \in Inserted)
        /\ (registry' # None => at'[registry'] \in Registered)
    BY <2>1 DEF TypeOK, Reachable
  <2>6. ASSUME NEW q \in Turns \ (met' \cup fired')
        PROVE  /\ at'[q] \in Registered => registry' = q
               /\ at'[q] \in Inserted => running' = q
    <3>1. CASE q = t
      BY <2>1, <3>1 DEF TypeOK
    <3>2. CASE q # t
      BY <2>1, <2>3, <3>2
    <3> QED BY <3>1, <3>2
  <2> QED BY <2>4, <2>5, <2>6 DEF Reachable
<1>4. ASSUME NEW t \in Turns, Insert(t)
      PROVE  Overlap' /\ Reachable'
  BY <1>4 DEF TypeOK, Overlap, Reachable, Moves, Insert
<1>5. ASSUME NEW t \in Turns,
             Check(t) \/ Drain(t) \/ Again(t) \/ Answer(t) \/ Fails(t) \/ Cancelled(t)
      PROVE  Overlap' /\ Reachable'
  <2>1. /\ at[t] \in InLoop /\ at' \in [Turns -> Places] /\ at'[t] \in Inserted
        /\ \A q \in Turns : q # t => at'[q] = at[q]
        /\ UNCHANGED <<registry, running, fired, met>>
    BY <1>5 DEF TypeOK, Places, InLoop, Moves, Check, Drain, Again, Answer, Fails, Cancelled
  <2>2. \A q \in Turns : /\ at'[q] \in Inserted <=> at[q] \in Inserted
                         /\ at'[q] \in Registered <=> at[q] \in Registered
    BY <2>1 DEF InLoop
  <2> QED BY <2>1, <2>2 DEF TypeOK, Overlap, Reachable
<1>6. ASSUME NEW t \in Turns, Removes(t)
      PROVE  Overlap' /\ Reachable'
  BY <1>6 DEF TypeOK, Overlap, Reachable, Moves, Removes
<1>7. ASSUME NEW t \in Turns, Unregisters(t)
      PROVE  Overlap' /\ Reachable'
  BY <1>7 DEF TypeOK, Overlap, Reachable, Moves, Unregisters
<1>8. CASE StopAgent \/ CancelConversation
  BY <1>8 DEF TypeOK, Overlap, Reachable, StopAgent, CancelConversation
<1>9. ASSUME NEW c \in Cards, AsksRunning(c) \/ Parks(c) \/ TakesBack(c) \/ Steers(c)
      PROVE  Overlap' /\ Reachable'
  BY <1>9 DEF Overlap, Reachable, AsksRunning, Parks, TakesBack, Steers
<1>10. ASSUME NEW c \in Cards, NEW t \in Turns, SendsCard(c, t)
       PROVE  Overlap' /\ Reachable'
  BY <1>10 DEF TypeOK, Overlap, Reachable, Moves, SendsCard
<1> QED BY <1>1, <1>2, <1>3, <1>4, <1>5, <1>6, <1>7, <1>8, <1>9, <1>10, StepCases

(***************************************************************************)
(* The maps hold no turn that is through with them, and every turn that    *)
(* never overlapped another one.                                           *)
(***************************************************************************)
THEOREM TurnsAreReachable == Spec => []Reachable
<1>1. Init => TypeOK /\ Overlap /\ Reachable
  BY SetsAre DEF Init, Sets, TypeOK, Places, Overlap, Reachable
<1>2. TypeOK /\ Overlap /\ Reachable /\ [Next]_vars => (TypeOK /\ Overlap /\ Reachable)'
  BY TypeStep, ReachableStep
<1> QED BY <1>1, <1>2, PTL DEF Spec

-----------------------------------------------------------------------------
(***************************************************************************)
(* The cards.                                                              *)
(***************************************************************************)
Held(S, c) == IF c \in S THEN 1 ELSE 0

LEMMA OneCard ==
    ASSUME NEW S, NEW c
    PROVE  Cardinality(S \cap {c}) = Held(S, c)
<1>1. CASE c \in S
  <2>1. S \cap {c} = {c}
    BY <1>1
  <2>2. Cardinality({c}) = 1
    BY FS_Singleton
  <2> QED BY <1>1, <2>1, <2>2 DEF Held
<1>2. CASE c \notin S
  <2>1. S \cap {c} = {}
    BY <1>2
  <2>2. Cardinality({}) = 0
    BY FS_EmptySet
  <2> QED BY <1>2, <2>1, <2>2 DEF Held
<1> QED BY <1>1, <1>2

\* What a card has got, against what was asked for it; and a card is in a queue only
\* if the command that puts it there is done with it.
Balance(c) ==
    rows[c] + Held(followUp, c) + Held(steering, c) + Held(back, c)
    = (IF follow[c] = "done" THEN 1 ELSE 0) + (IF steer[c] = "done" THEN 1 ELSE 0)

Kept ==
    \A c \in Cards :
        /\ Balance(c)
        /\ c \in followUp => follow[c] = "done"
        /\ c \in steering => steer[c] = "done"
        /\ c \in back => steer[c] # "no"

LEMMA KeptStep ==
    ASSUME TypeOK, Kept, [Next]_vars
    PROVE  Kept'
<1>1. CASE UNCHANGED vars
  BY <1>1 DEF Kept, Balance, Held, vars, queues
<1>2. ASSUME NEW t \in Turns,
             \/ Send(t) \/ Refused(t) \/ Register(t) \/ Insert(t) \/ Check(t)
             \/ Cancelled(t) \/ Removes(t) \/ Unregisters(t) \/ Again(t) \/ Fails(t)
      PROVE  Kept'
  <2>1. UNCHANGED queues
    BY <1>2 DEF Send, Refused, Register, Insert, Check, Cancelled, Removes, Unregisters,
                Again, Fails
  <2> QED BY <2>1 DEF Kept, Balance, Held, queues
<1>3. ASSUME NEW t \in Turns, Drain(t)
      PROVE  Kept'
  BY <1>3 DEF TypeOK, Kept, Balance, Held, Drain
<1>4. ASSUME NEW t \in Turns, Answer(t)
      PROVE  Kept'
  BY <1>4 DEF TypeOK, Kept, Balance, Held, Answer, queues
<1>5. CASE StopAgent \/ CancelConversation
  BY <1>5 DEF Kept, Balance, Held, StopAgent, CancelConversation, queues
<1>6. ASSUME NEW c \in Cards, AsksRunning(c)
      PROVE  Kept'
  BY <1>6 DEF TypeOK, Kept, Balance, Held, AsksRunning
<1>7. ASSUME NEW c \in Cards, Parks(c)
      PROVE  Kept'
  BY <1>7 DEF TypeOK, Kept, Balance, Held, Parks
<1>8. ASSUME NEW c \in Cards, TakesBack(c)
      PROVE  Kept'
  BY <1>8 DEF TypeOK, Kept, Balance, Held, TakesBack
<1>9. ASSUME NEW c \in Cards, Steers(c)
      PROVE  Kept'
  BY <1>9 DEF TypeOK, Kept, Balance, Held, Steers
<1>10. ASSUME NEW c \in Cards, NEW t \in Turns, SendsCard(c, t)
       PROVE  Kept'
  BY <1>10 DEF TypeOK, Kept, Balance, Held, SendsCard
<1> QED BY <1>1, <1>2, <1>3, <1>4, <1>5, <1>6, <1>7, <1>8, <1>9, <1>10, StepCases

(***************************************************************************)
(* Each command for a card leaves it in a queue or gives it a row, once,   *)
(* whatever turns end, are stopped or meet in between.                     *)
(***************************************************************************)
THEOREM CardsAreKept == Spec => []CardsKept
<1>1. Init => TypeOK /\ Kept
  BY DEF Init, TypeOK, Places, Kept, Balance, Held
<1>2. TypeOK /\ Kept /\ [Next]_vars => (TypeOK /\ Kept)'
  BY TypeStep, KeptStep
<1>3. Kept => CardsKept
  <2> SUFFICES ASSUME Kept, NEW c \in Cards
      PROVE  rows[c] + Cardinality(followUp \cap {c}) + Cardinality(steering \cap {c})
                + Cardinality(back \cap {c})
             = (IF follow[c] = "done" THEN 1 ELSE 0) + (IF steer[c] = "done" THEN 1 ELSE 0)
    BY DEF CardsKept
  <2>1. /\ Cardinality(followUp \cap {c}) = Held(followUp, c)
        /\ Cardinality(steering \cap {c}) = Held(steering, c)
        /\ Cardinality(back \cap {c}) = Held(back, c)
    BY OneCard
  <2> QED BY <2>1 DEF Kept, Balance
<1> QED BY <1>1, <1>2, <1>3, PTL DEF Spec

-----------------------------------------------------------------------------
(***************************************************************************)
(* The end of a stopped turn.  From the place where its token fires there  *)
(* are a handful of steps left, because the loop does not begin another    *)
(* iteration: each place of the turn has only places nearer to the end     *)
(* after it, and the turn's own step, which is fair, leaves it.            *)
(*                                                                         *)
(* The prover cannot find out when an action is enabled; that a stopped    *)
(* turn can go on is a hypothesis.  In every place one of the actions      *)
(* Insert, Drain, Cancelled, Removes and Unregisters asks for nothing      *)
(* else.                                                                   *)
(***************************************************************************)
\* Only a turn that is under way, or was, has its token fired.
FiredUnderWay == \A t \in fired : at[t] \in Registered \cup {"over"}

StoppedCanGoOn == \A t \in fired : at[t] \in Registered => ENABLED <<Own(t)>>_vars

Nearer(p) == CASE p = "registered"    -> {"turn", "ending"}
               [] p = "compressing"   -> {"calling", "ending"}
               [] p = "calling"       -> {"turn", "ending"}
               [] p = "turn"          -> {"ending"}
               [] p = "ending"        -> {"unregistering"}
               [] p = "unregistering" -> {"over"}

StoppedAt(t, p) == t \in fired /\ at[t] = p

LEMMA FiredStep ==
    ASSUME TypeOK, Reachable, FiredUnderWay, [Next]_vars
    PROVE  FiredUnderWay'
<1> USE SetsAre DEF Sets
<1>1. CASE UNCHANGED vars
  BY <1>1 DEF FiredUnderWay, vars
<1>2. ASSUME NEW t \in Turns,
             \/ Send(t) \/ Refused(t) \/ Insert(t) \/ Check(t) \/ Drain(t) \/ Cancelled(t)
             \/ Removes(t) \/ Unregisters(t) \/ Again(t) \/ Answer(t) \/ Fails(t)
      PROVE  FiredUnderWay'
  BY <1>2 DEF TypeOK, FiredUnderWay, Moves, InLoop, Send, Refused, Insert, Check, Drain,
              Cancelled, Removes, Unregisters, Again, Answer, Fails
<1>3. ASSUME NEW t \in Turns, Register(t)
      PROVE  FiredUnderWay'
  BY <1>3 DEF TypeOK, Reachable, FiredUnderWay, Moves, Register
<1>4. CASE StopAgent \/ CancelConversation
  BY <1>4 DEF TypeOK, Reachable, FiredUnderWay, StopAgent, CancelConversation
<1>5. ASSUME NEW c \in Cards, AsksRunning(c) \/ Parks(c) \/ TakesBack(c) \/ Steers(c)
      PROVE  FiredUnderWay'
  BY <1>5 DEF FiredUnderWay, AsksRunning, Parks, TakesBack, Steers
<1>6. ASSUME NEW c \in Cards, NEW t \in Turns, SendsCard(c, t)
      PROVE  FiredUnderWay'
  BY <1>6 DEF TypeOK, FiredUnderWay, Moves, SendsCard
<1> QED BY <1>1, <1>2, <1>3, <1>4, <1>5, <1>6, StepCases

\* A step leaves a stopped turn where it is or brings it nearer to its end.
LEMMA StoppedMoves ==
    ASSUME TypeOK, [Next]_vars, NEW t \in Turns, NEW p \in Registered, StoppedAt(t, p)
    PROVE  t \in fired' /\ at'[t] \in {p} \cup Nearer(p)
<1> USE SetsAre DEF Sets, StoppedAt, Nearer
<1>1. CASE UNCHANGED vars
  BY <1>1 DEF vars
<1>2. ASSUME NEW q \in Turns,
             \/ Send(q) \/ Refused(q) \/ Register(q) \/ Insert(q) \/ Check(q) \/ Drain(q)
             \/ Cancelled(q) \/ Removes(q) \/ Unregisters(q) \/ Again(q) \/ Answer(q)
             \/ Fails(q)
      PROVE  t \in fired' /\ at'[t] \in {p} \cup Nearer(p)
  <2>1. CASE q # t
    BY <1>2, <2>1 DEF TypeOK, Moves, Send, Refused, Register, Insert, Check, Drain,
                      Cancelled, Removes, Unregisters, Again, Answer, Fails
  <2>2. CASE q = t
    <3>1. t \in fired'
      BY <1>2 DEF Send, Refused, Register, Insert, Check, Drain, Cancelled, Removes,
                  Unregisters, Again, Answer, Fails
    <3>2. at'[t] \in {p} \cup Nearer(p)
      BY <1>2, <2>2 DEF TypeOK, InLoop, Moves, Send, Refused, Register, Insert, Check,
                        Drain, Cancelled, Removes, Unregisters, Again, Answer, Fails
    <3> QED BY <3>1, <3>2
  <2> QED BY <2>1, <2>2
<1>3. CASE \/ StopAgent \/ CancelConversation
           \/ \E c \in Cards : AsksRunning(c) \/ Parks(c) \/ TakesBack(c) \/ Steers(c)
  BY <1>3 DEF StopAgent, CancelConversation, AsksRunning, Parks, TakesBack, Steers
<1>4. ASSUME NEW c \in Cards, NEW q \in Turns, SendsCard(c, q)
      PROVE  t \in fired' /\ at'[t] \in {p} \cup Nearer(p)
  BY <1>4 DEF TypeOK, SendsCard, Moves
<1> QED BY <1>1, <1>2, <1>3, <1>4, StepCases

\* Its own step brings it nearer.
LEMMA StoppedGoesOn ==
    ASSUME TypeOK, NEW t \in Turns, NEW p \in Registered, StoppedAt(t, p), Own(t)
    PROVE  t \in fired' /\ at'[t] \in Nearer(p)
<1>1. t \in fired'
  BY DEF StoppedAt, Own, Register, Insert, Check, Drain, Cancelled, Removes, Unregisters
<1>2. at'[t] \in Nearer(p)
  BY SetsAre DEF Sets, StoppedAt, Nearer, TypeOK, InLoop, Moves, Own, Register, Insert,
                 Check, Drain, Cancelled, Removes, Unregisters
<1> QED BY <1>1, <1>2

Leaves(t, p) == StoppedAt(t, p) ~> (t \in fired /\ at[t] \in Nearer(p))

\* Fairness takes it out of every place.
LEMMA StoppedLeaves ==
    ASSUME NEW t \in Turns, NEW p \in Registered
    PROVE  Spec /\ []StoppedCanGoOn => Leaves(t, p)
<1>1. Fairness => Fair(t)
  BY DEF Fairness
<1>2. Fair(t) => WF_vars(Own(t))
  BY PTL DEF Fair
<1>3. TypeOK /\ StoppedAt(t, p) /\ [Next]_vars
          => StoppedAt(t, p)' \/ (t \in fired /\ at[t] \in Nearer(p))'
  BY StoppedMoves DEF StoppedAt
<1>4. TypeOK /\ StoppedAt(t, p) /\ <<Own(t)>>_vars => (t \in fired /\ at[t] \in Nearer(p))'
  BY StoppedGoesOn
<1>5. StoppedCanGoOn /\ StoppedAt(t, p) => ENABLED <<Own(t)>>_vars
  BY DEF StoppedCanGoOn, StoppedAt
<1> QED BY <1>1, <1>2, <1>3, <1>4, <1>5, TypeCorrect, PTL DEF Spec, Leaves

\* select! on the token, for any number of turns and cards: a turn that was
\* stopped or superseded ends, wherever its token fired.
THEOREM StoppedTurnsAlwaysEnd == Spec /\ []StoppedCanGoOn => StoppedTurnsEnd
<1> SUFFICES ASSUME NEW t \in Turns
             PROVE  Spec /\ []StoppedCanGoOn => (t \in fired ~> at[t] = "over")
  BY DEF StoppedTurnsEnd
<1>1. Spec => []FiredUnderWay
  <2>1. Init => FiredUnderWay
    BY DEF Init, FiredUnderWay
  <2> QED BY <2>1, FiredStep, TypeCorrect, TurnsAreReachable, PTL DEF Spec
<1>2. ASSUME NEW p \in Registered PROVE Spec /\ []StoppedCanGoOn => Leaves(t, p)
  BY StoppedLeaves
<1>3. Spec /\ []StoppedCanGoOn => Leaves(t, "unregistering")
  BY <1>2, SetsAre DEF Sets
<1>4. Spec /\ []StoppedCanGoOn => Leaves(t, "ending")
  BY <1>2, SetsAre DEF Sets
<1>5. Spec /\ []StoppedCanGoOn => Leaves(t, "turn")
  BY <1>2, SetsAre DEF Sets
<1>6. Spec /\ []StoppedCanGoOn => Leaves(t, "calling")
  BY <1>2, SetsAre DEF Sets
<1>7. Spec /\ []StoppedCanGoOn => Leaves(t, "compressing")
  BY <1>2, SetsAre DEF Sets
<1>8. Spec /\ []StoppedCanGoOn => Leaves(t, "registered")
  BY <1>2, SetsAre DEF Sets
<1>9. /\ t \in fired /\ at[t] \in Nearer("registered")
             => StoppedAt(t, "turn") \/ StoppedAt(t, "ending")
      /\ t \in fired /\ at[t] \in Nearer("compressing")
             => StoppedAt(t, "calling") \/ StoppedAt(t, "ending")
      /\ t \in fired /\ at[t] \in Nearer("calling")
             => StoppedAt(t, "turn") \/ StoppedAt(t, "ending")
      /\ t \in fired /\ at[t] \in Nearer("turn") => StoppedAt(t, "ending")
      /\ t \in fired /\ at[t] \in Nearer("ending") => StoppedAt(t, "unregistering")
      /\ t \in fired /\ at[t] \in Nearer("unregistering") => at[t] = "over"
  BY DEF Nearer, StoppedAt
<1>10. FiredUnderWay /\ t \in fired
           => \/ StoppedAt(t, "registered") \/ StoppedAt(t, "compressing")
              \/ StoppedAt(t, "calling") \/ StoppedAt(t, "turn") \/ StoppedAt(t, "ending")
              \/ StoppedAt(t, "unregistering") \/ at[t] = "over"
  BY SetsAre DEF Sets, FiredUnderWay, StoppedAt
<1> QED BY <1>1, <1>3, <1>4, <1>5, <1>6, <1>7, <1>8, <1>9, <1>10, PTL DEF Leaves
=============================================================================
