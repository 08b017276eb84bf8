--------------------------- MODULE TurnSinkProofs ---------------------------
(***************************************************************************)
(* The event sink for any number of conversations, turns, deltas and tool  *)
(* calls.                                                                  *)
(***************************************************************************)
EXTENDS TurnSink, TLAPS

-----------------------------------------------------------------------------
(***************************************************************************)
(* What the sequence operators of the actions do.                          *)
(***************************************************************************)
Elements(s) == {s[k] : k \in DOMAIN s}

\* The tool events of the calls from+1..to of a run.
Block(r, from, to, kind) ==
    {[run |-> r, call |-> n, kind |-> kind] : n \in (from + 1)..to}

\* The events of calls from+1..to are a sequence of entries, one per call.
LEMMA EntriesType ==
    ASSUME NEW r \in Runs, NEW from \in Nat, NEW to \in 0..MaxTools, from <= to,
           NEW kind \in {"start", "result"}
    PROVE  /\ Entries(r, from, to, kind) \in Seq(Entry)
           /\ Elements(Entries(r, from, to, kind)) = Block(r, from, to, kind)
<1> USE SinkAssumption
<1>1. to - from \in Nat /\ to \in Nat
  OBVIOUS
<1>2. \A i \in 1..(to - from) :
        /\ from + i \in 1..MaxTools
        /\ [run |-> r, call |-> from + i, kind |-> kind] \in Entry
  BY <1>1 DEF Entry
<1>3. Entries(r, from, to, kind) \in Seq(Entry)
  BY <1>1, <1>2 DEF Entries
<1>4. DOMAIN Entries(r, from, to, kind) = 1..(to - from)
  BY <1>1 DEF Entries
<1>5. \A n \in (from + 1)..to : n - from \in 1..(to - from) /\ from + (n - from) = n
  BY <1>1
<1>6. \A i \in 1..(to - from) : from + i \in (from + 1)..to
  BY <1>1
<1>7. Elements(Entries(r, from, to, kind)) = Block(r, from, to, kind)
  BY <1>4, <1>5, <1>6, Zenon DEF Elements, Block, Entries
<1> QED BY <1>3, <1>7

\* A concatenation holds what its two parts hold.
LEMMA ConcatElements ==
    ASSUME NEW s \in Seq(Entry), NEW t \in Seq(Entry)
    PROVE  /\ s \o t \in Seq(Entry)
           /\ Elements(s \o t) = Elements(s) \cup Elements(t)
<1>1. /\ s \o t \in Seq(Entry)
      /\ DOMAIN (s \o t) = 1..(Len(s) + Len(t))
      /\ DOMAIN s = 1..Len(s) /\ DOMAIN t = 1..Len(t)
      /\ Len(s) \in Nat /\ Len(t) \in Nat
  OBVIOUS
<1>2. \A k \in 1..Len(s) : (s \o t)[k] = s[k]
  OBVIOUS
<1>3. \A k \in 1..Len(t) : (s \o t)[Len(s) + k] = t[k]
  OBVIOUS
<1>4. \A k \in 1..(Len(s) + Len(t)) :
        k \in 1..Len(s) \/ \E j \in 1..Len(t) : k = Len(s) + j
  <2> TAKE k \in 1..(Len(s) + Len(t))
  <2>1. CASE k <= Len(s)
    BY <2>1, <1>1
  <2>2. CASE k > Len(s)
    <3>1. k - Len(s) \in 1..Len(t) /\ k = Len(s) + (k - Len(s))
      BY <2>2, <1>1
    <3> QED BY <3>1
  <2> QED BY <2>1, <2>2, <1>1
<1>5. \A k \in 1..Len(s) : k \in 1..(Len(s) + Len(t))
  BY <1>1
<1>6. \A k \in 1..Len(t) : Len(s) + k \in 1..(Len(s) + Len(t))
  BY <1>1
<1>7. \A e \in Elements(s \o t) : e \in Elements(s) \cup Elements(t)
  <2> TAKE e \in Elements(s \o t)
  <2>1. PICK k \in 1..(Len(s) + Len(t)) : e = (s \o t)[k]
    BY <1>1, Zenon DEF Elements
  <2>2. CASE k \in 1..Len(s)
    BY <2>1, <2>2, <1>1, <1>2, Zenon DEF Elements
  <2>3. ASSUME NEW j \in 1..Len(t), k = Len(s) + j
        PROVE  e \in Elements(t)
    BY <2>1, <2>3, <1>1, <1>3, Zenon DEF Elements
  <2> QED BY <2>2, <2>3, <1>4, Zenon
<1>8. \A e \in Elements(s) : e \in Elements(s \o t)
  BY <1>1, <1>2, <1>5, Zenon DEF Elements
<1>9. \A e \in Elements(t) : e \in Elements(s \o t)
  BY <1>1, <1>3, <1>6, Zenon DEF Elements
<1> QED BY <1>1, <1>7, <1>8, <1>9, Zenon

\* Appending a row adds one index and keeps the other rows.
LEMMA AppendRow ==
    ASSUME rows \in Seq(Row), NEW row \in Row, rows' = Append(rows, row)
    PROVE  /\ rows' \in Seq(Row)
           /\ DOMAIN rows' = DOMAIN rows \cup {Len(rows) + 1}
           /\ Len(rows) + 1 \notin DOMAIN rows
           /\ \A i \in DOMAIN rows : rows'[i] = rows[i]
           /\ rows'[Len(rows) + 1] = row
<1>1. /\ rows' \in Seq(Row)
      /\ DOMAIN rows' = 1..(Len(rows) + 1)
      /\ DOMAIN rows = 1..Len(rows)
      /\ Len(rows) \in Nat
  OBVIOUS
<1>2. rows'[Len(rows) + 1] = row /\ \A i \in 1..Len(rows) : rows'[i] = rows[i]
  OBVIOUS
<1>3. 1..(Len(rows) + 1) = 1..Len(rows) \cup {Len(rows) + 1}
  BY <1>1
<1> QED BY <1>1, <1>2, <1>3

-----------------------------------------------------------------------------
(***************************************************************************)
(* Types.                                                                  *)
(***************************************************************************)
LEMMA FiledRowType ==
    ASSUME TypeOK, NEW r \in Runs, said[r] # 0, NEW usage \in Runs \cup {NoRun}
    PROVE  FiledRow(r, usage) \in Row
<1>1. activity[ConvOf[r]] \in Seq(Entry) /\ << >> \in Seq(Entry)
  BY SinkAssumption DEF TypeOK
<1>2. said[r] \in 1..MaxDeltas
  BY SinkAssumption DEF TypeOK
<1> QED BY <1>1, <1>2 DEF FiledRow, Row

\* persist_assistant leaves well-typed rows and buffers.
LEMMA FileReplyType ==
    ASSUME TypeOK, NEW r \in Runs, NEW usage \in Runs \cup {NoRun}, FileReply(r, usage)
    PROVE  activity' \in [Convs -> Seq(Entry)] /\ rows' \in Seq(Row)
<1> USE SinkAssumption DEF TypeOK
<1>1. CASE said[r] = 0
  BY <1>1 DEF FileReply
<1>2. CASE said[r] # 0
  <2>1. FiledRow(r, usage) \in Row
    BY <1>2, FiledRowType
  <2>2. << >> \in Seq(Entry)
    OBVIOUS
  <2>3. activity' = [activity EXCEPT ![ConvOf[r]] = << >>] /\ rows' = Append(rows, FiledRow(r, usage))
    BY <1>2 DEF FileReply
  <2>4. activity' \in [Convs -> Seq(Entry)]
    BY <2>2, <2>3
  <2>5. rows' \in Seq(Row)
    <3> HIDE DEF TypeOK
    <3>1. rows \in Seq(Row)
      BY DEF TypeOK
    <3> QED BY <2>1, <2>3, <3>1, AppendRow
  <2> QED BY <2>4, <2>5
<1> QED BY <1>1, <1>2

\* Text appended to one conversation's buffer leaves the other buffers alone.
LEMMA Appended ==
    ASSUME TypeOK, NEW c \in Convs, NEW t \in Seq(Entry),
           activity' = [activity EXCEPT ![c] = @ \o t]
    PROVE  /\ activity' \in [Convs -> Seq(Entry)]
           /\ activity'[c] = activity[c] \o t
           /\ Elements(activity'[c]) = Elements(activity[c]) \cup Elements(t)
           /\ \A d \in Convs \ {c} : activity'[d] = activity[d]
<1>1. activity \in [Convs -> Seq(Entry)] /\ activity[c] \in Seq(Entry)
  BY DEF TypeOK
<1>2. /\ activity[c] \o t \in Seq(Entry)
      /\ Elements(activity[c] \o t) = Elements(activity[c]) \cup Elements(t)
  BY <1>1, ConcatElements
<1> QED BY <1>1, <1>2

\* A message's tool_starts go into its conversation's buffer.
LEMMA ToolsStartAppends ==
    ASSUME TypeOK, NEW r \in Runs, NEW n \in 1..MaxTools, ToolsStart(r, n)
    PROVE  LET c   == ConvOf[r]
               new == Entries(r, started[r], started[r] + n, "start")
           IN /\ c \in Convs
              /\ started[r] + n \in 0..MaxTools
              /\ new \in Seq(Entry)
              /\ activity' \in [Convs -> Seq(Entry)]
              /\ activity'[c] = activity[c] \o new
              /\ Elements(activity'[c]) =
                   Elements(activity[c]) \cup Block(r, started[r], started[r] + n, "start")
              /\ \A d \in Convs \ {c} : activity'[d] = activity[d]
<1>0. started[r] \in 0..MaxTools /\ started[r] \in Nat /\ n \in Nat /\ ConvOf[r] \in Convs
  BY SinkAssumption DEF TypeOK
<1>1. /\ started[r] \in Nat /\ started[r] + n \in 0..MaxTools /\ started[r] <= started[r] + n
      /\ ConvOf[r] \in Convs
  BY <1>0, SinkAssumption DEF TypeOK, ToolsStart
<1>3. activity' = [activity EXCEPT ![ConvOf[r]] =
                     @ \o Entries(r, started[r], started[r] + n, "start")]
  BY DEF ToolsStart
<1>2. /\ Entries(r, started[r], started[r] + n, "start") \in Seq(Entry)
      /\ Elements(Entries(r, started[r], started[r] + n, "start"))
            = Block(r, started[r], started[r] + n, "start")
  BY <1>1, EntriesType
<1> QED BY <1>1, <1>2, <1>3, Appended, ZenonT(30)

\* A batch's tool_results go into its conversation's buffer.
LEMMA ToolsEndAppends ==
    ASSUME TypeOK, NEW r \in Runs, NEW n \in 1..MaxTools, ToolsEnd(r, n)
    PROVE  LET c   == ConvOf[r]
               new == Entries(r, finished[r], finished[r] + n, "result")
           IN /\ c \in Convs
              /\ finished[r] + n \in 0..MaxTools
              /\ new \in Seq(Entry)
              /\ activity' \in [Convs -> Seq(Entry)]
              /\ activity'[c] = activity[c] \o new
              /\ Elements(activity'[c]) =
                   Elements(activity[c]) \cup Block(r, finished[r], finished[r] + n, "result")
              /\ \A d \in Convs \ {c} : activity'[d] = activity[d]
<1>0. finished[r] \in 0..MaxTools /\ finished[r] \in Nat /\ n \in Nat /\ ConvOf[r] \in Convs
  BY SinkAssumption DEF TypeOK
<1>1. /\ finished[r] \in Nat /\ finished[r] + n \in 0..MaxTools /\ finished[r] <= finished[r] + n
      /\ ConvOf[r] \in Convs
  BY <1>0, SinkAssumption DEF TypeOK, ToolsEnd
<1>3. activity' = [activity EXCEPT ![ConvOf[r]] =
                     @ \o Entries(r, finished[r], finished[r] + n, "result")]
  BY DEF ToolsEnd
<1>2. /\ Entries(r, finished[r], finished[r] + n, "result") \in Seq(Entry)
      /\ Elements(Entries(r, finished[r], finished[r] + n, "result"))
            = Block(r, finished[r], finished[r] + n, "result")
  BY <1>1, EntriesType
<1> QED BY <1>1, <1>2, <1>3, Appended, Zenon

\* Every event keeps the types.
LEMMA TypeStep ==
    ASSUME TypeOK, [Next]_vars
    PROVE  TypeOK'
<1> USE SinkAssumption DEF TypeOK
<1>1. CASE UNCHANGED vars
  BY <1>1 DEF vars
<1>2. ASSUME NEW r \in Runs, Begin(r) \/ Refused(r) \/ AgentAborts(r) \/ AgentFails(r)
      PROVE  TypeOK'
  <2>1. at' \in [Runs -> {"waiting", "replying", "tooling", "failing", "over"}]
    BY <1>2 DEF Begin, Refused, AgentAborts, AgentFails, Moves
  <2>2. turnCost' \in [Convs -> Runs \cup {NoRun}]
    BY <1>2 DEF Begin, Refused, AgentAborts, AgentFails, CacheCost
  <2>3. UNCHANGED <<said, started, finished, completed, activity, rows>>
    BY <1>2 DEF Begin, Refused, AgentAborts, AgentFails
  <2> QED BY <2>1, <2>2, <2>3
<1>3. ASSUME NEW r \in Runs, TextDelta(r)
      PROVE  TypeOK'
  BY <1>3 DEF TextDelta
<1>4. ASSUME NEW r \in Runs, NEW n \in 1..MaxTools, ToolsStart(r, n)
      PROVE  TypeOK'
  <2>1. activity' \in [Convs -> Seq(Entry)] /\ started[r] + n \in 0..MaxTools
    BY <1>4, ToolsStartAppends
  <2> QED BY <1>4, <2>1 DEF ToolsStart, Moves
<1>5. ASSUME NEW r \in Runs, NEW n \in 1..MaxTools, ToolsEnd(r, n)
      PROVE  TypeOK'
  <2>1. activity' \in [Convs -> Seq(Entry)] /\ finished[r] + n \in 0..MaxTools
    BY <1>5, ToolsEndAppends
  <2> QED BY <1>5, <2>1 DEF ToolsEnd, Moves
<1>6. ASSUME NEW r \in Runs, AgentEnds(r)
      PROVE  TypeOK'
  <2>1. turnCost' \in [Convs -> Runs \cup {NoRun}] /\ turnCost'[ConvOf[r]] \in Runs \cup {NoRun}
    BY <1>6 DEF AgentEnds, CacheCost
  <2>2. activity' \in [Convs -> Seq(Entry)] /\ rows' \in Seq(Row)
    BY <1>6, <2>1, FileReplyType DEF AgentEnds
  <2> QED BY <1>6, <2>1, <2>2 DEF AgentEnds, Moves
<1>7. ASSUME NEW r \in Runs, ReportFailure(r)
      PROVE  TypeOK'
  <2>1. CASE said[r] = 0
    BY <1>7, <2>1 DEF ReportFailure, Moves
  <2>2. CASE said[r] # 0
    <3>1. [run |-> r, text |-> said[r], cut |-> TRUE, usage |-> NoRun, tools |-> << >>] \in Row
      BY <2>2 DEF Row
    <3> QED BY <1>7, <2>2, <3>1, AppendRow DEF ReportFailure, Moves
  <2> QED BY <2>1, <2>2
<1> QED BY <1>1, <1>2, <1>3, <1>4, <1>5, <1>6, <1>7 DEF Next

(***************************************************************************)
(* Type correctness of the sink.                                           *)
(***************************************************************************)
THEOREM TypeCorrect == Spec => []TypeOK
<1>1. Init => TypeOK
  BY SinkAssumption DEF Init, TypeOK
<1>2. TypeOK /\ [Next]_vars => TypeOK'
  BY TypeStep
<1> QED BY <1>1, <1>2, PTL DEF Spec

-----------------------------------------------------------------------------
(***************************************************************************)
(* Rows.  RepliesAreFiled and UsageIsOwn need to know that nothing is      *)
(* filed of a turn before its end, so that a turn files once.              *)
(***************************************************************************)
Latched == \A r \in Runs : completed[r] => at[r] = "over"

RowsAreOver == \A i \in DOMAIN rows : at[rows[i].run] = "over"

Book == Latched /\ RowsAreOver /\ RepliesAreFiled /\ UsageIsOwn

\* A row belongs to a run of the model.
LEMMA RowRuns ==
    ASSUME TypeOK
    PROVE  \A i \in DOMAIN rows : rows[i].run \in Runs
<1>1. rows \in Seq(Row)
  BY DEF TypeOK
<1>2. \A i \in DOMAIN rows : rows[i] \in Row
  BY <1>1
<1>3. \A row \in Row : row.run \in Runs
  BY DEF Row
<1> QED BY <1>2, <1>3

\* A step of a turn that is not over and that files nothing.
LEMMA QuietBook ==
    ASSUME TypeOK, Book, NEW r \in Runs, at[r] # "over", UNCHANGED <<completed, rows>>,
           \A s \in Runs \ {r} : at'[s] = at[s] /\ said'[s] = said[s]
    PROVE  Book'
<1>1. \A i \in DOMAIN rows : rows[i].run # r
  BY DEF Book, RowsAreOver
<1>2. \A i \in DOMAIN rows : rows[i].run \in Runs
  BY RowRuns
<1>3. ~completed[r]
  BY DEF Book, Latched
<1>4. Latched' /\ RowsAreOver'
  BY <1>1, <1>2, <1>3 DEF Book, Latched, RowsAreOver
<1>5. RepliesAreFiled'
  BY <1>1, <1>3 DEF Book, RepliesAreFiled, RowsOf
<1>6. UsageIsOwn'
  BY DEF Book, UsageIsOwn
<1> QED BY <1>4, <1>5, <1>6 DEF Book

\* The end of a turn that files one row.
LEMMA FiledBook ==
    ASSUME TypeOK, Book, NEW r \in Runs, at[r] # "over", at'[r] = "over",
           NEW row \in Row, rows' = Append(rows, row), UNCHANGED said,
           row.run = r, row.text = said[r], row.cut <=> ~completed'[r],
           ConvOf[r] \in AgentSessions /\ ~row.cut => row.usage = r,
           \A s \in Runs \ {r} : at'[s] = at[s] /\ completed'[s] = completed[s]
    PROVE  Book'
<1> DEFINE last == Len(rows) + 1
<1>1. /\ DOMAIN rows' = DOMAIN rows \cup {last} /\ last \notin DOMAIN rows
      /\ \A i \in DOMAIN rows : rows'[i] = rows[i]
      /\ rows'[last] = row
  BY AppendRow DEF TypeOK
<1>2. \A i \in DOMAIN rows : rows[i].run # r /\ rows[i].run \in Runs
  BY RowRuns DEF Book, RowsAreOver
<1> HIDE DEF last
<1>3. Latched' /\ RowsAreOver'
  BY <1>1, <1>2 DEF Book, Latched, RowsAreOver
<1>4. RowsOf(r)' = {last} /\ \A s \in Runs \ {r} : RowsOf(s)' = RowsOf(s)
  BY <1>1, <1>2 DEF RowsOf
<1>5. RepliesAreFiled'
  <2> DEFINE Filed(s) ==
        /\ \A i, j \in RowsOf(s)' : i = j
        /\ \A i \in RowsOf(s)' : rows'[i].text = said'[s] /\ (rows'[i].cut <=> ~completed'[s])
        /\ completed'[s] /\ said'[s] > 0 => RowsOf(s)' # {}
  <2>1. Filed(r)
    BY <1>1, <1>4
  <2>2. ASSUME NEW s \in Runs \ {r}
        PROVE  Filed(s)
    <3>1. /\ \A i, j \in RowsOf(s) : i = j
          /\ \A i \in RowsOf(s) : rows[i].text = said[s] /\ (rows[i].cut <=> ~completed[s])
          /\ completed[s] /\ said[s] > 0 => RowsOf(s) # {}
      BY DEF Book, RepliesAreFiled
    <3>2. RowsOf(s)' = RowsOf(s) /\ said'[s] = said[s] /\ completed'[s] = completed[s]
      BY <1>4
    <3>3. \A i \in RowsOf(s) : rows'[i] = rows[i]
      BY <1>1 DEF RowsOf
    <3>4. \A i, j \in RowsOf(s)' : i = j
      BY <3>1, <3>2
    <3>5. ASSUME NEW i \in RowsOf(s)'
          PROVE  rows'[i].text = said'[s] /\ (rows'[i].cut <=> ~completed'[s])
      <4>1. i \in RowsOf(s) /\ rows'[i] = rows[i]
        BY <3>2, <3>3
      <4>2. rows[i].text = said[s] /\ (rows[i].cut <=> ~completed[s])
        BY <3>1, <4>1
      <4> QED BY <3>2, <4>1, <4>2, Zenon
    <3>7. completed'[s] /\ said'[s] > 0 => RowsOf(s)' # {}
      BY <3>1, <3>2
    <3> QED BY <3>4, <3>5, <3>7
  <2> HIDE DEF Filed
  <2>3. \A s \in Runs : Filed(s)
    BY <2>1, <2>2
  <2> USE DEF Filed
  <2> QED BY <2>3 DEF RepliesAreFiled
<1>6. UsageIsOwn'
  BY <1>1 DEF Book, UsageIsOwn
<1> QED BY <1>3, <1>5, <1>6 DEF Book

\* Every event keeps the book of rows.
LEMMA BookStep ==
    ASSUME TypeOK, Book, [Next]_vars
    PROVE  Book'
<1>1. CASE UNCHANGED vars
  BY <1>1 DEF vars, Book, Latched, RowsAreOver, RepliesAreFiled, UsageIsOwn, RowsOf
<1>2. ASSUME NEW r \in Runs, Begin(r) \/ Refused(r) \/ AgentAborts(r) \/ AgentFails(r)
      PROVE  Book'
  <2>1. at[r] # "over" /\ UNCHANGED <<said, completed, rows>>
    BY <1>2 DEF Begin, Refused, AgentAborts, AgentFails
  <2>2. \A s \in Runs \ {r} : at'[s] = at[s]
    BY <1>2 DEF Begin, Refused, AgentAborts, AgentFails, Moves, TypeOK
  <2> QED BY <2>1, <2>2, QuietBook
<1>3. ASSUME NEW r \in Runs, TextDelta(r)
      PROVE  Book'
  <2>1. at[r] # "over" /\ UNCHANGED <<at, completed, rows>>
    BY <1>3 DEF TextDelta
  <2>2. \A s \in Runs \ {r} : said'[s] = said[s]
    BY <1>3 DEF TextDelta, TypeOK
  <2> QED BY <2>1, <2>2, QuietBook
<1>4. ASSUME NEW r \in Runs, NEW n \in 1..MaxTools, ToolsStart(r, n) \/ ToolsEnd(r, n)
      PROVE  Book'
  <2>1. at[r] # "over" /\ UNCHANGED <<said, completed, rows>>
    BY <1>4 DEF ToolsStart, ToolsEnd
  <2>2. \A s \in Runs \ {r} : at'[s] = at[s]
    BY <1>4 DEF ToolsStart, ToolsEnd, Moves, TypeOK
  <2> QED BY <2>1, <2>2, QuietBook
<1>5. ASSUME NEW r \in Runs, AgentEnds(r)
      PROVE  Book'
  <2>1. /\ at[r] = "replying" /\ at' = [at EXCEPT ![r] = "over"]
        /\ UNCHANGED said /\ ~completed[r]
    BY <1>5 DEF AgentEnds, Moves, Book, Latched
  <2>2. completed' = [completed EXCEPT ![r] = TRUE] /\ FileReply(r, turnCost'[ConvOf[r]])
    BY <1>5, <2>1 DEF AgentEnds
  <2>3. turnCost'[ConvOf[r]] = r
    BY <1>5, SinkAssumption DEF AgentEnds, CacheCost, TypeOK
  <2>4. \A s \in Runs \ {r} : at'[s] = at[s] /\ completed'[s] = completed[s]
    BY <2>1, <2>2 DEF TypeOK
  <2>5. at'[r] = "over" /\ completed'[r]
    BY <2>1, <2>2 DEF TypeOK
  <2>6. CASE said[r] = 0
    <3>1. UNCHANGED rows /\ \A i \in DOMAIN rows : rows[i].run # r /\ rows[i].run \in Runs
      BY <2>1, <2>2, <2>6, RowRuns DEF FileReply, Book, RowsAreOver
    <3>2. Latched' /\ RowsAreOver'
      BY <3>1, <2>4, <2>5 DEF Book, Latched, RowsAreOver
    <3>3. RepliesAreFiled'
      BY <3>1, <2>1, <2>4, <2>6 DEF Book, RepliesAreFiled, RowsOf
    <3>4. UsageIsOwn'
      BY <3>1 DEF Book, UsageIsOwn
    <3> QED BY <3>2, <3>3, <3>4 DEF Book
  <2>7. CASE said[r] # 0
    <3> DEFINE row == FiledRow(r, r)
    <3>1. rows' = Append(rows, row)
      BY <2>2, <2>3, <2>7 DEF FileReply
    <3>2. row \in Row
      BY <2>7, FiledRowType
    <3>3. /\ row.run = r /\ row.text = said[r] /\ row.cut = FALSE
          /\ ConvOf[r] \in AgentSessions => row.usage = r
      BY DEF FiledRow
    <3> HIDE DEF row
    <3> QED BY <2>1, <2>4, <2>5, <3>1, <3>2, <3>3, FiledBook
  <2> QED BY <2>6, <2>7
<1>6. ASSUME NEW r \in Runs, ReportFailure(r)
      PROVE  Book'
  <2>1. /\ at[r] # "over" /\ UNCHANGED <<said, completed>>
        /\ at' = [at EXCEPT ![r] = "over"]
    BY <1>6 DEF ReportFailure, Moves
  <2>2. at'[r] = "over" /\ \A s \in Runs \ {r} : at'[s] = at[s]
    BY <2>1 DEF TypeOK
  <2>3. ~completed[r]
    BY <2>1 DEF Book, Latched
  <2>4. CASE said[r] = 0
    BY <1>6, <2>1, <2>2, <2>4, QuietBook DEF ReportFailure
  <2>5. CASE said[r] # 0
    <3> DEFINE row == [run |-> r, text |-> said[r], cut |-> TRUE,
                       usage |-> NoRun, tools |-> << >>]
    <3>1. rows' = Append(rows, row) /\ row \in Row
      BY <1>6, <2>5 DEF ReportFailure, TypeOK, Row
    <3>2. row.run = r /\ row.text = said[r] /\ row.cut = TRUE
      OBVIOUS
    <3> HIDE DEF row
    <3> QED BY <2>1, <2>2, <2>3, <3>1, <3>2, FiledBook
  <2> QED BY <2>4, <2>5
<1> QED BY <1>1, <1>2, <1>3, <1>4, <1>5, <1>6 DEF Next

\* The book of rows, with the types it needs, holds throughout.
LEMMA BookInvariant == Spec => [](TypeOK /\ Book)
<1>1. Init => TypeOK /\ Book
  BY SinkAssumption DEF Init, TypeOK, Book, Latched, RowsAreOver, RepliesAreFiled,
                        UsageIsOwn, RowsOf
<1>2. TypeOK /\ Book /\ [Next]_vars => TypeOK' /\ Book'
  BY TypeStep, BookStep
<1> QED BY <1>1, <1>2, PTL DEF Spec

(***************************************************************************)
(* Each completed turn with a text has one row with the whole text, and a  *)
(* row is marked as cut exactly if its turn did not complete.              *)
(***************************************************************************)
THEOREM RepliesFiled == Spec => []RepliesAreFiled
<1>1. TypeOK /\ Book => RepliesAreFiled
  BY DEF Book
<1> QED BY <1>1, BookInvariant, PTL

(***************************************************************************)
(* The usage on a row is that of the turn that wrote it.                   *)
(***************************************************************************)
THEOREM UsageOwn == Spec => []UsageIsOwn
<1>1. TypeOK /\ Book => UsageIsOwn
  BY DEF Book
<1> QED BY <1>1, BookInvariant, PTL

-----------------------------------------------------------------------------
(***************************************************************************)
(* Tool activity.  An entry is emitted once; from then on it is in the     *)
(* buffer of its conversation or in one row, never in both.                *)
(***************************************************************************)
Emitted(e) == e.call <= IF e.kind = "start" THEN started[e.run] ELSE finished[e.run]

Buffered ==
    \A c \in Convs : \A e \in Elements(activity[c]) :
        /\ ConvOf[e.run] = c
        /\ Emitted(e)
        /\ \A i \in DOMAIN rows : e \notin ToolsOf(rows[i])

Shown == \A i \in DOMAIN rows : \A e \in ToolsOf(rows[i]) : Emitted(e)

Ledger == Buffered /\ Shown /\ ActivityFiledOnce

\* What buffers and rows hold are tool entries.
LEMMA LedgerEntries ==
    ASSUME TypeOK
    PROVE  /\ \A c \in Convs : \A e \in Elements(activity[c]) : e \in Entry
           /\ \A i \in DOMAIN rows : \A e \in ToolsOf(rows[i]) : e \in Entry
<1>1. \A s \in Seq(Entry) : \A k \in DOMAIN s : s[k] \in Entry
  OBVIOUS
<1>2. \A c \in Convs : activity[c] \in Seq(Entry)
  BY DEF TypeOK
<1>3. rows \in Seq(Row)
  BY DEF TypeOK
<1>4. \A i \in DOMAIN rows : rows[i] \in Row
  BY <1>3
<1>5. \A row \in Row : row.tools \in Seq(Entry)
  BY DEF Row
<1>6. \A c \in Convs : \A e \in Elements(activity[c]) : e \in Entry
  BY <1>1, <1>2, Zenon DEF Elements
<1>7. \A i \in DOMAIN rows : \A e \in ToolsOf(rows[i]) : e \in Entry
  BY <1>1, <1>4, <1>5, Zenon DEF ToolsOf
<1> QED BY <1>6, <1>7

\* New entries go into the buffer of their conversation.
LEMMA BlockLedger ==
    ASSUME TypeOK, Ledger, NEW c \in Convs, NEW B \in SUBSET Entry,
           Elements(activity'[c]) = Elements(activity[c]) \cup B,
           \A d \in Convs \ {c} : activity'[d] = activity[d],
           \A e \in B : ConvOf[e.run] = c /\ ~Emitted(e) /\ Emitted(e)',
           \A e \in Entry : Emitted(e) => Emitted(e)',
           UNCHANGED rows
    PROVE  Ledger'
<1>1. \A i \in DOMAIN rows : ToolsOf(rows'[i]) = ToolsOf(rows[i])
  OBVIOUS
<1>2. Shown'
  BY <1>1, LedgerEntries DEF Ledger, Shown
<1>3. \A e \in B : \A i \in DOMAIN rows : e \notin ToolsOf(rows[i])
  BY DEF Ledger, Shown
<1>4. ASSUME NEW d \in Convs, NEW e \in Elements(activity'[d])
      PROVE  (e \in Elements(activity[d])) \/ (d = c /\ e \in B)
  <2>1. CASE d = c
    <3>1. e \in Elements(activity'[c])
      BY <2>1
    <3>2. e \in Elements(activity[c]) \cup B
      BY <3>1
    <3> QED BY <3>2, <2>1
  <2>2. CASE d # c
    <3>1. activity'[d] = activity[d]
      BY <2>2
    <3>2. e \in Elements(activity[d])
      BY <3>1
    <3> QED BY <3>2
  <2> QED BY <2>1, <2>2
<1>5. Buffered'
  BY <1>1, <1>3, <1>4, LedgerEntries, SMTT(30) DEF Ledger, Buffered, Elements
<1>6. ActivityFiledOnce'
  BY <1>1 DEF Ledger, ActivityFiledOnce
<1> QED BY <1>2, <1>5, <1>6 DEF Ledger

\* A row is written, and what it shows leaves the buffers.
LEMMA FiledLedger ==
    ASSUME TypeOK, Ledger, NEW row \in Row, rows' = Append(rows, row),
           ConvOf[row.run] \in Convs,
           \A e \in Elements(row.tools) : e \in Elements(activity[ConvOf[row.run]]),
           \A d \in Convs : \A e \in Elements(activity'[d]) :
              e \in Elements(activity[d]) /\ e \notin Elements(row.tools),
           UNCHANGED <<started, finished>>
    PROVE  Ledger'
<1> DEFINE last == Len(rows) + 1
<1>1. /\ DOMAIN rows' = DOMAIN rows \cup {last} /\ last \notin DOMAIN rows
      /\ \A i \in DOMAIN rows : rows'[i] = rows[i]
      /\ rows'[last] = row
  BY AppendRow DEF TypeOK
<1> HIDE DEF last
<1>2. \A i \in DOMAIN rows : ToolsOf(rows'[i]) = ToolsOf(rows[i])
  BY <1>1
<1>3. ToolsOf(rows'[last]) = Elements(row.tools)
  BY <1>1 DEF ToolsOf, Elements
<1>4. \A e : Emitted(e)' <=> Emitted(e)
  BY DEF Emitted
<1>5. \A e \in Elements(row.tools) :
        /\ ConvOf[e.run] = ConvOf[row.run] /\ Emitted(e)
        /\ \A i \in DOMAIN rows : e \notin ToolsOf(rows[i])
  BY DEF Ledger, Buffered
<1>6. Shown'
  BY <1>1, <1>2, <1>3, <1>4, <1>5 DEF Ledger, Shown
<1>7. Buffered'
  <2> SUFFICES ASSUME NEW d \in Convs, NEW e \in Elements(activity'[d])
               PROVE  /\ ConvOf[e.run] = d /\ Emitted(e)'
                      /\ \A i \in DOMAIN rows' : e \notin ToolsOf(rows'[i])
    BY DEF Buffered, Elements
  <2>1. /\ ConvOf[e.run] = d /\ Emitted(e)
        /\ \A i \in DOMAIN rows : e \notin ToolsOf(rows[i])
        /\ e \notin Elements(row.tools)
    BY DEF Ledger, Buffered
  <2> QED BY <2>1, <1>1, <1>2, <1>3, <1>4
<1>8. ActivityFiledOnce'
  <2> SUFFICES ASSUME NEW i \in DOMAIN rows', NEW e \in ToolsOf(rows'[i])
               PROVE  /\ ConvOf[e.run] = ConvOf[rows'[i].run]
                      /\ \A j \in DOMAIN rows' : e \in ToolsOf(rows'[j]) => i = j
    BY DEF ActivityFiledOnce
  <2>1. CASE i = last
    BY <2>1, <1>1, <1>2, <1>3, <1>5
  <2>2. CASE i \in DOMAIN rows
    <3>1. /\ e \in ToolsOf(rows[i])
          /\ ConvOf[e.run] = ConvOf[rows[i].run]
          /\ \A j \in DOMAIN rows : e \in ToolsOf(rows[j]) => i = j
      BY <2>2, <1>2 DEF Ledger, ActivityFiledOnce
    <3>2. e \notin Elements(row.tools)
      BY <3>1, <2>2, <1>5
    <3> QED BY <3>1, <3>2, <2>2, <1>1, <1>2, <1>3
  <2> QED BY <2>1, <2>2, <1>1
<1> QED BY <1>6, <1>7, <1>8 DEF Ledger

\* Every event keeps the ledger of tool entries.
LEMMA LedgerStep ==
    ASSUME TypeOK, Ledger, [Next]_vars
    PROVE  Ledger'
<1> USE SinkAssumption
<1>1. ASSUME UNCHANGED <<started, finished, activity, rows>>
      PROVE  Ledger'
  BY <1>1 DEF Ledger, Buffered, Shown, ActivityFiledOnce, Emitted, Elements, ToolsOf
<1>2. CASE UNCHANGED vars
  BY <1>1, <1>2 DEF vars
<1>3. ASSUME NEW r \in Runs,
             Begin(r) \/ TextDelta(r) \/ Refused(r) \/ AgentAborts(r) \/ AgentFails(r)
      PROVE  Ledger'
  BY <1>1, <1>3 DEF Begin, TextDelta, Refused, AgentAborts, AgentFails
<1>4. ASSUME NEW r \in Runs, NEW n \in 1..MaxTools, ToolsStart(r, n)
      PROVE  Ledger'
  <2> DEFINE c == ConvOf[r]
             B == Block(r, started[r], started[r] + n, "start")
  <2>1. /\ c \in Convs /\ started[r] + n \in 0..MaxTools
        /\ Elements(activity'[c]) = Elements(activity[c]) \cup B
        /\ \A d \in Convs \ {c} : activity'[d] = activity[d]
    BY <1>4, ToolsStartAppends
  <2>2. /\ started[r] \in 0..MaxTools /\ n \in Nat
        /\ UNCHANGED <<finished, rows>>
        /\ \A s \in Runs : started'[s] = IF s = r THEN started[r] + n ELSE started[s]
        /\ \A s \in Runs : started[s] \in Nat
    BY <1>4 DEF ToolsStart, TypeOK
  <2>3. \A e \in B : /\ e \in Entry /\ e.run = r /\ e.kind = "start"
                     /\ e.call \in (started[r] + 1)..(started[r] + n)
    BY <2>1, <2>2 DEF Block, Entry
  <2>4. \A e \in B : ConvOf[e.run] = c /\ ~Emitted(e) /\ Emitted(e)'
    BY <2>2, <2>3 DEF Emitted
  <2>5. \A e \in Entry : e.run \in Runs /\ e.call \in Nat
    BY DEF Entry
  <2>6. \A e \in Entry : Emitted(e) => Emitted(e)'
    BY <2>2, <2>5 DEF Emitted
  <2> HIDE DEF c, B
  <2> QED BY <2>1, <2>2, <2>3, <2>4, <2>6, BlockLedger
<1>5. ASSUME NEW r \in Runs, NEW n \in 1..MaxTools, ToolsEnd(r, n)
      PROVE  Ledger'
  <2> DEFINE c == ConvOf[r]
             B == Block(r, finished[r], finished[r] + n, "result")
  <2>1. /\ c \in Convs /\ finished[r] + n \in 0..MaxTools
        /\ Elements(activity'[c]) = Elements(activity[c]) \cup B
        /\ \A d \in Convs \ {c} : activity'[d] = activity[d]
    BY <1>5, ToolsEndAppends
  <2>2. /\ finished[r] \in 0..MaxTools /\ n \in Nat
        /\ UNCHANGED <<started, rows>>
        /\ \A s \in Runs : finished'[s] = IF s = r THEN finished[r] + n ELSE finished[s]
        /\ \A s \in Runs : finished[s] \in Nat
    BY <1>5 DEF ToolsEnd, TypeOK
  <2>3. \A e \in B : /\ e \in Entry /\ e.run = r /\ e.kind = "result"
                     /\ e.call \in (finished[r] + 1)..(finished[r] + n)
    BY <2>1, <2>2 DEF Block, Entry
  <2>4. \A e \in B : ConvOf[e.run] = c /\ ~Emitted(e) /\ Emitted(e)'
    BY <2>2, <2>3 DEF Emitted
  <2>5. \A e \in Entry : e.run \in Runs /\ e.call \in Nat
    BY DEF Entry
  <2>6. \A e \in Entry : Emitted(e) => Emitted(e)'
    BY <2>2, <2>5 DEF Emitted
  <2> HIDE DEF c, B
  <2> QED BY <2>1, <2>2, <2>3, <2>4, <2>6, BlockLedger
<1>6. ASSUME NEW r \in Runs, AgentEnds(r)
      PROVE  Ledger'
  <2>1. UNCHANGED <<started, finished>>
    BY <1>6 DEF AgentEnds
  <2>2. CASE UNCHANGED <<rows, activity>>
    BY <1>1, <2>1, <2>2
  <2>3. CASE FileReply(r, turnCost'[ConvOf[r]]) /\ said[r] # 0
    <3> DEFINE c == ConvOf[r]
               row == FiledRow(r, turnCost'[c])
    <3>1. turnCost'[c] \in Runs \cup {NoRun} /\ c \in Convs
      BY <1>6 DEF AgentEnds, CacheCost, TypeOK
    <3>2. /\ rows' = Append(rows, row)
          /\ activity' = [activity EXCEPT ![c] = << >>]
      BY <2>3 DEF FileReply
    <3>3. row \in Row
      BY <2>3, <3>1, FiledRowType
    <3>4. row.run = r /\ (row.tools = activity[c] \/ row.tools = << >>)
      BY DEF FiledRow
    <3>5. Elements(<< >>) = {}
      BY DEF Elements
    <3>6. \A e \in Elements(row.tools) : e \in Elements(activity[c])
      BY <3>4, <3>5
    <3>7. activity'[c] = << >> /\ \A d \in Convs \ {c} : activity'[d] = activity[d]
      BY <3>1, <3>2 DEF TypeOK
    <3>8. ASSUME NEW d \in Convs, NEW e \in Elements(activity'[d])
          PROVE  e \in Elements(activity[d]) /\ e \notin Elements(row.tools)
      <4>1. d # c /\ e \in Elements(activity[d])
        BY <3>5, <3>7, <3>8
      <4>2. ConvOf[e.run] = d
        BY <4>1 DEF Ledger, Buffered
      <4>3. \A f \in Elements(row.tools) : ConvOf[f.run] = c
        BY <3>1, <3>6 DEF Ledger, Buffered
      <4> QED BY <4>1, <4>2, <4>3
    <3> HIDE DEF row
    <3> QED BY <2>1, <3>1, <3>2, <3>3, <3>4, <3>6, <3>8, FiledLedger
  <2> QED BY <1>6, <2>2, <2>3 DEF AgentEnds, FileReply
<1>7. ASSUME NEW r \in Runs, ReportFailure(r)
      PROVE  Ledger'
  <2>1. CASE said[r] = 0
    BY <1>1, <1>7, <2>1 DEF ReportFailure
  <2>2. CASE said[r] # 0
    <3> DEFINE row == [run |-> r, text |-> said[r], cut |-> TRUE,
                       usage |-> NoRun, tools |-> << >>]
    <3>1. rows' = Append(rows, row) /\ UNCHANGED <<started, finished, activity>>
      BY <1>7, <2>2 DEF ReportFailure
    <3>2. row \in Row /\ ConvOf[row.run] \in Convs
      BY <2>2 DEF TypeOK, Row
    <3>3. Elements(row.tools) = {}
      BY DEF Elements
    <3> HIDE DEF row
    <3> QED BY <3>1, <3>2, <3>3, FiledLedger
  <2> QED BY <2>1, <2>2
<1> QED BY <1>2, <1>3, <1>4, <1>5, <1>6, <1>7 DEF Next

(***************************************************************************)
(* A tool call is shown in at most one row, and in its own conversation.   *)
(***************************************************************************)
THEOREM ActivityOnce == Spec => []ActivityFiledOnce
<1>1. Init => TypeOK /\ Ledger
  BY SinkAssumption DEF Init, TypeOK, Ledger, Buffered, Shown, ActivityFiledOnce, Elements
<1>2. TypeOK /\ Ledger /\ [Next]_vars => TypeOK' /\ Ledger'
  BY TypeStep, LedgerStep
<1>3. TypeOK /\ Ledger => ActivityFiledOnce
  BY DEF Ledger
<1> QED BY <1>1, <1>2, <1>3, PTL DEF Spec

-----------------------------------------------------------------------------
(***************************************************************************)
(* What a row shows is complete.  While a run is under way its entries are *)
(* in the buffer of its conversation, every result after its start, and no *)
(* other run of the conversation empties it.                               *)
(***************************************************************************)
Start(r, n) == [run |-> r, call |-> n, kind |-> "start"]

Result(r, n) == [run |-> r, call |-> n, kind |-> "result"]

\* A sequence of entries shows a call: its start and, later, its result.
ShowsCall(s, r, n) ==
    \E j, k \in DOMAIN s : j < k /\ s[j] = Start(r, n) /\ s[k] = Result(r, n)

OneAtATime ==
    \A r, s \in Runs :
        at[r] \notin {"waiting", "over"} /\ at[s] \notin {"waiting", "over"}
            /\ ConvOf[r] = ConvOf[s] => r = s

Counted ==
    \A r \in Runs : /\ finished[r] <= started[r]
                    /\ at[r] \in {"waiting", "replying"} => finished[r] = started[r]
                    /\ at[r] = "waiting" => started[r] = 0

Noted ==
    \A r \in Runs : at[r] \in {"replying", "tooling"} =>
        /\ \A n \in 1..started[r] : Start(r, n) \in Elements(activity[ConvOf[r]])
        /\ \A n \in 1..finished[r] : ShowsCall(activity[ConvOf[r]], r, n)

Buffer == OneAtATime /\ Counted /\ Noted /\ ToolsAreFiled

\* What is appended comes after what is there.
LEMMA ConcatShows ==
    ASSUME NEW s \in Seq(Entry), NEW t \in Seq(Entry), NEW r, NEW n,
           \/ ShowsCall(s, r, n)
           \/ Start(r, n) \in Elements(s) /\ Result(r, n) \in Elements(t)
    PROVE  ShowsCall(s \o t, r, n)
<1>1. /\ DOMAIN (s \o t) = 1..(Len(s) + Len(t))
      /\ DOMAIN s = 1..Len(s) /\ DOMAIN t = 1..Len(t)
      /\ Len(s) \in Nat /\ Len(t) \in Nat
  OBVIOUS
<1>2. \A k \in 1..Len(s) : (s \o t)[k] = s[k] /\ k \in 1..(Len(s) + Len(t))
  OBVIOUS
<1>3. \A k \in 1..Len(t) : (s \o t)[Len(s) + k] = t[k] /\ Len(s) + k \in 1..(Len(s) + Len(t))
  OBVIOUS
<1>4. CASE ShowsCall(s, r, n)
  <2>1. PICK j, k \in DOMAIN s : j < k /\ s[j] = Start(r, n) /\ s[k] = Result(r, n)
    BY <1>4 DEF ShowsCall
  <2>2. /\ j \in DOMAIN (s \o t) /\ k \in DOMAIN (s \o t)
        /\ (s \o t)[j] = Start(r, n) /\ (s \o t)[k] = Result(r, n)
    BY <1>1, <1>2, <2>1, Zenon
  <2> QED BY <2>1, <2>2, Zenon DEF ShowsCall
<1>5. CASE Start(r, n) \in Elements(s) /\ Result(r, n) \in Elements(t)
  <2>1. PICK j \in 1..Len(s) : s[j] = Start(r, n)
    BY <1>1, <1>5, Zenon DEF Elements
  <2>2. PICK k \in 1..Len(t) : t[k] = Result(r, n)
    BY <1>1, <1>5, Zenon DEF Elements
  <2>3. j < Len(s) + k
    BY <1>1, <2>1, <2>2
  <2>4. /\ j \in DOMAIN (s \o t) /\ Len(s) + k \in DOMAIN (s \o t)
        /\ (s \o t)[j] = Start(r, n) /\ (s \o t)[Len(s) + k] = Result(r, n)
    BY <1>1, <1>2, <1>3, <2>1, <2>2, Zenon
  <2> QED BY <2>3, <2>4, Zenon DEF ShowsCall
<1> QED BY <1>4, <1>5

\* Steps that file nothing, of a turn that is not over.
LEMMA RowsStand ==
    ASSUME TypeOK, Book, ToolsAreFiled, NEW r \in Runs, at[r] # "over", UNCHANGED rows,
           \A s \in Runs \ {r} : started'[s] = started[s]
    PROVE  ToolsAreFiled'
<1>1. \A i \in DOMAIN rows : rows[i].run \in Runs \ {r}
  BY RowRuns DEF Book, RowsAreOver
<1>2. ASSUME NEW i \in DOMAIN rows', ConvOf[rows'[i].run] \in AgentSessions, ~rows'[i].cut,
             NEW n \in 1..started'[rows'[i].run]
      PROVE  ShowsCall(rows'[i].tools, rows'[i].run, n)
  <2>1. i \in DOMAIN rows /\ rows'[i] = rows[i]
    OBVIOUS
  <2>2. started'[rows[i].run] = started[rows[i].run]
    BY <1>1, <2>1
  <2>3. n \in 1..started[rows[i].run]
    BY <1>2, <2>1, <2>2
  <2>4. ShowsCall(rows[i].tools, rows[i].run, n)
    BY <1>2, <2>1, <2>3 DEF ToolsAreFiled, ShowsCall, Start, Result
  <2> QED BY <2>1, <2>4
<1> QED BY <1>2 DEF ToolsAreFiled, ShowsCall, Start, Result

\* A step of one run that leaves the tool calls alone.
LEMMA QuietBuffer ==
    ASSUME TypeOK, Book, Buffer, NEW r \in Runs, at[r] # "over",
           UNCHANGED <<started, finished, activity, rows>>,
           \A s \in Runs \ {r} : at'[s] = at[s],
           at'[r] \notin {"waiting", "over"} =>
              \/ at[r] \notin {"waiting", "over"}
              \/ ~Busy(ConvOf[r]),
           at'[r] \in {"waiting", "replying", "tooling"} =>
              at[r] = at'[r] \/ (at[r] = "waiting" /\ at'[r] = "replying")
    PROVE  Buffer'
<1>1. OneAtATime'
  BY DEF Buffer, OneAtATime, Busy
<1>2. Counted'
  BY DEF Buffer, Counted
<1>3. Noted'
  <2> SUFFICES ASSUME NEW s \in Runs, at'[s] \in {"replying", "tooling"}
               PROVE  /\ \A n \in 1..started[s] : Start(s, n) \in Elements(activity[ConvOf[s]])
                      /\ \A n \in 1..finished[s] : ShowsCall(activity[ConvOf[s]], s, n)
    BY DEF Noted, Elements, ShowsCall
  <2>1. CASE at[s] \in {"replying", "tooling"}
    BY <2>1 DEF Buffer, Noted
  <2>2. CASE s = r /\ at[r] = "waiting"
    BY <2>2 DEF Buffer, Counted
  <2> QED BY <2>1, <2>2
<1>4. ToolsAreFiled'
  BY RowsStand DEF Buffer
<1> QED BY <1>1, <1>2, <1>3, <1>4 DEF Buffer

\* Entries of a run go to its buffer.
LEMMA BlockBuffer ==
    ASSUME TypeOK, Book, Buffer, NEW r \in Runs, at[r] \in {"replying", "tooling"},
           NEW t \in Seq(Entry), activity'[ConvOf[r]] = activity[ConvOf[r]] \o t,
           \A d \in Convs \ {ConvOf[r]} : activity'[d] = activity[d],
           UNCHANGED rows,
           \A s \in Runs \ {r} : /\ at'[s] = at[s] /\ started'[s] = started[s]
                                 /\ finished'[s] = finished[s],
           at'[r] \in {"replying", "tooling"},
           finished'[r] <= started'[r],
           at'[r] = "replying" => finished'[r] = started'[r],
           \A n \in 1..started'[r] : n \in 1..started[r] \/ Start(r, n) \in Elements(t),
           \A n \in 1..finished'[r] : \/ n \in 1..finished[r]
                                      \/ n \in 1..started[r] /\ Result(r, n) \in Elements(t)
    PROVE  Buffer'
<1>1. /\ ConvOf[r] \in Convs /\ activity[ConvOf[r]] \in Seq(Entry)
      /\ \A s \in Runs : ConvOf[s] \in Convs
  BY SinkAssumption DEF TypeOK
<1>2. OneAtATime'
  BY DEF Buffer, OneAtATime
<1>3. Counted'
  BY DEF Buffer, Counted
<1>4. ToolsAreFiled'
  BY RowsStand DEF Buffer
<1>5. /\ \A n \in 1..started'[r] : Start(r, n) \in Elements(activity'[ConvOf[r]])
      /\ \A n \in 1..finished'[r] : ShowsCall(activity'[ConvOf[r]], r, n)
  <2>1. Elements(activity'[ConvOf[r]]) = Elements(activity[ConvOf[r]]) \cup Elements(t)
    BY <1>1, ConcatElements
  <2>2. /\ \A n \in 1..started[r] : Start(r, n) \in Elements(activity[ConvOf[r]])
        /\ \A n \in 1..finished[r] : ShowsCall(activity[ConvOf[r]], r, n)
    BY DEF Buffer, Noted
  <2>3. \A n \in 1..started'[r] : Start(r, n) \in Elements(activity'[ConvOf[r]])
    BY <2>1, <2>2
  <2>4. ASSUME NEW n \in 1..finished'[r]
        PROVE  ShowsCall(activity'[ConvOf[r]], r, n)
    <3>1. \/ ShowsCall(activity[ConvOf[r]], r, n)
          \/ Start(r, n) \in Elements(activity[ConvOf[r]]) /\ Result(r, n) \in Elements(t)
      BY <2>2, <2>4
    <3> QED BY <1>1, <3>1, ConcatShows
  <2> QED BY <2>3, <2>4
<1>6. Noted'
  <2> SUFFICES ASSUME NEW s \in Runs, at'[s] \in {"replying", "tooling"}
               PROVE  /\ \A n \in 1..started'[s] : Start(s, n) \in Elements(activity'[ConvOf[s]])
                      /\ \A n \in 1..finished'[s] : ShowsCall(activity'[ConvOf[s]], s, n)
    BY DEF Noted, Elements, ShowsCall
  <2>1. CASE s = r
    BY <1>5, <2>1
  <2>2. CASE s # r
    <3>1. at[s] = at'[s] /\ ConvOf[s] # ConvOf[r]
      BY <2>2 DEF Buffer, OneAtATime
    <3>2. activity'[ConvOf[s]] = activity[ConvOf[s]]
      BY <1>1, <3>1
    <3>3. started'[s] = started[s] /\ finished'[s] = finished[s]
      BY <2>2
    <3> QED BY <3>1, <3>2, <3>3 DEF Buffer, Noted
  <2> QED BY <2>1, <2>2
<1> QED BY <1>2, <1>3, <1>4, <1>6 DEF Buffer

\* A turn ends with a row: if it completed, the row takes the buffer.
LEMMA FiledBuffer ==
    ASSUME TypeOK, Book, Buffer, NEW r \in Runs, at[r] \notin {"waiting", "over"},
           at' = [at EXCEPT ![r] = "over"],
           NEW row \in Row, rows' = Append(rows, row), row.run = r,
           ConvOf[r] \in AgentSessions /\ ~row.cut =>
              at[r] = "replying" /\ row.tools = activity[ConvOf[r]],
           \A d \in Convs \ {ConvOf[r]} : activity'[d] = activity[d],
           UNCHANGED <<started, finished>>
    PROVE  Buffer'
<1> DEFINE last == Len(rows) + 1
<1>1. /\ DOMAIN rows' = DOMAIN rows \cup {last}
      /\ \A i \in DOMAIN rows : rows'[i] = rows[i]
      /\ rows'[last] = row
  BY AppendRow DEF TypeOK
<1> HIDE DEF last
<1>2. at'[r] = "over" /\ \A s \in Runs \ {r} : at'[s] = at[s]
  BY DEF TypeOK
<1>3. OneAtATime' /\ Counted'
  BY <1>2 DEF Buffer, OneAtATime, Counted
<1>4. Noted'
  <2> SUFFICES ASSUME NEW s \in Runs, at'[s] \in {"replying", "tooling"}
               PROVE  /\ \A n \in 1..started[s] : Start(s, n) \in Elements(activity'[ConvOf[s]])
                      /\ \A n \in 1..finished[s] : ShowsCall(activity'[ConvOf[s]], s, n)
    BY DEF Noted, Elements, ShowsCall
  <2>1. s # r /\ at[s] = at'[s]
    BY <1>2
  <2>2. ConvOf[s] # ConvOf[r] /\ ConvOf[s] \in Convs
    BY <2>1, SinkAssumption DEF Buffer, OneAtATime
  <2>3. activity'[ConvOf[s]] = activity[ConvOf[s]]
    BY <2>2
  <2> QED BY <2>1, <2>3 DEF Buffer, Noted
<1>5. ConvOf[r] \in AgentSessions /\ ~row.cut => \A n \in 1..started[r] : ShowsCall(row.tools, r, n)
  BY DEF Buffer, Noted, Counted
<1>6. ToolsAreFiled <=>
        \A i \in DOMAIN rows : ConvOf[rows[i].run] \in AgentSessions /\ ~rows[i].cut =>
            \A n \in 1..started[rows[i].run] : ShowsCall(rows[i].tools, rows[i].run, n)
  BY DEF ToolsAreFiled, ShowsCall, Start, Result
<1>7. ToolsAreFiled' <=>
        \A i \in DOMAIN rows' : ConvOf[rows'[i].run] \in AgentSessions /\ ~rows'[i].cut =>
            \A n \in 1..started'[rows'[i].run] : ShowsCall(rows'[i].tools, rows'[i].run, n)
  BY DEF ToolsAreFiled, ShowsCall, Start, Result
<1>8. ToolsAreFiled'
  <2> SUFFICES ASSUME NEW i \in DOMAIN rows', ConvOf[rows'[i].run] \in AgentSessions,
                      ~rows'[i].cut, NEW n \in 1..started[rows'[i].run]
               PROVE  ShowsCall(rows'[i].tools, rows'[i].run, n)
    BY <1>7
  <2>1. CASE i = last
    BY <1>1, <1>5, <2>1
  <2>2. CASE i \in DOMAIN rows
    BY <1>1, <1>6, <2>2 DEF Buffer
  <2> QED BY <1>1, <2>1, <2>2
<1> QED BY <1>3, <1>4, <1>8 DEF Buffer

\* Every event keeps the buffers complete.
LEMMA BufferStep ==
    ASSUME TypeOK, Book, Buffer, [Next]_vars
    PROVE  Buffer'
<1>1. CASE UNCHANGED vars
  BY <1>1 DEF vars, Buffer, OneAtATime, Counted, Noted, ToolsAreFiled, Elements, ShowsCall
<1>2. ASSUME NEW r \in Runs,
             Begin(r) \/ TextDelta(r) \/ Refused(r) \/ AgentAborts(r) \/ AgentFails(r)
      PROVE  Buffer'
  <2>1. /\ at[r] # "over" /\ UNCHANGED <<started, finished, activity, rows>>
        /\ \A s \in Runs \ {r} : at'[s] = at[s]
    BY <1>2 DEF Begin, TextDelta, Refused, AgentAborts, AgentFails, Moves, TypeOK
  <2>2. \/ at'[r] = at[r]
        \/ at[r] = "waiting" /\ ~Busy(ConvOf[r]) /\ at'[r] = "replying"
        \/ at'[r] = "over"
        \/ at[r] = "replying" /\ at'[r] = "failing"
    BY <1>2 DEF Begin, TextDelta, Refused, AgentAborts, AgentFails, Moves, TypeOK
  <2>3. /\ at'[r] \notin {"waiting", "over"} =>
              at[r] \notin {"waiting", "over"} \/ ~Busy(ConvOf[r])
        /\ at'[r] \in {"waiting", "replying", "tooling"} =>
              at[r] = at'[r] \/ (at[r] = "waiting" /\ at'[r] = "replying")
    BY <2>1, <2>2
  <2> QED BY <2>1, <2>3, QuietBuffer
<1>3. ASSUME NEW r \in Runs, NEW n \in 1..MaxTools, ToolsStart(r, n)
      PROVE  Buffer'
  <2> DEFINE t == Entries(r, started[r], started[r] + n, "start")
  <2>1. /\ started[r] + n \in 0..MaxTools /\ t \in Seq(Entry)
        /\ activity'[ConvOf[r]] = activity[ConvOf[r]] \o t
        /\ \A d \in Convs \ {ConvOf[r]} : activity'[d] = activity[d]
    BY <1>3, ToolsStartAppends
  <2>2. started[r] \in 0..MaxTools /\ finished[r] \in 0..MaxTools /\ MaxTools \in Nat /\ n \in Nat
    BY SinkAssumption DEF TypeOK
  <2>3. Elements(t) = Block(r, started[r], started[r] + n, "start")
    <3>1. started[r] \in Nat /\ started[r] <= started[r] + n
      BY <2>2
    <3> QED BY <2>1, <3>1, EntriesType, Zenon
  <2>4. /\ at[r] = "replying" /\ at'[r] = "tooling" /\ UNCHANGED <<rows, finished>>
        /\ started'[r] = started[r] + n
        /\ \A s \in Runs \ {r} : at'[s] = at[s] /\ started'[s] = started[s]
    BY <1>3 DEF ToolsStart, Moves, TypeOK
  <2>5. finished[r] = started[r]
    BY <2>4 DEF Buffer, Counted
  <2>6. \A m \in 1..started'[r] : m \in 1..started[r] \/ Start(r, m) \in Elements(t)
    <3>1. \A m \in 1..(started[r] + n) : m \in 1..started[r] \/ m \in (started[r] + 1)..(started[r] + n)
      BY <2>2
    <3> QED BY <2>3, <2>4, <3>1 DEF Block, Start
  <2>7. finished'[r] <= started'[r] /\ finished' = finished
    BY <2>2, <2>4, <2>5
  <2> HIDE DEF t
  <2> QED BY <2>1, <2>4, <2>6, <2>7, BlockBuffer
<1>4. ASSUME NEW r \in Runs, NEW n \in 1..MaxTools, ToolsEnd(r, n)
      PROVE  Buffer'
  <2> DEFINE t == Entries(r, finished[r], finished[r] + n, "result")
  <2>1. /\ finished[r] + n \in 0..MaxTools /\ t \in Seq(Entry)
        /\ activity'[ConvOf[r]] = activity[ConvOf[r]] \o t
        /\ \A d \in Convs \ {ConvOf[r]} : activity'[d] = activity[d]
    BY <1>4, ToolsEndAppends
  <2>2. started[r] \in 0..MaxTools /\ finished[r] \in 0..MaxTools /\ MaxTools \in Nat /\ n \in Nat
    BY SinkAssumption DEF TypeOK
  <2>3. Elements(t) = Block(r, finished[r], finished[r] + n, "result")
    <3>1. finished[r] \in Nat /\ finished[r] <= finished[r] + n
      BY <2>2
    <3> QED BY <2>1, <3>1, EntriesType, Zenon
  <2>4. /\ at[r] = "tooling" /\ UNCHANGED <<rows, started>>
        /\ finished[r] + n <= started[r]
        /\ at'[r] = IF finished[r] + n = started[r] THEN "replying" ELSE "tooling"
        /\ finished'[r] = finished[r] + n
        /\ \A s \in Runs \ {r} : at'[s] = at[s] /\ finished'[s] = finished[s]
    BY <1>4 DEF ToolsEnd, Moves, TypeOK
  <2>5. \A m \in 1..finished'[r] : \/ m \in 1..finished[r]
                                   \/ m \in 1..started[r] /\ Result(r, m) \in Elements(t)
    <3>1. \A m \in 1..(finished[r] + n) :
             \/ m \in 1..finished[r]
             \/ m \in 1..started[r] /\ m \in (finished[r] + 1)..(finished[r] + n)
      BY <2>2, <2>4
    <3> QED BY <2>3, <2>4, <3>1 DEF Block, Result
  <2>6. /\ finished'[r] <= started'[r] /\ started' = started
        /\ at'[r] \in {"replying", "tooling"}
        /\ at'[r] = "replying" => finished'[r] = started'[r]
    BY <2>4
  <2> HIDE DEF t
  <2> QED BY <2>1, <2>4, <2>5, <2>6, BlockBuffer
<1>5. ASSUME NEW r \in Runs, AgentEnds(r)
      PROVE  Buffer'
  <2>1. /\ at[r] = "replying" /\ at' = [at EXCEPT ![r] = "over"] /\ ~completed[r]
        /\ UNCHANGED <<started, finished>>
    BY <1>5 DEF AgentEnds, Moves, Book, Latched
  <2>2. FileReply(r, turnCost'[ConvOf[r]])
    BY <1>5, <2>1 DEF AgentEnds
  <2>3. CASE said[r] = 0
    <3>1. UNCHANGED <<rows, activity>>
      BY <2>2, <2>3 DEF FileReply
    <3>2. at'[r] = "over" /\ \A s \in Runs \ {r} : at'[s] = at[s]
      BY <2>1 DEF TypeOK
    <3> QED BY <2>1, <3>1, <3>2, QuietBuffer
  <2>4. CASE said[r] # 0
    <3> DEFINE row == FiledRow(r, turnCost'[ConvOf[r]])
    <3>1. turnCost'[ConvOf[r]] \in Runs \cup {NoRun} /\ ConvOf[r] \in Convs
      BY <1>5, SinkAssumption DEF AgentEnds, CacheCost, TypeOK
    <3>2. /\ rows' = Append(rows, row)
          /\ activity' = [activity EXCEPT ![ConvOf[r]] = << >>]
      BY <2>2, <2>4 DEF FileReply
    <3>3. row \in Row
      BY <2>4, <3>1, FiledRowType
    <3>4. row.run = r /\ (ConvOf[r] \in AgentSessions => row.tools = activity[ConvOf[r]])
      BY DEF FiledRow
    <3>5. \A d \in Convs \ {ConvOf[r]} : activity'[d] = activity[d]
      BY <3>1, <3>2 DEF TypeOK
    <3> HIDE DEF row
    <3> QED BY <2>1, <3>2, <3>3, <3>4, <3>5, FiledBuffer
  <2> QED BY <2>3, <2>4
<1>6. ASSUME NEW r \in Runs, ReportFailure(r), said[r] # 0
      PROVE  Buffer'
  <2> DEFINE row == [run |-> r, text |-> said[r], cut |-> TRUE, usage |-> NoRun, tools |-> << >>]
  <2>1. /\ at[r] = "failing" /\ at' = [at EXCEPT ![r] = "over"]
        /\ UNCHANGED <<started, finished, activity>> /\ rows' = Append(rows, row)
    BY <1>6 DEF ReportFailure, Moves
  <2>2. row \in Row /\ row.run = r /\ row.cut
    BY <1>6, SinkAssumption DEF TypeOK, Row
  <2> HIDE DEF row
  <2> QED BY <2>1, <2>2, FiledBuffer
<1>7. ASSUME NEW r \in Runs, ReportFailure(r)
      PROVE  Buffer'
  <2>1. CASE said[r] = 0
    <3>1. /\ at[r] # "over" /\ UNCHANGED <<started, finished, activity, rows>>
          /\ at'[r] = "over" /\ \A s \in Runs \ {r} : at'[s] = at[s]
      BY <1>7, <2>1 DEF ReportFailure, Moves, TypeOK
    <3> QED BY <3>1, QuietBuffer
  <2> QED BY <1>6, <1>7, <2>1
<1> QED BY <1>1, <1>2, <1>3, <1>4, <1>5, <1>7 DEF Next

(***************************************************************************)
(* The row of an agent turn that completed shows each tool call the turn   *)
(* made, its start before its result.                                      *)
(***************************************************************************)
THEOREM ToolsFiled == Spec => []ToolsAreFiled
<1>1. Init => Buffer
  BY DEF Init, Buffer, OneAtATime, Counted, Noted, ToolsAreFiled
<1>2. TypeOK /\ Book /\ Buffer /\ [Next]_vars => Buffer'
  BY BufferStep
<1>3. Buffer => ToolsAreFiled
  BY DEF Buffer
<1> QED BY <1>1, <1>2, <1>3, BookInvariant, PTL DEF Spec
=============================================================================
