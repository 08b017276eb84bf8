----------------------------- MODULE MCPiEngine -----------------------------
EXTENDS PiEngine, TLC

CONSTANTS cA, cB,           \* conversations
          r1, r2, r3,       \* prompts
          t1, t2,           \* tool calls
          i1, i2,           \* request ids
          m1, m2            \* models

\* Two prompts compete for one conversation, a third has its own.
MCConvOf == r1 :> cA @@ r2 :> cA @@ r3 :> cB

\* Each prompt has its own conversation.
MCOwnConv == r1 :> cA @@ r2 :> cB

MCTwoInOne == r1 :> cA @@ r2 :> cA

\* One model, or each prompt its own.
MCSameModel == [r \in Runs |-> m1]
MCOwnModel  == [r \in Runs |-> IF r = r1 THEN m1 ELSE m2]

\* No tools at all.
MCNone == << >>

\* Both calls belong to r1.
MCRunOf == t1 :> r1 @@ t2 :> r1

MCIoAndPlan    == t1 :> "io" @@ t2 :> "exit_plan"
MCIoAndBuiltin == t1 :> "io" @@ t2 :> "builtin"

MCIdOf == t1 :> i1 @@ t2 :> i2
=============================================================================
