------------------------------ MODULE MCTurnSink ------------------------------
EXTENDS TurnSink, TLC

CONSTANTS cA, cB,          \* an agent session and a chat conversation
          r1, r2, r3

\* Two turns of the agent session, one of the chat.
MCConvOf == r1 :> cA @@ r2 :> cA @@ r3 :> cB
=============================================================================
