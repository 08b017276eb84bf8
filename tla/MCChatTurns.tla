----------------------------- MODULE MCChatTurns -----------------------------
EXTENDS ChatTurns, TLC

CONSTANTS t1, t2, t3,       \* turns
          c1, c2            \* cards
=============================================================================
