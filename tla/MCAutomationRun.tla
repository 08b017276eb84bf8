---------------------------- MODULE MCAutomationRun ---------------------------
EXTENDS AutomationRun, TLC

CONSTANTS r1, r2, r3, thread

\* Two fires of one thread and a manual run without a dispatcher.
MCChatOf == r1 :> thread @@ r2 :> thread @@ r3 :> None
=============================================================================
