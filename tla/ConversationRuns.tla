-------------------------- MODULE ConversationRuns --------------------------
(***************************************************************************)
(* What the engine promises about prompts, leaving out how: "two prompts   *)
(* on the same conversation serialize (you cannot prompt a busy session)   *)
(* while different conversations proceed in parallel" (engine.rs:12-15).   *)
(***************************************************************************)

CONSTANTS Runs,       \* prompts, each driven at most once
          ConvOf      \* the conversation of each prompt

VARIABLE stage

StageOK == stage \in [Runs -> {"unsent", "waiting", "running", "over"}]

Busy(c) == \E r \in Runs : ConvOf[r] = c /\ stage[r] = "running"

Init == stage = [r \in Runs |-> "unsent"]

Submit(r) ==
    /\ stage[r] = "unsent"
    /\ stage' = [stage EXCEPT ![r] = "waiting"]

\* The command channel is full, or the session cannot be created.
Reject(r) ==
    /\ stage[r] \in {"unsent", "waiting"}
    /\ stage' = [stage EXCEPT ![r] = "over"]

Begin(r) ==
    /\ stage[r] = "waiting"
    /\ ~Busy(ConvOf[r])
    /\ stage' = [stage EXCEPT ![r] = "running"]

Finish(r) ==
    /\ stage[r] = "running"
    /\ stage' = [stage EXCEPT ![r] = "over"]

Next == \E r \in Runs : Submit(r) \/ Reject(r) \/ Begin(r) \/ Finish(r)

Spec == Init /\ [][Next]_stage
=============================================================================
