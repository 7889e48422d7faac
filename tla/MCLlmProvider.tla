---------------------------- MODULE MCLlmProvider ----------------------------
(* Model-checking instance of LlmProvider. *)
EXTENDS LlmProvider, TLC

CONSTANTS thread, agent

(* The two loops of the Agent, one in which the total limit is reached     *)
(* before those of the tools, a selected tool that does not exist, and a   *)
(* structured output.                                                      *)
Analysis ==
    [kind |-> "tools", tools |-> {thread, agent}, required |-> {thread, agent},
     maxCalls |-> [t \in Tools |-> 1], maxToolCalls |-> 2, maxTurns |-> 4,
     initialChoice |-> "required"]

Draft ==
    [Analysis EXCEPT !.tools = {thread}, !.required = {thread}, !.maxToolCalls = 1,
                     !.maxTurns = 2, !.initialChoice = thread]

Tight ==
    [Analysis EXCEPT !.required = {agent}, !.maxCalls = [t \in Tools |-> 2],
                     !.maxToolCalls = 3, !.maxTurns = 3, !.initialChoice = "unset"]

Unknown == [Draft EXCEPT !.initialChoice = agent]

Structured == [Analysis EXCEPT !.kind = "structured"]

TheRequests == {Analysis, Draft, Tight, Unknown, Structured}
=============================================================================
