----------------------------- MODULE MCAgentLoop -----------------------------
(* An instance of AgentLoop for TLC: two agents on two tasks; network requests *)
(* in scope, outside and to what is no url, and one that no tool serves;        *)
(* results that are plain, secret or large.                                     *)
EXTENDS AgentLoop, TLC

CONSTANTS a1, a2, t1, t2, inside, outside, broken, missing,
          host, foreign, unreadable, plain, secret, large

AgentSteps == (a1 :> 2) @@ (a2 :> 1)
AgentCalls == (a1 :> 1) @@ (a2 :> 2)
AgentTask == (a1 :> t1) @@ (a2 :> t2)
AgentTargets == (inside :> host) @@ (outside :> foreign)
                  @@ (broken :> unreadable) @@ (missing :> NoTarget)
Redaction == [x \in Texts |-> IF x = secret THEN plain ELSE x]
===============================================================================
