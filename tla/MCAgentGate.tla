----------------------------- MODULE MCAgentGate ------------------------------
(* Instances of AgentGate for TLC. *)
EXTENDS AgentGate

CONSTANTS h1, h2, p1

NoCalls  == {}
OneHook  == {h1}
TwoHooks == {h1, h2}
OneProxied == {p1}
=============================================================================
