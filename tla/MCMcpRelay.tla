----------------------------- MODULE MCMcpRelay ------------------------------
(***************************************************************************)
(* Instances of McpRelay for TLC: a handshake that names the client, a     *)
(* call, a request with a name of its own, and a batch that hides a call.  *)
(***************************************************************************)
EXTENDS McpRelay

Call(id) == Message("tools/call", id)
MCMsgs == << Naming(Message("initialize", 1), "vscode"), Call(2),
             Naming(Call(3), "cursor"), Batch(<<Call(4), Message("ping", 5)>>) >>
=============================================================================
