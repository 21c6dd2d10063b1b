----------------------------- MODULE MCAgentLoop ----------------------------
(***************************************************************************)
(* Small instances of AgentLoop for TLC.                                   *)
(***************************************************************************)
EXTENDS AgentLoop, TLC

(* Asks on their own, and an ask beside a call that runs.                  *)
MixedCalls == {<<"ask", "ask">>, <<"ask", "write">>}

(* Runs whose answers matter: one tool to read with.                       *)
ReadCalls == {<<"read">>}

PlainCalls == {<<"write">>}

SchemasAreAlike == Permutations(Schemas)
=============================================================================
