----------------------------- MODULE MCTeamState -----------------------------
(* TLC instances of TeamState: two processes, each of its own environment. *)
EXTENDS TeamState, TLC

CONSTANTS claude, codex, p1, p2

MCBossOf == (p1 :> claude) @@ (p2 :> codex)
==============================================================================
