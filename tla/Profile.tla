------------------------------ MODULE Profile -------------------------------
(***************************************************************************)
(* The profile a hook runs under (kernel/profile.py).  Every hook process  *)
(* resolves it anew from its own environment and two files of the          *)
(* repository, either of which others may have written in between.         *)
(***************************************************************************)

Profiles == {"OS_DEV", "OS_BOOT_TEST", "APP_BUILD"}

(* The profiles in which DANZABOSS runs rather than being worked on.  They *)
(* agree in all that the hooks ask of a profile: constitution_binding,     *)
(* domain_ask_active, session_inject and distill_gate_active hold,         *)
(* claude_write_approval does not, and memory_level is "normal".           *)
Runtime == {"OS_BOOT_TEST", "APP_BUILD"}

(* What a hook finds: [env, file, team, approved], the name in             *)
(* DANZABOSS_PROFILE ("" when unset), in profile.json ("absent", "broken"  *)
(* or a name, maybe ""), whether team-state.json exists, and whether the   *)
(* user has approved writes under .claude/ (a file or a variable).         *)
Worlds ==
  [env : Profiles \cup {"", "unknown"}, file : Profiles \cup {"", "unknown", "absent", "broken"},
   team : BOOLEAN, approved : BOOLEAN]

(* active_profile, "error" where it raises ValueError.                     *)
ActiveProfile(w) ==
  LET name == IF w.env # "" THEN w.env ELSE IF w.file = "absent" THEN "" ELSE w.file
  IN CASE name \in Profiles -> name
       [] name = "" -> IF w.team THEN "APP_BUILD" ELSE "OS_DEV"
       [] OTHER -> "error"

(* What a hook may find the profile to be.                                 *)
Found == {ActiveProfile(w) : w \in Worlds}
=============================================================================
