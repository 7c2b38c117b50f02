------------------------------- MODULE Pidfile -------------------------------
(***************************************************************************)
(* The single-instance rail of the conductor: acquire_pidfile and          *)
(* release_pidfile (workstation/conductor.py), one system call per step.   *)
(* Each process runs once: it acquires the pidfile, runs its loop, gives   *)
(* the file back, and may be killed anywhere in between.  A file is named  *)
(* by the process that created it; its text is empty until that process    *)
(* has written its pid.                                                    *)
(***************************************************************************)
EXTENDS Naturals, FiniteSets

CONSTANTS
  Procs,        (* conductor processes                                     *)
  NoPid,        (* no file at the path; no pid in the text                 *)
  SerialStart   (* nobody starts while another is acquiring                *)

ASSUME NoPidAssumption == NoPid \notin Procs
ASSUME SerialAssumption == SerialStart \in BOOLEAN

VARIABLES
  file,      (* the file at conductor.pid, or NoPid                        *)
  written,   (* the files whose pid has been written                       *)
  at,        (* where each process is                                      *)
  seen,      (* the pid it read from an existing file                      *)
  tries,     (* stale files it has reclaimed                               *)
  ended,     (* how it ended                                               *)
  met        (* history: another process was alive when it started         *)

pidfileVars == <<file, written, at, seen, tries, ended, met>>

Acquiring == {"open", "exists", "probe", "reclaim", "created"}
Holding == {"running", "unlinking"}

PidfileTypeOK ==
  /\ file \in Procs \cup {NoPid}
  /\ written \subseteq Procs
  /\ at \in [Procs -> {"out", "gone"} \cup Acquiring \cup Holding]
  /\ seen \in [Procs -> Procs \cup {NoPid}]
  /\ tries \in [Procs -> 0..2]
  /\ ended \in [Procs -> {"not_yet", "refused", "contention", "vanished",
                          "finished", "killed"}]
  /\ met \in [Procs -> BOOLEAN]

PidfileInit ==
  /\ file = NoPid
  /\ written = {}
  /\ at = [p \in Procs |-> "out"]
  /\ seen = [p \in Procs |-> NoPid]
  /\ tries = [p \in Procs |-> 0]
  /\ ended = [p \in Procs |-> "not_yet"]
  /\ met = [p \in Procs |-> FALSE]

(* _pid_alive: the process exists.                                         *)
AliveProc(p) == at[p] \notin {"out", "gone"}

(* existing is not None and alive(existing).                               *)
SeesLive(p) == \E q \in Procs : seen[p] = q /\ AliveProc(q)

Goto(p, l) == at' = [at EXCEPT ![p] = l]

End(p, how) ==
  /\ Goto(p, "gone")
  /\ ended' = [ended EXCEPT ![p] = how]

------------------------------------------------------------------------------
(* acquire_pidfile.                                                        *)

Launch(p) ==
  /\ at[p] = "out"
  /\ SerialStart => \A q \in Procs : at[q] \notin Acquiring
  /\ Goto(p, "open")
  /\ met' = [met EXCEPT ![p] = \E q \in Procs : AliveProc(q)]
  /\ UNCHANGED <<file, written, seen, tries, ended>>

(* Mutant: a plain open, without O_EXCL.                                   *)
OpenAny(p) ==
  /\ at[p] = "open"
  /\ file' = p
  /\ Goto(p, "created")
  /\ UNCHANGED <<written, seen, tries, ended, met>>

(* os.open(O_CREAT | O_EXCL): creates an empty file or finds one.          *)
Open(p) ==
  /\ at[p] = "open"
  /\ IF file = NoPid THEN file' = p /\ Goto(p, "created")
                    ELSE UNCHANGED file /\ Goto(p, "exists")
  /\ UNCHANGED <<written, seen, tries, ended, met>>

(* Mutant: the text is probed as it is, empty or not.                      *)
ReadPidRaw(p) ==
  /\ at[p] = "exists"
  /\ seen' = [seen EXCEPT ![p] = IF file \in written THEN file ELSE ""]
  /\ Goto(p, "probe")
  /\ UNCHANGED <<file, written, tries, ended, met>>

(* read_text(): FileNotFoundError, which nothing catches, if the file has  *)
(* gone; no pid if the text is still empty.                                *)
ReadPid(p) ==
  /\ at[p] = "exists"
  /\ \/ /\ file = NoPid
        /\ End(p, "vanished")
        /\ UNCHANGED seen
     \/ /\ file # NoPid
        /\ seen' = [seen EXCEPT ![p] = IF file \in written THEN file ELSE NoPid]
        /\ Goto(p, "probe")
        /\ UNCHANGED ended
  /\ UNCHANGED <<file, written, tries, met>>

(* Mutant: any existing pidfile refuses.                                   *)
ProbeRefusing(p) ==
  /\ at[p] = "probe"
  /\ End(p, "refused")
  /\ UNCHANGED <<file, written, seen, tries, met>>

(* A live pid refuses; anything else is taken for a stale file.            *)
Probe(p) ==
  /\ at[p] = "probe"
  /\ \/ /\ SeesLive(p)
        /\ End(p, "refused")
     \/ /\ ~SeesLive(p)
        /\ Goto(p, "reclaim")
        /\ UNCHANGED ended
  /\ UNCHANGED <<file, written, seen, tries, met>>

(* unlink(missing_ok=True), whatever file is there by now; one retry.      *)
Reclaim(p) ==
  /\ at[p] = "reclaim"
  /\ file' = NoPid
  /\ tries' = [tries EXCEPT ![p] = tries[p] + 1]
  /\ IF tries[p] = 0 THEN Goto(p, "open") /\ UNCHANGED ended
                     ELSE End(p, "contention")
  /\ UNCHANGED <<written, seen, met>>

(* The pid reaches the file this process created, wherever it is now.      *)
WritePid(p) ==
  /\ at[p] = "created"
  /\ written' = written \cup {p}
  /\ Goto(p, "running")
  /\ UNCHANGED <<file, seen, tries, ended, met>>

------------------------------------------------------------------------------
(* release_pidfile, and death.                                             *)

(* release_pidfile: exists() and the comparison, then the unlink.          *)
CheckOwn(p) ==
  /\ at[p] = "running"
  /\ IF file = p /\ p \in written
     THEN Goto(p, "unlinking") /\ UNCHANGED ended
     ELSE End(p, "finished")
  /\ UNCHANGED <<file, written, seen, tries, met>>

Unlink(p) ==
  /\ at[p] = "unlinking"
  /\ file' = NoPid
  /\ End(p, IF file = NoPid THEN "vanished" ELSE "finished")
  /\ UNCHANGED <<written, seen, tries, met>>

Kill(p) ==
  /\ AliveProc(p)
  /\ End(p, "killed")
  /\ UNCHANGED <<file, written, seen, tries, met>>

PidfileNext ==
  \E p \in Procs :
    \/ Launch(p) \/ Open(p) \/ ReadPid(p) \/ Probe(p) \/ Reclaim(p) \/ WritePid(p)
    \/ CheckOwn(p) \/ Unlink(p) \/ Kill(p)

PidfileSpec == PidfileInit /\ [][PidfileNext]_pidfileVars

------------------------------------------------------------------------------
(* At most one conductor is in its loop ("two conductors starting together *)
(* must not both pass", conductor.py:136-137).                             *)
OneConductor ==
  \A p, q \in Procs : at[p] \in Holding /\ at[q] \in Holding => p = q

(* The claim of a running conductor is never taken away: nobody reclaims   *)
(* or releases its file while it runs ("never rip out a newer conductor's  *)
(* claim", conductor.py:157-158).                                          *)
ClaimKept ==
  \A p \in Procs : at[p] = "running" => file = p /\ p \in written

(* A crash needs no manual cleanup: a conductor started while none is      *)
(* alive, whatever files the dead left, is not turned away                 *)
(* (conductor.py:128-130).                                                 *)
NoManualCleanup ==
  \A p \in Procs : ended[p] \in {"refused", "contention", "vanished"} => met[p]
==============================================================================
