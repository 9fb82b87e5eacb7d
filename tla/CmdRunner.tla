----------------------------- MODULE CmdRunner -----------------------------
(***************************************************************************)
(* CmdRunner: the fork/exec wrapper that the diagnosers run their tools    *)
(* with, and the life of the children it starts.                           *)
(*                                                                         *)
(* procs[p] is the child with pid p (pids are never reused here):          *)
(*   st   "forked"  fork returned, the child has not yet called execv      *)
(*        "running" the tool's own program is running                      *)
(*        "zombie"  it has ended and nobody has waited for it              *)
(*        "reaped"  waitpid returned it                                    *)
(*   term SIGTERM has reached the running tool                             *)
(*   data its output file has content                                      *)
(*   by   the thread that forked it, the "parent" of PR_SET_PDEATHSIG      *)
(*   of   what it was launched for                                         *)
(*                                                                         *)
(* A SIGTERM that arrives before execv is handled by the handler inherited *)
(* from the worker, which only clears the child's copy of g_running: it    *)
(* has no effect on the tool.  After execv the default action kills it.    *)
(***************************************************************************)
EXTENDS Integers, Sequences

VARIABLE procs

NoPid == 0          \* pid_ = -1

Pids == DOMAIN procs
ChildStates == {"forked", "running", "zombie", "reaped"}

Child(by, of) ==
    [st |-> "forked", term |-> FALSE, data |-> FALSE, by |-> by, of |-> of]

(***************************************************************************)
(* CmdRunner's methods, called by the parent.                              *)
(***************************************************************************)

\* Start, when fork succeeds.  The new child's pid is NextPid.
NextPid == Len(procs) + 1
Start(by, of) == procs' = Append(procs, Child(by, of))

\* Stop, which is also the destructor: kill(SIGTERM), then one waitpid with
\* WNOHANG, which finds the child only if the signal has already ended it.
Stop(p) ==
    IF p = NoPid \/ procs[p].st \in {"forked", "reaped"}
    THEN procs' = procs
    ELSE IF procs[p].st = "zombie"
    THEN procs' = [procs EXCEPT ![p].st = "reaped"]
    ELSE \E st \in {"running", "reaped"} :
            procs' = [procs EXCEPT ![p].term = TRUE, ![p].st = st]

\* The answer of IsRunning, and the waitpid it makes of an ended child.
IsRunning(p) == p # NoPid /\ procs[p].st \in {"forked", "running"}
Reap(p) == procs' = [procs EXCEPT ![p].st = "reaped"]

(***************************************************************************)
(* The child's own steps.                                                  *)
(***************************************************************************)
Exec(p) ==
    /\ procs[p].st = "forked"
    /\ procs' = [procs EXCEPT ![p].st = "running"]

ExecFails(p) ==                      \* _exit(127)
    /\ procs[p].st = "forked"
    /\ procs' = [procs EXCEPT ![p].st = "zombie"]

WriteOutput(p) ==
    /\ procs[p].st = "running"
    /\ procs' = [procs EXCEPT ![p].data = TRUE]

Complete(p) ==                       \* the tool ends by itself
    /\ procs[p].st = "running"
    /\ ~procs[p].term
    /\ procs' = [procs EXCEPT ![p].st = "zombie"]

DieOfTerm(p) ==
    /\ procs[p].st = "running"
    /\ procs[p].term
    /\ procs' = [procs EXCEPT ![p].st = "zombie"]

\* The thread `by` ends: PR_SET_PDEATHSIG sends SIGTERM to its children.
\* A child that has not called prctl yet gets none, one that has and is still
\* before execv ignores it.
ThreadEnds(by) ==
    procs' = [p \in Pids |->
                IF procs[p].by = by /\ procs[p].st = "running"
                THEN [procs[p] EXCEPT !.term = TRUE]
                ELSE procs[p]]

Ended(p) == procs[p].st \in {"zombie", "reaped"}
=============================================================================
