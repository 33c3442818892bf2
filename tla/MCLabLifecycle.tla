--------------------------- MODULE MCLabLifecycle ---------------------------
(* Environments of the model-checking runs of LabLifecycle.                  *)
EXTENDS LabLifecycle, TLC

CONSTANTS a, b, p1, p2

Env(lab, install, w, seed, q) ==
  [count |-> [lab |-> lab, install |-> install], windows |-> w, seed |-> seed, port |-> q]

\* Every instance has a port, a profile and disk counts of its own; b's
\* profile is a Windows one.
OwnPorts ==
  [i \in Inst |-> {IF i = a THEN Env(1, 1, FALSE, "cidata", p1)
                            ELSE Env(1, 0, TRUE, "unattend", p2)}]

\* The default of config.py: the same port for all instances.
DefaultPort ==
  [i \in Inst |-> {Env(0, 0, FALSE, "cidata", p1)}]

\* LAB_DISK_COUNT is set for some commands only.
VaryingCount ==
  [i \in Inst |-> {Env(1, 1, FALSE, "oemdrv", p1), Env(2, 1, FALSE, "oemdrv", p1)}]

\* Bound: one instance is made at a time; any number are destroyed meanwhile.
OneCreate == Cardinality({t \in Term : Busy(t) /\ cmd[t].kind = "create"}) <= 1

\* Terminals are interchangeable; the run that uses this checks no liveness.
TermSymmetry == Permutations(Term)
=============================================================================
