------------------------------ MODULE PhaseLog ------------------------------
(***************************************************************************)
(* What the state store of a lab instance promises its callers             *)
(* (src/msai_setup/lab/state.py): a set of finished phases that every      *)
(* operation reads or changes in one indivisible step, or not at all when  *)
(* the command that issued it dies first.  StateStore, the file-level      *)
(* specification, is shown to implement this one.                          *)
(***************************************************************************)

CONSTANTS
  Proc,    \* command processes that use one instance's state file
  Phase,   \* phase names: "provision", "apply", "zfs_root_install"
  NoOp     \* the value of an idle process's operation

VARIABLES
  done,    \* the phases recorded as finished
  pending  \* the operation each process has issued and not yet finished

logVars == <<done, pending>>

Op == [kind : {"mark", "reset", "query", "destroy"}, phase : Phase]

\* The record of finished phases after operation o on the record s.
Effect(o, s) ==
  CASE o.kind = "mark"    -> s \cup {o.phase}
    [] o.kind = "reset"   -> s \ {o.phase}
    [] o.kind = "query"   -> s
    [] o.kind = "destroy" -> {}

Init ==
  /\ done = {}
  /\ pending = [p \in Proc |-> NoOp]

Issue(p, o) ==
  /\ pending[p] = NoOp
  /\ pending' = [pending EXCEPT ![p] = o]
  /\ UNCHANGED done

\* The operation takes effect as a whole and its process is idle again.
Commit(p) ==
  /\ pending[p] # NoOp
  /\ done' = Effect(pending[p], done)
  /\ pending' = [pending EXCEPT ![p] = NoOp]

\* The process died or the operation raised: nothing was recorded.
Abandon(p) ==
  /\ pending[p] # NoOp
  /\ pending' = [pending EXCEPT ![p] = NoOp]
  /\ UNCHANGED done

Next ==
  \E p \in Proc :
    \/ \E o \in Op : Issue(p, o)
    \/ Commit(p)
    \/ Abandon(p)

Spec == Init /\ [][Next]_logVars
=============================================================================
