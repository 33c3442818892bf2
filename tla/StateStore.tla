----------------------------- MODULE StateStore -----------------------------
(***************************************************************************)
(* The JSON state file of one lab instance at the level of its files       *)
(* (src/msai_setup/lab/state.py).  mark_phase_done and reset_phase are a   *)
(* load, a change and a save; save truncates and writes the sibling        *)
(* ".partial" file and renames it over the state file.  Nothing locks the  *)
(* file and the name of the partial is fixed, so two commands on one       *)
(* instance share it; directory entries and inodes are told apart because  *)
(* a writer keeps writing to the inode it opened after another renamed it. *)
(* A command may die between any two system calls.                         *)
(***************************************************************************)
EXTENDS FiniteSets

CONSTANTS
  Proc,     \* command processes that use this instance
  Phase,    \* phase names
  NoOp,     \* operation of an idle process
  Inode,    \* file identities, reused once nothing refers to them
  NoInode,  \* "no such file"
  Serial    \* TRUE: the operator runs one command at a time

ASSUME NoOpAssumption == NoOp \notin [kind : {"mark", "reset", "query", "destroy"},
                                      phase : Phase]
ASSUME InodeAssumption == NoInode \notin Inode
ASSUME SerialAssumption == Serial \in BOOLEAN

VARIABLES
  stateFile,  \* inode named <instance>-state.json, or NoInode
  partial,    \* inode named <instance>-state.json.partial, or NoInode
  content,    \* what each inode holds
  pc,         \* next step of each process
  op,         \* the operation each process is in, or NoOp
  snap,       \* the phases a process will write back
  fd,         \* the inode a process has open for writing, or NoInode
  asked       \* history: phases some process was ever asked to mark

vars == <<stateFile, partial, content, pc, op, snap, fd, asked>>
files == <<stateFile, partial, content>>

-----------------------------------------------------------------------------

Op == [kind : {"mark", "reset", "query", "destroy"}, phase : Phase]

\* File contents: just truncated, undecodable, or a JSON object with phases.
Empty   == [form |-> "empty",   phases |-> {}]
Garbled == [form |-> "garbled", phases |-> {}]
Json(s) == [form |-> "json",    phases |-> s]

Content == [form : {"empty", "garbled", "json"}, phases : SUBSET Phase]

\* What load returns, and is_phase_done reads, when it does not raise.
Recorded == IF stateFile = NoInode THEN {} ELSE content[stateFile].phases

\* json.loads raises on a truncated or overwritten file.
Readable == stateFile # NoInode => content[stateFile].form = "json"

\* Mutant of Updated: mark starts from an empty dictionary, not from load's.
UpdatedForgetful(o, s) ==
  CASE o.kind = "mark"  -> {o.phase}
    [] o.kind = "reset" -> s \ {o.phase}
    [] OTHER            -> s

\* Mutant of Updated: reset_phase goes through setdefault and leaves the key.
UpdatedResetAdds(o, s) == IF o.kind = "destroy" THEN s ELSE s \cup {o.phase}

\* The dictionary mark_phase_done and reset_phase hand to save.
Updated(o, s) ==
  CASE o.kind = "mark"  -> s \cup {o.phase}
    [] o.kind = "reset" -> s \ {o.phase}
    [] OTHER            -> s

Log == INSTANCE PhaseLog WITH done <- Recorded, pending <- op

-----------------------------------------------------------------------------

Init ==
  /\ stateFile = NoInode
  /\ partial = NoInode
  /\ content = [n \in Inode |-> Empty]
  /\ pc = [p \in Proc |-> "idle"]
  /\ op = [p \in Proc |-> NoOp]
  /\ snap = [p \in Proc |-> {}]
  /\ fd = [p \in Proc |-> NoInode]
  /\ asked = {}

\* Mutant of Finish: an idle process still has its operation pending.
FinishKeepsOp(p) ==
  /\ pc' = [pc EXCEPT ![p] = "idle"]
  /\ UNCHANGED op
  /\ snap' = [snap EXCEPT ![p] = {}]
  /\ fd' = [fd EXCEPT ![p] = NoInode]

\* Process p is idle again: the call returned, raised, or the process died.
Finish(p) ==
  /\ pc' = [pc EXCEPT ![p] = "idle"]
  /\ op' = [op EXCEPT ![p] = NoOp]
  /\ snap' = [snap EXCEPT ![p] = {}]
  /\ fd' = [fd EXCEPT ![p] = NoInode]

\* A command reaches a call into the store.
Start(p, o) ==
  /\ pc[p] = "idle"
  /\ Serial => \A q \in Proc : pc[q] = "idle"
  /\ pc' = [pc EXCEPT ![p] = "load"]
  /\ op' = [op EXCEPT ![p] = o]
  /\ asked' = IF o.kind = "mark" THEN asked \cup {o.phase} ELSE asked
  /\ UNCHANGED <<files, snap, fd>>

\* load: a missing file is {}, an undecodable one raises JSONDecodeError out
\* of the command; a query is over with it.
LoadRaises(p) ==
  /\ pc[p] = "load"
  /\ ~Readable
  /\ Finish(p)
  /\ UNCHANGED <<files, asked>>

Query(p) ==
  /\ pc[p] = "load"
  /\ op[p].kind = "query"
  /\ Readable
  /\ Finish(p)
  /\ UNCHANGED <<files, asked>>

Load(p) ==
  /\ pc[p] = "load"
  /\ op[p].kind # "query"
  /\ Readable
  /\ snap' = [snap EXCEPT ![p] = Updated(op[p], Recorded)]
  /\ pc' = [pc EXCEPT ![p] = IF op[p].kind = "destroy" THEN "unlink" ELSE "open"]
  /\ UNCHANGED <<files, op, fd, asked>>

\* Inodes something still refers to.
InUse == {stateFile, partial} \cup {fd[p] : p \in Proc}

\* Mutant of OpenPartial: the state file itself is truncated and rewritten.
OpenInPlace(p) ==
  /\ pc[p] = "open"
  /\ \E n \in Inode :
       /\ IF stateFile = NoInode THEN n \notin InUse ELSE n = stateFile
       /\ stateFile' = n
       /\ content' = [content EXCEPT ![n] = Empty]
       /\ fd' = [fd EXCEPT ![p] = n]
  /\ pc' = [pc EXCEPT ![p] = "write"]
  /\ UNCHANGED <<partial, op, snap, asked>>

\* save, first half of tmp.write_text: open(tmp, "w") creates the partial or
\* truncates the one that is there, whoever made it.
OpenPartial(p) ==
  /\ pc[p] = "open"
  /\ \E n \in Inode :
       /\ IF partial = NoInode THEN n \notin InUse ELSE n = partial
       /\ partial' = n
       /\ content' = [content EXCEPT ![n] = Empty]
       /\ fd' = [fd EXCEPT ![p] = n]
  /\ pc' = [pc EXCEPT ![p] = "write"]
  /\ UNCHANGED <<stateFile, op, snap, asked>>

\* save, second half of tmp.write_text: the JSON goes to the open inode from
\* offset 0.  Over another writer's longer text it leaves that text's tail.
WritePartial(p) ==
  /\ pc[p] = "write"
  /\ \E c \in {Json(snap[p]), Garbled} :
       /\ content[fd[p]] \in {Empty, Json(snap[p])} => c = Json(snap[p])
       /\ content' = [content EXCEPT ![fd[p]] = c]
  /\ pc' = [pc EXCEPT ![p] = "rename"]
  /\ UNCHANGED <<stateFile, partial, op, snap, fd, asked>>

\* save: tmp.rename(state_path); FileNotFoundError when another process has
\* already renamed the shared partial away.
RenamePartial(p) ==
  /\ pc[p] = "rename"
  /\ IF partial = NoInode
       THEN UNCHANGED <<stateFile, partial>>
       ELSE stateFile' = partial /\ partial' = NoInode
  /\ Finish(p)
  /\ UNCHANGED <<content, asked>>

\* destroy: p.exists() and p.unlink() on the state file; the partial stays.
Unlink(p) ==
  /\ pc[p] = "unlink"
  /\ stateFile' = NoInode
  /\ Finish(p)
  /\ UNCHANGED <<partial, content, asked>>

\* The command is killed, or a write fails (disk full) and the exception ends
\* it; a write cut short leaves a truncated text in the open inode.
Die(p) ==
  /\ pc[p] # "idle"
  /\ \/ UNCHANGED content
     \/ /\ pc[p] = "write"
        /\ content' = [content EXCEPT ![fd[p]] = Garbled]
  /\ Finish(p)
  /\ UNCHANGED <<stateFile, partial, asked>>

Next ==
  \E p \in Proc :
    \/ \E o \in Op : Start(p, o)
    \/ LoadRaises(p)
    \/ Query(p)
    \/ Load(p)
    \/ OpenPartial(p)
    \/ WritePartial(p)
    \/ RenamePartial(p)
    \/ Unlink(p)
    \/ Die(p)

Spec == Init /\ [][Next]_vars

-----------------------------------------------------------------------------

\* Type invariant; a process has an operation exactly while it is not idle.
TypeOK ==
  /\ stateFile \in Inode \cup {NoInode}
  /\ partial \in Inode \cup {NoInode}
  /\ content \in [Inode -> Content]
  /\ pc \in [Proc -> {"idle", "load", "open", "write", "rename", "unlink"}]
  /\ op \in [Proc -> Op \cup {NoOp}]
  /\ \A p \in Proc : pc[p] = "idle" <=> op[p] = NoOp
  /\ snap \in [Proc -> SUBSET Phase]
  /\ fd \in [Proc -> Inode \cup {NoInode}]
  /\ asked \subseteq Phase

\* "a crash mid-write can't leave a truncated/corrupt state file"
\* (state.py:28): whatever the interleaving and wherever a process died, the
\* file that carries the state name decodes.
StateReadable == Readable

\* A finished phase is forgotten only by a reset of that phase or by destroy:
\* marking another phase keeps it (tests/test_state.py:44).
OnlyResetForgets ==
  [][Readable' => \A ph \in Recorded \ Recorded' :
       \E p \in Proc :
         /\ op[p] # NoOp
         /\ op'[p] = NoOp
         /\ op[p].kind \in {"reset", "destroy"}
         /\ op[p].kind = "reset" => op[p].phase = ph]_vars

\* However writers interleave, the file never names a phase that no command
\* asked to mark, so no phase is skipped that was never run.
NoPhantomPhase == Recorded \subseteq asked

\* save implements an atomic store: a step of the files is one whole operation
\* of the abstract log or invisible to it.
ImplementsLog == Log!Spec
=============================================================================
