-------------------------- MODULE StateStore_proofs --------------------------
(***************************************************************************)
(* Proofs about StateStore, for any number of processes, phases and        *)
(* inodes.  The typing theorem holds for every interleaving; the others    *)
(* are about an operator who runs one command at a time (Serial).          *)
(***************************************************************************)
EXTENDS StateStore, TLAPS

\* What the files and the only active process look like at each step of save.
WriterInv(p) ==
  /\ pc[p] \in {"open", "write", "rename"} =>
       /\ op[p].kind \in {"mark", "reset"}
       /\ snap[p] = Updated(op[p], Recorded)
  /\ pc[p] = "unlink" => op[p].kind = "destroy"
  /\ pc[p] \in {"write", "rename"} => fd[p] = partial /\ partial # NoInode
  /\ pc[p] = "write" => content[partial] = Empty
  /\ pc[p] = "rename" => content[partial] = Json(snap[p])

\* At most one process is active, the partial is never the state file, the
\* state file decodes, and no idle process still refers to an inode.
SerialInv ==
  /\ \A p, q \in Proc : pc[p] # "idle" /\ pc[q] # "idle" => p = q
  /\ partial # NoInode => partial # stateFile
  /\ Readable
  /\ \A p \in Proc : WriterInv(p)
  /\ \A p \in Proc : pc[p] = "idle" => fd[p] = NoInode

-----------------------------------------------------------------------------

\* The texts save can leave in a file are file contents.
LEMMA WrittenContent ==
  /\ Garbled \in Content
  /\ \A s \in SUBSET Phase : Json(s) \in Content
BY DEF Content, Garbled, Json

LEMMA WriteType ==
  ASSUME TypeOK, NEW p \in Proc, WritePartial(p)
  PROVE  TypeOK'
<1>1. snap[p] \in SUBSET Phase
  BY DEF TypeOK
<1>2. PICK c \in Content : content' = [content EXCEPT ![fd[p]] = c]
  BY <1>1, WrittenContent DEF WritePartial
<1>3. content' \in [Inode -> Content]
  BY <1>2 DEF TypeOK
<1>4. /\ UNCHANGED <<stateFile, partial, op, snap, fd, asked>>
      /\ pc' = [pc EXCEPT ![p] = "rename"]
      /\ pc[p] = "write"
  BY DEF WritePartial
<1>5. pc' \in [Proc -> {"idle", "load", "open", "write", "rename", "unlink"}]
  BY <1>4 DEF TypeOK
<1>6. \A q \in Proc : pc'[q] = "idle" <=> pc[q] = "idle"
  BY <1>4 DEF TypeOK
<1>7. \A q \in Proc : pc'[q] = "idle" <=> op'[q] = NoOp
  BY <1>4, <1>6 DEF TypeOK
<1>8. QED
  BY <1>3, <1>4, <1>5, <1>7 DEF TypeOK

LEMMA OpenType ==
  ASSUME TypeOK, NEW p \in Proc, OpenPartial(p)
  PROVE  TypeOK'
<1>1. Empty \in Content
  BY DEF Content, Empty
<1>2. PICK n \in Inode : /\ partial' = n
                         /\ content' = [content EXCEPT ![n] = Empty]
                         /\ fd' = [fd EXCEPT ![p] = n]
  BY DEF OpenPartial
<1>3. /\ partial' \in Inode \cup {NoInode}
      /\ content' \in [Inode -> Content]
      /\ fd' \in [Proc -> Inode \cup {NoInode}]
  BY <1>1, <1>2 DEF TypeOK
<1>4. /\ UNCHANGED <<stateFile, op, snap, asked>>
      /\ pc' = [pc EXCEPT ![p] = "write"]
      /\ pc[p] = "open"
  BY DEF OpenPartial
<1>5. pc' \in [Proc -> {"idle", "load", "open", "write", "rename", "unlink"}]
  BY <1>4 DEF TypeOK
<1>6. \A q \in Proc : pc'[q] = "idle" <=> op'[q] = NoOp
  BY <1>4 DEF TypeOK
<1>7. QED
  BY <1>3, <1>4, <1>5, <1>6 DEF TypeOK

\* Every variable keeps its type whatever the commands do (state.py as a whole).
THEOREM Typing == Spec => []TypeOK
<1> USE DEF TypeOK, files, Finish, Content, Empty, Garbled, Json, Op
<1>1. Init => TypeOK
  BY DEF Init
<1>2. TypeOK /\ [Next]_vars => TypeOK'
  <2> SUFFICES ASSUME TypeOK, [Next]_vars PROVE TypeOK'
    OBVIOUS
  <2>1. ASSUME NEW p \in Proc, NEW o \in Op, Start(p, o) PROVE TypeOK'
    BY <2>1, NoOpAssumption DEF Start
  <2>2. ASSUME NEW p \in Proc, LoadRaises(p) PROVE TypeOK'
    BY <2>2 DEF LoadRaises
  <2>3. ASSUME NEW p \in Proc, Query(p) PROVE TypeOK'
    BY <2>3 DEF Query
  <2>4. ASSUME NEW p \in Proc, Load(p) PROVE TypeOK'
    <3>1. op[p] \in Op
      BY <2>4, NoOpAssumption DEF Load
    <3>2. Updated(op[p], Recorded) \in SUBSET Phase
      BY <2>4, <3>1 DEF Updated, Recorded, Load
    <3>3. QED
      BY <2>4, <3>2 DEF Load
  <2>5. ASSUME NEW p \in Proc, OpenPartial(p) PROVE TypeOK'
    BY <2>5, OpenType
  <2>6. ASSUME NEW p \in Proc, WritePartial(p) PROVE TypeOK'
    BY <2>6, WriteType
  <2>7. ASSUME NEW p \in Proc, RenamePartial(p) PROVE TypeOK'
    BY <2>7 DEF RenamePartial
  <2>8. ASSUME NEW p \in Proc, Unlink(p) PROVE TypeOK'
    BY <2>8 DEF Unlink
  <2>9. ASSUME NEW p \in Proc, Die(p) PROVE TypeOK'
    <3>a. Garbled \in Content
      OBVIOUS
    <3>1. content' \in [Inode -> Content]
      BY <2>9, <3>a DEF Die
    <3>2. QED
      BY <2>9, <3>1 DEF Die
  <2>10. CASE UNCHANGED vars
    BY <2>10 DEF vars
  <2>11. QED
    BY <2>1, <2>2, <2>3, <2>4, <2>5, <2>6, <2>7, <2>8, <2>9, <2>10 DEF Next
<1>3. QED
  BY <1>1, <1>2, PTL DEF Spec

-----------------------------------------------------------------------------

\* A command's update is a set of phases, and a query or destroy writes none.
LEMMA UpdatedType ==
  ASSUME NEW o \in Op, NEW s \in SUBSET Phase
  PROVE  Updated(o, s) \in SUBSET Phase
BY DEF Updated, Op

\* The operation of a process that is inside a call.
LEMMA ActiveOp ==
  ASSUME TypeOK, NEW p \in Proc, pc[p] # "idle"
  PROVE  op[p] \in Op
BY DEF TypeOK

\* One command at a time: every step of the files keeps the inductive
\* invariant (save of state.py:25-34 is crash-safe at each system call).
LEMMA SerialStep ==
  ASSUME Serial, TypeOK, TypeOK', SerialInv, [Next]_vars
  PROVE  SerialInv'
<1> USE DEF SerialInv, Readable, Recorded, files, Finish, Empty, Garbled, Json
\* A finished call leaves its process with nothing, and no other is active.
<1>0. ASSUME NEW p \in Proc, pc[p] # "idle", Finish(p)
      PROVE  \A q \in Proc : pc'[q] = "idle" /\ fd'[q] = NoInode
  BY <1>0 DEF TypeOK
<1>1. ASSUME NEW p \in Proc, NEW o \in Op, Start(p, o) PROVE SerialInv'
  BY <1>1 DEF Start, TypeOK, WriterInv, Updated
<1>2. ASSUME NEW p \in Proc, LoadRaises(p) PROVE SerialInv'
  BY <1>2 DEF LoadRaises
<1>3. ASSUME NEW p \in Proc, Query(p) PROVE SerialInv'
  BY <1>0, <1>3 DEF Query, WriterInv
<1>4. ASSUME NEW p \in Proc, Load(p) PROVE SerialInv'
  <2>1. op[p] \in Op
    BY <1>4, ActiveOp DEF Load
  <2>2. \A q \in Proc : q # p => pc[q] = "idle" /\ pc'[q] = "idle"
    BY <1>4 DEF Load, TypeOK
  <2>3. WriterInv(p)'
    BY <1>4, <2>1 DEF Load, WriterInv, Updated, Op, TypeOK
  <2>4. \A q \in Proc : q # p => WriterInv(q)'
    BY <2>2 DEF WriterInv
  <2>5. QED
    BY <1>4, <2>2, <2>3, <2>4 DEF Load
<1>5. ASSUME NEW p \in Proc, OpenPartial(p) PROVE SerialInv'
  <2>1. \A q \in Proc : q # p => pc[q] = "idle" /\ pc'[q] = "idle"
    BY <1>5 DEF OpenPartial, TypeOK
  <2>2. partial' \in Inode /\ fd'[p] = partial' /\ content'[partial'] = Empty
    BY <1>5 DEF OpenPartial, TypeOK
  <2>3. partial' # stateFile
    BY <1>5, InodeAssumption DEF OpenPartial, InUse
  <2>4. stateFile # NoInode => content'[stateFile] = content[stateFile]
    BY <1>5, <2>2, <2>3 DEF OpenPartial, TypeOK
  <2>5. WriterInv(p)'
    <3>1. /\ pc[p] = "open" /\ pc'[p] = "write"
          /\ op' = op /\ snap' = snap /\ stateFile' = stateFile
      BY <1>5 DEF OpenPartial, TypeOK
    <3>2. op[p].kind \in {"mark", "reset"} /\ snap[p] = Updated(op[p], Recorded)
      BY <3>1 DEF WriterInv
    <3>3. Recorded' = Recorded
      BY <3>1, <2>4
    <3>4. Updated(op[p], Recorded)' = Updated(op[p], Recorded)
      BY <3>1, <3>3 DEF Updated
    <3>5. QED
      BY <2>2, <3>1, <3>2, <3>4, InodeAssumption DEF WriterInv
  <2>6. \A q \in Proc : q # p => WriterInv(q)'
    BY <2>1 DEF WriterInv
  <2>7. QED
    BY <1>5, <2>1, <2>3, <2>4, <2>5, <2>6 DEF OpenPartial, TypeOK
<1>6. ASSUME NEW p \in Proc, WritePartial(p) PROVE SerialInv'
  <2>1. \A q \in Proc : q # p => pc[q] = "idle" /\ pc'[q] = "idle"
    BY <1>6 DEF WritePartial, TypeOK
  <2>2. content' = [content EXCEPT ![partial] = Json(snap[p])]
    BY <1>6 DEF WritePartial, WriterInv
  <2>3. stateFile # NoInode => content'[stateFile] = content[stateFile]
    BY <1>6, <2>2 DEF WritePartial, WriterInv, TypeOK
  <2>4. WriterInv(p)'
    BY <1>6, <2>2, <2>3 DEF WritePartial, WriterInv, TypeOK
  <2>5. \A q \in Proc : q # p => WriterInv(q)'
    BY <2>1 DEF WriterInv
  <2>6. QED
    BY <1>6, <2>1, <2>3, <2>4, <2>5 DEF WritePartial, TypeOK
<1>7. ASSUME NEW p \in Proc, RenamePartial(p) PROVE SerialInv'
  <2>0. partial # NoInode /\ content[partial] = Json(snap[p])
    BY <1>7 DEF RenamePartial, WriterInv
  <2>1. content[partial].form = "json" /\ stateFile' = partial /\ partial' = NoInode
    BY <1>7, <2>0 DEF RenamePartial
  <2>2. QED
    BY <1>0, <1>7, <2>1 DEF RenamePartial, WriterInv
<1>8. ASSUME NEW p \in Proc, Unlink(p) PROVE SerialInv'
  BY <1>0, <1>8 DEF Unlink, WriterInv, TypeOK
<1>9. ASSUME NEW p \in Proc, Die(p) PROVE SerialInv'
  <2>0. pc[p] = "write" => fd[p] = partial /\ partial # NoInode
    BY DEF WriterInv
  <2>1. stateFile # NoInode => content'[stateFile] = content[stateFile]
    BY <1>9, <2>0 DEF Die, TypeOK
  <2>2. QED
    BY <1>0, <1>9, <2>1 DEF Die, WriterInv
<1>10. CASE UNCHANGED vars
  BY <1>10 DEF vars, WriterInv, Updated
<1>11. QED
  BY <1>1, <1>2, <1>3, <1>4, <1>5, <1>6, <1>7, <1>8, <1>9, <1>10 DEF Next

-----------------------------------------------------------------------------

LEMMA SerialInit == Init => SerialInv
BY DEF Init, SerialInv, WriterInv, Readable

\* "a crash mid-write can't leave a truncated/corrupt state file" (state.py:28)
\* for any number of phases, inodes and commands, run one at a time.
THEOREM SerialSafety == ASSUME Serial PROVE Spec => []StateReadable
<1>1. Init => SerialInv
  BY SerialInit
<1>2. TypeOK /\ TypeOK' /\ SerialInv /\ [Next]_vars => SerialInv'
  BY SerialStep
<1>3. SerialInv => StateReadable
  BY DEF SerialInv, StateReadable
<1>4. QED
  BY <1>1, <1>2, <1>3, Typing, PTL DEF Spec

-----------------------------------------------------------------------------

\* A step that touches neither the name nor the inode behind it is invisible.
LEMMA RecordedKept ==
  ASSUME stateFile' = stateFile,
         stateFile # NoInode => content'[stateFile] = content[stateFile]
  PROVE  Recorded' = Recorded
BY DEF Recorded

\* A process inside a call has an operation pending in the abstract log.
LEMMA PendingOp ==
  ASSUME TypeOK, NEW p \in Proc, pc[p] # "idle"
  PROVE  op[p] # NoOp
BY DEF TypeOK

LEMMA SerialLogStep ==
  ASSUME Serial, TypeOK, TypeOK', SerialInv, [Next]_vars
  PROVE  [Log!Next]_(Log!logVars)
<1>1. ASSUME NEW p \in Proc, NEW o \in Op, Start(p, o) PROVE Log!Next
  <2>1. Recorded' = Recorded
    BY <1>1, RecordedKept DEF Start, files
  <2>2. op[p] = NoOp /\ op' = [op EXCEPT ![p] = o]
    BY <1>1 DEF Start, TypeOK
  <2>3. Log!Issue(p, o)
    BY <2>1, <2>2 DEF Log!Issue
  <2>4. o \in Log!Op
    BY DEF Op, Log!Op
  <2>5. QED
    BY <2>3, <2>4 DEF Log!Next
<1>2. ASSUME NEW p \in Proc, LoadRaises(p) PROVE Log!Next
  BY <1>2 DEF LoadRaises, SerialInv
<1>3. ASSUME NEW p \in Proc, Query(p) PROVE Log!Next
  <2>1. Recorded' = Recorded
    BY <1>3, RecordedKept DEF Query, files
  <2>2. op[p] # NoOp /\ op' = [op EXCEPT ![p] = NoOp] /\ op[p].kind = "query"
    BY <1>3, PendingOp DEF Query, Finish
  <2>3. Log!Commit(p)
    BY <2>1, <2>2 DEF Log!Commit, Log!Effect
  <2>4. QED
    BY <2>3 DEF Log!Next
<1>4. ASSUME NEW p \in Proc, Load(p) PROVE UNCHANGED <<Recorded, op>>
  BY <1>4, RecordedKept DEF Load, files
<1>5. ASSUME NEW p \in Proc, OpenPartial(p) PROVE UNCHANGED <<Recorded, op>>
  <2>1. PICK n \in Inode : /\ IF partial = NoInode THEN n \notin InUse ELSE n = partial
                           /\ content' = [content EXCEPT ![n] = Empty]
    BY <1>5 DEF OpenPartial
  <2>2. n # stateFile
    BY <2>1, InodeAssumption DEF InUse, SerialInv
  <2>3. content'[stateFile] = content[stateFile] \/ stateFile = NoInode
    BY <2>1, <2>2 DEF TypeOK
  <2>4. QED
    BY <1>5, <2>3, RecordedKept DEF OpenPartial
<1>6. ASSUME NEW p \in Proc, WritePartial(p) PROVE UNCHANGED <<Recorded, op>>
  <2>1. fd[p] = partial /\ partial # stateFile
    BY <1>6 DEF WritePartial, SerialInv, WriterInv
  <2>2. PICK c : content' = [content EXCEPT ![partial] = c]
    BY <1>6, <2>1 DEF WritePartial
  <2>3. content'[stateFile] = content[stateFile] \/ stateFile = NoInode
    BY <2>1, <2>2 DEF TypeOK
  <2>4. QED
    BY <1>6, <2>3, RecordedKept DEF WritePartial
<1>7. ASSUME NEW p \in Proc, RenamePartial(p) PROVE Log!Next
  <2>1. /\ partial # NoInode
        /\ content[partial] = Json(snap[p])
        /\ op[p].kind \in {"mark", "reset"}
        /\ snap[p] = Updated(op[p], Recorded)
    BY <1>7 DEF RenamePartial, SerialInv, WriterInv
  <2>2. Recorded' = snap[p]
    BY <1>7, <2>1 DEF RenamePartial, Recorded, Json
  <2>3. snap[p] = Log!Effect(op[p], Recorded)
    BY <2>1 DEF Updated, Log!Effect
  <2>4. op[p] # NoOp /\ op' = [op EXCEPT ![p] = NoOp]
    BY <1>7, PendingOp DEF RenamePartial, Finish
  <2>5. Log!Commit(p)
    BY <2>2, <2>3, <2>4 DEF Log!Commit
  <2>6. QED
    BY <2>5 DEF Log!Next
<1>8. ASSUME NEW p \in Proc, Unlink(p) PROVE Log!Next
  <2>1. op[p].kind = "destroy" /\ Recorded' = {}
    BY <1>8 DEF Unlink, SerialInv, WriterInv, Recorded
  <2>2. op[p] # NoOp /\ op' = [op EXCEPT ![p] = NoOp]
    BY <1>8, PendingOp DEF Unlink, Finish
  <2>3. Log!Commit(p)
    BY <2>1, <2>2 DEF Log!Commit, Log!Effect
  <2>4. QED
    BY <2>3 DEF Log!Next
<1>9. ASSUME NEW p \in Proc, Die(p) PROVE Log!Next
  <2>1. pc[p] = "write" => fd[p] = partial /\ partial # NoInode /\ partial # stateFile
    BY DEF SerialInv, WriterInv
  <2>2. content' = content \/ content' = [content EXCEPT ![partial] = Garbled]
    BY <1>9, <2>1 DEF Die
  <2>3. stateFile # NoInode => content'[stateFile] = content[stateFile]
    BY <1>9, <2>1 DEF Die, TypeOK
  <2>4. Recorded' = Recorded
    BY <1>9, <2>3, RecordedKept DEF Die
  <2>5. op[p] # NoOp /\ op' = [op EXCEPT ![p] = NoOp]
    BY <1>9, PendingOp DEF Die, Finish
  <2>6. Log!Abandon(p)
    BY <2>4, <2>5 DEF Log!Abandon
  <2>7. QED
    BY <2>6 DEF Log!Next
<1>10. CASE UNCHANGED vars
  BY <1>10 DEF vars, Recorded, Log!logVars
<1>11. QED
  BY <1>1, <1>2, <1>3, <1>4, <1>5, <1>6, <1>7, <1>8, <1>9, <1>10 DEF Next, Log!logVars

\* Run one at a time, the file-level store is the atomic log of PhaseLog: every
\* mark, reset, query and destroy of state.py happens as a whole or not at all.
THEOREM SerialRefinement == ASSUME Serial PROVE Spec => ImplementsLog
<1>1. Init => SerialInv /\ Log!Init
  BY SerialInit DEF Init, Log!Init, Recorded
<1>2. TypeOK /\ TypeOK' /\ SerialInv /\ [Next]_vars => SerialInv'
  BY SerialStep
<1>3. TypeOK /\ TypeOK' /\ SerialInv /\ [Next]_vars => [Log!Next]_(Log!logVars)
  BY SerialLogStep
<1>4. QED
  BY <1>1, <1>2, <1>3, Typing, PTL DEF Spec, ImplementsLog, Log!Spec

\* Run one at a time, a finished phase is forgotten only by a reset of that
\* phase or by destroy (tests/test_state.py:44).
THEOREM SerialRetention == ASSUME Serial PROVE Spec => OnlyResetForgets
<1> DEFINE Kept == Readable' => \A ph \in Recorded \ Recorded' :
                     \E p \in Proc :
                       /\ op[p] # NoOp
                       /\ op'[p] = NoOp
                       /\ op[p].kind \in {"reset", "destroy"}
                       /\ op[p].kind = "reset" => op[p].phase = ph
<1>1. ASSUME Serial, TypeOK, TypeOK', SerialInv, [Next]_vars PROVE Kept
  <2>1. [Log!Next]_(Log!logVars)
    BY <1>1, SerialLogStep
  <2>2. ASSUME NEW p \in Proc, Log!Commit(p) PROVE Kept
    <3>1. op[p] \in Op /\ op'[p] = NoOp
      BY <1>1, <2>2 DEF Log!Commit, TypeOK
    <3>2. Recorded' = Log!Effect(op[p], Recorded) /\ op[p] # NoOp
      BY <2>2 DEF Log!Commit
    <3>3. QED
      BY <3>1, <3>2 DEF Log!Effect, Op
  <2>3. ASSUME NEW p \in Proc, Log!Abandon(p) \/ \E o \in Log!Op : Log!Issue(p, o)
        PROVE  Kept
    BY <2>3 DEF Log!Abandon, Log!Issue
  <2>4. CASE UNCHANGED Log!logVars
    BY <2>4 DEF Log!logVars
  <2>5. QED
    BY <2>1, <2>2, <2>3, <2>4 DEF Log!Next
<1>2. Init => SerialInv
  BY SerialInit
<1>3. TypeOK /\ TypeOK' /\ SerialInv /\ [Next]_vars => SerialInv'
  BY SerialStep
<1>4. TypeOK /\ TypeOK' /\ SerialInv /\ [Next]_vars => [Kept]_vars
  BY <1>1
<1>5. QED
  BY <1>2, <1>3, <1>4, Typing, PTL DEF Spec, OnlyResetForgets

-----------------------------------------------------------------------------

\* Whatever a process will write back, and whatever lies in any file, the
\* partial of a dead command included, was asked for.
AskedInv ==
  /\ \A p \in Proc : op[p] # NoOp /\ op[p].kind = "mark" => op[p].phase \in asked
  /\ \A p \in Proc : snap[p] \subseteq asked
  /\ \A n \in Inode : content[n].phases \subseteq asked

\* The record is among the texts in the files.
LEMMA RecordedAsked ==
  ASSUME TypeOK, AskedInv
  PROVE  Recorded \subseteq asked
BY DEF TypeOK, AskedInv, Recorded

\* Of a process that is through, nothing is left to write.
LEMMA FinishedAsked ==
  ASSUME TypeOK, AskedInv, NEW p \in Proc, Finish(p), asked' = asked,
         \A n \in Inode : content'[n].phases \subseteq asked
  PROVE  AskedInv'
BY DEF TypeOK, AskedInv, Finish

LEMMA AskedStep ==
  ASSUME TypeOK, AskedInv, [Next]_vars
  PROVE  AskedInv'
<1>1. ASSUME NEW p \in Proc, NEW o \in Op, Start(p, o) PROVE AskedInv'
  BY <1>1 DEF Start, TypeOK, AskedInv, files
<1>2. ASSUME NEW p \in Proc, LoadRaises(p) \/ Query(p) \/ RenamePartial(p) \/ Unlink(p)
      PROVE  AskedInv'
  <2>1. content' = content /\ asked' = asked /\ Finish(p)
    BY <1>2 DEF LoadRaises, Query, RenamePartial, Unlink, files
  <2>2. QED
    BY <2>1, FinishedAsked DEF AskedInv
<1>3. ASSUME NEW p \in Proc, Load(p) PROVE AskedInv'
  <2>1. op[p] \in Op /\ op[p] # NoOp
    BY <1>3, ActiveOp DEF Load, TypeOK
  <2>2. Updated(op[p], Recorded) \subseteq asked
    BY <2>1, RecordedAsked DEF Updated, AskedInv
  <2>3. QED
    BY <1>3, <2>2 DEF Load, TypeOK, AskedInv, files
<1>4. ASSUME NEW p \in Proc, OpenPartial(p) PROVE AskedInv'
  <2>1. PICK n \in Inode : content' = [content EXCEPT ![n] = Empty]
    BY <1>4 DEF OpenPartial
  <2>2. \A m \in Inode : content'[m].phases \subseteq content[m].phases
    BY <2>1 DEF TypeOK, Empty
  <2>3. QED
    BY <1>4, <2>2 DEF OpenPartial, AskedInv
<1>5. ASSUME NEW p \in Proc, WritePartial(p) PROVE AskedInv'
  <2>1. PICK c \in {Json(snap[p]), Garbled} : content' = [content EXCEPT ![fd[p]] = c]
    BY <1>5 DEF WritePartial
  <2>2. c.phases \subseteq snap[p]
    BY <2>1 DEF Json, Garbled
  <2>3. \A m \in Inode : content'[m].phases \subseteq content[m].phases \cup snap[p]
    BY <2>1, <2>2 DEF TypeOK
  <2>4. QED
    BY <1>5, <2>3 DEF WritePartial, AskedInv
<1>6. ASSUME NEW p \in Proc, Die(p) PROVE AskedInv'
  <2>1. \A m \in Inode : content'[m].phases \subseteq content[m].phases
    BY <1>6 DEF Die, TypeOK, Garbled
  <2>2. QED
    BY <1>6, <2>1, FinishedAsked DEF Die, AskedInv
<1>7. CASE UNCHANGED vars
  BY <1>7 DEF vars, AskedInv
<1>8. QED
  BY <1>1, <1>2, <1>3, <1>4, <1>5, <1>6, <1>7 DEF Next

\* Any number of commands, in any interleaving and with any deaths: the state
\* file never names a phase that no command asked to mark (state.py:25-34).
THEOREM NoPhantom == Spec => []NoPhantomPhase
<1>1. Init => AskedInv
  BY DEF Init, AskedInv, Empty
<1>2. TypeOK /\ AskedInv /\ [Next]_vars => AskedInv'
  BY AskedStep
<1>3. TypeOK /\ AskedInv => NoPhantomPhase
  BY RecordedAsked DEF NoPhantomPhase
<1>4. QED
  BY <1>1, <1>2, <1>3, Typing, PTL DEF Spec

=============================================================================
