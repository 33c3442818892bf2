-------------------------- MODULE LabSerial_proofs --------------------------
(***************************************************************************)
(* Proofs about LabLifecycle when one command runs at a time, as the       *)
(* operator of one terminal does: OneTerminal.  The stronger promises also *)
(* need what lab/config.py leaves to the operator: a port of its own for   *)
(* each instance, and an environment that stays the same.                  *)
(***************************************************************************)
EXTENDS LabLifecycle_proofs, FiniteSetTheorems

OneTerminal == \A t, u \in Term : t = u

OwnPort == \A i, j \in Inst :
             \A s \in Setting[i], r \in Setting[j] : s.port = r.port => i = j

OneSetting == \A i \in Inst : \A s, r \in Setting[i] : s = r

Types == HostOK /\ CmdOK

-----------------------------------------------------------------------------
(* Frames: what a step leaves alone                                        *)

\* The VMs but for their running state and drives, the images and the snapshots.
SameMachines ==
  /\ \A j \in Inst :
       /\ vm'[j] = NoVM <=> vm[j] = NoVM
       /\ vm[j] # NoVM => vm'[j].sata = vm[j].sata /\ vm'[j].port = vm[j].port
  /\ disks' = disks
  /\ snapshots' = snapshots

LEMMA Switching ==
  ASSUME HostOK, NEW i \in Inst, vm[i] # NoVM, NEW x \in {"off", "on", "saved"},
         vm' = [vm EXCEPT ![i].state = x], disks' = disks, snapshots' = snapshots
  PROVE  SameMachines
<1>1. vm[i] \in Machines
  BY DEF HostOK, VMOK
<1>2. [vm[i] EXCEPT !.state = x] \in Machines
  BY <1>1 DEF Machines
<1>3. /\ vm'[i] \in Machines
      /\ vm'[i].sata = vm[i].sata /\ vm'[i].port = vm[i].port
      /\ \A j \in Inst \ {i} : vm'[j] = vm[j]
  BY <1>1, <1>2 DEF HostOK, VMOK, Machines
<1>4. QED
  BY <1>3, NullAssumption DEF SameMachines

LEMMA Driven ==
  ASSUME HostOK, CmdOK, NEW t \in Term, AttachMedia(t)
  PROVE  SameMachines
<1> DEFINE i == cmd[t].inst
<1>1. PICK m \in Machines : /\ vm' = [vm EXCEPT ![i] = m]
                            /\ m.port = vm[i].port /\ m.sata = vm[i].sata
  BY EquippedVMs
<1>2. i \in Inst /\ vm[i] \in Machines
  BY EquippedVMs
<1>3. vm'[i] = m /\ \A j \in Inst \ {i} : vm'[j] = vm[j]
  BY <1>1, <1>2 DEF HostOK, VMOK
<1>4. disks' = disks /\ snapshots' = snapshots
  BY DEF AttachMedia
<1>5. QED
  BY <1>1, <1>2, <1>3, <1>4, NullAssumption DEF SameMachines

LEMMA MachineFrame ==
  ASSUME Types, [Next]_vars
  PROVE  \/ SameMachines /\ installed' = installed
         \/ \E i \in Inst : Installs(i)
         \/ \E t \in Term :
              \/ CreateVM(t) \/ ConfigureVM(t) \/ CreateDisk(t) \/ AttachDisk(t)
              \/ Unregister(t) \/ UnlinkPrimary(t) \/ UnlinkData(t)
              \/ Snapshot(t) \/ RestoreSnapshot(t)
<1> DEFINE Kept == SameMachines /\ installed' = installed
<1> USE DEF Types
<1>1. ASSUME vm' = vm, disks' = disks, snapshots' = snapshots, installed' = installed
      PROVE  Kept
  BY <1>1 DEF SameMachines
<1>2. ASSUME NEW t \in Term, NEW i \in Inst, Start(t, i)
      PROVE  Kept
  BY <1>2, Switching DEF Start, PowerOn
<1>3. ASSUME NEW t \in Term, StartVM(t)
      PROVE  Kept
  BY <1>1, <1>3, Switching, FieldTypes DEF StartVM, PowerOn, At
<1>4. ASSUME NEW t \in Term, PowerOff(t)
      PROVE  Kept
  BY <1>1, <1>4, Switching, FieldTypes DEF PowerOff, At, On
<1>5. ASSUME NEW i \in Inst, Stops(i)
      PROVE  Kept
  BY <1>5, Switching DEF Stops, On
<1>6. ASSUME NEW t \in Term, NEW i \in Inst, Use(t, i)
      PROVE  Kept
  BY <1>1, <1>6 DEF Use, host
<1>7. ASSUME NEW t \in Term, NEW i \in Inst, NEW s \in Setting[i], Create(t, i, s)
      PROVE  Kept
  BY <1>1, <1>7 DEF Create, host
<1>8. ASSUME NEW t \in Term, NEW s \in Setting[Target], Apply(t, s)
      PROVE  Kept
  BY <1>1, <1>8 DEF Apply, host
<1>9. ASSUME NEW t \in Term, NEW s \in Setting[Target], Destroy(t, s)
      PROVE  Kept
  BY <1>1, <1>9 DEF Destroy, host
<1>10. ASSUME NEW t \in Term, NEW s \in Setting[Target], BeginRestore(t, s)
      PROVE  Kept
  BY <1>1, <1>10 DEF BeginRestore, host
<1>11. ASSUME NEW t \in Term, NEW s \in Setting[Target], NEW force \in BOOLEAN,
             NEW until \in {"provision", "apply"}, All(t, s, force, until)
      PROVE  Kept
  BY <1>1, <1>11 DEF All, host
<1>12. ASSUME NEW t \in Term, BeginProvision(t)
      PROVE  Kept
  BY <1>1, <1>12 DEF BeginProvision, host
<1>13. ASSUME NEW t \in Term, SSHAnswers(t)
      PROVE  Kept
  BY <1>1, <1>13 DEF SSHAnswers, host
<1>14. ASSUME NEW t \in Term, SSHTimesOut(t)
      PROVE  Kept
  BY <1>1, <1>14 DEF SSHTimesOut, host
<1>15. ASSUME NEW t \in Term, MarkProvision(t)
      PROVE  Kept
  BY <1>1, <1>15 DEF MarkProvision, host
<1>16. ASSUME NEW t \in Term, EndProvision(t)
      PROVE  Kept
  BY <1>1, <1>16 DEF EndProvision, host
<1>17. ASSUME NEW t \in Term, BeginApply(t)
      PROVE  Kept
  BY <1>1, <1>17 DEF BeginApply, host
<1>18. ASSUME NEW t \in Term, RunPlaybooks(t)
      PROVE  Kept
  BY <1>1, <1>18 DEF RunPlaybooks, host
<1>19. ASSUME NEW t \in Term, MarkApply(t)
      PROVE  Kept
  BY <1>1, <1>19 DEF MarkApply, host
<1>20. ASSUME NEW t \in Term, UnlinkState(t)
      PROVE  Kept
  BY <1>1, <1>20 DEF UnlinkState, host
<1>21. ASSUME NEW t \in Term, Raise(t)
      PROVE  Kept
  BY <1>1, <1>21 DEF Raise, host
<1>22. ASSUME NEW t \in Term, Confirm(t)
      PROVE  Kept
  BY <1>1, <1>22 DEF Confirm, host
<1>23. ASSUME NEW t \in Term, Die(t)
      PROVE  Kept
  BY <1>1, <1>23 DEF Die, host
<1>24. ASSUME NEW t \in Term, PrepareMedia(t)
      PROVE  Kept
  BY <1>1, <1>24 DEF PrepareMedia
<1>25. ASSUME NEW t \in Term, AttachMedia(t)
      PROVE  Kept
  BY <1>25, Driven DEF AttachMedia
<1>26. ASSUME NEW t \in Term, UnlinkFiles(t)
      PROVE  Kept
  BY <1>1, <1>26 DEF UnlinkFiles
<1>27. CASE UNCHANGED vars
  BY <1>1, <1>27 DEF vars, host
<1>28. QED
  BY <1>2, <1>3, <1>4, <1>5, <1>6, <1>7, <1>8, <1>9, <1>10, <1>11, <1>12, <1>13,
     <1>14, <1>15, <1>16, <1>17, <1>18, <1>19, <1>20, <1>21, <1>22, <1>23, <1>24, <1>25, <1>26, <1>27
  DEF Next, Begin, Step, ProvisionStep, ApplyStep, DestroyStep

\* Only mark_phase_done makes a provision phase, or changes what it says.
RecordKept ==
  \A i \in Inst :
    "provision" \in done'[i] => "provision" \in done[i] /\ info'[i] = info[i]

LEMMA RecordFrame ==
  ASSUME Types, [Next]_vars
  PROVE  RecordKept \/ \E t \in Term : MarkProvision(t)
<1> USE DEF Types
<1>1. ASSUME done' = done, info' = info
      PROVE  RecordKept
  BY <1>1 DEF RecordKept
<1>2. ASSUME NEW t \in Term, NEW s \in Setting[Target], NEW force \in BOOLEAN,
             NEW until \in {"provision", "apply"}, All(t, s, force, until)
      PROVE  RecordKept
  BY <1>2, TargetType DEF All, RecordKept, HostOK
<1>3. ASSUME NEW t \in Term, EndProvision(t)
      PROVE  RecordKept
  BY <1>3, FieldTypes DEF EndProvision, At, RecordKept, HostOK
<1>4. ASSUME NEW t \in Term, MarkApply(t)
      PROVE  RecordKept
  BY <1>4, FieldTypes DEF MarkApply, At, RecordKept, HostOK
<1>5. ASSUME NEW t \in Term, UnlinkState(t)
      PROVE  RecordKept
  BY <1>5, FieldTypes DEF UnlinkState, At, RecordKept, HostOK
<1>6. ASSUME NEW t \in Term, NEW i \in Inst, Use(t, i)
      PROVE  RecordKept
  BY <1>1, <1>6 DEF Use, host, record
<1>7. ASSUME NEW t \in Term, NEW i \in Inst, Start(t, i)
      PROVE  RecordKept
  BY <1>1, <1>7 DEF Start, host, record
<1>8. ASSUME NEW t \in Term, NEW i \in Inst, NEW s \in Setting[i], Create(t, i, s)
      PROVE  RecordKept
  BY <1>1, <1>8 DEF Create, host, record
<1>9. ASSUME NEW t \in Term, Snapshot(t)
      PROVE  RecordKept
  BY <1>1, <1>9 DEF Snapshot, host, record
<1>10. ASSUME NEW t \in Term, NEW s \in Setting[Target], Apply(t, s)
      PROVE  RecordKept
  BY <1>1, <1>10 DEF Apply, host, record
<1>11. ASSUME NEW t \in Term, NEW s \in Setting[Target], Destroy(t, s)
      PROVE  RecordKept
  BY <1>1, <1>11 DEF Destroy, host, record
<1>12. ASSUME NEW t \in Term, NEW s \in Setting[Target], BeginRestore(t, s)
      PROVE  RecordKept
  BY <1>1, <1>12 DEF BeginRestore, host, record
<1>13. ASSUME NEW t \in Term, BeginProvision(t)
      PROVE  RecordKept
  BY <1>1, <1>13 DEF BeginProvision, host, record
<1>14. ASSUME NEW t \in Term, CreateVM(t)
      PROVE  RecordKept
  BY <1>1, <1>14 DEF CreateVM, host, record
<1>15. ASSUME NEW t \in Term, ConfigureVM(t)
      PROVE  RecordKept
  BY <1>1, <1>15 DEF ConfigureVM, host, record
<1>16. ASSUME NEW t \in Term, CreateDisk(t)
      PROVE  RecordKept
  BY <1>1, <1>16 DEF CreateDisk, host, record
<1>17. ASSUME NEW t \in Term, AttachDisk(t)
      PROVE  RecordKept
  BY <1>1, <1>17 DEF AttachDisk, host, record
<1>18. ASSUME NEW t \in Term, StartVM(t)
      PROVE  RecordKept
  BY <1>1, <1>18 DEF StartVM, host, record
<1>19. ASSUME NEW t \in Term, SSHAnswers(t)
      PROVE  RecordKept
  BY <1>1, <1>19 DEF SSHAnswers, host, record
<1>20. ASSUME NEW t \in Term, SSHTimesOut(t)
      PROVE  RecordKept
  BY <1>1, <1>20 DEF SSHTimesOut, host, record
<1>21. ASSUME NEW t \in Term, BeginApply(t)
      PROVE  RecordKept
  BY <1>1, <1>21 DEF BeginApply, host, record
<1>22. ASSUME NEW t \in Term, RunPlaybooks(t)
      PROVE  RecordKept
  BY <1>1, <1>22 DEF RunPlaybooks, host, record
<1>23. ASSUME NEW t \in Term, PowerOff(t)
      PROVE  RecordKept
  BY <1>1, <1>23 DEF PowerOff, host, record
<1>24. ASSUME NEW t \in Term, Unregister(t)
      PROVE  RecordKept
  BY <1>1, <1>24 DEF Unregister, host, record
<1>25. ASSUME NEW t \in Term, UnlinkPrimary(t)
      PROVE  RecordKept
  BY <1>1, <1>25 DEF UnlinkPrimary, host, record
<1>26. ASSUME NEW t \in Term, UnlinkData(t)
      PROVE  RecordKept
  BY <1>1, <1>26 DEF UnlinkData, host, record
<1>27. ASSUME NEW t \in Term, RestoreSnapshot(t)
      PROVE  RecordKept
  BY <1>1, <1>27 DEF RestoreSnapshot, host, record
<1>28. ASSUME NEW t \in Term, Raise(t)
      PROVE  RecordKept
  BY <1>1, <1>28 DEF Raise, host, record
<1>29. ASSUME NEW t \in Term, Confirm(t)
      PROVE  RecordKept
  BY <1>1, <1>29 DEF Confirm, host, record
<1>30. ASSUME NEW t \in Term, Die(t)
      PROVE  RecordKept
  BY <1>1, <1>30 DEF Die, host, record
<1>31. ASSUME NEW i \in Inst, Stops(i)
      PROVE  RecordKept
  BY <1>1, <1>31 DEF Stops, host, record
<1>32. ASSUME NEW i \in Inst, Installs(i)
      PROVE  RecordKept
  BY <1>1, <1>32 DEF Installs, host, record
<1>33. ASSUME NEW t \in Term, PrepareMedia(t)
      PROVE  RecordKept
  BY <1>1, <1>33 DEF PrepareMedia, record
<1>34. ASSUME NEW t \in Term, AttachMedia(t)
      PROVE  RecordKept
  BY <1>1, <1>34 DEF AttachMedia, record
<1>35. ASSUME NEW t \in Term, UnlinkFiles(t)
      PROVE  RecordKept
  BY <1>1, <1>35 DEF UnlinkFiles, record
<1>36. CASE UNCHANGED vars
  BY <1>1, <1>36 DEF vars, host, record
<1>37. QED
  BY <1>2, <1>3, <1>4, <1>5, <1>6, <1>7, <1>8, <1>9, <1>10, <1>11, <1>12, <1>13,
     <1>14, <1>15, <1>16, <1>17, <1>18, <1>19, <1>20, <1>21, <1>22, <1>23, <1>24, <1>25,
     <1>26, <1>27, <1>28, <1>29, <1>30, <1>31, <1>32, <1>33, <1>34, <1>35, <1>36
  DEF Next, Begin, Step, ProvisionStep, ApplyStep, DestroyStep

\* The pointer moves only while no command runs, in the one terminal there is.
LEMMA PointerFrame ==
  ASSUME OneTerminal, NEW t \in Term, Busy(t), [Next]_vars
  PROVE  pointer' = pointer
<1>1. ASSUME NEW u \in Term, NEW i \in Inst, Use(u, i)
      PROVE  FALSE
  BY <1>1 DEF Use, OneTerminal
<1>2. ASSUME NEW u \in Term, NEW i \in Inst, NEW s \in Setting[i], Create(u, i, s)
      PROVE  FALSE
  BY <1>2 DEF Create, OneTerminal
<1>3. ASSUME NEW u \in Term, NEW i \in Inst, Start(u, i)
      PROVE  pointer' = pointer
  BY <1>3 DEF Start, host
<1>4. ASSUME NEW u \in Term, Snapshot(u)
      PROVE  pointer' = pointer
  BY <1>4 DEF Snapshot, host
<1>5. ASSUME NEW u \in Term, NEW s \in Setting[Target], Apply(u, s)
      PROVE  pointer' = pointer
  BY <1>5 DEF Apply, host
<1>6. ASSUME NEW u \in Term, NEW s \in Setting[Target], Destroy(u, s)
      PROVE  pointer' = pointer
  BY <1>6 DEF Destroy, host
<1>7. ASSUME NEW u \in Term, NEW s \in Setting[Target], BeginRestore(u, s)
      PROVE  pointer' = pointer
  BY <1>7 DEF BeginRestore, host
<1>8. ASSUME NEW u \in Term, NEW s \in Setting[Target], NEW force \in BOOLEAN,
             NEW until \in {"provision", "apply"}, All(u, s, force, until)
      PROVE  pointer' = pointer
  BY <1>8 DEF All, host
<1>9. ASSUME NEW u \in Term, BeginProvision(u)
      PROVE  pointer' = pointer
  BY <1>9 DEF BeginProvision, host
<1>10. ASSUME NEW u \in Term, CreateVM(u)
      PROVE  pointer' = pointer
  BY <1>10 DEF CreateVM, host
<1>11. ASSUME NEW u \in Term, ConfigureVM(u)
      PROVE  pointer' = pointer
  BY <1>11 DEF ConfigureVM, host
<1>12. ASSUME NEW u \in Term, CreateDisk(u)
      PROVE  pointer' = pointer
  BY <1>12 DEF CreateDisk, host
<1>13. ASSUME NEW u \in Term, AttachDisk(u)
      PROVE  pointer' = pointer
  BY <1>13 DEF AttachDisk, host
<1>14. ASSUME NEW u \in Term, StartVM(u)
      PROVE  pointer' = pointer
  BY <1>14 DEF StartVM, host
<1>15. ASSUME NEW u \in Term, SSHAnswers(u)
      PROVE  pointer' = pointer
  BY <1>15 DEF SSHAnswers, host
<1>16. ASSUME NEW u \in Term, SSHTimesOut(u)
      PROVE  pointer' = pointer
  BY <1>16 DEF SSHTimesOut, host
<1>17. ASSUME NEW u \in Term, MarkProvision(u)
      PROVE  pointer' = pointer
  BY <1>17 DEF MarkProvision, host
<1>18. ASSUME NEW u \in Term, EndProvision(u)
      PROVE  pointer' = pointer
  BY <1>18 DEF EndProvision, host
<1>19. ASSUME NEW u \in Term, BeginApply(u)
      PROVE  pointer' = pointer
  BY <1>19 DEF BeginApply, host
<1>20. ASSUME NEW u \in Term, RunPlaybooks(u)
      PROVE  pointer' = pointer
  BY <1>20 DEF RunPlaybooks, host
<1>21. ASSUME NEW u \in Term, MarkApply(u)
      PROVE  pointer' = pointer
  BY <1>21 DEF MarkApply, host
<1>22. ASSUME NEW u \in Term, PowerOff(u)
      PROVE  pointer' = pointer
  BY <1>22 DEF PowerOff, host
<1>23. ASSUME NEW u \in Term, Unregister(u)
      PROVE  pointer' = pointer
  BY <1>23 DEF Unregister, host
<1>24. ASSUME NEW u \in Term, UnlinkPrimary(u)
      PROVE  pointer' = pointer
  BY <1>24 DEF UnlinkPrimary, host
<1>25. ASSUME NEW u \in Term, UnlinkState(u)
      PROVE  pointer' = pointer
  BY <1>25 DEF UnlinkState, host
<1>26. ASSUME NEW u \in Term, UnlinkData(u)
      PROVE  pointer' = pointer
  BY <1>26 DEF UnlinkData, host
<1>27. ASSUME NEW u \in Term, RestoreSnapshot(u)
      PROVE  pointer' = pointer
  BY <1>27 DEF RestoreSnapshot, host
<1>28. ASSUME NEW u \in Term, Raise(u)
      PROVE  pointer' = pointer
  BY <1>28 DEF Raise, host
<1>29. ASSUME NEW u \in Term, Confirm(u)
      PROVE  pointer' = pointer
  BY <1>29 DEF Confirm, host
<1>30. ASSUME NEW u \in Term, Die(u)
      PROVE  pointer' = pointer
  BY <1>30 DEF Die, host
<1>31. ASSUME NEW i \in Inst, Stops(i)
      PROVE  pointer' = pointer
  BY <1>31 DEF Stops, host
<1>32. ASSUME NEW i \in Inst, Installs(i)
      PROVE  pointer' = pointer
  BY <1>32 DEF Installs, host
<1>33. ASSUME NEW u \in Term, PrepareMedia(u)
      PROVE  pointer' = pointer
  BY <1>33 DEF PrepareMedia
<1>34. ASSUME NEW u \in Term, AttachMedia(u)
      PROVE  pointer' = pointer
  BY <1>34 DEF AttachMedia
<1>35. ASSUME NEW u \in Term, UnlinkFiles(u)
      PROVE  pointer' = pointer
  BY <1>35 DEF UnlinkFiles
<1>36. CASE UNCHANGED vars
  BY <1>36 DEF vars, host
<1>37. QED
  BY <1>1, <1>2, <1>3, <1>4, <1>5, <1>6, <1>7, <1>8, <1>9, <1>10, <1>11, <1>12,
     <1>13, <1>14, <1>15, <1>16, <1>17, <1>18, <1>19, <1>20, <1>21, <1>22, <1>23, <1>24,
     <1>25, <1>26, <1>27, <1>28, <1>29, <1>30, <1>31, <1>32, <1>33, <1>34, <1>35, <1>36
  DEF Next, Begin, Step, ProvisionStep, ApplyStep, DestroyStep

\* A snapshot is made by `snapshot` only, a VM by `createvm` or a restore.
LEMMA SnapshotFrame ==
  ASSUME Types, [Next]_vars
  PROVE  \/ \E t \in Term : Snapshot(t)
         \/ \A i \in Inst : snapshots'[i] \subseteq snapshots[i]
<1> USE DEF Types
<1>1. ASSUME NEW t \in Term, Unregister(t)
      PROVE  \A i \in Inst : snapshots'[i] \subseteq snapshots[i]
  BY <1>1, FieldTypes DEF Unregister, At, Delete, HostOK
<1>2. ASSUME NEW i \in Inst, Installs(i)
      PROVE  snapshots' = snapshots
  BY <1>2 DEF Installs
<1>3. ASSUME NEW t \in Term,
             CreateVM(t) \/ ConfigureVM(t) \/ CreateDisk(t) \/ AttachDisk(t)
               \/ UnlinkPrimary(t) \/ UnlinkData(t) \/ RestoreSnapshot(t)
      PROVE  snapshots' = snapshots
  BY <1>3 DEF CreateVM, ConfigureVM, CreateDisk, AttachDisk, UnlinkPrimary, UnlinkData,
     RestoreSnapshot
<1>4. SameMachines => snapshots' = snapshots
  BY DEF SameMachines
<1>5. QED
  BY <1>1, <1>2, <1>3, <1>4, MachineFrame

LEMMA AppearFrame ==
  ASSUME Types, [Next]_vars, NEW i \in Inst, vm[i] = NoVM, vm'[i] # NoVM
  PROVE  \E t \in Term : (CreateVM(t) \/ RestoreSnapshot(t)) /\ cmd[t].inst = i
<1> USE DEF Types
<1>1. ~SameMachines
  BY DEF SameMachines
<1>2. ASSUME NEW j \in Inst, Installs(j)
      PROVE  FALSE
  BY <1>2 DEF Installs
<1>3. ASSUME NEW t \in Term,
             CreateDisk(t) \/ UnlinkPrimary(t) \/ UnlinkData(t) \/ Snapshot(t)
      PROVE  FALSE
  BY <1>3 DEF CreateDisk, UnlinkPrimary, UnlinkData, Snapshot
<1>4. ASSUME NEW t \in Term, ConfigureVM(t)
      PROVE  FALSE
  BY <1>4, FieldTypes DEF ConfigureVM, At, Off, HostOK, VMOK
<1>5. ASSUME NEW t \in Term, AttachDisk(t)
      PROVE  FALSE
  BY <1>5, AttachedVMs, NullAssumption DEF HostOK, VMOK
<1>6. ASSUME NEW t \in Term, Unregister(t)
      PROVE  FALSE
  BY <1>6, FieldTypes DEF Unregister, At, Delete, HostOK, VMOK
<1>7. ASSUME NEW t \in Term, CreateVM(t) \/ RestoreSnapshot(t)
      PROVE  cmd[t].inst = i
  BY <1>7, FieldTypes DEF CreateVM, RestoreSnapshot, At, HostOK, VMOK
<1>8. QED
  BY <1>1, <1>2, <1>3, <1>4, <1>5, <1>6, <1>7, MachineFrame

-----------------------------------------------------------------------------
(* Snapshots, and what the record says of a running provision              *)

\* A VM and its snapshots have their images; no VM, no snapshot.
Whole ==
  \A i \in Inst :
    /\ vm[i] # NoVM => Carried(vm[i]) \subseteq disks[i]
    /\ vm[i] = NoVM => snapshots[i] = {}
    /\ \A s \in snapshots[i] :
         Carried(s.vm) \subseteq disks[i] /\ (s.installed => 0 \in disks[i])

\* Past the unregister the VM is gone.
Gone ==
  \A t \in Term :
    Busy(t) /\ cmd[t].pc \in {"primary", "files", "state", "data"} => vm[cmd[t].inst] = NoVM

LEMMA WholeStep ==
  ASSUME Types, Whole, Gone, [Next]_vars
  PROVE  Whole'
<1> USE DEF Types
<1>1. CASE SameMachines
  BY <1>1 DEF SameMachines, Whole, Carried
<1>2. ASSUME NEW i \in Inst, Installs(i)
      PROVE  Whole'
  BY <1>2 DEF Installs, Whole
<1>3. ASSUME NEW t \in Term, CreateVM(t)
      PROVE  Whole'
  BY <1>3, FieldTypes DEF CreateVM, At, Whole, NewVM, HostOK, VMOK, Carried
<1>4. ASSUME NEW t \in Term, ConfigureVM(t)
      PROVE  Whole'
  <2>1. cmd[t].inst \in Inst /\ vm[cmd[t].inst] \in Machines
    BY <1>4, FieldTypes DEF ConfigureVM, At, HostOK, VMOK, Off
  <2>2. /\ vm'[cmd[t].inst].sata = vm[cmd[t].inst].sata
        /\ \A j \in Inst \ {cmd[t].inst} : vm'[j] = vm[j]
    BY <1>4, <2>1 DEF ConfigureVM, HostOK, VMOK, Machines
  <2>3. vm[cmd[t].inst] # NoVM /\ disks' = disks /\ snapshots' = snapshots
    BY <1>4 DEF ConfigureVM, Off
  <2>4. vm'[cmd[t].inst] # NoVM
    BY <1>4, <2>1, <2>3, ConfiguredKeeps
  <2>5. QED
    BY <2>1, <2>2, <2>3, <2>4 DEF Whole, Carried
<1>5. ASSUME NEW t \in Term, CreateDisk(t)
      PROVE  Whole'
  <2>1. \A i \in Inst : disks[i] \subseteq disks'[i]
    BY <1>5, FieldTypes DEF CreateDisk, At, HostOK
  <2>2. QED
    BY <1>5, <2>1 DEF CreateDisk, Whole
<1>6. ASSUME NEW t \in Term, AttachDisk(t)
      PROVE  Whole'
  <2> DEFINE i == cmd[t].inst
             d == DiskAt(cmd[t].count, cmd[t].at)
  <2>1. i \in Inst /\ vm[i] \in Machines /\ vm[i] # NoVM /\ d \in disks[i]
    BY <1>6, AttachedVMs, NullAssumption
  <2>2. PICK m \in Machines : /\ vm' = [vm EXCEPT ![i] = m]
                              /\ m.sata = [vm[i].sata EXCEPT ![cmd[t].at] = d]
    BY <1>6, AttachedVMs
  <2>3. Carried(m) \subseteq Carried(vm[i]) \cup {d}
    BY <2>1, <2>2 DEF Carried, Machines
  <2>4. vm'[i] = m /\ \A j \in Inst \ {i} : vm'[j] = vm[j]
    BY <2>1, <2>2 DEF HostOK, VMOK
  <2>5. disks' = disks /\ snapshots' = snapshots
    BY <1>6 DEF AttachDisk
  <2>6. Carried(m) \subseteq disks[i]
    BY <2>1, <2>3 DEF Whole
  <2>7. m # NoVM
    BY <2>2, NullAssumption
  <2>8. QED
    BY <2>1, <2>4, <2>5, <2>6, <2>7 DEF Whole
<1>7. ASSUME NEW t \in Term, Unregister(t)
      PROVE  Whole'
  <2> DEFINE i == cmd[t].inst
  <2>1. i \in Inst
    BY <1>7, FieldTypes DEF Unregister, At
  <2>2. CASE vm[i] = NoVM
    BY <1>7, <2>2 DEF Unregister, Whole
  <2>3. CASE vm[i] # NoVM
    <3>1. /\ vm' = [vm EXCEPT ![i] = NoVM] /\ snapshots' = [snapshots EXCEPT ![i] = {}]
          /\ \A j \in Inst \ {i} : disks'[j] = disks[j]
      BY <1>7, <2>1, <2>3 DEF Unregister, Delete, HostOK
    <3>2. vm'[i] = NoVM /\ snapshots'[i] = {}
          /\ \A j \in Inst \ {i} : vm'[j] = vm[j] /\ snapshots'[j] = snapshots[j]
      BY <2>1, <3>1 DEF HostOK, VMOK
    <3>3. QED
      BY <3>1, <3>2 DEF Whole
  <2>4. QED
    BY <2>2, <2>3
<1>8. ASSUME NEW t \in Term, UnlinkPrimary(t)
      PROVE  Whole'
  BY <1>8, FieldTypes DEF UnlinkPrimary, At, Whole, Gone, HostOK
<1>9. ASSUME NEW t \in Term, UnlinkData(t)
      PROVE  Whole'
  BY <1>9, FieldTypes DEF UnlinkData, At, Whole, Gone, HostOK
<1>10. ASSUME NEW t \in Term, Snapshot(t)
       PROVE  Whole'
  <2>1. Target \in Inst /\ vm[Target] \in Machines /\ vm[Target] # NoVM
    BY <1>10, TargetType DEF Snapshot, HostOK, VMOK
  <2>2. Frozen(Target).vm.sata = vm[Target].sata
        /\ (Frozen(Target).installed => Target \in installed)
    BY <2>1 DEF Frozen, Machines
  <2>3. Carried(Frozen(Target).vm) \subseteq disks[Target]
        /\ (Frozen(Target).installed => 0 \in disks[Target])
    BY <2>1, <2>2 DEF Whole, Carried, HostOK
  <2>4. /\ disks' = disks /\ vm' = vm
        /\ \A j \in Inst : \A s \in snapshots'[j] :
             s \in snapshots[j] \/ (j = Target /\ s = Frozen(Target))
        /\ \A j \in Inst \ {Target} : snapshots'[j] = snapshots[j]
    BY <1>10, <2>1 DEF Snapshot, HostOK
  <2>5. QED
    BY <2>1, <2>3, <2>4 DEF Whole
<1>11. ASSUME NEW t \in Term, RestoreSnapshot(t)
       PROVE  Whole'
  <2> DEFINE i == cmd[t].inst
  <2>1. i \in Inst /\ disks' = disks /\ snapshots' = snapshots
    BY <1>11, FieldTypes DEF RestoreSnapshot, At
  <2>2. PICK s \in snapshots[i] : vm' = [vm EXCEPT ![i] = s.vm]
    BY <1>11 DEF RestoreSnapshot
  <2>3. s.vm \in Machines /\ vm'[i] = s.vm /\ \A j \in Inst \ {i} : vm'[j] = vm[j]
    BY <2>1, <2>2 DEF HostOK, VMOK, SavedStates
  <2>4. QED
    BY <2>1, <2>2, <2>3, NullAssumption DEF Whole
<1>12. QED
  BY <1>1, <1>2, <1>3, <1>4, <1>5, <1>6, <1>7, <1>8, <1>9, <1>10, <1>11, MachineFrame

\* A running command works on the instance it was asked about, which is the
\* current one, in one of its environments.
Home(t) ==
  cmd[t].inst = Target /\ cmd[t].home = Target /\ cmd[t].set \in Setting[Target]

Homes == \A t \in Term : Busy(t) => Home(t)

\* The steps by which a command goes on.
Moves(t) ==
  \/ BeginProvision(t) \/ PrepareMedia(t) \/ CreateVM(t) \/ ConfigureVM(t) \/ CreateDisk(t)
  \/ AttachDisk(t) \/ AttachMedia(t) \/ StartVM(t) \/ SSHAnswers(t) \/ MarkProvision(t)
  \/ EndProvision(t) \/ BeginApply(t) \/ RunPlaybooks(t)
  \/ Confirm(t) \/ PowerOff(t) \/ Unregister(t) \/ UnlinkPrimary(t) \/ UnlinkFiles(t)
  \/ UnlinkState(t) \/ UnlinkData(t)

\* What one terminal's running command did in the step before.
Began(t) ==
  /\ ~Busy(t)
  /\ Home(t)' /\ cmd'[t].count = CountOf(cmd'[t].set) /\ cmd'[t].at = 0
  /\ \/ cmd'[t].pc \in {"provision", "confirm"}
     \/ cmd'[t].pc = "poweroff" /\ cmd'[t].kind = "restore"
     \/ cmd'[t].pc = "playbooks" /\ inventory' = cmd'[t].set.port

Waited(t) == Busy(t) /\ cmd' = cmd /\ inventory' = inventory

LEMMA LastStep ==
  ASSUME Types, OneTerminal, NEW u \in Term, Busy(u)', [Next]_vars
  PROVE  Began(u) \/ Waited(u) \/ Moves(u)
<1> USE DEF Types
<1> DEFINE Did == Began(u) \/ Waited(u) \/ Moves(u)
<1>0. ASSUME cmd' = cmd, inventory' = inventory
      PROVE  Did
  BY <1>0 DEF Waited, Busy
<1>1. ASSUME NEW t \in Term, NEW i \in Inst, Use(t, i)
      PROVE  Did
  BY <1>0, <1>1 DEF Use, host
<1>2. ASSUME NEW t \in Term, NEW i \in Inst, Start(t, i)
      PROVE  Did
  BY <1>0, <1>2 DEF Start, host
<1>3. ASSUME NEW t \in Term, NEW i \in Inst, NEW s \in Setting[i], Create(t, i, s)
      PROVE  Did
  BY <1>3, InstAssumption DEF Create, Command, Target, OneTerminal, CmdOK, Busy, Began, Home
<1>4. ASSUME NEW t \in Term, Snapshot(t)
      PROVE  Did
  BY <1>0, <1>4 DEF Snapshot, host
<1>5. ASSUME NEW t \in Term, NEW s \in Setting[Target], Apply(t, s)
      PROVE  Did
  BY <1>5, TargetType DEF Apply, Command, Target, OneTerminal, CmdOK, Began, Home, host
<1>6. ASSUME NEW t \in Term, NEW s \in Setting[Target], Destroy(t, s)
      PROVE  Did
  BY <1>6, TargetType DEF Destroy, Command, Target, OneTerminal, CmdOK, Began, Home, host
<1>7. ASSUME NEW t \in Term, NEW s \in Setting[Target], BeginRestore(t, s)
      PROVE  Did
  BY <1>7, TargetType DEF BeginRestore, Command, Target, OneTerminal, CmdOK, Began, Home, host
<1>8. ASSUME NEW t \in Term, NEW s \in Setting[Target], NEW force \in BOOLEAN,
             NEW until \in {"provision", "apply"}, All(t, s, force, until)
      PROVE  Did
  BY <1>8, TargetType DEF All, Command, Target, OneTerminal, CmdOK, Began, Home, host
<1>9. ASSUME NEW t \in Term, BeginProvision(t)
      PROVE  Did
  BY <1>9 DEF OneTerminal, Moves
<1>10. ASSUME NEW t \in Term, CreateVM(t)
      PROVE  Did
  BY <1>10 DEF OneTerminal, Moves
<1>11. ASSUME NEW t \in Term, ConfigureVM(t)
      PROVE  Did
  BY <1>11 DEF OneTerminal, Moves
<1>12. ASSUME NEW t \in Term, CreateDisk(t)
      PROVE  Did
  BY <1>12 DEF OneTerminal, Moves
<1>13. ASSUME NEW t \in Term, AttachDisk(t)
      PROVE  Did
  BY <1>13 DEF OneTerminal, Moves
<1>14. ASSUME NEW t \in Term, StartVM(t)
      PROVE  Did
  BY <1>14 DEF OneTerminal, Moves
<1>15. ASSUME NEW t \in Term, SSHAnswers(t)
      PROVE  Did
  BY <1>15 DEF OneTerminal, Moves
<1>16. ASSUME NEW t \in Term, SSHTimesOut(t)
      PROVE  Did
  BY <1>16 DEF SSHTimesOut, End, OneTerminal, Busy, CmdOK
<1>17. ASSUME NEW t \in Term, MarkProvision(t)
      PROVE  Did
  BY <1>17 DEF OneTerminal, Moves
<1>18. ASSUME NEW t \in Term, EndProvision(t)
      PROVE  Did
  BY <1>18 DEF OneTerminal, Moves
<1>19. ASSUME NEW t \in Term, BeginApply(t)
      PROVE  Did
  BY <1>19 DEF OneTerminal, Moves
<1>20. ASSUME NEW t \in Term, RunPlaybooks(t)
      PROVE  Did
  BY <1>20 DEF OneTerminal, Moves
<1>21. ASSUME NEW t \in Term, MarkApply(t)
      PROVE  Did
  BY <1>21 DEF MarkApply, End, OneTerminal, Busy, CmdOK
<1>22. ASSUME NEW t \in Term, PowerOff(t)
      PROVE  Did
  BY <1>22 DEF OneTerminal, Moves
<1>23. ASSUME NEW t \in Term, Unregister(t)
      PROVE  Did
  BY <1>23 DEF OneTerminal, Moves
<1>24. ASSUME NEW t \in Term, UnlinkPrimary(t)
      PROVE  Did
  BY <1>24 DEF OneTerminal, Moves
<1>25. ASSUME NEW t \in Term, UnlinkState(t)
      PROVE  Did
  BY <1>25 DEF OneTerminal, Moves
<1>26. ASSUME NEW t \in Term, UnlinkData(t)
      PROVE  Did
  BY <1>26 DEF OneTerminal, Moves
<1>27. ASSUME NEW t \in Term, RestoreSnapshot(t)
      PROVE  Did
  BY <1>27 DEF RestoreSnapshot, End, OneTerminal, Busy, CmdOK
<1>28. ASSUME NEW t \in Term, Raise(t)
      PROVE  Did
  BY <1>28 DEF Raise, End, OneTerminal, Busy, CmdOK
<1>29. ASSUME NEW t \in Term, Confirm(t)
      PROVE  Did
  BY <1>29 DEF OneTerminal, Moves
<1>30. ASSUME NEW t \in Term, Die(t)
      PROVE  Did
  BY <1>30 DEF Die, End, OneTerminal, Busy, CmdOK
<1>31. ASSUME NEW i \in Inst, Stops(i)
      PROVE  Did
  BY <1>0, <1>31 DEF Stops, host
<1>32. ASSUME NEW i \in Inst, Installs(i)
      PROVE  Did
  BY <1>0, <1>32 DEF Installs, host
<1>33. ASSUME NEW t \in Term, PrepareMedia(t)
      PROVE  Did
  BY <1>33 DEF OneTerminal, Moves
<1>34. ASSUME NEW t \in Term, AttachMedia(t)
      PROVE  Did
  BY <1>34 DEF OneTerminal, Moves
<1>35. ASSUME NEW t \in Term, UnlinkFiles(t)
      PROVE  Did
  BY <1>35 DEF OneTerminal, Moves
<1>36. CASE UNCHANGED vars
  BY <1>0, <1>36 DEF vars, host
<1>37. QED
  BY <1>1, <1>2, <1>3, <1>4, <1>5, <1>6, <1>7, <1>8, <1>9, <1>10, <1>11, <1>12,
     <1>13, <1>14, <1>15, <1>16, <1>17, <1>18, <1>19, <1>20, <1>21, <1>22, <1>23, <1>24,
     <1>25, <1>26, <1>27, <1>28, <1>29, <1>30, <1>31, <1>32, <1>33, <1>34, <1>35, <1>36
  DEF Next, Begin, Step, ProvisionStep, ApplyStep, DestroyStep

\* Where it goes on to; it keeps its instance, environment and count, but for
\* the steps that load the configuration or read the record.
Reads(t) ==
  cmd'[t].home = cmd[t].home /\ cmd'[t].set = cmd[t].set /\ cmd'[t].kind = cmd[t].kind

Same(t) == Reads(t) /\ cmd'[t].inst = cmd[t].inst /\ cmd'[t].count = cmd[t].count

LEMMA Goes ==
  ASSUME CmdOK, NEW u \in Term, Busy(u)'
  PROVE  /\ BeginProvision(u) => At(u, "provision") /\ Reads(u)
                       /\ cmd'[u].inst = Target /\ cmd'[u].count = cmd[u].count
                       /\ cmd'[u].pc = IF "provision" \in done[Target] THEN "provisioned"
                                                                      ELSE "media"
         /\ PrepareMedia(u) => At(u, "media") /\ Same(u) /\ cmd'[u].pc = "createvm"
         /\ CreateVM(u) => At(u, "createvm") /\ Same(u) /\ cmd'[u].pc = "configure"
         /\ ConfigureVM(u) => At(u, "configure") /\ Same(u) /\ cmd'[u].pc = "disks"
         /\ CreateDisk(u) => At(u, "disks") /\ Same(u) /\ cmd'[u].pc \in {"disks", "attach"}
         /\ AttachDisk(u) => At(u, "attach") /\ Same(u) /\ cmd'[u].pc = "attach"
                       /\ cmd'[u].at = cmd[u].at + 1
         /\ AttachMedia(u) => At(u, "attach") /\ Same(u) /\ cmd'[u].pc = "start"
         /\ StartVM(u) => At(u, "start") /\ Same(u) /\ cmd'[u].pc \in {"wait", "mark"}
         /\ SSHAnswers(u) => At(u, "wait") /\ Same(u) /\ cmd'[u].pc = "mark"
         /\ MarkProvision(u) => At(u, "mark") /\ Same(u) /\ cmd'[u].pc = "provisioned"
         /\ EndProvision(u) => At(u, "provisioned") /\ Same(u) /\ cmd'[u].pc = "apply"
         /\ BeginApply(u) => At(u, "apply") /\ Reads(u)
                       /\ cmd'[u].inst = Target /\ cmd'[u].count = cmd[u].count
                       /\ cmd'[u].pc = "playbooks" /\ inventory' = cmd[u].set.port
         /\ RunPlaybooks(u) => At(u, "playbooks") /\ Same(u) /\ cmd'[u].pc = "markapply"
         /\ Confirm(u) => At(u, "confirm") /\ Reads(u) /\ cmd'[u].pc = "poweroff"
                       /\ cmd'[u].inst = cmd[u].inst
                       /\ cmd'[u].count = DestroyCount(cmd[u].inst, cmd[u].set)
         /\ PowerOff(u) => At(u, "poweroff") /\ Same(u) /\ cmd'[u].pc = cmd[u].kind
                        /\ cmd[u].kind \in {"destroy", "restore"}
         /\ Unregister(u) => At(u, "destroy") /\ Same(u) /\ cmd'[u].pc = "primary"
         /\ UnlinkPrimary(u) => At(u, "primary") /\ Same(u) /\ cmd'[u].pc = "files"
         /\ UnlinkFiles(u) => At(u, "files") /\ Same(u) /\ cmd'[u].pc = "state"
         /\ UnlinkState(u) => At(u, "state") /\ Same(u) /\ cmd'[u].pc = "data"
         /\ UnlinkData(u) => At(u, "data") /\ Same(u) /\ cmd'[u].pc = "data"
<1>1. BeginProvision(u) => At(u, "provision") /\ Reads(u)
                /\ cmd'[u].inst = Target /\ cmd'[u].count = cmd[u].count
                /\ cmd'[u].pc = IF "provision" \in done[Target] THEN "provisioned"
                                                               ELSE "media"
  BY DEF BeginProvision, At, Busy, Same, Reads, CmdOK, Commands
<1>2. CreateVM(u) => At(u, "createvm") /\ Same(u) /\ cmd'[u].pc = "configure"
  BY DEF CreateVM, At, Busy, Goto, Same, Reads, CmdOK, Commands
<1>3. ConfigureVM(u) => At(u, "configure") /\ Same(u) /\ cmd'[u].pc = "disks"
  BY DEF ConfigureVM, At, Busy, Goto, Same, Reads, CmdOK, Commands
<1>4. CreateDisk(u) => At(u, "disks") /\ Same(u) /\ cmd'[u].pc \in {"disks", "attach"}
  BY DEF CreateDisk, At, Busy, Goto, Same, Reads, CmdOK, Commands
<1>5. AttachDisk(u) => At(u, "attach") /\ Same(u) /\ cmd'[u].pc = "attach"
                       /\ cmd'[u].at = cmd[u].at + 1
  BY DEF AttachDisk, At, Busy, Goto, Same, Reads, CmdOK, Commands
<1>6. StartVM(u) => At(u, "start") /\ Same(u) /\ cmd'[u].pc \in {"wait", "mark"}
  BY DEF StartVM, At, Busy, Goto, Same, Reads, CmdOK, Commands
<1>7. SSHAnswers(u) => At(u, "wait") /\ Same(u) /\ cmd'[u].pc = "mark"
  BY DEF SSHAnswers, At, Busy, Goto, Same, Reads, CmdOK, Commands
<1>8. MarkProvision(u) => At(u, "mark") /\ Same(u) /\ cmd'[u].pc = "provisioned"
  BY DEF MarkProvision, At, Busy, Goto, Same, Reads, CmdOK, Commands
<1>9. EndProvision(u) => At(u, "provisioned") /\ Same(u) /\ cmd'[u].pc = "apply"
  BY DEF EndProvision, At, Busy, Goto, End, Same, Reads, CmdOK, Commands
<1>10. BeginApply(u) => At(u, "apply") /\ Reads(u)
                /\ cmd'[u].inst = Target /\ cmd'[u].count = cmd[u].count
                /\ cmd'[u].pc = "playbooks" /\ inventory' = cmd[u].set.port
  BY DEF BeginApply, At, Busy, Same, Reads, CmdOK, Commands
<1>11. RunPlaybooks(u) => At(u, "playbooks") /\ Same(u) /\ cmd'[u].pc = "markapply"
  BY DEF RunPlaybooks, At, Busy, Goto, Same, Reads, CmdOK, Commands
<1>12. Confirm(u) => At(u, "confirm") /\ Reads(u) /\ cmd'[u].pc = "poweroff"
                /\ cmd'[u].inst = cmd[u].inst
                /\ cmd'[u].count = DestroyCount(cmd[u].inst, cmd[u].set)
  BY DEF Confirm, At, Busy, Same, Reads, CmdOK, Commands
<1>13. PowerOff(u) => At(u, "poweroff") /\ Same(u) /\ cmd'[u].pc = cmd[u].kind
                 /\ cmd[u].kind \in {"destroy", "restore"}
  BY DEF PowerOff, At, Busy, Goto, Same, Reads, CmdOK, Commands, Course, Pipeline, Removal
<1>14. Unregister(u) => At(u, "destroy") /\ Same(u) /\ cmd'[u].pc = "primary"
  BY DEF Unregister, At, Busy, Goto, Same, Reads, CmdOK, Commands
<1>15. UnlinkPrimary(u) => At(u, "primary") /\ Same(u) /\ cmd'[u].pc = "files"
  BY DEF UnlinkPrimary, At, Busy, Goto, Same, Reads, CmdOK, Commands
<1>16. UnlinkState(u) => At(u, "state") /\ Same(u) /\ cmd'[u].pc = "data"
  BY DEF UnlinkState, At, Busy, Goto, Same, Reads, CmdOK, Commands
<1>17. UnlinkData(u) => At(u, "data") /\ Same(u) /\ cmd'[u].pc = "data"
  BY DEF UnlinkData, At, Busy, Goto, End, Same, Reads, CmdOK, Commands
<1>18. PrepareMedia(u) => At(u, "media") /\ Same(u) /\ cmd'[u].pc = "createvm"
  BY DEF PrepareMedia, At, Busy, Goto, Same, Reads, CmdOK, Commands
<1>19. AttachMedia(u) => At(u, "attach") /\ Same(u) /\ cmd'[u].pc = "start"
  BY DEF AttachMedia, At, Busy, Goto, Same, Reads, CmdOK, Commands
<1>20. UnlinkFiles(u) => At(u, "files") /\ Same(u) /\ cmd'[u].pc = "state"
  BY DEF UnlinkFiles, At, Busy, Goto, Same, Reads, CmdOK, Commands
<1>21. QED
  BY <1>1, <1>2, <1>3, <1>4, <1>5, <1>6, <1>7, <1>8, <1>9, <1>10, <1>11, <1>12,
     <1>13, <1>14, <1>15, <1>16, <1>17, <1>18, <1>19, <1>20

LEMMA HomeStep ==
  ASSUME Types, Homes, OneTerminal, [Next]_vars
  PROVE  Homes'
<1> USE DEF Types
<1>1. SUFFICES ASSUME NEW u \in Term, Busy(u)'
               PROVE  Home(u)'
  BY DEF Homes
<1>2. CASE Began(u)
  BY <1>2 DEF Began
<1>3. CASE Waited(u)
  BY <1>3, PointerFrame DEF Waited, Homes, Home, Target
<1>4. CASE Moves(u)
  <2>1. Busy(u)
    BY <1>1, <1>4, Goes DEF Moves, At
  <2>2. Home(u) /\ Target' = Target /\ cmd[u] \in Commands
    BY <2>1, PointerFrame DEF Homes, Target, CmdOK, Busy
  <2>3. CASE Same(u)
    BY <2>2, <2>3 DEF Same, Reads, Home
  <2>4. CASE Confirm(u) \/ BeginProvision(u) \/ BeginApply(u)
    BY <1>1, <2>2, <2>4, Goes DEF Home, Reads
  <2>5. QED
    BY <1>1, <1>4, <2>3, <2>4, Goes DEF Moves
<1>5. QED
  BY <1>1, <1>2, <1>3, <1>4, LastStep

LEMMA GoneStep ==
  ASSUME Types, Gone, OneTerminal, [Next]_vars
  PROVE  Gone'
<1> USE DEF Types
<1> DEFINE Late == {"primary", "files", "state", "data"}
<1>1. SUFFICES ASSUME NEW u \in Term, Busy(u)', cmd'[u].pc \in Late
               PROVE  vm'[cmd'[u].inst] = NoVM
  BY DEF Gone
<1>2. CASE Unregister(u)
  <2>1. Busy(u) /\ cmd'[u].inst = cmd[u].inst /\ cmd[u].inst \in Inst
    BY <1>1, <1>2, Goes, FieldTypes DEF At, Same
  <2>2. QED
    BY <1>2, <2>1 DEF Unregister, Delete, HostOK, VMOK
<1>3. CASE UnlinkPrimary(u) \/ UnlinkFiles(u) \/ UnlinkState(u) \/ UnlinkData(u)
  <2>1. Busy(u) /\ cmd[u].pc \in Late /\ cmd'[u].inst = cmd[u].inst
    BY <1>1, <1>3, Goes DEF At, Same
  <2>2. vm' = vm
    BY <1>3 DEF UnlinkPrimary, UnlinkFiles, UnlinkState, UnlinkData
  <2>3. QED
    BY <2>1, <2>2 DEF Gone
<1>4. CASE Waited(u)
  <2>1. Busy(u) /\ cmd' = cmd /\ cmd[u].pc \in Late /\ cmd[u].inst \in Inst
    BY <1>1, <1>4, FieldTypes DEF Waited
  <2>2. vm[cmd[u].inst] = NoVM
    BY <2>1 DEF Gone
  <2>3. CASE SameMachines
    BY <2>1, <2>2, <2>3 DEF SameMachines
  <2>4. ASSUME NEW i \in Inst, Installs(i)
        PROVE  vm' = vm
    BY <2>4 DEF Installs
  <2>5. ASSUME NEW t \in Term,
               CreateVM(t) \/ ConfigureVM(t) \/ CreateDisk(t) \/ AttachDisk(t)
                 \/ Unregister(t) \/ Snapshot(t) \/ RestoreSnapshot(t)
        PROVE  FALSE
    BY <2>1, <2>5 DEF CreateVM, ConfigureVM, CreateDisk, AttachDisk, Unregister, Snapshot,
       RestoreSnapshot, At, OneTerminal
  <2>6. ASSUME NEW t \in Term, UnlinkPrimary(t) \/ UnlinkData(t)
        PROVE  vm' = vm
    BY <2>6 DEF UnlinkPrimary, UnlinkData
  <2>7. QED
    BY <2>1, <2>2, <2>3, <2>4, <2>5, <2>6, MachineFrame
<1>5. ASSUME Moves(u), ~Unregister(u), ~UnlinkPrimary(u), ~UnlinkFiles(u), ~UnlinkState(u),
             ~UnlinkData(u)
      PROVE  FALSE
  BY <1>1, <1>5, Goes, FieldTypes DEF Moves
<1>6. QED
  BY <1>1, <1>2, <1>3, <1>4, <1>5, LastStep DEF Began

LEMMA FreshStep ==
  ASSUME Types, NoReprovision, OneTerminal, [Next]_vars
  PROVE  NoReprovision'
<1> USE DEF Types
<1> DEFINE Making == {"media", "createvm", "configure", "disks", "attach", "start", "wait", "mark"}
<1>1. SUFFICES ASSUME NEW u \in Term, Busy(u)', cmd'[u].pc \in Making
               PROVE  "provision" \notin done'[cmd'[u].inst]
  BY DEF NoReprovision
<1>2. cmd'[u].inst \in Inst
  BY <1>1, CmdStep DEF CmdOK, Busy, Commands
<1>3. "provision" \notin done[cmd'[u].inst]
  <2>1. CASE Waited(u)
    BY <1>1, <2>1 DEF Waited, NoReprovision
  <2>2. CASE BeginProvision(u)
    BY <1>1, <2>2, Goes
  <2>3. CASE \/ PrepareMedia(u) \/ CreateVM(u) \/ ConfigureVM(u) \/ CreateDisk(u)
             \/ AttachDisk(u) \/ AttachMedia(u) \/ StartVM(u) \/ SSHAnswers(u)
    BY <1>1, <2>3, Goes DEF NoReprovision, At, Same
  <2>4. ASSUME Moves(u), ~ (\/ BeginProvision(u) \/ PrepareMedia(u) \/ CreateVM(u)
                            \/ ConfigureVM(u) \/ CreateDisk(u) \/ AttachDisk(u)
                            \/ AttachMedia(u) \/ StartVM(u) \/ SSHAnswers(u))
        PROVE  FALSE
    BY <1>1, <2>4, Goes DEF Moves
  <2>5. QED
    BY <1>1, <2>1, <2>2, <2>3, <2>4, LastStep DEF Began
<1>4. ASSUME NEW t \in Term, MarkProvision(t)
      PROVE  FALSE
  BY <1>1, <1>4, Goes DEF OneTerminal
<1>5. QED
  BY <1>2, <1>3, <1>4, RecordFrame DEF RecordKept

SerialInv == Types /\ Homes /\ Whole /\ Gone /\ NoReprovision

\* One command at a time: it works on the current instance from its first
\* step to its last, nothing a snapshot needs is gone, and a provision is not
\* recorded while it is under way.
THEOREM Serial ==
  ASSUME OneTerminal
  PROVE  Spec => []SerialInv
<1>1. Init => SerialInv
  <2>1. Init => Homes /\ Whole /\ Gone /\ NoReprovision
    BY DEF Init, Homes, Whole, Gone, NoReprovision, Busy
  <2>2. QED
    BY <2>1, Initially DEF SerialInv, Types
<1>2. SerialInv /\ [Next]_vars => SerialInv'
  <2>1. Types /\ [Next]_vars => Types'
    BY HostStep, CmdStep DEF Types
  <2>2. QED
    BY <2>1, HomeStep, WholeStep, GoneStep, FreshStep DEF SerialInv
<1>3. QED
  BY <1>1, <1>2, PTL DEF Spec

\* A snapshot can be restored for as long as there is one: no destroy that was
\* refused or died half way leaves one without its VM or its images.
THEOREM SnapshotRetention ==
  ASSUME OneTerminal
  PROVE  Spec => []SnapshotsWhole
<1>1. SerialInv => SnapshotsWhole
  BY DEF SerialInv, Whole, SnapshotsWhole
<1>2. QED
  BY Serial, <1>1, PTL

\* A provision phase is redone only after its record was reset.
THEOREM NoRedo ==
  ASSUME OneTerminal
  PROVE  Spec => []NoReprovision
<1>1. SerialInv => NoReprovision
  BY DEF SerialInv
<1>2. QED
  BY Serial, <1>1, PTL

-----------------------------------------------------------------------------
(* The right guest: with a port of its own for every instance              *)

\* A machine of instance i has no forward, or a port of i's environments.
PortOf(m, i) == m.port = NoPort \/ \E s \in Setting[i] : m.port = s.port

Forwards ==
  \A i \in Inst :
    /\ vm[i] # NoVM => PortOf(vm[i], i)
    /\ \A s \in snapshots[i] : PortOf(s.vm, i)

\* The inventory is the one the running apply wrote.
Playing == \A t \in Term : At(t, "playbooks") => inventory = cmd[t].set.port

LEMMA ForwardsStep ==
  ASSUME SerialInv, Forwards, [Next]_vars
  PROVE  Forwards'
<1> USE DEF SerialInv, Types
<1>1. CASE SameMachines
  BY <1>1 DEF SameMachines, Forwards, PortOf
<1>2. ASSUME NEW i \in Inst, Installs(i)
      PROVE  Forwards'
  BY <1>2 DEF Installs, Forwards, PortOf
<1>3. ASSUME NEW t \in Term, CreateVM(t)
      PROVE  Forwards'
  BY <1>3, FieldTypes DEF CreateVM, At, NewVM, Forwards, PortOf, HostOK, VMOK
<1>4. ASSUME NEW t \in Term, ConfigureVM(t)
      PROVE  Forwards'
  <2> DEFINE i == cmd[t].inst
  <2>1. i \in Inst /\ vm[i] \in Machines /\ vm[i] # NoVM /\ cmd[t].set \in Setting[i]
    BY <1>4, FieldTypes DEF ConfigureVM, At, Off, HostOK, VMOK, Homes, Home
  <2>2. /\ vm'[i].port = vm[i].port \/ vm'[i].port = cmd[t].set.port
        /\ \A j \in Inst \ {i} : vm'[j] = vm[j]
        /\ snapshots' = snapshots
    BY <1>4, <2>1 DEF ConfigureVM, HostOK, VMOK, Machines
  <2>3. PortOf(vm[i], i)
    BY <2>1 DEF Forwards
  <2>4. PortOf(vm'[i], i)
    BY <2>1, <2>2, <2>3 DEF PortOf
  <2>5. QED
    BY <2>2, <2>4 DEF Forwards, PortOf
<1>5. ASSUME NEW t \in Term, CreateDisk(t) \/ UnlinkPrimary(t) \/ UnlinkData(t)
      PROVE  Forwards'
  BY <1>5 DEF CreateDisk, UnlinkPrimary, UnlinkData, Forwards, PortOf
<1>6. ASSUME NEW t \in Term, AttachDisk(t)
      PROVE  Forwards'
  <2> DEFINE i == cmd[t].inst
  <2>1. i \in Inst /\ vm[i] \in Machines /\ vm[i] # NoVM
    BY <1>6, AttachedVMs, NullAssumption
  <2>2. PICK m : vm' = [vm EXCEPT ![i] = m] /\ m.port = vm[i].port
    BY <1>6, AttachedVMs
  <2>3. vm'[i] = m /\ \A j \in Inst \ {i} : vm'[j] = vm[j]
    BY <2>1, <2>2 DEF HostOK, VMOK
  <2>4. snapshots' = snapshots
    BY <1>6 DEF AttachDisk
  <2>5. QED
    BY <2>1, <2>2, <2>3, <2>4 DEF Forwards, PortOf
<1>7. ASSUME NEW t \in Term, Unregister(t)
      PROVE  Forwards'
  BY <1>7, FieldTypes DEF Unregister, At, Delete, Forwards, PortOf, HostOK, VMOK
<1>8. ASSUME NEW t \in Term, Snapshot(t)
      PROVE  Forwards'
  <2>1. Target \in Inst /\ vm[Target] \in Machines /\ vm[Target] # NoVM
    BY <1>8, TargetType DEF Snapshot, HostOK, VMOK
  <2>2. Frozen(Target).vm.port = vm[Target].port
    BY <2>1 DEF Frozen, Machines
  <2>3. PortOf(Frozen(Target).vm, Target)
    BY <2>1, <2>2 DEF Forwards, PortOf
  <2>4. vm' = vm /\ snapshots' = [snapshots EXCEPT ![Target] = @ \cup {Frozen(Target)}]
    BY <1>8 DEF Snapshot
  <2>5. \A i \in Inst : \A s \in snapshots'[i] :
          s \in snapshots[i] \/ (i = Target /\ s = Frozen(Target))
    BY <2>1, <2>4 DEF HostOK
  <2>6. QED
    BY <2>3, <2>4, <2>5 DEF Forwards, PortOf
<1>9. ASSUME NEW t \in Term, RestoreSnapshot(t)
      PROVE  Forwards'
  <2> DEFINE i == cmd[t].inst
  <2>1. i \in Inst /\ snapshots' = snapshots
    BY <1>9, FieldTypes DEF RestoreSnapshot, At
  <2>2. PICK s \in snapshots[i] : vm' = [vm EXCEPT ![i] = s.vm]
    BY <1>9 DEF RestoreSnapshot
  <2>3. vm'[i] = s.vm /\ \A j \in Inst \ {i} : vm'[j] = vm[j]
    BY <2>1, <2>2 DEF HostOK, VMOK
  <2>4. QED
    BY <2>1, <2>2, <2>3 DEF Forwards, PortOf
<1>10. QED
  BY <1>1, <1>2, <1>3, <1>4, <1>5, <1>6, <1>7, <1>8, <1>9, MachineFrame

LEMMA PlayingStep ==
  ASSUME SerialInv, Playing, OneTerminal, [Next]_vars
  PROVE  Playing'
<1> USE DEF SerialInv, Types
<1>1. SUFFICES ASSUME NEW u \in Term, Busy(u)', cmd'[u].pc = "playbooks"
               PROVE  inventory' = cmd'[u].set.port
  BY DEF Playing, At
<1>2. CASE Waited(u)
  BY <1>1, <1>2 DEF Waited, Playing, At
<1>3. CASE BeginApply(u)
  BY <1>1, <1>3, Goes DEF Reads
<1>4. CASE Moves(u) /\ ~BeginApply(u)
  BY <1>1, <1>4, Goes DEF Moves
<1>5. QED
  BY <1>1, <1>2, <1>3, <1>4, LastStep DEF Began

\* Whoever answers on the port of an instance's environment is that instance.
LEMMA Answers ==
  ASSUME SerialInv, Forwards, OwnPort, NEW i \in Inst, NEW s \in Setting[i]
  PROVE  Answering(s.port) \in {NoInst, i}
<1>1. s.port \in Port
  BY SettingTypes
<1>2. CASE owner[s.port] = NoInst
  BY <1>2 DEF Answering
<1>3. CASE owner[s.port] # NoInst
  <2>1. PICK j \in Inst : j = owner[s.port]
    BY <1>1, <1>3 DEF SerialInv, Types, HostOK, VMOK
  <2>2. vm[j] # NoVM /\ vm[j].port = s.port
    BY <1>1, <1>3, <2>1 DEF SerialInv, Types, HostOK, VMOK, On
  <2>3. \E r \in Setting[j] : r.port = s.port
    BY <1>1, <2>1, <2>2, PortAssumption DEF Forwards, PortOf
  <2>4. QED
    BY <2>1, <2>3 DEF OwnPort, Answering
<1>4. QED
  BY <1>2, <1>3

GuestInv == SerialInv /\ Forwards /\ Playing

THEOREM Guests ==
  ASSUME OneTerminal
  PROVE  Spec => []GuestInv
<1>1. Init => Forwards /\ Playing
  BY DEF Init, Forwards, Playing, At, Busy
<1>2. SerialInv /\ Forwards /\ Playing /\ [Next]_vars => (Forwards /\ Playing)'
  BY ForwardsStep, PlayingStep
<1>3. QED
  BY <1>1, <1>2, Serial, PTL DEF Spec, GuestInv

\* The playbooks of an instance's apply reach that instance's guest.
THEOREM Reach ==
  ASSUME OneTerminal, OwnPort
  PROVE  Spec => []PlaybooksReachInstance
<1>1. GuestInv => PlaybooksReachInstance
  <2>1. SUFFICES ASSUME GuestInv, NEW t \in Term, At(t, "playbooks")
                 PROVE  Answering(inventory) \in {NoInst, cmd[t].inst}
    BY DEF PlaybooksReachInstance
  <2>2. cmd[t].inst \in Inst /\ cmd[t].set \in Setting[cmd[t].inst]
    BY <2>1, FieldTypes DEF GuestInv, SerialInv, Types, Homes, Home, At
  <2>3. inventory = cmd[t].set.port
    BY <2>1 DEF GuestInv, Playing
  <2>4. QED
    BY <2>1, <2>2, <2>3, Answers DEF GuestInv
<1>2. QED
  BY Guests, <1>1, PTL

-----------------------------------------------------------------------------
(* What a recorded provision says                                          *)

OneProfile == \A i \in Inst : \A s, r \in Setting[i] : s.windows = r.windows

LateSnapshots == "early snapshot" \notin Offered

\* What the record of instance i says comes from one of its environments.
Told ==
  \A i \in Inst :
    "provision" \in done[i] =>
      \E r \in Setting[i] : info[i].windows = r.windows /\ info[i].count = CountOf(r)

\* A command about to provision or provisioning counts by its environment.
Counted ==
  \A t \in Term : Busy(t) /\ cmd[t].kind # "destroy" => cmd[t].count = CountOf(cmd[t].set)

\* The ssh gate was passed.
Gated == \A t \in Term : At(t, "mark") /\ ~cmd[t].set.windows => cmd[t].inst \in installed

\* A snapshot of an instance with an ssh gate carries its system.
Bootable ==
  \A i \in Inst :
    (\E r \in Setting[i] : ~r.windows) => \A s \in snapshots[i] : s.installed

LEMMA CountedStep ==
  ASSUME SerialInv, Counted, OneTerminal, [Next]_vars
  PROVE  Counted'
<1> USE DEF SerialInv, Types
<1>1. SUFFICES ASSUME NEW u \in Term, Busy(u)', cmd'[u].kind # "destroy"
               PROVE  cmd'[u].count = CountOf(cmd'[u].set)
  BY DEF Counted
<1>2. CASE Waited(u)
  BY <1>1, <1>2 DEF Waited, Counted
<1>3. CASE Moves(u)
  <2>1. ~Confirm(u)
    <3>1. At(u, "confirm") /\ cmd[u].kind # "destroy" => FALSE
      BY DEF At, Busy, CmdOK, Course, Pipeline, Removal
    <3>2. QED
      BY <1>1, <3>1, Goes DEF Reads
  <2>2. Busy(u) /\ Reads(u) /\ cmd'[u].count = cmd[u].count
    BY <1>1, <1>3, <2>1, Goes DEF Moves, At, Same
  <2>3. QED
    BY <1>1, <2>2 DEF Counted, Reads
<1>4. CASE Began(u)
  BY <1>4, <1>1 DEF Began
<1>5. QED
  BY <1>1, <1>2, <1>3, <1>4, LastStep

LEMMA ToldStep ==
  ASSUME SerialInv, Told, Counted, [Next]_vars
  PROVE  Told'
<1> USE DEF SerialInv, Types
<1>1. CASE RecordKept
  BY <1>1 DEF RecordKept, Told
<1>2. ASSUME NEW t \in Term, MarkProvision(t)
      PROVE  Told'
  <2> DEFINE i == cmd[t].inst
  <2>1. i \in Inst /\ cmd[t].set \in Setting[i] /\ cmd[t].count = CountOf(cmd[t].set)
    <3>1. cmd[t].kind # "destroy"
      BY <1>2 DEF MarkProvision, At, Busy, CmdOK, Course, Pipeline, Removal
    <3>2. QED
      BY <1>2, <3>1, FieldTypes DEF MarkProvision, At, Homes, Home, Counted
  <2>2. /\ info'[i].windows = cmd[t].set.windows /\ info'[i].count = CountOf(cmd[t].set)
        /\ \A j \in Inst \ {i} : info'[j] = info[j] /\ done'[j] = done[j]
    BY <1>2, <2>1 DEF MarkProvision, HostOK
  <2>3. QED
    BY <2>1, <2>2 DEF Told
<1>3. QED
  BY <1>1, <1>2, RecordFrame

\* A system goes only by a destroy or a restore at its work.
LEMMA InstalledFrame ==
  ASSUME Types, [Next]_vars
  PROVE  \/ installed \subseteq installed'
         \/ \E t \in Term : Unregister(t) \/ UnlinkPrimary(t) \/ RestoreSnapshot(t)
<1>1. ASSUME NEW i \in Inst, Installs(i)
      PROVE  installed \subseteq installed'
  BY <1>1 DEF Installs
<1>2. ASSUME NEW t \in Term,
             CreateVM(t) \/ ConfigureVM(t) \/ CreateDisk(t) \/ AttachDisk(t)
               \/ UnlinkData(t) \/ Snapshot(t)
      PROVE  installed' = installed
  BY <1>2 DEF CreateVM, ConfigureVM, CreateDisk, AttachDisk, UnlinkData, Snapshot
<1>3. QED
  BY <1>1, <1>2, MachineFrame

LEMMA GatedStep ==
  ASSUME SerialInv, Forwards, Gated, OneTerminal, OwnPort, [Next]_vars
  PROVE  Gated'
<1> USE DEF SerialInv, Types
<1>1. SUFFICES ASSUME NEW u \in Term, Busy(u)', cmd'[u].pc = "mark", ~cmd'[u].set.windows
               PROVE  cmd'[u].inst \in installed'
  BY DEF Gated, At
<1>2. CASE Waited(u)
  <2>1. At(u, "mark") /\ cmd'[u].inst \in installed
    BY <1>1, <1>2 DEF Waited, Gated, At
  <2>2. ASSUME NEW t \in Term, Unregister(t) \/ UnlinkPrimary(t) \/ RestoreSnapshot(t)
        PROVE  FALSE
    BY <2>1, <2>2 DEF Unregister, UnlinkPrimary, RestoreSnapshot, At, OneTerminal
  <2>3. QED
    BY <2>1, <2>2, InstalledFrame
<1>3. CASE SSHAnswers(u)
  <2>1. Busy(u) /\ Same(u) /\ installed' = installed
    BY <1>1, <1>3, Goes DEF SSHAnswers, At, host
  <2>2. cmd[u].inst \in Inst /\ cmd[u].set \in Setting[cmd[u].inst]
    BY <2>1, FieldTypes DEF Homes, Home
  <2>3. Answering(cmd[u].set.port) = cmd[u].inst
    BY <1>3, <2>2, Answers DEF SSHAnswers
  <2>4. cmd[u].inst \in installed
    BY <2>2, <2>3, InstAssumption DEF Answering
  <2>5. QED
    BY <2>1, <2>4 DEF Same
<1>4. CASE StartVM(u)
  <2>1. cmd'[u].pc = IF cmd[u].set.windows THEN "mark" ELSE "wait"
    BY <1>1, <1>4 DEF StartVM, At, Goto, Busy, CmdOK, Commands
  <2>2. QED
    BY <1>1, <1>4, <2>1, Goes DEF Same, Reads
<1>5. CASE Moves(u) /\ ~SSHAnswers(u) /\ ~StartVM(u)
  BY <1>1, <1>5, Goes DEF Moves
<1>6. QED
  BY <1>1, <1>2, <1>3, <1>4, <1>5, LastStep DEF Began

LEMMA BootableStep ==
  ASSUME SerialInv, Told, Bootable, ProvisionMeansInstalled, OneProfile, LateSnapshots,
         [Next]_vars
  PROVE  Bootable'
<1> USE DEF SerialInv, Types
<1>1. ASSUME NEW t \in Term, Snapshot(t)
      PROVE  Bootable'
  <2>1. Target \in Inst /\ vm[Target] # NoVM /\ "provision" \in done[Target]
    BY <1>1, TargetType DEF Snapshot, LateSnapshots
  <2>2. (\E r \in Setting[Target] : ~r.windows) => Frozen(Target).installed
    BY <2>1 DEF Told, OneProfile, ProvisionMeansInstalled, Frozen
  <2>3. snapshots' = [snapshots EXCEPT ![Target] = @ \cup {Frozen(Target)}]
    BY <1>1 DEF Snapshot
  <2>4. \A i \in Inst : \A s \in snapshots'[i] :
          s \in snapshots[i] \/ (i = Target /\ s = Frozen(Target))
    BY <2>1, <2>3 DEF HostOK
  <2>5. QED
    BY <2>1, <2>2, <2>4 DEF Bootable
<1>2. ASSUME \A i \in Inst : snapshots'[i] \subseteq snapshots[i]
      PROVE  Bootable'
  BY <1>2 DEF Bootable
<1>3. QED
  BY <1>1, <1>2, SnapshotFrame

LEMMA InstalledStep ==
  ASSUME SerialInv, Told, Gated, Bootable, ProvisionMeansInstalled, [Next]_vars
  PROVE  ProvisionMeansInstalled'
<1> USE DEF SerialInv, Types
<1>1. SUFFICES ASSUME NEW i \in Inst, "provision" \in done'[i], vm'[i] # NoVM,
                      ~info'[i].windows
               PROVE  i \in installed'
  BY DEF ProvisionMeansInstalled
<1>2. ASSUME NEW t \in Term, MarkProvision(t)
      PROVE  i \in installed'
  <2>1. cmd[t].inst \in Inst /\ vm' = vm /\ installed' = installed
    BY <1>2, FieldTypes DEF MarkProvision, At
  <2>2. CASE i = cmd[t].inst
    BY <1>1, <1>2, <2>1, <2>2 DEF MarkProvision, HostOK, Gated
  <2>3. CASE i # cmd[t].inst
    BY <1>1, <1>2, <2>1, <2>3 DEF MarkProvision, HostOK, ProvisionMeansInstalled
  <2>4. QED
    BY <2>2, <2>3
<1>3. ASSUME RecordKept, vm[i] # NoVM
      PROVE  i \in installed
  BY <1>1, <1>3 DEF RecordKept, ProvisionMeansInstalled
<1>4. ASSUME RecordKept, SameMachines, installed' = installed
      PROVE  i \in installed'
  BY <1>1, <1>3, <1>4 DEF SameMachines
<1>5. ASSUME RecordKept, NEW j \in Inst, Installs(j)
      PROVE  i \in installed'
  BY <1>1, <1>3, <1>5 DEF Installs
<1>6. ASSUME RecordKept, NEW t \in Term, CreateVM(t)
      PROVE  i \in installed'
  <2>1. cmd[t].inst \in Inst /\ "provision" \notin done[cmd[t].inst] /\ installed' = installed
    BY <1>6, FieldTypes DEF CreateVM, At, NoReprovision
  <2>2. i # cmd[t].inst
    BY <1>1, <1>6, <2>1 DEF RecordKept
  <2>3. vm[i] # NoVM
    BY <1>1, <1>6, <2>1, <2>2 DEF CreateVM, HostOK, VMOK
  <2>4. QED
    BY <1>3, <1>6, <2>1, <2>3
<1>7. ASSUME RecordKept, NEW t \in Term, ConfigureVM(t) \/ AttachDisk(t)
      PROVE  i \in installed'
  <2>1. cmd[t].inst \in Inst /\ vm[cmd[t].inst] # NoVM /\ installed' = installed
    BY <1>7, FieldTypes, AttachedVMs, NullAssumption DEF ConfigureVM, AttachDisk, At, Off
  <2>2. i # cmd[t].inst => vm'[i] = vm[i]
    <3>1. CASE ConfigureVM(t)
      BY <2>1, <3>1 DEF ConfigureVM, HostOK, VMOK
    <3>2. CASE AttachDisk(t)
      BY <3>2, AttachedVMs DEF HostOK, VMOK
    <3>3. QED
      BY <1>7, <3>1, <3>2
  <2>3. QED
    BY <1>1, <1>3, <1>7, <2>1, <2>2
<1>8. ASSUME RecordKept, NEW t \in Term, CreateDisk(t) \/ UnlinkData(t) \/ Snapshot(t)
      PROVE  i \in installed'
  BY <1>1, <1>3, <1>8 DEF CreateDisk, UnlinkData, Snapshot
<1>9. ASSUME RecordKept, NEW t \in Term, Unregister(t)
      PROVE  i \in installed'
  <2>1. cmd[t].inst \in Inst
    BY <1>9, FieldTypes DEF Unregister, At
  <2>2. i # cmd[t].inst /\ vm'[i] = vm[i] /\ (i \in installed => i \in installed')
    BY <1>1, <1>9, <2>1 DEF Unregister, Delete, HostOK, VMOK
  <2>3. QED
    BY <1>1, <1>3, <1>9, <2>2
<1>10. ASSUME RecordKept, NEW t \in Term, UnlinkPrimary(t)
       PROVE  i \in installed'
  <2>1. vm' = vm /\ vm[cmd[t].inst] = NoVM /\ installed' = installed \ {cmd[t].inst}
    BY <1>10 DEF UnlinkPrimary, At, Gone
  <2>2. QED
    BY <1>1, <1>3, <1>10, <2>1
<1>11. ASSUME RecordKept, NEW t \in Term, RestoreSnapshot(t)
       PROVE  i \in installed'
  <2> DEFINE k == cmd[t].inst
  <2>1. k \in Inst
    BY <1>11, FieldTypes DEF RestoreSnapshot, At
  <2>2. PICK s \in snapshots[k] :
          /\ vm' = [vm EXCEPT ![k] = s.vm]
          /\ installed' = IF s.installed /\ 0 \in disks[k] THEN installed \cup {k}
                                                         ELSE installed \ {k}
    BY <1>11 DEF RestoreSnapshot
  <2>3. CASE i = k
    <3>1. "provision" \in done[i] /\ ~info[i].windows
      BY <1>1, <1>11 DEF RecordKept
    <3>2. s.installed /\ 0 \in disks[k]
      BY <2>1, <2>2, <2>3, <3>1 DEF Told, Bootable, Whole
    <3>3. QED
      BY <2>2, <2>3, <3>2
  <2>4. CASE i # k
    BY <1>1, <1>3, <1>11, <2>1, <2>2, <2>4 DEF HostOK, VMOK
  <2>5. QED
    BY <2>3, <2>4
<1>12. QED
  BY <1>2, <1>4, <1>5, <1>6, <1>7, <1>8, <1>9, <1>10, <1>11, RecordFrame, MachineFrame

RecordInv == Told /\ Counted

THEOREM Records ==
  ASSUME OneTerminal
  PROVE  Spec => [](GuestInv /\ RecordInv)
<1>1. Init => RecordInv
  BY DEF Init, RecordInv, Told, Counted, Busy
<1>2. SerialInv /\ RecordInv /\ [Next]_vars => RecordInv'
  BY ToldStep, CountedStep DEF RecordInv
<1>3. GuestInv => SerialInv
  BY DEF GuestInv
<1>4. QED
  BY <1>1, <1>2, <1>3, Guests, PTL DEF Spec

\* A VM whose provision is recorded carries an installed system: whatever died,
\* was forced, destroyed or restored from a snapshot before, if each instance
\* has a port of its own and snapshots are taken of recorded instances only.
THEOREM Gate ==
  ASSUME OneTerminal, OwnPort, OneProfile, LateSnapshots
  PROVE  Spec => []ProvisionMeansInstalled
<1> DEFINE I == ProvisionMeansInstalled /\ Gated /\ Bootable
<1>1. Init => I
  BY DEF Init, ProvisionMeansInstalled, Gated, Bootable, At, Busy
<1>2. GuestInv /\ RecordInv /\ I /\ [Next]_vars => I'
  BY InstalledStep, GatedStep, BootableStep DEF GuestInv, RecordInv
<1>3. QED
  BY <1>1, <1>2, Records, PTL DEF Spec

-----------------------------------------------------------------------------
(* Disks at their ports                                                    *)

\* Machine m has the disk of every port that the counts n use.
Holds(m, n) == \A p \in 0..LastPort(n) : m.sata[p] = DiskAt(n, p)

\* A run comes to its first port ..
Ahead ==
  \A t \in Term :
    Busy(t) /\ cmd[t].pc \in {"provision", "media", "createvm", "configure", "disks"} =>
      cmd[t].at = 0

\* .. has the ports behind it in order, whatever the runs before it left there ..
Behind ==
  \A t \in Term :
    At(t, "attach") =>
      \A p \in Nat : p < cmd[t].at =>
        /\ vm[cmd[t].inst] # NoVM
        /\ vm[cmd[t].inst].sata[p] = DiskAt(cmd[t].count, p)

\* .. and past the last one all of them.
Attaching ==
  \A t \in Term :
    Busy(t) /\ cmd[t].pc \in {"start", "wait", "mark"} =>
      vm[cmd[t].inst] # NoVM /\ Holds(vm[cmd[t].inst], cmd[t].count)

Equipped ==
  \A i \in Inst :
    "provision" \in done[i] /\ vm[i] # NoVM => Holds(vm[i], info[i].count)

Restorable ==
  \A i \in Inst : \A s \in snapshots[i], r \in Setting[i] : Holds(s.vm, CountOf(r))

\* The machine of an instance keeps its ports as they are.
PortsKept(i) == vm[i] # NoVM => vm'[i] # NoVM /\ vm'[i].sata = vm[i].sata

LEMMA PortsFrame ==
  ASSUME Types, [Next]_vars, NEW i \in Inst
  PROVE  \/ PortsKept(i)
         \/ \E t \in Term : AttachDisk(t) /\ cmd[t].inst = i
         \/ \E t \in Term : Unregister(t) /\ cmd[t].inst = i /\ vm'[i] = NoVM
         \/ \E t \in Term : RestoreSnapshot(t) /\ cmd[t].inst = i
<1> USE DEF Types
<1>1. SameMachines => PortsKept(i)
  BY DEF SameMachines, PortsKept
<1>2. ASSUME vm' = vm
      PROVE  PortsKept(i)
  BY <1>2 DEF PortsKept
<1>3. ASSUME NEW t \in Term, CreateVM(t)
      PROVE  PortsKept(i)
  BY <1>3, FieldTypes DEF CreateVM, At, PortsKept, HostOK, VMOK
<1>4. ASSUME NEW t \in Term, ConfigureVM(t)
      PROVE  PortsKept(i)
  <2>1. cmd[t].inst \in Inst /\ vm[cmd[t].inst] \in Machines
    BY <1>4, FieldTypes DEF ConfigureVM, At, HostOK, VMOK, Off
  <2>2. vm[i] # NoVM => vm'[i].sata = vm[i].sata
    BY <1>4, <2>1 DEF ConfigureVM, HostOK, VMOK, Machines
  <2>3. QED
    BY <1>4, <2>2, ConfiguredKeeps DEF PortsKept
<1>5. ASSUME NEW t \in Term, AttachDisk(t)
      PROVE  PortsKept(i) \/ cmd[t].inst = i
  <2> DEFINE j == cmd[t].inst
  <2>1. PICK m \in Machines : vm' = [vm EXCEPT ![j] = m]
    BY <1>5, AttachedVMs
  <2>2. i # j => vm'[i] = vm[i]
    BY <2>1 DEF HostOK, VMOK
  <2>3. QED
    BY <2>2 DEF PortsKept
<1>6. ASSUME NEW t \in Term, Unregister(t)
      PROVE  PortsKept(i) \/ (cmd[t].inst = i /\ vm'[i] = NoVM)
  BY <1>6, FieldTypes DEF Unregister, At, Delete, PortsKept, HostOK, VMOK
<1>7. ASSUME NEW t \in Term, RestoreSnapshot(t)
      PROVE  PortsKept(i) \/ cmd[t].inst = i
  BY <1>7, FieldTypes DEF RestoreSnapshot, At, PortsKept, HostOK, VMOK
<1>8. ASSUME NEW t \in Term, CreateDisk(t) \/ UnlinkPrimary(t) \/ UnlinkData(t) \/ Snapshot(t)
      PROVE  vm' = vm
  BY <1>8 DEF CreateDisk, UnlinkPrimary, UnlinkData, Snapshot
<1>9. ASSUME NEW j \in Inst, Installs(j)
      PROVE  vm' = vm
  BY <1>9 DEF Installs
<1>10. QED
  BY <1>1, <1>2, <1>3, <1>4, <1>5, <1>6, <1>7, <1>8, <1>9, MachineFrame

\* The steps up to the first storageattach leave the port at zero.
LEMMA AheadStep ==
  ASSUME SerialInv, Ahead, OneTerminal, [Next]_vars
  PROVE  Ahead'
<1> USE DEF SerialInv, Types
<1> DEFINE Before == {"provision", "media", "createvm", "configure", "disks"}
<1>1. SUFFICES ASSUME NEW u \in Term, Busy(u)', cmd'[u].pc \in Before
               PROVE  cmd'[u].at = 0
  BY DEF Ahead
<1>2. CASE Waited(u)
  BY <1>1, <1>2 DEF Waited, Ahead
<1>3. CASE \/ BeginProvision(u) \/ PrepareMedia(u) \/ CreateVM(u) \/ ConfigureVM(u)
           \/ CreateDisk(u)
  <2>1. Busy(u) /\ cmd[u].pc \in Before
    BY <1>1, <1>3, Goes DEF At
  <2>2. cmd'[u].at = cmd[u].at
    BY <1>1, <1>3 DEF BeginProvision, PrepareMedia, CreateVM, ConfigureVM, CreateDisk, At, Busy,
       Goto, CmdOK, Commands
  <2>3. QED
    BY <2>1, <2>2 DEF Ahead
<1>4. ASSUME Moves(u), ~BeginProvision(u), ~PrepareMedia(u), ~CreateVM(u), ~ConfigureVM(u),
             ~CreateDisk(u)
      PROVE  FALSE
  BY <1>1, <1>4, Goes DEF Moves
<1>5. QED
  BY <1>1, <1>2, <1>3, <1>4, LastStep DEF Began

LEMMA BehindStep ==
  ASSUME SerialInv, Ahead, Behind, OneTerminal, [Next]_vars
  PROVE  Behind'
<1> USE DEF SerialInv, Types
<1>1. SUFFICES ASSUME NEW u \in Term, At(u, "attach")', NEW p \in Nat, p < cmd'[u].at
               PROVE  /\ vm'[cmd'[u].inst] # NoVM
                      /\ vm'[cmd'[u].inst].sata[p] = DiskAt(cmd'[u].count, p)
  BY DEF Behind
<1>2. Busy(u)' /\ cmd'[u].pc = "attach"
  BY <1>1 DEF At
<1>3. CASE Waited(u)
  <2> DEFINE i == cmd[u].inst
  <2>1. At(u, "attach") /\ cmd' = cmd /\ i \in Inst /\ cmd[u].at \in Nat
    BY <1>1, <1>2, <1>3, FieldTypes DEF Waited, At
  <2>2. vm[i] # NoVM /\ vm[i].sata[p] = DiskAt(cmd[u].count, p)
    BY <1>1, <2>1 DEF Behind
  <2>3. ASSUME NEW t \in Term, Unregister(t) \/ RestoreSnapshot(t)
        PROVE  FALSE
    BY <2>1, <2>3 DEF Unregister, RestoreSnapshot, At, OneTerminal
  <2>4. ASSUME NEW t \in Term, AttachDisk(t)
        PROVE  FALSE
    <3>1. t = u
      BY DEF OneTerminal
    <3>2. cmd'[u].at = cmd[u].at + 1
      BY <1>2, <2>4, <3>1, Goes
    <3>3. QED
      BY <2>1, <3>2
  <2>5. PortsKept(i)
    BY <2>1, <2>3, <2>4, PortsFrame
  <2>6. QED
    BY <2>1, <2>2, <2>5 DEF PortsKept
<1>4. CASE CreateDisk(u)
  <2>1. cmd[u].at = 0
    BY <1>2, <1>4, Goes DEF Ahead, At
  <2>2. cmd'[u].at = cmd[u].at
    BY <1>2, <1>4 DEF CreateDisk, At, Busy, Goto, CmdOK, Commands
  <2>3. QED
    BY <1>1, <2>1, <2>2
<1>5. CASE AttachDisk(u)
  <2> DEFINE i == cmd[u].inst
             n == cmd[u].count
             k == cmd[u].at
  <2>1. /\ At(u, "attach") /\ cmd'[u].inst = i /\ cmd'[u].count = n /\ cmd'[u].at = k + 1
        /\ k \in Nat
    BY <1>2, <1>5, Goes, FieldTypes DEF Same, At
  <2>2. i \in Inst /\ vm[i] \in Machines /\ k \in Slots
    BY <1>5, AttachedVMs
  <2>3. PICK m \in Machines : /\ vm' = [vm EXCEPT ![i] = m]
                              /\ m.sata = [vm[i].sata EXCEPT ![k] = DiskAt(n, k)]
    BY <1>5, AttachedVMs
  <2>4. vm'[i] = m /\ vm'[i] # NoVM
    BY <2>2, <2>3, NullAssumption DEF HostOK, VMOK
  <2>5. vm[i].sata \in [Slots -> Int \cup {NoDisk}]
    BY <2>2 DEF Machines
  <2>6. CASE p = k
    BY <2>1, <2>2, <2>3, <2>4, <2>5, <2>6
  <2>7. CASE p # k
    <3>1. p < k
      BY <1>1, <2>1, <2>7
    <3>2. vm[i].sata[p] = DiskAt(n, p)
      BY <2>1, <3>1 DEF Behind
    <3>3. m.sata[p] = vm[i].sata[p]
      BY <2>2, <2>3, <2>5, <2>7, <3>1 DEF Slots
    <3>4. QED
      BY <2>1, <2>4, <3>2, <3>3
  <2>8. QED
    BY <2>6, <2>7
<1>6. CASE Moves(u) /\ ~CreateDisk(u) /\ ~AttachDisk(u)
  BY <1>2, <1>6, Goes DEF Moves
<1>7. QED
  BY <1>2, <1>3, <1>4, <1>5, <1>6, LastStep DEF Began

LEMMA AttachingStep ==
  ASSUME SerialInv, Behind, Attaching, OneTerminal, [Next]_vars
  PROVE  Attaching'
<1> USE DEF SerialInv, Types
<1> DEFINE After == {"start", "wait", "mark"}
<1>1. SUFFICES ASSUME NEW u \in Term, Busy(u)', cmd'[u].pc \in After
               PROVE  vm'[cmd'[u].inst] # NoVM /\ Holds(vm'[cmd'[u].inst], cmd'[u].count)
  BY DEF Attaching, Holds
<1>2. ASSUME Busy(u), cmd[u].pc \in After, cmd'[u].inst = cmd[u].inst,
             cmd'[u].count = cmd[u].count
      PROVE  vm'[cmd'[u].inst] # NoVM /\ Holds(vm'[cmd'[u].inst], cmd'[u].count)
  <2> DEFINE i == cmd[u].inst
  <2>1. i \in Inst /\ vm[i] # NoVM /\ Holds(vm[i], cmd[u].count)
    BY <1>2, FieldTypes DEF Attaching
  <2>2. ASSUME NEW t \in Term, AttachDisk(t) \/ Unregister(t) \/ RestoreSnapshot(t)
        PROVE  FALSE
    BY <1>2, <2>2 DEF AttachDisk, Unregister, RestoreSnapshot, At, OneTerminal
  <2>3. PortsKept(i)
    BY <2>1, <2>2, PortsFrame
  <2>4. QED
    BY <1>2, <2>1, <2>3 DEF PortsKept, Holds
<1>3. CASE Waited(u)
  BY <1>1, <1>2, <1>3 DEF Waited
<1>4. CASE StartVM(u) \/ SSHAnswers(u)
  BY <1>1, <1>2, <1>4, Goes DEF At, Same
<1>5. CASE AttachMedia(u)
  <2> DEFINE i == cmd[u].inst
             n == cmd[u].count
  <2>1. At(u, "attach") /\ cmd'[u].inst = i /\ cmd'[u].count = n
    BY <1>1, <1>5, Goes DEF Same
  <2>2. i \in Inst /\ cmd[u].at \in Nat /\ LastPort(n) \in Nat
    BY <2>1, FieldTypes, CountTypes DEF At
  <2>3. cmd[u].at > LastPort(n)
    BY <1>5 DEF AttachMedia
  <2>4. \A p \in 0..LastPort(n) : vm[i] # NoVM /\ vm[i].sata[p] = DiskAt(n, p)
    BY <2>1, <2>2, <2>3 DEF Behind
  <2>5. vm[i] # NoVM
    BY <2>2, <2>4
  <2>6. vm'[i] # NoVM /\ vm'[i].sata = vm[i].sata
    BY <1>5, <2>2, <2>5, Driven DEF SameMachines
  <2>7. QED
    BY <2>1, <2>4, <2>6 DEF Holds
<1>6. CASE Moves(u) /\ ~StartVM(u) /\ ~SSHAnswers(u) /\ ~AttachMedia(u)
  BY <1>1, <1>6, Goes DEF Moves
<1>7. QED
  BY <1>1, <1>3, <1>4, <1>5, <1>6, LastStep DEF Began

\* A snapshot fits every later record if there are none, or one environment.
Settled == OneSetting \/ "snapshot" \notin Offered

LEMMA RestorableStep ==
  ASSUME SerialInv, Told, Equipped, Restorable, LateSnapshots, Settled, [Next]_vars
  PROVE  Restorable'
<1> USE DEF SerialInv, Types
<1>1. ASSUME NEW t \in Term, Snapshot(t)
      PROVE  Restorable'
  <2>1. /\ Target \in Inst /\ vm[Target] # NoVM /\ vm[Target] \in Machines
        /\ "provision" \in done[Target] /\ OneSetting
    BY <1>1, TargetType DEF Snapshot, LateSnapshots, Settled, HostOK, VMOK
  <2>2. Frozen(Target).vm.sata = vm[Target].sata
    BY <2>1 DEF Frozen, Machines
  <2>3. snapshots' = [snapshots EXCEPT ![Target] = @ \cup {Frozen(Target)}]
    BY <1>1 DEF Snapshot
  <2>4. \A i \in Inst : \A s \in snapshots'[i] :
          s \in snapshots[i] \/ (i = Target /\ s = Frozen(Target))
    BY <2>1, <2>3 DEF HostOK
  <2>5. \A r \in Setting[Target] : info[Target].count = CountOf(r)
    BY <2>1 DEF Told, OneSetting
  <2>6. \A r \in Setting[Target] : Holds(Frozen(Target).vm, CountOf(r))
    BY <2>1, <2>2, <2>5 DEF Equipped, Holds
  <2>7. QED
    BY <2>4, <2>6 DEF Restorable
<1>2. ASSUME \A i \in Inst : snapshots'[i] \subseteq snapshots[i]
      PROVE  Restorable'
  BY <1>2 DEF Restorable
<1>3. QED
  BY <1>1, <1>2, SnapshotFrame

LEMMA EquippedStep ==
  ASSUME SerialInv, Told, Attaching, Equipped, Restorable, [Next]_vars
  PROVE  Equipped'
<1> USE DEF SerialInv, Types
<1>1. SUFFICES ASSUME NEW i \in Inst, "provision" \in done'[i], vm'[i] # NoVM
               PROVE  Holds(vm'[i], info'[i].count)
  BY DEF Equipped, Holds
<1>2. ASSUME NEW t \in Term, MarkProvision(t)
      PROVE  Holds(vm'[i], info'[i].count)
  <2> DEFINE j == cmd[t].inst
  <2>1. j \in Inst /\ vm' = vm /\ Holds(vm[j], cmd[t].count)
    BY <1>2, FieldTypes DEF MarkProvision, At, Attaching
  <2>2. /\ info'[j].count = cmd[t].count
        /\ i # j => "provision" \in done[i] /\ info'[i] = info[i]
    BY <1>1, <1>2, <2>1 DEF MarkProvision, HostOK
  <2>3. QED
    BY <1>1, <2>1, <2>2 DEF Equipped
<1>3. ASSUME RecordKept
      PROVE  Holds(vm'[i], info'[i].count)
  <2>1. /\ "provision" \in done[i] /\ info'[i] = info[i]
        /\ vm[i] # NoVM => Holds(vm[i], info[i].count)
    BY <1>1, <1>3 DEF RecordKept, Equipped
  <2>2. CASE vm[i] # NoVM /\ PortsKept(i)
    BY <2>1, <2>2 DEF PortsKept, Holds
  <2>3. ASSUME NEW t \in Term, RestoreSnapshot(t), cmd[t].inst = i
        PROVE  Holds(vm'[i], info'[i].count)
    <3>1. PICK s \in snapshots[i] : vm' = [vm EXCEPT ![i] = s.vm]
      BY <2>3 DEF RestoreSnapshot
    <3>2. vm'[i] = s.vm
      BY <3>1 DEF HostOK, VMOK
    <3>3. PICK r \in Setting[i] : info[i].count = CountOf(r)
      BY <2>1 DEF Told
    <3>4. QED
      BY <2>1, <3>2, <3>3 DEF Restorable
  <2>4. ASSUME NEW t \in Term, AttachDisk(t), cmd[t].inst = i
        PROVE  FALSE
    BY <2>1, <2>4 DEF AttachDisk, At, NoReprovision
  <2>5. ASSUME vm[i] = NoVM, ~ \E t \in Term : RestoreSnapshot(t) /\ cmd[t].inst = i
        PROVE  FALSE
    <3>1. PICK t \in Term : CreateVM(t) /\ cmd[t].inst = i
      BY <1>1, <2>5, AppearFrame
    <3>2. "provision" \notin done[i]
      BY <3>1 DEF CreateVM, At, NoReprovision
    <3>3. QED
      BY <2>1, <3>2
  <2>6. QED
    BY <1>1, <2>2, <2>3, <2>4, <2>5, PortsFrame
<1>4. QED
  BY <1>2, <1>3, RecordFrame

\* A recorded instance's VM has every disk the record counts at its own port,
\* and the image of each, whichever counts the runs before the record had; a
\* snapshot brings the ports back as they were, so with snapshots the counts of
\* an instance have to stay the same (provision.py:271-334).
THEOREM Disks ==
  ASSUME OneTerminal, LateSnapshots, Settled
  PROVE  Spec => []RecordedDisksAttached
<1> DEFINE I == Ahead /\ Behind /\ Attaching /\ Equipped /\ Restorable
<1>1. Init => I
  BY DEF Init, Ahead, Behind, Attaching, Equipped, Restorable, At, Busy
<1>2. GuestInv /\ RecordInv /\ I /\ [Next]_vars => I'
  BY AheadStep, BehindStep, AttachingStep, EquippedStep, RestorableStep
  DEF GuestInv, RecordInv
<1>3. GuestInv /\ RecordInv /\ I => RecordedDisksAttached
  BY DEF RecordedDisksAttached, Equipped, Holds, GuestInv, SerialInv, Whole
<1>4. QED
  BY <1>1, <1>2, <1>3, Records, PTL DEF Spec

\* A state file is made by the steps that reset or mark a phase; a seed or a
\* password is written or unlinked by one step each.
FilesKept == stateFile' \subseteq stateFile /\ files' = files

LEMMA FileFrame ==
  ASSUME Types, [Next]_vars
  PROVE  \/ FilesKept
         \/ \E t \in Term : \/ ~Busy(t) \/ MarkProvision(t) \/ EndProvision(t)
                            \/ MarkApply(t) \/ PrepareMedia(t) \/ UnlinkFiles(t)
<1> USE DEF Types, FilesKept
<1>1. ASSUME NEW t \in Term, NEW i \in Inst, Use(t, i)
      PROVE  FilesKept
  BY <1>1 DEF Use, host, record
<1>2. ASSUME NEW t \in Term, NEW i \in Inst, Start(t, i)
      PROVE  FilesKept
  BY <1>2 DEF Start, host, record
<1>3. ASSUME NEW t \in Term, NEW i \in Inst, NEW s \in Setting[i], Create(t, i, s)
      PROVE  FilesKept
  BY <1>3 DEF Create, host, record
<1>4. ASSUME NEW t \in Term, Snapshot(t)
      PROVE  FilesKept
  BY <1>4 DEF Snapshot, host, record
<1>5. ASSUME NEW t \in Term, NEW s \in Setting[Target], Apply(t, s)
      PROVE  FilesKept
  BY <1>5 DEF Apply, host, record
<1>6. ASSUME NEW t \in Term, NEW s \in Setting[Target], Destroy(t, s)
      PROVE  FilesKept
  BY <1>6 DEF Destroy, host, record
<1>7. ASSUME NEW t \in Term, NEW s \in Setting[Target], BeginRestore(t, s)
      PROVE  FilesKept
  BY <1>7 DEF BeginRestore, host, record
<1>8. ASSUME NEW t \in Term, NEW s \in Setting[Target], NEW force \in BOOLEAN,
             NEW until \in {"provision", "apply"}, All(t, s, force, until)
      PROVE  ~Busy(t)
  BY <1>8 DEF All
<1>9. ASSUME NEW t \in Term, BeginProvision(t)
      PROVE  FilesKept
  BY <1>9 DEF BeginProvision, host, record
<1>10. ASSUME NEW t \in Term, CreateVM(t)
      PROVE  FilesKept
  BY <1>10 DEF CreateVM, host, record
<1>11. ASSUME NEW t \in Term, ConfigureVM(t)
      PROVE  FilesKept
  BY <1>11 DEF ConfigureVM, host, record
<1>12. ASSUME NEW t \in Term, CreateDisk(t)
      PROVE  FilesKept
  BY <1>12 DEF CreateDisk, host, record
<1>13. ASSUME NEW t \in Term, AttachDisk(t)
      PROVE  FilesKept
  BY <1>13 DEF AttachDisk, host, record
<1>14. ASSUME NEW t \in Term, StartVM(t)
      PROVE  FilesKept
  BY <1>14 DEF StartVM, host, record
<1>15. ASSUME NEW t \in Term, SSHAnswers(t)
      PROVE  FilesKept
  BY <1>15 DEF SSHAnswers, host, record
<1>16. ASSUME NEW t \in Term, SSHTimesOut(t)
      PROVE  FilesKept
  BY <1>16 DEF SSHTimesOut, host, record
<1>17. ASSUME NEW t \in Term, BeginApply(t)
      PROVE  FilesKept
  BY <1>17 DEF BeginApply, host, record
<1>18. ASSUME NEW t \in Term, RunPlaybooks(t)
      PROVE  FilesKept
  BY <1>18 DEF RunPlaybooks, host, record
<1>19. ASSUME NEW t \in Term, PowerOff(t)
      PROVE  FilesKept
  BY <1>19 DEF PowerOff, host, record
<1>20. ASSUME NEW t \in Term, Unregister(t)
      PROVE  FilesKept
  BY <1>20 DEF Unregister, host, record
<1>21. ASSUME NEW t \in Term, UnlinkPrimary(t)
      PROVE  FilesKept
  BY <1>21 DEF UnlinkPrimary, host, record
<1>22. ASSUME NEW t \in Term, UnlinkState(t)
      PROVE  FilesKept
  BY <1>22 DEF UnlinkState, host, record
<1>23. ASSUME NEW t \in Term, UnlinkData(t)
      PROVE  FilesKept
  BY <1>23 DEF UnlinkData, host, record
<1>24. ASSUME NEW t \in Term, RestoreSnapshot(t)
      PROVE  FilesKept
  BY <1>24 DEF RestoreSnapshot, host, record
<1>25. ASSUME NEW t \in Term, Raise(t)
      PROVE  FilesKept
  BY <1>25 DEF Raise, host, record
<1>26. ASSUME NEW t \in Term, Confirm(t)
      PROVE  FilesKept
  BY <1>26 DEF Confirm, host, record
<1>27. ASSUME NEW t \in Term, Die(t)
      PROVE  FilesKept
  BY <1>27 DEF Die, host, record
<1>28. ASSUME NEW i \in Inst, Stops(i)
      PROVE  FilesKept
  BY <1>28 DEF Stops, host, record
<1>29. ASSUME NEW i \in Inst, Installs(i)
      PROVE  FilesKept
  BY <1>29 DEF Installs, host, record
<1>30. ASSUME NEW t \in Term, AttachMedia(t)
      PROVE  FilesKept
  BY <1>30 DEF AttachMedia, record
<1>31. CASE UNCHANGED vars
  BY <1>31 DEF vars, host, record
<1>32. QED
  BY <1>1, <1>2, <1>3, <1>4, <1>5, <1>6, <1>7, <1>8, <1>9, <1>10, <1>11, <1>12,
     <1>13, <1>14, <1>15, <1>16, <1>17, <1>18, <1>19, <1>20, <1>21, <1>22, <1>23, <1>24,
     <1>25, <1>26, <1>27, <1>28, <1>29, <1>30, <1>31
  DEF Next, Begin, Step, ProvisionStep, ApplyStep, DestroyStep

-----------------------------------------------------------------------------
(* Destroy leaves nothing but the seeds it does not name                   *)

\* The images of an instance are those of one environment.
Bounded ==
  \A i \in Inst : disks[i] # {} => \E r \in Setting[i] : disks[i] \subseteq Images(CountOf(r))

\* A destroy that has read its counts covers them.
Enough ==
  \A t \in Term :
    Busy(t) /\ cmd[t].kind = "destroy" /\ cmd[t].pc \in {"poweroff"} \cup Removal =>
      \A r \in Setting[cmd[t].inst] : Images(CountOf(r)) \subseteq Images(cmd[t].count)

\* What is behind its next step is gone.
Cleared ==
  \A t \in Term :
    LET i == cmd[t].inst IN
      /\ Busy(t) /\ cmd[t].pc \in {"files", "state", "data"} => 0 \notin disks[i]
      /\ Busy(t) /\ cmd[t].pc \in {"state", "data"} => files[i] \subseteq Seeds \ {"cidata"}
      /\ At(t, "data") => i \notin stateFile

LEMMA BoundedStep ==
  ASSUME SerialInv, Counted, Bounded, OneSetting, [Next]_vars
  PROVE  Bounded'
<1> USE DEF SerialInv, Types
<1>1. ASSUME \A i \in Inst : disks'[i] \subseteq disks[i]
      PROVE  Bounded'
  BY <1>1 DEF Bounded
<1>2. ASSUME NEW t \in Term, CreateDisk(t)
      PROVE  Bounded'
  <2> DEFINE i == cmd[t].inst
             n == cmd[t].count
  <2>1. i \in Inst /\ cmd[t].set \in Setting[i] /\ n = CountOf(cmd[t].set)
    <3>1. Busy(t) /\ cmd[t].kind # "destroy"
      BY <1>2 DEF CreateDisk, At, Busy, CmdOK, Course, Pipeline, Removal
    <3>2. QED
      BY <3>1, FieldTypes DEF Homes, Home, Counted
  <2>2. disks' = disks \/ \E d \in Images(n) : disks' = [disks EXCEPT ![i] = @ \cup {d}]
    <3>1. disks' = disks \/ \E d \in Images(n) \ disks[i] : disks' = [disks EXCEPT ![i] = @ \cup {d}]
      BY <1>2, Zenon DEF CreateDisk
    <3>2. QED
      BY <3>1
  <2>3. /\ disks'[i] \subseteq disks[i] \cup Images(n)
        /\ \A j \in Inst \ {i} : disks'[j] = disks[j]
    BY <2>1, <2>2 DEF HostOK
  <2>4. disks[i] \subseteq Images(n)
    BY <2>1 DEF Bounded, OneSetting
  <2>5. QED
    BY <2>1, <2>3, <2>4 DEF Bounded
<1>3. ASSUME NEW t \in Term, Unregister(t) \/ UnlinkPrimary(t) \/ UnlinkData(t)
      PROVE  \A i \in Inst : disks'[i] \subseteq disks[i]
  BY <1>3, FieldTypes DEF Unregister, UnlinkPrimary, UnlinkData, At, Delete, HostOK
<1>4. ASSUME NEW t \in Term,
             CreateVM(t) \/ ConfigureVM(t) \/ AttachDisk(t) \/ Snapshot(t) \/ RestoreSnapshot(t)
      PROVE  disks' = disks
  BY <1>4 DEF CreateVM, ConfigureVM, AttachDisk, Snapshot, RestoreSnapshot
<1>5. ASSUME NEW i \in Inst, Installs(i)
      PROVE  disks' = disks
  BY <1>5 DEF Installs
<1>6. SameMachines => disks' = disks
  BY DEF SameMachines
<1>7. QED
  BY <1>1, <1>2, <1>3, <1>4, <1>5, <1>6, MachineFrame

LEMMA EnoughStep ==
  ASSUME SerialInv, Told, Enough, OneTerminal, OneSetting, [Next]_vars
  PROVE  Enough'
<1> USE DEF SerialInv, Types
<1> DEFINE After == {"poweroff"} \cup Removal
<1>1. SUFFICES ASSUME NEW u \in Term, Busy(u)', cmd'[u].kind = "destroy", cmd'[u].pc \in After
               PROVE  \A r \in Setting[cmd'[u].inst] :
                        Images(CountOf(r)) \subseteq Images(cmd'[u].count)
  BY DEF Enough
<1>2. CASE Waited(u)
  BY <1>1, <1>2 DEF Waited, Enough
<1>3. CASE Confirm(u)
  <2> DEFINE i == cmd[u].inst
             s == cmd[u].set
             n == DestroyCount(i, s)
  <2>1. /\ Busy(u) /\ i \in Inst /\ s \in Setting[i] /\ s \in Settings
        /\ cmd'[u].inst = i /\ cmd'[u].count = n
    BY <1>1, <1>3, Goes, FieldTypes DEF At, Homes, Home
  <2>2. \A r \in Setting[i] : r = s
    BY <2>1 DEF OneSetting
  <2>3. s.count \in Counts /\ CountOf(s) \in Counts
    BY <2>1, SettingTypes
  <2>4. /\ CountOf(s).lab <= s.count.lab /\ CountOf(s).install <= s.count.install
    BY <2>3 DEF CountOf, None, Counts
  <2>5. n.lab \in Nat /\ n.install \in Nat /\ CountOf(s).lab <= n.lab /\ CountOf(s).install <= n.install
    <3>1. CASE "provision" \in done[i]
      <4>1. info[i].count = CountOf(s)
        BY <2>1, <2>2, <3>1 DEF Told
      <4>2. n = [lab |-> CountOf(s).lab,
                 install |-> IF CountOf(s).install = 0 THEN s.count.install
                                                       ELSE CountOf(s).install]
        BY <3>1, <4>1 DEF DestroyCount
      <4>3. QED
        BY <2>3, <2>4, <4>2 DEF Counts
    <3>2. CASE "provision" \notin done[i]
      BY <2>3, <2>4, <3>2 DEF DestroyCount, Counts
    <3>3. QED
      BY <3>1, <3>2
  <2>6. Images(CountOf(s)) \subseteq Images(n)
    BY <2>3, <2>5 DEF Images, Counts
  <2>7. QED
    BY <2>1, <2>2, <2>6
<1>4. CASE \/ PowerOff(u) \/ Unregister(u) \/ UnlinkPrimary(u) \/ UnlinkFiles(u)
           \/ UnlinkState(u) \/ UnlinkData(u)
  <2>1. Busy(u) /\ Same(u) /\ cmd[u].pc \in After
    BY <1>1, <1>4, Goes DEF At, Removal
  <2>2. QED
    BY <1>1, <2>1 DEF Enough, Same, Reads
<1>5. ASSUME Moves(u), ~Confirm(u), ~PowerOff(u), ~Unregister(u), ~UnlinkPrimary(u),
             ~UnlinkFiles(u), ~UnlinkState(u), ~UnlinkData(u)
      PROVE  FALSE
  BY <1>1, <1>5, Goes DEF Moves, Removal
<1>6. CASE Began(u)
  BY <1>1, <1>6 DEF Began, Removal
<1>7. QED
  BY <1>1, <1>2, <1>3, <1>4, <1>5, <1>6, LastStep DEF Moves

LEMMA ClearedStep ==
  ASSUME SerialInv, Cleared, OneTerminal, [Next]_vars
  PROVE  Cleared'
<1> USE DEF SerialInv, Types
<1> DEFINE After == {"files", "state", "data"}
<1>1. SUFFICES ASSUME NEW u \in Term, Busy(u)', cmd'[u].pc \in After
               PROVE  /\ 0 \notin disks'[cmd'[u].inst]
                      /\ cmd'[u].pc \in {"state", "data"} =>
                           files'[cmd'[u].inst] \subseteq Seeds \ {"cidata"}
                      /\ cmd'[u].pc = "data" => cmd'[u].inst \notin stateFile'
  BY DEF Cleared, At
<1>2. CASE Waited(u) \/ UnlinkData(u)
  <2> DEFINE i == cmd[u].inst
  <2>1. Busy(u) /\ cmd[u].pc = cmd'[u].pc /\ i = cmd'[u].inst /\ i \in Inst
    BY <1>1, <1>2, Goes, FieldTypes DEF Waited, Same, At
  <2>2. /\ 0 \notin disks[i]
        /\ cmd[u].pc \in {"state", "data"} => files[i] \subseteq Seeds \ {"cidata"}
        /\ cmd[u].pc = "data" => i \notin stateFile
    BY <1>1, <2>1 DEF Cleared, At
  <2>3. ASSUME NEW t \in Term, \/ ~Busy(t) \/ MarkProvision(t) \/ EndProvision(t)
                               \/ MarkApply(t) \/ PrepareMedia(t)
        PROVE  FALSE
    BY <1>1, <2>1, <2>3 DEF MarkProvision, EndProvision, MarkApply, PrepareMedia, At, OneTerminal
  <2>4. ASSUME NEW t \in Term, UnlinkFiles(t)
        PROVE  FALSE
    <3>1. t = u /\ At(u, "files") /\ cmd'[u].pc = "state"
      BY <1>1, <2>4, Goes DEF OneTerminal, UnlinkFiles
    <3>2. QED
      BY <2>1, <3>1 DEF At
  <2>5. 0 \notin disks'[i]
    <3>1. ASSUME NEW t \in Term, \/ CreateVM(t) \/ ConfigureVM(t) \/ CreateDisk(t) \/ AttachDisk(t)
                                 \/ Unregister(t) \/ UnlinkPrimary(t) \/ Snapshot(t)
                                 \/ RestoreSnapshot(t)
          PROVE  FALSE
      BY <1>1, <2>1, <3>1 DEF CreateVM, ConfigureVM, CreateDisk, AttachDisk, Unregister,
         UnlinkPrimary, Snapshot, RestoreSnapshot, At, OneTerminal
    <3>2. ASSUME NEW t \in Term, UnlinkData(t)
          PROVE  0 \notin disks'[i]
      BY <2>1, <2>2, <3>2, FieldTypes DEF UnlinkData, At, HostOK
    <3>3. ASSUME NEW j \in Inst, Installs(j)
          PROVE  disks' = disks
      BY <3>3 DEF Installs
    <3>4. SameMachines => disks' = disks
      BY DEF SameMachines
    <3>5. QED
      BY <2>2, <3>1, <3>2, <3>3, <3>4, MachineFrame
  <2>6. FilesKept
    BY <2>3, <2>4, FileFrame
  <2>7. QED
    BY <2>1, <2>2, <2>5, <2>6 DEF FilesKept
<1>3. CASE UnlinkPrimary(u)
  <2>1. cmd'[u].pc = "files" /\ cmd'[u].inst = cmd[u].inst /\ cmd[u].inst \in Inst
    BY <1>1, <1>3, Goes, FieldTypes DEF Same, At
  <2>2. QED
    BY <1>3, <2>1 DEF UnlinkPrimary, HostOK
<1>4. CASE UnlinkFiles(u)
  <2>1. /\ At(u, "files") /\ cmd'[u].inst = cmd[u].inst /\ cmd[u].inst \in Inst
        /\ cmd'[u].pc = "state"
    BY <1>1, <1>4, Goes, FieldTypes DEF Same, At
  <2>2. 0 \notin disks[cmd[u].inst] /\ disks' = disks
    BY <1>4, <2>1 DEF UnlinkFiles, Cleared, At
  <2>3. files'[cmd[u].inst] = files[cmd[u].inst] \ {"cidata", "password"}
    BY <1>4, <2>1 DEF UnlinkFiles, HostOK
  <2>4. files[cmd[u].inst] \subseteq {"password"} \cup Seeds
    BY <2>1 DEF HostOK
  <2>5. QED
    BY <2>1, <2>2, <2>3, <2>4
<1>5. CASE UnlinkState(u)
  <2>1. At(u, "state") /\ cmd'[u].inst = cmd[u].inst /\ cmd[u].inst \in Inst
    BY <1>1, <1>5, Goes, FieldTypes DEF Same, At
  <2>2. QED
    BY <1>5, <2>1 DEF UnlinkState, Cleared, At
<1>6. ASSUME Moves(u), ~UnlinkPrimary(u), ~UnlinkFiles(u), ~UnlinkState(u), ~UnlinkData(u)
      PROVE  FALSE
  BY <1>1, <1>6, Goes, Zenon DEF Moves
<1>7. QED
  BY <1>1, <1>2, <1>3, <1>4, <1>5, <1>6, LastStep DEF Began

\* A destroy that comes to its end leaves no image, VM, state file or console
\* password, in an environment that stays the same; a seed may be left, if it
\* is not the one destroy names (lab/cli.py:231-257).
THEOREM Completion ==
  ASSUME OneTerminal, OneSetting
  PROVE  Spec => []DestroyComplete
<1> DEFINE I == Bounded /\ Enough /\ Cleared
<1>1. Init => I
  BY DEF Init, Bounded, Enough, Cleared, At, Busy
<1>2. GuestInv /\ RecordInv /\ I /\ [Next]_vars => I'
  BY BoundedStep, EnoughStep, ClearedStep DEF GuestInv, RecordInv
<1>3. GuestInv /\ RecordInv /\ I => DestroyComplete
  <2>1. SUFFICES ASSUME GuestInv, RecordInv, I, NEW t \in Term, At(t, "data"), ToUnlink(t) = {}
                 PROVE  /\ disks[cmd[t].inst] = {} /\ vm[cmd[t].inst] = NoVM
                        /\ files[cmd[t].inst] \subseteq Seeds \ {"cidata"}
                        /\ cmd[t].inst \notin stateFile
    BY DEF DestroyComplete, Destroyed
  <2> DEFINE i == cmd[t].inst
  <2>2. Busy(t) /\ i \in Inst /\ cmd[t].pc = "data" /\ cmd[t].kind = "destroy" /\ vm[i] = NoVM
    <3>1. cmd[t].kind = "destroy"
      BY <2>1 DEF GuestInv, SerialInv, Types, At, Busy, CmdOK, Course, Pipeline, Removal
    <3>2. QED
      BY <2>1, <3>1, FieldTypes DEF GuestInv, SerialInv, Types, At, Gone
  <2>3. 0 \notin disks[i] /\ i \notin stateFile /\ files[i] \subseteq Seeds \ {"cidata"}
    BY <2>1, <2>2 DEF Cleared, At
  <2>4. disks[i] = {}
    <3>1. SUFFICES ASSUME NEW d \in disks[i]
                   PROVE  FALSE
      OBVIOUS
    <3>2. PICK r \in Setting[i] : disks[i] \subseteq Images(CountOf(r))
      BY <2>1, <2>2 DEF Bounded
    <3>3. d \in Images(cmd[t].count)
      BY <2>1, <2>2, <3>2 DEF Enough, Removal
    <3>4. QED
      BY <2>1, <2>3, <3>3 DEF ToUnlink
  <2>5. QED
    BY <2>2, <2>3, <2>4
<1>4. QED
  BY <1>1, <1>2, <1>3, Records, PTL DEF Spec

-----------------------------------------------------------------------------

\* A command past its prompt.
Running(t) == Busy(t) /\ ~At(t, "confirm")

\* The images that create_disk (vbox.py) still has to make, one a step; ToUnlink is
\* what destroy has.
ToCreate(t) == Images(cmd[t].count) \ disks[cmd[t].inst]

\* The work a command still has: the stations to its end, and the images it may
\* have to create, attach or unlink on the way.
StepsAhead(pc) ==
  CASE pc = "provision" -> 13
    [] pc = "media" -> 12
    [] pc = "createvm" -> 11
    [] pc = "configure" -> 10
    [] pc = "disks" -> 9
    [] pc = "attach" -> 8
    [] pc = "start" -> 7
    [] pc \in {"wait", "poweroff"} -> 6
    [] pc \in {"mark", "destroy"} -> 5
    [] pc \in {"provisioned", "primary"} -> 4
    [] pc \in {"apply", "files"} -> 3
    [] pc \in {"playbooks", "state"} -> 2
    [] OTHER -> 1

ImagesAhead(t) ==
  LET all == LastPort(cmd[t].count) + 1 IN
    CASE cmd[t].pc \in {"provision", "media", "createvm", "configure"} -> all + all
      [] cmd[t].pc = "disks" -> Cardinality(ToCreate(t)) + all
      [] cmd[t].pc = "attach" -> IF cmd[t].at >= all THEN 0 ELSE all - cmd[t].at
      [] cmd[t].pc \in {"poweroff", "destroy", "primary", "files", "state"} -> all
      [] cmd[t].pc = "data" -> Cardinality(ToUnlink(t))
      [] OTHER -> 0

Work(t) == StepsAhead(cmd[t].pc) + ImagesAhead(t)

\* What is left of the images for some counts is no more than them all.
LEMMA Remains ==
  ASSUME NEW n \in Counts, NEW S
  PROVE  LET all == LastPort(n) + 1 IN
           /\ LastPort(n) \in Nat
           /\ IsFiniteSet(Images(n) \ S) /\ Cardinality(Images(n) \ S) \in 0..all
           /\ IsFiniteSet((S \cap Images(n)) \ {0})
           /\ Cardinality((S \cap Images(n)) \ {0}) \in 0..all
<1> DEFINE all == LastPort(n) + 1
<1>1. n.lab \in Nat /\ n.install \in Nat
  BY DEF Counts
<1>2. IsFiniteSet(Images(n)) /\ Cardinality(Images(n)) = all /\ LastPort(n) \in Nat
  <2>1. /\ IsFiniteSet((0 - n.install)..n.lab)
        /\ Cardinality((0 - n.install)..n.lab) =
             IF 0 - n.install > n.lab THEN 0 ELSE n.lab - (0 - n.install) + 1
    <3>1. 0 - n.install \in Int /\ n.lab \in Int
      BY <1>1
    <3>2. QED
      BY <3>1, FS_Interval
  <2>2. QED
    BY <1>1, <2>1 DEF Images, LastPort
<1>3. ASSUME NEW T \in SUBSET Images(n)
      PROVE  IsFiniteSet(T) /\ Cardinality(T) \in 0..all
  <2>1. IsFiniteSet(T) /\ Cardinality(T) <= all
    BY <1>2, FS_Subset
  <2>2. Cardinality(T) \in Nat
    BY <2>1, FS_CardinalityType
  <2>3. QED
    BY <1>2, <2>1, <2>2
<1>4. Images(n) \ S \in SUBSET Images(n) /\ (S \cap Images(n)) \ {0} \in SUBSET Images(n)
  OBVIOUS
<1>5. QED
  BY <1>2, <1>3, <1>4

\* The numbers the work is made of.
LEMMA WorkTypes ==
  ASSUME CmdOK, NEW t \in Term, Busy(t)
  PROVE  LET all == LastPort(cmd[t].count) + 1 IN
         /\ LastPort(cmd[t].count) \in Nat /\ cmd[t].at \in Nat
         /\ cmd[t].inst \in Inst
         /\ Cardinality(ToCreate(t)) \in 0..all
         /\ Cardinality(ToUnlink(t)) \in 0..all
         /\ ImagesAhead(t) \in Nat
         /\ StepsAhead(cmd[t].pc) \in 1..13
         /\ Work(t) \in Nat
<1> DEFINE all == LastPort(cmd[t].count) + 1
<1>1. cmd[t].count \in Counts /\ cmd[t].at \in Nat /\ cmd[t].inst \in Inst
  BY FieldTypes
<1>2. /\ LastPort(cmd[t].count) \in Nat
      /\ Cardinality(ToCreate(t)) \in 0..all
      /\ Cardinality(ToUnlink(t)) \in 0..all
  BY <1>1, Remains DEF ToCreate, ToUnlink
<1>3. ImagesAhead(t) \in Nat
  BY <1>1, <1>2 DEF ImagesAhead
<1>4. StepsAhead(cmd[t].pc) \in 1..13
  BY DEF StepsAhead
<1>5. QED
  BY <1>1, <1>2, <1>3, <1>4 DEF Work

\* Every step of a command that goes on leaves it less to do.
LEMMA WorkFalls ==
  ASSUME Types, Types', NEW t \in Term, Step(t), Busy(t)'
  PROVE  Running(t)' /\ Work(t)' \in Nat /\ Work(t)' < Work(t)
<1> USE DEF Types
<1> DEFINE Less == Running(t)' /\ Work(t)' < Work(t)
<1> USE DEF Running
<1>1. Busy(t)
  BY DEF Step, ProvisionStep, ApplyStep, DestroyStep, Raise, Refused, At, Busy,
         BeginProvision, PrepareMedia, CreateVM, ConfigureVM, CreateDisk, AttachDisk,
         AttachMedia, StartVM, SSHAnswers, SSHTimesOut, MarkProvision, EndProvision,
         BeginApply, RunPlaybooks, MarkApply, PowerOff, Unregister, UnlinkPrimary,
         UnlinkFiles, UnlinkState, UnlinkData, RestoreSnapshot
<1> DEFINE all == LastPort(cmd[t].count) + 1
<1>2. /\ cmd[t].count \in Counts /\ LastPort(cmd[t].count) \in Nat
      /\ cmd[t].at \in Nat /\ cmd[t].inst \in Inst
      /\ Cardinality(ToCreate(t)) \in 0..all
      /\ Cardinality(ToUnlink(t)) \in 0..all
  BY <1>1, WorkTypes, FieldTypes
<1>3. /\ LastPort(cmd'[t].count) \in Nat /\ cmd'[t].at \in Nat
      /\ Cardinality(ToCreate(t))' \in 0..(LastPort(cmd'[t].count) + 1)
      /\ Cardinality(ToUnlink(t))' \in 0..(LastPort(cmd'[t].count) + 1)
  <2>1. cmd'[t].count \in Counts /\ cmd'[t].at \in Nat
    BY DEF CmdOK, Commands, Busy
  <2>2. QED
    BY <2>1, Remains DEF ToCreate, ToUnlink
<1>4. CASE BeginProvision(t) \/ PrepareMedia(t) \/ CreateVM(t) \/ ConfigureVM(t)
  BY <1>2, <1>3, <1>4, Goes DEF Work, StepsAhead, ImagesAhead, Same, Reads, At
<1>5. CASE CreateDisk(t)
  <2> DEFINE i == cmd[t].inst
  <2>1. At(t, "disks") /\ Same(t) /\ cmd'[t].pc \in {"disks", "attach"}
    BY <1>5, Goes
  <2>2. CASE ToCreate(t) = {}
    <3>1. cmd'[t].pc = "attach"
      BY <1>5, <1>1, <2>2 DEF CreateDisk, ToCreate, Goto, CmdOK, Commands, Busy
    <3>2. QED
      BY <1>2, <1>3, <2>1, <3>1 DEF Work, StepsAhead, ImagesAhead, Same, Reads, At
  <2>3. CASE ToCreate(t) # {}
    <3>1. PICK d \in ToCreate(t) : disks' = [disks EXCEPT ![i] = @ \cup {d}] /\ cmd' = cmd
      BY <1>5, <2>3 DEF CreateDisk, ToCreate
    <3>2. ToCreate(t)' = ToCreate(t) \ {d}
      BY <1>2, <3>1 DEF ToCreate, HostOK
    <3>3. IsFiniteSet(ToCreate(t))
      BY <1>2, Remains DEF ToCreate
    <3>4. Cardinality(ToCreate(t))' = Cardinality(ToCreate(t)) - 1
      BY <3>1, <3>2, <3>3, FS_RemoveElement
    <3>5. QED
      BY <1>2, <1>3, <2>1, <3>1, <3>4 DEF Work, StepsAhead, ImagesAhead, At
  <2>4. QED
    BY <2>2, <2>3
<1>6. CASE AttachDisk(t)
  <2>1. At(t, "attach") /\ Same(t) /\ cmd'[t].pc = "attach" /\ cmd'[t].at = cmd[t].at + 1
    BY <1>6, Goes
  <2>2. cmd[t].at <= LastPort(cmd[t].count)
    BY <1>6 DEF AttachDisk
  <2>3. QED
    BY <1>2, <2>1, <2>2 DEF Work, StepsAhead, ImagesAhead, Same, At
<1>7. CASE AttachMedia(t) \/ StartVM(t) \/ SSHAnswers(t) \/ MarkProvision(t) \/ EndProvision(t)
           \/ BeginApply(t) \/ RunPlaybooks(t)
  BY <1>2, <1>3, <1>7, Goes DEF Work, StepsAhead, ImagesAhead, At
<1>8. CASE PowerOff(t) \/ Unregister(t) \/ UnlinkPrimary(t) \/ UnlinkFiles(t) \/ UnlinkState(t)
  BY <1>2, <1>3, <1>8, Goes DEF Work, StepsAhead, ImagesAhead, Same, Reads, At
<1>9. CASE UnlinkData(t)
  <2> DEFINE i == cmd[t].inst
  <2>1. At(t, "data") /\ Same(t)
    BY <1>9, Goes
  <2>2. ToUnlink(t) # {}
    BY <1>9 DEF UnlinkData, End, Busy, CmdOK
  <2>3. PICK d \in ToUnlink(t) : disks' = [disks EXCEPT ![i] = @ \ {d}] /\ cmd' = cmd
    BY <1>9, <2>2 DEF UnlinkData
  <2>4. ToUnlink(t)' = ToUnlink(t) \ {d}
    BY <1>2, <2>3 DEF ToUnlink, HostOK
  <2>5. IsFiniteSet(ToUnlink(t))
    BY <1>2, Remains DEF ToUnlink
  <2>6. Cardinality(ToUnlink(t))' = Cardinality(ToUnlink(t)) - 1
    BY <2>3, <2>4, <2>5, FS_RemoveElement
  <2>7. QED
    BY <1>2, <1>3, <2>1, <2>3, <2>6 DEF Work, StepsAhead, ImagesAhead, At
<1>10. CASE SSHTimesOut(t) \/ MarkApply(t) \/ RestoreSnapshot(t) \/ Raise(t)
  BY <1>10 DEF SSHTimesOut, MarkApply, RestoreSnapshot, Raise, End, Busy, CmdOK
<1>11. Work(t)' \in Nat
  BY <1>3 DEF Work, StepsAhead, ImagesAhead
<1>12. QED
  BY <1>4, <1>5, <1>6, <1>7, <1>8, <1>9, <1>10, <1>11
     DEF Step, ProvisionStep, ApplyStep, DestroyStep

\* Nothing but its own steps changes what a command has left to do.
LEMMA WorkKept ==
  ASSUME Types, OneTerminal, NEW t \in Term, Running(t), [Next]_vars, ~Step(t), Busy(t)'
  PROVE  Running(t)' /\ Work(t)' = Work(t)
<1> USE DEF Types
<1>1. Busy(t) /\ ~Confirm(t)
  BY DEF Running, Confirm
<1>2. ~Moves(t)
  BY <1>1 DEF Moves, Step, ProvisionStep, ApplyStep, DestroyStep
<1>3. cmd' = cmd
  BY <1>1, <1>2, LastStep DEF Began, Waited
<1>4. disks'[cmd[t].inst] = disks[cmd[t].inst]
  <2>1. cmd[t].inst \in Inst
    BY <1>1, FieldTypes
  <2>2. CASE SameMachines
    BY <2>1, <2>2 DEF SameMachines
  <2>3. CASE \E i \in Inst : Installs(i)
    BY <2>3 DEF Installs
  <2>4. ASSUME NEW u \in Term,
               \/ CreateVM(u) \/ ConfigureVM(u) \/ CreateDisk(u) \/ AttachDisk(u)
               \/ Unregister(u) \/ UnlinkPrimary(u) \/ UnlinkData(u)
               \/ Snapshot(u) \/ RestoreSnapshot(u)
        PROVE  FALSE
    BY <1>1, <2>4 DEF OneTerminal, Snapshot, Step, ProvisionStep, DestroyStep
  <2>5. QED
    BY <2>2, <2>3, <2>4, MachineFrame
<1>5. ToCreate(t)' = ToCreate(t) /\ ToUnlink(t)' = ToUnlink(t)
  BY <1>3, <1>4 DEF ToCreate, ToUnlink
<1>6. QED
  BY <1>3, <1>5 DEF Running, Busy, At, Work, ImagesAhead, StepsAhead

\* A command that is past its prompt, or has ended, with at most n to do.
Within(t, n) == ~Busy(t) \/ (Running(t) /\ Work(t) <= n)

\* With the steps it is given, a command gets from n to k.
CanStep(t) == ENABLED <<Step(t)>>_vars

Falls(t, n, k) ==
  Spec /\ Fair(t) /\ [](Running(t) => CanStep(t)) =>
    ((Running(t) /\ Within(t, n)) ~> Within(t, k))

\* provision, apply and destroy (lab/) have no loop but those over the disks:
\* with any number of them the work left to a command, once past its prompt,
\* never rises, and comes down from n+1 to n if it goes on when it can.
THEOREM Descent ==
  ASSUME OneTerminal, NEW t \in Term, NEW n \in Nat
  PROVE  Falls(t, n + 1, n)
<1>1. Types /\ Types' /\ [Next]_vars /\ Running(t) /\ Within(t, n + 1) =>
        (Running(t) /\ Within(t, n + 1))' \/ Within(t, n)'
  <2> SUFFICES ASSUME Types, Types', [Next]_vars, Running(t), Within(t, n + 1), Busy(t)'
               PROVE  (Running(t) /\ Within(t, n + 1))'
    BY DEF Within
  <2>1. Busy(t) /\ Work(t) <= n + 1 /\ Work(t) \in Nat
    BY WorkTypes DEF Running, Within, Types
  <2>2. CASE Step(t)
    BY <2>1, <2>2, WorkFalls DEF Within
  <2>3. CASE ~Step(t)
    BY <2>1, <2>3, WorkKept DEF Within
  <2>4. QED
    BY <2>2, <2>3
<1>2. Types /\ Types' /\ Running(t) /\ Within(t, n + 1) /\ <<Step(t)>>_vars => Within(t, n)'
  <2> SUFFICES ASSUME Types, Types', Running(t), Within(t, n + 1), Step(t), Busy(t)'
               PROVE  Within(t, n)'
    BY DEF Within
  <2>1. Work(t) <= n + 1 /\ Work(t) \in Nat
    BY WorkTypes DEF Running, Within, Types
  <2>2. QED
    BY <2>1, WorkFalls DEF Within
<1>3. QED
  BY <1>1, <1>2, Courses, PTL DEF Spec, Types, Falls, Fair, CanStep

\* A command's work falls by d, whatever it is.
Drops(t, d) == \A n \in Nat : Falls(t, n + d, n)

\* Two stretches in a row make one; twice the drop in one.
LEMMA Stretches ==
  ASSUME NEW t \in Term, NEW n \in Nat, NEW m \in Nat, NEW k \in Nat
  PROVE  Falls(t, n, m) /\ Falls(t, m, k) => Falls(t, n, k)
<1>1. Within(t, m) => Within(t, k) \/ (Running(t) /\ Within(t, m))
  BY DEF Within
<1>2. QED
  BY <1>1, PTL DEF Falls

LEMMA Doubled ==
  ASSUME NEW t \in Term, NEW d \in Nat, Drops(t, d)
  PROVE  Drops(t, d + d)
<1>1. SUFFICES ASSUME NEW n \in Nat
               PROVE  Falls(t, n + (d + d), n)
  BY DEF Drops
<1>2. Falls(t, n + d, n)
  BY DEF Drops
<1>3. Falls(t, (n + d) + d, n + d)
  BY DEF Drops
<1>4. Falls(t, (n + d) + d, n)
  BY <1>2, <1>3, Stretches
<1>5. (n + d) + d = n + (d + d)
  OBVIOUS
<1>6. QED
  BY <1>4, <1>5

\* The SATA controller has 30 ports (provision.py:286), one for the primary disk.
FewDisks == \A i \in Inst : \A s \in Setting[i] : LastPort(s.count) <= 29

\* So no command ever counts more of a kind; destroy may have one kind from the
\* record and the other from its environment.
Few(n) == n.lab <= 29 /\ n.install <= 29

Small ==
  /\ \A t \in Term : Busy(t) => Few(cmd[t].count)
  /\ \A i \in Inst : "provision" \in done[i] => Few(info[i].count)

LEMMA SmallStep ==
  ASSUME SerialInv, SerialInv', Small, OneTerminal, FewDisks, [Next]_vars
  PROVE  Small'
<1> USE DEF SerialInv, Types
<1>1. \A i \in Inst : \A s \in Setting[i] : Few(s.count) /\ Few(CountOf(s))
  <2>1. \A i \in Inst : \A s \in Setting[i] : s.count \in Counts /\ LastPort(s.count) <= 29
    BY SettingTypes DEF FewDisks
  <2>2. \A i \in Inst : \A s \in Setting[i] : Few(s.count)
    BY <2>1 DEF Few, LastPort, Counts
  <2>3. Few(None)
    BY DEF Few, None
  <2>4. QED
    BY <2>2, <2>3 DEF CountOf
<1>2. ASSUME NEW u \in Term, Busy(u)'
      PROVE  Few(cmd'[u].count)
  <2>1. CASE Began(u)
    <3>1. cmd'[u].set \in Setting[Target'] /\ Target' \in Inst
      BY <2>1, InstAssumption DEF Began, Home, HostOK, Target
    <3>2. QED
      BY <1>1, <2>1, <3>1 DEF Began
  <2>2. CASE Waited(u)
    BY <2>2 DEF Waited, Small
  <2>3. CASE Confirm(u)
    <3>1. Busy(u) /\ cmd'[u].count = DestroyCount(cmd[u].inst, cmd[u].set)
      BY <1>2, <2>3, Goes DEF At
    <3>2. cmd[u].set \in Setting[cmd[u].inst] /\ cmd[u].inst \in Inst
      BY <3>1, FieldTypes DEF Homes, Home
    <3>3. QED
      BY <1>1, <3>1, <3>2 DEF DestroyCount, Small, Few
  <2>4. CASE Moves(u) /\ ~Confirm(u)
    BY <1>2, <2>4, Goes DEF Moves, Same, At, Small
  <2>5. QED
    BY <1>2, <2>1, <2>2, <2>3, <2>4, LastStep
<1>3. ASSUME NEW i \in Inst, "provision" \in done'[i]
      PROVE  Few(info'[i].count)
  <2>1. CASE RecordKept
    BY <1>3, <2>1 DEF RecordKept, Small
  <2>2. ASSUME NEW t \in Term, MarkProvision(t)
        PROVE  Few(info'[i].count)
    <3>1. Busy(t) /\ cmd[t].inst \in Inst /\ Few(cmd[t].count)
      BY <2>2, FieldTypes DEF MarkProvision, At, Small
    <3>2. /\ info'[cmd[t].inst].count = cmd[t].count
          /\ i # cmd[t].inst => info'[i] = info[i] /\ done'[i] = done[i]
      BY <2>2, <3>1 DEF MarkProvision, HostOK
    <3>3. QED
      BY <1>3, <3>1, <3>2 DEF Small
  <2>3. QED
    BY <2>1, <2>2, RecordFrame
<1>4. QED
  BY <1>2, <1>3 DEF Small

\* Every command past its prompt can take a step.  Endings assumes it, ENABLED
\* being out of the provers' reach: a reachable state where it failed would be
\* a counterexample of TLC's to CommandsEnd.
Ready == \A t \in Term : Running(t) => CanStep(t)

\* Every provision, apply and destroy (lab/) comes to its end once past its
\* prompt, done or with an error, for any instances and settings with as many
\* disks as the controller has ports for.
THEOREM Endings ==
  ASSUME OneTerminal, FewDisks
  PROVE  FairSpec /\ []Ready => CommandsEnd
<1>1. ASSUME NEW t \in Term
      PROVE  FairSpec /\ []Ready => (Busy(t) /\ ~At(t, "confirm") ~> ~Busy(t))
  <2>1. Falls(t, 256, 0)
    <3>1. Drops(t, 1)
      BY Descent DEF Drops
    <3>2. Drops(t, 1 + 1) /\ 1 + 1 = 2
      BY <3>1, Doubled
    <3>3. Drops(t, 2 + 2) /\ 2 + 2 = 4
      BY <3>2, Doubled
    <3>4. Drops(t, 4 + 4) /\ 4 + 4 = 8
      BY <3>3, Doubled
    <3>5. Drops(t, 8 + 8) /\ 8 + 8 = 16
      BY <3>4, Doubled
    <3>6. Drops(t, 16 + 16) /\ 16 + 16 = 32
      BY <3>5, Doubled
    <3>7. Drops(t, 32 + 32) /\ 32 + 32 = 64
      BY <3>6, Doubled
    <3>8. Drops(t, 64 + 64) /\ 64 + 64 = 128
      BY <3>7, Doubled
    <3>9. Drops(t, 128 + 128) /\ 128 + 128 = 256
      BY <3>8, Doubled
    <3>10. Falls(t, 0 + 256, 0)
      BY <3>9 DEF Drops
    <3>11. QED
      BY <3>10
  <2>2. Spec => []Small
    <3>1. Init => Small
      BY DEF Init, Small, Busy
    <3>2. SerialInv /\ SerialInv' /\ Small /\ [Next]_vars => Small'
      BY SmallStep
    <3>3. QED
      BY <3>1, <3>2, Serial, PTL DEF Spec
  <2>3. SerialInv /\ Small /\ Running(t) => Within(t, 256)
    <3>1. SUFFICES ASSUME Types, Small, Running(t)
                   PROVE  Work(t) <= 256
      BY DEF Within, SerialInv
    <3>2. LastPort(cmd[t].count) <= 58
      <4>1. cmd[t].count \in Counts /\ Few(cmd[t].count)
        BY <3>1, FieldTypes DEF Types, Running, Small
      <4>2. QED
        BY <4>1 DEF Few, LastPort, Counts
    <3>3. ImagesAhead(t) <= 118 /\ StepsAhead(cmd[t].pc) \in 1..13
      <4>1. LET all == LastPort(cmd[t].count) + 1 IN
            /\ LastPort(cmd[t].count) \in Nat /\ cmd[t].at \in Nat
            /\ Cardinality(ToCreate(t)) \in 0..all
            /\ Cardinality(ToUnlink(t)) \in 0..all
            /\ StepsAhead(cmd[t].pc) \in 1..13
        BY <3>1, WorkTypes DEF Types, Running
      <4>2. QED
        BY <3>2, <4>1 DEF ImagesAhead
    <3>4. ImagesAhead(t) \in Nat
      BY <3>1, WorkTypes DEF Types, Running
    <3>5. QED
      BY <3>2, <3>3, <3>4 DEF Work
  <2>4. SerialInv /\ Within(t, 0) => ~Busy(t)
    BY WorkTypes DEF Within, Work, SerialInv, Types
  <2>5. FairSpec => Fair(t)
    BY DEF FairSpec
  <2>6. Ready => (Running(t) => CanStep(t))
    BY DEF Ready
  <2>7. Busy(t) /\ ~At(t, "confirm") <=> Running(t)
    BY DEF Running
  <2>8. QED
    BY <2>1, <2>2, <2>3, <2>4, <2>5, <2>6, <2>7, Serial, PTL DEF FairSpec, Falls
<1>2. QED
  BY <1>1 DEF CommandsEnd

=============================================================================
