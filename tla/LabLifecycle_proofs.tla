------------------------- MODULE LabLifecycle_proofs -------------------------
(***************************************************************************)
(* Proofs about LabLifecycle for any instances, ports, environments and    *)
(* disk counts, and, where it says so, any number of terminals.            *)
(***************************************************************************)
EXTENDS LabLifecycle, TLAPS

\* A command keeps to the steps of its kind; a destroy and a restore work on
\* the instance they were asked about, wherever the pointer goes.
Pipeline == {"provision", "media", "createvm", "configure", "disks", "attach", "start",
             "wait", "mark", "provisioned", "apply", "playbooks", "markapply"}

Removal == {"destroy", "primary", "files", "state", "data"}

Course(c) ==
  \/ c.kind \in {"create", "all", "apply"} /\ c.pc \in Pipeline
  \/ c.kind = "destroy" /\ c.pc \in {"confirm", "poweroff"} \cup Removal /\ c.inst = c.home
  \/ c.kind = "restore" /\ c.pc \in {"poweroff", "restore"} /\ c.inst = c.home

CmdOK == cmd \in [Term -> {c \in Commands : Course(c)} \cup {NoCommand}]

\* TypeOK without the commands; the VMs and the ports they hold apart.
VMOK ==
  /\ vm \in [Inst -> Machines \cup {NoVM}]
  /\ owner \in [Port -> Inst \cup {NoInst}]
  /\ \A q \in Port : owner[q] # NoInst => On(owner[q]) /\ vm[owner[q]].port = q

HostOK ==
  /\ pointer \in Inst \cup {NoInst}
  /\ VMOK
  /\ disks \in [Inst -> SUBSET Int]
  /\ files \in [Inst -> SUBSET ({"password"} \cup Seeds)]
  /\ installed \subseteq {i \in Inst : 0 \in disks[i]}
  /\ snapshots \in [Inst -> SUBSET SavedStates]
  /\ stateFile \subseteq Inst
  /\ done \in [Inst -> SUBSET {"provision", "apply"}]
  /\ \A i \in Inst : done[i] # {} => i \in stateFile
  /\ info \in [Inst -> [count : Counts, windows : BOOLEAN]]
  /\ inventory \in Port \cup {NoPort}

-----------------------------------------------------------------------------

\* The settings a command can run in are settings.
LEMMA SettingTypes ==
  /\ \A i \in Inst : Setting[i] \subseteq Settings
  /\ \A s \in Settings : /\ CountOf(s) \in Counts /\ s.count \in Counts
                          /\ s.port \in Port /\ s.windows \in BOOLEAN /\ s.seed \in Seeds
  BY SettingAssumption DEF Settings, CountOf, None, Counts

\* The images and the last port of counts, and the disk of a port, are integers.
LEMMA CountTypes ==
  ASSUME NEW n \in Counts
  PROVE  /\ n.lab \in Nat /\ n.install \in Nat /\ LastPort(n) \in Nat
         /\ Images(n) \subseteq Int
         /\ \A p \in Nat : DiskAt(n, p) \in Int
  BY DEF Counts, LastPort, Images, DiskAt

\* The instance the pointer stands for.
LEMMA TargetType ==
  ASSUME HostOK
  PROVE  Target \in Inst
  BY InstAssumption DEF HostOK, Target

\* A command that goes on along its course, ends or begins is a command.
LEMMA PipelineGoto ==
  ASSUME CmdOK, NEW t \in Term, NEW p \in Pipeline, NEW q \in Pipeline, At(t, p), Goto(t, q)
  PROVE  CmdOK'
<1>1. cmd[t] \in Commands /\ cmd[t].kind \in {"create", "all", "apply"}
  BY DEF CmdOK, At, Busy, Course, Pipeline, Removal
<1>2. [cmd[t] EXCEPT !.pc = q] \in {c \in Commands : Course(c)}
  BY <1>1 DEF Commands, Pipeline, Course
<1>3. QED
  BY <1>2 DEF CmdOK, Goto

LEMMA RemovalGoto ==
  ASSUME CmdOK, NEW t \in Term, NEW p \in Removal, NEW q \in Removal, At(t, p), Goto(t, q)
  PROVE  CmdOK'
<1>1. cmd[t] \in Commands /\ cmd[t].kind = "destroy" /\ cmd[t].inst = cmd[t].home
  BY DEF CmdOK, At, Busy, Course, Pipeline, Removal
<1>2. [cmd[t] EXCEPT !.pc = q] \in {c \in Commands : Course(c)}
  BY <1>1 DEF Commands, Removal, Course
<1>3. QED
  BY <1>2 DEF CmdOK, Goto

LEMMA KeptType ==
  ASSUME CmdOK, cmd' = cmd
  PROVE  CmdOK'
  BY DEF CmdOK

LEMMA EndType ==
  ASSUME CmdOK, NEW t \in Term, End(t)
  PROVE  CmdOK'
  BY DEF CmdOK, End

LEMMA CommandType ==
  ASSUME CmdOK, NEW t \in Term, NEW i \in Inst, NEW s \in Settings, NEW force \in BOOLEAN,
         NEW kind \in {"create", "all", "apply", "destroy", "restore"},
         NEW until \in {"provision", "apply"}, NEW pc,
         \/ kind \in {"create", "all", "apply"} /\ pc \in Pipeline
         \/ kind = "destroy" /\ pc = "confirm"
         \/ kind = "restore" /\ pc = "poweroff",
         cmd' = [cmd EXCEPT ![t] = Command(kind, i, s, force, until, pc)]
  PROVE  CmdOK'
<1>1. Command(kind, i, s, force, until, pc) \in {c \in Commands : Course(c)}
  BY SettingTypes DEF Commands, Pipeline, Command, Course
<1>2. QED
  BY <1>1 DEF CmdOK

\* What a running command's fields are.
LEMMA FieldTypes ==
  ASSUME CmdOK, NEW t \in Term, Busy(t)
  PROVE  /\ cmd[t].inst \in Inst /\ cmd[t].home \in Inst
         /\ cmd[t].set \in Settings /\ cmd[t].count \in Counts /\ cmd[t].at \in Nat
  BY DEF CmdOK, Busy, Commands

\* Every step leaves every terminal with a command or none.
LEMMA CmdStep ==
  ASSUME HostOK, CmdOK, [Next]_vars
  PROVE  CmdOK'
<1>1. ASSUME NEW t \in Term, NEW i \in Inst, Use(t, i)
      PROVE  CmdOK'
  BY <1>1, KeptType DEF Use, host
<1>2. ASSUME NEW t \in Term, NEW i \in Inst, Start(t, i)
      PROVE  CmdOK'
  BY <1>2, KeptType DEF Start, host
<1>3. ASSUME NEW t \in Term, NEW i \in Inst, NEW s \in Setting[i], Create(t, i, s)
      PROVE  CmdOK'
  BY <1>3, CommandType, KeptType, SettingTypes DEF Create, Pipeline
<1>4. ASSUME NEW t \in Term, Snapshot(t)
      PROVE  CmdOK'
  BY <1>4, KeptType DEF Snapshot, host
<1>5. ASSUME NEW t \in Term, NEW s \in Setting[Target], Apply(t, s)
      PROVE  CmdOK'
  BY <1>5, CommandType, SettingTypes, TargetType DEF Apply, Pipeline
<1>6. ASSUME NEW t \in Term, NEW s \in Setting[Target], Destroy(t, s)
      PROVE  CmdOK'
  BY <1>6, CommandType, SettingTypes, TargetType DEF Destroy
<1>7. ASSUME NEW t \in Term, NEW s \in Setting[Target], BeginRestore(t, s)
      PROVE  CmdOK'
  BY <1>7, CommandType, SettingTypes, TargetType DEF BeginRestore
<1>8. ASSUME NEW t \in Term, NEW s \in Setting[Target], NEW force \in BOOLEAN,
             NEW until \in {"provision", "apply"}, All(t, s, force, until)
      PROVE  CmdOK'
  BY <1>8, CommandType, SettingTypes, TargetType DEF All, Pipeline
<1>9. ASSUME NEW t \in Term, BeginProvision(t)
      PROVE  CmdOK'
  <2>1. cmd[t] \in Commands /\ cmd[t].kind \in {"create", "all", "apply"} /\ Target \in Inst
    BY <1>9, TargetType DEF BeginProvision, At, Busy, CmdOK, Course, Pipeline, Removal
  <2>2. \A pc \in Pipeline :
          [cmd[t] EXCEPT !.inst = Target, !.pc = pc] \in {c \in Commands : Course(c)}
    BY <2>1 DEF Commands, Pipeline, Course
  <2>3. QED
    BY <1>9, <2>2 DEF BeginProvision, CmdOK, Pipeline
<1>10. ASSUME NEW t \in Term, CreateVM(t)
      PROVE  CmdOK'
  BY <1>10, PipelineGoto, KeptType DEF CreateVM, Pipeline
<1>11. ASSUME NEW t \in Term, ConfigureVM(t)
      PROVE  CmdOK'
  BY <1>11, PipelineGoto, KeptType DEF ConfigureVM, Pipeline
<1>12. ASSUME NEW t \in Term, CreateDisk(t)
      PROVE  CmdOK'
  BY <1>12, PipelineGoto, KeptType DEF CreateDisk, Pipeline
<1>13. ASSUME NEW t \in Term, AttachDisk(t)
      PROVE  CmdOK'
  <2>1. cmd[t] \in Commands /\ Course(cmd[t]) /\ cmd[t].at \in Nat
    BY <1>13, FieldTypes DEF AttachDisk, At, Busy, CmdOK
  <2>2. [cmd[t] EXCEPT !.at = @ + 1] \in {c \in Commands : Course(c)}
    BY <2>1 DEF Commands, Course
  <2>3. QED
    BY <1>13, <2>2 DEF AttachDisk, CmdOK
<1>14. ASSUME NEW t \in Term, StartVM(t)
      PROVE  CmdOK'
  BY <1>14, PipelineGoto, KeptType DEF StartVM, Pipeline
<1>15. ASSUME NEW t \in Term, SSHAnswers(t)
      PROVE  CmdOK'
  BY <1>15, PipelineGoto, KeptType DEF SSHAnswers, Pipeline
<1>16. ASSUME NEW t \in Term, SSHTimesOut(t)
      PROVE  CmdOK'
  BY <1>16, EndType DEF SSHTimesOut
<1>17. ASSUME NEW t \in Term, MarkProvision(t)
      PROVE  CmdOK'
  BY <1>17, PipelineGoto, KeptType DEF MarkProvision, Pipeline
<1>18. ASSUME NEW t \in Term, EndProvision(t)
      PROVE  CmdOK'
  BY <1>18, EndType, PipelineGoto DEF EndProvision, Pipeline
<1>19. ASSUME NEW t \in Term, BeginApply(t)
      PROVE  CmdOK'
  <2>1. cmd[t] \in Commands /\ cmd[t].kind \in {"create", "all", "apply"} /\ Target \in Inst
    BY <1>19, TargetType DEF BeginApply, At, Busy, CmdOK, Course, Pipeline, Removal
  <2>2. \A pc \in Pipeline :
          [cmd[t] EXCEPT !.inst = Target, !.pc = pc] \in {c \in Commands : Course(c)}
    BY <2>1 DEF Commands, Pipeline, Course
  <2>3. QED
    BY <1>19, <2>2 DEF BeginApply, CmdOK, Pipeline
<1>20. ASSUME NEW t \in Term, RunPlaybooks(t)
      PROVE  CmdOK'
  BY <1>20, PipelineGoto, KeptType DEF RunPlaybooks, Pipeline
<1>21. ASSUME NEW t \in Term, MarkApply(t)
      PROVE  CmdOK'
  BY <1>21, EndType DEF MarkApply
<1>22. ASSUME NEW t \in Term, PowerOff(t)
      PROVE  CmdOK'
  <2>1. cmd[t] \in Commands /\ cmd[t].kind \in {"destroy", "restore"} /\ cmd[t].inst = cmd[t].home
    BY <1>22 DEF PowerOff, At, Busy, CmdOK, Course, Pipeline, Removal
  <2>2. [cmd[t] EXCEPT !.pc = cmd[t].kind] \in {c \in Commands : Course(c)}
    BY <2>1 DEF Commands, Course, Removal
  <2>3. QED
    BY <1>22, <2>2 DEF PowerOff, Goto, CmdOK
<1>23. ASSUME NEW t \in Term, Unregister(t)
      PROVE  CmdOK'
  BY <1>23, RemovalGoto DEF Unregister, Removal
<1>24. ASSUME NEW t \in Term, UnlinkPrimary(t)
      PROVE  CmdOK'
  BY <1>24, RemovalGoto DEF UnlinkPrimary, Removal
<1>25. ASSUME NEW t \in Term, UnlinkState(t)
      PROVE  CmdOK'
  BY <1>25, RemovalGoto DEF UnlinkState, Removal
<1>26. ASSUME NEW t \in Term, UnlinkData(t)
      PROVE  CmdOK'
  BY <1>26, EndType, KeptType DEF UnlinkData
<1>27. ASSUME NEW t \in Term, RestoreSnapshot(t)
      PROVE  CmdOK'
  BY <1>27, EndType DEF RestoreSnapshot
<1>28. ASSUME NEW t \in Term, Raise(t)
      PROVE  CmdOK'
  BY <1>28, EndType DEF Raise
<1>29. ASSUME NEW t \in Term, Confirm(t)
      PROVE  CmdOK'
  <2>1. cmd[t] \in Commands /\ cmd[t].kind = "destroy" /\ cmd[t].inst = cmd[t].home
    BY <1>29 DEF Confirm, At, Busy, CmdOK, Course, Pipeline, Removal
  <2>2. DestroyCount(cmd[t].inst, cmd[t].set) \in Counts
    BY <2>1 DEF Commands, DestroyCount, HostOK, Settings, Counts
  <2>3. [cmd[t] EXCEPT !.pc = "poweroff", !.count = DestroyCount(cmd[t].inst, cmd[t].set)]
          \in {c \in Commands : Course(c)}
    BY <2>1, <2>2 DEF Commands, Course
  <2>4. QED
    BY <1>29, <2>3 DEF Confirm, CmdOK
<1>30. ASSUME NEW t \in Term, Die(t)
      PROVE  CmdOK'
  BY <1>30, EndType DEF Die
<1>31. ASSUME NEW i \in Inst, Stops(i)
      PROVE  CmdOK'
  BY <1>31, KeptType DEF Stops, host
<1>32. ASSUME NEW i \in Inst, Installs(i)
      PROVE  CmdOK'
  BY <1>32, KeptType DEF Installs, host
<1>33. ASSUME NEW t \in Term, PrepareMedia(t)
      PROVE  CmdOK'
  BY <1>33, PipelineGoto, KeptType DEF PrepareMedia, Pipeline
<1>34. ASSUME NEW t \in Term, AttachMedia(t)
      PROVE  CmdOK'
  BY <1>34, PipelineGoto, KeptType DEF AttachMedia, Pipeline
<1>35. ASSUME NEW t \in Term, UnlinkFiles(t)
      PROVE  CmdOK'
  BY <1>35, RemovalGoto DEF UnlinkFiles, Removal
<1>36. CASE UNCHANGED vars
  BY <1>36 DEF vars, CmdOK
<1>37. QED
  BY <1>1, <1>2, <1>3, <1>4, <1>5, <1>6, <1>7, <1>8, <1>9, <1>10, <1>11, <1>12,
     <1>13, <1>14, <1>15, <1>16, <1>17, <1>18, <1>19, <1>20, <1>21, <1>22, <1>23, <1>24,
     <1>25, <1>26, <1>27, <1>28, <1>29, <1>30, <1>31, <1>32, <1>33, <1>34, <1>35, <1>36
  DEF Next, Begin, Step, ProvisionStep, ApplyStep, DestroyStep

\* What starting, stopping or changing a VM does to VMs and ports.
LEMMA PowerOnVMs ==
  ASSUME HostOK, NEW i \in Inst, vm[i] # NoVM, ~On(i), PowerOn(i)
  PROVE  VMOK'
<1>1. vm[i] \in Machines
  BY DEF HostOK, VMOK
<1>2. [vm[i] EXCEPT !.state = "on"] \in Machines
  BY <1>1 DEF Machines
<1>3. vm' \in [Inst -> Machines \cup {NoVM}] /\ vm'[i] # NoVM /\ vm'[i].state = "on"
      /\ vm'[i].port = vm[i].port /\ \A j \in Inst \ {i} : vm'[j] = vm[j]
  BY <1>1, <1>2, NullAssumption DEF PowerOn, HostOK, VMOK, Machines
<1>4. QED
  BY <1>3, InstAssumption DEF PowerOn, HostOK, VMOK, On

LEMMA ReleaseVMs ==
  ASSUME HostOK, NEW i \in Inst, On(i), vm' = [vm EXCEPT ![i].state = "off"], Release(i)
  PROVE  VMOK'
<1>1. vm[i] \in Machines
  BY DEF HostOK, VMOK, On
<1>2. [vm[i] EXCEPT !.state = "off"] \in Machines
  BY <1>1 DEF Machines
<1>3. vm' \in [Inst -> Machines \cup {NoVM}] /\ \A j \in Inst \ {i} : vm'[j] = vm[j]
  BY <1>1, <1>2 DEF HostOK, VMOK
<1>4. QED
  BY <1>3 DEF Release, HostOK, VMOK, On

LEMMA ChangeVMs ==
  ASSUME HostOK, NEW i \in Inst, ~On(i), NEW m \in Machines \cup {NoVM},
         vm' = [vm EXCEPT ![i] = m], owner' = owner
  PROVE  VMOK'
  BY DEF HostOK, VMOK, On

\* What attach_disk and attach_iso make of a VM: a machine that is still off,
\* with one port, or the drives, changed.
LEMMA AttachedVMs ==
  ASSUME HostOK, CmdOK, NEW t \in Term, AttachDisk(t)
  PROVE  LET i == cmd[t].inst
             d == DiskAt(cmd[t].count, cmd[t].at)
         IN /\ i \in Inst /\ vm[i] \in Machines /\ ~On(i)
            /\ cmd[t].at \in Slots /\ d \in disks[i]
            /\ \E m \in Machines :
                 /\ vm' = [vm EXCEPT ![i] = m]
                 /\ m.port = vm[i].port
                 /\ m.sata = [vm[i].sata EXCEPT ![cmd[t].at] = d]
<1> DEFINE i == cmd[t].inst
           d == DiskAt(cmd[t].count, cmd[t].at)
<1>1. i \in Inst /\ cmd[t].at \in Nat /\ d \in Int
  BY FieldTypes, CountTypes DEF AttachDisk, At
<1>2. vm[i] \in Machines /\ ~On(i) /\ cmd[t].at \in Slots /\ d \in disks[i]
  BY <1>1 DEF AttachDisk, Attachable, Off, On, HostOK, VMOK
<1>3. PICK m : m = [vm[i] EXCEPT !.sata[cmd[t].at] = d]
  OBVIOUS
<1>4. /\ m \in Machines /\ m.port = vm[i].port
      /\ m.sata = [vm[i].sata EXCEPT ![cmd[t].at] = d]
  BY <1>1, <1>2, <1>3 DEF Machines
<1>5. vm' = [vm EXCEPT ![i] = m]
  BY <1>1, <1>3 DEF AttachDisk, HostOK, VMOK
<1>6. QED
  BY <1>1, <1>2, <1>4, <1>5

LEMMA EquippedVMs ==
  ASSUME HostOK, CmdOK, NEW t \in Term, AttachMedia(t)
  PROVE  LET i == cmd[t].inst
         IN /\ i \in Inst /\ vm[i] \in Machines /\ ~On(i)
            /\ \E m \in Machines :
                 /\ vm' = [vm EXCEPT ![i] = m]
                 /\ m.port = vm[i].port /\ m.sata = vm[i].sata
<1> DEFINE i == cmd[t].inst
<1>1. i \in Inst /\ vm[i] \in Machines /\ ~On(i)
  BY FieldTypes DEF AttachMedia, At, Off, On, HostOK, VMOK
<1>2. PICK m : m = [vm[i] EXCEPT !.media = TRUE]
  OBVIOUS
<1>3. m \in Machines /\ m.port = vm[i].port /\ m.sata = vm[i].sata
  BY <1>1, <1>2 DEF Machines
<1>4. vm' = [vm EXCEPT ![i] = m]
  BY <1>1, <1>2 DEF AttachMedia, HostOK, VMOK
<1>5. QED
  BY <1>1, <1>3, <1>4

\* And the host in a state of its type.
LEMMA HostStep ==
  ASSUME HostOK, CmdOK, [Next]_vars
  PROVE  HostOK'
<1>1. ASSUME NEW t \in Term, NEW i \in Inst, Use(t, i)
      PROVE  HostOK'
  BY <1>1 DEF Use, HostOK, VMOK, On, host, record
<1>2. ASSUME NEW t \in Term, NEW i \in Inst, Start(t, i)
      PROVE  HostOK'
  <2>1. VMOK'
    BY <1>2, PowerOnVMs DEF Start
  <2>2. QED
    BY <1>2, <2>1 DEF Start, HostOK, record
<1>3. ASSUME NEW t \in Term, NEW i \in Inst, NEW s \in Setting[i], Create(t, i, s)
      PROVE  HostOK'
  BY <1>3 DEF Create, HostOK, VMOK, On, host, record
<1>4. ASSUME NEW t \in Term, Snapshot(t)
      PROVE  HostOK'
  <2>1. Target \in Inst /\ vm[Target] \in Machines
    BY <1>4, TargetType DEF Snapshot, HostOK, VMOK
  <2>2. [vm[Target] EXCEPT !.state = IF On(Target) THEN "saved" ELSE @] \in Machines
    BY <2>1 DEF Machines
  <2>3. Frozen(Target) \in SavedStates
    BY <2>2 DEF Frozen, SavedStates
  <2>4. VMOK'
    BY <1>4 DEF Snapshot, HostOK, VMOK, On
  <2>5. QED
    BY <1>4, <2>1, <2>3, <2>4 DEF Snapshot, HostOK, record
<1>5. ASSUME NEW t \in Term, NEW s \in Setting[Target], Apply(t, s)
      PROVE  HostOK'
  BY <1>5, SettingTypes, TargetType DEF Apply, HostOK, VMOK, On, host, record
<1>6. ASSUME NEW t \in Term, NEW s \in Setting[Target], Destroy(t, s)
      PROVE  HostOK'
  BY <1>6 DEF Destroy, HostOK, VMOK, On, host, record
<1>7. ASSUME NEW t \in Term, NEW s \in Setting[Target], BeginRestore(t, s)
      PROVE  HostOK'
  BY <1>7 DEF BeginRestore, HostOK, VMOK, On, host, record
<1>8. ASSUME NEW t \in Term, NEW s \in Setting[Target], NEW force \in BOOLEAN,
             NEW until \in {"provision", "apply"}, All(t, s, force, until)
      PROVE  HostOK'
  BY <1>8, SettingTypes, TargetType DEF All, HostOK, VMOK, On, host, record
<1>9. ASSUME NEW t \in Term, BeginProvision(t)
      PROVE  HostOK'
  BY <1>9 DEF BeginProvision, HostOK, VMOK, On, host, record
<1>10. ASSUME NEW t \in Term, CreateVM(t)
      PROVE  HostOK'
  <2>1. cmd[t].inst \in Inst
    BY <1>10, FieldTypes DEF CreateVM, At
  <2>2. NewVM \in Machines
    BY DEF NewVM, Machines, Slots
  <2>3. VMOK'
    <3>1. CASE vm[cmd[t].inst] = NoVM
      BY <1>10, <2>1, <2>2, <3>1, ChangeVMs DEF CreateVM, On
    <3>2. CASE vm[cmd[t].inst] # NoVM
      BY <1>10, <3>2 DEF CreateVM, HostOK, VMOK, On
    <3>3. QED
      BY <3>1, <3>2
  <2>4. QED
    BY <1>10, <2>3 DEF CreateVM, HostOK, record
<1>11. ASSUME NEW t \in Term, ConfigureVM(t)
      PROVE  HostOK'
  <2> DEFINE i == cmd[t].inst
  <2>1. i \in Inst /\ cmd[t].set.port \in Port /\ Off(i)
    BY <1>11, FieldTypes, SettingTypes DEF ConfigureVM, At
  <2>2. vm[i] \in Machines
    BY <2>1 DEF HostOK, VMOK, Off
  <2>3. PICK m : m = [vm[i] EXCEPT !.port = IF @ = NoPort THEN cmd[t].set.port ELSE @]
    OBVIOUS
  <2>4. m \in Machines /\ vm' = [vm EXCEPT ![i] = m] /\ ~On(i)
    BY <1>11, <2>1, <2>2, <2>3 DEF ConfigureVM, Machines, HostOK, VMOK, On, Off
  <2>5. VMOK'
    BY <1>11, <2>1, <2>4, ChangeVMs DEF ConfigureVM
  <2>6. QED
    BY <1>11, <2>5 DEF ConfigureVM, HostOK, record
<1>12. ASSUME NEW t \in Term, CreateDisk(t)
      PROVE  HostOK'
  <2>1. cmd[t].inst \in Inst /\ Images(cmd[t].count) \subseteq Int
    BY <1>12, FieldTypes, CountTypes DEF CreateDisk, At
  <2>2. \/ disks' = disks
        \/ \E d \in Images(cmd[t].count) : disks' = [disks EXCEPT ![cmd[t].inst] = @ \cup {d}]
    BY <1>12, Zenon DEF CreateDisk
  <2>3. /\ disks' \in [Inst -> SUBSET Int]
        /\ \A i \in Inst : disks[i] \subseteq disks'[i]
    BY <2>1, <2>2 DEF HostOK
  <2>4. VMOK'
    BY <1>12 DEF CreateDisk, HostOK, VMOK, On
  <2>5. QED
    BY <1>12, <2>3, <2>4 DEF CreateDisk, HostOK, record
<1>13. ASSUME NEW t \in Term, AttachDisk(t)
      PROVE  HostOK'
  <2>1. VMOK'
    BY <1>13, AttachedVMs, ChangeVMs DEF AttachDisk
  <2>2. QED
    BY <1>13, <2>1 DEF AttachDisk, HostOK, record
<1>14. ASSUME NEW t \in Term, StartVM(t)
      PROVE  HostOK'
  <2>1. cmd[t].inst \in Inst
    BY <1>14, FieldTypes DEF StartVM, At
  <2>2. VMOK'
    BY <1>14, <2>1, PowerOnVMs DEF StartVM, HostOK, VMOK, On
  <2>3. QED
    BY <1>14, <2>2 DEF StartVM, HostOK, record
<1>15. ASSUME NEW t \in Term, SSHAnswers(t)
      PROVE  HostOK'
  BY <1>15 DEF SSHAnswers, HostOK, VMOK, On, host, record
<1>16. ASSUME NEW t \in Term, SSHTimesOut(t)
      PROVE  HostOK'
  BY <1>16 DEF SSHTimesOut, HostOK, VMOK, On, host, record
<1>17. ASSUME NEW t \in Term, MarkProvision(t)
      PROVE  HostOK'
  <2>1. cmd[t].inst \in Inst /\ cmd[t].count \in Counts /\ cmd[t].set.windows \in BOOLEAN
    BY <1>17, FieldTypes, SettingTypes DEF MarkProvision, At
  <2>2. VMOK'
    BY <1>17 DEF MarkProvision, HostOK, VMOK, On
  <2>3. QED
    BY <1>17, <2>1, <2>2 DEF MarkProvision, HostOK, record
<1>18. ASSUME NEW t \in Term, EndProvision(t)
      PROVE  HostOK'
  BY <1>18, FieldTypes DEF EndProvision, HostOK, VMOK, On, host, record, At
<1>19. ASSUME NEW t \in Term, BeginApply(t)
      PROVE  HostOK'
  BY <1>19, FieldTypes, SettingTypes DEF BeginApply, HostOK, VMOK, On, host, record, At
<1>20. ASSUME NEW t \in Term, RunPlaybooks(t)
      PROVE  HostOK'
  BY <1>20 DEF RunPlaybooks, HostOK, VMOK, On, host, record
<1>21. ASSUME NEW t \in Term, MarkApply(t)
      PROVE  HostOK'
  BY <1>21, FieldTypes DEF MarkApply, HostOK, VMOK, On, host, record, At
<1>22. ASSUME NEW t \in Term, PowerOff(t)
      PROVE  HostOK'
  <2>1. cmd[t].inst \in Inst
    BY <1>22, FieldTypes DEF PowerOff, At
  <2>2. VMOK'
    BY <1>22, <2>1, ReleaseVMs DEF PowerOff, HostOK, VMOK, On
  <2>3. QED
    BY <1>22, <2>2 DEF PowerOff, HostOK, record
<1>23. ASSUME NEW t \in Term, Unregister(t)
      PROVE  HostOK'
  <2> DEFINE i == cmd[t].inst
  <2>1. i \in Inst /\ ~On(i)
    BY <1>23, FieldTypes DEF Unregister, At
  <2>2. CASE vm[i] = NoVM
    BY <1>23, <2>2 DEF Unregister, HostOK, VMOK, On, record
  <2>3. CASE vm[i] # NoVM
    <3>1. Delete(i)
      BY <1>23, <2>3 DEF Unregister
    <3>2. VMOK'
      BY <1>23, <2>1, <3>1, ChangeVMs DEF Unregister, Delete
    <3>3. /\ disks' \in [Inst -> SUBSET Int]
          /\ snapshots' \in [Inst -> SUBSET SavedStates]
          /\ installed' \subseteq {j \in Inst : 0 \in disks'[j]}
      BY <2>1, <3>1 DEF Delete, HostOK
    <3>4. QED
      BY <1>23, <3>2, <3>3 DEF Unregister, HostOK, record
  <2>4. QED
    BY <2>2, <2>3
<1>24. ASSUME NEW t \in Term, UnlinkPrimary(t)
      PROVE  HostOK'
  BY <1>24, FieldTypes DEF UnlinkPrimary, HostOK, VMOK, On, host, record, At
<1>25. ASSUME NEW t \in Term, UnlinkState(t)
      PROVE  HostOK'
  <2>1. cmd[t].inst \in Inst
    BY <1>25, FieldTypes DEF UnlinkState, At
  <2>2. VMOK'
    BY <1>25 DEF UnlinkState, HostOK, VMOK, On
  <2>3. NoInfo \in [count : Counts, windows : BOOLEAN]
    BY DEF NoInfo, None, Counts
  <2>4. QED
    BY <1>25, <2>1, <2>2, <2>3 DEF UnlinkState, HostOK, record
<1>26. ASSUME NEW t \in Term, UnlinkData(t)
      PROVE  HostOK'
  <2>1. cmd[t].inst \in Inst
    BY <1>26, FieldTypes DEF UnlinkData, At
  <2>2. disks' = disks \/ \E d : d # 0 /\ disks' = [disks EXCEPT ![cmd[t].inst] = @ \ {d}]
    BY <1>26, Zenon DEF UnlinkData, ToUnlink
  <2>3. /\ disks' \in [Inst -> SUBSET Int]
        /\ \A i \in Inst : 0 \in disks[i] => 0 \in disks'[i]
    BY <2>1, <2>2 DEF HostOK
  <2>4. VMOK'
    BY <1>26 DEF UnlinkData, HostOK, VMOK, On
  <2>5. QED
    BY <1>26, <2>3, <2>4 DEF UnlinkData, HostOK, record
<1>27. ASSUME NEW t \in Term, RestoreSnapshot(t)
      PROVE  HostOK'
  <2> DEFINE i == cmd[t].inst
  <2>1. i \in Inst /\ ~On(i)
    BY <1>27, FieldTypes DEF RestoreSnapshot, At
  <2>2. PICK s \in snapshots[i] :
          /\ vm' = [vm EXCEPT ![i] = s.vm]
          /\ installed' = IF s.installed /\ 0 \in disks[i] THEN installed \cup {i}
                                                         ELSE installed \ {i}
    BY <1>27 DEF RestoreSnapshot
  <2>3. s.vm \in Machines
    BY <2>1, <2>2 DEF HostOK, SavedStates
  <2>4. VMOK'
    BY <1>27, <2>1, <2>2, <2>3, ChangeVMs DEF RestoreSnapshot
  <2>5. QED
    BY <1>27, <2>1, <2>2, <2>4 DEF RestoreSnapshot, HostOK, record
<1>28. ASSUME NEW t \in Term, Raise(t)
      PROVE  HostOK'
  BY <1>28 DEF Raise, HostOK, VMOK, On, host, record
<1>29. ASSUME NEW t \in Term, Confirm(t)
      PROVE  HostOK'
  BY <1>29 DEF Confirm, HostOK, VMOK, On, host, record
<1>30. ASSUME NEW t \in Term, Die(t)
      PROVE  HostOK'
  BY <1>30 DEF Die, HostOK, VMOK, On, host, record
<1>31. ASSUME NEW i \in Inst, Stops(i)
      PROVE  HostOK'
  <2>1. VMOK'
    BY <1>31, ReleaseVMs DEF Stops
  <2>2. QED
    BY <1>31, <2>1 DEF Stops, HostOK, record
<1>32. ASSUME NEW i \in Inst, Installs(i)
      PROVE  HostOK'
  BY <1>32 DEF Installs, HostOK, VMOK, On, host, record
<1>33. ASSUME NEW t \in Term, PrepareMedia(t)
      PROVE  HostOK'
  <2>1. cmd[t].inst \in Inst /\ cmd[t].set.seed \in Seeds
    BY <1>33, FieldTypes, SettingTypes DEF PrepareMedia, At
  <2>2. VMOK'
    BY <1>33 DEF PrepareMedia, HostOK, VMOK, On
  <2>3. QED
    BY <1>33, <2>1, <2>2 DEF PrepareMedia, HostOK, record
<1>34. ASSUME NEW t \in Term, AttachMedia(t)
      PROVE  HostOK'
  <2>1. VMOK'
    BY <1>34, EquippedVMs, ChangeVMs DEF AttachMedia
  <2>2. QED
    BY <1>34, <2>1 DEF AttachMedia, HostOK, record
<1>35. ASSUME NEW t \in Term, UnlinkFiles(t)
      PROVE  HostOK'
  <2>1. VMOK'
    BY <1>35 DEF UnlinkFiles, HostOK, VMOK, On
  <2>2. QED
    BY <1>35, <2>1, FieldTypes DEF UnlinkFiles, At, HostOK, record
<1>36. CASE UNCHANGED vars
  BY <1>36 DEF vars, host, record, HostOK, VMOK, On
<1>37. QED
  BY <1>1, <1>2, <1>3, <1>4, <1>5, <1>6, <1>7, <1>8, <1>9, <1>10, <1>11, <1>12,
     <1>13, <1>14, <1>15, <1>16, <1>17, <1>18, <1>19, <1>20, <1>21, <1>22, <1>23, <1>24,
     <1>25, <1>26, <1>27, <1>28, <1>29, <1>30, <1>31, <1>32, <1>33, <1>34, <1>35, <1>36
  DEF Next, Begin, Step, ProvisionStep, ApplyStep, DestroyStep

-----------------------------------------------------------------------------

LEMMA Initially == Init => HostOK /\ CmdOK
  BY InstAssumption DEF Init, HostOK, VMOK, CmdOK, On, NoInfo, None, Counts

\* The stronger invariant: types, and each command on its course.
THEOREM Courses == Spec => [](HostOK /\ CmdOK)
<1>1. HostOK /\ CmdOK /\ [Next]_vars => (HostOK /\ CmdOK)'
  BY HostStep, CmdStep
<1>2. QED
  BY Initially, <1>1, PTL DEF Spec

\* Every variable keeps its type; a port belongs to a running VM that forwards
\* it, an installed system has its disk, a recorded phase its state file: in
\* any number of terminals and instances, whatever they run.
THEOREM Typing == Spec => []TypeOK
<1>1. HostOK /\ CmdOK => TypeOK
  BY DEF HostOK, VMOK, CmdOK, TypeOK
<1>2. QED
  BY Courses, <1>1, PTL

-----------------------------------------------------------------------------
(* Nothing goes but by a destroy that named it                             *)

Named(i, kinds) == \E t \in Term : Busy(t) /\ cmd[t].kind \in kinds /\ cmd[t].home = i

OnlyNamed ==
  \A i \in Inst :
    /\ ~ (disks[i] \subseteq disks'[i]) \/ (vm[i] # NoVM /\ vm'[i] = NoVM) =>
         Named(i, {"destroy"})
    /\ i \in installed \ installed' => Named(i, {"destroy", "restore"})

\* A change to the fields of a VM does not unregister it.
LEMMA FieldChange ==
  ASSUME HostOK, NEW i \in Inst, vm[i] # NoVM,
         \/ \E x \in {"off", "on", "saved"} : vm' = [vm EXCEPT ![i].state = x]
         \/ \E x \in Port \cup {NoPort} : vm' = [vm EXCEPT ![i].port = x]
         \/ \E m \in Machines : vm' = [vm EXCEPT ![i] = m]
  PROVE  \A j \in Inst : vm[j] # NoVM => vm'[j] # NoVM
<1>1. vm[i] \in Machines
  BY DEF HostOK, VMOK
<1>2. /\ \A x \in {"off", "on", "saved"} : [vm[i] EXCEPT !.state = x] \in Machines
      /\ \A x \in Port \cup {NoPort} : [vm[i] EXCEPT !.port = x] \in Machines
  BY <1>1 DEF Machines
<1>3. vm'[i] \in Machines /\ \A j \in Inst \ {i} : vm'[j] = vm[j]
  BY <1>2 DEF HostOK, VMOK
<1>4. QED
  BY <1>3, NullAssumption

LEMMA ConfiguredKeeps ==
  ASSUME HostOK, CmdOK, NEW t \in Term, ConfigureVM(t)
  PROVE  \A j \in Inst : vm[j] # NoVM => vm'[j] # NoVM
<1>1. PICK x : x = IF vm[cmd[t].inst].port = NoPort THEN cmd[t].set.port
                                               ELSE vm[cmd[t].inst].port
  OBVIOUS
<1>2. cmd[t].inst \in Inst /\ vm[cmd[t].inst] \in Machines /\ vm[cmd[t].inst] # NoVM
  BY FieldTypes DEF ConfigureVM, At, Off, HostOK, VMOK
<1>3. x \in Port \cup {NoPort}
  BY <1>1, <1>2, FieldTypes, SettingTypes DEF ConfigureVM, At, Machines
<1>4. vm' = [vm EXCEPT ![cmd[t].inst].port = x]
  BY <1>1, <1>2 DEF ConfigureVM, HostOK, VMOK
<1>5. QED
  BY <1>2, <1>3, <1>4, FieldChange

LEMMA AttachedKeeps ==
  ASSUME HostOK, CmdOK, NEW t \in Term, AttachDisk(t) \/ AttachMedia(t)
  PROVE  \A j \in Inst : vm[j] # NoVM => vm'[j] # NoVM
<1> DEFINE i == cmd[t].inst
<1>1. i \in Inst /\ vm[i] \in Machines /\ \E m \in Machines : vm' = [vm EXCEPT ![i] = m]
  BY AttachedVMs, EquippedVMs
<1>2. vm[i] # NoVM
  BY <1>1, NullAssumption
<1>3. QED
  BY <1>1, <1>2, FieldChange

\* What a running removal, or restore, works on is what its prompt named.
LEMMA NamedBy ==
  ASSUME CmdOK, NEW t \in Term, Busy(t)
  PROVE  /\ cmd[t].inst \in Inst
         /\ cmd[t].pc \in Removal => Named(cmd[t].inst, {"destroy"})
         /\ cmd[t].pc \in Removal \cup {"restore"} => Named(cmd[t].inst, {"destroy", "restore"})
<1>1. cmd[t] \in Commands /\ Course(cmd[t])
  BY DEF CmdOK, Busy
<1>2. cmd[t].pc \in Removal => cmd[t].kind = "destroy" /\ cmd[t].home = cmd[t].inst
  BY <1>1 DEF Course, Pipeline, Removal
<1>3. cmd[t].pc = "restore" => cmd[t].kind = "restore" /\ cmd[t].home = cmd[t].inst
  BY <1>1 DEF Course, Pipeline, Removal
<1>4. QED
  BY <1>1, <1>2, <1>3 DEF Named, Commands

LEMMA NamedStep ==
  ASSUME HostOK, CmdOK, [Next]_vars
  PROVE  OnlyNamed
<1>1. ASSUME NEW t \in Term, NEW i \in Inst, Use(t, i)
      PROVE  OnlyNamed
  BY <1>1 DEF Use, OnlyNamed, host, record
<1>2. ASSUME NEW t \in Term, NEW i \in Inst, Start(t, i)
      PROVE  OnlyNamed
  BY <1>2, FieldChange DEF Start, PowerOn, OnlyNamed
<1>3. ASSUME NEW t \in Term, NEW i \in Inst, NEW s \in Setting[i], Create(t, i, s)
      PROVE  OnlyNamed
  BY <1>3 DEF Create, OnlyNamed, host, record
<1>4. ASSUME NEW t \in Term, Snapshot(t)
      PROVE  OnlyNamed
  BY <1>4 DEF Snapshot, OnlyNamed, host, record
<1>5. ASSUME NEW t \in Term, NEW s \in Setting[Target], Apply(t, s)
      PROVE  OnlyNamed
  BY <1>5 DEF Apply, OnlyNamed, host, record
<1>6. ASSUME NEW t \in Term, NEW s \in Setting[Target], Destroy(t, s)
      PROVE  OnlyNamed
  BY <1>6 DEF Destroy, OnlyNamed, host, record
<1>7. ASSUME NEW t \in Term, NEW s \in Setting[Target], BeginRestore(t, s)
      PROVE  OnlyNamed
  BY <1>7 DEF BeginRestore, OnlyNamed, host, record
<1>8. ASSUME NEW t \in Term, NEW s \in Setting[Target], NEW force \in BOOLEAN,
             NEW until \in {"provision", "apply"}, All(t, s, force, until)
      PROVE  OnlyNamed
  BY <1>8 DEF All, OnlyNamed, host, record
<1>9. ASSUME NEW t \in Term, BeginProvision(t)
      PROVE  OnlyNamed
  BY <1>9 DEF BeginProvision, OnlyNamed, host, record
<1>10. ASSUME NEW t \in Term, CreateVM(t)
      PROVE  OnlyNamed
  <2>1. \A j \in Inst : vm[j] # NoVM => vm'[j] # NoVM
    BY <1>10, FieldTypes DEF CreateVM, At, HostOK, VMOK
  <2>2. QED
    BY <1>10, <2>1 DEF CreateVM, OnlyNamed
<1>11. ASSUME NEW t \in Term, ConfigureVM(t)
      PROVE  OnlyNamed
  BY <1>11, ConfiguredKeeps DEF ConfigureVM, OnlyNamed
<1>12. ASSUME NEW t \in Term, CreateDisk(t)
      PROVE  OnlyNamed
  BY <1>12, FieldTypes DEF CreateDisk, At, HostOK, OnlyNamed
<1>13. ASSUME NEW t \in Term, AttachDisk(t)
      PROVE  OnlyNamed
  BY <1>13, AttachedKeeps DEF AttachDisk, OnlyNamed
<1>14. ASSUME NEW t \in Term, StartVM(t)
      PROVE  OnlyNamed
  <2>1. \A j \in Inst : vm[j] # NoVM => vm'[j] # NoVM
    BY <1>14, FieldChange, FieldTypes DEF StartVM, At, PowerOn
  <2>2. QED
    BY <1>14, <2>1 DEF StartVM, OnlyNamed
<1>15. ASSUME NEW t \in Term, SSHAnswers(t)
      PROVE  OnlyNamed
  BY <1>15 DEF SSHAnswers, OnlyNamed, host, record
<1>16. ASSUME NEW t \in Term, SSHTimesOut(t)
      PROVE  OnlyNamed
  BY <1>16 DEF SSHTimesOut, OnlyNamed, host, record
<1>17. ASSUME NEW t \in Term, MarkProvision(t)
      PROVE  OnlyNamed
  BY <1>17 DEF MarkProvision, OnlyNamed, host, record
<1>18. ASSUME NEW t \in Term, EndProvision(t)
      PROVE  OnlyNamed
  BY <1>18 DEF EndProvision, OnlyNamed, host, record
<1>19. ASSUME NEW t \in Term, BeginApply(t)
      PROVE  OnlyNamed
  BY <1>19 DEF BeginApply, OnlyNamed, host, record
<1>20. ASSUME NEW t \in Term, RunPlaybooks(t)
      PROVE  OnlyNamed
  BY <1>20 DEF RunPlaybooks, OnlyNamed, host, record
<1>21. ASSUME NEW t \in Term, MarkApply(t)
      PROVE  OnlyNamed
  BY <1>21 DEF MarkApply, OnlyNamed, host, record
<1>22. ASSUME NEW t \in Term, PowerOff(t)
      PROVE  OnlyNamed
  <2>1. \A j \in Inst : vm[j] # NoVM => vm'[j] # NoVM
    BY <1>22, FieldChange, FieldTypes DEF PowerOff, At, On
  <2>2. QED
    BY <1>22, <2>1 DEF PowerOff, OnlyNamed
<1>23. ASSUME NEW t \in Term, Unregister(t)
      PROVE  OnlyNamed
  <2>1. cmd[t].inst \in Inst /\ Named(cmd[t].inst, {"destroy"})
                              /\ Named(cmd[t].inst, {"destroy", "restore"})
    BY <1>23, NamedBy DEF Unregister, At, Removal
  <2>2. \A i \in Inst \ {cmd[t].inst} :
          disks'[i] = disks[i] /\ vm'[i] = vm[i] /\ (i \in installed => i \in installed')
    BY <1>23, <2>1 DEF Unregister, Delete, HostOK, VMOK
  <2>3. QED
    BY <2>1, <2>2 DEF OnlyNamed
<1>24. ASSUME NEW t \in Term, UnlinkPrimary(t)
      PROVE  OnlyNamed
  <2>1. cmd[t].inst \in Inst /\ Named(cmd[t].inst, {"destroy"})
                              /\ Named(cmd[t].inst, {"destroy", "restore"})
    BY <1>24, NamedBy DEF UnlinkPrimary, At, Removal
  <2>2. \A i \in Inst \ {cmd[t].inst} :
          disks'[i] = disks[i] /\ vm'[i] = vm[i] /\ (i \in installed => i \in installed')
    BY <1>24, <2>1 DEF UnlinkPrimary, HostOK, VMOK
  <2>3. QED
    BY <2>1, <2>2 DEF OnlyNamed
<1>25. ASSUME NEW t \in Term, UnlinkState(t)
      PROVE  OnlyNamed
  BY <1>25 DEF UnlinkState, OnlyNamed, host, record
<1>26. ASSUME NEW t \in Term, UnlinkData(t)
      PROVE  OnlyNamed
  <2>1. cmd[t].inst \in Inst /\ Named(cmd[t].inst, {"destroy"})
                              /\ Named(cmd[t].inst, {"destroy", "restore"})
    BY <1>26, NamedBy DEF UnlinkData, At, Removal
  <2>2. \A i \in Inst \ {cmd[t].inst} :
          disks'[i] = disks[i] /\ vm'[i] = vm[i] /\ (i \in installed => i \in installed')
    BY <1>26, <2>1 DEF UnlinkData, HostOK, VMOK
  <2>3. QED
    BY <2>1, <2>2 DEF OnlyNamed
<1>27. ASSUME NEW t \in Term, RestoreSnapshot(t)
      PROVE  OnlyNamed
  <2>1. cmd[t].inst \in Inst /\ Named(cmd[t].inst, {"destroy", "restore"})
    BY <1>27, NamedBy DEF RestoreSnapshot, At
  <2>2. PICK s \in snapshots[cmd[t].inst] : vm' = [vm EXCEPT ![cmd[t].inst] = s.vm]
    BY <1>27 DEF RestoreSnapshot
  <2>3. s.vm # NoVM
    BY <2>1, <2>2, NullAssumption DEF HostOK, SavedStates
  <2>4. /\ disks' = disks
        /\ \A j \in Inst : vm[j] # NoVM => vm'[j] # NoVM
        /\ \A i \in Inst \ {cmd[t].inst} : i \in installed => i \in installed'
    BY <1>27, <2>1, <2>2, <2>3 DEF RestoreSnapshot, HostOK, VMOK
  <2>5. QED
    BY <2>1, <2>4 DEF OnlyNamed
<1>28. ASSUME NEW t \in Term, Raise(t)
      PROVE  OnlyNamed
  BY <1>28 DEF Raise, OnlyNamed, host, record
<1>29. ASSUME NEW t \in Term, Confirm(t)
      PROVE  OnlyNamed
  BY <1>29 DEF Confirm, OnlyNamed, host, record
<1>30. ASSUME NEW t \in Term, Die(t)
      PROVE  OnlyNamed
  BY <1>30 DEF Die, OnlyNamed, host, record
<1>31. ASSUME NEW i \in Inst, Stops(i)
      PROVE  OnlyNamed
  <2>1. \A j \in Inst : vm[j] # NoVM => vm'[j] # NoVM
    BY <1>31, FieldChange DEF Stops, On
  <2>2. QED
    BY <1>31, <2>1 DEF Stops, OnlyNamed
<1>32. ASSUME NEW i \in Inst, Installs(i)
      PROVE  OnlyNamed
  BY <1>32 DEF Installs, OnlyNamed, host, record
<1>33. ASSUME NEW t \in Term, PrepareMedia(t)
      PROVE  OnlyNamed
  BY <1>33 DEF PrepareMedia, OnlyNamed, host, record
<1>34. ASSUME NEW t \in Term, AttachMedia(t)
      PROVE  OnlyNamed
  BY <1>34, AttachedKeeps DEF AttachMedia, OnlyNamed
<1>35. ASSUME NEW t \in Term, UnlinkFiles(t)
      PROVE  OnlyNamed
  BY <1>35 DEF UnlinkFiles, OnlyNamed, host, record
<1>36. CASE UNCHANGED vars
  BY <1>36 DEF vars, host, record, OnlyNamed
<1>37. QED
  BY <1>1, <1>2, <1>3, <1>4, <1>5, <1>6, <1>7, <1>8, <1>9, <1>10, <1>11, <1>12,
     <1>13, <1>14, <1>15, <1>16, <1>17, <1>18, <1>19, <1>20, <1>21, <1>22, <1>23, <1>24,
     <1>25, <1>26, <1>27, <1>28, <1>29, <1>30, <1>31, <1>32, <1>33, <1>34, <1>35, <1>36
  DEF Next, Begin, Step, ProvisionStep, ApplyStep, DestroyStep

\* A disk image or a VM goes, and an installed system is lost, only by a
\* destroy (a system also by a restore) that was asked about that very
\* instance, however many terminals move the pointer meanwhile.
THEOREM Naming == Spec => DestroyOnlyWhatWasNamed
<1>1. HostOK /\ CmdOK /\ [Next]_vars => [OnlyNamed]_vars
  BY NamedStep
<1>2. [][OnlyNamed]_vars => DestroyOnlyWhatWasNamed
  <2>1. [OnlyNamed]_vars =>
          [\A i \in Inst :
             LET For(kinds) ==
                   \E t \in Term : Busy(t) /\ cmd[t].kind \in kinds /\ cmd[t].home = i
             IN
               /\ ~ (disks[i] \subseteq disks'[i]) \/ (vm[i] # NoVM /\ vm'[i] = NoVM) =>
                    For({"destroy"})
               /\ i \in installed \ installed' => For({"destroy", "restore"})]_vars
    BY DEF OnlyNamed, Named
  <2>2. QED
    BY <2>1, PTL DEF DestroyOnlyWhatWasNamed
<1>3. QED
  BY Courses, <1>1, <1>2, PTL DEF Spec

=============================================================================
