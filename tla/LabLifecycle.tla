---------------------------- MODULE LabLifecycle ----------------------------
(***************************************************************************)
(* The life of VirtualBox lab instances under `msai lab create`, `all`,    *)
(* `apply`, `use`, `start`, `stop`, `snapshot`, `restore` and `destroy`    *)
(* (src/msai_setup/cli.py, lab/cli.py, lab/pipeline.py, lab/provision.py,  *)
(* lab/apply.py, lab/instance.py, lab/vbox.py).                            *)
(*                                                                         *)
(* A command runs in a terminal, one step per VBoxManage, file or ssh      *)
(* call, and may die at any of them; guests install and stop by            *)
(* themselves.  What outlives a command is on the host: the pointer, the   *)
(* VMs, the disk images, the state files, the shared inventory.  A state   *)
(* file operation is atomic here (StateStore shows when that is so).       *)
(*                                                                         *)
(* The disks are numbered: 0 is the primary disk, k the k-th lab disk and  *)
(* -k the k-th install disk.  The ISOs in the drives count as one medium,  *)
(* on a controller of their own (x86).                                     *)
(***************************************************************************)
EXTENDS Integers, FiniteSets

CONSTANTS
  Inst,         \* instance names
  NoInst,       \* "no instance": an unset pointer, a port nobody listens on
  DefaultInst,  \* the name used when no instance is current
  Port,         \* host ports
  NoPort,       \* a VM with no ssh forward yet
  Setting,      \* the environments a command about each instance runs in
  Offered,      \* bound: the commands the operator uses, and when
  Term,         \* terminals; commands in different ones are concurrent
  NoCommand,    \* a terminal at its prompt
  NoVM,         \* an instance with no registered VM
  SataPorts,    \* ports of the SATA controller (provision.py:286)
  NoDisk        \* a port with nothing attached

\* LAB_DISK_COUNT and INSTALL_DISK_COUNT, a profile without ssh gate and data
\* disks, the seed ISO its installer reads, SSH_FORWARD_PORT.
Counts == [lab : Nat, install : Nat]
Seeds == {"cidata", "oemdrv", "unattend"}
Settings == [count : Counts, windows : BOOLEAN, seed : Seeds, port : Port]

\* What VirtualBox keeps of a VM, a snapshot of one, and a running command.
Slots == 0..(SataPorts - 1)
Machines == [state : {"off", "on", "saved"}, port : Port \cup {NoPort},
             sata : [Slots -> Int \cup {NoDisk}], media : BOOLEAN]

SavedStates == [vm : Machines, installed : BOOLEAN]

Commands ==
  [kind : {"create", "all", "apply", "destroy", "restore"}, home : Inst, inst : Inst,
   set : Settings, count : Counts, at : Nat, force : BOOLEAN,
   until : {"provision", "apply"},
   pc : {"provision", "media", "createvm", "configure", "disks", "attach", "start",
         "wait", "mark", "provisioned", "apply", "playbooks", "markapply", "confirm",
         "poweroff", "destroy", "primary", "files", "state", "data", "restore"}]

ASSUME InstAssumption == NoInst \notin Inst /\ DefaultInst \in Inst
ASSUME OfferedAssumption ==
  Offered \subseteq {"create", "all", "apply", "destroy", "restore",
                     "snapshot", "early snapshot"}
ASSUME PortAssumption == NoPort \notin Port
ASSUME NullAssumption == NoVM \notin Machines /\ NoCommand \notin Commands
ASSUME SettingAssumption == Setting \in [Inst -> SUBSET Settings]
ASSUME SataAssumption == SataPorts \in Nat \ {0} /\ NoDisk \notin Int

VARIABLES
  pointer,    \* target/.current
  vm,         \* VirtualBox's view of each instance
  owner,      \* the running VM whose NAT engine holds each host port
  disks,      \* the VDI files of each instance, by number
  files,      \* its console password file and seed ISOs
  installed,  \* instances whose primary disk carries an installed OS
  snapshots,  \* what the snapshots of each VM bring back
  stateFile,  \* instances with a <name>-state.json
  done,       \* phases recorded in each state file
  info,       \* disk counts and profile recorded with the provision phase
  inventory,  \* the port in the one inventory file all applies share
  cmd         \* the command running in each terminal

record == <<stateFile, done, info>>
host == <<pointer, vm, owner, disks, files, installed, snapshots, record, inventory>>
vars == <<host, cmd>>

-----------------------------------------------------------------------------

Busy(t) == cmd[t] # NoCommand
At(t, pc) == Busy(t) /\ cmd[t].pc = pc
Goto(t, pc) == cmd' = [cmd EXCEPT ![t].pc = pc]
End(t) == cmd' = [cmd EXCEPT ![t] = NoCommand]

\* get_current, with the fallback name of load_config.
Target == IF pointer = NoInst THEN DefaultInst ELSE pointer

\* list_instances: a state file or a primary disk makes an instance.
Listed(i) == i \in stateFile \/ 0 \in disks[i]

\* A VM that is off can be configured; one restored from a snapshot of its
\* running state is saved: it can be started or unregistered, no more.
On(i)  == vm[i] # NoVM /\ vm[i].state = "on"
Off(i) == vm[i] # NoVM /\ vm[i].state = "off"
NewVM  == [state |-> "off", port |-> NoPort, sata |-> [p \in Slots |-> NoDisk],
           media |-> FALSE]

\* The disks at the ports of VM, or snapshot, m.
Carried(m) == {m.sata[p] : p \in Slots} \ {NoDisk}

\* _disk_counts: a Windows profile gets the primary disk only.
None == [lab |-> 0, install |-> 0]
CountOf(s) == IF s.windows THEN None ELSE s.count

\* The images for the counts n; their ports, and their order in every loop:
\* the primary disk, the lab disks, the install disks.
Images(n) == (0 - n.install)..n.lab
LastPort(n) == n.lab + n.install
Place(n, d) == IF d >= 0 THEN d ELSE n.lab - d
DiskAt(n, p) == IF p <= n.lab THEN p ELSE n.lab - p

\* destroy: the recorded counts, else the environment's; for the install disks
\* a recorded 0 reads as none.
DestroyCount(i, s) ==
  LET told == info[i].count IN
    IF "provision" \notin done[i] THEN s.count
    ELSE [lab |-> told.lab,
          install |-> IF told.install = 0 THEN s.count.install ELSE told.install]

\* The guest that answers on port q with the lab user and the lab key: every
\* instance has the same user and key, and only an installed one lets them in.
Answering(q) == IF owner[q] \in installed THEN owner[q] ELSE NoInst

\* What a state file without a provision phase says of it.
NoInfo == [count |-> None, windows |-> FALSE]

Init ==
  /\ pointer = NoInst
  /\ vm = [i \in Inst |-> NoVM]
  /\ owner = [q \in Port |-> NoInst]
  /\ disks = [i \in Inst |-> {}]
  /\ files = [i \in Inst |-> {}]
  /\ installed = {}
  /\ snapshots = [i \in Inst |-> {}]
  /\ stateFile = {}
  /\ done = [i \in Inst |-> {}]
  /\ info = [i \in Inst |-> NoInfo]
  /\ inventory = NoPort
  /\ cmd = [t \in Term |-> NoCommand]

-----------------------------------------------------------------------------
(* Short commands and the start of long ones                               *)

\* A command's fields: what it is, the instance it was asked about, the one
\* its present phase works on, its environment, --force, and where it stops.
Command(kind, i, s, force, until, pc) ==
  [kind |-> kind, home |-> i, inst |-> i, set |-> s, count |-> CountOf(s), at |-> 0,
   force |-> force, until |-> until, pc |-> pc]

Use(t, i) ==
  /\ ~Busy(t)
  /\ Listed(i)
  /\ pointer' = i
  /\ UNCHANGED <<vm, owner, disks, files, installed, snapshots, record, inventory, cmd>>

\* create: an instance that exists is switched to and nothing else.
Create(t, i, s) ==
  /\ ~Busy(t)
  /\ "create" \in Offered
  /\ s \in Setting[i]
  /\ pointer' = i
  /\ IF Listed(i)
       THEN UNCHANGED cmd
       ELSE cmd' = [cmd EXCEPT ![t] =
                      Command("create", i, s, FALSE, "provision", "provision")]
  /\ UNCHANGED <<vm, owner, disks, files, installed, snapshots, record, inventory>>

\* run_pipeline up to provision.main: --force forgets the provision phase.
All(t, s, force, until) ==
  /\ ~Busy(t)
  /\ "all" \in Offered
  /\ s \in Setting[Target]
  /\ cmd' = [cmd EXCEPT ![t] = Command("all", Target, s, force, until, "provision")]
  /\ IF force
       THEN /\ done' = [done EXCEPT ![Target] = @ \ {"provision"}]
            /\ stateFile' = stateFile \cup {Target}
       ELSE UNCHANGED <<done, stateFile>>
  /\ UNCHANGED <<pointer, vm, owner, disks, files, installed, snapshots, info, inventory>>

\* apply: run_apply up to write_inventory; at most a warning if provision is
\* not recorded.
Apply(t, s) ==
  /\ ~Busy(t)
  /\ "apply" \in Offered
  /\ s \in Setting[Target]
  /\ cmd' = [cmd EXCEPT ![t] = Command("apply", Target, s, FALSE, "apply", "playbooks")]
  /\ inventory' = s.port
  /\ UNCHANGED <<pointer, vm, owner, disks, files, installed, snapshots, record>>

Destroy(t, s) ==
  /\ ~Busy(t)
  /\ "destroy" \in Offered
  /\ s \in Setting[Target]
  /\ cmd' = [cmd EXCEPT ![t] = Command("destroy", Target, s, FALSE, "apply", "confirm")]
  /\ UNCHANGED host

\* startvm: the NAT engine takes the forwarded host port if it is free, and
\* the VM runs without the forward if it is not.
PowerOn(i) ==
  /\ vm' = [vm EXCEPT ![i].state = "on"]
  /\ owner' = [q \in Port |-> IF q = vm[i].port /\ owner[q] = NoInst
                                THEN i ELSE owner[q]]

\* The ports VM i gives back when it stops.
Release(i) == owner' = [q \in Port |-> IF owner[q] = i THEN NoInst ELSE owner[q]]

\* start, for a VM that is there and not running.
Start(t, i) ==
  /\ ~Busy(t)
  /\ vm[i] # NoVM /\ ~On(i)
  /\ PowerOn(i)
  /\ UNCHANGED <<pointer, disks, files, installed, snapshots, record, inventory, cmd>>

\* The VM stops: stop --force, a guest obeying the ACPI button, a closed
\* console window, a shutdown inside the guest.
Stops(i) ==
  /\ On(i)
  /\ vm' = [vm EXCEPT ![i].state = "off"]
  /\ Release(i)
  /\ UNCHANGED <<pointer, disks, files, installed, snapshots, record, inventory, cmd>>

\* The unattended installer finishes on the primary disk.
Installs(i) ==
  /\ On(i)
  /\ vm[i].media
  /\ 0 \in Carried(vm[i]) \cap disks[i]
  /\ i \notin installed
  /\ installed' = installed \cup {i}
  /\ UNCHANGED <<pointer, vm, owner, disks, files, snapshots, record, inventory, cmd>>

-----------------------------------------------------------------------------
(* provision.main, on the instance that is current when it starts          *)

\* Mutant of BeginProvision: the phase record is not consulted.
BeginProvisionAlways(t) ==
  /\ At(t, "provision")
  /\ cmd' = [cmd EXCEPT ![t].inst = Target, ![t].pc = "media"]
  /\ UNCHANGED host

BeginProvision(t) ==
  /\ At(t, "provision")
  /\ cmd' = [cmd EXCEPT ![t].inst = Target,
                        ![t].pc = IF "provision" \in done[Target]
                                    THEN "provisioned" ELSE "media"]
  /\ UNCHANGED host

\* The console password is written and _prepare_install_media writes the seed.
PrepareMedia(t) ==
  /\ At(t, "media")
  /\ files' = [files EXCEPT ![cmd[t].inst] = @ \cup {"password", cmd[t].set.seed}]
  /\ Goto(t, "createvm")
  /\ UNCHANGED <<pointer, vm, owner, disks, installed, snapshots, record, inventory>>

\* Mutant of CreateVM: a VM of that name is made anew.
CreateVMAnew(t) ==
  /\ At(t, "createvm")
  /\ vm' = [vm EXCEPT ![cmd[t].inst] = NewVM]
  /\ Goto(t, "configure")
  /\ UNCHANGED <<pointer, owner, disks, files, installed, snapshots, record, inventory>>

CreateVM(t) ==
  /\ At(t, "createvm")
  /\ LET i == cmd[t].inst IN
       vm' = IF vm[i] # NoVM THEN vm
             ELSE [vm EXCEPT ![i] = NewVM]
  /\ Goto(t, "configure")
  /\ UNCHANGED <<pointer, owner, disks, files, installed, snapshots, record, inventory>>

\* modifyvm and the port forward: a forward that is there stays as it is.
ConfigureVM(t) ==
  /\ At(t, "configure")
  /\ LET i == cmd[t].inst IN
       /\ Off(i)
       /\ vm' = [vm EXCEPT ![i].port = IF @ = NoPort THEN cmd[t].set.port ELSE @]
  /\ Goto(t, "disks")
  /\ UNCHANGED <<pointer, owner, disks, files, installed, snapshots, record, inventory>>

\* create_disk, for one disk after the other; an image that exists is kept.
CreateDisk(t) ==
  /\ At(t, "disks")
  /\ LET i == cmd[t].inst
         n == cmd[t].count
         missing == Images(n) \ disks[i]
     IN IF missing = {}
          THEN Goto(t, "attach") /\ UNCHANGED disks
          ELSE /\ \E d \in missing :
                    /\ \A e \in missing : Place(n, d) <= Place(n, e)
                    /\ disks' = [disks EXCEPT ![i] = @ \cup {d}]
               /\ UNCHANGED cmd
  /\ UNCHANGED <<pointer, vm, owner, files, installed, snapshots, record, inventory>>

\* Whether the next storageattach succeeds: the VM is stopped, its controller
\* has the port, and the disk has an image and is at no other port.
Attachable(t) ==
  LET i == cmd[t].inst
      p == cmd[t].at
      d == DiskAt(cmd[t].count, p)
  IN /\ Off(i)
     /\ p \in Slots
     /\ d \in disks[i]
     /\ \A q \in Slots \ {p} : vm[i].sata[q] # d

\* Mutant of AttachDisk: the install disks' ports do not start past the lab disks.
AttachAtIndex(t) ==
  /\ At(t, "attach")
  /\ cmd[t].at <= LastPort(cmd[t].count)
  /\ Attachable(t)
  /\ LET p == cmd[t].at
         n == cmd[t].count
     IN vm' = [vm EXCEPT ![cmd[t].inst].sata[IF p <= n.lab THEN p ELSE p - n.lab] =
                           DiskAt(n, p)]
  /\ cmd' = [cmd EXCEPT ![t].at = @ + 1]
  /\ UNCHANGED <<pointer, owner, disks, files, installed, snapshots, record, inventory>>

\* attach_disk, for every port again in every run; a disk that is there goes.
AttachDisk(t) ==
  /\ At(t, "attach")
  /\ cmd[t].at <= LastPort(cmd[t].count)
  /\ Attachable(t)
  /\ vm' = [vm EXCEPT ![cmd[t].inst].sata[cmd[t].at] = DiskAt(cmd[t].count, cmd[t].at)]
  /\ cmd' = [cmd EXCEPT ![t].at = @ + 1]
  /\ UNCHANGED <<pointer, owner, disks, files, installed, snapshots, record, inventory>>

\* attach_iso, after the last disk.
AttachMedia(t) ==
  /\ At(t, "attach")
  /\ cmd[t].at > LastPort(cmd[t].count)
  /\ Off(cmd[t].inst)
  /\ vm' = [vm EXCEPT ![cmd[t].inst].media = TRUE]
  /\ Goto(t, "start")
  /\ UNCHANGED <<pointer, owner, disks, files, installed, snapshots, record, inventory>>

StartVM(t) ==
  /\ At(t, "start")
  /\ LET i == cmd[t].inst IN
       /\ vm[i] # NoVM
       /\ IF On(i) THEN UNCHANGED <<vm, owner>> ELSE PowerOn(i)
  /\ Goto(t, IF cmd[t].set.windows THEN "mark" ELSE "wait")
  /\ UNCHANGED <<pointer, disks, files, installed, snapshots, record, inventory>>

\* Mutant of SSHAnswers: wait_for_port's probe, a forward accepts at once.
PortAnswers(t) ==
  /\ At(t, "wait")
  /\ owner[cmd[t].set.port] # NoInst
  /\ Goto(t, "mark")
  /\ UNCHANGED host

\* wait_for_ssh: a key login on the host port succeeds ..
SSHAnswers(t) ==
  /\ At(t, "wait")
  /\ Answering(cmd[t].set.port) # NoInst
  /\ Goto(t, "mark")
  /\ UNCHANGED host

\* Mutant of SSHTimesOut: the deadline is set again at every attempt.
SSHRetries(t) ==
  /\ At(t, "wait")
  /\ UNCHANGED vars

\* .. or the deadline passes and TimeoutError ends the command.
SSHTimesOut(t) ==
  /\ At(t, "wait")
  /\ End(t)
  /\ UNCHANGED host

\* mark_phase_done(.., "provision", lab_disk_count = .., ..).
MarkProvision(t) ==
  /\ At(t, "mark")
  /\ LET i == cmd[t].inst IN
       /\ done' = [done EXCEPT ![i] = @ \cup {"provision"}]
       /\ info' = [info EXCEPT ![i] = [count |-> cmd[t].count,
                                       windows |-> cmd[t].set.windows]]
       /\ stateFile' = stateFile \cup {i}
  /\ Goto(t, "provisioned")
  /\ UNCHANGED <<pointer, vm, owner, disks, files, installed, snapshots, inventory>>

-----------------------------------------------------------------------------
(* The rest of run_pipeline, and run_apply                                 *)

\* After provision.main: stop, or go on to apply; --force forgets the apply
\* phase of the instance run_pipeline began with.
EndProvision(t) ==
  /\ At(t, "provisioned")
  /\ IF cmd[t].until = "provision" THEN End(t) ELSE Goto(t, "apply")
  /\ IF cmd[t].until = "apply" /\ cmd[t].force
       THEN /\ done' = [done EXCEPT ![cmd[t].home] = @ \ {"apply"}]
            /\ stateFile' = stateFile \cup {cmd[t].home}
       ELSE UNCHANGED <<done, stateFile>>
  /\ UNCHANGED <<pointer, vm, owner, disks, files, installed, snapshots, info, inventory>>

\* Mutant of BeginApply: an inventory that exists is reused.
BeginApplyKeepsInventory(t) ==
  /\ At(t, "apply")
  /\ cmd' = [cmd EXCEPT ![t].inst = Target, ![t].pc = "playbooks"]
  /\ inventory' = IF inventory = NoPort THEN cmd[t].set.port ELSE inventory
  /\ UNCHANGED <<pointer, vm, owner, disks, files, installed, snapshots, record>>

\* run_apply within run_pipeline: load_config again, write_inventory.
BeginApply(t) ==
  /\ At(t, "apply")
  /\ cmd' = [cmd EXCEPT ![t].inst = Target, ![t].pc = "playbooks"]
  /\ inventory' = cmd[t].set.port
  /\ UNCHANGED <<pointer, vm, owner, disks, files, installed, snapshots, record>>

\* run_playbook for each playbook, on the guest behind the inventory's port.
RunPlaybooks(t) ==
  /\ At(t, "playbooks")
  /\ Answering(inventory) # NoInst
  /\ Goto(t, "markapply")
  /\ UNCHANGED host

MarkApply(t) ==
  /\ At(t, "markapply")
  /\ LET i == cmd[t].inst IN
       /\ done' = [done EXCEPT ![i] = @ \cup {"apply"}]
       /\ stateFile' = stateFile \cup {i}
  /\ End(t)
  /\ UNCHANGED <<pointer, vm, owner, disks, files, installed, snapshots, info, inventory>>

-----------------------------------------------------------------------------
(* destroy                                                                 *)

\* Mutant of Confirm: the configuration is loaded again after the prompt.
ConfirmReloads(t) ==
  /\ At(t, "confirm")
  /\ cmd' = [cmd EXCEPT ![t].inst = Target, ![t].pc = "poweroff",
                        ![t].count = DestroyCount(Target, cmd[t].set)]
  /\ UNCHANGED host

\* The user confirms (or passed --yes) and the counts are read; a refusal is
\* a command that dies here.
Confirm(t) ==
  /\ At(t, "confirm")
  /\ cmd' = [cmd EXCEPT ![t].pc = "poweroff",
                        ![t].count = DestroyCount(cmd[t].inst, cmd[t].set)]
  /\ UNCHANGED host

\* controlvm poweroff is run unchecked: it may have no effect.
PowerOff(t) ==
  /\ At(t, "poweroff")
  /\ LET i == cmd[t].inst IN
       \/ On(i) /\ vm' = [vm EXCEPT ![i].state = "off"] /\ Release(i)
       \/ UNCHANGED <<vm, owner>>
  /\ Goto(t, cmd[t].kind)
  /\ UNCHANGED <<pointer, disks, files, installed, snapshots, record, inventory>>

\* The disk images VM i or one of its snapshots has attached.
Attached(i) == Carried(vm[i]) \cup UNION {Carried(s.vm) : s \in snapshots[i]}

\* unregistervm --delete takes the snapshots and the attached images with it.
Delete(i) ==
  /\ disks' = [disks EXCEPT ![i] = @ \ Attached(i)]
  /\ installed' = IF 0 \in Attached(i) THEN installed \ {i} ELSE installed
  /\ snapshots' = [snapshots EXCEPT ![i] = {}]
  /\ vm' = [vm EXCEPT ![i] = NoVM]

\* Mutant of Unregister: a refusal by VBoxManage goes unnoticed.
UnregisterUnchecked(t) ==
  /\ At(t, "destroy")
  /\ LET i == cmd[t].inst IN
       IF vm[i] = NoVM \/ On(i)
         THEN UNCHANGED <<vm, disks, installed, snapshots>> ELSE Delete(i)
  /\ Goto(t, "primary")
  /\ UNCHANGED <<pointer, owner, files, record, inventory>>

Unregister(t) ==
  /\ At(t, "destroy")
  /\ LET i == cmd[t].inst IN
       /\ ~On(i)
       /\ IF vm[i] = NoVM
            THEN UNCHANGED <<vm, disks, installed, snapshots>> ELSE Delete(i)
  /\ Goto(t, "primary")
  /\ UNCHANGED <<pointer, owner, files, record, inventory>>

\* Mutant of UnlinkPrimary: only what --delete took is expected to be there.
UnlinkPrimaryNever(t) ==
  /\ At(t, "primary")
  /\ Goto(t, "files")
  /\ UNCHANGED host

UnlinkPrimary(t) ==
  /\ At(t, "primary")
  /\ disks' = [disks EXCEPT ![cmd[t].inst] = @ \ {0}]
  /\ installed' = installed \ {cmd[t].inst}
  /\ Goto(t, "files")
  /\ UNCHANGED <<pointer, vm, owner, files, snapshots, record, inventory>>

\* The CIDATA seed and the console password: the only files destroy names.
UnlinkFiles(t) ==
  /\ At(t, "files")
  /\ files' = [files EXCEPT ![cmd[t].inst] = @ \ {"cidata", "password"}]
  /\ Goto(t, "state")
  /\ UNCHANGED <<pointer, vm, owner, disks, installed, snapshots, record, inventory>>

UnlinkState(t) ==
  /\ At(t, "state")
  /\ stateFile' = stateFile \ {cmd[t].inst}
  /\ done' = [done EXCEPT ![cmd[t].inst] = {}]
  /\ info' = [info EXCEPT ![cmd[t].inst] = NoInfo]
  /\ Goto(t, "data")
  /\ UNCHANGED <<pointer, vm, owner, disks, files, installed, snapshots, inventory>>

\* The data disks destroy still has to unlink.
ToUnlink(t) == (disks[cmd[t].inst] \cap Images(cmd[t].count)) \ {0}

UnlinkData(t) ==
  /\ At(t, "data")
  /\ IF ToUnlink(t) = {}
       THEN End(t) /\ UNCHANGED disks
       ELSE /\ \E d \in ToUnlink(t) :
                 /\ \A e \in ToUnlink(t) : Place(cmd[t].count, d) <= Place(cmd[t].count, e)
                 /\ disks' = [disks EXCEPT ![cmd[t].inst] = @ \ {d}]
            /\ UNCHANGED cmd
  /\ UNCHANGED <<pointer, vm, owner, files, installed, snapshots, record, inventory>>

-----------------------------------------------------------------------------
(* snapshot and restore                                                    *)

\* What VM i is brought back to by a snapshot taken now.
Frozen(i) ==
  [vm |-> [vm[i] EXCEPT !.state = IF On(i) THEN "saved" ELSE @],
   installed |-> i \in installed]

\* snapshot, "after a known-good run" (lab/README.md:447) or at any time.
Snapshot(t) ==
  /\ ~Busy(t)
  /\ \/ "snapshot" \in Offered /\ "provision" \in done[Target]
     \/ "early snapshot" \in Offered
  /\ vm[Target] # NoVM
  /\ snapshots' = [snapshots EXCEPT ![Target] = @ \cup {Frozen(Target)}]
  /\ UNCHANGED <<pointer, vm, owner, disks, files, installed, record, inventory, cmd>>

\* restore: power off first, as destroy does.
BeginRestore(t, s) ==
  /\ ~Busy(t)
  /\ "restore" \in Offered
  /\ s \in Setting[Target]
  /\ cmd' = [cmd EXCEPT ![t] = Command("restore", Target, s, FALSE, "apply", "poweroff")]
  /\ UNCHANGED host

\* snapshot restore, or restorecurrent: any snapshot, on a stopped VM only.
\* An image that is gone brings nothing back.
RestoreSnapshot(t) ==
  /\ At(t, "restore")
  /\ LET i == cmd[t].inst IN
       /\ ~On(i)
       /\ \E s \in snapshots[i] :
            /\ vm' = [vm EXCEPT ![i] = s.vm]
            /\ installed' = IF s.installed /\ 0 \in disks[i] THEN installed \cup {i}
                                                           ELSE installed \ {i}
  /\ End(t)
  /\ UNCHANGED <<pointer, owner, disks, files, snapshots, record, inventory>>

-----------------------------------------------------------------------------
(* Failures                                                                *)

\* VBoxManage refuses and VBoxError ends the command, or a playbook fails.
Refused(t) ==
  LET i == cmd[t].inst IN
    \/ At(t, "configure") /\ ~Off(i)
    \/ At(t, "attach") /\ ~Off(i)
    \/ At(t, "attach") /\ cmd[t].at <= LastPort(cmd[t].count) /\ ~Attachable(t)
    \/ At(t, "start") /\ vm[i] = NoVM
    \/ At(t, "playbooks") /\ Answering(inventory) = NoInst
    \/ At(t, "destroy") /\ On(i)
    \/ At(t, "restore") /\ (On(i) \/ snapshots[i] = {})

Raise(t) ==
  /\ Refused(t)
  /\ End(t)
  /\ UNCHANGED host

\* Any other end of the command: an interrupt, a failed download, a refusal
\* at the prompt, a reboot of the host.
Die(t) ==
  /\ Busy(t)
  /\ End(t)
  /\ UNCHANGED host

-----------------------------------------------------------------------------

ProvisionStep(t) ==
  \/ BeginProvision(t) \/ PrepareMedia(t) \/ CreateVM(t) \/ ConfigureVM(t)
  \/ CreateDisk(t) \/ AttachDisk(t) \/ AttachMedia(t) \/ StartVM(t)
  \/ SSHAnswers(t) \/ SSHTimesOut(t) \/ MarkProvision(t) \/ EndProvision(t)

ApplyStep(t) == BeginApply(t) \/ RunPlaybooks(t) \/ MarkApply(t)

DestroyStep(t) ==
  \/ PowerOff(t) \/ Unregister(t) \/ UnlinkPrimary(t) \/ UnlinkFiles(t)
  \/ UnlinkState(t) \/ UnlinkData(t)

\* What a running command does by itself.
Step(t) ==
  ProvisionStep(t) \/ ApplyStep(t) \/ DestroyStep(t) \/ RestoreSnapshot(t) \/ Raise(t)

Begin(t) ==
  \/ \E i \in Inst : Use(t, i) \/ Start(t, i) \/ \E s \in Setting[i] : Create(t, i, s)
  \/ Snapshot(t)
  \/ \E s \in Setting[Target] :
       \/ Apply(t, s) \/ Destroy(t, s) \/ BeginRestore(t, s)
       \/ \E force \in BOOLEAN, until \in {"provision", "apply"} :
            All(t, s, force, until)

Next ==
  \/ \E t \in Term : Begin(t) \/ Step(t) \/ Confirm(t) \/ Die(t)
  \/ \E i \in Inst : Stops(i) \/ Installs(i)

Spec == Init /\ [][Next]_vars

\* A running command is scheduled; its prompt, the guests and the operator
\* need not act.
Fair(t) == WF_vars(Step(t))
FairSpec == Spec /\ \A t \in Term : Fair(t)

-----------------------------------------------------------------------------

\* Type invariant; a port belongs to a running VM with that forward, an
\* installed system has its disk, a phase its state file.
TypeOK ==
  /\ pointer \in Inst \cup {NoInst}
  /\ vm \in [Inst -> Machines \cup {NoVM}]
  /\ owner \in [Port -> Inst \cup {NoInst}]
  /\ \A q \in Port : owner[q] # NoInst => On(owner[q]) /\ vm[owner[q]].port = q
  /\ disks \in [Inst -> SUBSET Int]
  /\ files \in [Inst -> SUBSET ({"password"} \cup Seeds)]
  /\ installed \subseteq {i \in Inst : 0 \in disks[i]}
  /\ snapshots \in [Inst -> SUBSET SavedStates]
  /\ stateFile \subseteq Inst
  /\ done \in [Inst -> SUBSET {"provision", "apply"}]
  /\ \A i \in Inst : done[i] # {} => i \in stateFile
  /\ info \in [Inst -> [count : Counts, windows : BOOLEAN]]
  /\ inventory \in Port \cup {NoPort}
  /\ cmd \in [Term -> Commands \cup {NoCommand}]

\* A VM whose provision phase is recorded carries an installed OS, so the
\* phases that trust the record (apply, a skipped provision) find a guest: the
\* ssh gate before mark_phase_done is there for this (ssh.py:77-80).
ProvisionMeansInstalled ==
  \A i \in Inst :
    "provision" \in done[i] /\ vm[i] # NoVM /\ ~info[i].windows => i \in installed

\* Its VM has every disk the record counts at that disk's own port, and the
\* image of every disk it has, whatever crashes, refusals and resumed runs with
\* other counts came before the record was made (provision.py:271-334).
RecordedDisksAttached ==
  \A i \in Inst :
    "provision" \in done[i] /\ vm[i] # NoVM =>
      /\ \A p \in 0..LastPort(info[i].count) :
           vm[i].sata[p] = DiskAt(info[i].count, p)
      /\ Carried(vm[i]) \subseteq disks[i]

\* A snapshot can be restored for as long as there is one: its VM is registered
\* and no image it needs was unlinked, by whatever destroy was refused or died
\* half way (lab/cli.py:231-257).
SnapshotsWhole ==
  \A i \in Inst :
    snapshots[i] # {} =>
      /\ vm[i] # NoVM
      /\ \A s \in snapshots[i] :
           Carried(s.vm) \subseteq disks[i] /\ (s.installed => 0 \in disks[i])

\* Provision is redone only after its record was reset (pipeline.py:3-4).
NoReprovision ==
  \A t \in Term :
    Busy(t) /\ cmd[t].pc \in {"media", "createvm", "configure", "disks", "attach",
                              "start", "wait", "mark"} =>
      "provision" \notin done[cmd[t].inst]

\* The playbooks of an instance's apply configure that instance's guest.
PlaybooksReachInstance ==
  \A t \in Term :
    At(t, "playbooks") => Answering(inventory) \in {NoInst, cmd[t].inst}

\* A destroy at its end (lab/cli.py:231-257).
Destroyed(t) == At(t, "data") /\ ToUnlink(t) = {}

\* It leaves no image, VM, state file or console password of its instance, in
\* the environment the instance was made in: of its files there remain at most
\* the seed ISOs that destroy does not name.
DestroyComplete ==
  \A t \in Term :
    Destroyed(t) =>
      LET i == cmd[t].inst IN
        /\ disks[i] = {}
        /\ files[i] \subseteq Seeds \ {"cidata"}
        /\ vm[i] = NoVM
        /\ i \notin stateFile

\* "Remove disks and ISOs that the VM was using" (lab/cli.py:233): no seed of
\* the instance is left.
SeedsRemoved ==
  \A t \in Term : Destroyed(t) => files[cmd[t].inst] \cap Seeds = {}

\* A VM created with another disk count "still gets all its disks removed even
\* if the current env/default differs" (lab/cli.py:213-215).
ImagesRemoved ==
  \A t \in Term : Destroyed(t) => disks[cmd[t].inst] = {}

\* "Re-run safely: every step is idempotent" (provision.py:27): no storageattach
\* is refused for a disk that an earlier run left at another port.
ReattachAccepted ==
  \A t \in Term :
    At(t, "attach") /\ Off(cmd[t].inst) /\ cmd[t].at <= LastPort(cmd[t].count) =>
      \A q \in Slots \ {cmd[t].at} :
        vm[cmd[t].inst].sata[q] # DiskAt(cmd[t].count, cmd[t].at)

\* Disks, VMs and installed systems go only by a destroy whose prompt named
\* their instance, wherever the pointer moves meanwhile; a system may also go
\* by a restore of that instance to an earlier state (lab/cli.py:197-231).
DestroyOnlyWhatWasNamed ==
  [][\A i \in Inst :
       LET For(kinds) == \E t \in Term : Busy(t) /\ cmd[t].kind \in kinds /\ cmd[t].home = i IN
         /\ ~ (disks[i] \subseteq disks'[i]) \/ (vm[i] # NoVM /\ vm'[i] = NoVM) =>
              For({"destroy"})
         /\ i \in installed \ installed' => For({"destroy", "restore"})]_vars

\* Every command comes to an end once it is past its prompt: no wait of the
\* lab is unbounded (ssh.py:82-100).
CommandsEnd ==
  \A t \in Term : (Busy(t) /\ ~At(t, "confirm")) ~> ~Busy(t)
=============================================================================
