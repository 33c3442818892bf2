--------------------------- MODULE ZfsRootInstall ---------------------------
(***************************************************************************)
(* `msai lab install-zfs-root`: the driver (src/msai_setup/lab/zfsroot.py) *)
(* and the playbook it runs in a live environment                          *)
(* (lab/ansible/playbooks/zfs-root-install.yml), with its offline          *)
(* verification and the rollback proof across a reboot.                    *)
(*                                                                         *)
(* The disks outlive everything; imported pools belong to one boot of      *)
(* the live VM; the record of finished phases is on the host.  A run is    *)
(* one task after the other.  Any task may fail and end the run, the VM    *)
(* may lose power, and the operator runs the command again.                *)
(***************************************************************************)
EXTENDS Integers

CONSTANT MaxBoots   \* bound: boots of the live VM
ASSUME BootsAssumption == MaxBoots \in Nat

VARIABLES
  onDisk,      \* pools that exist on the two disks
  datasets,    \* how many of ROOT, ROOT/ubuntu, home rpool has
  content,     \* what the boot environment holds
  esp,         \* the EFI system partition of the fast disk
  snapshot,    \* the boot environment has its msai-reboot-test snapshot
  marker,      \* .. and the marker written after the snapshot
  up,          \* the live VM runs
  boot,        \* number of its boots
  imported,    \* pools imported in this boot
  pc,          \* the next task of the run
  run,         \* its options
  found,       \* rpool_check, tank_check: the pools imported at their check
  provisioned, \* "provision" is in the state file
  finished,    \* "zfs_root_install" is in the state file
  markerBoot   \* history: the boot in which the marker was written

disk == <<onDisk, datasets, content, esp, snapshot, marker>>
env  == <<up, boot, imported>>
host == <<run, found, provisioned, finished, markerBoot>>
vars == <<disk, env, pc, host>>

Pool == {"rpool", "tank"}

-----------------------------------------------------------------------------

Init ==
  /\ onDisk = {}
  /\ datasets = 0
  /\ content = "empty"
  /\ esp = "none"
  /\ snapshot = FALSE
  /\ marker = FALSE
  /\ up = FALSE
  /\ boot = 0
  /\ imported = {}
  /\ pc = "idle"
  /\ run = [reboot |-> FALSE, skip |-> FALSE]
  /\ found = {}
  /\ provisioned = FALSE
  /\ finished = FALSE
  /\ markerBoot = 0

Task(here, next) == pc = here /\ pc' = next

\* A task over ssh needs the live VM.
Remote(here, next) == up /\ Task(here, next)

Starts ==
  /\ boot < MaxBoots
  /\ up' = TRUE
  /\ boot' = boot + 1
  /\ UNCHANGED imported

Stops ==
  /\ up' = FALSE
  /\ imported' = {}
  /\ UNCHANGED boot

-----------------------------------------------------------------------------
(* The driver up to the playbook                                           *)

\* run_install_zfs_root: neither phase record keeps it from going on.
Begin(reboot, skip) ==
  /\ Task("idle", "live")
  /\ run' = [reboot |-> reboot, skip |-> skip]
  /\ UNCHANGED <<disk, env, found, provisioned, finished, markerBoot>>

\* _provision_live_vm: a recorded live VM is started if it is down; creating
\* one configures it, which VBoxManage refuses while it runs.
StartLive ==
  /\ Task("live", "livessh")
  /\ IF up THEN provisioned /\ UNCHANGED env ELSE Starts
  /\ UNCHANGED <<disk, host>>

\* Root ssh answers; the first time, the provision phase is recorded.
LiveAnswers ==
  /\ Remote("livessh", "check")
  /\ provisioned' = TRUE
  /\ UNCHANGED <<disk, env, run, found, finished, markerBoot>>

-----------------------------------------------------------------------------
(* The playbook                                                            *)

\* Mutant of CheckPools: the labels on the disks are asked, not the pools.
CheckPoolsOnDisk ==
  /\ Remote("check", IF "rpool" \in onDisk THEN "mount" ELSE "partfast")
  /\ found' = onDisk
  /\ UNCHANGED <<disk, env, run, provisioned, finished, markerBoot>>

\* zpool list sees imported pools; what follows is decided by this answer.
CheckPools ==
  /\ Remote("check", IF "rpool" \in imported THEN "mount" ELSE "partfast")
  /\ found' = imported
  /\ UNCHANGED <<disk, env, run, provisioned, finished, markerBoot>>

\* sgdisk --zap-all and a new table: ESP and rpool member ..
PartitionFast ==
  /\ Remote("partfast", "partslow")
  /\ onDisk' = onDisk \ {"rpool"}
  /\ datasets' = 0
  /\ content' = "empty"
  /\ esp' = "raw"
  /\ snapshot' = FALSE
  /\ marker' = FALSE
  /\ UNCHANGED <<env, host>>

\* .. and the tank member.
PartitionSlow ==
  /\ Remote("partslow", "wipe")
  /\ onDisk' = onDisk \ {"tank"}
  /\ UNCHANGED <<datasets, content, esp, snapshot, marker, env, host>>

\* wipefs refuses a partition an imported pool holds.
WipeSignatures ==
  /\ Remote("wipe", "rpool")
  /\ imported = {}
  /\ UNCHANGED <<disk, env, host>>

\* Mutant of CreateRpool: an unreachable host is ignored.
CreateRpoolUnreachable ==
  /\ Task("rpool", "datasets")
  /\ onDisk' = onDisk \cup {"rpool"}
  /\ imported' = imported \cup {"rpool"}
  /\ UNCHANGED <<datasets, content, esp, snapshot, marker, up, boot, host>>

CreateRpool ==
  /\ Remote("rpool", "datasets")
  /\ onDisk' = onDisk \cup {"rpool"}
  /\ imported' = imported \cup {"rpool"}
  /\ UNCHANGED <<datasets, content, esp, snapshot, marker, up, boot, host>>

\* rpool/ROOT, rpool/ROOT/ubuntu, rpool/home, one command each.
CreateDataset ==
  /\ Remote("datasets", IF datasets = 2 THEN "mount" ELSE "datasets")
  /\ datasets' = datasets + 1
  /\ UNCHANGED <<onDisk, content, esp, snapshot, marker, env, host>>

\* A boot environment that is mounted already is left as it is.
MountBE ==
  /\ Remote("mount", "tank")
  /\ "rpool" \in imported
  /\ datasets = 3
  /\ UNCHANGED <<disk, env, host>>

\* zpool create without -f refuses a partition with the label of a pool.
CreateTank ==
  /\ Remote("tank", "debootstrap")
  /\ IF "tank" \in found
       THEN UNCHANGED <<onDisk, imported>>
       ELSE /\ "tank" \notin onDisk
            /\ onDisk' = onDisk \cup {"tank"}
            /\ imported' = imported \cup {"tank"}
  /\ UNCHANGED <<datasets, content, esp, snapshot, marker, up, boot, host>>

\* `creates: /mnt/bin`: a base that was cut short counts as there.
Debootstrap ==
  /\ Remote("debootstrap", "mkfs")
  /\ content' = IF content = "empty" THEN "base" ELSE content
  /\ UNCHANGED <<onDisk, datasets, esp, snapshot, marker, env, host>>

\* Mutant of MakeEsp: without the condition, so that a resumed run gets on.
MakeEspAlways ==
  /\ Remote("mkfs", "mountesp")
  /\ esp' = "formatted"
  /\ UNCHANGED <<onDisk, datasets, content, snapshot, marker, env, host>>

\* mkfs.vfat on the ESP, under the condition of the partitioning.
MakeEsp ==
  /\ Remote("mkfs", "mountesp")
  /\ esp' = IF "rpool" \in found THEN esp ELSE "formatted"
  /\ UNCHANGED <<onDisk, datasets, content, snapshot, marker, env, host>>

MountEsp ==
  /\ Remote("mountesp", "chroot")
  /\ esp # "raw"
  /\ UNCHANGED <<disk, env, host>>

\* Binds, apt sources, kernel and packages, hostname, netplan, fstab, admin
\* user, in whatever chroot is there.  Where apt and dpkg get through in a base
\* that was cut short, what debootstrap left out may still be missing.
InstallSystem ==
  /\ Remote("chroot", "zbm")
  /\ content' \in IF content \in {"partial", "flawed"} THEN {"flawed", "system"} ELSE {"system"}
  /\ UNCHANGED <<onDisk, datasets, esp, snapshot, marker, env, host>>

\* ZFSBootMenu on the ESP and its fallback path; efibootmgr is best effort.
InstallZBM ==
  /\ Remote("zbm", "export")
  /\ esp' = "bootable"
  /\ UNCHANGED <<onDisk, datasets, content, snapshot, marker, env, host>>

\* ESP and binds are unmounted; each export is tried five times and then given
\* up.
ExportSome(here, next, pools) ==
  /\ Remote(here, next)
  /\ \E ok \in SUBSET pools : imported' = imported \ ok
  /\ UNCHANGED <<disk, up, boot, host>>

AfterPlaybook == IF run.reboot THEN "reboot" ELSE IF run.skip THEN "mark" ELSE "importA"

Export == ExportSome("export", AfterPlaybook, Pool)

\* do_reboot: the guest reboots and the driver returns with nothing recorded.
RebootGuest ==
  /\ Remote("reboot", "idle")
  /\ boot < MaxBoots
  /\ boot' = boot + 1
  /\ imported' = {}
  /\ UNCHANGED <<disk, up, host>>

-----------------------------------------------------------------------------
(* _verify_and_prove_rollback                                              *)

ImportA ==
  /\ Remote("importA", "checkA")
  /\ Pool \subseteq imported \cup onDisk
  /\ imported' = Pool
  /\ UNCHANGED <<disk, up, boot, host>>

\* Phase A's assertions on the pools, the boot environment and the ESP; of the
\* system it looks for os-release, a kernel, an initramfs with zfs, the admin
\* user and fstab, which a flawed one has too.
CheckA ==
  /\ Remote("checkA", "snapA")
  /\ datasets = 3
  /\ content \in {"system", "flawed"}
  /\ esp = "bootable"
  /\ UNCHANGED <<disk, env, host>>

\* Old snapshot and marker removed, a clean snapshot, the marker after it; the
\* script has no `set -e`, so only the marker is sure to be there.
SnapshotA ==
  /\ Remote("snapA", "exportA")
  /\ snapshot' \in BOOLEAN
  /\ marker' = TRUE
  /\ markerBoot' = boot
  /\ UNCHANGED <<onDisk, datasets, content, esp, env, run, found, provisioned, finished>>

ExportA == ExportSome("exportA", "poweroff", Pool)

\* power_off ignores what controlvm returns: the VM may stay up ..
PowerOff ==
  /\ Task("poweroff", "waitstop")
  /\ IF up THEN UNCHANGED env \/ Stops ELSE UNCHANGED env
  /\ UNCHANGED <<disk, host>>

\* Mutant of WaitStopped: start follows power_off without the wait.
WaitStoppedNot ==
  /\ Task("waitstop", "restart")
  /\ UNCHANGED <<disk, env, host>>

\* .. and then wait_until_stopped raises.
WaitStopped ==
  /\ Task("waitstop", "restart")
  /\ ~up
  /\ UNCHANGED <<disk, env, host>>

\* start_headless is a no-op on a running VM.
Restart ==
  /\ Task("restart", "livesshB")
  /\ IF up THEN UNCHANGED env ELSE Starts
  /\ UNCHANGED <<disk, host>>

LiveAnswersB ==
  /\ Remote("livesshB", "importB")
  /\ UNCHANGED <<disk, env, host>>

\* Phase B imports rpool alone; importing an imported pool is an error.
ImportB ==
  /\ Remote("importB", "checkB")
  /\ "rpool" \in onDisk \ imported
  /\ imported' = imported \cup {"rpool"}
  /\ UNCHANGED <<disk, up, boot, host>>

CheckB ==
  /\ Remote("checkB", "rollback")
  /\ marker
  /\ snapshot
  /\ UNCHANGED <<disk, env, host>>

\* zfs rollback takes the boot environment back to before the marker.
Rollback ==
  /\ Remote("rollback", "dropsnap")
  /\ marker' = FALSE
  /\ UNCHANGED <<onDisk, datasets, content, esp, snapshot, env, host>>

\* The destroy is unchecked too: a snapshot may stay behind.
DropSnapshot ==
  /\ Remote("dropsnap", "exportB")
  /\ snapshot' \in {FALSE, snapshot}
  /\ UNCHANGED <<onDisk, datasets, content, esp, marker, env, host>>

ExportB == ExportSome("exportB", "mark", {"rpool"})

MarkFinished ==
  /\ Task("mark", "idle")
  /\ finished' = TRUE
  /\ UNCHANGED <<disk, env, run, found, provisioned, markerBoot>>

-----------------------------------------------------------------------------
(* Failures                                                                *)

\* A task fails and the run is over; a debootstrap that fails late leaves
\* part of a base, with /bin in it.
Fail ==
  /\ pc # "idle"
  /\ pc' = "idle"
  /\ \/ UNCHANGED disk
     \/ /\ pc = "debootstrap" /\ content = "empty"
        /\ content' = "partial"
        /\ UNCHANGED <<onDisk, datasets, esp, snapshot, marker>>
  /\ UNCHANGED <<env, host>>

PowerCut ==
  /\ up
  /\ Stops
  /\ UNCHANGED <<disk, pc, host>>

-----------------------------------------------------------------------------

Prepare ==
  \/ StartLive \/ LiveAnswers \/ CheckPools \/ PartitionFast \/ PartitionSlow
  \/ WipeSignatures \/ CreateRpool \/ CreateDataset \/ MountBE \/ CreateTank

Install ==
  \/ Debootstrap \/ MakeEsp \/ MountEsp \/ InstallSystem \/ InstallZBM
  \/ Export \/ RebootGuest

Verify ==
  \/ ImportA \/ CheckA \/ SnapshotA \/ ExportA \/ PowerOff \/ WaitStopped \/ Restart
  \/ LiveAnswersB \/ ImportB \/ CheckB \/ Rollback \/ DropSnapshot \/ ExportB

Next ==
  \/ \E reboot, skip \in BOOLEAN : Begin(reboot, skip)
  \/ Prepare \/ Install \/ Verify \/ MarkFinished
  \/ Fail \/ PowerCut

Spec == Init /\ [][Next]_vars

-----------------------------------------------------------------------------

\* Type invariant.
TypeOK ==
  /\ onDisk \subseteq Pool
  /\ datasets \in Nat
  /\ content \in {"empty", "partial", "base", "flawed", "system"}
  /\ esp \in {"none", "raw", "formatted", "bootable"}
  /\ snapshot \in BOOLEAN /\ marker \in BOOLEAN
  /\ up \in BOOLEAN /\ provisioned \in BOOLEAN /\ finished \in BOOLEAN
  /\ boot \in 0..MaxBoots
  /\ imported \subseteq Pool
  /\ imported # {} => up
  /\ run \in [reboot : BOOLEAN, skip : BOOLEAN]
  /\ found \subseteq Pool
  /\ markerBoot \in 0..MaxBoots

\* A run that gets to recording its verification has seen, after a real reboot,
\* what it wrote before it, and has undone it: "we prove boot-environment
\* rollback ACROSS A REAL REBOOT" (zfsroot.py:29-38).
VerifiedAcrossReboot ==
  pc = "mark" /\ ~run.skip =>
    /\ markerBoot < boot
    /\ ~marker

\* The recorded install is complete whatever runs failed before it, verified or
\* not: both pools, all datasets, a whole system, a bootable ESP.  A run that
\* finds rpool takes a base that was cut short for a whole one
\* (zfs-root-install.yml:303) and the verification would not notice
\* (zfsroot.py:90-98); what stops it is the ESP, formatted after debootstrap and
\* only by the run that partitions (zfs-root-install.yml:320).
RecordedMeansInstalled ==
  pc = "mark" =>
    /\ onDisk = Pool
    /\ datasets = 3
    /\ content = "system"
    /\ esp = "bootable"

\* The tasks that install run with both pools imported and every dataset made,
\* whatever was found and skipped: the answers of the check stay true through
\* the run, over half-done exports, failed runs and power cuts
\* (zfs-root-install.yml:173-186, 235, 275).
InstallsIntoPools ==
  up /\ pc \in {"debootstrap", "mkfs", "mountesp", "chroot", "zbm"} =>
    /\ imported = Pool
    /\ datasets = 3

\* Not so: "a resumed run after a mid-flight failure skips re-partitioning
\* devices already held by imported pools" (zfs-root-install.yml:174-175).  Both
\* disks are partitioned when rpool is not imported, tank or not.
HeldDisksKept == pc \in {"partfast", "partslow", "wipe"} => imported = {}
=============================================================================
