----------------------- MODULE ZfsRootInstall_proofs -----------------------
(***************************************************************************)
(* Proofs about ZfsRootInstall for any number of boots: what a recorded    *)
(* install has gone through and what it consists of.                       *)
(***************************************************************************)
EXTENDS ZfsRootInstall, TLAPS

\* The tasks between the check for the pools and the creation of rpool, those
\* of the finished system, and those of the two verification phases.
Prep      == {"partfast", "partslow", "wipe"}
SecondRun == {"livesshB", "importB", "checkB", "rollback", "dropsnap", "exportB"}
Verifying == {"importA", "checkA", "snapA", "exportA", "poweroff", "waitstop",
              "restart"} \cup SecondRun
Complete  == {"export", "reboot", "mark"} \cup Verifying
Installing == {"debootstrap", "mkfs", "mountesp", "chroot", "zbm"}
WithTank  == Installing \cup Complete
\* Tasks before debootstrap, from the first disk partitioned on.
Emptied   == {"partslow", "wipe", "rpool", "datasets", "mount", "tank", "debootstrap"}

\* The proof of rollback: where the marker is at each task.
RebootInv ==
  /\ markerBoot <= boot
  /\ pc \in Verifying => ~run.skip
  /\ pc = "restart" => ~up
  /\ pc \in SecondRun \/ (pc = "mark" /\ ~run.skip) => markerBoot < boot
  /\ pc \in {"dropsnap", "exportB"} \/ (pc = "mark" /\ ~run.skip) => ~marker

\* The pools: an imported rpool is on the disks, and so is a tank imported
\* beside it; the answers of the check are current as long as the VM is up, and
\* then both pools are imported from the creation of tank to the export.
PoolInv ==
  /\ "rpool" \in imported => "rpool" \in onDisk /\ ("tank" \in imported => "tank" \in onDisk)
  /\ pc \in Prep => "rpool" \notin imported /\ (up => found = imported)
  /\ pc = "rpool" => imported = {} /\ found = {}
  /\ pc = "datasets" => found = {}
  /\ pc \in {"mount", "tank"} => ("tank" \in found => "tank" \in onDisk)
  /\ pc \in {"datasets", "mount", "tank"} => "rpool" \in onDisk
  /\ pc \in WithTank => onDisk = Pool
  /\ up /\ pc \in {"mount", "tank"} => ("tank" \in found => "tank" \in imported)
  /\ up /\ pc = "tank" => "rpool" \in imported
  /\ up /\ pc \in Installing => imported = Pool

\* The system: how far it is at each task.
SystemInv ==
  /\ pc \in {"partslow", "wipe", "rpool"} => datasets = 0
  /\ pc = "datasets" => datasets <= 2
  /\ pc \in {"tank"} \cup WithTank => datasets = 3
  /\ pc \in Complete => esp = "bootable"

\* The base and the ESP: until the base is whole the ESP has no file system, and
\* a run that did not partition the disks does not make one.
BaseInv ==
  /\ content # "flawed"
  /\ content \in {"empty", "partial"} => esp \in {"none", "raw"}
  /\ "rpool" \in onDisk => esp # "none"
  /\ pc \in {"partslow", "wipe", "rpool", "datasets"} => content = "empty"
  /\ pc \in {"partslow", "wipe", "rpool"} => esp = "raw"
  /\ pc \in Emptied /\ "rpool" \notin found => content = "empty"
  /\ pc = "mkfs" /\ "rpool" \notin found => content = "base"
  /\ pc = "mkfs" => content # "empty"
  /\ pc = "chroot" => content \in {"base", "system"}
  /\ pc \in {"zbm"} \cup Complete => content = "system"

-----------------------------------------------------------------------------

\* Every task of a run keeps the types.
LEMMA TypeStep ==
  ASSUME TypeOK, [Next]_vars
  PROVE  TypeOK'
<1> USE DEF TypeOK, Task, Remote, disk, env, host, Pool
<1>1. ASSUME NEW reboot \in BOOLEAN, NEW skip \in BOOLEAN, Begin(reboot, skip) PROVE TypeOK'
  BY <1>1 DEF Begin
<1>2. CASE Prepare
  <2>1. CASE StartLive
    <3>1. \/ up' = TRUE /\ boot' \in 0..MaxBoots
          \/ up' = up /\ boot' = boot
      BY <2>1, BootsAssumption DEF StartLive, Starts
    <3>2. imported' = imported
      BY <2>1 DEF StartLive, Starts
    <3>3. up' \in BOOLEAN /\ boot' \in 0..MaxBoots /\ (imported' # {} => up')
      BY <3>1, <3>2
    <3>4. QED
      BY <2>1, <3>2, <3>3 DEF StartLive
  <2>2. CASE LiveAnswers
    BY <2>2 DEF LiveAnswers
  <2>3. CASE CheckPools
    BY <2>3 DEF CheckPools
  <2>4. CASE PartitionFast
    BY <2>4 DEF PartitionFast
  <2>5. CASE PartitionSlow
    BY <2>5 DEF PartitionSlow
  <2>6. CASE WipeSignatures
    BY <2>6 DEF WipeSignatures
  <2>7. CASE CreateRpool
    BY <2>7 DEF CreateRpool
  <2>8. CASE CreateDataset
    BY <2>8 DEF CreateDataset
  <2>9. CASE MountBE
    BY <2>9 DEF MountBE
  <2>10. CASE CreateTank
    BY <2>10 DEF CreateTank
  <2>11. QED
    BY <1>2, <2>1, <2>2, <2>3, <2>4, <2>5, <2>6, <2>7, <2>8, <2>9, <2>10 DEF Prepare
<1>3. CASE Install
  <2>1. CASE Debootstrap
    BY <2>1 DEF Debootstrap
  <2>2. CASE MakeEsp
    BY <2>2 DEF MakeEsp
  <2>3. CASE MountEsp
    BY <2>3 DEF MountEsp
  <2>4. CASE InstallSystem
    BY <2>4 DEF InstallSystem
  <2>5. CASE InstallZBM
    BY <2>5 DEF InstallZBM
  <2>6. CASE Export
    BY <2>6 DEF Export, ExportSome, AfterPlaybook
  <2>7. CASE RebootGuest
    BY <2>7, BootsAssumption DEF RebootGuest
  <2>8. QED
    BY <1>3, <2>1, <2>2, <2>3, <2>4, <2>5, <2>6, <2>7 DEF Install
<1>4. CASE Verify
  <2>1. CASE ImportA
    BY <2>1 DEF ImportA
  <2>2. CASE CheckA
    BY <2>2 DEF CheckA
  <2>3. CASE SnapshotA
    BY <2>3 DEF SnapshotA
  <2>4. CASE ExportA
    BY <2>4 DEF ExportA, ExportSome
  <2>5. CASE PowerOff
    BY <2>5 DEF PowerOff, Stops
  <2>6. CASE WaitStopped
    BY <2>6 DEF WaitStopped
  <2>7. CASE Restart
    <3>1. \/ up' = TRUE /\ boot' \in 0..MaxBoots
          \/ up' = up /\ boot' = boot
      BY <2>7, BootsAssumption DEF Restart, Starts
    <3>2. imported' = imported
      BY <2>7 DEF Restart, Starts
    <3>3. up' \in BOOLEAN /\ boot' \in 0..MaxBoots /\ (imported' # {} => up')
      BY <3>1, <3>2
    <3>4. QED
      BY <2>7, <3>2, <3>3 DEF Restart
  <2>8. CASE LiveAnswersB
    BY <2>8 DEF LiveAnswersB
  <2>9. CASE ImportB
    BY <2>9 DEF ImportB
  <2>10. CASE CheckB
    BY <2>10 DEF CheckB
  <2>11. CASE Rollback
    BY <2>11 DEF Rollback
  <2>12. CASE DropSnapshot
    BY <2>12 DEF DropSnapshot
  <2>13. CASE ExportB
    BY <2>13 DEF ExportB, ExportSome
  <2>14. QED
    BY <1>4, <2>1, <2>2, <2>3, <2>4, <2>5, <2>6, <2>7, <2>8, <2>9, <2>10, <2>11, <2>12, <2>13 DEF Verify
<1>5. CASE MarkFinished
  BY <1>5 DEF MarkFinished
<1>6. CASE Fail
  BY <1>6 DEF Fail
<1>7. CASE PowerCut
  BY <1>7 DEF PowerCut, Stops
<1>8. CASE UNCHANGED vars
  BY <1>8 DEF vars
<1>9. QED
  BY <1>1, <1>2, <1>3, <1>4, <1>5, <1>6, <1>7, <1>8 DEF Next

\* Every variable keeps its type, and a stopped VM has no pool imported.
THEOREM Typing == Spec => []TypeOK
<1>1. ASSUME Init PROVE TypeOK
  <2>1. boot \in 0..MaxBoots /\ markerBoot \in 0..MaxBoots /\ datasets \in Nat
    BY <1>1, BootsAssumption DEF Init
  <2>2. run \in [reboot : BOOLEAN, skip : BOOLEAN]
    BY <1>1 DEF Init
  <2>3. /\ onDisk \subseteq Pool /\ imported \subseteq Pool /\ found \subseteq Pool
        /\ imported # {} => up
    BY <1>1 DEF Init
  <2>4. /\ content \in {"empty", "partial", "base", "flawed", "system"}
        /\ esp \in {"none", "raw", "formatted", "bootable"}
    BY <1>1 DEF Init
  <2>5. /\ snapshot \in BOOLEAN /\ marker \in BOOLEAN /\ up \in BOOLEAN
        /\ provisioned \in BOOLEAN /\ finished \in BOOLEAN
    BY <1>1 DEF Init
  <2>6. QED
    BY <2>1, <2>2, <2>3, <2>4, <2>5 DEF TypeOK
<1>2. QED
  BY <1>1, TypeStep, PTL DEF Spec

-----------------------------------------------------------------------------

\* Every task keeps the state of the rollback proof.
LEMMA RebootStep ==
  ASSUME TypeOK, RebootInv, [Next]_vars
  PROVE  RebootInv'
<1> USE DEF TypeOK, RebootInv, Task, Remote, disk, env, host, Verifying, SecondRun, Pool
<1>1. ASSUME NEW reboot \in BOOLEAN, NEW skip \in BOOLEAN, Begin(reboot, skip) PROVE RebootInv'
  BY <1>1 DEF Begin
<1>2. CASE Prepare
  <2>1. CASE StartLive
    BY <2>1 DEF StartLive, Starts
  <2>2. CASE LiveAnswers
    BY <2>2 DEF LiveAnswers
  <2>3. CASE CheckPools
    BY <2>3 DEF CheckPools
  <2>4. CASE PartitionFast
    BY <2>4 DEF PartitionFast
  <2>5. CASE PartitionSlow
    BY <2>5 DEF PartitionSlow
  <2>6. CASE WipeSignatures
    BY <2>6 DEF WipeSignatures
  <2>7. CASE CreateRpool
    BY <2>7 DEF CreateRpool
  <2>8. CASE CreateDataset
    BY <2>8 DEF CreateDataset
  <2>9. CASE MountBE
    BY <2>9 DEF MountBE
  <2>10. CASE CreateTank
    BY <2>10 DEF CreateTank
  <2>11. QED
    BY <1>2, <2>1, <2>2, <2>3, <2>4, <2>5, <2>6, <2>7, <2>8, <2>9, <2>10 DEF Prepare
<1>3. CASE Install
  <2>1. CASE Debootstrap
    BY <2>1 DEF Debootstrap
  <2>2. CASE MakeEsp
    BY <2>2 DEF MakeEsp
  <2>3. CASE MountEsp
    BY <2>3 DEF MountEsp
  <2>4. CASE InstallSystem
    BY <2>4 DEF InstallSystem
  <2>5. CASE InstallZBM
    BY <2>5 DEF InstallZBM
  <2>6. CASE Export
    BY <2>6 DEF Export, ExportSome, AfterPlaybook
  <2>7. CASE RebootGuest
    BY <2>7 DEF RebootGuest
  <2>8. QED
    BY <1>3, <2>1, <2>2, <2>3, <2>4, <2>5, <2>6, <2>7 DEF Install
<1>4. CASE Verify
  <2>1. CASE ImportA
    BY <2>1 DEF ImportA
  <2>2. CASE CheckA
    BY <2>2 DEF CheckA
  <2>3. CASE SnapshotA
    BY <2>3 DEF SnapshotA
  <2>4. CASE ExportA
    BY <2>4 DEF ExportA, ExportSome
  <2>5. CASE PowerOff
    BY <2>5 DEF PowerOff, Stops
  <2>6. CASE WaitStopped
    BY <2>6 DEF WaitStopped
  <2>7. CASE Restart
    BY <2>7 DEF Restart, Starts
  <2>8. CASE LiveAnswersB
    BY <2>8 DEF LiveAnswersB
  <2>9. CASE ImportB
    BY <2>9 DEF ImportB
  <2>10. CASE CheckB
    BY <2>10 DEF CheckB
  <2>11. CASE Rollback
    BY <2>11 DEF Rollback
  <2>12. CASE DropSnapshot
    BY <2>12 DEF DropSnapshot
  <2>13. CASE ExportB
    BY <2>13 DEF ExportB, ExportSome
  <2>14. QED
    BY <1>4, <2>1, <2>2, <2>3, <2>4, <2>5, <2>6, <2>7, <2>8, <2>9, <2>10, <2>11, <2>12, <2>13 DEF Verify
<1>5. CASE MarkFinished
  BY <1>5 DEF MarkFinished
<1>6. CASE Fail
  BY <1>6 DEF Fail
<1>7. CASE PowerCut
  BY <1>7 DEF PowerCut, Stops
<1>8. CASE UNCHANGED vars
  BY <1>8 DEF vars
<1>9. QED
  BY <1>1, <1>2, <1>3, <1>4, <1>5, <1>6, <1>7, <1>8 DEF Next

\* "we prove boot-environment rollback ACROSS A REAL REBOOT" (zfsroot.py:29-38),
\* for any number of boots and of failed runs before.
THEOREM RebootProof == Spec => []VerifiedAcrossReboot
<1>1. Init => RebootInv
  BY DEF Init, RebootInv, Verifying, SecondRun
<1>2. RebootInv => VerifiedAcrossReboot
  BY DEF RebootInv, VerifiedAcrossReboot
<1>3. QED
  BY <1>1, <1>2, RebootStep, Typing, PTL DEF Spec

-----------------------------------------------------------------------------

\* Every task keeps the relation of the check's answers to the pools.
LEMMA PoolStep ==
  ASSUME TypeOK, PoolInv, [Next]_vars
  PROVE  PoolInv'
<1> USE DEF TypeOK, PoolInv, Task, Remote, disk, env, host, Prep, Installing, WithTank, Complete, Verifying, SecondRun, Pool
<1>1. ASSUME NEW reboot \in BOOLEAN, NEW skip \in BOOLEAN, Begin(reboot, skip) PROVE PoolInv'
  BY <1>1 DEF Begin
<1>2. CASE Prepare
  <2>1. CASE StartLive
    BY <2>1 DEF StartLive, Starts
  <2>2. CASE LiveAnswers
    BY <2>2 DEF LiveAnswers
  <2>3. CASE CheckPools
    BY <2>3 DEF CheckPools
  <2>4. CASE PartitionFast
    BY <2>4 DEF PartitionFast
  <2>5. CASE PartitionSlow
    BY <2>5 DEF PartitionSlow
  <2>6. CASE WipeSignatures
    BY <2>6 DEF WipeSignatures
  <2>7. CASE CreateRpool
    BY <2>7 DEF CreateRpool
  <2>8. CASE CreateDataset
    BY <2>8 DEF CreateDataset
  <2>9. CASE MountBE
    BY <2>9 DEF MountBE
  <2>10. CASE CreateTank
    <3>1. pc = "tank" /\ pc' = "debootstrap" /\ up' = up /\ found' = found
      BY <2>10 DEF CreateTank
    <3>2. "rpool" \in onDisk
      BY <3>1
    <3>3. onDisk' = Pool
      <4>1. CASE "tank" \in found
        BY <2>10, <3>1, <3>2, <4>1 DEF CreateTank
      <4>2. CASE "tank" \notin found
        BY <2>10, <3>2, <4>2 DEF CreateTank
      <4>3. QED
        BY <4>1, <4>2
    <3>4. up /\ imported' = Pool
      <4>1. up /\ "rpool" \in imported /\ imported \subseteq Pool
        BY <2>10 DEF CreateTank
      <4>2. CASE "tank" \in found
        BY <2>10, <3>1, <4>1, <4>2 DEF CreateTank
      <4>3. CASE "tank" \notin found
        BY <2>10, <4>1, <4>3 DEF CreateTank
      <4>4. QED
        BY <4>2, <4>3
    <3>5. QED
      BY <3>1, <3>3, <3>4
  <2>11. QED
    BY <1>2, <2>1, <2>2, <2>3, <2>4, <2>5, <2>6, <2>7, <2>8, <2>9, <2>10 DEF Prepare
<1>3. CASE Install
  <2>1. CASE Debootstrap
    BY <2>1 DEF Debootstrap
  <2>2. CASE MakeEsp
    BY <2>2 DEF MakeEsp
  <2>3. CASE MountEsp
    BY <2>3 DEF MountEsp
  <2>4. CASE InstallSystem
    BY <2>4 DEF InstallSystem
  <2>5. CASE InstallZBM
    BY <2>5 DEF InstallZBM
  <2>6. CASE Export
    BY <2>6 DEF Export, ExportSome, AfterPlaybook
  <2>7. CASE RebootGuest
    BY <2>7 DEF RebootGuest
  <2>8. QED
    BY <1>3, <2>1, <2>2, <2>3, <2>4, <2>5, <2>6, <2>7 DEF Install
<1>4. CASE Verify
  <2>1. CASE ImportA
    BY <2>1 DEF ImportA
  <2>2. CASE CheckA
    BY <2>2 DEF CheckA
  <2>3. CASE SnapshotA
    BY <2>3 DEF SnapshotA
  <2>4. CASE ExportA
    BY <2>4 DEF ExportA, ExportSome
  <2>5. CASE PowerOff
    BY <2>5 DEF PowerOff, Stops
  <2>6. CASE WaitStopped
    BY <2>6 DEF WaitStopped
  <2>7. CASE Restart
    BY <2>7 DEF Restart, Starts
  <2>8. CASE LiveAnswersB
    BY <2>8 DEF LiveAnswersB
  <2>9. CASE ImportB
    BY <2>9 DEF ImportB
  <2>10. CASE CheckB
    BY <2>10 DEF CheckB
  <2>11. CASE Rollback
    BY <2>11 DEF Rollback
  <2>12. CASE DropSnapshot
    BY <2>12 DEF DropSnapshot
  <2>13. CASE ExportB
    BY <2>13 DEF ExportB, ExportSome
  <2>14. QED
    BY <1>4, <2>1, <2>2, <2>3, <2>4, <2>5, <2>6, <2>7, <2>8, <2>9, <2>10, <2>11, <2>12, <2>13 DEF Verify
<1>5. CASE MarkFinished
  BY <1>5 DEF MarkFinished
<1>6. CASE Fail
  BY <1>6 DEF Fail
<1>7. CASE PowerCut
  BY <1>7 DEF PowerCut, Stops
<1>8. CASE UNCHANGED vars
  BY <1>8 DEF vars
<1>9. QED
  BY <1>1, <1>2, <1>3, <1>4, <1>5, <1>6, <1>7, <1>8 DEF Next

-----------------------------------------------------------------------------

\* Every task leaves the system as far as the next task needs it.
LEMMA SystemStep ==
  ASSUME TypeOK, SystemInv, [Next]_vars
  PROVE  SystemInv'
<1> USE DEF TypeOK, SystemInv, Task, Remote, disk, env, host, Installing, WithTank, Complete, Verifying, SecondRun, Pool
<1>1. ASSUME NEW reboot \in BOOLEAN, NEW skip \in BOOLEAN, Begin(reboot, skip) PROVE SystemInv'
  BY <1>1 DEF Begin
<1>2. CASE Prepare
  <2>1. CASE StartLive
    BY <2>1 DEF StartLive, Starts
  <2>2. CASE LiveAnswers
    BY <2>2 DEF LiveAnswers
  <2>3. CASE CheckPools
    BY <2>3 DEF CheckPools
  <2>4. CASE PartitionFast
    BY <2>4 DEF PartitionFast
  <2>5. CASE PartitionSlow
    BY <2>5 DEF PartitionSlow
  <2>6. CASE WipeSignatures
    BY <2>6 DEF WipeSignatures
  <2>7. CASE CreateRpool
    BY <2>7 DEF CreateRpool
  <2>8. CASE CreateDataset
    BY <2>8 DEF CreateDataset
  <2>9. CASE MountBE
    BY <2>9 DEF MountBE
  <2>10. CASE CreateTank
    BY <2>10 DEF CreateTank
  <2>11. QED
    BY <1>2, <2>1, <2>2, <2>3, <2>4, <2>5, <2>6, <2>7, <2>8, <2>9, <2>10 DEF Prepare
<1>3. CASE Install
  <2>1. CASE Debootstrap
    BY <2>1 DEF Debootstrap
  <2>2. CASE MakeEsp
    BY <2>2 DEF MakeEsp
  <2>3. CASE MountEsp
    BY <2>3 DEF MountEsp
  <2>4. CASE InstallSystem
    BY <2>4 DEF InstallSystem
  <2>5. CASE InstallZBM
    BY <2>5 DEF InstallZBM
  <2>6. CASE Export
    BY <2>6 DEF Export, ExportSome, AfterPlaybook
  <2>7. CASE RebootGuest
    BY <2>7 DEF RebootGuest
  <2>8. QED
    BY <1>3, <2>1, <2>2, <2>3, <2>4, <2>5, <2>6, <2>7 DEF Install
<1>4. CASE Verify
  <2>1. CASE ImportA
    BY <2>1 DEF ImportA
  <2>2. CASE CheckA
    BY <2>2 DEF CheckA
  <2>3. CASE SnapshotA
    BY <2>3 DEF SnapshotA
  <2>4. CASE ExportA
    BY <2>4 DEF ExportA, ExportSome
  <2>5. CASE PowerOff
    BY <2>5 DEF PowerOff, Stops
  <2>6. CASE WaitStopped
    BY <2>6 DEF WaitStopped
  <2>7. CASE Restart
    BY <2>7 DEF Restart, Starts
  <2>8. CASE LiveAnswersB
    BY <2>8 DEF LiveAnswersB
  <2>9. CASE ImportB
    BY <2>9 DEF ImportB
  <2>10. CASE CheckB
    BY <2>10 DEF CheckB
  <2>11. CASE Rollback
    BY <2>11 DEF Rollback
  <2>12. CASE DropSnapshot
    BY <2>12 DEF DropSnapshot
  <2>13. CASE ExportB
    BY <2>13 DEF ExportB, ExportSome
  <2>14. QED
    BY <1>4, <2>1, <2>2, <2>3, <2>4, <2>5, <2>6, <2>7, <2>8, <2>9, <2>10, <2>11, <2>12, <2>13 DEF Verify
<1>5. CASE MarkFinished
  BY <1>5 DEF MarkFinished
<1>6. CASE Fail
  BY <1>6 DEF Fail
<1>7. CASE PowerCut
  BY <1>7 DEF PowerCut, Stops
<1>8. CASE UNCHANGED vars
  BY <1>8 DEF vars
<1>9. QED
  BY <1>1, <1>2, <1>3, <1>4, <1>5, <1>6, <1>7, <1>8 DEF Next

\* Every task keeps a base that was cut short away from the chroot.
LEMMA BaseStep ==
  ASSUME TypeOK, PoolInv, BaseInv, [Next]_vars
  PROVE  BaseInv'
<1> USE DEF TypeOK, PoolInv, BaseInv, Emptied, Installing, Prep, Task, Remote, disk, env, host, WithTank, Complete, Verifying, SecondRun, Pool
<1>1. ASSUME NEW reboot \in BOOLEAN, NEW skip \in BOOLEAN, Begin(reboot, skip) PROVE BaseInv'
  BY <1>1 DEF Begin
<1>2. CASE Prepare
  <2>1. CASE StartLive
    BY <2>1 DEF StartLive, Starts
  <2>2. CASE LiveAnswers
    BY <2>2 DEF LiveAnswers
  <2>3. CASE CheckPools
    BY <2>3 DEF CheckPools
  <2>4. CASE PartitionFast
    BY <2>4 DEF PartitionFast
  <2>5. CASE PartitionSlow
    BY <2>5 DEF PartitionSlow
  <2>6. CASE WipeSignatures
    BY <2>6 DEF WipeSignatures
  <2>7. CASE CreateRpool
    BY <2>7 DEF CreateRpool
  <2>8. CASE CreateDataset
    BY <2>8 DEF CreateDataset
  <2>9. CASE MountBE
    BY <2>9 DEF MountBE
  <2>10. CASE CreateTank
    BY <2>10 DEF CreateTank
  <2>11. QED
    BY <1>2, <2>1, <2>2, <2>3, <2>4, <2>5, <2>6, <2>7, <2>8, <2>9, <2>10 DEF Prepare
<1>3. CASE Install
  <2>1. CASE Debootstrap
    BY <2>1 DEF Debootstrap
  <2>2. CASE MakeEsp
    BY <2>2 DEF MakeEsp
  <2>3. CASE MountEsp
    BY <2>3 DEF MountEsp
  <2>4. CASE InstallSystem
    BY <2>4 DEF InstallSystem
  <2>5. CASE InstallZBM
    BY <2>5 DEF InstallZBM
  <2>6. CASE Export
    BY <2>6 DEF Export, ExportSome, AfterPlaybook
  <2>7. CASE RebootGuest
    BY <2>7 DEF RebootGuest
  <2>8. QED
    BY <1>3, <2>1, <2>2, <2>3, <2>4, <2>5, <2>6, <2>7 DEF Install
<1>4. CASE Verify
  <2>1. CASE ImportA
    BY <2>1 DEF ImportA
  <2>2. CASE CheckA
    BY <2>2 DEF CheckA
  <2>3. CASE SnapshotA
    BY <2>3 DEF SnapshotA
  <2>4. CASE ExportA
    BY <2>4 DEF ExportA, ExportSome
  <2>5. CASE PowerOff
    BY <2>5 DEF PowerOff, Stops
  <2>6. CASE WaitStopped
    BY <2>6 DEF WaitStopped
  <2>7. CASE Restart
    BY <2>7 DEF Restart, Starts
  <2>8. CASE LiveAnswersB
    BY <2>8 DEF LiveAnswersB
  <2>9. CASE ImportB
    BY <2>9 DEF ImportB
  <2>10. CASE CheckB
    BY <2>10 DEF CheckB
  <2>11. CASE Rollback
    BY <2>11 DEF Rollback
  <2>12. CASE DropSnapshot
    BY <2>12 DEF DropSnapshot
  <2>13. CASE ExportB
    BY <2>13 DEF ExportB, ExportSome
  <2>14. QED
    BY <1>4, <2>1, <2>2, <2>3, <2>4, <2>5, <2>6, <2>7, <2>8, <2>9, <2>10, <2>11, <2>12, <2>13 DEF Verify
<1>5. CASE MarkFinished
  BY <1>5 DEF MarkFinished
<1>6. CASE Fail
  BY <1>6 DEF Fail
<1>7. CASE PowerCut
  BY <1>7 DEF PowerCut, Stops
<1>8. CASE UNCHANGED vars
  BY <1>8 DEF vars
<1>9. QED
  BY <1>1, <1>2, <1>3, <1>4, <1>5, <1>6, <1>7, <1>8 DEF Next

\* What is recorded as installed is complete: both pools, all datasets, a whole
\* system and a bootable ESP (zfsroot.py:402-411), for any number of failed runs,
\* those cut short within debootstrap among them.
THEOREM RecordProof == Spec => []RecordedMeansInstalled
<1>1. Init => PoolInv /\ SystemInv /\ BaseInv
  BY DEF Init, PoolInv, SystemInv, BaseInv, Prep, Installing, Emptied, WithTank, Complete, Verifying, SecondRun
<1>2. PoolInv /\ SystemInv /\ BaseInv => RecordedMeansInstalled
  BY DEF PoolInv, SystemInv, BaseInv, RecordedMeansInstalled, WithTank, Complete
<1>3. QED
  BY <1>1, <1>2, PoolStep, SystemStep, BaseStep, Typing, PTL DEF Spec

\* Whatever was found and skipped, the tasks that install have both pools
\* imported and every dataset made (zfs-root-install.yml:173-186, 235, 275).
THEOREM PoolsProof == Spec => []InstallsIntoPools
<1>1. Init => PoolInv /\ SystemInv
  BY DEF Init, PoolInv, SystemInv, Prep, Installing, WithTank, Complete, Verifying, SecondRun
<1>2. PoolInv /\ SystemInv => InstallsIntoPools
  BY DEF PoolInv, SystemInv, InstallsIntoPools, Installing, WithTank
<1>3. QED
  BY <1>1, <1>2, PoolStep, SystemStep, Typing, PTL DEF Spec
=============================================================================
