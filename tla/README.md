# Specifications of msai-setup

TLA+ models of `msai`, the command line tool that sets up the MS-S1 MAX server
and the VirtualBox lab in which its installation is rehearsed. The models are
written from the code (`src/src/msai_setup/`), checked with TLC on small
instances, and, where it matters most, proved with TLAPS for every instance.
`PROJECT.json` lists the runs, the source lines behind every definition, the
hazards the properties are aimed at, and what the runs found.

## The system

| Component | State it keeps | Operations | Hard about it |
|---|---|---|---|
| Phase record, `lab/state.py` | `<name>-state.json`, its `.partial` | `load`, `save`, `mark_phase_done`, `is_phase_done`, `reset_phase`; `destroy` unlinks it | a crash at any system call; two commands, no lock, one name for the partial |
| Instances and pointer, `lab/instance.py`, `cli.py` | `target/.current`, the files of each instance | `create`, `use`, `start`, `stop`, `list` | the pointer is read again by every phase |
| Provisioning, `lab/provision.py`, `lab/vbox.py` | VMs, disk images, attachments, port forwards | create, configure, create and attach disks, start, wait for ssh, mark | crashes and re-runs half way; VirtualBox refuses steps on a running VM; one host port for many guests |
| Pipeline and apply, `lab/pipeline.py`, `lab/apply.py` | the one inventory file, the phase record | provision, then playbooks; `--force`, `--stop-after` | order of loads, resets and records |
| Destroy, `lab/cli.py` | all of the above | prompt, power off, unregister, unlink | counts read from a record that may be missing; crash between unlinks |
| Root-on-ZFS install, `lab/zfsroot.py`, `playbooks/zfs-root-install.yml` | two disks, pools, datasets, boot environment, ESP, snapshot | live VM, playbook, verification across a reboot | imported pools are per boot; failed runs are resumed; conditions decided far from where they are used |
| Bootstrap, `install/` | packages, groups, units of the host | a pass over the manifest | each command may fail; re-runs trust a probe |
| Doctor, `doctor/` | host facts, the profile file | checks, softening by profile, fixes | results go stale while fixes are applied; a fix is believed by its exit code |
| Install media, `lab/iso.py`, `lab/ssh.py`, the seed builders | lab key pair, cached, partial and remastered ISOs, seed ISOs | generate, download, verify, remaster, build, boot | files shared by all instances, judged by existence and age; crash between writing and renaming; upstream replaces a release |
| Incus provider, `lab/incus*.py` | Incus instances, managed volumes, the password file | three provisioning flows | re-runs find instances and volumes of earlier runs and keep them; firmware can only be set while the VM is down |
| Snapshots, `lab/cli.py` | VirtualBox snapshots | `snapshot`, `restore` | older disks under newer records; power off is not checked; destroy while snapshots need its images |
| Installer seeds, `lab/cloudinit.py`, `kickstart.py`, `windows.py`, `passwords.py`, `profiles.py` | none | rendering | nothing that a model would add to unit tests |

A command is one process that runs to its end or dies. Commands meet only in
what they leave on the host: the pointer, the state files, the disk images, the
VMs, the inventory, and a host port. Guests (an installer, an installed system,
a live environment) act by themselves and are reached over ssh at a forwarded
port of the host.

What makes each part correct:

* the state file always decodes, loses no phase it was not told to lose, and
  names no phase that did not run;
* a recorded provision means that the VM has its disks and an installed system,
  since everything later trusts the record;
* a phase is redone when its record was reset, and only then;
* playbooks reach the guest of the instance they are for;
* destroy removes the instance its prompt named, all that it knows of, and no other;
* every wait ends;
* a recorded root-on-ZFS install is complete, and its verification crossed a
  real reboot; a pool in use is never repartitioned; a failed run can be resumed;
* bootstrap answers for every component, whatever fails, and claims no more
  than it did;
* a Linux installer boots what its run verified, and the system it installs lets
  in the key the lab has;
* a snapshot can be restored as long as it is there;
* doctor does nothing unasked but start daemons, nothing on a desktop that its
  profile does not expect, and returns 0 only on a host without failures;
* an instance recorded on Incus has the media and firmware of its profile, and
  a run that died can be repeated from what it left.

## Modules

### `PhaseLog`, `StateStore` (`lab/state.py`)

`PhaseLog` is what callers of the store rely on: a set of finished phases on
which an operation takes effect in one step, or not at all when its command
dies. `StateStore` is the code: `load`, the change of the dictionary, and
`save` as open with truncation (`OpenPartial`), write (`WritePartial`) and
rename (`RenamePartial`). Directory entries and inodes are separate variables:
a process that opened the partial keeps writing to that inode even after
another process renamed it, and a later open of the name may be another file.
`WritePartial` over text of another process leaves that text's tail (`Garbled`).
`Die` is possible between any two system calls and may cut a write short.
`Serial` says whether the operator runs one command at a time; the promises of
the code hold with it and fail without it. The refinement mapping of
`ImplementsLog` is `done <- Recorded`, `pending <- op`; `RenamePartial` and
`Unlink` are the commit points.

### `LabLifecycle` (`cli.py`, `lab/cli.py`, `pipeline`, `provision`, `apply`, `instance`, `vbox`, `ssh`)

A terminal runs one command, `cmd[t]`, whose `pc` is its place in the code. One
action per call that changes something: `PrepareMedia` (console password and
seed), `CreateVM`, `ConfigureVM`, one `CreateDisk` per missing image, one
`AttachDisk` per port, `AttachMedia`, `StartVM`, `SSHAnswers` or
`SSHTimesOut`, `MarkProvision`; then `EndProvision`, `BeginApply`,
`RunPlaybooks`, `MarkApply`; for destroy `Confirm`, `PowerOff`, `Unregister`,
`UnlinkPrimary`, `UnlinkFiles`, `UnlinkState`, `UnlinkData`. `home` is the instance the
command was given, `inst` the one its present phase loaded from the pointer.
`Raise` is a refusal by VBoxManage (a running VM cannot be modified, an image
not be attached that is missing or at another port) or a failing playbook, `Die`
every other end of a command.
`Stops` and `Installs` are the guest's own steps. A VM that starts takes the
forwarded host port if it is free and runs without it otherwise; `Answering`
is the guest a login on a port reaches: all guests have the same user and key.

The state file is atomic here, which `StateStore` justifies for one command at
a time; runs with two terminals therefore ask only about the pointer and about
destroy, never about the record. Disk 0 is the primary one, k the k-th lab disk,
-k the k-th install disk; a count is a pair of both. `vm[i].sata` says which disk
is at which port: lab disks at their own number, install disks behind the lab
disks of this run (`DiskAt`), so that a run with another count displaces what an
earlier one attached, or asks for an image that is at another port still and is
refused (`Attachable`). `files` are the console password and the seed ISO, one of
three names by install mechanism; the ISOs in the drives count as one medium, on
a controller of their own as on x86. `DestroyCount` is the chain of fallbacks in
`destroy`, in which a recorded 0 of install disks reads as none recorded. Windows
profiles have the primary disk only and no ssh gate.

`Snapshot` keeps what a restore brings back: the VM with its attachments, saved
if it ran, and whether its disk had a system. `BeginRestore`, `PowerOff` and
`RestoreSnapshot` are `restore`; any snapshot may be named, the latest among
them. `unregistervm --delete` takes the snapshots and every image that the VM or
a snapshot has attached. `Offered` says whether snapshots are taken after
provision only, as the lab's README tells, or at any time ("early snapshot").

### `ZfsRootInstall` (`lab/zfsroot.py`, `zfs-root-install.yml`)

One action per task of the playbook that changes a disk, a pool, the boot
environment or the ESP, in the playbook's order, and one per step of the
driver. The disks and the state file outlive everything; `imported` belongs to
one boot of the live VM and is lost with it. `found` is what the two check
tasks registered: later conditions read it, not the pools. Any task may fail
and end the run (`Fail`, also with a half-made base system), exports are tried
and given up, the VM may lose power at any time (`PowerCut`), and the operator
starts the command again. debootstrap is skipped once it has begun, and nothing
but its exit code tells a base that is cut short ("partial"): `InstallSystem` runs
in any base, and where apt gets through in such a one the system may lack what
debootstrap left out ("flawed"), which the verification does not notice. The
verification scripts run without `set -e`: taking and dropping the snapshot may
silently fail, what the scripts test may not.

### `Bootstrap` (`install/runner.py`, `install/manifest.py`, `utils/shell.py`)

The loop of `bootstrap()` over the selected components: `Skip` when the probe
passes, `Look` otherwise (the probe has a time limit and can miss), the prompt,
and one action per command, `Succeeds` or `Fails`; a command that fails may
have had its effect. A command that exits 0 has its effect, but for the installer
of a `curl_sh` component (`Piped`): the exit code of the pipe is that of the shell
at its end, whether or not curl brought it a script. The list of components is the
set `todo` with the order of the manifest, `outcomes` gives each component its outcome or `"none"`.
`apt_updated` is the local of that name. The host survives
from one invocation to the next, and `Interrupt` ends an invocation anywhere.
`MCBootstrap` gives it a manifest with every kind of component in
`components.toml`.

### `IncusProvision` (`lab/incus_provision.py`, `lab/incus.py`)

One action per call to Incus: `LaunchVM` for the Ubuntu flow; `InitVM`,
`ImportIso`, `AttachIso`, `ImportSeed`, `AttachSeed`, `AddVtpm`,
`SetSecureBoot`, `Start` for the flows from an ISO; then `WaitForIPv4` (no
address within its time is as good as one) and `Mark`. Each keeps what is there
already, as the code's existence checks do. `Begin(p)` is a run for profile `p`;
its number stands for the random password it draws, so `passwordfile`, `seeds`
and `instance.password` tell whose password is where. ISO and seed files on the
host are made anew by each run and have no variable. `Refused` are the calls that
Incus does not carry out (firmware of a running VM), `Raise` the error they end
a run with, `Die` any other end. `Installs` and `Stops`
are the guest's. Between runs the operator does what the messages of a run name:
delete the instance, remove the state file, detach the installer; or `Destroy`,
which knows VirtualBox only. The state file is atomic (`StateStore`).

### `Doctor` (`doctor/checks.py`, `runner.py`, `fixes.py`, `profile.py`, `cli.py`)

`host` is a record with one field for everything a check queries; `Values` lists
what each can be, "unreadable" and "absent" among them. Each of the thirty
checks is an operator of its name from the host to a status and a fix; `run` is
the registry in report order. `Begin` is a run up to its report: profile,
checks, softening, and the set `todo` of fixes to offer with `--apply`.
`AutoApply` is `--yes` on a safe fix; `Accept` and `Decline` are the prompt;
`Applies` is `apply_fix`, whose exit code alone decides what is `said`. What a
command does to the host is `Done`, external to the code: it may fail, and the fixes in
`Silent` may exit 0 and have done nothing: those that call `msai bootstrap`, and
`incus admin init`, which asks for a storage pool and takes no for an answer. `Killed` is an interrupt
at any point; between runs the user logs in again (`LogsIn`), a scrub ends, the
profile is set. `MCDoctor` starts from a healthy host with one thing out of
order, or two of those that several checks look at or a fix can change.

### `InstallMedia` (`lab/ssh.py`, `iso.py`, `cloudinit.py`, `kickstart.py`, `windows.py`, `provision.py`)

The same `provision.main` as in `LabLifecycle`, for its files instead of its VM:
the two halves of the key pair, per mechanism a cached ISO and its `.partial`, one
remaster, a seed for each instance. An ISO is the number of the release it
holds, `Bad` for anything else; `current` is the age test of the remaster.
`published` is what upstream has now: `Republish` may fall between the checksum,
the download and a later run. `Download` may end early, since a closed connection looks like
the end. `BeginRemaster` and `EndRemaster` are the two ends of xorriso's write,
`GeneratePrivate` and `GeneratePublic` those of ssh-keygen's. `Boot` hands what is
on file to the VM, `Installs` is the guest, `Restart` is `msai lab start` of a VM
whose provision died. One command runs at a time and may `Die` anywhere.

## Runs

| Run | Instance | Checks |
|---|---|---|
| `state_serial` | 2 processes, 2 phases, 4 inodes, serial | `TypeOK`, `StateReadable`, `OnlyResetForgets`, `ImplementsLog` |
| `state_concurrent` | the same, concurrent | `NoPhantomPhase` |
| `lab_serial` | 2 instances with own ports, one Linux with a lab and an install disk, one Windows, 1 terminal | `TypeOK`, `ProvisionMeansInstalled`, `NoReprovision`, `PlaybooksReachInstance`, `DestroyComplete` |
| `lab_resume` | 1 instance, 1 or 2 lab disks from one command to the next and an install disk, 4 SATA ports, fair | `RecordedDisksAttached`, `CommandsEnd` |
| `lab_terminals` | 2 instances without data disks, 2 terminals, create (one at a time) and destroy | `DestroyOnlyWhatWasNamed` |
| `lab_snapshots` | 1 instance, snapshots and restores | `SnapshotsWhole`, `ProvisionMeansInstalled`, `RecordedDisksAttached` |
| `zfs_safety` | 4 boots | `TypeOK`, `VerifiedAcrossReboot`, `RecordedMeansInstalled`, `InstallsIntoPools` |
| `bootstrap_safety` | 4 components, 2 invocations, all flags and selections | `TypeOK`, `UpdatedOnce`, `Isolated`, `NoPostWithoutInstall`, `ReportedInstalled`, `DryRunIsInert` |
| `incus_safety` | 4 profiles, one of each kind, 3 runs, fair | `TypeOK`, `RecordedWhenReady`, `BootedEquipped`, `RerunAccepted`, `RunsEnd` |
| `doctor_apply` | a healthy host with one or two deviations, all categories or `zfs` alone | `TypeOK`, `ZeroIsEarned`, `AppliedClears`, `UnattendedOnlyStarts`, `DesktopLeftAlone`, `FixStillNeeded` |
| `media_safety` | 3 instances, one per mechanism, 2 releases, 2 keys | `TypeOK`, `BootsVerified`, `LoginWorks` |
| `media_rerun` | 1 Ubuntu instance | violated: `WholeMedium` |

Bounds, and why they are enough:

* two processes are what a lost update and a shared partial need; four inodes
  are the most two processes and two names can refer to, so `OpenPartial`
  always finds a free one; an inode that nothing refers to is reused;
* two phases are the fewest for "another phase is kept";
* two instances and two ports are the fewest for a wrong guest, one port for a
  shared one; one data disk is the fewest for a data disk to be left over, two
  counts the fewest for a resumed run to differ, one install disk behind them
  the fewest for a disk whose port moves with the count. `SataPorts` is as many
  as the counts of a run need, in place of 30;
* two terminals are the fewest for the pointer to move under a command;
  `Offered` leaves `all` and `apply` out of the run about destroy, which do
  not remove anything, and `OneCreate` lets one instance be made at a time, by
  a terminal that any number of destroys may run beside;
* a complete install with its reboot takes two boots; four allow two more for
  failed runs, power cuts and a second install after the first;
* three runs on Incus are a run with one profile that ends anywhere, one with
  another, and one more on what both left; the desktop profile goes the way of
  the server profile;
* two invocations of bootstrap are a first and a re-run; the shipped manifest's
  kinds are all there (upstream installer with `post`, package, package with
  `post`, script probed by its last command). A script's commands between the
  first and the last behave alike, so two stand for them.

* one instance with one data disk is enough for its snapshots to meet a destroy,
  a restore and a resumed provision; images of other instances are not in reach;
* the checks of doctor look at one another's facts in groups of two, and a fix
  changes facts of its own check and at most one more: two deviations put every
  such pair out of order;
* instances with the same mechanism share ISO and remaster, so one of each kind
  that is provisioned again and again has what two would find; two releases and
  two keys are the fewest for a stale one.

Deadlock is checked everywhere but in `Bootstrap`, where the bound on
invocations stops the system.

### Disagreements

A violated run is a statement of a comment, a docstring or a test that the code
does not keep. Each is listed under `findings` with the quoted line:

* `media_rerun`: a run that dies while xorriso writes leaves half a remaster that
  is newer than its source; every later run boots it (`iso.py:122`). It is the only
  way to such an image: `WholeUnlessKilled`.

Others were met with the same models and have no run of their own. The modules
state some of them as what a comment or docstring promises; added as an INVARIANT
to the run named here, TLC refutes each:

* `ReattachAccepted` in `lab_resume`: an install disk's port follows from the lab
  count; a re-run with a smaller count asks for an image that is at its old port
  still and is refused, as is every later run with that count (`provision.py:319`, against line
  27, "every step is idempotent"). What gets recorded is right nevertheless,
  `RecordedDisksAttached`;
* `ImagesRemoved` in `lab_resume`: images of a provision that died before its record
  are left when the environment of destroy has a smaller count (`lab/cli.py:220`,
  against lines 213-216). In one environment none are: `DestroyComplete`;
* `SeedsRemoved` in `lab_serial`: the seed ISOs of Fedora and Windows are on no list
  of destroy (`lab/cli.py:234`, against line 233, "Remove disks and ISOs that the VM
  was using"). They are the only file it leaves: `DestroyComplete`;
* `HeldDisksKept` in `zfs_safety`: a re-run partitions the disk of an imported tank
  when rpool is not imported (`zfs-root-install.yml:191`, against its lines
  173-175). That the tasks that install have both pools is kept all the same,
  `InstallsIntoPools`;
* `InstalledIsInstalled` in `bootstrap_safety`: a failed download in front of a pipe is
  not seen, its `post` runs and its component is reported as installed
  (`install/runner.py:33`, against line 120, "stopping at the first failure").
  `NoPostWithoutInstall` and `ReportedInstalled` hold for everything else;
* `SkippedIsInstalled` in `bootstrap_safety`: a component whose `post` failed passes
  its probe and is skipped from then on (`install/runner.py:91`, against its line
  3 and `components.toml:6`);
* `AppliedIsCured` in `doctor_apply`: doctor says "Applied" of a scrub that cures
  nothing, of a `msai bootstrap` that did nothing, of an `incus admin init` without
  a pool (`fixes.py:36`, against line 28, "indicating success/failure"). For all
  other fixes it is true: `AppliedClears`.

The others are formulas to add in the same way:

* every instance forwards the same default host port, to a guest with the same
  user and key: the ssh gate of one is answered by another, and a provision is
  recorded with nothing installed (`provision.py:164`, against `instance.py:3`,
  "Multiple lab VMs can coexist", and `ssh.py:77-80`), `ProvisionMeansInstalled`
  in `lab_serial` with `Setting <- DefaultPort`;
* a re-run on Incus files a new password while the seed, or the instance, keeps
  that of the first run (`incus_provision.py:215`, against `config.py:28-29`),
  `recorded # "none" /\ instance.password # 0 => passwordfile = instance.password`
  in `incus_safety`;
* a degraded pool with one device online is reported healthy, since the word is
  looked for anywhere in the output (`checks.py:381`, against its docstring),
  `PoolHealth \in DOMAIN results /\ results[PoolHealth].status = "OK" =>
  host.tank.state = "ONLINE"` in `doctor_apply`;
* the fix `msai bootstrap llamacpp` names no component of the manifest; the advice
  on `sshd_config` is prose and is given to bash; the query for a passed-through GPU
  is a pipe that no shell sees; a scrub date with a day of one digit is not read
  and counts as recent;
* doctor ends with 1 also when it has fixed everything it found
  (`runner.py:141-147`): its counts are those of the checks;
* a snapshot taken while the installer runs, restored after the record was made,
  brings back a VM without a system (`lab/cli.py:291`), `ProvisionMeansInstalled`
  in `lab_snapshots` with "early snapshot" in `Offered`. An apply phase stays
  recorded in any case. After a restore the VM is off or saved, and nothing starts
  it (`lab/README.md:455-459` says "SSH works again");
* a snapshot restored after a provision with other counts (`--force`) brings back the
  ports of the former ones under the record of the latter, `RecordedDisksAttached`
  in `lab_snapshots` with `Setting <- VaryingCount` and `SataPorts = 4`;
* an ISO that fails its checksum is deleted also while another instance's VM has
  it attached (`iso.py:187`), and `msai lab start` of a VM whose provision died
  boots whatever its medium holds by then: `Source(i) = booted[i].release` is not
  kept by `Restart` in `media_safety`;
* with `SSH_PUBLIC_KEY` set to a key whose private half is elsewhere,
  ssh-keygen runs over it, its question unseen (`ssh.py:28`, against
  `config.py:225-230`);
* with two terminals `OnlyResetForgets` fails in `state_concurrent`: a mark
  that is load, change, save loses another mark (`state.py:43`, against the test
  `test_state.py:38-43`);
* two commands share the name of the partial file, and the state file may be
  left undecodable (`state.py:32`, against `state.py:28-30`),
  `(\A p \in Proc : pc[p] = "idle") => Readable` in `state_concurrent`;
* a provision whose ssh wait ended cannot be run again while the VM runs
  (`provision.py:254`, against `provision.py:27`),
  `\A t \in Term : At(t, "configure") => ~On(cmd[t].inst)` in `lab_serial`;
* a launch that created the instance and failed to start it is recorded as
  provisioned by the re-run (`incus.py:194`),
  `recorded # "none" /\ Exists => instance.booted` in `incus_safety` (with Ubuntu
  profiles only, nothing else leads there: `LaunchedWhenRecorded`);
* after the logged "Re-run from scratch" with another profile the old medium is
  attached again under the new record (`incus_provision.py:204`),
  `recorded \in {"fedora"} \cup Windows => medium = recorded` in `incus_safety`;
* `msai lab destroy` leaves an Incus instance and its volumes (`cli.py:231`), and
  the Fedora flow leaves the installer before the disk in the boot order
  (`incus_provision.py:103`; `kickstart.py:84` says "reboot into the installed
  system when done"): both are in the model as `Destroy` and `Installs`;
* a pipeline may run its playbooks for an instance it did not start with,
  `At(t, "playbooks") /\ cmd[t].inst # cmd[t].home` under two terminals, since
  each phase loads the configuration again ("read once at startup",
  `config.py:122`);
* `msai lab all` applies again what is recorded as applied (`pipeline.py:3-4`
  says phases that finished are skipped);
* a run that failed between the pools and `mkfs` of the ESP cannot be resumed in
  that boot, `pc = "mountesp" /\ esp = "raw"` in `zfs_safety`
  (`zfs-root-install.yml:319`). The same condition is the only thing that keeps a
  base that was cut short out of the record: without it (`MakeEspAlways`)
  `RecordedMeansInstalled` fails, since no task looks at what debootstrap left;
* a recorded root-on-ZFS install is partitioned again by a second run,
  `pc = "partfast" /\ finished` in `zfs_safety` (`zfsroot.py:390`).

### Fairness

`lab_resume` assumes `Fair(t)`, which is `WF_vars(Step(t))`, for each terminal, `incus_safety`
`WF_vars(Step)` for its one run. `Step` is what
a running command does by itself: the scheduler runs a process that can run, and
`wait_for_ssh` and `_wait_for_ipv4` leave their loops at their deadlines. Nothing is assumed of the person
at the prompt (`CommandsEnd` begins after it), of guests (an install may never
finish) or of failures.

## Proofs

Eight modules, `<module>_proofs` and `LabSerial_proofs`, the last about
`LabLifecycle` with one terminal. Each theorem is about the specification a run
checks, for all values of its constants but where it says otherwise.

* `StateStore`: `Typing` and `NoPhantom` hold for processes that interleave in any
  way. `NoPhantom` needs `AskedInv`: an update under way, a record held in memory
  and a record in any inode, the torn ones included, name only phases that
  somebody marked. A lost update can thus forget a phase, never invent one. The
  other three assume `Serial`. Their invariant says that at most one process is
  active, that the partial and the state file are different inodes, that an
  open descriptor is the partial's, and that what is about to be renamed holds
  the JSON text of `snap`, which is the updated record. Without it neither
  readability nor the refinement is inductive: the rename is right only because
  of what open and write did to that inode. `SerialSafety`, `SerialRetention`
  (an action property) and `SerialRefinement` follow from the same invariant;
  in the refinement a rename or unlink is `Commit`, a death or an exception
  `Abandon`, everything else a stutter.
* `ZfsRootInstall`: four invariants beside the types. `RebootInv` follows the
  marker: it is written in the current boot, the VM is down when it is
  restarted, so the boot counter is larger afterwards. `PoolInv` relates pools
  on disk, imported pools and the answers of the check tasks: `found` is
  current as long as the VM has been up since, so that what was skipped is there:
  from the creation of tank to the export both pools are imported. `BaseInv` says
  that the ESP has no file system before the base is whole, and that a run that
  found rpool makes none; a base that was cut short therefore never comes to
  the chroot. `SystemInv` says how far the installation is at each task.
  `RebootProof` uses the first, `PoolsProof` the second, `RecordProof` the last three.

* `Bootstrap`, for every manifest that `ManifestAssumption` admits. `UpdateInv`
  ties the count of updates to the flag `apt_updated` between components and,
  while a component runs, to the command at hand: the flag is set only
  afterwards, so `updates <= 1` alone is not inductive. `Isolated` is inductive
  as it stands; its step rests on the component at hand being the first
  (`AnswerStep`). `Before` says that the commands before the one at hand are in
  effect, the piped one excepted, which makes `NoPostWithoutInstall` and
  `ReportedInstalled` inductive (`Grows`: a command adds at most its own effect;
  `Achieves`: all of it when it exits 0 and is not piped). `DryInv` says that a
  dry run has no way to the prompt.

* `IncusProvision`, for any offer of profiles and number of runs. `StageInv` says
  what is attached and set at each step of a run; it is inductive because the
  operator acts between runs only and the guest changes no device. `Readiness`
  follows since only `Mark` makes a record, `Booting` since a stopped VM comes
  up only by `Start` or a launch, and with one profile it is not a launch.
  `FirmwareInv` says that a VM that is up has the firmware of that profile, also
  after the operator took the installer away, from which `Accepted` concludes
  that Incus refuses neither of the two changes it makes only to a stopped VM.
  `Termination`: each call lowers `StepsLeft` and nothing else raises it
  (`Progress`). `LaunchedWhenRecorded`: with Ubuntu profiles only, a VM that is there
  has been booted (`LaunchInv`) as long as no launch fails half way.

* `LabLifecycle`, any number of terminals, instances and environments
  (`LabLifecycle_proofs`). `CmdOK` ties a command's kind to its place: a destroy is at
  one of its own steps, and works on the instance it was given. `Naming` follows,
  since only those steps take images or VMs away. `HostOK` is the typing of what is
  on the host; `Courses` proves both.
* `LabLifecycle` with one command at a time (`LabSerial_proofs`, `OneTerminal`).
  `Homes`: every command works on the instance it was given, the current one, as
  the pointer moves only between commands. `Whole`: a snapshot has its VM and images; it holds through a destroy
  that is refused, since unregistering precedes every unlink. `Gone`: past `Unregister`
  a destroy has no VM left. `NoReprovision` is inductive with these (`NoRedo`).
  With a port of its own for each instance (`OwnPort`) `Forwards` says that a VM's
  forward is its own port, `Playing` that an apply's inventory is, which give
  `Reach`. With the same profile kind throughout (`OneProfile`) and snapshots after
  provision only (`LateSnapshots`), `Told`, `Counted` and `Gated` say what is
  installed between the ssh gate, the record and a restore: `Gate`. `Disks` admits
  environments that change from command to command: `Ahead` says that a run comes to
  its first port, `Behind` that the ports it has done carry this run's disks,
  `Attaching`, `Equipped` and `Restorable` follow them into record and snapshot.
  With snapshots it needs one environment per instance (`OneSetting`, by
  `Settled`): a restore may bring back the ports of other counts. With one
  environment, `Bounded`, `Enough` and `Cleared` bound every image by the counts a
  destroy will use and follow its unlinks: `Completion`. Each of these assumptions is needed: "Disagreements" has what
  happens without it. They are hypotheses of the theorems that use them, and
  the runs' environments meet them.
  `Endings` is liveness. `Work` counts the stations a command has before it and the
  images and ports it may still have to create, attach or unlink; each of its steps lowers
  it (`WorkFalls`), and no other step touches it while one command runs
  (`WorkKept`). `Descent` concludes, for any number of disks, that a count of
  n+1 comes down to n. The way from there to the end is an induction that the
  temporal prover cannot make, so `Endings` doubles that stretch (`Doubled`) as
  often as the longest command needs, up to 256 steps: `FewDisks` takes from
  `provision.py:286` that the controller has 30 ports, one of which is the primary
  disk's.
* `InstallMedia`, for any instances, mechanisms, releases and keys. `BootsVerified`
  needs that a remaster that passes for current is of the cached ISO, through
  downloads and deletions by other runs; `LoginWorks` that a seed has the key of
  a pair that is whole, and that a pair is generated only while no seed with a key
  exists: a private key without its public half was never in one.
  `WholeUnlessKilled` proves the property that `media_rerun` refutes from the
  hypothesis that no run dies at the step `xorriso`; deaths at all other steps, and
  files of earlier runs, are allowed.

* `Doctor`, for any hosts and sets of categories. The facts of a host are ordered
  by `Better`, and `HostImproves` says that no step makes one worse: a fix, an
  interrupted one, a login, a scrub that ends. `DoneImproves`, `Footprint` and
  `DoneCures` are the cases of `Done`: what a command changes, in which direction,
  and what it leaves behind. `SeenInv` says that all results are those of one host
  of which the present one is an improvement, as far as the profile expects them.
  On it rest `Desktop` (what is offered belongs to an expected category, and only
  its own command runs), `ZeroEarned` (`NothingBreaks`: a check that fails now
  failed then, but for the health of a pool that was not imported, and then the
  check of the pool failed; `ExitInv`: 0 is the code of a run without failures)
  and `AppliedCleared` (`CuredInv`: what an applied fix left behind is still there,
  with the exception of `Silent` fixes and the scrub, which may leave nothing).
  `Unattended` needs `UnaskedInv`: between the prompt that was left out and the end
  of the fix the check at hand stays the first. `StillNeeded` needs `NeededInv`:
  every finding left to offer is what its check would find now. It is inductive by
  `Independent`: of two findings of one host, a fix of one changes the other only
  if that is to be repeated anyway (bootstrap, scrub). For incus it is close:
  `bootstrap incus` would change three later findings, but a host that lacks incus
  has them skipped.

The invariants were first checked with TLC as invariants of the same runs; of
`SeenInv`, which quantifies over hosts, only its consequences.

Every property of a passing run has its theorem. `Endings` and `Termination` have one
hypothesis that is not proved, `Ready`: a running command can take a step. It says
`ENABLED`, for which these provers have no rules. TLC shows it on the instances of
`lab_resume` and `incus_safety`: in a reachable state where it failed the command
could stop for good under the fairness assumed, and `CommandsEnd` and `RunsEnd`
would be violated.

So `Ready` is only model-checked. Neither checked nor proved are the ends of
commands with more than 29 data disks, beyond the single stretches of `Descent`,
and of commands in several terminals. Of concurrent commands `Typing`, `Naming`
and `NoPhantom` are claimed, and proved, only.

## Not modelled

* Rendering of seeds, passwords and configuration text: pure functions. That a
  seed is built, and whose key or password is in it, is modelled.
* Playbooks other than the ZFS install: Ansible carries them out; one step
  stands for a run of them.
* SSH host keys, RDP forwards and, under VirtualBox, boot order and TPM settings: set
  by steps that are there, read by nothing in this code. What is in the console
  password file.
* On an ARM host the ISOs take the SATA ports behind the disks, and a changed count
  moves them too (`provision.py:293-296`).
* What destroy reads of older records: the "migration" count and images of that
  name, and the install count of the root-on-ZFS phase.
* Incus helpers no flow calls (containers, proxies, stop, snapshots), and a second
  run at the same time under the same instance name.
* Reading commands (`list`, `status`, `ssh`, `docs`).
* Two commands at a time on the install media: they share a `.partial`, and a
  remaster in progress is taken for finished, as in `media_rerun`. The live
  install writes its own seed to the path of the other flow.
* Checks of doctor that raise: the run counts them as failed and goes on.
* The ext4 and the live flow on one instance: they share the phase record, and
  the live flow takes any recorded provision for its own (`zfsroot.py:204`); what
  follows is a wait that ends at its time limit, with nothing written.

## Plan

Done: `PhaseLog`, `StateStore`, `LabLifecycle` with snapshots, `ZfsRootInstall`,
`Bootstrap`, `IncusProvision`, `Doctor`, `InstallMedia`, and the proofs of every
property their passing runs check, liveness under `Ready`. Left, in this order:

1. A composition of `LabLifecycle` with `ZfsRootInstall` on one instance.
2. `Doctor` over `Bootstrap` instead of a fix with an unknown outcome; two runs at
   a time on the install media and under one Incus name.
