--------------------------- MODULE IncusProvision ---------------------------
(***************************************************************************)
(* Provisioning one lab instance on Incus                                  *)
(* (src/msai_setup/lab/incus_provision.py over lab/incus.py): the flows    *)
(* ubuntu-launch, fedora-iso and windows-iso, run, cut short and run       *)
(* again under one instance name, with the profile the operator gives      *)
(* each time.                                                              *)
(*                                                                         *)
(* The instance, the managed volumes, the state file and the password file *)
(* outlive a run.  Passwords are told apart by the run that drew them.     *)
(***************************************************************************)
EXTENDS Integers, FiniteSets

CONSTANTS
  Offered,   \* profiles the operator chooses from
  MaxRuns    \* bound: runs of `msai lab create --provider incus`

Profile == {"ubuntu-server", "ubuntu-desktop", "fedora", "windows-10", "windows-11"}

ASSUME OfferedAssumption == Offered \subseteq Profile
ASSUME RunsAssumption == MaxRuns \in Nat

VARIABLES
  instance,     \* the Incus instance of that name
  medium,       \* whose installer the volume <name>-iso holds, or "none"
  seeds,        \* the run whose password is in <name>-oemdrv, <name>-unattend
  recorded,     \* profile in the "provision" record, or "none"
  passwordfile, \* console password on record, 0 if there is no file
  pc,           \* the next step of the run
  profile,      \* its os_profile
  runs,         \* runs begun; the number of a run stands for its password
  tried         \* history: profiles of all runs so far

store == <<instance, medium, seeds>>
files == <<recorded, passwordfile>>
input == <<profile, runs, tried>>
vars  == <<store, files, pc, input>>

SeedVolume == {"oemdrv", "unattend"}
Device == SeedVolume \cup {"install", "vtpm"}

Ubuntu  == {"ubuntu-server", "ubuntu-desktop"}
Windows == {"windows-10", "windows-11"}

Later == {"importiso", "attachiso", "importseed", "attachseed", "vtpm", "secureboot",
          "start", "ipv4", "mark"}

Seed(p) == IF p = "fedora" THEN "oemdrv" ELSE "unattend"

needs_tpm(p) == p = "windows-11"
needs_secureboot(p) == p # "windows-10"

\* `incus init` leaves security.secureboot at its default, true.  A password
\* is set up in the guest by cloud-init or by the installer; 0: none yet.
NewInstance(status, password) ==
  [status |-> status, devices |-> {}, secureboot |-> TRUE,
   booted |-> status = "running", password |-> password]

Exists  == instance.status # "absent"
Running == instance.status = "running"

-----------------------------------------------------------------------------

Init ==
  /\ instance = NewInstance("absent", 0)
  /\ medium = "none"
  /\ seeds = [v \in SeedVolume |-> 0]
  /\ recorded = "none"
  /\ passwordfile = 0
  /\ pc = "idle"
  /\ profile = "none"
  /\ runs = 0
  /\ tried = {}

Task(here, next) == pc = here /\ pc' = next

\* A recorded instance returns at once; otherwise Incus and the key pair are
\* looked at, and this run's password goes to the file before anything else.
Begin(p) ==
  /\ runs < MaxRuns
  /\ recorded = "none"
  /\ Task("idle", "password")
  /\ profile' = p
  /\ runs' = runs + 1
  /\ tried' = tried \cup {p}
  /\ UNCHANGED <<store, files>>

WritePassword ==
  /\ Task("password", IF profile \in Ubuntu THEN "launch" ELSE "init")
  /\ passwordfile' = runs
  /\ UNCHANGED <<store, recorded, input>>

-----------------------------------------------------------------------------
(* The Ubuntu flow                                                         *)

\* `incus launch` with the user-data of this run; no-op on any instance.
LaunchVM ==
  /\ Task("launch", "ipv4")
  /\ instance' = IF Exists THEN instance ELSE NewInstance("running", runs)
  /\ UNCHANGED <<medium, seeds, files, input>>

\* Created and not started: the command fails, the instance stays.
LaunchFails ==
  /\ ~Exists
  /\ Task("launch", "idle")
  /\ instance' = NewInstance("stopped", runs)
  /\ UNCHANGED <<medium, seeds, files, input>>

-----------------------------------------------------------------------------
(* The flows from an ISO: media and seed are made on the host first        *)

\* Mutant of InitVM: `incus launch` instead, firmware and all set later.
InitVMLaunches ==
  /\ Task("init", "importiso")
  /\ instance' = IF Exists THEN instance ELSE NewInstance("running", 0)
  /\ UNCHANGED <<medium, seeds, files, input>>

\* Mutant of InitVM: an instance of that name in another project will do.
InitVMElsewhere ==
  /\ Task("init", "importiso")
  /\ instance' \in {instance, NewInstance("stopped", 0)}
  /\ UNCHANGED <<medium, seeds, files, input>>

InitVM ==
  /\ Task("init", "importiso")
  /\ instance' = IF Exists THEN instance ELSE NewInstance("stopped", 0)
  /\ UNCHANGED <<medium, seeds, files, input>>

Attach(d) ==
  /\ instance' = [instance EXCEPT !.devices = @ \cup {d}]
  /\ UNCHANGED <<medium, seeds, files, input>>

\* A volume that is there is kept, whatever is in it.
ImportIso ==
  /\ Task("importiso", "attachiso")
  /\ medium' = IF medium = "none" THEN profile ELSE medium
  /\ UNCHANGED <<instance, seeds, files, input>>

AttachIso == Task("attachiso", "importseed") /\ Attach("install")

ImportSeed ==
  /\ Task("importseed", "attachseed")
  /\ seeds' = [seeds EXCEPT ![Seed(profile)] = IF @ = 0 THEN runs ELSE @]
  /\ UNCHANGED <<instance, medium, files, input>>

AfterSeed ==
  IF profile \notin Windows THEN "start"
  ELSE IF needs_tpm(profile) THEN "vtpm" ELSE "secureboot"

\* Mutant of AttachSeed: the VM is started at once, its firmware set later.
AttachSeedBoot ==
  /\ Task("attachseed", AfterSeed)
  /\ instance' = [instance EXCEPT !.devices = @ \cup {Seed(profile)},
                                  !.status = "running", !.booted = TRUE]
  /\ UNCHANGED <<medium, seeds, files, input>>

AttachSeed == Task("attachseed", AfterSeed) /\ Attach(Seed(profile))

\* Mutant of AddVtpm: check=False, a refusal is not noticed.
AddVtpmBestEffort ==
  /\ Task("vtpm", "secureboot")
  /\ instance' = IF Running THEN instance ELSE [instance EXCEPT !.devices = @ \cup {"vtpm"}]
  /\ UNCHANGED <<medium, seeds, files, input>>

\* "TPM can't be hot-added": on a running VM Incus refuses one, unless it is
\* there, and refuses to change secure boot; the same value can be set.
Refused ==
  /\ Running
  /\ \/ pc = "vtpm" /\ "vtpm" \notin instance.devices
     \/ pc = "secureboot" /\ instance.secureboot # needs_secureboot(profile)

AddVtpm ==
  /\ ~Refused
  /\ Task("vtpm", "secureboot")
  /\ Attach("vtpm")

SetSecureBoot ==
  /\ ~Refused
  /\ Task("secureboot", "start")
  /\ instance' = [instance EXCEPT !.secureboot = needs_secureboot(profile)]
  /\ UNCHANGED <<medium, seeds, files, input>>

Start ==
  /\ Task("start", IF profile \in Windows THEN "mark" ELSE "ipv4")
  /\ instance' = [instance EXCEPT !.status = "running", !.booted = TRUE]
  /\ UNCHANGED <<medium, seeds, files, input>>

-----------------------------------------------------------------------------

\* Mutant of WaitForIPv4: no deadline.
WaitForIPv4Forever ==
  /\ Running
  /\ Task("ipv4", "mark")
  /\ UNCHANGED <<store, files, input>>

\* An address, or 180 s without one: the run goes on either way.
WaitForIPv4 ==
  /\ Task("ipv4", "mark")
  /\ UNCHANGED <<store, files, input>>

Mark ==
  /\ Task("mark", "idle")
  /\ recorded' = profile
  /\ UNCHANGED <<store, passwordfile, input>>

\* What a run does as long as Incus accepts its calls ..
Call ==
  \/ WritePassword \/ LaunchVM
  \/ InitVM \/ ImportIso \/ AttachIso \/ ImportSeed \/ AttachSeed
  \/ AddVtpm \/ SetSecureBoot \/ Start
  \/ WaitForIPv4 \/ Mark

\* .. and the IncusError when it does not.
Raise ==
  /\ Refused
  /\ pc' = "idle"
  /\ UNCHANGED <<store, files, input>>

\* Any step may fail for reasons of its own (no ISO, no xorriso, Incus down),
\* and the operator may interrupt.
Die ==
  /\ pc # "idle"
  /\ pc' = "idle"
  /\ UNCHANGED <<store, files, input>>

-----------------------------------------------------------------------------
(* The guest                                                               *)

\* Installer media have boot priority over the root disk, at every boot; the
\* installer runs unattended from the seed of its own family.
Installs ==
  /\ Running
  /\ {"install", Seed(medium)} \subseteq instance.devices
  /\ instance' = [instance EXCEPT !.password = seeds[Seed(medium)]]
  /\ UNCHANGED <<medium, seeds, files, pc, input>>

Stops ==
  /\ Running
  /\ instance' = [instance EXCEPT !.status = "stopped"]
  /\ UNCHANGED <<medium, seeds, files, pc, input>>

-----------------------------------------------------------------------------
(* The operator between runs: what the messages of a run tell              *)

\* `incus delete <name> --force`: the volumes stay.
DeleteInstance ==
  /\ pc = "idle" /\ Exists
  /\ instance' = NewInstance("absent", 0)
  /\ UNCHANGED <<medium, seeds, files, pc, input>>

\* `rm <state file>`
RemoveState ==
  /\ pc = "idle" /\ recorded # "none"
  /\ recorded' = "none"
  /\ UNCHANGED <<store, passwordfile, pc, input>>

\* `msai lab destroy` knows VirtualBox only: of an Incus instance it removes
\* the state and password files.
Destroy ==
  /\ pc = "idle"
  /\ recorded' = "none"
  /\ passwordfile' = 0
  /\ UNCHANGED <<store, pc, input>>

\* Step 3 of the hand-off: stop, remove the installer, start.
DetachInstaller ==
  /\ pc = "idle" /\ recorded \in Windows /\ Running
  /\ instance' = [instance EXCEPT !.devices = @ \ {"install"}]
  /\ UNCHANGED <<medium, seeds, files, pc, input>>

Step == Call \/ Raise

Next ==
  \/ \E p \in Offered : Begin(p)
  \/ Step \/ LaunchFails \/ Die
  \/ Installs \/ Stops
  \/ DeleteInstance \/ RemoveState \/ Destroy \/ DetachInstaller

Spec == Init /\ [][Next]_vars

\* A running command is scheduled, and every subprocess and poll returns.
FairSpec == Spec /\ WF_vars(Step)

-----------------------------------------------------------------------------

\* Type invariant; after init or launch there is an instance.
TypeOK ==
  /\ instance \in [status : {"absent", "stopped", "running"}, devices : SUBSET Device,
                   secureboot : BOOLEAN, booted : BOOLEAN, password : 0..MaxRuns]
  /\ medium \in Profile \cup {"none"}
  /\ seeds \in [SeedVolume -> 0..MaxRuns]
  /\ recorded \in Profile \cup {"none"}
  /\ passwordfile \in 0..MaxRuns
  /\ pc \in {"idle", "password", "launch", "init"} \cup Later
  /\ pc \in Later => Exists
  /\ profile \in Profile \cup {"none"}
  /\ pc # "idle" => profile \in Profile
  /\ runs \in 0..MaxRuns
  /\ tried \in SUBSET Profile

\* Instance i has all that an unattended install of profile p boots with:
\* both media, and the firmware the profile asks for.
Equipped(i, p) ==
  /\ {"install", Seed(p)} \subseteq i.devices
  /\ p \in Windows => i.secureboot = needs_secureboot(p)
  /\ needs_tpm(p) => "vtpm" \in i.devices

\* The operator has asked for one profile only, all the time.
OnlyFor(p) == tried = {p}

\* What the "provision" record stands for with an ISO profile, for any mix of
\* profiles and cut short runs before: the instance is equipped for the
\* profile on record and has been booted (mark_phase_done comes last, and
\* every refusal by Incus ends the run).
RecordedWhenReady ==
  [][recorded' \notin {recorded, "none"} =>
       /\ Exists
       /\ recorded' \notin Ubuntu => instance.booted /\ Equipped(instance, recorded')]_vars

\* "Firmware while stopped (TPM can't be hot-added)": whichever of the runs
\* gets as far as the start, the VM never boots with half of its equipment.
BootedEquipped ==
  [][~Running /\ instance'.status = "running" =>
       \A p \in Profile \ Ubuntu : OnlyFor(p) => Equipped(instance', p)]_vars

\* "All functions aim to be idempotent" (incus.py:7-8): a run for the same
\* profile is never stopped by what earlier runs left, at whatever step they
\* ended and however much of it was deleted since.
RerunAccepted == \A p \in Profile : OnlyFor(p) => ~Refused

\* Every run ends, whatever the guest does and whatever Incus refuses.
RunsEnd == pc # "idle" ~> pc = "idle"
=============================================================================
