----------------------- MODULE IncusProvision_proofs -----------------------
(***************************************************************************)
(* Proofs about IncusProvision for any offer of profiles and any number of *)
(* runs: what a recorded instance has, and what an instance boots with.    *)
(***************************************************************************)
EXTENDS IncusProvision, TLAPS

\* The steps of the flows from an ISO, and those behind each attachment.
IsoSteps     == {"init", "importiso", "attachiso", "importseed", "attachseed",
                 "vtpm", "secureboot", "start"}
WithInstall  == {"importseed", "attachseed", "vtpm", "secureboot", "start"}
WithSeed     == {"vtpm", "secureboot", "start"}

\* How far the instance is at each step of a run.
StageInv ==
  /\ pc # "idle" => profile \in tried
  /\ pc = "launch" => profile \in Ubuntu
  /\ pc \in IsoSteps => profile \notin Ubuntu
  /\ pc = "vtpm" => needs_tpm(profile)
  /\ pc \in {"vtpm", "secureboot"} => profile \in Windows
  /\ pc \in WithInstall => "install" \in instance.devices
  /\ pc \in WithSeed => Seed(profile) \in instance.devices
  /\ pc = "secureboot" /\ needs_tpm(profile) => "vtpm" \in instance.devices
  /\ pc = "start" => Equipped(instance, profile)
  /\ pc \in {"ipv4", "mark"} /\ profile \notin Ubuntu =>
       instance.booted /\ Equipped(instance, profile)

-----------------------------------------------------------------------------

\* Every step keeps the types.
LEMMA TypeStep ==
  ASSUME TypeOK, [Next]_vars
  PROVE  TypeOK'
<1> USE RunsAssumption DEF TypeOK, Task, store, files, input, Device, SeedVolume, Later, Exists, Running
<1>1. ASSUME NEW p \in Offered, Begin(p) PROVE TypeOK'
  BY <1>1, OfferedAssumption DEF Begin
<1>2. CASE Call
  <2>1. CASE WritePassword
    BY <2>1 DEF WritePassword
  <2>2. CASE LaunchVM
    BY <2>2 DEF LaunchVM, NewInstance
  <2>3. CASE InitVM
    BY <2>3 DEF InitVM, NewInstance
  <2>4. CASE ImportIso
    BY <2>4 DEF ImportIso
  <2>5. CASE AttachIso
    BY <2>5 DEF AttachIso, Attach
  <2>6. CASE ImportSeed
    BY <2>6 DEF ImportSeed, Seed
  <2>7. CASE AttachSeed
    BY <2>7 DEF AttachSeed, Attach, AfterSeed, Seed
  <2>8. CASE AddVtpm
    BY <2>8 DEF AddVtpm, Attach
  <2>9. CASE SetSecureBoot
    BY <2>9 DEF SetSecureBoot, needs_secureboot
  <2>10. CASE Start
    BY <2>10 DEF Start
  <2>11. CASE WaitForIPv4
    BY <2>11 DEF WaitForIPv4
  <2>12. CASE Mark
    BY <2>12 DEF Mark
  <2>13. QED
    BY <1>2, <2>1, <2>2, <2>3, <2>4, <2>5, <2>6, <2>7, <2>8, <2>9, <2>10, <2>11, <2>12 DEF Call
<1>3. CASE Raise
  BY <1>3 DEF Raise
<1>4. CASE LaunchFails
  BY <1>4 DEF LaunchFails, NewInstance
<1>5. CASE Die
  BY <1>5 DEF Die
<1>6. CASE Installs
  BY <1>6 DEF Installs, Seed
<1>7. CASE Stops
  BY <1>7 DEF Stops
<1>8. CASE DeleteInstance
  BY <1>8 DEF DeleteInstance, NewInstance
<1>9. CASE RemoveState
  BY <1>9 DEF RemoveState
<1>10. CASE Destroy
  BY <1>10 DEF Destroy
<1>11. CASE DetachInstaller
  BY <1>11 DEF DetachInstaller
<1>12. CASE UNCHANGED vars
  BY <1>12 DEF vars
<1>13. QED
  BY <1>1, <1>2, <1>3, <1>4, <1>5, <1>6, <1>7, <1>8, <1>9, <1>10, <1>11, <1>12 DEF Next, Step

\* Type correctness of provisioning on Incus, for any profiles and runs.
THEOREM Typing == Spec => []TypeOK
<1>1. Init => TypeOK
  BY RunsAssumption DEF Init, TypeOK, NewInstance, Device, SeedVolume, Later, Profile
<1>2. TypeOK /\ [Next]_vars => TypeOK'
  BY TypeStep
<1>3. QED
  BY <1>1, <1>2, PTL DEF Spec

-----------------------------------------------------------------------------

\* Every step keeps the stages: only the run itself moves the instance while
\* it is under way, and what it attached it does not take off.
LEMMA StageStep ==
  ASSUME TypeOK, StageInv, [Next]_vars
  PROVE  StageInv'
<1> USE DEF TypeOK, StageInv, Task, store, files, input, Device, IsoSteps, WithInstall,
            WithSeed, Equipped, Ubuntu, Windows, Seed, needs_tpm, needs_secureboot, Later
<1>1. ASSUME NEW p \in Offered, Begin(p) PROVE StageInv'
  BY <1>1, OfferedAssumption, RunsAssumption DEF Begin
<1>2. CASE Call
  <2>1. CASE WritePassword
    BY <2>1 DEF WritePassword
  <2>2. CASE LaunchVM
    BY <2>2 DEF LaunchVM, NewInstance
  <2>3. CASE InitVM
    BY <2>3 DEF InitVM, NewInstance
  <2>4. CASE ImportIso
    BY <2>4 DEF ImportIso
  <2>5. CASE AttachIso
    BY <2>5 DEF AttachIso, Attach
  <2>6. CASE ImportSeed
    BY <2>6 DEF ImportSeed
  <2>7. CASE AttachSeed
    BY <2>7 DEF AttachSeed, Attach, AfterSeed
  <2>8. CASE AddVtpm
    BY <2>8 DEF AddVtpm, Attach, Running
  <2>9. CASE SetSecureBoot
    BY <2>9 DEF SetSecureBoot
  <2>10. CASE Start
    BY <2>10 DEF Start
  <2>11. CASE WaitForIPv4
    BY <2>11 DEF WaitForIPv4
  <2>12. CASE Mark
    BY <2>12 DEF Mark
  <2>13. QED
    BY <1>2, <2>1, <2>2, <2>3, <2>4, <2>5, <2>6, <2>7, <2>8, <2>9, <2>10, <2>11, <2>12 DEF Call
<1>3. CASE Raise
  BY <1>3 DEF Raise, Running
<1>4. CASE LaunchFails
  BY <1>4 DEF LaunchFails, NewInstance
<1>5. CASE Die
  BY <1>5 DEF Die
<1>6. CASE Installs
  BY <1>6 DEF Installs, Running
<1>7. CASE Stops
  BY <1>7 DEF Stops, Running
<1>8. CASE DeleteInstance
  BY <1>8 DEF DeleteInstance, NewInstance
<1>9. CASE RemoveState
  BY <1>9 DEF RemoveState
<1>10. CASE Destroy
  BY <1>10 DEF Destroy
<1>11. CASE DetachInstaller
  BY <1>11 DEF DetachInstaller
<1>12. CASE UNCHANGED vars
  BY <1>12 DEF vars
<1>13. QED
  BY <1>1, <1>2, <1>3, <1>4, <1>5, <1>6, <1>7, <1>8, <1>9, <1>10, <1>11, <1>12 DEF Next, Step

\* The invariant both theorems rest on.
LEMMA Stages == Spec => [](TypeOK /\ StageInv)
<1>1. Init => TypeOK /\ StageInv
  BY RunsAssumption
     DEF Init, TypeOK, StageInv, NewInstance, Device, SeedVolume, Later, Profile,
         IsoSteps, WithInstall, WithSeed
<1>2. TypeOK /\ StageInv /\ [Next]_vars => (TypeOK /\ StageInv)'
  BY TypeStep, StageStep
<1>3. QED
  BY <1>1, <1>2, PTL DEF Spec

\* A record appears by Mark only, for the profile of the run.
LEMMA RecordStep ==
  ASSUME TypeOK, [Next]_vars, recorded' \notin {recorded, "none"}
  PROVE  Mark
<1> USE DEF TypeOK, Task, store, files, input
<1>1. ASSUME NEW p \in Offered, Begin(p) PROVE Mark
  BY <1>1, OfferedAssumption, RunsAssumption DEF Begin
<1>2. CASE Call
  <2>1. CASE WritePassword
    BY <2>1 DEF WritePassword
  <2>2. CASE LaunchVM
    BY <2>2 DEF LaunchVM, NewInstance
  <2>3. CASE InitVM
    BY <2>3 DEF InitVM, NewInstance
  <2>4. CASE ImportIso
    BY <2>4 DEF ImportIso
  <2>5. CASE AttachIso
    BY <2>5 DEF AttachIso, Attach
  <2>6. CASE ImportSeed
    BY <2>6 DEF ImportSeed
  <2>7. CASE AttachSeed
    BY <2>7 DEF AttachSeed, Attach, AfterSeed
  <2>8. CASE AddVtpm
    BY <2>8 DEF AddVtpm, Attach
  <2>9. CASE SetSecureBoot
    BY <2>9 DEF SetSecureBoot
  <2>10. CASE Start
    BY <2>10 DEF Start
  <2>11. CASE WaitForIPv4
    BY <2>11 DEF WaitForIPv4
  <2>12. CASE Mark
    BY <2>12
  <2>13. QED
    BY <1>2, <2>1, <2>2, <2>3, <2>4, <2>5, <2>6, <2>7, <2>8, <2>9, <2>10, <2>11, <2>12 DEF Call
<1>3. CASE Raise
  BY <1>3 DEF Raise
<1>4. CASE LaunchFails
  BY <1>4 DEF LaunchFails, NewInstance
<1>5. CASE Die
  BY <1>5 DEF Die
<1>6. CASE Installs
  BY <1>6 DEF Installs
<1>7. CASE Stops
  BY <1>7 DEF Stops
<1>8. CASE DeleteInstance
  BY <1>8 DEF DeleteInstance, NewInstance
<1>9. CASE RemoveState
  BY <1>9 DEF RemoveState
<1>10. CASE Destroy
  BY <1>10 DEF Destroy
<1>11. CASE DetachInstaller
  BY <1>11 DEF DetachInstaller
<1>12. CASE UNCHANGED vars
  BY <1>12 DEF vars
<1>13. QED
  BY <1>1, <1>2, <1>3, <1>4, <1>5, <1>6, <1>7, <1>8, <1>9, <1>10, <1>11, <1>12 DEF Next, Step

\* What is recorded with an ISO profile has both media, the firmware of that
\* profile, and has been booted, whatever runs of whatever profiles came before.
THEOREM Readiness == Spec => RecordedWhenReady
<1>1. TypeOK /\ StageInv /\ [Next]_vars =>
        [recorded' \notin {recorded, "none"} =>
           /\ Exists
           /\ recorded' \notin Ubuntu =>
                instance.booted /\ Equipped(instance, recorded')]_vars
  <2> SUFFICES ASSUME TypeOK, StageInv, [Next]_vars, recorded' \notin {recorded, "none"}
               PROVE  /\ Exists
                      /\ recorded' \notin Ubuntu =>
                           instance.booted /\ Equipped(instance, recorded')
    OBVIOUS
  <2>1. Mark
    BY RecordStep
  <2>2. pc = "mark" /\ recorded' = profile
    BY <2>1 DEF Mark, Task
  <2>3. Exists
    BY <2>2 DEF TypeOK, Later
  <2>4. QED
    BY <2>2, <2>3 DEF StageInv
<1>2. QED
  BY <1>1, Stages, PTL DEF Spec, RecordedWhenReady

-----------------------------------------------------------------------------

\* A stopped instance comes up by the launch of an Ubuntu run or by Start.
LEMMA BootStep ==
  ASSUME TypeOK, [Next]_vars, ~Running, instance'.status = "running"
  PROVE  LaunchVM \/ Start
<1> USE DEF TypeOK, Task, store, files, input, Running
<1>1. ASSUME NEW p \in Offered, Begin(p) PROVE LaunchVM \/ Start
  BY <1>1, OfferedAssumption, RunsAssumption DEF Begin
<1>2. CASE Call
  <2>1. CASE WritePassword
    BY <2>1 DEF WritePassword
  <2>2. CASE LaunchVM
    BY <2>2
  <2>3. CASE InitVM
    BY <2>3 DEF InitVM, NewInstance
  <2>4. CASE ImportIso
    BY <2>4 DEF ImportIso
  <2>5. CASE AttachIso
    BY <2>5 DEF AttachIso, Attach
  <2>6. CASE ImportSeed
    BY <2>6 DEF ImportSeed
  <2>7. CASE AttachSeed
    BY <2>7 DEF AttachSeed, Attach, AfterSeed
  <2>8. CASE AddVtpm
    BY <2>8 DEF AddVtpm, Attach
  <2>9. CASE SetSecureBoot
    BY <2>9 DEF SetSecureBoot
  <2>10. CASE Start
    BY <2>10
  <2>11. CASE WaitForIPv4
    BY <2>11 DEF WaitForIPv4
  <2>12. CASE Mark
    BY <2>12 DEF Mark
  <2>13. QED
    BY <1>2, <2>1, <2>2, <2>3, <2>4, <2>5, <2>6, <2>7, <2>8, <2>9, <2>10, <2>11, <2>12 DEF Call
<1>3. CASE Raise
  BY <1>3 DEF Raise
<1>4. CASE LaunchFails
  BY <1>4 DEF LaunchFails, NewInstance
<1>5. CASE Die
  BY <1>5 DEF Die
<1>6. CASE Installs
  BY <1>6 DEF Installs
<1>7. CASE Stops
  BY <1>7 DEF Stops
<1>8. CASE DeleteInstance
  BY <1>8 DEF DeleteInstance, NewInstance
<1>9. CASE RemoveState
  BY <1>9 DEF RemoveState
<1>10. CASE Destroy
  BY <1>10 DEF Destroy
<1>11. CASE DetachInstaller
  BY <1>11 DEF DetachInstaller
<1>12. CASE UNCHANGED vars
  BY <1>12 DEF vars
<1>13. QED
  BY <1>1, <1>2, <1>3, <1>4, <1>5, <1>6, <1>7, <1>8, <1>9, <1>10, <1>11, <1>12 DEF Next, Step

\* With one profile all along, no VM ever boots without its media and firmware,
\* at whatever step earlier runs ended.
THEOREM Booting == Spec => BootedEquipped
<1>1. TypeOK /\ StageInv /\ [Next]_vars =>
        [~Running /\ instance'.status = "running" =>
           \A p \in Profile \ Ubuntu : OnlyFor(p) => Equipped(instance', p)]_vars
  <2> SUFFICES ASSUME TypeOK, StageInv, [Next]_vars, ~Running,
                      instance'.status = "running",
                      NEW p \in Profile \ Ubuntu, OnlyFor(p)
               PROVE  Equipped(instance', p)
    OBVIOUS
  <2>1. LaunchVM \/ Start
    BY BootStep
  <2>2. pc # "idle" /\ profile = p
    BY <2>1 DEF LaunchVM, Start, Task, StageInv, OnlyFor
  <2>3. Start /\ pc = "start"
    BY <2>1, <2>2 DEF LaunchVM, Start, Task, StageInv
  <2>4. Equipped(instance, p)
    BY <2>2, <2>3 DEF StageInv
  <2>5. instance' = [instance EXCEPT !.status = "running", !.booted = TRUE]
    BY <2>3 DEF Start
  <2>6. instance'.devices = instance.devices /\ instance'.secureboot = instance.secureboot
    BY <2>5 DEF TypeOK
  <2>7. QED
    BY <2>4, <2>6 DEF Equipped
<1>2. QED
  BY <1>1, Stages, PTL DEF Spec, BootedEquipped

-----------------------------------------------------------------------------

\* What Incus refuses to change on a running VM is as profile p asks for.
Firmware(i, p) ==
  /\ needs_tpm(p) => "vtpm" \in i.devices
  /\ i.secureboot = needs_secureboot(p)

\* A VM that is up was brought up by a run, and with one Windows profile all
\* along it has its firmware, even after the operator detached the installer.
FirmwareInv ==
  Running => /\ tried # {}
             /\ \A p \in Windows : OnlyFor(p) => Firmware(instance, p)

LEMMA FirmwareStep ==
  ASSUME TypeOK, StageInv, FirmwareInv, [Next]_vars
  PROVE  FirmwareInv'
<1> USE DEF FirmwareInv, Firmware, TypeOK, Task, store, files, input, Device, Running,
            OnlyFor, Ubuntu, Windows
<1>1. ASSUME NEW p \in Offered, Begin(p) PROVE FirmwareInv'
  BY <1>1, OfferedAssumption DEF Begin
<1>2. CASE LaunchVM \/ LaunchFails
  <2>1. profile \in Ubuntu /\ profile \in tried /\ tried' = tried
    BY <1>2 DEF LaunchVM, LaunchFails, StageInv
  <2>2. \A p \in Windows : ~OnlyFor(p)'
    BY <2>1
  <2>3. QED
    BY <2>1, <2>2
<1>3. CASE Start
  <2>1. pc = "start" /\ profile \in tried /\ Equipped(instance, profile) /\ tried' = tried
    BY <1>3 DEF Start, StageInv
  <2>2. instance'.devices = instance.devices /\ instance'.secureboot = instance.secureboot
    BY <1>3 DEF Start
  <2>3. \A p \in Windows : OnlyFor(p)' => Firmware(instance', p)
    BY <2>1, <2>2 DEF Equipped
  <2>4. QED
    BY <2>1, <2>3
<1>4. CASE InitVM
  BY <1>4 DEF InitVM, NewInstance, Exists
<1>5. CASE AttachIso \/ AttachSeed \/ AddVtpm
  <2>1. PICK d : instance' = [instance EXCEPT !.devices = @ \cup {d}]
    BY <1>5 DEF AttachIso, AttachSeed, AddVtpm, Attach
  <2>2. tried' = tried
    BY <1>5 DEF AttachIso, AttachSeed, AddVtpm, Attach
  <2>3. QED
    BY <2>1, <2>2
<1>6. CASE SetSecureBoot
  <2>1. pc = "secureboot" /\ profile \in tried /\ tried' = tried
    BY <1>6 DEF SetSecureBoot, StageInv
  <2>2. instance' = [instance EXCEPT !.secureboot = needs_secureboot(profile)]
    BY <1>6 DEF SetSecureBoot
  <2>3. QED
    BY <2>1, <2>2
<1>7. CASE WritePassword \/ ImportIso \/ ImportSeed \/ WaitForIPv4 \/ Mark \/ Raise \/ Die
  BY <1>7 DEF WritePassword, ImportIso, ImportSeed, WaitForIPv4, Mark, Raise, Die
<1>8. CASE Installs
  BY <1>8 DEF Installs
<1>9. CASE Stops
  BY <1>9 DEF Stops
<1>10. CASE DeleteInstance
  BY <1>10 DEF DeleteInstance, NewInstance
<1>11. CASE RemoveState \/ Destroy
  BY <1>11 DEF RemoveState, Destroy
<1>12. CASE DetachInstaller
  BY <1>12 DEF DetachInstaller
<1>13. CASE UNCHANGED vars
  BY <1>13 DEF vars
<1>14. QED
  BY <1>1, <1>2, <1>3, <1>4, <1>5, <1>6, <1>7, <1>8, <1>9, <1>10, <1>11, <1>12, <1>13
     DEF Next, Step, Call

\* "All functions aim to be idempotent" (incus.py:7-8): with one profile all
\* along, Incus refuses a run nothing on account of what earlier runs left,
\* wherever they ended and whatever of it was deleted since.
THEOREM Accepted == Spec => []RerunAccepted
<1>1. Init => FirmwareInv
  BY DEF Init, FirmwareInv, Running, NewInstance
<1>2. TypeOK /\ StageInv /\ FirmwareInv /\ [Next]_vars => FirmwareInv'
  BY FirmwareStep
<1>3. TypeOK /\ StageInv /\ FirmwareInv => RerunAccepted
  <2> SUFFICES ASSUME TypeOK, StageInv, FirmwareInv, Refused,
                      NEW p \in Profile, OnlyFor(p)
               PROVE  FALSE
    BY DEF RerunAccepted
  <2>1. Running /\ pc \in {"vtpm", "secureboot"}
    BY DEF Refused
  <2>2. profile = p /\ p \in Windows
    BY <2>1 DEF StageInv, OnlyFor
  <2>3. Firmware(instance, p)
    BY <2>1, <2>2 DEF FirmwareInv
  <2>4. pc = "vtpm" => needs_tpm(p)
    BY <2>2 DEF StageInv
  <2>5. QED
    BY <2>2, <2>3, <2>4 DEF Refused, Firmware
<1>4. QED
  BY <1>1, <1>2, <1>3, Stages, PTL DEF Spec

-----------------------------------------------------------------------------

\* Steps a run has left at most, 0 between runs.
StepsLeft ==
  CASE pc = "password" -> 11
    [] pc \in {"init", "launch"} -> 10
    [] pc = "importiso" -> 9
    [] pc = "attachiso" -> 8
    [] pc = "importseed" -> 7
    [] pc = "attachseed" -> 6
    [] pc = "vtpm" -> 5
    [] pc = "secureboot" -> 4
    [] pc = "start" -> 3
    [] pc = "ipv4" -> 2
    [] pc = "mark" -> 1
    [] OTHER -> 0

\* While provision runs, a next step of it is possible.  Termination assumes it,
\* ENABLED being out of the provers' reach: a reachable state where it failed
\* would be a counterexample of TLC's to RunsEnd.
Ready == pc # "idle" => ENABLED <<Step>>_vars

\* The count is a number, and 0 is between the runs.
LEMMA StepsType ==
  TypeOK => StepsLeft \in 0..11 /\ (StepsLeft = 0 <=> pc = "idle")
<1>1. TypeOK => pc \in {"idle", "password", "launch", "init"} \cup Later
  BY DEF TypeOK
<1>2. QED
  BY <1>1 DEF StepsLeft, Later

\* Whatever a call finds, and even when Incus refuses it, fewer are left.
LEMMA StepFalls ==
  ASSUME TypeOK, Step
  PROVE  StepsLeft' < StepsLeft
<1> USE DEF StepsLeft, Task
<1>1. CASE WritePassword
  BY <1>1 DEF WritePassword
<1>2. CASE LaunchVM
  BY <1>2 DEF LaunchVM
<1>3. CASE InitVM
  BY <1>3 DEF InitVM
<1>4. CASE ImportIso
  BY <1>4 DEF ImportIso
<1>5. CASE AttachIso
  BY <1>5 DEF AttachIso
<1>6. CASE ImportSeed
  BY <1>6 DEF ImportSeed
<1>7. CASE AttachSeed
  BY <1>7 DEF AttachSeed, AfterSeed
<1>8. CASE AddVtpm
  BY <1>8 DEF AddVtpm
<1>9. CASE SetSecureBoot
  BY <1>9 DEF SetSecureBoot
<1>10. CASE Start
  BY <1>10 DEF Start
<1>11. CASE WaitForIPv4
  BY <1>11 DEF WaitForIPv4
<1>12. CASE Mark
  BY <1>12 DEF Mark
<1>13. CASE Raise
  BY <1>13 DEF Raise, Refused
<1>14. QED
  BY <1>1, <1>2, <1>3, <1>4, <1>5, <1>6, <1>7, <1>8, <1>9, <1>10, <1>11, <1>12, <1>13
     DEF Step, Call

\* The guest, destroy, an interrupt or a failing launch move a run nowhere but
\* to its end.
LEMMA OthersKeep ==
  ASSUME TypeOK, [Next]_vars, pc # "idle", ~Step
  PROVE  pc' \in {pc, "idle"}
<1>1. CASE UNCHANGED vars
  BY <1>1 DEF vars
<1>2. QED
  BY <1>1 DEF Next, Begin, LaunchFails, Die, Installs, Stops, DeleteInstance, RemoveState,
              Destroy, DetachInstaller, Task, TypeOK

\* At most n steps are left.
Within(n) == StepsLeft <= n

\* The number never rises while the run lasts, and every step of it lowers it.
LEMMA Progress ==
  ASSUME TypeOK, TypeOK', [Next]_vars, NEW n \in 1..11, Within(n)
  PROVE  /\ Within(n)' \/ Within(n-1)
         /\ <<Step>>_vars => Within(n-1)'
<1>1. StepsLeft \in 0..11 /\ (StepsLeft = 0 <=> pc = "idle")
  BY StepsType
<1>2. StepsLeft' \in 0..11 /\ (StepsLeft' = 0 <=> pc' = "idle")
  <2>1. pc' \in {"idle", "password", "launch", "init"} \cup Later
    BY DEF TypeOK
  <2>2. QED
    BY <2>1 DEF StepsLeft, Later
<1>3. CASE Step
  BY <1>1, <1>2, <1>3, StepFalls DEF Within
<1>4. CASE ~Step /\ pc # "idle"
  <2>1. pc' \in {pc, "idle"}
    BY <1>4, OthersKeep
  <2>2. StepsLeft' = StepsLeft \/ StepsLeft' = 0
    BY <1>2, <2>1 DEF StepsLeft
  <2>3. QED
    BY <1>1, <1>2, <1>4, <2>2 DEF Within
<1>5. CASE pc = "idle"
  <2>1. StepsLeft = 0
    BY <1>1, <1>5
  <2>2. ~Step
    BY <2>1, <1>2, StepFalls
  <2>3. QED
    BY <2>1, <2>2 DEF Within
<1>6. QED
  BY <1>3, <1>4, <1>5

\* IncusProvisioner.provision (incus.py) is a sequence of commands without a loop
\* but that of the wait for an address: whatever the guest and the user do in
\* between, a run that goes on when it can comes to its end, be it with the
\* marker or an error.
THEOREM Termination == FairSpec /\ []Ready => RunsEnd
<1>1. TypeOK => Within(11)
  BY StepsType DEF Within
<1>2. TypeOK => (Within(0) <=> pc = "idle") /\ (Within(0) \/ pc # "idle")
  BY StepsType DEF Within
<1>3. TypeOK /\ TypeOK' /\ [Next]_vars =>
        /\ Within(11) => Within(11)' \/ Within(10)
        /\ Within(11) /\ <<Step>>_vars => Within(10)'
        /\ Within(10) => Within(10)' \/ Within(9)
        /\ Within(10) /\ <<Step>>_vars => Within(9)'
        /\ Within(9) => Within(9)' \/ Within(8)
        /\ Within(9) /\ <<Step>>_vars => Within(8)'
        /\ Within(8) => Within(8)' \/ Within(7)
        /\ Within(8) /\ <<Step>>_vars => Within(7)'
        /\ Within(7) => Within(7)' \/ Within(6)
        /\ Within(7) /\ <<Step>>_vars => Within(6)'
        /\ Within(6) => Within(6)' \/ Within(5)
        /\ Within(6) /\ <<Step>>_vars => Within(5)'
        /\ Within(5) => Within(5)' \/ Within(4)
        /\ Within(5) /\ <<Step>>_vars => Within(4)'
        /\ Within(4) => Within(4)' \/ Within(3)
        /\ Within(4) /\ <<Step>>_vars => Within(3)'
        /\ Within(3) => Within(3)' \/ Within(2)
        /\ Within(3) /\ <<Step>>_vars => Within(2)'
        /\ Within(2) => Within(2)' \/ Within(1)
        /\ Within(2) /\ <<Step>>_vars => Within(1)'
        /\ Within(1) => Within(1)' \/ Within(0)
        /\ Within(1) /\ <<Step>>_vars => Within(0)'
  BY Progress
<1>4. QED
  BY <1>1, <1>2, <1>3, Typing, PTL DEF RunsEnd, FairSpec, Spec, Ready

-----------------------------------------------------------------------------

\* A new record is of an instance that has been booted.
RecordedBooted == recorded' \notin {recorded, "none"} => instance.booted

\* With Ubuntu alone whatever is there has been launched.
LaunchInv == (Exists => instance.booted) /\ tried \subseteq Ubuntu

LEMMA LaunchStep ==
  ASSUME TypeOK, StageInv, LaunchInv, [Next]_vars, [~LaunchFails]_vars, Offered \subseteq Ubuntu
  PROVE  LaunchInv'
<1> USE DEF TypeOK, LaunchInv, Exists
<1>1. pc \notin IsoSteps
  BY DEF StageInv, IsoSteps
<1>2. CASE UNCHANGED vars
  BY <1>2 DEF vars, store, input
<1>3. CASE \E p \in Offered : Begin(p)
  BY <1>3 DEF Begin, store
<1>4. CASE LaunchVM
  BY <1>4 DEF LaunchVM, NewInstance, input
<1>5. CASE Step /\ ~LaunchVM
  BY <1>1, <1>5
     DEF Step, Call, Raise, Refused, WritePassword, InitVM, ImportIso, AttachIso, ImportSeed,
         AttachSeed, AddVtpm, SetSecureBoot, Start, WaitForIPv4, Mark, Task, IsoSteps,
         store, input
<1>6. CASE Die \/ Installs \/ Stops \/ DeleteInstance \/ RemoveState \/ Destroy \/ DetachInstaller
  BY <1>6 DEF Die, Installs, Stops, DeleteInstance, RemoveState, Destroy, DetachInstaller,
              NewInstance, Running, store, input
<1>7. CASE LaunchFails /\ ~UNCHANGED vars
  BY <1>7
<1>8. QED
  BY <1>2, <1>3, <1>4, <1>5, <1>6, <1>7 DEF Next

\* "provision" is recorded for an Ubuntu VM that never ran only because of a
\* `incus launch` (incus.py:179) that created it and failed to start it: a lab
\* of Ubuntu profiles where that does not happen records no other.
THEOREM LaunchedWhenRecorded ==
  ASSUME Offered \subseteq Ubuntu
  PROVE  Spec /\ [][~LaunchFails]_vars => [][RecordedBooted]_vars
<1>1. Init => LaunchInv
  BY DEF Init, LaunchInv, NewInstance, Exists
<1>2. TypeOK /\ StageInv /\ LaunchInv /\ [Next]_vars /\ [~LaunchFails]_vars => LaunchInv'
  BY LaunchStep
<1>3. TypeOK /\ LaunchInv /\ [Next]_vars => [RecordedBooted]_vars
  <2>1. TypeOK /\ LaunchInv /\ pc = "mark" => instance.booted
    BY DEF TypeOK, LaunchInv, Later
  <2>2. [Next]_vars /\ pc # "mark" => recorded' \in {recorded, "none"}
    BY DEF Next, Step, Call, Raise, LaunchFails, Begin, WritePassword, LaunchVM, InitVM, ImportIso,
           AttachIso, Attach, ImportSeed, AttachSeed, AddVtpm, SetSecureBoot, Start, WaitForIPv4,
           Mark, Die, Installs, Stops, DeleteInstance, RemoveState, Destroy, DetachInstaller,
           Task, files, vars
  <2>3. QED
    BY <2>1, <2>2 DEF RecordedBooted
<1>4. QED
  BY <1>1, <1>2, <1>3, Stages, PTL DEF Spec

=============================================================================
