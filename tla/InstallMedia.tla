----------------------------- MODULE InstallMedia -----------------------------
(***************************************************************************)
(* From `provision.main` to a guest that lets the lab in, as far as files  *)
(* go: the lab key pair (lab/ssh.py), the cached download and its remaster *)
(* (lab/iso.py), the seed ISO (lab/cloudinit.py, kickstart.py, windows.py) *)
(* and the installer that boots from them (lab/provision.py).              *)
(*                                                                         *)
(* One command runs at a time and may die at any step; all instances share *)
(* the key pair and, by mechanism, the cached ISO and its remaster.        *)
(* Upstream may replace a release under the same name.  An ISO is the      *)
(* number of the release it holds, Bad for anything else.                  *)
(***************************************************************************)
EXTENDS Naturals

CONSTANTS
  Inst,         \* instances
  Mechanism,    \* how the profile of each is installed unattended
  FirstKey,     \* key files at the start: "none" of them or a "pair"
  None,         \* no such file
  MaxRelease,   \* bound: releases upstream publishes under one name
  MaxKeys       \* bound: key pairs generated

Mechanisms == {"subiquity", "kickstart", "autounattend"}
Keys     == 1..MaxKeys
Releases == 1..MaxRelease
Bad      == 0
Content  == Releases \cup {Bad}
Remaster == [of : Content, whole : BOOLEAN]
Booted   == [release : Content \cup {None}, key : Keys \cup {None}]

ASSUME MediaAssumption ==
  /\ Mechanism \in [Inst -> Mechanisms]
  /\ FirstKey \in {"none", "pair"}
  /\ MaxRelease \in Nat \ {0} /\ MaxKeys \in Nat \ {0}
  /\ None \notin Nat \cup Inst \cup Remaster \cup Booted

VARIABLES
  private, public,  \* target/lab_id_ed25519 and .pub: the number of their pair
  published,        \* upstream: the release its ISO and its checksums are of
  iso, partial,     \* the cached download and its .partial, by mechanism
  remaster,         \* <stem>-autoinstall.iso: the release it is of, if whole
  current,          \* its mtime is not before that of the cached ISO
  seed,             \* <vm>-cidata.iso, -oemdrv.iso, -unattend.iso: the key in it
  on,               \* VMs that run
  booted,           \* what the installer of each instance was booted from
  guest,            \* the installed system: the key it lets in
  recorded,         \* instances with a provision phase
  pc, inst,         \* the command, and the instance it is for
  pubkey, expected  \* its locals: the public key, the release of the checksum

keys  == <<private, public>>
files == <<iso, partial, remaster, current, seed>>
vms   == <<on, booted, guest, recorded>>
locals == <<inst, pubkey, expected>>
vars  == <<keys, published, files, vms, pc, locals>>

how == Mechanism[inst]

Init ==
  /\ private = (IF FirstKey = "pair" THEN 1 ELSE None) /\ public = private
  /\ published = 1
  /\ iso = [m \in Mechanisms |-> IF m = "autounattend" THEN 1 ELSE None]
  /\ partial = [m \in Mechanisms |-> None]
  /\ remaster = None /\ current = FALSE
  /\ seed = [i \in Inst |-> None]
  /\ on = {} /\ recorded = {}
  /\ booted = [i \in Inst |-> None] /\ guest = [i \in Inst |-> None]
  /\ pc = "idle"
  /\ inst = None /\ pubkey = None /\ expected = None

-----------------------------------------------------------------------------
(* ensure_lab_keypair                                                      *)

\* The command ends, and its locals with it.
Ends == pc' = "idle" /\ inst' = None /\ pubkey' = None /\ expected' = None

Begin(i) ==
  /\ pc = "idle"
  /\ i \notin recorded
  /\ pc' = "keys"
  /\ inst' = i
  /\ UNCHANGED <<keys, published, files, vms, pubkey, expected>>

KeysThere == private # None /\ public # None

UsePair ==
  /\ pc = "keys"
  /\ KeysThere
  /\ pc' = "pubkey"
  /\ UNCHANGED <<keys, published, files, vms, locals>>

\* Mutant of GeneratePrivate: a pair that is there is not looked for.
GenerateAlways ==
  /\ pc = "keys"
  /\ \E k \in Keys : k # private /\ private' = k
  /\ pc' = "public"
  /\ UNCHANGED <<public, published, files, vms, locals>>

\* ssh-keygen writes the private half, over an old one if the person at the
\* terminal answers its question, ..
GeneratePrivate ==
  /\ pc = "keys"
  /\ ~KeysThere
  /\ \E k \in Keys : k # private /\ private' = k
  /\ pc' = "public"
  /\ UNCHANGED <<public, published, files, vms, locals>>

\* .. and then the public half, over whatever is there.
GeneratePublic ==
  /\ pc = "public"
  /\ public' = private
  /\ pc' = "pubkey"
  /\ UNCHANGED <<private, published, files, vms, locals>>

\* Windows takes its key from nowhere, and its ISO is the user's own.
ReadPublic ==
  /\ pc = "pubkey"
  /\ pubkey' = public
  /\ pc' = IF how = "autounattend" THEN "seed" ELSE "checksum"
  /\ UNCHANGED <<keys, published, files, vms, inst, expected>>

-----------------------------------------------------------------------------
(* ensure_iso                                                              *)

\* _fetch_expected_sha256, then the look for a cached ISO.
FetchChecksum ==
  /\ pc = "checksum"
  /\ expected' = published
  /\ pc' = IF iso[how] = None THEN "open" ELSE "verify"
  /\ UNCHANGED <<keys, published, files, vms, inst, pubkey>>

OpenPartial ==
  /\ pc = "open"
  /\ partial' = [partial EXCEPT ![how] = Bad]
  /\ pc' = "download"
  /\ UNCHANGED <<keys, published, iso, remaster, current, seed, vms, locals>>

\* The stream ends; a connection that closes early looks the same.
Download ==
  /\ pc = "download"
  /\ partial' \in {[partial EXCEPT ![how] = r] : r \in {published, Bad}}
  /\ pc' = "rename"
  /\ UNCHANGED <<keys, published, iso, remaster, current, seed, vms, locals>>

\* The file that arrives is younger than any remaster.
Rename ==
  /\ pc = "rename"
  /\ iso' = [iso EXCEPT ![how] = partial[how]]
  /\ partial' = [partial EXCEPT ![how] = None]
  /\ current' = IF how = "subiquity" THEN FALSE ELSE current
  /\ pc' = "verify"
  /\ UNCHANGED <<keys, published, remaster, seed, vms, locals>>

Verified ==
  /\ pc = "verify"
  /\ iso[how] = expected
  /\ pc' = IF how = "subiquity" THEN "remaster" ELSE "seed"
  /\ UNCHANGED <<keys, published, files, vms, locals>>

\* Mutant of Mismatch: it deletes, but does not raise.
MismatchDeletes ==
  /\ pc = "verify"
  /\ iso[how] # expected
  /\ iso' = [iso EXCEPT ![how] = None]
  /\ pc' = IF how = "subiquity" THEN "remaster" ELSE "seed"
  /\ UNCHANGED <<keys, published, partial, remaster, current, seed, vms, locals>>

Mismatch ==
  /\ pc = "verify"
  /\ iso[how] # expected
  /\ iso' = [iso EXCEPT ![how] = None]
  /\ Ends
  /\ UNCHANGED <<keys, published, partial, remaster, current, seed, vms>>

-----------------------------------------------------------------------------
(* remaster_iso_for_autoinstall, build_cidata_iso and its like             *)

\* Mutant of UseRemaster: its age does not matter.
UseAnyRemaster ==
  /\ pc = "remaster"
  /\ remaster # None
  /\ pc' = "seed"
  /\ UNCHANGED <<keys, published, files, vms, locals>>

UseRemaster ==
  /\ pc = "remaster"
  /\ remaster # None /\ current
  /\ pc' = "seed"
  /\ UNCHANGED <<keys, published, files, vms, locals>>

\* xorriso writes in place: from its first byte the file is there, and young.
BeginRemaster ==
  /\ pc = "remaster"
  /\ ~ (remaster # None /\ current)
  /\ remaster' = [of |-> iso[how], whole |-> FALSE]
  /\ current' = TRUE
  /\ pc' = "xorriso"
  /\ UNCHANGED <<keys, published, iso, partial, seed, vms, locals>>

EndRemaster ==
  /\ pc = "xorriso"
  /\ remaster' = [remaster EXCEPT !.whole = TRUE]
  /\ pc' = "seed"
  /\ UNCHANGED <<keys, published, iso, partial, current, seed, vms, locals>>

\* The seed is made anew by every run; a Windows one has no key.
BuildSeed ==
  /\ pc = "seed"
  /\ seed' = [seed EXCEPT ![inst] = IF how = "autounattend" THEN None ELSE pubkey]
  /\ pc' = "boot"
  /\ UNCHANGED <<keys, published, iso, partial, remaster, current, vms, locals>>

-----------------------------------------------------------------------------
(* The VM                                                                  *)

\* The release that the boot medium of instance i was made from ..
Source(i) ==
  IF Mechanism[i] # "subiquity" THEN iso[Mechanism[i]]
  ELSE IF remaster = None THEN None ELSE remaster.of

\* .. and what a VM finds on it.  An image that is gone is ignored.
OnMedium(i) ==
  IF Mechanism[i] = "subiquity" /\ remaster # None /\ ~remaster.whole
  THEN Bad ELSE Source(i)

\* start: a disk that has a system boots it, another the installer.
StartsUp(i) ==
  /\ i \notin on
  /\ on' = on \cup {i}
  /\ booted' = IF guest[i] # None THEN booted
               ELSE [booted EXCEPT ![i] = [release |-> OnMedium(i), key |-> seed[i]]]

\* Attach and start; VBoxManage refuses to configure a VM that runs.
Boot ==
  /\ pc = "boot"
  /\ StartsUp(inst)
  /\ pc' = "wait"
  /\ UNCHANGED <<keys, published, files, guest, recorded, locals>>

\* wait_for_ssh with the lab's private key, none for Windows, and the record.
Record ==
  /\ pc = "wait"
  /\ how # "autounattend" => guest[inst] # None /\ guest[inst].key = private
  /\ recorded' = recorded \cup {inst}
  /\ Ends
  /\ UNCHANGED <<keys, published, files, on, booted, guest>>

\* The installer takes the key from the seed it was booted with.
Installs(i) ==
  /\ i \in on
  /\ guest[i] = None
  /\ booted[i].release \in Releases
  /\ guest' = [guest EXCEPT ![i] = booted[i]]
  /\ UNCHANGED <<keys, published, files, on, booted, recorded, pc, locals>>

Stops(i) ==
  /\ i \in on
  /\ on' = on \ {i}
  /\ UNCHANGED <<keys, published, files, booted, guest, recorded, pc, locals>>

\* `msai lab start` of a VM that was started before.
Restart(i) ==
  /\ pc = "idle"
  /\ booted[i] # None
  /\ StartsUp(i)
  /\ UNCHANGED <<keys, published, files, guest, recorded, pc, locals>>

Republish ==
  /\ published < MaxRelease
  /\ published' = published + 1
  /\ UNCHANGED <<keys, files, vms, pc, locals>>

\* A failed request, a refusal by xorriso or VBoxManage, a no to ssh-keygen, a
\* deadline, an interrupt.
Die ==
  /\ pc # "idle"
  /\ Ends
  /\ UNCHANGED <<keys, published, files, vms>>

Next ==
  \/ \E i \in Inst : Begin(i) \/ Installs(i) \/ Stops(i) \/ Restart(i)
  \/ UsePair \/ GeneratePrivate \/ GeneratePublic \/ ReadPublic
  \/ FetchChecksum \/ OpenPartial \/ Download \/ Rename \/ Verified \/ Mismatch
  \/ UseRemaster \/ BeginRemaster \/ EndRemaster \/ BuildSeed
  \/ Boot \/ Record \/ Republish \/ Die

Spec == Init /\ [][Next]_vars

-----------------------------------------------------------------------------

\* The state has its types.
TypeOK ==
  /\ private \in Keys \cup {None} /\ public \in Keys \cup {None}
  /\ published \in Releases
  /\ iso \in [Mechanisms -> Content \cup {None}]
  /\ partial \in [Mechanisms -> Content \cup {None}]
  /\ remaster \in Remaster \cup {None}
  /\ current \in BOOLEAN
  /\ seed \in [Inst -> Keys \cup {None}]
  /\ on \subseteq Inst /\ recorded \subseteq Inst
  /\ booted \in [Inst -> Booted \cup {None}]
  /\ guest \in [Inst -> Booted \cup {None}]
  /\ pc \in {"idle", "keys", "public", "pubkey", "checksum", "open", "download",
             "rename", "verify", "remaster", "xorriso", "seed", "boot", "wait"}
  /\ IF pc = "idle" THEN inst = None ELSE inst \in Inst
  /\ pubkey \in Keys \cup {None}
  /\ expected \in Releases \cup {None}

\* What provision.py boots to install Linux is the release whose checksum this
\* very run fetched, whatever earlier runs left of a cached ISO, a .partial or
\* a remaster (iso.py: ensure_iso, the age test of the remaster).
BootsVerified ==
  pc = "boot" /\ how # "autounattend" => Source(inst) = expected

\* Every Linux system that is installed, or that an installer on its way will
\* install, lets in the private key the lab keeps, so the wait for ssh can
\* succeed and playbooks can log in, however many runs died in between
\* (ssh.py: ensure_lab_keypair leaves a pair that is there alone).
LoginWorks ==
  \A i \in {j \in Inst : Mechanism[j] # "autounattend"} :
    /\ guest[i] # None => guest[i].key = private
    /\ i \in on => booted[i].key = private

\* "Re-run safely: every step is idempotent" (provision.py:27): what is booted
\* is a whole image, not what a run that died left of one.
WholeMedium == pc = "boot" => OnMedium(inst) = Source(inst)
=============================================================================
