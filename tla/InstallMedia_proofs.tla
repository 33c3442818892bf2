------------------------- MODULE InstallMedia_proofs -------------------------
(***************************************************************************)
(* Proofs about InstallMedia for any instances, any number of releases     *)
(* under one name and any number of interrupted runs: what is booted was   *)
(* verified by the run that boots it, and the lab's key opens it.          *)
(***************************************************************************)
EXTENDS InstallMedia, TLAPS

Linux(i) == Mechanism[i] # "autounattend"

\* A remaster that looks current is of the cached ISO, whatever run made
\* either of them.
RemasterInv ==
  remaster # None /\ current /\ iso["subiquity"] # None =>
    remaster.of = iso["subiquity"]

\* What each step of the run may rely on.
StageInv ==
  /\ pc \in {"checksum", "open", "download", "rename", "verify", "remaster", "xorriso"} =>
       Linux(inst)
  /\ pc \in {"open", "download", "rename", "verify"} => expected # None
  /\ pc \in {"remaster", "xorriso"} => Mechanism[inst] = "subiquity"
  /\ pc \in {"remaster", "xorriso", "seed", "boot"} /\ Linux(inst) =>
       iso[Mechanism[inst]] = expected /\ expected # None
  /\ pc = "xorriso" => remaster # None /\ remaster.of = expected
  /\ pc \in {"seed", "boot"} /\ Mechanism[inst] = "subiquity" =>
       remaster # None /\ remaster.of = expected

MediaInv == RemasterInv /\ StageInv

\* A public key is there only as the half of the private one, and whatever
\* carries a key carries that one.
KeyInv ==
  /\ public # None => public = private
  /\ pc = "public" => public = None /\ private # None
  /\ pc \in {"pubkey", "checksum", "open", "download", "rename", "verify", "remaster",
             "xorriso", "seed", "boot"} => public # None
  /\ pc \in {"checksum", "open", "download", "rename", "verify", "remaster",
             "xorriso", "seed", "boot"} => pubkey = public
  /\ pc = "boot" /\ Linux(inst) => seed[inst] # None

OutInv ==
  /\ \A i \in Inst : seed[i] # None => public # None /\ seed[i] = public
  /\ \A i \in Inst : Linux(i) /\ booted[i] # None =>
       public # None /\ booted[i].key = public /\ seed[i] # None
  /\ \A i \in Inst : Linux(i) /\ guest[i] # None => public # None /\ guest[i].key = public
  /\ \A i \in on : booted[i] # None
  /\ \A i \in Inst : guest[i] # None => booted[i] # None

LoginInv == KeyInv /\ OutInv

-----------------------------------------------------------------------------

\* What a VM finds on its boot medium.
LEMMA MediumType ==
  ASSUME TypeOK, NEW i \in Inst
  PROVE  [release |-> OnMedium(i), key |-> seed[i]] \in Booted \ {None}
<1>1. OnMedium(i) \in Content \cup {None}
  BY MediaAssumption DEF TypeOK, OnMedium, Source, Remaster, Content, Bad, Mechanisms
<1>2. seed[i] \in Keys \cup {None}
  BY DEF TypeOK
<1>3. QED
  BY <1>1, <1>2, MediaAssumption DEF Booted

\* Every step keeps the types.
LEMMA TypeStep ==
  ASSUME TypeOK, StageInv, [Next]_vars
  PROVE  TypeOK'
<1> USE MediaAssumption DEF TypeOK, keys, files, vms, locals, Keys, Releases, Content,
                            Remaster, Booted, Bad, Mechanisms, how
<1>1. ASSUME NEW i \in Inst, Begin(i) PROVE TypeOK'
  BY <1>1 DEF Begin
<1>2. ASSUME NEW i \in Inst, Installs(i) PROVE TypeOK'
  BY <1>2 DEF Installs
<1>3. ASSUME NEW i \in Inst, Stops(i) PROVE TypeOK'
  BY <1>3 DEF Stops
<1>4. ASSUME NEW i \in Inst, Restart(i) PROVE TypeOK'
  BY <1>4 DEF Restart, StartsUp, OnMedium, Source
<1>5. CASE UsePair
  BY <1>5 DEF UsePair
<1>6. CASE GeneratePrivate
  BY <1>6 DEF GeneratePrivate
<1>7. CASE GeneratePublic
  BY <1>7 DEF GeneratePublic
<1>8. CASE ReadPublic
  BY <1>8 DEF ReadPublic
<1>9. CASE FetchChecksum
  BY <1>9 DEF FetchChecksum
<1>10. CASE OpenPartial
  BY <1>10 DEF OpenPartial
<1>11. CASE Download
  BY <1>11 DEF Download
<1>12. CASE Rename
  BY <1>12 DEF Rename
<1>13. CASE Verified
  BY <1>13 DEF Verified
<1>14. CASE Mismatch
  BY <1>14 DEF Mismatch, Ends
<1>15. CASE UseRemaster
  BY <1>15 DEF UseRemaster
<1>16. CASE BuildSeed
  BY <1>16 DEF BuildSeed
<1>17. CASE Boot
  BY <1>17 DEF Boot, StartsUp, OnMedium, Source
<1>18. CASE Record
  BY <1>18 DEF Record, Ends
<1>19. CASE Republish
  BY <1>19 DEF Republish
<1>20. CASE Die
  BY <1>20 DEF Die, Ends
<1>21. CASE UNCHANGED vars
  BY <1>21 DEF vars
<1>22. CASE BeginRemaster
  BY <1>22 DEF BeginRemaster, StageInv
<1>23. CASE EndRemaster
  BY <1>23 DEF EndRemaster, StageInv
<1>24. QED
  BY <1>1, <1>2, <1>3, <1>4, <1>5, <1>6, <1>7, <1>8, <1>9, <1>10, <1>11, <1>12, <1>13,
     <1>14, <1>15, <1>16, <1>17, <1>18, <1>19, <1>20, <1>21, <1>22, <1>23 DEF Next

\* Every step keeps what the run relies on and what the cache is known to hold.
LEMMA MediaStep ==
  ASSUME TypeOK, MediaInv, [Next]_vars
  PROVE  MediaInv'
<1> USE MediaAssumption DEF TypeOK, MediaInv, RemasterInv, StageInv, Linux, keys, files,
                            vms, locals, Releases, Content, Remaster, Bad, Mechanisms, how
<1>1. ASSUME NEW i \in Inst, Begin(i) PROVE MediaInv'
  BY <1>1 DEF Begin
<1>2. ASSUME NEW i \in Inst, Installs(i) PROVE MediaInv'
  BY <1>2 DEF Installs
<1>3. ASSUME NEW i \in Inst, Stops(i) PROVE MediaInv'
  BY <1>3 DEF Stops
<1>4. ASSUME NEW i \in Inst, Restart(i) PROVE MediaInv'
  BY <1>4 DEF Restart, StartsUp
<1>5. CASE UsePair
  BY <1>5 DEF UsePair, KeysThere
<1>6. CASE GeneratePrivate
  BY <1>6 DEF GeneratePrivate, KeysThere
<1>7. CASE GeneratePublic
  BY <1>7 DEF GeneratePublic
<1>8. CASE ReadPublic
  BY <1>8 DEF ReadPublic
<1>9. CASE FetchChecksum
  BY <1>9 DEF FetchChecksum
<1>10. CASE OpenPartial
  BY <1>10 DEF OpenPartial
<1>11. CASE Download
  BY <1>11 DEF Download
<1>12. CASE Rename
  BY <1>12 DEF Rename
<1>13. CASE Verified
  BY <1>13 DEF Verified
<1>14. CASE Mismatch
  BY <1>14 DEF Mismatch, Ends
<1>15. CASE UseRemaster
  BY <1>15 DEF UseRemaster
<1>16. CASE BeginRemaster
  <2>1. iso[how] \in Content
    BY <1>16 DEF BeginRemaster
  <2>2. [of |-> iso[how], whole |-> FALSE] \in Remaster
    BY <2>1
  <2>3. remaster' # None /\ remaster'.of = iso[how]
    BY <1>16, <2>2 DEF BeginRemaster
  <2>4. QED
    BY <1>16, <2>3 DEF BeginRemaster
<1>17. CASE EndRemaster
  BY <1>17 DEF EndRemaster
<1>18. CASE BuildSeed
  BY <1>18 DEF BuildSeed
<1>19. CASE Boot
  BY <1>19 DEF Boot, StartsUp
<1>20. CASE Record
  BY <1>20 DEF Record, Ends
<1>21. CASE Republish
  BY <1>21 DEF Republish
<1>22. CASE Die
  BY <1>22 DEF Die, Ends
<1>23. CASE UNCHANGED vars
  BY <1>23 DEF vars
<1>24. QED
  BY <1>1, <1>2, <1>3, <1>4, <1>5, <1>6, <1>7, <1>8, <1>9, <1>10, <1>11, <1>12, <1>13,
     <1>14, <1>15, <1>16, <1>17, <1>18, <1>19, <1>20, <1>21, <1>22, <1>23 DEF Next

\* Every step keeps the one key in everything that carries a key.
LEMMA LoginStep ==
  ASSUME TypeOK, LoginInv, [Next]_vars
  PROVE  LoginInv'
<1> USE MediaAssumption DEF TypeOK, LoginInv, KeyInv, OutInv, Linux, keys, files, vms,
                            locals, Keys, Booted, Mechanisms, how
<1>1. ASSUME NEW i \in Inst, Begin(i) PROVE LoginInv'
  BY <1>1 DEF Begin
<1>2. ASSUME NEW i \in Inst, Installs(i) PROVE LoginInv'
  BY <1>2 DEF Installs
<1>3. ASSUME NEW i \in Inst, Stops(i) PROVE LoginInv'
  BY <1>3 DEF Stops
<1>4. ASSUME NEW i \in Inst, Restart(i) PROVE LoginInv'
  <2> DEFINE b == [release |-> OnMedium(i), key |-> seed[i]]
  <2>1. b \in Booted /\ b # None /\ b.key = seed[i]
    BY <1>4, MediumType DEF Restart
  <2>2. booted' = IF guest[i] # None THEN booted ELSE [booted EXCEPT ![i] = b]
    BY <1>4 DEF Restart, StartsUp
  <2> HIDE DEF b
  <2>3. QED
    BY <1>4, <2>1, <2>2 DEF Restart, StartsUp
<1>5. CASE UsePair
  BY <1>5 DEF UsePair, KeysThere
<1>6. CASE GeneratePrivate
  BY <1>6 DEF GeneratePrivate, KeysThere
<1>7. CASE GeneratePublic
  BY <1>7 DEF GeneratePublic
<1>8. CASE ReadPublic
  BY <1>8 DEF ReadPublic
<1>9. CASE FetchChecksum
  BY <1>9 DEF FetchChecksum
<1>10. CASE OpenPartial
  BY <1>10 DEF OpenPartial
<1>11. CASE Download
  BY <1>11 DEF Download
<1>12. CASE Rename
  BY <1>12 DEF Rename
<1>13. CASE Verified
  BY <1>13 DEF Verified
<1>14. CASE Mismatch
  BY <1>14 DEF Mismatch, Ends
<1>15. CASE UseRemaster
  BY <1>15 DEF UseRemaster
<1>16. CASE BeginRemaster
  BY <1>16 DEF BeginRemaster
<1>17. CASE EndRemaster
  BY <1>17 DEF EndRemaster
<1>18. CASE BuildSeed
  BY <1>18 DEF BuildSeed
<1>19. CASE Boot
  <2> DEFINE b == [release |-> OnMedium(inst), key |-> seed[inst]]
  <2>1. b \in Booted /\ b # None /\ b.key = seed[inst]
    BY <1>19, MediumType DEF Boot
  <2>2. booted' = IF guest[inst] # None THEN booted ELSE [booted EXCEPT ![inst] = b]
    BY <1>19 DEF Boot, StartsUp
  <2> HIDE DEF b
  <2>3. inst \in Inst /\ pc' = "wait" /\ on' = on \cup {inst} /\ inst' = inst
    BY <1>19 DEF Boot, StartsUp
  <2>4. UNCHANGED <<public, private, seed, guest>>
    BY <1>19 DEF Boot
  <2>5. KeyInv'
    BY <2>3, <2>4
  <2>6. \A i \in Inst : booted'[i] = IF i = inst /\ guest[inst] = None THEN b ELSE booted[i]
    BY <2>2, <2>3
  <2>7. Linux(inst) => seed[inst] # None
    BY <1>19 DEF Boot
  <2>8. \A i \in Inst : Linux(i) /\ booted'[i] # None =>
          public # None /\ booted'[i].key = public /\ seed[i] # None
    BY <2>1, <2>6, <2>7
  <2>9. QED
    BY <2>1, <2>3, <2>4, <2>5, <2>6, <2>8
<1>20. CASE Record
  BY <1>20 DEF Record, Ends
<1>21. CASE Republish
  BY <1>21 DEF Republish
<1>22. CASE Die
  BY <1>22 DEF Die, Ends
<1>23. CASE UNCHANGED vars
  BY <1>23 DEF vars
<1>24. QED
  BY <1>1, <1>2, <1>3, <1>4, <1>5, <1>6, <1>7, <1>8, <1>9, <1>10, <1>11, <1>12, <1>13,
     <1>14, <1>15, <1>16, <1>17, <1>18, <1>19, <1>20, <1>21, <1>22, <1>23 DEF Next

-----------------------------------------------------------------------------

\* All three facts hold together from the start and at every step: the types
\* rest on what the run may rely on.
LEMMA MediaSafety == Spec => [](TypeOK /\ MediaInv /\ LoginInv)
<1> USE MediaAssumption
<1>1. Init => TypeOK /\ MediaInv /\ LoginInv
  <2> SUFFICES ASSUME Init PROVE TypeOK /\ MediaInv /\ LoginInv
    OBVIOUS
  <2>1. TypeOK
    <3>1. 1 \in Keys /\ 1 \in Releases
      BY DEF Keys, Releases
    <3>2. private \in Keys \cup {None} /\ public \in Keys \cup {None}
      BY <3>1 DEF Init
    <3>3. iso \in [Mechanisms -> Content \cup {None}]
      BY <3>1 DEF Init, Content
    <3>4. QED
      BY <3>1, <3>2, <3>3 DEF Init, TypeOK
  <2>2. MediaInv
    BY DEF Init, MediaInv, RemasterInv, StageInv
  <2>3. LoginInv
    BY DEF Init, LoginInv, KeyInv, OutInv
  <2>4. QED
    BY <2>1, <2>2, <2>3
<1>2. TypeOK /\ MediaInv /\ LoginInv /\ [Next]_vars => (TypeOK /\ MediaInv /\ LoginInv)'
  BY TypeStep, MediaStep, LoginStep DEF MediaInv
<1>3. QED
  BY <1>1, <1>2, PTL DEF Spec

\* The state has its types, for any instances, releases and keys.
THEOREM Typing == Spec => []TypeOK
  BY MediaSafety, PTL

\* What is booted to install Linux was verified by the run that boots it,
\* whatever runs before it left in the cache (iso.py).
THEOREM Verification == Spec => []BootsVerified
<1>1. TypeOK /\ MediaInv => BootsVerified
  BY MediaAssumption DEF TypeOK, MediaInv, StageInv, BootsVerified, Source, Linux, how
<1>2. QED
  BY <1>1, MediaSafety, PTL

\* The lab's private key opens every Linux guest, however many runs died
\* while the pair or the seeds were made (ssh.py).
THEOREM Login == Spec => []LoginWorks
<1>1. TypeOK /\ LoginInv => LoginWorks
  BY MediaAssumption DEF TypeOK, LoginInv, KeyInv, OutInv, LoginWorks, Linux
<1>2. QED
  BY <1>1, MediaSafety, PTL

-----------------------------------------------------------------------------

\* Nobody interrupts xorriso.
XorrisoLives == ~(Die /\ pc = "xorriso")

\* Only while it is written is the remaster not a whole image.
WholeInv == remaster # None /\ pc # "xorriso" => remaster.whole

LEMMA WholeStep ==
  ASSUME TypeOK, MediaInv, WholeInv, [Next]_vars, [XorrisoLives]_vars
  PROVE  WholeInv'
<1> USE MediaAssumption DEF TypeOK, WholeInv
<1>1. CASE BeginRemaster
  BY <1>1 DEF BeginRemaster
<1>2. CASE EndRemaster
  BY <1>2 DEF EndRemaster, MediaInv, StageInv, Remaster
<1>3. CASE UNCHANGED vars
  BY <1>3 DEF vars, files
<1>4. CASE ~BeginRemaster /\ ~EndRemaster /\ Next
  <2>1. remaster' = remaster
    BY <1>4 DEF Next, Begin, Installs, Stops, Restart, UsePair, GeneratePrivate, GeneratePublic,
                ReadPublic, FetchChecksum, OpenPartial, Download, Rename, Verified, Mismatch,
                UseRemaster, BuildSeed, Boot, Record, Republish, Die, files
  <2>2. pc = "xorriso" => pc' = pc
    <3>1. pc = "xorriso" /\ Die => UNCHANGED vars
      BY DEF XorrisoLives
    <3>2. QED
      BY <1>4, <3>1
         DEF Next, Begin, Installs, Stops, Restart, UsePair, GeneratePrivate, GeneratePublic,
             ReadPublic, FetchChecksum, OpenPartial, Download, Rename, Verified, Mismatch,
             UseRemaster, BuildSeed, Boot, Record, Republish, vars
  <2>3. QED
    BY <2>1, <2>2
<1>5. QED
  BY <1>1, <1>2, <1>3, <1>4

\* "Every step is idempotent" (provision.py:27) but for one: WholeMedium fails
\* only where a run dies while xorriso writes.  With that ruled out, every VM
\* boots a whole image, whatever else was interrupted.
THEOREM WholeUnlessKilled == Spec /\ [][XorrisoLives]_vars => []WholeMedium
<1>1. Init => WholeInv
  BY DEF Init, WholeInv
<1>2. TypeOK /\ MediaInv /\ WholeInv /\ [Next]_vars /\ [XorrisoLives]_vars => WholeInv'
  BY WholeStep
<1>3. WholeInv => WholeMedium
  BY DEF WholeInv, WholeMedium, OnMedium
<1>4. QED
  BY <1>1, <1>2, <1>3, MediaSafety, PTL DEF Spec
=============================================================================
