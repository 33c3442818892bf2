---------------------------- MODULE Doctor_proofs ----------------------------
(***************************************************************************)
(* Proofs about Doctor for any hosts and any sets of categories: the       *)
(* types, what fixes do unasked, what they do on a desktop, what exit code *)
(* 0 and "applied" say, and that results which have gone stale start       *)
(* nothing that is not needed.  All of it rests on one fact: whatever      *)
(* happens to the host improves it (HostImproves).                         *)
(***************************************************************************)
EXTENDS Doctor, TLAPS

\* A host has a value for every fact.
HostOK(h) == DOMAIN h = Facts /\ \A f \in Facts : h[f] \in Values[f]

LEMMA FactNames ==
  Facts =
    {"release", "kernel", "memory", "cpu", "sshd", "codec", "pool", "tank",
     "errors", "scrub", "snapshots", "docker", "compose", "kvm", "qemu", "iommu",
     "vfio", "amdgpu", "rocm", "vulkan", "server", "cli", "incus", "storage",
     "tailscale", "tailnet", "session", "account", "graphical"}
  BY DEF Facts, Values

LEMMA ValueSets ==
  /\ Values["codec"] = {"persistent", "runtime", "enabled", "absent"}
  /\ Values["pool"] = {"imported", "exported", "missing", "no zfs"}
  /\ Values["scrub"] = {"recent", "old", "undated", "running", "never", "resilvered"}
  /\ Values["snapshots"] = {"tool", "by hand", "none"}
  /\ Values["docker"] = {"running", "stopped", "absent"}
  /\ Values["errors"] = BOOLEAN
  /\ Values["compose"] = BOOLEAN
  /\ Values["qemu"] = BOOLEAN
  /\ Values["storage"] = BOOLEAN
  /\ Values["rocm"] = {"working", "broken", "absent"}
  /\ Values["vulkan"] = {"working", "broken", "absent"}
  /\ Values["cli"] = {"gpu", "cpu", "absent"}
  /\ Values["incus"] = {"running", "stopped", "absent"}
  /\ Values["tailscale"] = {"running", "stopped", "absent"}
  /\ Values["tailnet"] = {"named", "joined", "out"}
  /\ Values["session"] = SUBSET {"docker", "render", "video", "incus-admin"}
  /\ Values["account"] = SUBSET {"docker", "render", "video", "incus-admin"}
  BY DEF Values

\* How a value may give way to another: a command brings its check nearer to
\* OK, a login sets the groups of the session.
Better(f, old, new) ==
  \/ f = "codec" /\ new = "persistent"
  \/ f = "pool" /\ new = "imported"
  \/ f = "scrub" /\ new \in {"running", "recent"}
  \/ f = "snapshots" /\ new = "tool"
  \/ f \in {"docker", "tailscale"} /\ old # "absent" /\ new = "running"
  \/ f = "account" /\ old \subseteq new
  \/ f \in {"compose", "qemu", "storage"} /\ new = TRUE
  \/ f = "incus" /\ new = "running"
  \/ f \in {"rocm", "vulkan"} /\ new \in {"working", "broken"}
  \/ f = "cli" /\ new = "gpu"
  \/ f = "tailnet" /\ new \in {"joined", "named"}
  \/ f = "session"

Improves(h, k) ==
  /\ HostOK(k)
  /\ \A f \in Facts : k[f] # h[f] => Better(f, h[f], k[f])

LEMMA Unchanged ==
  ASSUME NEW h, HostOK(h)
  PROVE  Improves(h, h)
  BY DEF Improves

LEMMA Change ==
  ASSUME NEW h, NEW g, Improves(h, g), NEW f \in Facts, NEW v \in Values[f],
         Better(f, h[f], v)
  PROVE  Improves(h, [g EXCEPT ![f] = v])
<1> DEFINE k == [g EXCEPT ![f] = v]
<1>1. DOMAIN k = Facts /\ k[f] = v /\ \A e \in Facts \ {f} : k[e] = g[e]
  BY DEF Improves, HostOK
<1> HIDE DEF k
<1>2. HostOK(k)
  BY <1>1 DEF Improves, HostOK
<1>3. QED
  BY <1>1, <1>2 DEF Improves, k

-----------------------------------------------------------------------------
(* What each command changes                                               *)

\* Command f may change fact x.
Changes(f, x) ==
  \/ f = "audio_powersave" /\ x = "codec"
  \/ f = "zpool import" /\ x = "pool"
  \/ f = "zpool scrub" /\ x = "scrub"
  \/ f = "apt zfs-auto-snapshot" /\ x = "snapshots"
  \/ f = "docker_start" /\ x = "docker"
  \/ f = "apt docker-compose-plugin" /\ x = "compose"
  \/ f = "bootstrap incus" /\ x \in {"incus", "qemu", "account"}
  \/ f = "enable incus.socket" /\ x = "incus"
  \/ f = "incus admin init" /\ x = "storage"
  \/ f = "bootstrap kvm" /\ x = "qemu"
  \/ f \in {"usermod docker", "usermod incus-admin", "usermod render,video"} /\ x = "account"
  \/ f = "apt rocm" /\ x = "rocm"
  \/ f = "apt vulkan-tools" /\ x = "vulkan"
  \/ f = "bootstrap llamacpp-vulkan" /\ x = "cli"
  \/ f = "tailscaled_start" /\ x = "tailscale"
  \/ f = "tailscale up" /\ x = "tailnet"

\* A command other than the bootstrap of incus changes one fact, for the better.
LEMMA OneFact ==
  ASSUME NEW h, HostOK(h), NEW f, f # "bootstrap incus", NEW k \in Done(f, h)
  PROVE  \E x \in Facts : \E v \in Values[x] :
           k = [h EXCEPT ![x] = v] /\ Better(x, h[x], v) /\ Changes(f, x)
<1> DEFINE Sets(x, v) ==
      k = [h EXCEPT ![x] = v] /\ v \in Values[x] /\ Better(x, h[x], v) /\ Changes(f, x)
<1> USE FactNames, ValueSets DEF Better, Changes
<1>1. CASE f = "audio_powersave"
  <2>1. Sets("codec", "persistent")
    BY <1>1 DEF Done
  <2>2. QED
    BY <2>1
<1>2. CASE f = "zpool import"
  <2>1. Sets("pool", "imported")
    BY <1>2 DEF Done
  <2>2. QED
    BY <2>1
<1>3. CASE f = "zpool scrub"
  <2>1. Sets("scrub", "running")
    BY <1>3 DEF Done
  <2>2. QED
    BY <2>1
<1>4. CASE f = "apt zfs-auto-snapshot"
  <2>1. Sets("snapshots", "tool")
    BY <1>4 DEF Done
  <2>2. QED
    BY <2>1
<1>5. CASE f = "docker_start"
  <2>1. Sets("docker", "running")
    BY <1>5 DEF Done
  <2>2. QED
    BY <2>1
<1>6. CASE f = "apt docker-compose-plugin"
  <2>1. Sets("compose", TRUE)
    BY <1>6 DEF Done
  <2>2. QED
    BY <2>1
<1>7. CASE f = "enable incus.socket"
  <2>1. Sets("incus", "running")
    BY <1>7 DEF Done
  <2>2. QED
    BY <2>1
<1>8. CASE f = "incus admin init"
  <2>1. Sets("storage", TRUE)
    BY <1>8 DEF Done
  <2>2. QED
    BY <2>1
<1>9. CASE f = "bootstrap kvm"
  <2>1. Sets("qemu", TRUE)
    BY <1>9 DEF Done
  <2>2. QED
    BY <2>1
<1>10. CASE f = "bootstrap llamacpp-vulkan"
  <2>1. Sets("cli", "gpu")
    BY <1>10 DEF Done
  <2>2. QED
    BY <2>1
<1>11. CASE f = "tailscaled_start"
  <2>1. Sets("tailscale", "running")
    BY <1>11 DEF Done
  <2>2. QED
    BY <2>1
<1>12. CASE f = "apt rocm"
  <2>1. PICK v \in {"working", "broken"} : k = [h EXCEPT !["rocm"] = v]
    BY <1>12 DEF Done
  <2>2. Sets("rocm", v)
    BY <1>12, <2>1
  <2>3. QED
    BY <2>2
<1>13. CASE f = "apt vulkan-tools"
  <2>1. PICK v \in {"working", "broken"} : k = [h EXCEPT !["vulkan"] = v]
    BY <1>13 DEF Done
  <2>2. Sets("vulkan", v)
    BY <1>13, <2>1
  <2>3. QED
    BY <2>2
<1>14. CASE f = "tailscale up"
  <2>1. PICK v \in {"joined", "named"} : k = [h EXCEPT !["tailnet"] = v]
    BY <1>14 DEF Done
  <2>2. Sets("tailnet", v)
    BY <1>14, <2>1
  <2>3. QED
    BY <2>2
<1>15. CASE f = "usermod docker"
  <2>1. k = [h EXCEPT !["account"] = h["account"] \cup {"docker"}]
    BY <1>15 DEF Done, Joins
  <2>2. h["account"] \in Values["account"]
    BY DEF HostOK
  <2>3. Sets("account", h["account"] \cup {"docker"})
    BY <1>15, <2>1, <2>2
  <2>4. QED
    BY <2>3
<1>16. CASE f = "usermod incus-admin"
  <2>1. k = [h EXCEPT !["account"] = h["account"] \cup {"incus-admin"}]
    BY <1>16 DEF Done, Joins
  <2>2. h["account"] \in Values["account"]
    BY DEF HostOK
  <2>3. Sets("account", h["account"] \cup {"incus-admin"})
    BY <1>16, <2>1, <2>2
  <2>4. QED
    BY <2>3
<1>17. CASE f = "usermod render,video"
  <2>1. k = [h EXCEPT !["account"] = h["account"] \cup {"render", "video"}]
    BY <1>17 DEF Done, Joins
  <2>2. h["account"] \in Values["account"]
    BY DEF HostOK
  <2>3. Sets("account", h["account"] \cup {"render", "video"})
    BY <1>17, <2>1, <2>2
  <2>4. QED
    BY <2>3
<1>18. f \in {"audio_powersave", "zpool import", "zpool scrub", "apt zfs-auto-snapshot",
              "docker_start", "apt docker-compose-plugin", "enable incus.socket",
              "incus admin init", "bootstrap kvm", "bootstrap llamacpp-vulkan",
              "tailscaled_start", "apt rocm", "apt vulkan-tools", "tailscale up",
              "usermod docker", "usermod incus-admin", "usermod render,video"}
  BY DEF Done
<1>19. QED
  BY <1>1, <1>2, <1>3, <1>4, <1>5, <1>6, <1>7, <1>8, <1>9, <1>10, <1>11, <1>12, <1>13,
     <1>14, <1>15, <1>16, <1>17, <1>18

\* The bootstrap of incus brings a running daemon, the group and perhaps QEMU.
LEMMA IncusFacts ==
  ASSUME NEW h, HostOK(h), NEW k \in Done("bootstrap incus", h)
  PROVE  \E q \in {TRUE, h["qemu"]} :
           k = [[[h EXCEPT !["incus"] = "running"] EXCEPT !["qemu"] = q]
                  EXCEPT !["account"] = h["account"] \cup {"incus-admin"}]
<1>1. PICK q \in {TRUE, h["qemu"]} :
        k = Joins([h EXCEPT !["incus"] = "running", !["qemu"] = q], {"incus-admin"})
  BY DEF Done
<1>2. [h EXCEPT !["incus"] = "running", !["qemu"] = q]["account"] = h["account"]
  BY FactNames DEF HostOK
<1>3. QED
  BY <1>1, <1>2 DEF Joins

\* Every command that gets through improves the host.
LEMMA DoneImproves ==
  ASSUME NEW h, HostOK(h), NEW f, NEW k \in Done(f, h)
  PROVE  Improves(h, k)
<1>1. CASE f # "bootstrap incus"
  <2>1. PICK x \in Facts : \E v \in Values[x] :
          k = [h EXCEPT ![x] = v] /\ Better(x, h[x], v) /\ Changes(f, x)
    BY <1>1, OneFact
  <2>2. PICK v \in Values[x] : k = [h EXCEPT ![x] = v] /\ Better(x, h[x], v)
    BY <2>1
  <2>3. QED
    BY <2>2, Unchanged, Change
<1>2. CASE f = "bootstrap incus"
  <2>1. PICK q \in {TRUE, h["qemu"]} :
          k = [[[h EXCEPT !["incus"] = "running"] EXCEPT !["qemu"] = q]
                 EXCEPT !["account"] = h["account"] \cup {"incus-admin"}]
    BY <1>2, IncusFacts
  <2> DEFINE h1 == [h EXCEPT !["incus"] = "running"]
             h2 == [h1 EXCEPT !["qemu"] = q]
  <2>2. /\ Improves(h, h1)
        /\ Better("qemu", h["qemu"], TRUE)
        /\ h1["qemu"] = h["qemu"]
    BY Unchanged, Change, FactNames, ValueSets DEF Better, HostOK
  <2>3. q \in Values["qemu"] /\ (q = TRUE \/ q = h1["qemu"])
    BY <2>2, FactNames, ValueSets DEF HostOK
  <2>4. DOMAIN h1 = Facts /\ h1 = [x \in Facts |-> h1[x]]
    BY FactNames DEF h1, HostOK
  <2> HIDE DEF h1
  <2>5. Improves(h, h2)
    <3>1. CASE q = TRUE
      BY <2>2, <2>3, <3>1, Change, FactNames
    <3>2. CASE q = h1["qemu"]
      <4>1. h2 = h1
        BY <2>4, <3>2
      <4>2. QED
        BY <2>2, <4>1
    <3>3. QED
      BY <2>3, <3>1, <3>2
  <2>6. h2["account"] = h["account"] /\ h["account"] \in Values["account"]
    BY <2>4, FactNames DEF h2, h1, HostOK
  <2> HIDE DEF h2
  <2>7. k = [h2 EXCEPT !["account"] = h["account"] \cup {"incus-admin"}]
    BY <2>1 DEF h2, h1
  <2>8. /\ h["account"] \cup {"incus-admin"} \in Values["account"]
        /\ Better("account", h["account"], h["account"] \cup {"incus-admin"})
    BY <2>6, ValueSets DEF Better
  <2>9. QED
    BY <2>5, <2>7, <2>8, Change, FactNames
<1>3. QED
  BY <1>1, <1>2

\* A fact that differs afterwards is one the command may change.
LEMMA Footprint ==
  ASSUME NEW h, HostOK(h), NEW f, NEW k \in Done(f, h), NEW x \in Facts, k[x] # h[x]
  PROVE  Changes(f, x)
<1>1. CASE f # "bootstrap incus"
  <2>1. PICK y \in Facts : \E v \in Values[y] :
          k = [h EXCEPT ![y] = v] /\ Better(y, h[y], v) /\ Changes(f, y)
    BY <1>1, OneFact
  <2>2. x = y
    BY <2>1 DEF HostOK
  <2>3. QED
    BY <2>1, <2>2
<1>2. CASE f = "bootstrap incus"
  <2>1. PICK q \in {TRUE, h["qemu"]} :
          k = [[[h EXCEPT !["incus"] = "running"] EXCEPT !["qemu"] = q]
                 EXCEPT !["account"] = h["account"] \cup {"incus-admin"}]
    BY <1>2, IncusFacts
  <2>2. x \in {"incus", "qemu", "account"}
    BY <2>1 DEF HostOK
  <2>3. QED
    BY <1>2, <2>2 DEF Changes
<1>3. QED
  BY <1>1, <1>2

\* Command f brings the user into group g.
Grants(f, g) ==
  \/ f = "usermod docker" /\ g = "docker"
  \/ f \in {"usermod incus-admin", "bootstrap incus"} /\ g = "incus-admin"
  \/ f = "usermod render,video" /\ g \in {"render", "video"}

LEMMA Joined ==
  ASSUME NEW h, HostOK(h), NEW f, NEW k \in Done(f, h), NEW g \in k["account"] \ h["account"]
  PROVE  Grants(f, g)
<1>0. "account" \in Facts /\ DOMAIN h = Facts
  BY FactNames DEF HostOK
<1>1. Changes(f, "account")
  BY <1>0, Footprint
<1>2. f \in {"usermod docker", "usermod incus-admin", "usermod render,video", "bootstrap incus"}
  BY <1>1 DEF Changes
<1>3. CASE f = "bootstrap incus"
  <2>0. PICK q \in {TRUE, h["qemu"]} :
          k = [[[h EXCEPT !["incus"] = "running"] EXCEPT !["qemu"] = q]
                 EXCEPT !["account"] = h["account"] \cup {"incus-admin"}]
    BY <1>3, IncusFacts
  <2>1. k["account"] = h["account"] \cup {"incus-admin"}
    BY <1>0, <2>0
  <2>2. QED
    BY <1>3, <2>1 DEF Grants
<1>4. CASE f = "usermod docker"
  BY <1>0, <1>4 DEF Done, Joins, Grants
<1>5. CASE f = "usermod incus-admin"
  BY <1>0, <1>5 DEF Done, Joins, Grants
<1>6. CASE f = "usermod render,video"
  BY <1>0, <1>6 DEF Done, Joins, Grants
<1>7. QED
  BY <1>2, <1>3, <1>4, <1>5, <1>6

-----------------------------------------------------------------------------
(* What the commands may have changed, fact by fact                        *)

\* What no command changes, and what the others may have become.
LEMMA Gained ==
  ASSUME NEW h, NEW k, Improves(h, k)
  PROVE
    /\ k.release = h.release
    /\ k.kernel = h.kernel
    /\ k.memory = h.memory
    /\ k.cpu = h.cpu
    /\ k.sshd = h.sshd
    /\ k.tank = h.tank
    /\ k.errors = h.errors
    /\ k.kvm = h.kvm
    /\ k.iommu = h.iommu
    /\ k.vfio = h.vfio
    /\ k.amdgpu = h.amdgpu
    /\ k.server = h.server
    /\ k.graphical = h.graphical
    /\ k.codec # h.codec => k.codec = "persistent"
    /\ k.pool # h.pool => k.pool = "imported"
    /\ k.scrub # h.scrub => k.scrub \in {"running", "recent"}
    /\ k.snapshots # h.snapshots => k.snapshots = "tool"
    /\ k.docker # h.docker => h.docker # "absent" /\ k.docker = "running"
    /\ k.tailscale # h.tailscale => h.tailscale # "absent" /\ k.tailscale = "running"
    /\ k.compose # h.compose => k.compose
    /\ k.qemu # h.qemu => k.qemu
    /\ k.storage # h.storage => k.storage
    /\ k.incus # h.incus => k.incus = "running"
    /\ k.rocm # h.rocm => k.rocm # "absent"
    /\ k.vulkan # h.vulkan => k.vulkan # "absent"
    /\ k.cli # h.cli => k.cli = "gpu"
    /\ k.tailnet # h.tailnet => k.tailnet # "out"
    /\ h.account \subseteq k.account
<1>1. \A f \in Facts : k[f] # h[f] => Better(f, h[f], k[f])
  BY DEF Improves
<1>2. /\ k.release = h.release
      /\ k.kernel = h.kernel
      /\ k.memory = h.memory
      /\ k.cpu = h.cpu
      /\ k.sshd = h.sshd
      /\ k.tank = h.tank
      /\ k.errors = h.errors
      /\ k.kvm = h.kvm
      /\ k.iommu = h.iommu
      /\ k.vfio = h.vfio
      /\ k.amdgpu = h.amdgpu
      /\ k.server = h.server
      /\ k.graphical = h.graphical
  BY <1>1, FactNames DEF Better
<1>3. k.codec # h.codec => k.codec = "persistent"
  <2>1. k["codec"] # h["codec"] => Better("codec", h["codec"], k["codec"])
    BY <1>1, FactNames
  <2>2. QED
    BY <2>1 DEF Better
<1>4. k.pool # h.pool => k.pool = "imported"
  <2>1. k["pool"] # h["pool"] => Better("pool", h["pool"], k["pool"])
    BY <1>1, FactNames
  <2>2. QED
    BY <2>1 DEF Better
<1>5. k.scrub # h.scrub => k.scrub \in {"running", "recent"}
  <2>1. k["scrub"] # h["scrub"] => Better("scrub", h["scrub"], k["scrub"])
    BY <1>1, FactNames
  <2>2. QED
    BY <2>1 DEF Better
<1>6. k.snapshots # h.snapshots => k.snapshots = "tool"
  <2>1. k["snapshots"] # h["snapshots"] => Better("snapshots", h["snapshots"], k["snapshots"])
    BY <1>1, FactNames
  <2>2. QED
    BY <2>1 DEF Better
<1>7. k.docker # h.docker => h.docker # "absent" /\ k.docker = "running"
  <2>1. k["docker"] # h["docker"] => Better("docker", h["docker"], k["docker"])
    BY <1>1, FactNames
  <2>2. QED
    BY <2>1 DEF Better
<1>8. k.tailscale # h.tailscale => h.tailscale # "absent" /\ k.tailscale = "running"
  <2>1. k["tailscale"] # h["tailscale"] => Better("tailscale", h["tailscale"], k["tailscale"])
    BY <1>1, FactNames
  <2>2. QED
    BY <2>1 DEF Better
<1>9. k.compose # h.compose => k.compose
  <2>1. k["compose"] # h["compose"] => Better("compose", h["compose"], k["compose"])
    BY <1>1, FactNames
  <2>2. QED
    BY <2>1 DEF Better
<1>10. k.qemu # h.qemu => k.qemu
  <2>1. k["qemu"] # h["qemu"] => Better("qemu", h["qemu"], k["qemu"])
    BY <1>1, FactNames
  <2>2. QED
    BY <2>1 DEF Better
<1>11. k.storage # h.storage => k.storage
  <2>1. k["storage"] # h["storage"] => Better("storage", h["storage"], k["storage"])
    BY <1>1, FactNames
  <2>2. QED
    BY <2>1 DEF Better
<1>12. k.incus # h.incus => k.incus = "running"
  <2>1. k["incus"] # h["incus"] => Better("incus", h["incus"], k["incus"])
    BY <1>1, FactNames
  <2>2. QED
    BY <2>1 DEF Better
<1>13. k.rocm # h.rocm => k.rocm # "absent"
  <2>1. k["rocm"] # h["rocm"] => Better("rocm", h["rocm"], k["rocm"])
    BY <1>1, FactNames
  <2>2. QED
    BY <2>1 DEF Better
<1>14. k.vulkan # h.vulkan => k.vulkan # "absent"
  <2>1. k["vulkan"] # h["vulkan"] => Better("vulkan", h["vulkan"], k["vulkan"])
    BY <1>1, FactNames
  <2>2. QED
    BY <2>1 DEF Better
<1>15. k.cli # h.cli => k.cli = "gpu"
  <2>1. k["cli"] # h["cli"] => Better("cli", h["cli"], k["cli"])
    BY <1>1, FactNames
  <2>2. QED
    BY <2>1 DEF Better
<1>16. k.tailnet # h.tailnet => k.tailnet # "out"
  <2>1. k["tailnet"] # h["tailnet"] => Better("tailnet", h["tailnet"], k["tailnet"])
    BY <1>1, FactNames
  <2>2. QED
    BY <2>1 DEF Better
<1>17. h.account \subseteq k.account
  <2>1. k["account"] # h["account"] => Better("account", h["account"], k["account"])
    BY <1>1, FactNames
  <2>2. QED
    BY <2>1 DEF Better
<1>18. QED
  BY <1>2, <1>3, <1>4, <1>5, <1>6, <1>7, <1>8, <1>9, <1>10, <1>11, <1>12, <1>13, <1>14,
     <1>15, <1>16, <1>17

\* The places of the checks in the report.
LEMMA RunAt ==
  ASSUME NEW h
  PROVE
    /\ run(h)[1] = check_ubuntu_version(h)
    /\ run(h)[2] = check_kernel_version(h)
    /\ run(h)[3] = check_memory(h)
    /\ run(h)[4] = check_cpu(h)
    /\ run(h)[5] = check_ssh_hardened(h)
    /\ run(h)[6] = check_audio_powersave(h)
    /\ run(h)[7] = check_zfs_pool_exists(h)
    /\ run(h)[8] = check_zfs_pool_health(h)
    /\ run(h)[9] = check_zfs_scrub(h)
    /\ run(h)[10] = check_zfs_snapshots(h)
    /\ run(h)[11] = check_docker_daemon(h)
    /\ run(h)[12] = check_docker_group(h)
    /\ run(h)[13] = check_docker_compose(h)
    /\ run(h)[14] = check_incus_installed(h)
    /\ run(h)[15] = check_incus_daemon(h)
    /\ run(h)[16] = check_incus_initialized(h)
    /\ run(h)[17] = check_incus_group(h)
    /\ run(h)[18] = check_kvm_enabled(h)
    /\ run(h)[19] = check_qemu(h)
    /\ run(h)[20] = check_iommu(h)
    /\ run(h)[21] = check_vfio(h)
    /\ run(h)[22] = check_amd_driver(h)
    /\ run(h)[23] = check_gpu_groups(h)
    /\ run(h)[24] = check_rocm(h)
    /\ run(h)[25] = check_vulkan(h)
    /\ run(h)[26] = check_llamacpp_installed(h)
    /\ run(h)[27] = check_llamacpp_gpu(h)
    /\ run(h)[28] = check_tailscale_daemon(h)
    /\ run(h)[29] = check_tailscale_connected(h)
    /\ run(h)[30] = check_tailscale_magicdns(h)
  BY DEF run

\* The fix that each check offers, if it offers one.
FixOf ==
  <<"none", "none", "none", "none", "advice on sshd_config", "audio_powersave",
    "zpool import", "zpool scrub", "zpool scrub", "apt zfs-auto-snapshot",
    "docker_start", "usermod docker", "apt docker-compose-plugin",
    "bootstrap incus", "enable incus.socket", "incus admin init", "usermod incus-admin",
    "none", "bootstrap kvm", "none", "none",
    "none", "usermod render,video", "apt rocm", "apt vulkan-tools",
    "bootstrap llamacpp", "bootstrap llamacpp-vulkan",
    "tailscaled_start", "tailscale up", "none">>

LEMMA FixAt ==
  /\ FixOf[1] = "none" /\ FixOf[2] = "none" /\ FixOf[3] = "none"
  /\ FixOf[4] = "none"
  /\ FixOf[5] = "advice on sshd_config"
  /\ FixOf[6] = "audio_powersave"
  /\ FixOf[7] = "zpool import"
  /\ FixOf[8] = "zpool scrub"
  /\ FixOf[9] = "zpool scrub"
  /\ FixOf[10] = "apt zfs-auto-snapshot"
  /\ FixOf[11] = "docker_start"
  /\ FixOf[12] = "usermod docker"
  /\ FixOf[13] = "apt docker-compose-plugin"
  /\ FixOf[14] = "bootstrap incus"
  /\ FixOf[15] = "enable incus.socket"
  /\ FixOf[16] = "incus admin init"
  /\ FixOf[17] = "usermod incus-admin"
  /\ FixOf[18] = "none"
  /\ FixOf[19] = "bootstrap kvm"
  /\ FixOf[20] = "none" /\ FixOf[21] = "none" /\ FixOf[22] = "none"
  /\ FixOf[23] = "usermod render,video"
  /\ FixOf[24] = "apt rocm"
  /\ FixOf[25] = "apt vulkan-tools"
  /\ FixOf[26] = "bootstrap llamacpp"
  /\ FixOf[27] = "bootstrap llamacpp-vulkan"
  /\ FixOf[28] = "tailscaled_start"
  /\ FixOf[29] = "tailscale up"
  /\ FixOf[30] = "none"
<1>1. /\ FixOf[1] = "none" /\ FixOf[2] = "none" /\ FixOf[3] = "none"
      /\ FixOf[4] = "none"
      /\ FixOf[5] = "advice on sshd_config"
      /\ FixOf[6] = "audio_powersave"
      /\ FixOf[7] = "zpool import"
      /\ FixOf[8] = "zpool scrub"
      /\ FixOf[9] = "zpool scrub"
      /\ FixOf[10] = "apt zfs-auto-snapshot"
  BY DEF FixOf
<1>2. /\ FixOf[11] = "docker_start"
      /\ FixOf[12] = "usermod docker"
      /\ FixOf[13] = "apt docker-compose-plugin"
      /\ FixOf[14] = "bootstrap incus"
      /\ FixOf[15] = "enable incus.socket"
      /\ FixOf[16] = "incus admin init"
      /\ FixOf[17] = "usermod incus-admin"
      /\ FixOf[18] = "none"
      /\ FixOf[19] = "bootstrap kvm"
      /\ FixOf[20] = "none"
  BY DEF FixOf
<1>3. /\ FixOf[21] = "none" /\ FixOf[22] = "none"
      /\ FixOf[23] = "usermod render,video"
      /\ FixOf[24] = "apt rocm"
      /\ FixOf[25] = "apt vulkan-tools"
      /\ FixOf[26] = "bootstrap llamacpp"
      /\ FixOf[27] = "bootstrap llamacpp-vulkan"
      /\ FixOf[28] = "tailscaled_start"
      /\ FixOf[29] = "tailscale up"
      /\ FixOf[30] = "none"
  BY DEF FixOf
<1>4. QED
  BY <1>1, <1>2, <1>3

LEMMA EveryCheck ==
  ASSUME NEW h, NEW c \in 1..30
  PROVE  run(h)[c].status \in Status /\ run(h)[c].fix \in {"none", FixOf[c]}
<1> DEFINE Fits(r, i) == r.status \in Status /\ r.fix \in {"none", FixOf[i]}
<1> USE DEF Status, OkOr, Plain, Finding, _group_membership
<1>1. Fits(check_ubuntu_version(h), 1) /\ Fits(check_kernel_version(h), 2)
      /\ Fits(check_memory(h), 3) /\ Fits(check_cpu(h), 4)
  BY DEF check_ubuntu_version, check_kernel_version, check_memory, check_cpu
<1>2. Fits(check_ssh_hardened(h), 5) /\ Fits(check_audio_powersave(h), 6)
  BY DEF FixOf, check_ssh_hardened, check_audio_powersave
<1>3. Fits(check_zfs_pool_exists(h), 7) /\ Fits(check_zfs_snapshots(h), 10)
  BY DEF FixOf, check_zfs_pool_exists, check_zfs_snapshots
<1>4. Fits(check_zfs_pool_health(h), 8)
  BY DEF FixOf, check_zfs_pool_health
<1>5. Fits(check_zfs_scrub(h), 9)
  BY DEF FixOf, check_zfs_scrub
<1>6. Fits(check_docker_daemon(h), 11) /\ Fits(check_docker_group(h), 12)
  BY DEF FixOf, check_docker_daemon, check_docker_group
<1>7. Fits(check_docker_compose(h), 13)
  BY DEF FixOf, check_docker_compose
<1>8. Fits(check_incus_installed(h), 14) /\ Fits(check_incus_daemon(h), 15)
  BY DEF FixOf, check_incus_installed, check_incus_daemon
<1>9. Fits(check_incus_initialized(h), 16)
  BY DEF FixOf, check_incus_initialized
<1>10. Fits(check_incus_group(h), 17)
  BY DEF FixOf, check_incus_group
<1>11. Fits(check_kvm_enabled(h), 18) /\ Fits(check_qemu(h), 19)
       /\ Fits(check_iommu(h), 20) /\ Fits(check_vfio(h), 21) /\ Fits(check_amd_driver(h), 22)
  BY DEF FixOf, check_kvm_enabled, check_qemu, check_iommu, check_vfio, check_amd_driver
<1>12. Fits(check_gpu_groups(h), 23)
  BY DEF FixOf, check_gpu_groups
<1>13. Fits(check_rocm(h), 24) /\ Fits(check_vulkan(h), 25)
  BY DEF FixOf, check_rocm, check_vulkan
<1>14. Fits(check_llamacpp_installed(h), 26) /\ Fits(check_llamacpp_gpu(h), 27)
  BY DEF FixOf, check_llamacpp_installed, check_llamacpp_gpu
<1>15. Fits(check_tailscale_daemon(h), 28) /\ Fits(check_tailscale_connected(h), 29)
  BY DEF FixOf, check_tailscale_daemon, check_tailscale_connected
<1>16. Fits(check_tailscale_magicdns(h), 30)
  BY DEF FixOf, check_tailscale_magicdns
<1> HIDE DEF Fits
<1>17. \A i \in 1..30 : Fits(run(h)[i], i)
  BY <1>1, <1>2, <1>3, <1>4, <1>5, <1>6, <1>7, <1>8, <1>9, <1>10, <1>11, <1>12, <1>13,
     <1>14, <1>15, <1>16, RunAt
<1>18. QED
  BY <1>17 DEF Fits

LEMMA Places ==
  /\ \A s \in SUBSET Category : get_checks(s) \subseteq 1..30
  /\ \A s \in SUBSET Category : PoolHealth \in get_checks(s) => 7 \in get_checks(s)
  /\ get_checks(_EXPECTED["desktop"]) \cap {7, 8, 9, 10, 19} = {}
  /\ _EXPECTED["desktop"] \subseteq Category
  /\ get_checks({}) = {}
<1>1. Category = {"system", "zfs", "docker", "incus", "kvm", "gpu", "inference", "tailscale"}
  BY DEF Category, Checks
<1>2. /\ Checks["system"] = 1..6 /\ Checks["zfs"] = 7..10
      /\ Checks["docker"] = 11..13 /\ Checks["incus"] = 14..17
      /\ Checks["kvm"] = 18..21 /\ Checks["gpu"] = 22..25
      /\ Checks["inference"] = 26..27 /\ Checks["tailscale"] = 28..30
  BY DEF Checks
<1>3. \A k \in Category : Checks[k] \subseteq 1..30
  BY <1>1, <1>2
<1>4. \A k \in Category : 8 \in Checks[k] => k = "zfs"
  BY <1>1, <1>2
<1>5. _EXPECTED["desktop"] = {"system", "docker", "incus", "gpu", "inference", "tailscale"}
  BY DEF _EXPECTED
<1>6. \A k \in _EXPECTED["desktop"] : Checks[k] \cap {7, 8, 9, 10, 19} = {}
  BY <1>2, <1>5
<1>7. QED
  BY <1>1, <1>2, <1>3, <1>4, <1>5, <1>6 DEF get_checks, PoolHealth

\* The types of the facts that the arguments below turn on.
LEMMA Typed ==
  ASSUME NEW h, HostOK(h)
  PROVE  /\ h["compose"] \in BOOLEAN /\ h["errors"] \in BOOLEAN
         /\ h["storage"] \in BOOLEAN /\ h["qemu"] \in BOOLEAN
         /\ h["incus"] \in {"running", "stopped", "absent"}
         /\ h["docker"] \in {"running", "stopped", "absent"}
         /\ h["tailscale"] \in {"running", "stopped", "absent"}
<1>1. {"compose", "errors", "storage", "qemu", "incus", "docker", "tailscale"} \subseteq Facts
  BY FactNames
<1>2. \A f \in Facts : h[f] \in Values[f]
  BY DEF HostOK
<1>3. QED
  BY <1>1, <1>2, ValueSets

\* Fixes break nothing: a check that fails afterwards failed before, or is that
\* of the health of a pool which the check before it did not find imported.
LEMMA NothingBreaks ==
  ASSUME NEW h, HostOK(h), NEW k, Improves(h, k), NEW c \in 1..30,
         run(k)[c].status = "FAIL"
  PROVE  \/ run(h)[c].status = "FAIL"
         \/ c = PoolHealth /\ run(h)[7].status = "FAIL"
<1> DEFINE Before(new, old) == new.status = "FAIL" => old.status = "FAIL"
<1>0. /\ h["compose"] \in BOOLEAN /\ k["compose"] \in BOOLEAN
      /\ h["incus"] \in {"running", "stopped", "absent"}
      /\ h["errors"] \in BOOLEAN
  BY Typed DEF Improves
<1> USE Gained DEF OkOr, Plain, Finding, _group_membership
<1>1. /\ check_ubuntu_version(k) = check_ubuntu_version(h)
      /\ check_kernel_version(k) = check_kernel_version(h)
      /\ check_memory(k) = check_memory(h)
      /\ check_cpu(k) = check_cpu(h)
  <2>1. k.release = h.release /\ k.kernel = h.kernel /\ k.memory = h.memory /\ k.cpu = h.cpu
    OBVIOUS
  <2>2. check_ubuntu_version(k) = check_ubuntu_version(h)
    BY <2>1 DEF check_ubuntu_version
  <2>3. check_kernel_version(k) = check_kernel_version(h)
    BY <2>1 DEF check_kernel_version
  <2>4. check_memory(k) = check_memory(h) /\ check_cpu(k) = check_cpu(h)
    BY <2>1 DEF check_memory, check_cpu
  <2>5. QED
    BY <2>2, <2>3, <2>4
<1>2. Before(check_ssh_hardened(k), check_ssh_hardened(h))
  BY DEF check_ssh_hardened
<1>3. check_audio_powersave(k).status # "FAIL"
  BY DEF check_audio_powersave
<1>4. Before(check_zfs_pool_exists(k), check_zfs_pool_exists(h))
  BY DEF check_zfs_pool_exists
<1>5. Before(check_zfs_pool_health(k), check_zfs_pool_health(h))
        \/ check_zfs_pool_exists(h).status = "FAIL"
  BY <1>0 DEF check_zfs_pool_health, check_zfs_pool_exists, Words
<1>6. check_zfs_scrub(k).status # "FAIL" /\ check_zfs_snapshots(k).status # "FAIL"
  BY DEF check_zfs_scrub, check_zfs_snapshots
<1>7. Before(check_docker_daemon(k), check_docker_daemon(h))
  BY DEF check_docker_daemon
<1>8. check_docker_group(k).status # "FAIL"
  BY DEF check_docker_group
<1>9. Before(check_docker_compose(k), check_docker_compose(h))
  BY <1>0 DEF check_docker_compose
<1>10. /\ Before(check_incus_installed(k), check_incus_installed(h))
       /\ Before(check_incus_daemon(k), check_incus_daemon(h))
  BY <1>0 DEF check_incus_installed, check_incus_daemon
<1>11. check_incus_initialized(k).status # "FAIL" /\ check_incus_group(k).status # "FAIL"
  BY DEF check_incus_initialized, check_incus_group
<1>12. /\ check_kvm_enabled(k) = check_kvm_enabled(h)
       /\ check_iommu(k) = check_iommu(h)
       /\ check_vfio(k) = check_vfio(h)
       /\ check_amd_driver(k) = check_amd_driver(h)
  BY DEF check_kvm_enabled, check_iommu, check_vfio, check_amd_driver
<1>13. check_qemu(k).status # "FAIL" /\ check_gpu_groups(k).status # "FAIL"
  BY DEF check_qemu, check_gpu_groups
<1>14. Before(check_rocm(k), check_rocm(h)) /\ check_vulkan(k).status # "FAIL"
  BY DEF check_rocm, check_vulkan
<1>15. Before(check_llamacpp_installed(k), check_llamacpp_installed(h))
  BY DEF check_llamacpp_installed
<1>16. check_llamacpp_gpu(k).status # "FAIL"
  BY DEF check_llamacpp_gpu
<1>17. /\ Before(check_tailscale_daemon(k), check_tailscale_daemon(h))
       /\ Before(check_tailscale_connected(k), check_tailscale_connected(h))
       /\ check_tailscale_magicdns(k).status # "FAIL"
  BY DEF check_tailscale_daemon, check_tailscale_connected, check_tailscale_magicdns
<1>18. \A i \in 1..30 : i # 8 => Before(run(k)[i], run(h)[i])
  BY <1>1, <1>2, <1>3, <1>4, <1>6, <1>7, <1>8, <1>9, <1>10, <1>11, <1>12, <1>13,
     <1>14, <1>15, <1>16, <1>17, RunAt
<1>19. Before(run(k)[8], run(h)[8]) \/ run(h)[7].status = "FAIL"
  BY <1>5, RunAt
<1>20. QED
  BY <1>18, <1>19 DEF PoolHealth

-----------------------------------------------------------------------------
(* What an applied fix has cured                                           *)

\* What fix f leaves behind when it gets through.
Cured(f, h) ==
  /\ f \notin {"advice on sshd_config", "bootstrap llamacpp"}
  /\ f = "audio_powersave" => h.codec = "persistent"
  /\ f = "zpool import" => h.pool = "imported"
  /\ f = "zpool scrub" => h.scrub \in {"running", "recent"}
  /\ f = "apt zfs-auto-snapshot" => h.snapshots = "tool"
  /\ f = "docker_start" => h.docker = "running"
  /\ f = "usermod docker" => {"docker"} \subseteq h.account
  /\ f = "apt docker-compose-plugin" => h.compose /\ h.docker # "absent"
  /\ f = "enable incus.socket" => h.incus = "running"
  /\ f = "incus admin init" => h.storage
  /\ f = "usermod incus-admin" => {"incus-admin"} \subseteq h.account
  /\ f = "usermod render,video" => {"render", "video"} \subseteq h.account
  /\ f = "apt rocm" => h.rocm # "absent"
  /\ f = "apt vulkan-tools" => h.vulkan # "absent"
  /\ f = "tailscaled_start" => h.tailscale = "running"
  /\ f = "tailscale up" => h.tailnet # "out"

\* Nothing undoes it.
LEMMA CureLasts ==
  ASSUME NEW h, HostOK(h), NEW k, Improves(h, k), NEW f, Cured(f, h)
  PROVE  Cured(f, k)
<1>0. h["compose"] \in BOOLEAN /\ k["compose"] \in BOOLEAN
      /\ h["storage"] \in BOOLEAN /\ k["storage"] \in BOOLEAN
  BY Typed DEF Improves
<1>1. /\ k.codec # h.codec => k.codec = "persistent"
      /\ k.pool # h.pool => k.pool = "imported"
      /\ k.scrub # h.scrub => k.scrub \in {"running", "recent"}
      /\ k.snapshots # h.snapshots => k.snapshots = "tool"
      /\ k.docker # h.docker => k.docker = "running"
      /\ k.incus # h.incus => k.incus = "running"
      /\ k.rocm # h.rocm => k.rocm # "absent"
      /\ k.vulkan # h.vulkan => k.vulkan # "absent"
      /\ k.tailscale # h.tailscale => k.tailscale = "running"
      /\ k.tailnet # h.tailnet => k.tailnet # "out"
  BY Gained
<1>2. h.account \subseteq k.account
  BY Gained
<1>3. (h.compose => k.compose) /\ (h.storage => k.storage)
  BY <1>0, Gained
<1>4. /\ f \notin {"advice on sshd_config", "bootstrap llamacpp"}
      /\ f = "audio_powersave" => k.codec = "persistent"
      /\ f = "zpool import" => k.pool = "imported"
      /\ f = "zpool scrub" => k.scrub \in {"running", "recent"}
      /\ f = "apt zfs-auto-snapshot" => k.snapshots = "tool"
  BY <1>1 DEF Cured
<1>5. /\ f = "docker_start" => k.docker = "running"
      /\ f = "enable incus.socket" => k.incus = "running"
      /\ f = "apt rocm" => k.rocm # "absent"
  BY <1>1 DEF Cured
<1>6. /\ f = "apt vulkan-tools" => k.vulkan # "absent"
      /\ f = "tailscaled_start" => k.tailscale = "running"
      /\ f = "tailscale up" => k.tailnet # "out"
  BY <1>1 DEF Cured
<1>7. /\ f = "usermod docker" => {"docker"} \subseteq k.account
      /\ f = "usermod incus-admin" => {"incus-admin"} \subseteq k.account
      /\ f = "usermod render,video" => {"render", "video"} \subseteq k.account
  BY <1>2 DEF Cured
<1>8. /\ f = "apt docker-compose-plugin" => k.compose /\ k.docker # "absent"
      /\ f = "incus admin init" => k.storage
  BY <1>1, <1>3 DEF Cured
<1>9. QED
  BY <1>4, <1>5, <1>6, <1>7, <1>8 DEF Cured

\* A command other than bootstrap that gets through has cured what it is for.
LEMMA DoneCures ==
  ASSUME NEW h, HostOK(h), NEW f, f \notin Bootstraps, f # "none", NEW k \in Done(f, h)
  PROVE  Cured(f, k)
<1>0. DOMAIN h = Facts
  BY DEF HostOK
<1>1. CASE f = "audio_powersave"
  <2>1. k = [h EXCEPT !["codec"] = "persistent"]
    BY <1>1 DEF Done
  <2>2. QED
    BY <1>0, <1>1, <2>1, FactNames DEF Cured
<1>2. CASE f = "zpool import"
  <2>1. k = [h EXCEPT !["pool"] = "imported"]
    BY <1>2 DEF Done
  <2>2. QED
    BY <1>0, <1>2, <2>1, FactNames DEF Cured
<1>3. CASE f = "zpool scrub"
  <2>1. k = [h EXCEPT !["scrub"] = "running"]
    BY <1>3 DEF Done
  <2>2. QED
    BY <1>0, <1>3, <2>1, FactNames DEF Cured
<1>4. CASE f = "apt zfs-auto-snapshot"
  <2>1. k = [h EXCEPT !["snapshots"] = "tool"]
    BY <1>4 DEF Done
  <2>2. QED
    BY <1>0, <1>4, <2>1, FactNames DEF Cured
<1>5. CASE f = "docker_start"
  <2>1. k = [h EXCEPT !["docker"] = "running"]
    BY <1>5 DEF Done
  <2>2. QED
    BY <1>0, <1>5, <2>1, FactNames DEF Cured
<1>6. CASE f = "apt docker-compose-plugin"
  <2>1. k = [h EXCEPT !["compose"] = TRUE] /\ h["docker"] # "absent"
    BY <1>6 DEF Done
  <2>2. QED
    BY <1>0, <1>6, <2>1, FactNames DEF Cured
<1>7. CASE f = "enable incus.socket"
  <2>1. k = [h EXCEPT !["incus"] = "running"]
    BY <1>7 DEF Done
  <2>2. QED
    BY <1>0, <1>7, <2>1, FactNames DEF Cured
<1>8. CASE f = "incus admin init"
  <2>1. k = [h EXCEPT !["storage"] = TRUE]
    BY <1>8 DEF Done
  <2>2. QED
    BY <1>0, <1>8, <2>1, FactNames DEF Cured
<1>9. CASE f = "tailscaled_start"
  <2>1. k = [h EXCEPT !["tailscale"] = "running"]
    BY <1>9 DEF Done
  <2>2. QED
    BY <1>0, <1>9, <2>1, FactNames DEF Cured
<1>10. CASE f = "apt rocm"
  <2>1. PICK v \in {"working", "broken"} : k = [h EXCEPT !["rocm"] = v]
    BY <1>10 DEF Done
  <2>2. QED
    BY <1>0, <1>10, <2>1, FactNames DEF Cured
<1>11. CASE f = "apt vulkan-tools"
  <2>1. PICK v \in {"working", "broken"} : k = [h EXCEPT !["vulkan"] = v]
    BY <1>11 DEF Done
  <2>2. QED
    BY <1>0, <1>11, <2>1, FactNames DEF Cured
<1>12. CASE f = "tailscale up"
  <2>1. PICK v \in {"joined", "named"} : k = [h EXCEPT !["tailnet"] = v]
    BY <1>12 DEF Done
  <2>2. QED
    BY <1>0, <1>12, <2>1, FactNames DEF Cured
<1>13. CASE f = "usermod docker"
  <2>1. k = [h EXCEPT !["account"] = h["account"] \cup {"docker"}]
    BY <1>13 DEF Done, Joins
  <2>2. QED
    BY <1>0, <1>13, <2>1, FactNames DEF Cured
<1>14. CASE f = "usermod incus-admin"
  <2>1. k = [h EXCEPT !["account"] = h["account"] \cup {"incus-admin"}]
    BY <1>14 DEF Done, Joins
  <2>2. QED
    BY <1>0, <1>14, <2>1, FactNames DEF Cured
<1>15. CASE f = "usermod render,video"
  <2>1. k = [h EXCEPT !["account"] = h["account"] \cup {"render", "video"}]
    BY <1>15 DEF Done, Joins
  <2>2. QED
    BY <1>0, <1>15, <2>1, FactNames DEF Cured
<1>16. f \in {"audio_powersave", "zpool import", "zpool scrub", "apt zfs-auto-snapshot",
              "docker_start", "apt docker-compose-plugin", "enable incus.socket",
              "incus admin init", "tailscaled_start", "apt rocm", "apt vulkan-tools",
              "tailscale up", "usermod docker", "usermod incus-admin",
              "usermod render,video"}
  BY DEF Done, Bootstraps
<1>17. QED
  BY <1>1, <1>2, <1>3, <1>4, <1>5, <1>6, <1>7, <1>8, <1>9, <1>10, <1>11, <1>12, <1>13,
     <1>14, <1>15, <1>16

\* What is cured is not found any more, but for the health of a pool whose
\* errors a scrub does not repair.
LEMMA CuredClears ==
  ASSUME NEW h, HostOK(h), NEW c \in 1..30, c # PoolHealth, FixOf[c] # "none",
         FixOf[c] \notin Bootstraps, Cured(FixOf[c], h)
  PROVE  run(h)[c].fix # FixOf[c]
<1> DEFINE Clear(r, i) == Cured(FixOf[i], h) => r.fix # FixOf[i]
<1>0. h["compose"] \in BOOLEAN /\ h["storage"] \in BOOLEAN
  BY Typed
<1> USE <1>0, FixAt DEF Cured, OkOr, Plain, Finding, _group_membership
<1>1. Clear(check_ssh_hardened(h), 5)
  OBVIOUS
<1>2. Clear(check_llamacpp_installed(h), 26)
  OBVIOUS
<1>3. Clear(check_audio_powersave(h), 6)
  BY DEF check_audio_powersave
<1>4. Clear(check_zfs_pool_exists(h), 7)
  BY DEF check_zfs_pool_exists
<1>5. Clear(check_zfs_scrub(h), 9)
  BY DEF check_zfs_scrub
<1>6. Clear(check_zfs_snapshots(h), 10)
  BY DEF check_zfs_snapshots
<1>7. /\ Clear(check_docker_daemon(h), 11)
      /\ Clear(check_docker_group(h), 12)
      /\ Clear(check_docker_compose(h), 13)
  BY DEF check_docker_daemon, check_docker_group, check_docker_compose
<1>8. Clear(check_incus_daemon(h), 15)
  BY DEF check_incus_daemon
<1>9. Clear(check_incus_initialized(h), 16)
  BY DEF check_incus_initialized
<1>10. Clear(check_incus_group(h), 17)
  BY DEF check_incus_group
<1>11. Clear(check_gpu_groups(h), 23)
  BY DEF check_gpu_groups
<1>12. Clear(check_rocm(h), 24) /\ Clear(check_vulkan(h), 25)
  BY DEF check_rocm, check_vulkan
<1>13. /\ Clear(check_tailscale_daemon(h), 28)
       /\ Clear(check_tailscale_connected(h), 29)
  BY DEF check_tailscale_daemon, check_tailscale_connected
<1> HIDE <1>0, FixAt DEF Cured, Clear, OkOr, Plain, Finding, _group_membership
<1>14. c \in {5, 6, 7, 9, 10, 11, 12, 13, 15, 16, 17, 23, 24, 25, 26, 28, 29}
  <2>1. c \notin {14, 19, 27}
    BY FixAt DEF Bootstraps
  <2>2. c \notin {1, 2, 3, 4, 18, 20, 21, 22, 30}
    BY FixAt
  <2>3. QED
    BY <2>1, <2>2 DEF PoolHealth
<1>15. Clear(run(h)[c], c)
  BY <1>1, <1>2, <1>3, <1>4, <1>5, <1>6, <1>7, <1>8, <1>9, <1>10, <1>11, <1>12, <1>13,
     <1>14, RunAt
<1>16. QED
  BY <1>15 DEF Clear

-----------------------------------------------------------------------------
(* What a fix leaves to the fixes after it                                 *)

\* Fixes that may be offered on a finding which another has dealt with.
Repeatable == Bootstraps \cup {"zpool scrub"}

\* Check d may be the one that offers fix f.
Place(f, d) ==
  /\ f = "audio_powersave" => d = 6
  /\ f = "zpool import" => d = 7
  /\ f = "zpool scrub" => d \in {8, 9}
  /\ f = "bootstrap kvm" => d = 19
  /\ f = "apt zfs-auto-snapshot" => d = 10
  /\ f = "docker_start" => d = 11
  /\ f = "usermod docker" => d = 12
  /\ f = "apt docker-compose-plugin" => d = 13
  /\ f = "bootstrap incus" => d = 14
  /\ f = "enable incus.socket" => d = 15
  /\ f = "incus admin init" => d = 16
  /\ f = "usermod incus-admin" => d = 17
  /\ f = "usermod render,video" => d = 23
  /\ f = "apt rocm" => d = 24
  /\ f = "apt vulkan-tools" => d = 25
  /\ f = "tailscaled_start" => d = 28
  /\ f = "tailscale up" => d = 29

LEMMA FixPlace ==
  ASSUME NEW d \in 1..30
  PROVE  Place(FixOf[d], d)
<1>0. d \in {1, 2, 3, 4, 5, 6, 7, 8, 9, 10, 11, 12, 13, 14, 15,
            16, 17, 18, 19, 20, 21, 22, 23, 24, 25, 26, 27, 28, 29, 30}
  OBVIOUS
<1>1. CASE d \in {1, 2, 3, 4, 5, 6, 7, 8, 9, 10}
  BY <1>1, FixAt DEF Place
<1>2. CASE d \in {11, 12, 13, 14, 15, 16, 17}
  BY <1>2, FixAt DEF Place
<1>3. CASE d \in {18, 19, 20, 21, 22, 23, 24}
  BY <1>3, FixAt DEF Place
<1>4. CASE d \in {25, 26, 27, 28, 29, 30}
  BY <1>4, FixAt DEF Place
<1>5. QED
  BY <1>0, <1>1, <1>2, <1>3, <1>4

\* Fix f of check d runs on host h and check c is still to be offered; h0 is the
\* host the checks have seen.
Pending(h0, h, c, d, f) ==
  /\ HostOK(h0) /\ HostOK(h) /\ c \in 1..30 /\ d \in 1..30 /\ c # d
  /\ f = run(h0)[d].fix /\ f # "none"
  /\ run(h0)[c].fix # "none" /\ run(h0)[c].fix \notin Repeatable
  /\ run(h)[c] = run(h0)[c]
  /\ f \notin Repeatable => run(h)[d] = run(h0)[d]

\* A fix leaves every other finding as it is on which a fix is offered that must
\* not be repeated.
LEMMA Independent ==
  ASSUME NEW h0, NEW h, NEW c, NEW d, NEW f, Pending(h0, h, c, d, f), NEW k \in Done(f, h)
  PROVE  run(k)[c] = run(h)[c]
<1> SUFFICES ASSUME HostOK(h0), HostOK(h), c \in 1..30, d \in 1..30, c # d,
                    f = run(h0)[d].fix, f # "none",
                    run(h0)[c].fix # "none", run(h0)[c].fix \notin Repeatable,
                    run(h)[c] = run(h0)[c],
                    f \notin Repeatable => run(h)[d] = run(h0)[d]
             PROVE  run(k)[c] = run(h)[c]
  BY DEF Pending
<1>1. f = FixOf[d]
  BY EveryCheck
<1>2. run(h)[c].fix = FixOf[c] /\ FixOf[c] # "none" /\ FixOf[c] \notin Repeatable
  BY EveryCheck
<1>3. c \in {5, 6, 7, 10, 11, 12, 13, 15, 16, 17, 23, 24, 25, 26, 28, 29}
  <2>1. c \notin {8, 9, 14, 19, 27}
    BY <1>2, FixAt DEF Repeatable, Bootstraps
  <2>2. c \notin {1, 2, 3, 4, 18, 20, 21, 22, 30}
    BY <1>2, FixAt
  <2>3. QED
    BY <2>1, <2>2
<1>4. Improves(h, k)
  BY DoneImproves
<1>5. \A x \in Facts : k[x] # h[x] => Changes(f, x)
  BY Footprint
<1>6. /\ k["codec"] # h["codec"] => f = "audio_powersave"
      /\ k["pool"] # h["pool"] => f = "zpool import"
      /\ k["snapshots"] # h["snapshots"] => f = "apt zfs-auto-snapshot"
      /\ k["docker"] # h["docker"] => f = "docker_start"
      /\ k["compose"] # h["compose"] => f = "apt docker-compose-plugin"
      /\ k["incus"] # h["incus"] => f \in {"bootstrap incus", "enable incus.socket"}
      /\ k["storage"] # h["storage"] => f = "incus admin init"
      /\ k["session"] = h["session"]
      /\ k["rocm"] # h["rocm"] => f = "apt rocm"
      /\ k["vulkan"] # h["vulkan"] => f = "apt vulkan-tools"
      /\ k["tailscale"] # h["tailscale"] => f = "tailscaled_start"
      /\ k["tailnet"] # h["tailnet"] => f = "tailscale up"
  BY <1>5, FactNames DEF Changes
<1>7. Place(f, d)
  BY <1>1, FixPlace
<1>8. /\ k["codec"] # h["codec"] => d = 6
      /\ k["pool"] # h["pool"] => d = 7
      /\ k["snapshots"] # h["snapshots"] => d = 10
      /\ k["docker"] # h["docker"] => d = 11
      /\ k["compose"] # h["compose"] => d = 13
  BY <1>6, <1>7 DEF Place
<1>9. /\ k["incus"] # h["incus"] => d \in {14, 15}
      /\ k["storage"] # h["storage"] => d = 16
  BY <1>6, <1>7 DEF Place
<1>10. /\ k["rocm"] # h["rocm"] => d = 24
       /\ k["vulkan"] # h["vulkan"] => d = 25
       /\ k["tailscale"] # h["tailscale"] => d = 28
       /\ k["tailnet"] # h["tailnet"] => d = 29
  BY <1>6, <1>7 DEF Place
<1>11. /\ d # 12 => ("docker" \in k["account"] => "docker" \in h["account"])
       /\ d \notin {14, 17} => ("incus-admin" \in k["account"] => "incus-admin" \in h["account"])
       /\ d # 23 => (\A g \in {"render", "video"} : g \in k["account"] => g \in h["account"])
  <2>1. ASSUME NEW g \in k["account"] \ h["account"]
        PROVE  Grants(f, g)
    BY Joined
  <2>2. /\ d # 12 => f # "usermod docker"
        /\ d # 14 => f # "bootstrap incus"
        /\ d # 17 => f # "usermod incus-admin"
        /\ d # 23 => f # "usermod render,video"
    BY <1>7 DEF Place
  <2>3. d # 12 => "docker" \notin k["account"] \ h["account"]
    BY <2>1, <2>2 DEF Grants
  <2>4. d \notin {14, 17} => "incus-admin" \notin k["account"] \ h["account"]
    BY <2>1, <2>2 DEF Grants
  <2>5. \A g \in {"render", "video"} : d # 23 => g \notin k["account"] \ h["account"]
    BY <2>1, <2>2 DEF Grants
  <2>6. QED
    BY <2>3, <2>4, <2>5
<1>12. h["account"] \subseteq k["account"]
  BY <1>4, Gained
\* Incus is installed for checks that have found it.
<1>13. d = 14 => c \notin {15, 16, 17}
  <2> SUFFICES ASSUME d = 14, c \in {15, 16, 17} PROVE FALSE
    OBVIOUS
  <2>1. check_incus_installed(h0).fix # "none"
    BY RunAt
  <2>2. h0["incus"] = "absent"
    BY <2>1 DEF check_incus_installed, OkOr, Plain
  <2>3. /\ check_incus_daemon(h0).fix = "none" /\ check_incus_initialized(h0).fix = "none"
        /\ check_incus_group(h0).fix = "none"
    BY <2>2 DEF check_incus_daemon, check_incus_initialized, check_incus_group, Plain
  <2>4. QED
    BY <2>3, RunAt
\* Nothing is asked of a daemon that does not run.
<1>14. d = 15 => c # 16
  <2> SUFFICES ASSUME d = 15, c = 16 PROVE FALSE
    OBVIOUS
  <2>1. f = "enable incus.socket"
    BY <1>1, FixAt
  <2>2. check_incus_daemon(h).fix # "none"
    BY <2>1, RunAt DEF Repeatable, Bootstraps
  <2>3. h["incus"] = "stopped"
    BY <2>2, Typed DEF check_incus_daemon, OkOr, Plain
  <2>4. check_incus_initialized(h).fix = "none"
    BY <2>3 DEF check_incus_initialized, Plain
  <2>5. QED
    BY <1>2, <2>4, RunAt
<1>15. d = 28 => c # 29
  <2> SUFFICES ASSUME d = 28, c = 29 PROVE FALSE
    OBVIOUS
  <2>1. f = "tailscaled_start"
    BY <1>1, FixAt
  <2>2. check_tailscale_daemon(h).fix # "none"
    BY <2>1, RunAt DEF Repeatable, Bootstraps
  <2>3. h["tailscale"] # "running"
    BY <2>2 DEF check_tailscale_daemon, OkOr, Plain
  <2>4. check_tailscale_connected(h).fix = "none"
    BY <2>3 DEF check_tailscale_connected, Plain
  <2>5. QED
    BY <1>2, <2>4, RunAt
<1> USE DEF OkOr, Plain, Finding
<1>16. check_ssh_hardened(k) = check_ssh_hardened(h)
  <2>1. k["sshd"] = h["sshd"]
    BY <1>4, Gained
  <2>2. QED
    BY <2>1 DEF check_ssh_hardened
<1>17. d # 6 => check_audio_powersave(k) = check_audio_powersave(h)
  BY <1>8 DEF check_audio_powersave
<1>18. d # 7 => check_zfs_pool_exists(k) = check_zfs_pool_exists(h)
  BY <1>8 DEF check_zfs_pool_exists
<1>19. d # 10 => check_zfs_snapshots(k) = check_zfs_snapshots(h)
  BY <1>8 DEF check_zfs_snapshots
<1>20. d # 11 => check_docker_daemon(k) = check_docker_daemon(h)
  BY <1>8 DEF check_docker_daemon
<1>21. d # 12 => check_docker_group(k) = check_docker_group(h)
  BY <1>6, <1>11, <1>12 DEF check_docker_group, _group_membership
<1>22. d # 13 => check_docker_compose(k) = check_docker_compose(h)
  <2>1. k["docker"] # "absent" <=> h["docker"] # "absent"
    BY <1>4, Gained
  <2>2. QED
    BY <1>8, <2>1 DEF check_docker_compose
<1>23. d \notin {14, 15} => check_incus_daemon(k) = check_incus_daemon(h)
  BY <1>9 DEF check_incus_daemon
<1>24. d \notin {14, 15, 16} => check_incus_initialized(k) = check_incus_initialized(h)
  BY <1>9, <1>6 DEF check_incus_initialized
<1>25. d \notin {14, 17} => check_incus_group(k) = check_incus_group(h)
  <2> SUFFICES ASSUME d \notin {14, 17} PROVE check_incus_group(k) = check_incus_group(h)
    OBVIOUS
  <2>1. k["incus"] = "absent" <=> h["incus"] = "absent"
    <3>1. CASE k["incus"] = h["incus"]
      BY <3>1
    <3>2. CASE k["incus"] # h["incus"]
      <4>1. d = 15
        BY <1>9, <3>2
      <4>2. f = "enable incus.socket"
        BY <1>1, <4>1, FixAt
      <4>3. check_incus_daemon(h).fix # "none"
        BY <4>1, <4>2, RunAt DEF Repeatable, Bootstraps
      <4>4. h["incus"] # "absent"
        BY <4>3 DEF check_incus_daemon
      <4>5. k["incus"] # "absent"
        BY <1>4, <3>2, Gained
      <4>6. QED
        BY <4>4, <4>5
    <3>3. QED
      BY <3>1, <3>2
  <2>2. {"incus-admin"} \subseteq k["account"] <=> {"incus-admin"} \subseteq h["account"]
    BY <1>11, <1>12
  <2>3. QED
    BY <1>6, <2>1, <2>2 DEF check_incus_group, _group_membership
<1>26. d # 23 => check_gpu_groups(k) = check_gpu_groups(h)
  <2>1. d # 23 => ({"render", "video"} \subseteq k["account"]
                     <=> {"render", "video"} \subseteq h["account"])
    BY <1>11, <1>12
  <2>2. QED
    BY <1>6, <2>1 DEF check_gpu_groups, _group_membership
<1>27. d # 24 => check_rocm(k) = check_rocm(h)
  BY <1>10 DEF check_rocm
<1>28. d # 25 => check_vulkan(k) = check_vulkan(h)
  BY <1>10 DEF check_vulkan
<1>29. check_llamacpp_installed(k) = check_llamacpp_installed(h)
  <2>1. k["server"] = h["server"]
    BY <1>4, Gained
  <2>2. QED
    BY <2>1 DEF check_llamacpp_installed
<1>30. d # 28 => check_tailscale_daemon(k) = check_tailscale_daemon(h)
  BY <1>10 DEF check_tailscale_daemon
<1>31. d \notin {28, 29} => check_tailscale_connected(k) = check_tailscale_connected(h)
  BY <1>10 DEF check_tailscale_connected
<1> HIDE DEF OkOr, Plain, Finding
<1>32. CASE c \in {5, 6, 7, 10, 11, 12, 13}
  BY <1>32, <1>16, <1>17, <1>18, <1>19, <1>20, <1>21, <1>22, RunAt
<1>33. CASE c \in {15, 16, 17}
  BY <1>33, <1>13, <1>14, <1>23, <1>24, <1>25, RunAt
<1>34. CASE c \in {23, 24, 25, 26, 28, 29}
  BY <1>34, <1>15, <1>26, <1>27, <1>28, <1>29, <1>30, <1>31, RunAt
<1>35. QED
  BY <1>3, <1>32, <1>33, <1>34

-----------------------------------------------------------------------------
(* The steps of a run                                                      *)

\* What improves an improved host improves the first.
LEMMA Further ==
  ASSUME NEW h, NEW k, Improves(h, k), NEW l, Improves(k, l)
  PROVE  Improves(h, l)
<1> SUFFICES ASSUME NEW f \in Facts, l[f] # h[f]
             PROVE  Better(f, h[f], l[f])
  BY DEF Improves
<1>1. k[f] # h[f] => Better(f, h[f], k[f])
  BY DEF Improves
<1>2. l[f] # k[f] => Better(f, k[f], l[f])
  BY DEF Improves
<1>3. CASE l[f] = k[f]
  BY <1>1, <1>3
<1>4. CASE k[f] = h[f]
  BY <1>2, <1>4
<1>5. CASE l[f] # k[f] /\ k[f] # h[f]
  <2>1. Better(f, h[f], k[f]) /\ Better(f, k[f], l[f])
    BY <1>1, <1>2, <1>5
  <2>2. CASE f = "account"
    BY <2>1, <2>2 DEF Better
  <2>3. CASE f \in {"docker", "tailscale"}
    BY <2>1, <2>3 DEF Better
  <2>4. CASE f \notin {"account", "docker", "tailscale"}
    BY <2>1, <2>4 DEF Better
  <2>5. QED
    BY <2>2, <2>3, <2>4
<1>6. QED
  BY <1>3, <1>4, <1>5

LEMMA Ends ==
  ASSUME NEW f, NEW h, HostOK(h), NEW k \in Succeeds(f, h) \cup Fails(f, h)
  PROVE  k \in Done(f, h) \/ k = h
  BY DEF Succeeds, Fails

\* The host of a step is the one before it, or what the fix that runs has made
\* of it, or the one after a login or a scrub.
LEMMA HostSteps ==
  ASSUME TypeOK, [Next]_vars, host' # host
  PROVE  \/ \E c \in todo : /\ pc = "fix" /\ First(c) /\ host' \in Done(results[c].fix, host)
                            /\ Applies(c) \/ Killed
         \/ LogsIn
         \/ ScrubEnds
<1>1. ASSUME NEW c \in todo, Applies(c)
      PROVE  pc = "fix" /\ First(c) /\ host' \in Done(results[c].fix, host)
  BY <1>1, Ends DEF Applies, TypeOK, HostOK
<1>2. ASSUME Killed
      PROVE  \E c \in todo : pc = "fix" /\ First(c) /\ host' \in Done(results[c].fix, host)
  BY <1>2 DEF Killed
<1>3. ASSUME NEW c \in todo, AutoApply(c) \/ Accept(c) \/ Decline(c)
      PROVE  FALSE
  BY <1>3 DEF AutoApply, Accept, Decline
<1>4. ASSUME \/ \E scope \in Scopes, apply, assume_yes \in BOOLEAN, env \in Profile \cup {"none"} :
                  Begin(scope, apply, assume_yes, env)
             \/ Finish
             \/ \E p \in Profile : set_profile(p)
             \/ UNCHANGED vars
      PROVE  FALSE
  BY <1>4 DEF Begin, Finish, set_profile, vars
<1>5. QED
  BY <1>1, <1>2, <1>3, <1>4 DEF Next

\* Every step improves the host.
LEMMA HostImproves ==
  ASSUME TypeOK, [Next]_vars
  PROVE  Improves(host, host')
<1>0. HostOK(host)
  BY DEF TypeOK, HostOK
<1>1. CASE host' = host
  BY <1>0, <1>1, Unchanged
<1>2. ASSUME NEW c \in todo, host' \in Done(results[c].fix, host)
      PROVE  Improves(host, host')
  BY <1>0, <1>2, DoneImproves
<1>3. CASE LogsIn
  <2>1. host' = [host EXCEPT !["session"] = host["account"]]
    BY <1>3 DEF LogsIn
  <2>2. host["account"] \in Values["session"]
    BY <1>0, FactNames, ValueSets DEF HostOK
  <2>3. Better("session", host["session"], host["account"])
    BY DEF Better
  <2>4. QED
    BY <1>0, <2>1, <2>2, <2>3, Unchanged, Change, FactNames
<1>4. CASE ScrubEnds
  <2>1. host' = [host EXCEPT !["scrub"] = "recent"]
    BY <1>4 DEF ScrubEnds
  <2>2. "recent" \in Values["scrub"] /\ Better("scrub", host["scrub"], "recent")
    BY ValueSets DEF Better
  <2>3. QED
    BY <1>0, <2>1, <2>2, Unchanged, Change, FactNames
<1>5. QED
  BY <1>1, <1>2, <1>3, <1>4, HostSteps

\* What _apply_profile may make of a result.
LEMMA Softened ==
  ASSUME NEW c, NEW r, NEW p
  PROVE  /\ _apply_profile(c, r, p) \in {r, Plain("SKIP")}
         /\ _apply_profile(c, r, p).status \in Fixable =>
              _apply_profile(c, r, p) = r /\ c \in get_checks(_EXPECTED[p])
  BY DEF _apply_profile, Plain, Fixable

\* The report.
LEMMA Report ==
  ASSUME NEW scope \in Scopes, NEW apply, NEW assume_yes, NEW env, Begin(scope, apply, assume_yes, env)
  PROVE  /\ DOMAIN results' = get_checks(scope) /\ DOMAIN said' = get_checks(scope)
         /\ \A c \in get_checks(scope) : said'[c] = "nothing"
         /\ scope \in SUBSET Category /\ get_checks(scope) \subseteq 1..30
         /\ \A c \in get_checks(scope) : results'[c] = _apply_profile(c, run(host)[c], profile')
         /\ todo' \subseteq {c \in get_checks(scope) : Offers(c)'}
<1>1. results' = [c \in get_checks(scope) |-> _apply_profile(c, run(host)[c], profile')]
  BY DEF Begin, Findings
<1>2. said' = [c \in get_checks(scope) |-> "nothing"]
  BY DEF Begin
<1>3. scope \in SUBSET Category /\ get_checks(scope) \subseteq 1..30
  BY ScopesAssumption, Places
<1>4. todo' \subseteq {c \in get_checks(scope) : Offers(c)'}
  BY DEF Begin
<1>5. QED
  BY <1>1, <1>2, <1>3, <1>4

\* Types are kept, whatever hosts and categories there are.  That a fix is
\* running only when one is left to offer, and none is left between runs, is
\* what lets a fix that comes back be attributed to a finding.
THEOREM Typing == Spec => []TypeOK
<1>1. Init => TypeOK
  <2> SUFFICES ASSUME Init PROVE TypeOK
    OBVIOUS
  <2>1. DOMAIN host = Facts /\ \A f \in Facts : host[f] \in Values[f]
    BY HostsAssumption DEF Init
  <2>2. DOMAIN results = {} /\ DOMAIN said = {}
    BY DEF Init
  <2>3. QED
    BY <2>1, <2>2 DEF Init, TypeOK, Profile
<1>2. TypeOK /\ [Next]_vars => TypeOK'
  <2> SUFFICES ASSUME TypeOK, [Next]_vars PROVE TypeOK'
    OBVIOUS
  <2>1. DOMAIN host' = Facts /\ \A f \in Facts : host'[f] \in Values[f]
    BY HostImproves DEF Improves, HostOK
  <2> USE <2>1 DEF TypeOK
  <2>2. ASSUME NEW scope \in Scopes, NEW apply \in BOOLEAN, NEW assume_yes \in BOOLEAN,
               NEW env \in Profile \cup {"none"}, Begin(scope, apply, assume_yes, env)
        PROVE  TypeOK'
    <3>1. profile' \in Profile
      BY <2>2 DEF Begin, resolve_profile, _auto_detect, Profile
    <3>2. \A c \in DOMAIN results' : results'[c].status \in Status
      <4> TAKE c \in DOMAIN results'
      <4>1. c \in 1..30 /\ results'[c] = _apply_profile(c, run(host)[c], profile')
        BY <2>2, Report
      <4>2. Plain("SKIP").status \in Status
        BY DEF Plain, Status
      <4>3. QED
        BY <4>1, <4>2, EveryCheck, Softened
    <3>3. todo' \subseteq {c \in DOMAIN results' : Offers(c)'}
      BY <2>2, Report
    <3>4. \A c \in DOMAIN said' : said'[c] = "nothing"
      BY <2>2, Report
    <3>5. /\ pc' = "report" /\ exit' = "none" /\ confirmed' = FALSE /\ saved' = saved
          /\ yes' = (apply /\ assume_yes)
      BY <2>2 DEF Begin
    <3>6. QED
      BY <3>1, <3>2, <3>3, <3>4, <3>5
  <2>3. ASSUME NEW c \in todo, AutoApply(c) \/ Accept(c)
        PROVE  TypeOK'
    BY <2>3 DEF AutoApply, Accept, Asks, Offers
  <2>4. ASSUME NEW c \in todo, Decline(c)
        PROVE  TypeOK'
    BY <2>4 DEF Decline, Asks, Offers
  <2>5. ASSUME NEW c \in todo, Applies(c)
        PROVE  TypeOK'
    BY <2>5 DEF Applies, Offers
  <2>6. CASE Finish
    BY <2>6 DEF Finish, Offers
  <2>7. CASE Killed
    BY <2>7 DEF Killed, Offers
  <2>8. ASSUME NEW p \in Profile, set_profile(p)
        PROVE  TypeOK'
    BY <2>8 DEF set_profile, Offers
  <2>9. CASE LogsIn \/ ScrubEnds \/ UNCHANGED vars
    BY <2>9 DEF LogsIn, ScrubEnds, vars, Offers
  <2>10. QED
    BY <2>2, <2>3, <2>4, <2>5, <2>6, <2>7, <2>8, <2>9 DEF Next
<1>3. QED
  BY <1>1, <1>2, PTL DEF Spec

-----------------------------------------------------------------------------
(* What the results are results of                                         *)

\* The last run was in categories s and has seen host h, of which the present
\* host is an improvement.
Seen(h, s) ==
  /\ HostOK(h) /\ Improves(h, host)
  /\ DOMAIN results = get_checks(s) /\ DOMAIN said = get_checks(s)
  /\ \A c \in DOMAIN results : results[c] = _apply_profile(c, run(h)[c], profile)

SeenInv == \E h : \E s \in SUBSET Category : Seen(h, s)

LEMMA SeenStep ==
  ASSUME TypeOK, SeenInv, [Next]_vars
  PROVE  SeenInv'
<1>1. Improves(host, host')
  BY HostImproves
<1>2. HostOK(host)
  BY DEF TypeOK, HostOK
<1>3. ASSUME NEW scope \in Scopes, NEW apply, NEW assume_yes, NEW env,
             Begin(scope, apply, assume_yes, env)
      PROVE  SeenInv'
  <2>1. host' = host /\ scope \in SUBSET Category
    BY <1>3, Report DEF Begin
  <2>2. Seen(host, scope)'
    BY <1>1, <1>2, <1>3, <2>1, Report DEF Seen
  <2>3. QED
    BY <2>1, <2>2 DEF SeenInv
<1>4. ASSUME UNCHANGED <<results, profile>>, DOMAIN said' = DOMAIN said
      PROVE  SeenInv'
  <2>1. PICK h : \E s \in SUBSET Category : Seen(h, s)
    BY DEF SeenInv
  <2>2. PICK s \in SUBSET Category : Seen(h, s)
    BY <2>1
  <2>3. Improves(h, host')
    BY <1>1, <2>2, Further DEF Seen
  <2>4. Seen(h, s)'
    BY <1>4, <2>2, <2>3 DEF Seen
  <2>5. QED
    BY <2>4 DEF SeenInv
<1>5. ASSUME NEW c \in todo, AutoApply(c) \/ Accept(c) \/ Decline(c) \/ Applies(c)
      PROVE  UNCHANGED <<results, profile>> /\ DOMAIN said' = DOMAIN said
  BY <1>5 DEF AutoApply, Accept, Decline, Applies
<1>6. ASSUME Finish \/ Killed \/ (\E p \in Profile : set_profile(p)) \/ LogsIn \/ ScrubEnds
               \/ UNCHANGED vars
      PROVE  UNCHANGED <<results, profile>> /\ DOMAIN said' = DOMAIN said
  BY <1>6 DEF Finish, Killed, set_profile, LogsIn, ScrubEnds, vars
<1>7. QED
  BY <1>3, <1>4, <1>5, <1>6 DEF Next

LEMMA SeenAlways == Spec => []SeenInv
<1>1. Init => SeenInv
  <2> SUFFICES ASSUME Init PROVE SeenInv
    OBVIOUS
  <2>1. HostOK(host)
    BY HostsAssumption DEF Init, HostOK
  <2>2. DOMAIN results = {} /\ DOMAIN said = {} /\ get_checks({}) = {} /\ {} \in SUBSET Category
    BY Places DEF Init
  <2>3. Seen(host, {})
    BY <2>1, <2>2, Unchanged DEF Seen
  <2>4. QED
    BY <2>2, <2>3 DEF SeenInv
<1>2. TypeOK /\ SeenInv /\ [Next]_vars => SeenInv'
  BY SeenStep
<1>3. QED
  BY <1>1, <1>2, Typing, PTL DEF Spec

\* What is offered is what a check has found on the host the run has seen, and
\* is expected of the profile.
LEMMA Offered ==
  ASSUME TypeOK, NEW h, NEW s \in SUBSET Category, Seen(h, s), NEW c \in todo
  PROVE  /\ c \in 1..30 /\ c \in get_checks(_EXPECTED[profile])
         /\ results[c] = run(h)[c] /\ results[c].fix # "none" /\ results[c].fix = FixOf[c]
<1>1. c \in DOMAIN results /\ Offers(c)
  BY DEF TypeOK
<1>2. c \in 1..30
  BY <1>1, Places DEF Seen
<1>3. results[c] = run(h)[c] /\ c \in get_checks(_EXPECTED[profile])
  BY <1>1, Softened DEF Seen, Offers
<1>4. QED
  BY <1>1, <1>2, <1>3, EveryCheck DEF Offers

-----------------------------------------------------------------------------
(* What fixes do                                                           *)

\* Only one check is first.
LEMMA OneFirst ==
  ASSUME TypeOK, SeenInv, NEW c \in todo, First(c), NEW d \in todo, First(d)
  PROVE  c = d
<1>1. PICK h : \E s \in SUBSET Category : Seen(h, s)
  BY DEF SeenInv
<1>2. c \in 1..30 /\ d \in 1..30
  BY <1>1, Offered
<1>3. c <= d /\ d <= c
  BY DEF First
<1>4. QED
  BY <1>2, <1>3

\* A fix that nobody was asked about is a safe one.
UnaskedInv ==
  pc = "fix" /\ ~confirmed => \A c \in todo : First(c) => results[c].fix \in SafeFixes

LEMMA UnaskedStep ==
  ASSUME TypeOK, SeenInv, UnaskedInv, [Next]_vars
  PROVE  UnaskedInv'
<1> USE DEF UnaskedInv
<1>1. ASSUME NEW c \in todo, AutoApply(c)
      PROVE  UnaskedInv'
  <2>1. First(c) /\ results[c].fix \in SafeFixes /\ todo' = todo /\ results' = results
    BY <1>1 DEF AutoApply
  <2>2. \A d \in todo : First(d) => d = c
    BY <2>1, OneFirst
  <2>3. QED
    BY <2>1, <2>2 DEF First
<1>2. ASSUME NEW c \in todo, Accept(c)
      PROVE  UnaskedInv'
  BY <1>2 DEF Accept
<1>3. ASSUME NEW c \in todo, Decline(c) \/ Applies(c)
      PROVE  UnaskedInv'
  BY <1>3 DEF Decline, Asks, Applies
<1>4. ASSUME \/ \E scope \in Scopes, apply, assume_yes \in BOOLEAN, env \in Profile \cup {"none"} :
                  Begin(scope, apply, assume_yes, env)
             \/ Finish
             \/ Killed
      PROVE  UnaskedInv'
  BY <1>4 DEF Begin, Finish, Killed
<1>5. CASE (\E p \in Profile : set_profile(p)) \/ LogsIn \/ ScrubEnds \/ UNCHANGED vars
  BY <1>5 DEF set_profile, LogsIn, ScrubEnds, vars, First
<1>6. QED
  BY <1>1, <1>2, <1>3, <1>4, <1>5 DEF Next

\* Without a confirmation only daemons are started and the audio drop-in is
\* written, on any host (cli.md).
THEOREM Unattended == Spec => UnattendedOnlyStarts
<1>1. Init => UnaskedInv
  BY DEF Init, UnaskedInv
<1>2. TypeOK /\ SeenInv /\ UnaskedInv /\ [Next]_vars => UnaskedInv'
  BY UnaskedStep
<1>3. TypeOK /\ UnaskedInv /\ [Next]_vars =>
        [pc = "fix" /\ pc' # "fix" /\ ~confirmed =>
           \A f \in Facts : host'[f] # host[f] =>
             \/ f = "codec"
             \/ f \in {"docker", "tailscale"} /\ host[f] = "stopped"]_vars
  <2> SUFFICES ASSUME TypeOK, UnaskedInv, [Next]_vars,
                      pc = "fix", pc' # "fix", ~confirmed,
                      NEW f \in Facts, host'[f] # host[f]
               PROVE  \/ f = "codec"
                      \/ f \in {"docker", "tailscale"} /\ host[f] = "stopped"
    OBVIOUS
  <2>1. HostOK(host)
    BY DEF TypeOK, HostOK
  <2>2. PICK c \in todo : First(c) /\ host' \in Done(results[c].fix, host)
    BY HostSteps DEF LogsIn, ScrubEnds
  <2>3. results[c].fix \in SafeFixes
    BY <2>2 DEF UnaskedInv
  <2>4. Changes(results[c].fix, f)
    BY <2>1, <2>2, Footprint
  <2>5. f \in {"codec", "docker", "tailscale"}
    BY <2>3, <2>4 DEF Changes, SafeFixes
  <2>6. Improves(host, host')
    BY <2>1, <2>2, DoneImproves
  <2>7. ASSUME f = "docker"
        PROVE  host["docker"] = "stopped"
    BY <2>1, <2>6, <2>7, Gained, Typed
  <2>8. ASSUME f = "tailscale"
        PROVE  host["tailscale"] = "stopped"
    BY <2>1, <2>6, <2>8, Gained, Typed
  <2>9. QED
    BY <2>5, <2>7, <2>8
<1>4. QED
  BY <1>1, <1>2, <1>3, Typing, SeenAlways, PTL DEF Spec, UnattendedOnlyStarts

\* On a desktop no pool is imported or scrubbed and no snapshot tool installed,
\* whatever is answered (profile.py, runner.py:20-31).
THEOREM Desktop == Spec => DesktopLeftAlone
<1>1. TypeOK /\ SeenInv /\ [Next]_vars =>
        [pc = "fix" /\ pc' # "fix" /\ profile = "desktop" =>
           /\ host'.pool = host.pool
           /\ host'.snapshots = host.snapshots
           /\ host'.scrub # host.scrub => host.scrub = "running"
           /\ host'.qemu # host.qemu =>
                \E c \in todo : First(c) /\ results[c].fix = "bootstrap incus"]_vars
  <2> SUFFICES ASSUME TypeOK, SeenInv, [Next]_vars,
                      pc = "fix", pc' # "fix", profile = "desktop", host' # host
               PROVE  /\ host'["pool"] = host["pool"]
                      /\ host'["snapshots"] = host["snapshots"]
                      /\ host'["scrub"] # host["scrub"] => host["scrub"] = "running"
                      /\ host'["qemu"] # host["qemu"] =>
                           \E c \in todo : First(c) /\ results[c].fix = "bootstrap incus"
    OBVIOUS
  <2>1. HostOK(host)
    BY DEF TypeOK, HostOK
  <2>2. PICK c \in todo : First(c) /\ host' \in Done(results[c].fix, host)
    BY HostSteps DEF LogsIn, ScrubEnds
  <2>3. PICK h : \E s \in SUBSET Category : Seen(h, s)
    BY DEF SeenInv
  <2>4. /\ c \in 1..30 /\ c \in get_checks(_EXPECTED["desktop"])
        /\ results[c].fix = FixOf[c]
    BY <2>3, Offered
  <2>5. c \notin {7, 8, 9, 10, 19}
    BY <2>4, Places
  <2>6. results[c].fix \notin {"zpool import", "zpool scrub", "apt zfs-auto-snapshot", "bootstrap kvm"}
    <3>1. Place(FixOf[c], c)
      BY <2>4, FixPlace
    <3>2. QED
      BY <2>4, <2>5, <3>1 DEF Place
  <2>7. \A f \in Facts : host'[f] # host[f] => Changes(results[c].fix, f)
    BY <2>1, <2>2, Footprint
  <2>8. /\ host'["pool"] = host["pool"]
        /\ host'["snapshots"] = host["snapshots"]
        /\ host'["scrub"] = host["scrub"]
        /\ host'["qemu"] # host["qemu"] => results[c].fix = "bootstrap incus"
    BY <2>6, <2>7, FactNames DEF Changes
  <2>9. QED
    BY <2>2, <2>8
<1>2. QED
  BY <1>1, Typing, SeenAlways, PTL DEF Spec, DesktopLeftAlone

-----------------------------------------------------------------------------
(* What the outcome says                                                   *)

\* Exit code 0 is that of a run whose checks have found no failure.
ExitInv == exit = "0" => Failed = {}

LEMMA ExitStep ==
  ASSUME ExitInv, [Next]_vars
  PROVE  ExitInv'
<1> USE DEF ExitInv, Failed
<1>1. ASSUME NEW scope \in Scopes, NEW apply \in BOOLEAN, NEW assume_yes \in BOOLEAN,
             NEW env \in Profile \cup {"none"}, Begin(scope, apply, assume_yes, env)
      PROVE  ExitInv'
  BY <1>1 DEF Begin
<1>2. ASSUME NEW c \in todo, AutoApply(c) \/ Accept(c) \/ Decline(c) \/ Applies(c)
      PROVE  ExitInv'
  BY <1>2 DEF AutoApply, Accept, Decline, Applies
<1>3. CASE Finish \/ Killed
  BY <1>3 DEF Finish, Killed
<1>4. CASE (\E p \in Profile : set_profile(p)) \/ LogsIn \/ ScrubEnds \/ UNCHANGED vars
  BY <1>4 DEF set_profile, LogsIn, ScrubEnds, vars
<1>5. QED
  BY <1>1, <1>2, <1>3, <1>4 DEF Next

LEMMA Expected ==
  ASSUME NEW p \in Profile
  PROVE  _EXPECTED[p] \in SUBSET Category
<1>1. _EXPECTED["server"] = Category
  BY DEF _EXPECTED
<1>2. QED
  BY <1>1, Places DEF Profile

\* A run that ends with 0 leaves a host on which the same checks find no
\* failure, for the profile of the run (runner.py:100-153, cli.py:407).
THEOREM ZeroEarned == Spec => []ZeroIsEarned
<1>1. Init => ExitInv
  BY DEF Init, ExitInv
<1>2. ExitInv /\ [Next]_vars => ExitInv'
  BY ExitStep
<1>3. TypeOK /\ SeenInv /\ ExitInv => ZeroIsEarned
  <2> SUFFICES ASSUME TypeOK, SeenInv, ExitInv, exit = "0", NEW c \in DOMAIN results,
                      _apply_profile(c, run(host)[c], profile).status = "FAIL"
               PROVE  FALSE
    BY DEF ZeroIsEarned
  <2>1. PICK h : \E s \in SUBSET Category : Seen(h, s)
    BY DEF SeenInv
  <2>2. PICK s \in SUBSET Category : Seen(h, s)
    BY <2>1
  <2>3. HostOK(h) /\ Improves(h, host) /\ c \in 1..30 /\ c \in get_checks(s)
    BY <2>2, Places DEF Seen
  <2>4. run(host)[c].status = "FAIL" /\ c \in get_checks(_EXPECTED[profile])
    BY Softened DEF Fixable
  <2>5. ASSUME NEW d \in get_checks(s), d \in get_checks(_EXPECTED[profile])
        PROVE  run(h)[d].status # "FAIL"
    <3>1. results[d] = run(h)[d]
      BY <2>2, <2>5 DEF Seen, _apply_profile
    <3>2. results[d].status # "FAIL"
      BY <2>2 DEF Seen, ExitInv, Failed
    <3>3. QED
      BY <3>1, <3>2
  <2>6. c = PoolHealth => 7 \in get_checks(s) /\ 7 \in get_checks(_EXPECTED[profile])
    BY <2>3, <2>4, Places, Expected DEF TypeOK
  <2>7. QED
    BY <2>3, <2>4, <2>5, <2>6, NothingBreaks
<1>4. QED
  BY <1>1, <1>2, <1>3, Typing, SeenAlways, PTL DEF Spec

\* What a fix that was reported as applied has cured is still so.
CuredInv ==
  \A c \in DOMAIN said : said[c] = "applied" =>
    /\ results[c].fix # "none"
    /\ results[c].fix \notin Silent => Cured(results[c].fix, host)

LEMMA CuredStep ==
  ASSUME TypeOK, SeenInv, CuredInv, [Next]_vars
  PROVE  CuredInv'
<1>1. HostOK(host) /\ Improves(host, host')
  BY HostImproves DEF TypeOK, HostOK
<1>2. \A f : Cured(f, host) => Cured(f, host')
  BY <1>1, CureLasts
<1>3. ASSUME NEW scope \in Scopes, NEW apply, NEW assume_yes, NEW env,
             Begin(scope, apply, assume_yes, env)
      PROVE  CuredInv'
  BY <1>3, Report DEF CuredInv
<1>4. ASSUME UNCHANGED <<results, said>>
      PROVE  CuredInv'
  BY <1>2, <1>4 DEF CuredInv
<1>5. ASSUME NEW c \in todo, Applies(c)
      PROVE  CuredInv'
  <2>1. results[c].fix # "none" /\ results' = results
    BY <1>5 DEF TypeOK, Offers, Applies
  <2>2. PICK outcome \in {"applied", "failed"} :
          /\ host' \in IF outcome = "applied" THEN Succeeds(results[c].fix, host)
                                              ELSE Fails(results[c].fix, host)
          /\ said' = [said EXCEPT ![c] = outcome]
    BY <1>5 DEF Applies
  <2>3. ASSUME outcome = "applied", results[c].fix \notin Silent
        PROVE  Cured(results[c].fix, host')
    <3>1. host' \in Done(results[c].fix, host)
      BY <2>2, <2>3 DEF Succeeds
    <3>2. QED
      BY <1>1, <2>1, <2>3, <3>1, DoneCures DEF Silent
  <2> SUFFICES ASSUME NEW d \in DOMAIN said, said'[d] = "applied"
               PROVE  /\ results[d].fix # "none"
                      /\ results[d].fix \notin Silent => Cured(results[d].fix, host')
    BY <2>1, <2>2 DEF CuredInv
  <2>4. CASE d = c
    BY <2>1, <2>2, <2>3, <2>4
  <2>5. CASE d # c
    <3>1. said[d] = "applied"
      BY <2>2, <2>5
    <3>2. QED
      BY <1>2, <3>1 DEF CuredInv
  <2>6. QED
    BY <2>4, <2>5
<1>6. ASSUME NEW c \in todo, AutoApply(c) \/ Accept(c) \/ Decline(c)
      PROVE  UNCHANGED <<results, said>>
  BY <1>6 DEF AutoApply, Accept, Decline
<1>7. ASSUME \/ Finish
             \/ Killed
             \/ (\E p \in Profile : set_profile(p))
             \/ LogsIn
             \/ ScrubEnds
             \/ UNCHANGED vars
      PROVE  UNCHANGED <<results, said>>
  BY <1>7 DEF Finish, Killed, set_profile, LogsIn, ScrubEnds, vars
<1>8. QED
  BY <1>3, <1>4, <1>5, <1>6, <1>7 DEF Next

\* A fix that was reported as applied, and whose exit code tells, has removed
\* its finding for good (fixes.py:36-46): not so a bootstrap, or the setup of
\* incus, where the operator may decline the pool.
THEOREM AppliedCleared == Spec => []AppliedClears
<1>1. Init => CuredInv
  <2> SUFFICES ASSUME Init PROVE CuredInv
    OBVIOUS
  <2>1. DOMAIN said = {}
    BY DEF Init
  <2>2. QED
    BY <2>1 DEF CuredInv
<1>2. TypeOK /\ SeenInv /\ CuredInv /\ [Next]_vars => CuredInv'
  BY CuredStep
<1>3. TypeOK /\ SeenInv /\ CuredInv => AppliedClears
  <2> SUFFICES ASSUME TypeOK, SeenInv, CuredInv, NEW c \in DOMAIN said, said[c] = "applied",
                      results[c].fix \notin Silent, c # PoolHealth
               PROVE  run(host)[c].fix # results[c].fix
    BY DEF AppliedClears
  <2>1. PICK h : \E s \in SUBSET Category : Seen(h, s)
    BY DEF SeenInv
  <2>2. HostOK(host) /\ c \in 1..30 /\ c \in DOMAIN results
    BY <2>1, Places DEF Seen, TypeOK, HostOK
  <2>3. results[c].fix # "none" /\ Cured(results[c].fix, host)
    BY DEF CuredInv
  <2>4. Plain("SKIP").fix = "none"
    BY DEF Plain
  <2>5. results[c] = run(h)[c]
    BY <2>1, <2>2, <2>3, <2>4, Softened DEF Seen
  <2>6. results[c].fix = FixOf[c]
    BY <2>2, <2>3, <2>5, EveryCheck
  <2>7. QED
    BY <2>2, <2>3, <2>6, CuredClears DEF Silent
<1>4. QED
  BY <1>1, <1>2, <1>3, Typing, SeenAlways, PTL DEF Spec

-----------------------------------------------------------------------------
(* Results that have gone stale                                            *)

\* What is left to offer is still found, but for the fixes that repeat.
NeededInv ==
  \A c \in todo : results[c].fix \notin Repeatable => run(host)[c] = results[c]

\* A scrub that ends is noticed by its own check alone.
LEMMA ScrubAlone ==
  ASSUME NEW h, HostOK(h), NEW k, k = [h EXCEPT !["scrub"] = "recent"], NEW c \in 1..30, c # 9
  PROVE  run(k)[c] = run(h)[c]
<1>1. \A f \in Facts : f # "scrub" => k[f] = h[f]
  BY DEF HostOK
<1>2. /\ k.release = h.release /\ k.kernel = h.kernel /\ k.memory = h.memory
      /\ k.cpu = h.cpu /\ k.sshd = h.sshd /\ k.codec = h.codec
      /\ k.pool = h.pool /\ k.tank = h.tank /\ k.errors = h.errors
      /\ k.snapshots = h.snapshots /\ k.docker = h.docker /\ k.compose = h.compose
      /\ k.kvm = h.kvm /\ k.qemu = h.qemu /\ k.iommu = h.iommu
      /\ k.vfio = h.vfio /\ k.amdgpu = h.amdgpu /\ k.rocm = h.rocm
      /\ k.vulkan = h.vulkan /\ k.server = h.server /\ k.cli = h.cli
      /\ k.incus = h.incus /\ k.storage = h.storage /\ k.tailscale = h.tailscale
      /\ k.tailnet = h.tailnet /\ k.session = h.session /\ k.account = h.account
  BY <1>1, FactNames
<1>3. /\ check_ubuntu_version(k) = check_ubuntu_version(h)
      /\ check_kernel_version(k) = check_kernel_version(h)
      /\ check_memory(k) = check_memory(h)
  BY <1>2 DEF check_ubuntu_version, check_kernel_version, check_memory
<1>4. /\ check_cpu(k) = check_cpu(h)
      /\ check_ssh_hardened(k) = check_ssh_hardened(h)
      /\ check_audio_powersave(k) = check_audio_powersave(h)
  BY <1>2 DEF check_cpu, check_ssh_hardened, check_audio_powersave
<1>5. /\ check_zfs_pool_exists(k) = check_zfs_pool_exists(h)
      /\ check_zfs_pool_health(k) = check_zfs_pool_health(h)
  BY <1>2 DEF check_zfs_pool_exists, check_zfs_pool_health, Words
<1>6. /\ check_zfs_snapshots(k) = check_zfs_snapshots(h)
      /\ check_docker_daemon(k) = check_docker_daemon(h)
      /\ check_docker_group(k) = check_docker_group(h)
  BY <1>2 DEF check_zfs_snapshots, check_docker_daemon, check_docker_group, _group_membership
<1>7. /\ check_docker_compose(k) = check_docker_compose(h)
      /\ check_incus_installed(k) = check_incus_installed(h)
      /\ check_incus_daemon(k) = check_incus_daemon(h)
  BY <1>2 DEF check_docker_compose, check_incus_installed, check_incus_daemon
<1>8. /\ check_incus_initialized(k) = check_incus_initialized(h)
      /\ check_incus_group(k) = check_incus_group(h)
      /\ check_kvm_enabled(k) = check_kvm_enabled(h)
  BY <1>2 DEF check_incus_initialized, check_incus_group, check_kvm_enabled, _group_membership
<1>9. /\ check_qemu(k) = check_qemu(h)
      /\ check_iommu(k) = check_iommu(h)
      /\ check_vfio(k) = check_vfio(h)
  BY <1>2 DEF check_qemu, check_iommu, check_vfio
<1>10. /\ check_amd_driver(k) = check_amd_driver(h)
       /\ check_gpu_groups(k) = check_gpu_groups(h)
       /\ check_rocm(k) = check_rocm(h)
  BY <1>2 DEF check_amd_driver, check_gpu_groups, check_rocm, _group_membership
<1>11. /\ check_vulkan(k) = check_vulkan(h)
       /\ check_llamacpp_installed(k) = check_llamacpp_installed(h)
       /\ check_llamacpp_gpu(k) = check_llamacpp_gpu(h)
  BY <1>2 DEF check_vulkan, check_llamacpp_installed, check_llamacpp_gpu
<1>12. /\ check_tailscale_daemon(k) = check_tailscale_daemon(h)
       /\ check_tailscale_connected(k) = check_tailscale_connected(h)
       /\ check_tailscale_magicdns(k) = check_tailscale_magicdns(h)
  BY <1>2 DEF check_tailscale_daemon, check_tailscale_connected, check_tailscale_magicdns
<1>13. QED
  BY <1>3, <1>4, <1>5, <1>6, <1>7, <1>8, <1>9, <1>10, <1>11, <1>12, RunAt

LEMMA NeededStep ==
  ASSUME TypeOK, SeenInv, NeededInv, [Next]_vars
  PROVE  NeededInv'
<1>0. HostOK(host)
  BY DEF TypeOK, HostOK
<1>1. PICK h : \E s \in SUBSET Category : Seen(h, s)
  BY DEF SeenInv
<1>2. ASSUME NEW scope \in Scopes, NEW apply, NEW assume_yes, NEW env,
             Begin(scope, apply, assume_yes, env)
      PROVE  NeededInv'
  <2> SUFFICES ASSUME NEW c \in todo'
               PROVE  run(host)[c] = results'[c]
    BY <1>2 DEF Begin, NeededInv
  <2>1. results'[c] = _apply_profile(c, run(host)[c], profile') /\ Offers(c)'
    BY <1>2, Report
  <2>2. QED
    BY <2>1, Softened DEF Offers
<1>3. ASSUME todo' \subseteq todo, UNCHANGED <<host, results>>
      PROVE  NeededInv'
  BY <1>3 DEF NeededInv
<1>4. ASSUME NEW d \in todo, Applies(d)
      PROVE  NeededInv'
  <2>1. todo' = todo \ {d} /\ results' = results
    BY <1>4 DEF Applies
  <2>2. host' \in Done(results[d].fix, host) \/ host' = host
    BY <1>0, <1>4, Ends DEF Applies
  <2>3. CASE host' = host
    BY <1>3, <2>1, <2>3
  <2>4. CASE host' \in Done(results[d].fix, host)
    <3> SUFFICES ASSUME NEW c \in todo \ {d}, results[c].fix \notin Repeatable
                 PROVE  run(host')[c] = results[c]
      BY <2>1 DEF NeededInv
    <3>1. /\ HostOK(h) /\ c \in 1..30 /\ d \in 1..30
          /\ results[c] = run(h)[c] /\ results[c].fix # "none"
          /\ results[d] = run(h)[d] /\ results[d].fix # "none"
      BY <1>1, Offered DEF Seen
    <3>2. /\ run(host)[c] = results[c]
          /\ results[d].fix \notin Repeatable => run(host)[d] = results[d]
      BY DEF NeededInv
    <3>3. Pending(h, host, c, d, results[d].fix)
      BY <1>0, <3>1, <3>2 DEF Pending
    <3>4. run(host')[c] = run(host)[c]
      BY <2>4, <3>3, Independent
    <3>5. QED
      BY <3>2, <3>4
  <2>5. QED
    BY <2>2, <2>3, <2>4
<1>5. ASSUME ScrubEnds
      PROVE  NeededInv'
  <2>1. /\ host' = [host EXCEPT !["scrub"] = "recent"]
        /\ UNCHANGED <<todo, results>>
    BY <1>5 DEF ScrubEnds
  <2> SUFFICES ASSUME NEW c \in todo, results[c].fix \notin Repeatable
               PROVE  run(host')[c] = run(host)[c]
    BY <2>1 DEF NeededInv
  <2>2. c \in 1..30 /\ results[c].fix = FixOf[c]
    BY <1>1, Offered
  <2>3. c # 9
    BY <2>2, FixAt DEF Repeatable
  <2>4. QED
    BY <1>0, <2>1, <2>2, <2>3, ScrubAlone
<1>6. CASE LogsIn \/ Killed
  <2>1. todo' = {}
    BY <1>6 DEF LogsIn, Killed, TypeOK
  <2>2. QED
    BY <2>1 DEF NeededInv
<1>7. ASSUME NEW c \in todo, AutoApply(c) \/ Accept(c) \/ Decline(c)
      PROVE  todo' \subseteq todo /\ UNCHANGED <<host, results>>
  BY <1>7 DEF AutoApply, Accept, Decline
<1>8. ASSUME Finish \/ (\E p \in Profile : set_profile(p)) \/ UNCHANGED vars
      PROVE  todo' \subseteq todo /\ UNCHANGED <<host, results>>
  BY <1>8 DEF Finish, set_profile, vars
<1>9. QED
  BY <1>2, <1>3, <1>4, <1>5, <1>6, <1>7, <1>8 DEF Next

\* A fix is started only on what is still found, though all results are those
\* of before the first fix (runner.py:100-140).
THEOREM StillNeeded == Spec => FixStillNeeded
<1>1. Init => NeededInv
  BY DEF Init, NeededInv
<1>2. TypeOK /\ SeenInv /\ NeededInv /\ [Next]_vars => NeededInv'
  BY NeededStep
<1>3. NeededInv =>
        [\A c \in todo :
           pc = "fix" /\ pc' = "report" /\ First(c)
             /\ results[c].fix \notin Bootstraps \cup {"zpool scrub"} =>
           run(host)[c] = results[c]]_vars
  BY DEF NeededInv, Repeatable
<1>4. QED
  BY <1>1, <1>2, <1>3, Typing, SeenAlways, PTL DEF Spec, FixStillNeeded
=============================================================================
