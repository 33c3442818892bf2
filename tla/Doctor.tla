-------------------------------- MODULE Doctor --------------------------------
(***************************************************************************)
(* `msai doctor` (doctor/checks.py, runner.py, fixes.py, profile.py): run  *)
(* the registered checks, soften what the profile does not expect, report, *)
(* and with --apply offer each fix in turn.  All checks run before the     *)
(* first fix; a fix is a shell command the host may or may not obey.       *)
(*                                                                         *)
(* The host is a record of facts, one for each thing a check looks at.  A  *)
(* check is an operator of its name: the host to a status and a fix.  The  *)
(* fixes carry short names for their commands.                             *)
(***************************************************************************)
EXTENDS Naturals, FiniteSets

CONSTANTS
  Hosts,   \* bound: the hosts doctor may first find
  Scopes   \* bound: the sets of categories doctor is run for

VARIABLES
  host,       \* the machine
  saved,      \* the profile file, "none" without one
  pc,         \* "idle", "report" between two fixes, "fix" while one runs
  yes,        \* --yes of the present or last run
  profile,    \* the profile it resolved
  results,    \* its CheckResults, by check
  todo,       \* the checks whose fix it has yet to offer
  confirmed,  \* whether the fix that runs was asked for
  said,       \* what it said of each fix it ran
  exit        \* how it ended: "none" as long as it runs, "killed", or its code

vars == <<host, saved, pc, yes, profile, results, todo, confirmed, said, exit>>

-----------------------------------------------------------------------------
(* The facts, and what each check makes of them                            *)

\* Two of the devices in `zpool status` stand for all of them.
Tank(state, devices) == [state |-> state, devices |-> devices]

\* The values a fact can have; a program or daemon that is absent has the
\* value for it, and "unreadable" is a query that fails.
Values ==
  [release   |-> {"26.04", "other", "unreadable"},
   kernel    |-> {<<7, 0>>, <<6, 18>>, <<6, 17>>, <<5, 19>>, <<>>},
   memory    |-> {128, 120, 119, 0},
   cpu       |-> {"ryzen ai max", "other", "unreadable"},
   sshd      |-> {"disabled", "drop-in", "enabled", "absent"},
   codec     |-> {"persistent", "runtime", "enabled", "absent"},
   pool      |-> {"imported", "exported", "missing", "no zfs"},
   tank      |-> {Tank("ONLINE", {"ONLINE"}), Tank("DEGRADED", {"ONLINE", "FAULTED"}),
                  Tank("DEGRADED", {"DEGRADED", "FAULTED"}), Tank("UNAVAIL", {"FAULTED"})},
   errors    |-> BOOLEAN,
   scrub     |-> {"recent", "old", "undated", "running", "never", "resilvered"},
   snapshots |-> {"tool", "by hand", "none"},
   docker    |-> {"running", "stopped", "absent"},
   compose   |-> BOOLEAN,
   kvm       |-> BOOLEAN,
   qemu      |-> BOOLEAN,
   iommu     |-> BOOLEAN,
   vfio      |-> BOOLEAN,
   amdgpu    |-> BOOLEAN,
   rocm      |-> {"working", "broken", "absent"},
   vulkan    |-> {"working", "broken", "absent"},
   server    |-> BOOLEAN,
   cli       |-> {"gpu", "cpu", "absent"},
   incus     |-> {"running", "stopped", "absent"},
   storage   |-> BOOLEAN,
   tailscale |-> {"running", "stopped", "absent"},
   tailnet   |-> {"named", "joined", "out"},
   session   |-> SUBSET {"docker", "render", "video", "incus-admin"},
   account   |-> SUBSET {"docker", "render", "video", "incus-admin"},
   graphical |-> BOOLEAN]

Facts == DOMAIN Values

ASSUME HostsAssumption ==
  \A h \in Hosts : DOMAIN h = Facts /\ \A f \in Facts : h[f] \in Values[f]

Status  == {"OK", "WARN", "FAIL", "SKIP"}
Fixable == {"WARN", "FAIL"}

Plain(status)        == [status |-> status, fix |-> "none"]
Finding(status, fix) == [status |-> status, fix |-> fix]
OkOr(good, other)    == IF good THEN Plain("OK") ELSE other

check_ubuntu_version(h) ==
  OkOr(h.release = "26.04", Plain(IF h.release = "unreadable" THEN "FAIL" ELSE "WARN"))

check_kernel_version(h) ==
  IF h.kernel = <<>> THEN Plain("FAIL")
  ELSE OkOr(\/ h.kernel[1] >= 7
            \/ h.kernel[1] = 6 /\ h.kernel[2] >= 18, Plain("WARN"))

check_memory(h) ==
  OkOr(h.memory >= 120, Plain(IF h.memory = 0 THEN "FAIL" ELSE "WARN"))

check_cpu(h) ==
  OkOr(h.cpu = "ryzen ai max", Plain(IF h.cpu = "unreadable" THEN "FAIL" ELSE "WARN"))

check_ssh_hardened(h) ==
  IF h.sshd = "absent" THEN Plain("SKIP")
  ELSE OkOr(h.sshd \in {"disabled", "drop-in"}, Finding("WARN", "advice on sshd_config"))

check_audio_powersave(h) ==
  IF h.codec = "absent" THEN Plain("SKIP")
  ELSE OkOr(h.codec = "persistent", Finding("WARN", "audio_powersave"))

check_zfs_pool_exists(h) ==
  OkOr(h.pool = "imported",
       IF h.pool = "no zfs" THEN Plain("FAIL") ELSE Finding("FAIL", "zpool import"))

\* The state words anywhere in the output of `zpool status`.
Words(h) == {h.tank.state} \cup h.tank.devices

check_zfs_pool_health(h) ==
  IF h.pool # "imported" THEN Plain("SKIP")
  ELSE IF "ONLINE" \in Words(h)
    THEN OkOr(~h.errors, Finding("WARN", "zpool scrub"))
    ELSE Plain("FAIL")

\* A scrub in progress, and one whose date the pattern does not match (a day
\* of one digit), count as recent.
check_zfs_scrub(h) ==
  IF h.pool # "imported" THEN Plain("SKIP")
  ELSE OkOr(h.scrub \in {"recent", "undated", "running"},
            IF h.scrub = "resilvered" THEN Plain("WARN")
                                      ELSE Finding("WARN", "zpool scrub"))

check_zfs_snapshots(h) ==
  OkOr(h.snapshots # "none", Finding("WARN", "apt zfs-auto-snapshot"))

check_docker_daemon(h) ==
  OkOr(h.docker = "running", Finding("FAIL", "docker_start"))

\* Mutant of _group_membership: only the groups of the session count.
_session_membership(h, groups, fix) ==
  OkOr(groups \subseteq h.session, Finding("WARN", fix))

_group_membership(h, groups, fix) ==
  OkOr(groups \subseteq h.session \/ groups \subseteq h.account, Finding("WARN", fix))

check_docker_group(h) == _group_membership(h, {"docker"}, "usermod docker")

check_docker_compose(h) ==
  OkOr(h.compose /\ h.docker # "absent", Finding("FAIL", "apt docker-compose-plugin"))

check_kvm_enabled(h) == OkOr(h.kvm, Plain("FAIL"))
check_qemu(h)        == OkOr(h.qemu, Finding("WARN", "bootstrap kvm"))
check_iommu(h)       == OkOr(h.iommu, Plain("FAIL"))
check_vfio(h)        == OkOr(h.vfio, Plain("WARN"))

\* The query for a passed-through GPU is a pipe that no shell ever sees.
check_amd_driver(h) == OkOr(h.amdgpu, Plain("WARN"))

check_gpu_groups(h) == _group_membership(h, {"render", "video"}, "usermod render,video")

check_rocm(h) ==
  OkOr(h.rocm = "working",
       IF h.rocm = "absent" THEN Finding("FAIL", "apt rocm") ELSE Plain("WARN"))

check_vulkan(h) ==
  OkOr(h.vulkan = "working",
       IF h.vulkan = "absent" THEN Finding("WARN", "apt vulkan-tools") ELSE Plain("WARN"))

check_llamacpp_installed(h) == OkOr(h.server, Finding("FAIL", "bootstrap llamacpp"))

check_llamacpp_gpu(h) ==
  IF h.cli = "absent" THEN Plain("SKIP")
  ELSE OkOr(h.cli = "gpu", Finding("WARN", "bootstrap llamacpp-vulkan"))

check_incus_installed(h) == OkOr(h.incus # "absent", Finding("FAIL", "bootstrap incus"))

check_incus_daemon(h) ==
  IF h.incus = "absent" THEN Plain("SKIP")
  ELSE OkOr(h.incus = "running", Finding("FAIL", "enable incus.socket"))

\* Without the group in the session, or without the daemon, the query fails.
check_incus_initialized(h) ==
  IF h.incus = "absent" THEN Plain("SKIP")
  ELSE IF h.incus = "stopped" \/ "incus-admin" \notin h.session THEN Plain("WARN")
  ELSE OkOr(h.storage, Finding("WARN", "incus admin init"))

\* Mutant of check_incus_group: it does not ask whether incus is there.
check_incus_group_unasked(h) ==
  _group_membership(h, {"incus-admin"}, "usermod incus-admin")

check_incus_group(h) ==
  IF h.incus = "absent" THEN Plain("SKIP")
  ELSE _group_membership(h, {"incus-admin"}, "usermod incus-admin")

check_tailscale_daemon(h) ==
  OkOr(h.tailscale = "running", Finding("FAIL", "tailscaled_start"))

check_tailscale_connected(h) ==
  IF h.tailscale # "running" THEN Plain("FAIL")
  ELSE OkOr(h.tailnet # "out", Finding("WARN", "tailscale up"))

check_tailscale_magicdns(h) ==
  IF h.tailscale # "running" THEN Plain("SKIP")
  ELSE OkOr(h.tailnet = "named", Plain("WARN"))

-----------------------------------------------------------------------------
(* The registry                                                            *)

\* All checks in the order of the report: by category in the order of the
\* enumeration, and as registered within one.  A check is its place here.
run(h) ==
  <<check_ubuntu_version(h), check_kernel_version(h), check_memory(h), check_cpu(h),
    check_ssh_hardened(h), check_audio_powersave(h),
    check_zfs_pool_exists(h), check_zfs_pool_health(h), check_zfs_scrub(h),
    check_zfs_snapshots(h),
    check_docker_daemon(h), check_docker_group(h), check_docker_compose(h),
    check_incus_installed(h), check_incus_daemon(h), check_incus_initialized(h),
    check_incus_group(h),
    check_kvm_enabled(h), check_qemu(h), check_iommu(h), check_vfio(h),
    check_amd_driver(h), check_gpu_groups(h), check_rocm(h), check_vulkan(h),
    check_llamacpp_installed(h), check_llamacpp_gpu(h),
    check_tailscale_daemon(h), check_tailscale_connected(h), check_tailscale_magicdns(h)>>

Checks ==
  [system |-> 1..6, zfs |-> 7..10, docker |-> 11..13, incus |-> 14..17, kvm |-> 18..21,
   gpu |-> 22..25, inference |-> 26..27, tailscale |-> 28..30]

PoolHealth == 8

Category == DOMAIN Checks

ASSUME ScopesAssumption == Scopes \subseteq SUBSET Category

get_checks(categories) == UNION {Checks[k] : k \in categories}

-----------------------------------------------------------------------------
(* Profiles                                                                *)

Profile == {"server", "desktop"}

_EXPECTED ==
  [server  |-> Category,
   desktop |-> {"system", "docker", "incus", "gpu", "inference", "tailscale"}]

_auto_detect(h) == IF h.graphical THEN "desktop" ELSE "server"

\* MSAI_PROFILE if it names a profile, else the file, else the boot target.
\* A name that is no profile is as good as none.
resolve_profile(env, file, h) ==
  IF env \in Profile THEN env
  ELSE IF file \in Profile THEN file
  ELSE _auto_detect(h)

\* Mutant of _apply_profile: only the message is softened.
_apply_profile_softly(c, result, p) == result

_apply_profile(c, result, p) ==
  IF result.status \notin Fixable \/ c \in get_checks(_EXPECTED[p])
    THEN result
    ELSE Plain("SKIP")

\* What a run in these categories finds on host h.
Findings(h, scope, p) ==
  LET found == run(h)
  IN [c \in get_checks(scope) |-> _apply_profile(c, found[c], p)]

-----------------------------------------------------------------------------
(* What the commands do to the host                                        *)

\* SAFE_FIXES.
SafeFixes == {"docker_start", "libvirtd_start", "ollama_start", "tailscaled_start",
              "audio_powersave"}

\* Fixes that call `msai bootstrap`, which exits 0 whatever became of its
\* components, if the manifest has them.
Bootstraps == {"bootstrap kvm", "bootstrap incus", "bootstrap llamacpp-vulkan"}

Joins(h, groups) == [h EXCEPT !.account = @ \cup groups]

\* The hosts that command f can make of h when it gets through; none if it
\* cannot.  The advice on sshd_config is prose and no command, llamacpp no
\* component; a repeated scrub is refused; a scrub repairs no data errors.
\* Archive packages of incus may bring QEMU along.
Done(f, h) ==
  CASE f = "audio_powersave"  -> {[h EXCEPT !.codec = "persistent"]}
    [] f = "zpool import"     -> IF h.pool = "exported" THEN {[h EXCEPT !.pool = "imported"]} ELSE {}
    [] f = "zpool scrub"      -> IF h.scrub # "running" THEN {[h EXCEPT !.scrub = "running"]} ELSE {}
    [] f = "apt zfs-auto-snapshot" -> {[h EXCEPT !.snapshots = "tool"]}
    [] f = "docker_start"     -> IF h.docker # "absent" THEN {[h EXCEPT !.docker = "running"]} ELSE {}
    [] f = "usermod docker"   -> IF h.docker # "absent" THEN {Joins(h, {"docker"})} ELSE {}
    [] f = "apt docker-compose-plugin" ->
         IF h.docker # "absent" THEN {[h EXCEPT !.compose = TRUE]} ELSE {}
    [] f = "bootstrap incus"  ->
         {Joins([h EXCEPT !.incus = "running", !.qemu = q], {"incus-admin"}) : q \in {TRUE, h.qemu}}
    [] f = "enable incus.socket" -> {[h EXCEPT !.incus = "running"]}
    [] f = "incus admin init" -> {[h EXCEPT !.storage = TRUE]}
    [] f = "usermod incus-admin" -> {Joins(h, {"incus-admin"})}
    [] f = "bootstrap kvm"    -> {[h EXCEPT !.qemu = TRUE]}
    [] f = "usermod render,video" -> {Joins(h, {"render", "video"})}
    [] f = "apt rocm"         -> {[h EXCEPT !.rocm = r] : r \in {"working", "broken"}}
    [] f = "apt vulkan-tools" -> {[h EXCEPT !.vulkan = v] : v \in {"working", "broken"}}
    [] f = "bootstrap llamacpp-vulkan" -> {[h EXCEPT !.cli = "gpu"]}
    [] f = "tailscaled_start" ->
         IF h.tailscale # "absent" THEN {[h EXCEPT !.tailscale = "running"]} ELSE {}
    [] f = "tailscale up"     -> {[h EXCEPT !.tailnet = n] : n \in {"joined", "named"}}
    [] OTHER                  -> {}

\* Fixes whose exit code does not tell: bootstrap, and the interactive setup
\* of incus, which exits 0 also when the operator declines a storage pool.
Silent == Bootstraps \cup {"incus admin init"}

\* Exit 0: done, or a silent fix that did nothing or less than it should.
Succeeds(f, h) == Done(f, h) \cup (IF f \in Silent THEN {h} ELSE {})

\* Any other exit: nothing happened, or all but a last `newgrp`.
Fails(f, h) == {h} \cup (IF f = "usermod docker" THEN Done(f, h) ELSE {})

-----------------------------------------------------------------------------
(* The runs                                                                *)

Init ==
  /\ host \in Hosts
  /\ saved = "none"
  /\ pc = "idle"
  /\ yes = FALSE
  /\ profile = "server"
  /\ results = <<>>
  /\ todo = {}
  /\ confirmed = FALSE
  /\ said = <<>>
  /\ exit = "none"

Offers(c) == results[c].status \in Fixable /\ results[c].fix # "none"

\* run_doctor up to the report.  Without --apply nothing is offered, and
\* --yes means nothing.
Begin(scope, apply, assume_yes, env) ==
  /\ pc = "idle"
  /\ pc' = "report"
  /\ yes' = (apply /\ assume_yes)
  /\ profile' = resolve_profile(env, saved, host)
  /\ results' = Findings(host, scope, profile')
  /\ todo' = IF apply THEN {c \in get_checks(scope) : Offers(c)'} ELSE {}
  /\ said' = [c \in get_checks(scope) |-> "nothing"]
  /\ confirmed' = FALSE
  /\ exit' = "none"
  /\ UNCHANGED <<host, saved>>

First(c) == c \in todo /\ \A d \in todo : c <= d

\* Mutant of AutoApply: --yes is a yes to everything.
AutoApplyAll(c) ==
  /\ pc = "report" /\ First(c)
  /\ yes
  /\ pc' = "fix"
  /\ confirmed' = FALSE
  /\ UNCHANGED <<host, saved, yes, profile, results, todo, said, exit>>

AutoApply(c) ==
  /\ pc = "report" /\ First(c)
  /\ yes /\ results[c].fix \in SafeFixes
  /\ pc' = "fix"
  /\ confirmed' = FALSE
  /\ UNCHANGED <<host, saved, yes, profile, results, todo, said, exit>>

Asks(c) == pc = "report" /\ First(c) /\ ~ (yes /\ results[c].fix \in SafeFixes)

Accept(c) ==
  /\ Asks(c)
  /\ pc' = "fix"
  /\ confirmed' = TRUE
  /\ UNCHANGED <<host, saved, yes, profile, results, todo, said, exit>>

Decline(c) ==
  /\ Asks(c)
  /\ todo' = todo \ {c}
  /\ UNCHANGED <<host, saved, pc, yes, profile, results, confirmed, said, exit>>

\* apply_fix: the exit code alone decides what is said.
Applies(c) ==
  /\ pc = "fix" /\ First(c)
  /\ \E outcome \in {"applied", "failed"} :
       /\ host' \in IF outcome = "applied" THEN Succeeds(results[c].fix, host)
                                           ELSE Fails(results[c].fix, host)
       /\ said' = [said EXCEPT ![c] = outcome]
  /\ todo' = todo \ {c}
  /\ pc' = "report"
  /\ UNCHANGED <<saved, yes, profile, results, confirmed, exit>>

Failed == {c \in DOMAIN results : results[c].status = "FAIL"}

\* Mutant of Finish: what was fixed on the way is not counted as failed.
FinishForgiving ==
  /\ pc = "report" /\ todo = {}
  /\ pc' = "idle"
  /\ exit' = IF \E c \in Failed : said[c] # "applied" THEN "1" ELSE "0"
  /\ UNCHANGED <<host, saved, yes, profile, results, todo, confirmed, said>>

\* The summary and the exit code are those of the checks before the fixes.
Finish ==
  /\ pc = "report" /\ todo = {}
  /\ pc' = "idle"
  /\ exit' = IF Failed # {} THEN "1" ELSE "0"
  /\ UNCHANGED <<host, saved, yes, profile, results, todo, confirmed, said>>

\* Mutant of Killed: what was left to offer is kept.
KilledInPlace ==
  /\ pc # "idle"
  /\ pc' = "idle"
  /\ exit' = "killed"
  /\ UNCHANGED <<host, saved, yes, profile, results, todo, confirmed, said>>

\* An interrupt, at a prompt or in the middle of a fix, which may have done
\* its work.
Killed ==
  /\ pc # "idle"
  /\ host' \in {host} \cup
       UNION {Done(results[c].fix, host) : c \in {d \in todo : pc = "fix" /\ First(d)}}
  /\ pc' = "idle"
  /\ todo' = {}
  /\ exit' = "killed"
  /\ UNCHANGED <<saved, yes, profile, results, confirmed, said>>

-----------------------------------------------------------------------------
(* Between the runs                                                        *)

set_profile(p) ==
  /\ pc = "idle"
  /\ saved' = p
  /\ UNCHANGED <<host, pc, yes, profile, results, todo, confirmed, said, exit>>

\* The next login has the groups of the account.
LogsIn ==
  /\ pc = "idle"
  /\ host' = [host EXCEPT !.session = host.account]
  /\ UNCHANGED <<saved, pc, yes, profile, results, todo, confirmed, said, exit>>

ScrubEnds ==
  /\ host.scrub = "running"
  /\ host' = [host EXCEPT !.scrub = "recent"]
  /\ UNCHANGED <<saved, pc, yes, profile, results, todo, confirmed, said, exit>>

Next ==
  \/ \E scope \in Scopes, apply, assume_yes \in BOOLEAN, env \in Profile \cup {"none"} :
       Begin(scope, apply, assume_yes, env)
  \/ \E c \in todo : AutoApply(c) \/ Accept(c) \/ Decline(c) \/ Applies(c)
  \/ Finish
  \/ Killed
  \/ \E p \in Profile : set_profile(p)
  \/ LogsIn
  \/ ScrubEnds

Spec == Init /\ [][Next]_vars

-----------------------------------------------------------------------------

\* Type invariant; what is offered has a fix, and is offered by a run.
TypeOK ==
  /\ DOMAIN host = Facts /\ \A f \in Facts : host[f] \in Values[f]
  /\ saved \in Profile \cup {"none"}
  /\ pc \in {"idle", "report", "fix"}
  /\ yes \in BOOLEAN /\ confirmed \in BOOLEAN
  /\ profile \in Profile
  /\ \A c \in DOMAIN results : results[c].status \in Status
  /\ todo \subseteq {c \in DOMAIN results : Offers(c)}
  /\ \A c \in DOMAIN said : said[c] \in {"nothing", "applied", "failed"}
  /\ exit \in {"none", "killed", "0", "1"}
  /\ pc = "fix" => todo # {}
  /\ pc = "idle" => todo = {}

\* What doctor changes without a confirmation, --yes or not, is that a daemon
\* runs that was stopped, and the audio drop-in: no package, no group, no
\* pool (cli.md: "anything that installs packages or changes state always
\* prompts").
UnattendedOnlyStarts ==
  [][pc = "fix" /\ pc' # "fix" /\ ~confirmed =>
       \A f \in Facts : host'[f] # host[f] =>
         \/ f = "codec"
         \/ f \in {"docker", "tailscale"} /\ host[f] = "stopped"]_vars

\* On a desktop doctor leaves alone what the profile does not expect, even
\* if every prompt is answered with yes: no pool is imported or scrubbed, no
\* snapshot tool installed, and QEMU comes only as a package of incus
\* (profile.py, runner.py:20-31).
DesktopLeftAlone ==
  [][pc = "fix" /\ pc' # "fix" /\ profile = "desktop" =>
       /\ host'.pool = host.pool
       /\ host'.snapshots = host.snapshots
       /\ host'.scrub # host.scrub => host.scrub = "running"
       /\ host'.qemu # host.qemu => \E c \in todo : First(c) /\ results[c].fix = "bootstrap incus"]_vars

\* A run that ends with 0 leaves a host on which the same run would find no
\* failure: what was applied after the checks, and what was not, has broken
\* nothing (runner.py:100-153, cli.py:407).
ZeroIsEarned ==
  exit = "0" =>
    LET now == run(host)
    IN \A c \in DOMAIN results : _apply_profile(c, now[c], profile).status # "FAIL"

\* Results that went stale while earlier fixes were applied start nothing
\* that is not needed any more.  A scrub may be offered twice, and bootstrap
\* asks the host again before it acts (runner.py:100-140).
FixStillNeeded ==
  [][\A c \in todo :
       pc = "fix" /\ pc' = "report" /\ First(c)
         /\ results[c].fix \notin Bootstraps \cup {"zpool scrub"} =>
       run(host)[c] = results[c]]_vars

\* A fix that is reported as applied removes the finding it was offered for,
\* and no later fix of the run brings it back.  The exceptions are the fixes
\* whose exit code does not tell, Silent, and a scrub of a pool with data
\* errors (fixes.py:36-46).
AppliedClears ==
  \A c \in DOMAIN said :
    said[c] = "applied" /\ results[c].fix \notin Silent /\ c # PoolHealth =>
      run(host)[c].fix # results[c].fix

\* The same without the exceptions: "FixResult indicating success/failure"
\* (fixes.py:28) says success of a fix that left everything as it was.
AppliedIsCured ==
  \A c \in DOMAIN said :
    said[c] = "applied" => run(host)[c].fix # results[c].fix
=============================================================================
