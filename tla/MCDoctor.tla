------------------------------ MODULE MCDoctor ------------------------------
(* Hosts and scopes of the model-checking run of Doctor.                     *)
EXTENDS Doctor

\* Everything is in order, in the groups a user of all of it needs.
Healthy ==
  [release |-> "26.04", kernel |-> <<7, 0>>, memory |-> 128, cpu |-> "ryzen ai max",
   sshd |-> "disabled", codec |-> "persistent", pool |-> "imported",
   tank |-> Tank("ONLINE", {"ONLINE"}), errors |-> FALSE, scrub |-> "recent",
   snapshots |-> "tool", docker |-> "running", compose |-> TRUE, kvm |-> TRUE,
   qemu |-> TRUE, iommu |-> TRUE, vfio |-> TRUE, amdgpu |-> TRUE, rocm |-> "working",
   vulkan |-> "working", server |-> TRUE, cli |-> "gpu", incus |-> "running",
   storage |-> TRUE, tailscale |-> "running", tailnet |-> "named",
   session |-> {"docker", "render", "video", "incus-admin"},
   account |-> {"docker", "render", "video", "incus-admin"}, graphical |-> FALSE]

Groups(g) == [Healthy EXCEPT !.session = g, !.account = g]

\* Hosts with one thing out of order, or two that meet in a run: the facts that
\* two checks look at or that a fix of another check can change.
Deviations(h, facts) == UNION {{[h EXCEPT ![f] = v] : v \in Values[f]} : f \in facts}
OneOff == Deviations(Healthy, Facts \ {"session", "account"})
Meeting == {"pool", "errors", "scrub", "snapshots", "docker", "compose", "incus",
            "storage", "qemu", "tailscale", "tailnet", "codec", "graphical"}
TwoOff == UNION {Deviations(h, Meeting) : h \in Deviations(Healthy, Meeting)}

\* A host before incus, one before docker, and one with nobody in a group.
Fresh ==
  {[Groups({"docker"}) EXCEPT !.incus = "absent", !.qemu = FALSE, !.storage = FALSE],
   [Groups({"incus-admin"}) EXCEPT !.docker = "absent", !.compose = FALSE],
   Groups({}), Groups({"render"}), [Healthy EXCEPT !.session = {}]}

SmallHosts == OneOff \cup TwoOff \cup Fresh

\* All categories, and one alone.
SmallScopes == {Category, {"zfs"}}
=============================================================================
