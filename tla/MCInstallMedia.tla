---------------------------- MODULE MCInstallMedia ----------------------------
(* Instances for TLC: two Ubuntu instances that share everything, and one   *)
(* of each other kind.                                                      *)
EXTENDS InstallMedia

CONSTANTS a, b, f, w

Kinds ==
  [i \in Inst |-> CASE i \in {a, b} -> "subiquity"
                    [] i = f -> "kickstart"
                    [] i = w -> "autounattend"]
=============================================================================
