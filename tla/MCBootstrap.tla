----------------------------- MODULE MCBootstrap -----------------------------
(* Three kinds of component, in the order of components.toml: docker (an     *)
(* upstream installer and two `post`, whose probe sees the installer alone), *)
(* zfs and rocm (archive packages, the second with a `post`), and a script   *)
(* whose probe sees only its last command (llamacpp).                        *)
EXTENDS Bootstrap

Shipped ==
  << [method |-> "curl_sh", steps |-> 3, probe |-> {1}],
     [method |-> "apt",     steps |-> 1, probe |-> {1}],
     [method |-> "apt",     steps |-> 2, probe |-> {1}],
     [method |-> "script",  steps |-> 2, probe |-> {2}] >>
=============================================================================
