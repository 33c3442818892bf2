------------------------------ MODULE Bootstrap ------------------------------
(***************************************************************************)
(* `msai bootstrap` (install/runner.py): install the components of the     *)
(* manifest one after another, in file order, each skipped when its        *)
(* `detect` probe passes and each isolated from the failures of the        *)
(* others.  The host survives from one invocation to the next; an          *)
(* invocation may be interrupted at any command.                           *)
(*                                                                         *)
(* A component is its position in the manifest.  Its commands are numbered *)
(* 1..steps (the installer's first, then `post`); command 0 is the         *)
(* `apt-get update` that may precede them.  What a command does to the     *)
(* host is the single fact <<component, command>> in `effects`.            *)
(***************************************************************************)
EXTENDS Naturals, Sequences

CONSTANTS
  Manifest,       \* components.toml, in file order: what each component's
                  \* method is, how many commands install_commands gives, and
                  \* which of them its detect probe can see
  MaxInvocations  \* bound: how often the operator runs `msai bootstrap`

ASSUME ManifestAssumption ==
  /\ Manifest \in Seq([method : {"apt", "curl_sh", "script"},
                       steps  : Nat \ {0},
                       probe  : SUBSET Nat])
  /\ \A c \in DOMAIN Manifest : Manifest[c].probe \subseteq 1..Manifest[c].steps
ASSUME InvocationsAssumption == MaxInvocations \in Nat

VARIABLES
  effects,      \* on the host: the commands whose effect is in place
  pc,           \* "idle", "next", "ask", "run", and how it ended: "done", "stopped"
  mode,         \* the flags of this invocation
  selected,     \* the components it was asked for
  todo,         \* those it has not answered for; the first is at hand
  at,           \* the command of that one that runs next
  apt_updated,  \* the local of bootstrap()
  outcomes,     \* the outcomes bootstrap() returns, by component
  updates,      \* how often this invocation has run apt-get update
  invoked       \* invocations so far

vars == <<effects, pc, mode, selected, todo, at, apt_updated, outcomes, updates,
          invoked>>

Components == DOMAIN Manifest
Modes      == [dry_run : BOOLEAN, assume_yes : BOOLEAN, force : BOOLEAN]
Commands(c) == {<<c, i>> : i \in 1..Manifest[c].steps}
Installed(c) == Commands(c) \subseteq effects

Status     == {"none", "skipped", "planned", "installed", "failed"}
Unanswered == [c \in Components |-> "none"]

\* No names means the whole manifest.
Select(names) == IF names = {} THEN Components ELSE names

\* The order is the manifest's, whatever the order of the names.
First(c) == c \in todo /\ \A d \in todo : c <= d

\* The detect probe looks only at the effects it can see; a component without
\* a probe is never taken for installed.
Detects(c) ==
  /\ Manifest[c].probe # {}
  /\ {<<c, i>> : i \in Manifest[c].probe} \subseteq effects

NeedsUpdate(c) == Manifest[c].method = "apt" /\ ~apt_updated

Init ==
  /\ effects = {}
  /\ pc = "idle"
  /\ mode \in Modes
  /\ selected = {} /\ todo = {} /\ outcomes = Unanswered
  /\ at = 0
  /\ apt_updated = FALSE
  /\ updates = 0
  /\ invoked = 0

AtPrompt == pc \in {"idle", "done", "stopped"} /\ invoked < MaxInvocations

Invoke ==
  /\ AtPrompt
  /\ \E names \in SUBSET Components :
       /\ selected' = Select(names)
       /\ todo' = Select(names)
  /\ mode' \in Modes
  /\ pc' = "next"
  /\ at' = 0
  /\ apt_updated' = FALSE
  /\ outcomes' = Unanswered
  /\ updates' = 0
  /\ invoked' = invoked + 1
  /\ UNCHANGED effects

\* A name the manifest does not have ends the invocation before anything runs.
UnknownName ==
  /\ AtPrompt
  /\ pc' = "stopped"
  /\ selected' = {} /\ todo' = {} /\ outcomes' = Unanswered
  /\ updates' = 0
  /\ invoked' = invoked + 1
  /\ UNCHANGED <<effects, mode, at, apt_updated>>

Answer(c, status) ==
  /\ outcomes' = [outcomes EXCEPT ![c] = status]
  /\ todo' = todo \ {c}
  /\ pc' = "next"

At(here, c) == pc = here /\ First(c)

\* The probe has a time limit, so it may also miss what is there: Look is
\* possible whatever Detects says, Skip only when it holds.
Skip(c) ==
  /\ At("next", c)
  /\ ~mode.force
  /\ Detects(c)
  /\ Answer(c, "skipped")
  /\ UNCHANGED <<effects, mode, selected, at, apt_updated, updates, invoked>>

\* Mutant of Look: the dry-run test comes after the prompt.
LookAsks(c) ==
  /\ At("next", c)
  /\ pc' = "ask"
  /\ UNCHANGED <<effects, mode, selected, todo, at, apt_updated, outcomes, updates,
                 invoked>>

Look(c) ==
  /\ At("next", c)
  /\ IF mode.dry_run THEN Answer(c, "planned")
                     ELSE pc' = "ask" /\ UNCHANGED <<todo, outcomes>>
  /\ UNCHANGED <<effects, mode, selected, at, apt_updated, updates, invoked>>

Decline(c) ==
  /\ At("ask", c)
  /\ ~mode.assume_yes
  /\ Answer(c, "skipped")
  /\ UNCHANGED <<effects, mode, selected, at, apt_updated, updates, invoked>>

Accept(c) ==
  /\ At("ask", c)
  /\ pc' = "run"
  /\ at' = IF NeedsUpdate(c) THEN 0 ELSE 1
  /\ UNCHANGED <<effects, mode, selected, todo, apt_updated, outcomes, updates,
                 invoked>>

\* Mutant of Ends: an update counts only when its component was installed.
EndsUpdatedIfInstalled(c, status) ==
  /\ Answer(c, status)
  /\ apt_updated' = (apt_updated \/ (status = "installed" /\ NeedsUpdate(c)))

\* _run_component has returned: bootstrap() records the outcome, and that an
\* update was part of the plan, whether or not it got that far.
Ends(c, status) ==
  /\ Answer(c, status)
  /\ apt_updated' = (apt_updated \/ NeedsUpdate(c))

\* What the command at hand does to the host: `apt-get update` nothing that
\* the components see.
Effect(c) == IF at = 0 THEN {} ELSE {<<c, at>>}

\* `curl URL | shell` runs under bash -c without pipefail: its exit code is the
\* shell's, which is 0 also when the download failed and there was no script.
Piped(c, i) == Manifest[c].method = "curl_sh" /\ i = 1

\* What is there of its effect when the command at hand exits 0.
Achieved(c) == IF Piped(c, at) THEN SUBSET Effect(c) ELSE {Effect(c)}

\* The command has run and left this behind.
Runs(left) ==
  /\ effects' = effects \cup left
  /\ updates' = IF at = 0 THEN updates + 1 ELSE updates

\* Mutant of Succeeds: `post` is left out of the plan.
SucceedsWithoutPost(c) ==
  /\ At("run", c)
  /\ \E left \in Achieved(c) : Runs(left)
  /\ IF at = 1
       THEN Ends(c, "installed") /\ UNCHANGED at
       ELSE at' = at + 1 /\ UNCHANGED <<pc, todo, outcomes, apt_updated>>
  /\ UNCHANGED <<mode, selected, invoked>>

\* Mutant of Succeeds: the end of the plan is found one command late.
SucceedsPastTheEnd(c) ==
  /\ At("run", c)
  /\ \E left \in Achieved(c) : Runs(left)
  /\ IF at > Manifest[c].steps
       THEN Ends(c, "installed") /\ UNCHANGED at
       ELSE at' = at + 1 /\ UNCHANGED <<pc, todo, outcomes, apt_updated>>
  /\ UNCHANGED <<mode, selected, invoked>>

Succeeds(c) ==
  /\ At("run", c)
  /\ \E left \in Achieved(c) : Runs(left)
  /\ IF at = Manifest[c].steps
       THEN Ends(c, "installed") /\ UNCHANGED at
       ELSE at' = at + 1 /\ UNCHANGED <<pc, todo, outcomes, apt_updated>>
  /\ UNCHANGED <<mode, selected, invoked>>

\* Mutant of Fails: a failing component takes the rest of the run with it.
FailsAbort(c) ==
  /\ At("run", c)
  /\ \E left \in SUBSET Effect(c) : Runs(left)
  /\ outcomes' = [outcomes EXCEPT ![c] = "failed"]
  /\ todo' = {}
  /\ pc' = "next"
  /\ UNCHANGED <<mode, selected, at, apt_updated, invoked>>

\* Mutant of Fails: the remaining commands run all the same.
FailsGoesOn(c) ==
  /\ At("run", c)
  /\ \E left \in SUBSET Effect(c) : Runs(left)
  /\ IF at = Manifest[c].steps
       THEN Ends(c, "failed") /\ UNCHANGED at
       ELSE at' = at + 1 /\ UNCHANGED <<pc, todo, outcomes, apt_updated>>
  /\ UNCHANGED <<mode, selected, invoked>>

\* A command that exits non-zero, or raises, may already have had its effect
\* (a package whose configuration failed, a build that linked the one binary
\* the probe looks for); the component's remaining commands do not run.
Fails(c) ==
  /\ At("run", c)
  /\ \E left \in SUBSET Effect(c) : Runs(left)
  /\ Ends(c, "failed")
  /\ UNCHANGED <<mode, selected, at, invoked>>

Finish ==
  /\ pc = "next" /\ todo = {}
  /\ pc' = "done"
  /\ UNCHANGED <<effects, mode, selected, todo, at, apt_updated, outcomes, updates,
                 invoked>>

\* Ctrl-C, at a prompt or during a command: nothing in the runner catches it.
Interrupt ==
  /\ pc \in {"next", "ask", "run"}
  /\ \/ UNCHANGED effects
     \/ \E c \in todo : At("run", c) /\ effects' = effects \cup Effect(c)
  /\ pc' = "stopped"
  /\ UNCHANGED <<mode, selected, todo, at, apt_updated, outcomes, updates, invoked>>

Install(c) ==
  Skip(c) \/ Look(c) \/ Decline(c) \/ Accept(c) \/ Succeeds(c) \/ Fails(c)

Next ==
  \/ Invoke \/ UnknownName
  \/ \E c \in todo : Install(c)
  \/ Finish \/ Interrupt

Spec == Init /\ [][Next]_vars

-----------------------------------------------------------------------------

\* Type invariant; a component that is run has a command to run.
TypeOK ==
  /\ effects \subseteq Components \X Nat
  /\ pc \in {"idle", "next", "ask", "run", "done", "stopped"}
  /\ mode \in Modes
  /\ selected \subseteq Components
  /\ todo \subseteq Components
  /\ at \in Nat
  /\ \A c \in todo : At("run", c) => at <= Manifest[c].steps
  /\ apt_updated \in BOOLEAN
  /\ outcomes \in [Components -> Status]
  /\ updates \in Nat
  /\ invoked \in 0..MaxInvocations

\* "sudo apt-get update runs at most once per invocation" (runner.py:5), also
\* when it fails, and no archive package is installed in an invocation that
\* has not at least tried it.
UpdatedOnce ==
  /\ updates <= 1
  /\ \A c \in todo :
       At("run", c) /\ at > 0 /\ Manifest[c].method = "apt" => updates = 1

\* "isolated (a failing component warns and the run continues)" (runner.py:4):
\* the components still to come are exactly the selected ones without an
\* outcome, and come after all that have one; so an invocation that ends by
\* itself has answered for all of them.
Isolated ==
  /\ todo = {c \in selected : outcomes[c] = "none"}
  /\ \A c \in Components \ selected : outcomes[c] = "none"
  /\ \A c \in todo, d \in selected \ todo : d < c
  /\ pc = "done" => todo = {}

\* "Run a component's commands in order, stopping at the first failure"
\* (runner.py:120): over any number of failed, interrupted and repeated
\* invocations, a command is never in effect without all those before it, but
\* for the piped installer, of whose failure the runner is not told.
NoPostWithoutInstall ==
  \A e \in effects : \A i \in 1..e[2] : Piped(e[1], i) \/ <<e[1], i>> \in effects

\* An "installed" outcome is earned by every command that can fail: with the
\* exception of a piped installer, they are all in effect (runner.py:121-132).
ReportedInstalled ==
  \A c \in Components : outcomes[c] = "installed" =>
    \A i \in 1..Manifest[c].steps : Piped(c, i) \/ <<c, i>> \in effects

\* The same without the exception: what was stopped "at the first failure" is
\* not "installed" (runner.py:120-132).  A failed download breaks it.
InstalledIsInstalled ==
  \A c \in Components : outcomes[c] = "installed" => Installed(c)

\* "Every component is idempotent (skipped when its detect probe passes)"
\* (runner.py:3): what --yes skips is what needs no more work.  A `post` that
\* failed in an earlier invocation breaks it.
SkippedIsInstalled ==
  \A c \in Components :
    mode.assume_yes /\ outcomes[c] = "skipped" => Installed(c)

\* A dry run never touches the host, nor does it answer otherwise than with
\* "planned" or "skipped" (test_install.py, test_dry_run_never_executes).
DryRunIsInert ==
  [][mode.dry_run /\ pc \notin {"idle", "done", "stopped"} =>
       /\ UNCHANGED effects
       /\ \A c \in Components : outcomes'[c] \in {"none", "planned", "skipped"}]_vars
=============================================================================
