-------------------------- MODULE Bootstrap_proofs --------------------------
(***************************************************************************)
(* Proofs about Bootstrap for every manifest and any number of             *)
(* invocations: what a run of `msai bootstrap` updates, answers for,       *)
(* leaves on the host and reports.                                         *)
(***************************************************************************)
EXTENDS Bootstrap, TLAPS

\* The local apt_updated tells whether this invocation has updated.
FlagRight == (apt_updated => updates = 1) /\ (~apt_updated => updates = 0)

\* The count of updates: right between components, and while one runs either
\* its own update is still to come, or it is done, or another's flag counts.
UpdateInv ==
  /\ updates <= 1
  /\ pc \in {"next", "ask"} => FlagRight
  /\ \A c \in todo : At("run", c) =>
       /\ at = 0 => NeedsUpdate(c) /\ updates = 0
       /\ at > 0 /\ Manifest[c].method = "apt" => updates = 1
       /\ at > 0 /\ Manifest[c].method # "apt" => FlagRight

\* The commands before the one at hand are in effect, as far as the runner is
\* told; so are all commands of a component that earned its outcome.
Before ==
  \A c \in todo : At("run", c) =>
    \A i \in 1..at : i < at => Piped(c, i) \/ <<c, i>> \in effects

Earned(c) == \A i \in 1..Manifest[c].steps : Piped(c, i) \/ <<c, i>> \in effects

\* A dry run does not get to the prompt.
DryInv ==
  mode.dry_run =>
    /\ pc \notin {"ask", "run"}
    /\ \A c \in Components : outcomes[c] \in {"none", "planned", "skipped"}

-----------------------------------------------------------------------------

LEMMA Numbers ==
  \A c \in Components : /\ c \in Nat
                        /\ Manifest[c].steps \in Nat \ {0}
<1> DEFINE Component == [method : {"apt", "curl_sh", "script"},
                         steps  : Nat \ {0},
                         probe  : SUBSET Nat]
<1>1. Manifest \in Seq(Component)
  BY ManifestAssumption
<1>2. Component = Component /\ \A m \in Component : m.steps \in Nat \ {0}
  OBVIOUS
<1> HIDE DEF Component
<1>3. DOMAIN Manifest \subseteq Nat /\ \A c \in DOMAIN Manifest : Manifest[c] \in Component
  BY <1>1
<1>. QED
  BY <1>2, <1>3 DEF Components

LEMMA NoAnswer == Unanswered \in [Components -> Status]
BY DEF Unanswered, Status

\* One component is at hand at a time.
LEMMA OneFirst ==
  ASSUME TypeOK, NEW c \in todo, NEW d \in todo, First(c), First(d)
  PROVE  c = d
BY Numbers DEF First, TypeOK

\* What the steps of a component change, for the lemmas below.
LEMMA EffectType ==
  ASSUME TypeOK, NEW c \in todo
  PROVE  Effect(c) \subseteq Components \X Nat
BY DEF Effect, TypeOK

\* A command that exits 0 has left its effect, unless it is the piped one.
LEMMA Achieves ==
  ASSUME NEW c, NEW left \in Achieved(c)
  PROVE  /\ left \subseteq Effect(c)
         /\ ~Piped(c, at) => left = Effect(c)
BY DEF Achieved

-----------------------------------------------------------------------------

LEMMA TypeStep ==
  ASSUME TypeOK, [Next]_vars
  PROVE  TypeOK'
<1>1. CASE Invoke
  <2>2. PICK names \in SUBSET Components : selected' = Select(names) /\ todo' = Select(names)
    BY <1>1 DEF Invoke
  <2>3. Select(names) \subseteq Components
    BY <2>2 DEF Select
  <2>4. invoked' \in 0..MaxInvocations
    BY <1>1, InvocationsAssumption DEF Invoke, AtPrompt, TypeOK
  <2>5. pc' = "next" /\ at' = 0 /\ mode' \in Modes /\ apt_updated' = FALSE
        /\ outcomes' = Unanswered /\ updates' = 0 /\ effects' = effects
    BY <1>1 DEF Invoke
  <2>. QED
    BY <2>2, <2>3, <2>4, <2>5, NoAnswer DEF TypeOK, At
<1>2. CASE UnknownName
  BY <1>2, NoAnswer, InvocationsAssumption DEF UnknownName, AtPrompt, TypeOK, At
<1>3. ASSUME NEW c \in todo, Install(c) PROVE TypeOK'
  <2>0. c \in Components /\ Manifest[c].steps \in Nat \ {0}
    BY Numbers DEF TypeOK
  <2>1. CASE Skip(c)
    BY <2>1, <2>0 DEF Skip, Answer, TypeOK, At, Status
  <2>2. CASE Look(c)
    BY <2>2, <2>0 DEF Look, Answer, TypeOK, At, Status
  <2>3. CASE Decline(c)
    BY <2>3, <2>0 DEF Decline, Answer, TypeOK, At, Status
  <2>4. CASE Accept(c)
    <3>1. \A d \in todo : First(d) => d = c
      BY <2>4, OneFirst DEF Accept, At
    <3>. QED
      BY <2>4, <2>0, <3>1 DEF Accept, TypeOK, At, First
  <2>5. CASE Succeeds(c)
    <3>1. \A d \in todo : First(d) => d = c
      BY <2>5, OneFirst DEF Succeeds, At
    <3>2. effects' \subseteq Components \X Nat /\ updates' \in Nat
      BY <2>5, EffectType, Achieves DEF Succeeds, Runs, TypeOK
    <3>3. CASE at = Manifest[c].steps
      BY <2>5, <3>2, <3>3, <2>0 DEF Succeeds, Ends, Answer, TypeOK, At, Status
    <3>4. CASE at # Manifest[c].steps
      BY <2>5, <3>1, <3>2, <3>4, <2>0 DEF Succeeds, TypeOK, At, First
    <3>. QED
      BY <3>3, <3>4
  <2>6. CASE Fails(c)
    <3>1. effects' \subseteq Components \X Nat /\ updates' \in Nat
      BY <2>6, EffectType DEF Fails, Runs, TypeOK
    <3>. QED
      BY <2>6, <3>1, <2>0 DEF Fails, Ends, Answer, TypeOK, At, Status
  <2>. QED
    BY <1>3, <2>1, <2>2, <2>3, <2>4, <2>5, <2>6 DEF Install
<1>4. CASE Finish
  BY <1>4 DEF Finish, TypeOK, At
<1>5. CASE Interrupt
  <2>1. effects' \subseteq Components \X Nat
    BY <1>5, EffectType DEF Interrupt, TypeOK
  <2>. QED
    BY <1>5, <2>1 DEF Interrupt, TypeOK, At
<1>6. CASE UNCHANGED vars
  BY <1>6 DEF vars, TypeOK, At, First
<1>. QED
  BY <1>1, <1>2, <1>3, <1>4, <1>5, <1>6 DEF Next

\* Every variable stays in its type, and a component that is run always has a
\* command to run: for every manifest.
THEOREM Typing == Spec => []TypeOK
<1>1. ASSUME Init PROVE TypeOK
  <2>1. invoked \in 0..MaxInvocations
    BY <1>1, InvocationsAssumption DEF Init
  <2>2. apt_updated \in BOOLEAN
    BY <1>1 DEF Init
  <2>3. \A c \in todo : At("run", c) => at <= Manifest[c].steps
    BY <1>1 DEF Init
  <2>. QED
    BY <1>1, <2>1, <2>2, <2>3, NoAnswer DEF Init, TypeOK
<1>2. TypeOK /\ [Next]_vars => TypeOK'
  BY TypeStep
<1>. QED
  BY <1>1, <1>2, PTL DEF Spec

-----------------------------------------------------------------------------

LEMMA UpdateStep ==
  ASSUME TypeOK, UpdateInv, [Next]_vars
  PROVE  UpdateInv'
<1> USE DEF FlagRight
<1>1. CASE Invoke
  BY <1>1 DEF Invoke, UpdateInv, At
<1>2. CASE UnknownName
  BY <1>2 DEF UnknownName, UpdateInv, At
<1>3. ASSUME NEW c \in todo, Install(c) PROVE UpdateInv'
  <2>0. First(c) /\ updates \in Nat /\ at \in Nat /\ apt_updated \in BOOLEAN
    BY <1>3 DEF Install, Skip, Look, Decline, Accept, Succeeds, Fails, At, TypeOK
  <2>1. CASE Skip(c) \/ Look(c) \/ Decline(c)
    BY <2>1 DEF Skip, Look, Decline, Answer, UpdateInv, At
  <2>2. \A d \in todo : First(d) => d = c
    BY <2>0, OneFirst
  <2>3. CASE Accept(c)
    <3>1. pc = "ask" /\ FlagRight /\ UNCHANGED <<todo, apt_updated, updates>>
      BY <2>3 DEF Accept, At, UpdateInv
    <3>2. CASE NeedsUpdate(c)
      <4>1. at' = 0 /\ pc' = "run" /\ NeedsUpdate(c)'
        BY <2>3, <3>2 DEF Accept, NeedsUpdate
      <4>2. updates' = 0
        BY <3>1, <3>2 DEF NeedsUpdate
      <4>. QED
        BY <2>2, <3>1, <4>1, <4>2 DEF UpdateInv, At, First
    <3>3. CASE ~NeedsUpdate(c)
      <4>1. at' = 1 /\ pc' = "run"
        BY <2>3, <3>3 DEF Accept
      <4>2. Manifest[c].method = "apt" => updates' = 1
        BY <3>1, <3>3 DEF NeedsUpdate
      <4>. QED
        BY <2>2, <3>1, <4>1, <4>2 DEF UpdateInv, At, First
    <3>. QED
      BY <3>2, <3>3
  \* A command: the update itself when at = 0, else one of the component's.
  <2>4. ASSUME At("run", c), updates' = (IF at = 0 THEN updates + 1 ELSE updates)
        PROVE  /\ updates' <= 1
               /\ Manifest[c].method = "apt" => updates' = 1
               /\ Manifest[c].method # "apt" => at > 0 /\ FlagRight /\ updates' = updates
    <3>1. /\ updates <= 1
          /\ at = 0 => NeedsUpdate(c) /\ updates = 0
          /\ at > 0 /\ Manifest[c].method = "apt" => updates = 1
          /\ at > 0 /\ Manifest[c].method # "apt" => FlagRight
      BY <2>4 DEF UpdateInv
    <3>2. CASE at = 0
      BY <2>4, <3>1, <3>2 DEF NeedsUpdate
    <3>3. CASE at > 0
      BY <2>4, <3>1, <3>3
    <3>. QED
      BY <2>0, <3>2, <3>3
  \* The component ends.
  <2>5. ASSUME At("run", c), updates' = (IF at = 0 THEN updates + 1 ELSE updates),
               NEW status, Ends(c, status)
        PROVE  UpdateInv'
    <3>1. pc' = "next" /\ apt_updated' = (apt_updated \/ NeedsUpdate(c))
      BY <2>5 DEF Ends, Answer
    <3>2. CASE Manifest[c].method = "apt"
      <4>1. apt_updated' = TRUE
        BY <2>0, <3>1, <3>2 DEF NeedsUpdate
      <4>. QED
        BY <2>4, <2>5, <3>1, <3>2, <4>1 DEF UpdateInv, At
    <3>3. CASE Manifest[c].method # "apt"
      <4>1. apt_updated' = apt_updated
        BY <2>0, <3>1, <3>3 DEF NeedsUpdate
      <4>. QED
        BY <2>4, <2>5, <3>1, <3>3, <4>1 DEF UpdateInv, At
    <3>. QED
      BY <3>2, <3>3
  <2>6. CASE Succeeds(c)
    <3>1. At("run", c) /\ updates' = (IF at = 0 THEN updates + 1 ELSE updates)
      BY <2>6 DEF Succeeds, Runs
    <3>2. CASE at = Manifest[c].steps
      BY <2>6, <2>5, <3>1, <3>2 DEF Succeeds
    <3>3. CASE at # Manifest[c].steps
      <4>1. at' = at + 1 /\ UNCHANGED <<pc, todo, outcomes, apt_updated>>
        BY <2>6, <3>3 DEF Succeeds
      <4>2. at' > 0 /\ at' # 0 /\ pc' = "run"
        BY <2>0, <3>1, <4>1 DEF At
      <4>. QED
        BY <2>2, <2>4, <3>1, <4>1, <4>2 DEF UpdateInv, At, First
    <3>. QED
      BY <3>2, <3>3
  <2>7. CASE Fails(c)
    BY <2>7, <2>5 DEF Fails, Runs
  <2>. QED
    BY <1>3, <2>1, <2>3, <2>6, <2>7 DEF Install
<1>4. CASE Finish
  BY <1>4 DEF Finish, UpdateInv, At
<1>5. CASE Interrupt
  BY <1>5 DEF Interrupt, UpdateInv, At
<1>6. CASE UNCHANGED vars
  BY <1>6 DEF vars, UpdateInv, At, First, NeedsUpdate
<1>. QED
  BY <1>1, <1>2, <1>3, <1>4, <1>5, <1>6 DEF Next

\* "sudo apt-get update runs at most once per invocation", and before any
\* archive package of it, whatever fails.
THEOREM UpdateOnce == Spec => []UpdatedOnce
<1>1. Init => UpdateInv
  BY DEF Init, UpdateInv, At
<1>2. TypeOK /\ UpdateInv /\ [Next]_vars => UpdateInv'
  BY UpdateStep
<1>3. UpdateInv => UpdatedOnce
  BY DEF UpdateInv, UpdatedOnce
<1>. QED
  BY <1>1, <1>2, <1>3, Typing, PTL DEF Spec

-----------------------------------------------------------------------------

\* The first component gets an outcome and leaves the list.
LEMMA AnswerStep ==
  ASSUME TypeOK, Isolated, NEW c \in todo, First(c),
         NEW status, status # "none", Answer(c, status), selected' = selected
  PROVE  Isolated'
<1>1. /\ outcomes \in [Components -> Status]
      /\ todo \subseteq Components /\ selected \subseteq Components /\ Components \subseteq Nat
  BY Numbers DEF TypeOK
<1>2. outcomes' = [outcomes EXCEPT ![c] = status] /\ todo' = todo \ {c} /\ pc' = "next"
  BY DEF Answer
<1>3. todo' = {d \in selected' : outcomes'[d] = "none"}
  BY <1>1, <1>2 DEF Isolated
<1>4. \A d \in Components \ selected' : outcomes'[d] = "none"
  BY <1>1, <1>2 DEF Isolated
<1>5. ASSUME NEW d \in todo', NEW e \in selected' \ todo' PROVE e < d
  <2>1. d \in todo /\ d # c /\ c < d
    BY <1>1, <1>2 DEF First
  <2>2. CASE e = c
    BY <2>1, <2>2
  <2>3. CASE e # c
    BY <1>2, <2>1, <2>3 DEF Isolated
  <2>. QED
    BY <2>2, <2>3
<1>. QED
  BY <1>2, <1>3, <1>4, <1>5 DEF Isolated

LEMMA IsolatedStep ==
  ASSUME TypeOK, Isolated, [Next]_vars
  PROVE  Isolated'
<1>1. CASE Invoke
  <2>1. todo' = selected' /\ pc' = "next" /\ outcomes' = Unanswered
    BY <1>1 DEF Invoke
  <2>2. selected' \subseteq Components
    BY <1>1 DEF Invoke, Select
  <2>. QED
    BY <2>1, <2>2 DEF Isolated, Unanswered
<1>2. CASE UnknownName
  BY <1>2 DEF UnknownName, Isolated, Unanswered
<1>3. ASSUME NEW c \in todo, Install(c) PROVE Isolated'
  <2>1. First(c) /\ selected' = selected
    BY <1>3 DEF Install, Skip, Look, Decline, Accept, Succeeds, Fails, At
  <2>2. CASE \E status : status # "none" /\ Answer(c, status)
    BY <2>1, <2>2, AnswerStep
  <2>3. CASE UNCHANGED <<todo, outcomes>> /\ pc' # "done"
    BY <2>1, <2>3 DEF Isolated
  <2>4. CASE Skip(c) \/ Look(c) \/ Decline(c)
    BY <2>2, <2>3, <2>4 DEF Skip, Look, Decline
  <2>5. CASE Accept(c)
    BY <2>3, <2>5 DEF Accept
  <2>6. CASE Succeeds(c)
    <3>1. At("run", c)
      BY <2>6 DEF Succeeds
    <3>. QED
      BY <2>2, <2>3, <2>6, <3>1 DEF Succeeds, Ends, At
  <2>7. CASE Fails(c)
    BY <2>2, <2>7 DEF Fails, Ends
  <2>. QED
    BY <1>3, <2>4, <2>5, <2>6, <2>7 DEF Install
<1>4. CASE Finish
  BY <1>4 DEF Finish, Isolated
<1>5. CASE Interrupt
  BY <1>5 DEF Interrupt, Isolated
<1>6. CASE UNCHANGED vars
  BY <1>6 DEF vars, Isolated
<1>. QED
  BY <1>1, <1>2, <1>3, <1>4, <1>5, <1>6 DEF Next

\* No failure, refusal or skip of a component keeps another one from its turn.
THEOREM Isolation == Spec => []Isolated
<1>1. Init => Isolated
  BY DEF Init, Isolated, Unanswered
<1>2. TypeOK /\ Isolated /\ [Next]_vars => Isolated'
  BY IsolatedStep
<1>. QED
  BY <1>1, <1>2, Typing, PTL DEF Spec

-----------------------------------------------------------------------------

OrderInv == NoPostWithoutInstall /\ Before /\ ReportedInstalled

\* A command adds at most its own effect, so what was in order stays so and
\* what was installed stays installed.
LEMMA Grows ==
  ASSUME TypeOK, NoPostWithoutInstall, Before, NEW c \in todo, At("run", c),
         NEW left \in SUBSET Effect(c), effects' = effects \cup left
  PROVE  /\ NoPostWithoutInstall'
         /\ \A d \in Components : Earned(d) => Earned(d)'
<1>1. at \in Nat
  BY DEF TypeOK
<1>2. ASSUME NEW e \in effects', NEW i \in 1..e[2] PROVE Piped(e[1], i) \/ <<e[1], i>> \in effects'
  <2>1. CASE e \in effects
    BY <2>1, <1>2 DEF NoPostWithoutInstall
  <2>2. CASE e \notin effects
    <3>1. e = <<c, at>> /\ at # 0 /\ e \in effects'
      BY <2>2, <1>2 DEF Effect
    <3>2. i \in 1..at /\ e[1] = c
      BY <3>1, <1>2
    <3>3. CASE i = at
      BY <3>1, <3>3
    <3>4. CASE i # at
      <4>1. i < at
        BY <3>2, <3>4, <1>1
      <4>. QED
        BY <3>2, <4>1 DEF Before
    <3>. QED
      BY <3>3, <3>4
  <2>. QED
    BY <2>1, <2>2
<1>3. NoPostWithoutInstall'
  BY <1>2 DEF NoPostWithoutInstall, Piped
<1>4. \A d \in Components : Earned(d) => Earned(d)'
  BY DEF Earned, Piped
<1>. QED
  BY <1>3, <1>4

\* Outcomes change only for components that were not installed by it.
LEMMA StillReported ==
  ASSUME ReportedInstalled, TypeOK, NEW c \in todo, NEW status \in Status \ {"installed"},
         outcomes' = [outcomes EXCEPT ![c] = status],
         \A d \in Components : Earned(d) => Earned(d)'
  PROVE  ReportedInstalled'
BY DEF ReportedInstalled, Earned, Piped, TypeOK

LEMMA OrderStep ==
  ASSUME TypeOK, OrderInv, [Next]_vars
  PROVE  OrderInv'
<1> USE DEF OrderInv
<1>0. effects' = effects => NoPostWithoutInstall' /\ \A d \in Components : Earned(d) => Earned(d)'
  BY DEF NoPostWithoutInstall, Earned, Piped
<1>1. CASE Invoke \/ UnknownName
  <2>1. effects' = effects /\ pc' # "run" /\ outcomes' = Unanswered
    BY <1>1 DEF Invoke, UnknownName
  <2>. QED
    BY <1>0, <2>1 DEF Before, At, ReportedInstalled, Unanswered
<1>2. ASSUME NEW c \in todo, Install(c) PROVE OrderInv'
  <2>0. at \in Nat /\ c \in Components /\ Manifest[c].steps \in Nat \ {0}
    BY Numbers DEF TypeOK
  <2>1. CASE Skip(c) \/ Look(c) \/ Decline(c)
    <3>1. effects' = effects /\ pc' # "run"
      BY <2>1 DEF Skip, Look, Decline, Answer
    <3>2. ReportedInstalled'
      <4>1. CASE UNCHANGED outcomes
        BY <1>0, <3>1, <4>1 DEF ReportedInstalled
      <4>2. CASE \E status \in Status \ {"installed"} : Answer(c, status)
        BY <1>0, <3>1, <4>2, StillReported DEF Answer
      <4>. QED
        BY <2>1, <4>1, <4>2 DEF Skip, Look, Decline, Status
    <3>. QED
      BY <1>0, <3>1, <3>2 DEF Before, At
  <2>2. CASE Accept(c)
    <3>1. at' \in {0, 1} /\ UNCHANGED <<effects, outcomes>>
      BY <2>2 DEF Accept
    <3>2. Before'
      BY <3>1 DEF Before
    <3>. QED
      BY <1>0, <3>1, <3>2 DEF ReportedInstalled
  <2>3. CASE Succeeds(c)
    <3>1. PICK left \in Achieved(c) : effects' = effects \cup left
      BY <2>3 DEF Succeeds, Runs
    <3>0. At("run", c)
      BY <2>3 DEF Succeeds
    <3>2. NoPostWithoutInstall' /\ \A d \in Components : Earned(d) => Earned(d)'
      BY <3>0, <3>1, Achieves, Grows
    <3>3. ASSUME NEW i \in Nat \ {0}, i <= at PROVE Piped(c, i) \/ <<c, i>> \in effects'
      <4>1. CASE i = at
        BY <3>1, <3>3, <4>1, Achieves DEF Effect
      <4>2. CASE i < at
        BY <2>0, <3>0, <3>1, <3>3, <4>2 DEF Before
      <4>. QED
        BY <2>0, <3>3, <4>1, <4>2
    <3>4. CASE at = Manifest[c].steps
      <4>1. pc' # "run" /\ outcomes' = [outcomes EXCEPT ![c] = "installed"]
        BY <2>3, <3>4 DEF Succeeds, Ends, Answer
      <4>2. Earned(c)'
        BY <2>0, <3>3, <3>4 DEF Earned, Piped
      <4>3. ReportedInstalled'
        BY <3>2, <4>1, <4>2 DEF ReportedInstalled, Earned, TypeOK
      <4>. QED
        BY <3>2, <4>1, <4>3 DEF Before, At
    <3>5. CASE at # Manifest[c].steps
      <4>1. at' = at + 1 /\ UNCHANGED <<pc, todo, outcomes>>
        BY <2>3, <3>5 DEF Succeeds
      <4>2. \A d \in todo : First(d) => d = c
        BY <3>0, OneFirst DEF At
      <4>3. ASSUME NEW i \in 1..at', i < at' PROVE Piped(c, i) \/ <<c, i>> \in effects'
        BY <2>0, <3>3, <4>1, <4>3
      <4>4. Before'
        BY <4>1, <4>2, <4>3 DEF Before, At, First, Piped
      <4>5. ReportedInstalled'
        BY <3>2, <4>1 DEF ReportedInstalled, Earned, Piped
      <4>. QED
        BY <3>2, <4>4, <4>5
    <3>. QED
      BY <3>4, <3>5
  <2>4. CASE Fails(c)
    <3>1. PICK left \in SUBSET Effect(c) : effects' = effects \cup left
      BY <2>4 DEF Fails, Runs
    <3>2. At("run", c) /\ pc' # "run" /\ outcomes' = [outcomes EXCEPT ![c] = "failed"]
      BY <2>4 DEF Fails, Ends, Answer
    <3>3. NoPostWithoutInstall' /\ \A d \in Components : Earned(d) => Earned(d)'
      BY <3>1, <3>2, Grows
    <3>4. ReportedInstalled'
      BY <3>2, <3>3, StillReported DEF Status
    <3>. QED
      BY <3>2, <3>3, <3>4 DEF Before, At
  <2>. QED
    BY <1>2, <2>1, <2>2, <2>3, <2>4 DEF Install
<1>3. CASE Finish
  BY <1>0, <1>3 DEF Finish, Before, At, ReportedInstalled
<1>4. CASE Interrupt
  <2>1. NoPostWithoutInstall' /\ \A d \in Components : Earned(d) => Earned(d)'
    <3>1. CASE effects' = effects
      BY <1>0, <3>1
    <3>2. CASE \E c \in todo : At("run", c) /\ effects' = effects \cup Effect(c)
      BY <3>2, Grows
    <3>. QED
      BY <1>4, <3>1, <3>2 DEF Interrupt
  <2>. QED
    BY <1>4, <2>1 DEF Interrupt, Before, At, ReportedInstalled
<1>5. CASE UNCHANGED vars
  BY <1>0, <1>5 DEF vars, Before, At, First, ReportedInstalled
<1>. QED
  BY <1>1, <1>2, <1>3, <1>4, <1>5 DEF Next

LEMMA Order == Spec => []OrderInv
<1>1. Init => OrderInv
  BY DEF Init, OrderInv, NoPostWithoutInstall, Before, At, ReportedInstalled, Unanswered
<1>2. TypeOK /\ OrderInv /\ [Next]_vars => OrderInv'
  BY OrderStep
<1>. QED
  BY <1>1, <1>2, Typing, PTL DEF Spec

\* Over any number of failed and interrupted invocations, no command of a
\* component is in effect without those before it, the piped installer of an
\* upstream component excepted: a failed download goes unnoticed (runner.py:33).
THEOREM Ordering == Spec => []NoPostWithoutInstall
<1>1. OrderInv => NoPostWithoutInstall
  BY DEF OrderInv
<1>. QED
  BY <1>1, Order, PTL

\* What is reported as installed has every command in effect of whose failure
\* the runner is told, `post` included.
THEOREM Reporting == Spec => []ReportedInstalled
<1>1. OrderInv => ReportedInstalled
  BY DEF OrderInv
<1>. QED
  BY <1>1, Order, PTL

-----------------------------------------------------------------------------

\* An invocation keeps its flags; a dry run has no way to the prompt.
LEMMA DryStep ==
  ASSUME TypeOK, DryInv, [Next]_vars
  PROVE  DryInv'
<1>1. CASE Invoke \/ UnknownName
  BY <1>1 DEF Invoke, UnknownName, DryInv, Unanswered
<1>2. ASSUME NEW c \in todo, Install(c) PROVE DryInv'
  <2>1. CASE Skip(c)
    BY <1>2, <2>1 DEF Skip, Answer, DryInv, TypeOK
  <2>2. CASE Look(c)
    BY <1>2, <2>2 DEF Look, Answer, DryInv, TypeOK
  <2>3. CASE Decline(c) \/ Accept(c) \/ Succeeds(c) \/ Fails(c)
    BY <2>3 DEF Decline, Accept, Succeeds, Fails, At, DryInv
  <2>. QED
    BY <1>2, <2>1, <2>2, <2>3 DEF Install
<1>3. CASE Finish \/ Interrupt
  BY <1>3 DEF Finish, Interrupt, DryInv
<1>4. CASE UNCHANGED vars
  BY <1>4 DEF vars, DryInv
<1>. QED
  BY <1>1, <1>2, <1>3, <1>4 DEF Next

\* A dry run leaves the host alone and answers "planned" or "skipped" only.
THEOREM DryRun == Spec => DryRunIsInert
<1>1. Init => DryInv
  BY DEF Init, DryInv, Unanswered
<1>2. TypeOK /\ DryInv /\ [Next]_vars => DryInv'
  BY DryStep
<1>3. ASSUME TypeOK, DryInv, DryInv', [Next]_vars
      PROVE  [mode.dry_run /\ pc \notin {"idle", "done", "stopped"} =>
                /\ UNCHANGED effects
                /\ \A c \in Components : outcomes'[c] \in {"none", "planned", "skipped"}]_vars
  <2>1. SUFFICES ASSUME Next, mode.dry_run, pc \notin {"idle", "done", "stopped"}
                 PROVE  /\ UNCHANGED effects
                        /\ \A c \in Components : outcomes'[c] \in {"none", "planned", "skipped"}
    BY <1>3
  <2>2. pc # "run" /\ pc # "ask"
    BY <2>1, <1>3 DEF DryInv
  <2>3. mode' = mode /\ effects' = effects
    BY <2>1, <2>2 DEF Next, Invoke, UnknownName, AtPrompt, Install, Skip, Look, Decline,
                      Accept, Succeeds, Fails, At, Finish, Interrupt
  <2>. QED
    BY <2>1, <2>3, <1>3 DEF DryInv
<1>. QED
  BY <1>1, <1>2, <1>3, Typing, PTL DEF Spec, DryRunIsInert
=============================================================================
