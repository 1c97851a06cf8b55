-------------------------- MODULE Lifecycle_proofs --------------------------
(***************************************************************************)
(* For every number of runs, revisions and attempts: the types of          *)
(* Lifecycle, that a row's verdicts belong to its revision, that only      *)
(* vetted revisions are published and that a waiting row has its event.    *)
(* The inductive invariant adds what a run may write: the revision and     *)
(* state it read were sound when it read them, and soundness only grows.   *)
(* A second one, Budget, holds of histories without an overtaken run: it   *)
(* bounds the repairs and makes progress monotonic.                        *)
(***************************************************************************)
EXTENDS Lifecycle, TLAPS

Ready == {"eligible", "published"}
Begun == Failing \cup {"persist"}

RowSound ==
  /\ EvidenceIsOfActiveRevision
  /\ WaitingHasEvent
  /\ row.state \in Ready => Vetted(row.rev)
  /\ row.state # "none" => row.rev \in Revs

ReadSound(p) ==
  /\ run[p].state # "none" /\ run[p].rev \in Revs
  /\ run[p].state \in Ready => Vetted(run[p].rev)
  /\ Announced(run[p].state)

RunSound(p) ==
  /\ run[p].pc \in Begun \cup {"options"} => row.state # "none"
  /\ run[p].pc \in Begun => ReadSound(p)
  /\ run[p].pc \in {"target", "start"} => run[p].rev \in Revs
  /\ run[p].pc \in {"child", "commit"} => run[p].again.rev \in Revs
  /\ run[p].pc = "evaluate" => \A s \in run[p].evidence : run[p].rev \in passed[s]
  /\ run[p].pc \in {"publish", "record"} => run[p].state = "eligible"
  /\ run[p].pc = "record" => run[p].rev \in artifacts

LifecycleInv ==
  /\ TypeOK
  /\ RowSound
  /\ \A p \in Procs : RunSound(p)
  /\ OnlyVettedPublished

Grows ==
  /\ events \subseteq events' /\ artifacts \subseteq artifacts'
  /\ \A s \in Stages : passed[s] \subseteq passed'[s]
  /\ row.state # "none" => row'.state # "none"

LEMMA NamesDiffer ==
  /\ Idle \in Runs /\ NoRow \in Rows /\ NoRow.state = "none" /\ NoRow.rev = 0
  /\ Idle.pc = "idle" /\ "idle" \notin Begun \cup {"options", "target", "start", "child", "commit"}
  /\ Revs \subseteq 0..MaxRevs /\ 0 \notin Revs
  BY LifecycleAssumption DEF Idle, Runs, NoRow, NoResults, Rows, States, Settled, Places, Kinds,
     Stages, Verdicts, Begun, Failing, Repairing, Steps, Revs

LEMMA RecordTypes ==
  ASSUME TypeOK, NEW p \in Procs, NEW rev \in 0..MaxRevs, NEW state \in States,
         NEW attempt \in Nat, NEW kinds \in SUBSET Kinds, NEW verdict \in Verdicts,
         Record(p, rev, state, attempt, kinds, verdict)
  PROVE  /\ row' \in Rows /\ row'.state = state /\ row'.rev = rev
         /\ \A k \in Kinds : row'.results[k] = IF k \in kinds THEN verdict ELSE Kept(rev, k)
         /\ overtaken' \in {"no", "yes"}
<1>1. \A k \in Kinds : Kept(rev, k) \in Verdicts
  BY DEF TypeOK, Rows, Kept, Verdicts
<1>2. attempt \in 0..MaxAttempt
  BY LifecycleAssumption DEF Record
<1>3. [k \in Kinds |-> IF k \in kinds THEN verdict ELSE Kept(rev, k)] \in [Kinds -> Verdicts]
  BY <1>1
<1>4. /\ row' \in Rows /\ row'.state = state /\ row'.rev = rev
      /\ row'.results = [k \in Kinds |-> IF k \in kinds THEN verdict ELSE Kept(rev, k)]
  BY <1>2, <1>3 DEF Record, Rows
<1>5. overtaken' \in {"no", "yes"}
  BY DEF Record, Acts, TypeOK
<1> QED
  BY <1>4, <1>5

LEMMA CurrentTyped ==
  ASSUME TypeOK, NEW p \in Procs, NEW place, End(p) \/ Wait(p, place)
  PROVE  current' \subseteq Procs
  BY DEF TypeOK, End, Wait

(* A transition keeps the row sound when what it says is. *)
LEMMA RecordSound ==
  ASSUME LifecycleInv, Grows,
         NEW p \in Procs, NEW rev \in Revs, NEW state \in States \ {"none"},
         NEW attempt \in Nat, NEW kinds \in SUBSET Kinds, NEW verdict \in Verdicts,
         Record(p, rev, state, attempt, kinds, verdict),
         \A s \in Stages : s \in kinds /\ verdict = "pass" => rev \in passed'[s],
         "publication" \in kinds /\ verdict = "pass" => rev \in artifacts',
         state \in Ready => \A s \in Stages : rev \in passed'[s],
         Announced(state)'
  PROVE  RowSound'
<1>1. /\ row'.state = state /\ row'.rev = rev
      /\ \A k \in Kinds : row'.results[k] = IF k \in kinds THEN verdict ELSE Kept(rev, k)
  BY RecordTypes, NamesDiffer DEF LifecycleInv
<1>2. \A s \in Stages : row'.results[s] = "pass" => rev \in passed'[s]
  BY <1>1 DEF LifecycleInv, RowSound, EvidenceIsOfActiveRevision, Grows, Kept, Kinds
<1>3. row'.results["publication"] = "pass" => rev \in artifacts'
  BY <1>1 DEF LifecycleInv, RowSound, EvidenceIsOfActiveRevision, Grows, Kept, Kinds
<1>4. EvidenceIsOfActiveRevision'
  BY <1>1, <1>2, <1>3 DEF EvidenceIsOfActiveRevision
<1>5. WaitingHasEvent' /\ (row'.state \in Ready => Vetted(row.rev)') /\ row'.rev \in Revs
  BY <1>1 DEF WaitingHasEvent, Announced, Vetted
<1> QED
  BY <1>4, <1>5 DEF RowSound

LEMMA RowKept ==
  ASSUME LifecycleInv, Grows, UNCHANGED row
  PROVE  RowSound'
  BY DEF LifecycleInv, Grows, RowSound, EvidenceIsOfActiveRevision, WaitingHasEvent, Announced, Vetted

LEMMA ArtifactsKept ==
  ASSUME LifecycleInv, Grows, UNCHANGED artifacts
  PROVE  OnlyVettedPublished'
  BY DEF LifecycleInv, Grows, OnlyVettedPublished, Vetted

LEMMA IdleSound ==
  ASSUME NEW p \in Procs, run'[p] = Idle
  PROVE  RunSound(p)'
<1>1. run'[p].pc = "idle"
  BY NamesDiffer
<1> QED
  BY <1>1 DEF RunSound, Begun, Failing, Repairing, Steps

(* What a run had read stays sound while the others go on. *)
LEMMA ReadKept ==
  ASSUME Grows, NEW p \in Procs, ReadSound(p),
         run'[p].state = run[p].state, run'[p].rev = run[p].rev
  PROVE  ReadSound(p)'
<1>1. (run'[p].state \in Ready => Vetted(run[p].rev)') /\ Announced(run[p].state)'
  BY DEF Grows, ReadSound, Vetted, Announced
<1> QED
  BY <1>1 DEF ReadSound, Revs

LEMMA OthersSound ==
  ASSUME LifecycleInv, Grows, NEW p \in Procs, RunSound(p)',
         \A q \in Procs \ {p} : run'[q] = run[q]
  PROVE  \A q \in Procs : RunSound(q)'
<1> SUFFICES ASSUME NEW q \in Procs \ {p} PROVE RunSound(q)'
  OBVIOUS
<1>1. RunSound(q) /\ run'[q] = run[q] /\ run[q].evidence \subseteq Stages
  BY DEF LifecycleInv, TypeOK, Runs
<1>2. ReadSound(q) => ReadSound(q)'
  BY <1>1, ReadKept
<1> QED
  BY <1>1, <1>2 DEF RunSound, Grows, Revs

(* The conclusion of every step from its parts. *)
LEMMA StepFrom ==
  ASSUME LifecycleInv, Grows, NEW p \in Procs,
         row' \in Rows, RowSound', OnlyVettedPublished',
         run'[p] \in Runs, RunSound(p)', run' = [run EXCEPT ![p] = run'[p]],
         number' \in [Revs -> Nat], repairs' \in [Revs -> Nat],
         events' \subseteq Steps \cup {"published"}, artifacts' \subseteq Revs,
         passed' \in [Stages -> SUBSET Revs],
         current' \subseteq Procs, overtaken' \in {"no", "yes"}
  PROVE  LifecycleInv'
<1>1. run \in [Procs -> Runs]
  BY DEF LifecycleInv, TypeOK
<1>2. run' \in [Procs -> Runs] /\ \A q \in Procs \ {p} : run'[q] = run[q]
  BY <1>1
<1>3. TypeOK'
  BY <1>2 DEF TypeOK
<1>4. \A q \in Procs : RunSound(q)'
  BY <1>2, OthersSound
<1> QED
  BY <1>3, <1>4 DEF LifecycleInv

LEMMA EnsuredSteps == TypeOK => Ensured \subseteq Steps
  BY DEF Ensured, Steps

(* What the shape of the state says of the run that moves. *)
LEMMA RunTyped ==
  ASSUME LifecycleInv, NEW p \in Procs
  PROVE  /\ run[p] \in Runs /\ run[p].rev \in 0..MaxRevs /\ run[p].state \in States
         /\ run[p].tries \in Nat /\ run[p].evidence \subseteq Stages /\ run[p].pc \in Places
         /\ run[p].again.rev \in 0..MaxRevs /\ run[p].again.attempt \in Nat
         /\ row.rev \in 0..MaxRevs /\ row.attempt \in Nat /\ row.state \in States
         /\ run \in [Procs -> Runs] /\ RunSound(p) /\ TypeOK
<1>1. run[p] \in Runs /\ row \in Rows /\ RunSound(p) /\ TypeOK /\ run \in [Procs -> Runs]
  BY DEF LifecycleInv, TypeOK
<1>2. run[p].again.attempt \in 0..MaxAttempt /\ row.attempt \in 0..MaxAttempt
  BY <1>1 DEF Runs, Rows
<1>3. run[p].again.attempt \in Nat /\ row.attempt \in Nat
  BY <1>2, LifecycleAssumption
<1> QED
  BY <1>1, <1>3 DEF Runs, Rows

(* A run ends with a transition: the parts that do not depend on it. *)
LEMMA TransitionEnds ==
  ASSUME LifecycleInv, NEW p \in Procs, NEW rev \in Revs, NEW state \in States \ {"none"},
         NEW attempt \in Nat, NEW kinds \in SUBSET Kinds, NEW verdict \in Verdicts,
         Record(p, rev, state, attempt, kinds, verdict), End(p),
         UNCHANGED dataVars, events \subseteq events',
         events' \subseteq Steps \cup {"published"},
         passed' \in [Stages -> SUBSET Revs], \A s \in Stages : passed[s] \subseteq passed'[s],
         \A s \in Stages : s \in kinds /\ verdict = "pass" => rev \in passed'[s],
         "publication" \in kinds /\ verdict = "pass" => rev \in artifacts,
         state \in Ready => \A s \in Stages : rev \in passed'[s],
         Announced(state)'
  PROVE  LifecycleInv'
<1>1. /\ row' \in Rows /\ row'.state = state
      /\ current' \subseteq Procs /\ overtaken' \in {"no", "yes"}
  BY RecordTypes, CurrentTyped, NamesDiffer DEF LifecycleInv
<1>2. Grows
  BY <1>1 DEF Grows, dataVars
<1>3. RowSound'
  BY <1>2, RecordSound DEF dataVars
<1>4. run'[p] = Idle /\ run'[p] \in Runs /\ run' = [run EXCEPT ![p] = run'[p]]
  BY RunTyped, NamesDiffer DEF End
<1>5. RunSound(p)' /\ OnlyVettedPublished'
  BY <1>2, <1>4, IdleSound, ArtifactsKept DEF dataVars
<1>6. /\ number' \in [Revs -> Nat] /\ repairs' \in [Revs -> Nat] /\ artifacts' \subseteq Revs
  BY RunTyped DEF TypeOK, dataVars
<1> QED
  BY <1>1, <1>2, <1>3, <1>4, <1>5, <1>6, StepFrom

(* A step that leaves the row and what is published alone. *)
LEMMA RowStays ==
  ASSUME LifecycleInv, NEW p \in Procs,
         UNCHANGED <<row, dataVars, passed>>, events \subseteq events',
         events' \subseteq Steps \cup {"published"},
         current' \subseteq Procs, overtaken' \in {"no", "yes"},
         run'[p] \in Runs, RunSound(p)', run' = [run EXCEPT ![p] = run'[p]]
  PROVE  LifecycleInv'
<1>1. Grows
  BY DEF Grows, dataVars
<1>2. RowSound' /\ OnlyVettedPublished'
  BY <1>1, RowKept, ArtifactsKept DEF dataVars
<1>3. /\ number' \in [Revs -> Nat] /\ repairs' \in [Revs -> Nat] /\ artifacts' \subseteq Revs
      /\ row' \in Rows /\ passed' \in [Stages -> SUBSET Revs]
  BY DEF LifecycleInv, TypeOK, dataVars
<1> QED
  BY <1>1, <1>2, <1>3, StepFrom

LEMMA InitInv == Init => LifecycleInv
<1> SUFFICES ASSUME Init PROVE LifecycleInv
  OBVIOUS
<1>1. TypeOK
  BY NamesDiffer DEF Init, TypeOK
<1>2. RowSound /\ OnlyVettedPublished
  BY DEF Init, NoRow, NoResults, RowSound, EvidenceIsOfActiveRevision, WaitingHasEvent, Announced,
     Ready, OnlyVettedPublished, Stages, Kinds
<1>3. \A p \in Procs : run[p].pc = "idle"
  BY NamesDiffer DEF Init
<1>4. \A p \in Procs : RunSound(p)
  BY <1>3 DEF RunSound, Begun, Failing, Repairing, Steps
<1> QED
  BY <1>1, <1>2, <1>4 DEF LifecycleInv

LEMMA TargetSound ==
  ASSUME NEW p \in Procs, NEW r \in Revs, run'[p] = [Idle EXCEPT !.pc = "target", !.rev = r]
  PROVE  run'[p] \in Runs /\ RunSound(p)'
<1>1. run'[p].pc = "target" /\ run'[p].rev = r
  BY DEF Idle
<1>2. run'[p] \in Runs
  BY NamesDiffer, "target" \in Places DEF Places, Runs
<1>3. RunSound(p)'
  BY <1>1 DEF RunSound, Begun, Failing, Repairing, Steps, Revs
<1> QED
  BY <1>2, <1>3

LEMMA StartSteps ==
  ASSUME LifecycleInv, NEW p \in Procs, Start(p)
  PROVE  LifecycleInv'
<1> USE RunTyped, NamesDiffer
<1>1. ASSUME NEW r \in Revs, Generate(p, r) PROVE LifecycleInv'
  <2>1. run'[p] = [Idle EXCEPT !.pc = "target", !.rev = r] /\ run' = [run EXCEPT ![p] = run'[p]]
    BY <1>1 DEF Generate
  <2>2. run'[p] \in Runs /\ RunSound(p)'
    BY <2>1, TargetSound
  <2>3. Grows /\ number' \in [Revs -> Nat]
    BY <1>1 DEF Generate, Grows, historyVars, TypeOK
  <2>4. RowSound' /\ OnlyVettedPublished'
    BY <1>1, <2>3, RowKept, ArtifactsKept DEF Generate
  <2>5. /\ repairs' \in [Revs -> Nat] /\ row' \in Rows /\ passed' \in [Stages -> SUBSET Revs]
        /\ events' \subseteq Steps \cup {"published"} /\ artifacts' \subseteq Revs
        /\ current' \subseteq Procs /\ overtaken' \in {"no", "yes"}
    BY <1>1 DEF Generate, historyVars, TypeOK
  <2> QED
    BY <2>1, <2>2, <2>3, <2>4, <2>5, StepFrom
<1>2. ASSUME NEW r \in Revs, TakeLatest(p, r) PROVE LifecycleInv'
  <2>1. run'[p] = [Idle EXCEPT !.pc = "target", !.rev = r] /\ run' = [run EXCEPT ![p] = run'[p]]
    BY <1>2 DEF TakeLatest
  <2>2. run'[p] \in Runs /\ RunSound(p)'
    BY <2>1, TargetSound
  <2> QED
    BY <1>2, <2>1, <2>2, RowStays DEF TakeLatest, historyVars, dataVars, TypeOK
<1>3. ASSUME StartRead(p) PROVE LifecycleInv'
  <2>1. /\ UNCHANGED <<row, dataVars, passed>> /\ events \subseteq events'
        /\ events' \subseteq Steps \cup {"published"}
        /\ current' \subseteq Procs /\ overtaken' \in {"no", "yes"}
    <3>1. UNCHANGED <<row, dataVars, passed, overtaken>>
      BY <1>3 DEF StartRead
    <3>2. current' \subseteq Procs
      BY <1>3, CurrentTyped DEF StartRead, TypeOK
    <3>3. events \subseteq events' /\ events' \subseteq Steps \cup {"published"}
      BY <1>3, EnsuredSteps DEF StartRead, TypeOK
    <3> QED
      BY <3>1, <3>2, <3>3 DEF TypeOK
  <2>2. CASE End(p)
    <3>1. run'[p] = Idle /\ run' = [run EXCEPT ![p] = run'[p]]
      BY <2>2 DEF End
    <3> QED
      BY <2>1, <3>1, IdleSound, RowStays
  <2>3. CASE run' = [run EXCEPT ![p].pc = "start", ![p].state = row.state, ![p].tries = row.attempt]
    <3>1. /\ run'[p] = [run[p] EXCEPT !.pc = "start", !.state = row.state, !.tries = row.attempt]
          /\ run' = [run EXCEPT ![p] = run'[p]]
      BY <2>3
    <3>2. run'[p] \in Runs
      BY <3>1 DEF Runs, Places
    <3>3. RunSound(p)'
      BY <1>3, <3>1 DEF StartRead, Runs, RunSound, Begun, Failing, Repairing, Steps, Revs
    <3> QED
      BY <2>1, <3>1, <3>2, <3>3, RowStays
  <2> QED
    BY <1>3, <2>2, <2>3 DEF StartRead
<1>4. ASSUME StartWrite(p) PROVE LifecycleInv'
  <2>1. PICK rev \in Revs, attempt \in Nat : rev = run[p].rev /\ attempt = run[p].tries + 1
    BY <1>4 DEF StartWrite, RunSound
  <2>2. /\ End(p) /\ UNCHANGED <<dataVars, passed>> /\ events' = events \cup {"validate"}
        /\ events' \subseteq Steps \cup {"published"} /\ passed' \in [Stages -> SUBSET Revs]
    BY <1>4 DEF StartWrite, Emit, TypeOK, Steps
  <2>3. /\ {"drafted", "validating"} \subseteq States \ {"none"}
        /\ {"drafted", "validating"} \cap Ready = {} /\ "none" \in Verdicts
        /\ \A state \in {"drafted", "validating"} : Announced(state)'
    BY <2>2 DEF States, Settled, Ready, Verdicts, Announced
  <2>4. CASE Record(p, rev, "drafted", 1, {}, "none")
    BY <2>2, <2>3, <2>4, TransitionEnds
  <2>5. CASE Record(p, rev, "validating", attempt, Kinds, "none")
    BY <2>2, <2>3, <2>5, TransitionEnds
  <2> QED
    BY <1>4, <2>1, <2>4, <2>5 DEF StartWrite
<1> QED
  BY <1>1, <1>2, <1>3, <1>4 DEF Start

(* What a run in a step may write back. *)
LEMMA BegunSound ==
  ASSUME LifecycleInv, NEW p \in Procs, run[p].pc \in Begun
  PROVE  /\ run[p].rev \in Revs /\ run[p].state \in States \ {"none"}
         /\ run[p].state \in Ready => Vetted(run[p].rev)
         /\ Announced(run[p].state) /\ row.state # "none" /\ run[p].tries \in Nat
  BY RunTyped DEF RunSound, ReadSound

(* A run reads the row for its next step. *)
LEMMA ReadingSound ==
  ASSUME LifecycleInv, NEW p \in Procs, NEW step \in Steps \cup {"persist"}, NEW attempt \in Nat,
         row.state # "none", step = "publish" => row.state = "eligible",
         Reads(p, step, attempt), UNCHANGED <<row, dataVars, passed>>,
         overtaken' \in {"no", "yes"}, events \subseteq events', events' \subseteq Steps \cup {"published"}
  PROVE  LifecycleInv'
<1>1. Evidence(step) \subseteq Stages
  BY DEF Evidence, Stages, Steps
<1>2. /\ run'[p] = [Idle EXCEPT !.pc = step, !.rev = row.rev, !.state = row.state,
                                !.tries = attempt, !.evidence = Evidence(step)]
      /\ run' = [run EXCEPT ![p] = run'[p]] /\ current' \subseteq Procs
  BY RunTyped DEF Reads, TypeOK
<1>3. /\ run'[p].pc = step /\ run'[p].rev = row.rev /\ run'[p].state = row.state
      /\ run'[p].evidence = Evidence(step) /\ run'[p] \in Runs
  <2>1. step \in Places /\ row.rev \in 0..MaxRevs /\ row.state \in States
    BY RunTyped DEF Places
  <2>2. Idle.again \in [rev : 0..MaxRevs, attempt : 0..MaxAttempt]
    BY LifecycleAssumption DEF Idle
  <2>3. run'[p] = [pc |-> step, rev |-> row.rev, state |-> row.state, tries |-> attempt,
                   evidence |-> Evidence(step), again |-> Idle.again]
    BY <1>2 DEF Idle
  <2> QED
    BY <1>1, <2>1, <2>2, <2>3 DEF Runs
<1>4. RowSound /\ row.rev \in Revs
  BY DEF LifecycleInv, RowSound
<1>5. step = "evaluate" => \A s \in Evidence(step) : row.rev \in passed[s]
  BY <1>4 DEF Evidence, RowSound, EvidenceIsOfActiveRevision, Stages
<1>6. ReadSound(p)'
  BY <1>3, <1>4 DEF ReadSound, RowSound, WaitingHasEvent, Announced, Vetted
<1>7. RunSound(p)'
  BY <1>3, <1>5, <1>6 DEF RunSound, Steps
<1> QED
  BY <1>2, <1>3, <1>7, RunTyped, RowStays DEF TypeOK

LEMMA BeginStep ==
  ASSUME LifecycleInv, NEW p \in Procs, NEW step \in Steps, Begin(p, step)
  PROVE  LifecycleInv'
<1>1. row.state \in WorksIn(step) /\ Reads(p, step, row.attempt)
  BY DEF Begin
<1>2. row.state # "none" /\ (step = "publish" => row.state = "eligible")
  BY <1>1 DEF WorksIn, Steps
<1>3. /\ UNCHANGED <<row, dataVars, passed>> /\ events' = events
      /\ overtaken' \in {"no", "yes"}
  BY RunTyped DEF Begin, TypeOK
<1> QED
  BY <1>1, <1>2, <1>3, RunTyped, ReadingSound DEF TypeOK

(* A run in a step ends with a transition of the revision it read. *)
LEMMA WriteEnds ==
  ASSUME LifecycleInv, NEW p \in Procs, run[p].pc \in Begun, NEW state \in States \ {"none"},
         NEW attempt \in Nat, NEW kinds \in SUBSET Kinds, NEW verdict \in Verdicts,
         Record(p, run[p].rev, state, attempt, kinds, verdict), End(p),
         UNCHANGED dataVars, events \subseteq events',
         events' \subseteq Steps \cup {"published"},
         passed' \in [Stages -> SUBSET Revs], \A s \in Stages : passed[s] \subseteq passed'[s],
         \A s \in Stages : s \in kinds /\ verdict = "pass" => run[p].rev \in passed'[s],
         "publication" \in kinds /\ verdict = "pass" => run[p].rev \in artifacts,
         state \in Ready => \A s \in Stages : run[p].rev \in passed'[s],
         Announced(state)'
  PROVE  LifecycleInv'
<1>1. PICK rev \in Revs : rev = run[p].rev
  BY BegunSound
<1> QED
  BY <1>1, TransitionEnds

(* A verdict that does not pass settles the candidate and changes neither  *)
(* the events nor what has passed.                                         *)
LEMMA RefusalEnds ==
  ASSUME LifecycleInv, NEW p \in Procs, run[p].pc \in Begun,
         NEW state \in {"failed", "rejected", "dead_letter"}, NEW kinds \in SUBSET Kinds,
         NEW verdict \in Verdicts \ {"pass"},
         Record(p, run[p].rev, state, run[p].tries, kinds, verdict), End(p),
         UNCHANGED <<dataVars, events, passed>>
  PROVE  LifecycleInv'
<1>1. PICK tries \in Nat : tries = run[p].tries
  BY RunTyped
<1>2. state \in States \ {"none"} /\ state \notin Ready /\ Announced(state)'
  BY DEF States, Settled, Ready, Announced
<1>3. /\ events' \subseteq Steps \cup {"published"} /\ passed' \in [Stages -> SUBSET Revs]
      /\ events \subseteq events' /\ UNCHANGED dataVars
      /\ \A s \in Stages : passed[s] \subseteq passed'[s]
  BY RunTyped DEF TypeOK
<1> QED
  BY <1>1, <1>2, <1>3, WriteEnds

(* A verdict that passes: the state it leads to has its event.             *)
LEMMA PassEnds ==
  ASSUME LifecycleInv, NEW p \in Procs, run[p].pc \in Begun,
         NEW state \in {"replaying", "evaluating", "eligible"}, NEW stage \in Stages,
         NEW step \in Steps,
         Record(p, run[p].rev, state, run[p].tries, {stage}, "pass"), End(p),
         UNCHANGED dataVars, Passes(stage, run[p].rev), Emit(step),
         state = "replaying" => step = "replay", state = "evaluating" => step = "evaluate",
         state = "eligible" => step = "publish",
         state = "eligible" => \A s \in Stages \ {stage} : run[p].rev \in passed[s]
  PROVE  LifecycleInv'
<1>1. PICK tries \in Nat : tries = run[p].tries
  BY RunTyped
<1>2. /\ state \in States \ {"none"} /\ Announced(state)' /\ "pass" \in Verdicts
      /\ {stage} \in SUBSET Kinds /\ "publication" \notin {stage}
  BY DEF States, Announced, Emit, Verdicts, Kinds, Stages
<1>3. events \subseteq events' /\ events' \subseteq Steps \cup {"published"}
  BY RunTyped DEF Emit, TypeOK
<1>4. passed \in [Stages -> SUBSET Revs] /\ run[p].rev \in Revs
  BY RunTyped, BegunSound DEF TypeOK
<1>5. passed' = [passed EXCEPT ![stage] = @ \cup {run[p].rev}]
  BY DEF Passes
<1>6. /\ passed' \in [Stages -> SUBSET Revs] /\ \A s \in Stages : passed[s] \subseteq passed'[s]
      /\ \A s \in Stages : s \in {stage} => run[p].rev \in passed'[s]
  BY <1>4, <1>5
<1>7. state \in Ready => \A s \in Stages : run[p].rev \in passed'[s]
  BY <1>6 DEF Ready
<1> QED
  BY <1>1, <1>2, <1>3, <1>6, <1>7, WriteEnds

LEMMA VerdictSteps ==
  ASSUME LifecycleInv, NEW p \in Procs,
         \/ ValidatePass(p) \/ ValidateFail(p) \/ ReplayPass(p) \/ ReplayDiverge(p)
         \/ EvaluatePass(p) \/ EvaluateReject(p)
  PROVE  LifecycleInv'
<1> USE DEF Answer, Begun, Failing, Repairing, Steps
<1>1. CASE ValidatePass(p)
  <2>1. /\ run[p].pc \in Begun /\ End(p) /\ UNCHANGED dataVars
        /\ Record(p, run[p].rev, "replaying", run[p].tries, {"validation"}, "pass")
        /\ Passes("validation", run[p].rev) /\ Emit("replay")
    BY <1>1 DEF ValidatePass
  <2> QED
    BY <2>1, PassEnds DEF Stages
<1>2. CASE ReplayPass(p)
  <2>1. /\ run[p].pc \in Begun /\ End(p) /\ UNCHANGED dataVars
        /\ Record(p, run[p].rev, "evaluating", run[p].tries, {"replay"}, "pass")
        /\ Passes("replay", run[p].rev) /\ Emit("evaluate")
    BY <1>2 DEF ReplayPass
  <2> QED
    BY <2>1, PassEnds DEF Stages
<1>3. CASE EvaluatePass(p)
  <2>1. /\ run[p].pc \in Begun /\ End(p) /\ UNCHANGED dataVars
        /\ Record(p, run[p].rev, "eligible", run[p].tries, {"evaluation"}, "pass")
        /\ Passes("evaluation", run[p].rev) /\ Emit("publish")
    BY <1>3 DEF EvaluatePass
  <2>2. \A s \in Stages \ {"evaluation"} : run[p].rev \in passed[s]
    BY <1>3, RunTyped DEF EvaluatePass, Gates, RunSound, Stages
  <2> QED
    BY <2>1, <2>2, PassEnds DEF Stages
<1>4. CASE ValidateFail(p)
  <2>1. /\ run[p].pc \in Begun /\ End(p) /\ UNCHANGED <<dataVars, events, passed>>
        /\ Record(p, run[p].rev, "failed", run[p].tries, {"validation"}, "fail")
    BY <1>4 DEF ValidateFail
  <2> QED
    BY <2>1, RefusalEnds DEF Kinds, Stages, Verdicts
<1>5. CASE ReplayDiverge(p)
  <2>1. /\ run[p].pc \in Begun /\ End(p) /\ UNCHANGED <<dataVars, events, passed>>
        /\ Record(p, run[p].rev, "rejected", run[p].tries, {"replay"}, "fail")
    BY <1>5 DEF ReplayDiverge
  <2> QED
    BY <2>1, RefusalEnds DEF Kinds, Stages, Verdicts
<1>6. CASE EvaluateReject(p)
  <2>1. PICK verdict \in {"conditional", "fail"} : Answer(p, "rejected", "evaluation", verdict)
    BY <1>6 DEF EvaluateReject
  <2>2. /\ run[p].pc \in Begun /\ End(p) /\ UNCHANGED <<dataVars, events, passed>>
        /\ Record(p, run[p].rev, "rejected", run[p].tries, {"evaluation"}, verdict)
    BY <1>6, <2>1 DEF EvaluateReject
  <2> QED
    BY <2>2, RefusalEnds DEF Kinds, Stages, Verdicts
<1> QED
  BY <1>1, <1>2, <1>3, <1>4, <1>5, <1>6

LEMMA PublishSteps ==
  ASSUME LifecycleInv, NEW p \in Procs, PublishArtifact(p) \/ PublishRecord(p)
  PROVE  LifecycleInv'
<1>1. CASE PublishArtifact(p)
  <2>1. /\ run[p].pc = "publish" /\ run[p].pc \in Begun /\ run[p].state = "eligible"
        /\ ReadSound(p) /\ row.state # "none"
    BY <1>1, RunTyped DEF PublishArtifact, RunSound, Begun, Failing, Steps
  <2>2. run[p].rev \in Revs /\ Vetted(run[p].rev)
    BY <2>1 DEF ReadSound, Ready
  <2>3. /\ artifacts' = artifacts \cup {run[p].rev}
        /\ UNCHANGED <<row, number, repairs, events, passed, current, overtaken>>
    BY <1>1 DEF PublishArtifact, historyVars
  <2>4. Grows
    BY <2>3 DEF Grows
  <2>5. OnlyVettedPublished'
    BY <2>2, <2>3 DEF LifecycleInv, OnlyVettedPublished, Vetted
  <2>6. /\ run'[p] = [run[p] EXCEPT !.pc = "record"] /\ run' = [run EXCEPT ![p] = run'[p]]
    BY <1>1, RunTyped DEF PublishArtifact, Wait
  <2>7. /\ run'[p].pc = "record" /\ run'[p].rev = run[p].rev /\ run'[p].state = run[p].state
        /\ run'[p] \in Runs
    BY <2>6, RunTyped DEF Runs, Places
  <2>8. ReadSound(p)'
    BY <2>1, <2>4, <2>7, ReadKept
  <2>9. RunSound(p)'
    BY <2>1, <2>3, <2>7, <2>8 DEF RunSound
  <2> QED
    BY <2>2, <2>3, <2>4, <2>5, <2>6, <2>7, <2>9, RunTyped, RowKept, StepFrom DEF TypeOK
<1>2. CASE PublishRecord(p)
  <2>1. PICK tries \in Nat : tries = run[p].tries
    BY RunTyped
  <2>2. /\ run[p].pc = "record" /\ run[p].pc \in Begun /\ End(p) /\ UNCHANGED <<dataVars, passed>>
        /\ Record(p, run[p].rev, "published", tries, {"publication"}, "pass")
        /\ events' = events \cup {"published"}
    BY <1>2, <2>1 DEF PublishRecord, Answer, Begun, Failing, Emit
  <2>3. run[p].rev \in artifacts /\ Vetted(run[p].rev)
    BY <2>2, RunTyped, BegunSound DEF RunSound, Ready
  <2>4. /\ "published" \in States \ {"none"} /\ {"publication"} \in SUBSET Kinds
        /\ "pass" \in Verdicts /\ Announced("published")'
        /\ \A s \in Stages : s \notin {"publication"}
    BY <2>2 DEF States, Settled, Kinds, Verdicts, Announced, Stages
  <2>5. /\ events' \subseteq Steps \cup {"published"} /\ events \subseteq events'
        /\ passed' \in [Stages -> SUBSET Revs] /\ \A s \in Stages : passed[s] \subseteq passed'[s]
        /\ \A s \in Stages : run[p].rev \in passed'[s]
    BY <2>2, <2>3, RunTyped DEF TypeOK, Vetted
  <2> QED
    BY <2>2, <2>3, <2>4, <2>5, WriteEnds
<1> QED
  BY <1>1, <1>2

(* A run waits with its place changed: what it had read stays sound. *)
LEMMA WaitSound ==
  ASSUME LifecycleInv, Grows, NEW p \in Procs, NEW place \in Repairing, run[p].pc \in Begun,
         run'[p].pc = place, run'[p].rev = run[p].rev, run'[p].state = run[p].state,
         place \in {"child", "commit"} => run'[p].again.rev \in Revs
  PROVE  RunSound(p)'
<1>1. ReadSound(p)'
  BY RunTyped, ReadKept DEF RunSound
<1>2. row'.state # "none"
  BY RunTyped DEF RunSound, Grows
<1> QED
  BY <1>1, <1>2 DEF RunSound, Repairing

(* A repair writes its revision and goes on. *)
LEMMA RepairWrites ==
  ASSUME LifecycleInv, NEW p \in Procs, run[p].pc \in {"child", "commit"},
         NEW state \in {"failed", "validating"}, NEW attempt \in Nat,
         Record(p, run[p].again.rev, state, attempt, {}, "none"), Wait(p, "again"),
         UNCHANGED <<dataVars, passed>>, events \subseteq events',
         events' \subseteq Steps \cup {"published"}, Announced(state)'
  PROVE  LifecycleInv'
<1>1. PICK rev \in Revs : rev = run[p].again.rev
  BY RunTyped DEF RunSound
<1>2. Record(p, rev, state, attempt, {}, "none")
  BY <1>1
<1>3. state \in States \ {"none"} /\ state \notin Ready /\ "none" \in Verdicts
  BY DEF States, Settled, Ready, Verdicts
<1>4. /\ row' \in Rows /\ row'.state = state
      /\ current' \subseteq Procs /\ overtaken' \in {"no", "yes"}
  <2>1. TypeOK /\ rev \in 0..MaxRevs /\ {} \in SUBSET Kinds /\ state \in States
    BY <1>3, RunTyped, NamesDiffer
  <2>2. row' \in Rows /\ row'.state = state /\ overtaken' \in {"no", "yes"}
    BY <1>2, <1>3, <2>1, RecordTypes
  <2>3. current' \subseteq Procs
    BY <2>1, CurrentTyped
  <2> QED
    BY <2>2, <2>3
<1>5. Grows
  BY <1>3, <1>4 DEF Grows, dataVars
<1>6. RowSound' /\ OnlyVettedPublished'
  BY <1>2, <1>3, <1>5, RecordSound, ArtifactsKept DEF dataVars
<1>7. run'[p] = [run[p] EXCEPT !.pc = "again"] /\ run' = [run EXCEPT ![p] = run'[p]]
  BY RunTyped DEF Wait
<1>8. /\ run'[p].pc = "again" /\ run'[p].rev = run[p].rev /\ run'[p].state = run[p].state
      /\ run'[p] \in Runs
  BY <1>7, RunTyped DEF Runs, Places, Repairing
<1>9. RunSound(p)'
  BY <1>5, <1>8, WaitSound DEF Begun, Failing, Repairing
<1>10. /\ number' \in [Revs -> Nat] /\ repairs' \in [Revs -> Nat] /\ artifacts' \subseteq Revs
       /\ passed' \in [Stages -> SUBSET Revs]
  BY RunTyped DEF TypeOK, dataVars
<1> QED
  BY <1>4, <1>5, <1>6, <1>7, <1>8, <1>9, <1>10, StepFrom

LEMMA RepairSteps ==
  ASSUME LifecycleInv, NEW p \in Procs, Repair(p)
  PROVE  LifecycleInv'
<1>1. CASE RepairBegin(p)
  <2>1. /\ run[p].pc = "validate" /\ UNCHANGED <<row, dataVars, passed>> /\ events' = events
        /\ UNCHANGED <<current, overtaken>>
        /\ run'[p] = [run[p] EXCEPT !.pc = "repair"] /\ run' = [run EXCEPT ![p] = run'[p]]
    BY <1>1, RunTyped DEF RepairBegin, Wait, historyVars
  <2>2. /\ run'[p].pc = "repair" /\ run'[p].rev = run[p].rev /\ run'[p].state = run[p].state
        /\ run'[p] \in Runs
    BY <2>1, RunTyped DEF Runs, Places, Repairing
  <2>3. Grows
    BY <2>1 DEF Grows, dataVars
  <2>4. RunSound(p)'
    BY <2>1, <2>2, <2>3, WaitSound DEF Begun, Failing, Repairing, Steps
  <2> QED
    BY <2>1, <2>2, <2>4, RunTyped, RowStays DEF TypeOK
<1>2. CASE RepairRead(p)
  <2>1. /\ run[p].pc = "repair" /\ UNCHANGED <<row, dataVars, passed>> /\ events' = events
        /\ current' \subseteq Procs /\ overtaken' \in {"no", "yes"}
    BY <1>2, RunTyped DEF RepairRead, Acts, TypeOK
  <2>2. /\ run'[p] = [run[p] EXCEPT !.pc = "child",
                                    !.again = [rev |-> row.rev, attempt |-> row.attempt]]
        /\ run' = [run EXCEPT ![p] = run'[p]]
    BY <1>2, RunTyped DEF RepairRead
  <2>3. /\ run'[p].pc = "child" /\ run'[p].rev = run[p].rev /\ run'[p].state = run[p].state
        /\ run'[p].again.rev = row.rev
    BY <2>2, RunTyped DEF Runs
  <2>4. [rev |-> row.rev, attempt |-> row.attempt] \in [rev : 0..MaxRevs, attempt : 0..MaxAttempt]
    BY RunTyped DEF TypeOK, Rows
  <2>5. run'[p] \in Runs
    BY <2>2, <2>4, RunTyped DEF Runs, Places, Repairing
  <2>6. row.rev \in Revs
    BY <2>1, RunTyped DEF RunSound, LifecycleInv, RowSound, Begun, Failing, Repairing
  <2>7. Grows
    BY <2>1 DEF Grows, dataVars
  <2>8. RunSound(p)'
    BY <2>1, <2>3, <2>6, <2>7, WaitSound DEF Begun, Failing, Repairing
  <2> QED
    BY <2>1, <2>2, <2>5, <2>8, RunTyped, RowStays DEF TypeOK
<1>3. CASE RepairRefuse(p)
  <2>1. PICK attempt \in Nat : attempt = run[p].again.attempt
    BY RunTyped
  <2> QED
    BY <1>3, <2>1, RunTyped, RepairWrites DEF RepairRefuse, Announced, TypeOK
<1>4. CASE CommitChild(p)
  <2>1. PICK attempt \in Nat : attempt = NextAttempt(run[p].again.attempt)
    BY RunTyped DEF NextAttempt
  <2> QED
    BY <1>4, <2>1, RunTyped, RepairWrites DEF CommitChild, Emit, Announced, TypeOK, Steps
<1>5. CASE Revalidate(p)
  <2>1. /\ UNCHANGED <<row, dataVars, passed>> /\ events \subseteq events'
        /\ events' \subseteq Steps \cup {"published"} /\ overtaken' \in {"no", "yes"}
    BY <1>5, RunTyped, EnsuredSteps DEF Revalidate, Acts, TypeOK
  <2>2. CASE row.state \in WorksIn("validate") /\ Reads(p, "validate", run[p].tries + 1)
    <3>1. PICK attempt \in Nat : attempt = run[p].tries + 1
      BY RunTyped
    <3>2. row.state # "none" /\ "validate" \in Steps
      BY <2>2 DEF WorksIn, Steps
    <3> QED
      BY <2>1, <2>2, <3>1, <3>2, ReadingSound
  <2>3. CASE End(p)
    <3>1. run'[p] = Idle /\ run'[p] \in Runs /\ run' = [run EXCEPT ![p] = run'[p]]
      BY <2>3, RunTyped, NamesDiffer DEF End
    <3> QED
      BY <2>1, <2>3, <3>1, RunTyped, CurrentTyped, IdleSound, RowStays DEF TypeOK
  <2> QED
    BY <1>5, <2>2, <2>3 DEF Revalidate
<1>6. ASSUME NEW r \in Revs, SaveChild(p, r) PROVE LifecycleInv'
  <2>1. /\ run[p].pc = "child" /\ UNCHANGED <<row, events, artifacts, passed, current, overtaken>>
        /\ run'[p] = [run[p] EXCEPT !.pc = "commit", !.again = [run[p].again EXCEPT !.rev = r]]
        /\ run' = [run EXCEPT ![p] = run'[p]]
    BY <1>6, RunTyped DEF SaveChild, historyVars
  <2>2. run[p].again.rev \in Revs
    BY <2>1, RunTyped DEF RunSound
  <2>3. number' \in [Revs -> Nat] /\ repairs' \in [Revs -> Nat]
    BY <1>6, <2>2, RunTyped DEF SaveChild, TypeOK
  <2>4. [run[p].again EXCEPT !.rev = r] \in [rev : 0..MaxRevs, attempt : 0..MaxAttempt]
    BY RunTyped, NamesDiffer DEF Runs
  <2>5. /\ run'[p].pc = "commit" /\ run'[p].rev = run[p].rev /\ run'[p].state = run[p].state
        /\ run'[p].again = [run[p].again EXCEPT !.rev = r] /\ run'[p] \in Runs
    BY <2>1, <2>4, RunTyped DEF Runs, Places, Repairing
  <2>6. run'[p].again.rev \in Revs
    BY <2>4, <2>5, RunTyped DEF Runs
  <2>7. Grows
    BY <2>1 DEF Grows
  <2>8. RunSound(p)'
    BY <2>1, <2>5, <2>6, <2>7, WaitSound DEF Begun, Failing, Repairing
  <2>9. RowSound' /\ OnlyVettedPublished'
    BY <2>1, <2>7, RowKept, ArtifactsKept
  <2> QED
    BY <2>1, <2>3, <2>5, <2>7, <2>8, <2>9, RunTyped, StepFrom DEF TypeOK
<1> QED
  BY <1>1, <1>2, <1>3, <1>4, <1>5, <1>6 DEF Repair

LEMMA FaultSteps ==
  ASSUME LifecycleInv, NEW p \in Procs, Fault(p)
  PROVE  LifecycleInv'
<1>1. CASE Quit(p)
  <2>1. run'[p] = Idle /\ run'[p] \in Runs /\ run' = [run EXCEPT ![p] = run'[p]]
    BY <1>1, RunTyped, NamesDiffer DEF Quit, End
  <2> QED
    BY <1>1, <2>1, RunTyped, CurrentTyped, IdleSound, RowStays DEF Quit, TypeOK
<1>2. CASE Retry(p)
  <2>1. PICK attempt \in Nat, state \in States \ {"none"} :
          attempt = run[p].tries + 1 /\ state = run[p].state
    BY <1>2, RunTyped, BegunSound DEF Retry, Begun
  <2>2. /\ run[p].pc \in Begun /\ Record(p, run[p].rev, state, attempt, {}, "none") /\ End(p)
        /\ UNCHANGED <<events, dataVars, passed>>
    BY <1>2, <2>1 DEF Retry, Begun
  <2>3. (state \in Ready => \A s \in Stages : run[p].rev \in passed'[s]) /\ Announced(state)'
    BY <2>1, <2>2, BegunSound DEF Vetted, Announced
  <2>4. events' \subseteq Steps \cup {"published"} /\ passed' \in [Stages -> SUBSET Revs]
    BY <2>2, RunTyped DEF TypeOK
  <2> QED
    BY <2>2, <2>3, <2>4, WriteEnds DEF Verdicts
<1>3. CASE GiveUp(p)
  <2>1. PICK state \in GivesUpIn(run[p].pc) :
          Record(p, run[p].rev, state, run[p].tries, {}, "none")
    BY <1>3 DEF GiveUp
  <2>2. state \in {"failed", "rejected", "dead_letter"}
    BY <2>1 DEF GivesUpIn
  <2>3. run[p].pc \in Begun /\ End(p) /\ UNCHANGED <<dataVars, events, passed>>
    BY <1>3 DEF GiveUp, Begun
  <2> QED
    BY <2>1, <2>2, <2>3, RefusalEnds DEF Verdicts
<1> QED
  BY <1>1, <1>2, <1>3 DEF Fault

LEMMA OptionsSteps ==
  ASSUME LifecycleInv, NEW p \in Procs, Options(p)
  PROVE  LifecycleInv'
<1>1. CASE OptionsCheck(p)
  <2>1. /\ row.state = "replaying" /\ UNCHANGED <<row, events, dataVars, passed, current, overtaken>>
        /\ run'[p] = [run[p] EXCEPT !.pc = "options"] /\ run' = [run EXCEPT ![p] = run'[p]]
    BY <1>1, RunTyped DEF OptionsCheck, Wait, historyVars
  <2>2. run'[p].pc = "options" /\ run'[p] \in Runs
    BY <2>1, RunTyped DEF Runs, Places
  <2>3. RunSound(p)'
    BY <2>1, <2>2 DEF RunSound, Begun, Failing, Repairing, Steps
  <2> QED
    BY <2>1, <2>2, <2>3, RunTyped, RowStays DEF TypeOK
<1>2. CASE OptionsRead(p)
  <2>1. row.state # "none"
    BY <1>2, RunTyped DEF OptionsRead, RunSound
  <2> QED
    BY <1>2, <2>1, RunTyped, ReadingSound DEF OptionsRead, TypeOK
<1>3. CASE OptionsWrite(p)
  <2>1. PICK attempt \in Nat, state \in States \ {"none"} :
          attempt = run[p].tries /\ state = run[p].state
    BY <1>3, RunTyped, BegunSound DEF OptionsWrite, Begun
  <2>2. /\ run[p].pc \in Begun /\ Record(p, run[p].rev, state, attempt, {}, "none") /\ End(p)
        /\ UNCHANGED <<events, dataVars, passed>>
    BY <1>3, <2>1 DEF OptionsWrite, Begun
  <2>3. (state \in Ready => \A s \in Stages : run[p].rev \in passed'[s]) /\ Announced(state)'
    BY <2>1, <2>2, BegunSound DEF Vetted, Announced
  <2>4. events' \subseteq Steps \cup {"published"} /\ passed' \in [Stages -> SUBSET Revs]
    BY <2>2, RunTyped DEF TypeOK
  <2> QED
    BY <2>2, <2>3, <2>4, WriteEnds DEF Verdicts
<1> QED
  BY <1>1, <1>2, <1>3 DEF Options

LEMMA StepLifecycle == LifecycleInv /\ [Next]_vars => LifecycleInv'
<1> SUFFICES ASSUME LifecycleInv, [Next]_vars PROVE LifecycleInv'
  OBVIOUS
<1>1. CASE UNCHANGED vars
  BY <1>1 DEF vars, LifecycleInv, TypeOK, RowSound, EvidenceIsOfActiveRevision, WaitingHasEvent,
     Announced, OnlyVettedPublished, Vetted, RunSound, ReadSound
<1>2. ASSUME NEW p \in Procs, Start(p) \/ Work(p) \/ Repair(p) \/ Fault(p) \/ Options(p)
      PROVE  LifecycleInv'
  <2>1. CASE Work(p)
    BY <2>1, BeginStep, VerdictSteps, PublishSteps DEF Work
  <2> QED
    BY <1>2, <2>1, StartSteps, RepairSteps, FaultSteps, OptionsSteps
<1> QED
  BY <1>1, <1>2 DEF Next

(* Whatever runs overlap, fail, retry or repair, the row and what the runs *)
(* have read of it stay sound (orchestrator.ts, recordTransition).         *)
THEOREM Invariance == Spec => []LifecycleInv
<1>1. Init => LifecycleInv
  BY InitInv
<1>2. LifecycleInv /\ [Next]_vars => LifecycleInv'
  BY StepLifecycle
<1> QED
  BY <1>1, <1>2, PTL DEF Spec

(* The row, the revisions, the outbox and the runs keep their types: every *)
(* state recordTransition writes is a state of the lifecycle.              *)
THEOREM TypeCorrect == Spec => []TypeOK
<1>1. LifecycleInv => TypeOK
  BY DEF LifecycleInv
<1> QED
  BY <1>1, Invariance, PTL

(* A row's passing verdicts and its publication are those of its own       *)
(* revision (orchestrator.ts 425-430), for every number of open runs.      *)
THEOREM EvidenceIsSound == Spec => []EvidenceIsOfActiveRevision
<1>1. LifecycleInv => EvidenceIsOfActiveRevision
  BY DEF LifecycleInv, RowSound
<1> QED
  BY <1>1, Invariance, PTL

(* Every tool version is a revision that passed validation, replay and     *)
(* evaluation itself (the publishing step, orchestrator.ts).               *)
THEOREM OnlyVettedIsPublished == Spec => []OnlyVettedPublished
<1>1. LifecycleInv => OnlyVettedPublished
  BY DEF LifecycleInv
<1> QED
  BY <1>1, Invariance, PTL

(* A row that waits for a step has its event in the outbox                 *)
(* (atomicTransitionWithOutbox).                                           *)
THEOREM WaitingIsAnnounced == Spec => []WaitingHasEvent
<1>1. LifecycleInv => WaitingHasEvent
  BY DEF LifecycleInv, RowSound
<1> QED
  BY <1>1, Invariance, PTL
-----------------------------------------------------------------------------
(* The budget of the histories without an overtaken run: what a current    *)
(* run has read is the row, and the attempts pay for the repairs.          *)
RowBudget ==
  /\ \A r \in Revs : repairs[r] < MaxRepairs /\ repairs[r] <= row.attempt
  /\ \A r \in Revs : r = row.rev => r \in Saved /\ repairs[r] < row.attempt
  /\ \A r \in Revs \ Saved : repairs[r] = 0
  /\ row.state = "none" => row.attempt = 0

RepairBudget(p) ==
  /\ run[p].pc \in {"target", "start"} => run[p].rev \in Saved
  /\ run[p].pc \in {"child", "commit"} => run[p].again.rev \in Saved
  /\ run[p].pc = "child" =>
       repairs[run[p].again.rev] < run[p].again.attempt /\ run[p].again.attempt <= row.attempt
  /\ run[p].pc = "commit" => repairs[run[p].again.rev] <= run[p].again.attempt

InStep(p) ==
  /\ run[p].pc \in {"validate", "repair", "child", "commit"} =>
       run[p].state \in {"drafted", "validating"}
  /\ run[p].pc \in {"replay", "evaluate"} => run[p].state \in WorksIn(run[p].pc)

SeesRow(p) ==
  /\ run[p].pc = "start" =>
       run[p].state = row.state /\ run[p].tries = row.attempt /\ run[p].rev # row.rev
  /\ run[p].pc \in Begun =>
       run[p].rev = row.rev /\ run[p].state = row.state /\ run[p].tries = row.attempt
  /\ run[p].pc = "child" => run[p].again.rev = row.rev
  /\ run[p].pc \in {"child", "commit"} => run[p].again.attempt = row.attempt
  /\ run[p].pc = "again" /\ row.state \in WorksIn("validate") => row.attempt = run[p].tries + 1

Budget ==
  /\ \A p \in Procs : InStep(p)
  /\ overtaken = "no" =>
       /\ RowBudget
       /\ \A p \in Procs : RepairBudget(p)
       /\ \A p \in current : SeesRow(p)

LEMMA InvBudget ==
  ASSUME LifecycleInv, Budget, overtaken = "no"
  PROVE  /\ RowBudget /\ \A p \in Procs : RepairBudget(p)
         /\ \A p \in current : SeesRow(p) /\ p \in Procs
         /\ number \in [Revs -> Nat] /\ repairs \in [Revs -> Nat]
  BY DEF Budget, LifecycleInv, TypeOK

(* The other runs keep their part while revisions are only added and the   *)
(* attempts only grow.                                                     *)
LEMMA OthersBudget ==
  ASSUME LifecycleInv, LifecycleInv', NEW q \in Procs, RepairBudget(q), run'[q] = run[q],
         row.attempt <= row'.attempt,
         \A r \in Saved : number'[r] = number[r] /\ repairs'[r] = repairs[r]
  PROVE  RepairBudget(q)'
<1>1. run[q].again.attempt \in Nat /\ row.attempt \in Nat /\ row'.attempt \in Nat
  <2>1. row' \in Rows
    BY DEF LifecycleInv, TypeOK
  <2> QED
    BY <2>1, RunTyped, LifecycleAssumption DEF Rows
<1>2. \A r \in Saved : r \in Saved' /\ repairs'[r] = repairs[r]
  BY DEF Saved, Revs
<1> QED
  BY <1>1, <1>2 DEF RepairBudget

(* The conclusion of every step from its parts. *)
LEMMA BudgetFrom ==
  ASSUME LifecycleInv, LifecycleInv', Budget, NEW p \in Procs,
         run' = [run EXCEPT ![p] = run'[p]], InStep(p)',
         overtaken' = "no" =>
           /\ overtaken = "no" /\ RowBudget' /\ RepairBudget(p)' /\ row.attempt <= row'.attempt
           /\ \A r \in Saved : number'[r] = number[r] /\ repairs'[r] = repairs[r],
         \A q \in current' : q # p => q \in current /\ row' = row,
         overtaken' = "no" /\ p \in current' => SeesRow(p)'
  PROVE  Budget'
<1>1. \A q \in Procs \ {p} : run'[q] = run[q]
  BY DEF LifecycleInv, TypeOK
<1>2. \A q \in Procs : InStep(q)'
  BY <1>1 DEF Budget, InStep
<1>3. ASSUME overtaken' = "no" PROVE \A q \in Procs : RepairBudget(q)'
  <2>1. \A q \in Procs \ {p} : RepairBudget(q)'
    BY <1>1, <1>3, OthersBudget, InvBudget
  <2> QED
    BY <1>3, <2>1
<1>4. ASSUME overtaken' = "no", NEW q \in current' PROVE SeesRow(q)'
  <2>1. CASE q # p
    <3>1. q \in Procs /\ q \in current /\ row' = row /\ run'[q] = run[q] /\ SeesRow(q)
      BY <1>1, <1>4, <2>1, InvBudget
    <3> QED
      BY <3>1 DEF SeesRow
  <2> QED
    BY <1>4, <2>1
<1> QED
  BY <1>2, <1>3, <1>4 DEF Budget

LEMMA IdleBudget ==
  ASSUME NEW p \in Procs, run'[p] = Idle
  PROVE  InStep(p)' /\ RepairBudget(p)' /\ SeesRow(p)'
<1>1. run'[p].pc = "idle"
  BY NamesDiffer
<1> QED
  BY <1>1 DEF InStep, RepairBudget, SeesRow, Begun, Failing, Repairing, Steps

(* A step that leaves the row and the revisions alone. *)
LEMMA StayBudget ==
  ASSUME LifecycleInv, LifecycleInv', Budget, NEW p \in Procs,
         UNCHANGED <<row, number, repairs>>, run' = [run EXCEPT ![p] = run'[p]],
         InStep(p)', current' \subseteq current \cup {p},
         overtaken' = "no" => overtaken = "no" /\ RepairBudget(p)',
         overtaken' = "no" /\ p \in current' => SeesRow(p)'
  PROVE  Budget'
<1>1. ASSUME overtaken' = "no" PROVE RowBudget'
  BY <1>1, InvBudget DEF RowBudget, Saved
<1>2. row.attempt <= row'.attempt
  BY RunTyped
<1> QED
  BY <1>1, <1>2, BudgetFrom

LEMMA QuietEnd ==
  ASSUME LifecycleInv, LifecycleInv', Budget, NEW p \in Procs,
         UNCHANGED <<row, number, repairs>>, overtaken' = overtaken, End(p)
  PROVE  Budget'
<1>1. run'[p] = Idle /\ run' = [run EXCEPT ![p] = run'[p]] /\ current' \subseteq current
  BY RunTyped DEF End
<1> QED
  BY <1>1, IdleBudget, StayBudget

(* A transition by a run whose attempt pays for the revision it writes.    *)
LEMMA WriteBudget ==
  ASSUME LifecycleInv, LifecycleInv', Budget, NEW p \in Procs, NEW rev \in Revs,
         NEW state \in States \ {"none"}, NEW attempt \in Nat, NEW kinds \in SUBSET Kinds,
         NEW verdict \in Verdicts, Record(p, rev, state, attempt, kinds, verdict),
         UNCHANGED <<number, repairs>>, run' = [run EXCEPT ![p] = run'[p]],
         InStep(p)', RepairBudget(p)',
         \A q \in current' : q # p => q \in current /\ row' = row,
         overtaken = "no" /\ p \in current =>
           rev \in Saved /\ repairs[rev] < attempt /\ row.attempt <= attempt,
         overtaken' = "no" /\ p \in current' => SeesRow(p)'
  PROVE  Budget'
<1>1. row'.rev = rev /\ row'.attempt = attempt /\ row'.state = state
  BY DEF Record
<1>2. ASSUME overtaken' = "no"
      PROVE  overtaken = "no" /\ RowBudget' /\ row.attempt <= row'.attempt
  <2>1. overtaken = "no" /\ p \in current
    BY <1>2 DEF Record, Acts
  <2>2. rev \in Saved /\ repairs[rev] < attempt /\ row.attempt <= attempt
    BY <2>1
  <2>3. row.attempt \in Nat /\ RowBudget /\ repairs \in [Revs -> Nat]
    BY <2>1, InvBudget, RunTyped
  <2>4. \A r \in Revs : repairs[r] < MaxRepairs /\ repairs[r] <= attempt
    BY <2>2, <2>3 DEF RowBudget
  <2>5. RowBudget'
    BY <1>1, <2>2, <2>3, <2>4 DEF RowBudget, Saved
  <2> QED
    BY <1>1, <2>1, <2>2, <2>5
<1> QED
  BY <1>2, BudgetFrom

(* A run in a step that ends with a transition of what it has read. *)
LEMMA BegunBudget ==
  ASSUME LifecycleInv, LifecycleInv', Budget, NEW p \in Procs, run[p].pc \in Begun,
         NEW state \in States \ {"none"}, NEW attempt \in Nat, NEW kinds \in SUBSET Kinds,
         NEW verdict \in Verdicts, Record(p, run[p].rev, state, attempt, kinds, verdict),
         UNCHANGED dataVars, End(p), attempt \in {run[p].tries, run[p].tries + 1}
  PROVE  Budget'
<1>1. PICK rev \in Revs : rev = run[p].rev
  BY BegunSound
<1>2. run'[p] = Idle /\ run' = [run EXCEPT ![p] = run'[p]] /\ p \notin current'
      /\ \A q \in current' : q # p => q \in current /\ row' = row
  BY RunTyped DEF End
<1>3. ASSUME overtaken = "no", p \in current
      PROVE  rev \in Saved /\ repairs[rev] < attempt /\ row.attempt <= attempt
  <2>1. run[p].tries = row.attempt /\ rev = row.rev /\ row.attempt \in Nat
    BY <1>1, <1>3, InvBudget, RunTyped DEF SeesRow
  <2>2. rev \in Saved /\ repairs[rev] < row.attempt /\ repairs[rev] \in Nat
    BY <1>3, <2>1, InvBudget DEF RowBudget
  <2> QED
    BY <2>1, <2>2
<1> QED
  BY <1>1, <1>2, <1>3, IdleBudget, WriteBudget DEF dataVars

LEMMA AnswerBudget ==
  ASSUME LifecycleInv, LifecycleInv', Budget, NEW p \in Procs, run[p].pc \in Begun,
         NEW state \in States \ {"none"}, NEW stage \in Kinds, NEW verdict \in Verdicts,
         Answer(p, state, stage, verdict)
  PROVE  Budget'
<1>1. PICK tries \in Nat : tries = run[p].tries
  BY RunTyped
<1> QED
  BY <1>1, BegunBudget DEF Answer

(* A run reads the row for its next step. *)
LEMMA ReadBudget ==
  ASSUME LifecycleInv, LifecycleInv', Budget, NEW p \in Procs, NEW step \in Steps \cup {"persist"},
         NEW attempt \in Nat, step \in Steps => row.state \in WorksIn(step),
         Reads(p, step, attempt), UNCHANGED <<row, number, repairs>>,
         overtaken' = "no" => overtaken = "no" /\ attempt = row.attempt
  PROVE  Budget'
<1>1. /\ run'[p] = [Idle EXCEPT !.pc = step, !.rev = row.rev, !.state = row.state,
                                !.tries = attempt, !.evidence = Evidence(step)]
      /\ run' = [run EXCEPT ![p] = run'[p]] /\ current' \subseteq current \cup {p}
  BY RunTyped DEF Reads
<1>2. /\ run'[p].pc = step /\ run'[p].rev = row.rev /\ run'[p].state = row.state
      /\ run'[p].tries = attempt
  BY <1>1 DEF Idle
<1>3. InStep(p)'
  BY <1>2 DEF InStep, WorksIn, Steps
<1>4. RepairBudget(p)'
  BY <1>2 DEF RepairBudget, Steps
<1>5. overtaken' = "no" => SeesRow(p)'
  BY <1>2 DEF SeesRow, Steps
<1> QED
  BY <1>1, <1>3, <1>4, <1>5, StayBudget

(* A run goes on to wait elsewhere. *)
LEMMA MoveBudget ==
  ASSUME LifecycleInv, LifecycleInv', Budget, NEW p \in Procs, NEW place,
         <<run[p].pc, place>> \in {<<"validate", "repair">>, <<"publish", "record">>, <<"idle", "options">>},
         Wait(p, place), UNCHANGED <<row, number, repairs>>, overtaken' = overtaken
  PROVE  Budget'
<1>1. /\ run'[p] = [run[p] EXCEPT !.pc = place] /\ run' = [run EXCEPT ![p] = run'[p]]
      /\ current' = current
  BY RunTyped DEF Wait
<1>2. /\ run'[p].pc = place /\ run'[p].rev = run[p].rev /\ run'[p].state = run[p].state
      /\ run'[p].tries = run[p].tries
  BY <1>1, RunTyped DEF Runs
<1>3. InStep(p)'
  BY <1>2 DEF Budget, InStep
<1>4. RepairBudget(p)'
  BY <1>2 DEF RepairBudget
<1>5. SeesRow(p) => SeesRow(p)'
  BY <1>2 DEF SeesRow, Begun, Failing, Repairing, Steps
<1>6. overtaken' = "no" /\ p \in current' => SeesRow(p)'
  BY <1>1, <1>5, InvBudget
<1> QED
  BY <1>1, <1>3, <1>4, <1>6, StayBudget

LEMMA StartBudget ==
  ASSUME LifecycleInv, LifecycleInv', Budget, NEW p \in Procs, Start(p)
  PROVE  Budget'
<1>1. ASSUME NEW r \in Revs, Generate(p, r) PROVE Budget'
  <2>1. run'[p] = [Idle EXCEPT !.pc = "target", !.rev = r] /\ run' = [run EXCEPT ![p] = run'[p]]
    BY <1>1, RunTyped DEF Generate
  <2>2. run'[p].pc = "target" /\ run'[p].rev = r
    BY <2>1 DEF Idle
  <2>3. UNCHANGED <<row, repairs, current, overtaken>> /\ number' = [number EXCEPT ![r] = 1]
        /\ r \notin Saved
    BY <1>1 DEF Generate, Fresh, historyVars
  <2>4. number \in [Revs -> Nat]
    BY DEF LifecycleInv, TypeOK
  <2>5. Saved' = Saved \cup {r} /\ \A q \in Saved : number'[q] = number[q] /\ repairs'[q] = repairs[q]
    BY <2>3, <2>4 DEF Saved
  <2>6. InStep(p)' /\ RepairBudget(p)' /\ SeesRow(p)'
    BY <2>2, <2>5 DEF InStep, RepairBudget, SeesRow, Begun, Failing, Repairing, Steps
  <2>7. overtaken' = "no" => RowBudget'
    BY <2>3, <2>5, InvBudget DEF RowBudget
  <2>8. row.attempt <= row'.attempt
    BY <2>3, RunTyped
  <2> QED
    BY <2>1, <2>3, <2>5, <2>6, <2>7, <2>8, BudgetFrom
<1>2. ASSUME NEW r \in Revs, TakeLatest(p, r) PROVE Budget'
  <2>1. run'[p] = [Idle EXCEPT !.pc = "target", !.rev = r] /\ run' = [run EXCEPT ![p] = run'[p]]
    BY <1>2, RunTyped DEF TakeLatest
  <2>2. run'[p].pc = "target" /\ run'[p].rev = r
    BY <2>1 DEF Idle
  <2>3. r \in Saved' /\ UNCHANGED <<row, number, repairs, current, overtaken>>
    BY <1>2 DEF TakeLatest, Latest, Saved, dataVars, historyVars
  <2>4. InStep(p)' /\ RepairBudget(p)' /\ SeesRow(p)'
    BY <2>2, <2>3 DEF InStep, RepairBudget, SeesRow, Begun, Failing, Repairing, Steps
  <2> QED
    BY <2>1, <2>3, <2>4, StayBudget
<1>3. ASSUME StartRead(p) PROVE Budget'
  <2>1. UNCHANGED <<row, number, repairs, overtaken>> /\ run[p].pc = "target"
    BY <1>3 DEF StartRead, dataVars
  <2>2. CASE End(p)
    BY <2>1, <2>2, QuietEnd
  <2>3. CASE /\ row.rev # run[p].rev /\ current' = current \cup {p}
             /\ run' = [run EXCEPT ![p].pc = "start", ![p].state = row.state, ![p].tries = row.attempt]
    <3>1. /\ run'[p] = [run[p] EXCEPT !.pc = "start", !.state = row.state, !.tries = row.attempt]
          /\ run' = [run EXCEPT ![p] = run'[p]]
      BY <2>3, RunTyped
    <3>2. /\ run'[p].pc = "start" /\ run'[p].rev = run[p].rev /\ run'[p].state = row.state
          /\ run'[p].tries = row.attempt
      BY <3>1, RunTyped DEF Runs
    <3>3. InStep(p)' /\ SeesRow(p)'
      BY <2>1, <2>3, <3>2 DEF InStep, SeesRow, Begun, Failing, Repairing, Steps
    <3>4. overtaken = "no" => RepairBudget(p)'
      BY <2>1, <3>2, InvBudget DEF RepairBudget, Saved
    <3> QED
      BY <2>1, <2>3, <3>1, <3>3, <3>4, StayBudget
  <2> QED
    BY <1>3, <2>2, <2>3 DEF StartRead
<1>4. ASSUME StartWrite(p) PROVE Budget'
  <2>1. PICK rev \in Revs, attempt \in Nat : rev = run[p].rev /\ attempt = run[p].tries + 1
    BY <1>4, RunTyped DEF StartWrite, RunSound
  <2>2. /\ run[p].pc = "start" /\ UNCHANGED <<number, repairs>>
        /\ run'[p] = Idle /\ run' = [run EXCEPT ![p] = run'[p]] /\ p \notin current'
        /\ \A q \in current' : q # p => q \in current /\ row' = row
    BY <1>4, RunTyped DEF StartWrite, End, dataVars
  <2>3. ASSUME overtaken = "no", p \in current
        PROVE  /\ rev \in Saved /\ repairs[rev] < row.attempt + 1 /\ row.attempt \in Nat
               /\ run[p].tries = row.attempt /\ (run[p].state = "none" => row.attempt = 0)
    <3>1. rev \in Saved /\ run[p].state = row.state /\ run[p].tries = row.attempt
      BY <2>1, <2>2, <2>3, InvBudget DEF RepairBudget, SeesRow
    <3>2. row.attempt \in Nat /\ repairs[rev] \in Nat /\ repairs[rev] <= row.attempt
      BY <2>3, InvBudget, RunTyped DEF RowBudget
    <3> QED
      BY <2>3, <3>1, <3>2, InvBudget DEF RowBudget
  <2>4. CASE run[p].state = "none" /\ Record(p, rev, "drafted", 1, {}, "none")
    <3>1. overtaken = "no" /\ p \in current => rev \in Saved /\ repairs[rev] < 1 /\ row.attempt <= 1
      BY <2>3, <2>4
    <3> QED
      BY <2>2, <2>4, <3>1, IdleBudget, WriteBudget DEF States, Verdicts
  <2>5. CASE Record(p, rev, "validating", attempt, Kinds, "none")
    <3>1. overtaken = "no" /\ p \in current =>
            rev \in Saved /\ repairs[rev] < attempt /\ row.attempt <= attempt
      BY <2>1, <2>3
    <3> QED
      BY <2>2, <2>5, <3>1, IdleBudget, WriteBudget DEF States, Verdicts
  <2> QED
    BY <1>4, <2>1, <2>4, <2>5 DEF StartWrite
<1> QED
  BY <1>1, <1>2, <1>3, <1>4 DEF Start

LEMMA WorkBudget ==
  ASSUME LifecycleInv, LifecycleInv', Budget, NEW p \in Procs, Work(p)
  PROVE  Budget'
<1> USE DEF Begun, Failing, Repairing, Steps
<1>1. ASSUME NEW step \in Steps, Begin(p, step) PROVE Budget'
  <2>1. /\ row.state \in WorksIn(step) /\ Reads(p, step, row.attempt)
        /\ UNCHANGED <<row, number, repairs, overtaken>>
    BY <1>1 DEF Begin, dataVars
  <2> QED
    BY <2>1, RunTyped, ReadBudget
<1>2. CASE ValidatePass(p) \/ ValidateFail(p)
  BY <1>2, AnswerBudget DEF ValidatePass, ValidateFail, States, Settled, Kinds, Stages, Verdicts
<1>3. CASE ReplayPass(p) \/ ReplayDiverge(p)
  BY <1>3, AnswerBudget DEF ReplayPass, ReplayDiverge, States, Settled, Kinds, Stages, Verdicts
<1>4. CASE EvaluatePass(p)
  BY <1>4, AnswerBudget DEF EvaluatePass, States, Kinds, Stages, Verdicts
<1>5. CASE EvaluateReject(p)
  BY <1>5, AnswerBudget DEF EvaluateReject, States, Settled, Kinds, Stages, Verdicts
<1>6. CASE PublishArtifact(p)
  BY <1>6, MoveBudget DEF PublishArtifact, historyVars
<1>7. CASE PublishRecord(p)
  BY <1>7, AnswerBudget DEF PublishRecord, States, Settled, Kinds, Verdicts
<1> QED
  BY <1>1, <1>2, <1>3, <1>4, <1>5, <1>6, <1>7 DEF Work

(* A repair writes its revision and goes on. *)
LEMMA RepairWriteBudget ==
  ASSUME LifecycleInv, LifecycleInv', Budget, NEW p \in Procs, run[p].pc \in {"child", "commit"},
         NEW state \in {"failed", "validating"}, NEW attempt \in Nat,
         Record(p, run[p].again.rev, state, attempt, {}, "none"), Wait(p, "again"),
         UNCHANGED <<number, repairs>>,
         overtaken = "no" /\ p \in current =>
           repairs[run[p].again.rev] < attempt /\ row.attempt <= attempt,
         overtaken = "no" /\ p \in current /\ state = "validating" => attempt = run[p].tries + 1
  PROVE  Budget'
<1>1. PICK rev \in Revs : rev = run[p].again.rev
  BY RunTyped DEF RunSound
<1>2. /\ run'[p] = [run[p] EXCEPT !.pc = "again"] /\ run' = [run EXCEPT ![p] = run'[p]]
      /\ \A q \in current' : q # p => q \in current /\ row' = row
  BY RunTyped DEF Wait
<1>3. run'[p].pc = "again" /\ run'[p].tries = run[p].tries
  BY <1>2, RunTyped DEF Runs
<1>4. InStep(p)' /\ RepairBudget(p)'
  BY <1>3 DEF InStep, RepairBudget
<1>5. overtaken = "no" /\ p \in current => rev \in Saved /\ repairs[rev] < attempt
  BY <1>1, InvBudget DEF RepairBudget
<1>6. row'.state = state /\ row'.attempt = attempt
  BY DEF Record
<1>7. overtaken' = "no" => SeesRow(p)'
  <2> SUFFICES ASSUME overtaken' = "no" PROVE SeesRow(p)'
    OBVIOUS
  <2>1. overtaken = "no" /\ p \in current
    BY DEF Record, Acts
  <2> QED
    BY <1>3, <1>6, <2>1 DEF SeesRow, WorksIn, Begun, Failing, Repairing, Steps
<1> QED
  BY <1>1, <1>2, <1>4, <1>5, <1>7, WriteBudget DEF States, Settled, Verdicts

LEMMA SaveChildBudget ==
  ASSUME LifecycleInv, LifecycleInv', Budget, NEW p \in Procs, NEW r \in Revs, SaveChild(p, r)
  PROVE  Budget'
<1>1. PICK parent \in Revs : parent = run[p].again.rev
  BY RunTyped DEF SaveChild, RunSound
<1>2. /\ run[p].pc = "child" /\ run[p].again.attempt < MaxRepairs /\ r \notin Saved
      /\ number' = [number EXCEPT ![r] = number[parent] + 1]
      /\ repairs' = [repairs EXCEPT ![r] = repairs[parent] + 1]
      /\ UNCHANGED <<row, current, overtaken>>
      /\ run'[p] = [run[p] EXCEPT !.pc = "commit", !.again = [run[p].again EXCEPT !.rev = r]]
      /\ run' = [run EXCEPT ![p] = run'[p]]
  BY <1>1, RunTyped DEF SaveChild, Fresh, historyVars
<1>3. /\ run'[p].pc = "commit" /\ run'[p].rev = run[p].rev /\ run'[p].state = run[p].state
      /\ run'[p].tries = run[p].tries /\ run'[p].again.rev = r
      /\ run'[p].again.attempt = run[p].again.attempt
  BY <1>2, RunTyped DEF Runs
<1>4. InStep(p)'
  BY <1>2, <1>3 DEF Budget, InStep
<1>5. number \in [Revs -> Nat] /\ repairs \in [Revs -> Nat] /\ row.attempt \in Nat
      /\ run[p].again.attempt \in Nat
  BY RunTyped DEF TypeOK
<1>6. ASSUME overtaken = "no"
      PROVE  /\ Saved' = Saved \cup {r} /\ RowBudget' /\ RepairBudget(p)'
             /\ \A q \in Saved : number'[q] = number[q] /\ repairs'[q] = repairs[q]
             /\ (p \in current => SeesRow(p)')
  <2>1. /\ parent \in Saved /\ repairs[parent] < run[p].again.attempt
        /\ run[p].again.attempt <= row.attempt
    BY <1>1, <1>2, <1>6, InvBudget DEF RepairBudget
  <2>2. number'[r] > 0 /\ repairs'[r] <= run[p].again.attempt
    BY <1>2, <1>5, <2>1
  <2>3. /\ Saved' = Saved \cup {r}
        /\ \A q \in Revs : q # r => number'[q] = number[q] /\ repairs'[q] = repairs[q]
    BY <1>2, <1>5, <2>2 DEF Saved
  <2>4. repairs'[r] < MaxRepairs /\ repairs'[r] <= row.attempt
    BY <1>2, <1>5, <2>1, <2>2, LifecycleAssumption
  <2>5. RowBudget
    BY <1>6, InvBudget
  <2>6. RowBudget'
    BY <1>2, <2>3, <2>4, <2>5 DEF RowBudget
  <2>7. RepairBudget(p)'
    BY <1>3, <2>2, <2>3 DEF RepairBudget
  <2>8. p \in current => SeesRow(p)'
    <3> SUFFICES ASSUME p \in current PROVE SeesRow(p)'
      OBVIOUS
    <3>1. SeesRow(p)
      BY <1>6, InvBudget
    <3> QED
      BY <1>2, <1>3, <3>1 DEF SeesRow, Begun, Failing, Repairing, Steps
  <2> QED
    BY <1>2, <2>3, <2>6, <2>7, <2>8
<1>7. row.attempt <= row'.attempt
  BY <1>2, <1>5
<1> QED
  BY <1>2, <1>4, <1>6, <1>7, BudgetFrom

LEMMA RepairStepBudget ==
  ASSUME LifecycleInv, LifecycleInv', Budget, NEW p \in Procs, Repair(p)
  PROVE  Budget'
<1>1. CASE RepairBegin(p)
  BY <1>1, MoveBudget DEF RepairBegin, dataVars, historyVars
<1>2. CASE RepairRead(p)
  <2>1. /\ run[p].pc = "repair" /\ UNCHANGED <<row, number, repairs>>
        /\ current' = current \cup {p}
        /\ overtaken' = "no" => overtaken = "no" /\ p \in current
    BY <1>2 DEF RepairRead, Acts, dataVars
  <2>2. /\ run'[p] = [run[p] EXCEPT !.pc = "child",
                                    !.again = [rev |-> row.rev, attempt |-> row.attempt]]
        /\ run' = [run EXCEPT ![p] = run'[p]]
    BY <1>2, RunTyped DEF RepairRead
  <2>3. /\ run'[p].pc = "child" /\ run'[p].rev = run[p].rev /\ run'[p].state = run[p].state
        /\ run'[p].tries = run[p].tries
        /\ run'[p].again.rev = row.rev /\ run'[p].again.attempt = row.attempt
    BY <2>2, RunTyped DEF Runs
  <2>4. InStep(p)'
    BY <2>1, <2>3 DEF Budget, InStep
  <2>5. row.rev \in Revs /\ row.attempt \in Nat
    BY <2>1, RunTyped DEF RunSound, LifecycleInv, RowSound, Begun, Failing, Repairing
  <2>6. ASSUME overtaken' = "no" PROVE overtaken = "no" /\ RepairBudget(p)' /\ SeesRow(p)'
    <3>1. overtaken = "no" /\ SeesRow(p) /\ RowBudget
      BY <2>1, <2>6, InvBudget
    <3>2. row.rev \in Saved' /\ repairs[row.rev] < row.attempt
      BY <2>1, <2>5, <3>1 DEF RowBudget, Saved
    <3>3. RepairBudget(p)'
      BY <2>1, <2>3, <2>5, <3>2 DEF RepairBudget
    <3>4. SeesRow(p)'
      BY <2>1, <2>3, <3>1 DEF SeesRow, Begun, Failing, Repairing, Steps
    <3> QED
      BY <3>1, <3>3, <3>4
  <2> QED
    BY <2>1, <2>2, <2>4, <2>6, StayBudget
<1>3. CASE RepairRefuse(p)
  <2>1. PICK attempt \in Nat : attempt = run[p].again.attempt
    BY RunTyped
  <2>2. /\ run[p].pc = "child" /\ Record(p, run[p].again.rev, "failed", attempt, {}, "none")
        /\ Wait(p, "again") /\ UNCHANGED <<number, repairs>>
    BY <1>3, <2>1 DEF RepairRefuse, dataVars
  <2>3. overtaken = "no" /\ p \in current =>
          repairs[run[p].again.rev] < attempt /\ row.attempt <= attempt
    BY <2>1, <2>2, InvBudget, RunTyped DEF RepairBudget, SeesRow
  <2> QED
    BY <2>2, <2>3, RepairWriteBudget
<1>4. CASE CommitChild(p)
  <2>1. PICK attempt \in Nat : attempt = run[p].again.attempt + 1
    BY RunTyped
  <2>2. /\ run[p].pc = "commit" /\ Record(p, run[p].again.rev, "validating", attempt, {}, "none")
        /\ Wait(p, "again") /\ UNCHANGED <<number, repairs>>
    BY <1>4, <2>1 DEF CommitChild, NextAttempt, dataVars
  <2>3. ASSUME overtaken = "no", p \in current
        PROVE  /\ repairs[run[p].again.rev] < attempt /\ row.attempt <= attempt
               /\ attempt = run[p].tries + 1
    <3>1. /\ run[p].again.rev \in Saved /\ repairs[run[p].again.rev] <= run[p].again.attempt
          /\ run[p].again.attempt = row.attempt /\ run[p].tries = row.attempt
      BY <2>2, <2>3, InvBudget DEF RepairBudget, SeesRow, Begun, Failing, Repairing
    <3>2. repairs[run[p].again.rev] \in Nat /\ row.attempt \in Nat
      BY <2>3, <3>1, InvBudget, RunTyped DEF Saved
    <3> QED
      BY <2>1, <3>1, <3>2
  <2> QED
    BY <2>2, <2>3, RepairWriteBudget
<1>5. CASE Revalidate(p)
  <2>1. run[p].pc = "again" /\ UNCHANGED <<row, number, repairs>>
    BY <1>5 DEF Revalidate, dataVars
  <2>2. CASE row.state \in WorksIn("validate") /\ Reads(p, "validate", run[p].tries + 1) /\ Acts(p)
    <3>1. PICK attempt \in Nat : attempt = run[p].tries + 1
      BY RunTyped
    <3>2. overtaken' = "no" => overtaken = "no" /\ p \in current
      BY <2>2 DEF Acts
    <3>3. overtaken' = "no" => overtaken = "no" /\ attempt = row.attempt
      BY <2>1, <2>2, <3>1, <3>2, InvBudget DEF SeesRow
    <3> QED
      BY <2>1, <2>2, <3>1, <3>3, ReadBudget DEF Steps
  <2>3. CASE End(p) /\ UNCHANGED overtaken
    BY <2>1, <2>3, QuietEnd
  <2> QED
    BY <1>5, <2>2, <2>3 DEF Revalidate
<1> QED
  BY <1>1, <1>2, <1>3, <1>4, <1>5, SaveChildBudget DEF Repair

LEMMA FaultBudget ==
  ASSUME LifecycleInv, LifecycleInv', Budget, NEW p \in Procs, Fault(p) \/ Options(p)
  PROVE  Budget'
<1>1. CASE Quit(p)
  BY <1>1, QuietEnd DEF Quit, dataVars
<1>2. CASE Retry(p)
  <2>1. PICK attempt \in Nat, state \in States \ {"none"} :
          attempt = run[p].tries + 1 /\ state = run[p].state
    BY <1>2, RunTyped, BegunSound DEF Retry, Begun
  <2> QED
    BY <1>2, <2>1, BegunBudget DEF Retry, Begun, Verdicts
<1>3. CASE GiveUp(p)
  <2>1. PICK attempt \in Nat : attempt = run[p].tries
    BY RunTyped
  <2>2. PICK state \in States \ {"none"} : Record(p, run[p].rev, state, attempt, {}, "none")
    BY <1>3, <2>1 DEF GiveUp, GivesUpIn, States, Settled
  <2> QED
    BY <1>3, <2>1, <2>2, BegunBudget DEF GiveUp, Begun, Verdicts
<1>4. CASE OptionsCheck(p)
  BY <1>4, MoveBudget DEF OptionsCheck, dataVars, historyVars
<1>5. CASE OptionsRead(p)
  BY <1>5, RunTyped, ReadBudget DEF OptionsRead, Steps, dataVars
<1>6. CASE OptionsWrite(p)
  <2>1. PICK attempt \in Nat, state \in States \ {"none"} :
          attempt = run[p].tries /\ state = run[p].state
    BY <1>6, RunTyped, BegunSound DEF OptionsWrite, Begun
  <2> QED
    BY <1>6, <2>1, BegunBudget DEF OptionsWrite, Begun, Verdicts
<1> QED
  BY <1>1, <1>2, <1>3, <1>4, <1>5, <1>6 DEF Fault, Options

LEMMA StepBudget == LifecycleInv /\ LifecycleInv' /\ Budget /\ [Next]_vars => Budget'
<1> SUFFICES ASSUME LifecycleInv, LifecycleInv', Budget, [Next]_vars PROVE Budget'
  OBVIOUS
<1>1. CASE UNCHANGED vars
  BY <1>1 DEF vars, Budget, InStep, RowBudget, RepairBudget, SeesRow, Saved
<1>2. CASE Next
  BY <1>2, StartBudget, WorkBudget, RepairStepBudget, FaultBudget DEF Next
<1> QED
  BY <1>1, <1>2

LEMMA InitBudget == Init => Budget
<1> SUFFICES ASSUME Init PROVE Budget
  OBVIOUS
<1>1. RowBudget
  BY NamesDiffer, LifecycleAssumption DEF Init, RowBudget, NoRow, Revs
<1>2. \A p \in Procs : run[p].pc = "idle"
  BY NamesDiffer DEF Init
<1>3. \A p \in Procs : InStep(p) /\ RepairBudget(p)
  BY <1>2 DEF InStep, RepairBudget
<1> QED
  BY <1>1, <1>3 DEF Budget, Init

LEMMA Ranks ==
  /\ \A s \in States : Rank(s) \in 0..6
  /\ \A s \in Settled : Rank(s) = 6
  /\ \A s \in {"drafted", "validating"} : Rank(s) <= 2
  /\ \A s \in {"drafted", "validating", "replaying"} : Rank(s) <= 3
  /\ \A s \in {"drafted", "validating", "replaying", "evaluating"} : Rank(s) <= 4
  /\ Rank("validating") = 2 /\ Rank("replaying") = 3 /\ Rank("evaluating") = 4 /\ Rank("eligible") = 5
  BY DEF Rank, States, Settled

OnwardStep ==
  overtaken' = "no" /\ row'.rev = row.rev =>
    /\ Rank(row.state) <= Rank(row'.state)
    /\ row.state \in Settled => row' = row

LEMMA RowStaysOnward ==
  ASSUME LifecycleInv, UNCHANGED row
  PROVE  OnwardStep
<1>1. row.state \in States
  BY DEF LifecycleInv, TypeOK, Rows
<1> QED
  BY <1>1, Ranks DEF OnwardStep

(* What a run in a step has read is a state that step works in. *)
LEMMA StepStates ==
  ASSUME LifecycleInv, Budget, NEW p \in Procs
  PROVE  /\ run[p].pc \in Begun \ {"persist"} => run[p].state \notin Settled
         /\ run[p].pc \in {"validate", "repair", "child", "commit"} => Rank(run[p].state) <= 2
         /\ run[p].pc = "replay" => Rank(run[p].state) <= 3
         /\ run[p].pc = "evaluate" => Rank(run[p].state) <= 4
         /\ run[p].pc \in {"publish", "record"} => Rank(run[p].state) <= 5
<1>1. InStep(p) /\ RunSound(p)
  BY DEF Budget, LifecycleInv
<1> QED
  BY <1>1, Ranks DEF InStep, RunSound, WorksIn, Settled, Begun, Failing, Repairing, Steps

LEMMA BegunOnward ==
  ASSUME LifecycleInv, Budget, NEW p \in Procs, run[p].pc \in Begun \ {"persist"},
         NEW state \in States, NEW attempt, NEW kinds, NEW verdict,
         Record(p, run[p].rev, state, attempt, kinds, verdict),
         Rank(run[p].state) <= Rank(state)
  PROVE  OnwardStep
<1> SUFFICES ASSUME overtaken' = "no"
             PROVE  Rank(row.state) <= Rank(row'.state) /\ row.state \notin Settled
  BY DEF OnwardStep
<1>1. overtaken = "no" /\ p \in current /\ row'.state = state
  BY DEF Record, Acts
<1>2. run[p].state = row.state
  BY <1>1, InvBudget DEF SeesRow
<1> QED
  BY <1>1, <1>2, StepStates

LEMMA AnswerOnward ==
  ASSUME LifecycleInv, Budget, NEW p \in Procs, run[p].pc \in Begun \ {"persist"},
         NEW state \in States, NEW stage, NEW verdict, Answer(p, state, stage, verdict),
         Rank(run[p].state) <= Rank(state)
  PROVE  OnwardStep
  BY BegunOnward DEF Answer

(* Options are written over the row they were read from: nothing changes.  *)
LEMMA OptionsOnward ==
  ASSUME LifecycleInv, Budget, NEW p \in Procs, OptionsWrite(p)
  PROVE  OnwardStep
<1> SUFFICES ASSUME overtaken' = "no" PROVE row' = row
  BY RowStaysOnward DEF OnwardStep
<1>1. overtaken = "no" /\ p \in current /\ run[p].pc = "persist"
  BY DEF OptionsWrite, Record, Acts
<1>2. run[p].rev = row.rev /\ run[p].state = row.state /\ run[p].tries = row.attempt
  BY <1>1, InvBudget DEF SeesRow, Begun
<1>3. row \in Rows
  BY DEF LifecycleInv, TypeOK
<1>4. [k \in Kinds |-> IF k \in {} THEN "none" ELSE Kept(row.rev, k)] = row.results
  BY <1>3 DEF Kept, Rows
<1>5. row' = [state |-> row.state, rev |-> row.rev, attempt |-> row.attempt, results |-> row.results]
  BY <1>2, <1>4 DEF OptionsWrite, Record
<1> QED
  BY <1>3, <1>5 DEF Rows

LEMMA StepOnward == LifecycleInv /\ Budget /\ Next => OnwardStep
<1> SUFFICES ASSUME LifecycleInv, Budget, NEW p \in Procs,
                    Start(p) \/ Work(p) \/ Repair(p) \/ Fault(p) \/ Options(p)
             PROVE  OnwardStep
  BY DEF Next
<1> USE DEF Begun, Failing, Repairing, Steps
<1>1. CASE Start(p)
  <2>1. CASE StartWrite(p)
    <3>1. row'.rev = run[p].rev /\ run[p].pc = "start" /\ (overtaken' = "no" => overtaken = "no" /\ p \in current)
      BY <2>1 DEF StartWrite, Record, Acts
    <3>2. overtaken' = "no" => row'.rev # row.rev
      BY <3>1, InvBudget DEF SeesRow
    <3> QED
      BY <3>2 DEF OnwardStep
  <2> QED
    BY <1>1, <2>1, RowStaysOnward DEF Start, StartRead, Generate, TakeLatest
<1>2. CASE Work(p)
  <2>1. CASE ValidatePass(p) \/ ValidateFail(p)
    BY <2>1, RunTyped, StepStates, Ranks, AnswerOnward DEF ValidatePass, ValidateFail, States, Settled
  <2>2. CASE ReplayPass(p) \/ ReplayDiverge(p)
    BY <2>2, RunTyped, StepStates, Ranks, AnswerOnward DEF ReplayPass, ReplayDiverge, States, Settled
  <2>3. CASE EvaluatePass(p)
    BY <2>3, RunTyped, StepStates, Ranks, AnswerOnward DEF EvaluatePass, States
  <2>4. CASE EvaluateReject(p)
    BY <2>4, RunTyped, StepStates, Ranks, AnswerOnward DEF EvaluateReject, States, Settled
  <2>5. CASE PublishRecord(p)
    BY <2>5, RunTyped, StepStates, Ranks, AnswerOnward DEF PublishRecord, States, Settled
  <2> QED
    BY <1>2, <2>1, <2>2, <2>3, <2>4, <2>5, RowStaysOnward DEF Work, Begin, PublishArtifact
<1>3. CASE Repair(p)
  <2>1. ASSUME NEW state \in {"failed", "validating"}, NEW attempt, run[p].pc \in {"child", "commit"},
               Record(p, run[p].again.rev, state, attempt, {}, "none")
        PROVE  OnwardStep
    <3>1. (overtaken' = "no" => overtaken = "no" /\ p \in current) /\ row'.state = state
      BY <2>1 DEF Record, Acts
    <3>2. overtaken' = "no" => run[p].state = row.state
      BY <2>1, <3>1, InvBudget DEF SeesRow
    <3> QED
      BY <2>1, <3>1, <3>2, RunTyped, StepStates, Ranks DEF OnwardStep, Settled
  <2> QED
    BY <1>3, <2>1, RowStaysOnward DEF Repair, RepairBegin, RepairRead, RepairRefuse, CommitChild,
       Revalidate, SaveChild
<1>4. CASE Fault(p)
  <2>1. CASE Retry(p)
    <3>1. PICK state \in States : state = run[p].state
      BY RunTyped
    <3>2. run[p].pc \in Begun \ {"persist"} /\ Rank(run[p].state) <= Rank(state)
      BY <2>1, <3>1, Ranks DEF Retry
    <3> QED
      BY <2>1, <3>1, <3>2, BegunOnward DEF Retry
  <2>2. CASE GiveUp(p)
    <3>1. PICK state \in Settled : Record(p, run[p].rev, state, run[p].tries, {}, "none")
      BY <2>2 DEF GiveUp, GivesUpIn, Settled
    <3>2. run[p].pc \in Begun \ {"persist"} /\ Rank(run[p].state) <= Rank(state) /\ state \in States
      BY <2>2, RunTyped, Ranks DEF GiveUp, States
    <3> QED
      BY <3>1, <3>2, BegunOnward
  <2> QED
    BY <1>4, <2>1, <2>2, RowStaysOnward DEF Fault, Quit
<1>5. CASE Options(p)
  BY <1>5, OptionsOnward, RowStaysOnward DEF Options, OptionsCheck, OptionsRead
<1> QED
  BY <1>1, <1>2, <1>3, <1>4, <1>5

LEMMA BudgetInvariance == Spec => []Budget
<1>1. Init => Budget
  BY InitBudget
<1>2. LifecycleInv /\ LifecycleInv' /\ Budget /\ [Next]_vars => Budget'
  BY StepBudget
<1> QED
  BY <1>1, <1>2, Invariance, PTL DEF Spec

(* However many runs are open, while none acts on a row that had changed   *)
(* no revision descends from more repairs than maxRepairAttempts - 1 and   *)
(* the row's own from fewer than its attempts (orchestrator.ts 933).       *)
THEOREM RepairsStayBounded == Spec => []RepairsAreBounded
<1>1. Budget => RepairsAreBounded
  BY DEF Budget, RowBudget, RepairsAreBounded
<1> QED
  BY <1>1, BudgetInvariance, PTL

(* While no run acts on a row that had changed, every step takes a         *)
(* revision's state onward and none leaves a settled one (orchestrator.ts  *)
(* 796).                                                                   *)
THEOREM ProgressStaysMonotonic == Spec => ProgressIsMonotonic
<1>1. LifecycleInv /\ Budget /\ [Next]_vars => [OnwardStep]_vars
  BY StepOnward
<1>2. Spec => [][OnwardStep]_vars
  BY <1>1, Invariance, BudgetInvariance, PTL DEF Spec
<1> QED
  BY <1>2 DEF ProgressIsMonotonic, OnwardStep
=============================================================================
