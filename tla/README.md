# Verification of regulatory-harvest

TLA+ models of the parts of regulatory-harvest that keep state across calls,
processes and crashes, the TLC configurations that check them, and TLAPS proofs
of the invariants that matter most. Paths below are relative to
`src/src/regulatory_harvest/` unless they begin with `docs/` or `tests/`.

## 1. The system

| Component | State it keeps | Operations | What makes it correct |
|---|---|---|---|
| Run storage, v2.2 (`evaluation/attorney_v22_artifacts.py`, `attorney_artifacts.py`) | a run directory: `run-manifest.json`, one file per request and per accepted response; an in-process submission lock | verify, initialise, commit, roll back | a commit is all or nothing; accepted bytes never change; what a reader verified was really on disk |
| Run controller, v2.2 (`attorney_v22_workflow.py`) | accepted calls, one pending call, proposals, concerns, decisions, the sealed baseline, grades, records, result | initialise; preflight and accept a response to the pending call | one call at a time, none twice; the end comes with everything graded; rulings show in the baseline |
| Source baseline (`attorney_v21_compiler.py`, `attorney_v22_compiler.py`) | none: a function of accepted answers | decide, replace, withdraw, contest, resolve, batch | no requirement lost or invented |
| Report outcome (`attorney_v22_compiler.py`) | none: a function of a baseline and two lanes of grades | score, merge, reconcile, test for sensitivity | a pass means what the rubric says, in whatever order graders came |
| Drivers (`attorney_v22_workflow.py`, `attorney_v22_drafts.py`) | the request each holds while an evaluator drafts | load, draft, compile, submit, recheck, pause | a stale draft changes nothing; an invocation returns; a pause tells the truth |
| Stable baseline (`attorney_baseline_workflow.py`, `attorney_baseline_requests.py`, `attorney_baseline_compiler.py`) | a run directory of its own: fragments of a source review and its audit, decisions on what they dispute, the sealed edition; siblings made by correction | review, audit, decide, seal, complete, correct; a driver of its own | a decision lands on its dispute; nothing stated disappears; relationships survive renumbering; what is committed verifies again |
| Delivery readiness (`attorney_readiness_compiler.py`, `attorney_readiness_workflow.py`, `attorney_readiness_requests.py`, `attorney_readiness_handoff.py`) | two grading lanes, two safety lanes, referee decisions, the delivery result | grade, assess, decide, reconcile, tier, hand off | a blocker falls only to a referee; a delivered report is covered; lanes have no order |
| COMBINE pipeline (`combine/`, `models/run.py`, `storage/filesystem.py`) | `request.json`, `manifest.json`, seven checkpoints, three exports, `.run.lock` | run, resume, force a stage, clear a stale lock | a resume skips only what was made from the present inputs, and all of it |
| cite export (`adapters/cite/exporter.py`, `cli.py`) | `cite-export.json`, the receipt; records in cite that nobody reads back | plan, reuse, write annotations, write relationships, write the receipt, retry | a receipt is true; a retry writes nothing twice without cause, and ends |
| Protocols 1.3, 2.0 and 2.1, capsules | run directories like v2.2's | controllers of the same kind | not modelled: see section 7 |
| Sources, providers, analysis, validation, cite import, CLI, scripts | none that outlives a call | fetching, text processing, rendering | not modelled: see section 7 |

How they interact. A driver asks the controller for the pending request, awaits
an evaluator, compiles the draft and submits the response. A submission takes the
submission lock, verifies the directory, computes the next state and commits it
through the run storage. The controller uses the baseline compiler once, when
the last decision arrives, and the report outcome each time the second lane of a
report is complete. The stable baseline and the readiness review are runs of the
same kind, over storage with the same contract; a readiness review grades a report
against a baseline that is already sealed, and scores the strict outcome beside its
own. COMBINE is a separate program path: a caller builds an engine with its own
lock object, and everything else is shared through the directory. The cite export
takes a finished bundle and meets its own past only in the receipt.

What is hard here: several drivers and readers on one directory; system calls
that fail or are cut short in the middle of a commit of several files; requests
held over an await while others answer them; checkpoints written twice with a
manifest in between, compared by hash in a later process; sequences of answers,
each legal, that meet only when the baseline is compiled or the package handed
off; scores that lie exactly on a floor; numbers that relationships are kept by
and a correction moves; remote writes that may have happened. `PROJECT.json` lists
each such place with its line.

## 2. The modules

| Module | Models | Uses |
|---|---|---|
| `AtomicRun` | what the run storage promises: a log of accepted answers that only grows | |
| `RunCommit` | verification entry by entry and file by file, commit and rollback name by name, with I/O errors before or after the effect of a step, and kills | `AtomicRun`, as its abstract specification |
| `SourceBaseline` | from accepted fragments to the baseline | |
| `Rubric` | scoring, merging, sensitivity, as operators | |
| `ReportOutcome` | one report, its two lanes and its record | `Rubric` |
| `EvaluatorRun` | the controller | `SourceBaseline`, `Rubric` |
| `EvaluatorDrivers` | the drivers' loop over one run | `EvaluatorRun` |
| `BaselineOutcome` | what a review, its audit and the decisions make of each proposal | |
| `BaselineEdition` | the numbered baseline, its relationships, and its correction | `BaselineOutcome` |
| `BaselineRun` | the stable baseline's controller, drivers and siblings | `BaselineEdition` |
| `Readiness` | gap candidates, coverage, blockers, tier, handoff, as operators | `Rubric` |
| `ReadinessReview` | one readiness run | `Readiness` |
| `CombineEngine` | the engine, its lock, and its callers | |
| `CiteExport` | the exports a caller makes of one bundle | |
| `RunCommit_proofs`, `ReportOutcome_proofs`, `CombineEngine_proofs`, `BaselineRun_proofs`, `ReadinessReview_proofs`, `CiteExport_proofs` | theorems and proofs | the module each is named after |
| `EvaluatorRun_proofs` | theorems and proofs about the controller and its drivers | `EvaluatorDrivers` |
| `RunAtomic_proofs` | that the storage implements `AtomicRun`, what follows, and what one I/O error leaves | `RunCommit_proofs` |
| `MC*` | constants for TLC | the module each is named after |

`EvaluatorRun` and `BaselineRun` take a submission as one step. That is what
`RunCommit` is for: a run shows, and `RunAtomic_proofs` proves, that a commit
implements `AtomicRun`, in which accepting an answer is one step, as long as the
writers share a process and its lock.

### State and code

* **RunCommit.** `files`, `dirs`, `manifest` and `temps` are the directory; a manifest
  is abstracted to the accepted history, which determines the name and the bytes of
  every other file (`PathsOf`, `Content`). A step is one entry of a walk, one file read,
  or one change of a name. Two pairs of calls are one step: the identity of a directory
  with its listing, and the link of an artifact with the unlink of its temporary. A
  `_NodeIdentity` holds link count, size and times, so a node that has changed never
  again has the one that was noted. `scan` therefore keeps, for each entry a walk
  noted, only whether the node still has that identity, and `owned` the nodes whose
  identity still fits the receipt the transaction has for them. `Scan`, `LoadManifest`,
  `LoadFile` and `Rescan` are the phases of `_verify_or_raise`, with the entries of a
  directory in sorted order, each child walked before the next; `MakeDirectory` to
  `ReplaceManifest` are the forward half of `_commit_with_rollback`, `UndoManifest` to
  `Settle` its except block. An error may come instead of a step or after its effect
  (`Fails*`); a `Crash` may follow any step. Whether an error after a rename leaves the
  rollback able to recognise the file depends on whether the identity had been read
  again (`UndoVisible`). `stood`, `acked`, `unreported` and `gap` are history variables:
  the run that stood on disk when a second walk began, the histories reported as
  committed, those committed and reported as failed, and whether an error has struck
  where no rollback can undo it. There are two such gaps: between making a directory
  and linking its first file, and between moving a name into place and reading its
  identity again.
* **SourceBaseline, EvaluatorRun.** A proposal is a number standing for its
  content; `Statement` and `Dependency` give what the compiler compares. A call is
  its operation, label, lane and item. `Preflight` is what the preflight refuses;
  `Refused`, `LimitExceeded` and `CompilerRaises` are the ways a submission fails
  without effect; `AcceptReview` to `AcceptGrade` are the branches of `_advance`.
  `LegacyItems` is the bound of the V2.1 models an accepted inventory passes
  through.
* **Rubric, ReportOutcome.** A baseline is a function from requirements to
  importances and a function from disputes to two alternatives. `Score`, `Merge`,
  `Reconcile`, `LaneOutcome` and `Sensitivity` are the functions of the compiler
  under those names. Reason codes and determinative contests are sequences in the order
  of the lanes, as in the record and its fingerprint (`attorney_v22_compiler.py:891`,
  `:1021`).
* **EvaluatorDrivers.** `request` is what a driver read before its await. A draft
  that compiles is abstracted to an answer the compiler can make from that request
  (`Compiled`). `Interrupt` is an exception of the evaluator, a cancellation or the
  end of the process. `SubmitByHand` is any other caller whose answer is accepted:
  another driver touches the run in no other way.
* **BaselineOutcome, BaselineEdition, BaselineRun.** A proposal is its statement
  (numbered in the order of the passages), its importance and the statement it
  depends on; an importance stands for the tier with its basis. `reviews`, `audits`
  and `decided` are the accepted answers; `review` and `disputes` what the aggregates
  of them say. `Compiled` is empty when the compiler raises. `Fits` is how an answer
  is bound to the pending request: by operation and, for a decision, by dispute, and
  by nothing else. `Leave` is `max_roles` reached, a kill, or a commit that lost to
  another process. A payload can always be malformed, so `Refused` is always
  possible. A correction (`Correct`) makes a sibling edition; `Corrected` renumbers
  requirements by passage and moves the contested ones behind them. The kind of a
  relationship is left out, and contests are ordered by dispute where the code sorts
  their text.
* **Readiness, ReadinessReview.** A package is what the run is initialised with;
  a grading lane is one step (its calls are those of `EvaluatorRun`), a safety lane a
  record per gap candidate and the findings it proposes, a verdict one of the two
  lanes or unresolved. `Delivery` is the tier with its blockers, `HandoffRenders`
  what the handoff checks again before it renders. `refused` is a history variable:
  the last answer that would have completed the review, had its products been built.
* **CiteExport.** A record's id is its key and its place among the records of that
  key, 0 for no id. Since nobody reads records back, a write that was never applied,
  an answer that was lost and a write that lands late differ only in whether there is
  a record. `text` is a version of each item's wording, and stands for page, document,
  run and relationship label too; the annotation label is in no fingerprint. `Lapse`
  is an invocation given fewer targets or no label, or one that cite does not offer
  relationships; `Kill` is any invocation that ends without its receipt. Each claim
  pair has one citation.
* **CombineEngine.** Stage i writes `file[i]`; the request is `file[0]`. An
  artifact records which execution made its content, from which content, under
  which configuration, and which of the two writes left its bytes. Two artifacts
  are equal exactly when their bytes would be, so a fingerprint is the upstream
  artifact and the stage's configuration. A step ends at one effect on the disk. A
  call that holds the lock releases it in its finally clause, which reads the token
  and unlinks the file in two steps; a kill leaves the file (`Stale`).

## 3. What the runs check

Deadlock is checked in `cite_export`, whose caller can always run the command
again. It is off elsewhere: runs end, callers stop calling, and bounds on calls,
faults and crashes leave states without a step.

| Run | Bounds | Shows |
|---|---|---|
| `runcommit_guarded` | 2 threads of one process, 2 answers, 2 calls, 1 I/O error, 1 kill, 1 reader at a time | types; accepted histories never fork (`NoForkedHistory`); an error outside the two gaps leaves exactly the prior or the committed tree, one inside a directory that is refused (`FailureAtomic`); accepted bytes survive (`AcceptedBytesSurvive`); what a verification returns was on disk whole (`VerifiedReadsAreExact`); the commit implements the log (`ImplementsAtomicRun`) |
| `runcommit_crash` | as guarded | violation: `ResumableAfterCrash` |
| `report_small` | 21 baselines of up to four requirements or two disputes, one with a dispute that outweighs two requirements, all gradings by two lanes | what a pass means (`PassMeansCriticalsMet`); exchanging the lanes reorders the record and changes nothing else (`LanesInterchangeable`); how the disposition moves (`BetterGradesNeverFail`, `NamedDisputesDecide`) |
| `run_source` | 1 report, up to 3 proposals and 2 concerns, 3 fragments, limits reached | the sealed baseline is exactly what the rulings make it, also several about one proposal, with the one case in which an accepted correction is dropped (`RulingsShow`) |
| `drivers` | 1 driver beside submissions by others, 2 reports, up to 3 requirements in batches of 2 | types; stale drafts change nothing; no false blame; every invocation returns; calls unique; everything graded once per lane |
| `baseline_run` | 2 drivers, 3 statements, 2 tiers, 2 fragments per role, one correction | types; every commit verifies again (`RunVerifies`); `DecisionsAnswerTheirDispute`; `NothingDisappears`; tiers are those of the sides the rulings chose (`TiersFollowRulings`); `RelationshipsFollow` a renumbering; `InvocationReturns` |
| `readiness_review` | 11 packages, all gradings, safety lanes and decisions within each package's choices | `BlockersFallOnlyToReferees`; `TierIgnoresLaneOrder`; the second implementation of the strict score agrees with the first (`StrictIsRetained`); `DeliveredMeansCovered`; the last answer is refused for known causes only (`RefusalsAreKnown`) |
| `cite_export` | 1 citation, 2 claims, 2 corpora, 2 writes at once, 1 edit, 1 lapse, 1 fault | types; `ReceiptIsTrue`; `DuplicatesAreCounted`; `RetriesConverge` |
| `cite_partial` | the same, 1 lapse, no edit, no fault | violation: `NothingWrittenTwice` |
| `combine_resume` | 1 caller, 4 stages, 2 requests, with and without a model, stages 1, 3 and 4 forced, 3 calls, failure, cancellation and kill at every step | types; a skipped prefix is derived (`PrefixIsDerived`); finished work is not repeated (`CompletedWorkIsKept`); a bundle names its model, unless the call was forced past the analysis (`NamesItsModel`) |
| `combine_locked` | 2 processes, 3 stages, 2 requests, stages 1 and 2 forced, 3 calls | never two inside (`OneWriter`); a call that ran the last stage returns it and left it in all exports, for its own request unless forced past the first stage (`ReturnsItsBundle`) |
| `combine_mixed` | 1 caller, stages 1 and 2 forced, failures only | violation: `ReturnsItsRequest` |

Why these bounds are enough. *Storage*: a fork, a mixture and a lost file each
need two writers and two answers, the second call gives a transition with a prior
manifest, and one error in a rollback after one kill is already the second failure.
Readers change nothing another could see, so one at a time meets every order of its
steps with a writer's. *Controller*: fragments of at most two make the item, fragment and
inventory limits reachable within a few calls, and batches of two over three
requirements have a full, a short and an absent last batch. *Drivers*: other callers
are seen by a driver only through the run. *Stable baseline*: two statements and an
addition are a proposal, one that depends on it, and one that arrives late; the
drafts include concerns that clash, findings that repeat and a correction that moves
a contest; two drivers overtake each other at every await. *Readiness*: each package
is the smallest of its kind: one requirement with records and findings of both kinds,
five of equal weight that are covered to exactly seven tenths among others, an
external report, the retained contract v2, a prerequisite that may be cleared,
a gap requirement, and contests of equal, unequal and absent alternatives. *cite*:
two claims on one citation share an end; one fault and one lapse each cost a record
already, and a second of either only adds another. *Pipeline*: three calls are one to
make the artifacts, one to disturb them, one to resume; four stages have a stage
before the forced one and one after; two requests and two configurations are the
fewest that can be mixed. Drivers' and controller's grades are fixed where no
property reads them; `report_small` takes all four.

**Fairness.** `EvaluatorDrivers!FairSpec` and `BaselineRun!Spec` are weak fairness of a
driver's next step, which assumes that an evaluator answers or raises: no claim is
made when one never returns, and nobody has to start a driver. `CiteExport!Spec` is
weak fairness of a caller who runs the command again, which is what the documents
tell an operator to do, and of the steps of a started export: every request has a
timeout, and cite answers all but `MaxFaults` times.

## 4. Where code and documents differ

Three differences are runs of their own, with the quotation in `PROJECT.json` under
`findings`:

1. `ResumableAfterCrash`. A process killed between writing artifacts and
   replacing the manifest leaves files no manifest names. Every later verification
   refuses the directory, and nothing removes them.
2. `ReturnsItsRequest`. Forcing collect for a new request replaces
   `request.json` and keeps the old checkpoints; if that collect fails, forcing the
   next stage exports the old question's bundle under the new request.
3. `NothingWrittenTwice`. An invocation that lacks a target, the label or the
   relationship capability replaces the receipt by one that has forgotten ids, so the
   next one writes those records again, with every request answered.

### Other divergences

Met while modelling, each with a behaviour of the same models; they are not runs.

Run storage, v2.2:

* *A manifest the rollback does not recognise* (`attorney_artifacts.py:1468`). An I/O error
  after the manifest's rename, before its identity is read again (`:1599`), leaves the
  rollback with the identity of the temporary file. The rename has changed the ctime (once
  the clock has ticked), so `_replace_owned_artifact` refuses the manifest it installed,
  and the rollback goes on to remove the artifacts that manifest names. The test
  `test_transition_restores_prior_manifest_after_post_replace_failure`
  (`tests/evaluation/test_attorney_v22_artifacts.py:1897`) has the error after
  `atomic_write` has returned, and there the prior tree is restored. `FailureAtomic` says
  both: `gap` is what tells them apart.
* *An artifact nobody removes*. The same gap after the link of an artifact
  (`attorney_artifacts.py:1596`), and the one between making its directory and
  linking it (`attorney_artifacts.py:1107`), leave a file or an empty directory that the
  rollback does not own; every later verification refuses the directory, where
  `docs/superpowers/specs/2026-08-19-evaluator-protocol-2-2-design.md:482` has
  implementations "preserve crash-safe rollback and discoverable recovery".
* *Committed and reported as failed* (`attorney_v22_artifacts.py:1432`). The last
  `assert_root_identity` is outside the try: an error there is raised over a successor
  that stays (`unreported`).

Run controller and report outcome, v2.2:

* *Decisions that do not compile together* (`attorney_v22_workflow.py:1324`).
  Decisions are accepted one by one and compiled with the last; earlier ones may
  conflict so that no last decision compiles, and none can be taken back.
* *A mixed world* (`attorney_v22_compiler.py:972`). Two worlds are scored, all
  disputes for the reviewer and all for the auditor. With two disputes that weigh on
  opposite sides both agree and a mixed world does not, where
  `docs/superpowers/specs/2026-08-18-evaluator-protocol-2-1-design.md:227` has the
  outcome calculated under both alternatives "for each contested requirement".
* *Audit over the legacy bound* (`attorney_v22_compiler.py:468`). Up to 640
  proposals are accepted, and `_v21_inputs` builds models that hold 128. With more,
  every completing audit fragment raises; the run stays pending.
* *An accepted correction that is dropped* (`attorney_v21_compiler.py:471`). If one
  concern replaces a proposal and another withdraws or contests it, the replacement
  is left out silently. `RulingsShow` names this case, and shows that it is the only one.
* *Grader disagreement first* (`attorney_v22_compiler.py:1011`). The lanes are
  reconciled over ordinary requirements alone, so a report can end in
  `GRADER_DISAGREEMENT` although both lanes agree over the complete baseline, where
  `README.md:42` has it only for a difference in the scored outcome. So better grades
  can undo a pass: with two supporting requirements and a critical dispute met by both
  lanes, grades met and partially met in lane 1 and the reverse in lane 2 pass; once both
  lanes raise the first requirement to met, lane 1 passes and lane 2 fails over the
  requirements, and the report is inconclusive. `BetterGradesNeverFail` says that this
  is the only way, and that the report never fails.
* *A draft that repeats an accepted proposal* (`attorney_v22_drafts.py:586`)
  compiles and is refused by the preflight, so the driver pauses with
  `COMPILER_PREFLIGHT_DISAGREEMENT` where a clarification would do.
* *A pause with an answered request* (`attorney_v22_workflow.py:1405`). The request
  was read before the await, the state beside it after it. The stable baseline's
  driver does the same (`docs/evaluation.md:176`).

Stable baseline:

* *An answer bound to the next request* (`attorney_baseline_workflow.py:632`). The
  controller binds a payload to whatever request is pending, so a fragment written
  for one review or audit request is accepted as the answer to the next, against
  `docs/evaluation.md:173`. A decision is not, since it names its dispute. Later the
  repetition is found: a statement repeated in two fragments that do not end the
  review leaves a run that no last fragment can complete.
* *An omission that cannot be rejected*. A decision for the reviewer on an omission
  is always refused, since the reviewer has no alternative, and so is one for the
  auditor on an ambiguity without a correction
  (`docs/superpowers/plans/2026-08-24-stable-evaluation-baseline.md:451`).
* *Half-checked fragments*. A fragment that does not end an audit is checked for its
  findings and not for its concerns; a clash among those makes every last fragment,
  or every last decision, uncompilable.
* *A tier neither side gave*. When an importance is left unresolved after an accepted
  correction, or beside an unresolved statement, a contest's alternative can carry the
  other side's tier (`tests/evaluation/test_attorney_baseline_compiler.py:555` has one case).
  And a contest about a concern is published at whatever tier the referee gives
  (`attorney_baseline_compiler.py:785`): only one about importance is held to the two
  tiers stated (`:545`). `TiersFollowRulings` says which tier comes from where.
* *Two contests with one statement*. Statement and importance of a proposal both
  left unresolved give two contests; a dependency on the proposal then has two ends,
  and the last decision is refused.
* *Audit capacity* (`attorney_baseline_compiler.py:328`). Findings and concerns share
  640 places in 128 fragments and every proposal needs a finding, so an audit that
  spent its fragments on concerns cannot be completed.

Delivery readiness:

* *A gap requirement not fully met* (`attorney_readiness_handoff.py:533`). The handoff
  demands a row of origin requirement for every requirement not fully met, while the
  inventory (`attorney_readiness_requests.py:1366`) gives one of kind gap only a row of
  origin baseline gap. The last answer of such a run is refused for ever
  (`docs/superpowers/specs/2026-08-24-review-ready-delivery-design.md:357` has the gap
  matrix complete, and 536 the package delivered).
* *Other last answers that are refused*: an assessment with a blocking code the rubric
  does not list (`attorney_readiness_compiler.py:795`; a finding's code is checked when
  it is accepted, an assessment's is not); an absent alternative graded below the
  present one, which the gap row counts and the coverage does not; several contests
  that cross; under contract v2, a disclosure location the report does not have.
  `RefusalsAreKnown` is the complete list, within its packages.
* *Blocker codes follow lane 1* (`attorney_readiness_compiler.py:782`). For an
  unresolved dispute lane 1's record is kept, so the codes depend on the order of lanes.
  The tier does not.
* *A contest counted at one weight*. With a lighter alternative a delivered report can
  cover less than seven tenths of that alternative's world. And raising an uncertain
  grade to met can turn a deliverable report with a contest into
  `OUTCOME_DETERMINATIVE_CONTEST`.

COMBINE:

* *A lock cleared too late* (`combine/engine.py:86`). The caller who clears a stale
  lock unlinks whatever is there, also the lock another process took meanwhile;
  then two are inside. `release` has the same gap between read and unlink. One lock
  object shared by two tasks keeps one token per run (`combine/engine.py:77`); nothing
  under `src/` shares one.
* *A run killed between `request.json` and `manifest.json`* (`combine/engine.py:183`),
  or after the last manifest and before the first `bundle.json`, is refused as
  corrupt by every later unforced call.
* *A rerun killed before its export* (`combine/engine.py:259`) is resumed as finished
  and returns the previous bundle.
* *A later stage forced after a failed one* (`combine/engine.py:297`) completes; the
  manifest it leaves does not parse again.
* *A model named for a skipped analysis* (`combine/engine.py:364`). A run repeated
  without its provider keeps `provider_metadata`, which the audit prints.

cite:

* *Duplicates after a failure* (`adapters/cite/exporter.py:381`). A write whose answer is
  lost, or that is followed by a kill before the receipt, is written again by the retry,
  where `docs/integrations/cite.md:88` explains the receipt as what prevents it.
  `DuplicatesAreCounted` bounds the damage of these and of incomplete invocations: one
  record for each.
* *A changed annotation label* is in no fingerprint: what was written under the old
  one is reused. A record deleted in cite is not noticed either.
* *Import* (`adapters/cite/importer.py:158`). Pages are asked for by offset, so a
  document or annotation deleted while pages are read makes the next page skip one,
  without a gap in the result; and chunks of a document are checked by total length
  only. Read in the source; not modelled.

## 5. What is proved

The `*_proofs` modules are checked by TLAPS for every value of the constants that
satisfies the named assumptions: names and labels are distinct, limits are numbers,
and what an evaluator hands in has the shape its schema demands. An audit item that
names no proposal carries a correction (`EvaluatorRun!AnswersAssumption`,
`BaselineOutcome!Concern`), drafts are finite (`BaselineRun!DraftsAssumption`), and a
readiness package is finite, its alternatives weigh what their contests weigh, and its
records have a candidate's fields (`ReadinessReview!CasesAssumption`). TLC evaluates
each of them in a run.

Two habits recur. An invariant that had to be found was given to TLC before it was
proved. And where a fact about sums, batches or numberings needs induction, it is
shown of a least counterexample (`LeastNatural`, `LeastStage`, `SmallestSet`), since
the library's induction theorems take an operator as a parameter.

**`RunCommit_proofs!TypeCorrect`** (property `TypeOK`). `TypeInv` adds to the types
what each label implies about the transaction: a process that links has a file left to
write, one that restores holds a claimed manifest. Without it the indices of a commit
are not in range. One lemma per action or group of actions.

**`RunCommit_proofs!ReadsAreExact`** (property `VerifiedReadsAreExact`), for any
number of processes, with or without the lock. A change of a node turns every note of
it into "changed", and a name that comes or goes changes its directory too. `ReadInv`
says of a verifier what its notes are worth while they are "same" (`NotesHold`): a noted
directory has the entries it was found with, a file loaded still has its bytes. Before
the second walk, `stood` takes what is on disk whole at that moment; if that is not the
history that was loaded, some entry the second walk has yet to reach is already noted
as changed (`Sure`). Notes never become "same" again, so a second walk that finds nothing
changed has returned what stood when it began.

**`RunAtomic_proofs!HistoriesNeverFork`** (property `NoForkedHistory`),
**`AcceptedBytesAreKept`** (`AcceptedBytesSurvive`) and **`CommitsAreAtomic`**
(`ImplementsAtomicRun`), for any number of writers, errors and kills, under
`SharedLock`: the writers are threads of one process. None of the three is inductive.
`RunInv` adds four parts to `ReadInv`, and was checked as an invariant by TLC first.
`LockInv`: whoever is in a transaction holds the lock, or is initialising alone.
`RootInv`: no file or temporary is in a directory that is not there. `LoneInv`: a
verification under the lock is not disturbed, so what it noted is the directory.
`DataInv`: the history an open transaction started from is whole on disk, begins with every
acknowledged history, and owns none of the files the transaction created, so that
undoing it removes nothing of theirs. The step that matters is `Opens`: a submission
goes on only from an exact tree, the tree holds the files of everything acknowledged,
and the contents of a file tell its history, so the history verified begins with every
acknowledged one (`ExactExtendsAll`). The proof does not go through the actions for
each property: `StepKind` says that every action is one of seven kinds of step (it
looks, asks for the lock, leaves, opens, works, acknowledges, or dies), and each
property is shown of the kinds. For the refinement, the log does not change while a
transaction is open; one that ends leaves its base, its successor, or a directory that
is refused (`ClosingLog`).

**`RunAtomic_proofs!OneFailureIsUndone`** (property `FailureAtomic`), for any number
of writers under `SharedLock`. `FailureAtomic` speaks of executions without a kill and
with at most one I/O error (`Calm`). Outside the two gaps the directory between
transactions is exactly the last run committed, or empty (`Settled`); after an error in
one it is one that no verification accepts. `CalmInv`, the invariant that implies both,
was checked by TLC before it was proved. Without an error in a gap an open transaction
is `Undoable`: the artifacts are those of its base and those it owns (`FilesInv`), so are
the directories (`DirsInv`), one it made holds a file it created or is about to
(`DirsUsed`), and each label says where the manifest, the temporary and the files still
to write are (`Stage`). Two facts make it inductive: at the labels of a rollback the one
error has been used, so no rollback fails; and under the lock everyone else at most reads
(`OthersRead`), so the manifest the rollback claims is the one it looked at. After an
error in a gap it is `Stuck`: an empty directory, a file that is not on its list
or the manifest of a run whose files it removes (`EmptyLeft`, `FileLeft`, `ManifestLeft`)
stays until the transaction ends.

**`ReportOutcome_proofs`**, for any finite baseline and any grading:
`PassingReportsMeetCriticals` (`PassMeansCriticalsMet`), `LaneOrderReorders`
(`LanesInterchangeable`: the record and its fingerprint do depend on the order of the
lanes, the disposition and what is named do not), `BetterGradesStay` (`BetterGradesNeverFail`) and
`NamedDisputesAreDecisive` (`NamedDisputesDecide`). `OutcomeInv` only says that a record
is the sensitivity of two aggregates that cover the baseline; the work is about the
rubric. In a world at or above the critical floor, met and partially met observations are
disjoint among the critical ones, so two halves for each force every one of them to be met
(`CriticalsMet`), and an observation of any world is in one of the two that are scored.
A grade raised to met counts as many observations and credits no fewer halves of each
importance (`RaisingCredits`), so a world that passes still does. It was this proof that
did not go through for the stronger statement that the report still passes; TLC has the
counterexample above with the baseline now among the run's. For the disputes, settling
the named ones for the auditor gives a lane the very world of the auditor's side, since
the others look alike from both sides.

**`EvaluatorRun_proofs!RulingsAreShown`** (property `RulingsShow`), for any proposals,
answers and limits. `SealInv` says that the phases come one after the other over finished
inventories, and that once grading starts there is one decision for each concern and the
requirements are those of the accepted answers; nothing in the grading phase touches
them. The rest is about the compiler's operator (`RulingsOfRequirements`).

**The controller's calls**, for one report or two, any number of requirements, disputes, batches
and answers and any limits: `CallsAreUnique` (property `CallsUnique`) and
`EndedRunsAreCovered` (`EndedMeansCovered`). Nothing in the run records which calls were
issued; the next grading call is computed from a count. `RunInv` adds to `SealInv` what
the count means: an accepted call lies behind the pending one in the order of the phases
or is one of the grades (`OrderInv`), and after g grading calls the grades are the
answers to the first g steps of `GradeSteps`, and the next one is pending (`GradesInv`).
Then uniqueness is that no two steps are equal (`GradeStepsDiffer`), and coverage that
every contested item and every requirement of every report and lane is in exactly one
step; for the requirements this is arithmetic about batches, ranking a finite set and
dividing by the batch size (`RankIsOnto`, `OneBatchEach`, `BatchesCover`).

**The drivers**, for any number of them beside any number of other callers, interrupted
anywhere. `DriversMakeARun` is a refinement: what happens to the run is a behaviour of
`EvaluatorRun!RunSpec`, so the theorems of the controller hold of it. `DriversAreTyped`
(`TypeOK`), `StaleDraftsAreHarmless` (`StaleDraftChangesNothing`) and
`DisagreementsAreReal` (`DisagreementIsReal`) rest on `DriversInv`: what a driver holds is
a request the run has issued, an answer that compiles from that request, or a refusal of
it (`Holds`), whatever the run has done since. A held request that is not pending any
more has been answered, requests are unique, and so the preflight refuses the draft
before anything is written.

**`CombineEngine_proofs!MutualExclusion`** (property `OneWriter`), under
`SoleClearing`: no caller clears locks, or there is one caller. `LockInv` says the
lock file holds the token of whoever is inside or about to unlink. Section 4 shows
that the assumption is needed.

**`CombineEngine_proofs!TypeCorrect`** (property `TypeOK`).

**`CombineEngine_proofs!ResumeSkipsOnlyDerived`** (property `PrefixIsDerived`), for
any stages, requests, configurations, forced stages, failures and kills, under
`SoleClearing`. `PrefixIsDerived` is not inductive: it speaks only of stages whose
fingerprints match now, and a step may make one match. `ResumeInv` has two parts.
`DiskInv`: for each stage the manifest records as done, if its upstream is still the
artifact its fingerprint names, then its checkpoint was made from it (`Linked`).
`HolderInv`: what the lock's holder has in memory agrees with the disk at each label,
in particular that between the two writes of a checkpoint the bytes change and the
content does not. Lock-freedom from interference comes from `LockInv`
(`OthersHold`). `ResumeInv` was checked as an invariant by TLC first.

**`CombineEngine_proofs!ResumeKeepsCompletedWork`** (property `CompletedWorkIsKept`),
under `SoleClearing`. `KeptInv`: a stage the manifest records as done has its checkpoint
on disk, recorded with the file before it as its input and readable if the stages before
it are done too, up to what the holder of the lock is replacing (`DiskKept`,
`HolderKept`).

**`CombineEngine_proofs!BundlesNameTheirModel`** (property `NamesItsModel`), under
`SoleClearing`, whatever stages any call forces. What it says excepts the calls that were
themselves forced to start behind every analysis stage: TLC finds that these return a
bundle that names the model of a call that repeated none of the analysis (section 4).
`NameInv`: a manifest whose analysis is complete names the model its last analysis stage
was made under (`NamesAnalyst`), and a call that is past the analysis without having been
forced past it has its own model in the manifest and the bundle (`HoldsName`).

**`CombineEngine_proofs!CallsReturnTheirBundle`** (property `ReturnsItsBundle`), under
`SoleClearing`, whatever stages any call forces. A call that ran the last stage returns
the last checkpoint and left it in all three exports; that it is for the call's own
request excepts calls that were themselves forced past the first stage, which is
the finding `ReturnsItsRequest` of section 4. `ReturnInv`: the checkpoint an unforced call
goes on from, and every bundle it holds, is for its request (`HoldsChain`: the stages it
skips were made one from the other from the stored request, `SkippedAreOfTheRequest`),
and once exporting, the bundle and the exports written so far are the last checkpoint
(`HoldsExports`).

**`BaselineRun_proofs!DecisionsLandOnTheirDispute`** (property
`DecisionsAnswerTheirDispute`), for any drivers, statements and drafts. The argument
is short: only `Decide` decides (`OnlyDecideDecides`), and it fits the dispute a driver
asked about to the one that is pending. It is stated because nothing else binds an
answer to its request.

**The stable baseline**, for any statements, importances, drivers, finite drafts,
corrections and bounds. `Invariant` is `[]IInv`: fragments are open until their final one
(`FragmentsInv`), what was aggregated is the aggregate of the fragments accepted
(`AggregatesInv`), disputes are decided in their order and as they may be
(`DecisionsInv`), every edition is what its origin and its correction make it
(`EditionsInv`), and drivers ask requests of the past or the pending one (`DriversInv`).
`TypesHold` (`TypeOK`) and `RunsVerify` (`RunVerifies`) are read off it: replaying the
accepted answers succeeds after every commit. `NothingIsLost` (`NothingDisappears`) and
`TiersAreRuled` (`TiersFollowRulings`) go through the cases of the disputes about one
proposal, which may be withdrawn by one, replaced by the next and re-tiered by a third.
`TiersAreRuled` covers the requirements (the settled proposals and the accepted
omissions, and no others), both sides of every contest, and the tier a contest is
published at, which is stated for its proposal when the contest is about importance and
the referee's alone when it is about a concern.
`RelationshipsFollowCorrections` (`RelationshipsFollow`) is about numbers: an edition
numbers its requirements by passage and its contested ones behind them, a correction
moves both, and a relationship is kept as a pair of numbers. The number of a
requirement is shown to be its place among the statements, none skipped and none
repeated, and what a correction means by an old number to stand under its new one
(`StandsForMeant`).

**`ReadinessReview_proofs`**, for any package with finitely many requirements and
contests, and any answers. `ReviewInvariant` (`ReviewInv`): lanes come in order
(`LanesInv`), the result is the delivery of exactly what was accepted (`DecisionsInv`),
and a refused answer was one that would have completed the review (`RefusedInv`).
`BlockersNeedReferees` (`BlockersFallOnlyToReferees`): a candidate on which the lanes
agree keeps its severity, one they dispute gets a lane's verdict only from a referee, and
a dispute that a referee leaves open blocks. `LaneOrderIsNothing` (`TierIgnoresLaneOrder`): exchanging
the lanes, and the referees' choices with them, keeps every verdict and hence the tier.
`StrictOutcomeIsRetained` (`StrictIsRetained`): the code scores twice, by two
implementations that sum differently; sums over a finite set exist and do not depend on
the order (`SumsExist`, `SumsAgree`). `DeliveryIsCovered` (`DeliveredMeansCovered`):
a lane is credited the worse grade of each contest (`ConservativeIs`); every world has
the same weights, since the alternatives of a contest weigh the same, and no worse
grades, so it covers no less (`BetterCovers`). `RefusalsHaveReasons` (`RefusalsAreKnown`): that the last answer can be
refused at all is a fact about the code (section 4); the theorem says that there are no
reasons but the known ones. It comes down to what one contest adds to the rows of the
handoff.

**`CiteExport_proofs!ReceiptsAreTrue`** (property `ReceiptIsTrue`), for any bundle,
corpora, concurrency and numbers of edits, lapses and faults. A receipt is what a
running export hands over, so `IInv` says the same of `entries` while it runs
(`SoundIn`, `JoinedIn`), together with where in the plan it is (`Planning`, `Reusing`,
`Writing`, `Phases`) and that it is of the receipt's corpus (`Corpus`). The step that
matters is `Gathered`: a relationship is looked up by its own key, but its
fingerprint is made of those of its ends, so if it is reused then the ends in the
receipt have the fingerprints of now, and were reused with it.

**`CiteExport_proofs!TypeCorrect`** (property `TypeOK`) and **`DuplicatesAreBounded`**
(`DuplicatesAreCounted`), for the same. A count of records and a count of events cannot
be compared step by step: a kill may follow the write that it makes forgotten. `Counted`
is the amortised form: the events so far pay for every record of a key and fingerprint
but one, and that one is named by the receipt, or by the running invocation's entries,
or will be reused by it (`Spoken`). A key whose record is spoken for is not in flight
(`WrittenIsUnspoken`); a step that loses a claim to a record is a fault, a lapse, or a
new wording, and a new wording has a version that no record was made from (`Versions`).

Every safety invariant and every action property of the passing runs is thus proved.
Only model-checked is liveness (`InvocationReturns` of both drivers,
`RetriesConverge`), which is out of the prover's reach, as is ENABLED. The theorems under
`SoleClearing` and `SharedLock` say nothing of runs outside these assumptions: of a lock
cleared too late (section 4), and of two processes on one run directory (section 7).

## 6. Running it

    tlc -workers 2 -config CombineEngine_resume.cfg MCCombineEngine
    tlapm CombineEngine_proofs.tla

Each run names its module and configuration in `PROJECT.json`; the longest, `runcommit_guarded`,
takes about two and a half minutes. Each passing property is paired there with a mutant: an
operator defined just before the definition it replaces and commented "mutant", under
which the run finds the property violated.

## 7. What is not modelled, and why

* Two processes without a common lock on one run directory: a rollback may then claim
  another process's manifest. `RunCommit` models it (`SharedLock = FALSE`), and
  `TypeCorrect` and `ReadsAreExact` are proved of it; what a commit leaves is not claimed
  there, and no run has it.
* The Windows storage: a second implementation of the contract of `RunCommit`.
* Text: fetching, normalising, quoting, coverage analysis, prompts, rendering.
  These are sequential functions over strings; the models take their results as
  values. So are the wording checks of readiness and baseline drafts.
* Providers, the command line and the cite import: adapters without state of their
  own.
* Protocols 1.3 and 2.0: superseded, kept to verify old runs. Protocol 2.1 but for its
  baseline compiler.
* Generation and qualification capsules: directories written once, with hashes.
* The readiness controller's calls and drivers, which are those of v2.2 with other
  payloads; contract v1 and its disputes by dimension; the historical cross-check.
* The inputs gathered at initialisation, the proof chain of a correction, and the
  projection of a stable baseline into a readiness review.
* Hash collisions and deliberate tampering with a run directory.
* In `EvaluatorRun`: the inconclusive ends that source acquisition causes before
  any call is made, and the contents of requests beyond what an answer depends on.

## 8. What could come next

1. Protocol 2.1's mechanical repair, and that a repaired response means what the
   original meant.
2. Capsules, over `RunCommit`'s storage steps.
3. Pure algorithms: ledger repair and scoring of 1.3, coverage reconciliation.
4. Proofs: what `CombineEngine` still promises when several callers clear the lock, and
   `BaselineRun` as an implementation of an abstract log of editions.
