# FinGuard in TLA+

A verification project for FinGuard, a release gate for regulated software. FinGuard evaluates
scanner reports, approvals and change requests against a policy, writes an evidence bundle,
verifies it, and deploys the approved image to Kubernetes with a way back. The modules here are
translated from `finguard/`; every definition that models code is mapped to its lines in
`PROJECT.json`.

## 1. Inventory

| component | state it keeps | operations | interacts with |
| --- | --- | --- | --- |
| deployment workflow (`deployment.py:315-410`, `deployment_signals.py`) | progress of one execution, what it may have mutated, status of the record, signal mask | lock, journal, apply, rollout, smoke test, verify, publish, recover, release | the guard, the records, cosign, kubectl, signals |
| deployment guard (`deployment_guard.py`) | snapshot of the Deployment, expected template, token, uid, flags | acquire, apply, verify, restore, release | one object of the API server, by read and conditional JSON Patch |
| Kubernetes object (external) | template, annotations, lock annotation, resourceVersion, uid | patch with tests, delivery now, late or never | all runs, controllers, tools, operators |
| deployment records (`deployment_records.py`, `safeio.py`) | reservation directories, recovery journal, result, signature | reserve, checkpoint, persist, release | other runs and foreign programs on the same file system |
| evidence storage and writer (`evidence_storage.py`, `evidence_writer.py`) | output directory, staging directory, backup | validate, write, publish by two renames, reclaim | other gate runs, readers, people |
| evidence verifier (`evidence_verifier.py`) | private copy, parsed manifest | copy, ownership, closed world, hashes, signature, decision, audit chain | writers that replace what is being read |
| input snapshots (`snapshots.py`) | bytes and files copied so far, the private copies | copy a file chunk by chunk, copy a directory, refuse what exceeds a budget | gate and verifier; programs that write the sources |
| admission (`deployment.py:170-258`) | none | compares the verified evidence with the allowlists of the request, ages and windows | verifier, policy, change, subject |
| gate (`gate.py`, `gate_service.py`, `models.py`) | none shared; copies of the inputs, reports, lists of findings and violations of one evaluation | copy, parse, deduplicate, suppress, check, decide, archive | snapshots, all checks, parsers, VEX, policy exceptions |
| report parsers (`parsers/`) | none | detect a format, accept or refuse a report, normalise severities, count tests and components | gate |
| suppression (`checks/suppression.py`, `vex.py`, `policy_exceptions.py`) | none | reject or accept exceptions and reviews | gate |
| quality checks (`checks/quality.py`) | none | required scans, SBOM, severities, licences, tests | gate |
| provenance and change checks (`checks/provenance.py`, `change.py`, `common.py`) | none | bind scans and approvals to the release, separate duties | gate |
| approvals, attestations, change, subject (`approvals.py`, `attestation.py`, `change.py`, `release.py`) | none | parse, bind by digest, check windows | gate, admission |
| licenses (`licenses.py`) | none | evaluate SPDX expressions | quality checks |
| signing (`signing.py`) | staged signature | sign, verify with cosign | records, writer, verifier |
| policy (`config*.py`, `policy_*.py`), data model (`models.py`), reporting, native scanners, CLI, scripts, sample service | none | parse, validate, render | everything |

Components interact in four ways: runs of `finguard deploy` share one Kubernetes object and see
each other only through its lock; runs share a file system and see each other only through
reservations; gate runs and readers share evidence directories without any lock; everything else
is a function call within one process.

### What is hard, and what must hold

* **The target object.** Two executions, controllers and people write it. A patch may be
  rejected, applied with its reply lost, or applied after its client gave up. Signals arrive at
  any instruction and processes die. It must hold that one run at a time owns the target, that
  nothing is changed before the way back is on disk, that only one's own change is taken back,
  and that the published record tells the truth.
* **The records.** Reservations are several directories, the result is two files. It must hold
  that runs do not share a path or refuse each other mutually, that the JSON is never there
  without its signature, that the journal of a mutated target survives, and that nobody else's
  file is touched.
* **Evidence.** Replacement is two renames, reading is many opens. No bundle may be lost, no
  foreign directory destroyed, and no mixture accepted as a bundle.
* **Inputs.** Policy, reports and attestations belong to other programs, which may still write
  them. What is parsed, what an attestation is bound to and what is archived must be one set of
  bytes, budgets must hold although a file grows while it is read, and no parser may drop what a
  scanner reported.
* **The decision.** Deduplication, exceptions, VEX and severity thresholds meet in one pass; a
  wrong order or boundary lets a finding disappear. Approvals must come from distinct people for
  distinct roles.

`PROJECT.json` lists each hazard at its line with the properties that would catch it.

## 2. Modules

| module | models | uses |
| --- | --- | --- |
| `TargetObject` | the object, the conditional patches and what they test and write, delivery, outside actors | |
| `GuardedChange` | abstract specification: one owner, recorded changes, own rollbacks | |
| `Deployment` | the workflow over the guard, journal and result, failures, signals, crashes | extends `TargetObject`, refines `GuardedChange` |
| `DeploymentInvariant`, `DeploymentProofs` | inductive invariant and theorems | extend `Deployment` |
| `DeploymentRecords` | reservations, journal, publication | |
| `RecordsInvariant`, `RecordsProofs` | inductive invariant and theorems | extend `DeploymentRecords` |
| `EvidenceStorage` | publication of bundles | |
| `EvidenceExchange` | a reader that copies and verifies meanwhile | extends `EvidenceStorage` |
| `EvidenceProofs` | theorems of both | extends `EvidenceExchange` |
| `Snapshots` | private copies of single files, chunk by chunk, with their budgets | |
| `Reports` | the ten report formats: detection, acceptance, findings, counts | |
| `Licenses` | the evaluation of licence expressions | |
| `Intake`, `IntakeProofs` | `execute_gate` from the request over copies, parsing and the licence check to the archive; theorems, also about licence expressions | extend `Snapshots`, `Reports`, `Licenses` |
| `Findings` | reports, fingerprints, how observations are merged | |
| `Suppression` | when exceptions and VEX reviews are refused, and what they take away | extends `Findings` |
| `Quality` | thresholds and test metrics | extends `Suppression` |
| `Gate` | one evaluation from the first report to the decision | extends `Quality` |
| `GateInvariant`, `GateProofs` | inductive invariant and theorems | extend `Gate` |
| `RoleMatching`, `MatchingProofs` | the search for distinct approvers, step by step, and its theorems | |
| `ReleaseChecks` | what the gate asks of change, approvals, subject and scans | |
| `Release`, `ReleaseProofs` | from the documents of a release over the decision to the admission of its deployment; theorems | extend `ReleaseChecks` |
| `Sums` | lemmas for the proofs: sums over finite sets, least numbers, induction | |
| `MCDeployment`, `MCRecords`, `MCEvidence`, `MCIntake`, `MCGate`, `MCMatching`, `MCRelease` | values of the constants for TLC | |

### How state and actions correspond to the code

*Deployment.* `run[r]` holds what one process keeps in locals and in its `DeploymentGuard`: the
label `pc`, `original` (the snapshot's content), `seen` (what the last read returned, for the tests
of the next patch), `uid`, `attempted`/`mutated`/`restored`, `recovering` (signals masked), the
`status` and `rollback` of the record, and how the call `exit`s. `obj` is the Deployment; its
content is image, rest of the template, and audit annotations, with `by` as a history field for
who deployed it. `late` holds patches whose client has given up. Each kubectl call and each
durable write is one action; code between two of them is not visible to anybody and belongs to the
action before it. A label that names an operation stands before its patch: `"acquire"`, `"apply"`,
`"restore"`, `"release"`. `Passes` and `Written` say what each patch tests and writes;
`PatchAnswered`, `PatchLost` and `PatchDelayed` are its outcomes. `Handled`, `Failed`, `Conflicted`
and `Finally` are the exception paths of `_deploy`. `journal[r]` and `result[r]` are the files;
their reservation is the subject of `DeploymentRecords`, so here each run has its own.

*DeploymentRecords.* Paths are numbers, in the order of `sorted(paths)`. `reserved[p]` is the owner
of the directory `.<name>.finguard-lock`, `run[r].locks` the list `self.locks`. A file is known by
who wrote it, its kind and the call of `persist` that staged it, which is what `samefile` and a
verifier can tell. The workflow is reduced to what the records see: admitted or refused, a plan or
a mutation, succeeded or failed. A dry run goes from `"admit"` straight to `persist` with `n = 0`
and its signals on (`deployment.py:312`), where those of a deployment are masked (`Masked`); a
signal there ends `persist`, with or without its cleanup, according to what the two flags
`published_bundle` and `published_output` say by then (`Interrupt`). Every run signs; without
`--sign` there is no bundle and nothing to keep together.

*EvidenceStorage, EvidenceExchange.* A directory maps names to the bundle a file was written for,
so "hash matches the manifest" becomes "is the file that bundle has". `Owned` is
`_owned_bundle`; `Acceptable` is `_validate_output_target`; one action per rename. The reader
lists and opens files by path, as `copy_directory` does, so each open may meet another directory.

*Snapshots, Intake.* A path leads to an inode and an inode holds blocks; `reader` is the open file
of `copy_file`, which stays the inode it was when another program renames a file over its path. A
block knows of which document it is a part, so a copy of two versions, or of a file that was cut
off, parses as no document at all (`DocumentOf`). `budget` is `total_bytes` and the number of
entries, `copies` the private directory. The sources change between any two chunks (`outside`).
`Intake` runs the statements of `execute_gate` in order over them: `pc` names the next one, `todo`
the paths `_snapshot_request` has still to copy, `request.named` the options
`--report type=path`, in their order. After the copies come the policy, the reports one by one,
the binding of attestations to what they attest, `check_licenses` and the archive.

*Reports.* A JSON object is a record whose fields are its keys, so a format is detected by
`DOMAIN`, as `parse_report` detects it by `in`. For each format `<Name>Accepts` says when a report
is taken, for it is refused as a whole, and the operators after it what a good one reports. Whatever no property looks at
(messages, places, references) is the one field `ok` of its object. Rates are hundredths of a
per cent and scores tenths, so that rounding and the boundaries of severities stay visible.

*Licenses.* An expression is its sequence of tokens. There is one operator per method of the
parser, over a table of what the methods return; `Parsed` is the recursive function that solves
these equations for a method's name and a position, and holds the position after what was read and
its value. An expression in parentheses has the base `Nameless`, which no entry of a policy begins
with, since entries are stripped (`config_fields.py:22`). The property does not use the parser:
`Worth` splits an expression at its weakest operator outside parentheses and takes the best
alternative.

*Gate.* `stage` is the statement of `_evaluate_snapshot` and `evaluate` that is next, `lists` holds
the locals `issues`, `inventory`, `vexed`, `excepted` and `active`, `violations` the codes that
were added (a code that stands for several is named for what they share: any ground to refuse an
exception is `EXCEPTION_REJECTED`). The checks themselves are pure, so they are operators, one per
method, and each action applies one of them to the current lists. A finding is its identifiers,
category, place, severity and what its scanner claims (findings of category "license" and those of
kind "dependency_license", at one of the `LicensePlaces`, are inventory and not issues); its list position is kept only where the
code looks at it: `max()` takes the first of the worst observations, and the candidates for a
fingerprint are tried in the order of the document. The properties do not use these operators:
they look at the reports and documents again (`Issues`, `Certain`, `Waivable`) and ask whether the
decision fits. `PassIsJustified` is stated for policies that block all that is worse than what they
block (`Monotone`); the code does not demand this of a policy, and with `block_severities =
["high"]` a critical observation of an issue takes a high one out of the blocking set.

*RoleMatching.* The recursion of `assign()` is a sequence: `tried[k]` is the approver the k-th
active call waits for, `Caller(k)` the role that call is about. `holds` is `identity_to_role`. An
approver without a role ends the whole recursion with success (`Take`: every waiting call takes
the approver it waited for), one with a role is a recursive call (`Ask`), and a call that has
looked at everybody returns `False` (`GiveUp`). Roles and approvers come in any order, of which
the sorted one of the code is an instance.

*Release.* `reports`, `change`, `subject` and `attestation` are the documents `_evaluate_snapshot`
reads, in its order; `evidence` is what the bundle says, `outcome` how the last `deploy()` ended.
`ReleaseChecks` has one operator per paragraph of `check_change`, `check_approval_attestation`,
`check_release_subject` and `check_scan_provenance`; grounds of one kind share a code
(`SCAN_UNTRUSTED`, `SCAN_EXECUTION_UNUSUAL`, and of approvals the issuer, key and method are one
`APPROVAL_SIGNER_UNTRUSTED`), because only the emptiness of the list decides. `Gate` and `Release`
are two views of one evaluation: each has the checks in full that the other one lets object or
not. `Deploy` is `_deploy` up to the lock, on a machine whose clock may be behind the gate's, and
includes the dry run. Digests are equality of what is hashed; times are numbers.

## 3. Runs

`pass` runs, with their bounds:

| run | shows | bounds |
| --- | --- | --- |
| `deployment_faults` | records tell the truth, nothing is mutated silently, the journal is never behind the result; patches keep what others own, a published success stands, and every step is one of `GuardedChange` | 2 runs, 2 troubles, of which at most 1 failed or lost call or write, 1 edit by a controller or tool, 1 crash; signals unbounded |
| `deployment_liveness` | every run ends and locks go; mutual exclusion; a normal return means the lock is gone | 2 runs, 1 trouble: a failed or lost call, a late patch, a crash, a stripped lock or a recreated object; results replaceable, cleanup failures and escaping health checks on |
| `deployment_records` | reservations and exclusive work, no mutual refusal, complete pairs, no orphans, foreign files and journals kept, reservations go | 2 runs whose paths overlap in different roles, one of them forced; 1 each of failure, signal, crash, outside write |
| `evidence_storage` | no bundle lost, no foreign directory destroyed, only genuine bundles accepted, a whole copy of one not refused | 2 forced writers, 1 earlier bundle, 1 reader; 1 each of failure, interrupt, crash, edit |
| `gate_intake` | budgets hold while files grow; what is parsed, attested and archived is one set of bytes; a report that was accepted loses nothing that the scanner reported and makes nothing milder than stated; licence expressions are worth what their alternatives are worth | budgets of 3 blocks per file, 6 in all and 4 files, read 2 at a time; 2 reports and an attestation with 1 or 2 outside changes; requests that name files twice or too many; more than a thousand single reports of all ten formats; every expression of up to 3 of 10 tokens and longer ones that mix operators, parentheses and exceptions, 2 policies |
| `gate_decision` | a pass is justified by what was reported and by documents in force, objections have a cause, waivers fit the worst severity, every issue is in one list, limits, order of inputs, tests that ran | up to 3 of 11 reports, 2 policies, 7 exceptions documents, 5 VEX files or none, with and without a release subject |
| `role_matching` | that the search returns, and that its answer is right | 3 roles, 4 people, every relation between them, every order |
| `release_admission` | what is admitted was approved by others, events in order, scans fresh, one release; gate and deployment agree | one good release and documents that differ from it in one or two respects (14 changes, 20 attestations, 11 reports, 2 subjects, 7 requests), one report each, 2 policies, times 3 to 7, a deployer's clock up to 2 behind where the skew is 1 |

Why these bounds are enough to be useful: the guard compares one object with one snapshot, and the
lock admits one run, so a third run adds no new pair of steps; one fault suffices to reach every
exception path. `Attempts` is 2 where the code has 5: the first attempt, a retry, and exhaustion
all occur. Each kind of trouble (faults, late patches, edits, meddling with the lock, crashes) has
a bound, and `MaxTroubles` bounds their sum: all of them together exceed what TLC can enumerate.
So `deployment_liveness` has one trouble of any kind, `deployment_faults` pairs of those that do
not outlive their client; the proofs, which cover every safety property of the workflow with the
assumptions that each theorem names, hold for all of them together. `CHECK_DEADLOCK FALSE` is set
for the workflow and the records because runs end.

For the gate, three reports are two scanners that disagree and one that settles it, or one with
findings beside the two that tests need; each report has up to two findings, of one to two names
each, so that aliases link some observations and fail to link others. Documents expire, or name a
severity, exactly at the boundary the code compares with.

For the intake, a file of four blocks exceeds its budget in its last chunk, one of three meets it
exactly, and two of three exhaust the sum; with two blocks per read, one change of a file falls
between two reads of it. Formats are enumerated with few items each, but with every boundary: all
severities spelt right and wrong, scores of zero, counters that disagree with their cases, rates
that round the wrong way, objects that lack a field beside good ones.

`ReservationsFreed` excepts runs that were killed, whose removal of a reservation failed, or that
a signal caught where the code cannot know about a directory: between `mkdir` and `append`, or
inside `_release`. `broken` marks these runs, and they leave a reservation for an operator.

### Violations: where code and documents disagree

| run | finding |
| --- | --- |
| `deployment_timeout` | `restore()` concludes from one read that the failed mutation "never reached the API server"; a patch that outlives its kubectl lands afterwards, and the record says no rollback was required |
| `deployment_cleanup` | an error in removing the staging directories after publication rolls back a published success |
| `deployment_escape` | `http.client.HTTPException` of a health check is caught nowhere: the new image stays without rollback or record |
| `evidence_unforced` | without `--force`, a bundle that appears between validation and `exists()` is replaced |

### Fairness

`FairSpec` of `Deployment` and of `DeploymentRecords` assumes only that a run that is not killed
takes steps (its own step, a failure of its call or a signal): every external command has a
timeout, and no loop waits for another run. Nothing is assumed about controllers, late patches or
other actors. `Termination` and `LockFreed` hold with that. `LockFreed` says of each run, as long as it has not
ended, that its lock goes, whatever claims are lost, patches are late or reads fail on the way. It
excepts by the outcome of that run itself: it was killed; its `release()` failed, raised
(`"release-failed"`) or silently behind another exception (`"unreleased"`); or an exception that no
handler names was on its way and a signal, not masked then, ended `release()`. These leave the lock
for an operator, and so does a claim that lands after its run has ended.

`RoleMatching` assumes weak fairness of the one call it models; it waits for nothing.

## 4. Proofs

`DeploymentProofs` (for any runs, contents, annotations and bounds):

* `InvHolds`: `Inv` is inductive. Mutual exclusion alone is not: a claim (the patch of
  `acquire`) that was read before somebody else's claim must fail when it arrives, so the
  invariant says that a claim whose version is still current meets an unlocked object
  (`ClaimInv`, `LateInv`); a late deployment or rollback must carry what its run had recorded
  (`Faithful`); and what a run knows at each label (`Coherent`) ties the two together.
* `TypeCorrect`, `MutualExclusion`: parts of it.
* `Refinement`: each step of the workflow is a step or a stutter of `GuardedChange`.
* `ForeignStateSafe`: `ForeignStateKept`, from the same invariant.
* `JournalFirst`, `SuccessIsFinal`: `OutcomeInv` says that from the success transaction or the
  handler on signals are masked (`MaskInv`), that the journal holds already what is about to be
  published, and that a run with a result on disk is at most to release its lock (`ResultInv`). It
  is inductive if cleaning up after publication does not fail, which is the finding of
  `deployment_cleanup`; that nothing else writes the content in the name of the run needs that no
  patch outlives its client.
* `ReturnUnlocks`: without assumptions. Once a run has acquired the target, its claims are stale:
  those under way carry an older version or an older uid than the object (`StaleInv`, `UidInv`). So
  a run that has seen its lock gone, or has removed it, will not get it back; and who returns
  normally has masked signals, so that `release()` was not cut short.
* `SuccessTruthful`: `PlaceInv` says that between acquisition and end the content is the original
  or its deployment, and the deployment once `confirm` has seen it there. A rollback that is still
  under way belongs to a run that cannot come back to publish success (`RollbackInv`), so this
  holds even if patches outlive their clients.
* `VerdictsTruthful`, `NothingSilent`: `TruthInv` follows the authorship of contents. A content made
  by a run differs from the one the run found (`AuthorInv`), so a comparison with the original,
  under the lock, does rule it out; and after such a claim nobody who holds the lock has the
  deployment as the content to go back to (`ClaimedInv`). `DoneInv` adds that whoever may have
  mutated the object ends with a verdict or a success. Both need that no patch outlives its
  client, which `deployment_timeout` refutes otherwise; the second needs that exceptions of the
  health check are caught, which `deployment_escape` refutes.

`RecordsProofs` (for any runs, paths, failures):

* `ReservationsHeld`: `ReservationInv` is inductive. What a run remembers is reserved for it, also
  in the moment between `mkdir` and `append`; it works only with all of its paths.
* `ExclusiveWork`: follows, since a shared path would be reserved by two runs.
* `JournalSafe`: writes of a working run go only to paths it has
  reserved, so they miss the journal of every other run that still holds it.
* `NeverBothRefused`: `RefusalInv` says that a run has reserved only names before the one it was
  refused at, and that whoever refused it had reserved that one. Two mutual refusals would need
  each of two names to come before the other.
* `MarkerMeansSigned`, `SignaturesCleaned`: `MarkerInv` follows `persist` label by label: an
  unforced run links only where it found nothing or its own file, nobody else writes there while
  it holds the paths, and signals wait until the publication is over. Where they do not, in a dry
  run, everything the run has written so far is its plan: it is what `Cut` excepts, and
  the invariant says that a run without a signal has no file of that kind that needs excepting.
* `ForeignFilesKept`: an action property, read off `MarkerInv` and each action. The one case that
  is not a guard is `unlink`: whoever is about to remove the signature has found that it is its
  own, and has no JSON of its own that would need it, or is an interrupted dry run.

`EvidenceProofs`, publication (for any writers, bundles and failures):

* `PublicationInvHolds`: the directory a writer is about to remove is a bundle of this program, and
  whoever removes the backup has seen a complete bundle at the output. So at each moment somebody
  other than the remover holds one.
* `NoEvidenceLost`, `NoForeignDirectoryLost`: follow for each step.

`EvidenceProofs`, verification (for any writers and any interleaving with a reader):

* `ReaderInvHolds`: from the parsing of the manifest on, every check reads the private copy, so
  what one check found is still so at the next.
* `GenuineAccepted`: what is accepted is one bundle, hash by hash.
* `GenuineNotRefused`: `inputs/` is copied last, so whoever gives up while listing or copying has
  no policy file and hence no whole bundle (`WholeInv`). A reader with all of one signed bundle goes
  by the manifest of that bundle and passes every check, whatever writers and edits did to the
  directory meanwhile. `QuietInv` adds that a reader who meets no writer and no edit does get all
  of the bundle at the output.

`IntakeProofs` (for any paths, contents, budgets and requests):

* `IntakeInvHolds`: nothing is parsed before everything is copied, and nothing is copied after.
  The paths still to be copied, those of the entries and those with a copy stay tied together
  while the sources change.
* `BytesAreOneSet`: hence what was parsed, what an attestation was compared with and what is
  archived are the same copies.
* `BudgetsHold`: `BudgetInv` adds the types of the open file and of the private directory. The sum
  over all copies changes in one summand when a file is complete (`SumStep`), and the number of
  entries by one; a chunk is read only as far as both limits allow, so that the file which grows
  is refused and not stored.

`GateProofs` (for any policies, reports, documents and time):

* `WorstExists` and `MergedFacts`: the `max()` of `_deduplicate` has a first worst observation,
  by well-foundedness of the naturals, and the merged finding is at least as severe as anything
  known about its fingerprint, but never "unknown" when something is known.
* `ExceptedIsCovered`, `VexedIsCovered`: what is taken off the list has a document in force.
* `GateInvHolds`: between any two statements of `evaluate()`, each list is what reports and
  documents make it, and no objection is forgotten. The properties of the decision need it because
  they relate a decision at the end to inputs read at the beginning. From the check of the severities
  on, the objections under its codes are exactly those the active findings give rise to.
* `PassJustified`, `WaiversFit`, `AllAccounted`: follow from these.
* `BlocksDeserved`: an active finding is an observation somebody made (`ReportedSeverity`), and
  nothing with its fingerprint was taken away (`ActiveIsOpen`).
* `PassesWithinLimits`: unwaived fingerprints are the image of active findings, of which there are
  finitely many (`FiniteFindings`). Limits are non-negative integers, as `config.py:179` checks.
* `TestsRan`: the objections to tests and coverage are never withdrawn (`TestsInv`). A pass means
  that there were none, hence every JUnit report was consistent and the sum of `quality.py` is over
  all of them. The proof needs that these are the reports of category "test": `quality.py:217`
  skips a report that bears the name of the tool and another category.
* `OrderIsIrrelevant`: two lists of reports that say the same (`Repeats`) give every issue the same
  severity, and suppression looks only at that, the category and the fingerprint. `RemainsTheSame`
  is about any two such lists; reversed ones are an instance.

`MatchingProofs` (for any roles, finitely many people, any approvals and orders):

* `SearchInvHolds`: whoever was visited in vain leads only to others who were visited. So when the
  first call gives up, the visited people hold other roles than the one that asked, and these
  roles have no candidates but the visited people (`Stuck`).
* `AnswerRight`: a success is a choice of distinct approvers, read off `holds`; a failure rules
  out any, since a choice would be an injection of a set of roles into a set of people with one
  member less, which the pigeonhole theorem of the library forbids.

`ReleaseProofs` (for any policies, documents, requests and clocks):

* `InvHolds`: with the types, `ReleaseInv` is inductive. It carries the verdict of the gate over
  to the admission, at another time: documents do not change in between, so a pass keeps saying
  that no check objected at the time it records.
* `SeparationOfDuties`, `OrderOfEvents`, `FreshWhenAdmitted`, `AllOfOneRelease`: read off the
  checks that did not object and the comparisons of `deploy()`; the sums of ages and skews are the
  bounds that follow from both together. That signed approvals are the ones of the change is
  counting: equal multisets of folded approvals have the same members (`SameApproved`).
* `GateAndDeploymentAgree`: the converse, that a release which passed is not refused.

`IntakeProofs`, licences (for any expression and any policy whose entries are stripped):

* `EvaluateIsWorth`: `evaluate_license_expression` returns what the reference says, and
  what it cannot read has no worth either. The parser is recursive on positions, the reference on
  lengths, so both tables are first shown to exist, by induction on a rank of method and position
  and on a length. The reference is then freed of its choice: any weakest operator outside
  parentheses may take an expression apart (`OrAnywhere`, `AndAnywhere`). From this follow, both by
  induction, that what a method returns is the worth of what it has read (`ParserReads`), and that
  it reads whatever has a worth (`ParserReadsAll`), and for whole expressions the two agree.
* `LicensesAreHonoured`: what is judged are those expressions. `JudgedInv` says that each scan was
  accepted as the complete copy of a well-formed document (`CopiedInv`: what was named is copied or
  still to be copied). The findings of an accepted report have the licences of the document, up to
  those that say nothing (`LicensesAgree`, format by format). For an SBOM this is about the stack
  of `_cyclonedx_components`: a set of stacks that a step of the walk leads back into
  holds all stacks (`WalkInduction`, by the numbers of the components and the length of what is
  pending), so the walk is defined, returns what is pending and whatever is inside of what it
  returns (`WalkComplete`), which are all components of the document.

`IntakeProofs`, findings (for any reports in any of the formats):

* `NothingIsLostHolds`: the property says what a report claims without the parsers' conversions:
  `Words` is what each word for a severity means, `Levels` what each level of SARIF means and
  `Bounds` from which score on a band begins. That the conversions agree with these are lemmas
  (`WordsMean`, `LevelsMean`, `BandIs`, `SaidIs`). In SARIF a result may state its severity in
  four places; the one that counts is the score before the level and the result before its rule.
  `Covers(s, t)` says that an injection takes each element of `t` to one of `s` of the same
  category that is no milder. It implies the comparison of numbers in the property
  (`CoversCount`), and unlike these numbers it can be put together: of two parts (`CoversJoined`),
  of lists of lists by induction over `FlattenSeq` (`CoversFlattened`), and of lists of which each
  has something for its own place (`CoversPlaces`: an alert of ZAP becomes one finding per place,
  a vulnerability of an SBOM one per component). Then each format is a lemma of its own
  (`NormalizedKept` to `JUnitKept`). For JUnit, the check of the declared numbers (`JUnitAccepts`)
  is what makes failed cases of suites inside suites a refusal when the outer suite counts them;
  those it does not count are not claims of the report (section 5). For an SBOM, the severity of a
  vulnerability is a maximum over its ratings, and the components are counted because different
  ones have different references (`ComponentsCounted`). A licence need only be found: the code
  reads no severity for it, and what the policy makes of it is `LicensesAreHonoured`.

`Sums` (for any finite sets and integer-valued functions): the sums of the model are
`SumFunctionOnSet`, which the community modules define as a recursive function on sets: it is the
solution of its equation only if there is one. `SolutionExists` and `SolutionsAgree` show that
there is exactly one for each finite set (`SumIsSolution`), and from them follow the empty sum, one
summand more or less (`SumStep`), sums of parts and of equal functions. Induction is done on sets
instead of predicates: the subsets of which a statement holds are a set that contains the empty
one and is closed under adding an element (`FiniteSubsets`, `NumbersBelow`), which the provers can
instantiate where the library's theorems with an operator as a parameter cannot be used.

Constants carry only what the code guarantees (`TargetAssumption`, `DeploymentAssumption`,
`RecordsAssumption`, `StorageAssumption`, `SnapshotsAssumption`, `IntakeAssumption`,
`DocumentsAssumption`, `FindingsAssumption`, `GateAssumption`, `MatchingAssumption`,
`ReleaseAssumption`), and TLC evaluates these in every run. `DocumentsAssumption` is what JSON, XML
and TOML give by their syntax: an array is a sequence, a component is inside one other or at the
top. Besides, an entry of the policy is not blank (`config_fields.py:22`), and a score is written
in the numbers of the model (`Scores`).

Model-checked only: the liveness properties (TLAPS does not reason about fairness here), so of the
search for approvers, that it returns. Each invariant that a run checks is a theorem as well. The
other way round, the inductive invariants and the types are proved for all values and are part of no
run.

## 5. Not modelled, and why

* The contents of files beyond identity, JSON, XML and TOML syntax, messages, rendering.
* Native scanners: regular expressions over text, line by line, without state. Reporting, the CI
  scripts and the sample service keep no state of FinGuard either.
* Inside `signing.py`, the staging of a signature and the look at what cosign wrote; of the audit
  chain (`evidence_writer.py:181`, `evidence_verifier.py:354`) its hashes. Both are calls that succeed
  or fail.
* In `Intake`, that the optional files of a request (change, subject, exceptions, VEX, approvals)
  are copied: they go the way of the policy, and their contents are in `Gate` and `Release`.
* Symbolic links and path normalisation: each path is assumed to name one file.
* Replacement of files by foreign programs while `persist` runs: outside writers create files and
  never replace them, so the window between `samefile` and `unlink` is not explored.
* Which JSON belongs to which signature when `--force-result` replaces both: `CompletionMarker`
  and `NoOrphanSignature` except the two replacements of a forced run, between which the pair
  cannot match.
* The retries of the claim and the deployment after a lost reply are in the model; that a rollback
  whose reply is lost is recorded as a conflict is so too, and no property objects to it.
* Clocks that run backwards while one command runs: the gate takes the time once, the admission
  once more, and `Deploy` lets the second clock be behind the first.
* Whether a signature verifies: a document says it did or not, and forged ones are not enumerated
  beyond that. How an attestation is bound to its report is in `Intake`, what it says in `Release`.
* Spelling of names, licences, paths and times, and letter case, are not modelled. The shadow policy is evaluated like the policy and changes no decision.
* Which of several equally severe observations gives the fixed version, and whether a rejected
  exception is reported, can depend on the order of inputs; `OrderIrrelevant` speaks of what
  remains active, not of these.

Behaviour met while modelling that no property forbids: a dry run publishes its signed plan with
signals on, so one that comes between `os.link` and the assignment after it leaves a signature
without JSON (`deployment_records.py:130-131`), or lets the cleanup unlink the signature of a plan
that is published (`132-148`) (the docstring, "publish the JSON last as completion marker", makes no
difference between a plan and a result; the runbook promises masked signals for results only, and
the properties of `deployment_records` except just these plans); failures in JUnit suites inside
other suites are not looked at (`xml_scanners.py:100,118`): the report is refused if the outer suite
counts them and accepted without them if it does not; a report found in a directory whose name
contains `=` is split into type and path when the request is rebuilt for the copies, and the gate
refuses it (`gate_service.py:182-188`, `239-246`); an empty JSON list is a clean Ruff report
whatever tool wrote it (`registry.py:93`); a numeric SARIF score of 0 falls through to the rule and
the level; `(A OR B) WITH C`, which SPDX does not allow, is accepted, as a matter of review at
least.

## 6. Plan

What is left, in this order:

1. `AuditChain`: writing and verifying the hash chain of the audit log.
2. `Signing`: staging of signatures and the checks of what cosign wrote.
3. `Gate` and `Release` composed into one evaluation, whose decision `Deployment` starts from;
   `Intake` before them.
4. Proofs: a refinement of `Gate` and `Release` by that composition.
