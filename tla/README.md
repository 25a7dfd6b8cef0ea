# Zach: a verification project

Zach is the control agent of a GitHub-mediated workspace. It accepts typed
requests written in GitHub Issues, executes each of them at most once, and
answers with authenticated comments. It has two generations that share almost
no state: a webhook service (v1, Rust, SQLite) and the Actions transport (Rust
record state machine, Python workflow tooling, a Git branch as the journal).
This directory holds TLA+ models of both, the TLC runs that check them and the
TLAPS proofs about them. Source paths below are relative to the repository.

## The system's parts

| part | source | state | operations |
|---|---|---|---|
| Journal record | `src/ledger/actions_journal.rs`, `src/bin/zach-actions.rs` | one JSON record per request: frozen identity, state, execution id, terminal code and reference | new, check_replay, claim_execution, complete_terminal, mark_ambiguous, resolve_trusted_reconciliation, to_json, from_json |
| Git journal | `scripts/actions_git_journal.py` | the branch `automation/requests`, one file per request | load, load_at, publish |
| Journal coordinator | `scripts/actions_journal_coordinator.py` | none of its own; a load, a child process and a publish per call | accept, claim, complete, mark_ambiguous, reconcile, load_record |
| Child process | `scripts/actions_journal_coordinator.py` | a process and its two pipes | _run_bounded_process |
| Request phases | `scripts/actions_request_handler.py`, `scripts/actions_phase_cli.py` | comments on the request's Issue | prepare, control, control-reconcile, finalize, reconcile_request, handle_request |
| Recipe dispatch | `scripts/actions_recipe_dispatch.py` | the workflow runs of another repository | dispatch_recipe, reconcile_recipe |
| Ledger publication | `scripts/actions_ledger_publication.py` | the task branch, a publication comment | publish_ledger_candidate, recovery |
| Ledger store | `src/ledger/store.rs` | SQLite tables transactions, issue bindings, deliveries | claim, complete, claim_publication, mark_published, mark_reconciled |
| Webhook service | `src/ledger/mod.rs`, `src/ledger/publisher.rs` | threads of several processes; comments and closed Issues on GitHub | handle, publish_terminal, reconcile_terminal, ensure_closed |
| Candidate, validator | `src/ledger/candidate.rs`, `src/ledger/validator.rs` | a disposable checkout | run a pinned mutator, compare its output |
| Issue decoder, JSON | `src/ledger/actions.rs`, `src/ledger/json.rs` | none | parse, canonicalize |
| Governance audit | `src/lib.rs`, `src/main.rs` | a receipt file | execute_idempotent_audit, evaluate_snapshot |
| Integration observer | `src/integration_observer.rs`, `scripts/actions_integration_runtime.py` | none | observe remote state twice and compare |
| CI inspection | `scripts/actions_ci_inspect.py` | none; reads workflow runs and jobs | inspect_ci |
| GitHub API | `scripts/actions_github_api.py` | none | request, public_zach_get, download_artifact |
| Ledger runtimes | `scripts/actions_ledger_*.py`, `scripts/actions_integration_runtime.py` | files of an attempt, a run's artifacts | derive a candidate, observe its producer, collect startup and evidence contexts |

How they interact. In the Actions transport a workflow job calls the phase CLI,
which calls the coordinator; the coordinator loads a record from the Git
journal, hands it to a `zach-actions` child process that applies one transition
of the record state machine, and publishes the result to the branch. Jobs share
nothing but the branch, the Issue's comments and the effects themselves. In the
webhook service GitHub delivers an event, a thread claims the request in
SQLite, runs the validator, stores the receipt, claims the right to publish,
posts a comment, closes the Issue and records the comment; other threads and
other processes do the same on the same database.

What is hard. GitHub offers no compare-and-swap: the branch moves by non-forced
updates whose answers may be lost and which may be applied late, and comments
are posted, never conditionally. Every job and thread may die between any two
calls. Leases are judged by clock readings taken earlier. Listings are read page
by page while they change, and CI, branches, pull requests and artifacts go on
while they are observed. Nothing is retried by the code itself, so correctness
is a matter of what a later, separate attempt finds.

## What each part must guarantee

* Journal: one grant per request; a grant is durable; an outcome is final; an
  acceptance freezes the request; history only grows; nothing unreadable is
  stored. Together: the branch behaves like an atomic table of records
  (`AbstractJournal`).
* Webhook: the validator runs once; one comment is sent, and says what is
  stored; what is recorded as sent is on GitHub; a live lease is respected; the
  three tables agree. Together: `AbstractLedger`. If deliveries go on, every
  request gets a receipt and a landed comment is recorded.
* Request phases: no effect is taken twice for a granted request, an ambiguous
  effect blocks further ones, a terminal record names evidence that exists.
  Together: `AbstractRequest`.
* Recipe dispatch and ledger publication: one effect per request, and recovery
  that recognizes its own effect and repeats none.
* What the phases are told: an answer found in a listing was true of all of it
  at one instant; a CI report is about the newest run and its final jobs; a
  child's output is whole, and its call ends; an error taken for a refusal was
  one; what is published are the bytes Control made and named; evidence says
  what happened.

## Modules

`JournalRecord` is the pure state machine. A record is its frozen `identity`
(all that `check_replay` compares), `meta` (frozen, never compared: sender,
acceptance time, policy revision), state, execution id and terminal code (which
stands for code and reference). `Serializes` is the 64 KiB limit of `to_json`,
`Reloads` what `from_json` accepts.

`GitJournal` is the branch. Git names a commit by its content, so a commit is
the sequence of the nodes of its ancestry, and equality of commits is equality
of these sequences. `inflight` holds the commits whose ref update was sent. An
update is applied at any later time if the branch is still its ancestor; one
that is never applied was lost. `SameSecond` says whether two equal commits may
be created within one second (the resolution of Git's timestamps).

`JournalCoordinator` composes them: workers with one call each, from the load
that pins a commit (`Begin`) through `Refuse`, `Replay`, `Conflict`,
`Unchanged` or `Publish` to the readback (`Confirm`); `Fail` is any other end,
including a timeout, the death of the job and `AmbiguousPublication`.
`AbstractJournal` is what the documents promise; `Stored` is the refinement
mapping.

`LedgerStore` has one operator per SQLite transaction of `store.rs` (they are
`BEGIN IMMEDIATE`, hence atomic). `WebhookLedger` is `WebhookService::handle`,
one action per step that another thread can interleave with, plus the clock and
a GitHub on which a POST lands once, late, or never. A thread reads the clock
in `Receive` and again on entry to `publish_terminal`; what it decides later is
decided with that reading. A digest stands for the canonical request and the
request id inside it. `AbstractLedger` is its promise.

`RequestJournal` is the journal as one request sees it: the sequence of its
record's revisions. A coordinator call that publishes is one atomic step there,
which `journal_history` and the theorem `Refinement` justify; the readback's
blind spot (`journal_same_second`) is left out. `IssueComments` is the Issue: a
POST lands once, at any later time, or never.

`ActionsPhases` is the phase CLI with `PublisherPhase`, `ControlPhase` and the
recipe dispatch. Each job runs one phase; its place is `pc`, its locals `job`;
between any two of its calls other jobs run, comments land, and it may `Fail`,
which also stands for every error that ends a phase without a result. `files`
are the results prepare jobs wrote; `Handoffs` adds the durable checkpoints,
which `control` and `finalize` may use instead. Comments are compared with
`posts`, so a bundle is what a comment really says. Update answers that are lost
need no action of their own: the job died right after. The workflow that starts
the jobs is not in the repository: phases start in any order and any number of
times, except that `control` runs once for a granted bundle unless
`ControlReruns`. `Policy` says which optional parts of the trusted policy are
there: a publisher identity makes the checkpoints durable (`Durable`), a recipe
or ledger that is missing makes Control answer "unsupported". With `InProcess`,
a job may run prepare, control and finalize as one (`handle_request`): control's
result is then passed on in memory, and what it finds uncertain is marked
ambiguous at once (`FinalizeCertain`, `FinalizeAmbiguous`). `AbstractRequest`
is its promise: the mapping keeps what the journal says of the request
(`Standing`, `Owner`), the runs dispatched, and what the receipts that landed
say (`Said`), and forgets jobs, handoffs and every other comment.

`LedgerPublication` extends it with the `governance.ledger` operation: Control
produces a candidate, and finalize publishes it on a task branch (`Recover`,
`Build`, `CheckpointPublication`, `Patch`, `ReadBackEffect`, `Announced`). The
candidate is the same for every job, its commit is not. `patches` holds what was
sent to the branch; `ApplyPatch` may happen long after, and `Foreign` is a
commit of somebody else. `owned` says whether the branch is that of its active
task, as the page at `base` has it; nothing is built on a branch that is not.
Control of a ledger request always looks for a receipt first, so there it may
be repeated freely.

The next modules are what the phases are told by their surroundings. Each has a
world of its own that changes between any two reads.

`StableScan` (with `Paging`) is a scan: two readings of a listing page by page,
a comparison, and only then the search (`Answer`). Items are added at the end
(comments) or the front (runs), removed, and edited. `query` says which of the
readers it is: `load_durable_prepare_checkpoint` and its kind, the receipt
searches of `control` and `finalize`, or the runs of a dispatch. It is why
`ActionsPhases` may read the comments in one step.

`CiInspection` is `inspect_ci`: runs, jobs of the selected attempt, runs again,
the run again; any difference is an error. The workflow meanwhile starts runs,
runs them again and removes them.

`BoundedProcess` is the coordinator's child: two pipes of a finite capacity,
limits on what is read, a deadline, and a child that may write too much, never
end, close its pipes and run on, or leave a process behind that holds some of
them. `process.wait` may therefore find a child that still runs; its timeout is
what ends the call then.

`GithubApi` is one call: `request`, `public_zach_get` or `download_artifact`,
from the checks before anything is sent to what the caller is told, over a
network that loses requests and answers, delays requests and cuts archives.

`LedgerProducer` is the way of a ledger publication's bytes: the attempts of
Control's job (read the time, observe, post a receipt, upload), and Publisher's
(resolve the artifact, observe its producer, download, derive again, observe
again, publish). The clock, expiring and removed artifacts, later attempts, and
a policy that stops holding interfere. `closure` tells a verified closure, whose
artifact is an observation that states its time, from a candidate.

`LedgerEvidence` is what a startup and an evidence context say of a task branch,
CI and pull requests that move on, with the publication that comes between. What
is frozen names the CI answer and the pull request that was selected; `heads`
keeps every head a pull request has had, so that the property can ask whether
the selected one had this very commit, also when a newer one is open by then.

`MCJournal`, `MCWebhook`, `MCPhases`, `MCLedgerPublication` and `MCSources` hold
the small instances. `MCSources` runs six parts that share nothing: `subject`
says whose behaviour this one is. The theorems are in `JournalProofs` (journal
and coordinator), `WebhookProofs`, `PhasesProofs`, `PublicationProofs` (which
extends `PhasesProofs`), `TransportProofs` (`BoundedProcess`, `GithubApi`),
`SourcesProofs` (`LedgerProducer`, `LedgerEvidence`) and `ReaderProofs`
(`StableScan`, `CiInspection`).

## Runs

| run | instance | shows |
|---|---|---|
| `journal_history` | 2 workers, 2 requests, branch of at most 5 commits | `OutcomeIsFinal`, `HistoryOnlyGrows`, refinement of `AbstractJournal` |
| `journal_ownership` | 2 workers, 1 request, 2 identities (one near the size limit), 2 execution ids, 2 seconds | `AtMostOneGrant`, `GrantIsDurable`, `AcceptanceIsFrozen`, `StoredRecordsReload` |
| `journal_same_second` | as above with `SameSecond = TRUE` | `AtMostOneGrant` fails: see below |
| `webhook_leases` | 1 request, 3 threads of 2 processes, clock 0..3, leases of 1 | `ValidatedOnce`, `OneTerminalPost`, `PostedIsStored`, `SentIsPublished`, `LiveLeaseHolds`, refinement of `AbstractLedger` |
| `webhook_bindings` | 3 canonical requests of 2 ids, 2 Issues, 2 delivery ids, 2 threads | `StoreIsConsistent` |
| `webhook_liveness` | 1 request, fairness | `EventuallyTerminal`, `LandedIsRecorded` |
| `phases_recipe` | durable checkpoints, a recipe and two operations Control has no runtime for, 2 jobs, 1 execution id, 4 comments, 1 commit of another request | `OneDispatch`, `RejectedHadNoEffect`, `TerminalIsEvidenced`, `HandoffsVerify`, `OneGrantedBundle` |
| `phases_files` | result files or one process, inspection, recipe and a ledger request without its runtime, 2 jobs, 2 execution ids, 2 comments, fairness | `ReceiptSettles`, refinement of `AbstractRequest`, and `OneGrantedBundle` with a second execution id |
| `phases_rerun` | as `phases_recipe`, a recipe only, with 2 execution ids and `ControlReruns = TRUE` | `OneDispatch` fails: see below |
| `ledger_publication` | 2 jobs, 5 comments, 2 commits of the candidate, 1 foreign commit, a branch with and without its owner | `OneCheckpointedEffect`, `SuccessIsPublished`, `RejectedWasNotSent` |
| `ledger_recovery` | 1 job, one after the other, 5 comments, a candidate that changes something or nothing, fairness | `EffectIsRecorded` |
| `sources` | pages of 2, at most 2 of them, 3 items; 3 CI attempts and 3 jobs; 2 pipes; one call; 2 attempts of Control, clock 0..3; a branch of 4 commits, 2 CI attempts, 2 pull requests | `AnswerWasTrue`, `FoundIsNewest`, `CompletedHasFinalJobs`, `ResultIsWhole`, `CallEnds`, `OutcomeIsTrue`, `PublishedIsProduced`, `EvidenceHolds` |

Bounds. The branch is at most `MaxCommits` = 5 commits long: an accept, a
claim, an ambiguity mark and a settlement of one request with the first commit
fill it exactly, or two interleaved shorter lives. Two workers are the smallest
number that competes, and a worker may take any number of calls one after the
other, so the number of attempts is not bounded by the number of workers. A
clock of 0..3 with leases of 1 lets an execution lease, a recovery lease and a
publication lease run out one after the other; three threads of two processes
let the owner check both tell threads apart and fail to. Times saturate at
`MaxTime` as they do at the largest `i64`.

Four comments are the intent, the checkpoint, the receipt and one duplicate of
any of them; five are the intent, the checkpoint, the receipt, the publication
and the published comment, or two contradicting receipts or publications. Two
execution ids (`phases_files`) make the competition for a claim; one job of `ledger_recovery`
may die and start again any number of times. Deadlock is not checked in these
runs: a terminal request has nothing left to do.

In `sources`, three items on pages of two are the least that shift from one page
to another, with one left to be added or removed behind the reader; three CI
attempts are two runs and a re-run; the pipes hold two units, with limits above
and below that, so that a writer blocks, and a limit is exceeded, before the
deadline; two attempts of Control with an artifact that lives for two units of
time and a request that expires at three let every expiry fall between any two
steps of Publisher; with two pull requests and a commit after the published one,
the source can be closed while a newer one with another head is open. Some of these parts end (a call has one outcome), so
deadlock is not checked there either.

The violations. `journal_same_second` shows that the readback proves a
publication by content alone. Two claims with one execution id (a workflow
re-run, say) that load the same head and create their commit objects in the
same second create one commit; once either update is applied, both read back
their own candidate and both are told GRANTED. `docs/actions-transport.md`
promises one grant even to the same owner. The other properties hold there too
(their theorems do not assume `~SameSecond`).

`phases_rerun` shows that the control phase keeps no trace of a dispatch: run
again on the granted checkpoint, after a timeout say, it posts the dispatch a
second time, where `docs/actions-transport.md` says that Control never repeats
the POST. `OneDispatch` in `phases_recipe` thus rests on the workflow running
`control` once per grant and `control-reconcile` afterwards.

Fairness of the phases (`phases_files`, `ledger_recovery`). A job ends, one way
or another. A request that is not terminal is finalized or reconciled again and
again, and each step of that which is attempted again and again, by whichever
job, succeeds eventually; nothing is assumed of a single attempt or of the other
phases. `ReceiptSettles` starts from a request somebody can settle: one that is
ambiguous, or has a bundle. A process in `handle_request` that dies after its
receipt leaves neither, and nothing in the repository makes a bundle for it:
`reconcile_request` only reports a request that is executing. In
`ledger_recovery` a comment that was sent is stored eventually (one that never
is would use up the bound on comments). The properties make room for what the
code refuses on purpose: two comments of one kind, and a branch that others have
moved on.

Fairness of a child process (`sources`). Time passes and the caller runs;
nothing is asked of the child, nor of anything else in that run.

Fairness of the webhook service (`FairSpec` of `WebhookLedger`). The clock advances; a thread
takes a step or fails (every connection has its own thread, so one that hangs
for ever is one that has failed); every event is delivered again and again; and
each kind of step that is attempted again and again succeeds eventually. This
is what "the operator redelivers until it works" means; nothing is assumed of
any single attempt, of the validator, or of a POST that was sent. A thread that
dies between the publication claim and its POST leaves a request that is never
announced: the service fails closed there on purpose (the test
`uncertain_sending_with_no_remote_match_fails_closed_without_post`), so no
property claims the opposite.

## Proofs

Every safety property, action property and refinement of the passing runs has a
theorem that states it for every value of the constants: any number of workers,
threads, jobs, comments, pages and items, any clock and any policy.

### The journal (`JournalProofs`)

`JournalInv` is an invariant, and from it follow `TypeOK`, `GrantIsDurable`,
`AcceptanceIsFrozen`, `OutcomeIsFinal`, `StoredRecordsReload` and
`HistoryOnlyGrows`; and, assuming `~SameSecond`, `AtMostOneGrant` and the
refinement of `AbstractJournal`.

None of the properties is inductive: a late update could apply anything.
`InflightPermitted` says that everything in flight is exactly one permitted
transition away from the current head, which is true because an update that the
head has overtaken can only be refused. Applying one is thus one permitted
transition of one record (lemmas on `Child`), and everything that the callers
were told survives permitted transitions. `CallsPinned` ties a confirmed
candidate to the transition its call drafted, so a successful readback makes the
stored record the drafted one. For one grant, `CandidatesDistinct` and
`CandidatesSpent` say that no two open calls wait for one commit and that a
candidate is in flight or in the past: this is where `~SameSecond` is needed.
Then `NoClaimAfterGrant` is inductive.

### The webhook ledger (`WebhookProofs`)

`LedgerInv` (at the end of `WebhookLedger`) is an invariant. Its parts: the
tables agree and their rows are well formed; `ThreadsHold`, what a thread
carries from one transaction to the next is still what the row says, as far as
others can not have changed it; `VerdictsEarned`, a verdict on its way to the
store was given by the validator, or the request was too old for one;
`PostPermission`, a thread about to post holds the only publication claim there
ever was. From it follow `TypeOK`, `ValidatedOnce`, `OneTerminalPost`,
`PostedIsStored`, `SentIsPublished` and `StoreIsConsistent`. `LiveLeaseHolds`
needs `LeasesHold` besides: the row has the lease its executor took until that
lease has run out, a request has one executor, and a recoverer never finds it
executing again. The refinement of `AbstractLedger` maps the rows to `BoundTo`,
`Decision` and `Recorded`, and the comments that landed to `Announced`; a step
changes one row, and the invariant says that a landed comment carries what the
row has decided.

### The request phases (`PhasesProofs`, `PublicationProofs`)

Three layers. `HandInv`: what is written down, in the journal (`HistoryInv`), in
comments (`CommentsInv`), in result files (`SharedInv`), and what every job
carries (`JobsInv`), can be verified against the journal. It is inductive
because the journal only grows: what it vouches for (`Verifiable`, the sets of
sound comments) it vouches for ever (`VouchersGrow`). From it, `HandoffsVerify`.
`GrantInv`: all granted bundles, in files, in comments sent and in the hands of
jobs about to write them, are one; before the claim there is none, and a claim
is granted once. From it, `OneGrantedBundle`. `EvidenceInv`: a receipt says what
the job that wrote it saw, so that `TerminalIsEvidenced` and `TypeOK` follow.

`EffectInv`, under `~ControlReruns`, is about the right to the effect. It is in
one place at a time: in the unclaimed request, in a granted bundle control was
not run on (`Unspent`), or in one job (`Executor`), and where it is, no run
exists; a refusal on its way to the Issue means that it is spent and unused.
From it, `OneDispatch` and `RejectedHadNoEffect`, and the refinement of
`AbstractRequest`: a dispatch finds nothing said, because who may dispatch
excludes both a run and a refusal; a receipt that lands is true; an outcome is
one that was said. `phases_rerun` shows that the hypothesis is needed.

`PublicationProofs` reuses `HandInv` for `governance.ledger`. `PublicationInv`
says that published and publication comments, and what jobs carry of them, are
true of the branch, so that `SuccessIsPublished` is inductive beside it;
`TrackInv` that publishing (a commit was sent, or a job is on its way to) and
rejecting each need the only receipt there is, and so exclude each other;
`SendInv` that all commits sent, or about to be, are one, and a checkpoint on the
Issue names it. These give `LedgerTypeOK`, `RejectedWasNotSent` and
`OneCheckpointedEffect`. Both of the last rest on comments never being removed:
"the only receipt" or "the only checkpoint" cannot be true of two, one after the
other.

### What the phases are told

`TransportProofs`: `ApiInv` ties what a caller may be told to what the network
can still do with its request (nothing, once it was refused), for
`OutcomeIsTrue`; `ProcessInv` counts what was written, read and is left in each
pipe, and says that a pipe no longer read has no writer, though the child may
run, for `ResultIsWhole`.

`SourcesProofs`: `ProducerInv` says that attempts run one after the other, that
the receipt is written once and names the bytes of the first attempt that
succeeded, for `PublishedIsProduced`; `EvidenceInv` has a part for the
repository, its effect, the collector and what is frozen, for `EvidenceHolds`.
The heads a pull request has had only become more, so what the collector read of
it stays true.

`ReaderProofs`, on scans: the instant an answer is true of is the end of the
first scan, and `midway` is the listing then. The first scan has read no fewer
items than there were (`SecondInv`); those it read that are still listed were in
`midway`, edited before or after; so one that the second scan finds unchanged was
in `midway` as it was read. If all are unchanged, what was read is as many
different items of `midway` as it has, hence all of it (`ReadAll`, a pigeonhole
argument): `AnswerWasTrue`. An item is edited at most once in the model; one
that is edited and edited back between the scans is the hazard no reader can see.

On CI: `StandingInv` says that a run that was there all along and has not been
read yet has fewer runs behind it than are missing from the stated total, so the
pages to come list it, for `FoundIsNewest`; `JobsInv` says that the jobs read are
those of the selected attempt as long as it is the last, for
`CompletedHasFinalJobs`.

### What the proofs rest on, and what stays with TLC

The assumptions on the constants, all of which TLC evaluates in the runs. Most
give types (bounds and times are natural numbers, the policy's parts belong
together), or say that `NoValue` is none of the values it stands beside. One is
about the code: a terminal reference is the number of a comment
(`PhaseAssumption`, `1..MaxPosts \subseteq Codes`).

Liveness stays with TLC, since fairness and ENABLED are beyond the prover:
`EventuallyTerminal`, `LandedIsRecorded`, `ReceiptSettles`, `EffectIsRecorded`,
`CallEnds`. So does what a second grant or dispatch looks like in the two
violations.

## Not modelled

The bytes of records, receipts and comments, signatures, the calendar, and the
parsing of Issues: the models start from accepted input. In `ActionsPhases` the
comments are read in one step and never removed; `StableScan` is about the
reading, and of an edit that is undone before the second scan reads it, or a
comment removed after it was answered, neither says anything. `GithubApi` takes
a redirect's target as followed or refused, and an archive whose length is not
stated may arrive cut short: `LedgerProducer` compares its digest. A child that
cannot be killed is not modelled. In `LedgerPublication` the expiry of a request
is an error that may happen anywhere; `LedgerProducer` has the clock. SQLite is
taken as atomic and durable. The clock is one clock that does not go back. The
candidate mutator and the validator are a verdict.

Three parts have no module. `candidate.rs` and `validator.rs` run a pinned
mutator in a disposable checkout and compare its output: sequential work on
files. `actions.rs` and `json.rs` are a parser and a printer, pure functions on
text. The governance audit (`lib.rs`, `main.rs`) decides from one snapshot. The
Rust observer compares two readings of immutable commits; only the way Control
runs it is in `LedgerProducer`.

## Plan

1. The execution id that is refused after a crash between intent and claim
   (`IntentEnsured`), as a property of its own.
2. An abstract specification of a ledger request, implemented by
   `LedgerPublication`: `SendInv` and `TrackInv` are what it needs.
   `AbstractRequest` does not fit as it stands, since there a receipt that says
   "rejected" may land beside the one a publication goes by; only settling it is
   excluded.
3. Pure algorithms against reference definitions, in one module and run: the
   calendar conversions of `mod.rs` and `actions_journal.rs`, the audit
   decisions of `lib.rs`.
4. One theorem over `AbstractJournal` and the phases: that the atomic journal of
   `RequestJournal` is the projection of `AbstractJournal` to one request, now
   argued in the text only.
