# A verification project for `sf`

`sf` is a local software factory: a foreground daemon that takes tickets, runs
planning, verification, build and review phases with AI provider processes,
publishes the candidate to GitHub and (when allowed) merges it.  Everything that
matters is durable in one SQLite database per channel; every step that leaves the
machine (a push, a pull request, a merge) is fenced, journalled and reconciled: gh
commands under the external mutation gate, git commands under a git mutation lease.

## 1. Inventory

| Component | Source | State it keeps | Operations | How it interacts |
|---|---|---|---|---|
| Leader lease | `internal/leader`, `daemon.Start` | flock on an inode, lock path, metadata, `daemon_instances.leader_epoch` | Acquire, Validate, Close, AcquireLeader | every later write compares the epoch |
| Store transactions and ticket fence | `store/store.go` | tickets (state, resume state, version, runner epoch, workflow id, blocked code), owners, events | CreateTicket, StartOrAdopt, Transition*, InvalidateRunner, RecordPhaseCompletion | called by engine, daemon and recovery; `BEGIN IMMEDIATE` makes each call atomic |
| Effect ledger | `store/effects.go` | effects (state, version, leader, runner, claim) | Plan, Claim, Confirm, Fail, MarkUncertain, Observe, RecordStale, ReconcileInvalidated, ReconcileEffects | brackets every external mutation |
| External mutation gate | `store/mutation_guard.go` | one token, revocation and control latches in memory | RunExternalMutation, Drain*, | serialises external mutations with control transitions |
| Cleanup quarantine and recovery | `store/merge_intents.go`, `store/external_cleanup_recovery.go`, `hostidentity` | durable quarantine singleton, recovery checkpoint with boot id | Quarantine, Prepare, Recover | stops every external mutation until a reboot proves cleanup |
| Capacity leases | `store/lease.go`, `store/resume_capacity.go` | leases per slot, runner epoch of the owner | Acquire, Release, Adopt, ReleaseInvalidated, reacquire | admission and resume |
| Runner fencing at recovery | `store/lease.go`, `store/runner_recovery.go` | version and runner epoch of every active ticket and its ledgers | FenceRecoveredRunners | runs once per daemon start |
| Operator control | `store/control.go`, `store/operator_control.go` | stopping / cancelling states | TransitionAndInvalidateRunner, CompleteControlTransition, recover-as | pause, take, cancel |
| Runtime control | `store/runtime_control.go`, `daemon/runtimecontrol` | sealed / armed / active records per ticket, worker context | seal, arm, rearm, retire | between operator commands and the workflow runtime |
| State machine and engine | `statemachine`, `engine`, `docs/plans/...state-machine.json` | the normative transition table | Select, ResolveTarget, Signal* | decides every ticket transition |
| Provider attempts | `store/provider*.go`, `providercoord` | attempts, launch records, budgets, quarantine | Claim, Launch, Finish, Drain | one provider process per ticket |
| Operator retry of a phase | `store/provider_retry*.go`, `daemon.resumeWithTrigger`, `runtimecontrol.RearmProviderRetry` | exhaustion events, retry epochs | exhaust, authenticate, drain, retry, rearm, replay | hands a spent phase back to the scheduler |
| Process supervisor | `processsupervisor` | process groups, guardian pipes | Launch, Wait, Drain | kills and proves the death of process trees |
| Workflow runtime | `workflowruntime`, `localruntime`, `workflowworker` | scheduler queue, running workers | Start, Submit, Stop, Close | runs the phases |
| Repository commands | `store/repository_command*.go`, `repositoryexec` | leases, results, evidence | Issue, Record, Recover | proof commands of verify/build |
| Git mutations | `store/git_mutation.go`, `git`, `worktreecoord` | mutation leases, claims, worktrees | Issue, Launch, Complete, Recover | commits, pushes, worktrees |
| Worktrees and base refresh | `worktreecoord`, `baserefresh`, `store/protected_base_refresh*.go`, `store/worktree_creation_absence.go` | worktree row, creation intents, refresh proofs and reservations | Ensure, prove absence, refresh, reclaim | before planning, and when the protected base moves |
| Post-build repair and amendment | `store/postbuild_*.go`, `workflowruntime/postbuild_*.go`, `git/protected_checkpoint.go` | failures, amendment receipts, checkpoints | repair, amend, checkpoint, reclaim | when the Builder's command fails |
| Operator source resume | `store/operator_source_resume.go` | source commit, fresh review | take, commit, resume, review | an operator's own commit on a taken build |
| gh runner | `ghrunner` | one child, its group and pipes, the owed cleanup proof | Run, Cleanup, Close | runs every gh command |
| Publication | `publication`, `store/publication_evidence.go` | pushes, drafts, published candidate witness | Run | push and draft PR |
| CI authority and schedule | `store/ci_authority.go`, `store/ci_schedule.go` | observations, next poll, attempts | Record, Schedule | after publication |
| Merge | `store/merge_intents.go`, `store/guarded_merge_observation.go`, `store/manual_merge_observation.go`, `github`, `mergeproof`, `store/recovery.go` | merge intents, observations | RecordMergeIntent, MergeExactHead, Recover | the last external mutation |
| Evidence and amendments | `store/evidence*.go`, `store/verification_amendment.go` | plan, proof, candidate, acceptance | Record*, Amend* | what a transition needs |
| Daemon lifecycle | `daemon`, `transport` | handler count, runtime, store, lease | Start, Recover, Serve, Handle, Close | owns everything |
| Authoring | `authoring`, `store/authoring.go`, `daemon/authoring.go` | drafts, running workers | Start, Finish, Recover | drafts tickets with a provider |
| Events projection | `events`, `daemon.projectEvents` | ndjson file | Append, Rebuild | read by `sf watch` |
| Backup and migrations | `store/backup.go`, `store/migrations.go` | database file, backups | Backup, Migrate | at OpenChannel |
| Provider adapters, prompts, config, CLI, closures | remaining packages | none that outlives a call | parse, format, validate | pure or I/O only |

### 1.1 What is hard here

* **Fences.**  A ticket row carries a version and a runner epoch, the channel a
  leader epoch.  A worker reads them, works for minutes outside any transaction and
  writes back under the old values.  A pause, a takeover, a cancel, a phase
  transition or a restart moves them in between.
* **Two transactions where one is meant.**  Claim and launch, launch and finish,
  refused finish and compensating finish, seal and drain, arm and install are all
  separate commits.
* **Memory beside the database.**  The mutation gate, the admission tables, the
  sticky failure of the coordinator and the supervisor's table of processes live in
  memory and must agree with rows that another goroutine changes.
* **Processes outlive the daemon.**  A child may apply its command after its
  supervisor is gone.  The only proofs of its death are a drained process group or
  another boot identity.
* **Compensation with a deadline.**  Compensating calls run under fresh contexts of
  one to five seconds and can lose the race they are meant to repair.

### 1.2 What makes each component correct

| Component | Properties |
|---|---|
| Leader lease | one valid lease; commits in epoch order |
| Effect ledger, gate, quarantine | a command is handed out at most once; what is inside the gate is the current claim; a stopped ticket has no writer; a quarantine outlives the children it is about; what was applied is confirmed |
| Runtime control, scheduler | row, latch, permission and ticket identity agree; requests end; an installed rearm is used; a ticket that can run is picked |
| Provider attempts | one writer; no result after a stop; cost within the ceiling; the entry settles |
| Repository writers | at most one of git mutation, repository command and provider; settled means silent; a visible commit was prepared |
| Life cycle | every step is a row of the normative table; evidence is consumed where it was made; a recovery row names the real predecessor; a first crash is recovered |
| Publication, CI, merge | a verdict belongs to the fence that observed it; the merge is sent once; done means the reviewed head is on the protected branch |
| Daemon life cycle, authoring | the Store and the lease outlive their users; a running child is on record; Close does not wait on itself |
| Slots, worktrees, refresh, checkpoint, repair, source resume, retry, gh | slots match tickets; the checkout is accounted for; only reviewed bytes are committed; the retry starts from an authenticated worktree; a restart finds its way back |

## 2. How the project is organised

| Module | Part | Checked by | Proved in |
|---|---|---|---|
| `LeaderLease` | leader lease | `daemon_life` | `DaemonProofs` |
| `Effects` | ledger, gate, quarantine | `effects_ledger`, `effects_settle`, `mark_ready_retry` | `EffectsProofs` |
| `RuntimeControl` | control row, latch, admission, requests | `runtime_control` | `DaemonProofs` |
| `Scheduler` | fairness among tickets | `runtime_control` | |
| `ProviderAttempts` | attempts of a phase entry | `provider_attempts` | `ProviderAttemptsProofs` |
| `Writers` | repository commands and commits | `writers` | `WritersProofs` |
| `TicketHistory`, `TicketLedger`, `RunnerRecovery`, `BuildCycle`, `NormativeMachine` | one ticket up to its candidate | `build_cycle` | `BuildCycleProofs` |
| `PublicationLedger`, `CandidateRepair`, `DeliveryCycle` | push, pull request, CI, the repair | `delivery_cycle` | `DeliveryCycleProofs` |
| `MergeCycle` | review, approval, merge, reconciliation | `merge_cycle` | `MergeCycleProofs` |
| `DaemonLife` | Start to Exit, authoring, qualification | `daemon_life` | `DaemonProofs` |
| `Capacity`, `BaseRefresh`, `Worktrees`, `AmendmentCheckpoint`, `ProviderRetry`, `GhRunner` | slots, the work around a ticket's checkout, the gh child | `host_resources`; `gh_group_change` of `GhRunner` | `HostProofs` |
| `OperatorSourceResume` | operator's commits | `host_resources` | `HostProofs` |
| `PostbuildRepair` | failed builds | `host_resources` | `HostProofs` |

`BuildCycle` EXTENDS `RunnerRecovery`, which EXTENDS `TicketLedger` and `TicketHistory`;
`DeliveryCycle` EXTENDS `CandidateRepair`, which EXTENDS `PublicationLedger` and
`TicketHistory`. `BuildCycle` implements `NormativeMachine` (`NormativeSpec`, an
INSTANCE with the ticket's state and resume state).  `MCHost`, `MCRuntimeControl` and
`MCDaemonLife` check components that share no state *as a sum*: the initial state
chooses a component, the others stay frozen in their first state, and a property of the
sum is the conjunction of the components' own.  Each component explores its whole state
space and fires all its actions; nothing is gained by their product.
`MCProviderAttempts` does the same with two instances of one module: `disturbed`
(crashes, reboots, failed drains) for safety, `served` (a daemon that stays up, the
retry epoch in reach) for `EntrySettles`.

## 3. Modules, and how they correspond to the code

Each action is one critical section of the code: a `BEGIN IMMEDIATE` transaction, a
section under a mutex, or one observable step of a process.  Nothing that the code
does inside such a section is an action of its own, and nothing that can be observed
between two of them is merged.  `PROJECT.json` maps every definition to its lines.

**`LeaderLease`.**  Daemons race through `leader.Acquire`, `daemon.Start` and
`Store.AcquireLeader` while the lock path is renamed or replaced.  State: inodes with
their flocks and metadata, the path, each daemon's position, the durable epoch, the
last committed epoch.

**`Effects`.**  The rows of one ticket's external effects, the claim epoch, the merge
intent, the process-wide mutation gate with its revocation rules, the children that
execute the commands, GitHub's answer, the cleanup quarantine, crashes, restarts and
reboots.  `EnterGate` is the section of `RunExternalMutation` that validates the claim
under the token; `Launch` hands the command to a child; `Return` is what the client
makes of the child's end; `Observe` and the reconciliation actions are the re-entered
worker.  While the latch or the quarantine is set the client refuses every gh command,
reads included (`GhAdmits`), so an observation waits for it too.  External: a child proven
gone has applied its command or never will.  Pushes are not here: they run under a git
mutation lease, never enter this gate and quarantine their lease; `Writers` models those
leases (for commands and commits), `DeliveryCycle` the push as an effect.

**`RuntimeControl`.**  The `runtime_ticket_controls` row, the Store's in-memory latch,
`admission`'s tables, a scheduler loop, and the operator's requests step by step
(pause, cancel, resume, decisions), each able to lose its caller.  Every point where
the table's mutex is dropped is a boundary between actions.  `Advance` is a transition
with evidence, which carries the open row to the new version in its transaction;
`Transition` is every other one (lifecycle steps, typed, provider and budget blockers, the
pause of an exhausted provider or poll), which leaves the row where it was;
`RequestRecover` and `RecoverTicket` are the operator's way back.  **`Scheduler`** is the
order in which several loops try several tickets on outdated snapshots.

**`ProviderAttempts`.**  The attempts of one phase entry, the `Coordinator.Run` in
progress as a program counter with its local variables, the process group of every
attempt, the host's boot, `daemon.Recover`.  The tables of checks (`BeginError`,
`BeginCode`, `RouteCode`, `PreflightCode`) keep the order of the code, because the
first that holds decides.  `Accepts` is the evidence each Store transition wants
before it records the coordinator's verdict.

**`Writers`.**  A verification command and a candidate commit, in one repository
shared by several tickets; the provider attempt is one bit.  A semantic key contains
the fence of its ticket, so the rows of a ticket are indexed by fence.  `job` is the
position of the materializer's call; `Drains` is what a recovery may prove of a
group; the children of a commit before the prepared tuple are one step, since only
`update-ref` is visible outside.  Recovery is six actions in the code's order.

**`TicketHistory`, `TicketLedger`, `RunnerRecovery`, `BuildCycle`, `NormativeMachine`.**
A ticket's versions are made one at a time, by an event or by a row of the runner
recovery ledger; `hist` is the two tables together.  Events carry no fence, so
whether evidence made under an older one may still be used is *reconstructed* by the
validators of `runner_recovery.go`, `provider_retry.go` and
`verification_amendment.go`: the operators of `TicketLedger`, under the code's names.
`RunnerRecovery` is `FenceRecoveredRunners`: the leader that owned a ticket before a
restart is named by the first witness that applies, in the code's order; one that
applies and does not authenticate stops the start.  `BuildCycle` is one ticket from
`queued` to `publishing` with attempts, evidence, amendments, exhaustion and retry,
blockers, pause, resume, cancel, crashes and restarts.  Its ghost `owner` records who
really made each version; no guard reads it.

**`PublicationLedger`, `CandidateRepair`, `DeliveryCycle`.**  The same history after
publication: push, draft, witness, rebinds, the PR endpoint, polls and their exhaustion,
the required check policy, observations and verdicts.  A red verdict seals the fence it
consumed and the recovery rows of that time (`RepairBinding`); the repair's Builder, its
command, its prepared child and the recorded successor are all authenticated from that
binding, under restarts, and `validateRunnerRecoveryAuthority` audits the whole ledger
for every live reader.  **`MergeCycle`** goes on from green CI: final
review, the operator's decision, ready, merge, observation, protected branch proof,
reconciliation, in guarded and manual mode; ghosts `owner` and `sent`.

**`DaemonLife`.**  `Start`, `Serve`, handlers, runtime start and join, `Close` in its
order, and what shares their authority: authoring turns with their one gated child,
and provider qualification.  A lock held over a slow call is a variable.  A start whose
socket fails has a runtime that already ticks: it is closed and joined before
`FailStart` gives the rest back.

**`Capacity`.**  Projects, configuration generations, submissions, slots under two
limits, adoption after a restart, release and reacquisition.
**`Worktrees`.**  Creation of the ticket's one checkout, the proof that a lost
creation left nothing, adoption, restarts.
**`BaseRefresh`.**  The proof of a new protected tip, the one reservation, tree, two
refs and registration, with their reclaims.
**`AmendmentCheckpoint`.**  The protected commit of an accepted post-build amendment,
while files are edited and put back from outside.
**`PostbuildRepair`.**  The lanes of a build whose command failed, each found again
from the history by every tick and every start.
**`OperatorSourceResume`.**  An operator's commit S on checkpoint C, the fresh review
F, the candidate G.
**`ProviderRetry`.**  The operator's one retry of a phase whose two attempts are
spent: the disposition, the two checks of the retained worktree (before the drain and
behind the seal), the retry epoch, the rearm with its third check, and the replay that
finishes a handoff whose answer was lost or whose daemon died.  Somebody may edit the
worktree at any moment.
**`GhRunner`.**  `Run` with its bounded waits and the goroutines it leaves behind, the
one cleanup proof of every run, `Close`.

## 4. Runs

| Run | Asks | Bounds |
|---|---|---|
| `effects_ledger` | is a merge handed out twice, is mark-ready applied twice, is the gate ever stale, is a stopped ticket quiet? | mark-ready and merge; a pause and a crash (`MaxVersion` 3, `MaxLeader` 2), a second claim of each |
| `effects_settle` | is a quarantine lifted too early, is an applied draft confirmed? | one draft pull request, two boots, fair workers |
| `mark_ready_retry` | *violation*: is a mark-ready of unknown outcome never retried under its own fence? | one mark-ready, one daemon |
| `runtime_control` | do row, latch, permission and identity agree; do requests end; is an installed rearm used; is a ready ticket picked? | `MaxVersion` 6: pause, complete, resume and a second pause, or a blocker, a recovery and a pause; one crash; gate timeouts; beside it two loops over three tickets |
| `provider_attempts` | one writer, budget, no result after a stop; does a served entry settle? | disturbed: two versions beyond the first, one crash, one reboot, failed drains, contention; served: retry epoch in reach, deadlines, failed invocations, stops, fair scheduler |
| `writers` | one writer, settled rows are silent, a visible commit was prepared | one command and one commit; one stop and one restart; a provider, deadlines, failures, groups that cannot be proved gone |
| `build_cycle` | does a recovery row name the real predecessor, is an answered phase run again, is a first crash recovered, is every step a row of the normative table? | any three of crash, pause, block, failed attempt and amendment, up to four leaders: two faults reach every validator, the third their pairs |
| `delivery_cycle` | does a verdict belong to the fence that observed it, can the repair authenticate its history, is a first crash recovered? | three faults, four leaders, one pending poll, one correction; required checks under three protections of the branch |
| `merge_cycle` | is the merge sent once, does done mean reviewed, is a first crash recovered? | three daemons, two candidates, three base commits, three claims |
| `daemon_life` | is there one valid lease under path replacement; do Store and lease outlive their users, is a running child on record, does Close end? | three starts that qualify, two that author, one that does both; two sessions, one turn each; one reboot; beside it two daemons, three inodes, three epochs |
| `host_resources` | one invariant for each of the eight parts (below) | one project with two configurations and two tickets; three protected tips; three daemons, four for the retry; one edit, one fault |
| `gh_group_change` | *violation*: is a missing launch group never a proof after a recorded change of group? | one command |

`host_resources`: `SlotsMatchTickets` (Capacity), `CheckoutIsAccounted` (the refresh's
checkout and the creation's one intent: BaseRefresh, Worktrees), `CheckpointIsReviewed`,
`CandidateIsCurrent` (PostbuildRepair), `SourceIsReviewed`, `DrainIsProved` (GhRunner),
`RetryIsAuthenticated` (ProviderRetry), and `RestartIsServed`, the conjunction of what
each part promises after a restart.

Small bounds suffice because the code compares identities for equality or for an
advance by one: a further stop, crash or attempt repeats the comparison with shifted
numbers.  Where a theorem exists it removes the question.  Every bound is a constant
named in its module.

Fairness: scheduler loops tick for ever, a provider call is bounded by the attempt's
timeout, a request goroutine runs to its end or to the 30 s limit of `transport.go`.
Weak fairness is claimed for those, for the re-entered workers, for the second half of a
stop or resume already begun, and for a start of a stopped daemon with its recovery;
strong fairness for one thing only: an observer that keeps coming back is eventually not
overtaken (`FairSpec` of `Effects`).  Nothing is assumed of further operator commands,
of crashes, or of another ticket's release of a slot.

### 4.1 Where the code does not do what its comments say

Two comments are contradicted by what the code does; a run shows each, and neither is
assumed anywhere else.

*Mark-ready of unknown outcome* (`mark_ready_retry`, `UnknownIsNoRetry`).
`localruntime/worker.go:299-301` says that `reconcileReady` settles only claims that a
recovery fence invalidated, and that a same-fence unknown response "never becomes a retry
authorization".  `ReconcileInvalidatedEffect` (`effects.go:367-374`) accepts an uncertain
row of the *current* version, leader and runner as well; an observation of "not ready"
makes it failed, and `ClaimEffect` claims it again under the same fence.  A repeated
mark-ready is harmless on GitHub; `ReadyAppliedOnce` bounds its landings by one more than
the children that were left without supervision.  (One whose outcome could not be written
at all stays `executing` until the fence moves: only a claim of an older fence may be
reconciled.)

*Change of process group of gh* (`gh_group_change`, `GroupChangeIsNeverProof`).
`ghrunner/runner.go:740-742` says that a later ESRCH for the original group is never
treated as proof once a change was recorded.  `identityUncertain.Store(!terminated)`
(`runner.go:471`) overwrites what `monitorLeader` recorded, and `Cleanup` goes on to look
for the launch group and reports the run drained.  `DrainIsProved` and its theorem
therefore claim only what the launch group and the pipes show: a process that left the
group is not seen by that proof.

### 4.2 Known refusals

Where a validator refuses a legal history, the property that a restart is served names
the exception.  All are fail-closed; each stops a ticket, or every later start, until
an operator intervenes.

*Restart of a ticket.*
* A crash in a second review round after a repair or rejection, before the new review
  completes; a pending verdict with a completed review and runner 1; a review repair
  that reused its result; an operator's rejection, then a crash in `building`.
* A paused, resumed and rearmed ticket whose provider runs when the daemon dies
  (`providerPausedRecoveryPredecessor` refuses, every later start fails).
* A blocker recovered under a control row that was never opened again, then a crash.

*Repair of a candidate.*
* A Builder result claimed after a restart cannot be used after one more: the claim is
  read at its own version, and `rejectFutureRunnerRecoveryRows` sees the newer row
  (`ci_authority.go:1869-1891`), although `candidate_repair_prepared.go:39-42` speaks of
  any signed runner-recovery suffix.
* A crash, or a failed commit, between the post-build command and its prepared child: the
  command without its child is a contradiction, so the result is never materialized.
* A ticket restarted up to `publishing` and then paused or blocked there: the audit knows
  no gap of a pass and a resume together, so its repair does not start.
* A ticket that had stopped at its PR endpoint: the binding is not authentic, and a start
  during its repair fails.

*Merge.*
* A crash between the confirmation of the merge effect and `merge_observed` leaves the
  ticket in `merging` until a pause and resume.
* The protected base advances between the recorded observation and its replay: the
  mismatch is permanent.
* A merge claim retired without an intent, then a crash before the next claim:
  `authenticateUnissuedMergeEffect` refuses.  An uncertain merge with an intent under
  the same fence waits for a restart.

*Writers.*  A stop moves the fence before it cancels the call, so the retirement of a
drained command is refused and its lease quarantined until the next start; a commit
whose fence moved, and any quarantined git lease, make every later start fail.

*Base refresh and worktrees.*  One refresh per ticket for life; an unreserved proof left
at an older endpoint blocks every later refresh; a partial `read-tree` or mixed refs,
after a crash or a killed git child, are refused for ever.  A pinned base ref left by a
fetch or a failed snapshot makes the absence proof refuse for ever; a lease whose launch
was not recorded makes every start fail.

*Post-build repair and amendment.*  A repair Builder lost or failing leaves no lane; so
does a second repair, or a second amendment request, after an accepted amendment (and a
crash there fails every start), and an amend result not signalled before a crash.  A
Reviewer killed after writing tests leaves a worktree that is never admitted; a
checkpoint is reclaimed at most eight times; external edits leave it unready until the
bytes are restored.

*Protected checkpoint.*  An edit of the tests that `git add` picked up and that is undone
before `checkFull` reads the files again is committed: nothing compares the private tree
with the receipt (`protected_checkpoint.go:158-172`).  The next check of the tree refuses
it, so the branch holds tests no receipt names and the amendment is stuck, not accepted.

*Source resume.*  `NoWayBack` lists what the code refuses for good, and TLC finds each
case necessary: a restart during the stop, or two before the control is armed again; a
Reviewer or Builder killed after writing (the worktree stays dirty) and a remote that
moved; a Builder that finished before the take; a restart before the take and none
between the resume and the fresh review; a review bound again for a Builder that then
fails, until the next restart; a commit claimed or visible when the daemon dies, and one
of a result that an earlier daemon left; a second restart in `publishing` with only a
candidate.

*Provider retry.*  When the last of the two failed attempts was drained by a restart,
exhausted by that daemon and retried by a later one, one more restart makes
`loadCurrentProviderPhaseEntry` lose the entry (`validateProviderRetryPausedTakeover`
wants the last claim at the exhausting endpoint): `LostByTakeover`.  A post-build repair
entry has no expected head and is never retryable.

*gh runner.*  A quarantined run blocks `Run` and `Close` for ever.

## 5. Proofs

Everything below holds for *every* value of the constants; the assumptions on them are
the `ASSUME`s of the modules (bounds are naturals, sets of effects are disjoint, a
fence is left for every start), which TLC evaluates in the runs.  Each invariant was
checked by TLC as an invariant of its run before it was proved.

**`EffectsProofs`**: `EffectsType`, `GateAlwaysCurrent`, `EffectHandedOffOnce`,
`LedgerNeverForgets`, `StoppedTicketIsQuiet`, `QuarantineIsKept`, `ReadyLandsOnce`.
Five layers, each using those before it.  `GateInv`: claims are fresh and unique, and
revocation empties the gate.  `HandoffInv`: a row that may be claimed, and a claim not
yet launched, have sent nothing; a merge past its claim has its intent; absence is
recorded only of an execution older than any intent.  `QuietInv`: every command sent is
at most one landing, one orphan or one running claim, so a settled row leaves no child.
`BootInv`: a checkpoint of an earlier boot was taken before every child of that boot
died.  `ReadyInv`: until the row's own execution lands under supervision, all landings
of mark-ready are those of abandoned children, and absence is written only while so.

**`WritersProofs`**: `WritersType`, `WritersOneWriter`, `WritersSettledIsSilent`,
`WritersVisibleIsPrepared`.  Invariant: the two lease tables hold at most one lease
between them, and none beside a provider (`Alone`); a job that holds, and a group that
may write, is covered by a lease of its own claim that says so (`JobLeased`,
`GroupLeased`); what each line of a job relies on of its row and its process (`JobOK`,
`GroupOK`); the head of a branch is a prepared row's (`HeadOK`); every start to come has
a fence left (`Room`).

**`ProviderAttemptsProofs`**: `AttemptsType`, `AttemptsOneWriter`,
`AttemptsWithinBudget`, `RevokedAttemptHasNoResult`.  Invariant: only the newest attempt
is open and it has cost nothing yet; a group is alive only for an open attempt; a call
that has claimed is about that attempt, and its group is gone wherever the call may
finish it; a call's fence is never newer than the ticket's, and older once a stop is
durable.

**`DaemonProofs`**: about three modules.  Of `DaemonLife`,
`DaemonNoLateUser` (the first two parts of `AuthorityOutlivesWork`; the third, that Close
never waits on itself, is about ENABLED) and `DaemonChildIsAccounted`.  Invariant: the
order of Start and Close (`Fresh`, `Ticking`, `Joined`: what Close has joined by each
stage) and the child (`OnePending`, `Working`, `Launched`).  Of `LeaderLease`,
`LeaseOneValid` and `LeaseCommitOrder`:
a daemon past the flock still holds the flock of the inode it opened, whose metadata is
its own, and no epoch exceeds the durable one.  Of `RuntimeControl`,
`ControlRowsAgree`, for `RowsAgree` = `LatchMirrorsRow`, `AuthorityIsCurrent`,
`PermissionIsBacked`, `StoppedIsQuiet`.  None of the four is
inductive: the invariant adds that no identity in memory is newer than the ticket's
(`Behind`), that a dead daemon has no memory (`Gone`), that a request is at a step of its
kind in the phase it made (`Phased`), what a request past its seal can rely on (`Held`)
that a Begin of the current identity still has its permission (`Backed`), and that
whoever holds the ticket's identity finds it in an active phase (`Current`), which is what
keeps a row left behind by a blocker from ever being used again.

**`BuildCycleProofs`**: `BuildFencesAreReal`, `BuildPriorHeldTicket`,
`BuildCompletedIsNotRerun`, `BuildRevisionsMatch`, `BuildIsNormative`.  Invariant: every
fence that a row, request or attempt cites was held by the daemon it names (`Held`); what
the state says of the entry in hand (`Started`); the controls and the ticket name the same
work (`Controlled`); versions only grow along each table (`Ordered`); and the revisions
are counted by the decisions (`Counted`).  The recursive validators stay closed: the
properties rest on what the Store writes and what each operation compares, whatever the
validators accept.  `BuildIsNormative` shows, action by action, that a step is a step of
`NormativeMachine` or a stutter.

**`DeliveryCycleProofs`**: `VerdictOfItsOwner`, `AuthenticRepair`,
`UndisturbedPriorHeldTicket`.  Here the validators are opened: what they accept is shown
from the history alone.  Events carry no fence, so the invariant says where the ghost
`owner` can be read off the rows: at every row and at the newest version (`Held`), and,
as long as there was no stop, no block and no resumed PR endpoint (`Plain`), at every
version (`PlainHistory`: a version belongs to the newest row before it, every row names
the fence before it, and only rows lie between the pass and the waiting event).  The rest
fixes what the reader of a repair finds: the first versions and the one Builder's pass
(`Prefix`), that nothing follows an exhaustion nobody may answer (`Unresumed`), one
waiting event right after the witness (`Announcing`), and of the repair its binding and
that only rows followed (`Repairing`).  A verdict is its owner's because the chain read at
its fence names the owner of the newest version; the Builder's context holds because each
gap between two rows is empty, a stretch of ordinary life or vouched for by the binding
(`GapIs`); and the startup fence names the owner because every witness that applies
either names it or refuses (`PriorFit`).

**`MergeCycleProofs`**: `MergePriorHeldTicket`, `MergeSentOnce`, `MergeDoneIsReviewed`.
The first needs what the startup fence reads to be true: rows, verdicts and repair
boundaries name the owner of their version, the final review and the manual observation
the fence they were stored under (`HistOK`, `Cited`).  `SentInv`: nothing is sent before
the intent, and who is about to send has not sent.  `ReviewedInv`: from the pass on, the
newest review is the pass of the newest candidate.

**`HostProofs`**: theorems about seven of the properties that `host_resources` checks, for
the specification of the sum; each proof is about one component, and the sum only says
which of them moves (`HostInit`, `HostStep`).
* `GhDrainIsProved`.  `GhInv`: a proof is owed for exactly the last run (`GhOwing`), what
  Run recorded is so (`GhRecorded`), how far Cleanup has come and what it knows there
  (`GhProgress`).
* `RetryStartsAuthenticated`.  `RetryInv`: which control row may stand beside which ticket
  and activity (`RowHeld`), and what each stage of the request rests on: the pause or the
  seal is still there, so nobody was admitted since the worktree was seen (`Staged`).
* `CapacitySlotsMatch`.  `CapInv`: the property speaks of a daemon that serves, `CapHeld`
  of every state; the two slots of a ticket are of one runner, so no release splits them.
* `HostCheckoutIsAccounted`.  `RefInv` and `WtInv`: which rows of the refresh and of the
  creation may be open, and what the worker at each step knows of the checkout; no second
  creation while one is open.  Assumes that the protected branch has a first tip
  (`BaseAssumption`).
* `CheckpointStaysReviewed`.  `CkInv`: which rows stand behind each step of the commit, and
  that the private index holds the receipt's tests wherever the worktree does (`CkJob`);
  an edit writes bytes nobody had, so `checkFull` behind `git add` settles it, unless
  somebody undoes an edit just between the two.
* `SourceStaysReviewed`.  `SrInv`: a commit in the ledger was made for a finished attempt
  whose command passed at its own fence, and is in the branch once visible (`SrMade`);
  what each stage of the phase in hand has established, which neither the operator nor
  the remote can take back (`SrJob`); no Builder of after the resume exists before a fresh
  review is recorded, and that review is older than the fence it builds under (`SrOrder`).
* `CandidateStaysCurrent`.  Every lane is found from the history, so `PbInv` says what the
  history tells: which versions open an entry, and that every repair answers another
  finished Builder of an older entry (`PbHistory`); that an attempt belongs to the entry
  that was newest at its claim (`PbAttempted`); what each stage of the activity has
  established (`PbJob`); and that from the claim of a commit on its Builder stays the
  newest finished one, so that it is the one reused, none is launched and neither a repair
  nor a request can follow (`PbCommitted`).

### 5.1 What stays with TLC

* Liveness (`AppliedIsConfirmed`, `RequestEnds`, `ArmedIsServed`, `ReadyIsPicked`,
  `EntrySettles`) and ENABLED (the last part of `AuthorityOutlivesWork`).
* `FirstCrashResumes` of `BuildCycle`, `DeliveryCycle` and `MergeCycle`: it asks whether a
  whole reconstruction succeeds, not whether what it returns is true, and its case
  analysis is TLC's.
* `RestartIsServed`, which asks, like `FirstCrashResumes`, whether a reconstruction
  succeeds.

Facts about the least or newest element of a finite set, which need induction, *are*
proved (`LeastIs`, `NewestIs`), from the library's well-founded order on finite subsets.

## 6. Not modelled

* Whole components: the process supervisor beyond Run and Drain, the events projection,
  backup and migrations, provider adapters, prompts and artifacts, configuration and
  execution policy, the command line, runtime closures, credentials and SSH, domain and
  API types, the test kit.  They are formatting, parsing, file I/O, or one linear
  transaction.
* `RuntimeControl`: the lineage inside the candidate-repair and post-publication rearm
  proofs, the generation compare-and-swap; a graceful shutdown is a crash.  Which
  transition leaves the ticket in which phase is left open (`Advance` and `Transition`
  choose); a transition that makes two versions at once is one; the merge observer's
  reconciling successor and a resume of the first PR endpoint, which rearms nothing (here
  a request that ends before it loads the row), are left out.
* `ProviderAttempts`: fallback routes (no production route has one), several phase
  entries, request limits and cost estimates, the third backoff wait.
* `Writers`: pushes and fetches, reuse of results and commits across an amendment or a
  source resume, the test groups recorded by the Go wrapper (one group stands for the
  tree), and the termination of a call.
* `BuildCycle`, `DeliveryCycle`: the 64-row bound of the ledgers, the diagnostics of an
  observation, stops and failures of the repair's Builder, its command and its commit, the
  second candidate's pass and publication.  `MergeCycle`: autonomous mode and spikes,
  operator pauses after approval.
* `Worktrees`: adoption of a directory nobody claimed (unreachable with one activity per
  ticket).  `PostbuildRepair`, `OperatorSourceResume`: a second operator stop.
* `ProviderRetry`: what makes a pair of failures authentic (`ProviderAttempts`), retries
  committed before controls were durable.
