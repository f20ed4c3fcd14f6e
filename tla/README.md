# DoneState in TLA+

DoneState carries out an *objective* (an ordered list of admitted actions on a
repository) and hands the result to an independent verifier. Its promise is that
what it reports is what happened: an effect whose outcome is unknown is called
ambiguous and is never repeated, a failure is called a failure, and nothing but an
independent report turns work that is waiting into work that is verified.

This directory holds TLA+ modules translated from the source, TLC runs that
model-check them on small instances, and TLAPS proofs of the properties that
matter most.

    cd tla
    tlc -workers 2 -config MCLocalRun.cfg MCLocalRun
    tlc -workers 2 -config MCMaintenanceRegistryLive.cfg MCMaintenanceRegistry
    tlapm LocalRunProofs.tla
    tlapm ReleaseControllerProofs.tla

`PROJECT.json` lists the runs with their configurations, maps every definition to
the lines it models, names for every property a plausible bug (a *mutant*, defined
beside the original in the module) that the run catches, and lists findings, hazards
and theorems. The proofs are in the eight modules whose names end in `Proofs`, one for
each module with a specification.

## What is proved

Every invariant and every action property that a run checks on a small instance is
also a theorem, for every value of the constants that the named assumptions of its
module allow; so are three refinements. What stays with TLC is liveness
(`RunComesToRest` of both programs, `LabelledIssueFound`, `MergedBranchRetired`), which
needs `ENABLED` and fairness, and the finding, which a theorem could not show.

| Module | Theorems | The invariant adds to the property |
|---|---|---|
| `LocalRunProofs` | 7: types, and the six properties of a local run | tokens, rows and memories in order; what a worker between intent and settlement owns; what a settled failure leaves behind |
| `HostedRunProofs` | 7: types, and the six properties of a hosted run | which intent each wait may leave open; what is at GitHub; that nothing after the seal undoes it |
| `CredentialVaultProofs` | 3: types, stale keys, leases | no generation ahead of the fence's |
| `AccountDeletionProofs` | 5: types, stale requests, stale keys, completeness, refinement of the vault | the locks that a deletion holds; the runs it has in hand |
| `LocalPublicationProofs` | 4: types, subjects, findings, refinement of `Judgement` with works that can be reopened | the branch of the work tree exists; a record follows a publication |
| `ReleaseControllerProofs` | 5: types, history, authority (executed no earlier than its commit), handoffs, refinement of `Judgement` | what a waiting request will append |
| `MaintenanceRegistryProofs` | 4: types, one run a finding, stale writes, retirement | claims, generations on record, retirements still due; the sweep |
| `MarketplaceProofs` | 3: types, entitlement, failures (reported, or a full log of receipts no older) | no receipt of the future; each failure noted |

The assumptions are about the constants only: names that differ (`None` is no run),
limits that are numbers, constants that have the shape the code's validation gives
them. One theorem, `CompleteDeletion`, assumes more (deletions do not overlap), because
the property is false without it.

## Inventory

### The parts

| Part | State it keeps | Operations that change it | Model |
|---|---|---|---|
| Local durable run: `src/store.ts`, `src/controller.ts`, `src/adapters/process-runner.ts` | SQLite rows: run state, actions, lease, event chain, snapshot digest | `resume`, `cancel`, `deleteRun`, the store transactions they call, the child process | `LocalRun` |
| Local verification: `src/verification-v2.ts`, `handoff.ts`, `attestation.ts`, `verification.ts` | publication subject, responses (replay table), attestations | record subject, record response, save attestation, delete | `LocalVerification`; the snapshot also in `LocalRun` |
| Local command line: `src/cli.ts` | the git work tree it is run in; the maintenance table | `go`, `maintenance-discover`, `maintenance-repair`, and the commands of the two rows above | `LocalPublication` |
| Policy admission: `src/policy.ts` | none (pure) | | assumptions on the constants of `LocalRun` |
| Hosted run: `coordinator.ts`, `executor.ts`, `implementation-receipt.ts`, `repository-publication.ts` | a Durable Object per run: state, actions, execution checkpoint, alarm, snapshot, nonces; a sandbox per run | alarm handler, cancel, purge, submit response, request verification | `HostedRun` |
| Credential vault: `credential-vault.ts` | a Durable Object per account: the key, the lease and quota, a setup ticket, the deletion fence | store, disconnect, acquire, release, tickets, deletion | `CredentialVault`, without the tickets |
| Maintenance registry: `maintenance-registry.ts` | one Durable Object for all accounts: repositories, findings, the index of runs, deletion fences, webhook deliveries | select, remove, discover, repair, sweep, retire, webhooks, deletion | `MaintenanceRegistry`; index and fence also in `AccountDeletion` |
| Marketplace: `github-marketplace.ts`, the registry's tables for it | entitlements, failure receipts, one-time installation states | purchase webhooks, installation callback, purge | `Marketplace` |
| Account deletion: `account-data.ts`, `account-controls.ts` | none of its own: it drives the vault, the registry and the runs | delete in phases, to be retried | `AccountDeletion` |
| Release controller: `services/release-controller`, `src/release-v1-evidence.ts`, `release-v1-handoff.ts` | a Durable Object per release: authority, receipt, handoffs, decision, audit | authorise, recover, receipt, refresh, settle | `ReleaseController` |
| MCP server: `server.ts` | none | each tool is a call to one of the above | the three that interact, in `AccountDeletion` |
| Sign-in, settings pages, network clients | sessions in an external OAuth library; one-time state records | | where another part relies on them; otherwise parsing, HTML, network I/O |
| Scripts, schemas, governance, acceptance workers | | | not modelled: tooling |

### How they interact

A local run is driven by command-line processes that share one SQLite file and
nothing else; each store call is a transaction, and between two calls any other
process may act. The child process of an action is outside the store altogether. Two
commands may also share the git work tree, which the store knows nothing of.

A hosted run is a Durable Object driven by its own alarm. The platform delivers one
alarm at a time and repeats a delivery that failed, but every other request
interleaves with a handler at each of its awaits: hashing, calls of the vault, and
commands in the sandbox. The coordinator leases a credential from the account's
vault for one alarm, reports to the registry, and is deleted by account deletion,
which asks every part in turn.

The registry is one object for all accounts. Its handlers (an owner's request, the
hourly sweep, a webhook) interleave wherever one waits for GitHub or for a run. A
repair is recorded in the registry and in a run of its own, which the registry asks,
much later, whether it was verified.

The release controller serves five routes on one object per release. It authorises
one GitHub workflow run, is given the receipt of what that run executed, and is given
the outcome that an independent verifier signed.

The same two ideas return in several parts and have a module of their own. `Fence` is
the pair of a flag and a generation with which the vault and the registry turn away
whatever was admitted before a deletion. `Judgement` is what every part promises that
has work judged by somebody else.

### What is hard, and what makes each part correct

* *Local run.* Crashes between an intent, its effect and its settlement; leases that
  lapse under a running child; arrays read before the lease changed hands;
  `cancel`, which checks and writes in separate transactions. Correct when no effect
  is launched twice or out of order, no two processes execute at once, budgets hold,
  and the table the verifier is given is the table of a success.
* *Local verification and publication.* A handoff is read in three transactions; a
  response may be replayed, answer an older head, or race with another or with a
  version 1 attestation, or with a late worker that reopens the run; commands share the
  work tree and the finding. Correct when between two sealings a run is judged once, by
  an answer to a handoff that was not answered before, on a subject that is published.
* *Hosted run.* Handlers are retried; a detached implementation outlives the
  handler that launched it; cancellation, purge and verification interleave with the
  handler. Correct when no effect is repeated across retries, cancelled runs stay
  cancelled, and credentials come back.
* *Vault.* Calls interleave where sealing and unsealing wait; leases lapse, cross
  midnight and are released late. Correct when a lease is its holder's alone, a leased
  key stays, and the day's limit holds.
* *Account deletion.* It runs in phases, against objects that keep serving, and may
  stop after any of them. Correct when a deletion that completes has left nothing and
  nothing from before it comes back.
* *Registry.* Owner, sweep and webhooks race for a finding and each waits for GitHub
  between its checks and its write; calls fail, the object restarts half way through a
  repair or a retirement, an account is deleted meanwhile; webhooks are lost. Correct
  when a finding has one run, nothing stale is written, a branch goes only with its
  work verified and merged, and what no webhook tells of is found by the sweep.
* *Marketplace.* Events come late, twice and in another order, and their failures are
  logged in a bounded table. Correct when the row is that of the newest event, and a
  failure stays in sight until it is made good.
* *Release controller.* It waits for a signing key between its checks and its commit;
  a run may be replaced, execute early or late, and the worker is deployed anew under
  it. Correct when the receipt that counts is of the run that had the authority, and
  what is recorded is never unsaid.

## How the modules depend on each other

    Fence <- CredentialVault <- AccountDeletion          LocalVerification <- LocalPublication
    Fence <- MaintenanceRegistry                          LocalRun, HostedRun, Marketplace
    Judgement <= ReleaseController, LocalPublication      (<= : is implemented by)

`AccountDeletion` composes the vault, the registry's index and the runs of an account;
`LocalPublication` composes the store's verification tables with the commands and the
work tree. `LocalRun` gives the controller that `LocalPublication` abstracts to a
sequence of git commands, and `HostedRun` the run that `MaintenanceRegistry` reduces to
six states.

| Run | Distinct states | Question |
|---|---|---|
| `local_safety`, `local_progress` | 3.4 million; 1.0 million | a local run through crashes and lapsing leases |
| `hosted_run` | 1.3 million | a hosted run through restarts, lost calls, cancellation |
| `hosted_cancel_undone` | until the violation | the finding |
| `vault_safety` | 45 thousand | three runs and a deletion at one vault |
| `account_safety` | 2.4 million | a deletion against everything that serves the account |
| `publication_safety`, `publication_judgement` | 0.4 million; 0.3 million | two commands in one work tree; two verifiers and late workers at one run |
| `release_safety` | 1.1 million | a release through recoveries, deployments and waits |
| `registry_safety`, `registry_progress` | 1.7 million; 0.1 million | a finding that everybody repairs; a sweep with a dead repository |
| `marketplace_safety` | 2.5 million | purchase events in any order; failures that age or are crowded out |

Every passing run is complete: TLC visits every state of its instance.

What could still be added, in the order of what it would add: that `HostedRun`
implements `Judgement` as the other two do; the composition of `MaintenanceRegistry`
with `AccountDeletion`, whose product is beyond TLC but not beyond the proofs; the
vault's setup tickets.

## LocalRun

### State and actions

| Variable | In the code |
|---|---|
| `runState` | `donestate_runs.state`; `"DELETED"` once the row is gone |
| `actions` | `donestate_actions`: state and attempts. A `FAILED` row whose result carries a missing-capability code is `UNAVAILABLE`, one with any other error code `ERRORED` |
| `lease` | `donestate_leases`: owner, fencing token, whether it has expired |
| `sealed` | `verification_snapshot_digest`: the table that was digested |
| `late` | `maxDurationMs` has passed |
| `pc`, `mem`, `seen`, `token`, `cur`, `goal`, `result` | where a process is in `resume()` and what it remembers: `run.state`, the `actions` array, the fencing token, the loop's position, the transition it is about to write, the result of its child |
| `op` | the operator's process inside `cancel()` |
| `launched`, `settled`, `failed` | observations for the properties; no action reads them |

Each worker action is one store transaction or one read of `resume()`, so the others
interleave everywhere they can in the code. `Crash` is possible wherever the process
lives. A process that ends frees its slot for a new one with a fresh owner id, which
is why the lease it leaves behind belongs to `Departed`. Recovery marks an
interrupted action without checking lease or state, because `markActionAmbiguous`
does not; `StartAction`, `SettleAction` and `RetryFailed` are fenced, because
`assertLease` is called there; `Move` is a compare-and-set on the remembered state
with no lease, because `transition` is.

`settleAction` commits the result (`SettleAction`) and then lists the rows again in
another transaction, and `resume()` decides on the row it finds there (`Decide`). A worker
without the lease may have marked that row ambiguous in between: the holder then goes on
to the next action although this one failed, unless that depends on it.

Node reports a spawn that fails and a signal that cannot be sent by the same event, whose
code becomes the result's `errorCode` (`process-runner.ts:104`). So `errored` is the end of
a child that was never started and, for the actions in `Unkillable` (a child under another
user id, say), of one that was. `controller.ts:118` retries any failure with an error code
when the run is `BLOCKED_CAPABILITY`, which a late worker may have written over it: a child
of the second kind is then started again.

### Runs

| Run | Instance | What it shows |
|---|---|---|
| `local_safety` | 2 processes, two validations that do not depend on each other, the second with a child that cannot be killed, 2 attempts, 3 tokens | the type invariant, and the six safety properties below |
| `local_progress` | 2 processes, one implementation, 1 attempt, 3 tokens | a run that is resumed comes to rest |

* `EffectsNotReplayed`: no effect is launched twice, but for children that cannot be
  killed.
* `SoleExecutor`: at most one process is between recording an intent and settling it.
* `EffectsInOrder`: when an action leaves `PENDING`, what it depends on has settled
  `SUCCEEDED`, and every earlier action has settled: `SUCCEEDED`, or as a failure whose
  row was marked `AMBIGUOUS` before the holder listed it.
* `SealedIsSuccess`: the sealed table is a table of successes that are still stored.
* `AttemptBudget`: no action is attempted more often than allowed.
* `AmbiguousIsFinal`: nothing settles, retries or restarts an ambiguous action.

Bounds. Two processes are enough for every race of the code, which are all between a
superseded worker and its successor, or between a worker and the operator; a third
adds only more of the same because a process that ends frees its slot. Two actions of one
phase that do not depend on each other are the pair that the code can carry furthest out
of order: only between them is there a way past a failure that was marked (an action of
another phase begins with a transition, which finds `AMBIGUOUS_EFFECT` and throws; one that
depends on the failure is refused). The phase is not the one that the run begins in, so it
is entered by a transition too. What the gates of a dependency and of a publication refuse
is left to the theorems, which hold for any dependencies and kinds. Three tokens let the
lease change hands twice, and two attempts let a capability failure be retried once
and then exhaust its budget. `MaxToken` is the only bound of the model (in the guards
of `Acquire` and `Heartbeat`); the theorems hold for every value of it.

Fairness. Strong fairness of every process step: a process may be killed any number
of times, but not for ever at the same step. Weak fairness of `Resume`: the operator
keeps resuming a run that is not at rest (the code has no daemon). Weak fairness of
expiry only for the lease of a process that is gone: a live process renews its own.
`RunComesToRest` excludes the two ways the code really has of not resting, a failure
left unreported by a crash (see below) and the model running out of tokens.

Deadlock is not checked: a run that is settled and not resumed stops.

### Theorems (`LocalRunProofs`)

For any number of processes and actions, any dependency relation and any budgets,
assuming only the named assumptions in `LocalRun`:
`TypeCorrect`, `NoReplay`, `OneExecutor`, `OrderKept`, `SealSound`, `BudgetKept`,
`AmbiguityKept`.

None of the properties is inductive. The invariant `IInv` adds what the code relies
on without saying so:

* `AtAction`, `StartAtFirst`: where the loop's position may be at each step;
* `DeletedForGood`: a deleted run leaves no rows and no lease behind;
* `TokensIssued`: nobody remembers a token larger than the last one issued, and the
  remembered token of an earlier holder is smaller;
* `RowsInOrder`, `WorkersInOrder`: everything before an action that left `PENDING`
  was passed (`Passed`: succeeded, or failed and then marked) and what it depends on
  succeeded (`Ready`), in the store and in each worker's memory of it;
* `Fresh`: what is asked of a worker that goes on is asked only of one that still holds
  the last token, since the fence stops every other;
* `Execution`: a worker between intent and settlement has the only row that is
  `RUNNING`, or that row has become `AMBIGUOUS` for good;
* `Launches`: a row that may still be started has not been launched;
* `Budget`, `Sealing`: attempts, and what is about to be sealed.

The key step is that the fence of `startAction` and the ambiguity of recovery
together exclude a second launch: a new holder can start nothing while a row is
`RUNNING`, because the row is `AMBIGUOUS` before the new holder comes to the loop, and
nobody who then lists the rows comes past it. Only the holder that settled the failure
itself, and whose list comes after a late mark, goes on, and only while its token is the
last.

Only model-checked: `RunComesToRest` (liveness under fairness).

### Read in the code, without a run

* After its loop `resume()` reads the run again and moves it to `RECONCILING` from any
  state (`controller.ts:246`); a late worker may also take up the state `VERIFIED` at the
  reread of an earlier transition and write a phase over it (191). `types.ts:20` calls
  `VERIFIED` terminal and `docs/CLI-REFERENCE.md:69` says that `resume` resumes only from
  states that are classified as recoverable; but one worker can lose its lease at the end
  of its loop, another hand the run over, and it can be verified before the first reads
  it again. `LocalRun` has these steps, and `LocalVerification` takes them as given
  (`LateWorker`).
* `cancel()` checks the lease and writes in separate transactions (`controller.ts:66`,
  `79`), and taking a lease does not change the state that the write compares:
  cancellation succeeds under a worker that started in between, although
  `docs/CLI-REFERENCE.md:77` excludes it.
* `markActionAmbiguous` is not fenced (`store.ts:782`): a superseded worker rewrites an
  action that has since succeeded, and stops the run, although
  `docs/THREAT-MODEL.md:10` answers stale workers with fencing tokens. (`AmbiguousIsFinal`
  holds all the same: what it writes stays.)
* A crash between the settlement of a failure and the transition leaves the run in its
  phase for ever: every later `resume()` finds the failed action and returns
  (`controller.ts:134`; `docs/ARCHITECTURE.md:37`).
* A publication without a Git repository blocks the run as `BLOCKED_CAPABILITY`
  (`controller.ts:151`), which `resume()` cannot leave since no action failed, although
  `docs/USER-WORKFLOW.md:102` says that it can be resumed.

### Left out

Formatting, digests (a digest is represented by what it digests), the event chain's
contents, and output capture. The maintenance table and the version 2 verification tables of the
store are in `LocalVerification` and `LocalPublication`.

## HostedRun

### State and actions

| Variable | In the code |
|---|---|
| `objective` | the run's objective, as far as it decides control: which validation commands `selectedValidation` takes, whether it must guess the ecosystem, whether governance closes the run, what is published |
| `runState`, `head` | `run.state` (`"DELETED"` after `purge`), and the last event of the chain by its number |
| `rows` | the `actions` table; `"ABSENT"` before the intent |
| `checkpoint` | `execution_checkpoint_json`, by its `implementationPhase` |
| `recorded`, `sealed`, `replays` | branch and pull request of the run row, the snapshot digest (the rows it digests), `verification_replays` |
| `alarm` | the Durable Object's alarm |
| `pc`, `held`, `fate` | what the alarm handler waits for, the checkpoint it read when it began, and how the execution ended |
| `cancelPc`, `submit` | a `cancel()` and the submissions that are under way |
| `answers` | the responses the verifier has signed |
| `sandbox`, `child`, `due` | the container of the run, the detached implementation with its receipt, and whether its deadline has passed |
| `leased`, `inflight`, `branch`, `pull` | the lease in the vault, the requests sent whose effect is still to come, and what GitHub shows |
| `launched`, `verdicts`, `faults` | observations; only the bound on `faults` is read |

The platform delivers one alarm at a time, and input gates let another request in
only where a handler waits for something outside the object. So each value of `pc` is
such a wait, and each action takes the reply, does everything up to the next wait,
and names it: `Acquire` (the vault), `Access` (GitHub's repository record), `Clone`,
`BaseHead`, `StartImplementation`, `Launch`, `Receipt`, `ReceiptHead`, `Command`,
`Probe`, `CommitHead`, `Refs`, `Push`, `FindPull`, `CreatePull`, `FindPullAgain`,
then `UnwindExecution` (the `finally` that destroys the sandbox), `Catch`, `Finish`
(`finishReconciliation`), `Cleanup` and `Release`. `Recover` is the branch of `alarm()`
that finds an interrupted intent. `Cancel`, `CancelDestroyed` and `CancelReleased` are
the three parts of `cancel()` between its waits; `Submit` and `Accept` are the two
parts of `submitVerificationResponse`, before and after its event is hashed. A request
that was sent may take effect (`Land`) after its sender has given up, which is what
an ambiguous outcome is. `Restart` loses what was in memory and delivers again an
alarm whose handler did not return.

### Runs

| Run | Instance | What it shows |
|---|---|---|
| `hosted_run` | two objectives, 2 submissions at a time, 2 answers, 2 faults, under fairness; 1.3 million states | the type invariant, the six safety properties below, and that a queued run comes to rest |
| `hosted_cancel_undone` | the same objectives without verification and without faults | `CancelledIsFinal` is violated (see Finding) |

* `EffectsNotReplayed`: no effect is requested twice, through restarts, repeated
  alarms and cancellation.
* `CheckpointMatchesIntent`: checkpoint and implementation row agree, whoever wrote
  last, handler or `cancel()`; and there is never a second `RUNNING` row, of which
  `alarm()` would look at the first only.
* `SettledForGood`: a settled action is never settled again. (In the local program it
  may be, see above.)
* `HandoffIsPublished`: what the verifier is given is sealed, stored, all successes,
  and at GitHub with the intended commit.
* `VerifiedOnCurrentHandoff`: one verdict, on the handoff of that
  moment, however many responses are submitted together.
* `PublishedIsValidated`: with a named ecosystem, no push before its tests succeeded.
* `RunComesToRest`: a queued run comes to rest whatever fails, with one exception. A
  run in `RECONCILING` with an action that did not succeed, whose object restarts before
  `finishReconciliation` has refused it, makes that function throw out of every later
  alarm; the platform gives up some day and the run stays as it is.

Bounds. `MaxFaults` 2 allows a restart in the middle of the recovery of a restart, or
one with a lost control call; each fault is spent anywhere. `MaxAnswers` 2 gives two
different decisions on one handoff, or an uncertain one followed by a verdict, and two
requests let them race. The objectives are a Node repository with a lock file and a
pull request, and a branch of a repository with a governance script whose ecosystem is not
named, so that its validation may be passed over: between them every branch of
`selectedValidation`'s callers and of the publication. The commands of an objective are in order, so longer
lists repeat what these show. There is no other bound: `head` is finite because every
transition is.

Fairness. Weak fairness of `Alarm` and of the handler's steps: the platform runs a due
alarm, and every wait ends with an answer, an error or a timeout (each command and
request of `executor.ts` has one). Weak fairness of `DeadlinePasses`: time passes.
Nothing is assumed of the owner, the verifier, the child or GitHub.

Deadlock is not checked: a run at rest stops.

### Left out, and taken together

* `transition()` compares state and head again after it has hashed its event, and a
  handler that loses throws: one step. The settlement and transition of `Recover`, and
  the intent and success of `prepare-publication-credentials`, are one step each; no
  other request reads what is between.
* `create()` refuses an objective without the authority classes its publication needs
  (`validation.ts:93-117`), so the later checks of authority stop nothing.
* Alarms are repeated for as long as they fail. The platform gives up after some
  repetitions, which adds stops and no new states.
* The legacy `submitAttestation`, checkpoints that do not parse, and the contents of
  receipts, diffs and credentials.
* What a repository's own remote does besides: `OpenedByHand` is a pull request
  somebody else opens; nobody else deletes or moves the run's branch.

### Finding

`hosted_cancel_undone`: `cancel()` waits twice before it writes, and the handler's
`RECONCILING` and `PUBLISHING` are entered from whatever state the run is in: a cancelled
run goes on.

### Read in the code, without a run

* A pull request whose creation failed, and whose lookup fails too, ends as
  `FAILED_SAFE` with its action `RUNNING`, not as ambiguous (`executor.ts:791`).
* A push is settled as ambiguous before the run is stopped. When the object restarts
  in between, the next alarm looks for `RUNNING` rows only, finds none and goes on;
  if the push has landed by then, the run opens the pull request (`executor.ts:819`).

Besides: an action may start after `CANCELLED`
(`executor.ts:465` asks only at the beginning of a command, `coordinator.ts:716` does
not); `CANCELLED` is written over a state reached meanwhile (`coordinator.ts:236`);
`cancel()` destroys the sandbox only when there is a checkpoint (`coordinator.ts:214`),
and between the clone and the implementation there is none, so that the container is
left although `docs/HOSTED-PLUGIN.md:19` says that it is destroyed;
`hasFile` takes a failure to read for an absent file (`executor.ts:389`), so that
validation may be passed over, although `docs/HOSTED-PLUGIN.md:18` says otherwise.

### Theorems (`HostedRunProofs`)

`TypeCorrect`, `NoReplay`, `CheckpointKeepsUp`, `HandoffSound`, `ValidatedFirst`,
`SettledStays` and `VerifiedOnCurrent`, for any objectives (of whatever commands that are
not the names of the run's own `Operations`), requests, answers and faults.

The properties rest on each other, so there is one invariant, `IInv`:

* `HandlerOK`, `VerifierOK`: at each wait, which checkpoint the handler began with and
  how its execution may end; a request submits what the verifier signed;
* `OneIntent`: an intent without an outcome is the one of the present wait (`Busy` gives
  the actions that a wait may leave open), and there is one at most. A handler that died
  or gave up has left any;
* `Checkpointed`: the checkpoint in the store agrees with the row of the implementation,
  and so does the copy in the handler's memory, as long as the run has not been deleted;
* `Launches`: what has no intent has not been requested;
* `AtGitHub`, `InOrder`: what GitHub shows comes from intents in the table, the push is
  behind the commit, and the commit behind the validation. Both hold across `purge()`,
  which takes the table away and leaves GitHub as it is;
* `Reconciled`: an execution that ended well has published what its objective asks for,
  and from the handoff on the handler is at waits that touch nothing of it, so that the
  sealed table stays the table;
* `VerdictsOK`: each verdict answered a handoff that is in the replay table, and once one
  was not `uncertain` the run is not handed over again.

`cancel()` is where the invariant is subtle: it may write `CANCELLED` over a run whose
handler goes on (the finding), so nothing in `IInv` can be about the state
`CANCELLED`. What protects the effects is the table of intents, which `cancel()` leaves
consistent with the checkpoint that it clears.

Only model-checked: `RunComesToRest`, and the finding.

## CredentialVault

### State and actions

| Variable | In the code |
|---|---|
| `vaultLock` (of `Fence`) | `account_control`: `deleting` and `generation` |
| `credential` | there is a `credential` row |
| `quota` | the `quota` row: whether it is there and is today's, the runs started, the holder of the lease and whether it has yet to lapse |
| `sealing` | the calls of `storeCredential` that wait for the key to be sealed, with the generation they were admitted under |
| `spender` | per run, what its alarm handler does with the key: nothing, `acquire` waiting for the key to be unsealed, executing, or about to release |
| `storedUnder`, `vaultPurged` | observations: the generation of the request whose key is stored, and of the last purge |

A Durable Object runs one event at a time and lets the next one in where a handler
waits. In the vault it waits for cryptography only, so `storeCredential` and `acquire`
are two actions each (`BeginStoreCredential`, `EndStoreCredential`; `BeginAcquire`, then
`GrantLease` or `DenyLease`) and every other call is one. `release` is `ReturnLease` in
the handler's `finally` and `CancelLease` in `cancel()`; a handler that defers, dies or
whose release fails is `KeepLease`. `PurgeVault` and `RefusePurge` are the two ends of
`purgeAccount`. The clock is two events: the row's day ends, the lease lapses. Every
call that uses the quota row normalises it first (`EnsureQuota`).

### Run and theorems

`vault_safety` has three runs, one request at a time that connects a key, two runs a
day and two deletions, which is enough for a holder, a rival and a late release at
once, and for a deletion inside the sealing of a key and a second one after it.
`DailyLimit` is the code's `USER_DAILY_RUN_LIMIT`; `MaxGenerations` (in the guard of
`LockVault`) is the only bound of the model. Everything is checked and, in
`CredentialVaultProofs`, proved for every value of the constants:

| Property | Theorem | Says |
|---|---|---|
| `VaultTypeOK` | `VaultTypeCorrect` | types; the runs of the day never exceed the limit |
| `StaleKeyFenced` | `StaleKeysFenced` | a stored key was connected by a request admitted after the last purge |
| `LeaseIsItsHolders` | `LeasesKept` | the lease of an executing run ends by lapsing or by that run's own `cancel()`, and until then no call removes its key |

`StaleKeyFenced` has two conjuncts, the promise and what makes equal generations mean
anything: while the fence is up, nothing stored or being sealed bears its generation.
To be inductive it needs `GenerationsKnown`: no generation in the vault is ahead of the
fence's. The action properties follow from the types and, for the lease, from what
`EnsureQuota` and `Released` leave alone (`EnsureQuotaType`, `ReleasedType`).

Left out: setup tickets, and the owner row, which is the account's name in an object
that is reached by that name.

## AccountDeletion

### State and actions

`AccountDeletion` extends `CredentialVault`: its actions conjoin the vault's own actions
with what their callers do.

| Variable | In the code |
|---|---|
| `registryLock`, `index` | `account_controls` and `account_runs` of the registry |
| `runState`, `cancelling` | each run's row, reduced to what deletion asks of it: missing, `RECEIVED`, `QUEUED`, executing, or in one of `DELETABLE_RUN_STATES`; and a `cancel()` that has released the lease and not yet written |
| `request`, `admitted` | the `create_objective`, `start_objective` or `delete_objective` under way for a run, and the generation it was admitted under |
| `store` | the `finishSetup` requests, with the two generations they remember |
| `deletion` | the calls of `deleteIndexedAccountData`: their step, the runs left to view and to purge, and whether something was active |
| `createdUnder`, `registryPurged` | observations: the registry's generation when a run was created, and that of the last complete deletion |

Each action is one call of an object with the caller's own code up to its next call.
The callers run in workers that may die between any two calls (`RequestDies`,
`DeletionDies`), which is also what a call that throws looks like to a deletion: it
ends with the locks as they are. `ViewRun` and `PurgeRun` take the runs in any order,
which `Promise.all` does for the views; the purges go by `updated_at`. `Rest`
stands for the handler's way to any state a deletion accepts; what it does on the way
is `HostedRun`. `MoveOn` is the handler that goes on after `CANCELLED`, the finding
of `HostedRun`.

### Runs

| Run | Instance | What it shows |
|---|---|---|
| `account_safety` | one run, one request that connects a key, one deletion at a time and two in all, one run a day; 2.4 million states | the type invariant, `StaleRequestsFenced`, `DeletionIsComplete` |

* `StaleRequestsFenced`: what is in the index was admitted after the last complete
  deletion, wherever its request waited.
* `DeletionIsComplete`: when the index is dropped, the key is gone and so is every run
  of the index, but for those that were created after the fence rose (see below).

One run is enough here because runs meet only in the lease, which `vault_safety` checks
with three, and in the list, whose members a deletion treats alike. `IndexLimit` stands for
the 200 of `listRuns`; the run never reaches it, and the guard is there because a full
list ends a deletion with its locks set. `MaxGenerations` 2 lets a request, or a key,
meet two deletions: one that dies or is refused and one that completes, or two that
complete with the request between.

Deadlock is checked in both models: `disconnect()`, for one, is always possible.

### Theorems (`AccountDeletionProofs`)

`ImplementsVault`: every behaviour of `AccountDeletion` is one of `VaultSpec`, because
each of its steps is a call of the vault or leaves the vault alone. The one thing that
must be shown for it is that a request hands the vault a generation the vault has had
(`FenceType`). So the vault's theorems hold here; `AccountKeysFenced` states the one
that deletion is about. `IndexFenced`: `StaleRequestsFenced` for any number of runs,
requests and deletions that overlap; its invariant `IndexInv` adds that no request is
admitted ahead of the registry's generation.

`AccountTypeCorrect` is `TypeOK`: `Types` joins the fences, the index and the types of
what is under way, and is inductive as it stands.

`CompleteDeletion`: `DeletionIsComplete`, for any number of runs, requests and deletions
of which no two overlap (`OneAtATime`: `Deletions` has one slot at most). With two slots
the property does not hold (see below): the end of one deletion takes the lock from the
other, and a key is stored before the other's index goes. Its invariant follows a
deletion from step to step, whatever it has died of before:

* `LocksHeld`: the registry is locked while it is under way, the vault until its purge;
* `StoresBehind`, `NoKeyAgain`: a request that connects a key and has passed the registry
  was admitted to the vault under a generation that the vault's lock has left behind, and
  so cannot store the key once the purge has removed it. The purge lowers the vault's
  fence before the registry's, and it is the generation that keeps the key out;
* `RunsInHand`: a run of the index that exists, and was not created behind the fence, is
  one that the deletion has yet to view or to purge.

### Left out, and taken together

* A maintenance repair creates its run behind the same fence with the same cleanup
  (`maintenance-registry.ts:1018-1032`); it and the backfill of the index from findings
  are in `MaintenanceRegistry`.
* `readAccountData` asks for the list and for its length at the same time; a difference
  between them ends a deletion like a call that fails.
* Repositories, findings and marketplace rows go with the index.
* The check that the account is empty after `delete_account_data`
  (`account-controls.ts`) reads only.

### Read in the code, without a run

* A request that has recorded its run when a deletion begins creates the run after the
  deletion has seen it missing. Its recheck refuses it, but its cleanup asks `purge()`
  to delete a `RECEIVED` run, which throws; that is ignored, and the index entry is
  dropped. The run stays, with the owner's sealed GitHub token, where no deletion
  finds it (`server.ts:479-486`; `docs/PRIVACY.md:72`). `DeletionIsComplete` leaves
  such a run out.
* Deletions that overlap share one lock: the refusal or the end of one takes it from the
  other (`account-data.ts:78-79`), although the page says that "Account deletion remains
  locked" (`credential-settings.ts:277`).
* `acquire` does not look at the key or the fence again after unsealing
  (`credential-vault.ts:242-273`): a run may be granted a key that `disconnect()` has just
  removed, or write a quota row behind a purge.
* `status()` ignores a lease taken before midnight (`credential-vault.ts:152-155`) and
  `purgeAccount` does not: a deletion that overlaps one fails after it has purged the runs.
* The path of an interrupted action (`coordinator.ts:498-506`) returns without releasing
  the lease: until it lapses, deletion is refused and names a run that is over.

## LocalVerification and LocalPublication

### State and actions

| Variable | In the code |
|---|---|
| `run` | per run: its state, the head and `updated_at` of its event chain (as numbers), the publication subject, the replay table, and the answer that settled it |
| `call` | the processes of `verify-response`, with what each has read |
| `command` | per run: how far the command that started it (`go`, `maintenance-repair`) has come, how it publishes, and whether it repairs the finding |
| `finding` | the row of one labelled issue in `donestate_maintenance_findings` |
| `checkout`, `edits`, `staged`, `branches`, `remote` | the git work tree that the commands share: the branch it stands on, uncommitted edits, the index, local and published branches. A commit is the set of the runs whose edits it holds |

`LocalVerification` has one action per store transaction: `BeginHandoff` (`getRun` and
`getPublicationSubject`), `Validate` (`verifyEventChain`, in a transaction of its own,
and the pure checks), `Save` (`saveVerificationResponse`), `Attest` (version 1) and
`DeleteRun`. `LateWorker` is what workers that lost their lease, or whose run went on
without them, may do to a run that is over: `Reopen` it to `RECONCILING` from whatever
state it is in, write the snapshot again (`SnapshotAgain`, which asks for no state), hand
it over once more (`Reseal`), or `Block` it (a mark, a gate, the operator). None of these
asks for a lease or for what was judged; who still may is `LocalRun`'s question, and here
they may always. `LocalPublication` adds the commands, one action per git command, since
nothing locks the work tree between two of them, and what comes after the run: the
subject is recorded (`RecordSubject`) and the finding marked (`MarkRepairQueued`), each
of which may throw (`CommandThrows`) or never come (`CommandDies`).

### Runs

`publication_safety`: two runs, of which `go` may start one without a publication or
with a branch, both can be repairs of the finding (with a pull request), one is
verified, four events, and somebody switches the branch of the
work tree once, at any moment (`Switch`, counted by `switches` up to `MaxSwitches`; one
is enough for a push that was made while the work tree stood elsewhere to be recorded
from the run's own branch).

* `SubjectIsPublished`: the subject of a pull request that a verifier is given is what
  the run's branch has at the remote, wherever another command or a person has moved
  the work tree between the push and the record.
* `FindingNamesOneRepair`: a finding that is queued keeps naming the run that queued it.

`publication_judgement`: one run, two processes that verify it at once, late workers at
any moment, and seven events, enough for a sealing, a subject, an answer, a second sealing
and answer, and one more on either side. The work tree plays no part in it.

* `ImplementsJudgement`: the store implements `Judgement` over both versions of the
  contract, with every run one that can be reopened. So a run may be judged more than
  once, as the code has it; but no response that was answered settles it, before or after
  a reopening, and while it stays sealed it is judged at most once.

Two runs give each command a rival. `Judged` is the first run only: verification looks at
one run at a time. `HasRoom` keeps the last event for a verdict. Deadlock is not checked:
commands end.

The refinement maps `answered` to the replay table and `verdict` to the answer that
settled the run, with the evidence being the run itself (its snapshot is sealed before
it awaits verification, and `LocalRun` is about that). A run that is reconciled again or
blocked has no evidence until it is sealed anew; its replay table stays, but an
attestation of version 1 is kept nowhere (`Unnamed`). A second subject in the same
wait is not excluded by `Judgement`; that the subject is published is.

### Theorems (`LocalPublicationProofs`)

`TypeCorrect`, `SubjectPublished`, `FindingKept` and `ImplementsTheJudgement`, for any
runs, processes, events and switches of the branch. Beside the types (`RunOK`, `CallOK`,
`WorkOK`), the invariant says that a run has a subject only once it was handed over and a
verdict only when it is settled; that the work tree stands on a branch that exists, as git
sees to; that a command at its record has something to record; and that a run whose
subject is recorded pushes no more. Without the last, `SubjectIsPublished` is not
inductive: another push would leave the subject behind.

The refinement is proved row by row. A step changes the row of one run, so the proof
goes by what may happen to a row (an answer is recorded, an attestation, a subject, a
deletion, a step of a late worker, or nothing that the judgement sees), and each is a step of `Judgement` for that
run or a stutter. The one that needs the invariant is an answer: that it was not given
before is the replay table, that no verdict stood is the state of the row.

### Left out, and taken together

* The handoff document is any that the store could have given out; the model takes the
  one that the response is compared with as answered by somebody.
* A death between two git commands is a death at `record` or `mark`, since `resume`
  carries the run on to there.
* Retries of a run that is `BLOCKED_CAPABILITY`, parsing, output, `init` and `demo`.
  The pull request is opened with the push.

### Read in the code, without a run

* A run's branch starts at whatever the work tree stands on (`cli.ts:360`), which
  another command may have left on its own branch: the published branch then holds two
  runs' commits, although `README.md:89` says that publication refuses a dirty
  workspace (a foreign branch is clean).
* For a branch without a pull request `recordLocalPublicationSubject` asks the work tree
  only (`cli.ts:184-201`). When the work tree stood elsewhere during the push and is
  back, or somebody has committed since, the recorded subject is not what was
  published, although the command itself calls it the "exact local publication" (197).
* `saveVerificationResponse` compares state, nonce and digest and not the head of the
  chain (`store.ts:391`): a response that was validated before another was recorded as
  `uncertain` settles the run, although `docs/CLI-REFERENCE.md:117` says that it binds
  to the current subject.

## MaintenanceRegistry

### State and actions

| Variable | In the code |
|---|---|
| `lock` (of `Fence`) | `account_controls` |
| `policy`, `byUpdate` | `selected_repositories`, and their order by `updated_at`, which the sweep goes by |
| `finding`, `index` | `findings`, `account_runs` |
| `selecting` | the `selectRepository()` that waits for GitHub, with the generation it was admitted under |
| `repair` | per run id, the `startRepair()` that drew it: its step, its finding, its generation |
| `retiring` | per run, the `retireVerifiedMergedMaintenanceBranch()` under way |
| `sweep` | `scheduledSweep()` as a value: its step, the repositories left, the candidate, the count of repairs, the run it waits for |
| `runState` | the coordinator's row, in six states |
| `branches`, `pull`, `labelled` | GitHub: a run's branch, its pull request with whether its head is the one that the run published, the labelled open issues |
| `claims`, `selectedUnder`, `purged` | observations |

Each action goes from one wait (for GitHub, a run, or the fence of the shared object)
to the next. `startRepair()` is `AskRepair` (checks, then the token and the base head),
`Claim` (the `UPDATE ... WHERE state = 'OPEN'` with the fence), `RecordRun`, and
`Launch`, `LaunchRefused` or `LaunchFails` (creation and start of the run with the catch
block). Retirement is `Retires` (the checks), `DeleteBranch`, `CloseFinding`, or
`RetirementFails` at any point. The sweep calls both, and waits for them while owner and
webhooks do the same. `Restart` drops every handler wherever it waits. Publication,
decision and merge of a run belong to others and may come at any time.

### Runs

| Run | Instance |
|---|---|
| `registry_safety` | one repository, one issue, two run ids, one fault, one deletion |
| `registry_progress` | two repositories of which the first gives no token, one issue of the second, one run id, one fault, no deletion |

* `OneRunPerFinding`: however the owner, the sweep and webhooks race, one run claims
  a finding while it is in the ledger.
* `StaleWritesFenced`: nothing admitted before the last purge is in the tables.
* `RetiresOnlyVerifiedMerged`: a branch disappears, and its finding closes, only when
  its run is verified and its pull request merged at the head that was verified.
* `LabelledIssueFound`: a labelled issue in a scheduled repository becomes a finding
  without its webhook, although the repository before it throws in every sweep.
* `MergedBranchRetired`: the branch of merged verified work goes and its finding
  closes, through a restart or a failure at any wait.

Two run ids give two repairs a race for one finding, with a third caller (the sweep)
that may be given the answer of either. One fault is spent at any wait of any handler;
a second at another only removes handlers that a restart removes as well. One deletion
raises the fence in front of every wait; with the purge and what is selected after it,
old and new generations meet. The proofs hold for any number of all of these.

Fairness (`registry_progress`). Weak fairness of the sweep's steps (the cron trigger of
`wrangler` fires for ever, and each call of the sweep returns or throws) and of the
steps of a repair and a retirement that are under way. Nothing is assumed of webhooks,
of the owner, of GitHub's users or of the runs.

The sweep reads the twenty repositories that were updated longest ago and does not
update them, so a twenty-first would wait for ever: the liveness properties are
checked where the scheduled repositories are at most `MaxScheduled`.

Deadlock is checked: an owner may always list the runs.

### Theorems (`MaintenanceRegistryProofs`)

`OneRunOwnsAFinding`, `StaleWritesAreFenced`, `OnlyVerifiedMergedRetired` and
`TypeCorrect`, for any sets and bounds, from the named assumptions. A step of `Next` is
first shown to be a `CoreStep` (`NextIsCore`): what it does to the tables, the repairs and
the runs, whatever the sweep does with it. This keeps the sweep out of the first three.
The invariant `Inv` adds

* `LedgerSound`: a finding names a run exactly when it was claimed, and by that run;
* `FenceSound`: a run that is on record was admitted under a generation that is not
  older than the last purge, and so was every selection;
* `RunsSound`: a run exists only after its launch, a retirement that was begun is
  still due, and one that is to be noted has no branch left.

The last is where the waits between the checks of a retirement and its deletion matter:
they are harmless because a verified run and a merged pull request do not change any
more.

`TypeCorrect` adds three parts. `Bounded`: every generation was once the lock's.
`Chosen`: what a repository is selected with was allowed when it was asked for. `Sound`,
of the sweep as a value: it is under way exactly as long as it has a repository left, and
while it asks for a repair its limit is not reached. The last is what keeps the count
within `MaxRepairs`, since the code compares before the call (`MayRepair`) and counts after
it (`Queued`), with waits between them.

Only model-checked: `LabelledIssueFound` and `MergedBranchRetired` (liveness).

### Left out, and taken together

* The configuration of the GitHub app, and the counters of the daily funnel.
* A webhook delivery is handled once or, when the object stops after it was recorded,
  never. GitHub's redelivery is a duplicate then, and the sweep is what makes up for it.
* `discover()`'s two questions to the fence are one action, as of the end.
* `Merge` stands for a push to the run's branch that may come before it.
* An account's runs are purged before its tables: `AccountDeletion`.

### Read in the code, without a run

* When the launch of a claimed run fails, the finding keeps the id of a run that does
  not exist (`maintenance-registry.ts:1025`): it stays `REPAIR_QUEUED`, no sweep
  repairs it again, and `listRuns` takes the id up again (569).
* Discovery only adds: an issue that loses its label or is closed is still repaired,
  and a finding that was closed is not opened again when its issue is (926).
* `deleteBranchRef` names no commit (`github.ts:167`): what was pushed after the merge
  goes with the branch.
* A repository that is removed and selected again while a repair runs gets a second run
  for the same issue (508), since its finding is a new one.

## Marketplace

`entitlement`, `delivered` and `receipts` are the three tables for one account;
`handler` is where each webhook request is (`ingestMarketplaceWebhook`, then resolving
the failures of its delivery, or recording one); `pending` and `callback` are the
installation's one-time states and the browsers that come back with one. `sent` fixes
what GitHub sends in a behaviour, which then arrives late, twice or not at all.
`since` and `failing` are observations. `receipts` is a function from rows (`Slots`): the
log drops the rows that are too old and then, by `ORDER BY observed_at`, the oldest beyond
its limit, and of those of one time any may be the one, the new one too.

`marketplace_safety` has two deliveries (a change that is announced for the next day, and
a cancellation that takes effect before it), two requests at once, one installation,
whose purchase is read as of the day it comes back, and three days, with a log of two
receipts that are reported (`Day`) and kept (`Retention`) for one: they age, and they
crowd each other out.

* `EntitlementIsNewest`: the row is that of the newest effective date recorded since
  the last purge, and of two of one date that of the first arrival that came last.

* `FailureReported`: while a delivery has failed and has not been recorded since, the
  log reports it for a day, or the log is full and every receipt in it is at least as new
  as the failure (`CrowdedOut`). A log that drops any but an oldest receipt violates it.

Both are theorems of `MarketplaceProofs`, with `TypeCorrect`, for any deliveries,
histories, requests, times and limits. `EntitlementIsNewest` is inductive given the types.
`FailureReported` is not: a log that is full now may have room later, when old receipts go.
`FailureInv` says what the log owes to each failure whether it is full or not (`Noted`: a
receipt of the delivery that is no older than the failure, or a full log of receipts that
are no older), and the step that matters is that of a receipt which pushes out another:
the one that goes is an oldest, so what stays is no older than the failure either. It
needs that no receipt is of the future (`LogOK`), that receipts are kept as long as they
are reported (`TimesAssumption`), and that only a delivery that has arrived is resolved.

Receipts of the configuration have no id, and resolved ones keep only their age. Any
deployment may lack the secret. `purgeAccount` here does not ask the fence.

Read in the code, without a run: the installation records the purchase as of the
present time (`github-marketplace.ts:158`), so that it overwrites a cancellation that
GitHub dated earlier although it came after the purchase (`docs/PROJECT-STATE.md:36`);
the calls that record purchases do not ask the account's fence, so that a webhook on
its way brings the row of a purged account back (`docs/PRIVACY.md:72`).

## Judgement

What is promised wherever work is handed to a verifier: a verdict is about the evidence
that is presented and rests on a handoff that was not answered before, an answer that
settles nothing leaves the work waiting, a verdict is the last until the work is
reopened, and work that is withdrawn is not judged, nor presented again. It has four
variables and four actions, and two constants that say which works can be reopened and
what is not remembered of them then. A release cannot be reopened: its one decision is the
last. Every local run can (see `LateWorker`). `LocalPublication`
and `ReleaseController` each implement it under a refinement mapping
(`ImplementsJudgement`), checked by TLC and proved as a theorem of each. In the hosted program the same promise is
`VerifiedOnCurrentHandoff`.

## ReleaseController

### State and actions

| Variable | In the code |
|---|---|
| `env` | the configuration that the worker is deployed with: target, trust pins, workflow, and the run that a recovery may replace |
| `record` | what is stored under `"run"` |
| `waiting` | the requests that wait for the handoff key to sign, with what each will write |
| `executed` | per GitHub run, when AgentProof carried the release out for it |
| `mayExecute` | the runs that were told to: an observation |
| `clock` | in units of five minutes, at which the limits of the code are 1, 4, 3 and 1 |

`Start` and `Settle` act at once. `recover`, `receipt` and `refresh` check in one
transaction, wait for a signature, and commit in another that repeats some of the
checks: `Begin...` and `Finish...`. A request uses the time of its beginning to the
end. `Deploy` changes the configuration and takes the waiting requests with it, `Drop`
is a request that fails or dies. `Execute` is not constrained: a run executes whether
it was told to or not, early or late, once. What AgentProof, the reservation authority
and the verifier have signed is any of `Signed`, `SignedReservations` and
`SignedDecisions`. A request that repeats what is recorded changes nothing and is a
stutter.

### Run

`release_safety`: three GitHub runs (one that a reviewed recovery replaces, its
replacement, and another run of the same workflow), three deployments (plain, with other
keys, and the recovery), two requests that wait at once, time up to 3 with a receipt
window of 2 and the other windows at 1. So every window closes while something waits,
and the last handoff is shortened.

* `ReceiptOfCurrentAuthority`: the receipt that counts is of the run of record and of an
  execution that began no earlier than that run's authority was committed; if the run took
  over, its receipt does not count before its grant is on record; whoever may execute
  is on record.
* `OneLiveHandoff`: of all handoffs only the last can be live.
* `HistoryKept`: the history only grows; receipt, decision, target and keys stay.
* `ImplementsJudgement`.

Deadlock is checked: another deployment is always possible.

### Theorems (`ReleaseControllerProofs`)

All five properties, for any runs, keys, deployments, requests, windows and times:
`TypeCorrect`, `HistoryIsKept`, `CurrentAuthorityOnly`, `LastHandoffOnly`,
`ImplementsTheJudgement`.

`TypeOK` is inductive as it stands and carries `HistoryKept` and the refinement. The
other two need what waits:

* `WaitersBound`: who waits is still the run of record. It holds because the
  run changes only by a recovery, a recovery needs another deployment, and that takes
  the waiting requests with it. So the repeated check of `bound()` after the wait stops
  nothing in this model; `StillAuthorised` does;
* `ReceiptsAuthorised`: a receipt that waits for its handoff is of an execution after the
  commit of its authority, and its grant is on record;
* `TakenOverByReservation`: a run that took over did so with a reservation;
* `WaitersInOrder`: what a request waits to append was issued when the handoff that it
  replaces had expired.

### Left out

Shapes, digests and signatures, which are represented by the value signed; requests
that name another run or transaction than the record's, which are refused; the log.
A release whose handoff ran out together with its receipt's window awaits its
verification for good; the code means it to.

### Read in the code, without a run

* A run that takes over may execute after the commit of the recovery and before its grant
  is signed, and its receipt is accepted once the grant is on record: a receipt says when
  the release was attempted and has no field for the grant (`release-v1-evidence.ts:66`).
  `services/release-controller/README.md:38` leaves it to AgentProof to wait for the grant,
  whose digest, it says, "the signed completion records".

## Not modelled

Sign-in and sessions belong to an external library. The pages, the MCP routing, input
validation and the network clients hold no state; where another part relies on them, its
actions choose among their outcomes. `verification-contract.ts` and
`private-verification.ts` are pure checks of a response, whose result is the guard of
`Submit` in `HostedRun`. Scripts, schemas, governance records and the acceptance workers
are tooling.

Hazards that no property covers: a container or a lease that outlives its run until it
lapses (`coordinator.ts:214`), the limited number of times that the platform retries a
throwing alarm (`coordinator.ts:472`), and the three of the registry's that are
described above (`github.ts:167`, `maintenance-registry.ts:926`, `1157`).
