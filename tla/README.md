# Formal models of the hyperswitch core (TLA+)

This directory holds TLA+ models of the parts of hyperswitch that are in
`src/`, the TLC configurations that model-check them, and TLAPS proofs of
their main safety properties. Every action is translated from the Rust source.
`PROJECT.json` maps each definition to the lines it models and lists the runs,
mutants, findings, hazards and theorems.

## 1. The system and its parts

`spec.md` describes an **operation pipeline**. Each flow that mutates a payment
runs three stages:

1. `validate_request` (pure);
2. `get_trackers`, which loads the rows, applies the flow's status guard and
   assembles the working data;
3. `update_trackers`, which computes the transition and writes the rows.

Around the pipeline sit:

- the **status state machine** of payment intents and attempts;
- **storage queries**, the only place where concurrent requests meet;
- the **scheduler**, which re-enters flows from background jobs and retries
  them.

The six source files cover these parts:

| Part | Source | Module | Status |
|---|---|---|---|
| Cancel operation (the pipeline's representative flow) | `core/payments/operations/payment_cancel.rs` | `PaymentCancel`, `MCPaymentCancel`, `PaymentCancelProofs` | modelled |
| Status changes made by the other payment flows (confirm, capture, sync) | not in `src/` | `PaymentCancel` (the `OtherFlow*` environment) | partly, from the design |
| Attach-payout-account scheduler job and the consumer's retry policy | `workflows/attach_payout_account_workflow.rs` | `AttachPayoutAccountWorkflow` | modelled; the consumer from the design |
| Payout-attempt storage queries | `diesel_models/src/query/payout_attempt.rs` | `PayoutAttemptStore` | modelled |
| File create, delete and retrieve | `core/files.rs` | `FilesCore` | modelled; the helpers' effects assumed |
| Parent payment-method token in redis | `routes/payment_methods.rs` (`ParentPaymentMethodToken`) | `PaymentMethodToken` | partly |
| Payment-method HTTP routes | `routes/payment_methods.rs` | none | not modelled |
| kgraph evaluation benchmark | `kgraph_utils/benches/evaluation.rs` | none | not modelled |

How the parts interact:

- A cancel request and the other payment flows run as independent tasks. They
  meet only in the `payment_intent` and `payment_attempt` rows.
- A scheduler job re-enters the payout pipeline (`payouts_core`). That
  pipeline ends in the payout-attempt queries.
- The payout list calls `get_filters_for_payouts` while the retry flow adds
  attempts.
- File requests meet in the `file_metadata` table and the provider's objects.
- Payment flows store and delete the parent token key as the payment's status
  changes.

Concurrency is never protected by locks. Requests interleave at every
`.await`. Every module therefore makes each awaited storage call a step of its
own, and each step may fail.

## 2. Modules and how they correspond to the code

### PaymentCancel (payment_cancel.rs)

- **State.** `intentStatus` and `attemptStatus` are one row each per payment;
  the model keeps only the active attempt. `cancellationReason` is the
  attempt's reason. `credsConfig` is the config store's creds overrides.
  `profileOk` is whether the business profile lookup succeeds. Per request
  task it keeps `pc`, `req` and `err`. `audit` is the emitted audit events.
  `Owner` maps each payment to its merchant, so that payment ids can collide
  across merchants.
- **GetTrackers** is one step from the intent lookup to the assembled
  `PaymentData` (lines 40–229). Nothing in between is visible to another
  task. It either:
  - fails with PaymentNotFound (lookup scoped by merchant, `FindIntent`);
  - fails with OperationNotAllowed (the guard set `CancelNotAllowed`);
  - fails in an attempt, address or currency lookup;
  - fails when inserting the creds override;
  - stores the creds override (`StoreCreds`) and then fails with
    ProfileNotFound;
  - or reaches `tracked`.

  The request records the intent status it read (`seen`).
- **UpdateIntent** and **UpdateAttempt** are the two awaited writes of
  `update_trackers` (lines 252–299). The transition is computed from `seen`,
  not from the current row:
  - if `seen` is not RequiresCapture, the intent becomes Cancelled and then
    the attempt becomes Voided;
  - otherwise only the attempt becomes VoidInitiated.

  Either write may fail. No rollback follows. The audit event goes with the
  attempt write.
- **OtherFlowStep** applies, atomically, the status pairs that the confirm,
  capture and sync flows produce. They include the connector's confirmation
  of a void (RequiresCapture/VoidInitiated → Cancelled/Voided). This is the
  environment the cancels race with. It is modelled from `spec.md` §4.3,
  because that code is not in `src/`.

### AttachPayoutAccountWorkflow (attach_payout_account_workflow.rs)

- **State.** Each job has its `status`, its `retryCount` and the kind of
  tracking data it holds (`payload`: valid, missing merchant_id, or
  unparsable). `runs` counts the job's executions. `running` is the set of
  jobs a consumer task is executing.
- **ExecuteOk** and **ExecuteErr** model `execute_workflow` (lines 21–68):
  - `ExecuteOk`: every stage succeeded and the function returns `Ok(())`
    (line 67). Nothing in it writes the `process_tracker` row, so the job
    stays Processing.
  - `ExecuteErr`: a stage returned its error with `?`, and `error_handler`
    (70–77) hands every error to `consumer_error_handler`.
- **Pick** and **ConsumerErrorHandler** (retry while `retryCount <
  MaxRetries`, then Failed) come from the design, because the consumer is not
  in `src/`. No property of the project rests on the handler's accounting
  alone. Both runs of this module are violation runs, and each one turns on
  what `execute_workflow` does.

### PayoutAttemptStore (payout_attempt.rs)

- **State.** `payout` rows (`attempt_count`, status) and `attempt` rows keyed
  by ⟨merchant, payout id, attempt number⟩.
- **Attempt ids.** The id is the string `"{payout_id}_{attempt_count}"`. The
  count contains no `_`, so the formatting is injective and the model uses
  the pair.
- **Callers.**
  - `UpdateWithAttemptId`: on `NoFieldsToUpdate` it returns `Ok(self)`, the
    caller's copy.
  - `UpdateByPayoutId`: updates every row of the payout and returns an
    arbitrary one, or NotFound.
  - `UpdateByAttemptId` and `FindAttempt`.
  - `LoadPayouts` → `FilterConnector` → `FilterPayoutColumns`, the steps of
    `get_filters_for_payouts`:
    - the status facet is computed from the loaded list;
    - the connector facet comes from the attempts named by the loaded
      `attempt_count`;
    - the currency and payout-type queries are kept only as steps that may
      fail, because no property looks at their values.
- **NewAttempt** is the payout retry flow. Only its `PayoutAttemptNew::insert`
  (lines 22–26) is in `src/`. Three parts come from the design: the
  `attempt_count` bump, the `MaxAttempts` bound, and taking the two writes as
  one step.
- **Apply** is `PayoutAttemptUpdateInternal::from`. It is not in `src/` and is
  modelled from the design: a status update sets the status column.

### FilesCore (core/files.rs)

- **State.** `meta` (the file_metadata rows), `blob` (the provider's objects)
  and `fileOwner` (a history variable).
- **Create** is `CreateInsert` (validate, generate a fresh id, insert the row
  as not available) → `CreateUpload` → `CreateMark` (available).
- **Delete** is `DeleteProvider` (delete_file_using_file_id) → `DeleteMeta`.
- **Retrieve** is `RetrieveMeta` → `RetrieveData`.
- **Helpers.** The helpers in `core/files/helpers.rs` are not in the sources.
  Upload puts the object. Delete needs the caller's row with a provider id
  and removes the object. Retrieve re-reads the caller's row and fetches the
  object. A client may name any file id, including another merchant's.

### PaymentMethodToken (payment_methods.rs, ParentPaymentMethodToken)

- **Key.** `CreateKeyForToken` is the `format!` of the key. Strings are
  modelled as their `_`-separated words, and `FlattenSeq` concatenates them.
- **Operations.**
  - `Insert`: a set with expiry `now + fulfillment_time`, or a failure with
    no write.
  - `Delete`: guarded by `ShouldDeletePaymentMethodToken`. Redis errors are
    swallowed.
- **Environment.** The payment flows (`StatusChange`) and redis expiry
  (`Tick`, one clock unit per tick) are the environment.

## 3. Runs

Each run has a `.cfg`. "pass" runs must finish without error. "violation" runs
check one claim of the design or of a code comment that the code does not keep.

| Run (cfg) | Checks | Result |
|---|---|---|
| `MCPaymentCancel.cfg` | CancelledIntentHasVoidAttempt, RejectedCancelWritesNothing | pass (≈335k states) |
| `MCPaymentCancelStaleStatus.cfg` | TerminalIntentStatusStable | violation: a cancel that read RequiresConfirmation writes Cancelled over a Succeeded intent |
| `MCPaymentCancelVoidOverwrite.cfg` | CancelledIntentAttemptVoided | violation: two cancels move the attempt from Voided back to VoidInitiated under a Cancelled intent |
| `MCPaymentCancelGetTrackerWrite.cfg` | GetTrackerFailureWritesNothing | violation: the creds override is written, then ProfileNotFound |
| `MCPaymentCancelRetryPartial.cfg` | PartialCancelRetryable | violation: after a cancel failed between its two writes, a retried cancel is refused by the status guard |
| `AttachPayoutAccountWorkflow.cfg` | JobsTerminate | violation: a job whose run succeeded stays Processing for ever |
| `AttachPayoutAccountWorkflowParse.cfg` | MalformedPayloadRunsOnce | violation: an unparsable payload is retried |
| `FilesCore.cfg` | ProviderObjectHasMetadata, AvailableFileHasObject | pass (≈23k states) |
| `PayoutAttemptStore.cfg` | TypeOK | pass (≈700k states) |
| `PayoutAttemptStoreUpdateByPayout.cfg` | UpdateWritesOneAttempt | violation: every attempt of a retried payout is rewritten |
| `PaymentMethodToken.cfg` | TypeOK, KeyInjective, StaleTokenBounded | pass (≈180k states) |
| `PaymentMethodTokenReview.cfg` | ReviewTokenKept | violation: the token expires during merchant review |

Two properties carry a named exception, and it covers exactly one hazard:

- `CancelledIntentHasVoidAttempt` exempts a cancel that stopped between its two
  writes. The design calls that partial write an accepted trade-off.
  `PartialCancelRetryable` checks what the design says follows from it: that a
  retry can recover.
- `AvailableFileHasObject` exempts a delete that stopped between its two
  deletes.

Neither property catches the hazard it exempts.

Every property of a passing run has a mutant in `PROJECT.json`: a plausible
bug in a mapped definition that makes TLC report the property violated.

### Bounds and why they suffice

Every hazard needs a certain number of actors, and the bounds give exactly
that many:

| Module | Bounds | What they are enough for |
|---|---|---|
| `PaymentCancel` | 2 merchants, 2 payments (one per merchant), 2 request tasks, 1 reason | Two cancels can race on one payment, or one can fail half way and the other retry. A task can name the other merchant's payment. |
| `AttachPayoutAccountWorkflow` | 2 jobs, a budget of 2 | A job can succeed on its first run or after a requeue, and an unparsable one can be requeued. |
| `FilesCore` | 2 merchants, 2 file ids, 3 requests | A create followed by a racing delete and retrieve. |
| `PayoutAttemptStore` | 2 merchants sharing one payout id, 2 attempts, 2 connectors, 2 callers | A payout id collision, a retry and a concurrent list. |
| `PaymentMethodToken` | 2 payments, TTL 2, clock 4 | A key can expire before or after its payment turns final. Random token words overlap with payment-method words. |

### Fairness

- Only the scheduler model has fairness: weak fairness on picking a due job
  and on running a picked job. The consumer loop polls the queue and runs
  what it picks. Whether a run succeeds is left nondeterministic.
- The request-driven models assume no fairness, because a client may never
  send its next request.
- The workflow runs set `CHECK_DEADLOCK FALSE`. When no job is due, the
  consumer idles. This includes a job left Processing, which is the stop
  `JobsTerminate` is about.
- The other models add a `Finished` stutter for the state where every
  request has returned.

## 4. What is proved (TLAPS)

Proved for every value of the constants, under the ASSUMEs of `PaymentCancel`
(`Owner ∈ [Payments → Merchants]`, and `None` outside the other sets):

| Module | Theorem | Statement |
|---|---|---|
| `PaymentCancelProofs` | `TypeCorrect` | `Spec => []TypeOK` |
| `PaymentCancelProofs` | `CancelledIntentSafety` | `Spec => []CancelledIntentHasVoidAttempt` |
| `PaymentCancelProofs` | `RejectedCancelSafety` | `Spec => RejectedCancelWritesNothing` |

The inductive invariant is `IInv == TypeOK /\ RequestRecorded /\
CancelledIntentHasVoidAttempt`.

- `TypeOK` alone is not inductive. `UpdateAttempt` writes at `req[r].payment`,
  which must be a real payment, and `RequestRecorded` supplies this.
- The proof of `CancelledIntentHasVoidAttempt` takes one case per action:
  - `UpdateIntent` makes the task partially cancelled;
  - `UpdateAttempt` writes Voided or VoidInitiated;
  - a task that fails stays partially cancelled;
  - the other flows never leave Cancelled.
- The action property follows from a lemma: a step that rejects a task with
  PaymentNotFound or OperationNotAllowed leaves `storage` unchanged.

Only model-checked:

- **Liveness** (`JobsTerminate`, a violation run) and anything with
  `ENABLED`. These are beyond the prover.
- **The safety properties of FilesCore, PayoutAttemptStore and
  PaymentMethodToken.** They are not yet proved.
- **KeyInjective over bounded inputs.** Injectivity for all word sequences
  would need induction over data.

## 5. Findings

Each finding is a divergence between the code and `spec.md` or a code comment,
shown by a violation run. `PROJECT.json` has the exact lines.

- **A cancel overwrites a Succeeded intent.** `update_trackers` writes the
  intent keyed by id alone, using a status read several awaits earlier. The
  design claims predicate-qualified, monotonic status writes.
- **Two cancels leave a Cancelled intent with a VoidInitiated attempt.** One
  cancel read RequiresCapture and the other did not. The later write turns
  the attempt from Voided back to VoidInitiated.
- **`get_trackers` writes the creds override and then may fail.** The design
  says GetTracker failures write nothing.
- **A half-done cancel cannot be retried (a gap in the design).** The attempt
  write fails after the intent is already Cancelled. A later cancel then fails
  the status guard, because Cancelled is one of the disallowed statuses. The
  design says recovery from a partial write relies on retry or
  reconciliation. For cancel, retry cannot recover, and the reconciliation
  the design leans on is not specified.
- **A successful attach-payout-account job is never marked Finished.**
  `execute_workflow` returns `Ok(())` without writing the job. The design says
  a workflow marks its job Finished on success.
- **An unparsable job payload is retried.** The design says it is fatal.
- **`update_by_merchant_id_payout_id` rewrites every attempt of the payout.**
  It also returns an arbitrary one of them.
- **The token can expire during merchant review.** The comment says a
  payment in merchant review keeps its token, but the key's expiry can
  remove it first.

## 6. Not modelled, and the plan

- **The payment-method routes** (`save_payment_method_api`, `tokenize_*`,
  list and migrate handlers) are `server_wrap` wrappers around core
  functions that are not in `src/`. They have no state of their own.
  - `tokenize_card_using_pm_api` rejects non-`ExistingPaymentMethod` data
    before any I/O.
  - `migrate_payment_methods` looks each merchant connector account up once
    through a local cache. Modelling that cache as a pure function, checked
    against a reference, is planned.
- **The kgraph benchmark** only times the evaluation of a test graph.
- **The other payout-attempt finders** are read-only lookups that no modelled
  caller uses.
- **Hazards with no property yet** (see `PROJECT.json`):
  - the connector facet read from a loaded list;
  - the stale copy that `update_with_attempt_id` returns;
  - the half-done file delete;
  - a delete between a retrieve's two reads.

  Each one has a note giving the reason.
- **Next sittings:**
  - a refinement of `PaymentCancel` against an abstract cancel that performs
    the guard and the transition atomically, which shows which behaviours
    the non-atomic code adds;
  - proofs for FilesCore (`ProviderObjectHasMetadata`,
    `AvailableFileHasObject`);
  - attempt replacement in the cancel model.
