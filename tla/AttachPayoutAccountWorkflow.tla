-------------------- MODULE AttachPayoutAccountWorkflow --------------------
(***************************************************************************)
(* The scheduler's process-tracker jobs of the attach-payout-account kind:  *)
(* the consumer picks a due job, runs execute_workflow                     *)
(* (attach_payout_account_workflow.rs), and on an error hands the job to    *)
(* error_handler, i.e. consumer_error_handler.  The consumer itself and    *)
(* consumer_error_handler are not in this repository's sources: picking a  *)
(* job and the retry policy are modelled from the design (a bounded retry  *)
(* count, requeue until it is spent, then Failed).  On success the design  *)
(* has the workflow mark the job Finished; execute_workflow does not, so   *)
(* a successful run writes nothing to the job.                             *)
(***************************************************************************)
EXTENDS Naturals

CONSTANTS
    Jobs,           \* process_tracker rows of this workflow
    MaxRetries      \* the job kind's retry budget

JobStatus == {"Pending", "Processing", "Finished", "Failed"}

(* What the tracking data holds: a PayoutRetrieveRequest with a merchant   *)
(* id, one without (merchant_id is optional in the request), or data that *)
(* does not parse as a PayoutRetrieveRequest.                              *)
Payloads == {"valid", "noMerchant", "malformed"}

VARIABLES
    status,         \* process_tracker.status
    retryCount,     \* process_tracker.retry_count
    runs,           \* executions of execute_workflow so far (history)
    payload,        \* process_tracker.tracking_data, as it parses
    running         \* jobs a consumer task is executing now

vars == <<status, retryCount, runs, payload, running>>

Init ==
    /\ status = [j \in Jobs |-> "Pending"]
    /\ retryCount = [j \in Jobs |-> 0]
    /\ runs = [j \in Jobs |-> 0]
    /\ payload \in [Jobs -> Payloads]
    /\ running = {}

(* The consumer takes a job whose schedule time has come.                  *)
Pick(j) ==
    /\ status[j] = "Pending"
    /\ status' = [status EXCEPT ![j] = "Processing"]
    /\ running' = running \cup {j}
    /\ UNCHANGED <<retryCount, runs, payload>>

(* consumer_error_handler: requeue with one more retry while the budget    *)
(* lasts, else mark the job Failed for good.                               *)
ConsumerErrorHandler(j) ==
    IF retryCount[j] < MaxRetries
      THEN /\ status' = [status EXCEPT ![j] = "Pending"]
           /\ retryCount' = [retryCount EXCEPT ![j] = @ + 1]
      ELSE /\ status' = [status EXCEPT ![j] = "Failed"]
           /\ UNCHANGED retryCount

(* execute_workflow returns Ok(()) after payouts_core: no stage writes    *)
(* the process_tracker row, which stays Processing.                        *)
ExecuteOk(j) ==
    /\ j \in running
    /\ payload[j] = "valid"
    /\ running' = running \ {j}
    /\ runs' = [runs EXCEPT ![j] = @ + 1]
    /\ UNCHANGED <<status, retryCount, payload>>

(* execute_workflow returns the error of its first failing stage: parsing  *)
(* the tracking data, the required merchant_id, the merchant key store or  *)
(* account lookup, make_payout_data or payouts_core.  A valid payload can  *)
(* fail at any of the later stages, the others always fail.  The           *)
(* workflow's error_handler passes every error, whatever the stage, to     *)
(* consumer_error_handler.                                                 *)
ExecuteErr(j) ==
    /\ j \in running
    /\ ConsumerErrorHandler(j)
    /\ running' = running \ {j}
    /\ runs' = [runs EXCEPT ![j] = @ + 1]
    /\ UNCHANGED payload

Next ==
    \E j \in Jobs : Pick(j) \/ ExecuteOk(j) \/ ExecuteErr(j)

(* The consumer loop keeps polling: a due job is picked, a picked job is   *)
(* run.  Whether a run succeeds is not up to the scheduler.                *)
Fairness ==
    \A j \in Jobs : WF_vars(Pick(j)) /\ WF_vars(ExecuteOk(j) \/ ExecuteErr(j))

Spec == Init /\ [][Next]_vars /\ Fairness

-----------------------------------------------------------------------------
(***************************************************************************)
(* Properties.                                                             *)
(***************************************************************************)

(* Every job eventually reaches a terminal status, Finished or Failed:    *)
(* the design lists these as a job's terminal states and says a workflow   *)
(* marks its job Finished on success.                                      *)
JobsTerminate ==
    \A j \in Jobs : <>(status[j] \in {"Finished", "Failed"})

(* A job whose tracking data does not deserialize is run once and never    *)
(* retried (the design calls a deserialization failure fatal).             *)
MalformedPayloadRunsOnce ==
    \A j \in Jobs : payload[j] = "malformed" => runs[j] <= 1

=============================================================================
