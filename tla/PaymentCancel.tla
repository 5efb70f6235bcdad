--------------------------- MODULE PaymentCancel ---------------------------
(***************************************************************************)
(* The payment Cancel operation of the router (payment_cancel.rs) run by   *)
(* concurrent request tasks against the shared payment_intent and          *)
(* payment_attempt rows, next to the other payment flows that move the     *)
(* same rows.                                                              *)
(*                                                                         *)
(* A request task runs the operation pipeline: validate_request (the ids   *)
(* come from the request and the merchant context), get_trackers (one step *)
(* from the intent lookup to the assembled PaymentData), then              *)
(* update_trackers, whose two storage writes are separated by an await and *)
(* are therefore two steps.  Each payment is modelled with its active      *)
(* attempt only: payment_attempt rows are keyed here by the payment.       *)
(***************************************************************************)
EXTENDS FiniteSets

CONSTANTS
    Merchants,      \* merchant ids
    Payments,       \* payment ids (one active attempt each)
    Owner,          \* the merchant that owns each payment_intent row
    Reasons,        \* cancellation reasons a request may carry
    None,           \* an absent Option value
    Requests        \* concurrent request tasks, one cancel call each

ASSUME OwnerAssumption == Owner \in [Payments -> Merchants]
ASSUME NoneAssumption == None \notin Reasons \cup Merchants \cup Payments

IntentStatus ==
    {"RequiresConfirmation", "RequiresCapture", "RequiresMerchantAction",
     "Processing", "Succeeded", "Failed", "Cancelled"}

AttemptStatus ==
    {"Started", "Authorized", "Pending", "Charged", "Failure",
     "VoidInitiated", "Voided"}

(* The statuses get_trackers rejects with OperationNotAllowed.             *)
CancelNotAllowed ==
    {"Failed", "Succeeded", "Cancelled", "Processing", "RequiresMerchantAction"}

GetTrackerErrors ==
    {"PaymentNotFound", "OperationNotAllowed", "LookupFailed",
     "CredsInsertFailed", "ProfileNotFound"}

UpdateTrackerErrors == {"IntentUpdateFailed", "AttemptUpdateFailed"}

NoError == "none"

Phases == {"idle", "tracked", "intentUpdated", "done", "failed"}

(* What a request asked for and what get_trackers read: the status seen    *)
(* is the intent status the guard and the transition are computed from.   *)
RequestRec ==
    [merchant : Merchants, payment : Payments,
     reason : Reasons \cup {None}, seen : IntentStatus]

NoRequest == [merchant |-> None, payment |-> None,
              reason |-> None, seen |-> "none"]

VARIABLES
    intentStatus,        \* payment_intent.status
    attemptStatus,       \* payment_attempt.status of the active attempt
    cancellationReason,  \* payment_attempt.cancellation_reason
    credsConfig,         \* merchants with a connector-creds override stored
    profileOk,           \* payment_intent.profile_id set and the profile found
    pc,                  \* where each request task is
    req,                 \* each task's request and the status it read
    err,                 \* the error a failed task returned
    audit                \* PaymentCancelled audit events emitted

storage == <<intentStatus, attemptStatus, cancellationReason, credsConfig>>
vars == <<intentStatus, attemptStatus, cancellationReason, credsConfig,
          profileOk, pc, req, err, audit>>

TypeOK ==
    /\ intentStatus \in [Payments -> IntentStatus]
    /\ attemptStatus \in [Payments -> AttemptStatus]
    /\ cancellationReason \in [Payments -> Reasons \cup {None}]
    /\ credsConfig \subseteq Merchants
    /\ profileOk \in [Payments -> BOOLEAN]
    /\ pc \in [Requests -> Phases]
    /\ req \in [Requests -> RequestRec \cup {NoRequest}]
    /\ err \in [Requests -> GetTrackerErrors \cup UpdateTrackerErrors \cup {NoError}]
    /\ audit \subseteq [payment : Payments, reason : Reasons \cup {None}]

(* Rows a payment can be created in: a fresh payment awaiting confirm, or  *)
(* one held for merchant review.                                           *)
InitialRows ==
    {<<"RequiresConfirmation", "Started">>, <<"RequiresMerchantAction", "Pending">>}

Init ==
    /\ \E rows \in [Payments -> InitialRows] :
          /\ intentStatus = [p \in Payments |-> rows[p][1]]
          /\ attemptStatus = [p \in Payments |-> rows[p][2]]
    /\ cancellationReason = [p \in Payments |-> None]
    /\ credsConfig = {}
    /\ profileOk \in [Payments -> BOOLEAN]
    /\ pc = [r \in Requests |-> "idle"]
    /\ req = [r \in Requests |-> NoRequest]
    /\ err = [r \in Requests |-> NoError]
    /\ audit = {}

Fail(r, e) ==
    /\ pc' = [pc EXCEPT ![r] = "failed"]
    /\ err' = [err EXCEPT ![r] = e]

(* find_payment_intent_by_payment_id_merchant_id: the row is found only   *)
(* under the merchant that owns it.                                        *)
FindIntent(m, p) == Owner[p] = m

(* validate_payment_status_against_not_allowed_statuses for "cancel".      *)
CancelAllowed(s) == s \notin CancelNotAllowed

(* insert_merchant_connector_creds_to_config, run when the request carries *)
(* merchant_connector_details.                                             *)
StoreCreds(m, mcd) ==
    credsConfig' = IF mcd THEN credsConfig \cup {m} ELSE credsConfig

(***************************************************************************)
(* The outcomes of get_trackers for merchant m, payment p and a request    *)
(* with (mcd) or without connector details, in the code's order: intent   *)
(* lookup, status guard, then the attempt, address and currency lookups,   *)
(* the creds insert, and the profile lookup.  Nothing is written to the    *)
(* payment rows; the reason is only copied onto the in-memory attempt.     *)
(***************************************************************************)
RejectNotFound(r, m, p, mcd) ==
    /\ ~FindIntent(m, p)
    /\ Fail(r, "PaymentNotFound")
    /\ UNCHANGED credsConfig

(* Mutant: the creds override stored before the status guard.             *)
RejectStatusAfterCreds(r, m, p, mcd) ==
    /\ FindIntent(m, p)
    /\ ~CancelAllowed(intentStatus[p])
    /\ StoreCreds(m, mcd)
    /\ Fail(r, "OperationNotAllowed")

RejectStatus(r, m, p, mcd) ==
    /\ FindIntent(m, p)
    /\ ~CancelAllowed(intentStatus[p])
    /\ Fail(r, "OperationNotAllowed")
    /\ UNCHANGED credsConfig

LookupFails(r, m, p, mcd) ==
    /\ FindIntent(m, p) /\ CancelAllowed(intentStatus[p])
    /\ Fail(r, "LookupFailed")
    /\ UNCHANGED credsConfig

CredsInsertFails(r, m, p, mcd) ==
    /\ FindIntent(m, p) /\ CancelAllowed(intentStatus[p])
    /\ mcd
    /\ Fail(r, "CredsInsertFailed")
    /\ UNCHANGED credsConfig

TrackOrProfileFails(r, m, p, mcd) ==
    /\ FindIntent(m, p) /\ CancelAllowed(intentStatus[p])
    /\ StoreCreds(m, mcd)
    /\ IF profileOk[p]
         THEN /\ pc' = [pc EXCEPT ![r] = "tracked"]
              /\ UNCHANGED err
         ELSE Fail(r, "ProfileNotFound")

GetTrackers(r) ==
    /\ pc[r] = "idle"
    /\ \E m \in Merchants, p \in Payments, rsn \in Reasons \cup {None},
          mcd \in BOOLEAN :
          /\ req' = [req EXCEPT ![r] = [merchant |-> m, payment |-> p,
                                        reason |-> rsn, seen |-> intentStatus[p]]]
          /\ \/ RejectNotFound(r, m, p, mcd)
             \/ RejectStatus(r, m, p, mcd)
             \/ LookupFails(r, m, p, mcd)
             \/ CredsInsertFails(r, m, p, mcd)
             \/ TrackOrProfileFails(r, m, p, mcd)
    /\ UNCHANGED <<intentStatus, attemptStatus, cancellationReason,
                   profileOk, audit>>

(* Mutant: update_trackers returning after the intent update.             *)
UpdateIntentReturnsEarly(r) ==
    /\ pc[r] = "tracked"
    /\ req[r].seen # "RequiresCapture"
    /\ intentStatus' = [intentStatus EXCEPT ![req[r].payment] = "Cancelled"]
    /\ pc' = [pc EXCEPT ![r] = "done"]
    /\ UNCHANGED <<attemptStatus, cancellationReason, credsConfig, profileOk,
                   req, err, audit>>

(***************************************************************************)
(* update_trackers, first write: unless the status read was               *)
(* RequiresCapture, the intent is set to Cancelled by its key alone        *)
(* (PGStatusUpdate carries no expected status).                            *)
(***************************************************************************)
UpdateIntent(r) ==
    /\ pc[r] = "tracked"
    /\ req[r].seen # "RequiresCapture"
    /\ \/ /\ intentStatus' = [intentStatus EXCEPT ![req[r].payment] = "Cancelled"]
          /\ pc' = [pc EXCEPT ![r] = "intentUpdated"]
          /\ UNCHANGED err
       \/ /\ Fail(r, "IntentUpdateFailed")
          /\ UNCHANGED intentStatus
    /\ UNCHANGED <<attemptStatus, cancellationReason, credsConfig, profileOk,
                   req, audit>>

(* The attempt status update_trackers writes for the intent status read.   *)
VoidStatus(seen) == IF seen # "RequiresCapture" THEN "Voided" ELSE "VoidInitiated"

(***************************************************************************)
(* update_trackers, second write: the VoidUpdate of the attempt (status    *)
(* and cancellation reason), then the PaymentCancelled audit event.        *)
(***************************************************************************)
UpdateAttempt(r) ==
    /\ \/ pc[r] = "intentUpdated"
       \/ pc[r] = "tracked" /\ req[r].seen = "RequiresCapture"
    /\ LET p == req[r].payment IN
       \/ /\ attemptStatus' = [attemptStatus EXCEPT ![p] = VoidStatus(req[r].seen)]
          /\ cancellationReason' = [cancellationReason EXCEPT ![p] = req[r].reason]
          /\ audit' = audit \cup {[payment |-> p, reason |-> req[r].reason]}
          /\ pc' = [pc EXCEPT ![r] = "done"]
          /\ UNCHANGED err
       \/ /\ Fail(r, "AttemptUpdateFailed")
          /\ UNCHANGED <<attemptStatus, cancellationReason, audit>>
    /\ UNCHANGED <<intentStatus, credsConfig, profileOk, req>>

(***************************************************************************)
(* The other payment flows (confirm, capture, sync) that move the same two *)
(* rows, as one atomic step each: their code is not part of this model.   *)
(***************************************************************************)
OtherFlowTransitions ==
    { [from |-> <<"RequiresConfirmation", "Started">>, to |-> t] :
          t \in {<<"RequiresCapture", "Authorized">>, <<"Processing", "Pending">>,
                 <<"Succeeded", "Charged">>, <<"Failed", "Failure">>} }
    \cup
    { [from |-> <<"Processing", "Pending">>, to |-> t] :
          t \in {<<"Succeeded", "Charged">>, <<"Failed", "Failure">>} }
    \cup
    { [from |-> <<"RequiresCapture", "Authorized">>, to |-> <<"Succeeded", "Charged">>],
      [from |-> <<"RequiresCapture", "VoidInitiated">>, to |-> <<"Cancelled", "Voided">>] }

OtherFlowStep(p) ==
    /\ \E t \in OtherFlowTransitions :
          /\ t.from = <<intentStatus[p], attemptStatus[p]>>
          /\ intentStatus' = [intentStatus EXCEPT ![p] = t.to[1]]
          /\ attemptStatus' = [attemptStatus EXCEPT ![p] = t.to[2]]
    /\ UNCHANGED <<cancellationReason, credsConfig, profileOk, pc, req, err, audit>>

(* Every request task has returned; the server idles.                      *)
Finished ==
    /\ \A r \in Requests : pc[r] \in {"done", "failed"}
    /\ UNCHANGED vars

Next ==
    \/ \E r \in Requests : GetTrackers(r) \/ UpdateIntent(r) \/ UpdateAttempt(r)
    \/ \E p \in Payments : OtherFlowStep(p)
    \/ Finished

Spec == Init /\ [][Next]_vars

-----------------------------------------------------------------------------
(***************************************************************************)
(* Properties.                                                             *)
(***************************************************************************)

(* A task that has written the intent but not yet, or never, the attempt:  *)
(* update_trackers updates the intent and then awaits the attempt update,  *)
(* with no transaction around the two and no rollback when the second     *)
(* fails.                                                                  *)
PartiallyCancelled(r, p) ==
    /\ req[r].payment = p
    /\ req[r].seen # "RequiresCapture"
    /\ \/ pc[r] = "intentUpdated"
       \/ pc[r] = "failed" /\ err[r] = "AttemptUpdateFailed"

(* Whenever an intent is Cancelled its active attempt is Voided or         *)
(* VoidInitiated, unless a cancel task of that payment is between its two  *)
(* writes or failed between them.  No interleaving of cancels, of their    *)
(* stale reads, or of the other flows leaves a Cancelled intent with a     *)
(* live attempt any other way.                                             *)
CancelledIntentHasVoidAttempt ==
    \A p \in Payments :
        intentStatus[p] = "Cancelled" =>
            \/ attemptStatus[p] \in {"Voided", "VoidInitiated"}
            \/ \E r \in Requests : PartiallyCancelled(r, p)

(* A cancel rejected with PaymentNotFound or OperationNotAllowed writes    *)
(* nothing: neither payment row nor the connector-creds config.            *)
RejectedCancelWritesNothing ==
    [][\A r \in Requests :
          (/\ pc[r] = "idle" /\ pc'[r] = "failed"
           /\ err'[r] \in {"PaymentNotFound", "OperationNotAllowed"})
              => UNCHANGED storage]_vars

(* Whatever get_trackers fails with, it has written nothing (the error     *)
(* handling design: Validate/GetTracker failures abort before any          *)
(* mutation).                                                              *)
GetTrackerFailureWritesNothing ==
    [][\A r \in Requests :
          (pc[r] = "idle" /\ pc'[r] = "failed") => UNCHANGED storage]_vars

(* Succeeded and Failed intents keep their status: the concurrency design  *)
(* says status monotonicity is enforced by predicate-qualified writes.     *)
TerminalIntentStatusStable ==
    [][\A p \in Payments :
          intentStatus[p] \in {"Succeeded", "Failed"} =>
              intentStatus'[p] = intentStatus[p]]_vars

(* Once no cancel task is half-way, a Cancelled intent's attempt is Voided *)
(* (a cancel of a non-RequiresCapture intent voids the attempt            *)
(* synchronously).                                                        *)
CancelledIntentAttemptVoided ==
    \A p \in Payments :
        (intentStatus[p] = "Cancelled" /\ ~\E r \in Requests : PartiallyCancelled(r, p))
            => attemptStatus[p] = "Voided"

(* A cancel that failed between its two writes can be retried: the error  *)
(* handling design says a partial intent+attempt write is surfaced without *)
(* rollback and recovery relies on retry, so a later cancel of the same    *)
(* payment is not refused by get_trackers' status guard.                   *)
PartialCancelRetryable ==
    [][\A r \in Requests :
          (/\ pc[r] = "idle" /\ pc'[r] = "failed"
           /\ err'[r] = "OperationNotAllowed")
              => ~\E s \in Requests :
                     /\ pc[s] = "failed" /\ err[s] = "AttemptUpdateFailed"
                     /\ req[s].payment = req'[r].payment]_vars

=============================================================================
