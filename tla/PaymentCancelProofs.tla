------------------------ MODULE PaymentCancelProofs ------------------------
(***************************************************************************)
(* Proofs about the Cancel operation model, for every set of merchants,    *)
(* payments, reasons and request tasks.                                    *)
(***************************************************************************)
EXTENDS PaymentCancel, TLAPS

(* A task that left get_trackers holds a real request.                    *)
RequestRecorded ==
    \A r \in Requests : pc[r] # "idle" => req[r] \in RequestRec

(* The inductive invariant.                                                *)
IInv == TypeOK /\ RequestRecorded /\ CancelledIntentHasVoidAttempt

-----------------------------------------------------------------------------
(* Type correctness.                                                       *)

LEMMA TypeInit == Init => TypeOK
  <1> SUFFICES ASSUME Init PROVE TypeOK
    OBVIOUS
  <1>1. PICK rows \in [Payments -> InitialRows] :
            /\ intentStatus = [p \in Payments |-> rows[p][1]]
            /\ attemptStatus = [p \in Payments |-> rows[p][2]]
    BY DEF Init
  <1>2. \A p \in Payments : rows[p][1] \in IntentStatus /\ rows[p][2] \in AttemptStatus
    BY DEF InitialRows, IntentStatus, AttemptStatus
  <1>3. QED
    BY <1>1, <1>2 DEF Init, TypeOK, Phases, NoRequest

LEMMA TypeGetTrackers ==
  ASSUME TypeOK, NEW r \in Requests, GetTrackers(r)
  PROVE  TypeOK'
  <1>1. PICK m \in Merchants, p \in Payments, rsn \in Reasons \cup {None},
             mcd \in BOOLEAN :
            /\ req' = [req EXCEPT ![r] = [merchant |-> m, payment |-> p,
                                          reason |-> rsn, seen |-> intentStatus[p]]]
            /\ \/ RejectNotFound(r, m, p, mcd)
               \/ RejectStatus(r, m, p, mcd)
               \/ LookupFails(r, m, p, mcd)
               \/ CredsInsertFails(r, m, p, mcd)
               \/ TrackOrProfileFails(r, m, p, mcd)
    BY DEF GetTrackers
  <1>2. req' \in [Requests -> RequestRec \cup {NoRequest}]
    BY <1>1 DEF TypeOK, RequestRec
  <1>3. /\ pc' \in [Requests -> Phases]
        /\ err' \in [Requests -> GetTrackerErrors \cup UpdateTrackerErrors \cup {NoError}]
        /\ credsConfig' \subseteq Merchants
    BY <1>1 DEF TypeOK, Phases, GetTrackerErrors, Fail, StoreCreds,
                RejectNotFound, RejectStatus, LookupFails, CredsInsertFails,
                TrackOrProfileFails
  <1>4. QED
    BY <1>2, <1>3 DEF GetTrackers, TypeOK

LEMMA TypeNext == TypeOK /\ RequestRecorded /\ [Next]_vars => TypeOK'
  <1> SUFFICES ASSUME TypeOK, RequestRecorded, [Next]_vars PROVE TypeOK'
    OBVIOUS
  <1>1. ASSUME NEW r \in Requests, GetTrackers(r) PROVE TypeOK'
    BY <1>1, TypeGetTrackers
  <1>2. ASSUME NEW r \in Requests, UpdateIntent(r) PROVE TypeOK'
    BY <1>2 DEF UpdateIntent, TypeOK, Fail, Phases, UpdateTrackerErrors, IntentStatus
  <1>3. ASSUME NEW r \in Requests, UpdateAttempt(r) PROVE TypeOK'
    <2>1. req[r] \in RequestRec
      BY <1>3 DEF UpdateAttempt, RequestRecorded
    <2>2. QED
      BY <1>3, <2>1 DEF UpdateAttempt, TypeOK, Fail, Phases, UpdateTrackerErrors,
                         RequestRec, VoidStatus, AttemptStatus
  <1>4. ASSUME NEW p \in Payments, OtherFlowStep(p) PROVE TypeOK'
    <2>1. PICK t \in OtherFlowTransitions :
              /\ t.from = <<intentStatus[p], attemptStatus[p]>>
              /\ intentStatus' = [intentStatus EXCEPT ![p] = t.to[1]]
              /\ attemptStatus' = [attemptStatus EXCEPT ![p] = t.to[2]]
      BY <1>4 DEF OtherFlowStep
    <2>2. t.to[1] \in IntentStatus /\ t.to[2] \in AttemptStatus
      BY DEF OtherFlowTransitions, IntentStatus, AttemptStatus
    <2>3. QED
      BY <1>4, <2>1, <2>2 DEF OtherFlowStep, TypeOK
  <1>5. CASE Finished \/ UNCHANGED vars
    BY <1>5 DEF Finished, vars, TypeOK
  <1>6. QED
    BY <1>1, <1>2, <1>3, <1>4, <1>5 DEF Next

-----------------------------------------------------------------------------
(* The recorded requests.                                                  *)

LEMMA RecordedInit == Init => RequestRecorded
  BY DEF Init, RequestRecorded

LEMMA RecordedNext ==
  TypeOK /\ RequestRecorded /\ [Next]_vars => RequestRecorded'
  <1> SUFFICES ASSUME TypeOK, RequestRecorded, [Next]_vars
               PROVE  RequestRecorded'
    OBVIOUS
  <1>1. ASSUME NEW r \in Requests, GetTrackers(r) PROVE RequestRecorded'
    <2>1. PICK m \in Merchants, p \in Payments, rsn \in Reasons \cup {None},
               mcd \in BOOLEAN :
              /\ req' = [req EXCEPT ![r] = [merchant |-> m, payment |-> p,
                                            reason |-> rsn, seen |-> intentStatus[p]]]
              /\ \/ RejectNotFound(r, m, p, mcd)
                 \/ RejectStatus(r, m, p, mcd)
                 \/ LookupFails(r, m, p, mcd)
                 \/ CredsInsertFails(r, m, p, mcd)
                 \/ TrackOrProfileFails(r, m, p, mcd)
      BY <1>1 DEF GetTrackers
    <2>2. req'[r] \in RequestRec
      BY <2>1 DEF TypeOK, RequestRec
    <2>4. \A s \in Requests \ {r} : pc'[s] = pc[s] /\ req'[s] = req[s]
      BY <2>1 DEF TypeOK, Fail, RejectNotFound, RejectStatus, LookupFails,
                  CredsInsertFails, TrackOrProfileFails
    <2>5. pc'[r] \in {"tracked", "failed"}
      BY <2>1 DEF TypeOK, Fail, RejectNotFound, RejectStatus, LookupFails,
                  CredsInsertFails, TrackOrProfileFails
    <2>6. QED
      BY <2>2, <2>4, <2>5 DEF RequestRecorded, TypeOK
  <1>2. ASSUME NEW r \in Requests, UpdateIntent(r) PROVE RequestRecorded'
    BY <1>2 DEF UpdateIntent, RequestRecorded, TypeOK, Fail
  <1>3. ASSUME NEW r \in Requests, UpdateAttempt(r) PROVE RequestRecorded'
    BY <1>3 DEF UpdateAttempt, RequestRecorded, TypeOK, Fail
  <1>4. ASSUME NEW p \in Payments, OtherFlowStep(p) PROVE RequestRecorded'
    BY <1>4 DEF OtherFlowStep, RequestRecorded
  <1>5. CASE Finished \/ UNCHANGED vars
    BY <1>5 DEF Finished, vars, RequestRecorded
  <1>6. QED
    BY <1>1, <1>2, <1>3, <1>4, <1>5 DEF Next

(* Every state of the Cancel model has the types TypeOK gives.             *)
THEOREM TypeCorrect == Spec => []TypeOK
  <1>1. Init => TypeOK /\ RequestRecorded
    BY TypeInit, RecordedInit
  <1>2. TypeOK /\ RequestRecorded /\ [Next]_vars => (TypeOK /\ RequestRecorded)'
    BY TypeNext, RecordedNext
  <1>3. QED
    BY <1>1, <1>2, PTL DEF Spec

-----------------------------------------------------------------------------
(* A Cancelled intent has a voided attempt or a half-done cancel.          *)

LEMMA CancelledInit == Init => CancelledIntentHasVoidAttempt
  <1> SUFFICES ASSUME Init, NEW p \in Payments, intentStatus[p] = "Cancelled"
               PROVE  FALSE
    BY DEF CancelledIntentHasVoidAttempt
  <1>1. PICK rows \in [Payments -> InitialRows] :
            intentStatus = [q \in Payments |-> rows[q][1]]
    BY DEF Init
  <1>2. rows[p][1] # "Cancelled"
    BY DEF InitialRows
  <1>3. QED
    BY <1>1, <1>2

(* No step of another flow touches a Cancelled intent, and the only one    *)
(* that makes an intent Cancelled voids its attempt with it.               *)
LEMMA OtherFlowKeepsCancelled ==
  ASSUME TypeOK, NEW p \in Payments, OtherFlowStep(p)
  PROVE  /\ intentStatus[p] # "Cancelled"
         /\ intentStatus'[p] = "Cancelled" => attemptStatus'[p] = "Voided"
  <1>1. PICK t \in OtherFlowTransitions :
            /\ t.from = <<intentStatus[p], attemptStatus[p]>>
            /\ intentStatus' = [intentStatus EXCEPT ![p] = t.to[1]]
            /\ attemptStatus' = [attemptStatus EXCEPT ![p] = t.to[2]]
    BY DEF OtherFlowStep
  <1>2. /\ t.from[1] # "Cancelled"
        /\ t.to[1] = "Cancelled" => t.to[2] = "Voided"
    BY DEF OtherFlowTransitions
  <1>3. QED
    BY <1>1, <1>2 DEF TypeOK

(* The goal for one payment.                                              *)
VoidOrPartial(p) ==
    \/ attemptStatus[p] \in {"Voided", "VoidInitiated"}
    \/ \E r \in Requests : PartiallyCancelled(r, p)

(* A step of task r leaves the other tasks as they are.                    *)
OthersUnchanged(r) ==
    \A s \in Requests \ {r} : pc'[s] = pc[s] /\ req'[s] = req[s] /\ err'[s] = err[s]

LEMMA TaskFrame ==
  ASSUME NEW s, NEW p, pc'[s] = pc[s], req'[s] = req[s], err'[s] = err[s],
         PartiallyCancelled(s, p)
  PROVE  PartiallyCancelled(s, p)'
  BY DEF PartiallyCancelled

(* If the intent stays Cancelled and its attempt unchanged, and the task r *)
(* that moved was not half-way on it, the goal carries over.               *)
LEMMA CarryOver ==
  ASSUME NEW p \in Payments, NEW r \in Requests,
         intentStatus[p] = "Cancelled" => VoidOrPartial(p),
         intentStatus'[p] = intentStatus[p], attemptStatus'[p] = attemptStatus[p],
         intentStatus'[p] = "Cancelled",
         OthersUnchanged(r),
         PartiallyCancelled(r, p) => PartiallyCancelled(r, p)'
  PROVE  VoidOrPartial(p)'
  <1>1. CASE attemptStatus[p] \in {"Voided", "VoidInitiated"}
    BY <1>1 DEF VoidOrPartial
  <1>2. CASE \E s \in Requests : PartiallyCancelled(s, p)
    <2>1. PICK s \in Requests : PartiallyCancelled(s, p)
      BY <1>2
    <2>2. PartiallyCancelled(s, p)'
      <3>1. CASE s = r
        BY <2>1, <3>1
      <3>2. CASE s # r
        BY <2>1, <3>2, TaskFrame DEF OthersUnchanged
      <3>3. QED
        BY <3>1, <3>2
    <2>3. QED
      BY <2>2 DEF VoidOrPartial
  <1>3. QED
    BY <1>1, <1>2 DEF VoidOrPartial

LEMMA CancelledNext ==
  IInv /\ [Next]_vars => CancelledIntentHasVoidAttempt'
  <1> SUFFICES ASSUME IInv, [Next]_vars,
                      NEW p \in Payments, intentStatus'[p] = "Cancelled"
               PROVE  VoidOrPartial(p)'
    BY DEF CancelledIntentHasVoidAttempt, VoidOrPartial
  <1>0. intentStatus[p] = "Cancelled" => VoidOrPartial(p)
    BY DEF IInv, CancelledIntentHasVoidAttempt, VoidOrPartial
  <1>1. ASSUME NEW r \in Requests, GetTrackers(r) PROVE VoidOrPartial(p)'
    <2>1. OthersUnchanged(r)
      BY <1>1 DEF GetTrackers, OthersUnchanged, IInv, TypeOK, Fail, RejectNotFound,
                  RejectStatus, LookupFails, CredsInsertFails, TrackOrProfileFails
    <2>2. ~PartiallyCancelled(r, p)
      BY <1>1 DEF GetTrackers, PartiallyCancelled
    <2>3. QED
      BY <1>0, <1>1, <2>1, <2>2, CarryOver DEF GetTrackers
  <1>2. ASSUME NEW r \in Requests, UpdateIntent(r) PROVE VoidOrPartial(p)'
    <2>1. OthersUnchanged(r)
      BY <1>2 DEF UpdateIntent, OthersUnchanged, IInv, TypeOK, Fail
    <2>2. ~PartiallyCancelled(r, p)
      BY <1>2 DEF UpdateIntent, PartiallyCancelled
    <2>3. CASE req[r].payment = p /\ pc'[r] = "intentUpdated"
      <3>1. PartiallyCancelled(r, p)'
        BY <1>2, <2>3 DEF UpdateIntent, PartiallyCancelled
      <3>2. QED
        BY <3>1 DEF VoidOrPartial
    <2>4. CASE ~(req[r].payment = p /\ pc'[r] = "intentUpdated")
      <3>1. intentStatus'[p] = intentStatus[p] /\ attemptStatus'[p] = attemptStatus[p]
        BY <1>2, <2>4 DEF UpdateIntent, IInv, TypeOK, Fail
      <3>2. QED
        BY <1>0, <2>1, <2>2, <3>1, CarryOver
    <2>5. QED
      BY <2>3, <2>4
  <1>3. ASSUME NEW r \in Requests, UpdateAttempt(r) PROVE VoidOrPartial(p)'
    <2>0. req[r] \in RequestRec
      BY <1>3 DEF UpdateAttempt, IInv, RequestRecorded
    <2>1. OthersUnchanged(r)
      BY <1>3 DEF UpdateAttempt, OthersUnchanged, IInv, TypeOK, Fail
    <2>2. intentStatus' = intentStatus
      BY <1>3 DEF UpdateAttempt
    <2>3. CASE pc'[r] = "done" /\ req[r].payment = p
      <3>1. attemptStatus'[p] \in {"Voided", "VoidInitiated"}
        BY <1>3, <2>0, <2>3 DEF UpdateAttempt, IInv, TypeOK, Fail, VoidStatus, RequestRec
      <3>2. QED
        BY <3>1 DEF VoidOrPartial
    <2>4. CASE pc'[r] = "done" /\ req[r].payment # p
      <3>1. attemptStatus'[p] = attemptStatus[p]
        BY <1>3, <2>0, <2>4 DEF UpdateAttempt, IInv, TypeOK, Fail, RequestRec
      <3>2. ~PartiallyCancelled(r, p)
        BY <2>4 DEF PartiallyCancelled
      <3>3. QED
        BY <1>0, <2>1, <2>2, <3>1, <3>2, CarryOver
    <2>5. CASE pc'[r] # "done"
      <3>1. /\ attemptStatus' = attemptStatus
            /\ pc'[r] = "failed" /\ err'[r] = "AttemptUpdateFailed"
            /\ req' = req
        BY <1>3, <2>5 DEF UpdateAttempt, IInv, TypeOK, Fail
      <3>2. PartiallyCancelled(r, p) => PartiallyCancelled(r, p)'
        BY <3>1 DEF PartiallyCancelled
      <3>3. QED
        BY <1>0, <2>1, <2>2, <3>1, <3>2, CarryOver
    <2>6. QED
      BY <2>3, <2>4, <2>5
  <1>4. ASSUME NEW q \in Payments, OtherFlowStep(q) PROVE VoidOrPartial(p)'
    <2>1. CASE q = p
      BY <1>4, <2>1, OtherFlowKeepsCancelled DEF VoidOrPartial, IInv
    <2>2. CASE q # p
      <3>1. /\ intentStatus'[p] = intentStatus[p] /\ attemptStatus'[p] = attemptStatus[p]
            /\ pc' = pc /\ req' = req /\ err' = err
        BY <1>4, <2>2 DEF OtherFlowStep, IInv, TypeOK
      <3>2. QED
        BY <1>0, <3>1 DEF VoidOrPartial, PartiallyCancelled
    <2>3. QED
      BY <2>1, <2>2
  <1>5. CASE Finished \/ UNCHANGED vars
    BY <1>0, <1>5 DEF Finished, vars, VoidOrPartial, PartiallyCancelled
  <1>6. QED
    BY <1>1, <1>2, <1>3, <1>4, <1>5 DEF Next

(* The strengthened invariant is inductive.                                *)
LEMMA IInvNext == IInv /\ [Next]_vars => IInv'
  BY TypeNext, RecordedNext, CancelledNext DEF IInv

(* A Cancelled intent's active attempt is Voided or VoidInitiated unless a *)
(* cancel task of that payment wrote the intent and has not, or failed to, *)
(* write the attempt (update_trackers, payment_cancel.rs): for every set   *)
(* of merchants, payments, reasons and concurrent tasks.                   *)
THEOREM CancelledIntentSafety == Spec => []CancelledIntentHasVoidAttempt
  <1>1. Init => IInv
    BY TypeInit, RecordedInit, CancelledInit DEF IInv
  <1>2. QED
    BY <1>1, IInvNext, PTL DEF Spec, IInv

-----------------------------------------------------------------------------
(* The step of one task that ends get_trackers with PaymentNotFound or     *)
(* OperationNotAllowed.                                                    *)
Rejected(r) ==
    /\ pc[r] = "idle" /\ pc'[r] = "failed"
    /\ err'[r] \in {"PaymentNotFound", "OperationNotAllowed"}

LEMMA RejectedStepWritesNothing ==
  ASSUME TypeOK, [Next]_vars, NEW r \in Requests, Rejected(r)
  PROVE  UNCHANGED storage
  <1>1. CASE GetTrackers(r)
    <2>1. PICK m \in Merchants, p \in Payments, rsn \in Reasons \cup {None},
               mcd \in BOOLEAN :
              \/ RejectNotFound(r, m, p, mcd)
              \/ RejectStatus(r, m, p, mcd)
              \/ LookupFails(r, m, p, mcd)
              \/ CredsInsertFails(r, m, p, mcd)
              \/ TrackOrProfileFails(r, m, p, mcd)
      BY <1>1 DEF GetTrackers
    <2>2. RejectNotFound(r, m, p, mcd) \/ RejectStatus(r, m, p, mcd)
      BY <2>1 DEF Rejected, TypeOK, Fail, LookupFails, CredsInsertFails,
                  TrackOrProfileFails
    <2>3. QED
      BY <1>1, <2>2 DEF GetTrackers, RejectNotFound, RejectStatus, storage
  <1>2. CASE ~GetTrackers(r)
    <2>1. ASSUME NEW s \in Requests, GetTrackers(s) PROVE FALSE
      <3>1. s # r
        BY <1>2, <2>1
      <3>2. \E v : pc' = [pc EXCEPT ![s] = v]
        BY <2>1 DEF GetTrackers, Fail, RejectNotFound, RejectStatus, LookupFails,
                    CredsInsertFails, TrackOrProfileFails
      <3>3. pc'[r] = pc[r]
        BY <3>1, <3>2 DEF TypeOK
      <3>4. QED
        BY <3>3 DEF Rejected
    <2>2. ASSUME NEW s \in Requests, UpdateIntent(s) \/ UpdateAttempt(s) PROVE FALSE
      BY <2>2 DEF UpdateIntent, UpdateAttempt, Rejected, TypeOK, Fail
    <2>3. ASSUME NEW q \in Payments, OtherFlowStep(q) PROVE FALSE
      BY <2>3 DEF OtherFlowStep, Rejected
    <2>4. CASE Finished \/ UNCHANGED vars
      BY <2>4 DEF Finished, vars, Rejected
    <2>5. QED
      BY <2>1, <2>2, <2>3, <2>4 DEF Next
  <1>3. QED
    BY <1>1, <1>2

(* A cancel rejected for an unknown payment or a disallowed status writes  *)
(* neither payment row nor the creds config (get_trackers, lines 60-81).   *)
THEOREM RejectedCancelSafety == Spec => RejectedCancelWritesNothing
  <1>1. TypeOK /\ [Next]_vars =>
            [\A r \in Requests : Rejected(r) => UNCHANGED storage]_vars
    BY RejectedStepWritesNothing
  <1>2. QED
    BY <1>1, TypeCorrect, PTL DEF Spec, RejectedCancelWritesNothing, Rejected

=============================================================================
