-------------------------- MODULE PaymentMethodToken --------------------------
(***************************************************************************)
(* ParentPaymentMethodToken (routes/payment_methods.rs): the redis key     *)
(* pm_token_{token}_{payment_method}_hyperswitch under which a payment's   *)
(* parent payment-method token is kept, with an expiry of fulfillment_time *)
(* seconds; insert, delete (which swallows redis errors) and               *)
(* should_delete_payment_method_token.  The payment flows that call them   *)
(* and change the payment's status are not in this repository's sources:  *)
(* they are an environment that may insert while the payment is not final, *)
(* asks should_delete before deleting, and moves the status on.  Time is a *)
(* counter and redis drops a key once the clock reaches its expiry.        *)
(***************************************************************************)
EXTENDS Naturals, Sequences, SequencesExt

CONSTANTS
    Payments,       \* payments holding a parent payment-method token
    TTL,            \* fulfillment_time the flows pass to insert
    MaxTime,        \* bound on the clock
    RandomWords,    \* the random part of a generated token (no '_' in it)
    None            \* no key

ASSUME TTLAssumption == TTL \in Nat \ {0} /\ MaxTime \in Nat
ASSUME NoneAssumption == None \notin Nat

(***************************************************************************)
(* The key.  A string is modelled by its '_'-separated words: joining with *)
(* '_' is injective on word sequences whose words have no '_', so two keys *)
(* are the same string exactly when their word sequences are equal.        *)
(***************************************************************************)

(* Display of api_models::enums::PaymentMethod (snake_case), as words.     *)
PaymentMethodWords ==
    {<<"card">>, <<"pay", "later">>, <<"wallet">>, <<"gift", "card">>}

(* Parent tokens are ids from generate_id with the prefix "token".         *)
GeneratedTokens == {<<"token", w>> : w \in RandomWords}

(* Mutant: the key without the payment method.                             *)
KeyWithoutMethod(t, pm) == FlattenSeq(<<<<"pm", "token">>, t, <<"hyperswitch">>>>)

(* create_key_for_token: format!("pm_token_{parent_pm_token}_{payment_method}_hyperswitch"). *)
CreateKeyForToken(t, pm) ==
    FlattenSeq(<<<<"pm", "token">>, t, pm, <<"hyperswitch">>>>)

(***************************************************************************)
(* The key's lifecycle.                                                    *)
(***************************************************************************)

IntentStatus ==
    {"RequiresPaymentMethod", "RequiresCustomerAction", "RequiresMerchantAction",
     "Processing", "Succeeded", "Failed"}

Final == {"Succeeded", "Failed"}

(* The expiry of a key set without one: it outlives every clock value.    *)
Forever == MaxTime + TTL + 1

VARIABLES
    tokenOf,    \* the payment's parent payment-method token
    methodOf,   \* the payment method it was stored for
    status,     \* the payment's intent status
    expiry,     \* the time redis drops the payment's token key, or None
    now,        \* the clock
    finalAt,    \* history: when the payment reached a final status, or None
    reviewHeld  \* history: the key was there when merchant review began

vars == <<tokenOf, methodOf, status, expiry, now, finalAt, reviewHeld>>

TypeOK ==
    /\ tokenOf \in [Payments -> GeneratedTokens]
    /\ methodOf \in [Payments -> PaymentMethodWords]
    /\ status \in [Payments -> IntentStatus]
    /\ expiry \in [Payments -> 1..Forever \cup {None}]
    /\ now \in 0..MaxTime
    /\ finalAt \in [Payments -> 0..MaxTime \cup {None}]
    /\ reviewHeld \in [Payments -> BOOLEAN]

Init ==
    /\ tokenOf \in [Payments -> GeneratedTokens]
    /\ methodOf \in [Payments -> PaymentMethodWords]
    /\ status = [p \in Payments |-> "RequiresPaymentMethod"]
    /\ expiry = [p \in Payments |-> None]
    /\ now = 0
    /\ finalAt = [p \in Payments |-> None]
    /\ reviewHeld = [p \in Payments |-> FALSE]

(* Mutant: the key set without an expiry.                                  *)
InsertNoExpiry(p) ==
    /\ status[p] \notin Final
    /\ \/ /\ expiry' = [expiry EXCEPT ![p] = Forever]
          /\ reviewHeld' = [reviewHeld EXCEPT ![p] = status[p] = "RequiresMerchantAction"]
       \/ UNCHANGED <<expiry, reviewHeld>>
    /\ UNCHANGED <<tokenOf, methodOf, status, now, finalAt>>

(* Mutant: the expiry given in milliseconds where redis takes seconds.    *)
InsertExpiryMillis(p) ==
    /\ status[p] \notin Final
    /\ \/ /\ expiry' = [expiry EXCEPT ![p] = now + TTL * 1000]
          /\ reviewHeld' = [reviewHeld EXCEPT ![p] = status[p] = "RequiresMerchantAction"]
       \/ UNCHANGED <<expiry, reviewHeld>>
    /\ UNCHANGED <<tokenOf, methodOf, status, now, finalAt>>

(* insert: get_redis_conn and serialize_and_set_key_with_expiry; either   *)
(* failure returns an error and sets nothing.  A set replaces the key and *)
(* its expiry.                                                             *)
Insert(p) ==
    /\ status[p] \notin Final
    /\ \/ /\ expiry' = [expiry EXCEPT ![p] = now + TTL]
          /\ reviewHeld' = [reviewHeld EXCEPT ![p] = status[p] = "RequiresMerchantAction"]
       \/ UNCHANGED <<expiry, reviewHeld>>
    /\ UNCHANGED <<tokenOf, methodOf, status, now, finalAt>>

(* should_delete_payment_method_token: keep the token while the customer  *)
(* or the merchant still has to act.                                       *)
ShouldDeletePaymentMethodToken(s) ==
    s \notin {"RequiresCustomerAction", "RequiresMerchantAction"}

(* A flow asks should_delete and calls delete: the key goes, or redis     *)
(* fails and delete logs the error and returns Ok all the same.           *)
Delete(p) ==
    /\ ShouldDeletePaymentMethodToken(status[p])
    /\ expiry[p] # None
    /\ \/ expiry' = [expiry EXCEPT ![p] = None]
       \/ UNCHANGED expiry
    /\ UNCHANGED <<tokenOf, methodOf, status, now, finalAt, reviewHeld>>

(* The other flows move the payment on; a final status stays.             *)
StatusChange(p) ==
    /\ status[p] \notin Final
    /\ \E s \in IntentStatus \ {status[p]} :
        /\ status' = [status EXCEPT ![p] = s]
        /\ finalAt' = [finalAt EXCEPT ![p] = IF s \in Final THEN now ELSE None]
        /\ reviewHeld' = [reviewHeld EXCEPT ![p] =
                            s = "RequiresMerchantAction" /\ expiry[p] # None]
    /\ UNCHANGED <<tokenOf, methodOf, expiry, now>>

(* Time passes; redis drops the keys whose expiry has come.               *)
Tick ==
    /\ now < MaxTime
    /\ now' = now + 1
    /\ expiry' = [p \in Payments |->
                    IF expiry[p] # None /\ expiry[p] <= now + 1 THEN None
                                                               ELSE expiry[p]]
    /\ UNCHANGED <<tokenOf, methodOf, status, finalAt, reviewHeld>>

(* Every payment is final, its key gone and no flow has more to do.      *)
Finished ==
    /\ \A p \in Payments : status[p] \in Final /\ expiry[p] = None
    /\ UNCHANGED vars

Next ==
    \/ \E p \in Payments : Insert(p) \/ Delete(p) \/ StatusChange(p)
    \/ Tick
    \/ Finished

Spec == Init /\ [][Next]_vars

-----------------------------------------------------------------------------
(***************************************************************************)
(* Properties.                                                             *)
(***************************************************************************)

(* Two payments' token keys are different strings whenever their tokens   *)
(* or payment methods differ, for every generated token and payment       *)
(* method (Init ranges over all of them), although payment method names   *)
(* contain '_' themselves.                                                 *)
KeyInjective ==
    \A p, q \in Payments :
        CreateKeyForToken(tokenOf[p], methodOf[p]) =
        CreateKeyForToken(tokenOf[q], methodOf[q]) =>
            tokenOf[p] = tokenOf[q] /\ methodOf[p] = methodOf[q]

(* Since delete may fail silently, the expiry is what bounds a stale      *)
(* token: a payment that reached a final status at time t holds no key    *)
(* after t + fulfillment_time.                                             *)
StaleTokenBounded ==
    \A p \in Payments :
        finalAt[p] # None /\ expiry[p] # None => expiry[p] <= finalAt[p] + TTL

(* The comment at should_delete_payment_method_token: a payment under     *)
(* merchant review keeps its token until the review is resolved.          *)
ReviewTokenKept ==
    \A p \in Payments :
        status[p] = "RequiresMerchantAction" /\ reviewHeld[p] => expiry[p] # None

=============================================================================
