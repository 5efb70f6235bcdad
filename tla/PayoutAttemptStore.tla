-------------------------- MODULE PayoutAttemptStore --------------------------
(***************************************************************************)
(* The payout_attempt queries (diesel_models/src/query/payout_attempt.rs)  *)
(* used concurrently by payout requests, the payout retry flow and the     *)
(* payout list's filter facets.  A payout is keyed by merchant and payout  *)
(* id (payout ids may collide across merchants); its attempts are numbered *)
(* 1..attempt_count and an attempt's id is "{payout_id}_{attempt_count}",  *)
(* which is injective (the count has no underscore), so the model names an *)
(* attempt by the pair <<payout id, number>>.  Creating a new attempt (the *)
(* payout retry flow) is not in this repository's sources and is modelled  *)
(* from the design: a new attempt row, then attempt_count + 1.             *)
(***************************************************************************)
EXTENDS Naturals, FiniteSets

CONSTANTS
    Merchants,      \* merchant accounts
    PayoutIds,      \* payout ids (the same id may exist under two merchants)
    Connectors,     \* payout connectors
    MaxAttempts,    \* bound on attempts per payout
    Clients,        \* concurrent callers of the queries
    None,           \* no value
    NotFound        \* the DatabaseError::NotFound a query returns

ASSUME MaxAttemptsAssumption == MaxAttempts \in Nat \ {0}
ASSUME NoneAssumption == None \notin Connectors /\ NotFound # None

Keys == Merchants \X PayoutIds

AttemptNos == 1..MaxAttempts

(* The attempt row <<merchant, payout id, number>>.                        *)
AttemptKeys == Merchants \X PayoutIds \X AttemptNos

PayoutStatus == {"RequiresFulfillment", "Success", "Failed"}

AttemptRow == [connector : Connectors \cup {None}, status : PayoutStatus]

PayoutRow == [count : AttemptNos, status : PayoutStatus]

(* A PayoutAttemptUpdate: a status update, or one that sets no column.    *)
Updates == PayoutStatus \cup {"noFields"}

Ops == {"list", "updateWith", "updateByPayout", "updateByAttempt"}

Phases == {"idle", "loaded", "connectors", "found", "done", "failed"}

NoFacets == [connectors |-> {}, statuses |-> {}]

VARIABLES
    payout,     \* payouts rows
    attempt,    \* payout_attempt rows
    pc,         \* where each client is
    op,         \* the query each client runs, its merchant, payout, attempt
    snap,       \* a lister's loaded payouts / an updater's copy of its row
    facets,     \* the filters a lister returned
    result,     \* the row (or NotFound) an updater got back
    written     \* history: the attempt rows the last update wrote

vars == <<payout, attempt, pc, op, snap, facets, result, written>>

(* A list names no payout; a client that has not started names nothing.  *)
OpRec == [kind : Ops, merchant : Merchants \cup {None},
          payout : PayoutIds \cup {None}, no : AttemptNos, upd : Updates]

NoOp == [kind |-> "list", merchant |-> None, payout |-> None, no |-> 1,
         upd |-> "noFields"]

TypeOK ==
    /\ payout \in [Keys -> PayoutRow]
    /\ attempt \in [AttemptKeys -> AttemptRow \cup {None}]
    /\ pc \in [Clients -> Phases]
    /\ op \in [Clients -> OpRec]
    /\ snap \in [Clients -> [PayoutIds -> PayoutRow] \cup AttemptRow \cup {None}]
    /\ facets \in [Clients -> [connectors : SUBSET Connectors,
                               statuses : SUBSET PayoutStatus]]
    /\ result \in [Clients -> AttemptRow \cup {None, NotFound}]
    /\ written \subseteq AttemptKeys

(* Every payout starts with its first attempt; a connector may or may not *)
(* be chosen yet.                                                          *)
Init ==
    /\ payout = [k \in Keys |-> [count |-> 1, status |-> "RequiresFulfillment"]]
    /\ \E first \in [Keys -> Connectors \cup {None}] :
         attempt = [a \in AttemptKeys |->
                      IF a[3] = 1
                        THEN [connector |-> first[<<a[1], a[2]>>],
                              status |-> "RequiresFulfillment"]
                        ELSE None]
    /\ pc = [c \in Clients |-> "idle"]
    /\ op = [c \in Clients |-> NoOp]
    /\ snap = [c \in Clients |-> None]
    /\ facets = [c \in Clients |-> NoFacets]
    /\ result = [c \in Clients |-> None]
    /\ written = {}

(* PayoutAttemptUpdateInternal::from applied to a row (its code is not in *)
(* this repository's sources: a status update sets the status column).    *)
Apply(row, u) == [row EXCEPT !.status = u]

(* The rows a predicate "merchant_id = m and payout_id = p" selects.       *)
RowsOfPayout(m, p) == {a \in AttemptKeys : a[1] = m /\ a[2] = p /\ attempt[a] # None}

(* Mutant: a retry past the attempt bound.                                *)
NewAttemptUnbounded ==
    \E m \in Merchants, p \in PayoutIds, cn \in Connectors :
        LET n == payout[<<m, p>>].count + 1 IN
        /\ attempt' = [attempt EXCEPT ![<<m, p, n>>] =
                         [connector |-> cn, status |-> "RequiresFulfillment"]]
        /\ payout' = [payout EXCEPT ![<<m, p>>] =
                         [count |-> n, status |-> "RequiresFulfillment"]]
        /\ UNCHANGED <<pc, op, snap, facets, result, written>>

(* The payout retry flow: PayoutAttemptNew::insert of attempt count + 1    *)
(* with a connector, and the payout's attempt_count bumped to it.  Only    *)
(* the insert is in the sources; the count bump, its bound and taking the *)
(* two writes as one step come from the design of the retry flow.         *)
NewAttempt ==
    \E m \in Merchants, p \in PayoutIds, cn \in Connectors :
        LET n == payout[<<m, p>>].count + 1 IN
        /\ n <= MaxAttempts
        /\ attempt' = [attempt EXCEPT ![<<m, p, n>>] =
                         [connector |-> cn, status |-> "RequiresFulfillment"]]
        /\ payout' = [payout EXCEPT ![<<m, p>>] =
                         [count |-> n, status |-> "RequiresFulfillment"]]
        /\ UNCHANGED <<pc, op, snap, facets, result, written>>

(* update_by_merchant_id_payout_id: every row of the payout is updated;   *)
(* the first row RETURNING yields (in no defined order) is returned, or   *)
(* NotFound when none matched.                                             *)
UpdateByPayoutId(c) ==
    /\ pc[c] = "idle"
    /\ \E m \in Merchants, p \in PayoutIds, u \in PayoutStatus :
        LET rows == RowsOfPayout(m, p) IN
        /\ op' = [op EXCEPT ![c] = [kind |-> "updateByPayout", merchant |-> m,
                    payout |-> p, no |-> payout[<<m, p>>].count, upd |-> u]]
        /\ attempt' = [a \in AttemptKeys |->
                         IF a \in rows THEN Apply(attempt[a], u) ELSE attempt[a]]
        /\ written' = rows
        /\ IF rows = {}
             THEN result' = [result EXCEPT ![c] = NotFound]
             ELSE \E a \in rows : result' = [result EXCEPT ![c] = attempt'[a]]
        /\ pc' = [pc EXCEPT ![c] = "done"]
    /\ UNCHANGED <<payout, snap, facets>>

(* update_by_merchant_id_payout_attempt_id: the one row with that         *)
(* merchant and attempt id, or NotFound.                                   *)
UpdateByAttemptId(c) ==
    /\ pc[c] = "idle"
    /\ \E m \in Merchants, p \in PayoutIds, n \in AttemptNos, u \in PayoutStatus :
        LET a == <<m, p, n>> IN
        /\ op' = [op EXCEPT ![c] = [kind |-> "updateByAttempt", merchant |-> m,
                    payout |-> p, no |-> n, upd |-> u]]
        /\ IF attempt[a] = None
             THEN /\ result' = [result EXCEPT ![c] = NotFound]
                  /\ written' = {}
                  /\ UNCHANGED attempt
             ELSE /\ attempt' = [attempt EXCEPT ![a] = Apply(@, u)]
                  /\ result' = [result EXCEPT ![c] = attempt'[a]]
                  /\ written' = {a}
        /\ pc' = [pc EXCEPT ![c] = "done"]
    /\ UNCHANGED <<payout, snap, facets>>

(* find_by_merchant_id_payout_attempt_id: a caller loads its copy of an   *)
(* attempt row (NotFound ends the request).                                *)
FindAttempt(c) ==
    /\ pc[c] = "idle"
    /\ \E m \in Merchants, p \in PayoutIds, n \in AttemptNos, u \in Updates :
        /\ op' = [op EXCEPT ![c] = [kind |-> "updateWith", merchant |-> m,
                    payout |-> p, no |-> n, upd |-> u]]
        /\ IF attempt[<<m, p, n>>] = None
             THEN /\ pc' = [pc EXCEPT ![c] = "failed"]
                  /\ UNCHANGED snap
             ELSE /\ snap' = [snap EXCEPT ![c] = attempt[<<m, p, n>>]]
                  /\ pc' = [pc EXCEPT ![c] = "found"]
    /\ UNCHANGED <<payout, attempt, facets, result, written>>

(* update_with_attempt_id on the caller's copy: an update that sets no    *)
(* column fails in diesel with NoFieldsToUpdate, which is turned into     *)
(* Ok(self), the caller's copy; otherwise the updated row is returned.    *)
UpdateWithAttemptId(c) ==
    /\ pc[c] = "found"
    /\ LET a == <<op[c].merchant, op[c].payout, op[c].no>> IN
       IF op[c].upd = "noFields"
         THEN /\ result' = [result EXCEPT ![c] = snap[c]]
              /\ written' = {}
              /\ UNCHANGED attempt
         ELSE /\ attempt' = [attempt EXCEPT ![a] = Apply(@, op[c].upd)]
              /\ result' = [result EXCEPT ![c] = attempt'[a]]
              /\ written' = {a}
    /\ pc' = [pc EXCEPT ![c] = "done"]
    /\ UNCHANGED <<payout, op, snap, facets>>

(* The payout list handed to get_filters_for_payouts: the merchant's      *)
(* payouts as loaded before the call.                                      *)
LoadPayouts(c) ==
    /\ pc[c] = "idle"
    /\ \E m \in Merchants :
        /\ op' = [op EXCEPT ![c] = [NoOp EXCEPT !.merchant = m]]
        /\ snap' = [snap EXCEPT ![c] = [p \in PayoutIds |-> payout[<<m, p>>]]]
        /\ pc' = [pc EXCEPT ![c] = "loaded"]
    /\ UNCHANGED <<payout, attempt, facets, result, written>>

(* The connector facet: distinct connectors of the attempts whose id is   *)
(* "{payout_id}_{attempt_count}" of a loaded payout, under the merchant,  *)
(* flattened (a NULL connector is dropped).                               *)
ConnectorFacet(m, s) ==
    {attempt[a].connector :
        a \in {a \in AttemptKeys : a[1] = m /\ attempt[a] # None /\
                                   a[3] = s[a[2]].count}}
      \ {None}

(* get_filters_for_payouts up to the connector query: the status facet   *)
(* is deduplicated from the loaded payouts, then the distinct connectors  *)
(* are queried, or the query fails.                                        *)
FilterConnector(c) ==
    /\ pc[c] = "loaded"
    /\ \/ /\ facets' = [facets EXCEPT ![c] =
                [connectors |-> ConnectorFacet(op[c].merchant, snap[c]),
                 statuses |-> {snap[c][p].status : p \in PayoutIds}]]
          /\ pc' = [pc EXCEPT ![c] = "connectors"]
       \/ /\ pc' = [pc EXCEPT ![c] = "failed"]
          /\ UNCHANGED facets
    /\ UNCHANGED <<payout, attempt, op, snap, result, written>>

(* The destination_currency and payout_type queries on the payouts table; *)
(* their values are payout-level data the properties do not look at, so   *)
(* only their failing is kept.                                             *)
FilterPayoutColumns(c) ==
    /\ pc[c] = "connectors"
    /\ \/ pc' = [pc EXCEPT ![c] = "done"]
       \/ pc' = [pc EXCEPT ![c] = "failed"]
    /\ UNCHANGED <<payout, attempt, op, snap, facets, result, written>>

Finished ==
    /\ \A c \in Clients : pc[c] \in {"done", "failed"}
    /\ UNCHANGED vars

Next ==
    \/ NewAttempt
    \/ \E c \in Clients :
        \/ UpdateByPayoutId(c) \/ UpdateByAttemptId(c)
        \/ FindAttempt(c) \/ UpdateWithAttemptId(c)
        \/ LoadPayouts(c) \/ FilterConnector(c) \/ FilterPayoutColumns(c)
    \/ Finished

Spec == Init /\ [][Next]_vars

-----------------------------------------------------------------------------
(***************************************************************************)
(* Properties.                                                             *)
(***************************************************************************)

(* A storage update, qualified by merchant and the entity's key, writes   *)
(* at most one attempt row: no update rewrites the payout's earlier,      *)
(* superseded attempts along with the one it is meant for.                *)
UpdateWritesOneAttempt ==
    Cardinality(written) <= 1

=============================================================================
