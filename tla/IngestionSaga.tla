---------------------------- MODULE IngestionSaga ----------------------------
(***************************************************************************)
(* The durable half of the Step 10 ingestion saga: the tables              *)
(* ingestion_sagas, ingestion_saga_events and ingestion_external_effects   *)
(* for one saga, and the transactions of IngestionSagaService on them.     *)
(*                                                                         *)
(* Each service call is one SERIALIZABLE transaction, so each is one       *)
(* action.  The caller is arbitrary here: any call may come at any time,   *)
(* with any arguments, and with a clock reading `ts` taken at any earlier  *)
(* moment, because the service reads its clock before it opens the         *)
(* transaction.  IngestionOrchestrator restricts the callers to the real   *)
(* one.  state_version, attempt_count and the hash links are not kept:     *)
(* the row is read and compared inside the same transaction, so the        *)
(* compare-and-set never fails on its own, and an event is identified by   *)
(* its position.                                                           *)
(***************************************************************************)
EXTENDS SagaMilestones, Sequences

CONSTANTS
    Tokens,      \* worker claim digests
    Receipts,    \* evidence an external effect can yield
    Locators,    \* deterministic locators of external intents
    None,        \* no value: a NULL column
    Lease,       \* longest lease a worker may ask for
    RetryDelay,  \* pause before a RETRY_WAIT saga may be claimed again
    MaxClock     \* bound on the clock, for model checking

ASSUME SagaAssumption ==
    /\ Lease \in Nat \ {0}
    /\ RetryDelay \in Nat \ {0}
    /\ MaxClock \in Nat
    /\ None \notin Tokens
    /\ None \notin Receipts
    /\ None \notin Locators

VARIABLES
    saga,     \* the ingestion_sagas row; disp = "ABSENT" before it exists
    events,   \* ingestion_saga_events, in sequence_number order
    effects,  \* ingestion_external_effects: intent and receipt by kind
    clock     \* wall clock of the worker hosts

sagaVars == <<saga, events, effects, clock>>

NoTime == -1      \* a NULL timestamp

Dispositions == {"READY", "CLAIMED", "RETRY_WAIT", "OPERATOR_REVIEW",
                 "QUARANTINED", "COMPLETED"}

FailureDispositions == {"RETRY_WAIT", "OPERATOR_REVIEW", "QUARANTINED"}

Unregistered ==
    [ms |-> REGISTERED, disp |-> "ABSENT", owner |-> None,
     exp |-> NoTime, retry |-> NoTime, updated |-> 0]

SagaInit ==
    /\ saga = Unregistered
    /\ events = <<>>
    /\ effects = [k \in Kinds |-> [intent |-> None, receipt |-> None]]
    /\ clock = 0

Registered == saga.disp # "ABSENT"

\* Mutant of RowAccepts: a trigger that forgets the quarantined rows.
MutantRowAcceptsQuarantined(ts) ==
    saga.ms # PUBLISHED /\ ts >= saga.updated

(***************************************************************************)
(* The trigger guard_ingestion_saga_update: a quarantined or published row *)
(* takes no update at all, and updated_at never moves back.                *)
(***************************************************************************)
RowAccepts(ts) ==
    /\ saga.disp # "QUARANTINED"
    /\ saga.ms # PUBLISHED
    /\ ts >= saga.updated

\* register_saga on a key that is not there yet; a replay returns the row.
RegisterSaga ==
    /\ ~Registered
    /\ saga' = [saga EXCEPT !.disp = "READY"]
    /\ UNCHANGED <<events, effects, clock>>

\* Mutant of Claimable: a claim that ignores a running lease.
MutantClaimableAnyLease(ts) ==
    /\ Registered
    /\ saga.ms # PUBLISHED
    /\ saga.disp \notin {"QUARANTINED", "OPERATOR_REVIEW", "COMPLETED"}
    /\ saga.retry = NoTime \/ saga.retry <= ts

(***************************************************************************)
(* claim_saga: the WHERE clause of claim_worker, then the trigger.         *)
(***************************************************************************)
Claimable(ts) ==
    /\ Registered
    /\ saga.ms # PUBLISHED
    /\ saga.disp \notin {"QUARANTINED", "OPERATOR_REVIEW", "COMPLETED"}
    /\ saga.exp = NoTime \/ saga.exp <= ts
    /\ saga.retry = NoTime \/ saga.retry <= ts

ClaimSaga(token, lease, ts) ==
    /\ Claimable(ts)
    /\ RowAccepts(ts)
    /\ saga' = [saga EXCEPT !.disp = "CLAIMED", !.owner = token,
                            !.exp = ts + lease, !.retry = NoTime,
                            !.updated = ts]
    /\ UNCHANGED <<events, effects, clock>>

\* release_saga: only the holder of the token gives the lease back.
ReleaseSaga(token, ts) ==
    /\ saga.disp = "CLAIMED"
    /\ saga.owner = token
    /\ RowAccepts(ts)
    /\ saga' = [saga EXCEPT !.disp = "READY", !.owner = None,
                            !.exp = NoTime, !.updated = ts]
    /\ UNCHANGED <<events, effects, clock>>

\* Mutant of ReceiptOpen: a second receipt in place of the first.
MutantReceiptOpen(k) == effects[k].intent # None

(***************************************************************************)
(* record_effect_intent and record_effect_receipt look at the milestone    *)
(* and at the effect row only: neither the disposition nor the lease of    *)
(* the saga is consulted.                                                  *)
(***************************************************************************)
IntentFresh(k) ==
    /\ Registered
    /\ saga.ms = IntentMilestone[k]
    /\ effects[k].intent = None

IntentHeld(k, locator) == effects[k].intent = locator

RecordEffectIntent(k, locator) ==
    /\ IntentFresh(k)
    /\ effects' = [effects EXCEPT ![k].intent = locator]
    /\ UNCHANGED <<saga, events, clock>>

ReceiptOpen(k) ==
    /\ effects[k].intent # None
    /\ effects[k].receipt = None

RecordEffectReceipt(k, receipt) ==
    /\ ReceiptOpen(k)
    /\ effects' = [effects EXCEPT ![k].receipt = receipt]
    /\ UNCHANGED <<saga, events, clock>>

(***************************************************************************)
(* transition: one edge forward, on the exact digest the effect row holds; *)
(* the event and the row change together, and the lease is given up.  A    *)
(* call for the milestone the saga is already at is a replay, accepted     *)
(* only with the digest of the stored event.                               *)
(***************************************************************************)
HasPrerequisite(target, digest) ==
    LET e == effects[PrerequisiteKind[target]]
    IN  digest = IF RequiresReceipt(target) THEN e.receipt ELSE e.intent

TransitionReplayed(target, digest) ==
    /\ saga.ms = target
    /\ target \in DOMAIN events
    /\ events[target].prereq = digest

\* Mutant of TransitionLegal: the prerequisite effect is not consulted.
MutantTransitionLegal(target, digest) ==
    Registered /\ IsNextMilestone(saga.ms, target)

TransitionLegal(target, digest) ==
    /\ Registered
    /\ IsNextMilestone(saga.ms, target)
    /\ HasPrerequisite(target, digest)

TransitionEvent(target, digest, ts) ==
    [from |-> saga.ms, to |-> target, prereq |-> digest, at |-> ts]

Transition(target, digest, ts) ==
    /\ TransitionLegal(target, digest)
    /\ RowAccepts(ts)
    /\ events' = Append(events, TransitionEvent(target, digest, ts))
    /\ saga' = [ms |-> target,
                disp |-> IF target = PUBLISHED THEN "COMPLETED" ELSE "READY",
                owner |-> None, exp |-> NoTime, retry |-> NoTime,
                updated |-> ts]
    /\ UNCHANGED <<effects, clock>>

\* Mutant of RecordFailure: the failed saga is released, not parked.
MutantRecordFailureReady(disp, ts) ==
    /\ Registered
    /\ RowAccepts(ts)
    /\ saga' = [saga EXCEPT !.disp = "READY", !.owner = None,
                            !.exp = NoTime, !.retry = NoTime, !.updated = ts]
    /\ UNCHANGED <<events, effects, clock>>

(***************************************************************************)
(* record_failure: any caller may park the saga, whoever holds the lease.  *)
(***************************************************************************)
RecordFailure(disp, ts) ==
    /\ Registered
    /\ RowAccepts(ts)
    /\ saga' = [saga EXCEPT
                  !.disp = disp, !.owner = None, !.exp = NoTime,
                  !.retry = IF disp = "RETRY_WAIT" THEN ts + RetryDelay
                                                   ELSE NoTime,
                  !.updated = ts]
    /\ UNCHANGED <<events, effects, clock>>

Tick ==
    /\ clock < MaxClock
    /\ clock' = clock + 1
    /\ UNCHANGED <<saga, events, effects>>

SagaNext ==
    \/ RegisterSaga
    \/ \E t \in Tokens, lease \in 1..Lease, ts \in 0..clock :
          ClaimSaga(t, lease, ts)
    \/ \E t \in Tokens, ts \in 0..clock : ReleaseSaga(t, ts)
    \/ \E k \in Kinds, l \in Locators : RecordEffectIntent(k, l)
    \/ \E k \in Kinds, r \in Receipts : RecordEffectReceipt(k, r)
    \/ \E target \in 1..PUBLISHED, d \in Receipts \cup Locators,
          ts \in 0..clock : Transition(target, d, ts)
    \/ \E d \in FailureDispositions, ts \in 0..clock : RecordFailure(d, ts)
    \/ Tick

SagaSpec == SagaInit /\ [][SagaNext]_sagaVars

-----------------------------------------------------------------------------
Times == Nat \cup {NoTime}

EventRecords ==
    [from : Milestones, to : Milestones, prereq : Receipts \cup Locators,
     at : Nat]

\* The rows have the columns' types.
TypeOK ==
    /\ saga \in [ms : Milestones, disp : Dispositions \cup {"ABSENT"},
                 owner : Tokens \cup {None}, exp : Times, retry : Times,
                 updated : Nat]
    /\ events \in Seq(EventRecords)
    /\ effects \in [Kinds -> [intent : Locators \cup {None},
                              receipt : Receipts \cup {None}]]
    /\ clock \in Nat

(***************************************************************************)
(* The CHECKs of ingestion_sagas over columns written by six different     *)
(* calls: a lease exists exactly while the saga is CLAIMED, a pause        *)
(* exactly while it is in RETRY_WAIT, and COMPLETED means PUBLISHED.       *)
(***************************************************************************)
DispositionAgrees ==
    /\ saga.owner # None <=> saga.disp = "CLAIMED"
    /\ saga.exp # NoTime <=> saga.disp = "CLAIMED"
    /\ saga.retry # NoTime <=> saga.disp = "RETRY_WAIT"
    /\ saga.ms = PUBLISHED <=> saga.disp = "COMPLETED"

(***************************************************************************)
(* What verify_saga_event_chain accepts, and the order in time the trigger *)
(* adds: the events are exactly the edges climbed so far, in order, with   *)
(* timestamps that never run back even though every worker reads its own   *)
(* clock before its transaction.                                           *)
(***************************************************************************)
EventChain ==
    /\ Len(events) = saga.ms
    /\ \A i \in 1..Len(events) :
          /\ events[i].from = i - 1
          /\ events[i].to = i
          /\ events[i].at <= saga.updated
          /\ \A j \in 1..i : events[j].at <= events[i].at

(***************************************************************************)
(* Every milestone rests on evidence that is still there: the digest each  *)
(* event names is the one its effect row holds now, so a later call with   *)
(* other evidence has replaced nothing.                                    *)
(***************************************************************************)
EvidenceDurable ==
    \A i \in 1..Len(events) : HasPrerequisite(i, events[i].prereq)

(***************************************************************************)
(* The three tables tell one story in every reachable state: well-typed    *)
(* rows, a chain of events without gap, and the evidence of each event     *)
(* still in place.                                                         *)
(***************************************************************************)
StoreConsistent == TypeOK /\ EventChain /\ EvidenceDurable

(***************************************************************************)
(* Intents come before receipts and never before their milestone, however  *)
(* the calls are ordered.                                                  *)
(***************************************************************************)
IntentBeforeReceipt ==
    \A k \in Kinds :
       /\ effects[k].receipt # None => effects[k].intent # None
       /\ effects[k].intent # None =>
             Registered /\ saga.ms >= IntentMilestone[k]

(***************************************************************************)
(* A quarantined or published saga keeps its row and its history for good: *)
(* a late failure, a late transition or a new claim changes nothing.       *)
(***************************************************************************)
SettledIsFrozen ==
    [][saga.disp \in {"QUARANTINED", "COMPLETED"} =>
          UNCHANGED <<saga, events>>]_sagaVars

(***************************************************************************)
(* A lease passes from one worker to another only after it has run out.    *)
(***************************************************************************)
LeaseHonoured ==
    [][(saga.owner # None /\ saga'.owner # None /\ saga'.owner # saga.owner)
          => saga.exp <= saga'.updated]_sagaVars

(***************************************************************************)
(* A paused saga is not claimed before its retry time.                     *)
(***************************************************************************)
PauseHonoured ==
    [][(saga.disp = "RETRY_WAIT" /\ saga'.disp = "CLAIMED")
          => saga.retry <= saga'.updated]_sagaVars

\* The store implements the contract.
Contract == INSTANCE SagaContract WITH
    stage    <- saga.ms,
    fate     <- IF saga.disp \in {"ABSENT", "QUARANTINED", "COMPLETED"}
                THEN saga.disp ELSE "OPEN",
    declared <- {k \in Kinds : effects[k].intent # None},
    proven   <- {k \in Kinds : effects[k].receipt # None}

(***************************************************************************)
(* The store keeps the promise of SagaContract: one edge at a time, on     *)
(* durable evidence, and nothing after quarantine or publication.          *)
(***************************************************************************)
ImplementsContract == Contract!ContractSpec
=============================================================================
