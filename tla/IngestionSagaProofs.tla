------------------------- MODULE IngestionSagaProofs -------------------------
(***************************************************************************)
(* Proofs about IngestionSaga, for every set of workers, evidence and      *)
(* locators, every lease and pause, and an unbounded clock.                *)
(*                                                                         *)
(* SagaInv is the inductive invariant.  TypeOK and DispositionAgrees are   *)
(* inductive together; EventChain needs TypeOK; EvidenceDurable needs      *)
(* EventChain (an event's position is its target), and a row whose disp is *)
(* "COMPLETED" refuses updates only because DispositionAgrees ties it to   *)
(* PUBLISHED, which is what the trigger looks at.                          *)
(***************************************************************************)
EXTENDS IngestionSaga, TLAPS

SagaInv ==
    /\ TypeOK
    /\ DispositionAgrees
    /\ EventChain
    /\ EvidenceDurable
    /\ IntentBeforeReceipt

(***************************************************************************)
(* The milestones are the numbers 0..8, spelled out for the provers.       *)
(***************************************************************************)
LEMMA MilestoneValues ==
    /\ REGISTERED = 0 /\ ACQUIRED_LOCAL = 1 /\ HASH_VERIFIED = 2
    /\ SNAPSHOT_UPLOAD_PENDING = 3 /\ SNAPSHOT_UPLOADED = 4
    /\ SNAPSHOT_LOCK_VERIFIED = 5 /\ PARSED = 6 /\ VALIDATED = 7
    /\ PUBLISHED = 8
    /\ Milestones = 0..8
BY DEF REGISTERED, ACQUIRED_LOCAL, HASH_VERIFIED, SNAPSHOT_UPLOAD_PENDING,
       SNAPSHOT_UPLOADED, SNAPSHOT_LOCK_VERIFIED, PARSED, VALIDATED,
       PUBLISHED, Milestones

(***************************************************************************)
(* Every edge waits for one of the seven effects.                          *)
(***************************************************************************)
LEMMA PrerequisiteKinds ==
    \A t \in 1..8 : PrerequisiteKind[t] \in Kinds
<1>1. PrerequisiteKind \in [1..8 -> Kinds]
  BY DEF PrerequisiteKind, Kinds
<1> QED BY <1>1

(***************************************************************************)
(* The row, the events and the effects keep their types in every step.     *)
(***************************************************************************)
LEMMA TypeOKStep ==
    ASSUME TypeOK, [SagaNext]_sagaVars
    PROVE  TypeOK'
<1> USE SagaAssumption, MilestoneValues DEF TypeOK, Times, NoTime
<1>1. CASE RegisterSaga
  BY <1>1 DEF RegisterSaga, Dispositions
<1>2. ASSUME NEW t \in Tokens, NEW lease \in 1..Lease, NEW ts \in 0..clock,
             ClaimSaga(t, lease, ts)
      PROVE  TypeOK'
  <2>1. /\ ts \in Nat
        /\ ts + lease \in Nat
    OBVIOUS
  <2> QED BY <1>2, <2>1 DEF ClaimSaga, Dispositions
<1>3. ASSUME NEW t \in Tokens, NEW ts \in 0..clock, ReleaseSaga(t, ts)
      PROVE  TypeOK'
  <2>1. ts \in Nat
    OBVIOUS
  <2>2. saga' \in [ms : Milestones, disp : Dispositions \cup {"ABSENT"},
                   owner : Tokens \cup {None}, exp : Times, retry : Times,
                   updated : Nat]
    BY <1>3, <2>1 DEF ReleaseSaga, Dispositions
  <2> QED BY <1>3, <2>2 DEF ReleaseSaga
<1>4. ASSUME NEW k \in Kinds, NEW l \in Locators, RecordEffectIntent(k, l)
      PROVE  TypeOK'
  BY <1>4 DEF RecordEffectIntent
<1>5. ASSUME NEW k \in Kinds, NEW r \in Receipts, RecordEffectReceipt(k, r)
      PROVE  TypeOK'
  BY <1>5 DEF RecordEffectReceipt
<1>6. ASSUME NEW target \in 1..PUBLISHED, NEW d \in Receipts \cup Locators,
             NEW ts \in 0..clock, Transition(target, d, ts)
      PROVE  TypeOK'
  <2>1. TransitionEvent(target, d, ts) \in EventRecords
    BY DEF TransitionEvent, EventRecords
  <2>2. events' \in Seq(EventRecords)
    BY <1>6, <2>1 DEF Transition
  <2>3. saga' \in [ms : Milestones, disp : Dispositions \cup {"ABSENT"},
                   owner : Tokens \cup {None}, exp : Times, retry : Times,
                   updated : Nat]
    BY <1>6 DEF Transition, Dispositions
  <2> QED BY <1>6, <2>2, <2>3 DEF Transition
<1>7. ASSUME NEW d \in FailureDispositions, NEW ts \in 0..clock,
             RecordFailure(d, ts)
      PROVE  TypeOK'
  <2>1. /\ ts \in Nat
        /\ ts + RetryDelay \in Nat
        /\ d \in Dispositions
    BY DEF FailureDispositions, Dispositions
  <2> QED BY <1>7, <2>1 DEF RecordFailure
<1>8. CASE Tick
  BY <1>8 DEF Tick
<1>9. CASE UNCHANGED sagaVars
  BY <1>9 DEF sagaVars
<1> QED BY <1>1, <1>2, <1>3, <1>4, <1>5, <1>6, <1>7, <1>8, <1>9 DEF SagaNext

LEMMA TypeOKInit ==
    ASSUME SagaInit
    PROVE  TypeOK
<1>1. <<>> \in Seq(EventRecords)
  OBVIOUS
<1> QED BY <1>1, SagaAssumption, MilestoneValues
        DEF SagaInit, TypeOK, Unregistered, Times, NoTime

(***************************************************************************)
(* The rows of every reachable store have the columns' types.              *)
(***************************************************************************)
THEOREM TypeCorrect == SagaSpec => []TypeOK
<1>1. SagaInit => TypeOK
  BY TypeOKInit
<1>2. TypeOK /\ [SagaNext]_sagaVars => TypeOK'
  BY TypeOKStep
<1> QED BY <1>1, <1>2, PTL DEF SagaSpec

(***************************************************************************)
(* Lease, pause and completion columns follow the disposition in every     *)
(* step: the six calls that write the row agree with each other.           *)
(***************************************************************************)
LEMMA DispositionAgreesStep ==
    ASSUME TypeOK, DispositionAgrees, [SagaNext]_sagaVars
    PROVE  DispositionAgrees'
<1> USE SagaAssumption, MilestoneValues
    DEF TypeOK, DispositionAgrees, Times, NoTime
<1>1. CASE RegisterSaga
  BY <1>1 DEF RegisterSaga, Registered
<1>2. ASSUME NEW t \in Tokens, NEW lease \in 1..Lease, NEW ts \in 0..clock,
             ClaimSaga(t, lease, ts)
      PROVE  DispositionAgrees'
  <2>1. /\ t # None
        /\ ts + lease # -1
    OBVIOUS
  <2> QED BY <1>2, <2>1 DEF ClaimSaga, Claimable
<1>3. ASSUME NEW t \in Tokens, NEW ts \in 0..clock, ReleaseSaga(t, ts)
      PROVE  DispositionAgrees'
  BY <1>3 DEF ReleaseSaga, RowAccepts
<1>4. CASE UNCHANGED saga
  BY <1>4
<1>5. ASSUME NEW target \in 1..PUBLISHED, NEW d \in Receipts \cup Locators,
             NEW ts \in 0..clock, Transition(target, d, ts)
      PROVE  DispositionAgrees'
  BY <1>5 DEF Transition
<1>6. ASSUME NEW d \in FailureDispositions, NEW ts \in 0..clock,
             RecordFailure(d, ts)
      PROVE  DispositionAgrees'
  <2>1. /\ ts + RetryDelay # -1
        /\ d \notin {"CLAIMED", "COMPLETED"}
    BY DEF FailureDispositions
  <2> QED BY <1>6, <2>1 DEF RecordFailure, RowAccepts
<1> QED BY <1>1, <1>2, <1>3, <1>4, <1>5, <1>6
        DEF SagaNext, RecordEffectIntent, RecordEffectReceipt, Tick, sagaVars

(***************************************************************************)
(* Intents precede receipts and never run ahead of their milestone.        *)
(***************************************************************************)
LEMMA IntentBeforeReceiptStep ==
    ASSUME TypeOK, IntentBeforeReceipt, [SagaNext]_sagaVars
    PROVE  IntentBeforeReceipt'
<1> USE SagaAssumption, MilestoneValues DEF TypeOK, IntentBeforeReceipt
<1>1. IntentMilestone \in [Kinds -> 0..8]
  BY DEF IntentMilestone
<1>2. CASE RegisterSaga
  BY <1>2 DEF RegisterSaga, Registered
<1>3. CASE /\ UNCHANGED effects
           /\ saga'.ms = saga.ms
           /\ Registered'
  BY <1>3
<1>4. ASSUME NEW k \in Kinds, NEW l \in Locators, RecordEffectIntent(k, l)
      PROVE  IntentBeforeReceipt'
  BY <1>1, <1>4 DEF RecordEffectIntent, IntentFresh, Registered
<1>5. ASSUME NEW k \in Kinds, NEW r \in Receipts, RecordEffectReceipt(k, r)
      PROVE  IntentBeforeReceipt'
  BY <1>5 DEF RecordEffectReceipt, ReceiptOpen, Registered
<1>6. ASSUME NEW target \in 1..PUBLISHED, NEW d \in Receipts \cup Locators,
             NEW ts \in 0..clock, Transition(target, d, ts)
      PROVE  IntentBeforeReceipt'
  <2>1. /\ saga'.ms = saga.ms + 1
        /\ saga'.disp # "ABSENT"
        /\ UNCHANGED effects
    BY <1>6 DEF Transition, TransitionLegal, IsNextMilestone
  <2> QED BY <1>1, <2>1 DEF Registered
<1>7. ASSUME NEW t \in Tokens, NEW lease \in 1..Lease, NEW ts \in 0..clock,
             ClaimSaga(t, lease, ts)
      PROVE  IntentBeforeReceipt'
  BY <1>3, <1>7 DEF ClaimSaga, Registered
<1>8. ASSUME NEW t \in Tokens, NEW ts \in 0..clock, ReleaseSaga(t, ts)
      PROVE  IntentBeforeReceipt'
  BY <1>3, <1>8 DEF ReleaseSaga, Registered
<1>9. ASSUME NEW d \in FailureDispositions, NEW ts \in 0..clock,
             RecordFailure(d, ts)
      PROVE  IntentBeforeReceipt'
  BY <1>3, <1>9 DEF RecordFailure, Registered, FailureDispositions
<1>10. CASE UNCHANGED <<saga, effects>>
  BY <1>10 DEF Registered
<1> QED BY <1>2, <1>4, <1>5, <1>6, <1>7, <1>8, <1>9, <1>10
        DEF SagaNext, Tick, sagaVars

(***************************************************************************)
(* What one transition does to the history: exactly one event is added, at *)
(* the position of the milestone it leads to.                              *)
(***************************************************************************)
LEMMA TransitionAppends ==
    ASSUME TypeOK, EventChain,
           NEW target \in 1..PUBLISHED, NEW d \in Receipts \cup Locators,
           NEW ts \in 0..clock, Transition(target, d, ts)
    PROVE  /\ target = saga.ms + 1
           /\ Len(events') = target
           /\ events'[target] = TransitionEvent(target, d, ts)
           /\ \A i \in 1..saga.ms : events'[i] = events[i]
           /\ saga'.ms = target
           /\ saga'.updated = ts
           /\ saga.updated <= ts
<1> USE MilestoneValues DEF TypeOK
<1>1. /\ target = saga.ms + 1
      /\ Len(events) = saga.ms
      /\ events' = Append(events, TransitionEvent(target, d, ts))
      /\ saga'.ms = target
      /\ saga'.updated = ts
      /\ saga.updated <= ts
  BY DEF Transition, TransitionLegal, IsNextMilestone, EventChain, RowAccepts
<1>2. TransitionEvent(target, d, ts) \in EventRecords
  BY DEF TransitionEvent, EventRecords
<1>3. /\ Len(events') = Len(events) + 1
      /\ events'[Len(events) + 1] = TransitionEvent(target, d, ts)
      /\ \A i \in 1..Len(events) : events'[i] = events[i]
  BY <1>1, <1>2
<1> QED BY <1>1, <1>3

(***************************************************************************)
(* The events stay the edges climbed so far, in order of position and of   *)
(* time.                                                                   *)
(***************************************************************************)
LEMMA EventChainStep ==
    ASSUME TypeOK, EventChain, [SagaNext]_sagaVars
    PROVE  EventChain'
<1> USE MilestoneValues DEF TypeOK
<1>0. /\ Len(events) = saga.ms
      /\ \A i \in 1..saga.ms :
            /\ events[i].at \in Nat
            /\ events[i].from = i - 1
            /\ events[i].to = i
            /\ events[i].at <= saga.updated
            /\ \A j \in 1..i : events[j].at <= events[i].at
  <2>1. \A i \in 1..Len(events) : events[i] \in EventRecords
    OBVIOUS
  <2> QED BY <2>1 DEF EventChain, EventRecords
<1>1. CASE /\ UNCHANGED events
           /\ saga'.ms = saga.ms
           /\ saga'.updated \in Nat
           /\ saga'.updated >= saga.updated
  <2>1. \A i \in 1..saga.ms : events[i].at <= saga'.updated
    BY <1>0, <1>1
  <2> QED BY <1>0, <1>1, <2>1 DEF EventChain
<1>2. ASSUME NEW target \in 1..PUBLISHED, NEW d \in Receipts \cup Locators,
             NEW ts \in 0..clock, Transition(target, d, ts)
      PROVE  EventChain'
  <2>1. /\ target = saga.ms + 1
        /\ Len(events') = target
        /\ events'[target] = TransitionEvent(target, d, ts)
        /\ \A i \in 1..saga.ms : events'[i] = events[i]
        /\ saga'.ms = target
        /\ saga'.updated = ts
        /\ saga.updated <= ts
    BY <1>2, TransitionAppends
  <2>2. /\ events'[target].from = target - 1
        /\ events'[target].to = target
        /\ events'[target].at = ts
    BY <2>1 DEF TransitionEvent
  <2>3. \A i \in 1..saga.ms : events[i].at <= ts
    BY <1>0, <2>1
  <2>4. ASSUME NEW i \in 1..target
        PROVE  /\ events'[i].from = i - 1
               /\ events'[i].to = i
               /\ events'[i].at <= ts
               /\ \A j \in 1..i : events'[j].at <= events'[i].at
    <3>1. CASE i \in 1..saga.ms
      <4>1. \A j \in 1..i : events'[j] = events[j]
        BY <2>1, <3>1
      <4> QED BY <1>0, <2>1, <2>3, <3>1, <4>1
    <3>2. CASE i = target
      <4>1. \A j \in 1..i : j \in 1..saga.ms \/ j = target
        BY <2>1, <3>2
      <4>2. \A j \in 1..i : events'[j].at <= ts
        BY <2>1, <2>2, <2>3, <4>1
      <4> QED BY <2>2, <3>2, <4>2
    <3> QED BY <2>1, <3>1, <3>2
  <2> QED BY <2>1, <2>4 DEF EventChain
<1>3. ASSUME NEW t \in Tokens, NEW lease \in 1..Lease, NEW ts \in 0..clock,
             ClaimSaga(t, lease, ts)
      PROVE  EventChain'
  BY <1>1, <1>3 DEF ClaimSaga, RowAccepts
<1>4. ASSUME NEW t \in Tokens, NEW ts \in 0..clock, ReleaseSaga(t, ts)
      PROVE  EventChain'
  BY <1>1, <1>4 DEF ReleaseSaga, RowAccepts
<1>5. ASSUME NEW d \in FailureDispositions, NEW ts \in 0..clock,
             RecordFailure(d, ts)
      PROVE  EventChain'
  BY <1>1, <1>5 DEF RecordFailure, RowAccepts
<1>6. CASE RegisterSaga
  BY <1>1, <1>6 DEF RegisterSaga
<1>7. CASE UNCHANGED <<saga, events>>
  BY <1>1, <1>7
<1> QED BY <1>2, <1>3, <1>4, <1>5, <1>6, <1>7
        DEF SagaNext, RecordEffectIntent, RecordEffectReceipt, Tick, sagaVars

(***************************************************************************)
(* A recorded intent or receipt is never replaced: the store only fills    *)
(* NULL columns.                                                           *)
(***************************************************************************)
LEMMA EvidenceIsAppendOnly ==
    ASSUME TypeOK, [SagaNext]_sagaVars, NEW k \in Kinds
    PROVE  /\ effects[k].intent # None =>
                 effects'[k].intent = effects[k].intent
           /\ effects[k].receipt # None =>
                 effects'[k].receipt = effects[k].receipt
<1>1. ASSUME NEW q \in Kinds, NEW l \in Locators, RecordEffectIntent(q, l)
      PROVE  /\ effects[k].intent # None =>
                   effects'[k].intent = effects[k].intent
             /\ effects'[k].receipt = effects[k].receipt
  BY <1>1 DEF TypeOK, RecordEffectIntent, IntentFresh
<1>2. ASSUME NEW q \in Kinds, NEW r \in Receipts, RecordEffectReceipt(q, r)
      PROVE  /\ effects'[k].intent = effects[k].intent
             /\ effects[k].receipt # None =>
                   effects'[k].receipt = effects[k].receipt
  BY <1>2 DEF TypeOK, RecordEffectReceipt, ReceiptOpen
<1> QED BY <1>1, <1>2
        DEF SagaNext, RegisterSaga, ClaimSaga, ReleaseSaga, Transition,
            RecordFailure, Tick, sagaVars

(***************************************************************************)
(* Each event keeps naming the digest its effect row holds.                *)
(***************************************************************************)
LEMMA EvidenceDurableStep ==
    ASSUME TypeOK, EventChain, EvidenceDurable, [SagaNext]_sagaVars
    PROVE  EvidenceDurable'
<1> USE MilestoneValues
<1>1. ASSUME NEW i \in 1..saga.ms
      PROVE  /\ events[i].prereq # None
             /\ i \in 1..8
             /\ HasPrerequisite(i, events[i].prereq)
  <2>1. \A n \in 1..Len(events) : events[n] \in EventRecords
    BY DEF TypeOK
  <2>2. Len(events) = saga.ms /\ saga.ms \in 0..8
    BY DEF EventChain, TypeOK
  <2>3. i \in 1..Len(events) /\ i \in 1..8
    BY <2>2
  <2>4. events[i].prereq \in Receipts \cup Locators
    BY <2>1, <2>3 DEF EventRecords
  <2> QED BY <2>3, <2>4, SagaAssumption DEF EvidenceDurable
<1>2. ASSUME NEW i \in 1..saga.ms, events'[i].prereq = events[i].prereq
      PROVE  HasPrerequisite(i, events[i].prereq)'
  <2>1. PrerequisiteKind[i] \in Kinds
    BY <1>1, PrerequisiteKinds
  <2>2. /\ effects[PrerequisiteKind[i]].intent # None =>
              effects'[PrerequisiteKind[i]].intent
                = effects[PrerequisiteKind[i]].intent
        /\ effects[PrerequisiteKind[i]].receipt # None =>
              effects'[PrerequisiteKind[i]].receipt
                = effects[PrerequisiteKind[i]].receipt
    BY <2>1, EvidenceIsAppendOnly
  <2>3. /\ events[i].prereq # None
        /\ HasPrerequisite(i, events[i].prereq)
    BY <1>1
  <2>4. CASE RequiresReceipt(i)
    BY <1>2, <2>2, <2>3, <2>4 DEF HasPrerequisite, RequiresReceipt
  <2>5. CASE ~RequiresReceipt(i)
    BY <1>2, <2>2, <2>3, <2>5 DEF HasPrerequisite, RequiresReceipt
  <2> QED BY <2>4, <2>5
<1>3. CASE UNCHANGED events
  <2>1. Len(events) = saga.ms
    BY DEF EventChain
  <2> QED BY <1>2, <1>3, <2>1 DEF EvidenceDurable
<1>4. ASSUME NEW target \in 1..PUBLISHED, NEW d \in Receipts \cup Locators,
             NEW ts \in 0..clock, Transition(target, d, ts)
      PROVE  EvidenceDurable'
  <2>1. /\ target = saga.ms + 1
        /\ Len(events') = target
        /\ events'[target] = TransitionEvent(target, d, ts)
        /\ \A i \in 1..saga.ms : events'[i] = events[i]
    BY <1>4, TransitionAppends
  <2>2. saga.ms \in Nat
    BY DEF TypeOK
  <2>3. ASSUME NEW i \in 1..target
        PROVE  HasPrerequisite(i, events[i].prereq)'
    <3>1. CASE i \in 1..saga.ms
      BY <1>2, <2>1, <3>1
    <3>2. CASE i = target
      <4>1. events'[i].prereq = d
        BY <2>1, <3>2 DEF TransitionEvent
      <4>2. UNCHANGED effects /\ HasPrerequisite(i, d)
        BY <1>4, <3>2 DEF Transition, TransitionLegal
      <4> QED BY <4>1, <4>2 DEF HasPrerequisite, RequiresReceipt
    <3> QED BY <2>1, <2>2, <3>1, <3>2
  <2> QED BY <2>1, <2>3 DEF EvidenceDurable
<1> QED BY <1>3, <1>4
        DEF SagaNext, RegisterSaga, ClaimSaga, ReleaseSaga,
            RecordEffectIntent, RecordEffectReceipt, RecordFailure, Tick,
            sagaVars

LEMMA SagaInvInit ==
    ASSUME SagaInit
    PROVE  SagaInv
<1>1. TypeOK
  BY TypeOKInit
<1>2. DispositionAgrees
  BY SagaAssumption, MilestoneValues
     DEF SagaInit, Unregistered, DispositionAgrees, NoTime
<1>3. Len(events) = 0
  BY DEF SagaInit
<1>4. EventChain /\ EvidenceDurable
  BY <1>3, MilestoneValues
     DEF SagaInit, Unregistered, EventChain, EvidenceDurable
<1>5. IntentBeforeReceipt
  BY DEF SagaInit, IntentBeforeReceipt
<1> QED BY <1>1, <1>2, <1>4, <1>5 DEF SagaInv

LEMMA SagaInvStep ==
    ASSUME SagaInv, [SagaNext]_sagaVars
    PROVE  SagaInv'
BY TypeOKStep, DispositionAgreesStep, EventChainStep, EvidenceDurableStep,
   IntentBeforeReceiptStep
   DEF SagaInv

THEOREM SagaInvariant == SagaSpec => []SagaInv
<1>1. SagaInit => SagaInv
  BY SagaInvInit
<1>2. SagaInv /\ [SagaNext]_sagaVars => SagaInv'
  BY SagaInvStep
<1> QED BY <1>1, <1>2, PTL DEF SagaSpec

(***************************************************************************)
(* Lease, pause and completion columns agree with the disposition.         *)
(***************************************************************************)
THEOREM DispositionAlwaysAgrees == SagaSpec => []DispositionAgrees
<1>1. SagaInv => DispositionAgrees
  BY DEF SagaInv
<1> QED BY <1>1, SagaInvariant, PTL

(***************************************************************************)
(* The event table is the exact, ordered history of the row.               *)
(***************************************************************************)
THEOREM EventChainHolds == SagaSpec => []EventChain
<1>1. SagaInv => EventChain
  BY DEF SagaInv
<1> QED BY <1>1, SagaInvariant, PTL

(***************************************************************************)
(* No milestone loses the evidence it was reached on.                      *)
(***************************************************************************)
THEOREM EvidenceIsDurable == SagaSpec => []EvidenceDurable
<1>1. SagaInv => EvidenceDurable
  BY DEF SagaInv
<1> QED BY <1>1, SagaInvariant, PTL

(***************************************************************************)
(* Rows, events and evidence agree, for every number of workers and every  *)
(* order of their calls.                                                   *)
(***************************************************************************)
THEOREM StoreStaysConsistent == SagaSpec => []StoreConsistent
BY TypeCorrect, EventChainHolds, EvidenceIsDurable, PTL DEF StoreConsistent

(***************************************************************************)
(* Nothing changes a quarantined or completed row, nor its history: every  *)
(* call that writes the row passes the trigger, which looks at             *)
(* "QUARANTINED" and at PUBLISHED, and DispositionAgrees makes the latter  *)
(* the same as "COMPLETED".                                                *)
(***************************************************************************)
THEOREM SettledStaysFrozen == SagaSpec => SettledIsFrozen
<1>1. ASSUME SagaInv, [SagaNext]_sagaVars,
             saga.disp \in {"QUARANTINED", "COMPLETED"}
      PROVE  UNCHANGED <<saga, events>>
  <2>1. \A ts : ~RowAccepts(ts)
    BY <1>1 DEF SagaInv, DispositionAgrees, RowAccepts
  <2>2. ~RegisterSaga
    BY <1>1 DEF RegisterSaga, Registered
  <2> QED BY <1>1, <2>1, <2>2
          DEF SagaNext, ClaimSaga, ReleaseSaga, RecordEffectIntent,
              RecordEffectReceipt, Transition, RecordFailure, Tick, sagaVars
<1>2. SagaInv /\ [SagaNext]_sagaVars =>
         [saga.disp \in {"QUARANTINED", "COMPLETED"} =>
             UNCHANGED <<saga, events>>]_sagaVars
  BY <1>1
<1> QED BY <1>2, SagaInvariant, PTL DEF SagaSpec, SettledIsFrozen

(***************************************************************************)
(* A lease changes hands only after it has expired.                        *)
(***************************************************************************)
THEOREM LeaseIsHonoured == SagaSpec => LeaseHonoured
<1>1. ASSUME SagaInv, [SagaNext]_sagaVars,
             saga.owner # None, saga'.owner # None, saga'.owner # saga.owner
      PROVE  saga.exp <= saga'.updated
  <2>1. saga.exp # NoTime
    BY <1>1 DEF SagaInv, DispositionAgrees
  <2>2. PICK t \in Tokens, lease \in 1..Lease, ts \in 0..clock :
                ClaimSaga(t, lease, ts)
    <3>1. RegisterSaga => saga'.owner = saga.owner
      BY <1>1 DEF SagaInv, TypeOK, RegisterSaga
    <3>2. \A t, ts : ReleaseSaga(t, ts) => saga'.owner = None
      BY <1>1 DEF SagaInv, TypeOK, ReleaseSaga
    <3>3. \A target, d, ts : Transition(target, d, ts) => saga'.owner = None
      BY DEF Transition
    <3>4. \A d, ts : RecordFailure(d, ts) => saga'.owner = None
      BY <1>1 DEF SagaInv, TypeOK, RecordFailure
    <3>5. UNCHANGED saga => saga'.owner = saga.owner
      OBVIOUS
    <3> QED BY <1>1, <3>1, <3>2, <3>3, <3>4, <3>5
            DEF SagaNext, RecordEffectIntent, RecordEffectReceipt, Tick,
                sagaVars
  <2> QED BY <1>1, <2>1, <2>2 DEF SagaInv, TypeOK, ClaimSaga, Claimable
<1>2. SagaInv /\ [SagaNext]_sagaVars =>
         [(saga.owner # None /\ saga'.owner # None
              /\ saga'.owner # saga.owner)
             => saga.exp <= saga'.updated]_sagaVars
  BY <1>1
<1> QED BY <1>2, SagaInvariant, PTL DEF SagaSpec, LeaseHonoured

(***************************************************************************)
(* A paused saga is claimed only once its retry time has come.             *)
(***************************************************************************)
THEOREM PauseIsHonoured == SagaSpec => PauseHonoured
<1>1. ASSUME SagaInv, [SagaNext]_sagaVars,
             saga.disp = "RETRY_WAIT", saga'.disp = "CLAIMED"
      PROVE  saga.retry <= saga'.updated
  <2>1. saga.retry # NoTime
    BY <1>1 DEF SagaInv, DispositionAgrees
  <2>2. PICK t \in Tokens, lease \in 1..Lease, ts \in 0..clock :
                ClaimSaga(t, lease, ts)
    <3>1. ~RegisterSaga
      BY <1>1 DEF RegisterSaga, Registered
    <3>2. \A t, ts : ~ReleaseSaga(t, ts)
      BY <1>1 DEF ReleaseSaga
    <3>3. \A target, d, ts : ~Transition(target, d, ts)
      BY <1>1 DEF Transition
    <3>4. \A d \in FailureDispositions : \A ts : ~RecordFailure(d, ts)
      BY <1>1 DEF SagaInv, TypeOK, RecordFailure, FailureDispositions
    <3> QED BY <1>1, <3>1, <3>2, <3>3, <3>4
            DEF SagaNext, RecordEffectIntent, RecordEffectReceipt, Tick,
                sagaVars
  <2> QED BY <1>1, <2>1, <2>2 DEF SagaInv, TypeOK, ClaimSaga, Claimable
<1>2. SagaInv /\ [SagaNext]_sagaVars =>
         [(saga.disp = "RETRY_WAIT" /\ saga'.disp = "CLAIMED")
             => saga.retry <= saga'.updated]_sagaVars
  BY <1>1
<1> QED BY <1>2, SagaInvariant, PTL DEF SagaSpec, PauseHonoured

-----------------------------------------------------------------------------
(***************************************************************************)
(* The store implements SagaContract.  The mapping forgets leases, pauses  *)
(* and clocks: a claim, a release and a retry are stuttering steps.        *)
(***************************************************************************)
fateBar == IF saga.disp \in {"ABSENT", "QUARANTINED", "COMPLETED"}
           THEN saga.disp ELSE "OPEN"
declaredBar == {k \in Kinds : effects[k].intent # None}
provenBar == {k \in Kinds : effects[k].receipt # None}

(***************************************************************************)
(* The contract's copy of the milestones, with the bars above in place.    *)
(***************************************************************************)
LEMMA ContractMeaning ==
    /\ Contract!PUBLISHED = 8
    /\ Contract!REGISTERED = 0
    /\ Contract!Kinds = Kinds
    /\ Contract!PrerequisiteKind = PrerequisiteKind
    /\ Contract!IntentMilestone = IntentMilestone
    /\ \A t : Contract!RequiresReceipt(t) <=> RequiresReceipt(t)
BY DEF Contract!PUBLISHED, Contract!REGISTERED, Contract!Kinds, Kinds,
       Contract!PrerequisiteKind, PrerequisiteKind,
       Contract!IntentMilestone, IntentMilestone,
       Contract!RequiresReceipt, RequiresReceipt,
       Contract!SNAPSHOT_UPLOAD_PENDING, SNAPSHOT_UPLOAD_PENDING,
       Contract!ACQUIRED_LOCAL, ACQUIRED_LOCAL,
       Contract!HASH_VERIFIED, HASH_VERIFIED, REGISTERED,
       Contract!SNAPSHOT_UPLOADED, SNAPSHOT_UPLOADED,
       Contract!SNAPSHOT_LOCK_VERIFIED, SNAPSHOT_LOCK_VERIFIED,
       Contract!PARSED, PARSED, Contract!VALIDATED, VALIDATED

(***************************************************************************)
(* A step that leaves the milestone, the evidence and the fate alone is a  *)
(* stuttering step of the contract.                                        *)
(***************************************************************************)
LEMMA ContractStutters ==
    ASSUME saga'.ms = saga.ms, UNCHANGED effects, fateBar' = fateBar
    PROVE  UNCHANGED Contract!contractVars
BY DEF Contract!contractVars, fateBar

LEMMA ContractInitially ==
    ASSUME SagaInit
    PROVE  Contract!ContractInit
BY ContractMeaning, MilestoneValues
   DEF SagaInit, Unregistered, Contract!ContractInit

(***************************************************************************)
(* Every step of the store is a step of the contract or a stutter.         *)
(***************************************************************************)
LEMMA ContractStep ==
    ASSUME SagaInv, [SagaNext]_sagaVars
    PROVE  [Contract!ContractNext]_(Contract!contractVars)
<1> USE DEF SagaInv, TypeOK
<1>1. CASE RegisterSaga
  <2>1. /\ saga.disp = "ABSENT"
        /\ saga'.disp = "READY"
        /\ saga'.ms = saga.ms
        /\ UNCHANGED effects
    BY <1>1 DEF RegisterSaga, Registered
  <2>2. Contract!Register
    BY <2>1 DEF Contract!Register
  <2> QED BY <2>2 DEF Contract!ContractNext
<1>2. ASSUME NEW t \in Tokens, NEW lease \in 1..Lease, NEW ts \in 0..clock,
             ClaimSaga(t, lease, ts)
      PROVE  UNCHANGED Contract!contractVars
  BY <1>2, ContractStutters DEF ClaimSaga, Claimable, Registered, fateBar
<1>3. ASSUME NEW t \in Tokens, NEW ts \in 0..clock, ReleaseSaga(t, ts)
      PROVE  UNCHANGED Contract!contractVars
  BY <1>3, ContractStutters DEF ReleaseSaga, fateBar
<1>4. ASSUME NEW k \in Kinds, NEW l \in Locators, RecordEffectIntent(k, l)
      PROVE  Contract!ContractNext
  <2>1. declaredBar' = declaredBar \cup {k}
    BY <1>4, SagaAssumption DEF RecordEffectIntent, declaredBar
  <2>2. provenBar' = provenBar
    BY <1>4 DEF RecordEffectIntent, provenBar
  <2>3. /\ UNCHANGED saga
        /\ saga.disp # "ABSENT"
        /\ saga.ms = IntentMilestone[k]
    BY <1>4 DEF RecordEffectIntent, IntentFresh, Registered
  <2>4. Contract!Declare(k)
    BY <2>1, <2>2, <2>3, ContractMeaning
       DEF Contract!Declare, declaredBar, provenBar
  <2> QED BY <2>4, ContractMeaning DEF Contract!ContractNext
<1>5. ASSUME NEW k \in Kinds, NEW r \in Receipts, RecordEffectReceipt(k, r)
      PROVE  Contract!ContractNext
  <2>1. provenBar' = provenBar \cup {k}
    BY <1>5, SagaAssumption DEF RecordEffectReceipt, provenBar
  <2>2. declaredBar' = declaredBar
    BY <1>5 DEF RecordEffectReceipt, declaredBar
  <2>3. UNCHANGED saga /\ k \in declaredBar
    BY <1>5 DEF RecordEffectReceipt, ReceiptOpen, declaredBar
  <2>4. Contract!Prove(k)
    BY <2>1, <2>2, <2>3 DEF Contract!Prove, declaredBar, provenBar
  <2> QED BY <2>4, ContractMeaning DEF Contract!ContractNext
<1>6. ASSUME NEW target \in 1..PUBLISHED, NEW d \in Receipts \cup Locators,
             NEW ts \in 0..clock, Transition(target, d, ts)
      PROVE  Contract!ContractNext
  <2>1. /\ target = saga.ms + 1
        /\ target \in 1..8
        /\ saga.ms < 8
        /\ saga'.ms = target
        /\ UNCHANGED effects
        /\ HasPrerequisite(target, d)
        /\ d # None
    BY <1>6, SagaAssumption, MilestoneValues
       DEF Transition, TransitionLegal, IsNextMilestone
  <2>2. /\ fateBar = "OPEN"
        /\ fateBar' = IF target = 8 THEN "COMPLETED" ELSE "OPEN"
    BY <1>6, MilestoneValues
       DEF Transition, TransitionLegal, Registered, RowAccepts, fateBar,
           DispositionAgrees
  <2>3. PrerequisiteKind[target] \in Kinds
    BY <2>1, PrerequisiteKinds
  <2>4. IF RequiresReceipt(target)
        THEN PrerequisiteKind[target] \in provenBar
        ELSE PrerequisiteKind[target] \in declaredBar
    BY <2>1, <2>3 DEF HasPrerequisite, provenBar, declaredBar
  <2>5. Contract!Evidenced(saga.ms + 1)
    BY <2>1, <2>4, ContractMeaning
       DEF Contract!Evidenced, provenBar, declaredBar
  <2>6. Contract!Advance
    BY <2>1, <2>2, <2>5, ContractMeaning DEF Contract!Advance, fateBar
  <2> QED BY <2>6 DEF Contract!ContractNext
<1>7. ASSUME NEW d \in FailureDispositions, NEW ts \in 0..clock,
             RecordFailure(d, ts)
      PROVE  [Contract!ContractNext]_(Contract!contractVars)
  <2>1. /\ saga'.ms = saga.ms
        /\ saga'.disp = d
        /\ UNCHANGED effects
        /\ fateBar = "OPEN"
    BY <1>7 DEF RecordFailure, Registered, RowAccepts, fateBar,
                DispositionAgrees
  <2>2. CASE d = "QUARANTINED"
    <3>1. Contract!Quarantine
      BY <2>1, <2>2 DEF Contract!Quarantine, fateBar
    <3> QED BY <3>1 DEF Contract!ContractNext
  <2>3. CASE d # "QUARANTINED"
    <3>1. fateBar' = fateBar
      BY <2>1, <2>3 DEF fateBar, FailureDispositions
    <3> QED BY <2>1, <3>1, ContractStutters
  <2> QED BY <2>2, <2>3
<1>8. CASE UNCHANGED <<saga, effects>>
  BY <1>8 DEF Contract!contractVars
<1> QED BY <1>1, <1>2, <1>3, <1>4, <1>5, <1>6, <1>7, <1>8
        DEF SagaNext, Tick, sagaVars

(***************************************************************************)
(* Whatever the callers do, the store keeps the contract.                  *)
(***************************************************************************)
THEOREM StoreImplementsContract == SagaSpec => ImplementsContract
<1>1. SagaInit => Contract!ContractInit
  BY ContractInitially
<1>2. SagaInv /\ [SagaNext]_sagaVars =>
         [Contract!ContractNext]_(Contract!contractVars)
  BY ContractStep
<1> QED BY <1>1, <1>2, SagaInvariant, PTL
        DEF SagaSpec, ImplementsContract, Contract!ContractSpec
=============================================================================
