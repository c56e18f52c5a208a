--------------------- MODULE IngestionOrchestratorProofs ---------------------
(***************************************************************************)
(* Proofs about IngestionOrchestrator, for every set of workers, every     *)
(* number of crashes, faults and reviewer moves, every content and an      *)
(* unbounded clock.                                                        *)
(*                                                                         *)
(* OrchInv is the inductive invariant.  LocalOK says what a worker may     *)
(* rely on although it holds no lock: its milestone is not ahead of the    *)
(* row, its intent is durable, and the evidence it carries is true of the  *)
(* world.  All of it speaks of things that only grow (Grows), which is why *)
(* no step of another worker can disturb it (BystanderKeeps).              *)
(*                                                                         *)
(* CalmInv is the other one, for a worker that nobody disturbs: what it    *)
(* finds in the world when it resumes is then what its own earlier steps   *)
(* left there, so that no handler meets a contradiction.                   *)
(***************************************************************************)
EXTENDS IngestionOrchestrator, IngestionSagaProofs, FiniteSetTheorems

Errors ==
    {"NONE", "GUARD_REJECTED", "INGESTION_CLAIM_CONFLICT",
     "CONNECTION_RELEASE_FAILED", "INCOMPLETE_LOCAL_STAGING_ARTIFACT",
     "EXTERNAL_TARGET_EXISTS", "EXTERNAL_STAGING_ARTIFACT_EXISTS",
     "EXTERNAL_VOLUME_UNAVAILABLE", "S3_CONDITIONAL_WRITE_CONFLICT",
     "S3_UNAVAILABLE", "S3_ACCESS_DENIED", "PARSE_CONTENT_BLOCKED",
     "VALIDATION_RECEIPT_BINDING_MISMATCH", "PUBLICATION_EVENT_MISSING",
     "PUBLICATION_STATE_CONFLICT", "IDEMPOTENCY_BINDING_CONFLICT",
     "STALE_PUBLICATION_STATE", "PUBLICATION_NOT_ELIGIBLE",
     "PUBLICATION_TERMINAL_MISMATCH", "EXTERNAL_RECEIPT_CONFLICT",
     "ILLEGAL_INGESTION_TRANSITION", "RETRY_EXHAUSTED",
     "DATABASE_OPERATION_FAILURE"}

LocalRecords ==
    [pc : Points, ms : 0..7, err : Errors, ev : Receipts \cup {None},
     step : Nat]

LocalTypeOK ==
    /\ local \in [Workers -> LocalRecords]
    /\ since \in [Workers -> Nat]

\* Evidence of kind k that is true of the world, and stays so.
Backed(k, e) ==
    /\ k = "ACQUISITION" => file # None
    /\ k = "S3_UPLOAD" => objects = 1 /\ e.ref = 1
    /\ k = "S3_LOCK_VERIFICATION" => e.ref = 1
    /\ k = "PARSE" => parsed = 1 /\ e.ref = 1
    /\ k = "VALIDATION" => e.ref = 1
    /\ k = "PUBLICATION" => e.ref \in 3..source.seq

Unbound == {"idle", "claim", "observe", "fail"}

LocalOK(w) ==
    LET r == local[w]
    IN  /\ r.pc \notin Unbound => Registered /\ r.ms <= saga.ms
        /\ r.pc \notin Unbound \cup {"intent"} => Declared(Kind(w))
        /\ r.pc \in {"inspect", "read", "scan", "create", "link", "unlink"}
              => r.ms = 0
        /\ r.pc = "unlink" => file # None
        /\ r.pc = "hash" => r.ms = 1
        /\ r.pc \in {"reconcile", "put", "recheck"} =>
              r.ms = 3 /\ r.step \in 1..S3Attempts
        /\ r.pc = "verify" => r.ms = 4
        /\ r.pc = "parse" => r.ms = 5
        /\ r.pc = "validate" => r.ms = 6
        /\ r.pc \in {"pubcheck", "pubchain", "pubread", "pubmove",
                     "pubconfirm"} => r.ms = 7
        /\ r.pc \in {"pubread", "pubmove"} => r.step \in 1..3
        /\ r.pc \in {"receipt", "transition"} => r.ev # None
        /\ r.pc = "receipt" => Backed(Kind(w), r.ev)

\* The fewest moves from REGISTERED to a publication state.
EarliestSeq(st) ==
    /\ st \notin {"REGISTERED", "REVIEW_REQUIRED", "QUARANTINED", "REJECTED",
                  "WITHDRAWN"} => source.seq >= 2
    /\ st # "REGISTERED" => source.seq >= 1
    /\ st = "PUBLISHED" => source.seq >= 3

WorldInv ==
    /\ file \in Workers \cup {None}
    /\ temps \subseteq Workers
    /\ objects \in {0, 1}
    /\ parsed \in 0..objects
    /\ source \in [st : PublicationStates, seq : Nat]
    /\ moved \subseteq {"REVIEW_REQUIRED", "ELIGIBLE", "PUBLISHED"}
    /\ budget \in [crashes : Nat, faults : Nat, reviews : 0..MaxReviews]
    /\ EachMoveOnce
    /\ EarliestSeq(source.st)

EffectsInv ==
    \A k \in Kinds :
       /\ Declared(k) => effects[k].intent = Upstream[k]
       /\ effects[k].receipt # None => Backed(k, effects[k].receipt)

OrchInv ==
    /\ SagaInv
    /\ LocalTypeOK
    /\ \A w \in Workers : LocalOK(w)
    /\ WorldInv
    /\ WriteAheadIntent
    /\ EffectsInv
-----------------------------------------------------------------------------
(***************************************************************************)
(* The tables of the lifecycle, entry by entry.                            *)
(***************************************************************************)
LEMMA KindTable ==
    /\ PrerequisiteKind[1] = "ACQUISITION"
    /\ PrerequisiteKind[2] = "HASH_VERIFICATION"
    /\ PrerequisiteKind[3] = "S3_UPLOAD"
    /\ PrerequisiteKind[4] = "S3_UPLOAD"
    /\ PrerequisiteKind[5] = "S3_LOCK_VERIFICATION"
    /\ PrerequisiteKind[6] = "PARSE"
    /\ PrerequisiteKind[7] = "VALIDATION"
    /\ PrerequisiteKind[8] = "PUBLICATION"
    /\ \A t : RequiresReceipt(t) <=> t # 3
BY DEF PrerequisiteKind, RequiresReceipt, SNAPSHOT_UPLOAD_PENDING

LEMMA UpstreamTable ==
    /\ Upstream["ACQUISITION"] = Plan
    /\ Upstream["HASH_VERIFICATION"] = Plan
    /\ Upstream["S3_UPLOAD"] = Plan
    /\ Upstream["S3_LOCK_VERIFICATION"] = effects["S3_UPLOAD"].receipt
    /\ Upstream["PARSE"] = effects["S3_LOCK_VERIFICATION"].receipt
    /\ Upstream["VALIDATION"] = effects["PARSE"].receipt
    /\ Upstream["PUBLICATION"] = Plan
BY DEF Upstream, Kinds

LEMMA NextUpstreamTable ==
    /\ Upstream'["ACQUISITION"] = Plan
    /\ Upstream'["HASH_VERIFICATION"] = Plan
    /\ Upstream'["S3_UPLOAD"] = Plan
    /\ Upstream'["S3_LOCK_VERIFICATION"] = effects'["S3_UPLOAD"].receipt
    /\ Upstream'["PARSE"] = effects'["S3_LOCK_VERIFICATION"].receipt
    /\ Upstream'["VALIDATION"] = effects'["PARSE"].receipt
    /\ Upstream'["PUBLICATION"] = Plan
BY DEF Upstream, Kinds, Plan, Evidence

LEMMA EntryTable ==
    /\ EntryStep["ACQUISITION"] = "inspect"
    /\ EntryStep["HASH_VERIFICATION"] = "hash"
    /\ EntryStep["S3_UPLOAD"] = "reconcile"
    /\ EntryStep["S3_LOCK_VERIFICATION"] = "verify"
    /\ EntryStep["PARSE"] = "parse"
    /\ EntryStep["VALIDATION"] = "validate"
    /\ EntryStep["PUBLICATION"] = "pubcheck"
BY DEF EntryStep, Kinds

LEMMA IntentTable ==
    /\ IntentMilestone["ACQUISITION"] = 0
    /\ IntentMilestone["HASH_VERIFICATION"] = 1
    /\ IntentMilestone["S3_UPLOAD"] = 2
    /\ IntentMilestone["S3_LOCK_VERIFICATION"] = 4
    /\ IntentMilestone["PARSE"] = 5
    /\ IntentMilestone["VALIDATION"] = 6
    /\ IntentMilestone["PUBLICATION"] = 7
BY MilestoneValues DEF IntentMilestone, Kinds

(***************************************************************************)
(* Evidence that the model builds is evidence the store takes.             *)
(***************************************************************************)
LEMMA EvidenceTyped ==
    ASSUME NEW b \in Workers \cup {None}, NEW n \in 0..(3 + MaxReviews)
    PROVE  /\ Evidence(b, n) \in Receipts
           /\ Evidence(b, n) \in Locators
           /\ Evidence(b, n) # None
           /\ Evidence(b, n).ref = n
<1>1. Evidence(b, n) \in [by : Workers \cup {None}, ref : 0..(3 + MaxReviews)]
  BY DEF Evidence
<1> QED BY <1>1, EvidenceAssumption, SagaAssumption DEF Evidence

LEMMA PlanTyped == Plan \in Receipts /\ Plan \in Locators /\ Plan # None
<1>1. 0 \in 0..(3 + MaxReviews)
  BY OrchestratorAssumption
<1> QED BY <1>1, EvidenceTyped DEF Plan

(***************************************************************************)
(* A milestone is reached on an effect that is still there: the digest of  *)
(* its event is that of the effect row (EvidenceDurable).                  *)
(***************************************************************************)
LEMMA Proven ==
    ASSUME SagaInv, NEW t \in 1..8, t <= saga.ms
    PROVE  /\ Declared(PrerequisiteKind[t])
           /\ t # 3 => /\ effects[PrerequisiteKind[t]].receipt # None
                       /\ effects[PrerequisiteKind[t]].receipt \in Receipts
<1> USE MilestoneValues
<1>1. \A n \in 1..Len(events) : events[n] \in EventRecords
  BY DEF SagaInv, TypeOK
<1>2. t \in 1..Len(events)
  BY DEF SagaInv, EventChain, TypeOK
<1>3. events[t].prereq \in Receipts \cup Locators
  BY <1>1, <1>2 DEF EventRecords
<1>4. HasPrerequisite(t, events[t].prereq) /\ events[t].prereq # None
  BY <1>2, <1>3, SagaAssumption DEF SagaInv, EvidenceDurable
<1>5. PrerequisiteKind[t] \in Kinds
  BY PrerequisiteKinds
<1>6. CASE t = 3
  BY <1>4, <1>6, KindTable DEF HasPrerequisite, Declared
<1>7. CASE t # 3
  <2>1. effects[PrerequisiteKind[t]].receipt = events[t].prereq
    BY <1>4, <1>7, KindTable DEF HasPrerequisite
  <2>2. effects[PrerequisiteKind[t]] \in
          [intent : Locators \cup {None}, receipt : Receipts \cup {None}]
    BY <1>5 DEF SagaInv, TypeOK
  <2>3. Declared(PrerequisiteKind[t])
    BY <1>4, <1>5, <2>1 DEF SagaInv, IntentBeforeReceipt, Declared
  <2> QED BY <1>4, <2>1, <2>2, <2>3
<1> QED BY <1>6, <1>7

LEMMA StagesReached ==
    ASSUME OrchInv
    PROVE  /\ saga.ms \in 0..8
           /\ saga.ms >= 1 => file # None
           /\ saga.ms >= 3 => Declared("S3_UPLOAD")
           /\ saga.ms >= 4 => /\ objects = 1
                              /\ effects["S3_UPLOAD"].receipt \in Receipts
                              /\ effects["S3_UPLOAD"].receipt # None
                              /\ effects["S3_UPLOAD"].receipt.ref = 1
           /\ saga.ms >= 5 =>
                 /\ effects["S3_LOCK_VERIFICATION"].receipt \in Receipts
                 /\ effects["S3_LOCK_VERIFICATION"].receipt # None
           /\ saga.ms >= 6 => /\ parsed = 1
                              /\ effects["PARSE"].receipt \in Receipts
                              /\ effects["PARSE"].receipt # None
           /\ saga.ms >= 8 =>
                 effects["PUBLICATION"].receipt.ref \in 3..source.seq
<1>1. SagaInv /\ saga.ms \in 0..8
  BY MilestoneValues DEF OrchInv, SagaInv, TypeOK
<1>2. \A k \in Kinds : effects[k].receipt # None =>
                          Backed(k, effects[k].receipt)
  BY DEF OrchInv, EffectsInv
<1>3. /\ "ACQUISITION" \in Kinds /\ "S3_UPLOAD" \in Kinds
      /\ "PARSE" \in Kinds /\ "PUBLICATION" \in Kinds
  BY DEF Kinds
<1>4. saga.ms >= 1 => file # None
  BY <1>1, <1>2, <1>3, Proven, KindTable, 1 \in 1..8 DEF Backed
<1>5. saga.ms >= 3 => Declared("S3_UPLOAD")
  BY <1>1, Proven, KindTable, 3 \in 1..8
<1>6. saga.ms >= 4 => /\ objects = 1
                      /\ effects["S3_UPLOAD"].receipt \in Receipts
                      /\ effects["S3_UPLOAD"].receipt # None
                      /\ effects["S3_UPLOAD"].receipt.ref = 1
  BY <1>1, <1>2, <1>3, Proven, KindTable, 4 \in 1..8 DEF Backed
<1>7. saga.ms >= 5 =>
                 /\ effects["S3_LOCK_VERIFICATION"].receipt \in Receipts
                 /\ effects["S3_LOCK_VERIFICATION"].receipt # None
  BY <1>1, Proven, KindTable, 5 \in 1..8
<1>8. saga.ms >= 6 => /\ parsed = 1
                      /\ effects["PARSE"].receipt \in Receipts
                      /\ effects["PARSE"].receipt # None
  BY <1>1, <1>2, <1>3, Proven, KindTable, 6 \in 1..8 DEF Backed
<1>9. saga.ms >= 8 =>
                 effects["PUBLICATION"].receipt.ref \in 3..source.seq
  BY <1>1, <1>2, <1>3, Proven, KindTable, 8 \in 1..8 DEF Backed
<1> QED BY <1>1, <1>4, <1>5, <1>6, <1>7, <1>8, <1>9

(***************************************************************************)
(* The locator a handler is about to declare is there and typed; a worker  *)
(* behind the row finds it declared, one beside the row may declare it.    *)
(***************************************************************************)
LEMMA LocatorReady ==
    ASSUME OrchInv, NEW w \in Workers, At(w, "intent")
    PROVE  /\ Kind(w) \in Kinds
           /\ Target(w) \in 1..8
           /\ local[w].ms \in 0..7
           /\ local[w].ms <= saga.ms
           /\ Upstream[Kind(w)] \in Receipts
           /\ Upstream[Kind(w)] \in Locators
           /\ Upstream[Kind(w)] # None
           /\ \/ IntentFresh(Kind(w))
              \/ IntentHeld(Kind(w), Upstream[Kind(w)])
<1>1. /\ local[w].ms \in 0..7
      /\ local[w].ms <= saga.ms
      /\ Registered
  BY DEF OrchInv, LocalTypeOK, LocalRecords, LocalOK, At, Unbound
<1>2. saga.ms \in 0..8 /\ SagaInv
  BY StagesReached DEF OrchInv
<1>3. Target(w) \in 1..8
  BY <1>1 DEF Target
<1>4. Kind(w) \in Kinds
  BY <1>3, PrerequisiteKinds DEF Kind
<1>5. Upstream[Kind(w)] \in Receipts /\ Upstream[Kind(w)] # None
  BY <1>1, <1>2, StagesReached, UpstreamTable, KindTable, PlanTyped
     DEF Kind, Target
<1>6. Upstream[Kind(w)] \in Locators
  BY <1>5, EvidenceAssumption
<1>7. Declared(Kind(w)) => IntentHeld(Kind(w), Upstream[Kind(w)])
  BY <1>4 DEF OrchInv, EffectsInv, IntentHeld
<1>8. ASSUME ~Declared(Kind(w))
      PROVE  IntentFresh(Kind(w))
  <2>1. ~(Target(w) <= saga.ms)
    BY <1>2, <1>3, <1>8, Proven DEF Kind
  <2>2. saga.ms = local[w].ms
    BY <1>1, <1>2, <2>1 DEF Target
  <2>3. saga.ms # 3
    BY <1>2, <1>8, <2>2, Proven, KindTable, 3 \in 1..8 DEF Kind, Target
  <2>4. IntentMilestone[Kind(w)] = saga.ms
    BY <1>1, <2>2, <2>3, KindTable, IntentTable DEF Kind, Target
  <2> QED BY <1>1, <1>8, <2>4 DEF IntentFresh, Declared
<1> QED BY <1>1, <1>3, <1>4, <1>5, <1>6, <1>7, <1>8
-----------------------------------------------------------------------------
(***************************************************************************)
(* What only grows, and what a worker's knowledge is made of.              *)
(***************************************************************************)
Grows ==
    /\ saga.ms <= saga'.ms
    /\ saga.ms \in 0..8 /\ saga'.ms \in 0..8
    /\ Registered => Registered'
    /\ \A k \in Kinds :
          /\ effects[k].intent # None =>
                effects'[k].intent = effects[k].intent
          /\ effects[k].receipt # None =>
                effects'[k].receipt = effects[k].receipt
    /\ file # None => file' = file
    /\ objects = 1 => objects' = 1
    /\ parsed = 1 => parsed' = 1
    /\ source.seq \in Nat /\ source'.seq \in Nat
    /\ source.seq <= source'.seq

\* A step of the store leaves the row's milestone and identity to grow.
LEMMA StoreGrows ==
    ASSUME SagaInv, [SagaNext]_sagaVars
    PROVE  /\ saga.ms <= saga'.ms
           /\ saga.ms \in 0..8 /\ saga'.ms \in 0..8
           /\ Registered => Registered'
<1> USE MilestoneValues
<1>1. SagaInv'
  BY SagaInvStep
<1>2. saga.ms \in 0..8 /\ saga'.ms \in 0..8
  BY <1>1 DEF SagaInv, TypeOK
<1>3. saga \in [ms : 0..8, disp : Dispositions \cup {"ABSENT"},
                 owner : Tokens \cup {None}, exp : Times, retry : Times,
                 updated : Nat]
  BY DEF SagaInv, TypeOK
<1>4. CASE RegisterSaga
  BY <1>2, <1>3, <1>4 DEF RegisterSaga, Registered
<1>5. ASSUME NEW t, NEW lease, NEW ts, ClaimSaga(t, lease, ts)
      PROVE  saga'.ms = saga.ms /\ Registered'
  BY <1>3, <1>5 DEF ClaimSaga, Registered
<1>6. ASSUME NEW t, NEW ts, ReleaseSaga(t, ts)
      PROVE  saga'.ms = saga.ms /\ Registered'
  BY <1>3, <1>6 DEF ReleaseSaga, Registered
<1>7. ASSUME NEW target \in 1..PUBLISHED, NEW d, NEW ts,
             Transition(target, d, ts)
      PROVE  saga'.ms = saga.ms + 1 /\ Registered'
  BY <1>3, <1>7
     DEF Transition, TransitionLegal, IsNextMilestone, Registered
<1>8. ASSUME NEW d \in FailureDispositions, NEW ts, RecordFailure(d, ts)
      PROVE  saga'.ms = saga.ms /\ Registered'
  BY <1>3, <1>8 DEF RecordFailure, Registered, FailureDispositions
<1>9. CASE UNCHANGED saga
  BY <1>2, <1>9 DEF Registered
<1> QED
  BY <1>2, <1>4, <1>5, <1>6, <1>7, <1>8, <1>9
     DEF SagaNext, RecordEffectIntent, RecordEffectReceipt, Tick, sagaVars

(***************************************************************************)
(* A worker that takes no step keeps what it relies on.                    *)
(***************************************************************************)
LEMMA BystanderKeeps ==
    ASSUME OrchInv, Grows, NEW v \in Workers, local'[v] = local[v]
    PROVE  LocalOK(v)'
<1>0. PICK r : r = local[v] /\ r = local'[v]
  OBVIOUS
<1>1. LocalOK(v) /\ r \in LocalRecords
  BY <1>0 DEF OrchInv, LocalTypeOK
<1>2. r.ms \in 0..7
  BY <1>1 DEF LocalRecords
<1>3. Kind(v)' = Kind(v)
  BY DEF Kind, Target
<1>4. Kind(v) \in Kinds
  BY <1>0, <1>2, PrerequisiteKinds DEF Kind, Target
<1>5. Declared(Kind(v)) => Declared(Kind(v))'
  BY <1>3, <1>4 DEF Grows, Declared
<1>6. Backed(Kind(v), r.ev) => Backed(Kind(v), r.ev)'
  BY <1>3 DEF Grows, Backed
<1>7. Registered /\ r.ms <= saga.ms => Registered' /\ r.ms <= saga'.ms
  BY <1>2 DEF Grows
<1>8. file # None => file' # None
  BY DEF Grows
<1> QED BY <1>0, <1>1, <1>3, <1>5, <1>6, <1>7, <1>8
        DEF LocalOK, Declared, Backed, Registered

LEMMA BackedKeeps ==
    ASSUME Grows, NEW k, NEW e, Backed(k, e)
    PROVE  Backed(k, e)'
BY DEF Grows, Backed

(***************************************************************************)
(* An effect declared on upstream evidence has that evidence for good: its *)
(* intent waits for the milestone the evidence was recorded for.           *)
(***************************************************************************)
LEMMA UpstreamKeeps ==
    ASSUME OrchInv, Grows, NEW k \in Kinds, Declared(k)
    PROVE  Upstream'[k] = Upstream[k]
<1>1. saga.ms >= IntentMilestone[k]
  BY DEF OrchInv, SagaInv, IntentBeforeReceipt, Declared
<1>2. saga.ms \in 0..8
  BY StagesReached
<1>3. /\ "S3_UPLOAD" \in Kinds /\ "S3_LOCK_VERIFICATION" \in Kinds
      /\ "PARSE" \in Kinds
  BY DEF Kinds
<1>4. CASE k = "S3_LOCK_VERIFICATION"
  BY <1>1, <1>2, <1>3, <1>4, IntentTable, StagesReached, UpstreamTable,
     NextUpstreamTable
     DEF Grows
<1>5. CASE k = "PARSE"
  BY <1>1, <1>2, <1>3, <1>5, IntentTable, StagesReached, UpstreamTable,
     NextUpstreamTable
     DEF Grows
<1>6. CASE k = "VALIDATION"
  BY <1>1, <1>2, <1>3, <1>6, IntentTable, StagesReached, UpstreamTable,
     NextUpstreamTable
     DEF Grows
<1>7. CASE k \notin {"S3_LOCK_VERIFICATION", "PARSE", "VALIDATION"}
  BY <1>7, UpstreamTable, NextUpstreamTable DEF Kinds
<1> QED BY <1>4, <1>5, <1>6, <1>7

(***************************************************************************)
(* New effect rows keep the invariant when a new intent names its upstream *)
(* evidence and a new receipt is true of the world.                        *)
(***************************************************************************)
LEMMA EffectsKeep ==
    ASSUME OrchInv, Grows,
           \A k \in Kinds : \/ effects'[k].intent = effects[k].intent
                            \/ effects'[k].intent = Upstream'[k],
           \A k \in Kinds : \/ effects'[k].receipt = effects[k].receipt
                            \/ Backed(k, effects[k].receipt)'
    PROVE  EffectsInv'
<1> SUFFICES ASSUME NEW k \in Kinds
             PROVE  /\ Declared(k)' => (effects[k].intent = Upstream[k])'
                    /\ (effects[k].receipt # None
                          => Backed(k, effects[k].receipt))'
  BY DEF EffectsInv
<1>1. Declared(k)' => (effects[k].intent = Upstream[k])'
  <2>1. CASE effects'[k].intent = Upstream'[k]
    BY <2>1
  <2>2. CASE effects'[k].intent = effects[k].intent
    BY <2>2, UpstreamKeeps DEF OrchInv, EffectsInv, Declared
  <2> QED BY <2>1, <2>2
<1>2. (effects[k].receipt # None => Backed(k, effects[k].receipt))'
  <2>1. CASE effects'[k].receipt = effects[k].receipt
    <3>1. PICK e : e = effects[k].receipt /\ e = effects'[k].receipt
      BY <2>1
    <3>2. e # None => Backed(k, e)
      BY <3>1 DEF OrchInv, EffectsInv
    <3>3. e # None => Backed(k, e)'
      BY <3>2, BackedKeeps
    <3> QED BY <3>1, <3>3 DEF Backed
  <2> QED BY <2>1
<1> QED BY <1>1, <1>2

(***************************************************************************)
(* The worker that moves lands on a record it may hold there, and the      *)
(* others stay where they are.                                             *)
(***************************************************************************)
Lands(w) ==
    /\ local' \in [Workers -> LocalRecords]
    /\ since' \in [Workers -> Nat]
    /\ \A v \in Workers \ {w} : local'[v] = local[v]
    /\ LocalOK(w)'

LEMMA GotoLocal ==
    ASSUME OrchInv, NEW w \in Workers, NEW r \in LocalRecords, Goto(w, r)
    PROVE  /\ local' \in [Workers -> LocalRecords]
           /\ since' \in [Workers -> Nat]
           /\ \A v \in Workers \ {w} : local'[v] = local[v]
           /\ local'[w] = r
<1>1. clock \in Nat
  BY DEF OrchInv, SagaInv, TypeOK
<1> QED BY <1>1 DEF OrchInv, LocalTypeOK, Goto

\* An unbound point asks nothing of a worker.
LEMMA GotoUnbound ==
    ASSUME OrchInv, NEW w \in Workers, NEW r \in LocalRecords, Goto(w, r),
           r.pc \in Unbound
    PROVE  Lands(w)
<1>1. local'[w] = r
  BY GotoLocal
<1>2. LocalOK(w)'
  BY <1>1 DEF LocalOK, Unbound
<1> QED BY <1>2, GotoLocal DEF Lands

LEMMA IdleTyped == Idle \in LocalRecords /\ Idle.pc = "idle" /\ Idle.ms = 0
BY MilestoneValues DEF Idle, LocalRecords, Points, Errors

LEMMA RaiseLands ==
    ASSUME OrchInv, NEW w \in Workers, NEW e \in Errors, Raise(w, e)
    PROVE  Lands(w)
<1> DEFINE r == [Idle EXCEPT !.pc = "fail", !.err = e]
<1>1. "fail" \in Points
  BY DEF Points
<1>2. r \in LocalRecords /\ r.pc \in Unbound
  BY <1>1, IdleTyped DEF LocalRecords, Unbound
<1>3. Goto(w, r)
  BY DEF Raise
<1> HIDE DEF r
<1> QED BY <1>2, <1>3, GotoUnbound

LEMMA ReturnLands ==
    ASSUME OrchInv, NEW w \in Workers, Return(w)
    PROVE  Lands(w)
<1>1. Idle.pc \in Unbound
  BY IdleTyped DEF Unbound
<1> QED BY <1>1, IdleTyped, GotoUnbound DEF Return

(***************************************************************************)
(* A step that leaves the world and the effects alone.                     *)
(***************************************************************************)
LEMMA QuietStep ==
    ASSUME OrchInv, [SagaNext]_sagaVars, UNCHANGED <<effects, world>>,
           budget' \in [crashes : Nat, faults : Nat, reviews : 0..MaxReviews],
           budget'.reviews = budget.reviews
    PROVE  Grows /\ WorldInv' /\ EffectsInv' /\ WriteAheadIntent'
<1>1. SagaInv
  BY DEF OrchInv
<1>2. Grows
  BY <1>1, StoreGrows DEF OrchInv, WorldInv, Grows, world
<1>3. EffectsInv'
  BY <1>2, EffectsKeep
<1>4. WorldInv'
  BY DEF OrchInv, WorldInv, world, EachMoveOnce, EarliestSeq
<1>5. WriteAheadIntent'
  BY DEF OrchInv, WriteAheadIntent, world, Declared
<1> QED BY <1>2, <1>3, <1>4, <1>5

\* What is left to show of a worker's step once the pieces are in place.
LEMMA StepKeeps ==
    ASSUME OrchInv, NEW w \in Workers, [SagaNext]_sagaVars, Grows, Lands(w),
           WorldInv', EffectsInv', WriteAheadIntent'
    PROVE  OrchInv'
<1>1. SagaInv'
  BY SagaInvStep DEF OrchInv
<1>2. \A v \in Workers \ {w} : LocalOK(v)'
  BY BystanderKeeps DEF Lands
<1>3. LocalOK(w)' /\ LocalTypeOK'
  BY DEF Lands, LocalTypeOK
<1> QED BY <1>1, <1>2, <1>3 DEF OrchInv

LEMMA QuietStepKeeps ==
    ASSUME OrchInv, NEW w \in Workers, [SagaNext]_sagaVars, Lands(w),
           UNCHANGED <<effects, world>>,
           budget' \in [crashes : Nat, faults : Nat, reviews : 0..MaxReviews],
           budget'.reviews = budget.reviews
    PROVE  OrchInv'
BY QuietStep, StepKeeps
-----------------------------------------------------------------------------
LEMMA WorkerKnows ==
    ASSUME OrchInv, NEW w \in Workers
    PROVE  /\ local[w] \in LocalRecords
           /\ LocalOK(w)
           /\ local[w].ms \in 0..7
           /\ local[w].ev \in Receipts \cup {None}
           /\ local[w].step \in Nat
           /\ Target(w) = local[w].ms + 1
           /\ Target(w) \in 1..8
           /\ Kind(w) \in Kinds
           /\ w \in Tokens /\ w # None
<1>1. local[w] \in LocalRecords /\ LocalOK(w)
  BY DEF OrchInv, LocalTypeOK
<1>2. /\ local[w].ms \in 0..7
      /\ local[w].ev \in Receipts \cup {None}
      /\ local[w].step \in Nat
  BY <1>1 DEF LocalRecords
<1>3. Target(w) = local[w].ms + 1 /\ Target(w) \in 1..8
  BY <1>2 DEF Target
<1>4. Kind(w) \in Kinds
  BY <1>3, PrerequisiteKinds DEF Kind
<1>5. w \in Tokens /\ w # None
  BY EvidenceAssumption, SagaAssumption
<1> QED BY <1>1, <1>2, <1>3, <1>4, <1>5

LEMMA Spends ==
    ASSUME OrchInv, NEW what \in {"crashes", "faults"}, Spend(what)
    PROVE  /\ budget' \in [crashes : Nat, faults : Nat,
                           reviews : 0..MaxReviews]
           /\ budget'.reviews = budget.reviews
BY DEF OrchInv, WorldInv, Spend

LEMMA KeepsBudget ==
    ASSUME OrchInv, UNCHANGED budget
    PROVE  /\ budget' \in [crashes : Nat, faults : Nat,
                           reviews : 0..MaxReviews]
           /\ budget'.reviews = budget.reviews
BY DEF OrchInv, WorldInv

(***************************************************************************)
(* A worker with a declared effect goes to another point of its handler.   *)
(***************************************************************************)
LEMMA StepLands ==
    ASSUME OrchInv, Grows, NEW w \in Workers, NEW p \in Points,
           local[w].pc \notin Unbound \cup {"intent"},
           Goto(w, Step(w, p)),
           p \notin {"receipt", "hash", "verify", "parse", "validate"},
           p \in {"inspect", "read", "scan", "create", "link", "unlink"} =>
              local[w].ms = 0,
           p = "unlink" => file' # None,
           p \in {"reconcile", "put", "recheck"} =>
              local[w].ms = 3 /\ local[w].step \in 1..S3Attempts,
           p \in {"pubcheck", "pubchain", "pubread", "pubmove",
                  "pubconfirm"} => local[w].ms = 7,
           p \in {"pubread", "pubmove"} => local[w].step \in 1..3,
           p = "transition" => local[w].ev # None
    PROVE  Lands(w)
<1>1. PICK r : r = Step(w, p)
  OBVIOUS
<1>2. /\ r \in LocalRecords
      /\ r.pc = p
      /\ r.ms = local[w].ms
      /\ r.ev = local[w].ev
      /\ r.step = local[w].step
  BY <1>1, WorkerKnows DEF Step, LocalRecords
<1>3. /\ local' \in [Workers -> LocalRecords]
      /\ since' \in [Workers -> Nat]
      /\ \A v \in Workers \ {w} : local'[v] = local[v]
      /\ local'[w] = r
  BY <1>1, <1>2, GotoLocal
<1>4. /\ Registered' /\ local[w].ms <= saga'.ms
      /\ Declared(Kind(w))
  BY WorkerKnows DEF LocalOK, Grows
<1>5. Kind(w)' = Kind(w)
  BY <1>2, <1>3 DEF Kind, Target
<1>6. Declared(Kind(w))'
  BY <1>4, <1>5, WorkerKnows DEF Grows, Declared
<1>7. LocalOK(w)'
  BY <1>2, <1>3, <1>4, <1>6 DEF LocalOK
<1> QED BY <1>3, <1>7 DEF Lands

(***************************************************************************)
(* A worker with a declared effect takes evidence that is true of the      *)
(* world.                                                                  *)
(***************************************************************************)
LEMMA HoldingLands ==
    ASSUME OrchInv, Grows, NEW w \in Workers, NEW e \in Receipts, NEW k,
           local[w].pc \notin Unbound \cup {"intent"},
           Goto(w, Holding(w, e)), k = Kind(w), Backed(k, e)'
    PROVE  Lands(w)
<1>1. PICK r : r = Holding(w, e)
  OBVIOUS
<1>2. /\ r \in LocalRecords
      /\ r.pc = "receipt"
      /\ r.ms = local[w].ms
      /\ r.ev = e
  <2>1. "receipt" \in Points
    BY DEF Points
  <2> QED BY <1>1, <2>1, WorkerKnows DEF Holding, LocalRecords
<1>3. /\ local' \in [Workers -> LocalRecords]
      /\ since' \in [Workers -> Nat]
      /\ \A v \in Workers \ {w} : local'[v] = local[v]
      /\ local'[w] = r
  BY <1>1, <1>2, GotoLocal
<1>4. /\ Registered' /\ local[w].ms <= saga'.ms
      /\ Declared(Kind(w))
  BY WorkerKnows DEF LocalOK, Grows
<1>5. Kind(w)' = Kind(w)
  BY <1>2, <1>3 DEF Kind, Target
<1>6. Declared(Kind(w))'
  BY <1>4, <1>5, WorkerKnows DEF Grows, Declared
<1>7. Backed(Kind(w), local[w].ev)'
  BY <1>2, <1>3, <1>5 DEF Backed
<1>8. e # None
  BY SagaAssumption
<1>9. LocalOK(w)'
  BY <1>2, <1>3, <1>4, <1>6, <1>7, <1>8 DEF LocalOK, Unbound
<1> QED BY <1>3, <1>9 DEF Lands

(***************************************************************************)
(* The steps that change nothing but the worker.                           *)
(***************************************************************************)
LEMMA SilentStep ==
    ASSUME OrchInv, UNCHANGED <<sagaVars, world>>,
           budget' \in [crashes : Nat, faults : Nat, reviews : 0..MaxReviews],
           budget'.reviews = budget.reviews
    PROVE  /\ [SagaNext]_sagaVars
           /\ Grows
           /\ UNCHANGED <<effects, world>>
<1>1. [SagaNext]_sagaVars /\ UNCHANGED <<effects, world>>
  BY DEF sagaVars
<1> QED BY <1>1, QuietStep

LEMMA SilentKeeps ==
    ASSUME OrchInv, NEW w \in Workers, UNCHANGED <<sagaVars, world>>,
           Lands(w),
           budget' \in [crashes : Nat, faults : Nat, reviews : 0..MaxReviews],
           budget'.reviews = budget.reviews
    PROVE  OrchInv'
BY SilentStep, QuietStepKeeps

LEMMA InspectKeeps ==
    ASSUME OrchInv, NEW w \in Workers, Inspect(w)
    PROVE  OrchInv'
<1>1. UNCHANGED <<sagaVars, world>> /\ UNCHANGED budget
  BY DEF Inspect
<1>2. Grows
  BY <1>1, KeepsBudget, SilentStep
<1>3. CASE Raise(w, "INCOMPLETE_LOCAL_STAGING_ARTIFACT")
  BY <1>1, <1>3, RaiseLands, SilentKeeps, KeepsBudget DEF Errors
<1>4. CASE Goto(w, Step(w, "read"))
  <2>1. local[w].pc = "inspect" /\ local[w].ms = 0 /\ "read" \in Points
    BY WorkerKnows DEF Inspect, At, LocalOK, Points
  <2>2. Lands(w)
    BY <1>2, <1>4, <2>1, StepLands DEF Unbound
  <2> QED BY <1>1, <2>2, SilentKeeps, KeepsBudget
<1> QED BY <1>3, <1>4 DEF Inspect

LEMMA ReadExistingKeeps ==
    ASSUME OrchInv, NEW w \in Workers, ReadExisting(w)
    PROVE  OrchInv'
<1>1. UNCHANGED <<sagaVars, world>> /\ UNCHANGED budget
  BY DEF ReadExisting
<1>2. Grows
  BY <1>1, KeepsBudget, SilentStep
<1>3. local[w].pc = "read" /\ local[w].ms = 0 /\ "scan" \in Points
  BY WorkerKnows DEF ReadExisting, At, LocalOK, Points
<1>4. CASE file # None
  <2>1. PICK e : e = Evidence(w, 0)
    OBVIOUS
  <2>2. e \in Receipts
    BY <2>1, EvidenceTyped, OrchestratorAssumption
  <2>3. Kind(w) = "ACQUISITION"
    BY <1>3, KindTable, WorkerKnows DEF Kind
  <2>4. Backed("ACQUISITION", e)'
    BY <1>1, <1>4 DEF Backed, world
  <2>5. Goto(w, Holding(w, e))
    BY <1>4, <2>1 DEF ReadExisting
  <2>6. Lands(w)
    BY <1>2, <1>3, <2>2, <2>3, <2>4, <2>5, HoldingLands DEF Unbound
  <2> QED BY <1>1, <2>6, SilentKeeps, KeepsBudget
<1>5. CASE file = None
  <2>1. Goto(w, Step(w, "scan"))
    BY <1>5 DEF ReadExisting
  <2>2. Lands(w)
    BY <1>2, <1>3, <2>1, StepLands DEF Unbound
  <2> QED BY <1>1, <2>2, SilentKeeps, KeepsBudget
<1> QED BY <1>4, <1>5

LEMMA ScanKeeps ==
    ASSUME OrchInv, NEW w \in Workers, Scan(w)
    PROVE  OrchInv'
<1>1. UNCHANGED <<sagaVars, world>> /\ UNCHANGED budget
  BY DEF Scan
<1>2. Grows
  BY <1>1, KeepsBudget, SilentStep
<1>3. local[w].pc = "scan" /\ local[w].ms = 0 /\ "create" \in Points
  BY WorkerKnows DEF Scan, At, LocalOK, Points
<1>4. CASE Raise(w, "EXTERNAL_TARGET_EXISTS")
  BY <1>1, <1>4, RaiseLands, SilentKeeps, KeepsBudget DEF Errors
<1>5. CASE Raise(w, "EXTERNAL_STAGING_ARTIFACT_EXISTS")
  BY <1>1, <1>5, RaiseLands, SilentKeeps, KeepsBudget DEF Errors
<1>6. CASE Goto(w, Step(w, "create"))
  <2>1. Lands(w)
    BY <1>2, <1>3, <1>6, StepLands DEF Unbound
  <2> QED BY <1>1, <2>1, SilentKeeps, KeepsBudget
<1> QED BY <1>4, <1>5, <1>6 DEF Scan

LEMMA VerifyHashKeeps ==
    ASSUME OrchInv, NEW w \in Workers, VerifyHash(w)
    PROVE  OrchInv'
<1>1. UNCHANGED <<sagaVars, world>> /\ UNCHANGED budget
  BY DEF VerifyHash
<1>2. Grows
  BY <1>1, KeepsBudget, SilentStep
<1>3. local[w].pc = "hash" /\ local[w].ms = 1
  BY WorkerKnows DEF VerifyHash, At, LocalOK
<1>4. CASE file # None
  <2>1. PICK e : e = Evidence(w, 0)
    OBVIOUS
  <2>2. e \in Receipts
    BY <2>1, EvidenceTyped, OrchestratorAssumption
  <2>3. Kind(w) = "HASH_VERIFICATION"
    BY <1>3, KindTable, WorkerKnows DEF Kind
  <2>4. Backed("HASH_VERIFICATION", e)'
    BY DEF Backed
  <2>5. Goto(w, Holding(w, e))
    BY <1>4, <2>1 DEF VerifyHash
  <2>6. Lands(w)
    BY <1>2, <1>3, <2>2, <2>3, <2>4, <2>5, HoldingLands DEF Unbound
  <2> QED BY <1>1, <2>6, SilentKeeps, KeepsBudget
<1>5. CASE file = None
  <2>1. Raise(w, "EXTERNAL_VOLUME_UNAVAILABLE")
    BY <1>5 DEF VerifyHash
  <2> QED BY <1>1, <2>1, RaiseLands, SilentKeeps, KeepsBudget DEF Errors
<1> QED BY <1>4, <1>5

(***************************************************************************)
(* The evidence an upload yields names the only version there is.          *)
(***************************************************************************)
LEMMA UploadEvidence ==
    ASSUME OrchInv, Grows, NEW w \in Workers, NEW e, objects' = 1,
           local[w].pc \in {"reconcile", "put", "recheck"},
           e = Evidence(w, objects'), Goto(w, Holding(w, e))
    PROVE  Lands(w)
<1>1. e \in Receipts /\ e.ref = 1
  BY EvidenceTyped, OrchestratorAssumption
<1>2. local[w].ms = 3
  BY WorkerKnows DEF LocalOK
<1>3. Kind(w) = "S3_UPLOAD"
  BY <1>2, KindTable, WorkerKnows DEF Kind
<1>4. Backed("S3_UPLOAD", e)'
  BY <1>1 DEF Backed
<1> QED BY <1>1, <1>3, <1>4, HoldingLands DEF Unbound

\* The steps that count: the next S3 attempt, the next publication move.
LEMMA CountedLands ==
    ASSUME OrchInv, Grows, NEW w \in Workers, NEW n \in Nat,
           NEW p \in {"reconcile", "pubread"},
           local[w].pc \notin Unbound \cup {"intent"},
           Goto(w, [Step(w, p) EXCEPT !.step = n]),
           p = "reconcile" => local[w].ms = 3 /\ n \in 1..S3Attempts,
           p = "pubread" => local[w].ms = 7 /\ n \in 1..3
    PROVE  Lands(w)
<1>1. PICK r : r = [Step(w, p) EXCEPT !.step = n]
  OBVIOUS
<1>2. /\ r \in LocalRecords
      /\ r.pc = p
      /\ r.ms = local[w].ms
      /\ r.step = n
  <2>1. p \in Points
    BY DEF Points
  <2>2. PICK q : q = Step(w, p)
    OBVIOUS
  <2>3. q \in LocalRecords /\ q.pc = p /\ q.ms = local[w].ms
    BY <2>1, <2>2, WorkerKnows DEF Step, LocalRecords
  <2> QED BY <1>1, <2>2, <2>3 DEF LocalRecords
<1>3. /\ local' \in [Workers -> LocalRecords]
      /\ since' \in [Workers -> Nat]
      /\ \A v \in Workers \ {w} : local'[v] = local[v]
      /\ local'[w] = r
  BY <1>1, <1>2, GotoLocal
<1>4. /\ Registered' /\ local[w].ms <= saga'.ms
      /\ Declared(Kind(w))
  BY WorkerKnows DEF LocalOK, Grows
<1>5. Kind(w)' = Kind(w)
  BY <1>2, <1>3 DEF Kind, Target
<1>6. Declared(Kind(w))'
  BY <1>4, <1>5, WorkerKnows DEF Grows, Declared
<1>7. LocalOK(w)'
  BY <1>2, <1>3, <1>4, <1>6 DEF LocalOK
<1> QED BY <1>3, <1>7 DEF Lands

LEMMA ReconcileKeeps ==
    ASSUME OrchInv, NEW w \in Workers, Reconcile(w)
    PROVE  OrchInv'
<1>1. UNCHANGED <<sagaVars, world>> /\ UNCHANGED budget
  BY DEF Reconcile
<1>2. Grows
  BY <1>1, KeepsBudget, SilentStep
<1>3. /\ local[w].pc = "reconcile" /\ local[w].ms = 3
      /\ local[w].step \in 1..S3Attempts /\ "put" \in Points
  BY WorkerKnows DEF Reconcile, At, LocalOK, Points
<1>4. objects \in {0, 1} /\ objects' = objects
  BY <1>1 DEF OrchInv, WorldInv, world
<1>5. CASE objects > 0
  <2>1. PICK e : e = Evidence(w, objects')
    OBVIOUS
  <2>2. Goto(w, Holding(w, e))
    BY <1>4, <1>5, <2>1 DEF Reconcile
  <2>3. Lands(w)
    BY <1>2, <1>3, <1>4, <1>5, <2>1, <2>2, UploadEvidence
  <2> QED BY <1>1, <2>3, SilentKeeps, KeepsBudget
<1>6. CASE ~(objects > 0)
  <2>1. Goto(w, Step(w, "put"))
    BY <1>6 DEF Reconcile
  <2>2. Lands(w)
    BY <1>2, <1>3, <2>1, StepLands DEF Unbound
  <2> QED BY <1>1, <2>2, SilentKeeps, KeepsBudget
<1> QED BY <1>5, <1>6

LEMMA RecheckKeeps ==
    ASSUME OrchInv, NEW w \in Workers, Recheck(w)
    PROVE  OrchInv'
<1>1. UNCHANGED <<sagaVars, world>> /\ UNCHANGED budget
  BY DEF Recheck
<1>2. Grows
  BY <1>1, KeepsBudget, SilentStep
<1>3. /\ local[w].pc = "recheck" /\ local[w].ms = 3
      /\ local[w].step \in 1..S3Attempts
  BY WorkerKnows DEF Recheck, At, LocalOK
<1>4. objects \in {0, 1} /\ objects' = objects
  BY <1>1 DEF OrchInv, WorldInv, world
<1>5. CASE objects > 0 /\ Goto(w, Holding(w, Evidence(w, objects)))
  <2>1. PICK e : e = Evidence(w, objects')
    OBVIOUS
  <2>2. Goto(w, Holding(w, e))
    BY <1>4, <1>5, <2>1
  <2>3. Lands(w)
    BY <1>2, <1>3, <1>4, <1>5, <2>1, <2>2, UploadEvidence
  <2> QED BY <1>1, <2>3, SilentKeeps, KeepsBudget
<1>6. CASE /\ MayRetryPut(w)
           /\ Goto(w, [Step(w, "reconcile") EXCEPT !.step = @ + 1])
  <2>1. PICK n : n = local[w].step + 1
    OBVIOUS
  <2>2. n \in 1..S3Attempts /\ n \in Nat
    BY <1>3, <1>6, <2>1, OrchestratorAssumption DEF MayRetryPut
  <2>3. Step(w, "reconcile").step = local[w].step
    BY WorkerKnows DEF Step, LocalRecords
  <2>4. Goto(w, [Step(w, "reconcile") EXCEPT !.step = n])
    BY <1>6, <2>1, <2>3
  <2>5. Lands(w)
    BY <1>2, <1>3, <2>2, <2>4, CountedLands DEF Unbound
  <2> QED BY <1>1, <2>5, SilentKeeps, KeepsBudget
<1>7. CASE Raise(w, "S3_UNAVAILABLE")
  BY <1>1, <1>7, RaiseLands, SilentKeeps, KeepsBudget DEF Errors
<1> QED BY <1>5, <1>6, <1>7 DEF Recheck

LEMMA VerifyLockKeeps ==
    ASSUME OrchInv, NEW w \in Workers, VerifyLock(w)
    PROVE  OrchInv'
<1>1. UNCHANGED <<sagaVars, world>> /\ UNCHANGED budget
  BY DEF VerifyLock
<1>2. Grows
  BY <1>1, KeepsBudget, SilentStep
<1>3. local[w].pc = "verify" /\ local[w].ms = 4 /\ local[w].ms <= saga.ms
  BY WorkerKnows DEF VerifyLock, At, LocalOK, Unbound
<1>4. effects["S3_UPLOAD"].receipt.ref = 1
  BY <1>3, StagesReached
<1>5. PICK e : e = Evidence(w, effects["S3_UPLOAD"].receipt.ref)
  OBVIOUS
<1>6. e \in Receipts /\ e.ref = 1
  BY <1>4, <1>5, EvidenceTyped, OrchestratorAssumption
<1>7. Kind(w) = "S3_LOCK_VERIFICATION"
  BY <1>3, KindTable, WorkerKnows DEF Kind
<1>8. Backed("S3_LOCK_VERIFICATION", e)'
  BY <1>6 DEF Backed
<1>9. Goto(w, Holding(w, e))
  BY <1>5 DEF VerifyLock
<1>10. Lands(w)
  BY <1>2, <1>3, <1>6, <1>7, <1>8, <1>9, HoldingLands DEF Unbound
<1> QED BY <1>1, <1>10, SilentKeeps, KeepsBudget

LEMMA ValidateKeeps ==
    ASSUME OrchInv, NEW w \in Workers, Validate(w)
    PROVE  OrchInv'
<1>1. UNCHANGED <<sagaVars, world>> /\ UNCHANGED budget
  BY DEF Validate
<1>2. Grows
  BY <1>1, KeepsBudget, SilentStep
<1>3. local[w].pc = "validate" /\ local[w].ms = 6 /\ local[w].ms <= saga.ms
  BY WorkerKnows DEF Validate, At, LocalOK, Unbound
<1>4. CASE content = "REJECTED"
  <2>1. Raise(w, "VALIDATION_RECEIPT_BINDING_MISMATCH")
    BY <1>4 DEF Validate
  <2> QED BY <1>1, <2>1, RaiseLands, SilentKeeps, KeepsBudget DEF Errors
<1>5. CASE content # "REJECTED"
  <2>1. parsed = 1
    BY <1>3, StagesReached
  <2>2. PICK e : e = Evidence(None, parsed)
    OBVIOUS
  <2>3. e \in Receipts /\ e.ref = 1
    BY <2>1, <2>2, EvidenceTyped, OrchestratorAssumption
  <2>4. Kind(w) = "VALIDATION"
    BY <1>3, KindTable, WorkerKnows DEF Kind
  <2>5. Backed("VALIDATION", e)'
    BY <2>3 DEF Backed
  <2>6. Goto(w, Holding(w, e))
    BY <1>5, <2>2 DEF Validate
  <2>7. Lands(w)
    BY <1>2, <1>3, <2>3, <2>4, <2>5, <2>6, HoldingLands DEF Unbound
  <2> QED BY <1>1, <2>7, SilentKeeps, KeepsBudget
<1> QED BY <1>4, <1>5
-----------------------------------------------------------------------------
(***************************************************************************)
(* The publication loop.                                                   *)
(***************************************************************************)
LEMMA MoveTable ==
    /\ MoveFrom[1] = "REGISTERED" /\ MoveTo[1] = "REVIEW_REQUIRED"
    /\ MoveFrom[2] = "REVIEW_REQUIRED" /\ MoveTo[2] = "ELIGIBLE"
    /\ MoveFrom[3] = "ELIGIBLE" /\ MoveTo[3] = "PUBLISHED"
BY DEF MoveFrom, MoveTo

LEMMA MovedIsFinite ==
    ASSUME moved \subseteq {"REVIEW_REQUIRED", "ELIGIBLE", "PUBLISHED"}
    PROVE  /\ IsFiniteSet(moved)
           /\ Cardinality(moved) \in 0..3
<1> DEFINE A == {"REVIEW_REQUIRED"}
           B == A \cup {"ELIGIBLE"}
           C == B \cup {"PUBLISHED"}
<1>1. IsFiniteSet(A) /\ Cardinality(A) = 1
  BY FS_Singleton
<1>2. /\ IsFiniteSet(B)
      /\ Cardinality(B) = IF "ELIGIBLE" \in A THEN Cardinality(A)
                                              ELSE Cardinality(A) + 1
  <2> HIDE DEF A
  <2> QED BY <1>1, FS_AddElement
<1>3. Cardinality(B) \in 0..2
  <2> HIDE DEF A, B
  <2> QED BY <1>1, <1>2
<1>4. /\ IsFiniteSet(C)
      /\ Cardinality(C) = IF "PUBLISHED" \in B THEN Cardinality(B)
                                               ELSE Cardinality(B) + 1
  <2> HIDE DEF B
  <2> QED BY <1>2, FS_AddElement
<1>5. Cardinality(C) \in 0..3
  <2> HIDE DEF B, C
  <2> QED BY <1>3, <1>4
<1>6. moved \in SUBSET C
  OBVIOUS
<1> HIDE DEF C
<1>7. IsFiniteSet(moved) /\ Cardinality(moved) <= Cardinality(C)
  BY <1>4, <1>6, FS_Subset
<1>8. Cardinality(moved) \in Nat
  BY <1>7, FS_CardinalityType
<1> QED BY <1>5, <1>7, <1>8

\* The publication sequence is a number that evidence can name.
LEMMA SequenceBounded ==
    ASSUME OrchInv
    PROVE  source.seq \in 0..(3 + MaxReviews)
<1>1. /\ Cardinality(moved) \in 0..3
      /\ source.seq \in Nat
      /\ budget.reviews \in 0..MaxReviews
      /\ source.seq = Cardinality(moved) + (MaxReviews - budget.reviews)
  BY MovedIsFinite DEF OrchInv, WorldInv, EachMoveOnce
<1> HIDE DEF EachMoveOnce
<1> QED BY <1>1, OrchestratorAssumption

LEMMA PublicationCheckKeeps ==
    ASSUME OrchInv, NEW w \in Workers, PublicationCheck(w)
    PROVE  OrchInv'
<1>1. UNCHANGED <<sagaVars, world>> /\ UNCHANGED budget
  BY DEF PublicationCheck
<1>2. Grows
  BY <1>1, KeepsBudget, SilentStep
<1>3. local[w].pc = "pubcheck" /\ local[w].ms = 7 /\ "pubchain" \in Points
  BY WorkerKnows DEF PublicationCheck, At, LocalOK, Points
<1>4. CASE Goto(w, Step(w, "pubchain"))
  <2>1. Lands(w)
    BY <1>2, <1>3, <1>4, StepLands DEF Unbound
  <2> QED BY <1>1, <2>1, SilentKeeps, KeepsBudget
<1>5. CASE Goto(w, [Step(w, "pubread") EXCEPT !.step = 1])
  <2>1. Lands(w)
    BY <1>2, <1>3, <1>5, CountedLands, 1 \in 1..3 DEF Unbound
  <2> QED BY <1>1, <2>1, SilentKeeps, KeepsBudget
<1> QED BY <1>4, <1>5 DEF PublicationCheck

LEMMA PublicationChainKeeps ==
    ASSUME OrchInv, NEW w \in Workers, PublicationChain(w)
    PROVE  OrchInv'
<1>1. UNCHANGED <<sagaVars, world>> /\ UNCHANGED budget
  BY DEF PublicationChain
<1>2. Grows
  BY <1>1, KeepsBudget, SilentStep
<1>3. local[w].pc = "pubchain" /\ local[w].ms = 7
  BY WorkerKnows DEF PublicationChain, At, LocalOK
<1>4. CASE source.st = "PUBLISHED"
  <2>1. PICK e : e = Evidence(None, source.seq)
    OBVIOUS
  <2>2. e \in Receipts /\ e.ref = source.seq
    BY <2>1, SequenceBounded, EvidenceTyped
  <2>3. source.seq \in Nat /\ source.seq >= 3
    BY <1>4 DEF OrchInv, WorldInv, EarliestSeq
  <2>4. Kind(w) = "PUBLICATION"
    BY <1>3, KindTable, WorkerKnows DEF Kind
  <2>5. source' = source
    BY <1>1 DEF world
  <2>6. Backed("PUBLICATION", e)'
    BY <2>2, <2>3, <2>5 DEF Backed
  <2>7. Goto(w, Holding(w, e))
    BY <1>4, <2>1 DEF PublicationChain
  <2>8. Lands(w)
    BY <1>2, <1>3, <2>2, <2>4, <2>6, <2>7, HoldingLands DEF Unbound
  <2> QED BY <1>1, <2>8, SilentKeeps, KeepsBudget
<1>5. CASE source.st # "PUBLISHED"
  <2>1. Raise(w, "PUBLICATION_EVENT_MISSING")
    BY <1>5 DEF PublicationChain
  <2> QED BY <1>1, <2>1, RaiseLands, SilentKeeps, KeepsBudget DEF Errors
<1> QED BY <1>4, <1>5

LEMMA NextMoveLands ==
    ASSUME OrchInv, Grows, NEW w \in Workers, Goto(w, NextMove(w)),
           local[w].pc \in {"pubread", "pubmove"}
    PROVE  Lands(w)
<1>1. local[w].ms = 7 /\ local[w].step \in 1..3 /\ "pubconfirm" \in Points
  BY WorkerKnows DEF LocalOK, Points
<1>2. CASE local[w].step = 3
  <2>1. Goto(w, Step(w, "pubconfirm"))
    BY <1>2 DEF NextMove
  <2> QED BY <1>1, <2>1, StepLands DEF Unbound
<1>3. CASE local[w].step # 3
  <2>1. PICK n : n = local[w].step + 1
    OBVIOUS
  <2>2. n \in 1..3 /\ n \in Nat
    BY <1>1, <1>3, <2>1
  <2>3. Step(w, "pubread").step = local[w].step
    BY WorkerKnows DEF Step, LocalRecords
  <2>4. Goto(w, [Step(w, "pubread") EXCEPT !.step = n])
    BY <1>3, <2>1, <2>3 DEF NextMove
  <2> QED BY <1>1, <2>2, <2>4, CountedLands DEF Unbound
<1> QED BY <1>2, <1>3

LEMMA PublicationReadKeeps ==
    ASSUME OrchInv, NEW w \in Workers, PublicationRead(w)
    PROVE  OrchInv'
<1>1. UNCHANGED <<sagaVars, world>> /\ UNCHANGED budget
  BY DEF PublicationRead
<1>2. Grows
  BY <1>1, KeepsBudget, SilentStep
<1>3. /\ local[w].pc = "pubread" /\ local[w].ms = 7 /\ local[w].step \in 1..3
      /\ "pubmove" \in Points /\ "pubconfirm" \in Points
  BY WorkerKnows DEF PublicationRead, At, LocalOK, Points
<1>4. CASE Goto(w, NextMove(w))
  BY <1>1, <1>2, <1>3, <1>4, NextMoveLands, SilentKeeps, KeepsBudget
<1>5. CASE Goto(w, Step(w, "pubmove"))
  <2>1. Lands(w)
    BY <1>2, <1>3, <1>5, StepLands DEF Unbound
  <2> QED BY <1>1, <2>1, SilentKeeps, KeepsBudget
<1>6. CASE Goto(w, Step(w, "pubconfirm"))
  <2>1. Lands(w)
    BY <1>2, <1>3, <1>6, StepLands DEF Unbound
  <2> QED BY <1>1, <2>1, SilentKeeps, KeepsBudget
<1>7. CASE Raise(w, "PUBLICATION_STATE_CONFLICT")
  BY <1>1, <1>7, RaiseLands, SilentKeeps, KeepsBudget DEF Errors
<1> QED BY <1>4, <1>5, <1>6, <1>7 DEF PublicationRead

LEMMA PublicationConfirmKeeps ==
    ASSUME OrchInv, NEW w \in Workers, PublicationConfirm(w)
    PROVE  OrchInv'
<1>1. UNCHANGED <<sagaVars, world>> /\ UNCHANGED budget
  BY DEF PublicationConfirm
<1>2. Grows
  BY <1>1, KeepsBudget, SilentStep
<1>3. local[w].pc = "pubconfirm" /\ local[w].ms = 7 /\ "pubchain" \in Points
  BY WorkerKnows DEF PublicationConfirm, At, LocalOK, Points
<1>4. CASE Goto(w, Step(w, "pubchain"))
  <2>1. Lands(w)
    BY <1>2, <1>3, <1>4, StepLands DEF Unbound
  <2> QED BY <1>1, <2>1, SilentKeeps, KeepsBudget
<1>5. CASE Raise(w, "PUBLICATION_TERMINAL_MISMATCH")
  BY <1>1, <1>5, RaiseLands, SilentKeeps, KeepsBudget DEF Errors
<1> QED BY <1>4, <1>5 DEF PublicationConfirm
-----------------------------------------------------------------------------
(***************************************************************************)
(* The transactions on the saga's own tables: each is a call the store     *)
(* was specified for.                                                      *)
(***************************************************************************)
LEMMA CommittedKeepsBudget ==
    ASSUME OrchInv, NEW w \in Workers, NEW r, Committed(w, r),
           Goto(w, r) => Lands(w)
    PROVE  /\ Lands(w)
           /\ budget' \in [crashes : Nat, faults : Nat,
                           reviews : 0..MaxReviews]
           /\ budget'.reviews = budget.reviews
<1>1. CASE Goto(w, r) /\ UNCHANGED budget
  BY <1>1, KeepsBudget
<1>2. CASE Spend("faults") /\ Raise(w, "CONNECTION_RELEASE_FAILED")
  BY <1>2, Spends, RaiseLands DEF Errors
<1> QED BY <1>1, <1>2 DEF Committed

\* Clock readings a worker may carry into its transaction.
LEMMA StampsAreReadings ==
    ASSUME OrchInv, NEW w \in Workers, NEW ts \in Stamps(w)
    PROVE  ts \in 0..clock
<1>1. since[w] \in Nat /\ clock \in Nat
  BY DEF OrchInv, LocalTypeOK, SagaInv, TypeOK
<1> QED BY <1>1 DEF Stamps

LEMMA ExecuteKeeps ==
    ASSUME OrchInv, NEW w \in Workers, Execute(w)
    PROVE  OrchInv'
<1>1. [SagaNext]_sagaVars /\ UNCHANGED effects
  BY DEF Execute, SagaNext, sagaVars, RegisterSaga
<1>2. UNCHANGED world /\ UNCHANGED budget
  BY DEF Execute
<1>3. Lands(w)
  <2>1. PICK r : r = [Idle EXCEPT !.pc = "claim"]
    OBVIOUS
  <2>2. "claim" \in Points
    BY DEF Points
  <2>3. r \in LocalRecords /\ r.pc \in Unbound
    BY <2>1, <2>2, IdleTyped DEF LocalRecords, Unbound
  <2> QED BY <2>1, <2>3, GotoUnbound DEF Execute
<1> QED BY <1>1, <1>2, <1>3, KeepsBudget, QuietStepKeeps

LEMMA HandlerStartLands ==
    ASSUME OrchInv, Grows, NEW w \in Workers, NEW ms \in 0..7,
           Goto(w, HandlerStart(ms)), Registered, ms <= saga.ms
    PROVE  Lands(w)
<1>1. PICK r : r = HandlerStart(ms)
  OBVIOUS
<1>2. "intent" \in Points
  BY DEF Points
<1>3. r \in LocalRecords /\ r.pc = "intent" /\ r.ms = ms
  BY <1>1, <1>2, IdleTyped DEF HandlerStart, LocalRecords
<1>4. /\ local' \in [Workers -> LocalRecords]
      /\ since' \in [Workers -> Nat]
      /\ \A v \in Workers \ {w} : local'[v] = local[v]
      /\ local'[w] = r
  BY <1>1, <1>3, GotoLocal
<1>5. Registered' /\ ms <= saga'.ms
  BY DEF Grows
<1>6. LocalOK(w)'
  BY <1>3, <1>4, <1>5 DEF LocalOK, Unbound
<1> QED BY <1>4, <1>6 DEF Lands

LEMMA ClaimKeeps ==
    ASSUME OrchInv, NEW w \in Workers, Claim(w)
    PROVE  OrchInv'
<1>1. UNCHANGED world
  BY DEF Claim
<1>2. PICK ts \in Stamps(w) :
          \/ /\ ClaimSaga(w, Lease, ts)
             /\ Committed(w, HandlerStart(saga.ms))
          \/ /\ Raise(w, "GUARD_REJECTED")
             /\ UNCHANGED <<sagaVars, budget>>
          \/ /\ Raise(w, "INGESTION_CLAIM_CONFLICT")
             /\ UNCHANGED <<sagaVars, budget>>
  BY DEF Claim
<1>3. CASE ClaimSaga(w, Lease, ts) /\ Committed(w, HandlerStart(saga.ms))
  <2>1. ts \in 0..clock /\ w \in Tokens /\ Lease \in 1..Lease
    BY StampsAreReadings, WorkerKnows, SagaAssumption
  <2>2. [SagaNext]_sagaVars
    BY <1>3, <2>1 DEF SagaNext
  <2>3. UNCHANGED effects /\ Registered /\ saga.ms # PUBLISHED
    BY <1>3 DEF ClaimSaga, Claimable
  <2>4. PICK ms : ms = saga.ms
    OBVIOUS
  <2>5. ms \in 0..7 /\ ms <= saga.ms
    BY <2>3, <2>4, StagesReached, MilestoneValues
  <2>6. Grows
    BY <1>1, <2>2, <2>3, StoreGrows
       DEF OrchInv, WorldInv, Grows, world
  <2>7. Goto(w, HandlerStart(ms)) => Lands(w)
    BY <2>3, <2>5, <2>6, HandlerStartLands
  <2>8. PICK r : r = HandlerStart(ms)
    OBVIOUS
  <2>9. Committed(w, r) /\ (Goto(w, r) => Lands(w))
    BY <1>3, <2>4, <2>7, <2>8
  <2> QED BY <1>1, <2>2, <2>3, <2>9, CommittedKeepsBudget, QuietStepKeeps
<1>4. CASE Raise(w, "GUARD_REJECTED") /\ UNCHANGED <<sagaVars, budget>>
  BY <1>1, <1>4, RaiseLands, SilentKeeps, KeepsBudget DEF Errors
<1>5. CASE Raise(w, "INGESTION_CLAIM_CONFLICT")
           /\ UNCHANGED <<sagaVars, budget>>
  BY <1>1, <1>5, RaiseLands, SilentKeeps, KeepsBudget DEF Errors
<1> QED BY <1>2, <1>3, <1>4, <1>5

LEMMA ObserveKeeps ==
    ASSUME OrchInv, NEW w \in Workers, Observe(w)
    PROVE  OrchInv'
<1>1. UNCHANGED <<sagaVars, world>> /\ UNCHANGED budget
  BY DEF Observe
<1>2. CASE Goto(w, [Idle EXCEPT !.pc = "claim"])
  <2>1. PICK r : r = [Idle EXCEPT !.pc = "claim"]
    OBVIOUS
  <2>2. "claim" \in Points
    BY DEF Points
  <2>3. r \in LocalRecords /\ r.pc \in Unbound
    BY <2>1, <2>2, IdleTyped DEF LocalRecords, Unbound
  <2>4. Lands(w)
    BY <1>2, <2>1, <2>3, GotoUnbound
  <2> QED BY <1>1, <2>4, SilentKeeps, KeepsBudget
<1>3. CASE Return(w)
  BY <1>1, <1>3, ReturnLands, SilentKeeps, KeepsBudget
<1> QED BY <1>2, <1>3 DEF Observe

LEMMA FailKeeps ==
    ASSUME OrchInv, NEW w \in Workers, Fail(w)
    PROVE  OrchInv'
<1>1. UNCHANGED world /\ UNCHANGED budget /\ Return(w)
  BY DEF Fail
<1>2. PICK code : code = Surfaced(local[w].err)
  OBVIOUS
<1>3. \/ UNCHANGED sagaVars
      \/ \E ts \in Stamps(w) : RecordFailure(Classify(code), ts)
  BY <1>2 DEF Fail
<1>4. Classify(code) \in FailureDispositions
  BY DEF Classify, FailureDispositions
<1>5. [SagaNext]_sagaVars /\ UNCHANGED effects
  <2>1. CASE UNCHANGED sagaVars
    BY <2>1 DEF sagaVars
  <2>2. ASSUME NEW ts \in Stamps(w), RecordFailure(Classify(code), ts)
        PROVE  [SagaNext]_sagaVars /\ UNCHANGED effects
    <3>1. ts \in 0..clock
      BY StampsAreReadings
    <3>2. SagaNext
      BY <1>4, <2>2, <3>1 DEF SagaNext
    <3> QED BY <2>2, <3>2 DEF RecordFailure
  <2> QED BY <1>3, <2>1, <2>2
<1> QED BY <1>1, <1>5, ReturnLands, KeepsBudget, QuietStepKeeps

LEMMA StorageFaultKeeps ==
    ASSUME OrchInv, NEW w \in Workers, StorageFault(w)
    PROVE  OrchInv'
<1>1. UNCHANGED <<sagaVars, world>> /\ Spend("faults")
  BY DEF StorageFault
<1>2. Lands(w)
  BY RaiseLands DEF StorageFault, Errors
<1> QED BY <1>1, <1>2, Spends, SilentKeeps

LEMMA TransactionFaultKeeps ==
    ASSUME OrchInv, NEW w \in Workers, TransactionFault(w)
    PROVE  OrchInv'
<1>1. UNCHANGED <<sagaVars, world>> /\ Spend("faults")
  BY DEF TransactionFault
<1>2. Lands(w)
  BY RaiseLands, ReturnLands DEF TransactionFault, Errors
<1> QED BY <1>1, <1>2, Spends, SilentKeeps

LEMMA CrashKeeps ==
    ASSUME OrchInv, NEW w \in Workers, Crash(w)
    PROVE  OrchInv'
<1>1. UNCHANGED <<sagaVars, world>> /\ Spend("crashes") /\ Return(w)
  BY DEF Crash
<1> QED BY <1>1, ReturnLands, Spends, SilentKeeps

LEMMA StepUnboundLands ==
    ASSUME OrchInv, NEW w \in Workers, Goto(w, Step(w, "observe"))
    PROVE  Lands(w)
<1>1. PICK r : r = Step(w, "observe")
  OBVIOUS
<1>2. "observe" \in Points
  BY DEF Points
<1>3. r \in LocalRecords /\ r.pc \in Unbound
  BY <1>1, <1>2, WorkerKnows DEF Step, LocalRecords, Unbound
<1> QED BY <1>1, <1>3, GotoUnbound

LEMMA AdvanceKeeps ==
    ASSUME OrchInv, NEW w \in Workers, Advance(w)
    PROVE  OrchInv'
<1>1. UNCHANGED world
  BY DEF Advance
<1>2. local[w].ev # None /\ Target(w) \in 1..8 /\ local[w].ev \in Receipts
  BY WorkerKnows DEF Advance, At, LocalOK
<1>3. PICK target, digest : target = Target(w) /\ digest = local[w].ev
  OBVIOUS
<1>4. PICK ts \in Stamps(w) :
          \/ /\ Transition(target, digest, ts)
             /\ Committed(w, Step(w, "observe"))
          \/ /\ Goto(w, Step(w, "observe"))
             /\ UNCHANGED <<sagaVars, budget>>
          \/ /\ Raise(w, "GUARD_REJECTED")
             /\ UNCHANGED <<sagaVars, budget>>
          \/ /\ Raise(w, "ILLEGAL_INGESTION_TRANSITION")
             /\ UNCHANGED <<sagaVars, budget>>
  BY <1>3 DEF Advance
<1>5. CASE Transition(target, digest, ts) /\ Committed(w, Step(w, "observe"))
  <2>1. ts \in 0..clock
    BY StampsAreReadings
  <2>2. target \in 1..PUBLISHED /\ digest \in Receipts \cup Locators
    BY <1>2, <1>3, MilestoneValues
  <2>3. [SagaNext]_sagaVars
    BY <1>5, <2>1, <2>2 DEF SagaNext
  <2>4. UNCHANGED effects
    BY <1>5 DEF Transition
  <2>5. PICK r : r = Step(w, "observe")
    OBVIOUS
  <2>6. Committed(w, r) /\ (Goto(w, r) => Lands(w))
    BY <1>5, <2>5, StepUnboundLands
  <2> QED BY <1>1, <2>3, <2>4, <2>6, CommittedKeepsBudget, QuietStepKeeps
<1>6. CASE Goto(w, Step(w, "observe")) /\ UNCHANGED <<sagaVars, budget>>
  BY <1>1, <1>6, StepUnboundLands, SilentKeeps, KeepsBudget
<1>7. CASE Raise(w, "GUARD_REJECTED") /\ UNCHANGED <<sagaVars, budget>>
  BY <1>1, <1>7, RaiseLands, SilentKeeps, KeepsBudget DEF Errors
<1>8. CASE Raise(w, "ILLEGAL_INGESTION_TRANSITION")
           /\ UNCHANGED <<sagaVars, budget>>
  BY <1>1, <1>8, RaiseLands, SilentKeeps, KeepsBudget DEF Errors
<1> QED BY <1>4, <1>5, <1>6, <1>7, <1>8

(***************************************************************************)
(* A call of the store that leaves the world alone.                        *)
(***************************************************************************)
LEMMA StoreCall ==
    ASSUME OrchInv, [SagaNext]_sagaVars, UNCHANGED world
    PROVE  Grows
<1>1. SagaInv /\ TypeOK
  BY DEF OrchInv, SagaInv
<1>2. \A k \in Kinds :
          /\ effects[k].intent # None =>
                effects'[k].intent = effects[k].intent
          /\ effects[k].receipt # None =>
                effects'[k].receipt = effects[k].receipt
  BY <1>1, EvidenceIsAppendOnly
<1>3. source.seq \in Nat /\ UNCHANGED <<file, objects, parsed, source>>
  BY DEF OrchInv, WorldInv, world
<1> QED BY <1>1, <1>2, <1>3, StoreGrows DEF Grows

LEMMA StoreCallKeeps ==
    ASSUME OrchInv, NEW w \in Workers, [SagaNext]_sagaVars, UNCHANGED world,
           Lands(w), EffectsInv',
           budget' \in [crashes : Nat, faults : Nat, reviews : 0..MaxReviews],
           budget'.reviews = budget.reviews
    PROVE  OrchInv'
<1>1. Grows
  BY StoreCall
<1>2. WorldInv'
  BY DEF OrchInv, WorldInv, world, EachMoveOnce, EarliestSeq
<1>3. {"ACQUISITION", "S3_UPLOAD", "PARSE", "PUBLICATION"} \subseteq Kinds
  BY DEF Kinds
<1>4. WriteAheadIntent'
  BY <1>1, <1>3 DEF OrchInv, WriteAheadIntent, world, Declared, Grows
<1> QED BY <1>1, <1>2, <1>4, StepKeeps

(***************************************************************************)
(* With its intent durable a worker enters its handler, or carries the     *)
(* evidence already there to the transition.                               *)
(***************************************************************************)
LEMMA AfterIntentLands ==
    ASSUME OrchInv, Grows, NEW w \in Workers, At(w, "intent"),
           NEW k, k = Kind(w), Declared(k)',
           NEW receipt \in Receipts \cup {None},
           Goto(w, AfterIntent(w, receipt))
    PROVE  Lands(w)
<1>1. /\ Kind(w) \in Kinds
      /\ Upstream[Kind(w)] \in Receipts
      /\ Upstream[Kind(w)] # None
      /\ Registered /\ local[w].ms <= saga.ms
      /\ local[w].ms \in 0..7
  BY LocatorReady, WorkerKnows DEF LocalOK, At, Unbound
<1>2. Registered' /\ local[w].ms <= saga'.ms
  BY <1>1 DEF Grows
<1>3. ASSUME NEW r \in LocalRecords, r = AfterIntent(w, receipt),
             r.ms = local[w].ms,
             r.pc # "receipt", r.pc \notin Unbound,
             r.pc \in {"inspect", "read", "scan", "create", "link", "unlink"}
                => r.ms = 0,
             r.pc # "unlink",
             r.pc = "hash" => r.ms = 1,
             r.pc \in {"reconcile", "put", "recheck"} =>
                r.ms = 3 /\ r.step \in 1..S3Attempts,
             r.pc = "verify" => r.ms = 4,
             r.pc = "parse" => r.ms = 5,
             r.pc = "validate" => r.ms = 6,
             r.pc \in {"pubcheck", "pubchain", "pubread", "pubmove",
                       "pubconfirm"} => r.ms = 7,
             r.pc \notin {"pubread", "pubmove"},
             r.pc = "transition" => r.ev # None
      PROVE  Lands(w)
  <2>1. /\ local' \in [Workers -> LocalRecords]
        /\ since' \in [Workers -> Nat]
        /\ \A v \in Workers \ {w} : local'[v] = local[v]
        /\ local'[w] = r
    BY <1>3, GotoLocal
  <2>2. Kind(w)' = Kind(w)
    BY <1>3, <2>1 DEF Kind, Target
  <2>3. Declared(Kind(w))'
    BY <2>2 DEF Declared
  <2>4. LocalOK(w)'
    BY <1>2, <1>3, <2>1, <2>3 DEF LocalOK
  <2> QED BY <2>1, <2>4 DEF Lands
<1>4. PICK r : r = AfterIntent(w, receipt)
  OBVIOUS
<1>5. CASE Target(w) = 3
  <2>1. r = [local[w] EXCEPT !.pc = "transition", !.ev = Upstream[Kind(w)]]
    BY <1>4, <1>5, KindTable DEF AfterIntent
  <2>2. "transition" \in Points
    BY DEF Points
  <2>3. /\ r \in LocalRecords
        /\ r.pc = "transition" /\ r.ms = local[w].ms
        /\ r.ev = Upstream[Kind(w)]
    BY <1>1, <2>1, <2>2, WorkerKnows DEF LocalRecords
  <2> QED BY <1>1, <1>3, <1>4, <2>3 DEF Unbound
<1>6. CASE Target(w) # 3 /\ receipt # None
  <2>1. r = [local[w] EXCEPT !.pc = "transition", !.ev = receipt]
    BY <1>4, <1>6, KindTable DEF AfterIntent
  <2>2. "transition" \in Points
    BY DEF Points
  <2>3. /\ r \in LocalRecords
        /\ r.pc = "transition" /\ r.ms = local[w].ms
        /\ r.ev = receipt
    BY <2>1, <2>2, WorkerKnows DEF LocalRecords
  <2> QED BY <1>3, <1>4, <1>6, <2>3 DEF Unbound
<1>7. CASE Target(w) # 3 /\ receipt = None
  <2>1. r = [local[w] EXCEPT !.pc = EntryStep[Kind(w)], !.step = 1]
    BY <1>4, <1>7, KindTable DEF AfterIntent
  <2>2. /\ local[w].ms = 0 => EntryStep[Kind(w)] = "inspect"
        /\ local[w].ms = 1 => EntryStep[Kind(w)] = "hash"
        /\ local[w].ms = 3 => EntryStep[Kind(w)] = "reconcile"
        /\ local[w].ms = 4 => EntryStep[Kind(w)] = "verify"
        /\ local[w].ms = 5 => EntryStep[Kind(w)] = "parse"
        /\ local[w].ms = 6 => EntryStep[Kind(w)] = "validate"
        /\ local[w].ms = 7 => EntryStep[Kind(w)] = "pubcheck"
    BY KindTable, EntryTable DEF Kind, Target
  <2>3. local[w].ms \in {0, 1, 3, 4, 5, 6, 7}
    BY <1>1, <1>7 DEF Target
  <2>4. PICK p : p = EntryStep[Kind(w)]
    OBVIOUS
  <2>5. p \in {"inspect", "hash", "reconcile", "verify", "parse", "validate",
               "pubcheck"}
    BY <2>2, <2>3, <2>4
  <2>6. p \in Points
    BY <2>5 DEF Points
  <2>7. /\ r \in LocalRecords
        /\ r.pc = p /\ r.ms = local[w].ms /\ r.step = 1
    BY <2>1, <2>4, <2>6, WorkerKnows DEF LocalRecords
  <2>8. 1 \in 1..S3Attempts
    BY OrchestratorAssumption
  <2>9. /\ r.pc \notin Unbound
        /\ r.pc \notin {"receipt", "unlink", "pubread", "pubmove",
                        "transition"}
    BY <2>5, <2>7 DEF Unbound
  <2> QED BY <1>3, <1>4, <2>2, <2>3, <2>4, <2>7, <2>8, <2>9
<1> QED BY <1>4, <1>5, <1>6, <1>7

LEMMA IntentKeeps ==
    ASSUME OrchInv, NEW w \in Workers, Intent(w)
    PROVE  OrchInv'
<1>1. UNCHANGED world /\ At(w, "intent")
  BY DEF Intent
<1>2. PICK k, locator : k = Kind(w) /\ locator = Upstream[Kind(w)]
  OBVIOUS
<1>3. k \in Kinds /\ locator \in Locators /\ locator # None
  BY <1>1, <1>2, LocatorReady
<1>4. CASE RecordEffectIntent(k, locator)
           /\ Committed(w, AfterIntent(w, None))
  <2>1. [SagaNext]_sagaVars
    BY <1>3, <1>4 DEF SagaNext
  <2>2. Grows
    BY <1>1, <2>1, StoreCall
  <2>3. effects \in [Kinds -> [intent : Locators \cup {None},
                               receipt : Receipts \cup {None}]]
    BY DEF OrchInv, SagaInv, TypeOK
  <2>4. /\ effects'[k].intent = locator
        /\ \A q \in Kinds : effects'[q].receipt = effects[q].receipt
        /\ \A q \in Kinds \ {k} : effects'[q].intent = effects[q].intent
    BY <1>3, <1>4, <2>3 DEF RecordEffectIntent
  <2>5. {"S3_UPLOAD", "S3_LOCK_VERIFICATION", "PARSE"} \subseteq Kinds
    BY DEF Kinds
  <2>6. Upstream'[k] = Upstream[k]
    BY <1>3, <2>4, <2>5, UpstreamTable, NextUpstreamTable DEF Kinds
  <2>7. EffectsInv'
    BY <1>2, <2>2, <2>4, <2>6, EffectsKeep
  <2>8. Declared(k)'
    BY <1>3, <2>4 DEF Declared
  <2>9. PICK r : r = AfterIntent(w, None)
    OBVIOUS
  <2>10. Committed(w, r) /\ (Goto(w, r) => Lands(w))
    BY <1>1, <1>2, <1>4, <2>2, <2>8, <2>9, AfterIntentLands
  <2> QED BY <1>1, <2>1, <2>7, <2>10, CommittedKeepsBudget, StoreCallKeeps
<1>5. CASE IntentHeld(k, locator) /\ Goto(w, AfterIntent(w, effects[k].receipt))
           /\ UNCHANGED <<sagaVars, budget>>
  <2>1. Grows
    BY <1>1, <1>5, KeepsBudget, SilentStep
  <2>2. Declared(k)'
    BY <1>3, <1>5 DEF IntentHeld, Declared, sagaVars
  <2>3. PICK receipt : receipt = effects[k].receipt
    OBVIOUS
  <2>4. receipt \in Receipts \cup {None}
    BY <1>3, <2>3 DEF OrchInv, SagaInv, TypeOK
  <2>5. Lands(w)
    BY <1>1, <1>2, <1>5, <2>1, <2>2, <2>3, <2>4, AfterIntentLands
  <2> QED BY <1>1, <1>5, <2>5, SilentKeeps, KeepsBudget
<1> QED BY <1>2, <1>4, <1>5 DEF Intent

LEMMA ReceiptKeeps ==
    ASSUME OrchInv, NEW w \in Workers, Receipt(w)
    PROVE  OrchInv'
<1>1. UNCHANGED world /\ local[w].pc = "receipt"
  BY DEF Receipt, At
<1>2. PICK k, receipt : k = Kind(w) /\ receipt = local[w].ev
  OBVIOUS
<1>3. k \in Kinds /\ receipt \in Receipts /\ receipt # None
  BY <1>1, <1>2, WorkerKnows DEF LocalOK
<1>4. Backed(k, receipt)
  BY <1>1, <1>2, WorkerKnows DEF LocalOK
<1>5. "transition" \in Points
  BY DEF Points
<1>6. ASSUME Grows, Goto(w, Step(w, "transition"))
      PROVE  Lands(w)
  BY <1>1, <1>2, <1>3, <1>5, <1>6, StepLands DEF Unbound
<1>7. CASE RecordEffectReceipt(k, receipt)
           /\ Committed(w, Step(w, "transition"))
  <2>1. [SagaNext]_sagaVars
    BY <1>3, <1>7 DEF SagaNext
  <2>2. Grows
    BY <1>1, <2>1, StoreCall
  <2>3. effects \in [Kinds -> [intent : Locators \cup {None},
                               receipt : Receipts \cup {None}]]
    BY DEF OrchInv, SagaInv, TypeOK
  <2>4. /\ effects'[k].receipt = receipt
        /\ \A q \in Kinds : effects'[q].intent = effects[q].intent
        /\ \A q \in Kinds \ {k} : effects'[q].receipt = effects[q].receipt
    BY <1>3, <1>7, <2>3 DEF RecordEffectReceipt
  <2>5. Backed(k, receipt)'
    BY <1>4, <2>2, BackedKeeps
  <2>6. Backed(k, effects[k].receipt)'
    BY <2>4, <2>5 DEF Backed
  <2>7. EffectsInv'
    BY <2>2, <2>4, <2>6, EffectsKeep
  <2>8. PICK r : r = Step(w, "transition")
    OBVIOUS
  <2>9. Committed(w, r) /\ (Goto(w, r) => Lands(w))
    BY <1>6, <1>7, <2>2, <2>8
  <2> QED BY <1>1, <2>1, <2>7, <2>9, CommittedKeepsBudget, StoreCallKeeps
<1>8. CASE Goto(w, Step(w, "transition")) /\ UNCHANGED <<sagaVars, budget>>
  BY <1>1, <1>6, <1>8, SilentStep, SilentKeeps, KeepsBudget
<1>9. CASE Raise(w, "EXTERNAL_RECEIPT_CONFLICT")
           /\ UNCHANGED <<sagaVars, budget>>
  BY <1>1, <1>9, RaiseLands, SilentKeeps, KeepsBudget DEF Errors
<1> QED BY <1>2, <1>7, <1>8, <1>9 DEF Receipt
-----------------------------------------------------------------------------
(***************************************************************************)
(* The steps on the world: the volume, the bucket, the parser's artifacts  *)
(* and the source registry.                                                *)
(***************************************************************************)
LEMMA WorldGrows ==
    ASSUME OrchInv, UNCHANGED sagaVars,
           file # None => file' = file,
           objects = 1 => objects' = 1,
           parsed = 1 => parsed' = 1,
           source'.seq \in Nat, source.seq <= source'.seq
    PROVE  Grows
<1>1. saga.ms \in 0..8 /\ UNCHANGED <<saga, effects>>
  BY StagesReached DEF sagaVars
<1>2. source.seq \in Nat
  BY DEF OrchInv, WorldInv
<1> QED BY <1>1, <1>2 DEF Grows, Registered

LEMMA WorldStepKeeps ==
    ASSUME OrchInv, NEW w \in Workers, UNCHANGED sagaVars, Grows, Lands(w),
           WorldInv', WriteAheadIntent'
    PROVE  OrchInv'
<1>1. [SagaNext]_sagaVars /\ UNCHANGED effects
  BY DEF sagaVars
<1>2. EffectsInv'
  BY <1>1, EffectsKeep
<1> QED BY <1>1, <1>2, StepKeeps

\* A step on the volume only.
LEMMA VolumeStepKeeps ==
    ASSUME OrchInv, NEW w \in Workers, local[w].pc \notin Unbound \cup {"intent"},
           local[w].ms = 0 \/ (file' = file /\ temps' = temps),
           UNCHANGED sagaVars,
           UNCHANGED <<objects, parsed, source, moved, content>>,
           file # None => file' = file,
           file' \in Workers \cup {None}, temps' \subseteq Workers,
           Grows => Lands(w),
           budget' \in [crashes : Nat, faults : Nat, reviews : 0..MaxReviews],
           budget'.reviews = budget.reviews
    PROVE  OrchInv'
<1>1. source.seq \in Nat
  BY DEF OrchInv, WorldInv
<1>2. Grows
  BY <1>1, WorldGrows
<1>3. WorldInv'
  BY DEF OrchInv, WorldInv, EachMoveOnce, EarliestSeq
<1>4. CASE local[w].ms = 0
  <2>1. Kind(w) = "ACQUISITION"
    BY <1>4, WorkerKnows, KindTable DEF Kind
  <2>2. Declared("ACQUISITION")
    BY <2>1, WorkerKnows DEF LocalOK
  <2>3. WriteAheadIntent'
    BY <2>2 DEF OrchInv, WriteAheadIntent, Declared, sagaVars
  <2> QED BY <1>2, <1>3, <2>3, WorldStepKeeps
<1>5. CASE file' = file /\ temps' = temps
  <2>1. WriteAheadIntent'
    BY <1>5 DEF OrchInv, WriteAheadIntent, Declared, sagaVars
  <2> QED BY <1>2, <1>3, <2>1, WorldStepKeeps
<1> QED BY <1>4, <1>5

LEMMA CreateTemporaryKeeps ==
    ASSUME OrchInv, NEW w \in Workers, CreateTemporary(w)
    PROVE  OrchInv'
<1>1. /\ UNCHANGED <<sagaVars, objects, parsed, source, moved, content>>
      /\ file' = file /\ UNCHANGED budget /\ Goto(w, Step(w, "link"))
  BY DEF CreateTemporary
<1>2. local[w].pc = "create" /\ local[w].ms = 0 /\ "link" \in Points
  BY WorkerKnows DEF CreateTemporary, At, LocalOK, Points
<1>3. temps' \subseteq Workers /\ file' \in Workers \cup {None}
  BY <1>1 DEF CreateTemporary, OrchInv, WorldInv
<1>4. Grows => Lands(w)
  BY <1>1, <1>2, StepLands DEF Unbound
<1> QED BY <1>1, <1>2, <1>3, <1>4, KeepsBudget, VolumeStepKeeps DEF Unbound

LEMMA LinkKeeps ==
    ASSUME OrchInv, NEW w \in Workers, Link(w)
    PROVE  OrchInv'
<1>1. /\ UNCHANGED <<sagaVars, objects, parsed, source, moved, content>>
      /\ UNCHANGED budget
  BY DEF Link
<1>2. local[w].pc = "link" /\ local[w].ms = 0 /\ "unlink" \in Points
  BY WorkerKnows DEF Link, At, LocalOK, Points
<1>3. /\ temps' \subseteq Workers
      /\ file' \in Workers \cup {None}
      /\ file # None => file' = file
      /\ file' # None
  BY WorkerKnows DEF Link, LinkTarget, OrchInv, WorldInv
<1>4. CASE Goto(w, Step(w, "unlink"))
  <2>1. Grows => Lands(w)
    BY <1>2, <1>3, <1>4, StepLands DEF Unbound
  <2> QED BY <1>1, <1>2, <1>3, <2>1, KeepsBudget, VolumeStepKeeps DEF Unbound
<1>5. CASE Raise(w, "EXTERNAL_TARGET_EXISTS")
  <2>1. Lands(w)
    BY <1>5, RaiseLands DEF Errors
  <2> QED BY <1>1, <1>2, <1>3, <2>1, KeepsBudget, VolumeStepKeeps DEF Unbound
<1> QED BY <1>4, <1>5 DEF Link

LEMMA UnlinkKeeps ==
    ASSUME OrchInv, NEW w \in Workers, Unlink(w)
    PROVE  OrchInv'
<1>1. /\ UNCHANGED <<sagaVars, objects, parsed, source, moved, content>>
      /\ file' = file
  BY DEF Unlink
<1>2. local[w].pc = "unlink" /\ local[w].ms = 0 /\ file # None
  BY WorkerKnows DEF Unlink, At, LocalOK
<1>3. temps' \subseteq Workers /\ file' \in Workers \cup {None}
  BY <1>1 DEF Unlink, OrchInv, WorldInv
<1>4. CASE Goto(w, Holding(w, Evidence(w, 0))) /\ UNCHANGED budget
  <2>1. PICK e : e = Evidence(w, 0)
    OBVIOUS
  <2>2. e \in Receipts
    BY <2>1, EvidenceTyped, OrchestratorAssumption
  <2>3. Kind(w) = "ACQUISITION"
    BY <1>2, KindTable, WorkerKnows DEF Kind
  <2>4. Backed("ACQUISITION", e)'
    BY <1>1, <1>2 DEF Backed
  <2>5. Grows => Lands(w)
    BY <1>2, <1>4, <2>1, <2>2, <2>3, <2>4, HoldingLands DEF Unbound
  <2> QED BY <1>1, <1>2, <1>3, <1>4, <2>5, KeepsBudget, VolumeStepKeeps
          DEF Unbound
<1>5. CASE Spend("faults") /\ Raise(w, "EXTERNAL_VOLUME_UNAVAILABLE")
  <2>1. Lands(w)
    BY <1>5, RaiseLands DEF Errors
  <2> QED BY <1>1, <1>2, <1>3, <1>5, <2>1, Spends, VolumeStepKeeps
          DEF Unbound
<1> QED BY <1>4, <1>5 DEF Unlink

LEMMA VolumeFaultKeeps ==
    ASSUME OrchInv, NEW w \in Workers, VolumeFault(w)
    PROVE  OrchInv'
<1>1. /\ UNCHANGED <<sagaVars, objects, parsed, source, moved, content>>
      /\ file' = file /\ Spend("faults")
  BY DEF VolumeFault
<1>2. /\ local[w].pc \in {"inspect", "read", "scan", "create", "link", "hash"}
      /\ local[w].pc = "link" => local[w].ms = 0
  BY WorkerKnows DEF VolumeFault, LocalOK
<1>3. /\ temps' \subseteq Workers /\ file' \in Workers \cup {None}
      /\ local[w].pc # "link" => temps' = temps
  BY <1>1 DEF VolumeFault, OrchInv, WorldInv, At
<1>4. Lands(w)
  BY RaiseLands DEF VolumeFault, Errors
<1> QED BY <1>1, <1>2, <1>3, <1>4, Spends, VolumeStepKeeps DEF Unbound

LEMMA PutKeeps ==
    ASSUME OrchInv, NEW w \in Workers, Put(w)
    PROVE  OrchInv'
<1>1. UNCHANGED <<sagaVars, file, temps, parsed, source, moved, content>>
  BY DEF Put
<1>2. /\ local[w].pc = "put" /\ local[w].ms = 3
      /\ local[w].step \in 1..S3Attempts /\ "recheck" \in Points
  BY WorkerKnows DEF Put, At, LocalOK, Points
<1>3. objects \in {0, 1} /\ source.seq \in Nat /\ parsed \in 0..objects
  BY DEF OrchInv, WorldInv
<1>4. ConditionalPut = 1
  BY <1>3 DEF ConditionalPut
<1>5. Declared("S3_UPLOAD")
  BY <1>2, WorkerKnows, KindTable DEF LocalOK, Kind, Unbound
<1>6. ASSUME objects' \in {objects, 1}, Grows => Lands(w),
             budget' \in [crashes : Nat, faults : Nat,
                          reviews : 0..MaxReviews],
             budget'.reviews = budget.reviews
      PROVE  OrchInv'
  <2>1. Grows
    BY <1>1, <1>3, <1>6, WorldGrows
  <2>2. objects' \in {0, 1} /\ parsed' \in 0..objects'
    BY <1>1, <1>3, <1>6
  <2>3. WorldInv'
    BY <1>1, <1>6, <2>2 DEF OrchInv, WorldInv, EachMoveOnce, EarliestSeq
  <2>4. WriteAheadIntent'
    BY <1>1, <1>5 DEF OrchInv, WriteAheadIntent, Declared, sagaVars
  <2> QED BY <1>1, <1>6, <2>1, <2>3, <2>4, WorldStepKeeps
<1>7. CASE /\ objects' = ConditionalPut
           /\ Goto(w, Holding(w, Evidence(w, objects')))
           /\ UNCHANGED budget
  <2>1. PICK e : e = Evidence(w, objects')
    OBVIOUS
  <2>2. objects' = 1
    BY <1>4, <1>7
  <2>3. Goto(w, Holding(w, e))
    BY <1>7, <2>1
  <2>4. Grows => Lands(w)
    BY <1>2, <2>1, <2>2, <2>3, UploadEvidence
  <2> QED BY <1>6, <1>7, <2>2, <2>4, KeepsBudget
<1>8. CASE /\ Raise(w, "S3_CONDITIONAL_WRITE_CONFLICT")
           /\ UNCHANGED <<objects, budget>>
  BY <1>6, <1>8, RaiseLands, KeepsBudget DEF Errors
<1>9. CASE /\ Spend("faults")
           /\ objects' \in {objects, ConditionalPut}
           /\ Goto(w, Step(w, "recheck"))
  <2>1. Grows => Lands(w)
    BY <1>2, <1>9, StepLands DEF Unbound
  <2> QED BY <1>4, <1>6, <1>9, <2>1, Spends
<1> QED BY <1>7, <1>8, <1>9 DEF Put

LEMMA ParseKeeps ==
    ASSUME OrchInv, NEW w \in Workers, Parse(w)
    PROVE  OrchInv'
<1>1. UNCHANGED <<sagaVars, file, temps, objects, source, moved, content>>
  BY DEF Parse
<1>2. local[w].pc = "parse" /\ local[w].ms = 5 /\ local[w].ms <= saga.ms
  BY WorkerKnows DEF Parse, At, LocalOK, Unbound
<1>3. objects = 1 /\ effects["S3_UPLOAD"].receipt.ref = 1
  BY <1>2, StagesReached
<1>4. source.seq \in Nat /\ parsed \in {0, 1}
  BY <1>3 DEF OrchInv, WorldInv
<1>5. Kind(w) = "PARSE"
  BY <1>2, WorkerKnows, KindTable DEF Kind
<1>6. Declared("PARSE")
  BY <1>2, <1>5, WorkerKnows DEF LocalOK, Unbound
<1>7. ASSUME parsed' \in {parsed, 1}, Grows => Lands(w),
             budget' \in [crashes : Nat, faults : Nat,
                          reviews : 0..MaxReviews],
             budget'.reviews = budget.reviews
      PROVE  OrchInv'
  <2>1. Grows
    BY <1>1, <1>4, <1>7, WorldGrows
  <2>2. parsed' \in 0..objects'
    BY <1>1, <1>3, <1>4, <1>7
  <2>3. WorldInv'
    BY <1>1, <1>7, <2>2 DEF OrchInv, WorldInv, EachMoveOnce, EarliestSeq
  <2>4. WriteAheadIntent'
    BY <1>1, <1>6 DEF OrchInv, WriteAheadIntent, Declared, sagaVars
  <2> QED BY <1>1, <1>7, <2>1, <2>3, <2>4, WorldStepKeeps
<1>8. CASE content = "BLOCKED"
  <2>1. Raise(w, "PARSE_CONTENT_BLOCKED") /\ UNCHANGED <<parsed, budget>>
    BY <1>8 DEF Parse
  <2> QED BY <1>7, <2>1, RaiseLands, KeepsBudget DEF Errors
<1>9. CASE content # "BLOCKED"
  <2>1. parsed' = 1 /\ Committed(w, Holding(w, Evidence(None, parsed')))
    BY <1>3, <1>4, <1>9 DEF Parse
  <2>2. PICK e : e = Evidence(None, 1)
    OBVIOUS
  <2>3. e \in Receipts /\ e.ref = 1
    BY <2>2, EvidenceTyped, OrchestratorAssumption
  <2>4. Backed("PARSE", e)'
    BY <2>1, <2>3 DEF Backed
  <2>5. PICK r : r = Holding(w, e)
    OBVIOUS
  <2>6. Grows
    BY <1>1, <1>4, <2>1, WorldGrows
  <2>7. Committed(w, r) /\ (Goto(w, r) => Lands(w))
    BY <1>2, <1>5, <2>1, <2>2, <2>3, <2>4, <2>5, <2>6, HoldingLands
       DEF Unbound
  <2> QED BY <1>7, <2>1, <2>7, CommittedKeepsBudget
<1> QED BY <1>8, <1>9

(***************************************************************************)
(* An event of the source leaves it no earlier than its state requires.    *)
(***************************************************************************)
LEMMA SourceMoves ==
    ASSUME OrchInv, NEW to \in AllowedPublication[source.st],
           source' = [st |-> to, seq |-> source.seq + 1]
    PROVE  /\ source' \in [st : PublicationStates, seq : Nat]
           /\ source'.seq = source.seq + 1
           /\ EarliestSeq(source.st)'
<1>1. source.st \in PublicationStates /\ source.seq \in Nat
  BY DEF OrchInv, WorldInv
<1>2. source'.st = to /\ source'.seq = source.seq + 1
  OBVIOUS
<1>3. to \in PublicationStates /\ to # "REGISTERED"
  BY <1>1 DEF AllowedPublication, PublicationStates
<1>4. to = "ELIGIBLE" => source.st = "REVIEW_REQUIRED"
  BY <1>1 DEF AllowedPublication, PublicationStates
<1>5. to = "PUBLISHED" => source.st = "ELIGIBLE"
  BY <1>1 DEF AllowedPublication, PublicationStates
<1>6. EarliestSeq(source.st)
  BY DEF OrchInv, WorldInv
<1>7. EarliestSeq(source.st)'
  BY <1>1, <1>2, <1>3, <1>4, <1>5, <1>6 DEF EarliestSeq, PublicationStates
<1> QED BY <1>1, <1>2, <1>3, <1>7

LEMMA PublicationMoveKeeps ==
    ASSUME OrchInv, NEW w \in Workers, PublicationMove(w)
    PROVE  OrchInv'
<1>1. UNCHANGED <<sagaVars, file, temps, objects, parsed, content>>
  BY DEF PublicationMove
<1>2. /\ local[w].pc = "pubmove" /\ local[w].ms = 7
      /\ local[w].step \in 1..3
  BY WorkerKnows DEF PublicationMove, At, LocalOK
<1>3. PICK i : i = local[w].step
  OBVIOUS
<1>4. Declared("PUBLICATION")
  BY <1>2, WorkerKnows, KindTable DEF LocalOK, Kind, Unbound
<1>5. ASSUME UNCHANGED <<source, moved, budget>>, Lands(w)
      PROVE  OrchInv'
  BY <1>1, <1>5, SilentKeeps, KeepsBudget DEF world
<1>6. CASE Raise(w, "IDEMPOTENCY_BINDING_CONFLICT")
           /\ UNCHANGED <<source, moved, budget>>
  BY <1>5, <1>6, RaiseLands DEF Errors
<1>7. CASE Raise(w, "STALE_PUBLICATION_STATE")
           /\ UNCHANGED <<source, moved, budget>>
  BY <1>5, <1>7, RaiseLands DEF Errors
<1>8. CASE Raise(w, "PUBLICATION_NOT_ELIGIBLE")
           /\ UNCHANGED <<source, moved, budget>>
  BY <1>5, <1>8, RaiseLands DEF Errors
<1>9. CASE /\ ~MoveCompleted(MoveTo[i]) /\ source.st = MoveFrom[i]
           /\ source' = [st |-> MoveTo[i], seq |-> source.seq + 1]
           /\ moved' = moved \cup {MoveTo[i]}
           /\ Committed(w, NextMove(w))
  <2>1. PICK to : to = MoveTo[i]
    OBVIOUS
  <2>2. to \in AllowedPublication[source.st]
    BY <1>2, <1>3, <1>9, <2>1, MoveTable
       DEF AllowedPublication, PublicationStates
  <2>3. /\ source' \in [st : PublicationStates, seq : Nat]
        /\ source'.seq = source.seq + 1
        /\ EarliestSeq(source.st)'
    BY <1>9, <2>1, <2>2, SourceMoves
  <2>4. source.seq \in Nat
    BY DEF OrchInv, WorldInv
  <2>5. Grows
    BY <1>1, <2>3, <2>4, WorldGrows
  <2>6. PICK r : r = NextMove(w)
    OBVIOUS
  <2>7. Committed(w, r) /\ (Goto(w, r) => Lands(w))
    BY <1>2, <1>9, <2>5, <2>6, NextMoveLands
  <2>8. /\ Lands(w)
        /\ budget' \in [crashes : Nat, faults : Nat, reviews : 0..MaxReviews]
        /\ budget'.reviews = budget.reviews
    BY <2>7, CommittedKeepsBudget
  <2>9. moved' \subseteq {"REVIEW_REQUIRED", "ELIGIBLE", "PUBLISHED"}
    <3>1. to \in {"REVIEW_REQUIRED", "ELIGIBLE", "PUBLISHED"}
      BY <1>2, <1>3, <2>1, MoveTable
    <3>2. moved' = moved \cup {to}
      BY <1>9, <2>1
    <3> QED BY <3>1, <3>2 DEF OrchInv, WorldInv
  <2>10. EachMoveOnce'
    <3>1. IsFiniteSet(moved) /\ Cardinality(moved) \in 0..3
      BY MovedIsFinite DEF OrchInv, WorldInv
    <3>2. to \notin moved /\ moved' = moved \cup {to}
      BY <1>9, <2>1 DEF MoveCompleted
    <3>3. Cardinality(moved') = Cardinality(moved) + 1
      BY <3>1, <3>2, FS_AddElement
    <3>4. /\ source.seq = Cardinality(moved) + (MaxReviews - budget.reviews)
          /\ budget.reviews \in 0..MaxReviews
      BY DEF OrchInv, WorldInv, EachMoveOnce
    <3>5. source'.seq = Cardinality(moved') + (MaxReviews - budget'.reviews)
      BY <2>3, <2>8, <3>1, <3>3, <3>4, OrchestratorAssumption
    <3> QED BY <3>5 DEF EachMoveOnce
  <2>11. WorldInv'
    BY <1>1, <2>3, <2>8, <2>9, <2>10 DEF OrchInv, WorldInv
  <2>12. WriteAheadIntent'
    BY <1>1, <1>4 DEF OrchInv, WriteAheadIntent, Declared, sagaVars
  <2> QED BY <1>1, <2>5, <2>8, <2>11, <2>12, WorldStepKeeps
<1> QED BY <1>3, <1>6, <1>7, <1>8, <1>9 DEF PublicationMove

\* No worker moves: what Review and ClockTick share.
LEMMA NobodyMovesKeeps ==
    ASSUME OrchInv, UNCHANGED <<local, since>>, [SagaNext]_sagaVars,
           UNCHANGED effects, Grows, WorldInv', WriteAheadIntent'
    PROVE  OrchInv'
<1>1. SagaInv'
  BY SagaInvStep DEF OrchInv
<1>2. \A v \in Workers : LocalOK(v)'
  BY BystanderKeeps
<1>3. LocalTypeOK'
  BY DEF OrchInv, LocalTypeOK
<1>4. EffectsInv'
  BY EffectsKeep
<1> QED BY <1>1, <1>2, <1>3, <1>4 DEF OrchInv

LEMMA ReviewKeeps ==
    ASSUME OrchInv, Review
    PROVE  OrchInv'
<1>1. /\ UNCHANGED <<sagaVars, local, since, file, temps, objects, parsed,
                     moved, content>>
      /\ Spend("reviews")
  BY DEF Review
<1>2. PICK to \in AllowedPublication[source.st] :
           source' = [st |-> to, seq |-> source.seq + 1]
  BY DEF Review
<1>3. /\ source' \in [st : PublicationStates, seq : Nat]
      /\ source'.seq = source.seq + 1
      /\ EarliestSeq(source.st)'
  BY <1>2, SourceMoves
<1>4. source.seq \in Nat
  BY DEF OrchInv, WorldInv
<1>5. Grows
  BY <1>1, <1>3, <1>4, WorldGrows
<1>6. /\ budget' \in [crashes : Nat, faults : Nat, reviews : 0..MaxReviews]
      /\ budget'.reviews = budget.reviews - 1
      /\ budget.reviews \in 0..MaxReviews
  BY <1>1, OrchestratorAssumption DEF OrchInv, WorldInv, Spend
<1>7. EachMoveOnce'
  <2>1. /\ source.seq = Cardinality(moved) + (MaxReviews - budget.reviews)
        /\ Cardinality(moved) \in 0..3
    BY MovedIsFinite DEF OrchInv, WorldInv, EachMoveOnce
  <2>2. source'.seq = Cardinality(moved) + (MaxReviews - budget'.reviews)
    BY <1>3, <1>6, <2>1, OrchestratorAssumption
  <2> QED BY <1>1, <2>2 DEF EachMoveOnce
<1>8. WorldInv'
  BY <1>1, <1>3, <1>6, <1>7 DEF OrchInv, WorldInv
<1>9. WriteAheadIntent'
  BY <1>1 DEF OrchInv, WriteAheadIntent, Declared, sagaVars
<1>10. [SagaNext]_sagaVars /\ UNCHANGED effects
  BY <1>1 DEF sagaVars
<1> QED BY <1>1, <1>5, <1>8, <1>9, <1>10, NobodyMovesKeeps

LEMMA ClockTickKeeps ==
    ASSUME OrchInv, ClockTick
    PROVE  OrchInv'
<1>1. /\ [SagaNext]_sagaVars /\ UNCHANGED effects
      /\ UNCHANGED world /\ UNCHANGED budget /\ UNCHANGED <<local, since>>
  BY DEF ClockTick, Tick, SagaNext
<1>2. Grows /\ WorldInv' /\ WriteAheadIntent'
  BY <1>1, KeepsBudget, QuietStep
<1> QED BY <1>1, <1>2, NobodyMovesKeeps
-----------------------------------------------------------------------------
(***************************************************************************)
(* The invariant and what follows from it.                                 *)
(***************************************************************************)
LEMMA OrchInvInit ==
    ASSUME Init
    PROVE  OrchInv
<1> USE DEF Init
<1>1. SagaInv
  BY SagaInvInit
<1>2. LocalTypeOK
  BY IdleTyped DEF LocalTypeOK
<1>3. \A w \in Workers : LocalOK(w)
  BY IdleTyped DEF LocalOK, Unbound
<1>4. EachMoveOnce
  BY FS_EmptySet, OrchestratorAssumption DEF EachMoveOnce
<1>5. WorldInv
  BY <1>4, OrchestratorAssumption
     DEF WorldInv, EarliestSeq, PublicationStates
<1>6. WriteAheadIntent
  BY DEF WriteAheadIntent
<1>7. EffectsInv
  BY DEF EffectsInv, Declared, SagaInit
<1> QED BY <1>1, <1>2, <1>3, <1>5, <1>6, <1>7 DEF OrchInv

LEMMA OrchInvStep ==
    ASSUME OrchInv, [Next]_vars
    PROVE  OrchInv'
<1>1. ASSUME NEW w \in Workers, WorkerStep(w)
      PROVE  OrchInv'
  BY <1>1, ClaimKeeps, IntentKeeps, InspectKeeps, ReadExistingKeeps,
     ScanKeeps, CreateTemporaryKeeps, LinkKeeps, UnlinkKeeps,
     VerifyHashKeeps, ReconcileKeeps, PutKeeps, RecheckKeeps,
     VerifyLockKeeps, ParseKeeps, ValidateKeeps, PublicationCheckKeeps,
     PublicationChainKeeps, PublicationReadKeeps, PublicationMoveKeeps,
     PublicationConfirmKeeps, ReceiptKeeps, AdvanceKeeps, ObserveKeeps,
     FailKeeps
     DEF WorkerStep
<1>2. CASE UNCHANGED vars
  <2>1. [SagaNext]_sagaVars /\ UNCHANGED effects /\ UNCHANGED world
        /\ UNCHANGED budget /\ UNCHANGED <<local, since>>
    BY <1>2 DEF vars, sagaVars, world
  <2> QED BY <2>1, KeepsBudget, QuietStep, NobodyMovesKeeps
<1> QED BY <1>1, <1>2, ExecuteKeeps, VolumeFaultKeeps, StorageFaultKeeps,
           TransactionFaultKeeps, CrashKeeps, ReviewKeeps, ClockTickKeeps
        DEF Next

THEOREM OrchestratorInvariant == Spec => []OrchInv
<1>1. Init => OrchInv
  BY OrchInvInit
<1>2. OrchInv /\ [Next]_vars => OrchInv'
  BY OrchInvStep
<1> QED BY <1>1, <1>2, PTL DEF Spec

(***************************************************************************)
(* Locals and world keep their types.                                      *)
(***************************************************************************)
THEOREM WorldIsTyped == Spec => []WorldTypeOK
<1>1. ASSUME OrchInv
      PROVE  WorldTypeOK
  <2>1. ASSUME NEW w \in Workers
        PROVE  /\ local[w].pc \in Points
               /\ local[w].ms \in REGISTERED..VALIDATED
               /\ local[w].ev \in Receipts \cup {None}
               /\ At(w, "receipt") => local[w].ev # None
               /\ local[w].pc \in {"reconcile", "put", "recheck"} =>
                     local[w].step \in 1..S3Attempts
               /\ local[w].pc \in {"pubread", "pubmove"} =>
                     local[w].step \in 1..3
    BY <1>1, WorkerKnows, MilestoneValues DEF LocalRecords, LocalOK, At
  <2>2. moved \subseteq {MoveTo[i] : i \in 1..3}
    <3>1. /\ 1 \in 1..3 /\ 2 \in 1..3 /\ 3 \in 1..3
          /\ moved \subseteq {"REVIEW_REQUIRED", "ELIGIBLE", "PUBLISHED"}
      BY <1>1 DEF OrchInv, WorldInv
    <3> QED BY <3>1, MoveTable
  <2> QED BY <1>1, <2>1, <2>2 DEF OrchInv, WorldInv, WorldTypeOK
<1> QED BY <1>1, OrchestratorInvariant, PTL

(***************************************************************************)
(* No effect shows in the world before its intent is durable, and whoever  *)
(* resumes a milestone finds its intent accepted.                          *)
(***************************************************************************)
THEOREM IntentsAlwaysComeFirst == Spec => []IntentsComeFirst
<1>1. ASSUME OrchInv
      PROVE  IntentsComeFirst
  <2>1. IntentNeverRefused
    BY <1>1, LocatorReady DEF IntentNeverRefused
  <2> QED BY <1>1, <2>1 DEF OrchInv, IntentsComeFirst
<1> QED BY <1>1, OrchestratorInvariant, PTL

(***************************************************************************)
(* What a milestone says was done is there.                                *)
(***************************************************************************)
THEOREM MilestonesAreBacked == Spec => []MilestonesBackedByWorld
<1>1. ASSUME OrchInv
      PROVE  MilestonesBackedByWorld
  BY <1>1, StagesReached, MilestoneValues DEF MilestonesBackedByWorld
<1> QED BY <1>1, OrchestratorInvariant, PTL

(***************************************************************************)
(* One S3 version, and each publication move once, whatever is repeated.   *)
(***************************************************************************)
THEOREM EffectsAreExactlyOnce == Spec => []EffectsHappenOnce
<1>1. ASSUME OrchInv
      PROVE  EffectsHappenOnce
  <2>1. objects <= 1
    BY <1>1 DEF OrchInv, WorldInv
  <2>2. \A k \in {"S3_UPLOAD", "S3_LOCK_VERIFICATION", "PARSE",
                  "VALIDATION"} :
           effects[k].receipt # None => effects[k].receipt.ref = 1
    BY <1>1 DEF OrchInv, EffectsInv, Backed, Kinds
  <2> QED BY <1>1, <2>1, <2>2
          DEF EffectsHappenOnce, SingleVersionLineage, OrchInv, WorldInv
<1> QED BY <1>1, OrchestratorInvariant, PTL

(***************************************************************************)
(* The seven actions that touch the saga's tables make a call of SagaNext, *)
(* with arguments in its ranges; the others leave the tables alone.        *)
(***************************************************************************)
LEMMA CallsOfTheStore ==
    ASSUME OrchInv, [Next]_vars
    PROVE  [SagaNext]_sagaVars
<1>1. ASSUME NEW w \in Workers, Execute(w)
      PROVE  [SagaNext]_sagaVars
  BY <1>1 DEF Execute, SagaNext
<1>2. ASSUME NEW w \in Workers, Claim(w)
      PROVE  [SagaNext]_sagaVars
  <2>1. PICK ts \in Stamps(w) :
            ClaimSaga(w, Lease, ts) \/ UNCHANGED sagaVars
    BY <1>2 DEF Claim
  <2>2. ts \in 0..clock /\ w \in Tokens /\ Lease \in 1..Lease
    BY StampsAreReadings, WorkerKnows, SagaAssumption
  <2> QED BY <2>1, <2>2 DEF SagaNext
<1>3. ASSUME NEW w \in Workers, Intent(w)
      PROVE  [SagaNext]_sagaVars
  <2>1. PICK k, locator : k = Kind(w) /\ locator = Upstream[Kind(w)]
    OBVIOUS
  <2>2. RecordEffectIntent(k, locator) \/ UNCHANGED sagaVars
    BY <1>3, <2>1 DEF Intent
  <2>3. k \in Kinds /\ locator \in Locators
    BY <1>3, <2>1, LocatorReady DEF Intent
  <2> QED BY <2>2, <2>3 DEF SagaNext
<1>4. ASSUME NEW w \in Workers, Receipt(w)
      PROVE  [SagaNext]_sagaVars
  <2>1. PICK k, receipt : k = Kind(w) /\ receipt = local[w].ev
    OBVIOUS
  <2>2. RecordEffectReceipt(k, receipt) \/ UNCHANGED sagaVars
    BY <1>4, <2>1 DEF Receipt
  <2>3. k \in Kinds /\ receipt \in Receipts
    BY <1>4, <2>1, WorkerKnows DEF Receipt, At, LocalOK
  <2> QED BY <2>2, <2>3 DEF SagaNext
<1>5. ASSUME NEW w \in Workers, Advance(w)
      PROVE  [SagaNext]_sagaVars
  <2>1. PICK target, digest : target = Target(w) /\ digest = local[w].ev
    OBVIOUS
  <2>2. PICK ts \in Stamps(w) :
            Transition(target, digest, ts) \/ UNCHANGED sagaVars
    BY <1>5, <2>1 DEF Advance
  <2>3. ts \in 0..clock
    BY StampsAreReadings
  <2>4. target \in 1..PUBLISHED /\ digest \in Receipts \cup Locators
    BY <1>5, <2>1, WorkerKnows, MilestoneValues DEF Advance, At, LocalOK
  <2> QED BY <2>2, <2>3, <2>4 DEF SagaNext
<1>6. ASSUME NEW w \in Workers, Fail(w)
      PROVE  [SagaNext]_sagaVars
  <2>1. PICK d : d = Classify(Surfaced(local[w].err))
    OBVIOUS
  <2>2. \/ UNCHANGED sagaVars
        \/ \E ts \in Stamps(w) : RecordFailure(d, ts)
    BY <1>6, <2>1 DEF Fail
  <2>3. d \in FailureDispositions
    BY <2>1 DEF Classify, FailureDispositions
  <2> QED BY <2>2, <2>3, StampsAreReadings DEF SagaNext
<1>7. ASSUME NEW w \in Workers, WorkerStep(w)
      PROVE  [SagaNext]_sagaVars
  BY <1>2, <1>3, <1>4, <1>5, <1>6, <1>7
     DEF WorkerStep, Inspect, ReadExisting, Scan, CreateTemporary, Link,
         Unlink, VerifyHash, Reconcile, Put, Recheck, VerifyLock, Parse,
         Validate, PublicationCheck, PublicationChain, PublicationRead,
         PublicationMove, PublicationConfirm, Observe
<1>8. ASSUME NEW w \in Workers,
             \/ VolumeFault(w) \/ StorageFault(w)
             \/ TransactionFault(w) \/ Crash(w)
      PROVE  [SagaNext]_sagaVars
  BY <1>8 DEF VolumeFault, StorageFault, TransactionFault, Crash
<1>9. CASE Review
  BY <1>9 DEF Review
<1>10. CASE ClockTick
  BY <1>10 DEF ClockTick, SagaNext
<1>11. CASE UNCHANGED vars
  BY <1>11 DEF vars, sagaVars
<1> QED BY <1>1, <1>7, <1>8, <1>9, <1>10, <1>11 DEF Next

(***************************************************************************)
(* The orchestrator is a client of the store as SagaSpec describes it,     *)
(* with whatever crashes, faults and stale workers: every theorem about    *)
(* the store holds of the composition.                                     *)
(***************************************************************************)
THEOREM StoreIsUsedAsDesigned == Spec => UsesStoreAsDesigned
<1>1. Init => SagaInit
  BY DEF Init
<1>2. OrchInv /\ [Next]_vars =>
         [UNCHANGED sagaVars \/ SagaNext]_sagaVars
  BY CallsOfTheStore
<1> QED BY <1>1, <1>2, OrchestratorInvariant, PTL
        DEF Spec, UsesStoreAsDesigned

\* The store's own specification, and through it the abstract contract.
THEOREM OrchestratorKeepsContract == Spec => ImplementsContract
<1>1. [UNCHANGED sagaVars \/ SagaNext]_sagaVars => [SagaNext]_sagaVars
  OBVIOUS
<1>2. UsesStoreAsDesigned => SagaSpec
  BY <1>1, PTL DEF UsesStoreAsDesigned, SagaSpec
<1> QED BY <1>2, StoreIsUsedAsDesigned, StoreImplementsContract, PTL

(***************************************************************************)
(* A staged file, once linked, is never replaced.                          *)
(***************************************************************************)
THEOREM StagedFileStays == Spec => StagedFileIsFinal
<1>1. ASSUME [Next]_vars, file # None
      PROVE  file' = file
  <2>1. ASSUME NEW w \in Workers, Link(w)
        PROVE  file' = file
    BY <1>1, <2>1 DEF Link, LinkTarget
  <2>2. ASSUME NEW w \in Workers, WorkerStep(w)
        PROVE  file' = file
    BY <2>1, <2>2
       DEF WorkerStep, world, Claim, Intent, Inspect, ReadExisting, Scan,
           CreateTemporary, Unlink, VerifyHash, Reconcile, Put, Recheck,
           VerifyLock, Parse, Validate, PublicationCheck, PublicationChain,
           PublicationRead, PublicationMove, PublicationConfirm, Receipt,
           Advance, Observe, Fail
  <2>3. ASSUME NEW w \in Workers,
               \/ Execute(w) \/ VolumeFault(w) \/ StorageFault(w)
               \/ TransactionFault(w) \/ Crash(w)
        PROVE  file' = file
    BY <2>3 DEF Execute, VolumeFault, StorageFault, TransactionFault, Crash,
                world
  <2> QED BY <1>1, <2>2, <2>3 DEF Next, Review, ClockTick, world, vars
<1>2. [Next]_vars => [file # None => file' = file]_file
  BY <1>1
<1> QED BY <1>2, PTL DEF Spec, StagedFileIsFinal
-----------------------------------------------------------------------------
(***************************************************************************)
(* With one worker at a time, nobody but it moves the source, and content  *)
(* that is clean, no failure it records is an integrity conflict.  Calm    *)
(* says what the single worker found still to be so when it acts on it.    *)
(***************************************************************************)
Undisturbed == (\A v, w \in Workers : v = w) /\ MaxReviews = 0

Harmless(e) == Surfaced(e) \notin QuarantineCodes

Calm(r, staged, left, st) ==
    /\ r.pc \in {"read", "scan", "create"} => left = {}
    /\ r.pc \in {"scan", "create", "link"} => staged = None
    /\ r.pc = "pubmove" => st = MoveFrom[r.step]
    /\ r.pc = "pubconfirm" => st = "PUBLISHED"
    /\ r.pc = "fail" => Harmless(r.err)

\* The source is where the completed moves of the saga left it.
MovesMade(st, m) ==
    \/ st = "REGISTERED" /\ m = {}
    \/ st = "REVIEW_REQUIRED" /\ m = {"REVIEW_REQUIRED"}
    \/ st = "ELIGIBLE" /\ m = {"REVIEW_REQUIRED", "ELIGIBLE"}
    \/ st = "PUBLISHED" /\ m = {"REVIEW_REQUIRED", "ELIGIBLE", "PUBLISHED"}

CalmLocals == \A w \in Workers : Calm(local[w], file, temps, source.st)

CalmInv ==
    content = "CLEAN" =>
       saga.disp # "QUARANTINED" /\ MovesMade(source.st, moved) /\ CalmLocals

LEMMA OneWorkerLands ==
    ASSUME OrchInv, Undisturbed, NEW w \in Workers, NEW r, Goto(w, r),
           Calm(r, file', temps', source'.st)
    PROVE  CalmLocals'
<1>1. local'[w] = r
  BY DEF Goto, OrchInv, LocalTypeOK
<1> QED BY <1>1 DEF CalmLocals, Undisturbed

\* Where a worker rests on nothing it found.
Resting == {"read", "scan", "create", "link", "pubmove", "pubconfirm", "fail"}

LEMMA RestingLands ==
    ASSUME OrchInv, Undisturbed, NEW w \in Workers, NEW r, Goto(w, r),
           r.pc \notin Resting
    PROVE  CalmLocals'
<1>1. Calm(r, file', temps', source'.st)
  BY DEF Calm, Resting
<1> QED BY <1>1, OneWorkerLands

LEMMA HarmlessLands ==
    ASSUME OrchInv, Undisturbed, NEW w \in Workers, NEW e, Raise(w, e), Harmless(e)
    PROVE  CalmLocals'
<1> DEFINE r == [Idle EXCEPT !.pc = "fail", !.err = e]
<1>1. r.pc = "fail" /\ r.err = e
  BY DEF Idle
<1>2. Goto(w, r)
  BY DEF Raise
<1> HIDE DEF r
<1>3. Calm(r, file', temps', source'.st)
  BY <1>1 DEF Calm
<1> QED BY <1>2, <1>3, OneWorkerLands

LEMMA IdleLands ==
    ASSUME OrchInv, Undisturbed, NEW w \in Workers,
           Return(w) \/ Goto(w, [Idle EXCEPT !.pc = "claim"])
    PROVE  CalmLocals'
<1>1. Idle.pc \notin Resting
  BY DEF Idle, Resting
<1>2. [Idle EXCEPT !.pc = "claim"].pc \notin Resting
  BY DEF Idle, Resting
<1> QED BY <1>1, <1>2, RestingLands DEF Return

LEMMA PointLands ==
    ASSUME OrchInv, Undisturbed, NEW w \in Workers, NEW p, Goto(w, Step(w, p)),
           p \notin Resting
    PROVE  CalmLocals'
<1>1. Step(w, p).pc = p
  BY WorkerKnows DEF Step, LocalRecords
<1> QED BY <1>1, RestingLands

LEMMA HarmlessErrors ==
    \A e \in {"GUARD_REJECTED", "INGESTION_CLAIM_CONFLICT", "CONNECTION_RELEASE_FAILED",
              "INCOMPLETE_LOCAL_STAGING_ARTIFACT", "EXTERNAL_VOLUME_UNAVAILABLE",
              "S3_UNAVAILABLE", "S3_ACCESS_DENIED", "PARSE_CONTENT_BLOCKED",
              "PUBLICATION_EVENT_MISSING", "PUBLICATION_STATE_CONFLICT",
              "STALE_PUBLICATION_STATE", "PUBLICATION_NOT_ELIGIBLE",
              "EXTERNAL_RECEIPT_CONFLICT", "ILLEGAL_INGESTION_TRANSITION",
              "RETRY_EXHAUSTED", "DATABASE_OPERATION_FAILURE"} : Harmless(e)
BY DEF Harmless, Surfaced, ServiceErrors, QuarantineCodes

LEMMA HarmlessIsNotQuarantined ==
    ASSUME NEW e, Harmless(e)
    PROVE  Classify(Surfaced(e)) # "QUARANTINED"
BY DEF Harmless, Classify

LEMMA CommittedLands ==
    ASSUME OrchInv, Undisturbed, NEW w \in Workers, NEW r, Committed(w, r),
           Calm(r, file', temps', source'.st)
    PROVE  CalmLocals'
BY OneWorkerLands, HarmlessLands, HarmlessErrors DEF Committed

\* What a step must show once content is clean.
LEMMA CalmKeeps ==
    ASSUME content' = content,
           content = "CLEAN" => /\ saga'.disp # "QUARANTINED"
                                /\ MovesMade(source'.st, moved')
                                /\ CalmLocals'
    PROVE  CalmInv'
BY DEF CalmInv, CalmLocals

\* A clean saga, and what its worker found.
Clean == /\ OrchInv /\ Undisturbed /\ CalmInv /\ content = "CLEAN"

LEMMA CleanWorker ==
    ASSUME Clean, NEW w \in Workers
    PROVE  /\ OrchInv /\ Undisturbed
           /\ saga.disp # "QUARANTINED"
           /\ MovesMade(source.st, moved)
           /\ Calm(local[w], file, temps, source.st)
           /\ LocalOK(w)
           /\ local[w] \in LocalRecords
           /\ \A p : p \in {"read", "scan", "create", "link", "put", "unlink"} =>
                (Step(w, p).pc = p /\ Step(w, p).step = local[w].step)
BY WorkerKnows DEF Clean, CalmInv, CalmLocals, Step, LocalRecords

LEMMA StagingCalm ==
    ASSUME Clean, NEW w \in Workers,
           \/ Inspect(w) \/ ReadExisting(w) \/ Scan(w) \/ CreateTemporary(w)
           \/ Link(w) \/ Unlink(w) \/ VerifyHash(w) \/ VolumeFault(w)
    PROVE  CalmLocals'
<1> USE CleanWorker DEF Step
<1>0. /\ Calm(local[w], file, temps, source.st)
      /\ temps \subseteq Workers
      /\ OrchInv /\ Undisturbed
  BY DEF OrchInv, WorldInv
<1>1. ASSUME NEW p, p \in {"read", "scan", "create", "link"}, Goto(w, Step(w, p)),
             p # "link" => temps' = {}, p # "read" => file' = None
      PROVE  CalmLocals'
  <2>1. Calm(Step(w, p), file', temps', source'.st)
    BY <1>1 DEF Calm, LocalRecords
  <2> QED BY <1>0, <1>1, <2>1, OneWorkerLands
<1>2. CASE Inspect(w)
  <2>1. CASE temps # {}
    BY <1>0, <1>2, <2>1, HarmlessLands, HarmlessErrors DEF Inspect
  <2>2. CASE temps = {}
    BY <1>1, <1>2, <2>2 DEF Inspect, world
  <2> QED BY <2>1, <2>2
<1>3. CASE ReadExisting(w)
  <2>1. Holding(w, Evidence(w, 0)).pc = "receipt"
    BY DEF Holding, LocalRecords
  <2>2. CASE file # None
    BY <1>0, <1>3, <2>1, <2>2, RestingLands DEF ReadExisting, Resting
  <2>3. CASE file = None
    BY <1>0, <1>1, <1>3, <2>3 DEF ReadExisting, world, Calm, At
  <2> QED BY <2>2, <2>3
<1>4. CASE Scan(w)
  <2>1. file = None /\ temps = {}
    BY <1>0, <1>4 DEF Scan, Calm, At
  <2> QED BY <1>1, <1>4, <2>1 DEF Scan, world
<1>5. CASE CreateTemporary(w)
  BY <1>0, <1>1, <1>5 DEF CreateTemporary, Calm, At
<1>6. CASE Link(w)
  <2>1. file = None
    BY <1>0, <1>6 DEF Link, Calm, At
  <2>2. Goto(w, Step(w, "unlink"))
    BY <1>6, <2>1 DEF Link, LinkTarget
  <2> QED BY <1>0, <2>2, PointLands DEF Resting
<1>7. CASE Unlink(w)
  <2>1. Holding(w, Evidence(w, 0)).pc = "receipt"
    BY DEF Holding, LocalRecords
  <2> QED
    BY <1>0, <1>7, <2>1, RestingLands, HarmlessLands, HarmlessErrors DEF Unlink, Resting
<1>8. CASE VerifyHash(w)
  <2>1. Holding(w, Evidence(w, 0)).pc = "receipt"
    BY DEF Holding, LocalRecords
  <2> QED
    BY <1>0, <1>8, <2>1, RestingLands, HarmlessLands, HarmlessErrors DEF VerifyHash, Resting
<1>9. CASE VolumeFault(w)
  BY <1>0, <1>9, HarmlessLands, HarmlessErrors DEF VolumeFault
<1> QED BY <1>2, <1>3, <1>4, <1>5, <1>6, <1>7, <1>8, <1>9

LEMMA HoldingRests ==
    ASSUME Clean, NEW w \in Workers, NEW e, Goto(w, Holding(w, e))
    PROVE  CalmLocals'
<1>1. Holding(w, e).pc = "receipt"
  BY CleanWorker DEF Holding, LocalRecords
<1> QED BY <1>1, CleanWorker, RestingLands DEF Resting

LEMMA StorageCalm ==
    ASSUME Clean, NEW w \in Workers,
           \/ Reconcile(w) \/ Put(w) \/ Recheck(w) \/ VerifyLock(w)
           \/ StorageFault(w) \/ Parse(w) \/ Validate(w)
    PROVE  CalmLocals'
<1>0. OrchInv /\ Undisturbed /\ content = "CLEAN" /\ local[w] \in LocalRecords
  BY CleanWorker DEF Clean
<1>1. CASE Reconcile(w)
  BY <1>0, <1>1, HoldingRests, PointLands DEF Reconcile, Resting
<1>2. CASE Put(w)
  <2>1. ~ \E v \in Workers \ {w} : At(v, "put")
    BY <1>0 DEF Undisturbed
  <2> QED BY <1>0, <1>2, <2>1, HoldingRests, PointLands DEF Put, Resting
<1>3. CASE Recheck(w)
  <2>1. [Step(w, "reconcile") EXCEPT !.step = @ + 1].pc \notin Resting
    BY <1>0 DEF Step, LocalRecords, Resting
  <2> QED
    BY <1>0, <1>3, <2>1, HoldingRests, RestingLands, HarmlessLands, HarmlessErrors DEF Recheck
<1>4. CASE VerifyLock(w)
  BY <1>4, HoldingRests DEF VerifyLock
<1>5. CASE StorageFault(w)
  BY <1>0, <1>5, HarmlessLands, HarmlessErrors DEF StorageFault
<1>6. CASE Parse(w)
  <2>1. content # "BLOCKED"
    BY <1>0
  <2> QED
    BY <1>0, <1>6, <2>1, HoldingRests, HarmlessLands, HarmlessErrors DEF Parse, Committed
<1>7. CASE Validate(w)
  BY <1>0, <1>7, HoldingRests DEF Validate
<1> QED BY <1>1, <1>2, <1>3, <1>4, <1>5, <1>6, <1>7

\* The moves of the saga, by where the source is.
LEMMA MovesByState ==
    ASSUME Clean
    PROVE  /\ source.st \in {"REGISTERED", "REVIEW_REQUIRED", "ELIGIBLE", "PUBLISHED"}
           /\ \A j \in 1..3 : source.st = MoveFrom[j] => MoveTo[j] \notin moved
           /\ \A j \in 1..3 : source.st = MoveFrom[j]
                => MovesMade(MoveTo[j], moved \cup {MoveTo[j]})
BY DEF Clean, CalmInv, CalmLocals, MovesMade, MoveFrom, MoveTo

LEMMA NextMoveCalm ==
    ASSUME Clean, NEW w \in Workers, local[w].step \in 1..3, NEW r, r = NextMove(w),
           source'.st = MoveTo[local[w].step]
    PROVE  Calm(r, file', temps', source'.st)
<1>1. local[w] \in LocalRecords
  BY CleanWorker
<1>2. CASE local[w].step = 3
  <2>1. r.pc = "pubconfirm" /\ source'.st = "PUBLISHED"
    BY <1>1, <1>2 DEF NextMove, Step, LocalRecords, MoveTo
  <2> QED BY <2>1 DEF Calm
<1>3. CASE local[w].step # 3
  <2>1. r.pc = "pubread"
    BY <1>1, <1>3 DEF NextMove, Step, LocalRecords
  <2> QED BY <2>1 DEF Calm
<1> QED BY <1>2, <1>3

LEMMA PublicationCalm ==
    ASSUME Clean, NEW w \in Workers,
           \/ PublicationCheck(w) \/ PublicationChain(w) \/ PublicationRead(w)
           \/ PublicationConfirm(w)
    PROVE  CalmLocals'
<1>0. /\ OrchInv /\ Undisturbed /\ local[w] \in LocalRecords
      /\ Calm(local[w], file, temps, source.st) /\ LocalOK(w)
  BY CleanWorker DEF Clean
<1>1. CASE PublicationCheck(w)
  <2>1. [Step(w, "pubread") EXCEPT !.step = 1].pc \notin Resting
    BY <1>0 DEF Step, LocalRecords, Resting
  <2> QED BY <1>0, <1>1, <2>1, PointLands, RestingLands DEF PublicationCheck, Resting
<1>2. CASE PublicationChain(w)
  BY <1>0, <1>2, HoldingRests, HarmlessLands, HarmlessErrors DEF PublicationChain
<1>3. CASE PublicationRead(w)
  <2>1. local[w].step \in 1..3 /\ source' = source
    BY <1>0, <1>3 DEF PublicationRead, LocalOK, At, world
  <2>2. CASE source.st = MoveTo[local[w].step] /\ Goto(w, NextMove(w))
    BY <1>0, <2>1, <2>2, NextMoveCalm, OneWorkerLands
  <2>3. CASE source.st = MoveFrom[local[w].step] /\ Goto(w, Step(w, "pubmove"))
    <3>1. /\ Step(w, "pubmove").pc = "pubmove"
          /\ Step(w, "pubmove").step = local[w].step
      BY <1>0 DEF Step, LocalRecords
    <3>2. Calm(Step(w, "pubmove"), file', temps', source'.st)
      BY <2>1, <2>3, <3>1 DEF Calm
    <3> QED BY <1>0, <2>3, <3>2, OneWorkerLands
  <2>4. CASE source.st = "PUBLISHED" /\ Goto(w, Step(w, "pubconfirm"))
    <3>1. Step(w, "pubconfirm").pc = "pubconfirm"
      BY <1>0 DEF Step, LocalRecords
    <3>2. Calm(Step(w, "pubconfirm"), file', temps', source'.st)
      BY <2>1, <2>4, <3>1 DEF Calm
    <3> QED BY <1>0, <2>4, <3>2, OneWorkerLands
  <2>5. CASE Raise(w, "PUBLICATION_STATE_CONFLICT")
    BY <1>0, <2>5, HarmlessLands, HarmlessErrors
  <2> QED BY <1>3, <2>2, <2>3, <2>4, <2>5 DEF PublicationRead
<1>4. CASE PublicationConfirm(w)
  <2>1. source.st = "PUBLISHED"
    BY <1>0, <1>4 DEF PublicationConfirm, Calm, At
  <2> QED BY <1>0, <1>4, <2>1, PointLands DEF PublicationConfirm, Resting
<1> QED BY <1>1, <1>2, <1>3, <1>4

LEMMA PublicationMoveCalm ==
    ASSUME Clean, NEW w \in Workers, PublicationMove(w)
    PROVE  CalmLocals' /\ MovesMade(source'.st, moved')
<1>0. /\ OrchInv /\ Undisturbed /\ local[w] \in LocalRecords
      /\ Calm(local[w], file, temps, source.st) /\ LocalOK(w)
      /\ MovesMade(source.st, moved)
  BY CleanWorker DEF Clean
<1>1. PICK i : i = local[w].step
  OBVIOUS
<1>2. i \in 1..3 /\ source.st = MoveFrom[i]
  BY <1>0, <1>1 DEF PublicationMove, LocalOK, Calm, At
<1>3. ~ MoveCompleted(MoveTo[i])
  BY <1>2, MovesByState DEF MoveCompleted
<1>4. CASE Raise(w, "PUBLICATION_NOT_ELIGIBLE") /\ UNCHANGED <<source, moved, budget>>
  BY <1>0, <1>4, HarmlessLands, HarmlessErrors
<1>5. CASE /\ source' = [st |-> MoveTo[i], seq |-> source.seq + 1]
           /\ moved' = moved \cup {MoveTo[i]}
           /\ Committed(w, NextMove(w))
  <2>1. source'.st = MoveTo[i]
    BY <1>5
  <2>2. MovesMade(source'.st, moved')
    BY <1>2, <1>5, <2>1, MovesByState
  <2>3. Calm(NextMove(w), file', temps', source'.st)
    BY <1>1, <1>2, <2>1, NextMoveCalm
  <2> QED BY <1>0, <1>5, <2>2, <2>3, CommittedLands
<1> QED BY <1>1, <1>2, <1>3, <1>4, <1>5 DEF PublicationMove

LEMMA StoreCalm ==
    ASSUME Clean, NEW w \in Workers,
           \/ Execute(w) \/ Claim(w) \/ Intent(w) \/ Receipt(w) \/ Advance(w)
           \/ Observe(w) \/ Fail(w) \/ TransactionFault(w) \/ Crash(w)
    PROVE  CalmLocals'
<1>0. OrchInv /\ Undisturbed /\ local[w] \in LocalRecords /\ Kind(w) \in Kinds
  BY CleanWorker, WorkerKnows
<1>1. ASSUME NEW r, r.pc \notin Resting, Goto(w, r) \/ Committed(w, r)
      PROVE  CalmLocals'
  BY <1>0, <1>1, RestingLands, HarmlessLands, HarmlessErrors DEF Committed
<1>2. \A p \in {"transition", "observe"} : Step(w, p).pc \notin Resting
  BY <1>0 DEF Step, LocalRecords, Resting
<1>3. CASE Execute(w)
  BY <1>0, <1>3, IdleLands DEF Execute
<1>4. CASE Claim(w)
  <2>1. HandlerStart(saga.ms).pc \notin Resting
    BY DEF HandlerStart, Idle, Resting
  <2> QED
    BY <1>0, <1>1, <1>4, <2>1, HarmlessLands, HarmlessErrors DEF Claim
<1>5. CASE Intent(w)
  <2>1. EntryStep[Kind(w)] \notin Resting
    BY <1>0, EntryTable DEF Resting, Kinds
  <2>2. \A receipt : AfterIntent(w, receipt).pc \notin Resting
    <3> SUFFICES ASSUME NEW receipt PROVE AfterIntent(w, receipt).pc \notin Resting
      OBVIOUS
    <3>1. \/ AfterIntent(w, receipt).pc = "transition"
          \/ AfterIntent(w, receipt).pc = EntryStep[Kind(w)]
      BY <1>0 DEF AfterIntent, LocalRecords
    <3> QED BY <2>1, <3>1 DEF Resting
  <2> QED BY <1>1, <1>5, <2>2 DEF Intent
<1>6. CASE Receipt(w)
  BY <1>0, <1>1, <1>2, <1>6, HarmlessLands, HarmlessErrors DEF Receipt
<1>7. CASE Advance(w)
  BY <1>0, <1>1, <1>2, <1>7, HarmlessLands, HarmlessErrors DEF Advance
<1>8. CASE Observe(w)
  BY <1>0, <1>8, IdleLands DEF Observe
<1>9. CASE Fail(w)
  BY <1>0, <1>9, IdleLands DEF Fail
<1>10. CASE TransactionFault(w)
  BY <1>0, <1>10, IdleLands, HarmlessLands, HarmlessErrors DEF TransactionFault
<1>11. CASE Crash(w)
  BY <1>0, <1>11, IdleLands DEF Crash
<1> QED BY <1>3, <1>4, <1>5, <1>6, <1>7, <1>8, <1>9, <1>10, <1>11

\* Only a failure that is an integrity conflict quarantines a saga.
LEMMA DispositionCalm ==
    ASSUME Clean, [Next]_vars
    PROVE  saga'.disp # "QUARANTINED"
<1>0. saga.disp # "QUARANTINED"
  BY DEF Clean, CalmInv, CalmLocals
<1>1. CASE UNCHANGED saga
  BY <1>0, <1>1
<1>2. ASSUME NEW ts, NEW t, NEW lease, ClaimSaga(t, lease, ts)
      PROVE  saga'.disp = "CLAIMED"
  BY <1>2 DEF ClaimSaga, Clean, OrchInv, SagaInv, TypeOK
<1>3. ASSUME NEW ts, NEW target, NEW digest, Transition(target, digest, ts)
      PROVE  saga'.disp \in {"COMPLETED", "READY"}
  BY <1>3 DEF Transition
<1>4. ASSUME NEW ts, NEW d, RecordFailure(d, ts)
      PROVE  saga'.disp = d
  BY <1>4 DEF RecordFailure, Clean, OrchInv, SagaInv, TypeOK
<1>5. ASSUME NEW w \in Workers, Execute(w) PROVE saga'.disp # "QUARANTINED"
  BY <1>0, <1>5 DEF Execute, RegisterSaga, sagaVars, Clean, OrchInv, SagaInv, TypeOK
<1>6. ASSUME NEW w \in Workers, Claim(w) PROVE saga'.disp # "QUARANTINED"
  BY <1>0, <1>2, <1>6 DEF Claim, sagaVars
<1>7. ASSUME NEW w \in Workers, Advance(w) PROVE saga'.disp # "QUARANTINED"
  BY <1>0, <1>3, <1>7 DEF Advance, sagaVars
<1>8. ASSUME NEW w \in Workers, Fail(w) PROVE saga'.disp # "QUARANTINED"
  <2>1. Harmless(local[w].err)
    BY <1>8, CleanWorker DEF Fail, At, Calm
  <2>2. PICK d : d = Classify(Surfaced(local[w].err))
    OBVIOUS
  <2>3. d # "QUARANTINED"
    BY <2>1, <2>2, HarmlessIsNotQuarantined
  <2>4. saga'.disp = d \/ saga' = saga
    BY <1>4, <1>8, <2>2 DEF Fail, sagaVars
  <2> QED BY <1>0, <2>3, <2>4
<1>9. ASSUME NEW w \in Workers, WorkerStep(w) PROVE saga'.disp # "QUARANTINED"
  BY <1>0, <1>6, <1>7, <1>8, <1>9
     DEF WorkerStep, sagaVars, Intent, Inspect, ReadExisting, Scan, CreateTemporary, Link,
         Unlink, VerifyHash, Reconcile, Put, Recheck, VerifyLock, Parse,
         Validate, PublicationCheck, PublicationChain, PublicationRead,
         PublicationMove, PublicationConfirm, Receipt, Observe,
         RecordEffectIntent, RecordEffectReceipt
<1> QED
  BY <1>0, <1>1, <1>5, <1>9
     DEF Next, VolumeFault, StorageFault, TransactionFault, Crash, Review, ClockTick, Tick,
         sagaVars, vars

LEMMA CalmStep == Undisturbed /\ OrchInv /\ CalmInv /\ [Next]_vars => CalmInv'
<1> SUFFICES ASSUME Undisturbed, OrchInv, CalmInv, [Next]_vars PROVE CalmInv'
  OBVIOUS
<1>1. ~ Review
  BY DEF Review, Spend, Undisturbed, OrchInv, WorldInv
<1>2. content' = content
  BY ZenonT(60), <1>1 DEF Next, vars, world, WorkerStep, Execute, VolumeFault, StorageFault,
     TransactionFault, Crash, ClockTick, Claim, Intent, Inspect, ReadExisting, Scan,
     CreateTemporary, Link, Unlink, VerifyHash, Reconcile, Put, Recheck, VerifyLock, Parse,
     Validate, PublicationCheck, PublicationChain, PublicationRead,
     PublicationMove, PublicationConfirm, Receipt, Advance, Observe, Fail
<1>3. SUFFICES ASSUME content = "CLEAN"
               PROVE  MovesMade(source'.st, moved') /\ CalmLocals'
  BY <1>2, DispositionCalm, CalmKeeps DEF Clean
<1>4. Clean /\ MovesMade(source.st, moved) /\ CalmLocals
  BY <1>3 DEF Clean, CalmInv, CalmLocals
<1>5. ASSUME NEW w \in Workers, PublicationMove(w)
      PROVE  MovesMade(source'.st, moved') /\ CalmLocals'
  BY <1>4, <1>5, PublicationMoveCalm
<1>6. ASSUME NEW w \in Workers, WorkerStep(w), ~ PublicationMove(w)
      PROVE  UNCHANGED <<source, moved>> /\ CalmLocals'
  <2>1. UNCHANGED <<source, moved>>
    BY <1>6 DEF world, WorkerStep, Claim, Intent, Inspect, ReadExisting, Scan,
       CreateTemporary, Link, Unlink, VerifyHash, Reconcile, Put, Recheck, VerifyLock, Parse,
       Validate, PublicationCheck, PublicationChain, PublicationRead,
       PublicationConfirm, Receipt, Advance, Observe, Fail
  <2>2. CalmLocals'
    BY <1>4, <1>6, StagingCalm, StorageCalm, PublicationCalm, StoreCalm DEF WorkerStep
  <2> QED BY <2>1, <2>2
<1>7. ASSUME NEW w \in Workers,
             \/ Execute(w) \/ VolumeFault(w) \/ StorageFault(w) \/ TransactionFault(w)
             \/ Crash(w)
      PROVE  UNCHANGED <<source, moved>> /\ CalmLocals'
  <2>1. UNCHANGED <<source, moved>>
    BY <1>7 DEF world, Execute, VolumeFault, StorageFault, TransactionFault, Crash
  <2> QED BY <1>4, <1>7, <2>1, StagingCalm, StorageCalm, StoreCalm
<1>8. CASE ClockTick \/ UNCHANGED vars
  BY <1>4, <1>8 DEF ClockTick, vars, world, CalmLocals
<1> QED BY <1>1, <1>4, <1>5, <1>6, <1>7, <1>8 DEF Next

(***************************************************************************)
(* Whatever fails, and however often the worker crashes, a saga of clean   *)
(* content is not quarantined as long as nobody else works on it or moves  *)
(* its source.                                                             *)
(***************************************************************************)
THEOREM OutagesNeverQuarantine == Undisturbed /\ Spec => []OutageIsNotQuarantine
<1>1. Undisturbed /\ Init => Undisturbed /\ CalmInv
  <2> SUFFICES ASSUME Init PROVE CalmInv
    OBVIOUS
  <2>1. saga.disp # "QUARANTINED" /\ MovesMade(source.st, moved)
    BY DEF Init, SagaInit, Unregistered, MovesMade
  <2>2. \A w \in Workers : Calm(local[w], file, temps, source.st)
    BY DEF Init, Idle, Calm
  <2> QED BY <2>1, <2>2 DEF CalmInv, CalmLocals
<1>2. OrchInv /\ (Undisturbed /\ CalmInv) /\ [Next]_vars => (Undisturbed /\ CalmInv)'
  BY CalmStep DEF Undisturbed
<1>3. CalmInv => OutageIsNotQuarantine
  BY DEF CalmInv, CalmLocals, OutageIsNotQuarantine
<1> QED BY <1>1, <1>2, <1>3, OrchestratorInvariant, PTL DEF Spec
=============================================================================
