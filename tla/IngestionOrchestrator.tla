------------------------ MODULE IngestionOrchestrator ------------------------
(***************************************************************************)
(* Workers running IngestionSagaOrchestrator.execute on one saga, with the *)
(* world their effects change: the external volume, the S3 bucket, the     *)
(* parser's artifacts and the Step 9 source registry.                      *)
(*                                                                         *)
(* One action is one service transaction or one external call, so two      *)
(* workers interleave between any two of them.  A worker may crash at any  *)
(* point, a transaction may fail or commit without the worker learning so, *)
(* the volume and S3 may be unavailable, and reviewers move the source     *)
(* between publication states on their own.                                *)
(***************************************************************************)
EXTENDS IngestionSaga, PublicationStates, FiniteSets

CONSTANTS
    Workers,          \* processes that call execute
    S3Attempts,       \* s3_attempt_limit
    Contents,         \* what the source may turn out to be, see `content`
    MaxCrashes,       \* bounds on crashes, faults and reviewer moves
    MaxFaults,
    MaxReviews

VARIABLES
    local,     \* each worker's point in execute and what it holds there
    since,     \* earliest clock reading of a worker's next transaction
    file,      \* who linked the staging file on the volume, None before
    temps,     \* workers whose temporary staging file is still there
    objects,   \* number of versions of the snapshot's S3 key
    parsed,    \* S3 version the persisted parse artifact was made from, or 0
    source,    \* publication state of the source and its event sequence
    moved,     \* publication moves of the saga whose operation is COMPLETED
    content,   \* "CLEAN", "BLOCKED", "REJECTED" or "INELIGIBLE"
    budget     \* crashes, faults and reviews left

world == <<file, temps, objects, parsed, source, moved, content>>
vars == <<saga, events, effects, clock, local, since, world, budget>>

ASSUME OrchestratorAssumption ==
    /\ S3Attempts \in 1..5
    /\ Contents \subseteq {"CLEAN", "BLOCKED", "REJECTED", "INELIGIBLE"}
    /\ MaxCrashes \in Nat
    /\ MaxFaults \in Nat
    /\ MaxReviews \in Nat

(***************************************************************************)
(* Evidence.  `by` is the worker whose clock and flags went into a receipt *)
(* it built itself; receipts read back from a durable artifact are the     *)
(* same for every worker and carry by = None.  `ref` is the S3 version or  *)
(* the publication sequence the evidence names, 0 if none.                 *)
(***************************************************************************)
Evidence(by, ref) == [by |-> by, ref |-> ref]
Plan == Evidence(None, 0)

ASSUME EvidenceAssumption ==
    /\ Workers \subseteq Tokens
    /\ [by : Workers \cup {None}, ref : 0..(3 + MaxReviews)] \subseteq Receipts
    /\ Receipts \subseteq Locators

(***************************************************************************)
(* classify_ingestion_failure, by the sanitized code of the exception.     *)
(* The codes in ServiceErrors are RuntimeErrors raised inside a            *)
(* transaction callback: the runner rolls back and raises its own          *)
(* PersistenceTransactionError in their place.                             *)
(***************************************************************************)
ServiceErrors ==
    {"INGESTION_CLAIM_CONFLICT", "ILLEGAL_INGESTION_TRANSITION",
     "EXTERNAL_INTENT_MILESTONE_MISMATCH", "EXTERNAL_RECEIPT_CONFLICT",
     "STALE_PUBLICATION_STATE", "PUBLICATION_NOT_ELIGIBLE"}

Surfaced(error) ==
    IF error \in ServiceErrors THEN "DATABASE_CLIENT_FAILURE" ELSE error

QuarantineCodes ==
    {"IDEMPOTENCY_BINDING_CONFLICT", "EXTERNAL_RECEIPT_CONFLICT",
     "EXTERNAL_TARGET_EXISTS", "EXTERNAL_STAGING_ARTIFACT_EXISTS",
     "S3_CONDITIONAL_WRITE_CONFLICT", "VALIDATION_RECEIPT_BINDING_MISMATCH",
     "PUBLICATION_TERMINAL_MISMATCH"}

RetryCodes ==
    {"INGESTION_CLAIM_CONFLICT", "RETRY_EXHAUSTED",
     "EXTERNAL_VOLUME_UNAVAILABLE", "S3_UNAVAILABLE"}

\* Mutant of Classify: whatever is not known to be transient is quarantined.
MutantClassify(code) ==
    IF code \in RetryCodes THEN "RETRY_WAIT" ELSE "QUARANTINED"

\* Everything else waits for an operator.
Classify(code) ==
    CASE code \in QuarantineCodes -> "QUARANTINED"
      [] code \in RetryCodes      -> "RETRY_WAIT"
      [] OTHER                    -> "OPERATOR_REVIEW"

(***************************************************************************)
(* A worker's locals: pc, the milestone of the row its claim returned, the *)
(* exception in flight, the evidence it is about to record or cite, and    *)
(* the S3 attempt or publication move it is at.                            *)
(***************************************************************************)
Idle == [pc |-> "idle", ms |-> REGISTERED, err |-> "NONE", ev |-> None,
         step |-> 0]

Target(w) == local[w].ms + 1
Kind(w) == PrerequisiteKind[Target(w)]

\* The steps that read the clock before their transaction.
TimedSteps == {"claim", "transition", "fail"}
MutantStamps(w) == since[w]..(clock + 1)     \* a host ahead of time

Stamps(w) == since[w]..clock

Goto(w, next) ==
    /\ local' = [local EXCEPT ![w] = next]
    /\ since' = [since EXCEPT ![w] =
                   IF next.pc \in TimedSteps THEN clock ELSE 0]

At(w, pc) == local[w].pc = pc
Step(w, pc) == [local[w] EXCEPT !.pc = pc]
Holding(w, evidence) == [local[w] EXCEPT !.pc = "receipt", !.ev = evidence]
Raise(w, error) == Goto(w, [Idle EXCEPT !.pc = "fail", !.err = error])
Return(w) == Goto(w, Idle)

Spend(what) ==
    /\ budget[what] > 0
    /\ budget' = [budget EXCEPT ![what] = @ - 1]

\* A transaction has committed: the worker goes on, or the connection is
\* lost while it is released and the worker sees an error.
Committed(w, next) ==
    \/ /\ Goto(w, next)
       /\ UNCHANGED budget
    \/ /\ Spend("faults")
       /\ Raise(w, "CONNECTION_RELEASE_FAILED")

Init ==
    /\ SagaInit
    /\ local = [w \in Workers |-> Idle]
    /\ since = [w \in Workers |-> 0]
    /\ file = None
    /\ temps = {}
    /\ objects = 0
    /\ parsed = 0
    /\ source = [st |-> "REGISTERED", seq |-> 0]
    /\ moved = {}
    /\ content \in Contents
    /\ budget = [crashes |-> MaxCrashes, faults |-> MaxFaults,
                 reviews |-> MaxReviews]
-----------------------------------------------------------------------------
\* The loop condition and the early return of execute.
MayContinue ==
    /\ saga.ms # PUBLISHED
    /\ saga.disp \notin {"QUARANTINED", "OPERATOR_REVIEW"}

\* execute: register or find the saga, then enter the loop.  A call that
\* finds a settled saga returns it and changes nothing.
Execute(w) ==
    /\ At(w, "idle")
    /\ \/ RegisterSaga
       \/ /\ Registered
          /\ MayContinue
          /\ UNCHANGED sagaVars
    /\ Goto(w, [Idle EXCEPT !.pc = "claim"])
    /\ UNCHANGED <<world, budget>>

(***************************************************************************)
(* Each handler first records its intent; the locator names the upstream   *)
(* evidence the effect starts from.                                        *)
(***************************************************************************)
Upstream ==
    [k \in Kinds |->
       CASE k = "S3_LOCK_VERIFICATION" -> effects["S3_UPLOAD"].receipt
         [] k = "PARSE"      -> effects["S3_LOCK_VERIFICATION"].receipt
         [] k = "VALIDATION" -> effects["PARSE"].receipt
         [] OTHER            -> Plan]

\* The first external step of each handler.
EntryStep ==
    [k \in Kinds |->
       CASE k = "ACQUISITION"          -> "inspect"
         [] k = "HASH_VERIFICATION"    -> "hash"
         [] k = "S3_UPLOAD"            -> "reconcile"
         [] k = "S3_LOCK_VERIFICATION" -> "verify"
         [] k = "PARSE"                -> "parse"
         [] k = "VALIDATION"           -> "validate"
         [] OTHER                      -> "pubcheck"]

\* Mutant of HandlerStart: the effect comes before its intent.
MutantHandlerStart(ms) ==
    [Idle EXCEPT !.pc = EntryStep[PrerequisiteKind[ms + 1]], !.ms = ms,
                 !.step = 1]

\* _advance_one: the handler of the milestone the claim returned.
HandlerStart(ms) == [Idle EXCEPT !.pc = "intent", !.ms = ms]

Claim(w) ==
    /\ At(w, "claim")
    /\ \E ts \in Stamps(w) :
          \/ /\ ClaimSaga(w, Lease, ts)
             /\ Committed(w, HandlerStart(saga.ms))
          \/ /\ Claimable(ts) /\ ~RowAccepts(ts)
             /\ Raise(w, "GUARD_REJECTED")
             /\ UNCHANGED <<sagaVars, budget>>
          \/ /\ ~Claimable(ts)
             /\ Raise(w, "INGESTION_CLAIM_CONFLICT")
             /\ UNCHANGED <<sagaVars, budget>>
    /\ UNCHANGED world

\* With the intent durable: the pending upload moves on at once, a recorded
\* receipt is reused, and otherwise the external work begins.
AfterIntent(w, receipt) ==
    CASE ~RequiresReceipt(Target(w)) ->
           [local[w] EXCEPT !.pc = "transition", !.ev = Upstream[Kind(w)]]
      [] RequiresReceipt(Target(w)) /\ receipt # None ->
           [local[w] EXCEPT !.pc = "transition", !.ev = receipt]
      [] OTHER ->
           [local[w] EXCEPT !.pc = EntryStep[Kind(w)], !.step = 1]

Intent(w) ==
    LET k == Kind(w) locator == Upstream[k]
    IN  /\ At(w, "intent")
        /\ \/ /\ RecordEffectIntent(k, locator)
              /\ Committed(w, AfterIntent(w, None))
           \/ /\ IntentHeld(k, locator)
              /\ Goto(w, AfterIntent(w, effects[k].receipt))
              /\ UNCHANGED <<sagaVars, budget>>
        /\ UNCHANGED world
-----------------------------------------------------------------------------
(***************************************************************************)
(* External work.  None of it holds a transaction, a lease check or a      *)
(* lock: the saga row is not read again before the receipt is recorded.    *)
(***************************************************************************)
\* _acquire_local: leftovers of an interrupted write stop the saga.
Inspect(w) ==
    /\ At(w, "inspect")
    /\ IF temps # {} THEN Raise(w, "INCOMPLETE_LOCAL_STAGING_ARTIFACT")
                     ELSE Goto(w, Step(w, "read"))
    /\ UNCHANGED <<sagaVars, world, budget>>

\* _acquire_local: an exact file is adopted, otherwise the bytes are fetched.
ReadExisting(w) ==
    /\ At(w, "read")
    /\ Goto(w, IF file # None THEN Holding(w, Evidence(w, 0))
                              ELSE Step(w, "scan"))
    /\ UNCHANGED <<sagaVars, world, budget>>

\* atomic_write_exact, before it writes: neither target nor leftovers.
Scan(w) ==
    /\ At(w, "scan")
    /\ \/ file # None /\ Raise(w, "EXTERNAL_TARGET_EXISTS")
       \/ file = None /\ temps # {}
             /\ Raise(w, "EXTERNAL_STAGING_ARTIFACT_EXISTS")
       \/ file = None /\ temps = {} /\ Goto(w, Step(w, "create"))
    /\ UNCHANGED <<sagaVars, world, budget>>

\* atomic_write_exact: the temporary file, written and synced.
CreateTemporary(w) ==
    /\ At(w, "create")
    /\ temps' = temps \cup {w}
    /\ Goto(w, Step(w, "link"))
    /\ UNCHANGED <<sagaVars, file, objects, parsed, source, moved, content,
                   budget>>

\* os.link never replaces: the loser removes its temporary and fails.
MutantLinkTarget(w) == w      \* rename in place of link

LinkTarget(w) == IF file = None THEN w ELSE file

Link(w) ==
    /\ At(w, "link")
    /\ file' = LinkTarget(w)
    /\ IF file' = w
       THEN Goto(w, Step(w, "unlink")) /\ UNCHANGED temps
       ELSE Raise(w, "EXTERNAL_TARGET_EXISTS") /\ temps' = temps \ {w}
    /\ UNCHANGED <<sagaVars, objects, parsed, source, moved, content, budget>>

\* After the link the directory is synced, the temporary removed and the
\* file read back; what fails first may leave the temporary beside the file.
Unlink(w) ==
    /\ At(w, "unlink")
    /\ \/ /\ temps' = temps \ {w}
          /\ Goto(w, Holding(w, Evidence(w, 0)))
          /\ UNCHANGED budget
       \/ /\ Spend("faults")
          /\ Raise(w, "EXTERNAL_VOLUME_UNAVAILABLE")
          /\ temps' \in {temps, temps \ {w}}
    /\ UNCHANGED <<sagaVars, file, objects, parsed, source, moved, content>>

\* _verify_hash
VerifyHash(w) ==
    /\ At(w, "hash")
    /\ IF file # None THEN Goto(w, Holding(w, Evidence(w, 0)))
                      ELSE Raise(w, "EXTERNAL_VOLUME_UNAVAILABLE")
    /\ UNCHANGED <<sagaVars, world, budget>>

\* The volume is unavailable to a read, or to a write not yet linked: then
\* the temporary is removed again.
VolumeFault(w) ==
    /\ local[w].pc \in {"inspect", "read", "scan", "create", "link", "hash"}
    /\ Spend("faults")
    /\ Raise(w, "EXTERNAL_VOLUME_UNAVAILABLE")
    /\ temps' = IF At(w, "link") THEN temps \ {w} ELSE temps
    /\ UNCHANGED <<sagaVars, file, objects, parsed, source, moved, content>>

\* _upload_snapshot: look for the object before every put.
Reconcile(w) ==
    /\ At(w, "reconcile")
    /\ Goto(w, IF objects > 0 THEN Holding(w, Evidence(w, objects))
                              ELSE Step(w, "put"))
    /\ UNCHANGED <<sagaVars, world, budget>>

\* put_object with If-None-Match: "*" creates the first version only; on a
\* key that exists it fails and the existing version is read back.
MutantConditionalPut == objects + 1     \* no If-None-Match

ConditionalPut == IF objects = 0 THEN 1 ELSE objects

\* The put succeeds, or collides with a put in flight, or its answer is lost
\* whether or not the object was stored.
Put(w) ==
    /\ At(w, "put")
    /\ \/ /\ objects' = ConditionalPut
          /\ Goto(w, Holding(w, Evidence(w, objects')))
          /\ UNCHANGED budget
       \/ /\ \E v \in Workers \ {w} : At(v, "put")
          /\ Raise(w, "S3_CONDITIONAL_WRITE_CONFLICT")
          /\ UNCHANGED <<objects, budget>>
       \/ /\ Spend("faults")
          /\ objects' \in {objects, ConditionalPut}
          /\ Goto(w, Step(w, "recheck"))
    /\ UNCHANGED <<sagaVars, file, temps, parsed, source, moved, content>>

MayRetryPut(w) == local[w].step < S3Attempts

\* After an ambiguous put: reconcile, then try again up to the limit.
Recheck(w) ==
    /\ At(w, "recheck")
    /\ \/ /\ objects > 0
          /\ Goto(w, Holding(w, Evidence(w, objects)))
       \/ /\ objects = 0 /\ MayRetryPut(w)
          /\ Goto(w, [Step(w, "reconcile") EXCEPT !.step = @ + 1])
       \/ /\ objects = 0 /\ ~MayRetryPut(w)
          /\ Raise(w, "S3_UNAVAILABLE")
    /\ UNCHANGED <<sagaVars, world, budget>>

\* _verify_lock: the version the upload receipt names, with its lock.
VerifyLock(w) ==
    LET version == effects["S3_UPLOAD"].receipt.ref
    IN  /\ At(w, "verify")
        /\ version \in 1..objects
        /\ Goto(w, Holding(w, Evidence(w, version)))
        /\ UNCHANGED <<sagaVars, world, budget>>

\* A read of S3 is unavailable, or S3 denies the call.
StorageFault(w) ==
    /\ Spend("faults")
    /\ \/ /\ local[w].pc \in {"reconcile", "recheck", "verify", "parse"}
          /\ Raise(w, "S3_UNAVAILABLE")
       \/ /\ local[w].pc \in {"reconcile", "put", "recheck", "verify", "parse"}
          /\ Raise(w, "S3_ACCESS_DENIED")
    /\ UNCHANGED <<sagaVars, world>>

(***************************************************************************)
(* The parser port reads back the artifact of this saga or makes it from   *)
(* the locked version; persisting twice keeps the first, because the       *)
(* artifact digest does not cover the time it was made.  Blocked content   *)
(* raises before anything is stored.                                       *)
(***************************************************************************)
Parse(w) ==
    /\ At(w, "parse")
    /\ IF content = "BLOCKED"
       THEN /\ Raise(w, "PARSE_CONTENT_BLOCKED")
            /\ UNCHANGED <<parsed, budget>>
       ELSE /\ parsed' = IF parsed # 0 THEN parsed
                         ELSE effects["S3_UPLOAD"].receipt.ref
            /\ Committed(w, Holding(w, Evidence(None, parsed')))
    /\ UNCHANGED <<sagaVars, file, temps, objects, source, moved, content>>

\* The validator port is a pure function of the parse artifact; a receipt
\* that is not accepted never becomes durable.
Validate(w) ==
    /\ At(w, "validate")
    /\ IF content = "REJECTED"
       THEN Raise(w, "VALIDATION_RECEIPT_BINDING_MISMATCH")
       ELSE Goto(w, Holding(w, Evidence(None, parsed)))
    /\ UNCHANGED <<sagaVars, world, budget>>
-----------------------------------------------------------------------------
(***************************************************************************)
(* The publication port drives the source through three moves, each read   *)
(* and each made in a transaction of its own.                              *)
(***************************************************************************)
MoveFrom == <<"REGISTERED", "REVIEW_REQUIRED", "ELIGIBLE">>
MoveTo   == <<"REVIEW_REQUIRED", "ELIGIBLE", "PUBLISHED">>

\* reconcile, before publish: a published source needs no move.
PublicationCheck(w) ==
    /\ At(w, "pubcheck")
    /\ Goto(w, IF source.st = "PUBLISHED"
               THEN Step(w, "pubchain")
               ELSE [Step(w, "pubread") EXCEPT !.step = 1])
    /\ UNCHANGED <<sagaVars, world, budget>>

\* reconcile, second transaction: the event chain must still end PUBLISHED.
PublicationChain(w) ==
    /\ At(w, "pubchain")
    /\ IF source.st = "PUBLISHED"
       THEN Goto(w, Holding(w, Evidence(None, source.seq)))
       ELSE Raise(w, "PUBLICATION_EVENT_MISSING")
    /\ UNCHANGED <<sagaVars, world, budget>>

\* Mutant of NextMove: a state that is already reached is read again.
MutantNextMove(w) ==
    IF local[w].step = 3 THEN Step(w, "pubconfirm") ELSE Step(w, "pubread")

NextMove(w) ==
    IF local[w].step = 3 THEN Step(w, "pubconfirm")
    ELSE [Step(w, "pubread") EXCEPT !.step = @ + 1]

\* publish, one round of the loop: skip, move, stop, or refuse.
PublicationRead(w) ==
    LET i == local[w].step
    IN  /\ At(w, "pubread")
        /\ \/ /\ source.st = MoveTo[i]
              /\ Goto(w, NextMove(w))
           \/ /\ source.st = MoveFrom[i]
              /\ Goto(w, Step(w, "pubmove"))
           \/ /\ source.st = "PUBLISHED" /\ MoveTo[i] # "PUBLISHED"
              /\ Goto(w, Step(w, "pubconfirm"))
           \/ /\ source.st \notin {MoveFrom[i], MoveTo[i], "PUBLISHED"}
              /\ Raise(w, "PUBLICATION_STATE_CONFLICT")
        /\ UNCHANGED <<sagaVars, world, budget>>

(***************************************************************************)
(* transition_publication_state: one idempotent operation per move.  Its   *)
(* request digest covers the caller's clock, so an operation that is       *)
(* already COMPLETED never replays: it conflicts.                          *)
(***************************************************************************)
MoveCompleted(to) == to \in moved

MoveIneligible(to) == to \in NeedsEligibility /\ content = "INELIGIBLE"

PublicationMove(w) ==
    LET i == local[w].step
        to == MoveTo[i]
    IN  /\ At(w, "pubmove")
        /\ \/ /\ MoveCompleted(to)
              /\ Raise(w, "IDEMPOTENCY_BINDING_CONFLICT")
              /\ UNCHANGED <<source, moved, budget>>
           \/ /\ ~MoveCompleted(to) /\ source.st # MoveFrom[i]
              /\ Raise(w, "STALE_PUBLICATION_STATE")
              /\ UNCHANGED <<source, moved, budget>>
           \/ /\ ~MoveCompleted(to) /\ source.st = MoveFrom[i] /\ MoveIneligible(to)
              /\ Raise(w, "PUBLICATION_NOT_ELIGIBLE")
              /\ UNCHANGED <<source, moved, budget>>
           \/ /\ ~MoveCompleted(to) /\ source.st = MoveFrom[i] /\ ~MoveIneligible(to)
              /\ source' = [st |-> to, seq |-> source.seq + 1]
              /\ moved' = moved \cup {to}
              /\ Committed(w, NextMove(w))
        /\ UNCHANGED <<sagaVars, file, temps, objects, parsed, content>>

\* reconcile, after the moves: anything but PUBLISHED is a mismatch.
PublicationConfirm(w) ==
    /\ At(w, "pubconfirm")
    /\ IF source.st = "PUBLISHED"
       THEN Goto(w, Step(w, "pubchain"))
       ELSE Raise(w, "PUBLICATION_TERMINAL_MISMATCH")
    /\ UNCHANGED <<sagaVars, world, budget>>

\* A reviewer moves the source along any declared edge, at any time.
Review ==
    /\ Spend("reviews")
    /\ \E to \in AllowedPublication[source.st] :
          /\ to \in NeedsEligibility => content # "INELIGIBLE"
          /\ source' = [st |-> to, seq |-> source.seq + 1]
    /\ UNCHANGED <<sagaVars, local, since, file, temps, objects, parsed, moved,
                   content>>
-----------------------------------------------------------------------------
\* record_effect_receipt: first evidence wins, equal evidence replays.
Receipt(w) ==
    LET k == Kind(w) receipt == local[w].ev
    IN  /\ At(w, "receipt")
        /\ \/ /\ RecordEffectReceipt(k, receipt)
              /\ Committed(w, Step(w, "transition"))
           \/ /\ effects[k].receipt = receipt
              /\ Goto(w, Step(w, "transition"))
              /\ UNCHANGED <<sagaVars, budget>>
           \/ /\ effects[k].receipt \notin {None, receipt}
              /\ Raise(w, "EXTERNAL_RECEIPT_CONFLICT")
              /\ UNCHANGED <<sagaVars, budget>>
        /\ UNCHANGED world

\* transition, as the last call of every handler.
Advance(w) ==
    LET target == Target(w) digest == local[w].ev
    IN  /\ At(w, "transition")
        /\ \E ts \in Stamps(w) :
              \/ /\ Transition(target, digest, ts)
                 /\ Committed(w, Step(w, "observe"))
              \/ /\ TransitionReplayed(target, digest)
                 /\ Goto(w, Step(w, "observe"))
                 /\ UNCHANGED <<sagaVars, budget>>
              \/ /\ TransitionLegal(target, digest) /\ ~RowAccepts(ts)
                 /\ Raise(w, "GUARD_REJECTED")
                 /\ UNCHANGED <<sagaVars, budget>>
              \/ /\ ~TransitionReplayed(target, digest)
                 /\ ~TransitionLegal(target, digest)
                 /\ Raise(w, "ILLEGAL_INGESTION_TRANSITION")
                 /\ UNCHANGED <<sagaVars, budget>>
        /\ UNCHANGED world

\* get_saga at the end of a round.
Observe(w) ==
    /\ At(w, "observe")
    /\ IF MayContinue THEN Goto(w, [Idle EXCEPT !.pc = "claim"])
                      ELSE Return(w)
    /\ UNCHANGED <<sagaVars, world, budget>>

(***************************************************************************)
(* The except clause of execute: record the failure unless the exception   *)
(* is an IngestionClaimError, ignore a failure to record it, and raise.    *)
(***************************************************************************)
Fail(w) ==
    LET code == Surfaced(local[w].err)
    IN  /\ At(w, "fail")
        /\ IF code = "INGESTION_CLAIM_CONFLICT"
           THEN UNCHANGED sagaVars
           ELSE \E ts \in Stamps(w) :
                   \/ RecordFailure(Classify(code), ts)
                   \/ ~RowAccepts(ts) /\ UNCHANGED sagaVars
        /\ Return(w)
        /\ UNCHANGED <<world, budget>>

(***************************************************************************)
(* A transaction fails and nothing of it is applied: retries exhausted, or *)
(* any other database error.  In get_saga the error leaves execute; in     *)
(* record_failure it is swallowed.                                         *)
(***************************************************************************)
TransactionFault(w) ==
    /\ Spend("faults")
    /\ \/ /\ local[w].pc \in {"claim", "intent", "receipt", "transition",
                              "parse", "pubcheck", "pubchain", "pubread",
                              "pubmove", "pubconfirm"}
          /\ \E e \in {"RETRY_EXHAUSTED", "DATABASE_OPERATION_FAILURE"} :
                Raise(w, e)
       \/ /\ local[w].pc \in {"observe", "fail"}
          /\ Return(w)
    /\ UNCHANGED <<sagaVars, world>>

\* The process dies; only what is durable remains.
Crash(w) ==
    /\ ~At(w, "idle")
    /\ Spend("crashes")
    /\ Return(w)
    /\ UNCHANGED <<sagaVars, world>>

ClockTick ==
    /\ Tick
    /\ UNCHANGED <<local, since, world, budget>>

\* What a running worker does next, without the faults around it.
WorkerStep(w) ==
    \/ Claim(w)
    \/ Intent(w)
    \/ Inspect(w)
    \/ ReadExisting(w)
    \/ Scan(w)
    \/ CreateTemporary(w)
    \/ Link(w)
    \/ Unlink(w)
    \/ VerifyHash(w)
    \/ Reconcile(w)
    \/ Put(w)
    \/ Recheck(w)
    \/ VerifyLock(w)
    \/ Parse(w)
    \/ Validate(w)
    \/ PublicationCheck(w)
    \/ PublicationChain(w)
    \/ PublicationRead(w)
    \/ PublicationMove(w)
    \/ PublicationConfirm(w)
    \/ Receipt(w)
    \/ Advance(w)
    \/ Observe(w)
    \/ Fail(w)

Next ==
    \/ \E w \in Workers : Execute(w)
    \/ \E w \in Workers : WorkerStep(w)
    \/ \E w \in Workers : VolumeFault(w)
    \/ \E w \in Workers : StorageFault(w)
    \/ \E w \in Workers : TransactionFault(w)
    \/ \E w \in Workers : Crash(w)
    \/ Review
    \/ ClockTick

Spec == Init /\ [][Next]_vars

(***************************************************************************)
(* Fairness.  A running worker takes its next step: every external call    *)
(* and every transaction returns.  Calling execute again is up to whoever  *)
(* operates the saga; RecoveringSpec supposes that somebody keeps doing    *)
(* it while time passes.                                                   *)
(***************************************************************************)
WorkersRun == \A w \in Workers : WF_vars(WorkerStep(w))

FairSpec == Spec /\ WorkersRun

RecoveringSpec ==
    /\ FairSpec
    /\ WF_vars(\E w \in Workers : Execute(w))
    /\ WF_vars(ClockTick)
-----------------------------------------------------------------------------
Points ==
    {"idle", "claim", "intent", "inspect", "read", "scan", "create", "link",
     "unlink", "hash", "reconcile", "put", "recheck", "verify", "parse",
     "validate", "pubcheck", "pubchain", "pubread", "pubmove", "pubconfirm",
     "receipt", "transition", "observe", "fail"}

\* The locals and the world have their types, and the retry counters of the
\* upload and of the publication loop stay in range.
WorldTypeOK ==
    /\ \A w \in Workers :
          /\ local[w].pc \in Points
          /\ local[w].ms \in REGISTERED..VALIDATED
          /\ local[w].ev \in Receipts \cup {None}
          /\ At(w, "receipt") => local[w].ev # None
          /\ local[w].pc \in {"reconcile", "put", "recheck"} =>
                local[w].step \in 1..S3Attempts
          /\ local[w].pc \in {"pubread", "pubmove"} => local[w].step \in 1..3
    /\ file \in Workers \cup {None}
    /\ temps \subseteq Workers
    /\ objects \in Nat
    /\ parsed \in 0..objects
    /\ source.st \in PublicationStates /\ source.seq \in Nat
    /\ moved \subseteq {MoveTo[i] : i \in 1..3}

Declared(k) == effects[k].intent # None

(***************************************************************************)
(* "The intent is committed before the external call" (ADR-017): whatever  *)
(* stale, crashed or racing worker made it, no trace of an effect is found *)
(* in the world before its intent is durable.                              *)
(***************************************************************************)
WriteAheadIntent ==
    /\ (file # None \/ temps # {}) => Declared("ACQUISITION")
    /\ objects > 0 => Declared("S3_UPLOAD")
    /\ parsed > 0 => Declared("PARSE")
    /\ moved # {} => Declared("PUBLICATION")

(***************************************************************************)
(* A milestone is never ahead of the world: what it says was done is       *)
(* there, although receipts travel through workers that lost their lease.  *)
(***************************************************************************)
MilestonesBackedByWorld ==
    /\ saga.ms >= ACQUIRED_LOCAL => file # None
    /\ saga.ms >= SNAPSHOT_UPLOADED => objects > 0
    /\ saga.ms >= PARSED => parsed > 0
    /\ saga.ms = PUBLISHED =>
          effects["PUBLICATION"].receipt.ref \in 3..source.seq

(***************************************************************************)
(* One S3 version from upload to publication: the upload receipt, the      *)
(* verified lock, the parse artifact and the validation name the same one, *)
(* after ambiguous puts, retries and uploads by two workers.               *)
(***************************************************************************)
SingleVersionLineage ==
    /\ objects <= 1
    /\ \A k \in {"S3_UPLOAD", "S3_LOCK_VERIFICATION", "PARSE", "VALIDATION"} :
          effects[k].receipt # None => effects[k].receipt.ref = 1

(***************************************************************************)
(* A worker resuming a milestone, after a crash or a takeover, never finds *)
(* its intent refused: the locator it derives is the one already stored.   *)
(***************************************************************************)
IntentNeverRefused ==
    \A w \in Workers : At(w, "intent") =>
       \/ IntentFresh(Kind(w))
       \/ IntentHeld(Kind(w), Upstream[Kind(w)])

(***************************************************************************)
(* Intents are a write-ahead log that can be resumed: durable before their *)
(* effect shows in the world, and accepted again by whoever takes over.    *)
(***************************************************************************)
IntentsComeFirst == WriteAheadIntent /\ IntentNeverRefused

(***************************************************************************)
(* The staged file is never replaced once linked, whoever else is writing. *)
(***************************************************************************)
StagedFileIsFinal == [][file # None => file' = file]_file

(***************************************************************************)
(* However often publication is resumed or raced, each of its three moves  *)
(* is made at most once: every event of the source is one move of the saga *)
(* or one of a reviewer.                                                   *)
(***************************************************************************)
EachMoveOnce ==
    source.seq = Cardinality(moved) + (MaxReviews - budget.reviews)

(***************************************************************************)
(* Repeated, resumed and racing handlers have the effects of one: a single *)
(* S3 version, and each publication move once.                             *)
(***************************************************************************)
EffectsHappenOnce == SingleVersionLineage /\ EachMoveOnce

(***************************************************************************)
(* "A transient outage does not become quarantine without an integrity     *)
(* conflict" (ADR-017): with one worker at a time and clean content,       *)
(* neither lost answers, unavailable stores nor crashes quarantine a saga. *)
(***************************************************************************)
OutageIsNotQuarantine == content = "CLEAN" => saga.disp # "QUARANTINED"

(***************************************************************************)
(* Every call of execute returns, whatever fails and whoever interferes.   *)
(***************************************************************************)
ExecuteReturns ==
    \A w \in Workers : []<>At(w, "idle")

(***************************************************************************)
(* A saga that is retried ends published, quarantined or with an operator, *)
(* unless the bounded clock of the model stops before a lease or a pause   *)
(* is over.                                                                *)
(***************************************************************************)
Settled ==
    saga.disp \in {"COMPLETED", "QUARANTINED", "OPERATOR_REVIEW"}

OutOfTime == clock = MaxClock /\ (saga.exp > clock \/ saga.retry > clock)

Settles == <>[](Settled \/ OutOfTime)

(***************************************************************************)
(* "An active claim conflict is retryable but cannot clear or replace the  *)
(* other worker's lease": a worker whose claim was refused leaves the row  *)
(* as it is.                                                               *)
(***************************************************************************)
ClaimConflictKeepsLease ==
    [][\A w \in Workers :
         (At(w, "fail") /\ local[w].err = "INGESTION_CLAIM_CONFLICT"
             /\ saga.disp = "CLAIMED" /\ local'[w] # local[w])
          => saga' = saga]_vars

(***************************************************************************)
(* "Quarantine blocks publication": once the saga is quarantined, its      *)
(* source is not published any more.                                       *)
(***************************************************************************)
QuarantineBlocksPublication ==
    [][saga.disp = "QUARANTINED" /\ source'.st = "PUBLISHED"
          => source.st = "PUBLISHED"]_vars

(***************************************************************************)
(* The orchestrator is one client of the store among those SagaSpec        *)
(* allows: with crashes, lost answers, stale clocks and resumed handlers   *)
(* it makes no call the store was not shown to withstand.  (SagaSpec, with *)
(* the stutter in front because TLC meets it most.)                        *)
(***************************************************************************)
UsesStoreAsDesigned ==
    SagaInit /\ [][UNCHANGED sagaVars \/ SagaNext]_sagaVars
=============================================================================
