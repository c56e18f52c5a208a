--------------------------- MODULE SagaMilestones ---------------------------
(***************************************************************************)
(* The canonical lifecycle of one ingestion saga: the milestones, the      *)
(* external effects, and which effect each milestone waits for.  Shared by *)
(* the abstract contract, the durable saga and the orchestrator.           *)
(* A milestone is its index in MILESTONE_ORDER.                            *)
(***************************************************************************)
EXTENDS Integers

REGISTERED              == 0
ACQUIRED_LOCAL          == 1
HASH_VERIFIED           == 2
SNAPSHOT_UPLOAD_PENDING == 3
SNAPSHOT_UPLOADED       == 4
SNAPSHOT_LOCK_VERIFIED  == 5
PARSED                  == 6
VALIDATED               == 7
PUBLISHED               == 8

Milestones == REGISTERED .. PUBLISHED

Kinds == {"ACQUISITION", "HASH_VERIFICATION", "S3_UPLOAD",
          "S3_LOCK_VERIFICATION", "PARSE", "VALIDATION", "PUBLICATION"}

\* _PREREQUISITES, first component: the effect whose evidence opens an edge.
PrerequisiteKind ==
    <<"ACQUISITION", "HASH_VERIFICATION", "S3_UPLOAD", "S3_UPLOAD",
      "S3_LOCK_VERIFICATION", "PARSE", "VALIDATION", "PUBLICATION">>

\* Mutant of RequiresReceipt: the upload counts as done once it is pending.
MutantRequiresReceipt(target) ==
    target \notin {SNAPSHOT_UPLOAD_PENDING, SNAPSHOT_UPLOADED}

\* _PREREQUISITES, second component: only the pending upload opens on its
\* intent; every other edge needs the receipt.
RequiresReceipt(target) == target # SNAPSHOT_UPLOAD_PENDING

\* _INTENT_MILESTONES: where an effect may be declared for the first time.
IntentMilestone ==
    [k \in Kinds |->
       CASE k = "ACQUISITION"          -> REGISTERED
         [] k = "HASH_VERIFICATION"    -> ACQUIRED_LOCAL
         [] k = "S3_UPLOAD"            -> HASH_VERIFIED
         [] k = "S3_LOCK_VERIFICATION" -> SNAPSHOT_UPLOADED
         [] k = "PARSE"                -> SNAPSHOT_LOCK_VERIFIED
         [] k = "VALIDATION"           -> PARSED
         [] OTHER                      -> VALIDATED]

\* next_milestone: every edge goes to the next index, PUBLISHED has none.
IsNextMilestone(current, target) ==
    /\ current < PUBLISHED
    /\ target = current + 1
=============================================================================
