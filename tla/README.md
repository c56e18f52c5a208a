# AIOA memory kernel: TLA+ models, model checking and proofs

This directory is a formal model of the durable, concurrent core of the AIOA
memory kernel (`src/aioa_memory_kernel`). The modules are translated from the
Python services and from the CockroachDB migrations they depend on. TLC checks
them on small instances and TLAPS proves theorems about them for every value of
their constants.

## 1. Inventory of the system

The kernel is a set of Python services over one CockroachDB database, an S3
bucket with Object Lock and an external disk volume. Every service operation is
one SERIALIZABLE transaction opened by `persistence/transaction.py`, retried on
SQLSTATE 40001 only. Triggers and CHECK constraints in `sql/cockroachdb`
enforce part of the state machines a second time.

| Component | State it keeps | Operations | What is hard |
|---|---|---|---|
| `ingestion` (Step 10) | `ingestion_sagas`, `ingestion_saga_events`, `ingestion_external_effects`, `ingestion_orphans` | register, claim, release, record intent/receipt, transition, record failure; `execute` drives eight handlers | several workers on one saga, leases that run out while an effect is in flight, crashes between effect and receipt, ambiguous answers, clock readings taken before the transaction |
| `sources` (Step 9) | `source_registry_entries`, provenance edges, publication events | register source, record edge, evaluate eligibility, transition publication state | reviewers and sagas moving the same source; idempotency keys bound to request digests |
| `persistence` (Step 6) | `idempotency_operations` | begin or resume, complete, mark interrupted / failed | resume races, lost acknowledgements, terminal states |
| `storage` (Steps 7, 8) | S3 versions; files on the volume | conditional put, reconcile, verify; atomic no-replace write | ambiguous puts, leftovers of interrupted writes |
| `parsing` (Step 11) | parse artifacts, chunks | parse, persist, reconcile, validate | two workers persisting the same artifact |
| `acquisition`, `corpus`, `german_law` | inventories, acquired files, plans | fetch, normalise, deduplicate, publish corpus | mostly pure functions over documents |
| `hats`, `routing`, `runtime` | trusted HAT registry, routing decisions | validate, resolve, route | pure decisions |
| `embeddings`, `retrieval`, `evidence`, `temporal` | generations, vectors, bundles | generate, search, rank, resolve | pure ranking; database reads |
| `answers`, `claims`, `corrections`, `verification`, `critic`, `modeling` | packets, verdicts | draft, extract, bind, verify, decide | fail-closed decision tables |
| `personal_memory` (Steps 27-32) | memory spaces, candidates, patch proposals, approvals, items, lifecycle events | bridge, propose, validate, approve, commit, activate, supersede, revoke, delete, promote | long protocols over several tables; concurrent approvals, supersession and revocation |
| `audit_ledger` (Step 33) | audit chains, events, checkpoints | append, verify, checkpoint | concurrent appends to one hash chain |
| `review_workspace` (Step 34) | review items, assignments, decisions | open, claim, decide | concurrent reviewers |
| `security`, `reliability`, `release_candidate`, `demo_*`, `personal_memory_ui` | configuration, demo runtime state, UI sessions | check, simulate, present | I/O and presentation |
| `contracts`, `state_machines` | none | shared records, enumerations, allowed transitions | tables other components rely on |

Interaction. `IngestionSagaOrchestrator.execute` calls the saga service, the
external volume adapter, the S3 adapter, the parser and validator ports and the
publication port; the publication port calls the source registry, which calls
the idempotency service. No external call is made inside a transaction, and no
database lock is held across one, so every worker acts on values it read
earlier.

### What makes each part correct

| Component | The properties it stands on |
|---|---|
| saga store | one edge at a time on evidence that is never rewritten; leases are honoured; quarantine and publication are final |
| orchestrator | an intent before its effect; a milestone only for an effect the world shows; one S3 version through the saga; outages never quarantine; every call returns |
| audit ledger | one linked, chronological chain with one event per key under racing appenders; losers converge; a tampered row is found |
| review workspace | one claim, decision and handoff per case; decisions stand on what the reviewer saw; replays are answered; the trail mirrors the case |
| personal memory | the quota; no two contradictory proposals both await approval; exact replays; a patch ends once; a stale target freezes what is bound to it; a query for any date finds the patch in force then, never a replaced one beside its successor |
| provider guard | the paid calls of an epoch never exceed the ceiling, whatever crashes or is lost; the books tell what the provider did |
| jury runs | capacity is given back; a key names one run; what is shown as completed is paid for and booked; every run ends |
| evidence | nothing a retrieval found gets lost between the stages; "complete" and "sufficient" are earned |
| drafts, claims, verification, answers | fail closed: an answer is the draft on record, repeats supported claims only, and each of its facts rests on a selected chunk |
| source registry, sessions, embeddings (not modelled yet) | each publication move once, on a matching revision; a handle is consumed once; one record per chunk and model |

## 2. Modules

| Module | Models | State and actions |
|---|---|---|
| `SagaMilestones` | `MILESTONE_ORDER`, `_PREREQUISITES`, `_INTENT_MILESTONES` | constants only |
| `SagaContract` | what the saga promises: one edge at a time on proven effects, nothing after quarantine or publication | `stage`, `fate`, `declared`, `proven` |
| `IngestionSaga` | `IngestionSagaService` with its repository and the triggers of migration 0007, called by a most general client | `saga` (the row), `events`, `effects`, `clock`; one action per service call |
| `PublicationStates` | `ALLOWED_PUBLICATION_TRANSITIONS` | constants only |
| `IngestionOrchestrator` | `execute` in several workers, the failure classification, and the volume, S3, parser, validator and publication ports | `local` (each worker's point in the code), `file`, `temps`, `objects`, `parsed`, `source`, `moved`; one action per transaction or external call, and faults, crashes and reviewers |
| `AuditLog` | what the ledger promises: an append-only log with one draft per key | `log`, `acknowledged` |
| `AuditLedger` | `append_event` of service and repository, statement by statement, with the unique indexes and triggers of migration 0016, several appenders, retries, lost connections and lost acknowledgements | `events`, `heads`, `locks`, `calls`, `receipts`; one action per SQL statement that can meet another appender |
| `AuditReader` | `verify_chain`, `export_chain` and the verifier as functions of the rows, and the alterations of a stored chain | extends `AuditLedger`; no state |
| `ReviewLifecycle` | what a review case promises: open, claimed, decided, handed off, each once | `stage`, `claimant`, `verdict` |
| `ReviewWorkspace` | the intake, queue, detail, claim, decision and handoff services, their rows and the owner's audit chain | `cases`, `claims`, `decisions`, `handoffs`, `chain`, and `calls`: the request each actor built from what it saw and may repeat |
| `PatchLifecycle` | the memory patch table of the kernel: proposal, validation, approval, commit, activation, and one end | `status`, `successor` |
| `PersonalMemoryPatch` | the slot service, the candidate bridge, the proposal service, approval, commit, activation, supersession, revocation, deletion and promotion, with their idempotency records and the triggers and indexes of migrations 0013 to 0015 | `slot`, `candidate`, `proposal`, `item`, `receipts`, `operations`, `records`; one action per transaction |
| `PatchRetrieval` | Step 31: which patches a query for the present or a past date selects and finds eligible | extends `PersonalMemoryPatch`; no state |
| `CallBudget` | what the demo runtime promises of paid calls: charged before made, made once, never refunded, within a ceiling | `charged`, `made` |
| `ProviderGuard` | `CockroachProviderGuardLedger` and the provider behind it, called by a most general client | `rows` (one status per reservation pair), `provider` (what became of each call) |
| `JuryRuntime` | `BoundedJuryRunCoordinator`, the live jury flow with the retries of both draft services, the guarded adapter, start, shutdown and crash of several processes | `process`, `runs`, `index`, `queue`, `thread` per process, beside the guard's state |
| `KnowledgeRouting` | the router of Step 17 and the policy after Step 21 | operators only |
| `Corpus` | what the evidence pipeline reads of a published chunk | constants only |
| `EvidenceBundle` | `assemble` of Step 20: retrievals, fusion, diversity caps, byte budget, coverage | `hits`, `queue`, `selected`, `excluded`, `items`, `used`, `coverage`; one action per stage and candidate, and registrations revised in between |
| `TemporalResolution` | Step 21: applicability, succession graph and its cycle search, conflict groups, freshness, fallback, status | operators only |
| `ClaimVerification` | Steps 23 to 26 as decisions: binding, packet of corrections and prohibitions, layers of verification, gate and disposition | operators only |
| `AnswerRelease` | Steps 22, 25 and 26: both drafts with the immutable store, `finalize` and its single retry, by several deliveries of a request | `evidence`, `stored`, `work`, `released` |
| `AnswerPipeline` | the composition of the six modules above for one request | `route`, `question`, `resolution` |
| `IngestionSagaProofs`, `IngestionOrchestratorProofs`, `AuditLedgerProofs`, `ReviewWorkspaceProofs`, `PersonalMemoryPatchProofs`, `JuryRuntimeProofs`, `AnswerPipelineProofs` | the theorems about the module each is named for and the modules it extends: `ProviderGuard` in `JuryRuntimeProofs`, `AuditReader` in `AuditLedgerProofs`, `EvidenceBundle`, `TemporalResolution` and `AnswerRelease` in `AnswerPipelineProofs` | |
| `InductionLemmas` | induction over numbers and over finite sets, and the existence of a fold, for the proofs about recursive functions | |
| `MCIngestionSaga`, `MCIngestionOrchestrator`, `MCAuditLedger`, `MCReviewWorkspace`, `MCPersonalMemoryPatch`, `MCJuryRuntime`, `MCAnswerPipeline` | instances for TLC | |

Composition. `IngestionOrchestrator` extends `IngestionSaga`: the workers call the very
actions the store module defines. `AuditReader` extends `AuditLedger`, so the
verifier reads the chains the appenders make. `PatchRetrieval` reads the rows of
`PersonalMemoryPatch` in the same way: a query is one transaction that changes
nothing, so that what it returns is a function of the state. `ReviewWorkspace` has the audit
chain as rows appended in its own transactions, which is how the code uses it
(`review_workspace/audit.py`); the races of that chain belong to `AuditLedger`.
`JuryRuntime` extends `ProviderGuard`: the threads of its processes are clients of
the ledger. `AnswerPipeline` extends the decision modules and hands what
`EvidenceBundle` and `TemporalResolution` make of a corpus over to the workers of
`AnswerRelease`; once handed over, the variables of the bundle go back to their
initial values, because the code never reads the bundle again.

### How state and actions correspond to the code

- A transaction of `persistence/transaction.py` is one action. It is SERIALIZABLE,
  is retried as a whole on SQLSTATE 40001 only, and a refusal rolls everything
  back: a refused call is a disabled action or a step that changes only the
  caller. `AuditLedger` is the exception: there the statements of the
  transaction are actions, because its row locks, unique indexes and its own
  retry are what the component is about.
- What is read before the transaction, the trusted clock above all, is read at an
  earlier step or is an argument chosen from all readings. Clock readings may so
  commit out of order.
- A lost acknowledgement is a step that takes effect and leaves the caller with
  an error; a retry is the same request again.
- A canonical digest is modelled by the record it is computed from, or by a
  counter where rows are only compared (slot version). Equal digests mean equal
  inputs; that is the collision resistance of SHA-256, and the only assumption made
  of it.
- CHECK constraints, unique indexes and triggers are guards of the actions whose
  statements meet them.
- Text is a model value. Whether one text denies another, or only shares its
  words, is a relation given as a constant (`Opposes`, `Related`), as is its kind
  (`Kind`): the comparisons of `claims/binding.py` are inputs, the decisions made of
  them are translated. What a language model or a semantic verifier says is a
  nondeterministic choice.
- Scores are the ranks a modality gives; the fusion of ranks is computed as the
  code does, in its fixed-point arithmetic.

## 3. Runs

| Run | Question | Bounds |
|---|---|---|
| `saga_store` | is the durable saga consistent under any calls of two workers, with arbitrary evidence and stale clocks? | clock 0..2, lease 1, 2 receipts, 1 locator; the most general client |
| `orchestrator_race` | do two workers on one saga keep effects, evidence and publication in step? | 2 symmetric workers, 1 fault anywhere, 1 reviewer move, clock 0..1 (a lease can run out between any two steps), any content |
| `orchestrator_settles` | does every call return, does a saga that is called again end, do outages stay outages, and is the store used only as its client may? | 1 worker, 1 crash, 2 faults, clock 0..3, 2 S3 attempts, any content; safety, liveness and the refinement of `SagaSpec` |
| `audit_ledger` | is the chain linked, durable, convergent, verifiable, and does it implement the log? | 2 appenders, 2 keys, 1 body, 1 chain, 2 attempts, clock 0..1, verification limit 1, 2 events; safety and liveness |
| `review_workspace` | does a case keep its lineage while reviewers race and repeat? | 2 cases, 2 reviewers, 1 service, 4 requests, clock 0..1, page of 1; safety and refinement |
| `personal_memory_patch` | do quota, conflict, staleness and replay rules hold while the slot changes, and does a query find what was in force at its date? | 3 proposals (a claim twice and its negation), 2 keys, limits 1 and 2, clock 0..1, 3 slot versions; 1.5 million distinct states |
| `jury_runtime` | do the ceilings hold and the books tell the truth, and does every run end, whatever stops? | 2 processes, 1 session and key, 2 runs, capacity 1, 2 attempts per draft, ceilings of 2 requests, 3 calls and 2 calls per request, 1 failed transaction, 1 stop |
| `answer_pipeline` | does an answer rest on evidence that is whole, in force and on record? | 2 symmetric deliveries, 1 restart, 2 attempts per draft, 1 revised registration, 5 chunks, 3 modalities with 12 combinations of results, 1 exact item, 1 item per source, budget 5, 2 dates; 217,591 distinct states |
| `claim_conflict`, `quarantine_publication`, `patch_existing_conflict`, `superseded_evidence` | findings (section 6) | the bounds of the run beside them, cut to the case; the last has a corpus of its own, a chain of three versions |

Why the bounds are enough. The hazards of the saga need two workers, one lease
that ends and one fault: a third worker repeats the part of the second. A crash
in the race run would be a worker that stops there, which is a prefix of the
behaviours the run has already; what a restart adds is in `orchestrator_settles`,
and that crashes change nothing about safety is proved. Two clock values tell
"before the lease ended" from "after"; more are given where a pause follows a
lease. In `AuditLedger` a verification limit of 1 below a maximum of 2 events makes
chains longer than the limit, which the reader must report; two appenders with two
keys and one body give the same draft twice, two drafts of one key (they differ by
their dates) and two keys. Four review requests are one claim, one decision, one
handoff and one request more that races or repeats any of them, beside the
intake of the services. Three proposals with a limit of 1 or 2 fill the quota,
exceed it after the owner lowers it, and allow a supersession at the limit. The
index on the deduplication key never admits the third one beside the first, so a
chain of two supersessions is beyond the instance; the theorems about ends and
retrieval hold for any number of patches. In
`JuryRuntime` two processes are a restart that overlaps with what it replaces;
three calls below the four that two runs of two drafts would make let the ceiling
be met, and a request ceiling of 2 lets a retry use up what the second draft
needs. The corpus of `answer_pipeline` is a section with the version that replaces
it, a commentary on each, a repeal note and a fallback that contradicts the first
bundle or completes it; the caps and the budget are so small that each of them
bites. Bounds are guards or constants of the modules, named `Max...`; the
number of proposals per slot (`MaximumProposals`), `MaxItems`, `MaxExact`,
`MaxPerSource`, `MaxPerVersion`, `MaxExcerpt`, `MaxAge`, the page size, the ceilings
and the limits are parameters of the code.

`CHECK_DEADLOCK FALSE` is set where the system may stop: a saga that is
published or quarantined, a clock at its bound, a used up number of
requests or of runs, a deleted slot, an answered request. The ledger run checks
deadlock: an idle appender can always start another call.

### Fairness

- `FairSpec` of the orchestrator: weak fairness of each worker's step. Every port
  call has a timeout and every transaction is bounded by its retries, so a
  running call returns (`ExecuteReturns`).
- `RecoveringSpec` adds weak fairness of calling `execute` again and of the clock.
  This is assumed of the operator who schedules the workers, not of the kernel: the code
  has no scheduler. `Settles` is relative to it; faults and crashes are finite by
  `MaxFaults` and `MaxCrashes`.
- `LedgerFairness`: weak fairness of each appender's step and strong fairness of
  `LockChainHead`, because CockroachDB queues the waiters of a row lock. Without it
  an appender can be passed by for ever.
- `Fairness` of the runtime: weak fairness of a pool thread's step (provider and
  database calls have timeouts) and of the end of `close`, which waits for the
  thread. Nothing is assumed of clients, of restarts or of the passing of a TTL.
- The other specifications state no fairness, and only safety is claimed of them.

## 4. Proofs

The proof modules show, for every value of the constants, what the runs show on
small ones. They assume only the named assumptions of the modules
(`SagaAssumption`, `OrchestratorAssumption`, `EvidenceAssumption`, `LedgerAssumption`, `ReviewAssumption`, `NoCaseIsNone`, `PatchAssumption`,
`GuardAssumption`, `RuntimeAssumption`, `CorpusAssumption`, `BundleAssumption`,
`ResolutionAssumption`, `ReleaseAssumption`, `PipelineAssumption`),
which TLC evaluates in the runs.

`IngestionSaga`. The inductive invariant is `SagaInv`: types; lease, pause and
completion columns agree with the disposition; a receipt stands on an intent; the
events are the climbed edges of the milestone order; each event's digest is the
one its effect row holds. The last conjunct needs the effects to be append-only,
which is a lemma about steps (`EvidenceIsAppendOnly`), and the event chain needs the
lemma on what a transition appends. From it follow `StoreStaysConsistent`, the
action properties `SettledStaysFrozen`, `LeaseIsHonoured` and `PauseIsHonoured`, and
`StoreImplementsContract`, where every step maps to one step of `SagaContract` or a
stutter.

`IngestionOrchestrator`. A worker acts on what it read earlier, so an invariant
about the tables alone is not inductive: while one worker holds a receipt in its
locals another may have lost, regained or ended the saga. `OrchInv` therefore adds
to `SagaInv` a statement for each worker and each point of the code on what its
locals imply about tables and world (`LocalOK`): it resumes only from a milestone
whose intents are durable, the receipt it carries names an effect the world shows,
the S3 version it holds is the one the bucket has. Each of these facts is monotone:
intents, receipts, objects, artifacts, the linked file and the moves of a publication
never go away (`Grows`). So a step of one worker keeps what every other worker
relies on (`BystanderKeeps`), and each action is left to show its own worker's part.
From `OrchInv` follow all safety properties of the race run. Each step is shown to
be a step of the store's client or a stutter on the tables (`StoreIsUsedAsDesigned`),
which carries the theorems of the store over, the contract among them
(`OrchestratorKeepsContract`). `OutagesNeverQuarantine` has an invariant of its own,
`CalmInv`, and hypotheses, `Undisturbed`: one worker and no reviewer, which is what the
claim of ADR-017 and the run are about. What the single worker finds when it
resumes is what its own earlier steps left, so that no handler meets a contradiction.

`AuditLedger`. The inductive invariant is `LedgerInv`. Beside types and the
agreement of a head with its last row it says what an appender knows at each
point of the code: its view of the head is the stored one as long as it holds the
lock, and no row has its key once it has looked under the lock. This is what makes
`CompetitorsAlwaysConverge` inductive: the unique indexes behind an appender that
waited can never refuse it. From it follow `ChainStaysLinked`,
`OneEventForEachKey`, `ChainStaysChronological`, `ReceiptsStayDurable`,
`LedgerStaysConsistent`, `LedgerOnlyGrows` and `LedgerImplementsLog`, whose mapping
reads the log off the hash of the head. `ReadersAreAlwaysExact` is about operators over
such a state: what `load_range` returns is a stretch of the chain that the head's hash
spells out, a stretch verifies, and the pages join to the chain by induction over
them. Conversely each hash leaves one choice for the row before it, so that by
induction down from the head an accepted sequence is the chain, and an altered one
is refused.

`ReviewWorkspace`. A case, its claim, its decision, its handoff and its events are
five places that say one thing. `ReviewInv` says it once, in `CaseStory`, a
predicate of their values: which rows a case of each version has, that each row was
requested on the case as the one before it left it, and which event of the chain
recorded it. A transaction moves the story of one case from one version to the
next and leaves the others alone (`TablesMove`), a request that is refused or replayed
moves only its call (`CallMoves`), and identities are digests of requests, so two
rows of one identity are one. From it follow `RecordsAgree`, `DecidedOnWhatWasSeen`
and `ReplaysAreAnswered`, for which a repeated request must be shown to pass every
check of its transaction up to the row it finds, and the refinement of
`ReviewLifecycle` (`ReviewImplementsLifecycle`). `PagesShowTheQueue` is about a read of
one state: only finitely many cases are ever open, the ranks of a finite queue
follow its order and take every value up to its size (`EveryRankIsTaken`, by
induction over the queue), so the row with rank `PageSize` ends the page and the
row after it, which is loaded and not shown, tells whether more is left.

`PersonalMemoryPatch`. The proposal row of a patch keeps version 7 when its item
ends, so neither table alone tells what a patch is. `PatchInv` adds to the
properties of the run at which version of the proposal the item is in which state
(`Staged`). The quota needs it, because a commit must leave the active items alone,
and so do the replays, which are read from the proposal. `StaleTargetsStayFrozen`
goes through every action: one that moves a proposal compares the slot version
first, and a deleted slot enables nothing. `PatchesKeepLifecycle` maps each version
to its state and each end to the edge it takes. `RetrievalKeepsHistory` rests on
`EndIsRecorded`: the row of a replaced patch and the record that names its successor
have one effective date, and the two comparisons of the query with it are
complements; no step touches an ended row or adds a record that names it.
`PatchesAlwaysEndOnce` follows chains of successors. They can be ranked: a patch that
replaces another is active then, and has no successor itself, so each patch has a
rank below that of its successor, and of the finitely many patches that can be
reached from one the farthest is replaced by none. The definition reaches in as many
rounds as there are patches, which is enough because a round that adds none is
the last that could.

`ProviderGuard`, `JuryRuntime`. `LedgerIsTrue` needs little strengthening: a ceiling
is checked on the rows that exist, rows never go away, and a call is settled once
its outcome at the provider is final. `GuardKeepsBudget` maps a reservation to a
charge. `RuntimeUsesGuard` shows that every step of the runtime, a lost answer, a
crash and a retry among them, is a step of the guard or leaves it alone; it needs the
invariant that a thread between its reservation and its settlement is at the call it
reserved, which no other thread shares because run ids are fresh. So the ceiling
and the books hold for any number of processes. `CoordinatorInv` says of each process
what its index, its queue and its thread owe to its runs; a step of a thread touches
the row of its own run only. `AccountsInv` joins it to the ledger: a thread that has a
paid answer is at a pair that is reserved for its run, and a run that completed
leaves a settled pair behind. From them follow `RuntimeKeepsCoordinator` and
`RuntimeAnswersAreAccounted`.

`EvidenceBundle`. `BundleInv` strengthens `EvidenceIsAccounted` by what makes the
sequences sets: queue and selection are injective, and selection and items together
obey the caps. With it each stage hands on exactly what it does not exclude.

`TemporalResolution`. `Settle` folds over the predecessors, the inconsistent versions
and the disputed subjects. Two of these are passes over sets in which the order
is free, one is ascending, and the proof needs neither: `Sound` is a set of states
that contains the first one and is closed under every succession (`SupersedeIsSound`)
and every conflict group (`MarkIsSound`), so that by induction over the set that is
folded over it contains the last (`SettleIsSound`). A state of it has a group only
with a conflict, calls applicable only what is in force by its own dates, and leaves an
item that stands applicable or in conflict, because only a predecessor is ever
taken out. What the cycle search returns does not matter for this: it can only mark.
Two competing texts of one subject are marked, and a mark of two is a conflict.

`AnswerRelease`. `ReleaseInv` says that what a delivery holds at each point is the
stored draft of its stage or one not yet put, and that the store never changes
a draft (`StoreGrows`). The properties of the answers then are facts about one
passing verification: a passing statement violates no prohibition, so a bare text of
the first draft is supported (`BareTextIsSupported`), and a supported or correcting
statement has a decisive link, which under sufficient evidence is a selected chunk
(`SupportedStatementIsBacked`). Nothing is assumed of the verifiers.

`AnswerPipeline`. `PipelineInv` carries the bundle's invariant through the composition
and adds that a frozen bundle not called partial holds all that was found
(`WholeUnlessPartial`) and that a resolution is a sound verdict on that bundle
(`Resolved`). From it follow `SufficientEvidenceIsSound`, and `PipelineReleases`: what is
handed over is resolved evidence, so that the pipeline implements `ReleaseSpec` and
the theorems about answers hold of it (`PipelineAnswersAreSound`).

Induction. The library's induction theorems take an operator as a parameter, which
the provers cannot instantiate. `InductionLemmas` says the same with sets in the place
of predicates, from the theorem that strict inclusion of finite sets is well founded:
induction over numbers up and down, over finite sets, and that a fold of a
function over a finite set exists. A recursive function is a `CHOOSE`, and each proof
about one shows first that a function with its equation exists.

Only model-checked: liveness (`Settles`, `ExecuteReturns`, `AppendReturns`,
`RunsEnd`), which is beyond the prover.

## 5. What is not modelled

- Content: parsers, chunking, scores, prompts, the comparison of texts.
- `record_orphan` and the orphan table: `execute` never calls it.
- Of personal memory: creation and renaming of slots, byte quotas, the
  idempotency keys of Step 29 commands (a failed repetition changes nothing),
  exports, and the caps and the context envelope of the retrieval. The dates inside
  the requests of Steps 30 and 32 are left out, except for the one of a supersession:
  for every clock reading there is a request dated early enough. A model binding
  that is added again is the one that was removed.
- Of the demo runtime: the blocking of the permit and of the bounded queue of the
  guard (the pool has one thread, so neither is ever full), the archive of earlier
  demonstrations, access for judges, the health report.
- Of the answer pipeline: the registry reads of a HAT snapshot, embedding and
  search, the critic, and the texts of prompts. Two deliveries start from one
  resolved evidence: with other evidence they would have other request hashes, and
  the store would keep their drafts apart. A chunk that both bundles hold is one
  item. Two different answers of two deliveries, and `INSUFFICIENT` with complete
  coverage, do not occur in the instance.
- Tenants other than the one modelled: every statement is filtered by tenant and
  row level security, which no module here is about.
- The runner's unknown outcome of a commit, except as a lost acknowledgement.
- The migration runner, the validation scripts, the capability spike and the
  German law corpus: drivers and adapters, the largest part of the repository by
  lines. The runner validates catalogues and applies files in order; the rest
  transforms documents.
- Components without a state machine of their own are listed in `PROJECT.json` with
  the reason.

## 6. Findings

Each has a run whose counterexample shows it.

- `claim_conflict`: a worker whose claim is refused parks the saga and clears the
  lease of the worker that holds it, because the runner wraps the error that
  `execute` tests for.
- `quarantine_publication`: a worker inside its publication handler publishes the
  source of a saga that another worker has quarantined.
- `patch_existing_conflict`: a proposal that contradicts an active patch of its
  slot is validated, since approved rows are dropped from the peers.
- `superseded_evidence`: in a chain of three versions whose middle one has the
  smallest identity, the oldest version stays selected beside the newest, because
  the succession is applied in the order of identities.

Observed while modelling, without a run of their own:

- An audit append dated before the last event of its chain is refused on every
  repetition, and an exact review intake repeated at a later clock reading is
  refused, since its audit draft holds the reading. The digest of a publication move
  covers the caller's clock in the same way (`sources/registry.py:1044`).
- A supersession is dated by the owner, between both activations and now. In a chain
  dated out of order (A by B at 2, then B by C at 1) a query for a date in between
  finds both A and C. A patch that replaces two others at different dates is hidden
  until the later one, although the first of the two is gone already
  (`retrieval_repository.py:106`). A commit writes no `valid_from`, so a past date also
  finds a patch that was activated after it. A model binding removed and added again
  with another date has another hash, after which no earlier patch is retrieved
  (`retrieval.py:1071`).
- A blocked demo run shows the verified text in its stages
  (`demo_runtime/current_jury_flow.py:949` beside `demo_cockpit/jury_flow.py:236`).
- A supported claim with one mismatched link, an expired one for instance, is
  prohibited (`corrections/builder.py:164`, `:204`), so that a second draft that
  preserves it goes to review; ADR-031 says that supported claims are preserved.
- The retry of `finalize` is reached by failed citations of non-factual statements and
  by unverified claims only (`answers/policy.py`), fewer cases than
  `VERIFIED_ANSWER_ASSEMBLY_FAIL_CLOSED_OUTPUT_1A.md:78` lists. It is one per call of
  `finalize`; the retried draft is not stored, so two deliveries may release different
  retried answers. `_retry_once` assembles its answer outside its `try`.
- `MAX_ITEMS_PER_KNOWLEDGE_VERSION` (4) is above `MAX_ITEMS_PER_SOURCE` (3) and so never
  binds where a version has one source. `_cycle_nodes` can miss a node of a cycle
  that a cross edge reaches first; the status is `CONFLICTING` all the same.
- The live jury flow gives the draft services no store and `finalize` no provider,
  so neither replay nor retry happens in it.
- A reservation is refused its completion if the wall clock stepped back since it
  was inserted (`provider_guard.py:516`, migration 0005). `generate` does not read
  `_closed` (`:928`), but shutdown closes the coordinator first. `mark_ready` refuses
  while the runtime is stopping; `mark_failed` and `begin_startup` do not.
- `find_record` and `insert_record` of embeddings are separate transactions
  (`embeddings/service.py:181`): of two generators of one chunk one is refused by the
  unique index.

## 7. Plan

Done: saga store, orchestrator, audit ledger, review workspace, personal memory
patches and their retrieval, provider guard and jury runs, the answer pipeline from route to release;
the proofs of section 4.

Next, in this order:

1. Exports as observers of `PersonalMemoryPatch`, with slot creation and the keys
   of Step 29.
2. `PersistenceOperations` (begin or resume, complete, fail, interrupt, under
   racing transactions) and `SourceRegistry` on top of it; the orchestrator's
   publication port is then the registry's operation.
3. `EmbeddingGeneration`, the persistence of parse artifacts, `OwnerSessions`,
   `InventoryCheckpoint`, `Critic`.

Hazards that wait for these modules: a publication move repeated after a reviewer
has moved the source (`sources/registry.py:1044`); a session handle whose
consumption or insertion commits and is not answered
(`cockroach_sessions.py:282`, `:319`); two generators of one chunk
(`embeddings/service.py:181`) and a cached vector without its record (`:274`);
a Step 29 command repeated after the approval (`proposal_service.py:123`),
contradictory proposals that block each other (`:307`), other active patches of a
deleted slot (`lifecycle32_service.py:353`); a scan resumed after a crash or over
a changing tree (`corpus/inventory.py:537`, `:1220`), an acquired file without
its sidecar (`acquisition/http.py:286`); two puts of one snapshot that S3
answers with a conditional conflict (`storage/s3.py:648`).
