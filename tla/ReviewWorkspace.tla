-------------------------- MODULE ReviewWorkspace --------------------------
(* The Step 34 human review workspace: ReviewCaseIntakeService.create_case,  *)
(* HumanReviewWorkspaceService.list_queue, get_detail, claim_case and        *)
(* record_decision, ReviewDecisionHandoffService.handoff, the repository     *)
(* under them and the tables and triggers of migration 0017.                 *)
(*                                                                           *)
(* Each operation is one SERIALIZABLE transaction, hence one action; what    *)
(* lies outside of it is what makes the workspace hard.  A request is built  *)
(* from what its sender saw earlier, the trusted clock is read before the    *)
(* transaction starts, transactions commit in any order, the answer may be   *)
(* lost, and the sender may send the same request again at a later reading.  *)
(*                                                                           *)
(* A canonical hash of a case, request or draft is modelled by the record it *)
(* is computed from.  All cases belong to one tenant and one owner, so that  *)
(* their audit events share one chain, of which the services read the events *)
(* of one case and the date of the last event.  A reviewer stands for a      *)
(* principal with its role.                                                  *)
EXTENDS Integers, Sequences, FiniteSets

CONSTANTS Cases,          \* review_case_id: one for each intake trigger
          Reviewers, Services,
          Keys,           \* idempotency keys
          Verdicts,       \* the decision types that reviewers try
          Authorized,     \* active reviewer_authorizations: << reviewer, case >>
          CaseType,       \* CaseType[c]: its ReviewCaseType
          AuditVerified,  \* AuditVerified[c]: audit_context_verified
          QueueRank,      \* QueueRank[c]: place by priority, created_at and id
          PageSize,
          None,           \* no row, reviewer, request or receipt
          MaxTime,        \* bound on the trusted clock
          MaxRequests     \* bound on the requests that are built

ASSUME ReviewAssumption ==
  /\ MaxTime \in Nat /\ MaxRequests \in Nat /\ PageSize \in Nat \ {0}
  /\ Authorized \subseteq Reviewers \X Cases
  /\ AuditVerified \in [Cases -> BOOLEAN]
  /\ QueueRank \in [Cases -> Nat]
  /\ \A c, d \in Cases : QueueRank[c] = QueueRank[d] => c = d
  /\ Reviewers \cap Services = {}
  /\ None \notin Reviewers

VARIABLES clock,      \* Step34TrustedClock
          cases,      \* human_review_cases
          claims, decisions, handoffs,   \* the append-only child tables
          chain,      \* the owner's audit chain: its review events, by case
                      \* and in their order, and the date of its last event
          calls,      \* calls[a]: the request actor a works with
          requests    \* how many requests were built

reviewVars ==
  << clock, cases, claims, decisions, handoffs, chain, calls, requests >>
tables == << cases, claims, decisions, handoffs, chain >>

Actors == Reviewers \cup Services
Times == 0 .. MaxTime

-----------------------------------------------------------------------------
(* Records.                                                                  *)

ReviewState == {"OPEN", "CLAIMED", "IN_REVIEW", "RESOLVED", "ESCALATED"}

HumanReviewCase == [id : Cases, created_at : Times, updated_at : Times,
                    state : ReviewState, version : 1 .. 4,
                    reviewer : Reviewers \cup {None}]

ASSUME NoCaseIsNone == None \notin HumanReviewCase

OpenReviewCase(c, t) ==
  [id |-> c, created_at |-> t, updated_at |-> t, state |-> "OPEN",
   version |-> 1, reviewer |-> None]

\* transition_review_case, from the one state each target has.
Version(state) ==
  [OPEN |-> 1, CLAIMED |-> 2, IN_REVIEW |-> 3, RESOLVED |-> 4, ESCALATED |-> 4][state]

TransitionReviewCase(x, state, t, r) ==
  [x EXCEPT !.state = state, !.version = Version(state), !.updated_at = t,
            !.reviewer = r]

\* The idempotency key of an audit event: the case, the replay identity of the
\* request, or the hash of the handoff result.
AuditKey == ({"case"} \X Cases)
              \cup ({"claim", "decision"} \X Reviewers \X Keys)
              \cup ({"handoff", "terminal"} \X Reviewers \X Keys \X Verdicts \X Cases)

AuditDraft == [key : AuditKey, subject : HumanReviewCase, recorded_at : Times]

AuditChain == [events : [Cases -> Seq(AuditDraft)], head : Times]

Draft(key, x, now) == [key |-> key, subject |-> x, recorded_at |-> now]

IntakeRequest == [op : {"intake"}, case : HumanReviewCase]
ClaimRequest == [op : {"claim"}, case : HumanReviewCase, by : Reviewers,
                 key : Keys, at : Times]
DecisionRequest == [op : {"decision"}, case : HumanReviewCase,
                    events : Seq(AuditDraft), by : Reviewers, key : Keys,
                    verdict : Verdicts, at : Times]
Claim == [request : ClaimRequest, case : HumanReviewCase, event : AuditDraft]
Decision == [request : DecisionRequest, case : HumanReviewCase, event : AuditDraft]
HandoffRequest == [op : {"handoff"}, decision : Decision, key : Keys, at : Times]
Handoff == [request : HandoffRequest, case : HumanReviewCase, event : AuditDraft]

Request == IntakeRequest \cup ClaimRequest \cup DecisionRequest \cup HandoffRequest
Receipt == HumanReviewCase \cup Claim \cup Decision \cup Handoff

\* A refusal's reason code is left out: every refusal rolls back.
Call == [pc : {"idle", "sent"}, request : Request \cup {None}, now : Times,
         receipt : Receipt \cup {None}]

Idle(request, receipt) ==
  [pc |-> "idle", request |-> request, now |-> 0, receipt |-> receipt]

Init == /\ clock = 0
        /\ cases = [c \in Cases |-> None]
        /\ claims = {} /\ decisions = {} /\ handoffs = {}
        /\ chain = [events |-> [c \in Cases |-> << >>], head |-> 0]
        /\ requests = 0
        /\ calls = [a \in Actors |-> Idle(None, None)]

-----------------------------------------------------------------------------
(* What reviewers read.                                                      *)

\* load_review_audit_hashes.
CaseEvents(c) == chain.events[c]

\* list_cases: PageSize + 1 rows after the cursor, in queue order.
Queued(r, after) ==
  {c \in Cases : /\ cases[c] # None /\ << r, c >> \in Authorized
                 /\ \/ cases[c].state = "OPEN"
                    \/ cases[c].state = "CLAIMED" /\ cases[c].reviewer = r
                 /\ QueueRank[c] > after}

Rank(S, c) == Cardinality({d \in S : QueueRank[d] <= QueueRank[c]})

MutantLoadCases(r, after) ==          \* LIMIT page_size
  {c \in Queued(r, after) : Rank(Queued(r, after), c) <= PageSize}

LoadCases(r, after) ==
  {c \in Queued(r, after) : Rank(Queued(r, after), c) <= PageSize + 1}

\* list_queue: the page, and the cursor of its last item when rows are left.
ListQueue(r, after) ==
  LET loaded == LoadCases(r, after)
      visible == {c \in loaded : Rank(loaded, c) <= PageSize}
  IN  [items |-> visible,
       continuation |-> IF Cardinality(loaded) > PageSize
                        THEN {QueueRank[c] : c \in
                               {d \in visible : Rank(loaded, d) = PageSize}}
                        ELSE {}]

-----------------------------------------------------------------------------
(* The audit events of a transaction, and the triggers.                      *)

\* append_audit refuses another draft under a key, and the chain's head a
\* recorded_at before its own.
Appended(log) ==
  UNION {{log.events[c][i] : i \in DOMAIN log.events[c]} : c \in Cases}

AuditRefused(log, d) ==
  IF \E e \in Appended(log) : e.key = d.key
  THEN d \notin Appended(log)
  ELSE d.recorded_at < log.head

MutantAppendAudit(log, d) == log      \* the event is left out

AppendAudit(log, d) ==
  IF d \in Appended(log) THEN log
  ELSE [events |-> [log.events EXCEPT ![d.subject.id] = Append(@, d)],
        head |-> d.recorded_at]

\* guard_step34_review_case_transition: immutable fields, the clock, the
\* version and the edges.  Its child row is inserted just before.
Edges == {<< "OPEN", "CLAIMED" >>, << "CLAIMED", "IN_REVIEW" >>,
          << "IN_REVIEW", "RESOLVED" >>, << "IN_REVIEW", "ESCALATED" >>}

TransitionGuard(x, y) ==
  /\ y.id = x.id /\ y.created_at = x.created_at
  /\ y.updated_at >= x.updated_at
  /\ y.version = x.version + 1
  /\ << x.state, y.state >> \in Edges
  /\ x.state # "OPEN" => y.reviewer = x.reviewer

\* Appending d or, after the child row, moving x to y is refused.
WriteRefused(log, d, x, y) == AuditRefused(log, d) \/ ~ TransitionGuard(x, y)

UpdateCase(y) == [cases EXCEPT ![y.id] = y]

-----------------------------------------------------------------------------
(* Calls.                                                                    *)

\* The service reads the trusted clock and starts the transaction.
Send(a, q) ==
  /\ calls[a].pc = "idle"
  /\ requests < MaxRequests /\ requests' = requests + 1
  /\ calls' = [calls EXCEPT ![a] =
       [pc |-> "sent", request |-> q, now |-> clock, receipt |-> None]]
  /\ UNCHANGED << clock, tables >>

\* What an actor can send again: its last request, and those that took effect.
SentBy(a) ==
  LET effective == {row.request : row \in claims \cup decisions \cup handoffs}
  IN  ({calls[a].request} \ {None})
        \cup {q \in effective : IF q.op = "handoff" THEN a \in Services ELSE q.by = a}

\* The sender repeats a request it has built: the answer was lost, or not.
Resend(a) ==
  /\ calls[a].pc = "idle"
  /\ \E q \in SentBy(a) :
       calls' = [calls EXCEPT ![a] =
         [pc |-> "sent", request |-> q, now |-> clock,
          receipt |-> IF q = calls[a].request THEN calls[a].receipt ELSE None]]
  /\ UNCHANGED << clock, tables, requests >>

Return(a, receipt) == calls' = [calls EXCEPT ![a] = Idle(@.request, receipt)]

\* The sender does not repeat a request that was refused.
Refuse(a) == /\ calls' = [calls EXCEPT ![a] = Idle(None, None)]
             /\ UNCHANGED << clock, tables, requests >>

\* The commit is durable; its acknowledgement arrives or not.
Acknowledge(a, receipt) ==
  Return(a, receipt) \/ Return(a, calls[a].receipt)

\* A durable row answers the request, or refuses another one under its identity.
Replay(a, refused, row) ==
  \/ refused /\ Refuse(a)
  \/ ~ refused /\ Return(a, row) /\ UNCHANGED << clock, tables, requests >>

ConnectionLost(a) == /\ calls[a].pc = "sent"
                     /\ Return(a, calls[a].receipt)
                     /\ UNCHANGED << clock, tables, requests >>

Requested(a, op) == calls[a].pc = "sent" /\ calls[a].request.op = op

-----------------------------------------------------------------------------
(* create_case.                                                              *)

RequestIntake(a) ==
  \E c \in Cases, t \in clock .. MaxTime :
    Send(a, [op |-> "intake", case |-> OpenReviewCase(c, t)])

IntakeDraft(q, now) == Draft(<< "case", q.case.id >>, q.case, now)

\* The event comes first, the row second: ON CONFLICT keeps the stored case.
CreateCase(a) ==
  LET q == calls[a].request
      now == calls[a].now
      d == IntakeDraft(q, now)
      refused == now < q.case.created_at \/ AuditRefused(chain, d)
  IN  /\ Requested(a, "intake")
      /\ \/ refused /\ Refuse(a)
         \/ /\ ~ refused
            /\ chain' = AppendAudit(chain, d)
            /\ cases' = IF cases[q.case.id] = None
                        THEN [cases EXCEPT ![q.case.id] = q.case] ELSE cases
            /\ Acknowledge(a, cases'[q.case.id])
            /\ UNCHANGED << clock, requests, claims, decisions, handoffs >>

-----------------------------------------------------------------------------
(* claim_case.                                                               *)

\* The request carries the OPEN case as the reviewer saw it in the queue.
RequestClaim(a) ==
  \E c \in Cases, k \in Keys, t \in clock .. MaxTime :
    /\ cases[c] # None
    /\ cases[c].state = "OPEN"
    /\ Send(a, [op |-> "claim", case |-> cases[c], by |-> a, key |-> k, at |-> t])

ClaimReplay(q) == {row \in claims : row.request.by = q.by /\ row.request.key = q.key}

ClaimRow(q, now) ==
  LET y == TransitionReviewCase(cases[q.case.id], "CLAIMED", now, q.by)
  IN  [request |-> q, case |-> y,
       event |-> Draft(<< "claim", q.by, q.key >>, y, now)]

MutantClaimReplayRefused(q, row) ==   \* the case must still be as it was claimed
  row.request # q \/ cases[q.case.id] # row.case

\* The case may have moved on, but not to another reviewer.
ClaimReplayRefused(q, row) ==
  LET x == cases[q.case.id]
  IN  \/ row.request # q
      \/ x.reviewer # row.request.by
      \/ x.version < 2
      \/ x.state = "CLAIMED" /\ x # row.case

ClaimRefused(q, row) ==
  LET x == cases[q.case.id]
  IN  \/ << q.by, x.id >> \notin Authorized
      \/ x # q.case
      \/ x.state # "OPEN"
      \/ WriteRefused(chain, row.event, x, row.case)
      \/ \E other \in claims : other.case.id = x.id

ClaimCase(a) ==
  LET q == calls[a].request
      now == calls[a].now
      new == ClaimRow(q, now)
  IN  /\ Requested(a, "claim")
      /\ \/ now < q.at /\ Refuse(a)
         \/ /\ now >= q.at
            /\ \E row \in ClaimReplay(q) : Replay(a, ClaimReplayRefused(q, row), row)
         \/ /\ now >= q.at /\ ClaimReplay(q) = {}
            /\ ClaimRefused(q, new)
            /\ Refuse(a)
         \/ /\ now >= q.at /\ ClaimReplay(q) = {}
            /\ ~ ClaimRefused(q, new)
            /\ claims' = claims \cup {new}
            /\ cases' = UpdateCase(new.case)
            /\ chain' = AppendAudit(chain, new.event)
            /\ Acknowledge(a, new)
            /\ UNCHANGED << clock, requests, decisions, handoffs >>

-----------------------------------------------------------------------------
(* record_decision.                                                          *)

AnswerDecisions == {"CONFIRMATION_REQUIRED", "ESCALATE", "REJECT_ANSWER",
                    "REQUEST_MORE_EVIDENCE"}
PromotionDecisions == {"ESCALATE", "REJECT_SHARED_PROMOTION",
                       "REQUEST_MORE_EVIDENCE", "REQUEST_REDACTION_CHANGES"}

AllowedDecisions(type) ==
  CASE type = "ANSWER_CONFIRMATION_REQUIRED" ->
         {"ALLOW_QUALIFIED_ANSWER", "ESCALATE", "REJECT_ANSWER"}
    [] type = "ANSWER_VERIFICATION_FAILURE" ->
         AnswerDecisions \cup {"ALLOW_QUALIFIED_ANSWER"}
    [] type \in {"ANSWER_CONFLICTING_EVIDENCE", "ANSWER_INSUFFICIENT_EVIDENCE",
                 "ANSWER_STALE_EVIDENCE"} -> AnswerDecisions
    [] type = "SHARED_MEMORY_PROMOTION" ->
         PromotionDecisions \cup {"APPROVE_SHARED_PROMOTION_CANDIDATE"}
    [] OTHER -> PromotionDecisions

\* get_detail, as it answers now and as it answered after each earlier step of
\* the case; a handoff's two events become visible together.
Details(c) ==
  LET trail == CaseEvents(c)
  IN  {[case |-> trail[i].subject, events |-> SubSeq(trail, 1, i)] :
         i \in {j \in DOMAIN trail : trail[j].key[1] # "handoff"}}

\* The command carries a detail that get_detail showed, possibly before the
\* reviewer claimed the case.
RequestDecision(a) ==
  \E c \in Cases, k \in Keys, t \in clock .. MaxTime, v \in Verdicts :
    \E detail \in Details(c) :
      /\ << a, c >> \in Authorized
      /\ Send(a, [op |-> "decision", case |-> detail.case, events |-> detail.events,
                  by |-> a, key |-> k, verdict |-> v, at |-> t])

DecisionReplay(q) ==
  {row \in decisions : row.request.by = q.by /\ row.request.key = q.key}

DecisionRow(q, now) ==
  LET y == TransitionReviewCase(cases[q.case.id], "IN_REVIEW", now, q.by)
  IN  [request |-> q, case |-> y,
       event |-> Draft(<< "decision", q.by, q.key >>, y, now)]

MutantDetailStands(q) ==              \* the detail is not compared
  /\ cases[q.case.id].state = "CLAIMED"
  /\ cases[q.case.id].reviewer = q.by

\* context_digest still is the detail, and build_review_decision accepts it.
DetailStands(q) ==
  /\ q.case = cases[q.case.id]
  /\ q.events = CaseEvents(q.case.id)
  /\ q.case.state = "CLAIMED"
  /\ q.case.reviewer = q.by

VerdictAllowed(q) ==
  /\ AuditVerified[q.case.id] \/ q.verdict = "ESCALATE"
  /\ q.verdict \in AllowedDecisions(CaseType[q.case.id])

DecisionRefused(q, row) ==
  LET x == cases[q.case.id]
  IN  \/ << q.by, x.id >> \notin Authorized
      \/ ~ DetailStands(q)
      \/ ~ VerdictAllowed(q)
      \/ WriteRefused(chain, row.event, x, row.case)
      \/ \E other \in decisions : other.case.id = x.id

RecordDecision(a) ==
  LET q == calls[a].request
      now == calls[a].now
      new == DecisionRow(q, now)
  IN  /\ Requested(a, "decision")
      /\ \/ now < q.at /\ Refuse(a)
         \/ /\ now >= q.at
            /\ \E row \in DecisionReplay(q) : Replay(a, row.request # q, row)
         \/ /\ now >= q.at /\ DecisionReplay(q) = {}
            /\ DecisionRefused(q, new)
            /\ Refuse(a)
         \/ /\ now >= q.at /\ DecisionReplay(q) = {}
            /\ ~ DecisionRefused(q, new)
            /\ decisions' = decisions \cup {new}
            /\ cases' = UpdateCase(new.case)
            /\ chain' = AppendAudit(chain, new.event)
            /\ Acknowledge(a, new)
            /\ UNCHANGED << clock, requests, claims, handoffs >>

-----------------------------------------------------------------------------
(* handoff.                                                                  *)

RequestHandoff(a) ==
  \E d \in decisions, k \in Keys, t \in clock .. MaxTime :
    Send(a, [op |-> "handoff", decision |-> d, key |-> k, at |-> t])

HandoffReplay(q) ==
  {row \in handoffs : /\ row.request.decision = q.decision
                      /\ row.request.key = q.key}

MutantTerminalState(d) == "RESOLVED"  \* the verdict is not looked at

TerminalState(d) ==
  IF d.request.verdict = "ESCALATE" THEN "ESCALATED" ELSE "RESOLVED"

\* The keys of both events come from the result, which binds the decision.
ResultKey(name, d) ==
  << name, d.request.by, d.request.key, d.request.verdict, d.request.case.id >>

HandoffRow(q, now) ==
  LET d == q.decision
      x == cases[d.case.id]
  IN  [request |-> q,
       case |-> TransitionReviewCase(x, TerminalState(d), now, d.request.by),
       event |-> Draft(ResultKey("handoff", d), x, now)]

TerminalDraft(row) ==
  Draft(ResultKey("terminal", row.request.decision), row.case, row.event.recorded_at)

HandoffReplayRefused(q, row) ==
  row.request # q \/ cases[q.decision.case.id] # row.case

\* current: whether the subject hash that the caller passes is the case's.
HandoffRefused(q, row, current) ==
  LET x == cases[q.decision.case.id]
  IN  \/ q.decision \notin decisions
      \/ x.state # "IN_REVIEW"
      \/ x # q.decision.case
      \/ ~ current
      \/ AuditRefused(chain, row.event)
      \/ WriteRefused(AppendAudit(chain, row.event), TerminalDraft(row), x, row.case)
      \/ \E other \in handoffs : other.case.id = x.id

HandOff(a, current) ==
  LET q == calls[a].request
      now == calls[a].now
      new == HandoffRow(q, now)
  IN  /\ Requested(a, "handoff")
      /\ \/ now < q.at /\ Refuse(a)
         \/ /\ now >= q.at
            /\ \E row \in HandoffReplay(q) :
                 Replay(a, HandoffReplayRefused(q, row), row)
         \/ /\ now >= q.at /\ HandoffReplay(q) = {}
            /\ HandoffRefused(q, new, current)
            /\ Refuse(a)
         \/ /\ now >= q.at /\ HandoffReplay(q) = {}
            /\ ~ HandoffRefused(q, new, current)
            /\ handoffs' = handoffs \cup {new}
            /\ cases' = UpdateCase(new.case)
            /\ chain' = AppendAudit(AppendAudit(chain, new.event), TerminalDraft(new))
            /\ Acknowledge(a, new)
            /\ UNCHANGED << clock, requests, claims, decisions >>

-----------------------------------------------------------------------------
ClockTick == /\ clock < MaxTime
             /\ clock' = clock + 1
             /\ UNCHANGED << tables, calls, requests >>

ServiceStep(s) == \/ RequestIntake(s) \/ CreateCase(s)
                  \/ RequestHandoff(s) \/ \E b \in BOOLEAN : HandOff(s, b)

ReviewerStep(r) == \/ RequestClaim(r) \/ ClaimCase(r)
                   \/ RequestDecision(r) \/ RecordDecision(r)

Next == \/ ClockTick
        \/ \E s \in Services : ServiceStep(s)
        \/ \E r \in Reviewers : ReviewerStep(r)
        \/ \E a \in Actors : Resend(a) \/ ConnectionLost(a)

Spec == Init /\ [][Next]_reviewVars

-----------------------------------------------------------------------------
(* Properties.                                                               *)

ReviewTypeOK ==
  /\ clock \in Times /\ requests \in 0 .. MaxRequests
  /\ cases \in [Cases -> HumanReviewCase \cup {None}]
  /\ claims \subseteq Claim
  /\ decisions \subseteq Decision
  /\ handoffs \subseteq Handoff
  /\ chain \in AuditChain
  /\ calls \in [Actors -> Call]

Of(rows, c) == {row \in rows : row.case.id = c}
Reached(c, version) == cases[c] # None /\ cases[c].version >= version

\* A case, its claim, its decision and its handoff are one lineage: each row
\* exists exactly from its step on, starts from the case as the row before left
\* it, belongs to the claimant, and the last of them made the case what it is
\* (the locks, compare-and-sets, unique indexes and triggers of the three
\* transactions together).
LineageIntact ==
  \A c \in Cases :
    /\ Reached(c, 2) <=> Of(claims, c) # {}
    /\ Reached(c, 3) <=> Of(decisions, c) # {}
    /\ Reached(c, 4) <=> Of(handoffs, c) # {}
    /\ \A p \in Of(claims, c) :
         /\ Of(claims, c) = {p}
         /\ p.request.case = OpenReviewCase(c, cases[c].created_at)
         /\ cases[c].reviewer = p.request.by
         /\ cases[c].version = 2 => cases[c] = p.case
         /\ \A d \in Of(decisions, c) :
              /\ Of(decisions, c) = {d}
              /\ d.request.case = p.case /\ d.request.by = p.request.by
              /\ cases[c].version = 3 => cases[c] = d.case
              /\ \A h \in Of(handoffs, c) :
                   /\ Of(handoffs, c) = {h}
                   /\ h.request.decision = d
                   /\ cases[c] = h.case

\* The audit trail of a case tells its lifecycle: the events on the owner's
\* chain are exactly those of the steps taken, in their order, and each names
\* the case as that step made it (append_audit in the same transaction).
StepNames == << "case", "claim", "decision", "handoff", "terminal" >>
StepStates(x) == << "OPEN", "CLAIMED", "IN_REVIEW", "IN_REVIEW", x.state >>

TrailMirrorsLifecycle ==
  \A c \in Cases :
    LET trail == CaseEvents(c)
    IN  /\ cases[c] = None => trail = << >>
        /\ cases[c] # None =>
             /\ Len(trail) = IF cases[c].version = 4 THEN 5 ELSE cases[c].version
             /\ \A i \in 1 .. Len(trail) :
                  /\ trail[i].key[1] = StepNames[i]
                  /\ trail[i].subject.state = StepStates(cases[c])[i]
             /\ trail[Len(trail)].subject = cases[c]
             /\ \A row \in Of(claims \cup decisions \cup handoffs, c) :
                  \E i \in 1 .. Len(trail) : trail[i] = row.event

\* The rows of a case and its audit trail agree: each case has one lineage, and
\* the chain tells it step by step.
RecordsAgree == ReviewTypeOK /\ LineageIntact /\ TrailMirrorsLifecycle

\* A decision stands on what its reviewer was shown: the detail in the command
\* is the case and the trail right before the decision, whatever happened
\* between the reading and the commit (the context digest of record_decision).
DecidedOnWhatWasSeen ==
  \A d \in decisions :
    \E i \in DOMAIN CaseEvents(d.case.id) :
      /\ CaseEvents(d.case.id)[i] = d.event
      /\ d.request.events = SubSeq(CaseEvents(d.case.id), 1, i - 1)
      /\ d.request.case = CaseEvents(d.case.id)[i - 1].subject

\* "Exact replay returns the same receipt": once the row of a request is
\* durable, that request, sent at a reading of the clock not before its date, is
\* answered with this row however far the case has moved on, and never with an
\* error (the replay branches of claim_case, record_decision and handoff).
ReplaysAreAnswered ==
  [][\A a \in Actors : \A row \in claims \cup decisions \cup handoffs :
       (/\ calls[a].pc = "sent" /\ calls'[a].pc = "idle"
        /\ row.request = calls[a].request /\ calls[a].now >= row.request.at)
         => /\ calls'[a].request = row.request
            /\ calls'[a].receipt \in {row, calls[a].receipt}]_reviewVars

\* Whatever cursor a reviewer continues from, the page and the rows behind its
\* continuation are the rest of his queue, without loss or repetition, and a
\* page with a continuation shows something (page_size + 1 rows, the keyset of
\* list_cases): page by page he is shown each case once.
PagesShowTheQueue ==
  \A r \in Reviewers : \A after \in {-1} \cup {QueueRank[c] : c \in Cases} :
    LET page == ListQueue(r, after)
        rest == UNION {Queued(r, cursor) : cursor \in page.continuation}
    IN  /\ page.items \cup rest = Queued(r, after)
        /\ page.items \cap rest = {}
        /\ Cardinality(page.items) <= PageSize
        /\ page.continuation # {} => page.items # {}

OnlyRow(rows) == CHOOSE row \in rows : TRUE
Lifecycle == INSTANCE ReviewLifecycle WITH
  Undecided <- None,
  stage <- [c \in Cases |-> IF cases[c] = None THEN "NONE" ELSE cases[c].state],
  claimant <- [c \in Cases |-> IF Of(claims, c) = {} THEN None
                               ELSE OnlyRow(Of(claims, c)).request.by],
  verdict <- [c \in Cases |-> IF Of(decisions, c) = {} THEN None
                              ELSE OnlyRow(Of(decisions, c)).request.verdict],
  NoOne <- None

\* Read off the case rows, the claims and the decisions, the workspace goes
\* through the lifecycle: one claimant, one decision by the claimant, one end
\* that the decision determines.
ImplementsLifecycle == Lifecycle!LifecycleSpec
=============================================================================
