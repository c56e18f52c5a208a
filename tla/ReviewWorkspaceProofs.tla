----------------------- MODULE ReviewWorkspaceProofs -----------------------
(* Proofs about ReviewWorkspace, for any cases, reviewers, services, keys,   *)
(* verdicts and authorizations, and any bounds.                              *)
(*                                                                           *)
(* ReviewInv is the inductive invariant.  All that the tables and the chain  *)
(* say of one case is one predicate, CaseStory, of its row, its child rows   *)
(* and its events, so that a transaction on one case is a fact about their   *)
(* values and leaves every other case as it was.  A step moves at most one   *)
(* call and makes at most one of the four writes (TablesMove).               *)
EXTENDS ReviewWorkspace, SequenceTheorems, InductionLemmas

-----------------------------------------------------------------------------

\* What the case row x of c, its claims P, decisions D and handoffs H and its
\* events T say together.
CaseStory(c, x, P, D, H, T) ==
  /\ x = None => P = {} /\ D = {} /\ H = {} /\ T = << >>
  /\ x # None =>
       /\ x.id = c /\ x.version = Version(x.state)
       /\ x.state = "OPEN" => x = OpenReviewCase(c, x.created_at)
       /\ Len(T) = IF x.version = 4 THEN 5 ELSE x.version
       /\ T[1].key = << "case", c >>
       /\ T[1].subject = OpenReviewCase(c, x.created_at)
       /\ T[Len(T)].subject = x
       /\ x.version >= 2 <=> P # {}
       /\ x.version >= 3 <=> D # {}
       /\ x.version >= 4 <=> H # {}
  /\ \A p \in P :
       /\ P = {p}
       /\ p.request.case = OpenReviewCase(c, x.created_at)
       /\ p.request.by = x.reviewer
       /\ p.case.state = "CLAIMED"
       /\ x.version = 2 => x = p.case
       /\ T[2] = p.event /\ p.event.key[1] = "claim" /\ p.event.subject = p.case
       /\ \A d \in D : d.request.case = p.case /\ d.request.by = p.request.by
  /\ \A d \in D :
       /\ D = {d}
       /\ d.case.state = "IN_REVIEW"
       /\ x.version = 3 => x = d.case
       /\ T[3] = d.event /\ d.event.key[1] = "decision" /\ d.event.subject = d.case
       /\ d.request.events = SubSeq(T, 1, 2)
       /\ \A h \in H : h.request.decision = d
  /\ \A h \in H :
       /\ H = {h}
       /\ x = h.case
       /\ x.state = TerminalState(h.request.decision)
       /\ T[4] = h.event /\ h.event.key[1] = "handoff"
       /\ h.event.subject.state = "IN_REVIEW"
       /\ T[5].key[1] = "terminal"

Story(c) == CaseStory(c, cases[c], Of(claims, c), Of(decisions, c), Of(handoffs, c),
                      CaseEvents(c))

\* A chain keeps the events of a case under that case.
Filed(log) ==
  \A c \in Cases : \A i \in DOMAIN log.events[c] : log.events[c][i].subject.id = c

\* A row is about the case that its request is about.
RowsFiled == /\ \A p \in claims : p.case.id = p.request.case.id
             /\ \A d \in decisions : d.case.id = d.request.case.id
             /\ \A h \in handoffs : h.case.id = h.request.decision.case.id

\* One claim and one decision for each replay identity.
IdentitiesUnique ==
  /\ \A p, q \in claims :
       p.request.by = q.request.by /\ p.request.key = q.request.key => p = q
  /\ \A p, q \in decisions :
       p.request.by = q.request.by /\ p.request.key = q.request.key => p = q

KnownRequest(q) ==
  /\ q \in Request
  /\ q.op = "intake" => q.case = OpenReviewCase(q.case.id, q.case.created_at)

CallKnown(k) == /\ k.request = None \/ KnownRequest(k.request)
                /\ k.pc = "sent" => KnownRequest(k.request)

CallsKnown == \A a \in Actors : CallKnown(calls[a])

ReviewInv == /\ ReviewTypeOK
             /\ \A c \in Cases : Story(c)
             /\ Filed(chain) /\ RowsFiled /\ IdentitiesUnique
             /\ CallsKnown

-----------------------------------------------------------------------------
(* Records.                                                                  *)

LEMMA RequestKinds ==
    ASSUME NEW q \in Request
    PROVE  /\ q.op = "intake" => q \in IntakeRequest
           /\ q.op = "claim" => q \in ClaimRequest
           /\ q.op = "decision" => q \in DecisionRequest
           /\ q.op = "handoff" => q \in HandoffRequest
BY DEF Request, IntakeRequest, ClaimRequest, DecisionRequest, HandoffRequest

LEMMA VersionOfState ==
    /\ Version("OPEN") = 1 /\ Version("CLAIMED") = 2 /\ Version("IN_REVIEW") = 3
    /\ Version("RESOLVED") = 4 /\ Version("ESCALATED") = 4
BY DEF Version

LEMMA VersionsOfStates ==
    ASSUME NEW state \in ReviewState
    PROVE  /\ Version(state) \in 1 .. 4
           /\ Version(state) = 1 <=> state = "OPEN"
           /\ Version(state) = 2 <=> state = "CLAIMED"
           /\ Version(state) = 3 <=> state = "IN_REVIEW"
           /\ Version(state) = 4 <=> state \in {"RESOLVED", "ESCALATED"}
BY VersionOfState DEF ReviewState

LEMMA CaseRow ==
    ASSUME NEW c \in Cases, NEW t \in Times, NEW u \in Times,
           NEW state \in ReviewState, NEW r \in Reviewers \cup {None}
    PROVE  [id |-> c, created_at |-> t, updated_at |-> u, state |-> state,
            version |-> Version(state), reviewer |-> r] \in HumanReviewCase
BY VersionsOfStates DEF HumanReviewCase

LEMMA OpenedCase ==
    ASSUME NEW c \in Cases, NEW t \in Times
    PROVE  /\ OpenReviewCase(c, t) \in HumanReviewCase
           /\ OpenReviewCase(c, t).id = c
           /\ OpenReviewCase(c, t).created_at = t
           /\ OpenReviewCase(c, t).state = "OPEN"
           /\ OpenReviewCase(c, t).version = 1
BY DEF OpenReviewCase, HumanReviewCase, ReviewState

LEMMA MovedCase ==
    ASSUME NEW x \in HumanReviewCase, NEW state \in ReviewState, NEW t \in Times,
           NEW r \in Reviewers
    PROVE  LET y == TransitionReviewCase(x, state, t, r)
           IN  /\ y \in HumanReviewCase
               /\ y.id = x.id /\ y.created_at = x.created_at
               /\ y.state = state /\ y.version = Version(state)
               /\ y.updated_at = t /\ y.reviewer = r
<1> DEFINE y == TransitionReviewCase(x, state, t, r)
<1>1. y = [id |-> x.id, created_at |-> x.created_at, updated_at |-> t, state |-> state,
           version |-> Version(state), reviewer |-> r]
  <2>1. x = [id |-> x.id, created_at |-> x.created_at, updated_at |-> x.updated_at,
             state |-> x.state, version |-> x.version, reviewer |-> x.reviewer]
    BY DEF HumanReviewCase
  <2> DEFINE v == Version(state)
  <2>2. y = [x EXCEPT !.state = state, !.version = v, !.updated_at = t, !.reviewer = r]
    BY DEF TransitionReviewCase
  <2> HIDE DEF y, v
  <2>3. y = [id |-> x.id, created_at |-> x.created_at, updated_at |-> t, state |-> state,
             version |-> v, reviewer |-> r]
    BY <2>1, <2>2
  <2> QED
    BY <2>3 DEF v
<1>2. x.id \in Cases /\ x.created_at \in Times
  BY DEF HumanReviewCase
<1>3. y \in HumanReviewCase
  BY <1>1, <1>2, CaseRow
<1> QED
  BY <1>1, <1>3

LEMMA DraftRow ==
    ASSUME NEW key \in AuditKey, NEW x \in HumanReviewCase, NEW t \in Times
    PROVE  Draft(key, x, t) \in AuditDraft
BY DEF Draft, AuditDraft

\* A fresh event is filed under its case and nowhere else.
LEMMA FreshEvent ==
    ASSUME NEW log \in AuditChain, Filed(log), NEW d \in AuditDraft,
           NEW c \in Cases, d.subject.id = c,
           \A i \in DOMAIN log.events[c] : log.events[c][i] # d
    PROVE  /\ AppendAudit(log, d) \in AuditChain
           /\ Filed(AppendAudit(log, d))
           /\ AppendAudit(log, d).events[c] = Append(log.events[c], d)
           /\ \A b \in Cases \ {c} : AppendAudit(log, d).events[b] = log.events[b]
<1>1. d \notin Appended(log)
  BY DEF Appended, Filed
<1>2. AppendAudit(log, d) =
        [events |-> [log.events EXCEPT ![c] = Append(@, d)], head |-> d.recorded_at]
  BY <1>1 DEF AppendAudit
<1>3. /\ log.events \in [Cases -> Seq(AuditDraft)] /\ d.recorded_at \in Times
      /\ log.events[c] \in Seq(AuditDraft)
  BY DEF AuditChain, AuditDraft
<1>4. Append(log.events[c], d) \in Seq(AuditDraft)
  BY <1>3
<1>5. \A i \in DOMAIN Append(log.events[c], d) : Append(log.events[c], d)[i].subject.id = c
  BY <1>3 DEF Filed
<1>6. AppendAudit(log, d).events[c] = Append(log.events[c], d)
  BY <1>2, <1>3
<1>7. \A b \in Cases \ {c} : AppendAudit(log, d).events[b] = log.events[b]
  BY <1>2, <1>3
<1>8. AppendAudit(log, d) \in AuditChain
  BY <1>2, <1>3, <1>4 DEF AuditChain
<1>9. Filed(AppendAudit(log, d))
  BY SMTT(30), <1>5, <1>6, <1>7 DEF Filed
<1> QED
  BY <1>6, <1>7, <1>8, <1>9

-----------------------------------------------------------------------------
(* The four writes, as facts about the values that speak of their case.      *)

LEMMA PrefixKept ==
    ASSUME NEW T \in Seq(AuditDraft), NEW e \in AuditDraft, NEW n \in 0 .. Len(T)
    PROVE  SubSeq(Append(T, e), 1, n) = SubSeq(T, 1, n)
<1>1. /\ Append(T, e) \in Seq(AuditDraft) /\ Len(Append(T, e)) = Len(T) + 1
      /\ \A i \in 1 .. Len(T) : Append(T, e)[i] = T[i]
  BY AppendProperties
<1>2. Len(T) \in Nat
  OBVIOUS
<1>3. \A i \in 1 .. n : i \in 1 .. Len(T)
  BY <1>2
<1>4. n = 0 => SubSeq(Append(T, e), 1, n) = << >> /\ SubSeq(T, 1, n) = << >>
  BY <1>1
<1>5. ASSUME n # 0 PROVE SubSeq(Append(T, e), 1, n) = SubSeq(T, 1, n)
  <2>1. 1 \in 1 .. Len(T) + 1 /\ n \in 0 .. Len(T) + 1 /\ 1 \in 1 .. Len(T)
    BY <1>2, <1>5
  <2>2. /\ SubSeq(T, 1, n) \in Seq(AuditDraft) /\ Len(SubSeq(T, 1, n)) = n
        /\ \A i \in 1 .. n : SubSeq(T, 1, n)[i] = T[i]
    BY <1>2, <1>3, <1>5, <2>1
  <2>3. /\ SubSeq(Append(T, e), 1, n) \in Seq(AuditDraft)
        /\ Len(SubSeq(Append(T, e), 1, n)) = n
        /\ \A i \in 1 .. n : SubSeq(Append(T, e), 1, n)[i] = T[i]
    BY <1>1, <1>2, <1>3, <1>5, <2>1
  <2> QED
    BY <2>2, <2>3, SeqEqual
<1> QED
  BY <1>4, <1>5

LEMMA EventAppended ==
    ASSUME NEW T \in Seq(AuditDraft), NEW e \in AuditDraft, NEW n \in Nat, Len(T) = n
    PROVE  /\ Append(T, e) \in Seq(AuditDraft) /\ Len(Append(T, e)) = n + 1
           /\ \A i \in 1 .. n : Append(T, e)[i] = T[i]
           /\ Append(T, e)[n + 1] = e
BY AppendProperties

LEMMA OpenedStory ==
    ASSUME NEW c \in Cases, NEW t \in Times, NEW e \in AuditDraft,
           e.key = << "case", c >>, e.subject = OpenReviewCase(c, t)
    PROVE  CaseStory(c, OpenReviewCase(c, t), {}, {}, {}, Append(<< >>, e))
<1> DEFINE T == Append(<< >>, e)
<1>1. Len(T) = 1 /\ T[1] = e
  OBVIOUS
<1>2. OpenReviewCase(c, t) # None
  BY OpenedCase, NoCaseIsNone
<1> HIDE DEF T
<1>3. CaseStory(c, OpenReviewCase(c, t), {}, {}, {}, T)
  BY <1>1, <1>2, OpenedCase, VersionOfState DEF CaseStory
<1> QED
  BY <1>3 DEF T

\* What a claim, and what a decision, adds to the story of an open, or of a
\* claimed, case.
Claims(x, p) ==
  /\ p.request.case = x
  /\ p.case.state = "CLAIMED" /\ p.case.version = 2
  /\ p.case.id = x.id /\ p.case.created_at = x.created_at
  /\ p.case.reviewer = p.request.by
  /\ p.event.key[1] = "claim" /\ p.event.subject = p.case

Decides(x, T, d) ==
  /\ d.request.case = x /\ d.request.events = T /\ d.request.by = x.reviewer
  /\ d.case.state = "IN_REVIEW" /\ d.case.version = 3
  /\ d.case.id = x.id /\ d.case.created_at = x.created_at
  /\ d.case.reviewer = x.reviewer
  /\ d.event.key[1] = "decision" /\ d.event.subject = d.case

Closes(x, h, g) ==
  /\ h.case.state = TerminalState(h.request.decision) /\ h.case.version = 4
  /\ h.case.id = x.id /\ h.case.created_at = x.created_at
  /\ h.case.reviewer = x.reviewer
  /\ h.event.key[1] = "handoff" /\ h.event.subject = x
  /\ g.key[1] = "terminal" /\ g.subject = h.case

LEMMA ClaimedStory ==
    ASSUME NEW c \in Cases, NEW x \in HumanReviewCase, x.state = "OPEN",
           NEW P, NEW D, NEW H, NEW T \in Seq(AuditDraft), CaseStory(c, x, P, D, H, T),
           NEW p \in Claim, Claims(x, p)
    PROVE  /\ P = {} /\ D = {} /\ H = {} /\ Len(T) = 1
           /\ CaseStory(c, p.case, {p}, {}, {}, Append(T, p.event))
<1>1. x # None /\ p.case # None /\ p.event \in AuditDraft /\ x.version = 1
  BY NoCaseIsNone, VersionOfState DEF Claim, CaseStory
<1>2. P = {} /\ D = {} /\ H = {} /\ Len(T) = 1
  BY <1>1 DEF CaseStory
<1> DEFINE U == Append(T, p.event)
<1>3. Len(U) = 2 /\ U[1] = T[1] /\ U[2] = p.event
  <2>1. /\ U \in Seq(AuditDraft) /\ Len(U) = 1 + 1
        /\ \A i \in 1 .. 1 : U[i] = T[i]
        /\ U[1 + 1] = p.event
    BY ONLY <1>1, <1>2, EventAppended, T \in Seq(AuditDraft), 1 \in Nat
  <2> QED
    BY ONLY <2>1
<1> HIDE DEF U
<1>4. /\ p.case.id = c /\ p.case.version = Version(p.case.state)
      /\ p.request.case = OpenReviewCase(c, p.case.created_at)
      /\ U[1].key = << "case", c >>
      /\ U[1].subject = OpenReviewCase(c, p.case.created_at)
  BY <1>1, <1>3, VersionOfState DEF CaseStory, Claims
<1>5. CaseStory(c, p.case, {p}, {}, {}, U)
  BY <1>1, <1>3, <1>4 DEF CaseStory, Claims
<1> QED
  BY <1>2, <1>5 DEF U

LEMMA DecidedStory ==
    ASSUME NEW c \in Cases, NEW x \in HumanReviewCase, x.state = "CLAIMED",
           NEW P, NEW D, NEW H, NEW T \in Seq(AuditDraft), CaseStory(c, x, P, D, H, T),
           NEW d \in Decision, Decides(x, T, d)
    PROVE  /\ D = {} /\ H = {} /\ Len(T) = 2
           /\ CaseStory(c, d.case, P, {d}, {}, Append(T, d.event))
<1>1. x # None /\ d.case # None /\ d.event \in AuditDraft /\ x.version = 2
  BY NoCaseIsNone, VersionOfState DEF Decision, CaseStory
<1>2. P # {} /\ D = {} /\ H = {} /\ Len(T) = 2
  BY <1>1 DEF CaseStory
<1> DEFINE U == Append(T, d.event)
<1>3. Len(U) = 3 /\ U[1] = T[1] /\ U[2] = T[2] /\ U[3] = d.event
  <2>1. /\ U \in Seq(AuditDraft) /\ Len(U) = 2 + 1
        /\ \A i \in 1 .. 2 : U[i] = T[i]
        /\ U[2 + 1] = d.event
    BY ONLY SMTT(30), <1>1, <1>2, EventAppended, T \in Seq(AuditDraft), 2 \in Nat
  <2> QED
    BY ONLY <2>1
<1>4. d.request.events = SubSeq(U, 1, 2)
  <2>1. SubSeq(U, 1, 2) = SubSeq(T, 1, 2)
    <3>1. 2 \in 0 .. Len(T)
      BY <1>2
    <3> QED
      BY ONLY <1>1, <3>1, PrefixKept, T \in Seq(AuditDraft)
  <2>2. SubSeq(T, 1, 2) = T
    BY <1>2, SubSeqFull
  <2> QED
    BY <2>1, <2>2 DEF Decides
<1> HIDE DEF U
<1>5. /\ d.case.id = c /\ d.case.version = Version(d.case.state)
      /\ U[1].key = << "case", c >>
      /\ U[1].subject = OpenReviewCase(c, d.case.created_at)
  BY <1>1, <1>3, VersionOfState DEF CaseStory, Decides
<1>6. \A p \in P :
        /\ P = {p}
        /\ p.request.case = OpenReviewCase(c, d.case.created_at)
        /\ p.request.by = d.case.reviewer
        /\ p.case.state = "CLAIMED"
        /\ U[2] = p.event /\ p.event.key[1] = "claim" /\ p.event.subject = p.case
        /\ d.request.case = p.case /\ d.request.by = p.request.by
  BY <1>1, <1>3 DEF CaseStory, Decides
<1>7. CaseStory(c, d.case, P, {d}, {}, U)
  BY <1>1, <1>2, <1>3, <1>4, <1>5, <1>6 DEF CaseStory, Decides
<1> QED
  BY <1>2, <1>7 DEF U

LEMMA ClosedStory ==
    ASSUME NEW c \in Cases, NEW x \in HumanReviewCase, x.state = "IN_REVIEW",
           NEW P, NEW D, NEW H, NEW T \in Seq(AuditDraft), CaseStory(c, x, P, D, H, T),
           NEW h \in Handoff, h.request.decision \in D,
           NEW g \in AuditDraft, Closes(x, h, g)
    PROVE  /\ H = {} /\ Len(T) = 3
           /\ CaseStory(c, h.case, P, D, {h}, Append(Append(T, h.event), g))
<1>1. x # None /\ h.case # None /\ h.event \in AuditDraft /\ x.version = 3
  BY NoCaseIsNone, VersionOfState DEF Handoff, CaseStory
<1>2. P # {} /\ D = {h.request.decision} /\ H = {} /\ Len(T) = 3
  BY <1>1 DEF CaseStory
<1> DEFINE V == Append(T, h.event)
           U == Append(V, g)
<1>3. /\ V \in Seq(AuditDraft) /\ Len(V) = 3 + 1
      /\ \A i \in 1 .. 3 : V[i] = T[i]
      /\ V[3 + 1] = h.event
  <2>1. h.event \in AuditDraft /\ Len(T) = 3
    BY <1>1, <1>2
  <2> QED
    BY ONLY <2>1, EventAppended, T \in Seq(AuditDraft), 3 \in Nat
<1>4. Len(U) = 5 /\ U[1] = T[1] /\ U[2] = T[2] /\ U[3] = T[3] /\ U[4] = h.event /\ U[5] = g
  <2>1. /\ U \in Seq(AuditDraft) /\ Len(U) = 4 + 1
        /\ \A i \in 1 .. 4 : U[i] = V[i]
        /\ U[4 + 1] = g
    <3>1. 3 + 1 = 4 /\ 4 \in Nat
      OBVIOUS
    <3> QED
      BY ONLY <1>3, <3>1, EventAppended, g \in AuditDraft
  <2> QED
    BY ONLY <1>3, <2>1
<1>5. SubSeq(U, 1, 2) = SubSeq(T, 1, 2)
  <2>1. SubSeq(U, 1, 2) = SubSeq(V, 1, 2)
    BY <1>3, PrefixKept
  <2>2. SubSeq(V, 1, 2) = SubSeq(T, 1, 2)
    BY <1>1, <1>2, PrefixKept
  <2> QED
    BY <2>1, <2>2
<1> HIDE DEF U, V
<1>6. /\ h.case.id = c /\ h.case.version = Version(h.case.state)
      /\ U[1].key = << "case", c >>
      /\ U[1].subject = OpenReviewCase(c, h.case.created_at)
      /\ h.case.state # "OPEN"
  BY <1>1, <1>4, VersionOfState DEF CaseStory, Closes, TerminalState
<1>7. \A p \in P :
        /\ P = {p}
        /\ p.request.case = OpenReviewCase(c, h.case.created_at)
        /\ p.request.by = h.case.reviewer
        /\ p.case.state = "CLAIMED"
        /\ U[2] = p.event /\ p.event.key[1] = "claim" /\ p.event.subject = p.case
        /\ \A d \in D : d.request.case = p.case /\ d.request.by = p.request.by
  BY <1>1, <1>4 DEF CaseStory, Closes
<1>8. \A d \in D :
        /\ D = {d}
        /\ d.case.state = "IN_REVIEW"
        /\ U[3] = d.event /\ d.event.key[1] = "decision" /\ d.event.subject = d.case
        /\ d.request.events = SubSeq(U, 1, 2)
        /\ h.request.decision = d
  BY <1>1, <1>2, <1>4, <1>5 DEF CaseStory
<1>9. CaseStory(c, h.case, P, D, {h}, U)
  BY <1>1, <1>2, <1>4, <1>6, <1>7, <1>8 DEF CaseStory, Closes
<1> QED
  BY <1>2, <1>9 DEF U, V

-----------------------------------------------------------------------------
(* The steps, as moves of the calls and of the tables.                       *)

Opens(q, now) ==
  /\ ~ AuditRefused(chain, IntakeDraft(q, now))
  /\ chain' = AppendAudit(chain, IntakeDraft(q, now))
  /\ cases' = IF cases[q.case.id] = None
              THEN [cases EXCEPT ![q.case.id] = q.case] ELSE cases
  /\ UNCHANGED << claims, decisions, handoffs >>

ClaimMade(q, now) ==
  LET new == ClaimRow(q, now)
  IN  /\ ClaimReplay(q) = {} /\ ~ ClaimRefused(q, new)
      /\ claims' = claims \cup {new}
      /\ cases' = UpdateCase(new.case)
      /\ chain' = AppendAudit(chain, new.event)
      /\ UNCHANGED << decisions, handoffs >>

DecisionMade(q, now) ==
  LET new == DecisionRow(q, now)
  IN  /\ DecisionReplay(q) = {} /\ ~ DecisionRefused(q, new)
      /\ decisions' = decisions \cup {new}
      /\ cases' = UpdateCase(new.case)
      /\ chain' = AppendAudit(chain, new.event)
      /\ UNCHANGED << claims, handoffs >>

HandoffMade(q, now, current) ==
  LET new == HandoffRow(q, now)
  IN  /\ ~ HandoffRefused(q, new, current)
      /\ handoffs' = handoffs \cup {new}
      /\ cases' = UpdateCase(new.case)
      /\ chain' = AppendAudit(AppendAudit(chain, new.event), TerminalDraft(new))
      /\ UNCHANGED << claims, decisions >>

TablesMove ==
  \/ UNCHANGED tables
  \/ \E q \in IntakeRequest, now \in Times :
       q.case = OpenReviewCase(q.case.id, q.case.created_at) /\ Opens(q, now)
  \/ \E q \in ClaimRequest, now \in Times : ClaimMade(q, now)
  \/ \E q \in DecisionRequest, now \in Times : DecisionMade(q, now)
  \/ \E q \in HandoffRequest, now \in Times, current \in BOOLEAN :
       HandoffMade(q, now, current)

CallMoves == \E a \in Actors, k \in Call : /\ calls' = [calls EXCEPT ![a] = k]
                                           /\ CallKnown(k)

LEMMA CallRow ==
    ASSUME NEW q \in Request \cup {None}, NEW now \in Times,
           NEW receipt \in Receipt \cup {None}, NEW pc \in {"idle", "sent"}
    PROVE  [pc |-> pc, request |-> q, now |-> now, receipt |-> receipt] \in Call
BY DEF Call

LEMMA CallColumns ==
    ASSUME ReviewInv, NEW a \in Actors
    PROVE  /\ calls[a].request \in Request \cup {None} /\ calls[a].now \in Times
           /\ calls[a].receipt \in Receipt \cup {None} /\ calls[a].pc \in {"idle", "sent"}
           /\ CallKnown(calls[a])
           /\ clock \in Times /\ 0 \in Times
BY ReviewAssumption DEF ReviewInv, ReviewTypeOK, CallsKnown, Call, Times

LEMMA SendMoves ==
    ASSUME ReviewInv, NEW a \in Actors, NEW q, KnownRequest(q), Send(a, q)
    PROVE  CallMoves /\ UNCHANGED << clock, tables >> /\ requests' \in 0 .. MaxRequests
<1> DEFINE k == [pc |-> "sent", request |-> q, now |-> clock, receipt |-> None]
<1>1. k \in Call
  BY CallColumns, CallRow DEF KnownRequest
<1>2. CallKnown(k)
  BY DEF CallKnown
<1>3. calls' = [calls EXCEPT ![a] = k] /\ UNCHANGED << clock, tables >>
  BY DEF Send
<1>4. requests' \in 0 .. MaxRequests
  BY ReviewAssumption DEF Send, ReviewInv, ReviewTypeOK
<1> QED
  BY <1>1, <1>2, <1>3, <1>4 DEF CallMoves

LEMMA ReturnMoves ==
    ASSUME ReviewInv, NEW a \in Actors, NEW receipt \in Receipt \cup {None},
           Return(a, receipt)
    PROVE  CallMoves
<1> DEFINE k == Idle(calls[a].request, receipt)
<1>1. k \in Call
  BY CallColumns, CallRow DEF Idle
<1>2. CallKnown(k)
  BY CallColumns DEF CallKnown, Idle
<1>3. calls' = [calls EXCEPT ![a] = k]
  BY CallColumns DEF Return, ReviewInv, ReviewTypeOK
<1> QED
  BY <1>1, <1>2, <1>3 DEF CallMoves

LEMMA RefuseMoves ==
    ASSUME ReviewInv, NEW a \in Actors, Refuse(a)
    PROVE  CallMoves /\ UNCHANGED << clock, tables, requests >>
<1> DEFINE k == Idle(None, None)
<1>1. k \in Call
  BY CallColumns, CallRow DEF Idle
<1>2. CallKnown(k)
  BY DEF CallKnown, Idle
<1>3. calls' = [calls EXCEPT ![a] = k] /\ UNCHANGED << clock, tables, requests >>
  BY DEF Refuse
<1> QED
  BY <1>1, <1>2, <1>3 DEF CallMoves

LEMMA ReplayMoves ==
    ASSUME ReviewInv, NEW a \in Actors, NEW refused \in BOOLEAN,
           NEW row \in Receipt \cup {None}, Replay(a, refused, row)
    PROVE  CallMoves /\ UNCHANGED << clock, tables, requests >>
BY RefuseMoves, ReturnMoves DEF Replay

LEMMA AcknowledgeMoves ==
    ASSUME ReviewInv, NEW a \in Actors, NEW receipt \in Receipt \cup {None},
           Acknowledge(a, receipt)
    PROVE  CallMoves
BY CallColumns, ReturnMoves DEF Acknowledge

\* What an actor sends again is a request like those it sent.
LEMMA SentIsKnown ==
    ASSUME ReviewInv, NEW a \in Actors, NEW q \in SentBy(a)
    PROVE  KnownRequest(q)
<1>1. CASE q \in {calls[a].request} \ {None}
  BY <1>1, CallColumns DEF CallKnown
<1>2. CASE q \in {row.request : row \in claims \cup decisions \cup handoffs}
  <2>1. PICK row \in claims \cup decisions \cup handoffs : q = row.request
    BY <1>2
  <2>2. /\ row \in claims => row \in Claim
        /\ row \in decisions => row \in Decision
        /\ row \in handoffs => row \in Handoff
    BY DEF ReviewInv, ReviewTypeOK
  <2>3. q \in ClaimRequest \/ q \in DecisionRequest \/ q \in HandoffRequest
    BY <2>1, <2>2 DEF Claim, Decision, Handoff
  <2> QED
    BY <2>3 DEF KnownRequest, Request, ClaimRequest, DecisionRequest, HandoffRequest
<1> QED
  BY <1>1, <1>2 DEF SentBy

LEMMA ResendMoves ==
    ASSUME ReviewInv, NEW a \in Actors, Resend(a)
    PROVE  CallMoves /\ UNCHANGED << clock, tables, requests >>
<1>1. PICK q \in SentBy(a) :
        calls' = [calls EXCEPT ![a] =
          [pc |-> "sent", request |-> q, now |-> clock,
           receipt |-> IF q = calls[a].request THEN calls[a].receipt ELSE None]]
  BY DEF Resend
<1> DEFINE k == [pc |-> "sent", request |-> q, now |-> clock,
                 receipt |-> IF q = calls[a].request THEN calls[a].receipt ELSE None]
<1>2. KnownRequest(q)
  BY SentIsKnown
<1>3. k \in Call
  BY <1>2, CallColumns, CallRow DEF KnownRequest
<1>4. CallKnown(k)
  BY <1>2 DEF CallKnown
<1> QED
  BY <1>1, <1>3, <1>4 DEF CallMoves, Resend

LEMMA ConnectionMoves ==
    ASSUME ReviewInv, NEW a \in Actors, ConnectionLost(a)
    PROVE  CallMoves /\ UNCHANGED << clock, tables, requests >>
BY CallColumns, ReturnMoves DEF ConnectionLost

-----------------------------------------------------------------------------
(* The rows that the transactions write.                                     *)

LEMMA ChainColumns ==
    ASSUME ReviewInv, NEW c \in Cases
    PROVE  /\ CaseEvents(c) \in Seq(AuditDraft)
           /\ chain \in AuditChain /\ Filed(chain)
           /\ cases[c] \in HumanReviewCase \cup {None}
           /\ Story(c)
BY DEF ReviewInv, ReviewTypeOK, AuditChain, CaseEvents

LEMMA ClaimIsMade ==
    ASSUME ReviewInv, NEW q \in ClaimRequest, NEW now \in Times,
           ~ ClaimRefused(q, ClaimRow(q, now))
    PROVE  /\ ClaimRow(q, now) \in Claim /\ q.case \in HumanReviewCase
           /\ q.case.id \in Cases /\ cases[q.case.id] = q.case /\ q.case.state = "OPEN"
           /\ Claims(q.case, ClaimRow(q, now))
           /\ ClaimRow(q, now).request = q
<1> DEFINE x == q.case
           y == TransitionReviewCase(x, "CLAIMED", now, q.by)
           e == Draft(<< "claim", q.by, q.key >>, y, now)
<1>1. /\ x \in HumanReviewCase /\ x.id \in Cases /\ q.by \in Reviewers /\ q.key \in Keys
  BY DEF ClaimRequest, HumanReviewCase
<1>2. cases[x.id] = x /\ x.state = "OPEN"
  BY DEF ClaimRefused
<1>3. ClaimRow(q, now) = [request |-> q, case |-> y, event |-> e]
  BY <1>2 DEF ClaimRow
<1>4. /\ y \in HumanReviewCase /\ y.id = x.id /\ y.created_at = x.created_at
      /\ y.state = "CLAIMED" /\ y.version = Version("CLAIMED") /\ y.reviewer = q.by
  BY <1>1, MovedCase DEF ReviewState
<1>5. e \in AuditDraft
  <2>1. << "claim", q.by, q.key >> \in AuditKey
    BY <1>1 DEF AuditKey
  <2> QED
    BY <1>4, <2>1, DraftRow
<1>6. e.key[1] = "claim" /\ e.subject = y
  BY DEF Draft
<1> HIDE DEF y, e
<1>7. ClaimRow(q, now) \in Claim
  BY <1>3, <1>4, <1>5 DEF Claim
<1>8. Claims(x, ClaimRow(q, now))
  BY <1>3, <1>4, <1>6, VersionOfState DEF Claims
<1> QED
  BY <1>1, <1>2, <1>3, <1>7, <1>8

LEMMA DecisionIsMade ==
    ASSUME ReviewInv, NEW q \in DecisionRequest, NEW now \in Times,
           ~ DecisionRefused(q, DecisionRow(q, now))
    PROVE  /\ DecisionRow(q, now) \in Decision /\ q.case \in HumanReviewCase
           /\ q.case.id \in Cases /\ cases[q.case.id] = q.case
           /\ q.case.state = "CLAIMED"
           /\ Decides(q.case, CaseEvents(q.case.id), DecisionRow(q, now))
           /\ DecisionRow(q, now).request = q
<1> DEFINE x == q.case
           y == TransitionReviewCase(x, "IN_REVIEW", now, q.by)
           e == Draft(<< "decision", q.by, q.key >>, y, now)
<1>1. /\ x \in HumanReviewCase /\ x.id \in Cases /\ q.by \in Reviewers /\ q.key \in Keys
  BY DEF DecisionRequest, HumanReviewCase
<1>2. /\ cases[x.id] = x /\ x.state = "CLAIMED" /\ x.reviewer = q.by
      /\ q.events = CaseEvents(x.id)
  BY DEF DecisionRefused, DetailStands
<1>3. DecisionRow(q, now) = [request |-> q, case |-> y, event |-> e]
  BY <1>2 DEF DecisionRow
<1>4. /\ y \in HumanReviewCase /\ y.id = x.id /\ y.created_at = x.created_at
      /\ y.state = "IN_REVIEW" /\ y.version = Version("IN_REVIEW") /\ y.reviewer = q.by
  BY <1>1, MovedCase DEF ReviewState
<1>5. e \in AuditDraft
  <2>1. << "decision", q.by, q.key >> \in AuditKey
    BY <1>1 DEF AuditKey
  <2> QED
    BY <1>4, <2>1, DraftRow
<1>6. e.key[1] = "decision" /\ e.subject = y
  BY DEF Draft
<1> HIDE DEF y, e
<1>7. DecisionRow(q, now) \in Decision
  BY <1>3, <1>4, <1>5 DEF Decision
<1>8. Decides(x, CaseEvents(x.id), DecisionRow(q, now))
  BY <1>2, <1>3, <1>4, <1>6, VersionOfState DEF Decides
<1> QED
  BY <1>1, <1>2, <1>3, <1>7, <1>8

LEMMA HandoffIsMade ==
    ASSUME ReviewInv, NEW q \in HandoffRequest, NEW now \in Times,
           NEW current \in BOOLEAN, ~ HandoffRefused(q, HandoffRow(q, now), current)
    PROVE  LET x == q.decision.case
               row == HandoffRow(q, now)
           IN  /\ row \in Handoff /\ TerminalDraft(row) \in AuditDraft
               /\ x \in HumanReviewCase /\ x.id \in Cases /\ cases[x.id] = x
               /\ x.state = "IN_REVIEW" /\ q.decision \in Of(decisions, x.id)
               /\ Closes(x, row, TerminalDraft(row))
               /\ row.request = q
<1> DEFINE d == q.decision
           x == d.case
           y == TransitionReviewCase(x, TerminalState(d), now, d.request.by)
           e == Draft(ResultKey("handoff", d), x, now)
           row == HandoffRow(q, now)
<1>1. /\ d \in Decision /\ x \in HumanReviewCase /\ x.id \in Cases
      /\ d.request.by \in Reviewers /\ d.request.key \in Keys
      /\ d.request.verdict \in Verdicts /\ d.request.case.id \in Cases
  BY DEF HandoffRequest, Decision, DecisionRequest, HumanReviewCase
<1>2. d \in decisions /\ cases[x.id] = x /\ x.state = "IN_REVIEW"
  BY DEF HandoffRefused
<1>3. row = [request |-> q, case |-> y, event |-> e]
  BY <1>2 DEF HandoffRow
<1>4. TerminalState(d) \in {"RESOLVED", "ESCALATED"}
  BY DEF TerminalState
<1>5. /\ y \in HumanReviewCase /\ y.id = x.id /\ y.created_at = x.created_at
      /\ y.state = TerminalState(d) /\ y.version = Version(TerminalState(d))
      /\ y.reviewer = d.request.by
  BY SMTT(30), <1>1, <1>4, MovedCase DEF ReviewState
<1>6. /\ ResultKey("handoff", d) \in AuditKey /\ ResultKey("terminal", d) \in AuditKey
      /\ ResultKey("handoff", d)[1] = "handoff" /\ ResultKey("terminal", d)[1] = "terminal"
  BY <1>1 DEF ResultKey, AuditKey
<1>7. e \in AuditDraft /\ e.key[1] = "handoff" /\ e.subject = x /\ e.recorded_at = now
  BY <1>1, <1>6, DraftRow DEF Draft
<1>8. x.reviewer = d.request.by
  <2>1. Story(x.id) /\ d \in Of(decisions, x.id) /\ x # None
    BY <1>1, <1>2, ChainColumns, NoCaseIsNone DEF Of
  <2>2. x.version = 3
    BY <2>1, <1>2, VersionOfState DEF Story, CaseStory
  <2>3. PICK p \in Of(claims, x.id) : TRUE
    BY <1>2, <2>1, <2>2 DEF Story, CaseStory
  <2> QED
    BY <1>2, <2>1, <2>3 DEF Story, CaseStory
<1> HIDE DEF y, e
<1>9. row \in Handoff
  BY <1>3, <1>5, <1>7 DEF Handoff
<1>10. /\ TerminalDraft(row) = Draft(ResultKey("terminal", d), y, now)
       /\ TerminalDraft(row) \in AuditDraft
       /\ TerminalDraft(row).key[1] = "terminal" /\ TerminalDraft(row).subject = y
  <2>1. TerminalDraft(row) = Draft(ResultKey("terminal", d), y, now)
    BY <1>3, <1>7 DEF TerminalDraft
  <2>2. Draft(ResultKey("terminal", d), y, now) \in AuditDraft
    BY <1>5, <1>6, DraftRow
  <2> QED
    BY <1>6, <2>1, <2>2 DEF Draft
<1>11. Closes(x, row, TerminalDraft(row))
  BY <1>3, <1>4, <1>5, <1>7, <1>8, <1>10, VersionOfState DEF Closes
<1> QED
  BY <1>1, <1>2, <1>3, <1>9, <1>10, <1>11 DEF Of

-----------------------------------------------------------------------------
(* Every step is such a move.                                                *)

Moves == /\ CallMoves /\ TablesMove
         /\ clock' \in Times /\ requests' \in 0 .. MaxRequests

LEMMA QuietMoves ==
    ASSUME ReviewInv, CallMoves, UNCHANGED << clock, tables, requests >>
    PROVE  Moves
BY DEF Moves, TablesMove, ReviewInv, ReviewTypeOK

LEMMA RequestedKind ==
    ASSUME ReviewInv, NEW a \in Actors, NEW op, Requested(a, op)
    PROVE  /\ KnownRequest(calls[a].request) /\ calls[a].request.op = op
           /\ calls[a].now \in Times
BY CallColumns DEF Requested, CallKnown

LEMMA DetailRows ==
    ASSUME ReviewInv, NEW c \in Cases, NEW detail \in Details(c)
    PROVE  detail.case \in HumanReviewCase /\ detail.events \in Seq(AuditDraft)
<1> DEFINE trail == CaseEvents(c)
<1>1. PICK i \in DOMAIN trail :
        detail = [case |-> trail[i].subject, events |-> SubSeq(trail, 1, i)]
  BY Zenon DEF Details
<1>2. trail \in Seq(AuditDraft)
  BY ChainColumns
<1> HIDE DEF trail
<1>3. trail[i] \in AuditDraft
  BY <1>2
<1>4. SubSeq(trail, 1, i) \in Seq(AuditDraft)
  <2>1. i \in 1 .. Len(trail)
    BY <1>2
  <2> QED
    BY ONLY <1>2, <2>1, SubSeqProperties, Len(trail) \in Nat
<1> QED
  BY <1>1, <1>3, <1>4 DEF AuditDraft

LEMMA RequestsMove ==
    ASSUME ReviewInv, NEW a \in Actors,
           RequestIntake(a) \/ RequestHandoff(a)
             \/ (a \in Reviewers /\ (RequestClaim(a) \/ RequestDecision(a)))
    PROVE  Moves
<1>1. SUFFICES ASSUME NEW q, KnownRequest(q), Send(a, q) PROVE Moves
  <2>1. ASSUME RequestIntake(a) PROVE \E q : KnownRequest(q) /\ Send(a, q)
    <3>1. PICK c \in Cases, t \in clock .. MaxTime :
            Send(a, [op |-> "intake", case |-> OpenReviewCase(c, t)])
      BY <2>1 DEF RequestIntake
    <3>2. t \in Times
      BY CallColumns, ReviewAssumption DEF Times
    <3>3. KnownRequest([op |-> "intake", case |-> OpenReviewCase(c, t)])
      BY <3>2, OpenedCase DEF KnownRequest, Request, IntakeRequest
    <3> QED
      BY <3>1, <3>3
  <2>2. ASSUME RequestHandoff(a) PROVE \E q : KnownRequest(q) /\ Send(a, q)
    <3>1. PICK d \in decisions, k \in Keys, t \in clock .. MaxTime :
            Send(a, [op |-> "handoff", decision |-> d, key |-> k, at |-> t])
      BY <2>2 DEF RequestHandoff
    <3>2. t \in Times /\ d \in Decision
      BY CallColumns, ReviewAssumption DEF Times, ReviewInv, ReviewTypeOK
    <3>3. KnownRequest([op |-> "handoff", decision |-> d, key |-> k, at |-> t])
      BY <3>2 DEF KnownRequest, Request, HandoffRequest
    <3> QED
      BY <3>1, <3>3
  <2>3. ASSUME a \in Reviewers, RequestClaim(a)
        PROVE  \E q : KnownRequest(q) /\ Send(a, q)
    <3>1. PICK c \in Cases, k \in Keys, t \in clock .. MaxTime :
            /\ cases[c] # None
            /\ Send(a, [op |-> "claim", case |-> cases[c], by |-> a, key |-> k, at |-> t])
      BY <2>3 DEF RequestClaim
    <3>2. t \in Times /\ cases[c] \in HumanReviewCase
      BY <3>1, CallColumns, ChainColumns, ReviewAssumption DEF Times
    <3>3. KnownRequest([op |-> "claim", case |-> cases[c], by |-> a, key |-> k, at |-> t])
      BY <2>3, <3>2 DEF KnownRequest, Request, ClaimRequest
    <3> QED
      BY <3>1, <3>3
  <2>4. ASSUME a \in Reviewers, RequestDecision(a)
        PROVE  \E q : KnownRequest(q) /\ Send(a, q)
    <3>0. PICK c \in Cases, k \in Keys, t \in clock .. MaxTime, v \in Verdicts :
            \E detail \in Details(c) :
              Send(a, [op |-> "decision", case |-> detail.case, events |-> detail.events,
                       by |-> a, key |-> k, verdict |-> v, at |-> t])
      BY <2>4 DEF RequestDecision
    <3>1. PICK detail \in Details(c) :
            Send(a, [op |-> "decision", case |-> detail.case, events |-> detail.events,
                     by |-> a, key |-> k, verdict |-> v, at |-> t])
      BY <3>0
    <3>2. t \in Times
      BY CallColumns, ReviewAssumption DEF Times
    <3>3. KnownRequest([op |-> "decision", case |-> detail.case,
                        events |-> detail.events,
                        by |-> a, key |-> k, verdict |-> v, at |-> t])
      BY <2>4, <3>2, DetailRows DEF KnownRequest, Request, DecisionRequest
    <3> QED
      BY <3>1, <3>3
  <2> QED
    BY <2>1, <2>2, <2>3, <2>4
<1>2. CallMoves /\ UNCHANGED << clock, tables >> /\ requests' \in 0 .. MaxRequests
  BY <1>1, SendMoves
<1> QED
  BY <1>2 DEF Moves, TablesMove, ReviewInv, ReviewTypeOK

LEMMA CreateCaseMoves ==
    ASSUME ReviewInv, NEW a \in Actors, CreateCase(a)
    PROVE  Moves
<1> DEFINE q == calls[a].request
           now == calls[a].now
<1>1. /\ q \in IntakeRequest /\ q.case = OpenReviewCase(q.case.id, q.case.created_at)
      /\ now \in Times
  BY RequestedKind, RequestKinds DEF CreateCase, KnownRequest
<1>2. CASE Refuse(a)
  BY <1>2, RefuseMoves, QuietMoves
<1>3. CASE /\ Opens(q, now)
           /\ Acknowledge(a, cases'[q.case.id])
           /\ UNCHANGED << clock, requests >>
  <2>1. q.case.id \in Cases /\ q.case \in HumanReviewCase
    BY <1>1 DEF IntakeRequest, HumanReviewCase
  <2>2. cases'[q.case.id] \in HumanReviewCase
    BY <1>3, <2>1 DEF Opens, ReviewInv, ReviewTypeOK
  <2>3. CallMoves
    BY <1>3, <2>2, AcknowledgeMoves DEF Receipt
  <2>4. TablesMove
    BY <1>1, <1>3 DEF TablesMove
  <2> QED
    BY <1>3, <2>3, <2>4 DEF Moves, ReviewInv, ReviewTypeOK
<1> QED
  BY <1>2, <1>3 DEF CreateCase, Opens

LEMMA ClaimCaseMoves ==
    ASSUME ReviewInv, NEW a \in Actors, ClaimCase(a)
    PROVE  Moves
<1> DEFINE q == calls[a].request
           now == calls[a].now
<1>1. q \in ClaimRequest /\ now \in Times
  BY RequestedKind, RequestKinds DEF ClaimCase, KnownRequest
<1>2. CASE Refuse(a)
  BY <1>2, RefuseMoves, QuietMoves
<1>3. CASE \E row \in ClaimReplay(q) : Replay(a, ClaimReplayRefused(q, row), row)
  <2>1. PICK row \in ClaimReplay(q) : Replay(a, ClaimReplayRefused(q, row), row)
    BY <1>3
  <2>2. row \in Receipt /\ ClaimReplayRefused(q, row) \in BOOLEAN
    BY DEF ClaimReplay, ReviewInv, ReviewTypeOK, Receipt, ClaimReplayRefused
  <2> QED
    BY <2>1, <2>2, ReplayMoves, QuietMoves
<1>4. CASE /\ ClaimMade(q, now)
           /\ Acknowledge(a, ClaimRow(q, now))
           /\ UNCHANGED << clock, requests >>
  <2>1. ClaimRow(q, now) \in Receipt
    BY <1>1, <1>4, ClaimIsMade DEF ClaimMade, Receipt
  <2>2. CallMoves
    BY <1>4, <2>1, AcknowledgeMoves
  <2>3. TablesMove
    BY <1>1, <1>4 DEF TablesMove
  <2> QED
    BY <1>4, <2>2, <2>3 DEF Moves, ReviewInv, ReviewTypeOK
<1> QED
  BY <1>2, <1>3, <1>4 DEF ClaimCase, ClaimMade

LEMMA RecordDecisionMoves ==
    ASSUME ReviewInv, NEW a \in Actors, RecordDecision(a)
    PROVE  Moves
<1> DEFINE q == calls[a].request
           now == calls[a].now
<1>1. q \in DecisionRequest /\ now \in Times
  BY RequestedKind, RequestKinds DEF RecordDecision, KnownRequest
<1>2. CASE Refuse(a)
  BY <1>2, RefuseMoves, QuietMoves
<1>3. CASE \E row \in DecisionReplay(q) : Replay(a, row.request # q, row)
  <2>1. PICK row \in DecisionReplay(q) : Replay(a, row.request # q, row)
    BY <1>3
  <2>2. row \in Receipt /\ (row.request # q) \in BOOLEAN
    BY DEF DecisionReplay, ReviewInv, ReviewTypeOK, Receipt
  <2> QED
    BY <2>1, <2>2, ReplayMoves, QuietMoves
<1>4. CASE /\ DecisionMade(q, now)
           /\ Acknowledge(a, DecisionRow(q, now))
           /\ UNCHANGED << clock, requests >>
  <2>1. DecisionRow(q, now) \in Receipt
    BY <1>1, <1>4, DecisionIsMade DEF DecisionMade, Receipt
  <2>2. CallMoves
    BY <1>4, <2>1, AcknowledgeMoves
  <2>3. TablesMove
    BY <1>1, <1>4 DEF TablesMove
  <2> QED
    BY <1>4, <2>2, <2>3 DEF Moves, ReviewInv, ReviewTypeOK
<1> QED
  BY <1>2, <1>3, <1>4 DEF RecordDecision, DecisionMade

LEMMA HandOffMoves ==
    ASSUME ReviewInv, NEW a \in Actors, NEW current \in BOOLEAN, HandOff(a, current)
    PROVE  Moves
<1> DEFINE q == calls[a].request
           now == calls[a].now
<1>1. q \in HandoffRequest /\ now \in Times
  BY RequestedKind, RequestKinds DEF HandOff, KnownRequest
<1>2. CASE Refuse(a)
  BY <1>2, RefuseMoves, QuietMoves
<1>3. CASE \E row \in HandoffReplay(q) : Replay(a, HandoffReplayRefused(q, row), row)
  <2>1. PICK row \in HandoffReplay(q) : Replay(a, HandoffReplayRefused(q, row), row)
    BY <1>3
  <2>2. row \in Receipt /\ HandoffReplayRefused(q, row) \in BOOLEAN
    BY DEF HandoffReplay, ReviewInv, ReviewTypeOK, Receipt, HandoffReplayRefused
  <2> QED
    BY <2>1, <2>2, ReplayMoves, QuietMoves
<1>4. CASE /\ HandoffMade(q, now, current)
           /\ Acknowledge(a, HandoffRow(q, now))
           /\ UNCHANGED << clock, requests >>
  <2>1. HandoffRow(q, now) \in Receipt
    BY <1>1, <1>4, HandoffIsMade DEF HandoffMade, Receipt
  <2>2. CallMoves
    BY <1>4, <2>1, AcknowledgeMoves
  <2>3. TablesMove
    BY <1>1, <1>4 DEF TablesMove
  <2> QED
    BY <1>4, <2>2, <2>3 DEF Moves, ReviewInv, ReviewTypeOK
<1> QED
  BY <1>2, <1>3, <1>4 DEF HandOff, HandoffMade

LEMMA StepMoves ==
    ASSUME ReviewInv, Next
    PROVE  \/ Moves
           \/ clock' \in Times /\ UNCHANGED << tables, calls, requests >>
<1>1. CASE ClockTick
  BY <1>1, ReviewAssumption, CallColumns DEF ClockTick, Times, ReviewInv, ReviewTypeOK
<1>2. CASE \E s \in Services : ServiceStep(s)
  <2>1. PICK s \in Services : ServiceStep(s)
    BY <1>2
  <2>2. s \in Actors
    BY DEF Actors
  <2> QED
    BY <2>1, <2>2, RequestsMove, CreateCaseMoves, HandOffMoves DEF ServiceStep
<1>3. CASE \E r \in Reviewers : ReviewerStep(r)
  <2>1. PICK r \in Reviewers : ReviewerStep(r)
    BY <1>3
  <2>2. r \in Actors
    BY DEF Actors
  <2> QED
    BY <2>1, <2>2, RequestsMove, ClaimCaseMoves, RecordDecisionMoves DEF ReviewerStep
<1>4. CASE \E a \in Actors : Resend(a) \/ ConnectionLost(a)
  BY <1>4, ResendMoves, ConnectionMoves, QuietMoves
<1> QED
  BY <1>1, <1>2, <1>3, <1>4 DEF Next

-----------------------------------------------------------------------------
(* The moves keep the invariant.                                             *)

TablesInv ==
  /\ cases \in [Cases -> HumanReviewCase \cup {None}]
  /\ claims \subseteq Claim /\ decisions \subseteq Decision /\ handoffs \subseteq Handoff
  /\ chain \in AuditChain
  /\ \A c \in Cases : Story(c)
  /\ Filed(chain) /\ RowsFiled /\ IdentitiesUnique

LEMMA InvParts ==
    ReviewInv <=> /\ TablesInv /\ CallsKnown
                  /\ clock \in Times /\ requests \in 0 .. MaxRequests
                  /\ calls \in [Actors -> Call]
BY DEF ReviewInv, TablesInv, ReviewTypeOK

LEMMA OpensKeep ==
    ASSUME ReviewInv, NEW q \in IntakeRequest, NEW now \in Times,
           q.case = OpenReviewCase(q.case.id, q.case.created_at), Opens(q, now)
    PROVE  TablesInv'
<1> DEFINE x == q.case
           c == x.id
           d == IntakeDraft(q, now)
<1>1. x \in HumanReviewCase /\ c \in Cases /\ x.created_at \in Times
  BY DEF IntakeRequest, HumanReviewCase
<1>2. /\ d \in AuditDraft /\ d.key = << "case", c >> /\ d.subject = x
  <2>1. << "case", c >> \in AuditKey
    BY <1>1 DEF AuditKey
  <2> QED
    BY <1>1, <2>1, DraftRow DEF IntakeDraft, Draft
<1>3. Story(c) /\ chain \in AuditChain /\ Filed(chain) /\ CaseEvents(c) \in Seq(AuditDraft)
  BY <1>1, ChainColumns
<1> HIDE DEF d
<1>4. CASE cases[c] # None
  <2>1. /\ CaseEvents(c)[1].key = << "case", c >> /\ 1 \in DOMAIN CaseEvents(c)
    <3>1. /\ Len(CaseEvents(c)) = IF cases[c].version = 4 THEN 5 ELSE cases[c].version
          /\ CaseEvents(c)[1].key = << "case", c >>
      BY <1>3, <1>4 DEF Story, CaseStory
    <3>2. cases[c].version \in 1 .. 4
      BY <1>1, <1>4, ChainColumns DEF HumanReviewCase
    <3>3. Len(CaseEvents(c)) >= 1
      BY <3>1, <3>2
    <3> QED
      BY <1>3, <3>1, <3>3
  <2>2. CaseEvents(c)[1] \in Appended(chain)
    BY <1>1, <2>1 DEF Appended, CaseEvents
  <2>3. d \in Appended(chain)
    BY <1>2, <2>1, <2>2 DEF Opens, AuditRefused, d
  <2>4. chain' = chain /\ cases' = cases
    BY <1>4, <2>3 DEF Opens, AppendAudit, d
  <2> QED
    BY <2>4, InvParts DEF Opens, TablesInv, Story, CaseEvents, Of, RowsFiled,
      IdentitiesUnique
<1>5. CASE cases[c] = None
  <2>1. /\ CaseEvents(c) = << >> /\ Of(claims, c) = {} /\ Of(decisions, c) = {}
        /\ Of(handoffs, c) = {}
    BY <1>3, <1>5 DEF Story, CaseStory
  <2>2. chain.events[c] = << >>
    BY <2>1 DEF CaseEvents
  <2>3. \A i \in DOMAIN chain.events[c] : chain.events[c][i] # d
    BY <2>2
  <2>4. /\ AppendAudit(chain, d) \in AuditChain /\ Filed(AppendAudit(chain, d))
        /\ AppendAudit(chain, d).events[c] = Append(chain.events[c], d)
        /\ \A b \in Cases \ {c} : AppendAudit(chain, d).events[b] = chain.events[b]
    <3>1. d.subject.id = c
      BY <1>2
    <3> QED
      BY ONLY <1>1, <1>2, <1>3, <2>3, <3>1, FreshEvent
  <2>5. chain' = AppendAudit(chain, d) /\ cases' = [cases EXCEPT ![c] = x]
    BY <1>5 DEF Opens, d
  <2>6. /\ cases' \in [Cases -> HumanReviewCase \cup {None}]
        /\ cases'[c] = x /\ \A b \in Cases \ {c} : cases'[b] = cases[b]
    BY <1>1, <2>5 DEF ReviewInv, ReviewTypeOK
  <2>7. /\ CaseEvents(c)' = Append(<< >>, d)
        /\ \A b \in Cases \ {c} : CaseEvents(b)' = CaseEvents(b)
    BY <1>1, <2>2, <2>4, <2>5 DEF CaseEvents
  <2>8. \A b \in Cases : /\ Of(claims, b)' = Of(claims, b)
                         /\ Of(decisions, b)' = Of(decisions, b)
                         /\ Of(handoffs, b)' = Of(handoffs, b)
    BY DEF Opens, Of
  <2>9. Story(c)'
    <3>1. CaseStory(c, x, {}, {}, {}, Append(<< >>, d))
      BY <1>1, <1>2, OpenedStory
    <3> QED
      BY <1>1, <2>1, <2>6, <2>7, <2>8, <3>1 DEF Story
  <2>10. \A b \in Cases \ {c} : Story(b)'
    BY <2>6, <2>7, <2>8, ChainColumns DEF Story
  <2> QED
    BY <2>4, <2>5, <2>6, <2>9, <2>10, InvParts DEF TablesInv, Opens, RowsFiled,
      IdentitiesUnique
<1> QED
  BY <1>4, <1>5

\* A row of rows' belongs to one case, and the other cases keep theirs.
LEMMA RowAdded ==
    ASSUME NEW rows, NEW row, NEW c, row.case.id = c
    PROVE  /\ Of(rows \cup {row}, c) = Of(rows, c) \cup {row}
           /\ \A b \in Cases \ {c} : Of(rows \cup {row}, b) = Of(rows, b)
BY DEF Of

LEMMA UpdatedCase ==
    ASSUME ReviewInv, NEW y \in HumanReviewCase, NEW c \in Cases, y.id = c,
           cases' = UpdateCase(y)
    PROVE  /\ cases' \in [Cases -> HumanReviewCase \cup {None}]
           /\ cases'[c] = y /\ \A b \in Cases \ {c} : cases'[b] = cases[b]
BY DEF UpdateCase, ReviewInv, ReviewTypeOK

LEMMA ClaimKeeps ==
    ASSUME ReviewInv, NEW q \in ClaimRequest, NEW now \in Times, ClaimMade(q, now)
    PROVE  TablesInv'
<1> DEFINE x == q.case
           c == x.id
           p == ClaimRow(q, now)
           T == CaseEvents(c)
<1>1. /\ p \in Claim /\ x \in HumanReviewCase /\ c \in Cases /\ cases[c] = x
      /\ x.state = "OPEN" /\ Claims(x, p) /\ p.request = q
  BY ClaimIsMade DEF ClaimMade
<1>2. /\ claims' = claims \cup {p} /\ cases' = UpdateCase(p.case)
      /\ chain' = AppendAudit(chain, p.event) /\ ClaimReplay(q) = {}
      /\ UNCHANGED << decisions, handoffs >>
  BY DEF ClaimMade
<1> HIDE DEF p
<1>3. /\ p.case \in HumanReviewCase /\ p.case.id = c /\ p.event \in AuditDraft
      /\ p.event.subject = p.case /\ p.case.state = "CLAIMED"
  BY <1>1 DEF Claim, Claims
<1>4. Story(c) /\ chain \in AuditChain /\ Filed(chain) /\ T \in Seq(AuditDraft)
  BY <1>1, ChainColumns
<1>5. /\ Of(claims, c) = {} /\ Of(decisions, c) = {} /\ Of(handoffs, c) = {} /\ Len(T) = 1
      /\ CaseStory(c, p.case, {p}, {}, {}, Append(T, p.event))
  <2>1. CaseStory(c, x, Of(claims, c), Of(decisions, c), Of(handoffs, c), T)
    BY <1>1, <1>4 DEF Story
  <2> HIDE DEF x, c, T
  <2>2. /\ c \in Cases /\ x \in HumanReviewCase /\ x.state = "OPEN"
        /\ T \in Seq(AuditDraft) /\ p \in Claim /\ Claims(x, p)
    BY <1>1, <1>4
  <2> QED
    BY ONLY <2>1, <2>2, ClaimedStory
<1>6. \A i \in DOMAIN T : T[i] # p.event
  <2>1. T[1].subject = OpenReviewCase(c, x.created_at) /\ x.created_at \in Times
    BY <1>1, <1>4, NoCaseIsNone DEF Story, CaseStory, HumanReviewCase
  <2>2. T[1].subject.state = "OPEN"
    BY <1>1, <2>1, OpenedCase
  <2>3. DOMAIN T = 1 .. 1
    BY <1>4, <1>5
  <2> QED
    BY <1>3, <2>2, <2>3
<1>7. /\ chain' \in AuditChain /\ Filed(chain') /\ CaseEvents(c)' = Append(T, p.event)
      /\ \A b \in Cases \ {c} : CaseEvents(b)' = CaseEvents(b)
  <2>1. /\ p.event.subject.id = c
        /\ \A i \in DOMAIN chain.events[c] : chain.events[c][i] # p.event
    BY <1>3, <1>6 DEF CaseEvents
  <2>2. /\ AppendAudit(chain, p.event) \in AuditChain
        /\ Filed(AppendAudit(chain, p.event))
        /\ AppendAudit(chain, p.event).events[c] = Append(chain.events[c], p.event)
        /\ \A b \in Cases \ {c} : AppendAudit(chain, p.event).events[b] = chain.events[b]
    BY ONLY <1>1, <1>3, <1>4, <2>1, FreshEvent
  <2> QED
    BY <1>2, <2>2 DEF CaseEvents
<1>8. /\ cases' \in [Cases -> HumanReviewCase \cup {None}]
      /\ cases'[c] = p.case /\ \A b \in Cases \ {c} : cases'[b] = cases[b]
  BY <1>1, <1>2, <1>3, UpdatedCase
<1>9. \A b \in Cases :
        /\ Of(claims, b)' = IF b = c THEN {p} ELSE Of(claims, b)
        /\ Of(decisions, b)' = Of(decisions, b) /\ Of(handoffs, b)' = Of(handoffs, b)
  <2>1. /\ Of(claims \cup {p}, c) = Of(claims, c) \cup {p}
        /\ \A b \in Cases \ {c} : Of(claims \cup {p}, b) = Of(claims, b)
    BY <1>3, RowAdded
  <2> QED
    BY <1>2, <1>5, <2>1 DEF Of
<1>10. Story(c)'
  BY <1>1, <1>5, <1>7, <1>8, <1>9 DEF Story
<1>11. \A b \in Cases \ {c} : Story(b)'
  BY <1>7, <1>8, <1>9, ChainColumns DEF Story
<1>12. IdentitiesUnique'
  BY <1>1, <1>2, InvParts DEF IdentitiesUnique, TablesInv, ClaimReplay
<1>13. RowsFiled'
  BY <1>1, <1>2, <1>3, InvParts DEF RowsFiled, TablesInv
<1> QED
  BY <1>1, <1>2, <1>7, <1>8, <1>10, <1>11, <1>12, <1>13, InvParts DEF TablesInv

\* The events of a case, by its version.
LEMMA TrailOfStory ==
    ASSUME NEW c \in Cases, NEW x \in HumanReviewCase, NEW P, NEW D, NEW H, NEW T,
           CaseStory(c, x, P, D, H, T)
    PROVE  /\ Len(T) = IF x.version = 4 THEN 5 ELSE x.version
           /\ x.version \in 1 .. 4
           /\ T[1].key[1] = "case" /\ T[1].subject.state = "OPEN"
           /\ x.version >= 2 => T[2].key[1] = "claim" /\ T[2].subject.state = "CLAIMED"
           /\ x.version >= 3 => T[3].key[1] = "decision" /\ T[3].subject.state = "IN_REVIEW"
           /\ x.version >= 4 => /\ T[4].key[1] = "handoff"
                                /\ T[4].subject.state = "IN_REVIEW"
                                /\ T[5].key[1] = "terminal"
<1>1. x # None /\ x.version \in 1 .. 4 /\ x.created_at \in Times
  BY NoCaseIsNone DEF HumanReviewCase
<1>2. T[1].key[1] = "case" /\ T[1].subject.state = "OPEN"
  BY <1>1, OpenedCase DEF CaseStory
<1>3. ASSUME x.version >= 2 PROVE T[2].key[1] = "claim" /\ T[2].subject.state = "CLAIMED"
  <2>1. PICK p \in P : TRUE
    BY <1>1, <1>3 DEF CaseStory
  <2> QED
    BY <2>1 DEF CaseStory
<1>4. ASSUME x.version >= 3
      PROVE  T[3].key[1] = "decision" /\ T[3].subject.state = "IN_REVIEW"
  <2>1. PICK d \in D : TRUE
    BY <1>1, <1>4 DEF CaseStory
  <2> QED
    BY <2>1 DEF CaseStory
<1>5. ASSUME x.version >= 4
      PROVE  /\ T[4].key[1] = "handoff" /\ T[4].subject.state = "IN_REVIEW"
             /\ T[5].key[1] = "terminal"
  <2>1. PICK h \in H : TRUE
    BY <1>1, <1>5 DEF CaseStory
  <2> QED
    BY <2>1 DEF CaseStory
<1> QED
  BY <1>1, <1>2, <1>3, <1>4, <1>5 DEF CaseStory

LEMMA DecisionKeeps ==
    ASSUME ReviewInv, NEW q \in DecisionRequest, NEW now \in Times, DecisionMade(q, now)
    PROVE  TablesInv'
<1> DEFINE x == q.case
           c == x.id
           d == DecisionRow(q, now)
           T == CaseEvents(c)
<1>1. /\ d \in Decision /\ x \in HumanReviewCase /\ c \in Cases /\ cases[c] = x
      /\ x.state = "CLAIMED" /\ Decides(x, T, d) /\ d.request = q
  BY DecisionIsMade DEF DecisionMade
<1>2. /\ decisions' = decisions \cup {d} /\ cases' = UpdateCase(d.case)
      /\ chain' = AppendAudit(chain, d.event) /\ DecisionReplay(q) = {}
      /\ UNCHANGED << claims, handoffs >>
  BY DEF DecisionMade
<1> HIDE DEF d
<1>3. /\ d.case \in HumanReviewCase /\ d.case.id = c /\ d.event \in AuditDraft
      /\ d.event.subject = d.case /\ d.event.key[1] = "decision"
  BY <1>1 DEF Decision, Decides
<1>4. Story(c) /\ chain \in AuditChain /\ Filed(chain) /\ T \in Seq(AuditDraft)
  BY <1>1, ChainColumns
<1>5. CaseStory(c, x, Of(claims, c), Of(decisions, c), Of(handoffs, c), T)
  BY <1>1, <1>4 DEF Story
<1>6. /\ Of(decisions, c) = {} /\ Of(handoffs, c) = {} /\ Len(T) = 2
      /\ CaseStory(c, d.case, Of(claims, c), {d}, {}, Append(T, d.event))
  <2> HIDE DEF x, c, T
  <2>1. /\ c \in Cases /\ x \in HumanReviewCase /\ x.state = "CLAIMED"
        /\ T \in Seq(AuditDraft) /\ d \in Decision /\ Decides(x, T, d)
    BY <1>1, <1>4
  <2> QED
    BY ONLY <1>5, <2>1, DecidedStory
<1>7. \A i \in DOMAIN T : T[i] # d.event
  <2>1. x.version = 2
    BY <1>1, <1>5, VersionOfState, NoCaseIsNone DEF CaseStory
  <2>2. T[1].key[1] = "case" /\ T[2].key[1] = "claim"
    BY <1>1, <1>5, <2>1, TrailOfStory
  <2>3. DOMAIN T = 1 .. 2
    BY <1>4, <1>6
  <2> QED
    BY <1>3, <2>2, <2>3
<1>8. /\ chain' \in AuditChain /\ Filed(chain') /\ CaseEvents(c)' = Append(T, d.event)
      /\ \A b \in Cases \ {c} : CaseEvents(b)' = CaseEvents(b)
  <2>1. /\ d.event.subject.id = c
        /\ \A i \in DOMAIN chain.events[c] : chain.events[c][i] # d.event
    BY <1>3, <1>7 DEF CaseEvents
  <2>2. /\ AppendAudit(chain, d.event) \in AuditChain
        /\ Filed(AppendAudit(chain, d.event))
        /\ AppendAudit(chain, d.event).events[c] = Append(chain.events[c], d.event)
        /\ \A b \in Cases \ {c} : AppendAudit(chain, d.event).events[b] = chain.events[b]
    BY ONLY <1>1, <1>3, <1>4, <2>1, FreshEvent
  <2> QED
    BY <1>2, <2>2 DEF CaseEvents
<1>9. /\ cases' \in [Cases -> HumanReviewCase \cup {None}]
      /\ cases'[c] = d.case /\ \A b \in Cases \ {c} : cases'[b] = cases[b]
  BY <1>1, <1>2, <1>3, UpdatedCase
<1>10. \A b \in Cases :
         /\ Of(decisions, b)' = IF b = c THEN {d} ELSE Of(decisions, b)
         /\ Of(claims, b)' = Of(claims, b) /\ Of(handoffs, b)' = Of(handoffs, b)
  <2>1. /\ Of(decisions \cup {d}, c) = Of(decisions, c) \cup {d}
        /\ \A b \in Cases \ {c} : Of(decisions \cup {d}, b) = Of(decisions, b)
    BY <1>3, RowAdded
  <2> QED
    BY <1>2, <1>6, <2>1 DEF Of
<1>11. Story(c)'
  BY <1>1, <1>6, <1>8, <1>9, <1>10 DEF Story
<1>12. \A b \in Cases \ {c} : Story(b)'
  BY <1>8, <1>9, <1>10, ChainColumns DEF Story
<1>13. IdentitiesUnique'
  BY <1>1, <1>2, InvParts DEF IdentitiesUnique, TablesInv, DecisionReplay
<1>14. RowsFiled'
  BY <1>1, <1>2, <1>3, InvParts DEF RowsFiled, TablesInv
<1> QED
  BY <1>1, <1>2, <1>8, <1>9, <1>11, <1>12, <1>13, <1>14, InvParts DEF TablesInv

LEMMA HandoffKeeps ==
    ASSUME ReviewInv, NEW q \in HandoffRequest, NEW now \in Times,
           NEW current \in BOOLEAN, HandoffMade(q, now, current)
    PROVE  TablesInv'
<1> DEFINE x == q.decision.case
           c == x.id
           h == HandoffRow(q, now)
           e == h.event
           g == TerminalDraft(h)
           T == CaseEvents(c)
           V == Append(T, e)
           log == AppendAudit(chain, e)
<1>1. /\ h \in Handoff /\ g \in AuditDraft /\ x \in HumanReviewCase /\ c \in Cases
      /\ cases[c] = x /\ x.state = "IN_REVIEW" /\ q.decision \in Of(decisions, c)
      /\ Closes(x, h, g) /\ h.request = q
  BY HandoffIsMade DEF HandoffMade
<1>2. /\ handoffs' = handoffs \cup {h} /\ cases' = UpdateCase(h.case)
      /\ chain' = AppendAudit(log, g)
      /\ UNCHANGED << claims, decisions >>
  BY DEF HandoffMade
<1> HIDE DEF h, g
<1>3. /\ h.case \in HumanReviewCase /\ h.case.id = c /\ e \in AuditDraft
      /\ e.subject = x /\ e.key[1] = "handoff" /\ g.subject = h.case
      /\ g.key[1] = "terminal"
  BY <1>1 DEF Handoff, Closes
<1>4. Story(c) /\ chain \in AuditChain /\ Filed(chain) /\ T \in Seq(AuditDraft)
  BY <1>1, ChainColumns
<1>5. CaseStory(c, x, Of(claims, c), Of(decisions, c), Of(handoffs, c), T)
  BY <1>1, <1>4 DEF Story
<1>6. /\ Of(handoffs, c) = {} /\ Len(T) = 3
      /\ CaseStory(c, h.case, Of(claims, c), Of(decisions, c), {h}, Append(V, g))
  <2> HIDE DEF x, c, T
  <2>1. /\ c \in Cases /\ x \in HumanReviewCase /\ x.state = "IN_REVIEW"
        /\ T \in Seq(AuditDraft) /\ h \in Handoff /\ g \in AuditDraft
        /\ h.request.decision \in Of(decisions, c) /\ Closes(x, h, g)
    BY <1>1, <1>4
  <2> QED
    BY ONLY <1>5, <2>1, ClosedStory
<1>7. /\ \A i \in DOMAIN T : T[i] # e
      /\ \A i \in DOMAIN V : V[i] # g
  <2>1. x.version = 3
    BY <1>1, <1>5, VersionOfState, NoCaseIsNone DEF CaseStory
  <2>2. T[1].key[1] = "case" /\ T[2].key[1] = "claim" /\ T[3].key[1] = "decision"
    BY <1>1, <1>5, <2>1, TrailOfStory
  <2>3. DOMAIN T = 1 .. 3
    BY <1>4, <1>6
  <2>4. /\ V \in Seq(AuditDraft) /\ Len(V) = 3 + 1
        /\ \A i \in 1 .. 3 : V[i] = T[i]
        /\ V[3 + 1] = e
    <3>1. e \in AuditDraft /\ Len(T) = 3 /\ T \in Seq(AuditDraft) /\ 3 \in Nat
      BY <1>3, <1>4, <1>6
    <3> HIDE DEF e, T
    <3> QED
      BY ONLY SMTT(30), <3>1, EventAppended
  <2>5. DOMAIN V = 1 .. 4
    BY <2>4
  <2> HIDE DEF V, e
  <2> QED
    BY <1>3, <2>2, <2>3, <2>4, <2>5
<1>8. /\ log \in AuditChain /\ Filed(log) /\ log.events[c] = V
      /\ \A b \in Cases \ {c} : log.events[b] = chain.events[b]
  <2>1. /\ e.subject.id = c
        /\ \A i \in DOMAIN chain.events[c] : chain.events[c][i] # e
    BY <1>3, <1>7 DEF CaseEvents
  <2>2. /\ log \in AuditChain /\ Filed(log) /\ log.events[c] = Append(chain.events[c], e)
        /\ \A b \in Cases \ {c} : log.events[b] = chain.events[b]
    BY ONLY <1>1, <1>3, <1>4, <2>1, FreshEvent
  <2> QED
    BY <2>2 DEF CaseEvents
<1> HIDE DEF log, V
<1>9. /\ chain' \in AuditChain /\ Filed(chain') /\ CaseEvents(c)' = Append(V, g)
      /\ \A b \in Cases \ {c} : CaseEvents(b)' = CaseEvents(b)
  <2>1. /\ g.subject.id = c
        /\ \A i \in DOMAIN log.events[c] : log.events[c][i] # g
    BY <1>3, <1>7, <1>8
  <2>2. /\ AppendAudit(log, g) \in AuditChain /\ Filed(AppendAudit(log, g))
        /\ AppendAudit(log, g).events[c] = Append(log.events[c], g)
        /\ \A b \in Cases \ {c} : AppendAudit(log, g).events[b] = log.events[b]
    BY ONLY <1>1, <1>8, <2>1, FreshEvent
  <2> QED
    BY <1>2, <1>8, <2>2 DEF CaseEvents
<1>10. /\ cases' \in [Cases -> HumanReviewCase \cup {None}]
       /\ cases'[c] = h.case /\ \A b \in Cases \ {c} : cases'[b] = cases[b]
  BY <1>1, <1>2, <1>3, UpdatedCase
<1>11. \A b \in Cases :
         /\ Of(handoffs, b)' = IF b = c THEN {h} ELSE Of(handoffs, b)
         /\ Of(claims, b)' = Of(claims, b) /\ Of(decisions, b)' = Of(decisions, b)
  <2>1. /\ Of(handoffs \cup {h}, c) = Of(handoffs, c) \cup {h}
        /\ \A b \in Cases \ {c} : Of(handoffs \cup {h}, b) = Of(handoffs, b)
    <3>1. h.case.id = c
      BY <1>3
    <3> QED
      BY ONLY <3>1 DEF Of
  <2> QED
    BY <1>2, <1>6, <2>1 DEF Of
<1>12. Story(c)'
  BY <1>1, <1>6, <1>9, <1>10, <1>11 DEF Story
<1>13. \A b \in Cases \ {c} : Story(b)'
  BY <1>9, <1>10, <1>11, ChainColumns DEF Story
<1>14. IdentitiesUnique' /\ RowsFiled'
  BY <1>1, <1>2, <1>3, InvParts DEF RowsFiled, IdentitiesUnique, TablesInv
<1> QED
  BY <1>1, <1>2, <1>9, <1>10, <1>12, <1>13, <1>14, InvParts DEF TablesInv

LEMMA TablesMoveKeeps ==
    ASSUME ReviewInv, TablesMove
    PROVE  TablesInv'
<1>1. CASE UNCHANGED tables
  BY <1>1, InvParts DEF tables, TablesInv, Story, CaseEvents, Of, RowsFiled,
    IdentitiesUnique
<1>2. CASE ~ UNCHANGED tables
  BY <1>2, OpensKeep, ClaimKeeps, DecisionKeeps, HandoffKeeps DEF TablesMove
<1> QED
  BY <1>1, <1>2

LEMMA CallMovesKeeps ==
    ASSUME ReviewInv, CallMoves
    PROVE  calls' \in [Actors -> Call] /\ CallsKnown'
<1>1. PICK a \in Actors, k \in Call : calls' = [calls EXCEPT ![a] = k] /\ CallKnown(k)
  BY DEF CallMoves
<1>2. \A b \in Actors : calls'[b] = IF b = a THEN k ELSE calls[b]
  BY <1>1 DEF ReviewInv, ReviewTypeOK
<1> QED
  BY <1>1, <1>2 DEF ReviewInv, ReviewTypeOK, CallsKnown

LEMMA ReviewInvInit == Init => ReviewInv
<1> SUFFICES ASSUME Init PROVE ReviewInv
  OBVIOUS
<1>1. 0 \in Times
  BY ReviewAssumption DEF Times
<1>2. \A a \in Actors : calls[a] = Idle(None, None) /\ CallKnown(calls[a])
  BY DEF Init, CallKnown, Idle
<1>3. Idle(None, None) \in Call
  BY <1>1, CallRow DEF Idle
<1>4. calls \in [Actors -> Call] /\ CallsKnown
  BY <1>2, <1>3 DEF Init, CallsKnown
<1>5. \A c \in Cases : /\ cases[c] = None /\ CaseEvents(c) = << >>
                       /\ Of(claims, c) = {} /\ Of(decisions, c) = {} /\ Of(handoffs, c) = {}
  BY DEF Init, CaseEvents, Of
<1>6. \A c \in Cases : Story(c)
  BY <1>5 DEF Story, CaseStory
<1>7. chain \in AuditChain /\ Filed(chain)
  BY <1>1 DEF Init, AuditChain, Filed
<1>8. TablesInv
  BY <1>6, <1>7 DEF Init, TablesInv, RowsFiled, IdentitiesUnique
<1> QED
  BY <1>1, <1>4, <1>8, InvParts, ReviewAssumption DEF Init

LEMMA ReviewInvStep == ReviewInv /\ [Next]_reviewVars => ReviewInv'
<1> SUFFICES ASSUME ReviewInv, [Next]_reviewVars PROVE ReviewInv'
  OBVIOUS
<1>1. CASE Moves
  BY <1>1, TablesMoveKeeps, CallMovesKeeps, InvParts DEF Moves, ReviewInv, ReviewTypeOK,
    TablesInv
<1>2. ASSUME clock' \in Times, UNCHANGED << tables, calls, requests >> PROVE ReviewInv'
  <2>1. TablesInv'
    BY <1>2, TablesMoveKeeps DEF TablesMove
  <2> QED
    BY <1>2, <2>1 DEF ReviewInv, ReviewTypeOK, TablesInv, CallsKnown
<1>3. CASE UNCHANGED reviewVars
  <2>1. UNCHANGED tables /\ UNCHANGED << clock, calls, requests >>
    BY <1>3 DEF reviewVars, tables
  <2> QED
    BY <2>1, <1>2 DEF ReviewInv, ReviewTypeOK
<1> QED
  BY <1>1, <1>2, <1>3, StepMoves

LEMMA ReviewInvariance == Spec => []ReviewInv
<1> QED
  BY ReviewInvInit, ReviewInvStep, PTL DEF Spec

-----------------------------------------------------------------------------
(* What the invariant says of the tables.                                    *)

LEMMA StoryOfCase ==
    ASSUME ReviewInv, NEW c \in Cases
    PROVE  /\ CaseStory(c, cases[c], Of(claims, c), Of(decisions, c), Of(handoffs, c),
                        CaseEvents(c))
           /\ cases[c] \in HumanReviewCase \/ cases[c] = None
           /\ cases[c] \in HumanReviewCase =>
                cases[c] # None /\ cases[c].version \in 1 .. 4
           /\ CaseEvents(c) \in Seq(AuditDraft)
BY ChainColumns, NoCaseIsNone DEF Story, HumanReviewCase

LEMMA LineageHolds == ReviewInv => LineageIntact
<1> SUFFICES ASSUME ReviewInv, NEW c \in Cases
             PROVE  /\ Reached(c, 2) <=> Of(claims, c) # {}
                    /\ Reached(c, 3) <=> Of(decisions, c) # {}
                    /\ Reached(c, 4) <=> Of(handoffs, c) # {}
                    /\ \A p \in Of(claims, c) :
                         /\ Of(claims, c) = {p}
                         /\ p.request.case = OpenReviewCase(c, cases[c].created_at)
                         /\ cases[c].reviewer = p.request.by
                         /\ cases[c].version = 2 => cases[c] = p.case
                         /\ \A d \in Of(decisions, c) :
                              /\ Of(decisions, c) = {d}
                              /\ d.request.case = p.case
                              /\ d.request.by = p.request.by
                              /\ cases[c].version = 3 => cases[c] = d.case
                              /\ \A h \in Of(handoffs, c) :
                                   /\ Of(handoffs, c) = {h}
                                   /\ h.request.decision = d
                                   /\ cases[c] = h.case
  BY DEF LineageIntact
<1> DEFINE x == cases[c]
           P == Of(claims, c)
           D == Of(decisions, c)
           H == Of(handoffs, c)
           T == CaseEvents(c)
<1>1. CaseStory(c, x, P, D, H, T)
  BY StoryOfCase
<1>2. /\ Reached(c, 2) <=> x # None /\ x.version >= 2
      /\ Reached(c, 3) <=> x # None /\ x.version >= 3
      /\ Reached(c, 4) <=> x # None /\ x.version >= 4
  BY DEF Reached
<1> HIDE DEF x, P, D, H, T
<1>3. /\ Reached(c, 2) <=> P # {}
      /\ Reached(c, 3) <=> D # {}
      /\ Reached(c, 4) <=> H # {}
  BY <1>1, <1>2 DEF CaseStory
<1>4. \A p \in P :
        /\ P = {p}
        /\ p.request.case = OpenReviewCase(c, x.created_at)
        /\ x.reviewer = p.request.by
        /\ x.version = 2 => x = p.case
        /\ \A d \in D :
             /\ D = {d}
             /\ d.request.case = p.case /\ d.request.by = p.request.by
             /\ x.version = 3 => x = d.case
             /\ \A h \in H : H = {h} /\ h.request.decision = d /\ x = h.case
  BY <1>1 DEF CaseStory
<1> QED
  BY <1>3, <1>4 DEF x, P, D, H

LEMMA TrailHolds == ReviewInv => TrailMirrorsLifecycle
<1> SUFFICES ASSUME ReviewInv, NEW c \in Cases
             PROVE  LET trail == CaseEvents(c)
                    IN  /\ cases[c] = None => trail = << >>
                        /\ cases[c] # None =>
                             /\ Len(trail) = IF cases[c].version = 4 THEN 5
                                             ELSE cases[c].version
                             /\ \A i \in 1 .. Len(trail) :
                                  /\ trail[i].key[1] = StepNames[i]
                                  /\ trail[i].subject.state = StepStates(cases[c])[i]
                             /\ trail[Len(trail)].subject = cases[c]
                             /\ \A row \in Of(claims \cup decisions \cup handoffs, c) :
                                  \E i \in 1 .. Len(trail) : trail[i] = row.event
  BY DEF TrailMirrorsLifecycle
<1> DEFINE x == cases[c]
           P == Of(claims, c)
           D == Of(decisions, c)
           H == Of(handoffs, c)
           T == CaseEvents(c)
<1>1. CaseStory(c, x, P, D, H, T) /\ (x \in HumanReviewCase \/ x = None)
  BY StoryOfCase
<1>2. \A row \in Of(claims \cup decisions \cup handoffs, c) :
        row \in P \/ row \in D \/ row \in H
  BY DEF Of
<1> HIDE DEF x, P, D, H, T
<1>3. x = None => T = << >>
  BY <1>1 DEF CaseStory
<1>4. ASSUME x # None
      PROVE  /\ Len(T) = IF x.version = 4 THEN 5 ELSE x.version
             /\ \A i \in 1 .. Len(T) : /\ T[i].key[1] = StepNames[i]
                                       /\ T[i].subject.state = StepStates(x)[i]
             /\ T[Len(T)].subject = x
             /\ \A row : row \in P \/ row \in D \/ row \in H =>
                  \E i \in 1 .. Len(T) : T[i] = row.event
  <2>1. /\ Len(T) = IF x.version = 4 THEN 5 ELSE x.version
        /\ x.version \in 1 .. 4
        /\ T[1].key[1] = "case" /\ T[1].subject.state = "OPEN"
        /\ x.version >= 2 => T[2].key[1] = "claim" /\ T[2].subject.state = "CLAIMED"
        /\ x.version >= 3 => T[3].key[1] = "decision" /\ T[3].subject.state = "IN_REVIEW"
        /\ x.version >= 4 => /\ T[4].key[1] = "handoff"
                             /\ T[4].subject.state = "IN_REVIEW"
                             /\ T[5].key[1] = "terminal"
    BY <1>1, <1>4, TrailOfStory
  <2>2. T[Len(T)].subject = x
    BY <1>1, <1>4 DEF CaseStory
  <2>3. /\ StepNames[1] = "case" /\ StepNames[2] = "claim" /\ StepNames[3] = "decision"
        /\ StepNames[4] = "handoff" /\ StepNames[5] = "terminal"
        /\ StepStates(x)[1] = "OPEN" /\ StepStates(x)[2] = "CLAIMED"
        /\ StepStates(x)[3] = "IN_REVIEW" /\ StepStates(x)[4] = "IN_REVIEW"
        /\ StepStates(x)[5] = x.state
    BY DEF StepNames, StepStates
  <2>4. ASSUME NEW i \in 1 .. Len(T)
        PROVE  T[i].key[1] = StepNames[i] /\ T[i].subject.state = StepStates(x)[i]
    <3>1. \/ i = 1
          \/ i = 2 /\ x.version >= 2
          \/ i = 3 /\ x.version >= 3
          \/ i = 4 /\ x.version >= 4
          \/ i = 5 /\ x.version >= 4
      BY <2>1
    <3>2. i = 5 => T[5].subject = x
      BY <2>1, <2>2
    <3> QED
      BY <2>1, <2>3, <3>1, <3>2
  <2>5. ASSUME NEW row, row \in P \/ row \in D \/ row \in H
        PROVE  \E i \in 1 .. Len(T) : T[i] = row.event
    <3>1. CASE row \in P
      <4>1. T[2] = row.event /\ x.version >= 2
        BY <1>1, <1>4, <3>1 DEF CaseStory
      <4> QED
        BY <2>1, <4>1
    <3>2. CASE row \in D
      <4>1. T[3] = row.event /\ x.version >= 3
        BY <1>1, <1>4, <3>2 DEF CaseStory
      <4> QED
        BY <2>1, <4>1
    <3>3. CASE row \in H
      <4>1. T[4] = row.event /\ x.version >= 4
        BY <1>1, <1>4, <3>3 DEF CaseStory
      <4> QED
        BY <2>1, <4>1
    <3> QED
      BY <2>5, <3>1, <3>2, <3>3
  <2> QED
    BY <2>1, <2>2, <2>4, <2>5
<1> QED
  BY <1>2, <1>3, <1>4 DEF x, T

LEMMA DecisionsHold == ReviewInv => DecidedOnWhatWasSeen
<1> SUFFICES ASSUME ReviewInv, NEW d \in decisions
             PROVE  \E i \in DOMAIN CaseEvents(d.case.id) :
                      /\ CaseEvents(d.case.id)[i] = d.event
                      /\ d.request.events = SubSeq(CaseEvents(d.case.id), 1, i - 1)
                      /\ d.request.case = CaseEvents(d.case.id)[i - 1].subject
  BY DEF DecidedOnWhatWasSeen
<1> DEFINE c == d.case.id
           x == cases[c]
           P == Of(claims, c)
           D == Of(decisions, c)
           H == Of(handoffs, c)
           T == CaseEvents(c)
<1>1. c \in Cases /\ d \in D
  BY DEF ReviewInv, ReviewTypeOK, Decision, HumanReviewCase, Of
<1>2. /\ CaseStory(c, x, P, D, H, T) /\ T \in Seq(AuditDraft)
      /\ x \in HumanReviewCase \/ x = None
  BY <1>1, StoryOfCase
<1> HIDE DEF c, x, P, D, H, T
<1>3. x # None /\ x \in HumanReviewCase /\ x.version >= 3
  BY <1>1, <1>2 DEF CaseStory
<1>4. PICK p \in P : TRUE
  BY <1>2, <1>3 DEF CaseStory, HumanReviewCase
<1>5. /\ T[3] = d.event /\ d.request.events = SubSeq(T, 1, 2)
      /\ d.request.case = T[2].subject
  BY <1>1, <1>2, <1>4 DEF CaseStory
<1>6. 3 \in DOMAIN T
  <2>1. Len(T) = IF x.version = 4 THEN 5 ELSE x.version
    BY <1>2, <1>3 DEF CaseStory
  <2>2. x.version \in 1 .. 4
    BY <1>3 DEF HumanReviewCase
  <2>3. Len(T) >= 3
    BY <1>3, <2>1, <2>2
  <2> QED
    BY <1>2, <2>3
<1>7. 3 - 1 = 2
  OBVIOUS
<1>8. /\ T[3] = d.event
      /\ d.request.events = SubSeq(T, 1, 3 - 1)
      /\ d.request.case = T[3 - 1].subject
  BY <1>5, <1>7
<1> QED
  BY <1>6, <1>8 DEF T, c

-----------------------------------------------------------------------------
(* The theorems.                                                             *)

\* The case rows, their claims, decisions and handoffs and the audit chain tell
\* the same story of every case (the transactions of the four services), for
\* any number of cases, reviewers, services and keys.
THEOREM ReviewRecordsAgree == Spec => []RecordsAgree
<1>1. ReviewInv => RecordsAgree
  BY LineageHolds, TrailHolds DEF RecordsAgree, ReviewInv
<1> QED
  BY <1>1, ReviewInvariance, PTL

\* Every decision stands on the case and the trail that its reviewer was shown
\* (context_digest in record_decision).
THEOREM ReviewDecidesWhatWasSeen == Spec => []DecidedOnWhatWasSeen
BY DecisionsHold, ReviewInvariance, PTL

-----------------------------------------------------------------------------
(* Replays.                                                                  *)

\* A durable row and the request that made it.
LEMMA DurableRow ==
    ASSUME ReviewInv, NEW row \in claims \cup decisions \cup handoffs
    PROVE  \/ row \in claims /\ row.request \in ClaimRequest
           \/ row \in decisions /\ row.request \in DecisionRequest
           \/ row \in handoffs /\ row.request \in HandoffRequest
BY DEF ReviewInv, ReviewTypeOK, Claim, Decision, Handoff

LEMMA ClaimReplays ==
    ASSUME ReviewInv, NEW row \in claims
    PROVE  /\ ClaimReplay(row.request) = {row}
           /\ ~ ClaimReplayRefused(row.request, row)
<1> DEFINE c == row.case.id
           x == cases[c]
<1>1. row \in Claim /\ c \in Cases /\ row \in Of(claims, c)
  BY DEF ReviewInv, ReviewTypeOK, Claim, HumanReviewCase, Of
<1>2. ClaimReplay(row.request) = {row}
  BY DEF ClaimReplay, ReviewInv, IdentitiesUnique
<1>3. row.request.case.id = c
  BY DEF ReviewInv, RowsFiled
<1>4. CaseStory(c, x, Of(claims, c), Of(decisions, c), Of(handoffs, c), CaseEvents(c))
  BY <1>1, StoryOfCase
<1>5. x # None /\ x \in HumanReviewCase
  BY <1>1, <1>4, StoryOfCase DEF CaseStory
<1>6. x.version >= 2 /\ x.version = Version(x.state) /\ x.reviewer = row.request.by
  BY <1>1, <1>4, <1>5 DEF CaseStory
<1>7. x.state = "CLAIMED" => x = row.case
  BY <1>1, <1>4, <1>6, VersionOfState DEF CaseStory
<1>8. ~ (x.version < 2)
  BY <1>5, <1>6 DEF HumanReviewCase
<1> QED
  BY <1>2, <1>3, <1>6, <1>7, <1>8 DEF ClaimReplayRefused

LEMMA DecisionReplays ==
    ASSUME ReviewInv, NEW row \in decisions
    PROVE  DecisionReplay(row.request) = {row}
BY DEF DecisionReplay, ReviewInv, IdentitiesUnique

LEMMA HandoffReplays ==
    ASSUME ReviewInv, NEW row \in handoffs
    PROVE  /\ HandoffReplay(row.request) = {row}
           /\ ~ HandoffReplayRefused(row.request, row)
<1> DEFINE c == row.case.id
<1>1. row \in Handoff /\ c \in Cases /\ row \in Of(handoffs, c)
  BY DEF ReviewInv, ReviewTypeOK, Handoff, HumanReviewCase, Of
<1>2. \A other \in handoffs : other.case.id = other.request.decision.case.id
  BY DEF ReviewInv, RowsFiled
<1>3. CaseStory(c, cases[c], Of(claims, c), Of(decisions, c), Of(handoffs, c),
                CaseEvents(c))
  BY <1>1, StoryOfCase
<1>4. Of(handoffs, c) = {row} /\ cases[c] = row.case
  BY <1>1, <1>3 DEF CaseStory
<1>5. \A other \in HandoffReplay(row.request) : other \in Of(handoffs, c)
  BY <1>2 DEF HandoffReplay, Of
<1>6. HandoffReplay(row.request) = {row}
  BY <1>4, <1>5 DEF HandoffReplay
<1>7. row.request.decision.case.id = c
  BY <1>2
<1> QED
  BY <1>4, <1>6, <1>7 DEF HandoffReplayRefused

\* The answer of a call that carries the request of a durable row.
Answered(a, row) == /\ calls'[a].request = row.request
                    /\ calls'[a].receipt \in {row, calls[a].receipt}

LEMMA ReturnAnswers ==
    ASSUME ReviewInv, NEW a \in Actors, NEW receipt, Return(a, receipt)
    PROVE  /\ calls'[a].request = calls[a].request /\ calls'[a].receipt = receipt
           /\ \A b \in Actors \ {a} : calls'[b] = calls[b]
<1>1. calls \in [Actors -> Call]
  BY DEF ReviewInv, ReviewTypeOK
<1>2. calls' = [calls EXCEPT ![a] = Idle(calls[a].request, receipt)]
  BY <1>1 DEF Return
<1> QED
  BY <1>1, <1>2 DEF Idle

LEMMA ClaimAnswers ==
    ASSUME ReviewInv, NEW a \in Actors, NEW row \in claims, ClaimCase(a),
           row.request = calls[a].request, calls[a].now >= row.request.at
    PROVE  Answered(a, row)
<1>1. ~ (calls[a].now < calls[a].request.at)
  BY CallColumns DEF ReviewInv, ReviewTypeOK, Claim, ClaimRequest, Times
<1>2. Replay(a, ClaimReplayRefused(calls[a].request, row), row)
  BY <1>1, ClaimReplays DEF ClaimCase
<1>3. Return(a, row)
  BY <1>2, ClaimReplays DEF Replay
<1> QED
  BY <1>3, ReturnAnswers DEF Answered

LEMMA DecisionAnswers ==
    ASSUME ReviewInv, NEW a \in Actors, NEW row \in decisions, RecordDecision(a),
           row.request = calls[a].request, calls[a].now >= row.request.at
    PROVE  Answered(a, row)
<1>1. ~ (calls[a].now < calls[a].request.at)
  BY CallColumns DEF ReviewInv, ReviewTypeOK, Decision, DecisionRequest, Times
<1>2. Replay(a, row.request # calls[a].request, row)
  BY <1>1, DecisionReplays DEF RecordDecision
<1>3. Return(a, row)
  BY <1>2 DEF Replay
<1> QED
  BY <1>3, ReturnAnswers DEF Answered

LEMMA HandoffAnswers ==
    ASSUME ReviewInv, NEW a \in Actors, NEW row \in handoffs, NEW current \in BOOLEAN,
           HandOff(a, current),
           row.request = calls[a].request, calls[a].now >= row.request.at
    PROVE  Answered(a, row)
<1>1. ~ (calls[a].now < calls[a].request.at)
  BY CallColumns DEF ReviewInv, ReviewTypeOK, Handoff, HandoffRequest, Times
<1>2. Replay(a, HandoffReplayRefused(calls[a].request, row), row)
  BY <1>1, HandoffReplays DEF HandOff
<1>3. Return(a, row)
  BY <1>2, HandoffReplays DEF Replay
<1> QED
  BY <1>3, ReturnAnswers DEF Answered

\* What a step does to a call that ends: either its own transaction or the
\* connection ended it.
LEMMA CallsEnd ==
    ASSUME ReviewInv, Next, NEW a \in Actors,
           calls[a].pc = "sent", calls'[a].pc = "idle"
    PROVE  \/ CreateCase(a) \/ ClaimCase(a) \/ RecordDecision(a)
           \/ \E current \in BOOLEAN : HandOff(a, current)
           \/ ConnectionLost(a)
<1>1. calls \in [Actors -> Call]
  BY DEF ReviewInv, ReviewTypeOK
<1>2. ASSUME NEW b \in Actors, NEW k, calls' = [calls EXCEPT ![b] = k]
      PROVE  b = a
  BY <1>1, <1>2
<1>3. ASSUME NEW b \in Actors, NEW q PROVE ~ Send(b, q)
  BY <1>1, <1>3 DEF Send
<1>4. ASSUME NEW b \in Actors, NEW receipt, Return(b, receipt) PROVE b = a
  BY <1>2, <1>4 DEF Return
<1>5. ASSUME NEW b \in Actors, Refuse(b) PROVE b = a
  BY <1>2, <1>5 DEF Refuse
<1>6. ASSUME NEW b \in Actors, NEW receipt, Acknowledge(b, receipt) PROVE b = a
  BY <1>4, <1>6 DEF Acknowledge
<1>7. ASSUME NEW b \in Actors, NEW refused, NEW row, Replay(b, refused, row) PROVE b = a
  BY <1>4, <1>5, <1>7 DEF Replay
<1>8. ~ ClockTick
  BY DEF ClockTick
<1>9. ASSUME NEW b \in Actors PROVE ~ Resend(b)
  BY <1>1, <1>9 DEF Resend
<1>10. ASSUME NEW b \in Actors, ConnectionLost(b) PROVE b = a
  BY <1>4, <1>10 DEF ConnectionLost
<1>11. ASSUME NEW b \in Actors, CreateCase(b) PROVE b = a
  BY <1>5, <1>6, <1>11 DEF CreateCase
<1>12. ASSUME NEW b \in Actors, ClaimCase(b) PROVE b = a
  BY <1>5, <1>6, <1>7, <1>12 DEF ClaimCase
<1>13. ASSUME NEW b \in Actors, RecordDecision(b) PROVE b = a
  BY <1>5, <1>6, <1>7, <1>13 DEF RecordDecision
<1>14. ASSUME NEW b \in Actors, NEW current \in BOOLEAN, HandOff(b, current) PROVE b = a
  BY <1>5, <1>6, <1>7, <1>14 DEF HandOff
<1>15. ASSUME NEW b \in Actors
       PROVE  ~ (RequestIntake(b) \/ RequestHandoff(b) \/ RequestClaim(b)
                   \/ RequestDecision(b))
  BY <1>3, <1>15 DEF RequestIntake, RequestHandoff, RequestClaim, RequestDecision
<1>16. CASE \E s \in Services : ServiceStep(s)
  BY <1>11, <1>14, <1>15, <1>16 DEF ServiceStep, Actors
<1>17. CASE \E r \in Reviewers : ReviewerStep(r)
  BY <1>12, <1>13, <1>15, <1>17 DEF ReviewerStep, Actors
<1> QED
  BY <1>8, <1>9, <1>10, <1>16, <1>17 DEF Next

\* Exact replay returns the same receipt, whatever happened to the case since
\* (claim_case, record_decision, handoff).
THEOREM ReviewReplaysAreAnswered == Spec => ReplaysAreAnswered
<1> DEFINE Answer ==
      \A a \in Actors : \A row \in claims \cup decisions \cup handoffs :
        (/\ calls[a].pc = "sent" /\ calls'[a].pc = "idle"
         /\ row.request = calls[a].request /\ calls[a].now >= row.request.at)
          => Answered(a, row)
<1>1. ReviewInv /\ [Next]_reviewVars => [Answer]_reviewVars
  <2> SUFFICES ASSUME ReviewInv, Next, NEW a \in Actors,
                      NEW row \in claims \cup decisions \cup handoffs,
                      calls[a].pc = "sent", calls'[a].pc = "idle",
                      row.request = calls[a].request, calls[a].now >= row.request.at
               PROVE  Answered(a, row)
    OBVIOUS
  <2>1. CASE ConnectionLost(a)
    BY <2>1, ReturnAnswers DEF ConnectionLost, Answered
  <2>2. CASE CreateCase(a)
    <3>1. calls[a].request.op = "intake"
      BY <2>2 DEF CreateCase, Requested
    <3> QED
      BY <3>1, DurableRow DEF ClaimRequest, DecisionRequest, HandoffRequest
  <2>3. CASE ClaimCase(a)
    <3>1. calls[a].request.op = "claim"
      BY <2>3 DEF ClaimCase, Requested
    <3>2. row \in claims
      BY <3>1, DurableRow DEF DecisionRequest, HandoffRequest
    <3> QED
      BY <2>3, <3>2, ClaimAnswers
  <2>4. CASE RecordDecision(a)
    <3>1. calls[a].request.op = "decision"
      BY <2>4 DEF RecordDecision, Requested
    <3>2. row \in decisions
      BY <3>1, DurableRow DEF ClaimRequest, HandoffRequest
    <3> QED
      BY <2>4, <3>2, DecisionAnswers
  <2>5. ASSUME NEW current \in BOOLEAN, HandOff(a, current) PROVE Answered(a, row)
    <3>1. calls[a].request.op = "handoff"
      BY <2>5 DEF HandOff, Requested
    <3>2. row \in handoffs
      BY <3>1, DurableRow DEF ClaimRequest, DecisionRequest
    <3> QED
      BY <2>5, <3>2, HandoffAnswers
  <2> QED
    BY <2>1, <2>2, <2>3, <2>4, <2>5, CallsEnd
<1>2. Spec => [][Answer]_reviewVars
  BY <1>1, ReviewInvariance, PTL DEF Spec
<1> QED
  BY <1>2 DEF ReplaysAreAnswered, Answered

-----------------------------------------------------------------------------
(* The lifecycle.                                                            *)

stage == [c \in Cases |-> IF cases[c] = None THEN "NONE" ELSE cases[c].state]
claimant == [c \in Cases |-> IF Of(claims, c) = {} THEN None
                             ELSE OnlyRow(Of(claims, c)).request.by]
verdict == [c \in Cases |-> IF Of(decisions, c) = {} THEN None
                            ELSE OnlyRow(Of(decisions, c)).request.verdict]

LEMMA OnlyRowIs == \A row : OnlyRow({row}) = row
BY DEF OnlyRow

LEMMA OpensStep ==
    ASSUME ReviewInv, NEW q \in IntakeRequest, NEW now \in Times,
           q.case = OpenReviewCase(q.case.id, q.case.created_at), Opens(q, now)
    PROVE  \/ \E c \in Cases : Lifecycle!Open(c)
           \/ UNCHANGED Lifecycle!lifecycleVars
<1> DEFINE c == q.case.id
<1>1. /\ c \in Cases /\ q.case # None /\ q.case.state = "OPEN"
      /\ cases \in [Cases -> HumanReviewCase \cup {None}]
  BY OpenedCase, NoCaseIsNone DEF IntakeRequest, HumanReviewCase, ReviewInv, ReviewTypeOK
<1>2. claimant' = claimant /\ verdict' = verdict
  BY DEF Opens, claimant, verdict, Of
<1>3. CASE cases[c] # None
  BY <1>2, <1>3 DEF Opens, Lifecycle!lifecycleVars, stage, claimant, verdict
<1>4. CASE cases[c] = None
  <2>1. cases' = [cases EXCEPT ![c] = q.case]
    BY <1>4 DEF Opens
  <2>2. stage[c] = "NONE" /\ stage' = [stage EXCEPT ![c] = "OPEN"]
    BY <1>1, <1>4, <2>1 DEF stage
  <2>3. Lifecycle!Open(c)
    BY <1>2, <2>2 DEF Lifecycle!Open, stage, claimant, verdict
  <2> QED
    BY <1>1, <2>3
<1> QED
  BY <1>3, <1>4

LEMMA ClaimStep ==
    ASSUME ReviewInv, NEW q \in ClaimRequest, NEW now \in Times, ClaimMade(q, now)
    PROVE  \E c \in Cases, r \in Reviewers : Lifecycle!Claim(c, r)
<1> DEFINE c == q.case.id
           p == ClaimRow(q, now)
<1>1. /\ p \in Claim /\ c \in Cases /\ cases[c] = q.case /\ q.case.state = "OPEN"
      /\ q.case \in HumanReviewCase /\ Claims(q.case, p) /\ p.request = q
  BY ClaimIsMade DEF ClaimMade
<1>2. claims' = claims \cup {p} /\ cases' = UpdateCase(p.case) /\ decisions' = decisions
  BY DEF ClaimMade
<1> HIDE DEF p
<1>3. /\ p.case.id = c /\ p.case.state = "CLAIMED" /\ p.case # None
      /\ p.request.by \in Reviewers /\ q.case # None
  BY <1>1, NoCaseIsNone DEF Claims, Claim, ClaimRequest
<1>4. cases' = [cases EXCEPT ![c] = p.case]
  BY <1>2, <1>3 DEF UpdateCase
<1>5. cases \in [Cases -> HumanReviewCase \cup {None}]
  BY DEF ReviewInv, ReviewTypeOK
<1>6. stage[c] = "OPEN" /\ stage' = [stage EXCEPT ![c] = "CLAIMED"]
  BY <1>1, <1>3, <1>4, <1>5 DEF stage
<1>7. Of(claims, c) = {}
  <2>1. CaseStory(c, cases[c], Of(claims, c), Of(decisions, c), Of(handoffs, c),
                  CaseEvents(c))
    BY <1>1, StoryOfCase
  <2> QED
    BY <1>1, <1>3, <2>1, VersionOfState DEF CaseStory
<1>8. \A b \in Cases : Of(claims, b)' = IF b = c THEN {p} ELSE Of(claims, b)
  BY <1>2, <1>3, <1>7 DEF Of
<1>9. claimant' = [claimant EXCEPT ![c] = p.request.by]
  <2>1. \A b \in Cases : claimant'[b] = IF b = c THEN p.request.by ELSE claimant[b]
    BY <1>8, OnlyRowIs DEF claimant
  <2> QED
    BY <1>1, <2>1 DEF claimant
<1>10. verdict' = verdict
  BY <1>2 DEF verdict, Of
<1>11. Lifecycle!Claim(c, q.by)
  BY <1>1, <1>6, <1>9, <1>10 DEF Lifecycle!Claim, stage, claimant, verdict
<1>12. c \in Cases /\ q.by \in Reviewers
  BY <1>1, <1>3
<1> HIDE DEF c
<1> QED
  BY ONLY <1>11, <1>12

LEMMA DecisionStep ==
    ASSUME ReviewInv, NEW q \in DecisionRequest, NEW now \in Times, DecisionMade(q, now)
    PROVE  \E c \in Cases, v \in Verdicts : Lifecycle!Decide(c, v)
<1> DEFINE c == q.case.id
           d == DecisionRow(q, now)
<1>1. /\ d \in Decision /\ c \in Cases /\ cases[c] = q.case /\ q.case.state = "CLAIMED"
      /\ q.case \in HumanReviewCase /\ Decides(q.case, CaseEvents(c), d)
      /\ d.request = q
  BY DecisionIsMade DEF DecisionMade
<1>2. decisions' = decisions \cup {d} /\ cases' = UpdateCase(d.case) /\ claims' = claims
  BY DEF DecisionMade
<1> HIDE DEF d
<1>3. /\ d.case.id = c /\ d.case.state = "IN_REVIEW" /\ d.case # None
      /\ d.request.verdict \in Verdicts /\ q.case # None
  BY <1>1, NoCaseIsNone DEF Decides, Decision, DecisionRequest
<1>4. cases' = [cases EXCEPT ![c] = d.case]
  BY <1>2, <1>3 DEF UpdateCase
<1>5. cases \in [Cases -> HumanReviewCase \cup {None}]
  BY DEF ReviewInv, ReviewTypeOK
<1>6. stage[c] = "CLAIMED" /\ stage' = [stage EXCEPT ![c] = "IN_REVIEW"]
  BY <1>1, <1>3, <1>4, <1>5 DEF stage
<1>7. Of(decisions, c) = {}
  <2>1. CaseStory(c, cases[c], Of(claims, c), Of(decisions, c), Of(handoffs, c),
                  CaseEvents(c))
    BY <1>1, StoryOfCase
  <2> QED
    BY <1>1, <1>3, <2>1, VersionOfState DEF CaseStory
<1>8. \A b \in Cases : Of(decisions, b)' = IF b = c THEN {d} ELSE Of(decisions, b)
  BY <1>2, <1>3, <1>7 DEF Of
<1>9. verdict' = [verdict EXCEPT ![c] = d.request.verdict]
  <2>1. \A b \in Cases : verdict'[b] = IF b = c THEN d.request.verdict ELSE verdict[b]
    BY <1>8, OnlyRowIs DEF verdict
  <2> QED
    BY <1>1, <2>1 DEF verdict
<1>10. claimant' = claimant
  BY <1>2 DEF claimant, Of
<1>11. Lifecycle!Decide(c, q.verdict)
  BY <1>1, <1>6, <1>9, <1>10 DEF Lifecycle!Decide, stage, claimant, verdict
<1>12. c \in Cases /\ q.verdict \in Verdicts
  BY <1>1, <1>3
<1> HIDE DEF c
<1> QED
  BY ONLY <1>11, <1>12

LEMMA HandoffStep ==
    ASSUME ReviewInv, NEW q \in HandoffRequest, NEW now \in Times,
           NEW current \in BOOLEAN, HandoffMade(q, now, current)
    PROVE  \E c \in Cases : Lifecycle!Close(c)
<1> DEFINE x == q.decision.case
           c == x.id
           h == HandoffRow(q, now)
<1>1. /\ h \in Handoff /\ x \in HumanReviewCase /\ c \in Cases /\ cases[c] = x
      /\ x.state = "IN_REVIEW" /\ q.decision \in Of(decisions, c)
      /\ Closes(x, h, TerminalDraft(h)) /\ h.request = q
  BY HandoffIsMade DEF HandoffMade
<1>2. cases' = UpdateCase(h.case) /\ UNCHANGED << claims, decisions >>
  BY DEF HandoffMade
<1> HIDE DEF h
<1>3. /\ h.case.id = c /\ h.case.state = TerminalState(q.decision) /\ h.case # None
      /\ x # None
  BY <1>1, NoCaseIsNone DEF Closes, Handoff
<1>4. cases' = [cases EXCEPT ![c] = h.case]
  BY <1>2, <1>3 DEF UpdateCase
<1>5. cases \in [Cases -> HumanReviewCase \cup {None}]
  BY DEF ReviewInv, ReviewTypeOK
<1>6. stage[c] = "IN_REVIEW" /\ stage' = [stage EXCEPT ![c] = TerminalState(q.decision)]
  BY <1>1, <1>3, <1>4, <1>5 DEF stage
<1>7. Of(decisions, c) = {q.decision}
  <2>1. CaseStory(c, cases[c], Of(claims, c), Of(decisions, c), Of(handoffs, c),
                  CaseEvents(c))
    BY <1>1, StoryOfCase
  <2> QED
    BY <1>1, <2>1 DEF CaseStory
<1>8. verdict[c] = q.decision.request.verdict
  BY <1>1, <1>7, OnlyRowIs DEF verdict
<1>9. stage' = [stage EXCEPT ![c] =
                  IF verdict[c] = "ESCALATE" THEN "ESCALATED" ELSE "RESOLVED"]
  BY <1>6, <1>8 DEF TerminalState
<1>10. UNCHANGED << claimant, verdict >>
  BY <1>2 DEF claimant, verdict, Of
<1>11. Lifecycle!Close(c)
  BY <1>6, <1>9, <1>10 DEF Lifecycle!Close, stage, claimant, verdict
<1> QED
  BY <1>1, <1>11

LEMMA StillStep ==
    ASSUME UNCHANGED tables
    PROVE  UNCHANGED Lifecycle!lifecycleVars
BY DEF tables, Lifecycle!lifecycleVars, Of

\* Each case is opened once, claimed by one reviewer, decided once by its
\* claimant and closed the way the decision says: the transactions of the
\* workspace are the steps of the lifecycle, and nothing else is.
THEOREM ReviewImplementsLifecycle == Spec => ImplementsLifecycle
<1>1. Init => Lifecycle!LifecycleInit
  BY DEF Init, Lifecycle!LifecycleInit, Of
<1>2. ReviewInv /\ [Next]_reviewVars
        => [Lifecycle!LifecycleNext]_(Lifecycle!lifecycleVars)
  <2> SUFFICES ASSUME ReviewInv, [Next]_reviewVars
               PROVE  Lifecycle!LifecycleNext \/ UNCHANGED Lifecycle!lifecycleVars
    OBVIOUS
  <2>1. CASE UNCHANGED tables
    BY <2>1, StillStep
  <2>2. CASE TablesMove /\ ~ UNCHANGED tables
    BY <2>2, OpensStep, ClaimStep, DecisionStep, HandoffStep
      DEF TablesMove, Lifecycle!LifecycleNext
  <2> QED
    BY <2>1, <2>2, StepMoves DEF Moves, tables, reviewVars
<1> QED
  BY <1>1, <1>2, ReviewInvariance, PTL DEF Spec, ImplementsLifecycle,
    Lifecycle!LifecycleSpec

-----------------------------------------------------------------------------
(* Pages of the queue.                                                       *)

\* A place of a queue S up to n: how many of its cases stand no later than c.
UpTo(S, c) == {d \in S : QueueRank[d] <= QueueRank[c]}

LEMMA RankIsCount ==
    ASSUME NEW S \in SUBSET Cases, IsFiniteSet(S), NEW c \in S
    PROVE  /\ IsFiniteSet(UpTo(S, c)) /\ Rank(S, c) = Cardinality(UpTo(S, c))
           /\ Rank(S, c) \in 1 .. Cardinality(S)
<1>1. UpTo(S, c) \in SUBSET S /\ c \in UpTo(S, c)
  BY ReviewAssumption DEF UpTo
<1>2. IsFiniteSet(UpTo(S, c)) /\ Cardinality(UpTo(S, c)) <= Cardinality(S)
  BY <1>1, FS_Subset
<1>3. Cardinality(UpTo(S, c)) \in Nat /\ Cardinality(UpTo(S, c)) # 0 /\ Cardinality(S) \in Nat
  BY <1>1, <1>2, FS_CardinalityType, FS_EmptySet
<1>4. Rank(S, c) = Cardinality(UpTo(S, c))
  BY DEF Rank, UpTo
<1> QED
  BY <1>2, <1>3, <1>4

\* Ranks are places: a case that stands later has the higher one.
LEMMA RanksFollowQueue ==
    ASSUME NEW S \in SUBSET Cases, IsFiniteSet(S), NEW c \in S, NEW d \in S
    PROVE  QueueRank[c] < QueueRank[d] <=> Rank(S, c) < Rank(S, d)
<1>0. QueueRank[c] \in Nat /\ QueueRank[d] \in Nat /\ \A e \in S : QueueRank[e] \in Nat
  BY ReviewAssumption
<1>1. ASSUME QueueRank[c] < QueueRank[d] PROVE Rank(S, c) < Rank(S, d)
  <2>1. UpTo(S, c) \in SUBSET UpTo(S, d) /\ d \in UpTo(S, d) /\ d \notin UpTo(S, c)
    BY <1>0, <1>1 DEF UpTo
  <2>2. /\ Cardinality(UpTo(S, c)) <= Cardinality(UpTo(S, d))
        /\ Cardinality(UpTo(S, c)) # Cardinality(UpTo(S, d))
    BY <2>1, RankIsCount, FS_Subset
  <2> QED
    BY <2>2, RankIsCount
<1>2. ASSUME QueueRank[d] <= QueueRank[c] PROVE Rank(S, d) <= Rank(S, c)
  <2>1. UpTo(S, d) \in SUBSET UpTo(S, c)
    BY <1>0, <1>2 DEF UpTo
  <2> QED
    BY <2>1, RankIsCount, FS_Subset
<1>3. Rank(S, c) \in Nat /\ Rank(S, d) \in Nat
  BY RankIsCount, FS_CardinalityType
<1> QED
  BY <1>0, <1>1, <1>2, <1>3

\* A finite queue has a last case.
LEMMA LastOfQueue ==
    ASSUME NEW S \in SUBSET Cases, IsFiniteSet(S), S # {}
    PROVE  \E m \in S : \A c \in S : QueueRank[c] <= QueueRank[m]
<1> DEFINE Holds == {s \in SUBSET S :
                       s # {} => \E m \in s : \A c \in s : QueueRank[c] <= QueueRank[m]}
<1>0. \A c \in S : QueueRank[c] \in Nat
  BY ReviewAssumption
<1>1. {} \in Holds
  OBVIOUS
<1>2. ASSUME NEW s \in SUBSET S, s # {}, \A x \in s : s \ {x} \in Holds
      PROVE  s \in Holds
  <2>1. PICK x \in s : TRUE
    BY <1>2
  <2>2. CASE s \ {x} = {}
    BY <1>0, <2>1, <2>2
  <2>3. CASE s \ {x} # {}
    <3>1. PICK m \in s \ {x} : \A c \in s \ {x} : QueueRank[c] <= QueueRank[m]
      BY <1>2, <2>1, <2>3
    <3>2. CASE QueueRank[x] <= QueueRank[m]
      BY <1>0, <2>1, <3>1, <3>2
    <3>3. CASE QueueRank[m] < QueueRank[x]
      <4>1. \A c \in s : QueueRank[c] <= QueueRank[x]
        BY <1>0, <2>1, <3>1, <3>3
      <4> QED
        BY <2>1, <4>1
    <3> QED
      BY <1>0, <2>1, <3>1, <3>2, <3>3
  <2> QED
    BY <2>2, <2>3
<1>3. S \in Holds
  <2> HIDE DEF Holds
  <2> QED
    BY <1>1, <1>2, SetInduction
<1> QED
  BY <1>3

\* Every place of a finite queue is taken.
LEMMA EveryRankIsTaken ==
    ASSUME NEW S \in SUBSET Cases, IsFiniteSet(S), NEW k \in 1 .. Cardinality(S)
    PROVE  \E c \in S : Rank(S, c) = k
<1> DEFINE Holds == {s \in SUBSET S :
                       \A n \in 1 .. Cardinality(s) : \E c \in s : Rank(s, c) = n}
<1>1. {} \in Holds
  BY FS_EmptySet
<1>2. ASSUME NEW s \in SUBSET S, s # {}, \A x \in s : s \ {x} \in Holds
      PROVE  s \in Holds
  <2>0. IsFiniteSet(s) /\ s \in SUBSET Cases /\ Cardinality(s) \in Nat
    BY FS_Subset, FS_CardinalityType
  <2>1. PICK m \in s : \A c \in s : QueueRank[c] <= QueueRank[m]
    BY <1>2, <2>0, LastOfQueue
  <2>2. IsFiniteSet(s \ {m}) /\ Cardinality(s \ {m}) = Cardinality(s) - 1
    BY <2>0, <2>1, FS_RemoveElement
  <2>3. Rank(s, m) = Cardinality(s)
    <3>1. UpTo(s, m) = s
      BY <2>1 DEF UpTo
    <3> QED
      BY <2>0, <2>1, <3>1, RankIsCount
  <2>4. ASSUME NEW c \in s \ {m} PROVE Rank(s, c) = Rank(s \ {m}, c)
    <3>1. ~ QueueRank[m] <= QueueRank[c]
      BY <2>0, <2>1, <2>4, ReviewAssumption
    <3>2. UpTo(s, c) = UpTo(s \ {m}, c)
      BY <3>1 DEF UpTo
    <3> QED
      BY <2>0, <2>2, <2>4, <3>2, RankIsCount
  <2>5. ASSUME NEW n \in 1 .. Cardinality(s) PROVE \E c \in s : Rank(s, c) = n
    <3>1. CASE n = Cardinality(s)
      BY <2>1, <2>3, <3>1
    <3>2. CASE n # Cardinality(s)
      <4>1. n \in 1 .. Cardinality(s \ {m})
        BY <2>0, <2>2, <2>5, <3>2
      <4>2. s \ {m} \in Holds
        BY <1>2, <2>1
      <4> QED
        BY <2>4, <4>1, <4>2
    <3> QED
      BY <3>1, <3>2
  <2> QED
    BY <2>5
<1>3. S \in Holds
  <2> HIDE DEF Holds
  <2> QED
    BY <1>1, <1>2, SetInduction
<1> QED
  BY <1>3

\* The page that list_cases loads of a finite queue Q, and what is shown of it.
Loaded(Q) == {c \in Q : Rank(Q, c) <= PageSize + 1}
Shown(Q) == {c \in Q : Rank(Q, c) <= PageSize}

\* The ranks of the loaded cases are their ranks in the queue.
LEMMA LoadedRanks ==
    ASSUME NEW Q \in SUBSET Cases, IsFiniteSet(Q)
    PROVE  /\ Loaded(Q) \in SUBSET Q /\ IsFiniteSet(Loaded(Q))
           /\ Cardinality(Loaded(Q)) \in Nat /\ Cardinality(Loaded(Q)) <= Cardinality(Q)
           /\ \A c \in Loaded(Q) : Rank(Loaded(Q), c) = Rank(Q, c)
           /\ {c \in Loaded(Q) : Rank(Loaded(Q), c) <= PageSize} = Shown(Q)
<1>0. PageSize \in Nat \ {0} /\ \A c \in Q : QueueRank[c] \in Nat /\ Rank(Q, c) \in Nat
  BY RankIsCount, ReviewAssumption, FS_CardinalityType
<1>1. Loaded(Q) \in SUBSET Q /\ IsFiniteSet(Loaded(Q))
  BY FS_Subset DEF Loaded
<1>2. Cardinality(Loaded(Q)) \in Nat /\ Cardinality(Loaded(Q)) <= Cardinality(Q)
  BY <1>1, FS_Subset, FS_CardinalityType
<1>3. ASSUME NEW c \in Loaded(Q) PROVE Rank(Loaded(Q), c) = Rank(Q, c)
  <2>1. ASSUME NEW d \in Q, QueueRank[d] <= QueueRank[c] PROVE d \in Loaded(Q)
    <3>1. ~ Rank(Q, c) < Rank(Q, d)
      BY <1>0, <1>1, <1>3, <2>1, RanksFollowQueue
    <3> QED
      BY <1>0, <1>3, <2>1, <3>1 DEF Loaded
  <2>2. UpTo(Loaded(Q), c) = UpTo(Q, c)
    BY <1>1, <2>1 DEF UpTo
  <2> QED
    BY <1>1, <1>3, <2>2, RankIsCount
<1>4. {c \in Loaded(Q) : Rank(Loaded(Q), c) <= PageSize} = Shown(Q)
  BY <1>0, <1>3 DEF Loaded, Shown
<1> QED
  BY <1>1, <1>2, <1>3, <1>4

LEMMA ShownIsAPage ==
    ASSUME NEW Q \in SUBSET Cases, IsFiniteSet(Q)
    PROVE  Cardinality(Shown(Q)) <= PageSize
<1>1. Shown(Q) \in SUBSET Q /\ IsFiniteSet(Shown(Q)) /\ PageSize \in Nat
  BY FS_Subset, ReviewAssumption DEF Shown
<1>2. CASE Shown(Q) = {}
  BY <1>1, <1>2, FS_EmptySet
<1>3. CASE Shown(Q) # {}
  <2>1. PICK m \in Shown(Q) : \A c \in Shown(Q) : QueueRank[c] <= QueueRank[m]
    BY <1>1, <1>3, LastOfQueue
  <2>2. m \in Q /\ Rank(Q, m) <= PageSize /\ Shown(Q) \in SUBSET UpTo(Q, m)
    BY <2>1 DEF Shown, UpTo
  <2>3. IsFiniteSet(UpTo(Q, m)) /\ Rank(Q, m) = Cardinality(UpTo(Q, m))
    BY <2>2, RankIsCount
  <2>4. Cardinality(Shown(Q)) <= Cardinality(UpTo(Q, m))
    BY <2>2, <2>3, FS_Subset
  <2> QED
    BY <1>1, <2>2, <2>3, <2>4, FS_CardinalityType
<1> QED
  BY <1>2, <1>3

\* A queue of one page is shown as a whole; a longer one ends its page at the
\* case with rank PageSize, and the rest of it stands behind that case.
LEMMA PageOfQueue ==
    ASSUME NEW Q \in SUBSET Cases, IsFiniteSet(Q)
    PROVE  IF Cardinality(Loaded(Q)) > PageSize
           THEN /\ \E c \in Shown(Q) : Rank(Loaded(Q), c) = PageSize
                /\ \A c \in Shown(Q) : Rank(Loaded(Q), c) = PageSize =>
                     {d \in Q : QueueRank[d] > QueueRank[c]} = Q \ Shown(Q)
           ELSE Shown(Q) = Q
<1>0. /\ PageSize \in Nat \ {0} /\ Cardinality(Q) \in Nat
      /\ \A c \in Q : QueueRank[c] \in Nat /\ Rank(Q, c) \in 1 .. Cardinality(Q)
  BY RankIsCount, ReviewAssumption, FS_CardinalityType
<1>1. CASE Cardinality(Loaded(Q)) > PageSize
  <2>1. PageSize \in 1 .. Cardinality(Q)
    BY <1>0, <1>1, LoadedRanks
  <2>2. PICK c \in Q : Rank(Q, c) = PageSize
    BY <2>1, EveryRankIsTaken
  <2>3. c \in Shown(Q) /\ c \in Loaded(Q)
    BY <1>0, <2>2 DEF Shown, Loaded
  <2>4. Rank(Loaded(Q), c) = PageSize
    BY <2>2, <2>3, LoadedRanks
  <2>5. ASSUME NEW d \in Shown(Q), Rank(Loaded(Q), d) = PageSize
        PROVE  {e \in Q : QueueRank[e] > QueueRank[d]} = Q \ Shown(Q)
    <3>1. d \in Q /\ d \in Loaded(Q)
      BY <1>0 DEF Shown, Loaded
    <3>2. Rank(Q, d) = PageSize
      BY <2>5, <3>1, LoadedRanks
    <3>3. \A e \in Q : QueueRank[e] > QueueRank[d] <=> Rank(Q, e) > PageSize
      <4>1. \A e \in Q : QueueRank[d] < QueueRank[e] <=> Rank(Q, d) < Rank(Q, e)
        BY <3>1, RanksFollowQueue
      <4> QED
        BY <1>0, <3>1, <3>2, <4>1
    <3> QED
      BY <1>0, <3>3 DEF Shown
  <2> QED
    BY <1>1, <2>3, <2>4, <2>5
<1>2. CASE ~ Cardinality(Loaded(Q)) > PageSize
  <2>1. ASSUME Cardinality(Q) > PageSize PROVE FALSE
    <3>1. PageSize + 1 \in 1 .. Cardinality(Q)
      BY <1>0, <2>1
    <3>2. PICK c \in Q : Rank(Q, c) = PageSize + 1
      BY <3>1, EveryRankIsTaken
    <3>3. c \in Loaded(Q)
      BY <1>0, <3>2 DEF Loaded
    <3>4. Rank(Loaded(Q), c) = PageSize + 1 /\ Rank(Loaded(Q), c) \in 1 .. Cardinality(Loaded(Q))
      <4>1. Loaded(Q) \in SUBSET Cases /\ IsFiniteSet(Loaded(Q))
        BY LoadedRanks
      <4> QED
        BY <3>2, <3>3, <4>1, LoadedRanks, RankIsCount
    <3> QED
      BY <1>0, <1>2, <3>4, LoadedRanks
  <2>2. Shown(Q) = Q
    BY <1>0, <2>1 DEF Shown
  <2> QED
    BY <1>2, <2>2
<1> QED
  BY <1>1, <1>2

\* Only finitely many cases are ever opened.
OpenedCases == {c \in Cases : cases[c] # None}
QueueInv == ReviewInv /\ IsFiniteSet(OpenedCases)

LEMMA OpenedStaysFinite == QueueInv /\ [Next]_reviewVars => QueueInv'
<1> SUFFICES ASSUME QueueInv, [Next]_reviewVars PROVE QueueInv'
  OBVIOUS
<1>0. ReviewInv /\ ReviewInv'
  BY ReviewInvStep DEF QueueInv
<1>1. \E b : \A c \in Cases : c # b => cases'[c] = cases[c]
  <2>1. CASE UNCHANGED tables \/ UNCHANGED reviewVars
    BY <2>1 DEF tables, reviewVars
  <2>2. CASE TablesMove /\ ~ UNCHANGED tables
    <3>1. cases' = cases \/ \E b, y : cases' = [cases EXCEPT ![b] = y]
      BY <2>2 DEF TablesMove, Opens, ClaimMade, DecisionMade, HandoffMade, UpdateCase
    <3>2. cases \in [Cases -> HumanReviewCase \cup {None}]
      BY <1>0 DEF ReviewInv, ReviewTypeOK
    <3> QED
      BY <3>1, <3>2
  <2> QED
    BY <1>0, <2>1, <2>2, StepMoves DEF Moves, tables
<1>2. PICK b : \A c \in Cases : c # b => cases'[c] = cases[c]
  BY <1>1
<1>3. OpenedCases' \in SUBSET (OpenedCases \cup {b})
  BY <1>2 DEF OpenedCases
<1>4. IsFiniteSet(OpenedCases \cup {b})
  BY FS_AddElement DEF QueueInv
<1>5. IsFiniteSet(OpenedCases')
  BY <1>3, <1>4, FS_Subset
<1> QED
  BY <1>0, <1>5 DEF QueueInv

LEMMA PagesHold == QueueInv => PagesShowTheQueue
<1> SUFFICES ASSUME QueueInv, NEW r \in Reviewers,
                    NEW after \in {-1} \cup {QueueRank[c] : c \in Cases}
             PROVE  LET page == ListQueue(r, after)
                        rest == UNION {Queued(r, cursor) : cursor \in page.continuation}
                    IN  /\ page.items \cup rest = Queued(r, after)
                        /\ page.items \cap rest = {}
                        /\ Cardinality(page.items) <= PageSize
                        /\ page.continuation # {} => page.items # {}
  BY DEF PagesShowTheQueue
<1> DEFINE Q == Queued(r, after)
           page == ListQueue(r, after)
           rest == UNION {Queued(r, cursor) : cursor \in page.continuation}
           Ends == {d \in Shown(Q) : Rank(Loaded(Q), d) = PageSize}
<1>0. after \in Int /\ \A c \in Cases : QueueRank[c] \in Nat
  BY ReviewAssumption
<1>1. Q \in SUBSET Cases /\ IsFiniteSet(Q)
  <2>1. Q \in SUBSET OpenedCases /\ Q \in SUBSET Cases
    BY DEF Queued, OpenedCases
  <2> QED
    BY <2>1, FS_Subset DEF QueueInv
<1>2. LoadCases(r, after) = Loaded(Q)
  BY DEF LoadCases, Loaded
<1>3. /\ page.items = Shown(Q)
      /\ page.continuation = IF Cardinality(Loaded(Q)) > PageSize
                             THEN {QueueRank[c] : c \in Ends} ELSE {}
  <2>1. {c \in Loaded(Q) : Rank(Loaded(Q), c) <= PageSize} = Shown(Q)
    BY <1>1, LoadedRanks
  <2> QED
    BY <1>2, <2>1 DEF ListQueue
<1>4. \A c \in Q : Queued(r, QueueRank[c]) = {d \in Q : QueueRank[d] > QueueRank[c]}
  BY <1>0 DEF Queued
<1>5. Shown(Q) \in SUBSET Q
  BY DEF Shown
<1>6. Cardinality(Shown(Q)) <= PageSize
  BY <1>1, ShownIsAPage
<1> HIDE DEF Q, page
<1>7. rest = Q \ Shown(Q)
  <2>1. CASE Cardinality(Loaded(Q)) > PageSize
    <3>1. Ends # {} /\ \A c \in Ends : Queued(r, QueueRank[c]) = Q \ Shown(Q)
      BY <1>1, <1>4, <1>5, <2>1, PageOfQueue
    <3>2. rest = UNION {Queued(r, QueueRank[c]) : c \in Ends}
      BY <1>3, <2>1
    <3> QED
      BY <3>1, <3>2
  <2>2. CASE ~ Cardinality(Loaded(Q)) > PageSize
    <3>1. Shown(Q) = Q
      BY <1>1, <2>2, PageOfQueue
    <3>2. rest = {}
      BY <1>3, <2>2
    <3> QED
      BY <3>1, <3>2
  <2> QED
    BY <2>1, <2>2
<1>8. page.continuation # {} => page.items # {}
  BY <1>3
<1>9. /\ page.items \cup rest = Queued(r, after)
      /\ page.items \cap rest = {}
      /\ Cardinality(page.items) <= PageSize
  BY <1>3, <1>5, <1>6, <1>7 DEF Q
<1> QED
  BY <1>8, <1>9 DEF page

\* Page by page a reviewer is shown each case of his queue once, from whatever
\* cursor he continues (list_cases and list_queue), for any number of cases, any
\* page size and any order of the queue.
THEOREM ReviewPagesShowTheQueue == Spec => []PagesShowTheQueue
<1>1. Init => QueueInv
  <2>1. Init => OpenedCases = {}
    BY DEF Init, OpenedCases
  <2> QED
    BY <2>1, ReviewInvInit, FS_EmptySet DEF QueueInv
<1> QED
  BY <1>1, OpenedStaysFinite, PagesHold, PTL DEF Spec
=============================================================================
