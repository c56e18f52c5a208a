---------------------------- MODULE AnswerRelease ----------------------------
(* Steps 22 to 26 for one request: the two drafts are asked of the provider  *)
(* and kept in an immutable store (modeling/service.py,                      *)
(* verification/service.py), and the answer is released, retried once,       *)
(* reviewed or refused (answers/service.py).  The request may be delivered   *)
(* again while it is being worked on, or after it ended; each delivery is a  *)
(* worker, and only the store is shared by them.                             *)
EXTENDS ClaimVerification

CONSTANTS Workers,      \* deliveries that may run at the same time
          FirstDrafts,  \* the texts of a first draft the provider may return
          SecondDrafts, \* the statements of a second draft it may return
          Grades,       \* what the semantic verifiers may say
          MaxAttempts,  \* attempt_policy.max_attempts
          MaxRestarts,  \* bound: how often workers are started again
          None          \* no record

Stage == {1, 2}

ASSUME ReleaseAssumption ==
    /\ FirstDrafts \subseteq SUBSET Texts
    /\ SecondDrafts \subseteq SUBSET Statement
    /\ MaxAttempts \in Nat \ {0} /\ MaxRestarts \in Nat
    /\ None \notin [content : FirstDrafts \cup SecondDrafts, by : Workers, run : Nat]

\* No evidence yet: no status of Step 21.
Pending == [status |-> "PENDING"]

VARIABLES evidence,   \* what Step 21 made of the request, or Pending
          stored,     \* the draft of each stage in the store, or None
          work,       \* where each worker is, and the drafts it holds
          runs,       \* how often workers were started again
          released    \* history: the answers given out

releaseVars == << evidence, stored, work, runs, released >>

Contents(s) == IF s = 1 THEN FirstDrafts ELSE SecondDrafts

\* The same text from another call is another draft: provider_request_id and
\* created_at enter its hash.
Draft(s) == [content : Contents(s), by : Workers, run : Nat]

Outcomes == {"NONE", "ANSWER", "REVIEW", "FAILURE", "ERROR"}

Idle == [pc |-> "load", stage |-> 1, attempts |-> 0,
         first |-> None, second |-> None, out |-> "NONE"]

Held(w, s) == IF s = 1 THEN work[w].first ELSE work[w].second

ReleaseInit ==
    /\ evidence = Pending
    /\ stored = [s \in Stage |-> None]
    /\ work = [w \in Workers |-> Idle]
    /\ runs = 0
    /\ released = {}

\* The boundary to the steps before: the resolved evidence of the request.
Receive(e) ==
    /\ evidence = Pending
    /\ evidence' = e
    /\ UNCHANGED << stored, work, runs, released >>

At(w, pc) == work[w].pc = pc /\ evidence # Pending

NeedsDrafts == evidence.route \in HatRoutes

End(w, out) == work' = [work EXCEPT ![w].pc = "done", ![w].out = out]

\* w goes on with d as the draft of its stage.
HoldAt(w, d, pc, stage) ==
  LET r == work[w]
  IN work' = [work EXCEPT
       ![w] = [r EXCEPT !.pc = pc, !.stage = stage, !.attempts = 0,
                        !.first = IF r.stage = 1 THEN d ELSE r.first,
                        !.second = IF r.stage = 2 THEN d ELSE r.second]]

NextStage(w, d) ==
  IF work[w].stage = 1 THEN HoldAt(w, d, "load", 2) ELSE HoldAt(w, d, "final", 2)

-----------------------------------------------------------------------------
(* DraftV1Service.generate and DraftV2Service.generate_and_verify.           *)

Load(w) ==
    /\ At(w, "load") /\ NeedsDrafts
    /\ LET d == stored[work[w].stage]
       IN IF d # None THEN NextStage(w, d)
          ELSE work' = [work EXCEPT ![w].pc = "ask"]
    /\ UNCHANGED << evidence, stored, runs, released >>

LoadFails(w) ==
    /\ At(w, "load") /\ NeedsDrafts
    /\ End(w, "ERROR")
    /\ UNCHANGED << evidence, stored, runs, released >>

Ask(w) ==
    /\ At(w, "ask")
    /\ \E content \in Contents(work[w].stage) :
         HoldAt(w, [content |-> content, by |-> w, run |-> runs], "put",
                work[w].stage)
    /\ UNCHANGED << evidence, stored, runs, released >>

\* A failure that may be retried, as long as attempts are left; the last one,
\* and one that may not be retried, end the call.
AskAgain(w) ==
    /\ At(w, "ask")
    /\ work[w].attempts + 1 < MaxAttempts
    /\ work' = [work EXCEPT ![w].attempts = @ + 1]
    /\ UNCHANGED << evidence, stored, runs, released >>

AskFails(w) ==
    /\ At(w, "ask")
    /\ End(w, "ERROR")
    /\ UNCHANGED << evidence, stored, runs, released >>

MutantPut(w) ==                        \* whoever comes second overwrites
    /\ At(w, "put")
    /\ stored' = [stored EXCEPT ![work[w].stage] = Held(w, work[w].stage)]
    /\ NextStage(w, Held(w, work[w].stage))
    /\ UNCHANGED << evidence, runs, released >>

\* The store keeps the first draft of a stage; another one is a conflict.
Put(w) ==
    /\ At(w, "put")
    /\ LET s == work[w].stage  d == Held(w, s)
       IN IF stored[s] = None
          THEN stored' = [stored EXCEPT ![s] = d] /\ NextStage(w, d)
          ELSE UNCHANGED stored /\ End(w, "ERROR")
    /\ UNCHANGED << evidence, runs, released >>

\* The transaction fails, with or without its commit.
PutFails(w) ==
    /\ At(w, "put")
    /\ LET s == work[w].stage
       IN \/ UNCHANGED stored
          \/ stored[s] = None /\ stored' = [stored EXCEPT ![s] = Held(w, s)]
    /\ End(w, "ERROR")
    /\ UNCHANGED << evidence, runs, released >>

-----------------------------------------------------------------------------
(* VerifiedAnswerService.finalize.                                           *)

\* The dispositions that the verifiers can lead to for a draft V of w.
Findings(w, V) ==
  IF Gate(evidence) # "OPEN" THEN {Gate(evidence)}
  ELSE UNION {{Disposition(p, V, grades) : grades \in [V -> Grades]} :
                p \in {Packet(evidence, work[w].first.content)}}

Answer(w, content, retried) ==
  [first |-> work[w].first, second |-> work[w].second, content |-> content,
   retried |-> retried]

Release(w, out, content, retried) ==
    /\ End(w, out)
    /\ released' = IF out = "ANSWER"
                   THEN released \cup {Answer(w, content, retried)}
                   ELSE released

\* Without drafts the route alone decides.
FinalizeRoute(w) ==
    /\ At(w, "load") /\ ~NeedsDrafts
    /\ End(w, Gate(evidence))
    /\ UNCHANGED << evidence, stored, runs, released >>

Finalize(w) ==
    /\ At(w, "final")
    /\ \E V \in {work[w].second.content} : \E out \in Findings(w, V) :
         IF out = "RETRY"
         THEN work' = [work EXCEPT ![w].pc = "retry"] /\ UNCHANGED released
         ELSE Release(w, out, V, FALSE)
    /\ UNCHANGED << evidence, stored, runs >>

MutantRetry(w) ==                      \* the old verdicts are kept
    /\ At(w, "retry")
    /\ \E V \in SecondDrafts : Release(w, "ANSWER", V, TRUE)
    /\ UNCHANGED << evidence, stored, runs >>

\* One more draft against the same packet, verified again as a whole.
Retry(w) ==
    /\ At(w, "retry")
    /\ \E V \in SecondDrafts : \E out \in Findings(w, V) :
         Release(w, IF out = "ANSWER" THEN out ELSE "REVIEW", V, TRUE)
    /\ UNCHANGED << evidence, stored, runs >>

\* No provider is configured, or its one attempt fails.
RetryFails(w) ==
    /\ At(w, "retry")
    /\ End(w, "REVIEW")
    /\ UNCHANGED << evidence, stored, runs, released >>

\* The process stops, or the caller repeats its request: nothing is kept but
\* the store.
Restart(w) ==
    /\ evidence # Pending /\ work[w] # Idle
    /\ runs < MaxRestarts
    /\ runs' = runs + 1
    /\ work' = [work EXCEPT ![w] = Idle]
    /\ UNCHANGED << evidence, stored, released >>

-----------------------------------------------------------------------------

WorkerStep(w) ==
    \/ Load(w) \/ LoadFails(w) \/ Ask(w) \/ AskAgain(w) \/ AskFails(w)
    \/ Put(w) \/ PutFails(w)
    \/ FinalizeRoute(w) \/ Finalize(w) \/ Retry(w) \/ RetryFails(w)

ReleaseNext ==
    \/ \E e \in EvidenceOf(Chunks) : Receive(e)
    \/ \E w \in Workers : WorkerStep(w) \/ Restart(w)

ReleaseSpec == ReleaseInit /\ [][ReleaseNext]_releaseVars

-----------------------------------------------------------------------------

(* A draft that leaves as the answer is the one on record: the second draft  *)
(* of every answer, or the failed one that its single retry repaired, is the *)
(* draft in the store, drawn from the stored first draft, although two       *)
(* deliveries ask the provider at the same time, a put is lost or its answer *)
(* is, and a worker starts again in the middle.                              *)
ReleasedDraftIsOnRecord ==
  \A a \in released :
      /\ a.first = stored[1] /\ a.second = stored[2]
      /\ a.retried \/ a.content = a.second.content

(* What a released answer repeats of the first draft was supported: the text *)
(* of a claim that the evidence refutes, that it does not settle, or that it *)
(* covers at another time only, is in no answer in its bare form, the        *)
(* retried ones included.                                                    *)
CarriedClaimsWereSupported ==
  \A a \in released : \A st \in a.content :
      st.text \in a.first.content /\ ~st.hedged /\ Factual(st.text)
        => Status(evidence, st.text) = "SUPPORTED"

(* An answer comes out of sufficient evidence that the policy lets pass, and *)
(* each of its statements of fact is tied to a selected chunk: by a citation *)
(* of the packet, or because it repeats a claim that is bound to it.         *)
Backed(e, D, st) ==
  \E c \in D : \E i \in Links(e, c) \cap e.selected :
      /\ << c, i >> \in st.cites \/ (c = st.text /\ ~st.hedged)
      /\ Relation(e, c, i) \in {"SUPPORTS", "REFUTES"}

AnswersRestOnEvidence ==
  \A a \in released :
      /\ evidence.decision = "ALLOW_ANSWER" /\ evidence.status = "SUFFICIENT"
      /\ \A st \in a.content :
           Factual(st.text) => Backed(evidence, a.first.content, st)
=============================================================================
