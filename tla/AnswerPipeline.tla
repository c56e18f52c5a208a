--------------------------- MODULE AnswerPipeline ---------------------------
(* The composition of Steps 17 to 26 for one request, as the end-to-end      *)
(* runtimes wire it (german_law/e2e_runtime.py, demo_runtime/                *)
(* current_jury_flow.py): the route is decided, evidence is retrieved and    *)
(* bundled, resolved in time, judged by the policy, and the workers of       *)
(* AnswerRelease draft, verify and release against it.                       *)
EXTENDS KnowledgeRouting, EvidenceBundle, TemporalResolution, AnswerRelease

CONSTANTS CandidateSets,  \* candidate HATs that the router may be given
          Contexts,       \* contexts of the policy
          Questions,      \* [asOf, now, available]
          Fallbacks       \* fallback bundles: [given, items, partial]

ASSUME PipelineAssumption ==
    /\ CandidateSets \subseteq SUBSET Candidate
    /\ Contexts \subseteq [scopeAllowed : BOOLEAN, ceiling : Decisions]
    /\ Questions \subseteq [asOf : Date, now : Date, available : BOOLEAN]
    /\ Fallbacks \subseteq [given : BOOLEAN, items : SUBSET Chunks,
                            partial : BOOLEAN]

VARIABLES route,      \* the route of the request, or None
          question,   \* the question that was resolved, or None
          resolution  \* what Step 21 returned for it, or None

stepVars == << route, question, resolution >>
pipelineVars == << stepVars, bundleVars, releaseVars >>

PipelineInit ==
    /\ route = None /\ question = None /\ resolution = None
    /\ BundleInit /\ ReleaseInit

Route ==
    /\ route = None
    /\ \E candidates \in CandidateSets : route' = RouteOf(candidates)
    /\ UNCHANGED << question, resolution, bundleVars, releaseVars >>

Bundle ==
    /\ route \in HatRoutes /\ evidence = Pending
    /\ BundleStep
    /\ UNCHANGED << stepVars, releaseVars >>

Revised ==
    /\ route \in HatRoutes /\ evidence = Pending
    /\ \E c \in Chunks : Revise(c)
    /\ UNCHANGED << stepVars, releaseVars >>

Resolve ==
    /\ phase = "BUNDLED" /\ resolution = None /\ evidence = Pending
    /\ \E q \in Questions : \E fallback \in Fallbacks :
         /\ q.asOf <= q.now
         /\ question' = q
         /\ resolution' = Resolution(items, coverage = "PARTIAL", fallback, q)
    /\ UNCHANGED << route, bundleVars, releaseVars >>

Package(r, context) ==
  [route |-> route, decision |-> KnowledgeDecision(route, context, r.status),
   status |-> r.status, app |-> r.app, fresh |-> r.fresh,
   grouped |-> r.grouped, selected |-> r.selected]

NoResolution == [status |-> "NOT_REQUIRED", app |-> << >>, fresh |-> << >>,
                 grouped |-> {}, selected |-> {}]

\* The drafts are asked for against the frozen resolution; the bundle itself
\* is not read again, and its variables go back to where they started.
Handover ==
    /\ resolution # None
    /\ \E context \in Contexts :
         Receive(Package(resolution, context))
    /\ question' = None /\ resolution' = None
    /\ phase' = "RETRIEVE" /\ hits' = << >> /\ revised' = {}
    /\ queue' = << >> /\ selected' = << >> /\ excluded' = {}
    /\ items' = {} /\ shortened' = {} /\ used' = 0 /\ coverage' = "NONE"
    /\ UNCHANGED route

\* A route without a HAT needs no evidence.
HandoverRoute ==
    /\ route \in KnowledgeRoute \ HatRoutes
    /\ \E context \in Contexts : Receive(Package(NoResolution, context))
    /\ UNCHANGED << stepVars, bundleVars >>

Answering(w) == WorkerStep(w) /\ UNCHANGED << stepVars, bundleVars >>
Restarted(w) == Restart(w) /\ UNCHANGED << stepVars, bundleVars >>

PipelineStep == Route \/ Bundle \/ Resolve \/ Handover \/ HandoverRoute

PipelineNext ==
    \/ PipelineStep \/ Revised
    \/ \E w \in Workers : Answering(w) \/ Restarted(w)

PipelineSpec == PipelineInit /\ [][PipelineNext]_pipelineVars

-----------------------------------------------------------------------------

\* In force at a date by what is recorded of the chunk itself.
InForce(c, d) ==
    /\ Info[c].intact
    /\ \A p \in Info[c].periods : p[1] <= d /\ (p[2] = NoDate \/ d < p[2])
    /\ Info[c].decided <= d
    /\ Info[c].supersededAt = NoDate \/ d < Info[c].supersededAt
    /\ Starts(c) \cup Ends(c) # {} \/ Info[c].decided # NoDate

\* ... and nothing in the evidence names a version that replaces it.
Standing(S, d) == {c \in S : /\ InForce(c, d)
                             /\ Info[c].status = "IN_FORCE"
                             /\ Successors(S, Version(c)) = {}}

(* Evidence that is called sufficient is sound and whole, from the first     *)
(* retrieval to the verdict: what was selected is in force at the date of    *)
(* the question and was observed recently enough, no conflict group is left, *)
(* no two selected chunks give different texts for one subject, and          *)
(* everything that some retrieval found, or the fallback held, and that      *)
(* stands unreplaced was selected, so that no cap, cut, cache or missing     *)
(* modality hid an opposing text.                                            *)
SufficientIsSound ==
  resolution # None =>
    (resolution.status = "SUFFICIENT" =>
       /\ resolution.grouped = {}
       /\ Standing(Found \cup DOMAIN resolution.app, question.asOf)
            \subseteq resolution.selected
       /\ \A c \in resolution.selected :
            /\ InForce(c, question.asOf)
            /\ Info[c].observed \in (question.now - MaxAge)..question.now
       /\ \A c, d \in resolution.selected :
            Subject(c) = Subject(d) => TextOf(c) = TextOf(d))

(* The documents promise that an applicable successor supersedes its         *)
(* predecessor: no selected chunk has a successor in force in the evidence.  *)
SelectedIsLatest ==
  resolution # None =>
    \A c \in resolution.selected :
      ~\E d \in DOMAIN resolution.app :
          /\ << Version(c), Version(d) >> \in Edges(DOMAIN resolution.app)
          /\ InForce(d, question.asOf)
=============================================================================
