-------------------------- MODULE ClaimVerification --------------------------
(* Steps 23 to 26 as decisions: the claims of the first draft are bound to   *)
(* the evidence (claims/), turned into a packet of corrections and           *)
(* prohibitions (corrections/), the second draft is verified against that    *)
(* packet layer by layer (verification/), and the verdicts decide what may   *)
(* be released (answers/policy.py).                                          *)
(*                                                                           *)
(* A claim is its text; the first draft is a set of claims.  A statement of  *)
(* the second draft is [text, hedged, cites]: hedged when it carries one of  *)
(* the qualifiers, so that it is not the bare text any more.  A citation of  *)
(* the packet is the pair of a claim and the chunk that it is bound to.      *)
EXTENDS Corpus, KnowledgeRouting

CONSTANTS Kind,      \* Kind[t]: FACT, SOURCE, COMPOUND or NON_FACTUAL
          Opposes,   \* pairs of texts, one of which denies the other
          Related,   \* pairs of texts that share their words only
          Mentions   \* Mentions[t]: the dates and sections named by a text

Statement == [text : Texts, hedged : BOOLEAN, cites : SUBSET (Texts \X Chunks)]

(* Resolved evidence: the route and the decision of the policy, and what     *)
(* Step 21 found of each item.  Evidence with a conflict group is never      *)
(* called sufficient (SufficientIsSound says so of TemporalResolution).      *)
EvidenceOf(chunks) ==
  {e \in [route    : KnowledgeRoute,
          decision : Decisions,
          status   : EvidenceStatus,
          app      : UNION {[S -> Applicability] : S \in SUBSET chunks},
          fresh    : UNION {[S -> Freshness] : S \in SUBSET chunks},
          grouped  : SUBSET chunks,
          selected : SUBSET chunks] :
     e.status = "SUFFICIENT" => e.grouped = {}}

Factual(t) == Kind[t] # "NON_FACTUAL"

-----------------------------------------------------------------------------
(* Binding: claims/binding.py.                                               *)

RawRelation(c, i) ==
  IF c = TextOf(i) THEN "SUPPORTS"
  ELSE IF << c, TextOf(i) >> \in Opposes THEN "REFUTES"
  ELSE IF << c, TextOf(i) >> \in Related THEN "RELATED_ONLY"
  ELSE "NONE"

Links(e, c) ==
  IF Factual(c) THEN {i \in DOMAIN e.app : RawRelation(c, i) # "NONE"} ELSE {}

AuthorityLow(c, i) == Kind[c] = "SOURCE" /\ ~Info[i].official

Mismatch(e, c, i) == /\ ~AuthorityLow(c, i) /\ i \notin e.grouped
                     /\ e.app[i] # "APPLICABLE" \/ i \notin e.selected

Relation(e, c, i) ==
  IF AuthorityLow(c, i) \/ Mismatch(e, c, i) THEN "INSUFFICIENT"
                                             ELSE RawRelation(c, i)

Bound(e, c, r) == {i \in Links(e, c) : Relation(e, c, i) = r}

InConflict(e, c) ==
    \/ Links(e, c) \cap e.grouped # {}
    \/ Bound(e, c, "SUPPORTS") # {} /\ Bound(e, c, "REFUTES") # {}

Decidable(e, c) ==
    /\ Kind[c] \in {"FACT", "SOURCE"}
    /\ e.status \in {"SUFFICIENT", "CONFLICTING"}
    /\ ~InConflict(e, c)
    /\ \A i \in Links(e, c) : e.fresh[i] # "STALE"

Status(e, c) ==
  IF Decidable(e, c) /\ Bound(e, c, "SUPPORTS") # {} THEN "SUPPORTED"
  ELSE IF Decidable(e, c) /\ Bound(e, c, "REFUTES") # {} THEN "REFUTED"
  ELSE "UNVERIFIED"

-----------------------------------------------------------------------------
(* The packet: corrections/builder.py.                                       *)

\* A link that is out of its time or below the authority that it needs.
Doubtful(e, c) == \E i \in Links(e, c) : AuthorityLow(c, i) \/ Mismatch(e, c, i)

\* Some prohibition names the claim; every kind of them forbids its text.
Prohibited(e, c) == Factual(c) /\ (Status(e, c) # "SUPPORTED" \/ Doubtful(e, c))

\* The three qualifying actions are satisfied in the same way.
Correction(e, c) ==
  IF ~Factual(c) \/ Status(e, c) = "SUPPORTED" THEN "NONE"
  ELSE IF Status(e, c) = "REFUTED" /\ ~Doubtful(e, c) THEN "REMOVE"
  ELSE "QUALIFY"

Citation(e, c, i) == [claim |-> c, chunk |-> i, relation |-> Relation(e, c, i)]

Packet(e, D) ==
  [claims     |-> D,
   evidence   |-> e.status,
   supported  |-> {c \in D : Status(e, c) = "SUPPORTED"},
   refuted    |-> {c \in D : Status(e, c) = "REFUTED"},
   prohibited |-> {c \in D : Prohibited(e, c)},
   removals   |-> {c \in D : Correction(e, c) = "REMOVE"},
   qualified  |-> {c \in D : Correction(e, c) = "QUALIFY"},
   conflicted |-> {c \in D : Links(e, c) \cap e.grouped # {}},
   citations  |-> UNION {{Citation(e, c, i) : i \in Links(e, c)} : c \in D}]

-----------------------------------------------------------------------------
(* The layers: verification/layers.py, for a statement st of a draft V, the  *)
(* packet p and the grade that a semantic verifier gives.                    *)

Aligned(p, st) == IF st.hedged THEN {} ELSE p.claims \cap {st.text}
Known(p, st)   == {l \in p.citations : << l.claim, l.chunk >> \in st.cites}
CitedAs(p, st, r) == \E l \in Known(p, st) : l.relation = r

Matched(p, st, c) == st.text = c \/ \E l \in Known(p, st) : l.claim = c

OriginalPresent(V, c) == \E st \in V : st.text = c /\ ~st.hedged

Satisfied(p, V, c) ==
    \/ ~OriginalPresent(V, c)
    \/ c \in p.qualified /\ \E st \in V : Matched(p, st, c) /\ st.hedged

Required(p) == p.removals \cup p.qualified

Violates(p, st)      == Aligned(p, st) \cap p.prohibited # {}
CitationFails(p, st) == \E l \in st.cites :
                           \A k \in p.citations : << k.claim, k.chunk >> # l

\* A date or section that no claim and no cited source of the packet names.
FactFails(p, st) ==
  ~(Mentions[st.text] \subseteq (UNION {Mentions[c] : c \in p.claims})
                      \cup (UNION {Info[l.chunk].mentions : l \in p.citations}))

SourceFails(p, st) ==
    /\ Kind[st.text] = "SOURCE"
    /\ Known(p, st) = {} \/ \E l \in Known(p, st) : ~Info[l.chunk].official

Capped(p) == IF p.evidence \in {"INSUFFICIENT", "UNAVAILABLE", "STALE", "INVALID"}
             THEN "UNVERIFIED" ELSE "SUPPORTED"

EvidenceLayer(p, st) ==
  IF ~Factual(st.text) THEN "NOT_APPLICABLE"
  ELSE IF \/ CitedAs(p, st, "SUPPORTS") /\ CitedAs(p, st, "REFUTES")
          \/ Aligned(p, st) \cap p.conflicted # {} THEN "CONFLICTING"
  ELSE IF CitedAs(p, st, "REFUTES") THEN "REFUTED"
  ELSE IF CitedAs(p, st, "SUPPORTS") THEN Capped(p)
  ELSE IF Aligned(p, st) \cap p.refuted # {} THEN "REFUTED"
  ELSE IF Aligned(p, st) \cap p.supported # {} THEN Capped(p)
  ELSE "UNVERIFIED"

(* A statement that says, in its exact words, what the evidence against one  *)
(* claim says, where all the satisfied corrections that it meets are of that *)
(* claim: the proof that the code reconstructs.                              *)
ProvesCorrection(p, V, st) ==
  \E l \in Known(p, st) :
     /\ l.relation = "REFUTES"
     /\ {c \in Required(p) : Matched(p, st, c) /\ Satisfied(p, V, c)} = {l.claim}
     /\ st.text = TextOf(l.chunk) /\ ~st.hedged

\* The temporal layer adds nothing that decides: it fails for a prohibited
\* text, or under a status that lets no answer pass.
Judge(p, st, layer, corrected, grade) ==
  IF ~Factual(st.text) THEN "SUPPORTED"
  ELSE IF CitationFails(p, st) THEN "INVALID"
  ELSE IF layer = "CONFLICTING" THEN "CONFLICTING"
  ELSE IF Violates(p, st) \/ SourceFails(p, st) THEN "REFUTED"
  ELSE IF ~corrected /\ (FactFails(p, st) \/ layer = "REFUTED") THEN "REFUTED"
  ELSE IF corrected THEN "SUPPORTED"
  ELSE IF layer = "SUPPORTED" /\ Aligned(p, st) # {} THEN "SUPPORTED"
  ELSE IF layer = "SUPPORTED" /\ grade = "SUPPORTS" THEN "SUPPORTED"
  ELSE IF grade = "REFUTES" THEN "REFUTED"
  ELSE "UNVERIFIED"

Corrected(p, V, st, grade) ==
    /\ EvidenceLayer(p, st) = "REFUTED"
    /\ grade = "SUPPORTS" /\ ProvesCorrection(p, V, st)

Verdict(p, V, st, grade) ==
  Judge(p, st, EvidenceLayer(p, st), Corrected(p, V, st, grade), grade)

-----------------------------------------------------------------------------
(* The disposition: evaluate_final_eligibility.  grades[st] is what the      *)
(* semantic verifiers say of a statement, when they are asked.               *)

Verdicts(p, V, grades) == {Verdict(p, V, st, grades[st]) : st \in V}

Lacking(p, V) ==
    \/ \E c \in Required(p) : ~Satisfied(p, V, c)
    \/ \E st \in V : Violates(p, st) \/ CitationFails(p, st)

MutantGate(e) ==                       \* the decision is compared with BLOCK only
  IF e.route \notin HatRoutes \/ e.decision = "BLOCK_ANSWER" THEN "FAILURE"
  ELSE IF e.status = "CONFLICTING" THEN "REVIEW"
  ELSE IF e.status # "SUFFICIENT" THEN "FAILURE"
  ELSE "OPEN"

\* What the route, the policy and the status say before any verdict.
Gate(e) ==
  IF e.route \notin HatRoutes \/ e.decision = "BLOCK_ANSWER" THEN "FAILURE"
  ELSE IF e.decision = "REQUIRE_CONFIRMATION" THEN "REVIEW"
  ELSE IF e.status = "CONFLICTING" THEN "REVIEW"
  ELSE IF e.status # "SUFFICIENT" THEN "FAILURE"
  ELSE "OPEN"

Settled(verdicts, lacking) ==
  IF verdicts \subseteq {"SUPPORTED"} /\ ~lacking THEN "ANSWER"
  ELSE IF "CONFLICTING" \in verdicts THEN "REVIEW"
  ELSE IF verdicts \cap {"INVALID", "REFUTED"} = {} THEN "RETRY"
  ELSE "REVIEW"

Disposition(p, V, grades) == Settled(Verdicts(p, V, grades), Lacking(p, V))
=============================================================================
