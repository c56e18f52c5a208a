--------------------------- MODULE EvidenceBundle ---------------------------
(* Step 20: one evidence bundle is put together from what the retrieval      *)
(* modalities returned (evidence/fusion.py, diversity.py, budget.py,         *)
(* service.py).  Retrievals run one after the other against a corpus whose   *)
(* registrations may be revised in between; the fusion ranks, the selection  *)
(* visits the exact hits and then the sources in turn, the budget cuts       *)
(* excerpts, and the bundle is frozen with a verdict on its own coverage.    *)
EXTENDS Corpus, Sequences, Functions, FiniteSetsExt

CONSTANTS Requested,      \* the modalities of the hybrid request
          Answers,        \* Answers[m]: the results retrieval m can return
          RrfScale,       \* fixed-point scale of reciprocal rank fusion
          RrfK,           \* its rank offset
          MaxItems,       \* maximum_bundle_items
          MaxExact,       \* MAX_EXACT_PRIORITY_ITEMS
          MaxPerSource,   \* MAX_ITEMS_PER_SOURCE
          MaxPerVersion,  \* MAX_ITEMS_PER_KNOWLEDGE_VERSION
          ContextBudget,  \* context_budget_bytes
          MaxExcerpt,     \* MAX_EXCERPT_BYTES_PER_ITEM
          MinExcerpt,     \* MIN_PARTIAL_EXCERPT_BYTES
          MaxRevisions    \* bound: registrations revised in the meantime

HybridModality ==
    {"STATUTE_SECTION", "EXACT_IDENTIFIER", "FULL_TEXT", "VECTOR", "KEYWORD"}

ASSUME BundleAssumption ==
    /\ Requested \subseteq HybridModality
    /\ \A m \in Requested :
          Answers[m] \subseteq [ranking : Seq(Chunks), cut : BOOLEAN]
    /\ {MaxItems, MaxExact, MaxPerSource, MaxPerVersion, ContextBudget,
        MaxExcerpt, MinExcerpt, MaxRevisions, RrfScale, RrfK} \subseteq Nat

VARIABLES phase,      \* RETRIEVE, SELECT, BUDGET, BUNDLED or REFUSED
          hits,       \* the results received, by modality
          revised,    \* chunks whose registration was revised meanwhile
          queue,      \* candidates the selection has still to visit, in order
          selected,   \* candidates admitted and not yet excerpted, in order
          excluded,   \* candidates left out, whatever the reason
          items,      \* chunks of the bundle
          shortened,  \* those of them whose excerpt is not whole
          used,       \* context_bytes_used
          coverage    \* retrieval_coverage of the frozen bundle

bundleVars == << phase, hits, revised, queue, selected, excluded, items,
                 shortened, used, coverage >>

-----------------------------------------------------------------------------
(* Fusion.                                                                   *)

ModalityWeight == [STATUTE_SECTION |-> 8, EXACT_IDENTIFIER |-> 8,
                   FULL_TEXT |-> 4, VECTOR |-> 3, KEYWORD |-> 2]

Received == DOMAIN hits
Returned(m) == Range(hits[m].ranking)
Found == UNION {Returned(m) : m \in Received}
FoundBy(c) == {m \in Received : c \in Returned(m)}

RankIn(m, c) == CHOOSE r \in DOMAIN hits[m].ranking : hits[m].ranking[r] = c

\* A rank that the modality did not give sorts behind every given one.
RankOr(ms, c) ==
  LET given == ms \cap FoundBy(c)
  IN IF given = {} THEN Cardinality(Chunks) + 1
     ELSE RankIn(CHOOSE m \in given : TRUE, c)

FusedScore(c) ==
  LET part(m) == IF m \in FoundBy(c)
                 THEN (RrfScale * ModalityWeight[m]) \div (RrfK + RankIn(m, c))
                 ELSE 0
  IN part("STATUTE_SECTION") + part("EXACT_IDENTIFIER") + part("FULL_TEXT")
       + part("VECTOR") + part("KEYWORD")

MatchClass(c) ==
  IF "STATUTE_SECTION" \in FoundBy(c) THEN 0
  ELSE IF "EXACT_IDENTIFIER" \in FoundBy(c) THEN 1
  ELSE IF Cardinality(FoundBy(c)) >= 2 THEN 2
  ELSE IF FoundBy(c) # {"VECTOR"} THEN 3
  ELSE 4

RankKey(c) ==
  << MatchClass(c), -FusedScore(c), -Cardinality(FoundBy(c)),
     IF "STATUTE_SECTION" \in FoundBy(c) THEN RankOr({"STATUTE_SECTION"}, c)
                                         ELSE RankOr({"EXACT_IDENTIFIER"}, c),
     RankOr({"FULL_TEXT"}, c), RankOr({"VECTOR"}, c), c >>

LexLess(k, l) == \E i \in DOMAIN k : k[i] < l[i] /\ \A j \in 1..(i - 1) : k[j] = l[j]

Place(c) == Cardinality({d \in Found : LexLess(RankKey(d), RankKey(c))})

\* Two results disagree on a chunk when its registration was revised between
\* the retrievals: its fingerprint differs.
Disagree == \E m, n \in Received : \E c \in Returned(m) \cap Returned(n) :
               (c \in hits[m].revised) # (c \in hits[n].revised)

-----------------------------------------------------------------------------
(* Diversity: the order of the visits and the caps.                          *)

Exact(c) == MatchClass(c) \in {0, 1}

Peers(c) == {d \in Found : ~Exact(d) /\ Source(d) = Source(c)}

\* Exact hits by rank; then the first of each source, then the second of each.
VisitKey(c, place, peers) ==
  IF Exact(c) THEN << 0, place, 0 >>
  ELSE << 1, Cardinality({p \in peers : p < place}), Min(peers) >>

VisitedBefore(c, d) ==
  LexLess(VisitKey(c, Place(c), {Place(p) : p \in Peers(c)}),
          VisitKey(d, Place(d), {Place(p) : p \in Peers(d)}))

\* The orders of S (one each of its members) that the visits can take.
Visits(S) == {q \in [1..Cardinality(S) -> S] :
                /\ Range(q) = S /\ IsInjective(q)
                /\ \A i, j \in DOMAIN q : i < j => VisitedBefore(q[i], q[j])}

Kept == Range(selected) \cup items

Admitted(c) ==
    /\ Exact(c) => Cardinality({d \in Range(selected) \cup excluded : Exact(d)}) < MaxExact
    /\ Cardinality({d \in Range(selected) : Source(d) = Source(c)}) < MaxPerSource
    /\ Cardinality({d \in Range(selected) : Version(d) = Version(c)}) < MaxPerVersion
    /\ Len(selected) < MaxItems

-----------------------------------------------------------------------------
(* The steps.                                                                *)

BundleInit ==
    /\ phase = "RETRIEVE" /\ hits = << >> /\ revised = {}
    /\ queue = << >> /\ selected = << >> /\ excluded = {}
    /\ items = {} /\ shortened = {} /\ used = 0 /\ coverage = "NONE"

Retrieve(m) ==
    /\ phase = "RETRIEVE" /\ m \notin Received
    /\ \E a \in Answers[m] :
         hits' = [n \in Received \cup {m} |->
                    IF n = m
                    THEN [ranking |-> a.ranking, cut |-> a.cut,
                          revised |-> revised \cap Range(a.ranking)]
                    ELSE hits[n]]
    /\ UNCHANGED << phase, revised, queue, selected, excluded, items,
                    shortened, used, coverage >>

\* Environment: the registry revises the registration of a chunk.
Revise(c) ==
    /\ phase = "RETRIEVE" /\ c \notin revised
    /\ Cardinality(revised) < MaxRevisions
    /\ revised' = revised \cup {c}
    /\ UNCHANGED << phase, hits, queue, selected, excluded, items, shortened,
                    used, coverage >>

\* assemble is called with the results there are; the others are missing.
Fuse ==
    /\ phase = "RETRIEVE"
    /\ IF Disagree
       THEN phase' = "REFUSED" /\ UNCHANGED queue
       ELSE phase' = "SELECT" /\ queue' \in Visits(Found)
    /\ UNCHANGED << hits, revised, selected, excluded, items, shortened, used,
                    coverage >>

Examine ==
    /\ phase = "SELECT" /\ queue # << >>
    /\ queue' = Tail(queue)
    /\ LET c == Head(queue) IN
       IF Admitted(c)
       THEN selected' = Append(selected, c) /\ UNCHANGED excluded
       ELSE excluded' = excluded \cup {c} /\ UNCHANGED selected
    /\ UNCHANGED << phase, hits, revised, items, shortened, used, coverage >>

Selected ==
    /\ phase = "SELECT" /\ queue = << >>
    /\ phase' = "BUDGET"
    /\ UNCHANGED << hits, revised, queue, selected, excluded, items, shortened,
                    used, coverage >>

Allowed == IF ContextBudget - used < MaxExcerpt THEN ContextBudget - used
                                                ELSE MaxExcerpt

\* An excerpt ends on a whole character: it may be one unit short.
Excerpt ==
    /\ phase = "BUDGET" /\ selected # << >>
    /\ selected' = Tail(selected)
    /\ LET c == Head(selected) IN
         \/ /\ Info[c].size <= Allowed
            /\ items' = items \cup {c}
            /\ used' = used + Info[c].size
            /\ UNCHANGED << excluded, shortened >>
         \/ /\ Info[c].size > Allowed
            /\ \E n \in {Allowed, Allowed - 1} :
                 IF n < MinExcerpt
                 THEN /\ excluded' = excluded \cup {c}
                      /\ UNCHANGED << items, shortened, used >>
                 ELSE /\ items' = items \cup {c}
                      /\ shortened' = shortened \cup {c}
                      /\ used' = used + n
                      /\ UNCHANGED excluded
    /\ UNCHANGED << phase, hits, revised, queue, coverage >>

MutantTruncated ==                     \* an upstream cut is not inherited
    \/ Received # Requested
    \/ excluded # {} \/ shortened # {}

Truncated ==
    \/ Received # Requested
    \/ \E m \in Received : hits[m].cut
    \/ excluded # {} \/ shortened # {}

Freeze ==
    /\ phase = "BUDGET" /\ selected = << >>
    /\ phase' = "BUNDLED"
    /\ coverage' = IF Truncated THEN "PARTIAL"
                   ELSE IF items = {} THEN "EMPTY" ELSE "COMPLETE"
    /\ UNCHANGED << hits, revised, queue, selected, excluded, items, shortened,
                    used >>

BundleStep ==
    \/ \E m \in Requested : Retrieve(m)
    \/ Fuse \/ Examine \/ Selected \/ Excerpt \/ Freeze

BundleNext == BundleStep \/ \E c \in Chunks : Revise(c)

BundleSpec == BundleInit /\ [][BundleNext]_bundleVars

-----------------------------------------------------------------------------

(* Nothing that a retrieval found gets lost between the stages: each chunk   *)
(* is waiting, admitted, in the bundle or counted as excluded, and in one of *)
(* these only; the caps hold for what is kept; and a bundle that calls       *)
(* itself COMPLETE holds, whole, everything that every requested modality    *)
(* returned.  (The service counts exclusions in three places and derives     *)
(* the verdict from the counts.)                                             *)
EachOnce ==
    /\ Found = Range(queue) \cup Kept \cup excluded
    /\ Range(queue) \cap (Kept \cup excluded) = {} /\ Kept \cap excluded = {}
    /\ Range(selected) \cap items = {}

CapsHold ==
    /\ Cardinality(Kept) <= MaxItems
    /\ \A s \in {Source(c) : c \in Chunks} :
          Cardinality({c \in Kept : Source(c) = s}) <= MaxPerSource
    /\ used <= ContextBudget

CompleteIsWhole ==
    coverage = "COMPLETE" =>
      /\ items = Found /\ shortened = {} /\ Received = Requested
      /\ \A m \in Received : ~hits[m].cut

EvidenceIsAccounted ==
    /\ phase \in {"SELECT", "BUDGET", "BUNDLED"} => EachOnce /\ CapsHold
    /\ CompleteIsWhole
=============================================================================
