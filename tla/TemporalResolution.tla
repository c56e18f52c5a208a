------------------------- MODULE TemporalResolution -------------------------
(* Step 21: what the items of one or two frozen evidence bundles are worth   *)
(* at the date that the question is about (temporal/resolver.py,             *)
(* conflicts.py, freshness.py, service.py).  A pure decision: operators.     *)
EXTENDS Corpus, SequencesExt

CONSTANTS MinApplicable,  \* minimum_applicable_items of the policy
          MaxAge          \* maximum age of an observation before it is STALE

ASSUME ResolutionAssumption == MinApplicable \in Nat \ {0} /\ MaxAge \in Nat

-----------------------------------------------------------------------------
(* What the facts of a chunk say of it at a date.                            *)

Starts(c) == {p[1] : p \in Info[c].periods} \ {NoDate}
Ends(c)   == {p[2] : p \in Info[c].periods} \ {NoDate}

Inverted(c) == \E p \in Info[c].periods : NoDate \notin {p[1], p[2]} /\ p[1] > p[2]

Replaced(c) == \/ Info[c].status \in {"REPEALED", "EXPIRED"}
               \/ Info[c].status = "SUPERSEDED" /\ Info[c].supersededBy = {}

BaseApplicability(c, asOf) ==
  LET i == Info[c]
  IN IF ~i.intact THEN "UNKNOWN"
     ELSE IF Inverted(c) THEN "CONFLICTING"
     ELSE IF \E d \in Starts(c) : asOf < d THEN "NOT_YET_APPLICABLE"
     ELSE IF \E d \in Ends(c) : asOf >= d THEN "EXPIRED"
     ELSE IF i.supersededAt # NoDate /\ asOf >= i.supersededAt THEN "SUPERSEDED"
     ELSE IF Replaced(c) /\ i.supersededAt = NoDate THEN "UNKNOWN"
     ELSE IF Starts(c) \cup Ends(c) = {} /\ i.decided = NoDate THEN "UNKNOWN"
     ELSE IF asOf < i.decided THEN "NOT_YET_APPLICABLE"
     ELSE "APPLICABLE"

\* applicability_facts_hash: all the facts but the dates of observation.
FactsOf(c) == << Info[c].periods, Info[c].decided, Info[c].supersededAt,
                 Info[c].status, Info[c].supersedes, Info[c].supersededBy >>

-----------------------------------------------------------------------------
(* The supersession graph that the items S declare among versions.           *)

Edges(S) == UNION {   {<< Version(c), v >> : v \in Info[c].supersededBy}
                 \cup {<< v, Version(c) >> : v \in Info[c].supersedes} : c \in S}

Predecessors(S)  == {e[1] : e \in Edges(S)}
Successors(S, v) == {e[2] : e \in {d \in Edges(S) : d[1] = v}}
OfVersions(S, V) == {c \in S : Version(c) \in V}

\* The code visits versions in the order of their identities.
Ascending(step(_, _), base, V) ==
  MapThenFoldSet(LAMBDA v, z : step(z, v), base, LAMBDA v : v, Max, V)

\* The depth-first search of _cycle_nodes: a node that is on the path again
\* closes a cycle; a node that is finished is not entered a second time.
Search == [visited : SUBSET Nat, cyclic : SUBSET Nat]

CyclicVersions(S) ==
  LET visit[v \in Nat, path \in Seq(Nat), z \in Search] ==
        IF \E k \in DOMAIN path : path[k] = v
        THEN LET from == CHOOSE k \in DOMAIN path : path[k] = v
             IN [z EXCEPT !.cyclic = @ \cup {path[k] : k \in from..Len(path)}]
        ELSE IF v \in z.visited THEN z
        ELSE LET after == Ascending(LAMBDA y, w : visit[w, Append(path, v), y],
                                    z, Successors(S, v))
             IN [after EXCEPT !.visited = @ \cup {v}]
  IN Ascending(LAMBDA y, v : visit[v, << >>, y],
               [visited |-> {}, cyclic |-> {}], Predecessors(S)).cyclic

-----------------------------------------------------------------------------
(* apply_supersession_and_conflicts: z is the state of the items so far,     *)
(* z.app their applicability as a set of pairs.                              *)

Are(z, a)       == {p[1] : p \in {r \in z.app : r[2] = a}}
Applicable(z)   == Are(z, "APPLICABLE")
Assign(z, D, a) == [z EXCEPT !.app = {p \in @ : p[1] \notin D} \cup (D \X {a})]

\* A group of one is no group: it even takes its item out of the one it had.
Mark(z, D) ==
  LET pair == Cardinality(D) >= 2
      m    == Assign(z, D, "CONFLICTING")
  IN [m EXCEPT !.grouped = IF pair THEN @ \cup D ELSE @ \ D,
               !.conflict = @ \/ pair]

MarkEach(z, groups) == FoldSet(LAMBDA D, y : Mark(y, D), z, groups)

Supersede(S, z, v) ==
  LET old == OfVersions(S, {v})
      new == OfVersions(S, Successors(S, v))
  IN IF old = {} THEN z
     ELSE IF Cardinality(Successors(S, v)) > 1 THEN Mark(z, old \cup new)
     ELSE IF new = {} THEN Assign(z, old, "UNKNOWN")
     ELSE IF new \cap Applicable(z) # {}
     THEN Assign(z, old \cap Applicable(z), "SUPERSEDED")
     ELSE z

Inconsistent(S) == {D \in {OfVersions(S, {v}) : v \in {Version(c) : c \in S}} :
                      \E c, d \in D : FactsOf(c) # FactsOf(d)}

Disputed(S) == {D \in {{c \in S : Subject(c) = s} : s \in {Subject(c) : c \in S}} :
                  \E c, d \in D : TextOf(c) # TextOf(d)}

Undisputed(z) == MarkEach(z, Disputed(Applicable(z)))

Settle(S, asOf) ==
  LET z0 == [app |-> {<< c, BaseApplicability(c, asOf) >> : c \in S},
             grouped |-> {}, conflict |-> FALSE]
      z1 == Mark(z0, OfVersions(S, CyclicVersions(S)))
      z2 == Ascending(LAMBDA z, v : Supersede(S, z, v), z1, Predecessors(S))
  IN Undisputed(MarkEach(z2, Inconsistent(S)))

-----------------------------------------------------------------------------
(* evaluate_freshness and the verdict of resolve.                            *)

FreshnessOf(c, now) ==
  LET seen == Info[c].observed
  IN IF seen = NoDate \/ seen > now THEN "UNKNOWN"
     ELSE IF now - seen > MaxAge THEN "STALE" ELSE "FRESH"

\* The one fallback bundle, tried when the first has too little in force.
FallbackAttempted(primary, fallback, q) ==
    /\ fallback.given /\ q.available
    /\ Cardinality(Applicable(Settle(primary, q.asOf))) < MinApplicable

MutantTooLittle(z, partial) == Applicable(z) = {}   \* coverage is not read

TooLittle(z, partial) == Cardinality(Applicable(z)) < MinApplicable \/ partial

\* The status of items S that were settled as z.
StatusOf(S, z, partial, q) ==
  LET seen == {FreshnessOf(c, q.now) : c \in Applicable(z)}
  IN IF ~q.available THEN "UNAVAILABLE"
     ELSE IF \E c \in S : ~Info[c].intact THEN "INVALID"
     ELSE IF z.conflict \/ Are(z, "CONFLICTING") # {} THEN "CONFLICTING"
     ELSE IF TooLittle(z, partial) THEN "INSUFFICIENT"
     ELSE IF "UNKNOWN" \in seen THEN "INSUFFICIENT"
     ELSE IF "STALE" \in seen THEN "STALE"
     ELSE "SUFFICIENT"

ResolutionOf(S, z, partial, q) ==
  [status   |-> StatusOf(S, z, partial, q),
   app      |-> [c \in S |-> CHOOSE a \in Applicability : << c, a >> \in z.app],
   grouped  |-> z.grouped,
   selected |-> IF q.available THEN Applicable(z) ELSE {},
   fresh    |-> [c \in S |-> IF c \in Applicable(z) THEN FreshnessOf(c, q.now)
                                                   ELSE "NOT_APPLICABLE"]]

\* q = [asOf, now, available]; partial and fallback.partial are the coverage
\* of the two bundles, and the second adds to the first (a chunk of both, whose
\* copies the code compares, is one item here).
Resolution(primary, partial, fallback, q) ==
  IF FallbackAttempted(primary, fallback, q)
  THEN ResolutionOf(primary \cup fallback.items,
                    Settle(primary \cup fallback.items, q.asOf),
                    partial \/ fallback.partial, q)
  ELSE ResolutionOf(primary, Settle(primary, q.asOf), partial, q)
=============================================================================
