------------------------------- MODULE Corpus -------------------------------
(* The published chunks that retrieval can return, with the metadata the     *)
(* evidence pipeline reads.  Chunks and versions are numbered in the order   *)
(* of their identities, because the code sorts by them; dates are numbers.   *)
EXTENDS Integers, FiniteSets

CONSTANTS Chunks,   \* chunk identities
          Info,     \* what is recorded of each chunk
          Texts     \* what a chunk, a claim or a statement can say

NoDate == 0
Date   == Nat

ASSUME CorpusAssumption ==
    /\ Chunks \subseteq Nat /\ IsFiniteSet(Chunks)
    /\ \A c \in Chunks :
          /\ Info[c].version \in Nat
          /\ Info[c].text \in Texts
          /\ Info[c].size \in Nat \ {0}
          /\ Info[c].official \in BOOLEAN
          /\ Info[c].intact \in BOOLEAN
          /\ Info[c].periods \subseteq Date \X Date
          /\ Info[c].decided \in Date
          /\ Info[c].supersededAt \in Date
          /\ Info[c].observed \in Date
          /\ Info[c].supersedes \subseteq Nat /\ IsFiniteSet(Info[c].supersedes)
          /\ Info[c].supersededBy \subseteq Nat /\ IsFiniteSet(Info[c].supersededBy)

\* What retrieval and resolution say of a chunk.
Applicability == {"APPLICABLE", "NOT_YET_APPLICABLE", "EXPIRED", "SUPERSEDED",
                  "CONFLICTING", "UNKNOWN"}
Freshness     == {"FRESH", "STALE", "UNKNOWN", "NOT_APPLICABLE"}

EvidenceStatus == {"SUFFICIENT", "INSUFFICIENT", "CONFLICTING", "STALE",
                   "UNAVAILABLE", "INVALID", "NOT_REQUIRED"}

Source(c)  == Info[c].source
Version(c) == Info[c].version
Subject(c) == Info[c].subject
TextOf(c)  == Info[c].text
=============================================================================
