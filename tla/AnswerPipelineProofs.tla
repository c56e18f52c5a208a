------------------------ MODULE AnswerPipelineProofs ------------------------
(* Proofs about the answer pipeline, for every corpus, every set of          *)
(* modalities and results, every ranking, cap, question and fallback, every  *)
(* number of deliveries, attempts and restarts, every draft the provider may *)
(* return and every grade of the semantic verifiers.                         *)
(*                                                                           *)
(* Three parts.  Of EvidenceBundle: BundleInv is the inductive invariant.    *)
(* Beside EvidenceIsAccounted it says what each phase has left to do, that   *)
(* no candidate is queued or admitted twice (a candidate that is excerpted   *)
(* would otherwise be admitted still), and that during the selection nothing *)
(* but admitted candidates is kept, so that the length that the code         *)
(* compares with its cap bounds their number.                                *)
(* Of AnswerRelease: ReleaseInv is the inductive invariant.  It says which   *)
(* drafts a delivery holds at each point of the code: from the second stage  *)
(* on its first draft is the stored one, and from the verification on its    *)
(* second is, which the immutable store makes lasting.  Of an answer it      *)
(* keeps that the gate was open and that some grades led to its release;     *)
(* what that means for the evidence is a matter of the verification layers   *)
(* alone, and is shown of them first.                                        *)
(* Of the composition: what TemporalResolution finds is sound for every set  *)
(* of items (an induction over the successions and the conflict groups that  *)
(* it folds over), PipelineInv carries that from the frozen bundle to the    *)
(* hand-over, and every step of the pipeline is then one of AnswerRelease.   *)
EXTENDS AnswerPipeline, InductionLemmas

-----------------------------------------------------------------------------
(* EvidenceBundle.                                                           *)

BundleTypeOK ==
    /\ phase \in {"RETRIEVE", "SELECT", "BUDGET", "BUNDLED", "REFUSED"}
    /\ Found \subseteq Chunks
    /\ queue \in Seq(Chunks) /\ selected \in Seq(Chunks)
    /\ excluded \subseteq Chunks /\ items \subseteq Chunks
    /\ used \in Nat

Begun == phase \notin {"RETRIEVE", "REFUSED"}

Remaining ==
    /\ ~Begun => /\ queue = << >> /\ selected = << >>
                 /\ excluded = {} /\ items = {} /\ used = 0
    /\ phase = "SELECT" => items = {} /\ Cardinality(Kept) <= Len(selected)
    /\ phase = "BUDGET" => queue = << >>
    /\ phase = "BUNDLED" => queue = << >> /\ selected = << >>
    /\ coverage = "COMPLETE" => phase = "BUNDLED"

OnceEach == IsInjective(queue) /\ IsInjective(selected)

BundleInv ==
    /\ BundleTypeOK /\ Remaining /\ OnceEach
    /\ Begun => EachOnce
    /\ CapsHold
    /\ CompleteIsWhole

-----------------------------------------------------------------------------
(* Sequences without repetition.                                             *)

LEMMA RangeOfAppend ==
    ASSUME NEW S, NEW s \in Seq(S), NEW e \in S
    PROVE  /\ Append(s, e) \in Seq(S)
           /\ Range(Append(s, e)) = Range(s) \cup {e}
           /\ Len(Append(s, e)) = Len(s) + 1
           /\ IsInjective(s) /\ e \notin Range(s) => IsInjective(Append(s, e))
<1> DEFINE t == Append(s, e)
<1>1. /\ t \in Seq(S) /\ Len(t) = Len(s) + 1 /\ Len(s) \in Nat
      /\ \A i \in 1..Len(s) : t[i] = s[i]
      /\ t[Len(s) + 1] = e
      /\ DOMAIN s = 1..Len(s) /\ DOMAIN t = 1..(Len(s) + 1)
  OBVIOUS
<1>2. \A i \in DOMAIN t : i \in DOMAIN s \/ i = Len(s) + 1
  BY <1>1
<1> HIDE DEF t
<1>3. Range(t) = Range(s) \cup {e}
  <2>1. Range(t) \subseteq Range(s) \cup {e}
    BY <1>1, <1>2 DEF Range
  <2>2. Range(s) \subseteq Range(t)
    BY <1>1 DEF Range
  <2>3. e \in Range(t)
    <3>1. Len(s) + 1 \in DOMAIN t
      BY <1>1
    <3> QED
      BY <1>1, <3>1 DEF Range
  <2> QED
    BY <2>1, <2>2, <2>3
<1>4. ASSUME IsInjective(s), e \notin Range(s)
      PROVE  IsInjective(t)
  <2> SUFFICES ASSUME NEW i \in DOMAIN t, NEW j \in DOMAIN t, t[i] = t[j]
               PROVE  i = j
    BY DEF IsInjective
  <2>1. CASE i \in DOMAIN s /\ j \in DOMAIN s
    BY <1>1, <1>4, <2>1 DEF IsInjective
  <2>2. CASE i \in DOMAIN s /\ j = Len(s) + 1
    BY <1>1, <1>4, <2>2 DEF Range
  <2>3. CASE i = Len(s) + 1 /\ j \in DOMAIN s
    BY <1>1, <1>4, <2>3 DEF Range
  <2> QED
    BY <1>2, <2>1, <2>2, <2>3
<1> QED
  BY <1>1, <1>3, <1>4 DEF t

LEMMA RangeOfTail ==
    ASSUME NEW S, NEW s \in Seq(S), s # << >>, IsInjective(s)
    PROVE  /\ Head(s) \in S /\ Tail(s) \in Seq(S)
           /\ Range(s) = {Head(s)} \cup Range(Tail(s))
           /\ Head(s) \notin Range(Tail(s))
           /\ IsInjective(Tail(s))
<1> DEFINE t == Tail(s)
<1>1. /\ Len(s) \in Nat \ {0} /\ Head(s) = s[1] /\ Head(s) \in S
      /\ t \in Seq(S) /\ Len(t) = Len(s) - 1
      /\ \A i \in 1..Len(t) : t[i] = s[i + 1]
      /\ DOMAIN s = 1..Len(s) /\ DOMAIN t = 1..(Len(s) - 1)
  OBVIOUS
<1> HIDE DEF t
<1>2. \A i \in DOMAIN t : i + 1 \in DOMAIN s /\ i + 1 # 1 /\ t[i] = s[i + 1]
  BY <1>1
<1>3. \A i \in DOMAIN s : i = 1 \/ (i - 1 \in DOMAIN t /\ t[i - 1] = s[i])
  BY <1>1
<1>4. 1 \in DOMAIN s
  BY <1>1
<1>5. Range(s) = {Head(s)} \cup Range(t)
  <2>1. ASSUME NEW i \in DOMAIN s
        PROVE  s[i] = Head(s) \/ s[i] \in Range(t)
    BY <1>1, <1>3 DEF Range
  <2>2. Range(t) \subseteq Range(s)
    BY <1>2 DEF Range
  <2>3. Head(s) \in Range(s)
    BY <1>1, <1>4 DEF Range
  <2>4. Range(s) \subseteq {Head(s)} \cup Range(t)
    BY <2>1 DEF Range
  <2> QED
    BY <2>2, <2>3, <2>4
<1>6. Head(s) \notin Range(t)
  BY <1>1, <1>2, <1>4 DEF Range, IsInjective
<1>7. IsInjective(t)
  <2> SUFFICES ASSUME NEW i \in DOMAIN t, NEW j \in DOMAIN t, t[i] = t[j]
               PROVE  i = j
    BY DEF IsInjective
  <2>1. s[i + 1] = s[j + 1]
    BY <1>2
  <2>2. i + 1 = j + 1
    BY <1>2, <2>1 DEF IsInjective
  <2> QED
    BY <1>1, <2>2
<1> QED
  BY <1>1, <1>5, <1>6, <1>7 DEF t

LEMMA NothingInEmpty == Range(<< >>) = {} /\ IsInjective(<< >>) /\ << >> \in Seq(Chunks)
BY DEF Range, IsInjective

LEMMA ChunksAreFinite ==
    ASSUME NEW S, S \subseteq Chunks
    PROVE  IsFiniteSet(S) /\ Cardinality(S) \in Nat
BY CorpusAssumption, FS_Subset, FS_CardinalityType

LEMMA FewerAreNoMore ==
    ASSUME NEW S, NEW T, S \subseteq T, T \subseteq Chunks
    PROVE  Cardinality(S) <= Cardinality(T)
BY ChunksAreFinite, FS_Subset
-----------------------------------------------------------------------------
(* The steps.                                                                *)

LEMMA BundleInvInit == BundleInit => BundleInv
<1> SUFFICES ASSUME BundleInit PROVE BundleInv
  OBVIOUS
<1> USE DEF BundleInit
<1>1. Found = {} /\ Range(selected) = {} /\ Kept = {}
  BY DEF Found, Received, Kept, Range
<1>2. BundleTypeOK
  BY <1>1 DEF BundleTypeOK
<1>3. Remaining
  BY DEF Remaining, Begun
<1>4. OnceEach
  BY NothingInEmpty DEF OnceEach
<1>5. CapsHold
  <2>1. Cardinality(Kept) = 0 /\ \A P \in SUBSET Kept : Cardinality(P) = 0
    BY <1>1, FS_EmptySet
  <2>2. \A s : Cardinality({c \in Kept : Source(c) = s}) = 0
    BY <2>1
  <2> QED
    BY <2>1, <2>2, BundleAssumption DEF CapsHold
<1>6. ~Begun /\ CompleteIsWhole
  BY DEF Begun, CompleteIsWhole
<1> QED
  BY <1>2, <1>3, <1>4, <1>5, <1>6 DEF BundleInv

\* What the caps and the accounting look at, where a step leaves it alone.
LEMMA KeptTheSame ==
    ASSUME BundleInv, UNCHANGED << selected, items, used >>
    PROVE  Kept' = Kept /\ CapsHold' /\ IsInjective(selected')
BY DEF BundleInv, Kept, CapsHold, OnceEach

LEMMA RetrieveStep ==
    ASSUME BundleInv, NEW m \in Requested, Retrieve(m)
    PROVE  BundleInv'
<1> USE DEF BundleInv
<1>1. PICK a \in Answers[m] :
        hits' = [n \in Received \cup {m} |->
                   IF n = m
                   THEN [ranking |-> a.ranking, cut |-> a.cut,
                         revised |-> revised \cap Range(a.ranking)]
                   ELSE hits[n]]
  BY DEF Retrieve
<1>2. a.ranking \in Seq(Chunks)
  BY BundleAssumption
<1>3. Range(a.ranking) \subseteq Chunks
  BY <1>2 DEF Range
<1>4. Found' \subseteq Found \cup Range(a.ranking)
  <2>1. \A n \in Received' : n = m \/ n \in Received
    BY <1>1 DEF Received
  <2>2. \A n \in Received' : hits'[n].ranking = IF n = m THEN a.ranking ELSE hits[n].ranking
    BY <1>1 DEF Received
  <2> QED
    BY <2>1, <2>2 DEF Found, Returned
<1>5. phase = "RETRIEVE" /\ UNCHANGED << phase, queue, selected, excluded, items,
                                        shortened, used, coverage >>
  BY DEF Retrieve
<1>6. BundleTypeOK' /\ Remaining' /\ ~Begun' /\ OnceEach'
  BY <1>3, <1>4, <1>5 DEF BundleTypeOK, Remaining, Begun, OnceEach
<1>7. CompleteIsWhole'
  BY <1>5 DEF CompleteIsWhole, Remaining
<1> QED
  BY <1>5, <1>6, <1>7, KeptTheSame

LEMMA ReviseStep ==
    ASSUME BundleInv, UNCHANGED << phase, hits, queue, selected, excluded, items,
                                   shortened, used, coverage >>
    PROVE  BundleInv'
<1>1. UNCHANGED << Found, Received, Kept >>
  BY DEF Found, Received, Returned, Kept
<1> QED
  BY <1>1, KeptTheSame
     DEF BundleInv, BundleTypeOK, Remaining, Begun, OnceEach, EachOnce, CompleteIsWhole

LEMMA FuseStep ==
    ASSUME BundleInv, Fuse
    PROVE  BundleInv'
<1> USE DEF BundleInv
<1>1. /\ phase = "RETRIEVE" /\ queue = << >> /\ selected = << >> /\ excluded = {}
      /\ items = {} /\ used = 0
      /\ UNCHANGED << hits, revised, selected, excluded, items, shortened, used, coverage >>
  BY DEF Fuse, Remaining, Begun
<1>2. Found' = Found /\ Found \subseteq Chunks /\ Kept = {} /\ Kept' = {}
  BY <1>1, NothingInEmpty DEF Found, Received, Returned, Kept, BundleTypeOK
<1>3. coverage # "COMPLETE"
  BY <1>1 DEF Remaining
<1>4. CASE Disagree
  <2>1. phase' = "REFUSED" /\ queue' = queue
    BY <1>4 DEF Fuse
  <2> QED
    BY <1>1, <1>2, <1>3, <2>1, KeptTheSame
       DEF BundleTypeOK, Remaining, Begun, OnceEach, CompleteIsWhole
<1>5. CASE ~Disagree
  <2>1. phase' = "SELECT" /\ queue' \in Visits(Found)
    BY <1>5 DEF Fuse
  <2>2. Cardinality(Found) \in Nat
    BY <1>2, ChunksAreFinite
  <2>3. /\ queue' \in [1..Cardinality(Found) -> Found]
        /\ Range(queue') = Found /\ IsInjective(queue')
    BY <2>1 DEF Visits
  <2>4. queue' \in Seq(Chunks)
    BY <1>2, <2>2, <2>3
  <2>5. Cardinality({}) = 0 /\ Len(selected') = 0
    BY <1>1, FS_EmptySet
  <2>6. BundleTypeOK'
    BY <1>1, <1>2, <2>1, <2>4 DEF BundleTypeOK
  <2>7. Remaining'
    BY <1>1, <1>2, <1>3, <2>1, <2>5 DEF Remaining, Begun
  <2>8. EachOnce'
    BY <1>1, <1>2, <2>3, NothingInEmpty DEF EachOnce
  <2>9. OnceEach' /\ CompleteIsWhole'
    BY <1>1, <1>3, <2>3, KeptTheSame DEF OnceEach, CompleteIsWhole
  <2> QED
    BY <1>1, <2>6, <2>7, <2>8, <2>9, KeptTheSame
<1> QED
  BY <1>4, <1>5

\* A candidate that the caps let pass.
LEMMA AdmitStep ==
    ASSUME BundleInv, phase = "SELECT", NEW c \in Chunks, c \notin Kept, Admitted(c),
           selected' = Append(selected, c), UNCHANGED << items, used >>
    PROVE  /\ Kept' = Kept \cup {c} /\ IsInjective(selected')
           /\ selected' \in Seq(Chunks) /\ Range(selected') = Range(selected) \cup {c}
           /\ Cardinality(Kept') <= Len(selected') /\ CapsHold'
<1> USE DEF BundleInv
<1>1. /\ items = {} /\ Kept = Range(selected) /\ selected \in Seq(Chunks)
      /\ Cardinality(Kept) <= Len(selected) /\ IsInjective(selected)
  BY DEF Remaining, BundleTypeOK, OnceEach, Kept
<1>2. /\ selected' \in Seq(Chunks) /\ Range(selected') = Range(selected) \cup {c}
      /\ Len(selected') = Len(selected) + 1 /\ IsInjective(selected')
      /\ Len(selected) \in Nat
  BY <1>1, RangeOfAppend
<1>3. Kept' = Kept \cup {c} /\ Kept \subseteq Chunks
  BY <1>1, <1>2 DEF Kept, Range
<1>4. Cardinality(Kept') <= Len(selected')
  <2>1. Cardinality(Kept \cup {c}) = Cardinality(Kept) + 1
    BY <1>3, ChunksAreFinite, FS_AddElement
  <2> QED
    BY <1>1, <1>2, <1>3, <2>1, ChunksAreFinite
<1>5. Cardinality(Kept') <= MaxItems
  <2>1. Len(selected) < MaxItems
    BY DEF Admitted
  <2>2. Cardinality(Kept') \in Nat
    BY <1>3, ChunksAreFinite
  <2> QED
    BY <1>2, <1>4, <2>1, <2>2, BundleAssumption
<1>6. ASSUME NEW s \in {Source(d) : d \in Chunks}
      PROVE  Cardinality({d \in Kept' : Source(d) = s}) <= MaxPerSource
  <2> DEFINE P == {d \in Kept : Source(d) = s}
  <2>1. P \subseteq Chunks /\ Cardinality(P) <= MaxPerSource /\ Cardinality(P) \in Nat
    BY <1>3, ChunksAreFinite DEF CapsHold
  <2>2. CASE Source(c) = s
    <3>1. {d \in Kept' : Source(d) = s} = P \cup {c} /\ c \notin P
      BY <1>3, <2>2
    <3>2. Cardinality(P) < MaxPerSource
      BY <1>1, <2>2 DEF Admitted
    <3>3. Cardinality(P \cup {c}) = Cardinality(P) + 1
      BY <2>1, <3>1, ChunksAreFinite, FS_AddElement
    <3> HIDE DEF P
    <3>4. Cardinality(P) + 1 <= MaxPerSource
      BY <2>1, <3>2, BundleAssumption
    <3> QED
      BY <3>1, <3>3, <3>4
  <2>3. CASE Source(c) # s
    <3>1. {d \in Kept' : Source(d) = s} = P
      BY <1>3, <2>3
    <3> QED
      BY <2>1, <3>1
  <2> QED
    BY <2>2, <2>3
<1>7. used' <= ContextBudget
  BY DEF CapsHold
<1> QED
  BY <1>2, <1>3, <1>4, <1>5, <1>6, <1>7 DEF CapsHold

LEMMA ExamineStep ==
    ASSUME BundleInv, Examine
    PROVE  BundleInv'
<1> USE DEF BundleInv
<1> DEFINE c == Head(queue)
<1>1. /\ phase = "SELECT" /\ queue # << >> /\ queue' = Tail(queue)
      /\ UNCHANGED << phase, hits, revised, items, shortened, used, coverage >>
  BY DEF Examine
<1>2. /\ c \in Chunks /\ queue' \in Seq(Chunks) /\ IsInjective(queue')
      /\ Range(queue) = {c} \cup Range(queue') /\ c \notin Range(queue')
  BY <1>1, RangeOfTail DEF BundleTypeOK, OnceEach
<1>3. EachOnce /\ coverage # "COMPLETE" /\ items = {}
  BY <1>1 DEF Begun, Remaining
<1>4. Found' = Found
  BY <1>1 DEF Found, Received, Returned
<1>5. c \notin Kept /\ c \notin excluded
  BY <1>2, <1>3 DEF EachOnce
<1> HIDE DEF c
<1>6. CASE Admitted(c)
  <2>1. selected' = Append(selected, c) /\ excluded' = excluded
    BY <1>6 DEF Examine, c
  <2>2. /\ Kept' = Kept \cup {c} /\ IsInjective(selected')
        /\ selected' \in Seq(Chunks) /\ Range(selected') = Range(selected) \cup {c}
        /\ Cardinality(Kept') <= Len(selected') /\ CapsHold'
    BY <1>1, <1>2, <1>5, <1>6, <2>1, AdmitStep
  <2>3. EachOnce'
    BY <1>1, <1>2, <1>3, <1>4, <1>5, <2>1, <2>2 DEF EachOnce
  <2> QED
    BY <1>1, <1>2, <1>3, <1>4, <2>1, <2>2, <2>3
       DEF BundleTypeOK, Remaining, Begun, OnceEach, CompleteIsWhole
<1>7. CASE ~Admitted(c)
  <2>1. excluded' = excluded \cup {c} /\ selected' = selected
    BY <1>7 DEF Examine, c
  <2>2. Kept' = Kept /\ CapsHold' /\ IsInjective(selected')
    BY <1>1, <2>1, KeptTheSame
  <2>3. EachOnce'
    BY <1>1, <1>2, <1>3, <1>4, <1>5, <2>1, <2>2 DEF EachOnce
  <2> QED
    BY <1>1, <1>2, <1>3, <1>4, <2>1, <2>2, <2>3
       DEF BundleTypeOK, Remaining, Begun, OnceEach, CompleteIsWhole
<1> QED
  BY <1>6, <1>7

LEMMA SelectedStep ==
    ASSUME BundleInv, Selected
    PROVE  BundleInv'
<1>1. UNCHANGED << Found, Received, Kept >>
  BY DEF Selected, Found, Received, Returned, Kept
<1>2. CapsHold' /\ IsInjective(selected')
  BY KeptTheSame DEF Selected
<1> QED
  BY <1>1, <1>2
     DEF Selected, BundleInv, BundleTypeOK, Remaining, Begun, OnceEach, EachOnce,
         CompleteIsWhole

\* The next candidate goes into the bundle or is left out.
LEMMA ExcerptMoves ==
    ASSUME BundleInv, Excerpt
    PROVE  \E c \in Chunks :
             /\ c \in Range(selected) /\ selected' \in Seq(Chunks)
             /\ IsInjective(selected')
             /\ Range(selected) = {c} \cup Range(selected') /\ c \notin Range(selected')
             /\ \/ items' = items \cup {c} /\ excluded' = excluded
                \/ items' = items /\ excluded' = excluded \cup {c}
             /\ used' \in Nat /\ used' <= ContextBudget
<1> USE DEF BundleInv
<1> DEFINE c == Head(selected)
<1>1. selected # << >> /\ selected' = Tail(selected)
  BY DEF Excerpt
<1>2. /\ c \in Chunks /\ selected' \in Seq(Chunks) /\ IsInjective(selected')
      /\ Range(selected) = {c} \cup Range(selected') /\ c \notin Range(selected')
  BY <1>1, RangeOfTail DEF BundleTypeOK, OnceEach
<1>3. Info[c].size \in Nat /\ used \in Nat /\ used <= ContextBudget
  BY <1>2, CorpusAssumption DEF BundleTypeOK, CapsHold
<1>4. Allowed \in Int /\ Allowed <= ContextBudget - used
  BY <1>3, BundleAssumption DEF Allowed
<1>5. \/ items' = items \cup {c} /\ excluded' = excluded
      \/ items' = items /\ excluded' = excluded \cup {c}
  BY DEF Excerpt
<1> HIDE DEF c
<1>6. used' \in Nat /\ used' <= ContextBudget
  <2>0. ContextBudget \in Nat /\ MinExcerpt \in Nat
    BY BundleAssumption
  <2> DEFINE k == Info[c].size
             left == Allowed
  <2>1. \/ used' = used
        \/ k <= left /\ used' = used + k
        \/ \E n \in {left, left - 1} : ~(n < MinExcerpt) /\ used' = used + n
    BY DEF Excerpt, c
  <2>2. k \in Nat /\ used \in Nat /\ used <= ContextBudget
    BY <1>3
  <2>3. left \in Int /\ left <= ContextBudget - used
    BY <1>4
  <2> HIDE DEF k, left
  <2> QED
    BY ONLY <2>0, <2>1, <2>2, <2>3
<1> QED
  BY <1>2, <1>5, <1>6

LEMMA ExcerptStep ==
    ASSUME BundleInv, Excerpt
    PROVE  BundleInv'
<1> USE DEF BundleInv
<1>1. PICK c \in Chunks :
        /\ c \in Range(selected) /\ selected' \in Seq(Chunks)
        /\ IsInjective(selected')
        /\ Range(selected) = {c} \cup Range(selected') /\ c \notin Range(selected')
        /\ \/ items' = items \cup {c} /\ excluded' = excluded
           \/ items' = items /\ excluded' = excluded \cup {c}
        /\ used' \in Nat /\ used' <= ContextBudget
  BY ExcerptMoves
<1>2. phase = "BUDGET" /\ UNCHANGED << phase, hits, revised, queue, coverage >>
  BY DEF Excerpt
<1>3. EachOnce /\ coverage # "COMPLETE" /\ queue = << >>
  BY <1>2 DEF Begun, Remaining
<1>4. UNCHANGED << Found, Received >>
  BY <1>2 DEF Found, Received, Returned
<1>5. Kept' \subseteq Kept /\ Kept \subseteq Chunks
  <2>1. Range(selected) \subseteq Chunks
    BY DEF BundleTypeOK, Range
  <2>2. Range(selected') \subseteq Range(selected)
    BY <1>1
  <2>3. Kept' = Range(selected') \cup items'
    BY DEF Kept
  <2> HIDE DEF BundleInv
  <2>4. Kept' \subseteq Kept
    BY <1>1, <2>2, <2>3 DEF Kept
  <2> QED
    BY <2>1, <2>4 DEF BundleInv, BundleTypeOK, Kept
<1>6. BundleTypeOK'
  BY <1>1, <1>2, <1>4 DEF BundleTypeOK
<1>7. Remaining' /\ OnceEach'
  BY <1>1, <1>2, <1>3 DEF Remaining, Begun, OnceEach
<1>8. EachOnce'
  BY <1>1, <1>2, <1>3, <1>4 DEF EachOnce, Kept
<1>9. CapsHold'
  <2>1. Cardinality(Kept') <= MaxItems
    <3>1. /\ Cardinality(Kept') <= Cardinality(Kept) /\ Cardinality(Kept) <= MaxItems
          /\ Cardinality(Kept') \in Nat /\ Cardinality(Kept) \in Nat
      BY <1>5, FewerAreNoMore, ChunksAreFinite DEF CapsHold
    <3> QED
      BY <3>1, BundleAssumption
  <2>2. ASSUME NEW s \in {Source(d) : d \in Chunks}
        PROVE  Cardinality({d \in Kept' : Source(d) = s}) <= MaxPerSource
    <3> DEFINE P == {d \in Kept : Source(d) = s}
               Q == {d \in Kept' : Source(d) = s}
    <3>1. Q \subseteq P /\ P \subseteq Chunks /\ Q \subseteq Chunks
      BY <1>5
    <3>2. Cardinality(P) <= MaxPerSource
      BY DEF CapsHold
    <3> HIDE DEF P, Q
    <3>3. /\ Cardinality(Q) <= Cardinality(P)
          /\ Cardinality(Q) \in Nat /\ Cardinality(P) \in Nat
      BY <3>1, FewerAreNoMore, ChunksAreFinite
    <3>4. Cardinality(Q) <= MaxPerSource
      BY <3>2, <3>3, BundleAssumption
    <3> QED
      BY <3>4 DEF Q
  <2> QED
    BY <1>1, <2>1, <2>2 DEF CapsHold
<1>10. CompleteIsWhole'
  BY <1>2, <1>3 DEF CompleteIsWhole
<1> QED
  BY <1>6, <1>7, <1>8, <1>9, <1>10

LEMMA FreezeStep ==
    ASSUME BundleInv, Freeze
    PROVE  BundleInv'
<1> USE DEF BundleInv
<1>1. /\ phase = "BUDGET" /\ phase' = "BUNDLED" /\ queue = << >> /\ selected = << >>
      /\ UNCHANGED << hits, revised, queue, selected, excluded, items, shortened, used >>
  BY DEF Freeze, Remaining
<1>2. UNCHANGED << Found, Received, Kept >> /\ EachOnce
  BY <1>1 DEF Found, Received, Returned, Kept, Begun
<1>3. CompleteIsWhole'
  <2> SUFFICES ASSUME coverage' = "COMPLETE"
               PROVE  /\ items' = Found' /\ shortened' = {} /\ Received' = Requested
                      /\ \A m \in Received' : ~hits'[m].cut
    BY DEF CompleteIsWhole
  <2>1. ~Truncated
    BY DEF Freeze
  <2>2. excluded = {} /\ shortened = {} /\ Received = Requested
        /\ \A m \in Received : ~hits[m].cut
    BY <2>1 DEF Truncated
  <2>3. Found = items
    BY <1>1, <1>2, <2>2, NothingInEmpty DEF EachOnce, Kept
  <2> QED
    BY <1>1, <1>2, <2>2, <2>3
<1>4. EachOnce'
  BY <1>1, <1>2 DEF EachOnce
<1> QED
  BY <1>1, <1>2, <1>3, <1>4, KeptTheSame DEF BundleTypeOK, Remaining, Begun, OnceEach

LEMMA BundleInvStep == BundleInv /\ [BundleNext]_bundleVars => BundleInv'
<1> SUFFICES ASSUME BundleInv, [BundleNext]_bundleVars
             PROVE  BundleInv'
  OBVIOUS
<1>1. CASE \E m \in Requested : Retrieve(m)
  BY <1>1, RetrieveStep
<1>2. CASE \E c \in Chunks : Revise(c)
  BY <1>2, ReviseStep DEF Revise
<1>3. CASE Fuse
  BY <1>3, FuseStep
<1>4. CASE Examine
  BY <1>4, ExamineStep
<1>5. CASE Selected
  BY <1>5, SelectedStep
<1>6. CASE Excerpt
  BY <1>6, ExcerptStep
<1>7. CASE Freeze
  BY <1>7, FreezeStep
<1>8. CASE UNCHANGED bundleVars
  BY <1>8, ReviseStep DEF bundleVars
<1> QED
  BY <1>1, <1>2, <1>3, <1>4, <1>5, <1>6, <1>7, <1>8 DEF BundleNext, BundleStep

(* Whatever the retrievals return, fail or repeat, and however the           *)
(* registrations change in between: nothing found gets lost or is counted    *)
(* twice, the caps of evidence/diversity.py and budget.py hold, and a bundle *)
(* that calls itself COMPLETE is whole.                                      *)
THEOREM BundleIsAccounted == BundleSpec => []EvidenceIsAccounted
<1>1. BundleInv => EvidenceIsAccounted
  BY DEF BundleInv, Begun, EvidenceIsAccounted
<1> QED
  BY <1>1, BundleInvInit, BundleInvStep, PTL DEF BundleSpec

-----------------------------------------------------------------------------
(* What the layers let pass.                                                 *)

\* The verifiers can find that V may be released against the draft D.
Passes(e, D, V) ==
    /\ Gate(e) = "OPEN"
    /\ \E grades \in [V -> Grades] : Disposition(Packet(e, D), V, grades) = "ANSWER"

LEMMA OpenGate ==
    ASSUME NEW e \in EvidenceOf(Chunks), Gate(e) = "OPEN"
    PROVE  e.decision = "ALLOW_ANSWER" /\ e.status = "SUFFICIENT" /\ e.grouped = {}
<1>1. e.decision \in Decisions /\ (e.status = "SUFFICIENT" => e.grouped = {})
  BY DEF EvidenceOf
<1> QED
  BY <1>1 DEF Gate, Decisions

\* Every statement was found supported, none repeats a prohibited text.
LEMMA PassingStatements ==
    ASSUME NEW e, NEW D, NEW V, Passes(e, D, V), NEW st \in V
    PROVE  /\ ~Violates(Packet(e, D), st)
           /\ \E grade \in Grades : Verdict(Packet(e, D), V, st, grade) = "SUPPORTED"
<1> DEFINE p == Packet(e, D)
<1>1. PICK grades \in [V -> Grades] : Disposition(p, V, grades) = "ANSWER"
  BY DEF Passes
<1>2. Settled(Verdicts(p, V, grades), Lacking(p, V)) = "ANSWER"
  BY <1>1 DEF Disposition
<1> HIDE DEF p
<1>3. Verdicts(p, V, grades) \subseteq {"SUPPORTED"} /\ ~Lacking(p, V)
  BY <1>2 DEF Settled
<1>4. Verdict(p, V, st, grades[st]) = "SUPPORTED" /\ grades[st] \in Grades
  BY <1>3 DEF Verdicts
<1>5. ~Violates(p, st)
  BY <1>3 DEF Lacking
<1> QED
  BY <1>4, <1>5 DEF p

\* A claim that the packet does not prohibit is a supported one.
LEMMA BareTextIsSupported ==
    ASSUME NEW e, NEW D, NEW st, ~Violates(Packet(e, D), st),
           st.text \in D, ~st.hedged, Factual(st.text)
    PROVE  Status(e, st.text) = "SUPPORTED"
<1>1. Packet(e, D).claims = D /\ Packet(e, D).prohibited = {c \in D : Prohibited(e, c)}
  BY DEF Packet
<1>2. Aligned(Packet(e, D), st) = {st.text}
  BY <1>1 DEF Aligned
<1>3. ~Prohibited(e, st.text)
  BY <1>1, <1>2 DEF Violates
<1> QED
  BY <1>3 DEF Prohibited

\* A link that decides a claim is to a selected chunk.
LEMMA DecisiveLinksAreSelected ==
    ASSUME NEW e, NEW c, NEW i, e.grouped = {},
           Relation(e, c, i) \in {"SUPPORTS", "REFUTES"}
    PROVE  i \in e.selected
<1>1. ~AuthorityLow(c, i) /\ ~Mismatch(e, c, i)
  BY DEF Relation
<1> QED
  BY <1>1 DEF Mismatch

LEMMA CitedLinkBacks ==
    ASSUME NEW e, NEW D, NEW st, e.grouped = {},
           CitedAs(Packet(e, D), st, "SUPPORTS") \/ CitedAs(Packet(e, D), st, "REFUTES")
    PROVE  Backed(e, D, st)
<1>1. Packet(e, D).citations = UNION {{Citation(e, c, i) : i \in Links(e, c)} : c \in D}
  BY DEF Packet
<1>2. PICK l \in Packet(e, D).citations :
        << l.claim, l.chunk >> \in st.cites /\ l.relation \in {"SUPPORTS", "REFUTES"}
  BY DEF CitedAs, Known
<1>3. PICK c \in D : \E i \in Links(e, c) : l = Citation(e, c, i)
  BY <1>1
<1>4. PICK i \in Links(e, c) : l = Citation(e, c, i)
  BY <1>3
<1>5. l.claim = c /\ l.chunk = i /\ l.relation = Relation(e, c, i)
  BY <1>4 DEF Citation
<1>6. i \in e.selected
  BY <1>2, <1>5, DecisiveLinksAreSelected
<1> QED
  BY <1>2, <1>4, <1>5, <1>6 DEF Backed

LEMMA AlignedClaimBacks ==
    ASSUME NEW e, NEW D, NEW st, e.grouped = {},
           Aligned(Packet(e, D), st) \cap Packet(e, D).supported # {}
    PROVE  Backed(e, D, st)
<1>1. /\ Packet(e, D).claims = D
      /\ Packet(e, D).supported = {c \in D : Status(e, c) = "SUPPORTED"}
  BY DEF Packet
<1>2. st.text \in D /\ ~st.hedged /\ Status(e, st.text) = "SUPPORTED"
  BY <1>1 DEF Aligned
<1>3. PICK i \in Links(e, st.text) : Relation(e, st.text, i) = "SUPPORTS"
  BY <1>2 DEF Status, Bound
<1>4. i \in e.selected
  BY <1>3, DecisiveLinksAreSelected
<1> QED
  BY <1>2, <1>3, <1>4 DEF Backed

LEMMA SupportedStatementIsBacked ==
    ASSUME NEW e, NEW D, NEW V, NEW st, NEW grade, e.grouped = {}, Factual(st.text),
           Verdict(Packet(e, D), V, st, grade) = "SUPPORTED"
    PROVE  Backed(e, D, st)
<1> DEFINE p == Packet(e, D)
<1> HIDE DEF p
<1>1. Corrected(p, V, st, grade) \/ EvidenceLayer(p, st) = "SUPPORTED"
  BY DEF Verdict, Judge, p
<1>2. CASE Corrected(p, V, st, grade)
  <2>1. CitedAs(p, st, "REFUTES")
    BY <1>2 DEF Corrected, ProvesCorrection, CitedAs
  <2> QED
    BY <2>1, CitedLinkBacks DEF p
<1>3. CASE EvidenceLayer(p, st) = "SUPPORTED"
  <2>1. CitedAs(p, st, "SUPPORTS") \/ Aligned(p, st) \cap p.supported # {}
    BY <1>3 DEF EvidenceLayer
  <2> QED
    BY <2>1, CitedLinkBacks, AlignedClaimBacks DEF p
<1> QED
  BY <1>1, <1>2, <1>3

-----------------------------------------------------------------------------
(* The invariant.                                                            *)

Delivery ==
  [pc : {"load", "ask", "put", "final", "retry", "done"}, stage : Stage,
   attempts : Nat, first : Draft(1) \cup {None}, second : Draft(2) \cup {None},
   out : Outcomes]

ReleaseTypeOK ==
    /\ evidence = Pending \/ evidence \in EvidenceOf(Chunks)
    /\ stored \in [Stage -> Draft(1) \cup Draft(2) \cup {None}]
    /\ \A s \in Stage : stored[s] \in Draft(s) \cup {None}
    /\ work \in [Workers -> Delivery]
    /\ runs \in Nat

\* What a delivery in the state r holds, where kept is the store.
Placed(r, kept) ==
    /\ r.pc = "put" => IF r.stage = 1 THEN r.first # None ELSE r.second # None
    /\ r.stage = 2 /\ r.pc \in {"load", "ask", "put"}
         => r.first = kept[1] /\ kept[1] # None
    /\ r.pc \in {"final", "retry"}
         => /\ r.first = kept[1] /\ kept[1] # None
            /\ r.second = kept[2] /\ kept[2] # None

OnRecord(a) ==
    /\ a.first = stored[1] /\ stored[1] # None
    /\ a.second = stored[2] /\ stored[2] # None
    /\ a.retried \/ a.content = a.second.content
    /\ Passes(evidence, a.first.content, a.content)

ReleaseInv ==
    /\ ReleaseTypeOK
    /\ \A w \in Workers : Placed(work[w], stored)
    /\ \A a \in released : OnRecord(a)
    /\ evidence = Pending => released = {}

LEMMA NoDraftIsNone == None \notin Draft(1) \cup Draft(2)
BY ReleaseAssumption DEF Draft, Contents

LEMMA ReleaseInvInit == ReleaseInit => ReleaseInv
<1> SUFFICES ASSUME ReleaseInit PROVE ReleaseInv
  OBVIOUS
<1>1. Idle \in Delivery
  BY DEF Idle, Delivery, Stage, Outcomes
<1>2. \A kept : Placed(Idle, kept)
  BY DEF Placed, Idle
<1> QED
  BY <1>1, <1>2 DEF ReleaseInit, ReleaseInv, ReleaseTypeOK, Stage

\* The store is immutable.
StoreGrows == \A s \in Stage : stored[s] # None => stored'[s] = stored[s]

\* One delivery moves to r, over a store that only grows.
LEMMA DeliveryMoves ==
    ASSUME ReleaseInv, NEW w \in Workers, NEW r \in Delivery,
           work' = [work EXCEPT ![w] = r], Placed(r, stored'),
           StoreGrows, \A s \in Stage : stored'[s] \in Draft(s) \cup {None},
           stored' \in [Stage -> Draft(1) \cup Draft(2) \cup {None}],
           evidence' = evidence, runs' \in Nat,
           \A a \in released' : a \in released \/ OnRecord(a)',
           evidence = Pending => released' = {}
    PROVE  ReleaseInv'
<1> USE DEF ReleaseInv
<1>1. ReleaseTypeOK'
  BY DEF ReleaseTypeOK
<1>2. ASSUME NEW v \in Workers
      PROVE  Placed(work[v], stored)'
  <2>1. CASE v = w
    BY <2>1 DEF ReleaseTypeOK
  <2>2. CASE v # w
    <3>1. work'[v] = work[v] /\ Placed(work[v], stored)
      BY <2>2 DEF ReleaseTypeOK
    <3>2. \A s \in {1, 2} : stored[s] # None => stored'[s] = stored[s]
      BY DEF StoreGrows, Stage
    <3> QED
      BY <3>1, <3>2 DEF Placed
  <2> QED
    BY <2>1, <2>2
<1>3. ASSUME NEW a \in released
      PROVE  OnRecord(a)'
  <2>1. \A s \in {1, 2} : stored[s] # None => stored'[s] = stored[s]
    BY DEF StoreGrows, Stage
  <2>2. OnRecord(a)
    OBVIOUS
  <2> QED
    BY <2>1, <2>2 DEF OnRecord
<1> QED
  BY <1>1, <1>2, <1>3

\* A step that leaves store and answers alone.
LEMMA QuietMove ==
    ASSUME ReleaseInv, NEW w \in Workers, NEW r \in Delivery,
           work' = [work EXCEPT ![w] = r], Placed(r, stored),
           UNCHANGED << evidence, stored, released >>, runs' \in Nat
    PROVE  ReleaseInv'
<1>1. StoreGrows /\ Placed(r, stored')
  BY DEF StoreGrows
<1>2. /\ stored' \in [Stage -> Draft(1) \cup Draft(2) \cup {None}]
      /\ \A s \in Stage : stored'[s] \in Draft(s) \cup {None}
  BY DEF ReleaseInv, ReleaseTypeOK
<1>3. \A a \in released' : a \in released
  OBVIOUS
<1>4. evidence = Pending => released' = {}
  BY DEF ReleaseInv
<1> QED
  BY <1>1, <1>2, <1>3, <1>4, DeliveryMoves

\* Ended and renewed deliveries owe nothing.
LEMMA EndIsPlaced ==
    ASSUME ReleaseInv, NEW w \in Workers, NEW out \in Outcomes, End(w, out)
    PROVE  \E r \in Delivery : /\ work' = [work EXCEPT ![w] = r]
                               /\ \A kept : Placed(r, kept)
<1> DEFINE r == [work[w] EXCEPT !.pc = "done", !.out = out]
<1>1. work[w] \in Delivery
  BY DEF ReleaseInv, ReleaseTypeOK
<1>2. r \in Delivery /\ r.pc = "done"
  BY <1>1 DEF Delivery
<1>3. work' = [work EXCEPT ![w] = r]
  BY DEF End
<1>4. \A kept : Placed(r, kept)
  <2> HIDE DEF r
  <2> QED
    BY <1>2 DEF Placed
<1> QED
  BY <1>2, <1>3, <1>4

LEMMA HoldAtGives ==
    ASSUME ReleaseInv, NEW w \in Workers, NEW d \in Draft(work[w].stage),
           NEW pc \in {"load", "put", "final"}, NEW stage \in Stage,
           HoldAt(w, d, pc, stage)
    PROVE  \E r \in Delivery :
             /\ work' = [work EXCEPT ![w] = r]
             /\ r.pc = pc /\ r.stage = stage
             /\ r.first = IF work[w].stage = 1 THEN d ELSE work[w].first
             /\ r.second = IF work[w].stage = 2 THEN d ELSE work[w].second
<1> DEFINE r == [work[w] EXCEPT !.pc = pc, !.stage = stage, !.attempts = 0,
                                !.first = IF work[w].stage = 1 THEN d ELSE work[w].first,
                                !.second = IF work[w].stage = 2 THEN d
                                           ELSE work[w].second]
<1>1. work[w] \in Delivery
  BY DEF ReleaseInv, ReleaseTypeOK
<1>2. /\ r \in Delivery /\ r.pc = pc /\ r.stage = stage
      /\ r.first = IF work[w].stage = 1 THEN d ELSE work[w].first
      /\ r.second = IF work[w].stage = 2 THEN d ELSE work[w].second
  BY <1>1 DEF Delivery, Stage
<1>3. work' = [work EXCEPT ![w] = r]
  BY DEF HoldAt
<1> QED
  BY <1>2, <1>3

\* The draft d of its stage is the stored one: the delivery goes on with it.
LEMMA NextStageIsPlaced ==
    ASSUME ReleaseInv, NEW w \in Workers, NEW d \in Draft(work[w].stage),
           NEW kept, kept[work[w].stage] = d, work[w].pc \in {"load", "put"},
           stored[1] # None => kept[1] = stored[1],
           NextStage(w, d)
    PROVE  \E r \in Delivery : work' = [work EXCEPT ![w] = r] /\ Placed(r, kept)
<1>1. work[w] \in Delivery /\ Placed(work[w], stored) /\ work[w].stage \in {1, 2}
  BY DEF ReleaseInv, ReleaseTypeOK, Delivery, Stage
<1>2. d # None
  BY <1>1, NoDraftIsNone
<1>3. CASE work[w].stage = 1
  <2>1. HoldAt(w, d, "load", 2)
    BY <1>3 DEF NextStage
  <2>2. PICK r \in Delivery :
          /\ work' = [work EXCEPT ![w] = r] /\ r.pc = "load" /\ r.stage = 2
          /\ r.first = d
    BY <1>3, <2>1, HoldAtGives DEF Stage
  <2> QED
    BY <1>2, <1>3, <2>2 DEF Placed
<1>4. CASE work[w].stage = 2
  <2>1. HoldAt(w, d, "final", 2)
    BY <1>4 DEF NextStage
  <2>2. PICK r \in Delivery :
          /\ work' = [work EXCEPT ![w] = r] /\ r.pc = "final"
          /\ r.first = work[w].first /\ r.second = d
    BY <1>4, <2>1, HoldAtGives DEF Stage
  <2>3. work[w].first = stored[1] /\ stored[1] # None
    BY <1>1, <1>4 DEF Placed
  <2> QED
    BY <1>2, <1>4, <2>2, <2>3 DEF Placed
<1> QED
  BY <1>1, <1>3, <1>4

-----------------------------------------------------------------------------
(* The steps.                                                                *)

LEMMA ReceiveStep ==
    ASSUME ReleaseInv, NEW e \in EvidenceOf(Chunks), Receive(e)
    PROVE  ReleaseInv'
BY DEF Receive, ReleaseInv, ReleaseTypeOK, Placed

LEMMA LoadStep ==
    ASSUME ReleaseInv, NEW w \in Workers, Load(w)
    PROVE  ReleaseInv'
<1>1. /\ work[w].pc = "load" /\ work[w].stage \in Stage /\ work[w] \in Delivery
      /\ UNCHANGED << evidence, stored, runs, released >> /\ runs' \in Nat
  BY DEF Load, At, ReleaseInv, ReleaseTypeOK, Delivery
<1>2. CASE stored[work[w].stage] # None
  <2>1. stored[work[w].stage] \in Draft(work[w].stage)
    BY <1>1, <1>2 DEF ReleaseInv, ReleaseTypeOK
  <2>2. NextStage(w, stored[work[w].stage])
    BY <1>2 DEF Load
  <2>3. PICK r \in Delivery : work' = [work EXCEPT ![w] = r] /\ Placed(r, stored)
    BY <1>1, <2>1, <2>2, NextStageIsPlaced
  <2> QED
    BY <1>1, <2>3, QuietMove
<1>3. CASE stored[work[w].stage] = None
  <2> DEFINE r == [work[w] EXCEPT !.pc = "ask"]
  <2>1. work' = [work EXCEPT ![w] = r]
    BY <1>3 DEF Load
  <2>2. /\ r \in Delivery /\ r.pc = "ask" /\ r.first = work[w].first
        /\ r.stage = work[w].stage
    BY <1>1 DEF Delivery
  <2>3. Placed(work[w], stored)
    BY DEF ReleaseInv
  <2> HIDE DEF r
  <2>4. Placed(r, stored)
    BY <1>1, <2>2, <2>3 DEF Placed
  <2> QED
    BY <1>1, <2>1, <2>2, <2>4, QuietMove
<1> QED
  BY <1>2, <1>3

LEMMA AskStep ==
    ASSUME ReleaseInv, NEW w \in Workers, Ask(w)
    PROVE  ReleaseInv'
<1>1. /\ work[w].pc = "ask" /\ work[w].stage \in Stage /\ Placed(work[w], stored)
      /\ UNCHANGED << evidence, stored, runs, released >> /\ runs' \in Nat
  BY DEF Ask, At, ReleaseInv, ReleaseTypeOK, Delivery
<1>2. PICK content \in Contents(work[w].stage) :
        HoldAt(w, [content |-> content, by |-> w, run |-> runs], "put", work[w].stage)
  BY DEF Ask
<1> DEFINE d == [content |-> content, by |-> w, run |-> runs]
<1>3. d \in Draft(work[w].stage)
  BY <1>1, <1>2 DEF Draft
<1>4. d # None
  BY <1>1, <1>3, NoDraftIsNone DEF Stage
<1>5. HoldAt(w, d, "put", work[w].stage)
  BY <1>2
<1> HIDE DEF d
<1>6. PICK r \in Delivery :
        /\ work' = [work EXCEPT ![w] = r]
        /\ r.pc = "put" /\ r.stage = work[w].stage
        /\ r.first = IF work[w].stage = 1 THEN d ELSE work[w].first
        /\ r.second = IF work[w].stage = 2 THEN d ELSE work[w].second
  BY <1>1, <1>3, <1>5, HoldAtGives
<1>7. Placed(r, stored)
  BY <1>1, <1>4, <1>6 DEF Placed, Stage
<1> QED
  BY <1>1, <1>6, <1>7, QuietMove

LEMMA AskAgainStep ==
    ASSUME ReleaseInv, NEW w \in Workers, AskAgain(w)
    PROVE  ReleaseInv'
<1> DEFINE r == [work[w] EXCEPT !.attempts = @ + 1]
<1>1. /\ work[w] \in Delivery /\ Placed(work[w], stored)
      /\ UNCHANGED << evidence, stored, runs, released >> /\ runs' \in Nat
      /\ work' = [work EXCEPT ![w] = r]
  BY DEF AskAgain, ReleaseInv, ReleaseTypeOK
<1>2. /\ r \in Delivery /\ r.pc = work[w].pc /\ r.stage = work[w].stage
      /\ r.first = work[w].first /\ r.second = work[w].second
  BY <1>1 DEF Delivery
<1> HIDE DEF r
<1>3. Placed(r, stored)
  BY <1>1, <1>2 DEF Placed
<1> QED
  BY <1>1, <1>2, <1>3, QuietMove

\* A delivery that ends without an answer.
LEMMA EndStep ==
    ASSUME ReleaseInv, NEW w \in Workers, NEW out \in Outcomes, End(w, out),
           UNCHANGED << evidence, stored, runs, released >>
    PROVE  ReleaseInv'
<1>1. PICK r \in Delivery : work' = [work EXCEPT ![w] = r] /\ \A kept : Placed(r, kept)
  BY EndIsPlaced
<1>2. runs' \in Nat
  BY DEF ReleaseInv, ReleaseTypeOK
<1> QED
  BY <1>1, <1>2, QuietMove

\* The draft that is put, and what it does to a store that has none.
LEMMA PutKeeps ==
    ASSUME ReleaseInv, NEW w \in Workers, At(w, "put"), NEW d,
           d = Held(w, work[w].stage), stored[work[w].stage] = None,
           stored' = [stored EXCEPT ![work[w].stage] = d]
    PROVE  /\ d \in Draft(work[w].stage) /\ stored'[work[w].stage] = d
           /\ StoreGrows
           /\ \A s \in Stage : stored'[s] \in Draft(s) \cup {None}
           /\ stored' \in [Stage -> Draft(1) \cup Draft(2) \cup {None}]
<1>1. /\ work[w] \in Delivery /\ work[w].stage \in {1, 2} /\ work[w].pc = "put"
      /\ Placed(work[w], stored) /\ stored \in [Stage -> Draft(1) \cup Draft(2) \cup {None}]
      /\ \A s \in Stage : stored[s] \in Draft(s) \cup {None}
  BY DEF ReleaseInv, ReleaseTypeOK, Delivery, Stage, At
<1>2. d \in Draft(work[w].stage)
  BY <1>1 DEF Held, Placed, Delivery
<1>3. \A s \in Stage : stored'[s] = IF s = work[w].stage THEN d ELSE stored[s]
  BY <1>1 DEF Stage
<1>4. d \in Draft(1) \cup Draft(2)
  BY <1>1, <1>2
<1> QED
  BY <1>1, <1>2, <1>3, <1>4 DEF StoreGrows, Stage

LEMMA PutStep ==
    ASSUME ReleaseInv, NEW w \in Workers, Put(w)
    PROVE  ReleaseInv'
<1> DEFINE d == Held(w, work[w].stage)
<1>1. /\ At(w, "put") /\ UNCHANGED << evidence, runs, released >> /\ runs' \in Nat
      /\ work[w].stage \in Stage
  BY DEF Put, ReleaseInv, ReleaseTypeOK, Delivery
<1>2. CASE stored[work[w].stage] = None
  <2>1. stored' = [stored EXCEPT ![work[w].stage] = d] /\ NextStage(w, d)
    BY <1>2 DEF Put
  <2>2. /\ d \in Draft(work[w].stage) /\ stored'[work[w].stage] = d
        /\ StoreGrows
        /\ \A s \in Stage : stored'[s] \in Draft(s) \cup {None}
        /\ stored' \in [Stage -> Draft(1) \cup Draft(2) \cup {None}]
    BY <1>1, <1>2, <2>1, PutKeeps
  <2>3. PICK kept : kept = stored'
    OBVIOUS
  <2> HIDE DEF d
  <2>4. \E r \in Delivery : work' = [work EXCEPT ![w] = r] /\ Placed(r, kept)
    <3>1. stored[1] # None => kept[1] = stored[1]
      BY <2>2, <2>3 DEF StoreGrows, Stage
    <3>2. kept[work[w].stage] = d /\ work[w].pc \in {"load", "put"}
      BY <1>1, <2>2, <2>3 DEF At
    <3> QED
      BY <2>1, <2>2, <3>1, <3>2, NextStageIsPlaced
  <2>5. PICK r \in Delivery : work' = [work EXCEPT ![w] = r] /\ Placed(r, stored')
    BY <2>3, <2>4
  <2>6. evidence = Pending => released' = {}
    BY <1>1 DEF ReleaseInv
  <2>7. \A a \in released' : a \in released
    BY <1>1
  <2> QED
    BY <1>1, <2>2, <2>5, <2>6, <2>7, DeliveryMoves
<1>3. CASE stored[work[w].stage] # None
  BY <1>1, <1>3, EndStep DEF Put, Outcomes
<1> QED
  BY <1>2, <1>3

LEMMA PutFailsStep ==
    ASSUME ReleaseInv, NEW w \in Workers, PutFails(w)
    PROVE  ReleaseInv'
<1> DEFINE d == Held(w, work[w].stage)
<1>1. /\ At(w, "put") /\ UNCHANGED << evidence, runs, released >> /\ runs' \in Nat
      /\ End(w, "ERROR") /\ "ERROR" \in Outcomes
  BY DEF PutFails, ReleaseInv, ReleaseTypeOK, Outcomes
<1>2. CASE UNCHANGED stored
  BY <1>1, <1>2, EndStep
<1>3. CASE stored[work[w].stage] = None /\ stored' = [stored EXCEPT ![work[w].stage] = d]
  <2>1. /\ StoreGrows
        /\ \A s \in Stage : stored'[s] \in Draft(s) \cup {None}
        /\ stored' \in [Stage -> Draft(1) \cup Draft(2) \cup {None}]
    BY <1>1, <1>3, PutKeeps
  <2>2. PICK r \in Delivery : work' = [work EXCEPT ![w] = r] /\ \A kept : Placed(r, kept)
    BY <1>1, EndIsPlaced
  <2>3. evidence = Pending => released' = {}
    BY <1>1 DEF ReleaseInv
  <2>4. \A a \in released' : a \in released
    BY <1>1
  <2>5. Placed(r, stored')
    BY <2>2
  <2> QED
    BY <1>1, <2>1, <2>2, <2>3, <2>4, <2>5, DeliveryMoves
<1> QED
  BY <1>2, <1>3 DEF PutFails

LEMMA FindingsMeaning ==
    ASSUME NEW w \in Workers, NEW V, NEW out \in Findings(w, V)
    PROVE  /\ out \in {"ANSWER", "REVIEW", "FAILURE", "RETRY"}
           /\ out = "ANSWER" => Passes(evidence, work[w].first.content, V)
<1> DEFINE p == Packet(evidence, work[w].first.content)
<1>1. CASE Gate(evidence) # "OPEN"
  BY <1>1 DEF Findings, Gate
<1>2. CASE Gate(evidence) = "OPEN"
  <2>1. out \in UNION {{Disposition(q, V, grades) : grades \in [V -> Grades]} : q \in {p}}
    BY <1>2 DEF Findings
  <2>2. PICK grades \in [V -> Grades] : out = Disposition(p, V, grades)
    BY <2>1
  <2>3. out \in {"ANSWER", "REVIEW", "RETRY"}
    <3> HIDE DEF p
    <3> QED
      BY <2>2 DEF Disposition, Settled
  <2> QED
    BY <1>2, <2>2, <2>3 DEF Passes
<1> QED
  BY <1>1, <1>2

\* A verified draft leaves, or the delivery ends without one.
LEMMA ReleaseStep ==
    ASSUME ReleaseInv, NEW w \in Workers, work[w].pc \in {"final", "retry"},
           evidence # Pending, NEW out \in Outcomes, NEW V, NEW retried \in BOOLEAN,
           out = "ANSWER" => Passes(evidence, work[w].first.content, V),
           retried \/ V = work[w].second.content,
           Release(w, out, V, retried), UNCHANGED << evidence, stored, runs >>
    PROVE  ReleaseInv'
<1>1. PICK r \in Delivery : work' = [work EXCEPT ![w] = r] /\ \A kept : Placed(r, kept)
  BY EndIsPlaced DEF Release
<1>2. /\ work[w].first = stored[1] /\ stored[1] # None
      /\ work[w].second = stored[2] /\ stored[2] # None
  BY DEF ReleaseInv, Placed
<1>3. ASSUME NEW a \in released', a \notin released
      PROVE  OnRecord(a)'
  <2>1. out = "ANSWER" /\ a = Answer(w, V, retried)
    BY <1>3 DEF Release
  <2>2. /\ a.first = work[w].first /\ a.second = work[w].second
        /\ a.content = V /\ a.retried = retried
    BY <2>1 DEF Answer
  <2> QED
    BY <1>2, <2>1, <2>2 DEF OnRecord
<1>4. /\ StoreGrows /\ runs' \in Nat /\ Placed(r, stored')
      /\ stored' \in [Stage -> Draft(1) \cup Draft(2) \cup {None}]
      /\ \A s \in Stage : stored'[s] \in Draft(s) \cup {None}
  BY <1>1 DEF StoreGrows, ReleaseInv, ReleaseTypeOK
<1> QED
  BY <1>1, <1>3, <1>4, DeliveryMoves

LEMMA FinalizeStep ==
    ASSUME ReleaseInv, NEW w \in Workers, Finalize(w)
    PROVE  ReleaseInv'
<1>1. /\ work[w].pc = "final" /\ evidence # Pending /\ work[w] \in Delivery
      /\ UNCHANGED << evidence, stored, runs >> /\ Placed(work[w], stored)
  BY DEF Finalize, At, ReleaseInv, ReleaseTypeOK
<1> DEFINE V == work[w].second.content
<1>2. PICK out \in Findings(w, V) :
        IF out = "RETRY"
        THEN work' = [work EXCEPT ![w].pc = "retry"] /\ UNCHANGED released
        ELSE Release(w, out, V, FALSE)
  BY DEF Finalize
<1>3. /\ out \in {"ANSWER", "REVIEW", "FAILURE", "RETRY"}
      /\ out = "ANSWER" => Passes(evidence, work[w].first.content, V)
  BY FindingsMeaning
<1>4. CASE out = "RETRY"
  <2> DEFINE r == [work[w] EXCEPT !.pc = "retry"]
  <2>1. work' = [work EXCEPT ![w] = r] /\ UNCHANGED released
    BY <1>2, <1>4
  <2>2. /\ r \in Delivery /\ r.pc = "retry"
        /\ r.first = work[w].first /\ r.second = work[w].second
    BY <1>1 DEF Delivery
  <2> HIDE DEF r
  <2>3. Placed(r, stored)
    BY <1>1, <2>2 DEF Placed
  <2>4. runs' \in Nat
    BY <1>1 DEF ReleaseInv, ReleaseTypeOK
  <2> QED
    BY <1>1, <2>1, <2>2, <2>3, <2>4, QuietMove
<1>5. CASE out # "RETRY"
  <2>1. out \in Outcomes /\ Release(w, out, V, FALSE)
    BY <1>2, <1>3, <1>5 DEF Outcomes
  <2> QED
    BY <1>1, <1>3, <2>1, ReleaseStep
<1> QED
  BY <1>4, <1>5

LEMMA RetryStep ==
    ASSUME ReleaseInv, NEW w \in Workers, Retry(w)
    PROVE  ReleaseInv'
<1>1. /\ work[w].pc = "retry" /\ evidence # Pending
      /\ UNCHANGED << evidence, stored, runs >>
  BY DEF Retry, At
<1>2. PICK V \in SecondDrafts : \E out \in Findings(w, V) :
        Release(w, IF out = "ANSWER" THEN out ELSE "REVIEW", V, TRUE)
  BY DEF Retry
<1>3. PICK out \in Findings(w, V) :
        Release(w, IF out = "ANSWER" THEN out ELSE "REVIEW", V, TRUE)
  BY <1>2
<1> DEFINE o == IF out = "ANSWER" THEN out ELSE "REVIEW"
<1>4. o = "ANSWER" => Passes(evidence, work[w].first.content, V)
  BY FindingsMeaning
<1>5. o \in Outcomes /\ Release(w, o, V, TRUE)
  BY <1>3 DEF Outcomes
<1> HIDE DEF o
<1> QED
  BY <1>1, <1>4, <1>5, ReleaseStep

LEMMA RestartStep ==
    ASSUME ReleaseInv, NEW w \in Workers, Restart(w)
    PROVE  ReleaseInv'
<1>1. /\ work' = [work EXCEPT ![w] = Idle] /\ runs' \in Nat
      /\ UNCHANGED << evidence, stored, released >>
  BY DEF Restart, ReleaseInv, ReleaseTypeOK
<1>2. Idle \in Delivery /\ Placed(Idle, stored)
  BY DEF Idle, Delivery, Stage, Outcomes, Placed
<1> QED
  BY <1>1, <1>2, QuietMove

LEMMA WorkerStepKeeps ==
    ASSUME ReleaseInv, NEW w \in Workers, WorkerStep(w)
    PROVE  ReleaseInv'
<1>1. {"ERROR", "REVIEW", "FAILURE"} \subseteq Outcomes
  BY DEF Outcomes
<1>2. CASE Load(w)
  BY <1>2, LoadStep
<1>3. CASE LoadFails(w)
  BY <1>1, <1>3, EndStep DEF LoadFails
<1>4. CASE Ask(w)
  BY <1>4, AskStep
<1>5. CASE AskAgain(w)
  BY <1>5, AskAgainStep
<1>6. CASE AskFails(w)
  BY <1>1, <1>6, EndStep DEF AskFails
<1>7. CASE Put(w)
  BY <1>7, PutStep
<1>8. CASE PutFails(w)
  BY <1>8, PutFailsStep
<1>9. CASE FinalizeRoute(w)
  <2>1. Gate(evidence) = "FAILURE"
    BY <1>9 DEF FinalizeRoute, NeedsDrafts, Gate
  <2> QED
    BY <1>1, <1>9, <2>1, EndStep DEF FinalizeRoute
<1>10. CASE Finalize(w)
  BY <1>10, FinalizeStep
<1>11. CASE Retry(w)
  BY <1>11, RetryStep
<1>12. CASE RetryFails(w)
  BY <1>1, <1>12, EndStep DEF RetryFails
<1> QED
  BY <1>2, <1>3, <1>4, <1>5, <1>6, <1>7, <1>8, <1>9, <1>10, <1>11, <1>12
     DEF WorkerStep

LEMMA ReleaseInvStep == ReleaseInv /\ [ReleaseNext]_releaseVars => ReleaseInv'
<1> SUFFICES ASSUME ReleaseInv, [ReleaseNext]_releaseVars
             PROVE  ReleaseInv'
  OBVIOUS
<1>1. CASE \E e \in EvidenceOf(Chunks) : Receive(e)
  BY <1>1, ReceiveStep
<1>2. CASE \E w \in Workers : WorkerStep(w)
  BY <1>2, WorkerStepKeeps
<1>3. CASE \E w \in Workers : Restart(w)
  BY <1>3, RestartStep
<1>4. CASE UNCHANGED releaseVars
  BY <1>4 DEF releaseVars, ReleaseInv, ReleaseTypeOK, OnRecord
<1> QED
  BY <1>1, <1>2, <1>3, <1>4 DEF ReleaseNext

THEOREM ReleaseInvariant == ReleaseSpec => []ReleaseInv
BY ReleaseInvInit, ReleaseInvStep, PTL DEF ReleaseSpec

(* However many deliveries draft at the same time, whose put is lost or      *)
(* whose answer is, and whoever starts again: an answer stands on the two    *)
(* drafts that the store keeps.                                              *)
THEOREM ReleasedDraftsAreOnRecord == ReleaseSpec => []ReleasedDraftIsOnRecord
<1>1. ReleaseInv => ReleasedDraftIsOnRecord
  BY DEF ReleaseInv, OnRecord, ReleasedDraftIsOnRecord
<1> QED
  BY <1>1, ReleaseInvariant, PTL

\* Released answers have resolved evidence behind them.
LEMMA AnswersHaveEvidence ==
    ASSUME ReleaseInv, NEW a \in released
    PROVE  /\ evidence \in EvidenceOf(Chunks)
           /\ Passes(evidence, a.first.content, a.content)
BY DEF ReleaseInv, ReleaseTypeOK, OnRecord

(* No answer repeats in its bare form a claim of the first draft that its    *)
(* evidence does not support, whatever the verifiers and the provider say.   *)
THEOREM CarriedClaimsAreSupported == ReleaseSpec => []CarriedClaimsWereSupported
<1>1. ReleaseInv => CarriedClaimsWereSupported
  <2> SUFFICES ASSUME ReleaseInv, NEW a \in released, NEW st \in a.content,
                      st.text \in a.first.content, ~st.hedged, Factual(st.text)
               PROVE  Status(evidence, st.text) = "SUPPORTED"
    BY DEF CarriedClaimsWereSupported
  <2>1. Passes(evidence, a.first.content, a.content)
    BY AnswersHaveEvidence
  <2> QED
    BY <2>1, PassingStatements, BareTextIsSupported
<1> QED
  BY <1>1, ReleaseInvariant, PTL

(* An answer comes out of sufficient evidence only, and every statement of   *)
(* fact in it is tied to a chunk that was selected.                          *)
THEOREM AnswersAreBacked == ReleaseSpec => []AnswersRestOnEvidence
<1>1. ReleaseInv => AnswersRestOnEvidence
  <2> SUFFICES ASSUME ReleaseInv, NEW a \in released
               PROVE  /\ evidence.decision = "ALLOW_ANSWER"
                      /\ evidence.status = "SUFFICIENT"
                      /\ \A st \in a.content :
                           Factual(st.text) => Backed(evidence, a.first.content, st)
    BY DEF AnswersRestOnEvidence
  <2>1. evidence \in EvidenceOf(Chunks) /\ Passes(evidence, a.first.content, a.content)
    BY AnswersHaveEvidence
  <2>2. /\ evidence.decision = "ALLOW_ANSWER" /\ evidence.status = "SUFFICIENT"
        /\ evidence.grouped = {}
    BY <2>1, OpenGate DEF Passes
  <2>3. ASSUME NEW st \in a.content, Factual(st.text)
        PROVE  Backed(evidence, a.first.content, st)
    <3>1. PICK grade \in Grades :
            Verdict(Packet(evidence, a.first.content), a.content, st, grade) = "SUPPORTED"
      BY <2>1, PassingStatements
    <3> QED
      BY <2>2, <2>3, <3>1, SupportedStatementIsBacked
  <2> QED
    BY <2>2, <2>3
<1> QED
  BY <1>1, ReleaseInvariant, PTL

-----------------------------------------------------------------------------
(* TemporalResolution: the states that the items S go through.               *)

States(S) == [app : SUBSET (S \X Applicability), grouped : SUBSET S, conflict : BOOLEAN]

LEMMA MarkTypes ==
    ASSUME NEW S, NEW z \in States(S), NEW D \in SUBSET S
    PROVE  Mark(z, D) \in States(S)
<1>1. "CONFLICTING" \in Applicability
  BY DEF Applicability
<1>2. Assign(z, D, "CONFLICTING") \in States(S)
  BY <1>1 DEF Assign, States
<1> QED
  BY <1>2 DEF Mark, States

LEMMA SupersedeTypes ==
    ASSUME NEW S, NEW z \in States(S), NEW v
    PROVE  Supersede(S, z, v) \in States(S)
<1>1. {"UNKNOWN", "SUPERSEDED"} \subseteq Applicability
  BY DEF Applicability
<1>2. /\ OfVersions(S, {v}) \in SUBSET S
      /\ OfVersions(S, {v}) \cup OfVersions(S, Successors(S, v)) \in SUBSET S
      /\ OfVersions(S, {v}) \cap Applicable(z) \in SUBSET S
  BY DEF OfVersions
<1>3. /\ Mark(z, OfVersions(S, {v}) \cup OfVersions(S, Successors(S, v))) \in States(S)
  BY <1>2, MarkTypes
<1>4. \A D \in SUBSET S : \A a \in {"UNKNOWN", "SUPERSEDED"} : Assign(z, D, a) \in States(S)
  BY <1>1 DEF Assign, States
<1> QED
  BY <1>2, <1>3, <1>4 DEF Supersede

\* f goes through the groups one after another, as MarkEach does.
Marks(f, z, groups) ==
    /\ f[{}] = z /\ MarkEach(z, groups) = f[groups]
    /\ \A s \in SUBSET groups : s # {} => \E D \in s : f[s] = Mark(f[s \ {D}], D)

LEMMA MarkEachIsFold ==
    ASSUME NEW S, NEW z \in States(S), NEW groups \in SUBSET SUBSET S, IsFiniteSet(groups)
    PROVE  \E f \in [SUBSET groups -> States(S)] : Marks(f, z, groups)
<1> DEFINE pick == [s \in SUBSET groups |-> CHOOSE D \in s : TRUE]
           step == [p \in groups \X States(S) |-> Mark(p[2], p[1])]
           P(it) == it = [s \in SUBSET groups |->
                            IF s = {} THEN z
                            ELSE LET D == CHOOSE D \in s : TRUE IN Mark(it[s \ {D}], D)]
<1>1. \A s \in SUBSET groups : s # {} => pick[s] \in s
  OBVIOUS
<1>2. step \in [groups \X States(S) -> States(S)]
  BY MarkTypes
<1>3. PICK f \in [SUBSET groups -> States(S)] : IsFold(f, groups, z, step, pick)
  <2>1. z \in States(S) /\ IsFiniteSet(groups)
    OBVIOUS
  <2> HIDE DEF pick, step
  <2> QED
    BY ONLY <1>1, <1>2, <2>1, FoldExists
<1>4. P(f)
  <2>1. ASSUME NEW s \in SUBSET groups
        PROVE  f[s] = IF s = {} THEN z
                      ELSE LET D == CHOOSE D \in s : TRUE IN Mark(f[s \ {D}], D)
    <3>1. CASE s = {}
      BY <1>3, <3>1 DEF IsFold
    <3>2. CASE s # {}
      <4>1. pick[s] = (CHOOSE D \in s : TRUE) /\ pick[s] \in groups /\ s \ {pick[s]} \in SUBSET groups
        BY <1>1, <3>2
      <4>2. f[s \ {pick[s]}] \in States(S)
        BY <4>1
      <4>3. step[<<pick[s], f[s \ {pick[s]}]>>] = Mark(f[s \ {pick[s]}], pick[s])
        <5> HIDE DEF pick
        <5> QED
          BY <4>1, <4>2
      <4> QED
        BY <1>3, <3>2, <4>1, <4>3 DEF IsFold
    <3> QED
      BY <3>1, <3>2
  <2> QED
    BY <2>1
<1> DEFINE g == CHOOSE it : P(it)
<1>5. P(g)
  BY <1>4
<1>6. MarkEach(z, groups) = g[groups]
  BY DEF MarkEach, FoldSet, MapThenFoldSet
<1>7. \A s \in SUBSET groups :
         g[s] = IF s = {} THEN z
                ELSE LET D == CHOOSE D \in s : TRUE IN Mark(g[s \ {D}], D)
  <2> HIDE DEF g
  <2> QED
    BY <1>5
<1> HIDE DEF g
<1>8. \A s \in SUBSET groups : s # {} => \E D \in s : g[s] = Mark(g[s \ {D}], D)
  BY <1>7
<1>9. g = [s \in SUBSET groups |-> g[s]]
  BY <1>5
<1>10. ASSUME NEW t \in SUBSET groups PROVE g[t] \in States(S)
  <2> DEFINE Holds == {s \in SUBSET groups : g[s] \in States(S)}
  <2>1. {} \in Holds
    BY <1>7
  <2>2. \A s \in SUBSET t : s # {} /\ (\A x \in s : s \ {x} \in Holds) => s \in Holds
    <3> SUFFICES ASSUME NEW s \in SUBSET t, s # {}, \A x \in s : s \ {x} \in Holds
                 PROVE  g[s] \in States(S)
      OBVIOUS
    <3>1. PICK v \in s : g[s] = Mark(g[s \ {v}], v)
      BY <1>8
    <3>2. g[s \ {v}] \in States(S) /\ v \in groups
      OBVIOUS
    <3> QED
      BY <3>1, <3>2, MarkTypes
  <2>3. IsFiniteSet(t)
    BY FS_Subset
  <2>4. t \in Holds
    <3> HIDE DEF Holds
    <3> QED
      BY <2>1, <2>2, <2>3, SetInduction
  <2> QED
    BY <2>4
<1>11. g \in [SUBSET groups -> States(S)]
  BY <1>9, <1>10
<1>12. g[{}] = z
  BY <1>7
<1> QED
  BY <1>6, <1>8, <1>11, <1>12 DEF Marks

\* A finite set of numbers has a greatest one, and Max is it.
LEMMA MaxIsMember ==
    ASSUME NEW s \in SUBSET Nat, IsFiniteSet(s), s # {}
    PROVE  Max(s) \in s
<1> DEFINE Above == {{y \in s : y > x} : x \in s}
<1>1. Above \subseteq FiniteSubsetsOf(s) /\ Above # {}
  <2>1. \A x \in s : {y \in s : y > x} \subseteq s /\ IsFiniteSet({y \in s : y > x})
    BY FS_Subset
  <2> QED
    BY <2>1 DEF FiniteSubsetsOf
<1>2. PICK u \in Above : \A y \in Above : ~ (<<y, u>> \in StrictSubsetOrdering(s))
  <2> HIDE DEF Above
  <2> QED
    BY <1>1, WFMin, FS_StrictSubsetOrderingWellFounded
<1>3. PICK m \in s : u = {y \in s : y > m}
  OBVIOUS
<1>4. \A y \in s : m >= y
  <2> SUFFICES ASSUME NEW y \in s, y > m PROVE FALSE
    OBVIOUS
  <2>0. \A x \in s : x \in Nat
    OBVIOUS
  <2>1. {x \in s : x > y} \in Above /\ {x \in s : x > y} \subseteq u
        /\ y \in u /\ y \notin {x \in s : x > y} /\ u \subseteq s
    <3>1. {x \in s : x > y} \in Above
      OBVIOUS
    <3>2. \A x \in s : x > y => x > m
      BY <2>0
    <3>3. ~ (y > y)
      BY <2>0
    <3> QED
      BY <1>3, <3>1, <3>2, <3>3
  <2>2. <<{x \in s : x > y}, u>> \in StrictSubsetOrdering(s)
    BY <2>1 DEF StrictSubsetOrdering
  <2> QED
    BY <1>2, <2>1, <2>2
<1> QED
  BY <1>4 DEF Max

\* f applies the successions one after another, as Settle does.
Supersedes(f, S, z, V) ==
    /\ f[{}] = z
    /\ Ascending(LAMBDA y, v : Supersede(S, y, v), z, V) = f[V]
    /\ \A s \in SUBSET V : s # {} => \E v \in s : f[s] = Supersede(S, f[s \ {v}], v)

LEMMA SupersedeIsFold ==
    ASSUME NEW S, NEW z \in States(S), NEW V \in SUBSET Nat, IsFiniteSet(V)
    PROVE  \E f \in [SUBSET V -> States(S)] : Supersedes(f, S, z, V)
<1> DEFINE pick == [s \in SUBSET V |-> Max(s)]
           step == [p \in V \X States(S) |-> Supersede(S, p[2], p[1])]
           P(it) == it = [s \in SUBSET V |->
                            IF s = {} THEN z ELSE Supersede(S, it[s \ {Max(s)}], Max(s))]
<1>1. \A s \in SUBSET V : s # {} => pick[s] \in s
  BY FS_Subset, MaxIsMember
<1>2. step \in [V \X States(S) -> States(S)]
  BY SupersedeTypes
<1>3. PICK f \in [SUBSET V -> States(S)] : IsFold(f, V, z, step, pick)
  <2>1. z \in States(S) /\ IsFiniteSet(V)
    OBVIOUS
  <2> HIDE DEF pick, step
  <2> QED
    BY ONLY <1>1, <1>2, <2>1, FoldExists
<1>4. P(f)
  <2>1. ASSUME NEW s \in SUBSET V
        PROVE  f[s] = IF s = {} THEN z ELSE Supersede(S, f[s \ {Max(s)}], Max(s))
    <3>1. CASE s = {}
      BY <1>3, <3>1 DEF IsFold
    <3>2. CASE s # {}
      <4>1. pick[s] = Max(s) /\ pick[s] \in V /\ s \ {pick[s]} \in SUBSET V
        BY <1>1, <3>2
      <4>2. f[s \ {pick[s]}] \in States(S)
        BY <4>1
      <4>3. step[<<pick[s], f[s \ {pick[s]}]>>] = Supersede(S, f[s \ {pick[s]}], pick[s])
        <5> HIDE DEF pick
        <5> QED
          BY <4>1, <4>2
      <4> QED
        BY <1>3, <3>2, <4>1, <4>3 DEF IsFold
    <3> QED
      BY <3>1, <3>2
  <2> QED
    BY <2>1
<1> DEFINE g == CHOOSE it : P(it)
<1>5. P(g)
  BY <1>4
<1>6. Ascending(LAMBDA y, v : Supersede(S, y, v), z, V) = g[V]
  BY DEF Ascending, MapThenFoldSet
<1>7. \A s \in SUBSET V :
         g[s] = IF s = {} THEN z ELSE Supersede(S, g[s \ {Max(s)}], Max(s))
  <2> HIDE DEF g
  <2> QED
    BY <1>5
<1> HIDE DEF g
<1>8. \A s \in SUBSET V : s # {} => \E v \in s : g[s] = Supersede(S, g[s \ {v}], v)
  BY <1>1, <1>7
<1>9. g = [s \in SUBSET V |-> g[s]]
  BY <1>5
<1>10. ASSUME NEW t \in SUBSET V PROVE g[t] \in States(S)
  <2> DEFINE Holds == {s \in SUBSET V : g[s] \in States(S)}
  <2>1. {} \in Holds
    BY <1>7
  <2>2. \A s \in SUBSET t : s # {} /\ (\A x \in s : s \ {x} \in Holds) => s \in Holds
    <3> SUFFICES ASSUME NEW s \in SUBSET t, s # {}, \A x \in s : s \ {x} \in Holds
                 PROVE  g[s] \in States(S)
      OBVIOUS
    <3>1. PICK v \in s : g[s] = Supersede(S, g[s \ {v}], v)
      BY <1>8
    <3>2. g[s \ {v}] \in States(S) /\ v \in V
      OBVIOUS
    <3> QED
      BY <3>1, <3>2, SupersedeTypes
  <2>3. IsFiniteSet(t)
    BY FS_Subset
  <2>4. t \in Holds
    <3> HIDE DEF Holds
    <3> QED
      BY <2>1, <2>2, <2>3, SetInduction
  <2> QED
    BY <2>4
<1>11. g \in [SUBSET V -> States(S)]
  BY <1>9, <1>10
<1>12. g[{}] = z
  BY <1>7
<1> QED
  BY <1>6, <1>8, <1>11, <1>12 DEF Supersedes

-----------------------------------------------------------------------------
(* What every succession and every conflict group keeps.                     *)

\* Each item has an applicability; a group means a conflict; only an item in
\* force is applicable, and one that stands is applicable or in conflict.
Sound(S, d) ==
  {z \in States(S) :
     /\ \A c \in S : \E a \in Applicability : << c, a >> \in z.app
     /\ z.grouped # {} => z.conflict
     /\ \A c \in Applicable(z) : BaseApplicability(c, d) = "APPLICABLE"
     /\ \A c \in Standing(S, d) :
           << c, "APPLICABLE" >> \in z.app \/ << c, "CONFLICTING" >> \in z.app}

LEMMA InApplicable ==
    ASSUME NEW S, NEW z \in States(S)
    PROVE  /\ \A c : c \in Applicable(z) <=> << c, "APPLICABLE" >> \in z.app
           /\ Applicable(z) \subseteq S
<1>1. z.app \subseteq S \X Applicability
  BY DEF States
<1>2. \A c : c \in Applicable(z) => << c, "APPLICABLE" >> \in z.app
  <2> SUFFICES ASSUME NEW c \in Applicable(z) PROVE << c, "APPLICABLE" >> \in z.app
    OBVIOUS
  <2>1. PICK p \in z.app : p[2] = "APPLICABLE" /\ c = p[1]
    BY DEF Applicable, Are
  <2> QED
    BY <1>1, <2>1
<1>3. \A c : << c, "APPLICABLE" >> \in z.app => c \in Applicable(z)
  <2> SUFFICES ASSUME NEW c, << c, "APPLICABLE" >> \in z.app PROVE c \in Applicable(z)
    OBVIOUS
  <2> DEFINE R == {r \in z.app : r[2] = "APPLICABLE"}
             p == << c, "APPLICABLE" >>
  <2>1. p \in R /\ p[1] = c
    OBVIOUS
  <2>2. Applicable(z) = {r[1] : r \in R}
    BY DEF Applicable, Are
  <2> HIDE DEF R, p
  <2> QED
    BY <2>1, <2>2
<1>4. \A c : c \in Applicable(z) <=> << c, "APPLICABLE" >> \in z.app
  BY ONLY <1>2, <1>3
<1>5. ASSUME NEW c \in Applicable(z) PROVE c \in S
  <2>1. << c, "APPLICABLE" >> \in S \X Applicability
    BY <1>1, <1>2
  <2> QED
    BY <2>1
<1> QED
  BY ONLY <1>4, <1>5

\* What a reassignment makes of the pairs.
LEMMA Assigned ==
    ASSUME NEW S, NEW z \in States(S), NEW D \in SUBSET S, NEW a
    PROVE  /\ Assign(z, D, a).grouped = z.grouped
           /\ Assign(z, D, a).conflict = z.conflict
           /\ \A c, b : << c, b >> \in Assign(z, D, a).app
                <=> IF c \in D THEN b = a ELSE << c, b >> \in z.app
<1>1. z.app \subseteq S \X Applicability
  BY DEF States
<1>2. Assign(z, D, a).app = {p \in z.app : p[1] \notin D} \cup (D \X {a})
  BY DEF Assign, States
<1>3. Assign(z, D, a).grouped = z.grouped /\ Assign(z, D, a).conflict = z.conflict
  BY DEF Assign, States
<1> QED
  BY <1>2, <1>3

\* An item that stands is no predecessor of another version.
LEMMA MarkIsSound ==
    ASSUME NEW S, NEW d, NEW z \in Sound(S, d), NEW D \in SUBSET S
    PROVE  /\ Mark(z, D) \in Sound(S, d)
           /\ Applicable(Mark(z, D)) \subseteq Applicable(z)
           /\ z.conflict \/ Cardinality(D) >= 2 => Mark(z, D).conflict
<1> DEFINE m == Assign(z, D, "CONFLICTING")
           k == Mark(z, D)
<1>1. z \in States(S) /\ k \in States(S)
  BY MarkTypes DEF Sound
<1>2. \A c, b : << c, b >> \in m.app
                <=> IF c \in D THEN b = "CONFLICTING" ELSE << c, b >> \in z.app
  BY <1>1, Assigned
<1>3. k.app = m.app /\ (k.conflict <=> (z.conflict \/ Cardinality(D) >= 2))
      /\ k.grouped = (IF Cardinality(D) >= 2 THEN z.grouped \cup D ELSE z.grouped \ D)
  <2>1. m \in [app : SUBSET (S \X Applicability), grouped : SUBSET S, conflict : BOOLEAN]
    BY <1>1 DEF Assign, States, Applicability
  <2>2. m.grouped = z.grouped /\ m.conflict = z.conflict
    BY <1>1, Assigned
  <2> HIDE DEF m
  <2>3. k = [m EXCEPT !.grouped = IF Cardinality(D) >= 2 THEN @ \cup D ELSE @ \ D,
                      !.conflict = @ \/ Cardinality(D) >= 2]
    BY DEF Mark, m
  <2> HIDE DEF k
  <2> QED
    BY <2>1, <2>2, <2>3
<1> HIDE DEF m, k
<1>4. \A c \in S : \E a \in Applicability : << c, a >> \in k.app
  <2>1. "CONFLICTING" \in Applicability
    BY DEF Applicability
  <2>2. \A c \in S : \E a \in Applicability : << c, a >> \in z.app
    BY DEF Sound
  <2> QED
    BY <1>2, <1>3, <2>1, <2>2
<1>5. k.grouped # {} => k.conflict
  <2>1. z.grouped # {} => z.conflict
    BY DEF Sound
  <2> QED
    BY <1>3, <2>1
<1>6. Applicable(k) \subseteq Applicable(z)
  <2> SUFFICES ASSUME NEW c \in Applicable(k) PROVE c \in Applicable(z)
    OBVIOUS
  <2>1. << c, "APPLICABLE" >> \in m.app
    BY <1>1, <1>3, InApplicable
  <2>2. << c, "APPLICABLE" >> \in z.app
    BY <1>2, <2>1
  <2> QED
    BY <1>1, <2>2, InApplicable
<1>7. \A c \in Applicable(k) : BaseApplicability(c, d) = "APPLICABLE"
  BY <1>6 DEF Sound
<1>8. \A c \in Standing(S, d) :
         << c, "APPLICABLE" >> \in k.app \/ << c, "CONFLICTING" >> \in k.app
  <2>1. \A c \in Standing(S, d) :
           << c, "APPLICABLE" >> \in z.app \/ << c, "CONFLICTING" >> \in z.app
    BY DEF Sound
  <2> QED
    BY <1>2, <1>3, <2>1
<1> QED
  BY <1>1, <1>3, <1>4, <1>5, <1>6, <1>7, <1>8 DEF Sound, k

\* Only items that are replaced, and do not stand, are taken out.
LEMMA AssignIsSound ==
    ASSUME NEW S, NEW d, NEW z \in Sound(S, d), NEW D \in SUBSET S,
           D \cap Standing(S, d) = {}, NEW a \in {"UNKNOWN", "SUPERSEDED"}
    PROVE  Assign(z, D, a) \in Sound(S, d)
<1> DEFINE m == Assign(z, D, a)
<1>1. z \in States(S)
  BY DEF Sound
<1>2. m \in States(S)
  BY <1>1 DEF Assign, States, Applicability
<1>3. m.grouped = z.grouped /\ m.conflict = z.conflict
  BY <1>1, Assigned
<1>4. \A c, b : << c, b >> \in m.app <=> IF c \in D THEN b = a ELSE << c, b >> \in z.app
  BY <1>1, Assigned
<1> HIDE DEF m
<1>5. \A c \in S : \E b \in Applicability : << c, b >> \in m.app
  <2>1. a \in Applicability
    BY DEF Applicability
  <2>2. \A c \in S : \E b \in Applicability : << c, b >> \in z.app
    BY DEF Sound
  <2> QED
    BY <1>4, <2>1, <2>2
<1>6. m.grouped # {} => m.conflict
  BY <1>3 DEF Sound
<1>7. \A c \in Applicable(m) : BaseApplicability(c, d) = "APPLICABLE"
  <2> SUFFICES ASSUME NEW c \in Applicable(m) PROVE c \in Applicable(z)
    BY DEF Sound
  <2>1. << c, "APPLICABLE" >> \in m.app
    BY <1>2, InApplicable
  <2>2. << c, "APPLICABLE" >> \in z.app
    BY <1>4, <2>1
  <2> QED
    BY <1>1, <2>2, InApplicable
<1>8. \A c \in Standing(S, d) :
         << c, "APPLICABLE" >> \in m.app \/ << c, "CONFLICTING" >> \in m.app
  <2>1. \A c \in Standing(S, d) :
           << c, "APPLICABLE" >> \in z.app \/ << c, "CONFLICTING" >> \in z.app
    BY DEF Sound
  <2> QED
    BY <1>4, <2>1
<1> QED
  BY <1>2, <1>5, <1>6, <1>7, <1>8 DEF Sound, m

LEMMA SupersedeIsSound ==
    ASSUME NEW S, NEW d, NEW z \in Sound(S, d), NEW v, Successors(S, v) # {}
    PROVE  Supersede(S, z, v) \in Sound(S, d)
<1> DEFINE old == OfVersions(S, {v})
           new == OfVersions(S, Successors(S, v))
<1>1. old \in SUBSET S /\ old \cup new \in SUBSET S /\ old \cap Applicable(z) \in SUBSET S
  BY DEF OfVersions
<1>2. old \cap Standing(S, d) = {}
  BY DEF OfVersions, Standing
<1>3. Mark(z, old \cup new) \in Sound(S, d)
  BY <1>1, MarkIsSound
<1>4. Assign(z, old, "UNKNOWN") \in Sound(S, d)
  BY <1>1, <1>2, AssignIsSound
<1>5. Assign(z, old \cap Applicable(z), "SUPERSEDED") \in Sound(S, d)
  <2>1. (old \cap Applicable(z)) \cap Standing(S, d) = {}
    BY <1>2
  <2> QED
    BY <1>1, <2>1, AssignIsSound
<1>6. Supersede(S, z, v) = IF old = {} THEN z
     ELSE IF Cardinality(Successors(S, v)) > 1 THEN Mark(z, old \cup new)
     ELSE IF new = {} THEN Assign(z, old, "UNKNOWN")
     ELSE IF new \cap Applicable(z) # {}
     THEN Assign(z, old \cap Applicable(z), "SUPERSEDED")
     ELSE z
  BY DEF Supersede
<1> HIDE DEF old, new
<1> QED
  BY <1>3, <1>4, <1>5, <1>6

LEMMA MarkEachIsSound ==
    ASSUME NEW S, NEW d, NEW z \in Sound(S, d), NEW groups \in SUBSET SUBSET S,
           IsFiniteSet(groups)
    PROVE  /\ MarkEach(z, groups) \in Sound(S, d)
           /\ \/ MarkEach(z, groups).conflict
              \/ \A D \in groups : ~ (Cardinality(D) >= 2)
           /\ groups = {} => MarkEach(z, groups) = z
<1>1. z \in States(S)
  BY DEF Sound
<1>2. PICK f \in [SUBSET groups -> States(S)] : Marks(f, z, groups)
  BY <1>1, MarkEachIsFold
<1> USE DEF Marks
<1> DEFINE Holds == {s \in SUBSET groups :
              /\ f[s] \in Sound(S, d)
              /\ f[s].conflict \/ \A D \in s : ~ (Cardinality(D) >= 2)}
<1>3. {} \in Holds
  <2>1. f[{}] \in Sound(S, d) /\ {} \in SUBSET groups
    BY <1>2
  <2>2. \A D \in {} : ~ (Cardinality(D) >= 2)
    OBVIOUS
  <2> QED
    BY <2>1, <2>2
<1>4. \A s \in SUBSET groups : s # {} /\ (\A x \in s : s \ {x} \in Holds) => s \in Holds
  <2> SUFFICES ASSUME NEW s \in SUBSET groups, s # {}, \A x \in s : s \ {x} \in Holds
               PROVE  s \in Holds
    OBVIOUS
  <2>1. PICK D \in s : f[s] = Mark(f[s \ {D}], D)
    BY <1>2
  <2>2. /\ f[s \ {D}] \in Sound(S, d) /\ D \in SUBSET S
        /\ f[s \ {D}].conflict \/ \A E \in s \ {D} : ~ (Cardinality(E) >= 2)
    OBVIOUS
  <2>3. f[s] \in Sound(S, d)
        /\ (f[s \ {D}].conflict \/ Cardinality(D) >= 2 => f[s].conflict)
    BY <2>1, <2>2, MarkIsSound
  <2> QED
    BY <2>2, <2>3
<1>5. groups \in Holds
  <2> HIDE DEF Holds
  <2> QED
    BY <1>3, <1>4, SetInduction
<1> QED
  BY <1>2, <1>5

-----------------------------------------------------------------------------
(* Settle starts soundly, and stays so.                                      *)

LEMMA InForceMeans ==
    ASSUME NEW c \in Chunks, NEW d \in Date
    PROVE  /\ BaseApplicability(c, d) \in Applicability
           /\ BaseApplicability(c, d) = "APPLICABLE" => InForce(c, d)
           /\ InForce(c, d) /\ Info[c].status = "IN_FORCE"
                => BaseApplicability(c, d) = "APPLICABLE"
<1>1. /\ Info[c].intact \in BOOLEAN /\ Info[c].periods \subseteq Nat \X Nat
      /\ Info[c].decided \in Nat /\ Info[c].supersededAt \in Nat /\ d \in Nat
      /\ NoDate = 0
  BY CorpusAssumption DEF Date, NoDate
<1>2. \A p \in Info[c].periods : p[1] \in Nat /\ p[2] \in Nat
  BY <1>1
<1>3. /\ \A x : x \in Starts(c) <=> x # 0 /\ \E p \in Info[c].periods : p[1] = x
      /\ \A x : x \in Ends(c) <=> x # 0 /\ \E p \in Info[c].periods : p[2] = x
  BY <1>1 DEF Starts, Ends
<1>4. BaseApplicability(c, d) \in Applicability
  BY DEF BaseApplicability, Applicability
<1>5. ASSUME BaseApplicability(c, d) = "APPLICABLE" PROVE InForce(c, d)
  <2>1. /\ Info[c].intact
        /\ \A x \in Starts(c) : ~ (d < x)
        /\ \A x \in Ends(c) : ~ (d >= x)
        /\ ~ (Info[c].supersededAt # NoDate /\ d >= Info[c].supersededAt)
        /\ ~ (Starts(c) \cup Ends(c) = {} /\ Info[c].decided = NoDate)
        /\ ~ (d < Info[c].decided)
    BY <1>5 DEF BaseApplicability
  <2>2. ASSUME NEW p \in Info[c].periods
        PROVE  p[1] <= d /\ (p[2] = NoDate \/ d < p[2])
    <3>1. p[1] = 0 \/ p[1] \in Starts(c)
      BY <1>3
    <3>2. p[2] = 0 \/ p[2] \in Ends(c)
      BY <1>3
    <3> QED
      BY <1>1, <1>2, <2>1, <3>1, <3>2
  <2> QED
    BY <1>1, <2>1, <2>2 DEF InForce
<1>6. ASSUME InForce(c, d), Info[c].status = "IN_FORCE"
      PROVE  BaseApplicability(c, d) = "APPLICABLE"
  <2>1. /\ Info[c].intact
        /\ \A p \in Info[c].periods : p[1] <= d /\ (p[2] = 0 \/ d < p[2])
        /\ Info[c].decided <= d
        /\ Info[c].supersededAt = NoDate \/ d < Info[c].supersededAt
        /\ Starts(c) \cup Ends(c) # {} \/ Info[c].decided # NoDate
    BY <1>1, <1>6 DEF InForce
  <2>2. ~ Inverted(c)
    <3> SUFFICES ASSUME NEW p \in Info[c].periods, p[1] # 0, p[2] # 0, p[1] > p[2]
                 PROVE  FALSE
      BY <1>1 DEF Inverted
    <3> QED
      BY <1>1, <1>2, <2>1
  <2>3. \A x \in Starts(c) : ~ (d < x)
    BY <1>1, <1>2, <1>3, <2>1
  <2>4. \A x \in Ends(c) : ~ (d >= x)
    BY <1>1, <1>2, <1>3, <2>1
  <2>5. ~ Replaced(c)
    BY <1>6 DEF Replaced
  <2>6. ~ (Info[c].supersededAt # NoDate /\ d >= Info[c].supersededAt)
        /\ ~ (d < Info[c].decided)
    BY <1>1, <2>1
  <2> QED
    BY <2>1, <2>2, <2>3, <2>4, <2>5, <2>6 DEF BaseApplicability
<1> QED
  BY <1>4, <1>5, <1>6

LEMMA ItemsAreFinite ==
    ASSUME NEW S \in SUBSET Chunks
    PROVE  /\ IsFiniteSet(S)
           /\ \A groups \in SUBSET SUBSET S : IsFiniteSet(groups)
BY CorpusAssumption, FS_Subset, FS_SUBSET

LEMMA EdgesGive ==
    ASSUME NEW S
    PROVE  \A u : u \in Predecessors(S) <=>
              \E c \in S : \/ u = Version(c) /\ Info[c].supersededBy # {}
                           \/ u \in Info[c].supersedes
<1> DEFINE By(c) == {<< Version(c), v >> : v \in Info[c].supersededBy}
                       \cup {<< v, Version(c) >> : v \in Info[c].supersedes}
<1>1. \A e : e \in Edges(S) <=> \E c \in S : e \in By(c)
  BY DEF Edges
<1>2. \A u : u \in Predecessors(S) <=> \E e \in Edges(S) : u = e[1]
  BY DEF Predecessors
<1>3. \A c, u : (\E e \in By(c) : u = e[1]) <=>
          \/ u = Version(c) /\ Info[c].supersededBy # {}
          \/ u \in Info[c].supersedes
  <2> SUFFICES ASSUME NEW c, NEW u
               PROVE  (\E e \in By(c) : u = e[1]) <=>
                        \/ u = Version(c) /\ Info[c].supersededBy # {}
                        \/ u \in Info[c].supersedes
    OBVIOUS
  <2>1. ASSUME NEW v \in Info[c].supersededBy, u = Version(c)
        PROVE  \E e \in By(c) : u = e[1]
    <3>1. << Version(c), v >> \in By(c) /\ << Version(c), v >>[1] = u
      BY <2>1
    <3> QED
      BY <3>1
  <2>2. ASSUME u \in Info[c].supersedes
        PROVE  \E e \in By(c) : u = e[1]
    <3>1. << u, Version(c) >> \in By(c) /\ << u, Version(c) >>[1] = u
      BY <2>2
    <3> QED
      BY <3>1
  <2>3. ASSUME NEW e \in By(c), u = e[1]
        PROVE  \/ u = Version(c) /\ Info[c].supersededBy # {}
               \/ u \in Info[c].supersedes
    BY <2>3
  <2> QED
    BY <2>1, <2>2, <2>3
<1> HIDE DEF By
<1> QED
  BY <1>1, <1>2, <1>3

LEMMA PredecessorsAreFinite ==
    ASSUME NEW S \in SUBSET Chunks
    PROVE  /\ Predecessors(S) \in SUBSET Nat /\ IsFiniteSet(Predecessors(S))
           /\ \A v \in Predecessors(S) : Successors(S, v) # {}
<1>1. \A c \in Chunks : Version(c) \in Nat /\ Info[c].supersedes \subseteq Nat
                        /\ IsFiniteSet(Info[c].supersedes)
  BY CorpusAssumption DEF Version
<1>2. Predecessors(S) \in SUBSET Nat
  BY <1>1, EdgesGive
<1> DEFINE Holds == {s \in SUBSET Chunks : IsFiniteSet(Predecessors(s))}
<1>3. {} \in Holds
  <2>1. Predecessors({}) = {}
    BY EdgesGive
  <2> QED
    BY <2>1, FS_EmptySet
<1>4. \A s \in SUBSET S : s # {} /\ (\A x \in s : s \ {x} \in Holds) => s \in Holds
  <2> SUFFICES ASSUME NEW s \in SUBSET S, NEW x \in s, s \ {x} \in Holds
               PROVE  IsFiniteSet(Predecessors(s))
    OBVIOUS
  <2>1. Predecessors(s) \subseteq
          (Predecessors(s \ {x}) \cup {Version(x)}) \cup Info[x].supersedes
    BY EdgesGive
  <2>2. IsFiniteSet(Predecessors(s \ {x}) \cup {Version(x)})
    BY FS_AddElement
  <2>3. IsFiniteSet((Predecessors(s \ {x}) \cup {Version(x)}) \cup Info[x].supersedes)
    BY <1>1, <2>2, FS_Union
  <2> QED
    BY <2>1, <2>3, FS_Subset
<1>5. S \in Holds
  <2>1. IsFiniteSet(S)
    BY ItemsAreFinite
  <2> HIDE DEF Holds
  <2> QED
    BY <1>3, <1>4, <2>1, SetInduction
<1>6. ASSUME NEW v \in Predecessors(S) PROVE Successors(S, v) # {}
  <2>1. PICK e \in Edges(S) : v = e[1]
    BY DEF Predecessors
  <2>2. e[2] \in Successors(S, v)
    BY <2>1 DEF Successors
  <2> QED
    BY <2>2
<1> QED
  BY <1>2, <1>5, <1>6

\* The states that Settle starts from and goes through.
Settled0(S, d) ==
  [app |-> {<< c, BaseApplicability(c, d) >> : c \in S}, grouped |-> {}, conflict |-> FALSE]
Settled1(S, d) == Mark(Settled0(S, d), OfVersions(S, CyclicVersions(S)))
Settled2(S, d) ==
  Ascending(LAMBDA z, v : Supersede(S, z, v), Settled1(S, d), Predecessors(S))
Settled3(S, d) == MarkEach(Settled2(S, d), Inconsistent(S))

LEMMA SettleSteps ==
    ASSUME NEW S, NEW d
    PROVE  Settle(S, d) = MarkEach(Settled3(S, d), Disputed(Applicable(Settled3(S, d))))
BY DEF Settle, Settled3, Settled2, Settled1, Settled0, Undisputed

LEMMA StartIsSound ==
    ASSUME NEW S \in SUBSET Chunks, NEW d \in Date
    PROVE  Settled0(S, d) \in Sound(S, d)
<1> DEFINE z == Settled0(S, d)
<1>1. \A c \in S : BaseApplicability(c, d) \in Applicability
  BY InForceMeans
<1>2. /\ z.app = {<< c, BaseApplicability(c, d) >> : c \in S}
      /\ z.grouped = {} /\ z \in States(S)
  BY <1>1 DEF Settled0, States
<1> HIDE DEF z
<1>3. \A c \in S : << c, BaseApplicability(c, d) >> \in z.app
  BY <1>2
<1>4. ASSUME NEW c \in Applicable(z) PROVE BaseApplicability(c, d) = "APPLICABLE"
  <2>1. << c, "APPLICABLE" >> \in z.app
    BY <1>2, InApplicable
  <2>2. PICK e \in S : << c, "APPLICABLE" >> = << e, BaseApplicability(e, d) >>
    BY <1>2, <2>1
  <2> QED
    BY <2>2
<1>5. ASSUME NEW c \in Standing(S, d) PROVE << c, "APPLICABLE" >> \in z.app
  <2>1. c \in S /\ BaseApplicability(c, d) = "APPLICABLE"
    BY InForceMeans DEF Standing
  <2> QED
    BY <1>3, <2>1
<1> QED
  BY <1>1, <1>2, <1>3, <1>4, <1>5 DEF Sound, z

LEMMA SuccessionsAreSound ==
    ASSUME NEW S \in SUBSET Chunks, NEW d \in Date
    PROVE  Settled2(S, d) \in Sound(S, d)
<1> DEFINE z == Settled1(S, d)
           V == Predecessors(S)
<1>1. z \in Sound(S, d)
  <2>1. OfVersions(S, CyclicVersions(S)) \in SUBSET S
    BY DEF OfVersions
  <2> QED
    BY <2>1, StartIsSound, MarkIsSound DEF Settled1
<1>2. V \in SUBSET Nat /\ IsFiniteSet(V) /\ \A v \in V : Successors(S, v) # {}
  BY PredecessorsAreFinite
<1> HIDE DEF z, V
<1>3. z \in States(S)
  BY <1>1 DEF Sound
<1>4. PICK f \in [SUBSET V -> States(S)] : Supersedes(f, S, z, V)
  BY <1>2, <1>3, SupersedeIsFold
<1> DEFINE Holds == {s \in SUBSET V : f[s] \in Sound(S, d)}
<1>5. {} \in Holds
  BY <1>1, <1>4 DEF Supersedes
<1>6. \A s \in SUBSET V : s # {} /\ (\A x \in s : s \ {x} \in Holds) => s \in Holds
  <2> SUFFICES ASSUME NEW s \in SUBSET V, s # {}, \A x \in s : s \ {x} \in Holds
               PROVE  f[s] \in Sound(S, d)
    OBVIOUS
  <2>1. PICK v \in s : f[s] = Supersede(S, f[s \ {v}], v)
    BY <1>4 DEF Supersedes
  <2>2. f[s \ {v}] \in Sound(S, d) /\ Successors(S, v) # {}
    BY <1>2
  <2> QED
    BY <2>1, <2>2, SupersedeIsSound
<1>7. V \in Holds
  <2> HIDE DEF Holds
  <2> QED
    BY <1>2, <1>5, <1>6, SetInduction
<1>8. Settled2(S, d) = f[V]
  BY <1>4 DEF Supersedes, Settled2, z, V
<1> QED
  BY <1>7, <1>8

\* Settle is sound for every set of items, and without a conflict no two
\* applicable items give different texts for one subject.
LEMMA SettleIsSound ==
    ASSUME NEW S \in SUBSET Chunks, NEW d \in Date
    PROVE  /\ Settle(S, d) \in Sound(S, d)
           /\ ~ Settle(S, d).conflict =>
                \A c, e \in Applicable(Settle(S, d)) :
                   Subject(c) = Subject(e) => TextOf(c) = TextOf(e)
<1> DEFINE z == Settled3(S, d)
           groups == Disputed(Applicable(z))
<1>1. z \in Sound(S, d)
  <2>1. Inconsistent(S) \in SUBSET SUBSET S
    BY DEF Inconsistent, OfVersions
  <2> QED
    BY <2>1, SuccessionsAreSound, ItemsAreFinite, MarkEachIsSound DEF Settled3
<1> HIDE DEF z
<1>2. Applicable(z) \subseteq S
  BY <1>1, InApplicable DEF Sound
<1>3. groups \in SUBSET SUBSET S
  BY <1>2 DEF Disputed
<1>4. IsFiniteSet(groups)
  <2> HIDE DEF groups
  <2> QED
    BY <1>3, ItemsAreFinite
<1>5. Settle(S, d) = MarkEach(z, groups)
  BY SettleSteps DEF z
<1>6. ASSUME NEW c \in Applicable(z), NEW e \in Applicable(z),
             Subject(c) = Subject(e), TextOf(c) # TextOf(e)
      PROVE  \E D \in groups : Cardinality(D) >= 2
  <2> DEFINE D == {x \in Applicable(z) : Subject(x) = Subject(c)}
  <2>1. D \in groups /\ c \in D /\ e \in D /\ c # e
    BY <1>6 DEF Disputed
  <2>2. IsFiniteSet(D)
    BY <1>2, ItemsAreFinite
  <2>3. Cardinality(D) >= 2
    <3>1. Cardinality({c, e}) = 2
      <4>1. IsFiniteSet({c}) /\ Cardinality({c}) = 1
        BY FS_Singleton
      <4> DEFINE one == {c}
      <4>0. e \notin one /\ IsFiniteSet(one) /\ Cardinality(one) = 1
        BY <2>1, <4>1
      <4> HIDE DEF one
      <4>2. Cardinality(one \cup {e}) = 2
        BY ONLY SMTT(30), <4>0, FS_AddElement
      <4>3. {c, e} = one \cup {e}
        BY DEF one
      <4> QED
        BY <4>2, <4>3
    <3>2. {c, e} \subseteq D
      BY <2>1
    <3>3. Cardinality({c, e}) <= Cardinality(D) /\ Cardinality(D) \in Nat
      BY <2>2, <3>2, FS_Subset, FS_CardinalityType
    <3> QED
      BY <3>1, <3>3
  <2> QED
    BY <2>1, <2>3
<1> HIDE DEF groups
<1>7. /\ MarkEach(z, groups) \in Sound(S, d)
      /\ \/ MarkEach(z, groups).conflict
         \/ \A D \in groups : ~ (Cardinality(D) >= 2)
      /\ groups = {} => MarkEach(z, groups) = z
  BY <1>1, <1>3, <1>4, MarkEachIsSound
<1>8. ASSUME ~ MarkEach(z, groups).conflict
      PROVE  \A c, e \in Applicable(MarkEach(z, groups)) :
                   Subject(c) = Subject(e) => TextOf(c) = TextOf(e)
  <2>1. groups = {}
    <3>1. ASSUME NEW D \in groups PROVE FALSE
      <4>1. PICK c \in D, e \in D : TextOf(c) # TextOf(e) /\ Subject(c) = Subject(e)
                                    /\ c \in Applicable(z) /\ e \in Applicable(z)
        <5>1. PICK t : D = {c \in Applicable(z) : Subject(c) = t}
          BY <3>1 DEF groups, Disputed
        <5>2. \E c \in D, e \in D : TextOf(c) # TextOf(e)
          BY <3>1 DEF groups, Disputed
        <5> QED
          BY <5>1, <5>2
      <4>2. \E F \in groups : Cardinality(F) >= 2
        BY <1>6, <4>1
      <4> QED
        BY ONLY <1>7, <1>8, <4>2
    <3> QED
      BY <3>1
  <2>2. \A c, e \in Applicable(z) : Subject(c) = Subject(e) => TextOf(c) = TextOf(e)
    BY <1>6, <2>1
  <2> QED
    BY <1>7, <2>1, <2>2
<1> QED
  BY <1>5, <1>7, <1>8

-----------------------------------------------------------------------------
(* What Step 21 returns for items S.                                         *)

SoundVerdict(S, r, q) ==
    /\ r.status \in EvidenceStatus
    /\ r.app \in [S -> Applicability] /\ r.fresh \in [S -> Freshness]
    /\ r.grouped \in SUBSET S /\ r.selected \in SUBSET S
    /\ r.status = "SUFFICIENT" =>
         /\ r.grouped = {}
         /\ Standing(S, q.asOf) \subseteq r.selected
         /\ \A c \in r.selected :
              /\ InForce(c, q.asOf)
              /\ Info[c].observed \in (q.now - MaxAge)..q.now
         /\ \A c, d \in r.selected :
              Subject(c) = Subject(d) => TextOf(c) = TextOf(d)

Question == [asOf : Date, now : Date, available : BOOLEAN]

LEMMA SettledVerdict ==
    ASSUME NEW S \in SUBSET Chunks, NEW partial \in BOOLEAN, NEW q \in Question
    PROVE  /\ SoundVerdict(S, ResolutionOf(S, Settle(S, q.asOf), partial, q), q)
           /\ ResolutionOf(S, Settle(S, q.asOf), partial, q).status = "SUFFICIENT"
                => ~ partial
<1> DEFINE z == Settle(S, q.asOf)
           r == ResolutionOf(S, z, partial, q)
<1>1. q.asOf \in Date /\ q.now \in Nat /\ q.available \in BOOLEAN
  BY DEF Question, Date
<1>2. /\ z \in Sound(S, q.asOf)
      /\ ~ z.conflict => \A c, d \in Applicable(z) :
                            Subject(c) = Subject(d) => TextOf(c) = TextOf(d)
  BY <1>1, SettleIsSound
<1> HIDE DEF z
<1>3. z \in States(S) /\ Applicable(z) \subseteq S /\ z.grouped \in SUBSET S
  BY <1>2, InApplicable DEF Sound, States
<1>4. /\ r.status = StatusOf(S, z, partial, q) /\ r.grouped = z.grouped
      /\ r.app = [c \in S |-> CHOOSE a \in Applicability : << c, a >> \in z.app]
      /\ r.selected = IF q.available THEN Applicable(z) ELSE {}
      /\ r.fresh = [c \in S |-> IF c \in Applicable(z) THEN FreshnessOf(c, q.now)
                                                       ELSE "NOT_APPLICABLE"]
  BY DEF ResolutionOf
<1> HIDE DEF r
<1>5. r.status \in EvidenceStatus
  BY <1>4 DEF StatusOf, EvidenceStatus
<1>6. r.app \in [S -> Applicability]
  <2>1. \A c \in S : \E a \in Applicability : << c, a >> \in z.app
    BY <1>2 DEF Sound
  <2> QED
    BY <1>4, <2>1
<1>7. r.fresh \in [S -> Freshness]
  <2>1. \A c : FreshnessOf(c, q.now) \in Freshness /\ "NOT_APPLICABLE" \in Freshness
    BY DEF FreshnessOf, Freshness
  <2> QED
    BY <1>4, <2>1
<1>8. r.grouped \in SUBSET S /\ r.selected \in SUBSET S
  BY <1>3, <1>4
<1>9. ASSUME r.status = "SUFFICIENT"
      PROVE  /\ ~ partial /\ r.grouped = {}
             /\ Standing(S, q.asOf) \subseteq r.selected
             /\ \A c \in r.selected :
                  /\ InForce(c, q.asOf)
                  /\ Info[c].observed \in (q.now - MaxAge)..q.now
             /\ \A c, d \in r.selected :
                  Subject(c) = Subject(d) => TextOf(c) = TextOf(d)
  <2>1. /\ q.available /\ ~ (z.conflict \/ Are(z, "CONFLICTING") # {})
        /\ ~ TooLittle(z, partial)
        /\ "UNKNOWN" \notin {FreshnessOf(c, q.now) : c \in Applicable(z)}
        /\ "STALE" \notin {FreshnessOf(c, q.now) : c \in Applicable(z)}
    BY <1>4, <1>9 DEF StatusOf
  <2>2. ~ partial
    BY <2>1 DEF TooLittle
  <2>3. r.selected = Applicable(z)
    BY <1>4, <2>1
  <2>4. r.grouped = {}
    BY <1>2, <1>4, <2>1 DEF Sound
  <2>5. ASSUME NEW c \in Standing(S, q.asOf) PROVE c \in r.selected
    <3>1. << c, "APPLICABLE" >> \in z.app \/ << c, "CONFLICTING" >> \in z.app
      BY <1>2 DEF Sound
    <3>2. << c, "CONFLICTING" >> \notin z.app
      <4> SUFFICES ASSUME << c, "CONFLICTING" >> \in z.app PROVE FALSE
        OBVIOUS
      <4> DEFINE p == << c, "CONFLICTING" >>
                 R == {x \in z.app : x[2] = "CONFLICTING"}
      <4>1. p \in R
        OBVIOUS
      <4>2. Are(z, "CONFLICTING") = {x[1] : x \in R}
        BY DEF Are
      <4> HIDE DEF p, R
      <4> QED
        BY <2>1, <4>1, <4>2
    <3> QED
      BY <1>3, <2>3, <3>1, <3>2, InApplicable
  <2>6. ASSUME NEW c \in r.selected
        PROVE  /\ InForce(c, q.asOf)
               /\ Info[c].observed \in (q.now - MaxAge)..q.now
    <3>1. c \in Applicable(z) /\ c \in Chunks
      BY <1>3, <2>3
    <3>2. InForce(c, q.asOf)
      BY <1>1, <1>2, <3>1, InForceMeans DEF Sound
    <3>3. FreshnessOf(c, q.now) \notin {"UNKNOWN", "STALE"}
      BY <2>1, <3>1
    <3>4. Info[c].observed \in Nat /\ MaxAge \in Nat
      BY <3>1, CorpusAssumption, ResolutionAssumption DEF Date
    <3>5. ~ (Info[c].observed > q.now) /\ ~ (q.now - Info[c].observed > MaxAge)
      BY <3>3 DEF FreshnessOf
    <3> QED
      BY <1>1, <3>2, <3>4, <3>5
  <2> QED
    BY <1>2, <2>1, <2>2, <2>3, <2>4, <2>5, <2>6
<1> QED
  BY <1>5, <1>6, <1>7, <1>8, <1>9 DEF SoundVerdict, r, z

LEMMA ResolutionIsSound ==
    ASSUME NEW primary \in SUBSET Chunks, NEW partial \in BOOLEAN, NEW q \in Question,
           NEW fallback \in [given : BOOLEAN, items : SUBSET Chunks, partial : BOOLEAN]
    PROVE  \E S \in SUBSET Chunks :
              /\ primary \subseteq S
              /\ SoundVerdict(S, Resolution(primary, partial, fallback, q), q)
              /\ Resolution(primary, partial, fallback, q).status = "SUFFICIENT"
                   => ~ partial
<1> DEFINE both == primary \cup fallback.items
           r == Resolution(primary, partial, fallback, q)
           r1 == ResolutionOf(both, Settle(both, q.asOf), partial \/ fallback.partial, q)
           r2 == ResolutionOf(primary, Settle(primary, q.asOf), partial, q)
<1>1. both \in SUBSET Chunks /\ (partial \/ fallback.partial) \in BOOLEAN
  OBVIOUS
<1>2. SoundVerdict(both, r1, q) /\ (r1.status = "SUFFICIENT" => ~ (partial \/ fallback.partial))
  <2> HIDE DEF both
  <2> QED
    BY <1>1, SettledVerdict
<1>3. SoundVerdict(primary, r2, q) /\ (r2.status = "SUFFICIENT" => ~ partial)
  BY SettledVerdict
<1>4. r = IF FallbackAttempted(primary, fallback, q) THEN r1 ELSE r2
  BY DEF Resolution
<1>5. primary \subseteq both
  OBVIOUS
<1> HIDE DEF both, r1, r2, r
<1>6. CASE FallbackAttempted(primary, fallback, q)
  <2>1. r = r1
    BY <1>4, <1>6
  <2>2. SoundVerdict(both, r, q) /\ (r.status = "SUFFICIENT" => ~ partial)
    BY <1>2, <2>1
  <2> QED
    BY <1>1, <1>5, <2>2 DEF r
<1>7. CASE ~ FallbackAttempted(primary, fallback, q)
  <2>1. r = r2
    BY <1>4, <1>7
  <2>2. SoundVerdict(primary, r, q) /\ (r.status = "SUFFICIENT" => ~ partial)
    BY <1>3, <2>1
  <2> QED
    BY <2>2 DEF r
<1> QED
  BY <1>6, <1>7

-----------------------------------------------------------------------------
(* The composition.                                                          *)

\* A frozen bundle that is not called partial lacks nothing that was found.
WholeUnlessPartial == phase = "BUNDLED" /\ coverage # "PARTIAL" => Found \subseteq items

\* What is resolved is the frozen bundle, with or without the fallback.
Resolved ==
  resolution # None =>
    /\ phase = "BUNDLED"
    /\ \E S \in SUBSET Chunks :
          /\ items \subseteq S /\ SoundVerdict(S, resolution, question)
          /\ resolution.status = "SUFFICIENT" => coverage # "PARTIAL"

PipelineInv ==
    /\ BundleInv /\ WholeUnlessPartial /\ Resolved
    /\ phase # "RETRIEVE" => route \in KnowledgeRoute

LEMMA PipelineInvInit == PipelineInit => PipelineInv
<1> SUFFICES ASSUME PipelineInit PROVE PipelineInv
  OBVIOUS
<1>1. BundleInv
  BY BundleInvInit DEF PipelineInit
<1> QED
  BY <1>1 DEF PipelineInit, BundleInit, PipelineInv, WholeUnlessPartial, Resolved

LEMMA ResetBundle == ASSUME BundleInit' PROVE BundleInv'
BY BundleInvInit, PTL

\* A step of the bundle freezes it at the end; then it is whole or partial.
LEMMA BundleStaysWhole ==
    ASSUME BundleInv, WholeUnlessPartial, BundleNext
    PROVE  /\ BundleInv' /\ WholeUnlessPartial'
           /\ phase # "BUNDLED"
<1>1. BundleInv'
  BY BundleInvStep
<1>2. phase # "BUNDLED" /\ (phase' = "BUNDLED" => Freeze)
  BY NothingInEmpty DEF BundleNext, BundleStep, Retrieve, Revise, Fuse, Examine,
     Selected, Excerpt, Freeze
<1>3. ASSUME Freeze, coverage' # "PARTIAL" PROVE Found' \subseteq items'
  <2>1. ~ Truncated /\ phase = "BUDGET" /\ selected = << >>
        /\ UNCHANGED << hits, items >>
    BY <1>3 DEF Freeze
  <2>2. excluded = {} /\ queue = << >> /\ EachOnce
    BY <2>1 DEF Truncated, BundleInv, Remaining, Begun
  <2>3. Found = items
    BY <2>1, <2>2, NothingInEmpty DEF EachOnce, Kept
  <2>4. Found' = Found
    BY <2>1 DEF Found, Received, Returned
  <2> QED
    BY <2>1, <2>3, <2>4
<1> QED
  BY <1>1, <1>2, <1>3 DEF WholeUnlessPartial

LEMMA RouteStep ==
    ASSUME PipelineInv, Route
    PROVE  PipelineInv'
<1>1. UNCHANGED << question, resolution, bundleVars >> /\ route' \in KnowledgeRoute
  BY DEF Route, RouteOf, KnowledgeRoute
<1>2. BundleInv' /\ Found' = Found
  BY <1>1, ReviseStep, BundleInvStep DEF PipelineInv, bundleVars, Found, Received, Returned
<1> QED
  BY <1>1, <1>2 DEF PipelineInv, bundleVars, WholeUnlessPartial, Resolved

LEMMA GatherStep ==
    ASSUME PipelineInv, Bundle \/ Revised
    PROVE  PipelineInv'
<1>1. BundleNext /\ UNCHANGED stepVars /\ route \in KnowledgeRoute
  BY DEF Bundle, Revised, BundleNext, HatRoutes, KnowledgeRoute
<1>2. BundleInv' /\ WholeUnlessPartial' /\ phase # "BUNDLED"
  BY <1>1, BundleStaysWhole DEF PipelineInv
<1>3. resolution = None
  BY <1>2 DEF PipelineInv, Resolved
<1> QED
  BY <1>1, <1>2, <1>3 DEF PipelineInv, Resolved, stepVars

LEMMA ResolveStep ==
    ASSUME PipelineInv, Resolve
    PROVE  PipelineInv'
<1>1. PICK q \in Questions, fallback \in Fallbacks :
         /\ question' = q
         /\ resolution' = Resolution(items, coverage = "PARTIAL", fallback, q)
  BY DEF Resolve
<1>2. phase = "BUNDLED" /\ UNCHANGED << route, bundleVars >> /\ items \in SUBSET Chunks
  BY DEF Resolve, PipelineInv, BundleInv, BundleTypeOK
<1>3. /\ q \in Question
      /\ fallback \in [given : BOOLEAN, items : SUBSET Chunks, partial : BOOLEAN]
      /\ (coverage = "PARTIAL") \in BOOLEAN
  BY PipelineAssumption DEF Question
<1>4. PICK S \in SUBSET Chunks :
              /\ items \subseteq S /\ SoundVerdict(S, resolution', q)
              /\ resolution'.status = "SUFFICIENT" => ~ (coverage = "PARTIAL")
  BY <1>1, <1>2, <1>3, ResolutionIsSound
<1>5. Resolved'
  BY <1>1, <1>2, <1>4 DEF Resolved, bundleVars
<1>6. BundleInv' /\ Found' = Found
  BY <1>2, BundleInvStep DEF PipelineInv, bundleVars, Found, Received, Returned
<1> QED
  BY <1>2, <1>5, <1>6 DEF PipelineInv, bundleVars, WholeUnlessPartial

LEMMA HandoverStep ==
    ASSUME PipelineInv, Handover
    PROVE  PipelineInv'
<1>1. BundleInit' /\ resolution' = None
  BY DEF Handover, BundleInit
<1>2. BundleInv'
  BY <1>1, ResetBundle
<1> QED
  BY <1>1, <1>2 DEF BundleInit, PipelineInv, WholeUnlessPartial, Resolved

LEMMA PipelineInvStep == PipelineInv /\ [PipelineNext]_pipelineVars => PipelineInv'
<1> SUFFICES ASSUME PipelineInv, [PipelineNext]_pipelineVars
             PROVE  PipelineInv'
  OBVIOUS
<1>1. CASE Route
  BY <1>1, RouteStep
<1>2. CASE Bundle \/ Revised
  BY <1>2, GatherStep
<1>3. CASE Resolve
  BY <1>3, ResolveStep
<1>4. CASE Handover
  BY <1>4, HandoverStep
<1>5. CASE UNCHANGED << stepVars, bundleVars >>
  <2>1. BundleInv' /\ Found' = Found
    BY <1>5, BundleInvStep DEF PipelineInv, bundleVars, Found, Received, Returned
  <2> QED
    BY <1>5, <2>1 DEF PipelineInv, stepVars, bundleVars, WholeUnlessPartial, Resolved
<1>6. CASE HandoverRoute \/ \E w \in Workers : Answering(w) \/ Restarted(w)
  BY <1>5, <1>6 DEF HandoverRoute, Answering, Restarted
<1> QED
  BY <1>1, <1>2, <1>3, <1>4, <1>5, <1>6 DEF PipelineNext, PipelineStep, pipelineVars

THEOREM PipelineInvariant == PipelineSpec => []PipelineInv
BY PipelineInvInit, PipelineInvStep, PTL DEF PipelineSpec

(* The accounts of a bundle hold in the pipeline too, where it is put        *)
(* together for a route, resolved, and cleared when it is handed over.       *)
THEOREM PipelineKeepsAccounts == PipelineSpec => []EvidenceIsAccounted
<1>1. PipelineInv => EvidenceIsAccounted
  BY DEF PipelineInv, BundleInv, Begun, EvidenceIsAccounted
<1> QED
  BY <1>1, PipelineInvariant, PTL

(* Evidence that temporal/service.py calls SUFFICIENT is sound and whole,    *)
(* whatever the corpus declares of its versions, cycles included: selected   *)
(* is what is in force and freshly observed, nothing that stands unreplaced  *)
(* was lost on the way, and no two selected texts compete for one subject.   *)
THEOREM SufficientEvidenceIsSound == PipelineSpec => []SufficientIsSound
<1>1. PipelineInv => SufficientIsSound
  <2> SUFFICES ASSUME PipelineInv, resolution # None, resolution.status = "SUFFICIENT"
               PROVE  /\ resolution.grouped = {}
                      /\ Standing(Found \cup DOMAIN resolution.app, question.asOf)
                           \subseteq resolution.selected
                      /\ \A c \in resolution.selected :
                           /\ InForce(c, question.asOf)
                           /\ Info[c].observed \in (question.now - MaxAge)..question.now
                      /\ \A c, d \in resolution.selected :
                           Subject(c) = Subject(d) => TextOf(c) = TextOf(d)
    BY DEF SufficientIsSound
  <2>1. PICK S \in SUBSET Chunks :
          items \subseteq S /\ SoundVerdict(S, resolution, question)
    BY DEF PipelineInv, Resolved
  <2>2. Found \subseteq items
    BY DEF PipelineInv, Resolved, WholeUnlessPartial
  <2>3. Found \cup DOMAIN resolution.app = S
    BY <2>1, <2>2 DEF SoundVerdict
  <2> QED
    BY <2>1, <2>3 DEF SoundVerdict
<1> QED
  BY <1>1, PipelineInvariant, PTL

(* Every step of the pipeline is one of AnswerRelease or leaves it alone:    *)
(* the evidence that is handed over is resolved evidence.                    *)
THEOREM PipelineReleases == PipelineSpec => ReleaseSpec
<1>1. PipelineInit => ReleaseInit
  BY DEF PipelineInit
<1>2. ASSUME PipelineInv, [PipelineNext]_pipelineVars
      PROVE  [ReleaseNext]_releaseVars
  <2>1. CASE Handover
    <3>1. PICK context \in Contexts : Receive(Package(resolution, context))
      BY <2>1 DEF Handover
    <3>2. PICK S \in SUBSET Chunks : SoundVerdict(S, resolution, question)
      BY <1>2, <2>1 DEF Handover, PipelineInv, Resolved
    <3>3. route \in KnowledgeRoute
      BY <1>2, <2>1 DEF Handover, PipelineInv, Resolved
    <3>4. Package(resolution, context) \in EvidenceOf(Chunks)
      <4>1. KnowledgeDecision(route, context, resolution.status) \in Decisions
        BY DEF KnowledgeDecision, Decisions
      <4>2. /\ resolution.app \in UNION {[T -> Applicability] : T \in SUBSET Chunks}
            /\ resolution.fresh \in UNION {[T -> Freshness] : T \in SUBSET Chunks}
            /\ resolution.status \in EvidenceStatus
            /\ resolution.grouped \in SUBSET Chunks /\ resolution.selected \in SUBSET Chunks
            /\ resolution.status = "SUFFICIENT" => resolution.grouped = {}
        BY <3>2 DEF SoundVerdict
      <4> QED
        BY <3>3, <4>1, <4>2 DEF Package, EvidenceOf
    <3> QED
      BY <3>1, <3>4 DEF ReleaseNext
  <2>2. CASE HandoverRoute
    <3>1. PICK context \in Contexts : Receive(Package(NoResolution, context))
      BY <2>2 DEF HandoverRoute
    <3>2. route \in KnowledgeRoute
      BY <2>2 DEF HandoverRoute
    <3>3. Package(NoResolution, context) \in EvidenceOf(Chunks)
      <4>1. KnowledgeDecision(route, context, "NOT_REQUIRED") \in Decisions
        BY DEF KnowledgeDecision, Decisions
      <4>2. {} \in SUBSET Chunks /\ "NOT_REQUIRED" \in EvidenceStatus
            /\ "NOT_REQUIRED" # "SUFFICIENT"
        BY DEF EvidenceStatus
      <4>3. ASSUME NEW X PROVE << >> \in UNION {[T -> X] : T \in SUBSET Chunks}
        <5>1. << >> \in Seq(X) /\ Len(<< >>) = 0 /\ 1..0 = {}
          OBVIOUS
        <5>2. << >> \in [{} -> X]
          BY <5>1
        <5> QED
          BY <5>2
      <4> QED
        BY <3>2, <4>1, <4>2, <4>3 DEF Package, NoResolution, EvidenceOf
    <3> QED
      BY <3>1, <3>3 DEF ReleaseNext
  <2>3. CASE \E w \in Workers : Answering(w) \/ Restarted(w)
    BY <2>3 DEF Answering, Restarted, ReleaseNext
  <2>4. CASE UNCHANGED releaseVars
    BY <2>4
  <2>5. CASE Route \/ Bundle \/ Revised \/ Resolve
    BY <2>4, <2>5 DEF Route, Bundle, Revised, Resolve, releaseVars
  <2> QED
    BY <1>2, <2>1, <2>2, <2>3, <2>4, <2>5
       DEF PipelineNext, PipelineStep, pipelineVars
<1> QED
  BY <1>1, <1>2, PipelineInvariant, PTL DEF PipelineSpec, ReleaseSpec

(* So what is proved of the release of answers holds of the pipeline.        *)
THEOREM PipelineAnswersAreSound ==
  PipelineSpec => [](/\ ReleasedDraftIsOnRecord
                     /\ CarriedClaimsWereSupported
                     /\ AnswersRestOnEvidence)
BY PipelineReleases, ReleasedDraftsAreOnRecord, CarriedClaimsAreSupported,
   AnswersAreBacked, PTL
=============================================================================
