-------------------------- MODULE JuryRuntimeProofs --------------------------
(***************************************************************************)
(* Proofs about JuryRuntime, for every number of processes, sessions,      *)
(* keys, runs, retries, faults and stops: the runtime uses the ledger as   *)
(* ProviderGuard lets it, so what is proved there of any client holds of   *)
(* the program.                                                            *)
(*                                                                         *)
(* RuntimeInv is the inductive invariant.  A pool thread names its run and *)
(* its next attempt from its own memory; RuntimeInv says that these are a  *)
(* request that was reserved and an attempt number that exists, which      *)
(* needs the number of attempts of both drafts to be counted.              *)
(* CoordinatorInv and AccountsInv add what the memory of a process and the *)
(* rows of a run say at each point of its way.                             *)
(*                                                                         *)
(* First the guard by itself, for every set of sessions and owners and     *)
(* every limit: the books are true, no ceiling is exceeded, and the guard  *)
(* implements the budget.  GuardInv is the inductive invariant.  The       *)
(* ceilings need the set of reservations to be finite, which holds because *)
(* it starts empty and grows by one reservation in a step; no finiteness   *)
(* of the sessions is assumed.                                             *)
(***************************************************************************)
EXTENDS JuryRuntime, TLAPS, FiniteSetTheorems

FinitelyReserved == /\ IsFiniteSet(Reserved(Requests))
                    /\ IsFiniteSet(Reserved(Calls))

GuardInv == GuardTypeOK /\ BooksMatchProvider /\ FinitelyReserved /\ CeilingsHold

-----------------------------------------------------------------------------
(***************************************************************************)
(* Requests and calls are different records, so the rows of one are not    *)
(* touched by a reservation of the other.                                  *)
(***************************************************************************)

LEMMA KindsAreDisjoint == ASSUME NEW q \in Requests, NEW c \in Calls PROVE q # c
<1>1. DOMAIN q = {"session", "id"}
  BY DEF Requests
<1>2. DOMAIN c = {"request", "attempt"}
  BY DEF Calls
<1> QED
  BY <1>1, <1>2

\* A subset of a finite set of reservations is finite and no larger.
LEMMA PartsAreFinite ==
    ASSUME FinitelyReserved
    PROVE  /\ \A o : IsFiniteSet(OfOwner(Requests, o)) /\ IsFiniteSet(OfOwner(Calls, o))
           /\ \A s : IsFiniteSet(OfSession(Requests, s)) /\ IsFiniteSet(OfSession(Calls, s))
           /\ \A q : IsFiniteSet(OfRequest(q))
<1>1. /\ \A o : OfOwner(Requests, o) \subseteq Reserved(Requests)
      /\ \A o : OfOwner(Calls, o) \subseteq Reserved(Calls)
      /\ \A s : OfSession(Requests, s) \subseteq Reserved(Requests)
      /\ \A s : OfSession(Calls, s) \subseteq Reserved(Calls)
      /\ \A q : OfRequest(q) \subseteq Reserved(Calls)
  BY DEF OfOwner, OfSession, OfRequest
<1> QED
  BY <1>1, FS_Subset DEF FinitelyReserved

\* One more member below a limit stays within it.
LEMMA OneMoreFits ==
    ASSUME NEW S, NEW T, NEW x, NEW limit \in Nat, IsFiniteSet(S),
           T = S \/ T = S \cup {x}, Cardinality(S) <= limit,
           T # S => Cardinality(S) < limit
    PROVE  Cardinality(T) <= limit
<1>1. CASE T = S
  BY <1>1
<1>2. CASE T # S
  <2>1. T = S \cup {x} /\ x \notin S
    BY <1>2
  <2>2. Cardinality(T) = Cardinality(S) + 1
    BY <2>1, FS_AddElement
  <2>3. Cardinality(S) \in Nat
    BY FS_CardinalityType
  <2> QED
    BY <1>2, <2>2, <2>3
<1> QED
  BY <1>1, <1>2

LEMMA RequestLimitsAreNumbers ==
    /\ RequestLimits.total \in Nat
    /\ RequestLimits.owner \in Nat
    /\ RequestLimits.session \in Nat
BY GuardAssumption

LEMMA CallLimitsAreNumbers ==
    /\ CallLimits.total \in Nat
    /\ CallLimits.owner \in Nat
    /\ CallLimits.session \in Nat
    /\ CallLimits.request \in Nat
BY GuardAssumption

-----------------------------------------------------------------------------
(***************************************************************************)
(* What the rows count after each kind of step.                            *)
(***************************************************************************)

\* Insert adds its reservation to the rows of its kind.
LEMMA InsertAddsOne ==
    ASSUME GuardTypeOK, NEW r \in Requests \cup Calls, Insert(r)
    PROVE  /\ Reserved(Requests)' = Reserved(Requests) \cup (Requests \cap {r})
           /\ Reserved(Calls)' = Reserved(Calls) \cup (Calls \cap {r})
BY DEF GuardTypeOK, Insert, Reserved

\* A completion changes no count.
LEMMA CompleteKeepsCounts ==
    ASSUME GuardTypeOK, NEW r \in Requests \cup Calls, NEW status \in Status,
           status # "ABSENT", Complete(r, status)
    PROVE  Reserved(Requests)' = Reserved(Requests) /\ Reserved(Calls)' = Reserved(Calls)
BY DEF GuardTypeOK, Complete, Reserved

\* A step that adds no reservation keeps every ceiling.
LEMMA SameCountsSameCeilings ==
    ASSUME FinitelyReserved, CeilingsHold,
           Reserved(Requests)' = Reserved(Requests),
           Reserved(Calls)' = Reserved(Calls)
    PROVE  FinitelyReserved' /\ CeilingsHold'
<1>1. FinitelyReserved'
  BY DEF FinitelyReserved
<1>2. \A o : OfOwner(Requests, o)' = OfOwner(Requests, o) /\ OfOwner(Calls, o)' = OfOwner(Calls, o)
  BY DEF OfOwner
<1>3. \A s : OfSession(Requests, s)' = OfSession(Requests, s) /\ OfSession(Calls, s)' = OfSession(Calls, s)
  BY DEF OfSession
<1>4. \A q : OfRequest(q)' = OfRequest(q)
  BY DEF OfRequest
<1>5. CeilingsHold'
  BY <1>2, <1>3, <1>4 DEF CeilingsHold, Within
<1> QED
  BY <1>1, <1>5

LEMMA SessionOfRequest == ASSUME NEW q \in Requests PROVE SessionOf(q) = q.session
BY DEF SessionOf

LEMMA SessionOfCall == ASSUME NEW c \in Calls PROVE SessionOf(c) = c.request.session
BY KindsAreDisjoint DEF SessionOf

\* An admitted request is counted once, in each of its three counts.
LEMMA ReserveRequestKeepsCeilings ==
    ASSUME GuardInv, NEW q \in Requests, ReserveRequest(q)
    PROVE  FinitelyReserved' /\ CeilingsHold'
<1> USE DEF GuardInv
<1>1. /\ Reserved(Requests)' = Reserved(Requests) \cup {q}
      /\ Reserved(Calls)' = Reserved(Calls)
  BY InsertAddsOne, KindsAreDisjoint DEF ReserveRequest
<1>2. q.session \in Sessions
  BY DEF Requests
<1>3. /\ Cardinality(Reserved(Requests)) < RequestLimits.total
      /\ Cardinality(OfOwner(Requests, OwnerOf[q.session])) < RequestLimits.owner
      /\ Cardinality(OfSession(Requests, q.session)) < RequestLimits.session
  BY DEF ReserveRequest, RequestAdmitted, BelowLimits
<1>4. FinitelyReserved'
  BY <1>1, FS_AddElement DEF FinitelyReserved
<1>5. Cardinality(Reserved(Requests)') <= RequestLimits.total
  BY <1>1, <1>3, OneMoreFits, RequestLimitsAreNumbers DEF FinitelyReserved, CeilingsHold, Within
<1>6. ASSUME NEW o \in Owners
      PROVE  Cardinality(OfOwner(Requests, o)') <= RequestLimits.owner
  <2>1. OfOwner(Requests, o)' = IF OwnerOf[q.session] = o THEN OfOwner(Requests, o) \cup {q}
                                                          ELSE OfOwner(Requests, o)
    BY <1>1, SessionOfRequest DEF OfOwner
  <2>2. IsFiniteSet(OfOwner(Requests, o)) /\ Cardinality(OfOwner(Requests, o)) <= RequestLimits.owner
    BY PartsAreFinite DEF CeilingsHold, Within
  <2> QED
    BY <1>3, <2>1, <2>2, OneMoreFits, RequestLimitsAreNumbers
<1>7. ASSUME NEW s \in Sessions
      PROVE  Cardinality(OfSession(Requests, s)') <= RequestLimits.session
  <2>1. OfSession(Requests, s)' = IF q.session = s THEN OfSession(Requests, s) \cup {q}
                                                   ELSE OfSession(Requests, s)
    BY <1>1, SessionOfRequest DEF OfSession
  <2>2. IsFiniteSet(OfSession(Requests, s)) /\ Cardinality(OfSession(Requests, s)) <= RequestLimits.session
    BY PartsAreFinite DEF CeilingsHold, Within
  <2> QED
    BY <1>3, <2>1, <2>2, OneMoreFits, RequestLimitsAreNumbers
<1>8. Within(Requests, RequestLimits)'
  BY <1>5, <1>6, <1>7 DEF Within
<1>9. Within(Calls, CallLimits)' /\ \A r \in Requests : Cardinality(OfRequest(r)') <= CallLimits.request
  <2>1. /\ \A o : OfOwner(Calls, o)' = OfOwner(Calls, o)
        /\ \A s : OfSession(Calls, s)' = OfSession(Calls, s)
        /\ \A r : OfRequest(r)' = OfRequest(r)
    BY <1>1 DEF OfOwner, OfSession, OfRequest
  <2> QED
    BY <1>1, <2>1 DEF CeilingsHold, Within
<1> QED
  BY <1>4, <1>8, <1>9 DEF CeilingsHold

\* An admitted call is counted once, in each of its four counts.
LEMMA ReserveCallKeepsCeilings ==
    ASSUME GuardInv, NEW c \in Calls, ReserveCall(c)
    PROVE  FinitelyReserved' /\ CeilingsHold'
<1> USE DEF GuardInv
<1>1. /\ Reserved(Calls)' = Reserved(Calls) \cup {c}
      /\ Reserved(Requests)' = Reserved(Requests)
  BY InsertAddsOne, KindsAreDisjoint DEF ReserveCall
<1>2. c.request \in Requests /\ c.request.session \in Sessions
  BY DEF Calls, Requests
<1>3. /\ Cardinality(Reserved(Calls)) < CallLimits.total
      /\ Cardinality(OfOwner(Calls, OwnerOf[c.request.session])) < CallLimits.owner
      /\ Cardinality(OfSession(Calls, c.request.session)) < CallLimits.session
      /\ Cardinality(OfRequest(c.request)) < CallLimits.request
  BY DEF ReserveCall, CallAdmitted, BelowLimits
<1>4. FinitelyReserved'
  BY <1>1, FS_AddElement DEF FinitelyReserved
<1>5. Cardinality(Reserved(Calls)') <= CallLimits.total
  BY <1>1, <1>3, OneMoreFits, CallLimitsAreNumbers DEF FinitelyReserved, CeilingsHold, Within
<1>6. ASSUME NEW o \in Owners
      PROVE  Cardinality(OfOwner(Calls, o)') <= CallLimits.owner
  <2>1. OfOwner(Calls, o)' = IF OwnerOf[c.request.session] = o THEN OfOwner(Calls, o) \cup {c}
                                                               ELSE OfOwner(Calls, o)
    BY <1>1, SessionOfCall DEF OfOwner
  <2>2. IsFiniteSet(OfOwner(Calls, o)) /\ Cardinality(OfOwner(Calls, o)) <= CallLimits.owner
    BY PartsAreFinite DEF CeilingsHold, Within
  <2> QED
    BY <1>3, <2>1, <2>2, OneMoreFits, CallLimitsAreNumbers
<1>7. ASSUME NEW s \in Sessions
      PROVE  Cardinality(OfSession(Calls, s)') <= CallLimits.session
  <2>1. OfSession(Calls, s)' = IF c.request.session = s THEN OfSession(Calls, s) \cup {c}
                                                        ELSE OfSession(Calls, s)
    BY <1>1, SessionOfCall DEF OfSession
  <2>2. IsFiniteSet(OfSession(Calls, s)) /\ Cardinality(OfSession(Calls, s)) <= CallLimits.session
    BY PartsAreFinite DEF CeilingsHold, Within
  <2> QED
    BY <1>3, <2>1, <2>2, OneMoreFits, CallLimitsAreNumbers
<1>8. ASSUME NEW r \in Requests
      PROVE  Cardinality(OfRequest(r)') <= CallLimits.request
  <2>1. OfRequest(r)' = IF c.request = r THEN OfRequest(r) \cup {c} ELSE OfRequest(r)
    BY <1>1 DEF OfRequest
  <2>2. IsFiniteSet(OfRequest(r)) /\ Cardinality(OfRequest(r)) <= CallLimits.request
    BY PartsAreFinite DEF CeilingsHold
  <2> QED
    BY <1>3, <2>1, <2>2, OneMoreFits, CallLimitsAreNumbers
<1>9. Within(Calls, CallLimits)'
  BY <1>5, <1>6, <1>7 DEF Within
<1>10. Within(Requests, RequestLimits)'
  <2>1. /\ \A o : OfOwner(Requests, o)' = OfOwner(Requests, o)
        /\ \A s : OfSession(Requests, s)' = OfSession(Requests, s)
    BY <1>1 DEF OfOwner, OfSession
  <2> QED
    BY <1>1, <2>1 DEF CeilingsHold, Within
<1> QED
  BY <1>4, <1>8, <1>9, <1>10 DEF CeilingsHold

-----------------------------------------------------------------------------
(***************************************************************************)
(* GuardInv holds initially and is kept by every method.                   *)
(***************************************************************************)

LEMMA GuardStartsTrue == GuardInit => GuardInv
<1> SUFFICES ASSUME GuardInit PROVE GuardInv
  OBVIOUS
<1>1. GuardTypeOK /\ BooksMatchProvider
  BY DEF GuardInit, GuardTypeOK, BooksMatchProvider, Status, Verdict
<1>2. Reserved(Requests) = {} /\ Reserved(Calls) = {}
  BY DEF GuardInit, Reserved
<1>3. FinitelyReserved
  BY <1>2, FS_EmptySet DEF FinitelyReserved
<1>4. /\ \A o : OfOwner(Requests, o) = {} /\ OfOwner(Calls, o) = {}
      /\ \A s : OfSession(Requests, s) = {} /\ OfSession(Calls, s) = {}
      /\ \A q : OfRequest(q) = {}
  BY <1>2 DEF OfOwner, OfSession, OfRequest
<1>5. Cardinality({}) = 0
  BY FS_EmptySet
<1>6. Within(Requests, RequestLimits)
  BY <1>2, <1>4, <1>5, RequestLimitsAreNumbers DEF Within
<1>7. Within(Calls, CallLimits) /\ \A q \in Requests : Cardinality(OfRequest(q)) <= CallLimits.request
  BY <1>2, <1>4, <1>5, CallLimitsAreNumbers DEF Within
<1> QED
  BY <1>1, <1>3, <1>6, <1>7 DEF GuardInv, CeilingsHold

\* A step in which only the provider moves keeps every ceiling.
LEMMA ProviderStepKeepsCeilings ==
    ASSUME GuardInv, UNCHANGED rows
    PROVE  FinitelyReserved' /\ CeilingsHold'
<1>1. Reserved(Requests)' = Reserved(Requests) /\ Reserved(Calls)' = Reserved(Calls)
  BY DEF Reserved
<1> QED
  BY <1>1, SameCountsSameCeilings DEF GuardInv

LEMMA ReserveRequestKeepsInv ==
    ASSUME GuardInv, NEW q \in Requests, ReserveRequest(q)
    PROVE  GuardInv'
<1>1. GuardTypeOK'
  BY DEF GuardInv, GuardTypeOK, ReserveRequest, Insert, Status
<1>2. BooksMatchProvider'
  BY KindsAreDisjoint DEF GuardInv, GuardTypeOK, BooksMatchProvider, ReserveRequest, Insert
<1> QED
  BY <1>1, <1>2, ReserveRequestKeepsCeilings DEF GuardInv

\* The row was absent, so its call has not been made.
LEMMA ReserveCallKeepsInv ==
    ASSUME GuardInv, NEW c \in Calls, ReserveCall(c)
    PROVE  GuardInv'
<1>1. GuardTypeOK'
  BY DEF GuardInv, GuardTypeOK, ReserveCall, Insert, Status
<1>2. BooksMatchProvider'
  BY DEF GuardInv, GuardTypeOK, BooksMatchProvider, ReserveCall, CallAdmitted, Insert
<1> QED
  BY <1>1, <1>2, ReserveCallKeepsCeilings DEF GuardInv

LEMMA SettleRequestKeepsInv ==
    ASSUME GuardInv, NEW q \in Requests, SettleRequest(q)
    PROVE  GuardInv'
<1> PICK s \in {"COMPLETED", "FAILED_FINAL"} : Complete(q, s)
  BY DEF SettleRequest
<1>1. GuardTypeOK'
  BY DEF GuardInv, GuardTypeOK, Complete, Status
<1>2. BooksMatchProvider'
  BY KindsAreDisjoint DEF GuardInv, GuardTypeOK, BooksMatchProvider, Complete
<1>3. FinitelyReserved' /\ CeilingsHold'
  BY CompleteKeepsCounts, SameCountsSameCeilings DEF GuardInv, Status
<1> QED
  BY <1>1, <1>2, <1>3 DEF GuardInv

\* The status that is written is the one of the verdict.
LEMMA SettleCallKeepsInv ==
    ASSUME GuardInv, NEW c \in Calls, SettleCall(c)
    PROVE  GuardInv'
<1>0. /\ provider[c] = "ANSWERED" => Settlement(provider[c]) = "COMPLETED"
      /\ provider[c] = "REFUSED" => Settlement(provider[c]) = "FAILED_FINAL"
      /\ provider[c] = "UNKNOWN" => Settlement(provider[c]) = "INTERRUPTED"
  BY DEF Settlement
<1> DEFINE status == Settlement(provider[c])
<1>1. /\ provider[c] \in {"ANSWERED", "REFUSED", "UNKNOWN"}
      /\ Complete(c, status)
  BY DEF SettleCall
<1>2. status \in Status /\ status # "ABSENT"
  BY <1>0, <1>1 DEF Status
<1> HIDE DEF status
<1>3. GuardTypeOK'
  BY <1>1, <1>2 DEF GuardInv, GuardTypeOK, Complete
<1>4. BooksMatchProvider'
  BY <1>0, <1>1, <1>2 DEF GuardInv, GuardTypeOK, BooksMatchProvider, Complete, status
<1>5. FinitelyReserved' /\ CeilingsHold'
  BY <1>1, <1>2, CompleteKeepsCounts, SameCountsSameCeilings DEF GuardInv
<1> QED
  BY <1>3, <1>4, <1>5 DEF GuardInv

LEMMA AskProviderKeepsInv ==
    ASSUME GuardInv, NEW c \in Calls, AskProvider(c)
    PROVE  GuardInv'
<1>1. GuardTypeOK' /\ BooksMatchProvider'
  BY DEF GuardInv, GuardTypeOK, BooksMatchProvider, AskProvider, Verdict
<1> QED
  BY <1>1, ProviderStepKeepsCeilings DEF GuardInv, AskProvider

\* A call that is open has not been settled.
LEMMA ProviderEndsKeepsInv ==
    ASSUME GuardInv, NEW c \in Calls, NEW v \in {"ANSWERED", "REFUSED", "UNKNOWN"},
           ProviderEnds(c, v)
    PROVE  GuardInv'
<1>1. GuardTypeOK'
  BY DEF GuardInv, GuardTypeOK, ProviderEnds, Verdict
<1>2. BooksMatchProvider'
  BY DEF GuardInv, GuardTypeOK, BooksMatchProvider, ProviderEnds
<1> QED
  BY <1>1, <1>2, ProviderStepKeepsCeilings DEF GuardInv, ProviderEnds

LEMMA GuardStepKeepsInv == GuardInv /\ [GuardNext]_guardVars => GuardInv'
<1> SUFFICES ASSUME GuardInv, [GuardNext]_guardVars PROVE GuardInv'
  OBVIOUS
<1>1. CASE UNCHANGED guardVars
  <2>1. GuardTypeOK' /\ BooksMatchProvider'
    BY <1>1 DEF guardVars, GuardInv, GuardTypeOK, BooksMatchProvider
  <2> QED
    BY <1>1, <2>1, ProviderStepKeepsCeilings DEF guardVars, GuardInv
<1>2. ASSUME NEW q \in Requests, ReserveRequest(q) \/ SettleRequest(q) PROVE GuardInv'
  BY <1>2, ReserveRequestKeepsInv, SettleRequestKeepsInv
<1>3. ASSUME NEW c \in Calls, ReserveCall(c) PROVE GuardInv'
  BY <1>3, ReserveCallKeepsInv
<1>4. ASSUME NEW c \in Calls, AskProvider(c) PROVE GuardInv'
  BY <1>4, AskProviderKeepsInv
<1>5. ASSUME NEW c \in Calls, SettleCall(c) PROVE GuardInv'
  BY <1>5, SettleCallKeepsInv
<1>6. ASSUME NEW c \in Calls, NEW v \in {"ANSWERED", "REFUSED", "UNKNOWN"}, ProviderEnds(c, v)
      PROVE  GuardInv'
  BY <1>6, ProviderEndsKeepsInv
<1> QED
  BY <1>1, <1>2, <1>3, <1>4, <1>5, <1>6 DEF GuardNext

LEMMA GuardInvariant == GuardSpec => []GuardInv
<1> QED
  BY GuardStartsTrue, GuardStepKeepsInv, PTL DEF GuardSpec

(* For every set of owners, sessions and limits: whoever reserves, asks and  *)
(* settles at the same time, no count of requests or calls (in all, of an    *)
(* owner, of a session, of a request) passes its limit, and every settled    *)
(* row of the ledger tells what the provider did.                            *)
THEOREM LedgerStaysTrue == GuardSpec => []LedgerIsTrue
<1>1. GuardInv => LedgerIsTrue
  BY DEF GuardInv, LedgerIsTrue
<1> QED
  BY <1>1, GuardInvariant, PTL

-----------------------------------------------------------------------------
(***************************************************************************)
(* The refinement: rows are charges, and asking the provider is a call.    *)
(***************************************************************************)

LEMMA BudgetCountsTheSame == \A S : Budget!Cardinality(S) = Cardinality(S)
BY DEF Budget!Cardinality, Cardinality

LEMMA GuardStepIsBudgetStep ==
    GuardInv /\ [GuardNext]_guardVars => [Budget!BudgetNext]_(Budget!budgetVars)
<1> SUFFICES ASSUME GuardInv, [GuardNext]_guardVars
             PROVE  [Budget!BudgetNext]_(Budget!budgetVars)
  OBVIOUS
<1> DEFINE made == {c \in Calls : provider[c] # "NOT_ASKED"}
<1> USE DEF GuardInv
<1>1. CASE UNCHANGED guardVars
  BY <1>1 DEF guardVars, Reserved, Budget!budgetVars
<1>2. ASSUME NEW q \in Requests, ReserveRequest(q) PROVE UNCHANGED Budget!budgetVars
  <2>1. Reserved(Calls)' = Reserved(Calls)
    BY <1>2, InsertAddsOne, KindsAreDisjoint DEF ReserveRequest
  <2>2. made' = made
    BY <1>2 DEF ReserveRequest
  <2> QED
    BY <2>1, <2>2 DEF Budget!budgetVars
<1>3. ASSUME NEW q \in Requests, SettleRequest(q) PROVE UNCHANGED Budget!budgetVars
  <2>1. Reserved(Calls)' = Reserved(Calls) /\ made' = made
    BY <1>3, CompleteKeepsCounts DEF SettleRequest, Status, Complete
  <2> QED
    BY <2>1 DEF Budget!budgetVars
<1>4. ASSUME NEW c \in Calls, ReserveCall(c) PROVE Budget!Charge(c)
  <2>1. Reserved(Calls)' = Reserved(Calls) \cup {c}
    BY <1>4, InsertAddsOne DEF ReserveCall
  <2>2. c \notin Reserved(Calls) /\ Cardinality(Reserved(Calls)) < CallLimits.total
    BY <1>4 DEF ReserveCall, CallAdmitted, BelowLimits, Reserved
  <2>3. made' = made
    BY <1>4 DEF ReserveCall
  <2> QED
    BY <2>1, <2>2, <2>3, BudgetCountsTheSame DEF Budget!Charge
<1>5. ASSUME NEW c \in Calls, AskProvider(c) PROVE Budget!Make(c)
  <2>1. Reserved(Calls)' = Reserved(Calls)
    BY <1>5 DEF AskProvider, Reserved
  <2>2. c \in Reserved(Calls) \ made /\ made' = made \cup {c}
    BY <1>5 DEF AskProvider, Reserved, GuardTypeOK
  <2> QED
    BY <2>1, <2>2 DEF Budget!Make
<1>6. ASSUME NEW c \in Calls, NEW v \in {"ANSWERED", "REFUSED", "UNKNOWN"}, ProviderEnds(c, v)
      PROVE  UNCHANGED Budget!budgetVars
  <2>1. Reserved(Calls)' = Reserved(Calls) /\ made' = made
    BY <1>6 DEF ProviderEnds, Reserved, GuardTypeOK
  <2> QED
    BY <2>1 DEF Budget!budgetVars
<1>7. ASSUME NEW c \in Calls, SettleCall(c) PROVE UNCHANGED Budget!budgetVars
  <2>1. Settlement(provider[c]) \in Status \ {"ABSENT"} /\ Complete(c, Settlement(provider[c]))
    BY <1>7 DEF SettleCall, Settlement, Status
  <2>2. Reserved(Calls)' = Reserved(Calls) /\ made' = made
    BY <2>1, CompleteKeepsCounts DEF Complete
  <2> QED
    BY <2>2 DEF Budget!budgetVars
<1> QED
  BY <1>1, <1>2, <1>3, <1>4, <1>5, <1>6, <1>7 DEF GuardNext, Budget!BudgetNext

(* Every behaviour of the ledger and the provider is one of CallBudget: a    *)
(* call is charged before it is made, made once, never refunded, and the     *)
(* charges of an epoch stay within its ceiling.                              *)
THEOREM GuardKeepsBudget == GuardSpec => ImplementsBudget
<1>1. GuardInit => Budget!BudgetInit
  BY DEF GuardInit, Budget!BudgetInit, Reserved
<1>2. GuardInv /\ [GuardNext]_guardVars => [Budget!BudgetNext]_(Budget!budgetVars)
  BY GuardStepIsBudgetStep
<1> QED
  BY <1>1, <1>2, GuardInvariant, PTL DEF GuardSpec, ImplementsBudget, Budget!BudgetSpec


-----------------------------------------------------------------------------
(***************************************************************************)
(* The runtime.                                                            *)
(***************************************************************************)

InScope == {"generate", "ask", "wait", "settle", "examine", "leave"}

\* Attempts that the drafts before this one may have made.
Earlier(t) == IF t.draft = "V1" THEN 0 ELSE MaxTries

\* Thread record t can be where it is when the reservations are those of table.
Placed(t, table) ==
    /\ t.pc # "idle" => t.run \in Requests
    /\ t.pc \in InScope => table[t.run] # "ABSENT"
    /\ t.pc = "admit" => t.draft = "V1" /\ t.attempts = 0
    /\ t.pc = "generate" => t.tries >= 1 /\ t.attempts < Earlier(t) + t.tries
    /\ t.pc \in {"ask", "wait", "settle", "examine"} =>
          t.tries >= 1 /\ t.attempts >= 1 /\ t.attempts <= Earlier(t) + t.tries

ThreadsPlaced == /\ thread \in [Runtimes -> Thread]
                 /\ \A p \in Runtimes : Placed(thread[p], rows)

QueuesHoldRequests == /\ queue \in [Runtimes -> Seq(Requests)]
                      /\ issued \in 0..MaxRuns

RuntimeInv == GuardInv /\ ThreadsPlaced /\ QueuesHoldRequests

-----------------------------------------------------------------------------
(***************************************************************************)
(* Facts about a step of the guard and a move of a thread.                 *)
(***************************************************************************)

LEMMA BoundsAreNumbers == /\ MaxRuns \in Nat /\ MaxAttempt \in Nat /\ MaxTries \in Nat
                          /\ MaxTries >= 1 /\ 2 * MaxTries <= MaxAttempt
BY GuardAssumption, RuntimeAssumption

LEMMA CountersStart == /\ 0 \in 0..MaxTries /\ 1 \in 0..MaxTries
                       /\ 0 \in 0..MaxAttempt
BY BoundsAreNumbers

LEMMA IdleIsPlaced == \A table : IdleThread \in Thread /\ Placed(IdleThread, table)
BY BoundsAreNumbers DEF IdleThread, Thread, Placed, InScope, Results

\* A reservation is never taken back.
LEMMA ReservationsStay ==
    ASSUME GuardInv, [GuardNext]_guardVars, NEW q \in Requests, rows[q] # "ABSENT"
    PROVE  rows'[q] # "ABSENT"
<1> USE DEF GuardInv, GuardTypeOK
<1>1. CASE UNCHANGED guardVars
  BY <1>1 DEF guardVars
<1>2. ASSUME NEW r \in Requests \cup Calls, Insert(r) PROVE rows'[q] # "ABSENT"
  BY <1>2 DEF Insert
<1>3. ASSUME NEW r \in Requests \cup Calls, NEW s, s # "ABSENT", Complete(r, s)
      PROVE  rows'[q] # "ABSENT"
  BY <1>3 DEF Complete
<1>4. ASSUME UNCHANGED rows PROVE rows'[q] # "ABSENT"
  BY <1>4
<1>5. \A c \in Calls : SettleCall(c) => \E s : s # "ABSENT" /\ Complete(c, s)
  BY DEF SettleCall, Settlement
<1>6. \A r \in Requests : SettleRequest(r) => \E s : s # "ABSENT" /\ Complete(r, s)
  BY DEF SettleRequest
<1> QED
  BY <1>1, <1>2, <1>3, <1>4, <1>5, <1>6
     DEF GuardNext, ReserveRequest, ReserveCall, AskProvider, ProviderEnds

\* What is placed stays placed while others reserve and settle.
LEMMA PlacedStays ==
    ASSUME GuardInv, [GuardNext]_guardVars, NEW t, Placed(t, rows)
    PROVE  Placed(t, rows')
BY ReservationsStay DEF Placed, InScope

LEMMA MoveKeepsThreads ==
    ASSUME GuardInv, [GuardNext]_guardVars, ThreadsPlaced,
           NEW p \in Runtimes, NEW t \in Thread, Placed(t, rows'), Goto(p, t)
    PROVE  ThreadsPlaced'
BY PlacedStays DEF ThreadsPlaced, Goto

LEMMA StillThreadsStay ==
    ASSUME GuardInv, [GuardNext]_guardVars, ThreadsPlaced, UNCHANGED thread
    PROVE  ThreadsPlaced'
BY PlacedStays DEF ThreadsPlaced

\* A step that leaves ledger and provider alone and sends one thread on.
LEMMA QuietMove ==
    ASSUME RuntimeInv, UNCHANGED guardVars,
           NEW p \in Runtimes, NEW t \in Thread, Placed(t, rows), Goto(p, t)
    PROVE  ThreadsPlaced'
<1>1. Placed(t, rows')
  BY DEF guardVars
<1> QED
  BY <1>1, MoveKeepsThreads DEF RuntimeInv

\* Each end of a ledger transaction: it commits or not, and the thread moves
\* to one of two places that are right after the commit and without it.
LEMMA TransactionMoves ==
    ASSUME RuntimeInv, NEW p \in Runtimes, NEW ACTION commit,
           NEW t \in Thread, NEW u \in Thread,
           Transaction(p, commit, t, u),
           commit => GuardNext /\ Placed(t, rows'),
           Placed(u, rows)
    PROVE  [GuardNext]_guardVars /\ ThreadsPlaced'
<1>1. [GuardNext]_guardVars
  BY DEF Transaction
<1>2. CASE commit /\ Goto(p, t)
  BY <1>1, <1>2, MoveKeepsThreads DEF RuntimeInv
<1>3. CASE Goto(p, u)
  <2>1. Placed(u, rows')
    BY <1>1, PlacedStays DEF RuntimeInv
  <2> QED
    BY <1>1, <1>3, <2>1, MoveKeepsThreads DEF RuntimeInv
<1> QED
  BY <1>2, <1>3 DEF Transaction

-----------------------------------------------------------------------------
(***************************************************************************)
(* Each step of the pool thread is a step of the guard or leaves it alone, *)
(* and leaves the threads placed.                                          *)
(***************************************************************************)

LEMMA TakeRunFits ==
    ASSUME RuntimeInv, NEW p \in Runtimes, TakeRun(p)
    PROVE  ThreadsPlaced' /\ QueuesHoldRequests'
<1> DEFINE t == [IdleThread EXCEPT !.pc = "admit", !.run = Head(queue[p])]
<1>1. queue[p] \in Seq(Requests) /\ queue[p] # << >>
  BY DEF TakeRun, RuntimeInv, QueuesHoldRequests
<1>2. Head(queue[p]) \in Requests /\ Tail(queue[p]) \in Seq(Requests)
  BY <1>1
<1>3. t \in Thread /\ Placed(t, rows)
  <2>1. t \in Thread
    BY <1>2, IdleIsPlaced DEF Thread
  <2>2. t.pc = "admit" /\ t.run = Head(queue[p]) /\ t.draft = "V1" /\ t.attempts = 0
    BY DEF IdleThread
  <2> QED
    BY <1>2, <2>1, <2>2 DEF Placed, InScope
<1>4. Goto(p, t) /\ UNCHANGED guardVars
  BY DEF TakeRun
<1> HIDE DEF t
<1>5. ThreadsPlaced'
  BY <1>3, <1>4, QuietMove
<1>6. QueuesHoldRequests'
  BY <1>2 DEF TakeRun, RuntimeInv, QueuesHoldRequests
<1> QED
  BY <1>5, <1>6

LEMMA EnterScopeFits ==
    ASSUME RuntimeInv, NEW p \in Runtimes, EnterScope(p)
    PROVE  [GuardNext]_guardVars /\ ThreadsPlaced'
<1> DEFINE q == thread[p].run
           refused == Ended(p, "publish", "BLOCKED")
           entered == [thread[p] EXCEPT !.pc = "generate", !.tries = 1]
<1>1. thread[p] \in Thread /\ Placed(thread[p], rows) /\ thread[p].pc = "admit"
  BY DEF EnterScope, At, RuntimeInv, ThreadsPlaced
<1>2. q \in Requests
  BY <1>1 DEF Placed
<1>3. refused \in Thread /\ Placed(refused, rows)
  <2>1. refused \in Thread /\ refused.pc = "publish" /\ refused.run = q
    BY <1>1 DEF Ended, Thread, Results
  <2> QED
    BY <1>2, <2>1 DEF Placed, InScope
<1>4. entered \in Thread /\ entered.run = q
  BY <1>1, CountersStart DEF Thread
<1>5. ASSUME ReserveRequest(q) PROVE GuardNext /\ Placed(entered, rows')
  <2>1. GuardNext
    BY <1>2, <1>5 DEF GuardNext
  <2>2. rows'[q] # "ABSENT"
    BY <1>2, <1>5 DEF ReserveRequest, Insert, RuntimeInv, GuardInv, GuardTypeOK
  <2>3. entered.pc = "generate" /\ entered.tries = 1 /\ entered.attempts = thread[p].attempts
        /\ entered.draft = thread[p].draft
    BY <1>1 DEF Thread
  <2> QED
    BY <1>1, <1>2, <1>4, <2>1, <2>2, <2>3, BoundsAreNumbers DEF Placed, InScope, Earlier, Thread
<1>6. \/ Goto(p, refused) /\ UNCHANGED guardVars
      \/ Transaction(p, ReserveRequest(q), entered, refused)
  BY DEF EnterScope
<1> HIDE DEF q, refused, entered
<1>7. CASE Goto(p, refused) /\ UNCHANGED guardVars
  BY <1>3, <1>7, QuietMove
<1>8. CASE Transaction(p, ReserveRequest(q), entered, refused)
  BY <1>3, <1>4, <1>5, <1>8, TransactionMoves
<1> QED
  BY <1>6, <1>7, <1>8

\* The next attempt exists: both drafts together have no more than MaxAttempt.
LEMMA ReserveAttemptFits ==
    ASSUME RuntimeInv, NEW p \in Runtimes, ReserveAttempt(p)
    PROVE  [GuardNext]_guardVars /\ ThreadsPlaced'
<1> DEFINE n == thread[p].attempts + 1
           c == [request |-> thread[p].run, attempt |-> n]
           refused == [Blocked(p) EXCEPT !.attempts = n]
           reserved == [thread[p] EXCEPT !.pc = "ask", !.attempts = n]
<1>1. /\ thread[p] \in Thread /\ Placed(thread[p], rows)
      /\ thread[p].pc = "generate" /\ thread[p].draft \in {"V1", "V2"}
      /\ thread[p].tries \in 0..MaxTries /\ thread[p].attempts \in 0..MaxAttempt
  BY DEF ReserveAttempt, At, RuntimeInv, ThreadsPlaced, Thread
<1>2. /\ thread[p].run \in Requests /\ rows[thread[p].run] # "ABSENT"
      /\ thread[p].tries >= 1 /\ thread[p].attempts < Earlier(thread[p]) + thread[p].tries
  BY <1>1 DEF Placed, InScope
<1>3. /\ n \in 1..MaxAttempt /\ n \in 0..MaxAttempt
      /\ n <= Earlier(thread[p]) + thread[p].tries
  BY <1>1, <1>2, BoundsAreNumbers DEF Earlier
<1>4. c \in Calls
  BY <1>2, <1>3 DEF Calls
<1>5. refused \in Thread /\ Placed(refused, rows)
  <2>1. Blocked(p) \in Thread /\ Blocked(p).pc = "leave" /\ Blocked(p).run = thread[p].run
    BY <1>1 DEF Blocked, Ended, Thread, Results
  <2>2. refused \in Thread /\ refused.pc = "leave" /\ refused.run = thread[p].run
    BY <1>3, <2>1 DEF Thread
  <2> QED
    BY <1>2, <2>2 DEF Placed, InScope
<1>6. /\ reserved \in Thread /\ reserved.pc = "ask" /\ reserved.run = thread[p].run
      /\ reserved.attempts = n /\ reserved.tries = thread[p].tries
      /\ reserved.draft = thread[p].draft
  BY <1>1, <1>3 DEF Thread
<1>7. ASSUME ReserveCall(c) PROVE GuardNext /\ Placed(reserved, rows')
  <2>1. GuardNext
    BY <1>4, <1>7 DEF GuardNext
  <2>2. rows'[thread[p].run] # "ABSENT"
    BY <1>2, <2>1, ReservationsStay DEF RuntimeInv
  <2>3. Earlier(reserved) = Earlier(thread[p]) /\ n >= 1
    BY <1>3, <1>6 DEF Earlier
  <2> QED
    BY <1>2, <1>3, <1>6, <2>1, <2>2, <2>3 DEF Placed, InScope
<1>8. \/ Goto(p, refused) /\ UNCHANGED guardVars
      \/ Transaction(p, ReserveCall(c), reserved, refused)
  BY DEF ReserveAttempt
<1> HIDE DEF c, refused, reserved
<1>9. CASE Goto(p, refused) /\ UNCHANGED guardVars
  BY <1>5, <1>9, QuietMove
<1>10. CASE Transaction(p, ReserveCall(c), reserved, refused)
  BY <1>5, <1>6, <1>7, <1>10, TransactionMoves
<1> QED
  BY <1>8, <1>9, <1>10

\* A thread that is asking or waiting names a call that exists.
LEMMA CallIsKnown ==
    ASSUME RuntimeInv, NEW p \in Runtimes,
           thread[p].pc \in {"ask", "wait", "settle", "examine"}
    PROVE  /\ thread[p] \in Thread /\ Placed(thread[p], rows)
           /\ CurrentCall(p) \in Calls
           /\ thread[p].run \in Requests /\ rows[thread[p].run] # "ABSENT"
           /\ thread[p].tries \in 0..MaxTries /\ thread[p].attempts \in 0..MaxAttempt
<1>1. /\ thread[p] \in Thread /\ Placed(thread[p], rows)
      /\ thread[p].tries \in 0..MaxTries /\ thread[p].attempts \in 0..MaxAttempt
  BY DEF RuntimeInv, ThreadsPlaced, Thread
<1>2. /\ thread[p].run \in Requests /\ rows[thread[p].run] # "ABSENT"
      /\ thread[p].attempts >= 1
  BY <1>1 DEF Placed, InScope
<1>3. thread[p].attempts \in 1..MaxAttempt
  BY <1>1, <1>2, BoundsAreNumbers
<1> QED
  BY <1>1, <1>2, <1>3 DEF CurrentCall, Calls

LEMMA AskFits ==
    ASSUME RuntimeInv, NEW p \in Runtimes, Ask(p)
    PROVE  [GuardNext]_guardVars /\ ThreadsPlaced'
<1> DEFINE asked == [thread[p] EXCEPT !.pc = "wait"]
<1>1. thread[p].pc = "ask" /\ AskProvider(CurrentCall(p)) /\ Goto(p, asked)
  BY DEF Ask, At
<1>2. [GuardNext]_guardVars
  BY <1>1, CallIsKnown DEF GuardNext
<1>3. /\ asked \in Thread /\ asked.pc = "wait" /\ asked.run = thread[p].run
      /\ asked.attempts = thread[p].attempts /\ asked.tries = thread[p].tries
      /\ asked.draft = thread[p].draft
  BY <1>1, CallIsKnown DEF Thread
<1>4. Placed(asked, rows)
  BY <1>1, <1>3, CallIsKnown DEF Placed, InScope, Earlier
<1>5. Placed(asked, rows')
  BY <1>2, <1>4, PlacedStays DEF RuntimeInv
<1> HIDE DEF asked
<1> QED
  BY <1>1, <1>2, <1>3, <1>5, MoveKeepsThreads DEF RuntimeInv

LEMMA ProviderReturnsFits ==
    ASSUME RuntimeInv, NEW p \in Runtimes, ProviderReturns(p)
    PROVE  [GuardNext]_guardVars /\ ThreadsPlaced'
<1>1. PICK v \in {"ANSWERED", "REFUSED", "UNKNOWN"}, again \in BOOLEAN :
         /\ ProviderEnds(CurrentCall(p), v)
         /\ Goto(p, [thread[p] EXCEPT !.pc = "settle", !.retryable = again])
  BY DEF ProviderReturns
<1> DEFINE ended == [thread[p] EXCEPT !.pc = "settle", !.retryable = again]
<1>2. thread[p].pc = "wait"
  BY DEF ProviderReturns, At
<1>3. [GuardNext]_guardVars
  BY <1>1, <1>2, CallIsKnown DEF GuardNext
<1>4. /\ ended \in Thread /\ ended.pc = "settle" /\ ended.run = thread[p].run
      /\ ended.attempts = thread[p].attempts /\ ended.tries = thread[p].tries
      /\ ended.draft = thread[p].draft
  BY <1>2, CallIsKnown DEF Thread
<1>5. Placed(ended, rows)
  BY <1>2, <1>4, CallIsKnown DEF Placed, InScope, Earlier
<1>6. Placed(ended, rows')
  BY <1>3, <1>5, PlacedStays DEF RuntimeInv
<1>7. Goto(p, ended)
  BY <1>1
<1> HIDE DEF ended
<1> QED
  BY <1>3, <1>4, <1>6, <1>7, MoveKeepsThreads DEF RuntimeInv

\* A settlement moves the thread to a place that is right before it as well.
LEMMA SettlementMoves ==
    ASSUME RuntimeInv, NEW p \in Runtimes, NEW ACTION commit,
           NEW t \in Thread, NEW u \in Thread,
           Transaction(p, commit, t, u), commit => GuardNext,
           Placed(t, rows), Placed(u, rows)
    PROVE  [GuardNext]_guardVars /\ ThreadsPlaced'
<1>1. commit => GuardNext /\ Placed(t, rows')
  BY PlacedStays DEF RuntimeInv
<1> QED
  BY <1>1, TransactionMoves

LEMMA BlockedIsPlaced ==
    ASSUME RuntimeInv, NEW p \in Runtimes, thread[p] \in Thread,
           thread[p].run \in Requests, rows[thread[p].run] # "ABSENT"
    PROVE  Blocked(p) \in Thread /\ Placed(Blocked(p), rows)
<1>1. /\ Blocked(p) \in Thread /\ Blocked(p).pc = "leave"
      /\ Blocked(p).run = thread[p].run
  BY DEF Blocked, Ended, Thread, Results
<1> QED
  BY <1>1 DEF Placed, InScope

LEMMA AfterFailureIsPlaced ==
    ASSUME RuntimeInv, NEW p \in Runtimes, thread[p].pc = "settle"
    PROVE  AfterFailure(p) \in Thread /\ Placed(AfterFailure(p), rows)
<1> DEFINE again == [thread[p] EXCEPT !.pc = "generate", !.tries = @ + 1]
<1>1. CASE thread[p].retryable /\ thread[p].tries < MaxTries
  <2>1. thread[p].tries + 1 \in 0..MaxTries
    BY <1>1, CallIsKnown, BoundsAreNumbers
  <2>2. /\ again \in Thread /\ again.pc = "generate" /\ again.run = thread[p].run
        /\ again.attempts = thread[p].attempts /\ again.tries = thread[p].tries + 1
        /\ again.draft = thread[p].draft
    BY <2>1, CallIsKnown DEF Thread
  <2>3. Earlier(again) = Earlier(thread[p]) /\ Earlier(again) \in Nat
    BY <2>2, BoundsAreNumbers DEF Earlier
  <2>4. thread[p].attempts <= Earlier(thread[p]) + thread[p].tries /\ thread[p].tries >= 1
    BY CallIsKnown DEF Placed
  <2>5. again.tries >= 1 /\ again.attempts < Earlier(again) + again.tries
    BY <2>2, <2>3, <2>4, CallIsKnown, BoundsAreNumbers
  <2>6. Placed(again, rows)
    BY <2>2, <2>5, CallIsKnown DEF Placed
  <2>7. AfterFailure(p) = again
    BY <1>1 DEF AfterFailure
  <2> QED
    BY <2>2, <2>6, <2>7
<1>2. CASE ~(thread[p].retryable /\ thread[p].tries < MaxTries)
  BY <1>2, CallIsKnown, BlockedIsPlaced DEF AfterFailure
<1> QED
  BY <1>1, <1>2

LEMMA SettleFits ==
    ASSUME RuntimeInv, NEW p \in Runtimes, Settle(p)
    PROVE  [GuardNext]_guardVars /\ ThreadsPlaced'
<1> DEFINE c == CurrentCall(p)
           examined == [thread[p] EXCEPT !.pc = "examine"]
           answered == provider[c] = "ANSWERED"
<1>1. thread[p].pc = "settle"
  BY DEF Settle, At
<1>2. SettleCall(c) => GuardNext
  BY <1>1, CallIsKnown DEF GuardNext
<1>3. /\ examined \in Thread /\ examined.pc = "examine" /\ examined.run = thread[p].run
      /\ examined.attempts = thread[p].attempts /\ examined.tries = thread[p].tries
      /\ examined.draft = thread[p].draft
  BY <1>1, CallIsKnown DEF Thread
<1>4. Placed(examined, rows)
  BY <1>1, <1>3, CallIsKnown DEF Placed, InScope, Earlier
<1>5. Blocked(p) \in Thread /\ Placed(Blocked(p), rows)
  BY <1>1, CallIsKnown, BlockedIsPlaced
<1>6. AfterFailure(p) \in Thread /\ Placed(AfterFailure(p), rows)
  BY <1>1, AfterFailureIsPlaced
<1>7. \/ Transaction(p, SettleCall(c), examined, Blocked(p))
      \/ Transaction(p, SettleCall(c), AfterFailure(p), AfterFailure(p))
  <2>1. CASE answered
    BY <2>1 DEF Settle
  <2>2. CASE ~answered
    BY <2>2 DEF Settle
  <2> QED
    BY <2>1, <2>2
<1> HIDE DEF c, examined
<1> QED
  BY <1>2, <1>3, <1>4, <1>5, <1>6, <1>7, SettlementMoves

\* A second draft starts behind the attempts of the first.
LEMMA ExamineFits ==
    ASSUME RuntimeInv, NEW p \in Runtimes, Examine(p)
    PROVE  UNCHANGED guardVars /\ ThreadsPlaced'
<1> DEFINE uncorrected == Ended(p, "leave", "UNCORRECTED")
           second == [thread[p] EXCEPT !.pc = "generate", !.draft = "V2", !.tries = 1]
           verified == Ended(p, "leave", "VERIFIED")
<1>1. thread[p].pc = "examine" /\ UNCHANGED guardVars
  BY DEF Examine, At
<1>2. \/ Goto(p, Blocked(p)) \/ Goto(p, uncorrected) \/ Goto(p, verified)
      \/ thread[p].draft = "V1" /\ Goto(p, second)
  BY DEF Examine
<1>3. Blocked(p) \in Thread /\ Placed(Blocked(p), rows)
  BY <1>1, CallIsKnown, BlockedIsPlaced
<1>4. uncorrected \in Thread /\ Placed(uncorrected, rows)
  <2>1. /\ uncorrected \in Thread /\ uncorrected.pc = "leave"
        /\ uncorrected.run = thread[p].run
    BY <1>1, CallIsKnown DEF Ended, Thread, Results
  <2> QED
    BY <1>1, <2>1, CallIsKnown DEF Placed, InScope
<1>5. verified \in Thread /\ Placed(verified, rows)
  <2>1. /\ verified \in Thread /\ verified.pc = "leave"
        /\ verified.run = thread[p].run
    BY <1>1, CallIsKnown DEF Ended, Thread, Results
  <2> QED
    BY <1>1, <2>1, CallIsKnown DEF Placed, InScope
<1>6. CASE thread[p].draft = "V1" /\ Goto(p, second)
  <2>1. /\ second \in Thread /\ second.pc = "generate" /\ second.run = thread[p].run
        /\ second.attempts = thread[p].attempts /\ second.tries = 1 /\ second.draft = "V2"
    BY <1>1, CallIsKnown, CountersStart DEF Thread
  <2>2. thread[p].attempts <= thread[p].tries
    BY <1>1, <1>6, CallIsKnown, BoundsAreNumbers DEF Placed, Earlier
  <2>3. second.attempts < Earlier(second) + second.tries
    BY <1>1, <2>1, <2>2, CallIsKnown, BoundsAreNumbers DEF Earlier
  <2>4. Placed(second, rows)
    BY <1>1, <2>1, <2>3, CallIsKnown DEF Placed
  <2> HIDE DEF second
  <2> QED
    BY <1>1, <1>6, <2>1, <2>4, QuietMove
<1> HIDE DEF uncorrected, verified, second
<1>7. CASE Goto(p, Blocked(p)) \/ Goto(p, uncorrected) \/ Goto(p, verified)
  BY <1>1, <1>3, <1>4, <1>5, <1>7, QuietMove
<1> QED
  BY <1>1, <1>2, <1>6, <1>7

LEMMA LeaveScopeFits ==
    ASSUME RuntimeInv, NEW p \in Runtimes, LeaveScope(p)
    PROVE  [GuardNext]_guardVars /\ ThreadsPlaced'
<1> DEFINE q == thread[p].run
           outcome == IF thread[p].result = "BLOCKED" THEN "FAILED_FINAL" ELSE "COMPLETED"
           left == [thread[p] EXCEPT !.pc = "publish"]
           failed == Ended(p, "publish", "BLOCKED")
<1>1. thread[p] \in Thread /\ Placed(thread[p], rows) /\ thread[p].pc = "leave"
  BY DEF LeaveScope, At, RuntimeInv, ThreadsPlaced
<1>2. q \in Requests /\ rows[q] # "ABSENT"
  BY <1>1 DEF Placed, InScope
<1>3. ASSUME Complete(q, outcome) PROVE GuardNext
  <2>1. outcome \in {"COMPLETED", "FAILED_FINAL"}
    OBVIOUS
  <2>2. SettleRequest(q)
    BY <1>2, <1>3, <2>1 DEF SettleRequest
  <2> QED
    BY <1>2, <2>2 DEF GuardNext
<1>4. left \in Thread /\ left.pc = "publish" /\ left.run = q
  BY <1>1 DEF Thread
<1>5. failed \in Thread /\ failed.pc = "publish" /\ failed.run = q
  BY <1>1 DEF Ended, Thread, Results
<1>6. Placed(left, rows) /\ Placed(failed, rows)
  BY <1>2, <1>4, <1>5 DEF Placed, InScope
<1>7. Transaction(p, Complete(q, outcome), left, failed)
  BY DEF LeaveScope
<1> HIDE DEF q, outcome, left, failed
<1> QED
  BY <1>3, <1>4, <1>5, <1>6, <1>7, SettlementMoves

LEMMA PublishFits ==
    ASSUME RuntimeInv, NEW p \in Runtimes, Publish(p)
    PROVE  UNCHANGED guardVars /\ ThreadsPlaced'
BY IdleIsPlaced, QuietMove DEF Publish

LEMMA CrashFits ==
    ASSUME RuntimeInv, NEW p \in Runtimes, Crash(p)
    PROVE  UNCHANGED guardVars /\ ThreadsPlaced' /\ QueuesHoldRequests'
<1>1. UNCHANGED guardVars /\ ThreadsPlaced'
  BY IdleIsPlaced, QuietMove DEF Crash
<1>2. << >> \in Seq(Requests)
  OBVIOUS
<1> QED
  BY <1>1, <1>2 DEF Crash, RuntimeInv, QueuesHoldRequests

LEMMA SubmitFits ==
    ASSUME RuntimeInv, NEW p \in Runtimes, NEW s \in Sessions, NEW k \in Keys, Submit(p, s, k)
    PROVE  QueuesHoldRequests'
<1> DEFINE q == [session |-> s, id |-> issued + 1]
<1>1. issued < MaxRuns /\ issued' = issued + 1 /\ queue' = [queue EXCEPT ![p] = Append(@, q)]
  BY DEF Submit, Accept
<1>2. issued \in 0..MaxRuns /\ issued + 1 \in 1..MaxRuns /\ issued' \in 0..MaxRuns
  BY <1>1, BoundsAreNumbers DEF RuntimeInv, QueuesHoldRequests
<1>3. q \in Requests
  BY <1>2 DEF Requests
<1> HIDE DEF q
<1>4. queue' \in [Runtimes -> Seq(Requests)]
  BY <1>1, <1>3 DEF RuntimeInv, QueuesHoldRequests
<1> QED
  BY <1>2, <1>4 DEF QueuesHoldRequests

-----------------------------------------------------------------------------
(***************************************************************************)
(* RuntimeInv is inductive, and a step of the runtime is one of the guard. *)
(***************************************************************************)

LEMMA RuntimeStartsPlaced == RuntimeInit => RuntimeInv
<1> SUFFICES ASSUME RuntimeInit PROVE RuntimeInv
  OBVIOUS
<1>1. GuardInv
  BY GuardStartsTrue DEF RuntimeInit
<1>2. ThreadsPlaced
  BY IdleIsPlaced DEF RuntimeInit, ThreadsPlaced
<1>3. QueuesHoldRequests
  <2>1. << >> \in Seq(Requests) /\ 0 \in 0..MaxRuns
    BY BoundsAreNumbers
  <2> QED
    BY <2>1 DEF RuntimeInit, QueuesHoldRequests
<1> QED
  BY <1>1, <1>2, <1>3 DEF RuntimeInv

LEMMA ThreadStepFits ==
    ASSUME RuntimeInv, NEW p \in Runtimes, ThreadStep(p)
    PROVE  [GuardNext]_guardVars /\ ThreadsPlaced' /\ QueuesHoldRequests'
<1>1. CASE TakeRun(p)
  BY <1>1, TakeRunFits DEF TakeRun
<1>2. ASSUME UNCHANGED << queue, issued >> PROVE QueuesHoldRequests'
  BY <1>2 DEF RuntimeInv, QueuesHoldRequests
<1>3. CASE EnterScope(p)
  BY <1>2, <1>3, EnterScopeFits DEF EnterScope
<1>4. CASE ReserveAttempt(p)
  BY <1>2, <1>4, ReserveAttemptFits DEF ReserveAttempt
<1>5. CASE Ask(p)
  BY <1>2, <1>5, AskFits DEF Ask
<1>6. CASE ProviderReturns(p)
  BY <1>2, <1>6, ProviderReturnsFits DEF ProviderReturns
<1>7. CASE Settle(p)
  BY <1>2, <1>7, SettleFits DEF Settle
<1>8. CASE Examine(p)
  BY <1>2, <1>8, ExamineFits DEF Examine
<1>9. CASE LeaveScope(p)
  BY <1>2, <1>9, LeaveScopeFits DEF LeaveScope
<1>10. CASE Publish(p)
  BY <1>2, <1>10, PublishFits DEF Publish
<1> QED
  BY <1>1, <1>3, <1>4, <1>5, <1>6, <1>7, <1>8, <1>9, <1>10 DEF ThreadStep

LEMMA RuntimeStepFits ==
    ASSUME RuntimeInv, [RuntimeNext]_vars
    PROVE  [GuardNext]_guardVars /\ RuntimeInv'
<1> DEFINE Fits == [GuardNext]_guardVars /\ ThreadsPlaced' /\ QueuesHoldRequests'
<1>1. SUFFICES Fits
  BY GuardStepKeepsInv DEF RuntimeInv
<1>2. ASSUME UNCHANGED << guardVars, thread >> PROVE [GuardNext]_guardVars /\ ThreadsPlaced'
  BY <1>2, StillThreadsStay DEF RuntimeInv
<1>3. ASSUME UNCHANGED << queue, issued >> PROVE QueuesHoldRequests'
  BY <1>3 DEF RuntimeInv, QueuesHoldRequests
<1>4. CASE UNCHANGED vars
  BY <1>2, <1>3, <1>4 DEF vars, volatile
<1>5. ASSUME NEW p \in Runtimes, Start(p) \/ Look(p) \/ FinishClose(p) PROVE Fits
  BY <1>2, <1>3, <1>5 DEF Start, Look, FinishClose
<1>6. ASSUME NEW p \in Runtimes, Close(p) PROVE Fits
  <2>1. << >> \in Seq(Requests)
    OBVIOUS
  <2>2. QueuesHoldRequests'
    BY <1>6, <2>1 DEF Close, RuntimeInv, QueuesHoldRequests
  <2> QED
    BY <1>2, <1>6, <2>2 DEF Close
<1>7. ASSUME NEW p \in Runtimes, Crash(p) PROVE Fits
  BY <1>7, CrashFits
<1>8. ASSUME NEW p \in Runtimes, NEW s \in Sessions, NEW k \in Keys, Submit(p, s, k) PROVE Fits
  BY <1>2, <1>8, SubmitFits DEF Submit
<1>9. ASSUME NEW p \in Runtimes, NEW q \in DOMAIN runs[p], Age(p, q) PROVE Fits
  BY <1>2, <1>3, <1>9 DEF Age
<1>10. ASSUME NEW p \in Runtimes, ThreadStep(p) PROVE Fits
  BY <1>10, ThreadStepFits
<1> QED
  BY <1>4, <1>5, <1>6, <1>7, <1>8, <1>9, <1>10 DEF RuntimeNext

LEMMA RuntimeInvariant == RuntimeSpec => []RuntimeInv
<1>1. RuntimeInv /\ [RuntimeNext]_vars => RuntimeInv'
  BY RuntimeStepFits
<1> QED
  BY <1>1, RuntimeStartsPlaced, PTL DEF RuntimeSpec

(* Every behaviour of the runtime, with its retries, lost answers, crashes   *)
(* and overlapping processes, is one the ledger was built for: no thread     *)
(* settles what it did not reserve or asks for an attempt that has no row.   *)
THEOREM RuntimeUsesGuard == RuntimeSpec => GuardSpec
<1>1. RuntimeInit => GuardInit
  BY DEF RuntimeInit
<1>2. RuntimeInv /\ [RuntimeNext]_vars => [GuardNext]_guardVars
  BY RuntimeStepFits
<1> QED
  BY <1>1, <1>2, RuntimeInvariant, PTL DEF RuntimeSpec, GuardSpec

(* The ceilings hold and the books tell what the provider did, however many  *)
(* processes run, crash and retry.                                           *)
THEOREM RuntimeLedgerIsTrue == RuntimeSpec => []LedgerIsTrue
BY RuntimeUsesGuard, LedgerStaysTrue

(* The whole demo runtime implements the call budget: no restart, retry or   *)
(* lost answer makes a call twice, unpaid, or beyond the ceiling.            *)
THEOREM RuntimeKeepsBudget == RuntimeSpec => ImplementsBudget
BY RuntimeUsesGuard, GuardKeepsBudget

-----------------------------------------------------------------------------
(***************************************************************************)
(* The coordinator.  CoordinatorInv says of each process that its queue    *)
(* holds runs it retains that nobody has taken, that the thread is at one  *)
(* it has taken, and that only runs that ended can be pruned.  Run ids are *)
(* fresh, so no run belongs to two processes.                              *)
(***************************************************************************)

RunsKnown(p) ==
    /\ DOMAIN runs[p] \subseteq Requests
    /\ IsFiniteSet(DOMAIN runs[p]) /\ Cardinality(DOMAIN runs[p]) <= Capacity
    /\ \A q \in DOMAIN runs[p] :
          /\ runs[p][q] \in Projection
          /\ runs[p][q].aged => runs[p][q].state \in Terminal
          /\ q.id <= issued

SlotIn(R, q) == << q.session, R[q].key >>

Leads(X, R) ==
    /\ X \in [Sessions \X Keys -> Requests \cup {NoRun}]
    /\ \A q \in DOMAIN R : X[SlotIn(R, q)] = q
    /\ \A slot \in Sessions \X Keys :
          X[slot] # NoRun => X[slot] \in DOMAIN R /\ SlotIn(R, X[slot]) = slot

IndexLeadsToRuns(p) == Leads(index[p], runs[p])

QueueWaits(p) ==
    /\ process[p] # "UP" => queue[p] = << >>
    /\ \A i \in DOMAIN queue[p] :
          /\ queue[p][i] \in DOMAIN runs[p]
          /\ runs[p][queue[p][i]].state = "QUEUED"
          /\ \A j \in DOMAIN queue[p] : queue[p][i] = queue[p][j] => i = j

ThreadHasRun(p) ==
    thread[p].pc # "idle" =>
        /\ thread[p].run \in DOMAIN runs[p]
        /\ runs[p][thread[p].run].state = "RUNNING"

Coordinated(p) == /\ RunsKnown(p) /\ IndexLeadsToRuns(p)
                  /\ QueueWaits(p) /\ ThreadHasRun(p)

CoordinatorTables ==
    /\ process \in [Runtimes -> {"UP", "CLOSING", "DOWN"}]
    /\ DOMAIN runs = Runtimes /\ runs = [p \in Runtimes |-> runs[p]]
    /\ DOMAIN index = Runtimes /\ index = [p \in Runtimes |-> index[p]]

RunsAreApart ==
    \A p, r \in Runtimes : p # r => DOMAIN runs[p] \cap DOMAIN runs[r] = {}

CoordinatorInv == /\ CoordinatorTables /\ RunsAreApart
                  /\ \A p \in Runtimes : Coordinated(p)

-----------------------------------------------------------------------------

\* What is not touched by a step of one process stays coordinated.
LEMMA BystanderStays ==
    ASSUME CoordinatorInv, NEW p \in Runtimes,
           UNCHANGED << process[p], runs[p], index[p], queue[p], thread[p] >>,
           issued \in Nat, issued' \in Nat, issued <= issued'
    PROVE  Coordinated(p)'
<1>1. Coordinated(p)
  BY DEF CoordinatorInv
<1>2. \A q \in DOMAIN runs[p] : q.id \in Nat
  BY <1>1, BoundsAreNumbers DEF Coordinated, RunsKnown, Requests
<1>3. RunsKnown(p)'
  BY <1>1, <1>2 DEF Coordinated, RunsKnown
<1>4. IndexLeadsToRuns(p)' /\ QueueWaits(p)' /\ ThreadHasRun(p)'
  BY <1>1 DEF Coordinated, IndexLeadsToRuns, QueueWaits, ThreadHasRun
<1> QED
  BY <1>3, <1>4 DEF Coordinated

\* One process moves; its runs are those it had, and perhaps a fresh one.
LEMMA OneProcessMoves ==
    ASSUME CoordinatorInv, NEW p \in Runtimes, CoordinatorTables',
           Coordinated(p)',
           \A r \in Runtimes \ {p} :
              UNCHANGED << process[r], runs[r], index[r], queue[r], thread[r] >>,
           issued \in Nat, issued' \in Nat, issued <= issued',
           \A q \in DOMAIN runs'[p] : q \in DOMAIN runs[p] \/ q.id > issued
    PROVE  CoordinatorInv'
<1>1. \A r \in Runtimes : Coordinated(r)'
  BY BystanderStays
<1>2. ASSUME NEW r \in Runtimes, r # p PROVE DOMAIN runs'[p] \cap DOMAIN runs'[r] = {}
  <2>1. runs'[r] = runs[r] /\ DOMAIN runs[p] \cap DOMAIN runs[r] = {}
    BY <1>2 DEF CoordinatorInv, RunsAreApart
  <2>2. \A q \in DOMAIN runs[r] : q.id <= issued /\ q.id \in Nat
    BY BoundsAreNumbers DEF CoordinatorInv, Coordinated, RunsKnown, Requests
  <2> QED
    BY <2>1, <2>2
<1>3. RunsAreApart'
  BY <1>2 DEF CoordinatorInv, RunsAreApart
<1> QED
  BY <1>1, <1>3 DEF CoordinatorInv

LEMMA IssuedIsNumber == RuntimeInv => issued \in Nat
BY BoundsAreNumbers DEF RuntimeInv, QueuesHoldRequests

\* Runs that were pruned had ended: nobody waits for one or works on one.
LEMMA PruningKeeps ==
    ASSUME CoordinatorInv, NEW p \in Runtimes
    PROVE  /\ DOMAIN KeptRuns(p) \subseteq DOMAIN runs[p]
           /\ IsFiniteSet(DOMAIN KeptRuns(p)) /\ Cardinality(DOMAIN KeptRuns(p)) <= Capacity
           /\ \A q \in DOMAIN KeptRuns(p) : KeptRuns(p)[q] = runs[p][q]
           /\ \A q \in DOMAIN runs[p] :
                 runs[p][q].state \notin Terminal => q \in DOMAIN KeptRuns(p)
           /\ Leads(KeptIndex(p), KeptRuns(p))
<1>1. RunsKnown(p) /\ IndexLeadsToRuns(p)
  BY DEF CoordinatorInv, Coordinated
<1>2. DOMAIN KeptRuns(p) = DOMAIN runs[p] \ Expired(p) /\ Expired(p) \subseteq DOMAIN runs[p]
  BY DEF KeptRuns, Expired
<1>3. \A q \in DOMAIN KeptRuns(p) : KeptRuns(p)[q] = runs[p][q]
  BY DEF KeptRuns
<1>4. IsFiniteSet(DOMAIN KeptRuns(p)) /\ Cardinality(DOMAIN KeptRuns(p)) <= Capacity
  <2>1. IsFiniteSet(DOMAIN runs[p]) /\ Cardinality(DOMAIN runs[p]) <= Capacity
    BY <1>1 DEF RunsKnown
  <2>2. /\ IsFiniteSet(DOMAIN KeptRuns(p))
        /\ Cardinality(DOMAIN KeptRuns(p)) <= Cardinality(DOMAIN runs[p])
    BY <1>2, <2>1, FS_Subset
  <2>3. /\ Cardinality(DOMAIN KeptRuns(p)) \in Nat /\ Cardinality(DOMAIN runs[p]) \in Nat
        /\ Capacity \in Nat
    BY <2>1, <2>2, FS_CardinalityType, RuntimeAssumption
  <2> QED
    BY <2>1, <2>2, <2>3
<1>5. \A q \in DOMAIN runs[p] :
         runs[p][q].state \notin Terminal => q \in DOMAIN KeptRuns(p)
  BY <1>1, <1>2 DEF RunsKnown, Expired
<1>6. \A slot \in Sessions \X Keys :
         KeptIndex(p)[slot] = IF index[p][slot] \in Expired(p) THEN NoRun ELSE index[p][slot]
  BY DEF KeptIndex
<1>7. KeptIndex(p) \in [Sessions \X Keys -> Requests \cup {NoRun}]
  BY <1>1 DEF KeptIndex, IndexLeadsToRuns, Leads
<1>8. \A q \in DOMAIN runs[p] : SlotIn(runs[p], q) \in Sessions \X Keys
  BY <1>1 DEF RunsKnown, SlotIn, Requests, Projection
<1>9. \A q \in DOMAIN KeptRuns(p) : SlotIn(KeptRuns(p), q) = SlotIn(runs[p], q)
  BY <1>3 DEF SlotIn
<1>10. \A q \in DOMAIN KeptRuns(p) : KeptIndex(p)[SlotIn(KeptRuns(p), q)] = q
  BY <1>1, <1>2, <1>6, <1>8, <1>9 DEF IndexLeadsToRuns, Leads
<1>11. \A slot \in Sessions \X Keys :
          KeptIndex(p)[slot] # NoRun =>
             KeptIndex(p)[slot] \in DOMAIN KeptRuns(p) /\ SlotIn(KeptRuns(p), KeptIndex(p)[slot]) = slot
  BY <1>1, <1>2, <1>6, <1>9 DEF IndexLeadsToRuns, Leads
<1>12. Leads(KeptIndex(p), KeptRuns(p))
  BY <1>7, <1>10, <1>11 DEF Leads
<1> QED
  BY <1>2, <1>3, <1>4, <1>5, <1>12

LEMMA LookKeepsCoordinator ==
    ASSUME RuntimeInv, CoordinatorInv, NEW p \in Runtimes, Look(p)
    PROVE  CoordinatorInv'
<1>1. /\ runs' = [runs EXCEPT ![p] = KeptRuns(p)] /\ index' = [index EXCEPT ![p] = KeptIndex(p)]
      /\ UNCHANGED << process, queue, thread, issued >>
  BY DEF Look
<1>2. CoordinatorTables' /\ runs'[p] = KeptRuns(p) /\ index'[p] = KeptIndex(p)
  BY <1>1 DEF CoordinatorInv, CoordinatorTables
<1>3. Coordinated(p)
  BY DEF CoordinatorInv
<1>4. RunsKnown(p)'
  BY <1>1, <1>2, <1>3, PruningKeeps DEF Coordinated, RunsKnown
<1>6. IndexLeadsToRuns(p)'
  BY <1>2, PruningKeeps DEF IndexLeadsToRuns
<1>7. QueueWaits(p)' /\ ThreadHasRun(p)'
  BY <1>1, <1>2, <1>3, PruningKeeps DEF Coordinated, QueueWaits, ThreadHasRun, Terminal
<1>8. \A r \in Runtimes \ {p} :
         UNCHANGED << process[r], runs[r], index[r], queue[r], thread[r] >>
  BY <1>1 DEF CoordinatorInv, CoordinatorTables
<1> QED
  BY <1>1, <1>2, <1>4, <1>6, <1>7, <1>8, OneProcessMoves, PruningKeeps, IssuedIsNumber DEF Coordinated

\* A submitted run is new to its process, its slot and its queue.
LEMMA SubmitKeepsCoordinator ==
    ASSUME RuntimeInv, CoordinatorInv, NEW p \in Runtimes,
           NEW s \in Sessions, NEW k \in Keys, Submit(p, s, k)
    PROVE  CoordinatorInv'
<1>0. PICK q : q = [session |-> s, id |-> issued + 1]
  OBVIOUS
<1> DEFINE new == [key |-> k, state |-> "QUEUED", answer |-> FALSE, aged |-> FALSE]
           kept == DOMAIN KeptRuns(p)
<1>1. /\ KeptIndex(p)[<< s, k >>] = NoRun /\ Cardinality(kept) < Capacity
      /\ issued < MaxRuns /\ issued' = issued + 1
      /\ runs' = [runs EXCEPT ![p] = [x \in kept \cup {q} |-> IF x = q THEN new ELSE runs[p][x]]]
      /\ index' = [index EXCEPT ![p] = [KeptIndex(p) EXCEPT ![<< s, k >>] = q]]
      /\ queue' = [queue EXCEPT ![p] = Append(@, q)]
      /\ process[p] = "UP" /\ UNCHANGED << process, thread >>
  BY <1>0 DEF Submit, Accept
<1>2. /\ CoordinatorTables'
      /\ DOMAIN runs'[p] = kept \cup {q} /\ runs'[p][q] = new
      /\ \A x \in kept : x # q => runs'[p][x] = runs[p][x]
      /\ index'[p] = [KeptIndex(p) EXCEPT ![<< s, k >>] = q]
      /\ queue'[p] = Append(queue[p], q)
  BY <1>1 DEF CoordinatorInv, CoordinatorTables, RuntimeInv, QueuesHoldRequests
<1>3. issued \in Nat /\ issued + 1 \in 1..MaxRuns /\ q \in Requests /\ q.id = issued + 1 /\ q.session = s
  BY <1>0, <1>1, IssuedIsNumber, BoundsAreNumbers DEF Requests
<1>4. Coordinated(p)
  BY DEF CoordinatorInv
<1>5. \A x \in DOMAIN runs[p] : x \in Requests /\ x.id \in Nat /\ x.id <= issued /\ x # q
  <2>1. \A x \in DOMAIN runs[p] : x \in Requests /\ x.id \in Nat /\ x.id <= issued
    BY <1>4, BoundsAreNumbers DEF Coordinated, RunsKnown, Requests
  <2> QED
    BY <1>3, <2>1
<1>6. new \in Projection /\ new.key = k /\ new.state = "QUEUED" /\ new.aged = FALSE
  BY DEF Projection, JuryRunState
<1> HIDE DEF new, kept
<1>7. kept \subseteq DOMAIN runs[p] /\ q \notin kept
  BY <1>5, PruningKeeps DEF kept
<1>8. IsFiniteSet(kept \cup {q}) /\ Cardinality(kept \cup {q}) <= Capacity
  <2>1. IsFiniteSet(kept)
    BY PruningKeeps DEF kept
  <2>2. IsFiniteSet(kept \cup {q}) /\ Cardinality(kept \cup {q}) = Cardinality(kept) + 1
    BY <1>7, <2>1, FS_AddElement
  <2>3. Cardinality(kept) \in Nat /\ Capacity \in Nat
    BY <2>1, FS_CardinalityType, RuntimeAssumption
  <2> QED
    BY <1>1, <2>2, <2>3
<1>9. RunsKnown(p)'
  <2>1. \A x \in kept : runs'[p][x] = runs[p][x]
    BY <1>2, <1>7
  <2>2. \A x \in kept : x.id <= issued'
    BY <1>1, <1>3, <1>5, <1>7
  <2>3. q.id <= issued'
    BY <1>1, <1>3
  <2> QED
    BY <1>2, <1>3, <1>4, <1>6, <1>7, <1>8, <2>1, <2>2, <2>3 DEF Coordinated, RunsKnown
<1>10. IndexLeadsToRuns(p)'
  <2>1. PICK R : R = runs'[p]
    OBVIOUS
  <2>2. PICK X : X = index'[p]
    OBVIOUS
  <2>3. Leads(KeptIndex(p), KeptRuns(p)) /\ << s, k >> \in Sessions \X Keys
    BY PruningKeeps
  <2>4. /\ X \in [Sessions \X Keys -> Requests \cup {NoRun}]
        /\ X[<< s, k >>] = q
        /\ \A slot \in Sessions \X Keys : slot # << s, k >> => X[slot] = KeptIndex(p)[slot]
    BY <1>2, <1>3, <2>2, <2>3 DEF Leads
  <2>5. SlotIn(R, q) = << s, k >>
    BY <1>2, <1>3, <1>6, <2>1 DEF SlotIn
  <2>6. \A x \in kept : /\ SlotIn(R, x) = SlotIn(KeptRuns(p), x)
                        /\ KeptIndex(p)[SlotIn(R, x)] = x
                        /\ SlotIn(R, x) \in Sessions \X Keys
    BY <1>2, <1>4, <1>5, <1>7, <2>1, <2>3, PruningKeeps
       DEF SlotIn, kept, Coordinated, RunsKnown, Requests, Projection, Leads
  <2>7. \A x \in kept : SlotIn(R, x) # << s, k >>
    BY <1>1, <1>5, <1>7, <2>6, RuntimeAssumption
  <2>8. \A x \in kept \cup {q} : X[SlotIn(R, x)] = x
    BY <2>4, <2>5, <2>6, <2>7
  <2>9. ASSUME NEW slot \in Sessions \X Keys, X[slot] # NoRun
        PROVE  X[slot] \in kept \cup {q} /\ SlotIn(R, X[slot]) = slot
    <3>1. CASE slot = << s, k >>
      BY <2>4, <2>5, <3>1
    <3>2. CASE slot # << s, k >>
      <4>1. X[slot] = KeptIndex(p)[slot]
        BY <2>4, <3>2
      <4>2. KeptIndex(p)[slot] \in kept /\ SlotIn(KeptRuns(p), KeptIndex(p)[slot]) = slot
        BY <2>3, <2>9, <4>1 DEF Leads, kept
      <4> QED
        BY <2>6, <4>1, <4>2
    <3> QED
      BY <3>1, <3>2
  <2>10. DOMAIN R = kept \cup {q}
    BY <1>2, <2>1
  <2>11. Leads(X, R)
    BY <2>4, <2>8, <2>9, <2>10 DEF Leads
  <2> QED
    BY <2>1, <2>2, <2>11 DEF IndexLeadsToRuns
<1>11. QueueWaits(p)'
  <2>1. /\ queue[p] \in Seq(Requests)
        /\ \A i \in DOMAIN queue[p] :
              queue[p][i] \in kept /\ runs[p][queue[p][i]].state = "QUEUED"
    BY <1>4, PruningKeeps DEF kept, Coordinated, QueueWaits, Terminal, RuntimeInv, QueuesHoldRequests
  <2>2. /\ DOMAIN queue'[p] = 1..(Len(queue[p]) + 1)
        /\ queue'[p][Len(queue[p]) + 1] = q
        /\ \A i \in DOMAIN queue[p] : queue'[p][i] = queue[p][i]
        /\ DOMAIN queue[p] = 1..Len(queue[p]) /\ Len(queue[p]) \in Nat
    BY <1>2, <1>3, <2>1
  <2>3. \A i \in DOMAIN queue'[p] :
           \/ i \in DOMAIN queue[p] /\ queue'[p][i] = queue[p][i] /\ queue'[p][i] # q
           \/ i = Len(queue[p]) + 1 /\ queue'[p][i] = q
    BY <1>7, <2>1, <2>2
  <2>4. \A i \in DOMAIN queue'[p] :
           queue'[p][i] \in DOMAIN runs'[p] /\ runs'[p][queue'[p][i]].state = "QUEUED"
    BY <1>2, <1>6, <1>7, <2>1, <2>3
  <2>5. \A i, j \in DOMAIN queue'[p] : queue'[p][i] = queue'[p][j] => i = j
    BY <1>4, <2>3 DEF Coordinated, QueueWaits
  <2> QED
    BY <1>1, <2>4, <2>5 DEF QueueWaits
<1>12. ThreadHasRun(p)'
  <2>1. thread[p].pc # "idle" => thread[p].run \in kept /\ runs[p][thread[p].run].state = "RUNNING"
    BY <1>4, PruningKeeps DEF kept, Coordinated, ThreadHasRun, Terminal
  <2> QED
    BY <1>1, <1>2, <1>7, <2>1 DEF ThreadHasRun
<1>13. \A r \in Runtimes \ {p} :
          UNCHANGED << process[r], runs[r], index[r], queue[r], thread[r] >>
  BY <1>1 DEF CoordinatorInv, CoordinatorTables, RuntimeInv, QueuesHoldRequests
<1>14. \A x \in DOMAIN runs'[p] : x \in DOMAIN runs[p] \/ x.id > issued
  BY <1>2, <1>3, <1>7
<1>15. issued' \in Nat /\ issued <= issued'
  BY <1>1, <1>3
<1> QED
  BY <1>2, <1>3, <1>9, <1>10, <1>11, <1>12, <1>13, <1>14, <1>15, OneProcessMoves DEF Coordinated

\* The steps that only move a thread on with the run it has.
LEMMA ThreadGoesOn ==
    ASSUME RuntimeInv, CoordinatorInv, NEW p \in Runtimes, NEW t \in Thread,
           thread[p].pc # "idle", t.run = thread[p].run, Goto(p, t),
           UNCHANGED << process, runs, index, queue, issued >>
    PROVE  CoordinatorInv'
<1>1. thread'[p] = t /\ \A r \in Runtimes \ {p} : thread'[r] = thread[r]
  BY DEF Goto, RuntimeInv, ThreadsPlaced
<1>2. Coordinated(p)
  BY DEF CoordinatorInv
<1>3. RunsKnown(p)' /\ IndexLeadsToRuns(p)' /\ QueueWaits(p)'
  BY <1>2 DEF Coordinated, RunsKnown, IndexLeadsToRuns, QueueWaits
<1>4. ThreadHasRun(p)'
  BY <1>1, <1>2 DEF Coordinated, ThreadHasRun
<1>5. CoordinatorTables'
  BY DEF CoordinatorInv, CoordinatorTables
<1> QED
  BY <1>1, <1>3, <1>4, <1>5, OneProcessMoves, IssuedIsNumber DEF Coordinated

LEMMA TransactionGoesOn ==
    ASSUME NEW p, NEW ACTION commit, NEW t, NEW u, Transaction(p, commit, t, u)
    PROVE  Goto(p, t) \/ Goto(p, u)
BY DEF Transaction

\* Wherever a step of its run sends the thread, it keeps the run.
LEMMA RunKeptOnTheWay ==
    ASSUME RuntimeInv, NEW p \in Runtimes,
           \/ EnterScope(p) \/ ReserveAttempt(p) \/ Ask(p) \/ ProviderReturns(p)
           \/ Settle(p) \/ Examine(p) \/ LeaveScope(p)
    PROVE  /\ thread[p].pc # "idle"
           /\ \E t : Goto(p, t) /\ t.run = thread[p].run
           /\ UNCHANGED << process, runs, index, queue, issued >>
<1>1. thread[p] \in Thread
  BY DEF RuntimeInv, ThreadsPlaced
<1>2. \A t \in Thread : DOMAIN t = {"pc", "run", "draft", "tries", "attempts", "retryable", "result"}
  BY DEF Thread
<1> DEFINE Same(t) == t.run = thread[p].run
<1>3. \A pc, result : Same(Ended(p, pc, result)) /\ Same(Blocked(p))
  BY <1>1 DEF Ended, Blocked, Thread
<1>4. CASE EnterScope(p)
  <2>1. Same([thread[p] EXCEPT !.pc = "generate", !.tries = 1])
    BY <1>1 DEF Thread
  <2> QED
    BY <1>3, <1>4, <2>1, TransactionGoesOn DEF EnterScope, At
<1>5. CASE ReserveAttempt(p)
  <2>1. \A n : Same([thread[p] EXCEPT !.pc = "ask", !.attempts = n])
    BY <1>1 DEF Thread
  <2>2. \A n : Same([Blocked(p) EXCEPT !.attempts = n])
    BY <1>1 DEF Blocked, Ended, Thread
  <2> QED
    BY <1>5, <2>1, <2>2, TransactionGoesOn DEF ReserveAttempt, At
<1>6. CASE Ask(p)
  <2>1. Same([thread[p] EXCEPT !.pc = "wait"])
    BY <1>1 DEF Thread
  <2> QED
    BY <1>6, <2>1 DEF Ask, At
<1>7. CASE ProviderReturns(p)
  <2>1. \A again : Same([thread[p] EXCEPT !.pc = "settle", !.retryable = again])
    BY <1>1 DEF Thread
  <2> QED
    BY <1>7, <2>1 DEF ProviderReturns, At
<1>8. CASE Settle(p)
  <2>1. Same([thread[p] EXCEPT !.pc = "examine"])
    BY <1>1 DEF Thread
  <2>2. Same(AfterFailure(p))
    BY <1>1, <1>3 DEF AfterFailure, Thread
  <2> QED
    BY <1>3, <1>8, <2>1, <2>2, TransactionGoesOn DEF Settle, At
<1>9. CASE Examine(p)
  <2>1. Same([thread[p] EXCEPT !.pc = "generate", !.draft = "V2", !.tries = 1])
    BY <1>1 DEF Thread
  <2> QED
    BY <1>3, <1>9, <2>1 DEF Examine, At
<1>10. CASE LeaveScope(p)
  <2> DEFINE outcome == IF thread[p].result = "BLOCKED" THEN "FAILED_FINAL" ELSE "COMPLETED"
             left == [thread[p] EXCEPT !.pc = "publish"]
             failed == Ended(p, "publish", "BLOCKED")
  <2>1. Same(left) /\ Same(failed)
    BY <1>1, <1>3 DEF Thread
  <2>2. Transaction(p, Complete(thread[p].run, outcome), left, failed)
    BY <1>10 DEF LeaveScope
  <2> HIDE DEF outcome, left, failed
  <2>3. Goto(p, left) \/ Goto(p, failed)
    BY <2>2, TransactionGoesOn
  <2>4. \E t : Goto(p, t) /\ t.run = thread[p].run
    BY <2>1, <2>3
  <2> QED
    BY <1>10, <2>4 DEF LeaveScope, At
<1> QED
  BY <1>4, <1>5, <1>6, <1>7, <1>8, <1>9, <1>10

\* One run of one process changes its projection, and not its key.
LEMMA ProjectionChanges ==
    ASSUME CoordinatorInv, NEW p \in Runtimes, NEW q \in DOMAIN runs[p], NEW x \in Projection,
           x.key = runs[p][q].key, x.aged = FALSE \/ x.state \in Terminal,
           runs' = [runs EXCEPT ![p][q] = x], UNCHANGED << process, index, issued >>
    PROVE  /\ CoordinatorTables' /\ RunsKnown(p)' /\ IndexLeadsToRuns(p)'
           /\ DOMAIN runs'[p] = DOMAIN runs[p]
           /\ runs'[p][q] = x
           /\ \A y \in DOMAIN runs[p] \ {q} : runs'[p][y] = runs[p][y]
           /\ \A r \in Runtimes \ {p} : UNCHANGED << process[r], runs[r], index[r] >>
<1>1. CoordinatorTables' /\ runs'[p] = [runs[p] EXCEPT ![q] = x]
  BY DEF CoordinatorInv, CoordinatorTables
<1>2. /\ DOMAIN runs'[p] = DOMAIN runs[p] /\ runs'[p][q] = x
      /\ \A y \in DOMAIN runs[p] \ {q} : runs'[p][y] = runs[p][y]
  BY <1>1
<1>3. RunsKnown(p) /\ IndexLeadsToRuns(p)
  BY DEF CoordinatorInv, Coordinated
<1>4. RunsKnown(p)'
  BY <1>2, <1>3 DEF RunsKnown
<1>5. PICK R : R = runs'[p]
  OBVIOUS
<1>6. \A y \in DOMAIN runs[p] : SlotIn(R, y) = SlotIn(runs[p], y)
  BY <1>2, <1>5 DEF SlotIn
<1>7. Leads(index[p], R)
  BY <1>2, <1>3, <1>5, <1>6 DEF IndexLeadsToRuns, Leads
<1>8. IndexLeadsToRuns(p)'
  BY <1>5, <1>7 DEF IndexLeadsToRuns
<1> QED
  BY <1>1, <1>2, <1>4, <1>8 DEF CoordinatorInv, CoordinatorTables

LEMMA AgeKeepsCoordinator ==
    ASSUME RuntimeInv, CoordinatorInv, NEW p \in Runtimes, NEW q \in DOMAIN runs[p], Age(p, q)
    PROVE  CoordinatorInv'
<1>1. Coordinated(p) /\ runs[p][q] \in Projection
  BY DEF CoordinatorInv, Coordinated, RunsKnown
<1>2. PICK x : x = [runs[p][q] EXCEPT !.aged = TRUE]
  OBVIOUS
<1>3. /\ x \in Projection /\ x.key = runs[p][q].key /\ x.state = runs[p][q].state
      /\ x.state \in Terminal
  BY <1>1, <1>2 DEF Age, Projection
<1>4. runs' = [runs EXCEPT ![p][q] = x] /\ UNCHANGED << process, index, queue, thread, issued >>
  BY <1>2 DEF Age
<1>5. /\ CoordinatorTables' /\ RunsKnown(p)' /\ IndexLeadsToRuns(p)'
      /\ DOMAIN runs'[p] = DOMAIN runs[p] /\ runs'[p][q] = x
      /\ \A y \in DOMAIN runs[p] \ {q} : runs'[p][y] = runs[p][y]
      /\ \A r \in Runtimes \ {p} : UNCHANGED << process[r], runs[r], index[r] >>
  BY <1>3, <1>4, ProjectionChanges
<1>6. QueueWaits(p)' /\ ThreadHasRun(p)'
  BY <1>1, <1>3, <1>4, <1>5 DEF Coordinated, QueueWaits, ThreadHasRun
<1> QED
  BY <1>4, <1>5, <1>6, OneProcessMoves, IssuedIsNumber DEF Coordinated

\* The thread takes the head of the queue, which nobody else holds.
LEMMA TakeRunKeepsCoordinator ==
    ASSUME RuntimeInv, CoordinatorInv, NEW p \in Runtimes, TakeRun(p)
    PROVE  CoordinatorInv'
<1>1. PICK q : q = Head(queue[p])
  OBVIOUS
<1>2. /\ process[p] = "UP" /\ queue[p] # << >> /\ queue' = [queue EXCEPT ![p] = Tail(queue[p])]
      /\ runs' = [runs EXCEPT ![p][q].state = "RUNNING"]
      /\ Goto(p, [IdleThread EXCEPT !.pc = "admit", !.run = q])
      /\ UNCHANGED << process, index, issued >>
  BY <1>1 DEF TakeRun
<1>3. Coordinated(p) /\ queue[p] \in Seq(Requests) /\ DOMAIN queue = Runtimes
  BY DEF CoordinatorInv, RuntimeInv, QueuesHoldRequests
<1>4. /\ q = queue[p][1] /\ 1 \in DOMAIN queue[p]
      /\ \A i \in DOMAIN Tail(queue[p]) : /\ i + 1 \in DOMAIN queue[p]
                                          /\ Tail(queue[p])[i] = queue[p][i + 1]
                                          /\ i + 1 # 1 /\ i \in Nat
  BY <1>1, <1>2, <1>3
<1>5. q \in DOMAIN runs[p] /\ runs[p][q] \in Projection /\ runs[p][q].state = "QUEUED"
  BY <1>3, <1>4 DEF Coordinated, QueueWaits, RunsKnown
<1>6. PICK x : x = [runs[p][q] EXCEPT !.state = "RUNNING"]
  OBVIOUS
<1>7. /\ x \in Projection /\ x.key = runs[p][q].key /\ x.state = "RUNNING" /\ x.aged = FALSE
  BY <1>3, <1>5, <1>6 DEF Projection, JuryRunState, Coordinated, RunsKnown, Terminal
<1>8. runs' = [runs EXCEPT ![p][q] = x]
  BY <1>2, <1>6
<1>9. /\ CoordinatorTables' /\ RunsKnown(p)' /\ IndexLeadsToRuns(p)'
      /\ DOMAIN runs'[p] = DOMAIN runs[p] /\ runs'[p][q] = x
      /\ \A y \in DOMAIN runs[p] \ {q} : runs'[p][y] = runs[p][y]
      /\ \A r \in Runtimes \ {p} : UNCHANGED << process[r], runs[r], index[r] >>
  <2>1. /\ q \in DOMAIN runs[p] /\ x \in Projection /\ x.key = runs[p][q].key 
        /\ (x.aged = FALSE \/ x.state \in Terminal)
    BY <1>5, <1>7
  <2>2. runs' = [runs EXCEPT ![p][q] = x]
    BY <1>8
  <2>3. UNCHANGED << process, index, issued >>
    BY <1>2
  <2> QED
    BY ONLY <2>1, <2>2, <2>3, CoordinatorInv, ProjectionChanges
<1>10. queue'[p] = Tail(queue[p]) /\ \A r \in Runtimes \ {p} : queue'[r] = queue[r]
  BY <1>2, <1>3
<1>11. \A i \in DOMAIN Tail(queue[p]) : Tail(queue[p])[i] # q
  BY <1>3, <1>4 DEF Coordinated, QueueWaits
<1>12. QueueWaits(p)'
  <2>1. process'[p] = "UP"
    BY <1>2
  <2>2. \A i \in DOMAIN Tail(queue[p]) : 
           /\ Tail(queue[p])[i] \in DOMAIN runs[p] 
           /\ runs'[p][Tail(queue[p])[i]].state = "QUEUED"
    BY <1>3, <1>4, <1>9, <1>11 DEF Coordinated, QueueWaits
  <2>3. \A i, j \in DOMAIN Tail(queue[p]) : Tail(queue[p])[i] = Tail(queue[p])[j] => i = j
    BY <1>3, <1>4 DEF Coordinated, QueueWaits
  <2> QED
    BY <1>9, <1>10, <2>1, <2>2, <2>3 DEF QueueWaits
<1>13. /\ thread'[p] = [IdleThread EXCEPT !.pc = "admit", !.run = q]
       /\ \A r \in Runtimes \ {p} : thread'[r] = thread[r]
  BY <1>2 DEF Goto, RuntimeInv, ThreadsPlaced
<1>14. ThreadHasRun(p)'
  BY <1>5, <1>7, <1>9, <1>13 DEF ThreadHasRun, IdleThread
<1> QED
  BY <1>2, <1>9, <1>10, <1>12, <1>13, <1>14, OneProcessMoves, IssuedIsNumber DEF Coordinated

LEMMA PublishKeepsCoordinator ==
    ASSUME RuntimeInv, CoordinatorInv, NEW p \in Runtimes, Publish(p)
    PROVE  CoordinatorInv'
<1>1. PICK q : q = thread[p].run
  OBVIOUS
<1>2. Coordinated(p) /\ thread[p].pc = "publish"
  BY DEF CoordinatorInv, Publish, At
<1>3. q \in DOMAIN runs[p] /\ runs[p][q] \in Projection /\ runs[p][q].state = "RUNNING"
  BY <1>1, <1>2 DEF Coordinated, ThreadHasRun, RunsKnown
<1>4. PICK x : x = [runs[p][q] EXCEPT
                       !.state = IF thread[p].result = "BLOCKED" THEN "BLOCKED" ELSE "COMPLETED",
                       !.answer = thread[p].result = "VERIFIED"]
  OBVIOUS
<1>5. /\ x \in Projection /\ x.key = runs[p][q].key /\ x.state \in Terminal
  BY <1>3, <1>4 DEF Projection, JuryRunState, Terminal
<1>6. /\ runs' = [runs EXCEPT ![p][q] = x] /\ Goto(p, IdleThread)
      /\ UNCHANGED << process, index, queue, issued >>
  BY <1>1, <1>4 DEF Publish
<1>7. /\ CoordinatorTables' /\ RunsKnown(p)' /\ IndexLeadsToRuns(p)'
      /\ DOMAIN runs'[p] = DOMAIN runs[p] /\ runs'[p][q] = x
      /\ \A y \in DOMAIN runs[p] \ {q} : runs'[p][y] = runs[p][y]
      /\ \A r \in Runtimes \ {p} : UNCHANGED << process[r], runs[r], index[r] >>
  BY <1>3, <1>5, <1>6, ProjectionChanges
<1>8. QueueWaits(p)'
  BY <1>2, <1>3, <1>6, <1>7 DEF Coordinated, QueueWaits
<1>9. thread'[p] = IdleThread /\ \A r \in Runtimes \ {p} : thread'[r] = thread[r]
  BY <1>6 DEF Goto, RuntimeInv, ThreadsPlaced
<1>10. ThreadHasRun(p)'
  BY <1>9 DEF ThreadHasRun, IdleThread
<1> QED
  BY <1>6, <1>7, <1>8, <1>9, <1>10, OneProcessMoves, IssuedIsNumber DEF Coordinated

\* A process starts, begins to close, or has closed or crashed and lost all.
LEMMA LifeKeepsCoordinator ==
    ASSUME RuntimeInv, CoordinatorInv, NEW p \in Runtimes,
           Start(p) \/ Close(p) \/ FinishClose(p) \/ Crash(p)
    PROVE  CoordinatorInv'
<1>1. /\ Coordinated(p)
      /\ DOMAIN queue = Runtimes /\ thread \in [Runtimes -> Thread]
  BY DEF CoordinatorInv, RuntimeInv, QueuesHoldRequests, ThreadsPlaced
<1>2. DOMAIN << >> = {}
  OBVIOUS
<1>3. CoordinatorTables'
  BY DEF CoordinatorInv, CoordinatorTables, Start, Close, FinishClose, Crash
<1>4. CASE Start(p)
  <2>1. RunsKnown(p)' /\ IndexLeadsToRuns(p)' /\ ThreadHasRun(p)'
    BY <1>1, <1>4 DEF Start, Coordinated, RunsKnown, IndexLeadsToRuns, ThreadHasRun
  <2>2. QueueWaits(p)'
    BY <1>1, <1>2, <1>4 DEF Start, Coordinated, QueueWaits, CoordinatorInv, CoordinatorTables
  <2>3. \A r \in Runtimes \ {p} :
           UNCHANGED << process[r], runs[r], index[r], queue[r], thread[r] >>
    BY <1>4 DEF Start, CoordinatorInv, CoordinatorTables
  <2> QED
    BY <1>3, <1>4, <2>1, <2>2, <2>3, OneProcessMoves, IssuedIsNumber DEF Coordinated, Start
<1>5. CASE Close(p)
  <2>1. RunsKnown(p)' /\ IndexLeadsToRuns(p)' /\ ThreadHasRun(p)'
    BY <1>1, <1>5 DEF Close, Coordinated, RunsKnown, IndexLeadsToRuns, ThreadHasRun
  <2>2. QueueWaits(p)'
    BY <1>1, <1>2, <1>5 DEF Close, QueueWaits
  <2>3. \A r \in Runtimes \ {p} :
           UNCHANGED << process[r], runs[r], index[r], queue[r], thread[r] >>
    BY <1>1, <1>5 DEF Close, CoordinatorInv, CoordinatorTables
  <2> QED
    BY <1>3, <1>5, <2>1, <2>2, <2>3, OneProcessMoves, IssuedIsNumber DEF Coordinated, Close
<1>6. CASE FinishClose(p) \/ Crash(p)
  <2>1. /\ runs'[p] = NoRuns /\ index'[p] = EmptyIndex /\ process'[p] = "DOWN"
        /\ issued' = issued
    BY <1>6 DEF FinishClose, Crash, CoordinatorInv, CoordinatorTables
  <2>2. queue'[p] = << >> /\ thread'[p].pc = "idle"
    BY <1>1, <1>6 DEF FinishClose, Crash, Goto, IdleThread, Coordinated, QueueWaits
  <2>3. DOMAIN NoRuns = {}
    BY DEF NoRuns
  <2>4. RunsKnown(p)'
    <3>1. IsFiniteSet({}) /\ Cardinality({}) = 0 /\ 0 <= Capacity
      BY FS_EmptySet, RuntimeAssumption
    <3> QED
      BY <2>1, <2>3, <3>1 DEF RunsKnown
  <2>5. IndexLeadsToRuns(p)'
    <3>1. Leads(EmptyIndex, NoRuns)
      BY <2>3 DEF Leads, EmptyIndex
    <3> QED
      BY <2>1, <3>1 DEF IndexLeadsToRuns
  <2>6. QueueWaits(p)' /\ ThreadHasRun(p)'
    BY <1>2, <2>2 DEF QueueWaits, ThreadHasRun
  <2>7. \A r \in Runtimes \ {p} :
           UNCHANGED << process[r], runs[r], index[r], queue[r], thread[r] >>
    BY <1>1, <1>6 DEF FinishClose, Crash, Goto, CoordinatorInv, CoordinatorTables
  <2>8. \A q \in DOMAIN runs'[p] : q \in DOMAIN runs[p] \/ q.id > issued
    BY <2>1, <2>3
  <2> QED
    BY <1>3, <2>1, <2>4, <2>5, <2>6, <2>7, <2>8, OneProcessMoves, IssuedIsNumber DEF Coordinated
<1> QED
  BY <1>4, <1>5, <1>6

LEMMA CoordinatorStarts == RuntimeInit => CoordinatorInv
<1> SUFFICES ASSUME RuntimeInit PROVE CoordinatorInv
  OBVIOUS
<1>1. DOMAIN NoRuns = {} /\ DOMAIN << >> = {}
  BY DEF NoRuns
<1>2. ASSUME NEW p \in Runtimes PROVE Coordinated(p)
  <2>1. /\ runs[p] = NoRuns /\ index[p] = EmptyIndex /\ queue[p] = << >>
        /\ thread[p].pc = "idle"
    BY DEF RuntimeInit, IdleThread
  <2>2. IsFiniteSet({}) /\ Cardinality({}) = 0 /\ 0 <= Capacity
    BY FS_EmptySet, RuntimeAssumption
  <2>3. RunsKnown(p)
    BY <1>1, <2>1, <2>2 DEF RunsKnown
  <2>4. Leads(EmptyIndex, NoRuns)
    BY <1>1 DEF Leads, EmptyIndex
  <2>5. IndexLeadsToRuns(p)
    BY <2>1, <2>4 DEF IndexLeadsToRuns
  <2> QED
    BY <1>1, <2>1, <2>3, <2>5 DEF Coordinated, QueueWaits, ThreadHasRun
<1>3. CoordinatorTables /\ RunsAreApart
  BY <1>1 DEF RuntimeInit, CoordinatorTables, RunsAreApart
<1> QED
  BY <1>2, <1>3 DEF CoordinatorInv

LEMMA CoordinatorStep ==
    ASSUME RuntimeInv, CoordinatorInv, [RuntimeNext]_vars
    PROVE  CoordinatorInv'
<1>1. CASE UNCHANGED vars
  BY <1>1 DEF vars, volatile, CoordinatorInv, CoordinatorTables, RunsAreApart, Coordinated,
              RunsKnown, IndexLeadsToRuns, QueueWaits, ThreadHasRun
<1>2. ASSUME NEW p \in Runtimes, ThreadStep(p) PROVE CoordinatorInv'
  <2>1. CASE TakeRun(p)
    BY <2>1, TakeRunKeepsCoordinator
  <2>2. CASE Publish(p)
    BY <2>2, PublishKeepsCoordinator
  <2>3. CASE \/ EnterScope(p) \/ ReserveAttempt(p) \/ Ask(p) \/ ProviderReturns(p)
             \/ Settle(p) \/ Examine(p) \/ LeaveScope(p)
    <3>1. PICK t : Goto(p, t) /\ t.run = thread[p].run
      BY <2>3, RunKeptOnTheWay
    <3>2. t \in Thread
      <4>1. thread' \in [Runtimes -> Thread] /\ thread \in [Runtimes -> Thread]
        BY RuntimeStepFits DEF RuntimeInv, ThreadsPlaced
      <4>2. thread'[p] = t
        BY <3>1, <4>1 DEF Goto
      <4> QED
        BY <4>1, <4>2
    <3> QED
      BY <2>3, <3>1, <3>2, RunKeptOnTheWay, ThreadGoesOn
  <2> QED
    BY <1>2, <2>1, <2>2, <2>3 DEF ThreadStep
<1>3. ASSUME NEW p \in Runtimes, Start(p) \/ Look(p) \/ Close(p) \/ FinishClose(p) \/ Crash(p)
      PROVE  CoordinatorInv'
  BY <1>3, LookKeepsCoordinator, LifeKeepsCoordinator
<1>4. ASSUME NEW p \in Runtimes, NEW s \in Sessions, NEW k \in Keys, Submit(p, s, k)
      PROVE  CoordinatorInv'
  BY <1>4, SubmitKeepsCoordinator
<1>5. ASSUME NEW p \in Runtimes, NEW q \in DOMAIN runs[p], Age(p, q) PROVE CoordinatorInv'
  BY <1>5, AgeKeepsCoordinator
<1> QED
  BY <1>1, <1>2, <1>3, <1>4, <1>5 DEF RuntimeNext

LEMMA CoordinatorInvariant == RuntimeSpec => []CoordinatorInv
<1>1. RuntimeInv /\ CoordinatorInv /\ [RuntimeNext]_vars => CoordinatorInv'
  BY CoordinatorStep
<1> QED
  BY <1>1, CoordinatorStarts, RuntimeInvariant, PTL DEF RuntimeSpec

(* Duplicate submissions find one run, a key never leads to a run that was   *)
(* pruned, the thread works on a run its process retains, and no process     *)
(* retains more than it may (submit, get and _prune of the coordinator).     *)
THEOREM RuntimeKeepsCoordinator == RuntimeSpec => []CoordinatorIsConsistent
<1>1. RuntimeInv /\ CoordinatorInv => CoordinatorIsConsistent
  <2> SUFFICES ASSUME RuntimeInv, CoordinatorInv PROVE CoordinatorIsConsistent
    OBVIOUS
  <2>1. \A p \in Runtimes : RunsKnown(p) /\ IndexLeadsToRuns(p) /\ ThreadHasRun(p)
    BY DEF CoordinatorInv, Coordinated
  <2>2. index \in [Runtimes -> [Sessions \X Keys -> Requests \cup {NoRun}]]
    BY <2>1 DEF CoordinatorInv, CoordinatorTables, IndexLeadsToRuns, Leads
  <2>3. RuntimeTypeOK
    BY <2>1, <2>2 DEF RuntimeTypeOK, RuntimeInv, GuardInv, ThreadsPlaced, QueuesHoldRequests,
                      CoordinatorInv, CoordinatorTables, RunsKnown, ThreadHasRun
  <2>4. IndexMatchesRuns
    BY <2>1 DEF IndexMatchesRuns, IndexLeadsToRuns, Leads, Slot, SlotIn, RunsKnown
  <2> QED
    BY <2>3, <2>4 DEF CoordinatorIsConsistent
<1> QED
  BY <1>1, RuntimeInvariant, CoordinatorInvariant, PTL

-----------------------------------------------------------------------------
(***************************************************************************)
(* The accounts.  What a run that is shown as completed needs has to be    *)
(* known at every point of its way: AccountsInv says of a thread which     *)
(* rows its run has by now, and of a run that waits that it has none.  A   *)
(* step of one thread touches the rows of its own run only (StaysWithin),  *)
(* and runs are apart, so every other account stays as it is.              *)
(***************************************************************************)

Booked(q, table) == {c \in Calls : c.request = q /\ table[c] = "COMPLETED"}

Call(t) == [request |-> t.run, attempt |-> t.attempts]

\* Answered calls that the drafts before this one were charged.
DraftsBefore(t) == IF t.draft = "V1" THEN 0 ELSE 1

AnswersUsed(t) == IF t.result = "VERIFIED" THEN 2 ELSE 1

ThreadBooked(t, table) ==
    /\ t.pc = "admit" => Booked(t.run, table) = {}
    /\ t.pc \in InScope => table[t.run] = "IN_PROGRESS"
    /\ t.pc \in {"generate", "ask", "wait", "settle"} =>
          Cardinality(Booked(t.run, table)) = DraftsBefore(t)
    /\ t.pc \in {"ask", "wait", "settle"} => table[Call(t)] = "IN_PROGRESS"
    /\ t.pc = "examine" => Cardinality(Booked(t.run, table)) = DraftsBefore(t) + 1
    /\ t.pc \in {"leave", "publish"} =>
          \/ t.result = "BLOCKED"
          \/ /\ t.result \in {"VERIFIED", "UNCORRECTED"}
             /\ Cardinality(Booked(t.run, table)) = AnswersUsed(t)
             /\ t.pc = "publish" => table[t.run] = "COMPLETED"

ProjectionBooked(x, q, table) ==
    /\ x.state = "QUEUED" => Booked(q, table) = {}
    /\ x.state = "COMPLETED" =>
          /\ table[q] = "COMPLETED"
          /\ Cardinality(Booked(q, table)) = IF x.answer THEN 2 ELSE 1

Accounted(p) ==
    /\ ThreadBooked(thread[p], rows)
    /\ \A q \in DOMAIN runs[p] : ProjectionBooked(runs[p][q], q, rows)

NothingBeforeIssue == \A c \in Calls : c.request.id > issued => rows[c] = "ABSENT"

AccountsInv == NothingBeforeIssue /\ \A p \in Runtimes : Accounted(p)

-----------------------------------------------------------------------------

\* A thread step leaves the rows of every other run alone.
Untouched(q) == /\ rows'[q] = rows[q]
                /\ \A c \in Calls : c.request = q => rows'[c] = rows[c]

LEMMA UntouchedAccount ==
    ASSUME NEW q, Untouched(q) PROVE Booked(q, rows') = Booked(q, rows)
BY DEF Untouched, Booked

LEMMA BookedIsFinite ==
    ASSUME GuardInv, NEW q
    PROVE  IsFiniteSet(Booked(q, rows)) /\ Cardinality(Booked(q, rows)) \in Nat
<1>1. Booked(q, rows) \subseteq Reserved(Calls)
  BY DEF Booked, Reserved
<1>2. IsFiniteSet(Booked(q, rows))
  BY <1>1, FS_Subset DEF GuardInv, FinitelyReserved
<1> QED
  BY <1>2, FS_CardinalityType

\* A reservation books nothing, and the end of a request no call.
LEMMA InsertBooks ==
    ASSUME GuardTypeOK, NEW r \in Requests \cup Calls, rows[r] = "ABSENT", Insert(r), NEW q
    PROVE  Booked(q, rows') = Booked(q, rows)
BY DEF GuardTypeOK, Insert, Booked

LEMMA RequestEndBooks ==
    ASSUME GuardTypeOK, NEW r \in Requests, NEW s, Complete(r, s), NEW q
    PROVE  Booked(q, rows') = Booked(q, rows)
BY KindsAreDisjoint DEF GuardTypeOK, Complete, Booked

\* The settlement of a call books it when it was answered.
LEMMA SettlementBooks ==
    ASSUME GuardInv, NEW c \in Calls, rows[c] = "IN_PROGRESS", SettleCall(c)
    PROVE  Cardinality(Booked(c.request, rows')) =
              IF provider[c] = "ANSWERED" THEN Cardinality(Booked(c.request, rows)) + 1
                                          ELSE Cardinality(Booked(c.request, rows))
<1>1. rows' = [rows EXCEPT ![c] = Settlement(provider[c])]
  BY DEF SettleCall, Complete
<1>2. c \notin Booked(c.request, rows)
  BY DEF Booked
<1>3. CASE provider[c] = "ANSWERED"
  <2>1. Settlement(provider[c]) = "COMPLETED"
    BY <1>3 DEF Settlement
  <2>2. Booked(c.request, rows') = Booked(c.request, rows) \cup {c}
    BY <1>1, <2>1 DEF Booked, GuardInv, GuardTypeOK
  <2> QED
    BY <1>2, <1>3, <2>2, BookedIsFinite, FS_AddElement
<1>4. CASE provider[c] # "ANSWERED"
  <2>1. Settlement(provider[c]) # "COMPLETED"
    BY <1>4 DEF Settlement, SettleCall
  <2>2. Booked(c.request, rows') = Booked(c.request, rows)
    BY <1>1, <1>2, <2>1 DEF Booked, GuardInv, GuardTypeOK
  <2> QED
    BY <1>4, <2>2
<1> QED
  BY <1>3, <1>4

\* The other accounts of a step that moves one thread.
LEMMA OthersAccounted ==
    ASSUME RuntimeInv, CoordinatorInv, AccountsInv, NEW p \in Runtimes,
           thread[p].pc # "idle",
           \A q \in Requests : q # thread[p].run => Untouched(q),
           UNCHANGED issued
    PROVE  /\ NothingBeforeIssue'
           /\ \A r \in Runtimes \ {p} :
                 UNCHANGED << thread[r], runs[r] >> => Accounted(r)'
           /\ \A q \in DOMAIN runs[p] \ {thread[p].run} : ProjectionBooked(runs[p][q], q, rows')
<1>1. /\ thread[p].run \in DOMAIN runs[p] /\ thread[p].run \in Requests
      /\ thread[p].run.id <= issued /\ issued \in Nat /\ thread[p].run.id \in Nat
  BY IssuedIsNumber, BoundsAreNumbers DEF CoordinatorInv, Coordinated, ThreadHasRun, RunsKnown, Requests
<1>2. NothingBeforeIssue'
  <2> SUFFICES ASSUME NEW c \in Calls, c.request.id > issued PROVE rows'[c] = "ABSENT"
    BY DEF NothingBeforeIssue
  <2>1. c.request \in Requests /\ c.request.id \in Nat
    BY BoundsAreNumbers DEF Calls, Requests
  <2>2. c.request # thread[p].run
    BY <1>1, <2>1
  <2>3. rows[c] = "ABSENT"
    BY DEF AccountsInv, NothingBeforeIssue
  <2> QED
    BY <2>1, <2>2, <2>3 DEF Untouched
<1>3. ASSUME NEW r \in Runtimes, NEW q \in DOMAIN runs[r], q # thread[p].run
      PROVE  Booked(q, rows') = Booked(q, rows) /\ rows'[q] = rows[q]
             /\ \A c \in Calls : c.request = q => rows'[c] = rows[c]
  <2>1. q \in Requests
    BY DEF CoordinatorInv, Coordinated, RunsKnown
  <2>2. Untouched(q)
    BY <1>3, <2>1
  <2> QED
    BY <2>2, UntouchedAccount DEF Untouched
<1>4. ASSUME NEW r \in Runtimes, NEW q \in DOMAIN runs[r], q # thread[p].run
      PROVE  ProjectionBooked(runs[r][q], q, rows')
  <2>1. ProjectionBooked(runs[r][q], q, rows)
    BY DEF AccountsInv, Accounted
  <2> QED
    BY <1>3, <1>4, <2>1 DEF ProjectionBooked
<1>5. ASSUME NEW r \in Runtimes \ {p}, UNCHANGED << thread[r], runs[r] >>
      PROVE  Accounted(r)'
  <2>1. thread[p].run \notin DOMAIN runs[r]
    BY <1>1 DEF CoordinatorInv, RunsAreApart
  <2>2. \A q \in DOMAIN runs[r] : ProjectionBooked(runs[r][q], q, rows')
    BY <1>4, <2>1
  <2>3. ThreadBooked(thread[r], rows)
    BY DEF AccountsInv, Accounted
  <2>4. CASE thread[r].pc = "idle"
    <3>1. ThreadBooked(thread[r], rows')
      BY <2>4 DEF ThreadBooked, InScope
    <3> QED
      BY <1>5, <2>2, <3>1 DEF Accounted
  <2>5. CASE thread[r].pc # "idle"
    <3>1. thread[r].run \in DOMAIN runs[r] /\ thread[r].run # thread[p].run
      BY <2>1, <2>5 DEF CoordinatorInv, Coordinated, ThreadHasRun
    <3>2. /\ Booked(thread[r].run, rows') = Booked(thread[r].run, rows)
          /\ rows'[thread[r].run] = rows[thread[r].run]
      BY <1>3, <3>1
    <3>3. thread[r].pc \in {"ask", "wait", "settle"} => rows'[Call(thread[r])] = rows[Call(thread[r])]
      <4> SUFFICES ASSUME thread[r].pc \in {"ask", "wait", "settle"}
                   PROVE  rows'[Call(thread[r])] = rows[Call(thread[r])]
        OBVIOUS
      <4>1. Call(thread[r]) \in Calls /\ Call(thread[r]).request = thread[r].run
        BY CallIsKnown DEF Call, CurrentCall
      <4> QED
        BY <1>3, <3>1, <4>1
    <3>4. ThreadBooked(thread[r], rows')
      BY <2>3, <3>2, <3>3 DEF ThreadBooked
    <3> QED
      BY <1>5, <2>2, <3>4 DEF Accounted
  <2> QED
    BY <2>4, <2>5
<1> QED
  BY <1>2, <1>4, <1>5

LEMMA ThreadGoesOnAccounted ==
    ASSUME RuntimeInv, CoordinatorInv, AccountsInv, NEW p \in Runtimes, NEW t,
           thread[p].pc # "idle", Goto(p, t), ThreadBooked(t, rows'),
           \A q \in Requests : q # thread[p].run => Untouched(q),
           UNCHANGED << runs, issued >>
    PROVE  AccountsInv'
<1>1. thread'[p] = t /\ \A r \in Runtimes \ {p} : thread'[r] = thread[r]
  BY DEF Goto, RuntimeInv, ThreadsPlaced
<1>2. runs[p][thread[p].run].state = "RUNNING"
  BY DEF CoordinatorInv, Coordinated, ThreadHasRun
<1>3. ProjectionBooked(runs[p][thread[p].run], thread[p].run, rows')
  BY <1>2 DEF ProjectionBooked
<1>4. Accounted(p)'
  BY <1>1, <1>3, OthersAccounted DEF Accounted
<1> QED
  BY <1>1, <1>4, OthersAccounted DEF AccountsInv

\* A ledger transaction of a thread, whether it commits and whatever it says:
\* it touches the rows of the thread's run, and both of its ends are accounted.
LEMMA TransactionAccounted ==
    ASSUME RuntimeInv, CoordinatorInv, AccountsInv, NEW p \in Runtimes, NEW ACTION commit,
           NEW t, NEW u, thread[p].pc # "idle", Transaction(p, commit, t, u),
           UNCHANGED << runs, issued >>,
           commit => /\ \A q \in Requests : q # thread[p].run => Untouched(q)
                     /\ ThreadBooked(t, rows') /\ ThreadBooked(u, rows'),
           ThreadBooked(u, rows)
    PROVE  AccountsInv'
<1>1. CASE commit /\ (Goto(p, t) \/ Goto(p, u))
  BY <1>1, ThreadGoesOnAccounted
<1>2. CASE UNCHANGED guardVars /\ Goto(p, u)
  <2>1. rows' = rows
    BY <1>2 DEF guardVars
  <2>2. \A q \in Requests : q # thread[p].run => Untouched(q)
    BY <2>1 DEF Untouched
  <2>3. ThreadBooked(u, rows')
    BY <2>1
  <2> QED
    BY <1>2, <2>2, <2>3, ThreadGoesOnAccounted
<1> QED
  BY <1>1, <1>2 DEF Transaction

\* A step that only moves a thread.
LEMMA QuietlyAccounted ==
    ASSUME RuntimeInv, CoordinatorInv, AccountsInv, NEW p \in Runtimes, NEW t,
           thread[p].pc # "idle", Goto(p, t), ThreadBooked(t, rows),
           UNCHANGED << rows, runs, issued >>
    PROVE  AccountsInv'
<1>1. \A q \in Requests : q # thread[p].run => Untouched(q)
  BY DEF Untouched
<1>2. ThreadBooked(t, rows')
  OBVIOUS
<1> QED
  BY <1>1, <1>2, ThreadGoesOnAccounted

\* Where a thread stands, and what its account then says.
LEMMA ThreadStands ==
    ASSUME RuntimeInv, AccountsInv, NEW p \in Runtimes
    PROVE  /\ thread[p] \in Thread /\ Placed(thread[p], rows)
           /\ ThreadBooked(thread[p], rows) /\ GuardInv /\ GuardTypeOK
BY DEF RuntimeInv, ThreadsPlaced, GuardInv, AccountsInv, Accounted

\* A run that ends blocked needs no account.
LEMMA BlockedIsAccounted ==
    ASSUME RuntimeInv, NEW p \in Runtimes, NEW table
    PROVE  /\ ThreadBooked(Ended(p, "publish", "BLOCKED"), table)
           /\ table[thread[p].run] = "IN_PROGRESS" => ThreadBooked(Blocked(p), table)
<1>1. thread[p] \in Thread
  BY DEF RuntimeInv, ThreadsPlaced
<1>2. /\ Ended(p, "publish", "BLOCKED").pc = "publish" /\ Ended(p, "publish", "BLOCKED").result = "BLOCKED"
      /\ Blocked(p).pc = "leave" /\ Blocked(p).result = "BLOCKED" /\ Blocked(p).run = thread[p].run
  BY <1>1 DEF Blocked, Ended, Thread
<1> QED
  BY <1>2 DEF ThreadBooked, InScope

\* A reservation touches one request, or one call of one request.
LEMMA RequestTouchesItself ==
    ASSUME GuardTypeOK, NEW r \in Requests, Insert(r) \/ \E s : Complete(r, s),
           NEW q \in Requests, q # r
    PROVE  Untouched(q)
BY KindsAreDisjoint DEF GuardTypeOK, Insert, Complete, Untouched

LEMMA CallTouchesItsRequest ==
    ASSUME GuardTypeOK, NEW c \in Calls, Insert(c) \/ \E s : Complete(c, s),
           NEW q \in Requests
    PROVE  rows'[q] = rows[q] /\ (q # c.request => Untouched(q))
BY KindsAreDisjoint DEF GuardTypeOK, Insert, Complete, Untouched

LEMMA EnterScopeAccounted ==
    ASSUME RuntimeInv, CoordinatorInv, AccountsInv, NEW p \in Runtimes, EnterScope(p)
    PROVE  AccountsInv'
<1> DEFINE q == thread[p].run
           entered == [thread[p] EXCEPT !.pc = "generate", !.tries = 1]
           refused == Ended(p, "publish", "BLOCKED")
<1>1. /\ thread[p].pc = "admit" /\ UNCHANGED << runs, issued >>
      /\ \/ Goto(p, refused) /\ UNCHANGED guardVars
         \/ Transaction(p, ReserveRequest(q), entered, refused)
  BY DEF EnterScope, At
<1>2. /\ q \in Requests /\ thread[p].draft = "V1" /\ thread[p].attempts = 0
      /\ Booked(q, rows) = {}
  BY <1>1, ThreadStands DEF Placed, ThreadBooked
<1>3. /\ entered.pc = "generate" /\ entered.run = q /\ entered.draft = "V1"
  BY <1>1, <1>2, ThreadStands DEF Thread
<1>4. ASSUME NEW table PROVE ThreadBooked(refused, table)
  BY BlockedIsAccounted
<1>5. ASSUME ReserveRequest(q)
      PROVE  (\A x \in Requests : x # q => Untouched(x)) /\ ThreadBooked(entered, rows')
  <2>1. Insert(q) /\ rows[q] = "ABSENT"
    BY <1>5 DEF ReserveRequest, RequestAdmitted
  <2>2. \A x \in Requests : x # q => Untouched(x)
    BY <1>2, <2>1, RequestTouchesItself, ThreadStands
  <2>3. rows'[q] = "IN_PROGRESS"
    BY <1>2, <2>1, ThreadStands DEF Insert, GuardTypeOK
  <2>4. Booked(q, rows') = {}
    BY <1>2, <2>1, InsertBooks, ThreadStands
  <2>5. Cardinality(Booked(q, rows')) = DraftsBefore(entered)
    BY <1>3, <2>4, FS_EmptySet DEF DraftsBefore
  <2> QED
    BY <1>3, <2>2, <2>3, <2>5 DEF ThreadBooked
<1>6. thread[p].pc # "idle" /\ UNCHANGED << runs, issued >>
  BY <1>1
<1> HIDE DEF q, entered, refused
<1>7. CASE Goto(p, refused) /\ UNCHANGED guardVars
  BY <1>4, <1>6, <1>7, QuietlyAccounted DEF guardVars
<1>8. CASE Transaction(p, ReserveRequest(q), entered, refused)
  BY <1>4, <1>5, <1>6, <1>8, TransactionAccounted DEF q
<1> QED
  BY <1>1, <1>7, <1>8

LEMMA ReserveAttemptAccounted ==
    ASSUME RuntimeInv, CoordinatorInv, AccountsInv, NEW p \in Runtimes, ReserveAttempt(p)
    PROVE  AccountsInv'
<1>1. PICK n : n = thread[p].attempts + 1
  OBVIOUS
<1>2. PICK c : c = [request |-> thread[p].run, attempt |-> n]
  OBVIOUS
<1> DEFINE asking == [thread[p] EXCEPT !.pc = "ask", !.attempts = n]
           refused == [Blocked(p) EXCEPT !.attempts = n]
<1>3. /\ thread[p].pc = "generate" /\ UNCHANGED << runs, issued >>
      /\ \/ Goto(p, refused) /\ UNCHANGED guardVars
         \/ Transaction(p, ReserveCall(c), asking, refused)
  BY <1>1, <1>2 DEF ReserveAttempt, At
<1>4. /\ thread[p] \in Thread /\ thread[p].run \in Requests /\ rows[thread[p].run] = "IN_PROGRESS"
      /\ Cardinality(Booked(thread[p].run, rows)) = DraftsBefore(thread[p])
      /\ thread[p].attempts < Earlier(thread[p]) + thread[p].tries
  BY <1>3, ThreadStands DEF Placed, ThreadBooked, InScope
<1>5. c \in Calls /\ c.request = thread[p].run
  <2>1. thread[p].attempts \in 0..MaxAttempt /\ thread[p].tries \in 0..MaxTries
    BY <1>4 DEF Thread
  <2>2. n \in 1..MaxAttempt
    BY <1>1, <1>4, <2>1, BoundsAreNumbers DEF Earlier
  <2> QED
    BY <1>2, <1>4, <2>2 DEF Calls
<1>6. /\ asking.pc = "ask" /\ asking.run = thread[p].run /\ asking.draft = thread[p].draft
      /\ Call(asking) = c
  BY <1>2, <1>4 DEF Thread, Call
<1>7. ASSUME NEW table, table[thread[p].run] = "IN_PROGRESS" PROVE ThreadBooked(refused, table)
  <2>1. refused.pc = "leave" /\ refused.run = thread[p].run /\ refused.result = "BLOCKED"
    BY <1>4 DEF Blocked, Ended, Thread
  <2> QED
    BY <1>7, <2>1 DEF ThreadBooked, InScope
<1>8. ASSUME ReserveCall(c)
      PROVE  /\ \A x \in Requests : x # thread[p].run => Untouched(x)
             /\ ThreadBooked(asking, rows') /\ ThreadBooked(refused, rows')
  <2>1. Insert(c) /\ rows[c] = "ABSENT"
    BY <1>8 DEF ReserveCall, CallAdmitted
  <2>2. /\ \A x \in Requests : x # thread[p].run => Untouched(x)
        /\ rows'[thread[p].run] = "IN_PROGRESS"
    BY <1>4, <1>5, <2>1, CallTouchesItsRequest, ThreadStands
  <2>3. rows'[c] = "IN_PROGRESS"
    BY <1>5, <2>1, ThreadStands DEF Insert, GuardTypeOK
  <2>4. Booked(thread[p].run, rows') = Booked(thread[p].run, rows)
    BY <1>5, <2>1, InsertBooks, ThreadStands
  <2>5. ThreadBooked(asking, rows')
    BY <1>4, <1>6, <2>2, <2>3, <2>4 DEF ThreadBooked, DraftsBefore, InScope
  <2> QED
    BY <1>7, <2>2, <2>5
<1>9. thread[p].pc # "idle" /\ UNCHANGED << runs, issued >> /\ ThreadBooked(refused, rows)
  BY <1>3, <1>4, <1>7
<1> HIDE DEF asking, refused
<1>10. CASE Goto(p, refused) /\ UNCHANGED guardVars
  BY <1>9, <1>10, QuietlyAccounted DEF guardVars
<1>11. CASE Transaction(p, ReserveCall(c), asking, refused)
  BY <1>8, <1>9, <1>11, TransactionAccounted
<1> QED
  BY <1>3, <1>10, <1>11

\* While the provider works, the books stay as they are.
LEMMA ProviderAccounted ==
    ASSUME RuntimeInv, CoordinatorInv, AccountsInv, NEW p \in Runtimes, Ask(p) \/ ProviderReturns(p)
    PROVE  AccountsInv'
<1>1. /\ thread[p].pc \in {"ask", "wait"} /\ UNCHANGED << rows, runs, issued >>
      /\ \/ Goto(p, [thread[p] EXCEPT !.pc = "wait"])
         \/ \E again : Goto(p, [thread[p] EXCEPT !.pc = "settle", !.retryable = again])
  BY DEF Ask, ProviderReturns, At, AskProvider, ProviderEnds
<1>2. PICK t : /\ Goto(p, t) /\ t.pc \in {"wait", "settle"} /\ t.run = thread[p].run
               /\ t.draft = thread[p].draft /\ t.attempts = thread[p].attempts
  <2> DEFINE asked == [thread[p] EXCEPT !.pc = "wait"]
             ended(again) == [thread[p] EXCEPT !.pc = "settle", !.retryable = again]
             Fits(t) == /\ t.pc \in {"wait", "settle"} /\ t.run = thread[p].run
                        /\ t.draft = thread[p].draft /\ t.attempts = thread[p].attempts
  <2>1. Fits(asked) /\ \A again : Fits(ended(again))
    BY ThreadStands DEF Thread
  <2>2. Goto(p, asked) \/ \E again : Goto(p, ended(again))
    BY <1>1
  <2> HIDE DEF asked, ended
  <2> QED
    BY <2>1, <2>2
<1>3. ThreadBooked(t, rows)
  BY <1>1, <1>2, ThreadStands DEF ThreadBooked, InScope, DraftsBefore, Call
<1> QED
  BY <1>1, <1>2, <1>3, QuietlyAccounted

\* An answer is booked by the settlement that hands it on, and by no other.
LEMMA SettleAccounted ==
    ASSUME RuntimeInv, CoordinatorInv, AccountsInv, NEW p \in Runtimes, Settle(p)
    PROVE  AccountsInv'
<1>1. PICK c : c = CurrentCall(p)
  OBVIOUS
<1> DEFINE examined == [thread[p] EXCEPT !.pc = "examine"]
<1>2. thread[p].pc = "settle" /\ UNCHANGED << runs, issued >>
  BY DEF Settle, At
<1>3. /\ thread[p] \in Thread /\ thread[p].run \in Requests
      /\ c \in Calls /\ c.request = thread[p].run /\ c = Call(thread[p])
  BY <1>1, <1>2, CallIsKnown DEF CurrentCall, Call
<1>4. /\ rows[thread[p].run] = "IN_PROGRESS" /\ rows[c] = "IN_PROGRESS"
      /\ Cardinality(Booked(thread[p].run, rows)) = DraftsBefore(thread[p])
  BY <1>2, <1>3, ThreadStands DEF ThreadBooked, InScope
<1>5. /\ examined.pc = "examine" /\ examined.run = thread[p].run /\ examined.draft = thread[p].draft
  BY <1>3 DEF Thread
<1>6. ASSUME NEW table, table[thread[p].run] = "IN_PROGRESS" PROVE ThreadBooked(Blocked(p), table)
  BY <1>6, BlockedIsAccounted
<1>7. ASSUME NEW table, table[thread[p].run] = "IN_PROGRESS",
             Cardinality(Booked(thread[p].run, table)) = DraftsBefore(thread[p])
      PROVE  ThreadBooked(AfterFailure(p), table)
  <2> DEFINE again == [thread[p] EXCEPT !.pc = "generate", !.tries = @ + 1]
  <2>1. again.pc = "generate" /\ again.run = thread[p].run /\ again.draft = thread[p].draft
    BY <1>3 DEF Thread
  <2>2. ThreadBooked(again, table)
    BY <1>7, <2>1 DEF ThreadBooked, InScope, DraftsBefore
  <2> HIDE DEF again
  <2>3. AfterFailure(p) = again \/ AfterFailure(p) = Blocked(p)
    BY DEF AfterFailure, again
  <2> QED
    BY <1>6, <1>7, <2>2, <2>3
<1>8. ASSUME SettleCall(c)
      PROVE  /\ \A x \in Requests : x # thread[p].run => Untouched(x)
             /\ rows'[thread[p].run] = "IN_PROGRESS"
             /\ Cardinality(Booked(thread[p].run, rows')) =
                   IF provider[c] = "ANSWERED" THEN DraftsBefore(thread[p]) + 1
                                               ELSE DraftsBefore(thread[p])
  <2>1. \E s : Complete(c, s)
    BY <1>8 DEF SettleCall
  <2>2. /\ \A x \in Requests : x # thread[p].run => Untouched(x)
        /\ rows'[thread[p].run] = "IN_PROGRESS"
    BY <1>3, <1>4, <2>1, CallTouchesItsRequest, ThreadStands
  <2> QED
    BY <1>3, <1>4, <1>8, <2>2, SettlementBooks, ThreadStands
<1>9. thread[p].pc # "idle"
  BY <1>2
<1> HIDE DEF examined
<1>10. CASE provider[c] = "ANSWERED"
  <2>1. Transaction(p, SettleCall(c), examined, Blocked(p))
    BY <1>1, <1>10 DEF Settle, examined
  <2>2. SettleCall(c) => ThreadBooked(examined, rows') /\ ThreadBooked(Blocked(p), rows')
    BY <1>5, <1>6, <1>8, <1>10 DEF ThreadBooked, InScope, DraftsBefore
  <2> QED
    BY <1>2, <1>4, <1>6, <1>8, <1>9, <2>1, <2>2, TransactionAccounted
<1>11. CASE provider[c] # "ANSWERED"
  <2>1. Transaction(p, SettleCall(c), AfterFailure(p), AfterFailure(p))
    BY <1>1, <1>11 DEF Settle
  <2>2. SettleCall(c) => ThreadBooked(AfterFailure(p), rows')
    BY <1>7, <1>8, <1>11
  <2>3. ThreadBooked(AfterFailure(p), rows)
    BY <1>4, <1>7
  <2> QED
    BY <1>2, <1>8, <1>9, <2>1, <2>2, <2>3, TransactionAccounted
<1> QED
  BY <1>10, <1>11

LEMMA ExamineAccounted ==
    ASSUME RuntimeInv, CoordinatorInv, AccountsInv, NEW p \in Runtimes, Examine(p)
    PROVE  AccountsInv'
<1> DEFINE uncorrected == Ended(p, "leave", "UNCORRECTED")
           second == [thread[p] EXCEPT !.pc = "generate", !.draft = "V2", !.tries = 1]
           verified == Ended(p, "leave", "VERIFIED")
<1>1. /\ thread[p].pc = "examine" /\ thread[p].pc # "idle" /\ UNCHANGED << rows, runs, issued >>
      /\ \/ Goto(p, Blocked(p))
         \/ thread[p].draft = "V1" /\ Goto(p, uncorrected)
         \/ thread[p].draft = "V1" /\ Goto(p, second)
         \/ thread[p].draft = "V2" /\ Goto(p, verified)
  BY DEF Examine, At, guardVars
<1>2. /\ thread[p] \in Thread /\ rows[thread[p].run] = "IN_PROGRESS"
      /\ Cardinality(Booked(thread[p].run, rows)) = DraftsBefore(thread[p]) + 1
  BY <1>1, ThreadStands DEF ThreadBooked, InScope
<1>3. ThreadBooked(Blocked(p), rows)
  BY <1>2, BlockedIsAccounted
<1>4. thread[p].draft = "V1" => ThreadBooked(uncorrected, rows)
  <2>1. uncorrected.pc = "leave" /\ uncorrected.run = thread[p].run /\ uncorrected.result = "UNCORRECTED"
    BY <1>2 DEF Ended, Thread
  <2> QED
    BY <1>2, <2>1 DEF ThreadBooked, InScope, DraftsBefore, AnswersUsed
<1>5. thread[p].draft = "V2" => ThreadBooked(verified, rows)
  <2>1. verified.pc = "leave" /\ verified.run = thread[p].run /\ verified.result = "VERIFIED"
    BY <1>2 DEF Ended, Thread
  <2> QED
    BY <1>2, <2>1 DEF ThreadBooked, InScope, DraftsBefore, AnswersUsed
<1>6. thread[p].draft = "V1" => ThreadBooked(second, rows)
  <2>1. second.pc = "generate" /\ second.run = thread[p].run /\ second.draft = "V2"
    BY <1>2 DEF Thread
  <2> QED
    BY <1>2, <2>1 DEF ThreadBooked, InScope, DraftsBefore
<1> HIDE DEF uncorrected, second, verified
<1> QED
  BY <1>1, <1>3, <1>4, <1>5, <1>6, QuietlyAccounted

\* A result leaves the scope as completed only if its request row says so.
LEMMA LeaveScopeAccounted ==
    ASSUME RuntimeInv, CoordinatorInv, AccountsInv, NEW p \in Runtimes, LeaveScope(p)
    PROVE  AccountsInv'
<1> DEFINE outcome == IF thread[p].result = "BLOCKED" THEN "FAILED_FINAL" ELSE "COMPLETED"
           left == [thread[p] EXCEPT !.pc = "publish"]
           failed == Ended(p, "publish", "BLOCKED")
<1>1. PICK q : q = thread[p].run
  OBVIOUS
<1>2. /\ thread[p].pc = "leave" /\ thread[p].pc # "idle" /\ UNCHANGED << runs, issued >>
      /\ Transaction(p, Complete(q, outcome), left, failed)
  BY <1>1 DEF LeaveScope, At
<1>3. /\ thread[p] \in Thread /\ q \in Requests /\ rows[q] = "IN_PROGRESS"
      /\ \/ thread[p].result = "BLOCKED"
         \/ /\ thread[p].result \in {"VERIFIED", "UNCORRECTED"}
            /\ Cardinality(Booked(q, rows)) = AnswersUsed(thread[p])
  BY <1>1, <1>2, ThreadStands DEF Placed, ThreadBooked, InScope
<1>4. /\ left.pc = "publish" /\ left.run = q /\ left.result = thread[p].result
  BY <1>1, <1>3 DEF Thread
<1>5. ASSUME NEW table PROVE ThreadBooked(failed, table)
  BY BlockedIsAccounted
<1>6. ASSUME Complete(q, outcome)
      PROVE  (\A x \in Requests : x # q => Untouched(x)) /\ ThreadBooked(left, rows')
  <2>1. \A x \in Requests : x # q => Untouched(x)
    BY <1>3, <1>6, RequestTouchesItself, ThreadStands
  <2>2. rows'[q] = outcome
    BY <1>3, <1>6, ThreadStands DEF Complete, GuardTypeOK
  <2>3. Booked(q, rows') = Booked(q, rows)
    BY <1>3, <1>6, RequestEndBooks, ThreadStands
  <2> QED
    BY <1>3, <1>4, <2>1, <2>2, <2>3 DEF ThreadBooked, InScope, AnswersUsed
<1> HIDE DEF outcome, left, failed
<1> QED
  BY <1>1, <1>2, <1>5, <1>6, TransactionAccounted

\* What is published as completed was accounted for when the scope was left.
LEMMA PublishAccounted ==
    ASSUME RuntimeInv, CoordinatorInv, AccountsInv, NEW p \in Runtimes, Publish(p)
    PROVE  AccountsInv'
<1>1. PICK q : q = thread[p].run
  OBVIOUS
<1>2. PICK x : x = [runs[p][q] EXCEPT
                       !.state = IF thread[p].result = "BLOCKED" THEN "BLOCKED" ELSE "COMPLETED",
                       !.answer = thread[p].result = "VERIFIED"]
  OBVIOUS
<1>3. /\ thread[p].pc = "publish" /\ thread[p].pc # "idle" /\ Goto(p, IdleThread)
      /\ runs' = [runs EXCEPT ![p][q] = x] /\ UNCHANGED << rows, issued >>
  BY <1>1, <1>2 DEF Publish, At, guardVars
<1>4. q \in DOMAIN runs[p] /\ runs[p][q] \in Projection
  BY <1>1, <1>3 DEF CoordinatorInv, Coordinated, ThreadHasRun, RunsKnown
<1>5. /\ x.state = IF thread[p].result = "BLOCKED" THEN "BLOCKED" ELSE "COMPLETED"
      /\ x.answer = (thread[p].result = "VERIFIED")
  BY <1>2, <1>4 DEF Projection
<1>6. /\ DOMAIN runs'[p] = DOMAIN runs[p] /\ runs'[p][q] = x
      /\ \A y \in DOMAIN runs[p] \ {q} : runs'[p][y] = runs[p][y]
      /\ \A r \in Runtimes \ {p} : runs'[r] = runs[r]
  BY <1>3, <1>4 DEF CoordinatorInv, CoordinatorTables
<1>7. /\ thread'[p] = IdleThread /\ \A r \in Runtimes \ {p} : thread'[r] = thread[r]
  BY <1>3 DEF Goto, RuntimeInv, ThreadsPlaced
<1>8. \A y \in Requests : y # thread[p].run => Untouched(y)
  BY <1>3 DEF Untouched
<1>9. ProjectionBooked(x, q, rows')
  <2>1. \/ thread[p].result = "BLOCKED"
        \/ /\ thread[p].result \in {"VERIFIED", "UNCORRECTED"}
           /\ Cardinality(Booked(q, rows)) = AnswersUsed(thread[p]) /\ rows[q] = "COMPLETED"
    BY <1>1, <1>3, ThreadStands DEF ThreadBooked
  <2>2. CASE thread[p].result = "BLOCKED"
    BY <1>5, <2>2 DEF ProjectionBooked
  <2>3. CASE thread[p].result # "BLOCKED"
    BY <1>3, <1>5, <2>1, <2>3 DEF ProjectionBooked, AnswersUsed
  <2> QED
    BY <2>2, <2>3
<1>10. ThreadBooked(IdleThread, rows')
  BY DEF ThreadBooked, IdleThread, InScope
<1>11. Accounted(p)'
  BY <1>1, <1>3, <1>6, <1>7, <1>8, <1>9, <1>10, OthersAccounted DEF Accounted
<1> QED
  BY <1>3, <1>6, <1>7, <1>8, <1>11, OthersAccounted DEF AccountsInv

LEMMA TakeRunAccounted ==
    ASSUME RuntimeInv, CoordinatorInv, AccountsInv, NEW p \in Runtimes, TakeRun(p)
    PROVE  AccountsInv'
<1>1. PICK q : q = Head(queue[p])
  OBVIOUS
<1>2. PICK t : t = [IdleThread EXCEPT !.pc = "admit", !.run = q]
  OBVIOUS
<1>3. /\ queue[p] # << >> /\ Goto(p, t) /\ UNCHANGED << rows, issued >>
      /\ runs' = [runs EXCEPT ![p][q].state = "RUNNING"]
  BY <1>1, <1>2 DEF TakeRun, guardVars
<1>4. q = queue[p][1] /\ 1 \in DOMAIN queue[p]
  BY <1>1, <1>3 DEF RuntimeInv, QueuesHoldRequests
<1>5. q \in DOMAIN runs[p] /\ runs[p][q] \in Projection /\ runs[p][q].state = "QUEUED"
  BY <1>4 DEF CoordinatorInv, Coordinated, QueueWaits, RunsKnown
<1>6. /\ DOMAIN runs'[p] = DOMAIN runs[p] /\ runs'[p][q].state = "RUNNING"
      /\ \A y \in DOMAIN runs[p] \ {q} : runs'[p][y] = runs[p][y]
      /\ \A r \in Runtimes \ {p} : runs'[r] = runs[r]
  BY <1>3, <1>5 DEF CoordinatorInv, CoordinatorTables, Projection
<1>7. /\ thread'[p] = t /\ \A r \in Runtimes \ {p} : thread'[r] = thread[r]
  BY <1>3 DEF Goto, RuntimeInv, ThreadsPlaced
<1>8. t.pc = "admit" /\ t.run = q
  BY <1>2 DEF IdleThread
<1>9. Booked(q, rows) = {}
  BY <1>5 DEF AccountsInv, Accounted, ProjectionBooked
<1>10. ThreadBooked(t, rows')
  BY <1>3, <1>8, <1>9 DEF ThreadBooked, InScope
<1>11. Accounted(p)'
  BY <1>3, <1>6, <1>7, <1>10 DEF Accounted, AccountsInv, ProjectionBooked
<1> QED
  BY <1>3, <1>6, <1>7, <1>11 DEF AccountsInv, Accounted, NothingBeforeIssue

\* A fresh run has no rows, for its id was never issued.
LEMMA SubmitAccounted ==
    ASSUME RuntimeInv, CoordinatorInv, AccountsInv, NEW p \in Runtimes,
           NEW s \in Sessions, NEW k \in Keys, Submit(p, s, k)
    PROVE  AccountsInv'
<1>1. PICK q : q = [session |-> s, id |-> issued + 1]
  OBVIOUS
<1> DEFINE new == [key |-> k, state |-> "QUEUED", answer |-> FALSE, aged |-> FALSE]
           kept == DOMAIN KeptRuns(p)
<1>2. /\ issued' = issued + 1 /\ UNCHANGED << rows, thread >>
      /\ runs' = [runs EXCEPT ![p] = [x \in kept \cup {q} |-> IF x = q THEN new ELSE runs[p][x]]]
  BY <1>1 DEF Submit, Accept, guardVars
<1>3. issued \in Nat /\ q.id = issued + 1 /\ \A c \in Calls : c.request.id \in Nat
  BY <1>1, IssuedIsNumber, BoundsAreNumbers DEF Calls, Requests
<1>4. NothingBeforeIssue'
  BY <1>2, <1>3 DEF AccountsInv, NothingBeforeIssue
<1>5. Booked(q, rows) = {}
  BY <1>3 DEF AccountsInv, NothingBeforeIssue, Booked
<1>6. new.state = "QUEUED"
  OBVIOUS
<1> HIDE DEF new, kept
<1>7. /\ DOMAIN runs'[p] = kept \cup {q} /\ runs'[p][q] = new
      /\ \A y \in kept : y # q => runs'[p][y] = runs[p][y]
      /\ kept \subseteq DOMAIN runs[p]
      /\ \A r \in Runtimes \ {p} : runs'[r] = runs[r]
  BY <1>2, PruningKeeps DEF CoordinatorInv, CoordinatorTables, kept
<1>8. Accounted(p)'
  BY <1>2, <1>5, <1>6, <1>7 DEF AccountsInv, Accounted, ProjectionBooked
<1> QED
  BY <1>2, <1>4, <1>7, <1>8 DEF AccountsInv, Accounted

\* Looking, ageing, starting, closing and crashing: no projection changes its
\* state or its answer, and a thread stays or is lost.
LEMMA RestAccounted ==
    ASSUME RuntimeInv, CoordinatorInv, AccountsInv, NEW p \in Runtimes,
           UNCHANGED << rows, issued >>,
           \A r \in Runtimes :
              /\ thread'[r] = thread[r] \/ thread'[r] = IdleThread
              /\ \A q \in DOMAIN runs'[r] :
                    /\ q \in DOMAIN runs[r]
                    /\ runs'[r][q].state = runs[r][q].state
                    /\ runs'[r][q].answer = runs[r][q].answer
    PROVE  AccountsInv'
<1>1. ThreadBooked(IdleThread, rows)
  BY DEF ThreadBooked, IdleThread, InScope
<1>2. ASSUME NEW r \in Runtimes PROVE Accounted(r)'
  <2>1. ThreadBooked(thread'[r], rows)
    BY <1>1 DEF AccountsInv, Accounted
  <2>2. \A q \in DOMAIN runs'[r] : ProjectionBooked(runs'[r][q], q, rows)
    BY DEF AccountsInv, Accounted, ProjectionBooked
  <2> QED
    BY <2>1, <2>2 DEF Accounted
<1> QED
  BY <1>2 DEF AccountsInv, NothingBeforeIssue

LEMMA AccountsStart == RuntimeInit => AccountsInv
<1> SUFFICES ASSUME RuntimeInit PROVE AccountsInv
  OBVIOUS
<1>1. \A c \in Calls : rows[c] = "ABSENT"
  BY DEF RuntimeInit, GuardInit
<1>2. \A p \in Runtimes : thread[p] = IdleThread /\ DOMAIN runs[p] = {}
  BY DEF RuntimeInit, NoRuns
<1> QED
  BY <1>1, <1>2 DEF AccountsInv, NothingBeforeIssue, Accounted, ThreadBooked, IdleThread, InScope

LEMMA AccountsStep ==
    ASSUME RuntimeInv, CoordinatorInv, AccountsInv, [RuntimeNext]_vars
    PROVE  AccountsInv'
<1>1. CASE UNCHANGED vars
  BY <1>1 DEF vars, volatile, guardVars, AccountsInv, NothingBeforeIssue, Accounted
<1>2. ASSUME NEW p \in Runtimes, ThreadStep(p) PROVE AccountsInv'
  BY <1>2, TakeRunAccounted, EnterScopeAccounted, ReserveAttemptAccounted, ProviderAccounted,
     SettleAccounted, ExamineAccounted, LeaveScopeAccounted, PublishAccounted DEF ThreadStep
<1>3. ASSUME NEW p \in Runtimes, Start(p) \/ Close(p) PROVE AccountsInv'
  BY <1>3, RestAccounted DEF Start, Close, guardVars
<1>4. ASSUME NEW p \in Runtimes, Look(p) PROVE AccountsInv'
  <2>1. \A r \in Runtimes : runs'[r] = runs[r] \/ (r = p /\ runs'[r] = KeptRuns(p))
    BY <1>4 DEF Look, CoordinatorInv, CoordinatorTables
  <2>2. UNCHANGED << rows, issued, thread >>
    BY <1>4 DEF Look, guardVars
  <2> QED
    BY <2>1, <2>2, PruningKeeps, RestAccounted
<1>5. ASSUME NEW p \in Runtimes, FinishClose(p) \/ Crash(p) PROVE AccountsInv'
  <2>1. \A r \in Runtimes : runs'[r] = runs[r] \/ runs'[r] = NoRuns
    BY <1>5 DEF FinishClose, Crash, CoordinatorInv, CoordinatorTables
  <2>2. UNCHANGED << rows, issued >> /\ \A r \in Runtimes : thread'[r] = thread[r] \/ thread'[r] = IdleThread
    BY <1>5 DEF FinishClose, Crash, Goto, guardVars, RuntimeInv, ThreadsPlaced
  <2>3. DOMAIN NoRuns = {}
    BY DEF NoRuns
  <2> QED
    BY <2>1, <2>2, <2>3, RestAccounted
<1>6. ASSUME NEW p \in Runtimes, NEW s \in Sessions, NEW k \in Keys, Submit(p, s, k) PROVE AccountsInv'
  BY <1>6, SubmitAccounted
<1>7. ASSUME NEW p \in Runtimes, NEW q \in DOMAIN runs[p], Age(p, q) PROVE AccountsInv'
  <2>1. UNCHANGED << rows, issued, thread >> /\ runs' = [runs EXCEPT ![p][q].aged = TRUE]
    BY <1>7 DEF Age, guardVars
  <2>2. runs[p][q] \in Projection /\ runs'[p] = [runs[p] EXCEPT ![q].aged = TRUE]
        /\ \A r \in Runtimes \ {p} : runs'[r] = runs[r]
    BY <2>1 DEF CoordinatorInv, CoordinatorTables, Coordinated, RunsKnown
  <2>3. \A x \in DOMAIN runs[p] : runs'[p][x].state = runs[p][x].state /\ runs'[p][x].answer = runs[p][x].answer
    BY <2>2 DEF Projection
  <2> QED
    BY <2>1, <2>2, <2>3, RestAccounted
<1> QED
  BY <1>1, <1>2, <1>3, <1>4, <1>5, <1>6, <1>7 DEF RuntimeNext

LEMMA AccountsInvariant == RuntimeSpec => []AccountsInv
<1>1. RuntimeInv /\ CoordinatorInv /\ AccountsInv /\ [RuntimeNext]_vars => AccountsInv'
  BY AccountsStep
<1> QED
  BY <1>1, AccountsStart, RuntimeInvariant, CoordinatorInvariant, PTL DEF RuntimeSpec

(* A run that is shown as completed is paid for and booked, one answered     *)
(* call for each draft it used, whatever failed, stopped or was repeated on  *)
(* the way (_execute, generate, request_scope).                              *)
THEOREM RuntimeAnswersAreAccounted == RuntimeSpec => []AnswersAreAccounted
<1>1. AccountsInv => AnswersAreAccounted
  <2>1. \A q : {c \in OfRequest(q) : rows[c] = "COMPLETED"} = Booked(q, rows)
    BY DEF OfRequest, Reserved, Booked
  <2> QED
    BY <2>1 DEF AccountsInv, Accounted, ProjectionBooked, AnswersAreAccounted
<1> QED
  BY <1>1, AccountsInvariant, PTL

=============================================================================
