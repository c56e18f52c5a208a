---------------------------- MODULE ProviderGuard ----------------------------
(* The durable call-count ceiling of the demo runtime:                       *)
(* CockroachProviderGuardLedger over memory_patch.persistence_operations,    *)
(* and the provider behind it.                                               *)
(*                                                                           *)
(* Every ledger method is one serializable transaction and an action here.   *)
(* A reservation is a pair of rows, GLOBAL and OWNER, that are inserted and  *)
(* updated together and share their status, so one entry stands for both.    *)
(* This module lets any client call any method at any time; JuryRuntime is   *)
(* the client the program has.                                               *)
EXTENDS Integers, FiniteSets

CONSTANTS Owners,            \* owners of the one authorised tenant
          Sessions,          \* session digests
          OwnerOf,           \* the owner each session belongs to
          MaxRuns,           \* bound: request ids are 1..MaxRuns
          MaxAttempt,        \* bound: attempt numbers are 1..MaxAttempt
          RequestLimits,     \* maximum requests: total, owner, session
          CallLimits         \* maximum calls: total, owner, session, request

ASSUME GuardAssumption ==
    /\ OwnerOf \in [Sessions -> Owners]
    /\ MaxRuns \in Nat /\ MaxAttempt \in Nat
    /\ RequestLimits \in [total : Nat, owner : Nat, session : Nat]
    /\ CallLimits \in [total : Nat, owner : Nat, session : Nat, request : Nat]

VARIABLES rows,      \* rows[r]: status of the rows of reservation r
          provider   \* provider[c]: what became of call c at the provider

guardVars == << rows, provider >>

-----------------------------------------------------------------------------
(* A request digest covers the session and the request id; the identity of   *)
(* a call covers the request digest and the attempt number.                  *)

Requests == [session : Sessions, id : 1..MaxRuns]
Calls    == [request : Requests, attempt : 1..MaxAttempt]

Status == {"ABSENT", "IN_PROGRESS", "COMPLETED", "INTERRUPTED", "FAILED_FINAL"}

\* A provider is not asked, is working, and then it answered, refused for
\* certain, or did something nobody will know (a timeout, a reset, a 5xx).
Verdict == {"NOT_ASKED", "OPEN", "ANSWERED", "REFUSED", "UNKNOWN"}

Reserved(kind) == {r \in kind : rows[r] # "ABSENT"}

SessionOf(r) == IF r \in Requests THEN r.session ELSE r.request.session

OfSession(kind, s) == {r \in Reserved(kind) : SessionOf(r) = s}
OfOwner(kind, o)   == {r \in Reserved(kind) : OwnerOf[SessionOf(r)] = o}
OfRequest(q)       == {c \in Reserved(Calls) : c.request = q}

MutantBelowLimits(kind, limits, s) ==  \* settled rows are not counted
  LET open == {r \in Reserved(kind) : rows[r] = "IN_PROGRESS"}
  IN Cardinality(open) < limits.total

\* The counts of _reserve take every row of the epoch, whatever its status.
BelowLimits(kind, limits, s) ==
    /\ Cardinality(Reserved(kind)) < limits.total
    /\ Cardinality(OfOwner(kind, OwnerOf[s])) < limits.owner
    /\ Cardinality(OfSession(kind, s)) < limits.session

RequestAdmitted(q) == /\ rows[q] = "ABSENT"
                      /\ BelowLimits(Requests, RequestLimits, q.session)

CallAdmitted(c) == /\ rows[c] = "ABSENT"
                   /\ BelowLimits(Calls, CallLimits, c.request.session)
                   /\ Cardinality(OfRequest(c.request)) < CallLimits.request

-----------------------------------------------------------------------------
(* The methods of the ledger and the two moments of a provider call.         *)

GuardInit == /\ rows = [r \in Requests \cup Calls |-> "ABSENT"]
             /\ provider = [c \in Calls |-> "NOT_ASKED"]

Insert(r) == rows' = [rows EXCEPT ![r] = "IN_PROGRESS"]

ReserveRequest(q) == RequestAdmitted(q) /\ Insert(q) /\ UNCHANGED provider
ReserveCall(c)    == CallAdmitted(c) /\ Insert(c) /\ UNCHANGED provider

\* complete: the UPDATE is restricted to rows that are still IN_PROGRESS.
Complete(r, status) ==
    /\ rows' = [rows EXCEPT ![r] = IF @ = "IN_PROGRESS" THEN status ELSE @]
    /\ UNCHANGED provider

\* GuardedProviderAdapter.generate asks only after its reservation.
AskProvider(c) == /\ rows[c] = "IN_PROGRESS"
                  /\ provider[c] = "NOT_ASKED"
                  /\ provider' = [provider EXCEPT ![c] = "OPEN"]
                  /\ UNCHANGED rows

ProviderEnds(c, v) == /\ provider[c] = "OPEN"
                      /\ provider' = [provider EXCEPT ![c] = v]
                      /\ UNCHANGED rows

MutantSettlement(v) ==                \* unknown_completion is dropped
  IF v = "ANSWERED" THEN "COMPLETED" ELSE "FAILED_FINAL"

\* The status with which generate closes the books on a call.
Settlement(v) == CASE v = "ANSWERED" -> "COMPLETED"
                   [] v = "REFUSED"  -> "FAILED_FINAL"
                   [] v = "UNKNOWN"  -> "INTERRUPTED"

SettleCall(c) == /\ provider[c] \in {"ANSWERED", "REFUSED", "UNKNOWN"}
                 /\ Complete(c, Settlement(provider[c]))

SettleRequest(q) == /\ rows[q] # "ABSENT"
                    /\ \E s \in {"COMPLETED", "FAILED_FINAL"} : Complete(q, s)

GuardNext ==
    \/ \E q \in Requests : ReserveRequest(q) \/ SettleRequest(q)
    \/ \E c \in Calls :
          \/ ReserveCall(c) \/ AskProvider(c) \/ SettleCall(c)
          \/ \E v \in {"ANSWERED", "REFUSED", "UNKNOWN"} : ProviderEnds(c, v)

GuardSpec == GuardInit /\ [][GuardNext]_guardVars

-----------------------------------------------------------------------------

(* Each reservation and each call is in a known state. *)
GuardTypeOK == /\ rows \in [Requests \cup Calls -> Status]
               /\ provider \in [Calls -> Verdict]

(* "Unknown completion remains charged conservatively and is never           *)
(* refunded": across lost answers, crashes and restarts, a call is made at   *)
(* most once, only when charged, and the epoch never exceeds its ceiling.    *)
Budget == INSTANCE CallBudget
            WITH Ceiling <- CallLimits.total,
                 charged <- Reserved(Calls),
                 made    <- {c \in Calls : provider[c] # "NOT_ASKED"}
ImplementsBudget == Budget!BudgetSpec

(* The tighter limits hold for each owner, session and request as well, for  *)
(* requests as for calls, whoever reserves at the same time; and a settled   *)
(* row tells what the provider did: no retry, late completion or restart     *)
(* books one attempt as another, or an unknown outcome as a certain one.     *)
Within(kind, limits) ==
    /\ Cardinality(Reserved(kind)) <= limits.total
    /\ \A o \in Owners : Cardinality(OfOwner(kind, o)) <= limits.owner
    /\ \A s \in Sessions : Cardinality(OfSession(kind, s)) <= limits.session

CeilingsHold ==
    /\ Within(Requests, RequestLimits)
    /\ Within(Calls, CallLimits)
    /\ \A q \in Requests : Cardinality(OfRequest(q)) <= CallLimits.request

BooksMatchProvider ==
    \A c \in Calls :
        /\ provider[c] # "NOT_ASKED" => rows[c] # "ABSENT"
        /\ rows[c] = "COMPLETED" => provider[c] = "ANSWERED"
        /\ rows[c] = "FAILED_FINAL" => provider[c] = "REFUSED"
        /\ rows[c] = "INTERRUPTED" => provider[c] = "UNKNOWN"

LedgerIsTrue == CeilingsHold /\ BooksMatchProvider
=============================================================================
