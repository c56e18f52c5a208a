----------------------------- MODULE JuryRuntime -----------------------------
(* The demo runtime above the provider ceiling: BoundedJuryRunCoordinator,   *)
(* which keeps the runs that owners submit and executes them on a pool of    *)
(* one thread, LiveMemoryPatchJuryFlow, which takes a run through two        *)
(* drafts, and the retries of DraftV1Service and DraftV2Service.             *)
(*                                                                           *)
(* Coordinator, queue and pool live in the memory of a process; several      *)
(* processes may overlap, as in a restart, and share the ledger and the      *)
(* provider of ProviderGuard.  A process may stop between any two steps.  A  *)
(* ledger transaction may fail, or commit and lose its answer.               *)
(*                                                                           *)
(* The pool has one thread, so the permit and the queue of the guard never   *)
(* block; its rate window is a refusal that may come at any admission.       *)
EXTENDS ProviderGuard, Sequences

CONSTANTS Runtimes,     \* processes of the web application
          Keys,         \* idempotency keys of the owners
          NoRun,        \* no run
          Capacity,     \* maximum_runs of the coordinator
          MaxTries,     \* attempt policy: provider attempts per draft
          MaxFaults,    \* bound on failed ledger transactions
          MaxStops      \* bound on crashes and shutdowns

ASSUME RuntimeAssumption ==
    /\ Capacity \in Nat \ {0} /\ MaxTries \in Nat \ {0}
    /\ MaxFaults \in Nat /\ MaxStops \in Nat
    /\ 2 * MaxTries <= MaxAttempt
    /\ NoRun \notin Requests

VARIABLES process,   \* process[p]: UP, CLOSING or DOWN
          runs,      \* runs[p]: the retained runs and their projections
          index,     \* index[p]: the run of each session and key
          queue,     \* queue[p]: submitted runs the thread has not taken
          thread,    \* thread[p]: where the pool thread is
          issued,    \* run ids handed out, each of them fresh
          faults, stops

volatile == << process, runs, index, queue, thread >>
vars == << guardVars, volatile, issued, faults, stops >>

-----------------------------------------------------------------------------
(* Projections and the pool thread.                                          *)

JuryRunState == {"QUEUED", "RUNNING", "COMPLETED", "BLOCKED"}
Terminal == {"COMPLETED", "BLOCKED"}

\* answer: verified_answer is set; aged: the run was last updated a TTL ago.
Projection == [key : Keys, state : JuryRunState, answer : BOOLEAN,
               aged : BOOLEAN]

Results == {"NONE", "VERIFIED", "UNCORRECTED", "BLOCKED"}

Thread == [pc : {"idle", "admit", "generate", "ask", "wait",
                 "settle", "examine", "leave", "publish"},
           run : Requests \cup {NoRun}, draft : {"V1", "V2"},
           tries : 0..MaxTries,       \* attempts of this draft
           attempts : 0..MaxAttempt,  \* attempt_count of the request scope
           retryable : BOOLEAN, result : Results]

IdleThread == [pc |-> "idle", run |-> NoRun, draft |-> "V1", tries |-> 0,
               attempts |-> 0, retryable |-> FALSE, result |-> "NONE"]

NoRuns == [q \in {} |-> {}]
EmptyIndex == [slot \in Sessions \X Keys |-> NoRun]

Slot(p, q) == << q.session, runs[p][q].key >>
CurrentCall(p) == [request |-> thread[p].run, attempt |-> thread[p].attempts]

RuntimeInit == /\ GuardInit
               /\ process = [p \in Runtimes |-> "DOWN"]
               /\ runs = [p \in Runtimes |-> NoRuns]
               /\ index = [p \in Runtimes |-> EmptyIndex]
               /\ queue = [p \in Runtimes |-> << >>]
               /\ thread = [p \in Runtimes |-> IdleThread]
               /\ issued = 0 /\ faults = 0 /\ stops = 0

Goto(p, t) == thread' = [thread EXCEPT ![p] = t]

\* One ledger transaction of process p: it commits and says so, or it fails
\* with the caller in the dark on whether it committed.
Transaction(p, commit, acknowledged, failed) ==
    \/ commit /\ Goto(p, acknowledged) /\ UNCHANGED faults
    \/ /\ faults < MaxFaults /\ faults' = faults + 1
       /\ Goto(p, failed)
       /\ commit \/ UNCHANGED guardVars

-----------------------------------------------------------------------------
(* The coordinator: submit, get, close, and the life of a process.           *)

\* _prune: the runs that stay and the index without the others.
Expired(p) == {q \in DOMAIN runs[p] : runs[p][q].aged}
KeptRuns(p) == [q \in DOMAIN runs[p] \ Expired(p) |-> runs[p][q]]
MutantKeptIndex(p) ==                 \* the key of a pruned run stays
  index[p]
KeptIndex(p) == [slot \in Sessions \X Keys |->
                    IF index[p][slot] \in Expired(p) THEN NoRun ELSE index[p][slot]]

Start(p) == /\ process[p] = "DOWN"
            /\ process' = [process EXCEPT ![p] = "UP"]
            /\ UNCHANGED << guardVars, runs, index, queue, thread, issued, faults, stops >>

\* A new key gets a fresh run while there is room for it; a known key gets
\* the projection it has.
Accept(p, s, k) ==
    LET q == [session |-> s, id |-> issued + 1]
        new == [key |-> k, state |-> "QUEUED", answer |-> FALSE,
                aged |-> FALSE]
    IN /\ KeptIndex(p)[<< s, k >>] = NoRun
       /\ Cardinality(DOMAIN KeptRuns(p)) < Capacity
       /\ issued < MaxRuns /\ issued' = issued + 1
       /\ runs' = [runs EXCEPT ![p] =
             [x \in DOMAIN KeptRuns(p) \cup {q} |->
                 IF x = q THEN new ELSE runs[p][x]]]
       /\ index' = [index EXCEPT ![p] = [KeptIndex(p) EXCEPT ![<< s, k >>] = q]]
       /\ queue' = [queue EXCEPT ![p] = Append(@, q)]

Submit(p, s, k) == /\ process[p] = "UP"
                   /\ Accept(p, s, k)
                   /\ UNCHANGED << guardVars, process, thread, faults, stops >>

\* get, and a submit that is answered from the index or refused.
Look(p) == /\ process[p] = "UP"
           /\ Expired(p) # {}
           /\ runs' = [runs EXCEPT ![p] = KeptRuns(p)]
           /\ index' = [index EXCEPT ![p] = KeptIndex(p)]
           /\ UNCHANGED << guardVars, process, queue, thread, issued, faults, stops >>

\* ttl_seconds pass for a run that has ended.
Age(p, q) == /\ runs[p][q].state \in Terminal
             /\ ~runs[p][q].aged
             /\ runs' = [runs EXCEPT ![p][q].aged = TRUE]
             /\ UNCHANGED << guardVars, process, index, queue, thread, issued, faults, stops >>

\* close refuses new work, cancels what is queued, and waits for the thread.
Close(p) == /\ process[p] = "UP"
            /\ stops < MaxStops /\ stops' = stops + 1
            /\ process' = [process EXCEPT ![p] = "CLOSING"]
            /\ queue' = [queue EXCEPT ![p] = << >>]
            /\ UNCHANGED << guardVars, runs, index, thread, issued, faults >>

FinishClose(p) == /\ process[p] = "CLOSING"
                  /\ thread[p].pc = "idle"
                  /\ process' = [process EXCEPT ![p] = "DOWN"]
                  /\ runs' = [runs EXCEPT ![p] = NoRuns]
                  /\ index' = [index EXCEPT ![p] = EmptyIndex]
                  /\ UNCHANGED << guardVars, queue, thread, issued, faults, stops >>

Crash(p) == /\ process[p] # "DOWN"
            /\ stops < MaxStops /\ stops' = stops + 1
            /\ process' = [process EXCEPT ![p] = "DOWN"]
            /\ runs' = [runs EXCEPT ![p] = NoRuns]
            /\ index' = [index EXCEPT ![p] = EmptyIndex]
            /\ queue' = [queue EXCEPT ![p] = << >>]
            /\ Goto(p, IdleThread)
            /\ UNCHANGED << guardVars, issued, faults >>

-----------------------------------------------------------------------------
(* The pool thread takes one run through _execute and the jury flow.         *)

At(p, pc) == process[p] # "DOWN" /\ thread[p].pc = pc

\* A result is settled: leave the request scope, or publish from outside it.
Ended(p, pc, result) == [thread[p] EXCEPT !.pc = pc, !.result = result]
Blocked(p) == Ended(p, "leave", "BLOCKED")

\* _execute: a run that is taken after close has begun is dropped.
TakeRun(p) == /\ process[p] = "UP" /\ thread[p].pc = "idle" /\ queue[p] # << >>
              /\ queue' = [queue EXCEPT ![p] = Tail(@)]
              /\ runs' = [runs EXCEPT ![p][Head(queue[p])].state = "RUNNING"]
              /\ Goto(p, [IdleThread EXCEPT !.pc = "admit", !.run = Head(queue[p])])
              /\ UNCHANGED << guardVars, process, index, issued, faults, stops >>

\* Before any provider is asked: retrieval, temporal resolution or policy may
\* stop the run, the rate window or the durable limits of request_scope may
\* refuse it, and the reservation may go wrong.  Nothing is charged by then.
EnterScope(p) ==
    LET q == thread[p].run
        refused == Ended(p, "publish", "BLOCKED")
    IN /\ At(p, "admit")
       /\ \/ Goto(p, refused) /\ UNCHANGED << guardVars, faults >>
          \/ Transaction(p, ReserveRequest(q),
                         [thread[p] EXCEPT !.pc = "generate", !.tries = 1], refused)
       /\ UNCHANGED << process, runs, index, queue, issued, stops >>

\* generate counts the attempt, then reserves it or gives the request up.
ReserveAttempt(p) ==
    LET n == thread[p].attempts + 1
        c == [request |-> thread[p].run, attempt |-> n]
        refused == [Blocked(p) EXCEPT !.attempts = n]
    IN /\ At(p, "generate")
       /\ IF n <= CallLimits.request /\ CallAdmitted(c)
          THEN Transaction(p, ReserveCall(c),
                           [thread[p] EXCEPT !.pc = "ask", !.attempts = n], refused)
          ELSE Goto(p, refused) /\ UNCHANGED << guardVars, faults >>
       /\ UNCHANGED << process, runs, index, queue, issued, stops >>

Ask(p) == /\ At(p, "ask")
          /\ AskProvider(CurrentCall(p))
          /\ Goto(p, [thread[p] EXCEPT !.pc = "wait"])
          /\ UNCHANGED << process, runs, index, queue, issued, faults, stops >>

\* Empty answers, timeouts and 5xx are retryable; refusals, malformed answers
\* and broken connections are not.
ProviderReturns(p) ==
    /\ At(p, "wait")
    /\ \E v \in {"ANSWERED", "REFUSED", "UNKNOWN"}, again \in BOOLEAN :
          /\ v = "ANSWERED" => ~again
          /\ ProviderEnds(CurrentCall(p), v)
          /\ Goto(p, [thread[p] EXCEPT !.pc = "settle", !.retryable = again])
    /\ UNCHANGED << process, runs, index, queue, issued, faults, stops >>

\* After a failed attempt the draft services try again while they may.
AfterFailure(p) ==
    IF thread[p].retryable /\ thread[p].tries < MaxTries
    THEN [thread[p] EXCEPT !.pc = "generate", !.tries = @ + 1]
    ELSE Blocked(p)

MutantSettle(p) ==                    \* a failed settlement is ignored
  LET next == IF provider[CurrentCall(p)] = "ANSWERED"
              THEN [thread[p] EXCEPT !.pc = "examine"] ELSE AfterFailure(p)
  IN /\ At(p, "settle")
     /\ Transaction(p, SettleCall(CurrentCall(p)), next, next)
     /\ UNCHANGED << process, runs, index, queue, issued, stops >>

\* An answer whose settlement is not confirmed is withheld; a failure is
\* reported whether or not its settlement is.
Settle(p) ==
    LET answered == provider[CurrentCall(p)] = "ANSWERED"
    IN /\ At(p, "settle")
       /\ Transaction(p, SettleCall(CurrentCall(p)),
             IF answered THEN [thread[p] EXCEPT !.pc = "examine"] ELSE AfterFailure(p),
             IF answered THEN Blocked(p) ELSE AfterFailure(p))
       /\ UNCHANGED << process, runs, index, queue, issued, stops >>

\* The first draft needs no correction, or calls for a second one; the
\* second is verified and finalized, or not.
Examine(p) ==
    /\ At(p, "examine")
    /\ \/ Goto(p, Blocked(p))
       \/ /\ thread[p].draft = "V1"
          /\ \/ Goto(p, Ended(p, "leave", "UNCORRECTED"))
             \/ Goto(p, [thread[p] EXCEPT !.pc = "generate", !.draft = "V2", !.tries = 1])
       \/ /\ thread[p].draft = "V2"
          /\ Goto(p, Ended(p, "leave", "VERIFIED"))
    /\ UNCHANGED << guardVars, process, runs, index, queue, issued, faults, stops >>

MutantLeaveScope(p) ==                \* its error escapes from _execute
  LET outcome == IF thread[p].result = "BLOCKED" THEN "FAILED_FINAL" ELSE "COMPLETED"
  IN /\ At(p, "leave")
     /\ Transaction(p, Complete(thread[p].run, outcome),
                    [thread[p] EXCEPT !.pc = "publish"], IdleThread)
     /\ UNCHANGED << process, runs, index, queue, issued, stops >>

\* The end of request_scope: a result whose request row cannot be settled
\* turns into a failure.
LeaveScope(p) ==
    LET outcome == IF thread[p].result = "BLOCKED" THEN "FAILED_FINAL" ELSE "COMPLETED"
    IN /\ At(p, "leave")
       /\ Transaction(p, Complete(thread[p].run, outcome),
                      [thread[p] EXCEPT !.pc = "publish"], Ended(p, "publish", "BLOCKED"))
       /\ UNCHANGED << process, runs, index, queue, issued, stops >>

Publish(p) ==
    LET state == IF thread[p].result = "BLOCKED" THEN "BLOCKED" ELSE "COMPLETED"
    IN /\ At(p, "publish")
       /\ runs' = [runs EXCEPT ![p][thread[p].run] =
             [@ EXCEPT !.state = state, !.answer = thread[p].result = "VERIFIED"]]
       /\ Goto(p, IdleThread)
       /\ UNCHANGED << guardVars, process, index, queue, issued, faults, stops >>

-----------------------------------------------------------------------------

ThreadStep(p) == \/ TakeRun(p) \/ EnterScope(p)
                 \/ ReserveAttempt(p) \/ Ask(p) \/ ProviderReturns(p)
                 \/ Settle(p) \/ Examine(p) \/ LeaveScope(p) \/ Publish(p)

RuntimeNext ==
    \E p \in Runtimes :
       \/ Start(p) \/ Look(p) \/ Close(p) \/ FinishClose(p) \/ Crash(p)
       \/ \E s \in Sessions, k \in Keys : Submit(p, s, k)
       \/ \E q \in DOMAIN runs[p] : Age(p, q)
       \/ ThreadStep(p)

RuntimeSpec == RuntimeInit /\ [][RuntimeNext]_vars

\* The provider is called with a timeout and the database with one, so the
\* thread goes on; close returns when the thread is done.
Fairness == \A p \in Runtimes : WF_vars(ThreadStep(p)) /\ WF_vars(FinishClose(p))

FairSpec == RuntimeSpec /\ Fairness

-----------------------------------------------------------------------------

(* The guard's state and the coordinator's have their types, and a run that  *)
(* the thread works on is one its process retains.  Duplicate submissions    *)
(* find one run: each retained run is the one its session and key lead to,   *)
(* and no key leads to a run that was pruned.                                *)
RuntimeTypeOK ==
    /\ GuardTypeOK
    /\ process \in [Runtimes -> {"UP", "CLOSING", "DOWN"}]
    /\ \A p \in Runtimes :
          /\ DOMAIN runs[p] \subseteq Requests
          /\ \A q \in DOMAIN runs[p] : runs[p][q] \in Projection
          /\ thread[p] \in Thread
          /\ thread[p].pc # "idle" => thread[p].run \in DOMAIN runs[p]
    /\ index \in [Runtimes -> [Sessions \X Keys -> Requests \cup {NoRun}]]
    /\ issued \in 0..MaxRuns

IndexMatchesRuns ==
    \A p \in Runtimes :
        /\ \A q \in DOMAIN runs[p] : index[p][Slot(p, q)] = q
        /\ \A slot \in Sessions \X Keys :
              LET q == index[p][slot]
              IN q # NoRun => q \in DOMAIN runs[p] /\ Slot(p, q) = slot
        /\ Cardinality(DOMAIN runs[p]) <= Capacity

CoordinatorIsConsistent == RuntimeTypeOK /\ IndexMatchesRuns

(* A run that is shown as completed is paid for and booked: its request is   *)
(* settled, and so is one answered call for each draft it used.              *)
AnswersAreAccounted ==
    \A p \in Runtimes : \A q \in DOMAIN runs[p] :
        runs[p][q].state = "COMPLETED" =>
            /\ rows[q] = "COMPLETED"
            /\ Cardinality({c \in OfRequest(q) : rows[c] = "COMPLETED"})
                  = IF runs[p][q].answer THEN 2 ELSE 1

(* Every submitted run ends or goes with its process, and every close        *)
(* returns: again and again no process has a run or a close left to finish.  *)
Unfinished(p) == {q \in DOMAIN runs[p] : runs[p][q].state \notin Terminal}
RunsEnd == []<>(\A p \in Runtimes : process[p] # "CLOSING" /\ Unfinished(p) = {})
=============================================================================
