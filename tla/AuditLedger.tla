---------------------------- MODULE AuditLedger ----------------------------
(* The Step 33 audit ledger: AuditLedgerService.append_event, the repository *)
(* under it and the triggers and unique indexes of migration 0016, called by *)
(* several appenders at once.                                                *)
(*                                                                           *)
(* One action per SQL statement that reads or locks; every statement sees    *)
(* the rows committed so far, which allows every behaviour of a SERIALIZABLE *)
(* transaction and more, so nothing below leans on the isolation level.  A   *)
(* statement may also fail with SQLSTATE 40001, after which                  *)
(* SerializableTransactionRunner.run starts the callback again.              *)
(*                                                                           *)
(* SHA-256 is modelled by what it is relied on for: the hash of an event     *)
(* binds its draft and the hash before it.  An event hash is therefore the   *)
(* sequence of the drafts from genesis to the event.                         *)
EXTENDS Integers, Sequences, FiniteSets

CONSTANTS Chains,       \* chain ids: one for each (tenant, owner)
          Keys,         \* idempotency keys
          Bodies,       \* everything else a draft binds
          Appenders,    \* concurrent calls of append_event
          NoOne,        \* no holder of a row lock
          MaxTime,      \* bound on recorded_at
          MaxAttempts   \* RetryPolicy.max_attempts

ASSUME LedgerAssumption == /\ MaxTime \in Nat
                           /\ MaxAttempts \in Nat \ {0}
                           /\ NoOne \notin Appenders

VARIABLES events,    \* audit_events: the committed rows
          heads,     \* audit_chain_heads: the committed row of each chain
          locks,     \* who holds FOR UPDATE on a chain's head row
          calls,     \* calls[a]: where the call of appender a stands
          receipts   \* the entries that callers were handed

ledgerVars == << events, heads, locks, calls, receipts >>

-----------------------------------------------------------------------------
(* Drafts, events, entries and heads.                                        *)

Times == 0 .. MaxTime

AuditEventDraft ==
  [chain : Chains, key : Keys, body : Bodies, recorded_at : Times]

Hash == Seq(AuditEventDraft)
STEP33_GENESIS_SENTINEL == << >>
EventHash(previous, d) == Append(previous, d)

AuditLedgerEntry ==
  [draft : AuditEventDraft, sequence_number : Nat \ {0},
   previous_event_hash : Hash, event_hash : Hash, payload : Bodies]

BuildEntry(d, n, previous) ==
  [draft |-> d, sequence_number |-> n, previous_event_hash |-> previous,
   event_hash |-> EventHash(previous, d), payload |-> d.body]

AuditChainHead == [last_sequence : Nat, last_event_hash : Hash,
                   head_version : Nat, updated_at : Times \cup {-1}]

\* No row yet.
NoHead == [last_sequence |-> 0, last_event_hash |-> STEP33_GENESIS_SENTINEL,
           head_version |-> 0, updated_at |-> -1]

\* The row that lock_chain_head inserts when the chain has none.
GenesisHead(d) == [NoHead EXCEPT !.updated_at = d.recorded_at]

\* The head row as lock_chain_head finds or makes it.
LockedHead(d) ==
  IF heads[d.chain] = NoHead THEN GenesisHead(d) ELSE heads[d.chain]

AdvancedHead(h, e) ==
  [last_sequence |-> e.sequence_number, last_event_hash |-> e.event_hash,
   head_version |-> h.head_version + 1, updated_at |-> e.draft.recorded_at]

RowsOf(c) == {e \in events : e.draft.chain = c}
MutantRowsWithKey(c, k) ==            \* only the newest row is looked at
  {e \in RowsOf(c) : e.draft.key = k /\ e.sequence_number = heads[c].last_sequence}
RowsWithKey(c, k) == {e \in RowsOf(c) : e.draft.key = k}

\* What the callback ended with.  The runner hands every error of it to the
\* caller as a PersistenceTransactionError.
Results == {"NONE", "APPENDED", "REPLAYED", "AUDIT_EVENT_REPLAY_CONFLICT",
            "STEP33_AUDIT_APPEND_CONFLICT", "STEP33_AUDIT_HEAD_CONFLICT",
            "SQLSTATE_23514", "RETRY_EXHAUSTED", "UNKNOWN"}

Call == [pc : {"idle", "get_replay", "lock", "recheck", "append"},
         draft : AuditEventDraft, attempt : 1 .. MaxAttempts,
         head : AuditChainHead, result : Results]

LedgerInit ==
  /\ events = {}
  /\ heads = [c \in Chains |-> NoHead]
  /\ locks = [c \in Chains |-> NoOne]
  /\ \E d \in AuditEventDraft :
       calls = [a \in Appenders |->
         [pc |-> "idle", draft |-> d, attempt |-> 1, head |-> NoHead,
          result |-> "NONE"]]
  /\ receipts = {}

-----------------------------------------------------------------------------
(* The transaction runner.                                                   *)

Holds(a) == locks[calls[a].draft.chain] = a

MutantUnlocked(a) ==                  \* an early return keeps the lock
  IF Holds(a) /\ calls[a].pc = "append"
  THEN [locks EXCEPT ![calls[a].draft.chain] = NoOne] ELSE locks

Unlocked(a) ==
  IF Holds(a) THEN [locks EXCEPT ![calls[a].draft.chain] = NoOne] ELSE locks

\* The transaction is over and the caller has `result`.
Return(a, result) ==
  /\ calls' = [calls EXCEPT ![a].pc = "idle", ![a].result = result]
  /\ locks' = Unlocked(a)

Goto(a, pc) == calls' = [calls EXCEPT ![a].pc = pc]

\* SQLSTATE 40001: roll back and run the whole callback again, a bounded
\* number of times.
SerializationFailure(a) ==
  /\ calls[a].pc # "idle"
  /\ IF calls[a].attempt < MaxAttempts
     THEN /\ calls' = [calls EXCEPT ![a].pc = "get_replay",
                                    ![a].attempt = @ + 1]
          /\ locks' = Unlocked(a)
     ELSE Return(a, "RETRY_EXHAUSTED")
  /\ UNCHANGED << events, heads, receipts >>

\* The connection or the process is lost before the commit.
ConnectionLost(a) ==
  /\ calls[a].pc # "idle"
  /\ Return(a, "UNKNOWN")
  /\ UNCHANGED << events, heads, receipts >>

-----------------------------------------------------------------------------
(* append_event.                                                             *)

AppendEvent(a, d) ==
  /\ calls[a].pc = "idle"
  /\ calls' = [calls EXCEPT ![a] =
       [pc |-> "get_replay", draft |-> d, attempt |-> 1, head |-> NoHead,
        result |-> "NONE"]]
  /\ UNCHANGED << events, heads, locks, receipts >>

MutantAnswerReplay(a, rows) ==        \* answers with the entry it would have made
  LET d == calls[a].draft
  IN  /\ rows # {}
      /\ Return(a, "REPLAYED")
      /\ receipts' = receipts \cup
           {BuildEntry(d, heads[d.chain].last_sequence, heads[d.chain].last_event_hash)}

\* A row already holds the idempotency key: the same draft is a replay, any
\* other draft a conflict.
AnswerReplay(a, rows) ==
  \E e \in rows :
    IF e.draft = calls[a].draft
    THEN Return(a, "REPLAYED") /\ receipts' = receipts \cup {e}
    ELSE Return(a, "AUDIT_EVENT_REPLAY_CONFLICT") /\ UNCHANGED receipts

\* get_replay, before the lock.
GetReplay(a) ==
  LET rows == RowsWithKey(calls[a].draft.chain, calls[a].draft.key)
  IN  /\ calls[a].pc = "get_replay"
      /\ \/ AnswerReplay(a, rows)
         \/ rows = {} /\ Goto(a, "lock") /\ UNCHANGED << locks, receipts >>
      /\ UNCHANGED << events, heads >>

\* lock_chain_head waits for the row lock and reads the head under it.
LockChainHead(a) ==
  LET d == calls[a].draft
  IN  /\ calls[a].pc = "lock"
      /\ locks[d.chain] = NoOne
      /\ locks' = [locks EXCEPT ![d.chain] = a]
      /\ calls' = [calls EXCEPT ![a].pc = "recheck",
                     ![a].head = LockedHead(d)]
      /\ UNCHANGED << events, heads, receipts >>

MutantRecheckReplay(a) ==             \* goes on with what it saw before the lock
  /\ calls[a].pc = "recheck"
  /\ Goto(a, "append")
  /\ UNCHANGED << events, heads, locks, receipts >>

\* get_replay again, now that no other appender can move the chain.
RecheckReplay(a) ==
  LET rows == RowsWithKey(calls[a].draft.chain, calls[a].draft.key)
  IN  /\ calls[a].pc = "recheck"
      /\ \/ AnswerReplay(a, rows)
         \/ rows = {} /\ Goto(a, "append") /\ UNCHANGED << locks, receipts >>
      /\ UNCHANGED << events, heads >>

\* guard_step33_chain_head, with the row the transaction has inserted.
HeadGuard(old, new, row) ==
  /\ new.last_sequence = old.last_sequence + 1
  /\ new.head_version = old.head_version + 1
  /\ new.updated_at >= old.updated_at
  /\ row.sequence_number = new.last_sequence
  /\ row.event_hash = new.last_event_hash
  /\ row.previous_event_hash = old.last_event_hash

\* What insert_entry and advance_chain_head come to.
AppendOutcome(d, h, e) ==
  IF \/ RowsWithKey(d.chain, d.key) # {}
     \/ \E row \in RowsOf(d.chain) : row.sequence_number = e.sequence_number
  THEN "STEP33_AUDIT_APPEND_CONFLICT"
  ELSE IF h # LockedHead(d)
  THEN "STEP33_AUDIT_HEAD_CONFLICT"
  ELSE IF ~ HeadGuard(h, AdvancedHead(h, e), e) THEN "SQLSTATE_23514"
  ELSE "APPENDED"

MutantInsertAndAdvance(a) ==          \* the head is not advanced with its event
  LET d == calls[a].draft
      h == calls[a].head
      e == BuildEntry(d, h.last_sequence + 1, h.last_event_hash)
      outcome == AppendOutcome(d, h, e)
  IN  /\ calls[a].pc = "append"
      /\ Return(a, outcome)
      /\ UNCHANGED heads
      /\ IF outcome = "APPENDED"
         THEN events' = events \cup {e} /\ receipts' = receipts \cup {e}
         ELSE UNCHANGED << events, receipts >>

\* build the event from the locked head, insert it, advance the head, commit.
\* The acknowledgement of the commit may be lost.
InsertAndAdvance(a) ==
  LET d == calls[a].draft
      h == calls[a].head
      e == BuildEntry(d, h.last_sequence + 1, h.last_event_hash)
      outcome == AppendOutcome(d, h, e)
  IN  /\ calls[a].pc = "append"
      /\ IF outcome = "APPENDED"
         THEN /\ events' = events \cup {e}
              /\ heads' = [heads EXCEPT ![d.chain] = AdvancedHead(h, e)]
              /\ \/ Return(a, "APPENDED") /\ receipts' = receipts \cup {e}
                 \/ Return(a, "UNKNOWN") /\ UNCHANGED receipts
         ELSE Return(a, outcome) /\ UNCHANGED << events, heads, receipts >>

Step(a) == GetReplay(a) \/ LockChainHead(a) \/ RecheckReplay(a)
             \/ InsertAndAdvance(a)

LedgerNext ==
  \E a \in Appenders :
    \/ \E d \in AuditEventDraft : AppendEvent(a, d)
    \/ Step(a)
    \/ SerializationFailure(a)
    \/ ConnectionLost(a)

LedgerSpec == LedgerInit /\ [][LedgerNext]_ledgerVars

\* Every statement returns, and a row lock goes to a waiter sooner or later:
\* CockroachDB queues the waiters of a locked row.
LedgerFairness ==
  \A a \in Appenders : WF_ledgerVars(Step(a)) /\ SF_ledgerVars(LockChainHead(a))

FairLedgerSpec == LedgerSpec /\ LedgerFairness

-----------------------------------------------------------------------------
(* Properties.                                                               *)

LedgerTypeOK ==
  /\ events \subseteq AuditLedgerEntry
  /\ heads \in [Chains -> AuditChainHead]
  /\ locks \in [Chains -> Appenders \cup {NoOne}]
  /\ calls \in [Appenders -> Call]
  /\ receipts \subseteq AuditLedgerEntry

\* The rows of a chain are numbered 1, 2, ... without gap or duplicate, each
\* carries the hash of the row before it, the first one the genesis sentinel,
\* and the head row is the last of them (the contiguous sequence and the
\* predecessor link of insert_entry, the one-step head of advance_chain_head).
ChainIsLinked ==
  \A c \in Chains :
    /\ \A n \in 1 .. heads[c].last_sequence :
         \E e \in RowsOf(c) : /\ e.sequence_number = n
                              /\ \A f \in RowsOf(c) : f.sequence_number = n => f = e
    /\ \A e \in RowsOf(c) :
         /\ e.sequence_number <= heads[c].last_sequence
         /\ e.sequence_number = 1 => e.previous_event_hash = STEP33_GENESIS_SENTINEL
         /\ e.sequence_number = heads[c].last_sequence
              => e.event_hash = heads[c].last_event_hash
         /\ \A f \in RowsOf(c) : f.sequence_number = e.sequence_number + 1
              => f.previous_event_hash = e.event_hash

\* Rows, heads and locks have their types, and the heads and rows are chains,
\* whatever appenders do at once and whichever connections they lose.
LedgerConsistent == LedgerTypeOK /\ ChainIsLinked

\* However many callers present one idempotency key, and however often the
\* runner repeats the callback, the chain holds one event for it (get_replay
\* before and under the lock, the unique index on the key).
OneEventPerKey ==
  \A e, f \in events :
    e.draft.chain = f.draft.chain /\ e.draft.key = f.draft.key => e = f

\* A receipt is only handed out for a row that is durable, and it names the
\* row's place: no caller holds a receipt for an append that was rolled back.
ReceiptsAreDurable == receipts \subseteq events

\* Competing callers of one draft converge: the loser of the race for the head
\* lock is answered with the winner's entry, never with an error of the unique
\* index or of the head's compare-and-set, and a replay conflict is only
\* reported when the key really is bound to another draft.
CompetitorsConverge ==
  \A a \in Appenders :
    /\ calls[a].result \notin {"STEP33_AUDIT_APPEND_CONFLICT",
                               "STEP33_AUDIT_HEAD_CONFLICT"}
    /\ calls[a].result = "AUDIT_EVENT_REPLAY_CONFLICT" =>
         \E e \in RowsWithKey(calls[a].draft.chain, calls[a].draft.key) :
           e.draft # calls[a].draft

\* recorded_at never decreases along a chain (the updated_at comparison of
\* guard_step33_chain_head).
ChainIsChronological ==
  \A e, f \in events :
    e.draft.chain = f.draft.chain /\ e.sequence_number < f.sequence_number
      => e.draft.recorded_at <= f.draft.recorded_at

\* No step changes or removes a row, and the head moves one event at a time
\* and only when its event is inserted in the same transaction (the append-only
\* trigger, and the one transaction of append_event).
AppendOnly ==
  [][/\ events \subseteq events'
     /\ \A c \in Chains : heads'[c] # heads[c] =>
          \E e \in events' \ events :
            /\ e.draft.chain = c
            /\ e.previous_event_hash = heads[c].last_event_hash
            /\ heads'[c].last_event_hash = e.event_hash
            /\ heads'[c].last_sequence = heads[c].last_sequence + 1]_ledgerVars

\* Every call of append_event returns: the head lock is never kept by a
\* transaction that is over.
AppendReturns == \A a \in Appenders : calls[a].pc # "idle" ~> calls[a].pc = "idle"

\* The log the ledger stands for: the hash of the head is the whole chain.
Log == INSTANCE AuditLog WITH
         Draft <- AuditEventDraft,
         log <- [c \in Chains |-> heads[c].last_event_hash],
         acknowledged <- {e.draft : e \in receipts}

\* The rows, the lock and the hash links implement an append-only log with one
\* draft for each key and acknowledgements only for what it holds.
ImplementsLog == Log!LogSpec
=============================================================================
