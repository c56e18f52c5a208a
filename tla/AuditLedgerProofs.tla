------------------------- MODULE AuditLedgerProofs -------------------------
(***************************************************************************)
(* Proofs about AuditLedger and AuditReader, for every set of chains,      *)
(* keys, bodies and appenders and every bound on time and attempts.        *)
(*                                                                         *)
(* LedgerInv is the inductive invariant.  Since a hash is the sequence of  *)
(* drafts it binds, the head row determines the chain: every committed row *)
(* is the one its place in the head's hash calls for (RowsFollowHead), no  *)
(* place is without a row (NoPlaceMissing), and keys and times are ordered *)
(* along it (HeadIsSound).  The race for a chain is decided by the lock:   *)
(* its holder has the current head, and once it has looked for its key     *)
(* under the lock, the key stays free until it appends (LockedViews).      *)
(*                                                                         *)
(* The readers are operators over such a state.  What load_range returns   *)
(* is a Stretch of the chain that the head's hash spells out; a stretch    *)
(* verifies, pages of stretches join to the chain, and going down from the *)
(* head each hash leaves one choice for the row before it, so an accepted  *)
(* sequence is the chain and an altered one is refused.                    *)
(***************************************************************************)
EXTENDS AuditReader, SequenceTheorems, InductionLemmas

HeadHash(c) == heads[c].last_event_hash

HeadIsSound ==
    \A c \in Chains :
        /\ heads[c].last_sequence = Len(HeadHash(c))
        /\ heads[c].head_version = Len(HeadHash(c))
        /\ \A n \in 1..Len(HeadHash(c)) :
              /\ HeadHash(c)[n].chain = c
              /\ HeadHash(c)[n].recorded_at <= heads[c].updated_at
        /\ \A m, n \in 1..Len(HeadHash(c)) :
              /\ m <= n => HeadHash(c)[m].recorded_at <= HeadHash(c)[n].recorded_at
              /\ HeadHash(c)[m].key = HeadHash(c)[n].key => m = n

\* Row e has its place in the chain whose head hash is h.
RowFollows(e, h) ==
    /\ e.sequence_number \in 1..Len(h)
    /\ e.draft = h[e.sequence_number]
    /\ e.payload = e.draft.body
    /\ e.event_hash = EventHash(e.previous_event_hash, e.draft)
    /\ Len(e.previous_event_hash) = e.sequence_number - 1
    /\ \A i \in 1..(e.sequence_number - 1) : e.previous_event_hash[i] = h[i]

RowsFollowHead == \A e \in events : RowFollows(e, HeadHash(e.draft.chain))

NoPlaceMissing ==
    \A c \in Chains : \A n \in 1..Len(HeadHash(c)) :
        \E e \in events : e.draft.chain = c /\ e.sequence_number = n

LockedViews ==
    \A a \in Appenders :
        /\ calls[a].pc \in {"recheck", "append"} =>
              /\ locks[calls[a].draft.chain] = a
              /\ calls[a].head = LockedHead(calls[a].draft)
        /\ calls[a].pc = "append" =>
              RowsWithKey(calls[a].draft.chain, calls[a].draft.key) = {}

LedgerInv ==
    /\ LedgerTypeOK
    /\ HeadIsSound
    /\ RowsFollowHead
    /\ NoPlaceMissing
    /\ LockedViews
    /\ CompetitorsConverge
    /\ ReceiptsAreDurable

-----------------------------------------------------------------------------
(***************************************************************************)
(* Types.                                                                  *)
(***************************************************************************)

LEMMA GenesisIsAHash == << >> \in Hash
BY EmptySeq DEF Hash

LEMMA NoHeadIsAHead == NoHead \in AuditChainHead
BY GenesisIsAHash DEF NoHead, AuditChainHead, STEP33_GENESIS_SENTINEL

LEMMA LockedHeadIsAHead ==
    ASSUME LedgerTypeOK, NEW d \in AuditEventDraft
    PROVE  /\ LockedHead(d) \in AuditChainHead
           /\ LockedHead(d).last_sequence = heads[d.chain].last_sequence
           /\ LockedHead(d).last_event_hash = HeadHash(d.chain)
           /\ LockedHead(d).head_version = heads[d.chain].head_version
<1>1. d.chain \in Chains /\ d.recorded_at \in Times
  BY DEF AuditEventDraft
<1>2. heads[d.chain] \in AuditChainHead
  BY <1>1 DEF LedgerTypeOK
<1>3. GenesisHead(d) = [last_sequence |-> 0, last_event_hash |-> << >>,
                        head_version |-> 0, updated_at |-> d.recorded_at]
  BY DEF GenesisHead, NoHead, STEP33_GENESIS_SENTINEL
<1>4. GenesisHead(d) \in AuditChainHead
  BY <1>1, <1>3, GenesisIsAHash DEF AuditChainHead
<1> QED BY <1>2, <1>3, <1>4
        DEF LockedHead, HeadHash, NoHead, STEP33_GENESIS_SENTINEL

\* The row an appender builds at head h.
LEMMA BuiltEntry ==
    ASSUME NEW d \in AuditEventDraft, NEW h \in AuditChainHead
    PROVE  LET e == BuildEntry(d, h.last_sequence + 1, h.last_event_hash)
           IN  /\ e \in AuditLedgerEntry
               /\ AdvancedHead(h, e) \in AuditChainHead
<1>1. /\ d.body \in Bodies
      /\ d.recorded_at \in Times
  BY DEF AuditEventDraft
<1>2. /\ h.last_sequence + 1 \in Nat \ {0}
      /\ h.head_version + 1 \in Nat
      /\ h.last_event_hash \in Hash
  BY DEF AuditChainHead
<1>3. Append(h.last_event_hash, d) \in Hash
  BY <1>2, AppendProperties DEF Hash
<1> QED BY <1>1, <1>2, <1>3
        DEF BuildEntry, AuditLedgerEntry, EventHash, AdvancedHead, AuditChainHead

LEMMA InitType == LedgerInit => LedgerTypeOK
BY LedgerAssumption, NoHeadIsAHead DEF LedgerInit, LedgerTypeOK, Call, Results

\* Leaving a transaction.
LEMMA ReturnType ==
    ASSUME LedgerTypeOK, NEW a \in Appenders, NEW result \in Results,
           Return(a, result)
    PROVE  /\ calls' \in [Appenders -> Call]
           /\ locks' \in [Chains -> Appenders \cup {NoOne}]
BY DEF LedgerTypeOK, Return, Unlocked, Call

LEMMA GotoType ==
    ASSUME LedgerTypeOK, NEW a \in Appenders,
           NEW pc \in {"lock", "append"}, Goto(a, pc)
    PROVE  calls' \in [Appenders -> Call]
BY DEF LedgerTypeOK, Goto, Call

LEMMA AnswerType ==
    ASSUME LedgerTypeOK, NEW a \in Appenders, NEW rows,
           rows \subseteq events, AnswerReplay(a, rows)
    PROVE  /\ calls' \in [Appenders -> Call]
           /\ locks' \in [Chains -> Appenders \cup {NoOne}]
           /\ receipts' \subseteq AuditLedgerEntry
           /\ receipts' = receipts \/ \E e \in events : receipts' = receipts \cup {e}
<1>1. PICK e \in rows :
        \/ Return(a, "REPLAYED") /\ receipts' = receipts \cup {e}
        \/ Return(a, "AUDIT_EVENT_REPLAY_CONFLICT") /\ UNCHANGED receipts
  BY DEF AnswerReplay
<1>2. PICK result \in Results : Return(a, result)
  BY <1>1 DEF Results
<1> QED BY <1>1, <1>2, ReturnType DEF LedgerTypeOK

\* The rows of a key are rows.
LEMMA RowsAreEvents == \A c, k : RowsWithKey(c, k) \subseteq events
BY DEF RowsWithKey, RowsOf

LEMMA TypeStep ==
    ASSUME LedgerTypeOK, [LedgerNext]_ledgerVars
    PROVE  LedgerTypeOK'
<1> USE DEF LedgerTypeOK
<1>1. ASSUME NEW a \in Appenders, NEW d \in AuditEventDraft, AppendEvent(a, d)
      PROVE  LedgerTypeOK'
  BY <1>1, NoHeadIsAHead, LedgerAssumption DEF AppendEvent, Call, Results
<1>2. ASSUME NEW a \in Appenders, GetReplay(a)
      PROVE  LedgerTypeOK'
  <2>1. CASE AnswerReplay(a, RowsWithKey(calls[a].draft.chain, calls[a].draft.key))
    BY <1>2, <2>1, AnswerType, RowsAreEvents DEF GetReplay
  <2>2. CASE Goto(a, "lock") /\ UNCHANGED << locks, receipts >>
    BY <1>2, <2>2, GotoType DEF GetReplay
  <2> QED BY <1>2, <2>1, <2>2 DEF GetReplay
<1>3. ASSUME NEW a \in Appenders, LockChainHead(a)
      PROVE  LedgerTypeOK'
  <2>1. calls[a].draft \in AuditEventDraft
    BY DEF Call
  <2>2. LockedHead(calls[a].draft) \in AuditChainHead
    BY <2>1, LockedHeadIsAHead
  <2> QED BY ZenonT(60), <1>3, <2>1, <2>2 DEF LockChainHead, Call
<1>4. ASSUME NEW a \in Appenders, RecheckReplay(a)
      PROVE  LedgerTypeOK'
  <2>1. CASE AnswerReplay(a, RowsWithKey(calls[a].draft.chain, calls[a].draft.key))
    BY <1>4, <2>1, AnswerType, RowsAreEvents DEF RecheckReplay
  <2>2. CASE Goto(a, "append") /\ UNCHANGED << locks, receipts >>
    BY <1>4, <2>2, GotoType DEF RecheckReplay
  <2> QED BY <1>4, <2>1, <2>2 DEF RecheckReplay
<1>5. ASSUME NEW a \in Appenders, InsertAndAdvance(a)
      PROVE  LedgerTypeOK'
  <2> DEFINE d == calls[a].draft
             h == calls[a].head
             e == BuildEntry(d, h.last_sequence + 1, h.last_event_hash)
  <2>1. d \in AuditEventDraft /\ h \in AuditChainHead
    BY DEF Call
  <2>2. e \in AuditLedgerEntry /\ AdvancedHead(h, e) \in AuditChainHead
    BY <2>1, BuiltEntry
  <2> HIDE DEF e
  <2>3. AppendOutcome(d, h, e) \in Results
    BY DEF AppendOutcome, Results
  <2>4. CASE AppendOutcome(d, h, e) = "APPENDED"
    <3>1. PICK result \in Results : Return(a, result)
      BY <1>5, <2>4 DEF InsertAndAdvance, Results, e
    <3>2. /\ events' = events \cup {e}
          /\ heads' = [heads EXCEPT ![d.chain] = AdvancedHead(h, e)]
          /\ receipts' \in {receipts, receipts \cup {e}}
      BY <1>5, <2>4 DEF InsertAndAdvance, e
    <3> QED BY <2>2, <3>1, <3>2, ReturnType
  <2>5. CASE AppendOutcome(d, h, e) # "APPENDED"
    <3>1. Return(a, AppendOutcome(d, h, e)) /\ UNCHANGED << events, heads, receipts >>
      BY <1>5, <2>5 DEF InsertAndAdvance, e
    <3> QED BY <2>3, <3>1, ReturnType
  <2> QED BY <2>4, <2>5
<1>6. ASSUME NEW a \in Appenders, SerializationFailure(a)
      PROVE  LedgerTypeOK'
  <2>1. CASE calls[a].attempt < MaxAttempts
    BY <1>6, <2>1, LedgerAssumption DEF SerializationFailure, Unlocked, Call
  <2>2. CASE ~ (calls[a].attempt < MaxAttempts)
    <3>1. Return(a, "RETRY_EXHAUSTED") /\ UNCHANGED << events, heads, receipts >>
      BY <1>6, <2>2 DEF SerializationFailure
    <3> QED BY <3>1, ReturnType DEF Results
  <2> QED BY <2>1, <2>2
<1>7. ASSUME NEW a \in Appenders, ConnectionLost(a)
      PROVE  LedgerTypeOK'
  BY <1>7, ReturnType DEF ConnectionLost, Results
<1>8. CASE UNCHANGED ledgerVars
  BY <1>8 DEF ledgerVars
<1> QED BY <1>1, <1>2, <1>3, <1>4, <1>5, <1>6, <1>7, <1>8 DEF LedgerNext, Step

-----------------------------------------------------------------------------
(***************************************************************************)
(* What a step does to the rows: nothing, or one append at the head.       *)
(***************************************************************************)

NewRow(d) ==
    BuildEntry(d, LockedHead(d).last_sequence + 1, LockedHead(d).last_event_hash)

Appends(d) ==
    /\ RowsWithKey(d.chain, d.key) = {}
    /\ LockedHead(d).updated_at <= d.recorded_at
    /\ events' = events \cup {NewRow(d)}
    /\ heads' = [heads EXCEPT ![d.chain] = AdvancedHead(LockedHead(d), NewRow(d))]
    /\ receipts' \in {receipts, receipts \cup {NewRow(d)}}

Answers ==
    /\ UNCHANGED << events, heads >>
    /\ receipts' = receipts \/ \E e \in events : receipts' = receipts \cup {e}

LEMMA InsertShape ==
    ASSUME LedgerTypeOK, NEW a \in Appenders, InsertAndAdvance(a)
    PROVE  \/ Answers
           \/ /\ Appends(calls[a].draft)
              /\ calls[a].draft \in AuditEventDraft
              /\ locks[calls[a].draft.chain] = a =>
                    locks' = [locks EXCEPT ![calls[a].draft.chain] = NoOne]
<1> DEFINE d == calls[a].draft
           h == calls[a].head
           e == BuildEntry(d, h.last_sequence + 1, h.last_event_hash)
<1>1. d \in AuditEventDraft /\ h \in AuditChainHead
  BY DEF LedgerTypeOK, Call
<1>2. CASE AppendOutcome(d, h, e) = "APPENDED"
  <2>1. /\ RowsWithKey(d.chain, d.key) = {}
        /\ h = LockedHead(d)
        /\ HeadGuard(h, AdvancedHead(h, e), e)
    BY <1>2 DEF AppendOutcome
  <2>2. e = NewRow(d)
    BY <2>1 DEF NewRow
  <2>3. /\ events' = events \cup {e}
        /\ heads' = [heads EXCEPT ![d.chain] = AdvancedHead(h, e)]
        /\ receipts' \in {receipts, receipts \cup {e}}
        /\ locks' = Unlocked(a)
    BY <1>2 DEF InsertAndAdvance, Return
  <2>4. h.updated_at <= d.recorded_at
    <3>1. AdvancedHead(h, e).updated_at = d.recorded_at
      BY DEF AdvancedHead, BuildEntry
    <3>2. d.recorded_at \in Int /\ h.updated_at \in Int
      BY <1>1, LedgerAssumption DEF AuditEventDraft, AuditChainHead, Times
    <3> QED BY <2>1, <3>1, <3>2 DEF HeadGuard
  <2>5. Appends(d)
    BY <2>1, <2>2, <2>3, <2>4 DEF Appends
  <2> QED BY <1>1, <2>3, <2>5 DEF Unlocked, Holds
<1>3. CASE AppendOutcome(d, h, e) # "APPENDED"
  BY <1>3 DEF InsertAndAdvance, Answers
<1> QED BY <1>2, <1>3

LEMMA StepShape ==
    ASSUME LedgerTypeOK, [LedgerNext]_ledgerVars
    PROVE  Answers \/ \E d \in AuditEventDraft : Appends(d)
<1>1. ASSUME NEW a \in Appenders, GetReplay(a) \/ RecheckReplay(a)
      PROVE  Answers
  <2>1. CASE AnswerReplay(a, RowsWithKey(calls[a].draft.chain, calls[a].draft.key))
    BY <1>1, <2>1, AnswerType, RowsAreEvents DEF GetReplay, RecheckReplay, Answers
  <2> QED BY <1>1, <2>1 DEF GetReplay, RecheckReplay, Answers
<1>2. ASSUME NEW a \in Appenders, InsertAndAdvance(a)
      PROVE  Answers \/ \E d \in AuditEventDraft : Appends(d)
  BY <1>2, InsertShape
<1>3. ASSUME NEW a \in Appenders,
             \/ \E d \in AuditEventDraft : AppendEvent(a, d)
             \/ LockChainHead(a)
             \/ SerializationFailure(a)
             \/ ConnectionLost(a)
      PROVE  Answers
  BY <1>3 DEF AppendEvent, LockChainHead, SerializationFailure, ConnectionLost, Answers
<1>4. CASE UNCHANGED ledgerVars
  BY <1>4 DEF ledgerVars, Answers
<1> QED BY <1>1, <1>2, <1>3, <1>4 DEF LedgerNext, Step

-----------------------------------------------------------------------------
(***************************************************************************)
(* The rows and the head.                                                  *)
(***************************************************************************)

\* The new row goes to the place behind the head's last one, and the head's
\* hash grows by its draft.
LEMMA AppendEffect ==
    ASSUME LedgerTypeOK, HeadIsSound, NEW d \in AuditEventDraft, Appends(d),
           NEW n, n = Len(HeadHash(d.chain)) + 1
    PROVE  /\ d.chain \in Chains
           /\ n \in Nat \ {0}
           /\ HeadHash(d.chain) \in Hash
           /\ NewRow(d) = [draft |-> d, sequence_number |-> n,
                           previous_event_hash |-> HeadHash(d.chain),
                           event_hash |-> Append(HeadHash(d.chain), d),
                           payload |-> d.body]
           /\ heads'[d.chain].last_sequence = n
           /\ heads'[d.chain].last_event_hash = Append(HeadHash(d.chain), d)
           /\ heads'[d.chain].head_version = n
           /\ heads'[d.chain].updated_at = d.recorded_at
           /\ \A c \in Chains : c # d.chain => heads'[c] = heads[c]
           /\ HeadHash(d.chain)' \in Hash
           /\ Len(HeadHash(d.chain)') = n
           /\ HeadHash(d.chain)'[n] = d
           /\ \A i \in 1..(n - 1) : HeadHash(d.chain)'[i] = HeadHash(d.chain)[i]
<1> DEFINE hash == HeadHash(d.chain)
<1>1. d.chain \in Chains
  BY DEF AuditEventDraft
<1>2. hash \in Seq(AuditEventDraft)
  BY <1>1 DEF LedgerTypeOK, AuditChainHead, Hash, HeadHash
<1>3. /\ LockedHead(d).last_event_hash = hash
      /\ LockedHead(d).last_sequence = Len(hash)
      /\ LockedHead(d).head_version = Len(hash)
  BY <1>1, LockedHeadIsAHead DEF HeadIsSound
<1>4. NewRow(d) = [draft |-> d, sequence_number |-> n,
                   previous_event_hash |-> hash,
                   event_hash |-> Append(hash, d), payload |-> d.body]
  BY <1>3 DEF NewRow, BuildEntry, EventHash
<1>5. heads'[d.chain] = [last_sequence |-> n, last_event_hash |-> Append(hash, d),
                         head_version |-> n, updated_at |-> d.recorded_at]
  BY <1>1, <1>3, <1>4 DEF Appends, AdvancedHead, LedgerTypeOK
<1>6. HeadHash(d.chain)' = Append(hash, d)
  BY <1>5 DEF HeadHash
<1>7. /\ Append(hash, d) \in Seq(AuditEventDraft)
      /\ Len(Append(hash, d)) = n
      /\ \A i \in 1..Len(hash) : Append(hash, d)[i] = hash[i]
      /\ Append(hash, d)[n] = d
  BY <1>2, AppendProperties
<1>8. \A c \in Chains : c # d.chain => heads'[c] = heads[c]
  BY <1>1 DEF Appends, LedgerTypeOK
<1>9. Len(hash) \in Nat
  BY <1>2, LenProperties
<1> HIDE DEF hash
<1>10. \A i \in 1..(n - 1) : HeadHash(d.chain)'[i] = hash[i]
  BY <1>6, <1>7, <1>9
<1> QED BY <1>1, <1>2, <1>4, <1>5, <1>6, <1>7, <1>8, <1>9, <1>10 DEF Hash, hash

LEMMA AnswersKeepRows ==
    ASSUME Answers
    PROVE  /\ HeadIsSound => HeadIsSound'
           /\ RowsFollowHead => RowsFollowHead'
           /\ NoPlaceMissing => NoPlaceMissing'
           /\ ReceiptsAreDurable => ReceiptsAreDurable'
BY DEF Answers, HeadIsSound, RowsFollowHead, NoPlaceMissing, HeadHash,
       ReceiptsAreDurable

\* A place behind the head's last one has no key of its own yet.
LEMMA FreshKey ==
    ASSUME LedgerTypeOK, RowsFollowHead, NoPlaceMissing,
           NEW c \in Chains, NEW k, RowsWithKey(c, k) = {}
    PROVE  \A i \in 1..Len(HeadHash(c)) : HeadHash(c)[i].key # k
<1> SUFFICES ASSUME NEW i \in 1..Len(HeadHash(c)), HeadHash(c)[i].key = k
             PROVE  FALSE
  OBVIOUS
<1>1. PICK e \in events : e.draft.chain = c /\ e.sequence_number = i
  BY DEF NoPlaceMissing
<1>2. e.draft = HeadHash(c)[i]
  BY <1>1 DEF RowsFollowHead, RowFollows
<1> QED BY <1>1, <1>2 DEF RowsWithKey, RowsOf

LEMMA AppendKeepsHead ==
    ASSUME LedgerTypeOK, HeadIsSound, RowsFollowHead, NoPlaceMissing,
           NEW d \in AuditEventDraft, Appends(d)
    PROVE  HeadIsSound'
<1> DEFINE old == HeadHash(d.chain)
           new == HeadHash(d.chain)'
           n == Len(old) + 1
<1>0. n = Len(HeadHash(d.chain)) + 1
  OBVIOUS
<1>len. Len(old) \in Nat /\ d.chain \in Chains
  <2>1. d.chain \in Chains
    BY DEF AuditEventDraft
  <2>2. old \in Seq(AuditEventDraft)
    BY <2>1 DEF HeadHash, LedgerTypeOK, AuditChainHead, Hash
  <2> QED BY <2>1, <2>2, LenProperties
<1>dom. 1..(n - 1) = 1..Len(old)
  BY <1>len
<1> HIDE DEF n
<1>1. /\ d.chain \in Chains
      /\ n \in Nat \ {0}
      /\ Len(new) = n
      /\ new[n] = d
      /\ \A i \in 1..(n - 1) : new[i] = old[i]
      /\ heads'[d.chain].last_sequence = n
      /\ heads'[d.chain].head_version = n
      /\ heads'[d.chain].updated_at = d.recorded_at
      /\ \A c \in Chains : c # d.chain => heads'[c] = heads[c]
  BY <1>0, AppendEffect
<1>2. \A i \in 1..(n - 1) : old[i].key # d.key
  BY <1>len, <1>dom, FreshKey DEF Appends
<1>3. d.recorded_at \in Int
  BY LedgerAssumption DEF AuditEventDraft, Times
<1>4. \A i \in 1..(n - 1) : /\ old[i].chain = d.chain
                            /\ old[i].recorded_at \in Int
                            /\ old[i].recorded_at <= d.recorded_at
  <2> SUFFICES ASSUME NEW i \in 1..(n - 1)
               PROVE  /\ old[i].chain = d.chain
                      /\ old[i].recorded_at \in Int
                      /\ old[i].recorded_at <= d.recorded_at
    OBVIOUS
  <2>1. old \in Seq(AuditEventDraft) /\ heads[d.chain] \in AuditChainHead
    BY <1>1 DEF HeadHash, LedgerTypeOK, AuditChainHead, Hash
  <2>2. i \in 1..Len(old)
    BY <1>dom
  <2>3. old[i] \in AuditEventDraft
    BY <2>1, <2>2, ElementOfSeq
  <2>4. old[i].chain = d.chain /\ old[i].recorded_at <= heads[d.chain].updated_at
    BY <1>1, <2>2 DEF HeadIsSound
  <2>5. LockedHead(d) = heads[d.chain]
    <3>1. heads[d.chain] # NoHead
      BY <1>1, <2>2, EmptySeq DEF NoHead, STEP33_GENESIS_SENTINEL, HeadHash
    <3> QED BY <3>1 DEF LockedHead
  <2>6. heads[d.chain].updated_at <= d.recorded_at
    BY <2>5 DEF Appends
  <2>7. old[i].recorded_at \in Int /\ heads[d.chain].updated_at \in Int
    BY <2>1, <2>3, LedgerAssumption DEF AuditEventDraft, AuditChainHead, Times
  <2> QED BY <1>3, <2>4, <2>6, <2>7
<1> SUFFICES ASSUME NEW c \in Chains
             PROVE  HeadIsSound!(c)'
  BY DEF HeadIsSound
<1>5. CASE c # d.chain
  BY SMTT(30), <1>1, <1>5 DEF HeadIsSound, HeadHash
<1>6. CASE c = d.chain
  <2> HIDE DEF old, new
  <2>1. \A i \in 1..n : i \in 1..(n - 1) \/ i = n
    BY <1>1
  <2>2. \A i \in 1..n : new[i].chain = d.chain /\ new[i].recorded_at <= d.recorded_at
    BY <1>1, <1>3, <1>4, <2>1
  <2>3. ASSUME NEW i \in 1..n, NEW j \in 1..n
        PROVE  /\ i <= j => new[i].recorded_at <= new[j].recorded_at
               /\ new[i].key = new[j].key => i = j
    <3>1. CASE i \in 1..(n - 1) /\ j \in 1..(n - 1)
      <4>1. i \in 1..Len(old) /\ j \in 1..Len(old)
        BY <1>dom, <3>1
      <4>2. /\ i <= j => old[i].recorded_at <= old[j].recorded_at
            /\ old[i].key = old[j].key => i = j
        BY <1>1, <4>1 DEF HeadIsSound, old
      <4> QED BY <1>1, <3>1, <4>2
    <3>2. CASE j = n
      BY <1>1, <1>2, <1>3, <1>4, <2>1, <3>2
    <3>3. CASE i = n /\ j # n
      <4>1. j \in 1..(n - 1) /\ ~ (i <= j)
        BY <1>1, <3>3
      <4> QED BY <1>1, <1>2, <3>3, <4>1
    <3> QED BY <2>1, <3>1, <3>2, <3>3
  <2> QED BY <1>1, <1>6, <2>2, <2>3 DEF new
<1> QED BY <1>5, <1>6

LEMMA AppendKeepsRows ==
    ASSUME LedgerTypeOK, HeadIsSound, RowsFollowHead, NoPlaceMissing,
           NEW d \in AuditEventDraft, Appends(d)
    PROVE  RowsFollowHead' /\ NoPlaceMissing'
<1> DEFINE old == HeadHash(d.chain)
           new == HeadHash(d.chain)'
           n == Len(old) + 1
<1>1. n = Len(HeadHash(d.chain)) + 1
  OBVIOUS
<1>2. Len(old) \in Nat
  <2>1. old \in Seq(AuditEventDraft)
    BY DEF HeadHash, LedgerTypeOK, AuditChainHead, Hash, AuditEventDraft
  <2> QED BY <2>1, LenProperties
<1>3. 1..(n - 1) = 1..Len(old)
  BY <1>2
<1> HIDE DEF n
<1>4. /\ d.chain \in Chains
      /\ n \in Nat \ {0}
      /\ NewRow(d) = [draft |-> d, sequence_number |-> n,
                      previous_event_hash |-> old,
                      event_hash |-> Append(old, d), payload |-> d.body]
      /\ \A c \in Chains : c # d.chain => heads'[c] = heads[c]
      /\ Len(new) = n
      /\ new[n] = d
      /\ \A i \in 1..(n - 1) : new[i] = old[i]
  BY <1>1, AppendEffect
<1> HIDE DEF old, new
<1>5. RowFollows(NewRow(d), new)
  BY <1>1, <1>2, <1>4 DEF RowFollows, EventHash, old
<1>6. ASSUME NEW e \in events, e.draft.chain = d.chain
      PROVE  RowFollows(e, new)
  <2>1. RowFollows(e, old)
    BY <1>6 DEF RowsFollowHead, old
  <2> QED BY <1>2, <1>3, <1>4, <2>1 DEF RowFollows
<1>7. ASSUME NEW e \in events, e.draft.chain # d.chain
      PROVE  RowFollows(e, HeadHash(e.draft.chain)')
  <2>1. e.draft.chain \in Chains
    BY DEF LedgerTypeOK, AuditLedgerEntry, AuditEventDraft
  <2>2. HeadHash(e.draft.chain)' = HeadHash(e.draft.chain)
    BY <1>4, <1>7, <2>1 DEF HeadHash
  <2> QED BY <2>2 DEF RowsFollowHead
<1>8. events' = events \cup {NewRow(d)}
  BY DEF Appends
<1>9. RowsFollowHead'
  <2> SUFFICES ASSUME NEW e \in events'
               PROVE  RowFollows(e, HeadHash(e.draft.chain)')
    BY DEF RowsFollowHead
  <2>1. CASE e = NewRow(d)
    BY <1>4, <1>5, <2>1 DEF new, HeadHash
  <2>2. CASE e \in events /\ e.draft.chain = d.chain
    BY <1>6, <2>2 DEF new, HeadHash
  <2>3. CASE e \in events /\ e.draft.chain # d.chain
    BY <1>7, <2>3
  <2> QED BY <1>8, <2>1, <2>2, <2>3
<1>10. ASSUME NEW c \in Chains, NEW i \in 1..Len(HeadHash(c)')
       PROVE  \E e \in events' : e.draft.chain = c /\ e.sequence_number = i
  <2>1. CASE c = d.chain /\ i = n
    BY <1>4, <1>8, <2>1
  <2>2. CASE c = d.chain /\ i # n
    <3>1. i \in 1..Len(old)
      BY <1>2, <1>3, <1>4, <2>2 DEF new
    <3> QED BY <1>8, <2>2, <3>1 DEF NoPlaceMissing, old
  <2>3. CASE c # d.chain
    <3>1. HeadHash(c)' = HeadHash(c)
      BY <1>4, <2>3 DEF HeadHash
    <3> QED BY <1>8, <3>1 DEF NoPlaceMissing
  <2> QED BY <2>1, <2>2, <2>3
<1> QED BY <1>9, <1>10 DEF NoPlaceMissing

LEMMA AppendKeepsReceipts ==
    ASSUME ReceiptsAreDurable, NEW d, Appends(d)
    PROVE  ReceiptsAreDurable'
BY DEF ReceiptsAreDurable, Appends

-----------------------------------------------------------------------------
(***************************************************************************)
(* The race for the lock.                                                  *)
(***************************************************************************)

ActionOf(a) ==
    \/ \E d \in AuditEventDraft : AppendEvent(a, d)
    \/ Step(a)
    \/ SerializationFailure(a)
    \/ ConnectionLost(a)

\* An action of one appender leaves the calls and the locks of the others.
ActsAlone(a) ==
    /\ \A b \in Appenders : b # a => calls'[b] = calls[b]
    /\ \A c \in Chains : locks[c] \in Appenders /\ locks[c] # a => locks'[c] = locks[c]

LEMMA ReturnIsLocal ==
    ASSUME LedgerTypeOK, NEW a \in Appenders, NEW result, Return(a, result)
    PROVE  /\ ActsAlone(a)
           /\ calls'[a].pc = "idle"
           /\ calls'[a].result = result
           /\ calls'[a].draft = calls[a].draft
BY DEF Return, Unlocked, Holds, ActsAlone, LedgerTypeOK, Call

LEMMA AnswerIsLocal ==
    ASSUME LedgerTypeOK, NEW a \in Appenders, NEW rows, AnswerReplay(a, rows)
    PROVE  /\ ActsAlone(a)
           /\ calls'[a].pc = "idle"
           /\ calls'[a].draft = calls[a].draft
           /\ \/ calls'[a].result = "REPLAYED"
              \/ /\ calls'[a].result = "AUDIT_EVENT_REPLAY_CONFLICT"
                 /\ \E e \in rows : e.draft # calls[a].draft
<1>1. PICK e \in rows :
        \/ Return(a, "REPLAYED")
        \/ Return(a, "AUDIT_EVENT_REPLAY_CONFLICT") /\ e.draft # calls[a].draft
  BY DEF AnswerReplay
<1> QED BY <1>1, ReturnIsLocal

LEMMA StepIsLocal ==
    ASSUME LedgerTypeOK, NEW a \in Appenders, ActionOf(a)
    PROVE  ActsAlone(a)
<1>1. CASE \E d \in AuditEventDraft : AppendEvent(a, d)
  BY <1>1 DEF AppendEvent, ActsAlone, LedgerTypeOK
<1>2. CASE GetReplay(a)
  BY <1>2, AnswerIsLocal DEF GetReplay, Goto, ActsAlone, LedgerTypeOK
<1>3. CASE LockChainHead(a)
  BY <1>3, LedgerAssumption DEF LockChainHead, ActsAlone, LedgerTypeOK
<1>4. CASE RecheckReplay(a)
  BY <1>4, AnswerIsLocal DEF RecheckReplay, Goto, ActsAlone, LedgerTypeOK
<1>5. CASE InsertAndAdvance(a)
  BY <1>5, ReturnIsLocal DEF InsertAndAdvance
<1>6. CASE SerializationFailure(a)
  BY <1>6, ReturnIsLocal DEF SerializationFailure, Unlocked, Holds, ActsAlone, LedgerTypeOK
<1>7. CASE ConnectionLost(a)
  BY <1>7, ReturnIsLocal DEF ConnectionLost
<1> QED BY <1>1, <1>2, <1>3, <1>4, <1>5, <1>6, <1>7 DEF ActionOf, Step

\* Rows and heads move only in an append, and then only on the appender's chain.
OnlyOwnChain(a) ==
    \/ UNCHANGED << events, heads >>
    \/ /\ Appends(calls[a].draft)
       /\ calls[a].draft \in AuditEventDraft
       /\ locks[calls[a].draft.chain] = a

LEMMA StepKeepsToItsChain ==
    ASSUME LedgerTypeOK, LockedViews, NEW a \in Appenders, ActionOf(a)
    PROVE  OnlyOwnChain(a)
<1>1. CASE InsertAndAdvance(a)
  <2>1. calls[a].pc = "append"
    BY <1>1 DEF InsertAndAdvance
  <2> QED BY <1>1, <2>1, InsertShape DEF LockedViews, Answers, OnlyOwnChain
<1>2. CASE ~ InsertAndAdvance(a)
  BY <1>2 DEF ActionOf, Step, AppendEvent, GetReplay, LockChainHead, RecheckReplay,
              SerializationFailure, ConnectionLost, OnlyOwnChain
<1> QED BY <1>1, <1>2

\* What the lock's holder has seen.
View(a) ==
    /\ calls[a].pc \in {"recheck", "append"} =>
          /\ locks[calls[a].draft.chain] = a
          /\ calls[a].head = LockedHead(calls[a].draft)
    /\ calls[a].pc = "append" =>
          RowsWithKey(calls[a].draft.chain, calls[a].draft.key) = {}

LEMMA OthersKeepTheirView ==
    ASSUME LedgerTypeOK, HeadIsSound, NEW a \in Appenders, NEW b \in Appenders,
           b # a, View(b), ActsAlone(a), OnlyOwnChain(a)
    PROVE  View(b)'
<1>1. calls'[b] = calls[b]
  BY DEF ActsAlone
<1>2. SUFFICES ASSUME calls[b].pc \in {"recheck", "append"}
               PROVE  View(b)'
  BY <1>1 DEF View
<1>d. PICK d \in AuditEventDraft : calls[b].draft = d
  BY DEF LedgerTypeOK, Call
<1>3. d.chain \in Chains /\ locks[d.chain] = b
  BY <1>2, <1>d DEF View, AuditEventDraft
<1>4. locks'[d.chain] = b
  BY <1>3 DEF ActsAlone
<1>5. heads'[d.chain] = heads[d.chain] /\ RowsOf(d.chain)' = RowsOf(d.chain)
  <2>1. CASE UNCHANGED << events, heads >>
    BY <2>1 DEF RowsOf
  <2>2. CASE /\ Appends(calls[a].draft)
             /\ calls[a].draft \in AuditEventDraft
             /\ locks[calls[a].draft.chain] = a
    <3>1. calls[a].draft.chain # d.chain
      BY <1>3, <2>2
    <3>2. heads'[d.chain] = heads[d.chain]
      BY <1>3, <2>2, <3>1 DEF Appends, LedgerTypeOK
    <3>3. NewRow(calls[a].draft).draft = calls[a].draft
      BY DEF NewRow, BuildEntry
    <3>4. events' = events \cup {NewRow(calls[a].draft)}
      BY <2>2 DEF Appends
    <3> QED BY <3>1, <3>2, <3>3, <3>4 DEF RowsOf
  <2> QED BY <2>1, <2>2 DEF OnlyOwnChain
<1>6. /\ LockedHead(d)' = LockedHead(d)
      /\ RowsWithKey(d.chain, d.key)' = RowsWithKey(d.chain, d.key)
  BY <1>5 DEF LockedHead, RowsWithKey
<1> QED BY <1>1, <1>d, <1>4, <1>6 DEF View

LEMMA OwnView ==
    ASSUME LedgerTypeOK, NEW a \in Appenders, View(a), ActionOf(a)
    PROVE  View(a)'
<1>d. PICK d \in AuditEventDraft : calls[a].draft = d
  BY DEF LedgerTypeOK, Call
<1>1. CASE \E f \in AuditEventDraft : AppendEvent(a, f)
  BY <1>1 DEF AppendEvent, View, LedgerTypeOK
<1>2. CASE GetReplay(a)
  <2>1. calls'[a].pc \in {"idle", "lock"}
    BY <1>2, AnswerIsLocal DEF GetReplay, Goto, LedgerTypeOK, Call
  <2> QED BY <2>1 DEF View
<1>3. CASE LockChainHead(a)
  <2>1. /\ calls'[a].pc = "recheck"
        /\ calls'[a].draft = d
        /\ calls'[a].head = LockedHead(d)
        /\ locks'[d.chain] = a
        /\ heads' = heads
    BY <1>3, <1>d DEF LockChainHead, LedgerTypeOK, Call, AuditEventDraft
  <2>2. LockedHead(d)' = LockedHead(d)
    BY <2>1 DEF LockedHead
  <2> QED BY <2>1, <2>2 DEF View
<1>4. CASE RecheckReplay(a)
  <2>1. CASE AnswerReplay(a, RowsWithKey(calls[a].draft.chain, calls[a].draft.key))
    <3>1. calls'[a].pc = "idle"
      BY <2>1, AnswerIsLocal
    <3> QED BY <3>1 DEF View
  <2>2. CASE /\ RowsWithKey(calls[a].draft.chain, calls[a].draft.key) = {}
             /\ Goto(a, "append")
             /\ UNCHANGED << locks, receipts >>
    <3>1. /\ calls[a].pc = "recheck"
          /\ UNCHANGED << events, heads, locks >>
          /\ calls'[a].draft = d
          /\ calls'[a].head = calls[a].head
      BY <1>4, <1>d, <2>2 DEF RecheckReplay, Goto, LedgerTypeOK, Call
    <3>2. /\ LockedHead(d)' = LockedHead(d)
          /\ RowsWithKey(d.chain, d.key)' = RowsWithKey(d.chain, d.key)
      BY <3>1 DEF LockedHead, RowsWithKey, RowsOf
    <3> QED BY <1>d, <2>2, <3>1, <3>2 DEF View
  <2> QED BY <1>4, <2>1, <2>2 DEF RecheckReplay
<1>5. CASE InsertAndAdvance(a)
  <2>1. calls'[a].pc = "idle"
    BY <1>5, ReturnIsLocal DEF InsertAndAdvance
  <2> QED BY <2>1 DEF View
<1>6. CASE SerializationFailure(a)
  <2>1. calls'[a].pc \in {"idle", "get_replay"}
    BY <1>6, ReturnIsLocal DEF SerializationFailure, LedgerTypeOK, Call
  <2> QED BY <2>1 DEF View
<1>7. CASE ConnectionLost(a)
  <2>1. calls'[a].pc = "idle"
    BY <1>7, ReturnIsLocal DEF ConnectionLost
  <2> QED BY <2>1 DEF View
<1> QED BY <1>1, <1>2, <1>3, <1>4, <1>5, <1>6, <1>7 DEF ActionOf, Step

LEMMA LockedViewsStep ==
    ASSUME LedgerTypeOK, HeadIsSound, LockedViews, NEW a \in Appenders, ActionOf(a)
    PROVE  LockedViews'
<1>1. \A b \in Appenders : View(b)
  BY DEF LockedViews, View
<1>2. \A b \in Appenders : View(b)'
  BY <1>1, OwnView, OthersKeepTheirView, StepIsLocal, StepKeepsToItsChain
<1> QED BY <1>2 DEF LockedViews, View

\* A holder that has looked again is not refused by the unique indexes or by
\* the compare-and-set of the head.
LEMMA InsertOutcome ==
    ASSUME LedgerTypeOK, HeadIsSound, RowsFollowHead, LockedViews,
           NEW a \in Appenders, InsertAndAdvance(a)
    PROVE  calls'[a].result \in {"APPENDED", "UNKNOWN", "SQLSTATE_23514"}
<1> DEFINE d == calls[a].draft
           h == calls[a].head
           e == BuildEntry(d, h.last_sequence + 1, h.last_event_hash)
<1>1. d \in AuditEventDraft /\ d.chain \in Chains
  BY DEF LedgerTypeOK, Call, AuditEventDraft
<1>2. h = LockedHead(d) /\ RowsWithKey(d.chain, d.key) = {}
  BY DEF InsertAndAdvance, LockedViews
<1>3. e.sequence_number = Len(HeadHash(d.chain)) + 1
  BY <1>1, <1>2, LockedHeadIsAHead DEF HeadIsSound, BuildEntry
<1>4. Len(HeadHash(d.chain)) \in Nat
  BY <1>1, LenProperties DEF LedgerTypeOK, AuditChainHead, Hash, HeadHash
<1>5. \A row \in RowsOf(d.chain) : row.sequence_number # e.sequence_number
  BY <1>3, <1>4 DEF RowsOf, RowsFollowHead, RowFollows
<1>6. AppendOutcome(d, h, e) \in {"APPENDED", "SQLSTATE_23514"}
  BY <1>2, <1>5 DEF AppendOutcome
<1> HIDE DEF e, d, h
<1>7. \E result \in {"APPENDED", "UNKNOWN", "SQLSTATE_23514"} : Return(a, result)
  BY <1>6 DEF InsertAndAdvance, d, h, e
<1> QED BY <1>7, ReturnIsLocal

\* The rows of a key are never removed.
LEMMA RowsStay ==
    ASSUME events \subseteq events', NEW c, NEW k
    PROVE  RowsWithKey(c, k) \subseteq RowsWithKey(c, k)'
BY DEF RowsWithKey, RowsOf

Converged(a) ==
    /\ calls[a].result \notin {"STEP33_AUDIT_APPEND_CONFLICT",
                               "STEP33_AUDIT_HEAD_CONFLICT"}
    /\ calls[a].result = "AUDIT_EVENT_REPLAY_CONFLICT" =>
         \E e \in RowsWithKey(calls[a].draft.chain, calls[a].draft.key) :
           e.draft # calls[a].draft

LEMMA OwnConverged ==
    ASSUME LedgerTypeOK, HeadIsSound, RowsFollowHead, LockedViews,
           events \subseteq events', NEW a \in Appenders, Converged(a), ActionOf(a)
    PROVE  Converged(a)'
<1>d. PICK d \in AuditEventDraft : calls[a].draft = d
  BY DEF LedgerTypeOK, Call
<1>r. RowsWithKey(d.chain, d.key) \subseteq RowsWithKey(d.chain, d.key)'
  BY RowsStay
<1>a. ASSUME AnswerReplay(a, RowsWithKey(calls[a].draft.chain, calls[a].draft.key))
      PROVE  Converged(a)'
  BY <1>a, <1>d, <1>r, AnswerIsLocal DEF Converged
<1>g. ASSUME NEW pc, Goto(a, pc)
      PROVE  Converged(a)'
  <2>1. calls'[a].draft = d /\ calls'[a].result = calls[a].result
    BY <1>d, <1>g DEF Goto, LedgerTypeOK, Call
  <2> QED BY <1>d, <1>r, <2>1 DEF Converged
<1>1. CASE \E f \in AuditEventDraft : AppendEvent(a, f)
  BY <1>1 DEF AppendEvent, Converged, LedgerTypeOK
<1>2. CASE GetReplay(a)
  BY <1>2, <1>a, <1>g DEF GetReplay
<1>3. CASE LockChainHead(a)
  <2>1. calls'[a].draft = d /\ calls'[a].result = calls[a].result
    BY <1>3, <1>d DEF LockChainHead, LedgerTypeOK, Call
  <2> QED BY <1>d, <1>r, <2>1 DEF Converged
<1>4. CASE RecheckReplay(a)
  BY <1>4, <1>a, <1>g DEF RecheckReplay
<1>5. CASE InsertAndAdvance(a)
  BY <1>5, InsertOutcome DEF Converged
<1>6. CASE SerializationFailure(a)
  <2>1. CASE calls[a].attempt < MaxAttempts
    <3>1. calls'[a].draft = d /\ calls'[a].result = calls[a].result
      BY <1>6, <1>d, <2>1 DEF SerializationFailure, LedgerTypeOK, Call
    <3> QED BY <1>d, <1>r, <3>1 DEF Converged
  <2>2. CASE ~ (calls[a].attempt < MaxAttempts)
    <3>1. calls'[a].result = "RETRY_EXHAUSTED"
      BY <1>6, <2>2, ReturnIsLocal DEF SerializationFailure
    <3> QED BY <3>1 DEF Converged
  <2> QED BY <2>1, <2>2
<1>7. CASE ConnectionLost(a)
  <2>1. calls'[a].result = "UNKNOWN"
    BY <1>7, ReturnIsLocal DEF ConnectionLost
  <2> QED BY <2>1 DEF Converged
<1> QED BY <1>1, <1>2, <1>3, <1>4, <1>5, <1>6, <1>7 DEF ActionOf, Step

LEMMA CompetitorsStep ==
    ASSUME LedgerTypeOK, HeadIsSound, RowsFollowHead, LockedViews,
           CompetitorsConverge, events \subseteq events',
           NEW a \in Appenders, ActionOf(a)
    PROVE  CompetitorsConverge'
<1>1. \A b \in Appenders : Converged(b)
  BY DEF CompetitorsConverge, Converged
<1>2. Converged(a)'
  BY <1>1, OwnConverged
<1>3. ASSUME NEW b \in Appenders, b # a
      PROVE  Converged(b)'
  <2>d. PICK d \in AuditEventDraft : calls[b].draft = d
    BY DEF LedgerTypeOK, Call
  <2>1. calls'[b] = calls[b]
    BY <1>3, StepIsLocal DEF ActsAlone
  <2>2. RowsWithKey(d.chain, d.key) \subseteq RowsWithKey(d.chain, d.key)'
    BY RowsStay
  <2> QED BY <1>1, <2>d, <2>1, <2>2 DEF Converged
<1> QED BY <1>2, <1>3 DEF CompetitorsConverge, Converged

-----------------------------------------------------------------------------
(***************************************************************************)
(* The invariant and what follows from it.                                 *)
(***************************************************************************)

LEMMA InitInv == LedgerInit => LedgerInv
<1> SUFFICES ASSUME LedgerInit PROVE LedgerInv
  OBVIOUS
<1>1. LedgerTypeOK
  BY InitType
<1>2. \A c \in Chains : /\ HeadHash(c) = << >>
                        /\ heads[c].last_sequence = 0
                        /\ heads[c].head_version = 0
  BY DEF LedgerInit, HeadHash, NoHead, STEP33_GENESIS_SENTINEL
<1>3. Len(<< >>) = 0 /\ 1..0 = {}
  OBVIOUS
<1>4. HeadIsSound /\ NoPlaceMissing
  BY <1>2, <1>3 DEF HeadIsSound, NoPlaceMissing
<1>5. \A a \in Appenders : calls[a].pc = "idle" /\ calls[a].result = "NONE"
  BY DEF LedgerInit
<1> QED BY <1>1, <1>4, <1>5
        DEF LedgerInv, LedgerInit, RowsFollowHead, LockedViews,
            CompetitorsConverge, ReceiptsAreDurable

LEMMA InvStep == LedgerInv /\ [LedgerNext]_ledgerVars => LedgerInv'
<1> SUFFICES ASSUME LedgerInv, [LedgerNext]_ledgerVars PROVE LedgerInv'
  OBVIOUS
<1> USE DEF LedgerInv
<1>1. LedgerTypeOK'
  BY TypeStep
<1>2. Answers \/ \E d \in AuditEventDraft : Appends(d)
  BY StepShape
<1>3. /\ HeadIsSound'
      /\ RowsFollowHead'
      /\ NoPlaceMissing'
      /\ ReceiptsAreDurable'
      /\ events \subseteq events'
  <2>1. CASE Answers
    BY <2>1, AnswersKeepRows DEF Answers
  <2>2. CASE \E d \in AuditEventDraft : Appends(d)
    <3>1. PICK d \in AuditEventDraft : Appends(d)
      BY <2>2
    <3>2. HeadIsSound' /\ RowsFollowHead' /\ NoPlaceMissing'
      BY <3>1, AppendKeepsHead, AppendKeepsRows
    <3>3. ReceiptsAreDurable' /\ events \subseteq events'
      BY <3>1, AppendKeepsReceipts DEF Appends
    <3> QED BY <3>2, <3>3
  <2> QED BY <1>2, <2>1, <2>2
<1>4. LockedViews' /\ CompetitorsConverge'
  <2>1. ASSUME NEW a \in Appenders, ActionOf(a)
        PROVE  LockedViews' /\ CompetitorsConverge'
    BY <1>3, <2>1, LockedViewsStep, CompetitorsStep
  <2>2. CASE UNCHANGED ledgerVars
    BY <2>2 DEF ledgerVars, LockedViews, LockedHead, RowsWithKey, RowsOf,
                CompetitorsConverge
  <2> QED BY <2>1, <2>2 DEF LedgerNext, ActionOf
<1> QED BY <1>1, <1>3, <1>4

THEOREM LedgerInvariant == LedgerSpec => []LedgerInv
BY InitInv, InvStep, PTL DEF LedgerSpec

(***************************************************************************)
(* The rows keep their types.                                              *)
(***************************************************************************)
THEOREM TypeCorrect == LedgerSpec => []LedgerTypeOK
<1>1. LedgerInv => LedgerTypeOK
  BY DEF LedgerInv
<1> QED BY <1>1, LedgerInvariant, PTL

(***************************************************************************)
(* Only committed rows are acknowledged (append_event).                    *)
(***************************************************************************)
THEOREM ReceiptsStayDurable == LedgerSpec => []ReceiptsAreDurable
<1>1. LedgerInv => ReceiptsAreDurable
  BY DEF LedgerInv
<1> QED BY <1>1, LedgerInvariant, PTL

(***************************************************************************)
(* The loser of the race for the head is never refused by a unique index   *)
(* or by the compare-and-set (the second get_replay, under the lock).      *)
(***************************************************************************)
THEOREM CompetitorsAlwaysConverge == LedgerSpec => []CompetitorsConverge
<1>1. LedgerInv => CompetitorsConverge
  BY DEF LedgerInv
<1> QED BY <1>1, LedgerInvariant, PTL

\* Rows of one chain with one place are one row.
LEMMA PlaceNamesRow ==
    ASSUME LedgerInv, NEW e \in events, NEW f \in events,
           e.draft.chain = f.draft.chain, e.sequence_number = f.sequence_number
    PROVE  e = f
<1> DEFINE h == HeadHash(e.draft.chain)
<1>1. RowFollows(e, h) /\ RowFollows(f, h)
  BY DEF LedgerInv, RowsFollowHead
<1> HIDE DEF h
<1>2. e \in AuditLedgerEntry /\ f \in AuditLedgerEntry
  BY DEF LedgerInv, LedgerTypeOK
<1>3. /\ e.previous_event_hash \in Seq(AuditEventDraft)
      /\ f.previous_event_hash \in Seq(AuditEventDraft)
      /\ e.sequence_number \in Nat
  BY <1>2 DEF AuditLedgerEntry, Hash
<1>4. /\ Len(e.previous_event_hash) = Len(f.previous_event_hash)
      /\ \A i \in 1..Len(e.previous_event_hash) :
            e.previous_event_hash[i] = f.previous_event_hash[i]
  BY <1>1, <1>3 DEF RowFollows
<1>5. e.previous_event_hash = f.previous_event_hash
  BY <1>3, <1>4, SeqEqual
<1>6. e.draft = f.draft /\ e.payload = f.payload /\ e.event_hash = f.event_hash
  BY <1>1, <1>5 DEF RowFollows
<1> QED BY <1>2, <1>5, <1>6 DEF AuditLedgerEntry

(***************************************************************************)
(* One idempotency key, one event, whoever appends it and how often.       *)
(***************************************************************************)
THEOREM OneEventForEachKey == LedgerSpec => []OneEventPerKey
<1>1. ASSUME LedgerInv, NEW e \in events, NEW f \in events,
             e.draft.chain = f.draft.chain, e.draft.key = f.draft.key
      PROVE  e = f
  <2> DEFINE c == e.draft.chain
  <2>1. c \in Chains
    BY <1>1 DEF LedgerInv, LedgerTypeOK, AuditLedgerEntry, AuditEventDraft
  <2>2. RowFollows(e, HeadHash(c)) /\ RowFollows(f, HeadHash(c))
    BY <1>1 DEF LedgerInv, RowsFollowHead
  <2>3. HeadHash(c)[e.sequence_number].key = HeadHash(c)[f.sequence_number].key
    BY SMTT(30), <1>1, <2>2 DEF RowFollows
  <2>4. e.sequence_number = f.sequence_number
    BY <1>1, <2>1, <2>2, <2>3 DEF LedgerInv, HeadIsSound, RowFollows
  <2> QED BY <1>1, <2>4, PlaceNamesRow
<1>2. LedgerInv => OneEventPerKey
  BY <1>1 DEF OneEventPerKey
<1> QED BY <1>2, LedgerInvariant, PTL

(***************************************************************************)
(* recorded_at never runs back along a chain.                              *)
(***************************************************************************)
THEOREM ChainStaysChronological == LedgerSpec => []ChainIsChronological
<1>1. ASSUME LedgerInv, NEW e \in events, NEW f \in events,
             e.draft.chain = f.draft.chain, e.sequence_number < f.sequence_number
      PROVE  e.draft.recorded_at <= f.draft.recorded_at
  <2> DEFINE c == e.draft.chain
  <2>1. c \in Chains /\ e.sequence_number \in Nat /\ f.sequence_number \in Nat
    BY <1>1 DEF LedgerInv, LedgerTypeOK, AuditLedgerEntry, AuditEventDraft
  <2>2. RowFollows(e, HeadHash(c)) /\ RowFollows(f, HeadHash(c))
    BY <1>1 DEF LedgerInv, RowsFollowHead
  <2>3. e.sequence_number <= f.sequence_number
    BY <1>1, <2>1
  <2> QED BY <1>1, <2>1, <2>2, <2>3 DEF LedgerInv, HeadIsSound, RowFollows
<1>2. LedgerInv => ChainIsChronological
  BY <1>1 DEF ChainIsChronological
<1> QED BY <1>2, LedgerInvariant, PTL

(***************************************************************************)
(* The chain is numbered without gap or duplicate, linked from genesis to  *)
(* the head, and the head is its last row.                                 *)
(***************************************************************************)
THEOREM ChainStaysLinked == LedgerSpec => []ChainIsLinked
<1> SUFFICES LedgerInv => ChainIsLinked
  BY LedgerInvariant, PTL
<1> SUFFICES ASSUME LedgerInv, NEW c \in Chains
             PROVE  ChainIsLinked!(c)
  BY DEF ChainIsLinked
<1> DEFINE h == HeadHash(c)
<1>1. /\ h \in Seq(AuditEventDraft)
      /\ Len(h) \in Nat
      /\ heads[c].last_sequence = Len(h)
  <2>1. h \in Seq(AuditEventDraft)
    BY DEF LedgerInv, LedgerTypeOK, AuditChainHead, Hash, HeadHash
  <2> QED BY <2>1, LenProperties DEF LedgerInv, HeadIsSound
<1>2. ASSUME NEW e \in RowsOf(c)
      PROVE  /\ e \in events /\ e.draft.chain = c
             /\ RowFollows(e, h)
             /\ e.previous_event_hash \in Seq(AuditEventDraft)
             /\ e.event_hash \in Seq(AuditEventDraft)
  <2>1. e \in events /\ e.draft.chain = c
    BY <1>2 DEF RowsOf
  <2> QED BY <2>1 DEF LedgerInv, RowsFollowHead, LedgerTypeOK, AuditLedgerEntry, Hash
<1> HIDE DEF h
\* Event hashes spelled out place by place.
<1>3. ASSUME NEW e \in RowsOf(c)
      PROVE  /\ Len(e.event_hash) = e.sequence_number
             /\ \A i \in 1..e.sequence_number : e.event_hash[i] = h[i]
  <2>1. /\ RowFollows(e, h)
        /\ e.previous_event_hash \in Seq(AuditEventDraft)
        /\ e.draft \in AuditEventDraft
    BY <1>2 DEF LedgerInv, LedgerTypeOK, AuditLedgerEntry
  <2>2. e.sequence_number \in 1..Len(h)
    BY <2>1 DEF RowFollows
  <2>3. e.event_hash = Append(e.previous_event_hash, e.draft)
    BY <2>1 DEF RowFollows, EventHash
  <2>4. /\ Len(e.event_hash) = Len(e.previous_event_hash) + 1
        /\ \A i \in 1..Len(e.previous_event_hash) :
              e.event_hash[i] = e.previous_event_hash[i]
        /\ e.event_hash[Len(e.previous_event_hash) + 1] = e.draft
    BY <2>1, <2>3, AppendProperties
  <2> QED BY <1>1, <2>1, <2>2, <2>4 DEF RowFollows
<1>4. ASSUME NEW n \in 1..heads[c].last_sequence
      PROVE  \E e \in RowsOf(c) : /\ e.sequence_number = n
                                  /\ \A f \in RowsOf(c) : f.sequence_number = n => f = e
  <2>1. PICK e \in events : e.draft.chain = c /\ e.sequence_number = n
    BY <1>1 DEF LedgerInv, NoPlaceMissing, h
  <2>2. \A f \in RowsOf(c) : f.sequence_number = n => f = e
    BY <1>2, <2>1, PlaceNamesRow
  <2> QED BY <2>1, <2>2 DEF RowsOf
<1>5. ASSUME NEW e \in RowsOf(c)
      PROVE  /\ e.sequence_number <= heads[c].last_sequence
             /\ e.sequence_number = 1 => e.previous_event_hash = STEP33_GENESIS_SENTINEL
             /\ e.sequence_number = heads[c].last_sequence
                  => e.event_hash = heads[c].last_event_hash
             /\ \A f \in RowsOf(c) : f.sequence_number = e.sequence_number + 1
                  => f.previous_event_hash = e.event_hash
  <2>1. e.sequence_number \in 1..Len(h) /\ Len(e.previous_event_hash) = e.sequence_number - 1
    BY <1>2 DEF RowFollows
  <2>2. e.sequence_number = 1 => e.previous_event_hash = STEP33_GENESIS_SENTINEL
    BY <1>2, <2>1, EmptySeq DEF STEP33_GENESIS_SENTINEL
  <2>3. ASSUME e.sequence_number = heads[c].last_sequence
        PROVE  e.event_hash = heads[c].last_event_hash
    <3>1. Len(e.event_hash) = Len(h) /\ \A i \in 1..Len(e.event_hash) : e.event_hash[i] = h[i]
      BY <1>1, <1>3, <2>3
    <3>2. e.event_hash = h
      BY <1>1, <1>2, <3>1, SeqEqual
    <3> QED BY <3>2 DEF h, HeadHash
  <2>4. ASSUME NEW f \in RowsOf(c), f.sequence_number = e.sequence_number + 1
        PROVE  f.previous_event_hash = e.event_hash
    <3>1. /\ Len(f.previous_event_hash) = f.sequence_number - 1
          /\ \A i \in 1..(f.sequence_number - 1) : f.previous_event_hash[i] = h[i]
      BY <1>2 DEF RowFollows
    <3>2. /\ Len(f.previous_event_hash) = Len(e.event_hash)
          /\ \A i \in 1..Len(f.previous_event_hash) :
                f.previous_event_hash[i] = e.event_hash[i]
      BY <1>1, <1>3, <2>1, <2>4, <3>1
    <3> QED BY <1>2, <3>2, SeqEqual
  <2> QED BY <1>1, <2>1, <2>2, <2>3, <2>4
<1> QED BY <1>4, <1>5

(* Every reachable ledger is well typed and made of linked chains, for any   *)
(* number of appenders, chains and keys.                                     *)
THEOREM LedgerStaysConsistent == LedgerSpec => []LedgerConsistent
BY TypeCorrect, ChainStaysLinked, PTL DEF LedgerConsistent

(***************************************************************************)
(* No row changes, and the head moves by the one event its transaction     *)
(* inserts.                                                                *)
(***************************************************************************)
THEOREM LedgerOnlyGrows == LedgerSpec => AppendOnly
<1> DEFINE Grows ==
      /\ events \subseteq events'
      /\ \A c \in Chains : heads'[c] # heads[c] =>
            \E e \in events' \ events :
              /\ e.draft.chain = c
              /\ e.previous_event_hash = heads[c].last_event_hash
              /\ heads'[c].last_event_hash = e.event_hash
              /\ heads'[c].last_sequence = heads[c].last_sequence + 1
<1>1. ASSUME LedgerInv, [LedgerNext]_ledgerVars
      PROVE  Grows
  <2>1. CASE Answers
    BY <2>1 DEF Answers
  <2>2. ASSUME NEW d \in AuditEventDraft, Appends(d)
        PROVE  Grows
    <3> DEFINE n == Len(HeadHash(d.chain)) + 1
    <3>0. n = Len(HeadHash(d.chain)) + 1
      OBVIOUS
    <3> HIDE DEF n
    <3>1. /\ d.chain \in Chains
          /\ NewRow(d) = [draft |-> d, sequence_number |-> n,
                          previous_event_hash |-> HeadHash(d.chain),
                          event_hash |-> Append(HeadHash(d.chain), d),
                          payload |-> d.body]
          /\ heads'[d.chain].last_sequence = n
          /\ heads'[d.chain].last_event_hash = Append(HeadHash(d.chain), d)
          /\ \A c \in Chains : c # d.chain => heads'[c] = heads[c]
      BY <1>1, <2>2, <3>0, AppendEffect DEF LedgerInv
    <3>2. events' = events \cup {NewRow(d)} /\ RowsWithKey(d.chain, d.key) = {}
      BY <2>2 DEF Appends
    <3>3. NewRow(d) \notin events
      BY <3>1, <3>2 DEF RowsWithKey, RowsOf
    <3>4. heads[d.chain].last_sequence + 1 = n
      BY <1>1, <3>0, <3>1 DEF LedgerInv, HeadIsSound
    <3> QED BY <3>1, <3>2, <3>3, <3>4 DEF HeadHash
  <2> QED BY <1>1, <2>1, <2>2, StepShape DEF LedgerInv
<1>2. LedgerInv /\ [LedgerNext]_ledgerVars => [Grows]_ledgerVars
  BY <1>1
<1> QED BY <1>2, LedgerInvariant, PTL DEF LedgerSpec, AppendOnly

-----------------------------------------------------------------------------
(***************************************************************************)
(* The ledger implements the append-only log.                              *)
(***************************************************************************)

logBar == [c \in Chains |-> HeadHash(c)]
ackBar == {e.draft : e \in receipts}

\* The log's formulas at the refinement mapping.
LEMMA LogMeaning ==
    /\ Log!LogInit <=> logBar = [c \in Chains |-> << >>] /\ ackBar = {}
    /\ \A d : Log!Logged(d) <=>
          \E i \in 1..Len(logBar[d.chain]) : logBar[d.chain][i] = d
    /\ \A d : Log!KeyUsed(d) <=>
          \E i \in 1..Len(logBar[d.chain]) : logBar[d.chain][i].key = d.key
    /\ Log!LogNext <=> \E d \in AuditEventDraft :
          \/ /\ ~ Log!KeyUsed(d)
             /\ logBar' = [logBar EXCEPT ![d.chain] = Append(@, d)]
             /\ ackBar' \in {ackBar, ackBar \cup {d}}
          \/ /\ Log!Logged(d)
             /\ ackBar' = ackBar \cup {d}
             /\ logBar' = logBar
    /\ UNCHANGED Log!logVars <=> logBar' = logBar /\ ackBar' = ackBar
BY DEF Log!LogInit, Log!Logged, Log!KeyUsed, Log!LogNext, Log!LogEvent,
       Log!Acknowledge, Log!logVars, logBar, ackBar, HeadHash

LEMMA LogInitially == LedgerInit => Log!LogInit
BY LogMeaning DEF LedgerInit, logBar, ackBar, HeadHash, NoHead, STEP33_GENESIS_SENTINEL

LEMMA LogStep ==
    ASSUME LedgerInv, [LedgerNext]_ledgerVars
    PROVE  [Log!LogNext]_(Log!logVars)
<1>1. ASSUME Answers, receipts' = receipts
      PROVE  UNCHANGED Log!logVars
  BY <1>1, LogMeaning DEF Answers, logBar, ackBar, HeadHash
<1>2. ASSUME Answers, NEW e \in events, receipts' = receipts \cup {e}
      PROVE  Log!LogNext
  <2>1. e.draft \in AuditEventDraft /\ e.draft.chain \in Chains
    BY DEF LedgerInv, LedgerTypeOK, AuditLedgerEntry, AuditEventDraft
  <2>2. RowFollows(e, HeadHash(e.draft.chain))
    BY DEF LedgerInv, RowsFollowHead
  <2>3. Log!Logged(e.draft)
    BY <2>1, <2>2, LogMeaning DEF RowFollows, logBar
  <2>4. ackBar' = ackBar \cup {e.draft} /\ logBar' = logBar
    BY <1>2 DEF Answers, logBar, ackBar, HeadHash
  <2> QED BY <2>1, <2>3, <2>4, LogMeaning
<1>3. ASSUME NEW d \in AuditEventDraft, Appends(d)
      PROVE  Log!LogNext
  <2> DEFINE n == Len(HeadHash(d.chain)) + 1
  <2>0. n = Len(HeadHash(d.chain)) + 1
    OBVIOUS
  <2> HIDE DEF n
  <2>1. /\ d.chain \in Chains
        /\ NewRow(d) = [draft |-> d, sequence_number |-> n,
                        previous_event_hash |-> HeadHash(d.chain),
                        event_hash |-> Append(HeadHash(d.chain), d),
                        payload |-> d.body]
        /\ heads'[d.chain].last_event_hash = Append(HeadHash(d.chain), d)
        /\ \A c \in Chains : c # d.chain => heads'[c] = heads[c]
    BY <1>3, <2>0, AppendEffect DEF LedgerInv
  <2>2. ~ Log!KeyUsed(d)
    <3>1. RowsWithKey(d.chain, d.key) = {}
      BY <1>3 DEF Appends
    <3>2. \A i \in 1..Len(HeadHash(d.chain)) : HeadHash(d.chain)[i].key # d.key
      BY <2>1, <3>1, FreshKey DEF LedgerInv
    <3> QED BY <2>1, <3>2, LogMeaning DEF logBar
  <2>3. logBar' = [logBar EXCEPT ![d.chain] = Append(@, d)]
    <3>1. \A c \in Chains :
            heads'[c].last_event_hash =
              IF c = d.chain THEN Append(HeadHash(c), d) ELSE HeadHash(c)
      BY <2>1 DEF HeadHash
    <3> QED BY <2>1, <3>1 DEF logBar, HeadHash
  <2>4. ackBar' \in {ackBar, ackBar \cup {d}}
    <3>1. receipts' \in {receipts, receipts \cup {NewRow(d)}}
      BY <1>3 DEF Appends
    <3>2. NewRow(d).draft = d
      BY <2>1
    <3> QED BY <3>1, <3>2 DEF ackBar
  <2> QED BY <2>2, <2>3, <2>4, LogMeaning
<1> QED BY <1>1, <1>2, <1>3, StepShape DEF LedgerInv, Answers

(***************************************************************************)
(* Rows, lock and hash links keep the promise of the log.                  *)
(***************************************************************************)
THEOREM LedgerImplementsLog == LedgerSpec => ImplementsLog
<1>1. LedgerInit => Log!LogInit
  BY LogInitially
<1>2. LedgerInv /\ [LedgerNext]_ledgerVars => [Log!LogNext]_(Log!logVars)
  BY LogStep
<1> QED BY <1>1, <1>2, LedgerInvariant, PTL DEF LedgerSpec, ImplementsLog, Log!LogSpec

-----------------------------------------------------------------------------
(***************************************************************************)
(* What the readers return.                                                *)
(***************************************************************************)

\* The sequence of rows R, numbered from a on, is its rows in sequence order.
LEMMA RowsInSequence ==
    ASSUME NEW k \in Nat, NEW a \in Int, NEW R,
           R = [i \in 1..k |-> R[i]],
           \A i \in 1..k : R[i].sequence_number = a + i - 1
    PROVE  InSequence({R[i] : i \in 1..k}) = R
<1> DEFINE S == {R[i] : i \in 1..k}
           Ordered(s) == \A i, j \in DOMAIN s :
                            i < j => s[i].sequence_number <= s[j].sequence_number
<1>1. DOMAIN R = 1..k /\ R \in [1..k -> S]
  <2>1. [i \in 1..k |-> R[i]] \in [1..k -> S]
    OBVIOUS
  <2> QED BY <2>1
<1>2. \A i, j \in 1..k : R[i] = R[j] => i = j
  <2>1. \A i, j \in 1..k : a + i - 1 = a + j - 1 => i = j
    OBVIOUS
  <2> QED BY <2>1
<1>3. Cardinality(S) = k
  <2>1. R \in Injection(1..k, S) /\ R \in Surjection(1..k, S)
    BY <1>1, <1>2 DEF Injection, Surjection, IsInjective
  <2>2. ExistsBijection(1..k, S)
    BY <2>1 DEF ExistsBijection, Bijection
  <2> HIDE DEF S
  <2> QED BY <2>2, FS_CountingElements
<1> DEFINE Sorted == {s \in SetToSeqs(S) : Ordered(s)}
<1>4. R \in SetToSeqs(S)
  <2>1. \A i, j \in 1..k : i # j => R[i] # R[j]
    BY <1>2
  <2> HIDE DEF S
  <2> QED BY <1>1, <1>3, <2>1 DEF SetToSeqs
<1>5. Ordered(R)
  <2>1. \A i, j \in 1..k : i < j => a + i - 1 <= a + j - 1
    OBVIOUS
  <2> QED BY <1>1, <2>1
<1>6. ASSUME NEW s \in SetToSeqs(S), Ordered(s)
      PROVE  s = R
  <2>1. s \in [1..k -> S] /\ \A i, j \in 1..k : i # j => s[i] # s[j]
    <3> HIDE DEF S
    <3> QED BY <1>3 DEF SetToSeqs
  <2> DEFINE g == [i \in 1..k |-> s[i].sequence_number - a + 1]
  <2>2. ASSUME NEW i \in 1..k
        PROVE  g[i] \in 1..k /\ s[i] = R[g[i]] /\ s[i].sequence_number = a + g[i] - 1
    <3>1. PICK n \in 1..k : s[i] = R[n]
      BY <2>1
    <3>2. R[n].sequence_number = a + n - 1
      OBVIOUS
    <3>3. g[i] = n
      BY <3>1, <3>2
    <3> QED BY <3>1, <3>2, <3>3
  <2>3. \A i \in 1..k : g[i] \in 1..k
    BY <2>2
  <2>4. g \in [1..k -> 1..k]
    <3>1. g = [i \in 1..k |-> g[i]]
      OBVIOUS
    <3> HIDE DEF g
    <3> QED BY <2>3, <3>1
  <2>5. ASSUME NEW i \in 1..k, NEW j \in 1..k, i < j
        PROVE  g[i] < g[j]
    <3>1. s[i].sequence_number <= s[j].sequence_number
      BY <1>6, <2>1, <2>5
    <3>2. /\ s[i] = R[g[i]] /\ s[i].sequence_number = a + g[i] - 1 /\ g[i] \in 1..k
          /\ s[j] = R[g[j]] /\ s[j].sequence_number = a + g[j] - 1 /\ g[j] \in 1..k
      BY <2>2
    <3>3. i # j /\ s[i] # s[j]
      <4>1. i # j
        BY <2>5
      <4> QED BY <2>1, <4>1
    <3> HIDE DEF g
    <3>4. g[i] # g[j]
      BY <3>2, <3>3
    <3>5. g[i] \in Int /\ g[j] \in Int
      BY <3>2
    <3> QED BY ONLY <3>1, <3>2, <3>4, <3>5, a \in Int
  <2> HIDE DEF g
  <2>6. \A i \in 1..k : g[i] = i
    BY <2>4, <2>5, IncreasingIsIdentity
  <2>7. \A i \in 1..k : s[i] = R[i]
    BY <2>2, <2>6
  <2>8. s = [i \in 1..k |-> s[i]]
    BY <2>1
  <2> QED BY <2>7, <2>8
<1>7. InSequence(S) = CHOOSE s \in SetToSeqs(S) : Ordered(s)
  BY DEF InSequence
<1> HIDE DEF S, Ordered
<1>8. (CHOOSE s \in SetToSeqs(S) : Ordered(s)) = R
  BY <1>4, <1>5, <1>6
<1> QED BY <1>7, <1>8 DEF S

-----------------------------------------------------------------------------
\* The row that place n of a chain with hash h calls for, and k of them from a.
RowAt(h, n) ==
    [draft |-> h[n], sequence_number |-> n,
     previous_event_hash |-> SubSeq(h, 1, n - 1), event_hash |-> SubSeq(h, 1, n),
     payload |-> h[n].body]

Stretch(h, a, k) == [i \in 1..k |-> RowAt(h, a + i - 1)]

LEMMA HashOfChain ==
    ASSUME LedgerInv, NEW c \in Chains
    PROVE  /\ HeadHash(c) \in Seq(AuditEventDraft)
           /\ Len(HeadHash(c)) \in Nat
           /\ heads[c].last_sequence = Len(HeadHash(c))
           /\ heads[c].head_version = Len(HeadHash(c))
           /\ \A n \in 1..Len(HeadHash(c)) : HeadHash(c)[n].chain = c
<1>1. HeadHash(c) \in Seq(AuditEventDraft)
  BY DEF LedgerInv, LedgerTypeOK, AuditChainHead, Hash, HeadHash
<1> QED BY <1>1, LenProperties DEF LedgerInv, HeadIsSound

\* The prefixes of a hash.
LEMMA HashPrefixes ==
    ASSUME NEW h \in Seq(AuditEventDraft), NEW n \in 0..Len(h)
    PROVE  /\ SubSeq(h, 1, n) \in Seq(AuditEventDraft)
           /\ Len(SubSeq(h, 1, n)) = n
           /\ \A i \in 1..n : SubSeq(h, 1, n)[i] = h[i]
           /\ n = 0 => SubSeq(h, 1, n) = << >>
           /\ n >= 1 => SubSeq(h, 1, n) = Append(SubSeq(h, 1, n - 1), h[n])
<1>1. Len(h) \in Nat /\ n \in Nat /\ \A i \in 1..n : h[i] \in AuditEventDraft
  BY LenProperties, ElementOfSeq
<1>2. /\ SubSeq(h, 1, n) \in Seq(AuditEventDraft)
      /\ Len(SubSeq(h, 1, n)) = n
      /\ \A i \in 1..n : SubSeq(h, 1, n)[i] = h[i]
  BY <1>1, SubSeqProperties
<1>3. ASSUME n >= 1
      PROVE  SubSeq(h, 1, n) = Append(SubSeq(h, 1, n - 1), h[n])
  <2>1. 1 \in 1..Len(h) /\ n \in 1..Len(h)
    BY <1>1, <1>3
  <2>2. SubSeq(h, 1, n) = SubSeq(h, 1, n - 1) \o << h[n] >>
    BY <2>1, SubSeqRecursiveSecond
  <2>3. n - 1 \in Nat /\ \A i \in 1..(n - 1) : h[i] \in AuditEventDraft
    BY <1>1, <1>3
  <2>4. SubSeq(h, 1, n - 1) \in Seq(AuditEventDraft)
    BY <2>3, SubSeqProperties
  <2>5. h[n] \in AuditEventDraft
    BY <1>1, <1>3
  <2> QED BY <2>2, <2>4, <2>5, AppendIsConcat
<1>4. n = 0 => SubSeq(h, 1, n) = << >>
  BY SubSeqEmpty
<1> QED BY <1>2, <1>3, <1>4

\* The committed rows of a chain are those its head's hash calls for.
LEMMA RowsOfChain ==
    ASSUME LedgerInv, NEW c \in Chains
    PROVE  RowsOf(c) = {RowAt(HeadHash(c), n) : n \in 1..Len(HeadHash(c))}
<1> DEFINE h == HeadHash(c)
<1>1. h \in Seq(AuditEventDraft) /\ Len(h) \in Nat
  BY HashOfChain
<1>2. ASSUME NEW e \in RowsOf(c)
      PROVE  e.sequence_number \in 1..Len(h) /\ e = RowAt(h, e.sequence_number)
  <2>1. e \in events /\ e.draft.chain = c
    BY DEF RowsOf
  <2>2. RowFollows(e, h) /\ e \in AuditLedgerEntry
    BY <2>1 DEF LedgerInv, RowsFollowHead, LedgerTypeOK
  <2> HIDE DEF h
  <2>3. e.sequence_number \in 1..Len(h)
    BY <2>2 DEF RowFollows
  <2> DEFINE n == e.sequence_number
  <2>4. n \in 0..Len(h) /\ n - 1 \in 0..Len(h) /\ n \in Nat /\ n >= 1
    BY <1>1, <2>3
  <2>5. e.previous_event_hash = SubSeq(h, 1, n - 1)
    <3>1. e.previous_event_hash \in Seq(AuditEventDraft)
      BY <2>2 DEF AuditLedgerEntry, Hash
    <3>2. /\ SubSeq(h, 1, n - 1) \in Seq(AuditEventDraft)
          /\ Len(SubSeq(h, 1, n - 1)) = n - 1
          /\ \A i \in 1..(n - 1) : SubSeq(h, 1, n - 1)[i] = h[i]
      BY <1>1, <2>4, HashPrefixes
    <3>3. /\ Len(e.previous_event_hash) = n - 1
          /\ \A i \in 1..(n - 1) : e.previous_event_hash[i] = h[i]
      BY <2>2 DEF RowFollows
    <3> QED BY <3>1, <3>2, <3>3, SeqEqual
  <2>6. e.event_hash = SubSeq(h, 1, n)
    <3>1. e.event_hash = Append(e.previous_event_hash, h[n])
      BY <2>2 DEF RowFollows, EventHash
    <3>2. SubSeq(h, 1, n) = Append(SubSeq(h, 1, n - 1), h[n])
      BY <1>1, <2>4, HashPrefixes
    <3> QED BY <2>5, <3>1, <3>2
  <2>7. e.draft = h[n] /\ e.payload = h[n].body
    BY <2>2 DEF RowFollows
  <2> HIDE DEF n
  <2>8. e = RowAt(h, e.sequence_number)
    <3>1. e.sequence_number = n
      BY DEF n
    <3> QED BY <2>2, <2>5, <2>6, <2>7, <3>1 DEF AuditLedgerEntry, RowAt
  <2> QED BY <2>3, <2>8
<1>3. ASSUME NEW n \in 1..Len(h)
      PROVE  RowAt(h, n) \in RowsOf(c)
  <2>1. PICK e \in events : e.draft.chain = c /\ e.sequence_number = n
    BY DEF LedgerInv, NoPlaceMissing
  <2>2. e \in RowsOf(c)
    BY <2>1 DEF RowsOf
  <2>3. e = RowAt(h, n)
    BY <1>2, <2>1, <2>2
  <2> QED BY <2>2, <2>3
<1> QED BY <1>2, <1>3

\* load_range up to the end of the chain returns the stretch from there, as far
\* as it was asked for and one row more.
LEMMA Loads ==
    ASSUME LedgerInv, NEW c \in Chains, NEW m \in Nat,
           NEW a \in 1..(Len(HeadHash(c)) + 1)
    PROVE  LET L == Len(HeadHash(c))
           IN  LoadRange(c, a, L, m) =
                 Stretch(HeadHash(c), a, IF L - a + 1 <= m THEN L - a + 1 ELSE m + 1)
<1> DEFINE h == HeadHash(c)
           L == Len(h)
           k == L - a + 1
           R == Stretch(h, a, k)
<1>1. L \in Nat /\ a \in Int /\ a >= 1 /\ k \in Nat
  BY HashOfChain
<1>2. /\ R = [i \in 1..k |-> R[i]]
      /\ \A i \in 1..k : R[i] = RowAt(h, a + i - 1)
      /\ \A i \in 1..k : R[i].sequence_number = a + i - 1
  BY DEF Stretch, RowAt
<1>3. {e \in RowsOf(c) : e.sequence_number \in a..L} = {R[i] : i \in 1..k}
  <2>1. RowsOf(c) = {RowAt(h, n) : n \in 1..L}
    BY RowsOfChain
  <2>2. \A n : RowAt(h, n).sequence_number = n
    BY DEF RowAt
  <2>3. ASSUME NEW e \in RowsOf(c), e.sequence_number \in a..L
        PROVE  \E i \in 1..k : e = R[i]
    <3>1. PICK n \in 1..L : e = RowAt(h, n)
      BY <2>1
    <3>2. n \in a..L
      BY <2>2, <2>3, <3>1
    <3>3. n - a + 1 \in 1..k /\ a + (n - a + 1) - 1 = n
      BY <1>1, <3>2
    <3>4. R[n - a + 1] = RowAt(h, a + (n - a + 1) - 1)
      BY <1>2, <3>3
    <3> QED BY <3>1, <3>3, <3>4
  <2>4. ASSUME NEW i \in 1..k
        PROVE  R[i] \in RowsOf(c) /\ R[i].sequence_number \in a..L
    <3>1. a + i - 1 \in 1..L /\ a + i - 1 \in a..L
      BY <1>1
    <3>2. R[i] = RowAt(h, a + i - 1)
      BY <1>2
    <3> HIDE DEF R, k, L, h
    <3> QED BY <2>1, <2>2, <3>1, <3>2
  <2> HIDE DEF R, k, L, h
  <2> QED BY <2>3, <2>4
<1> DEFINE j == IF k <= m THEN k ELSE m + 1
<1>4. LoadRange(c, a, L, m) = SubSeq(R, 1, IF Len(R) <= m THEN Len(R) ELSE m + 1)
  <2>1. InSequence({R[i] : i \in 1..k}) = R
    <3> HIDE DEF R, k, L, h
    <3> QED BY <1>1, <1>2, RowsInSequence
  <2> HIDE DEF R, k, L, h
  <2> QED BY <1>3, <2>1 DEF LoadRange
<1>5. Len(R) = k /\ R \in Seq({R[i] : i \in 1..k})
  <2> HIDE DEF R, k, L, h
  <2> DEFINE T == {R[i] : i \in 1..k}
  <2>1. R \in [1..k -> T]
    <3>1. [i \in 1..k |-> R[i]] \in [1..k -> T]
      OBVIOUS
    <3> QED BY <1>2, <3>1
  <2> HIDE DEF T
  <2>2. R \in Seq(T) /\ Len(R) = k
    BY <1>1, <2>1
  <2> QED BY <2>2 DEF T
<1>6. SubSeq(R, 1, j) = Stretch(h, a, j)
  <2>1. j \in Nat /\ j <= k
    BY <1>1
  <2>2. SubSeq(R, 1, j) = [i \in 1..j |-> R[i]]
    <3>1. \A i \in 1..j : 1 + i - 1 = i
      BY <2>1
    <3> HIDE DEF R, j, k, L, h
    <3>2. SubSeq(R, 1, j) = [i \in 1..(1 + j - 1) |-> R[1 + i - 1]]
      BY <2>1
    <3> QED BY <2>1, <3>1, <3>2
  <2>3. \A i \in 1..j : i \in 1..k
    BY <2>1
  <2> HIDE DEF R, k, L, j
  <2> QED BY <1>2, <2>2, <2>3 DEF Stretch
<1> QED BY <1>4, <1>5, <1>6

-----------------------------------------------------------------------------
\* What a stretch of the chain c is, as a sequence.
Reads(s, c, h, a, k) ==
    /\ DOMAIN s = 1..k /\ Len(s) = k
    /\ \A i \in 1..k :
         /\ a + i - 1 \in 1..Len(h)
         /\ s[i] = RowAt(h, a + i - 1)
         /\ s[i].draft = h[a + i - 1]
         /\ s[i].draft.chain = c
         /\ s[i].sequence_number = a + i - 1
         /\ s[i].previous_event_hash = SubSeq(h, 1, a + i - 2)
         /\ s[i].event_hash = SubSeq(h, 1, a + i - 1)
         /\ s[i].payload = s[i].draft.body
         /\ s[i].event_hash = Append(s[i].previous_event_hash, s[i].draft)

LEMMA StretchRows ==
    ASSUME LedgerInv, NEW c \in Chains,
           NEW a \in 1..(Len(HeadHash(c)) + 1), NEW k \in 0..(Len(HeadHash(c)) - a + 1)
    PROVE  Reads(Stretch(HeadHash(c), a, k), c, HeadHash(c), a, k)
<1> DEFINE h == HeadHash(c)
           s == Stretch(h, a, k)
<1>1. /\ h \in Seq(AuditEventDraft) /\ Len(h) \in Nat
      /\ \A n \in 1..Len(h) : h[n].chain = c
  BY HashOfChain
<1> HIDE DEF h
<1>2. k \in Nat /\ a \in Nat
  BY <1>1 DEF h
<1>3. s = [i \in 1..k |-> RowAt(h, a + i - 1)]
  BY DEF Stretch
<1>4. DOMAIN s = 1..k /\ Len(s) = k
  <2>1. DOMAIN s = 1..k
    BY <1>3
  <2> HIDE DEF s
  <2>2. s = [i \in 1..k |-> s[i]]
    BY <1>3
  <2>3. Len(s) = k
    BY <1>2, <2>2
  <2> QED BY <2>1, <2>3
<1>5. ASSUME NEW i \in 1..k
      PROVE  /\ a + i - 1 \in 1..Len(h)
             /\ s[i] = RowAt(h, a + i - 1)
             /\ s[i].draft = h[a + i - 1]
             /\ s[i].draft.chain = c
             /\ s[i].sequence_number = a + i - 1
             /\ s[i].previous_event_hash = SubSeq(h, 1, a + i - 2)
             /\ s[i].event_hash = SubSeq(h, 1, a + i - 1)
             /\ s[i].payload = s[i].draft.body
             /\ s[i].event_hash = Append(s[i].previous_event_hash, s[i].draft)
  <2> DEFINE n == a + i - 1
  <2>1. n \in 1..Len(h) /\ n - 1 = a + i - 2 /\ n \in 0..Len(h) /\ n >= 1
    BY <1>1, <1>2 DEF h
  <2>2. s[i] = RowAt(h, n)
    BY <1>3
  <2> HIDE DEF s, n
  <2>3. h[n].chain = c
    BY <1>1, <2>1
  <2>4. /\ RowAt(h, n).draft = h[n]
        /\ RowAt(h, n).sequence_number = n
        /\ RowAt(h, n).previous_event_hash = SubSeq(h, 1, n - 1)
        /\ RowAt(h, n).event_hash = SubSeq(h, 1, n)
        /\ RowAt(h, n).payload = h[n].body
    BY DEF RowAt
  <2>5. SubSeq(h, 1, n) = Append(SubSeq(h, 1, n - 1), h[n])
    BY <1>1, <2>1, HashPrefixes
  <2>6. /\ s[i].draft = h[n]
        /\ s[i].draft.chain = c
        /\ s[i].sequence_number = n
        /\ s[i].previous_event_hash = SubSeq(h, 1, a + i - 2)
        /\ s[i].event_hash = SubSeq(h, 1, n)
        /\ s[i].payload = s[i].draft.body
        /\ s[i].event_hash = Append(s[i].previous_event_hash, s[i].draft)
    BY <2>1, <2>2, <2>3, <2>4, <2>5
  <2> QED BY <2>1, <2>2, <2>6 DEF n
<1> QED BY <1>4, <1>5 DEF h, Reads

\* The verifier accepts every stretch of a committed chain, behind the hash of
\* the row before it; the whole of it also against the head.
LEMMA StretchVerifies ==
    ASSUME LedgerInv, NEW c \in Chains,
           NEW a \in 1..Len(HeadHash(c)), NEW k \in 1..(Len(HeadHash(c)) - a + 1),
           NEW anchor, a > 1 => anchor = {SubSeq(HeadHash(c), 1, a - 1)},
           NEW expected, expected \subseteq {heads[c]},
           expected # {} => a = 1 /\ k = Len(HeadHash(c))
    PROVE  VerifyAuditChain(c, Stretch(HeadHash(c), a, k), anchor, expected) = {}
<1> DEFINE h == HeadHash(c)
           s == Stretch(h, a, k)
<1>1. /\ h \in Seq(AuditEventDraft) /\ Len(h) \in Nat
      /\ heads[c].last_sequence = Len(h)
      /\ heads[c].head_version = Len(h)
  BY HashOfChain
<1>2. Reads(s, c, h, a, k)
  <2>1. a \in 1..(Len(h) + 1) /\ k \in 0..(Len(h) - a + 1)
    BY <1>1
  <2> QED BY <2>1, StretchRows
<1>3. a \in Nat /\ k \in Nat /\ a >= 1 /\ k >= 1
  BY <1>1
<1>h. heads[c].last_event_hash = h
  BY DEF HeadHash
<1>k. expected # {} => a = 1 /\ k = Len(h)
  OBVIOUS
<1>a. a > 1 => anchor = {SubSeq(h, 1, a - 1)}
  OBVIOUS
<1> HIDE DEF s, h
<1> USE DEF Reads
<1>4. When(s = << >>, "AUDIT_GENESIS_INVALID") = {}
  <2>1. s # << >>
    BY <1>2, <1>3
  <2> QED BY <2>1 DEF When
<1>5. ASSUME NEW i \in 1..k
      PROVE  EntryReasons(s[i]) = {}
  BY <1>2 DEF EntryReasons, When, EventHash
\* Hashes at different places differ.
<1>6. ASSUME NEW i \in 1..k, NEW j \in 1..(i - 1)
      PROVE  s[j].event_hash # s[i].event_hash /\ s[j].sequence_number # s[i].sequence_number
  <2>1. j \in 1..k /\ i \in Nat /\ j \in Nat /\ j < i
    BY <1>3
  <2>2. /\ Len(SubSeq(h, 1, a + i - 1)) = a + i - 1
        /\ Len(SubSeq(h, 1, a + j - 1)) = a + j - 1
    <3>1. a + i - 1 \in 1..Len(h) /\ a + j - 1 \in 1..Len(h)
      BY <1>2, <2>1
    <3>2. a + i - 1 \in 0..Len(h) /\ a + j - 1 \in 0..Len(h)
      BY <3>1
    <3> QED BY <1>1, <3>2, HashPrefixes
  <2>3. a + i - 1 # a + j - 1
    BY <1>3, <2>1
  <2>4. /\ s[i].event_hash = SubSeq(h, 1, a + i - 1) /\ s[i].sequence_number = a + i - 1
        /\ s[j].event_hash = SubSeq(h, 1, a + j - 1) /\ s[j].sequence_number = a + j - 1
    BY <1>2, <2>1
  <2> QED BY <2>2, <2>3, <2>4
<1>7. ASSUME NEW i \in 1..k, i > 1
      PROVE  /\ i - 1 \in 1..k
             /\ s[i].sequence_number = s[i - 1].sequence_number + 1
             /\ s[i].previous_event_hash = s[i - 1].event_hash
  <2>1. i - 1 \in 1..k /\ a + (i - 1) - 1 = a + i - 2 /\ a + i - 2 + 1 = a + i - 1
    BY <1>3, <1>7
  <2> QED BY <1>2, <2>1
<1>8. s[1].sequence_number = a /\ s[1].previous_event_hash = SubSeq(h, 1, a - 1) /\ 1 \in 1..k
  <2>1. 1 \in 1..k /\ a + 1 - 1 = a /\ a + 1 - 2 = a - 1
    BY <1>3
  <2> QED BY <1>2, <2>1
<1>9. a = 1 => SubSeq(h, 1, a - 1) = << >>
  BY <1>1, HashPrefixes
<1>10. ASSUME NEW i \in 1..k
       PROVE  LinkReasons(c, s, anchor, i) = {}
  <2> DEFINE earlier == {s[j] : j \in 1..(i - 1)}
             genesis == s[i].sequence_number = 1
             hashes == IF i > 1 THEN {s[i - 1].event_hash}
                       ELSE IF genesis THEN {STEP33_GENESIS_SENTINEL} ELSE anchor
  <2>1. s[i].previous_event_hash \in hashes
    <3>1. CASE i > 1
      BY <1>7, <3>1
    <3>2. CASE ~ (i > 1)
      <4>1. i = 1
        BY <1>3, <3>2
      <4>2. CASE a = 1
        <5>1. s[1].previous_event_hash = STEP33_GENESIS_SENTINEL
          BY <1>8, <1>9, <4>2 DEF STEP33_GENESIS_SENTINEL
        <5>2. s[1].sequence_number = 1
          BY <1>8, <4>2
        <5>3. hashes = {STEP33_GENESIS_SENTINEL}
          BY <3>2, <4>1, <5>2
        <5> QED BY <4>1, <5>1, <5>3
      <4>3. CASE a # 1
        <5>1. a > 1
          BY <1>3, <4>3
        <5> QED BY <1>8, <1>a, <4>1, <4>3, <5>1
      <4> QED BY <4>2, <4>3
    <3> QED BY <3>1, <3>2
  <2>2. ~ (s[i].draft.chain # c \/ \E f \in earlier : f.event_hash = s[i].event_hash)
    BY <1>2, <1>6
  <2>3. ~ (\E f \in earlier : f.sequence_number = s[i].sequence_number)
    <3>1. \A j \in 1..(i - 1) : s[j].sequence_number # s[i].sequence_number
      BY <1>6
    <3> QED BY ONLY <3>1
  <2>4. ~ (i > 1 /\ s[i].sequence_number # s[i - 1].sequence_number + 1)
    BY <1>7
  <2>5. LinkReasons(c, s, anchor, i) =
          When(s[i].draft.chain # c \/ \E f \in earlier : f.event_hash = s[i].event_hash,
               "AUDIT_EVENT_INVALID")
            \cup When(\E f \in earlier : f.sequence_number = s[i].sequence_number,
                      "AUDIT_SEQUENCE_DUPLICATE")
            \cup When(i > 1 /\ s[i].sequence_number # s[i - 1].sequence_number + 1,
                      "AUDIT_SEQUENCE_GAP")
            \cup When(s[i].previous_event_hash \notin hashes,
                      IF genesis THEN "AUDIT_GENESIS_INVALID"
                      ELSE "AUDIT_PREVIOUS_HASH_MISMATCH")
    BY DEF LinkReasons
  <2> HIDE DEF earlier, genesis, hashes
  <2> QED BY <2>1, <2>2, <2>3, <2>4, <2>5 DEF When
<1>11. ASSUME NEW head \in expected
       PROVE  HeadReasons(s, head) = {}
  <2>1. head = heads[c] /\ a = 1 /\ k = Len(h)
    BY <1>k
  <2>2. Last(s).sequence_number = Len(h) /\ Last(s).event_hash = h /\ s # << >>
    <3>1. Last(s) = s[k] /\ k \in 1..k /\ a + k - 1 = Len(h) /\ s # << >>
      BY <1>2, <1>3, <2>1 DEF Last
    <3>2. SubSeq(h, 1, Len(h)) = h
      BY <1>1, SubSeqFull
    <3> QED BY <1>2, <3>1, <3>2
  <2> QED BY <1>1, <1>h, <2>1, <2>2 DEF HeadReasons, When
<1>12. VerifyAuditChain(c, s, anchor, expected) =
         When(s = << >>, "AUDIT_GENESIS_INVALID")
           \cup (UNION {EntryReasons(s[i]) \cup LinkReasons(c, s, anchor, i) : i \in DOMAIN s})
           \cup (UNION {HeadReasons(s, head) : head \in expected})
  BY DEF VerifyAuditChain
<1>13. VerifyAuditChain(c, s, anchor, expected) = {}
  <2>1. \A i \in DOMAIN s : EntryReasons(s[i]) = {} /\ LinkReasons(c, s, anchor, i) = {}
    BY <1>2, <1>5, <1>10
  <2>2. UNION {EntryReasons(s[i]) \cup LinkReasons(c, s, anchor, i) : i \in DOMAIN s} = {}
    BY ONLY <2>1
  <2>3. UNION {HeadReasons(s, head) : head \in expected} = {}
    BY <1>11
  <2> QED BY ONLY <1>4, <1>12, <2>2, <2>3
<1> QED BY <1>13 DEF s, h

-----------------------------------------------------------------------------
\* A chain has a head row only with a first event.
UsedHeads == \A c \in Chains : heads[c] # NoHead => Len(HeadHash(c)) >= 1

LEMMA UsedStep ==
    ASSUME LedgerInv, UsedHeads, [LedgerNext]_ledgerVars
    PROVE  UsedHeads'
<1>1. CASE Answers
  BY <1>1 DEF Answers, UsedHeads, HeadHash
<1>2. ASSUME NEW d \in AuditEventDraft, Appends(d), NEW c \in Chains
      PROVE  heads'[c] # NoHead => Len(HeadHash(c)') >= 1
  <2> DEFINE n == Len(HeadHash(d.chain)) + 1
  <2>0. n = Len(HeadHash(d.chain)) + 1
    OBVIOUS
  <2> HIDE DEF n
  <2>1. /\ n \in Nat \ {0}
        /\ Len(HeadHash(d.chain)') = n
        /\ \A b \in Chains : b # d.chain => heads'[b] = heads[b]
    BY <1>2, <2>0, AppendEffect DEF LedgerInv
  <2>2. CASE c = d.chain
    BY <2>1, <2>2
  <2>3. CASE c # d.chain
    <3>1. heads'[c] = heads[c]
      BY <2>1, <2>3
    <3> QED BY <3>1 DEF UsedHeads, HeadHash
  <2> QED BY <2>2, <2>3
<1> QED BY <1>1, <1>2, StepShape DEF UsedHeads, LedgerInv

LEMMA ReaderInvariant == LedgerSpec => [](LedgerInv /\ UsedHeads)
<1>1. LedgerInit => UsedHeads
  BY DEF LedgerInit, UsedHeads
<1>2. LedgerInv /\ UsedHeads /\ [LedgerNext]_ledgerVars => UsedHeads'
  BY UsedStep
<1> QED BY <1>1, <1>2, LedgerInvariant, PTL DEF LedgerSpec

\* All the rows of a chain.
LEMMA WholeChain ==
    ASSUME LedgerInv, NEW c \in Chains
    PROVE  LoadRange(c, 1, heads[c].last_sequence, heads[c].last_sequence)
             = Stretch(HeadHash(c), 1, Len(HeadHash(c)))
<1> DEFINE L == Len(HeadHash(c))
<1>1. L \in Nat /\ heads[c].last_sequence = L
  BY HashOfChain
<1> HIDE DEF L
<1>2. 1 \in 1..(L + 1) /\ L - 1 + 1 = L /\ L <= L
  BY <1>1
<1>3. LoadRange(c, 1, L, L)
        = Stretch(HeadHash(c), 1, IF L - 1 + 1 <= L THEN L - 1 + 1 ELSE L + 1)
  BY <1>1, <1>2, Loads DEF L
<1>4. LoadRange(c, 1, L, L) = Stretch(HeadHash(c), 1, L)
  BY <1>2, <1>3
<1> QED BY <1>1, <1>4 DEF L

LEMMA ChainsVerify ==
    ASSUME LedgerInv, UsedHeads
    PROVE  EveryChainVerifies
<1> SUFFICES ASSUME NEW c \in Chains, heads[c] # NoHead
             PROVE  VerifyChain(c) = When(heads[c].last_sequence > VerifyLimit,
                                          "AUDIT_EXPORT_TRUNCATED")
  BY DEF EveryChainVerifies
<1> DEFINE L == Len(HeadHash(c))
<1>1. L \in Nat /\ L >= 1 /\ heads[c].last_sequence = L
  BY HashOfChain DEF UsedHeads
<1>2. CASE heads[c].last_sequence > VerifyLimit
  BY <1>2 DEF VerifyChain, When
<1>3. CASE ~ (heads[c].last_sequence > VerifyLimit)
  <2>1. VerifyChain(c) = VerifyAuditChain(c, Stretch(HeadHash(c), 1, L), {}, {heads[c]})
    BY <1>3, WholeChain DEF VerifyChain
  <2>2. 1 \in 1..L /\ L \in 1..(L - 1 + 1) /\ ~ (1 > 1)
    BY <1>1
  <2>3. VerifyAuditChain(c, Stretch(HeadHash(c), 1, L), {}, {heads[c]}) = {}
    BY <2>2, StretchVerifies
  <2> QED BY <1>3, <2>1, <2>3 DEF When
<1> QED BY <1>2, <1>3

-----------------------------------------------------------------------------
\* What a stored row can look like after it was altered.
AlteredRow ==
    [draft : AuditEventDraft, sequence_number : Nat \ {0},
     previous_event_hash : Hash, event_hash : Hash, payload : Bodies \cup {"TAMPERED"}]

\* No part of an accepted sequence gave a reason against it.
LEMMA NoReasons ==
    ASSUME NEW c, NEW s, NEW anchor, NEW expected,
           VerifyAuditChain(c, s, anchor, expected) = {}
    PROVE  /\ When(s = << >>, "AUDIT_GENESIS_INVALID") = {}
           /\ \A i \in DOMAIN s : EntryReasons(s[i]) = {} /\ LinkReasons(c, s, anchor, i) = {}
           /\ \A head \in expected : HeadReasons(s, head) = {}
<1> DEFINE some == When(s = << >>, "AUDIT_GENESIS_INVALID")
           each == UNION {EntryReasons(s[i]) \cup LinkReasons(c, s, anchor, i) : i \in DOMAIN s}
           last == UNION {HeadReasons(s, head) : head \in expected}
<1>1. VerifyAuditChain(c, s, anchor, expected) = some \cup each \cup last
  BY DEF VerifyAuditChain
<1>2. \A head \in expected : HeadReasons(s, head) \subseteq last
  OBVIOUS
<1>3. \A i \in DOMAIN s : EntryReasons(s[i]) \cup LinkReasons(c, s, anchor, i) \subseteq each
  OBVIOUS
<1> HIDE DEF some, each, last
<1>4. some = {} /\ each = {} /\ last = {}
  BY <1>1
<1>5. \A i \in DOMAIN s : EntryReasons(s[i]) = {} /\ LinkReasons(c, s, anchor, i) = {}
  BY <1>3, <1>4
<1>6. \A head \in expected : HeadReasons(s, head) = {}
  BY <1>2, <1>4
<1> QED BY <1>4, <1>5, <1>6 DEF some

\* Only the committed chain verifies against its head.  Going up, an accepted
\* sequence is numbered from 1; coming down from the head, each hash names the
\* draft and the hash before it.
LEMMA AcceptedIsTheChain ==
    ASSUME LedgerInv, NEW c \in Chains, NEW s \in Seq(AlteredRow),
           VerifyAuditChain(c, s, {}, {heads[c]}) = {}
    PROVE  s = Stretch(HeadHash(c), 1, Len(HeadHash(c)))
<1> DEFINE h == HeadHash(c)
           N == Len(s)
<1>1. /\ h \in Seq(AuditEventDraft) /\ Len(h) \in Nat
      /\ heads[c].last_sequence = Len(h) /\ heads[c].last_event_hash = h
  BY HashOfChain DEF HeadHash
<1>2. N \in Nat /\ DOMAIN s = 1..N /\ \A i \in 1..N : s[i] \in AlteredRow
  BY LenProperties, ElementOfSeq
<1> HIDE DEF h, N
<1>3. /\ When(s = << >>, "AUDIT_GENESIS_INVALID") = {}
      /\ \A i \in DOMAIN s : EntryReasons(s[i]) = {} /\ LinkReasons(c, s, {}, i) = {}
      /\ HeadReasons(s, heads[c]) = {}
  <2>1. \A head \in {heads[c]} : HeadReasons(s, head) = {}
    BY NoReasons
  <2> QED BY <2>1, NoReasons
<1>4. s # << >> /\ N >= 1
  <2>1. s # << >>
    BY <1>3 DEF When
  <2> QED BY <1>2, <2>1, EmptySeq DEF N
<1>5. ASSUME NEW i \in 1..N
      PROVE  s[i].event_hash = Append(s[i].previous_event_hash, s[i].draft)
             /\ s[i].payload = s[i].draft.body
  BY <1>2, <1>3 DEF EntryReasons, When, EventHash
<1>6. ASSUME NEW i \in 1..N
      PROVE  /\ i > 1 => /\ s[i].sequence_number = s[i - 1].sequence_number + 1
                         /\ s[i].previous_event_hash = s[i - 1].event_hash
             /\ i = 1 => /\ s[i].sequence_number = 1
                         /\ s[i].previous_event_hash = << >>
  <2>1. LinkReasons(c, s, {}, i) = {}
    BY <1>2, <1>3
  <2> DEFINE genesis == s[i].sequence_number = 1
             hashes == IF i > 1 THEN {s[i - 1].event_hash}
                       ELSE IF genesis THEN {STEP33_GENESIS_SENTINEL} ELSE {}
             reason == IF genesis THEN "AUDIT_GENESIS_INVALID"
                       ELSE "AUDIT_PREVIOUS_HASH_MISMATCH"
  <2>2. /\ When(i > 1 /\ s[i].sequence_number # s[i - 1].sequence_number + 1,
                "AUDIT_SEQUENCE_GAP") \subseteq LinkReasons(c, s, {}, i)
        /\ When(s[i].previous_event_hash \notin hashes, reason)
             \subseteq LinkReasons(c, s, {}, i)
    BY DEF LinkReasons
  <2> HIDE DEF reason
  <2>3. i > 1 => s[i].sequence_number = s[i - 1].sequence_number + 1
    BY <2>1, <2>2 DEF When
  <2>4. s[i].previous_event_hash \in hashes
    BY <2>1, <2>2 DEF When
  <2>5. i > 1 => s[i].previous_event_hash = s[i - 1].event_hash
    BY <2>4
  <2>6. i = 1 => s[i].sequence_number = 1 /\ s[i].previous_event_hash = << >>
    <3>1. SUFFICES ASSUME i = 1
                   PROVE  s[i].sequence_number = 1 /\ s[i].previous_event_hash = << >>
      OBVIOUS
    <3>2. ~ (i > 1)
      BY <3>1
    <3>3. hashes = IF genesis THEN {STEP33_GENESIS_SENTINEL} ELSE {}
      BY <3>2
    <3> QED BY <2>4, <3>3 DEF STEP33_GENESIS_SENTINEL
  <2> QED BY <2>3, <2>5, <2>6
<1> DEFINE Numbered == {i \in 1..N : s[i].sequence_number = i}
<1>7. \A i \in 1..N : i \in Numbered
  <2>1. N >= 1 => 1 \in Numbered
    BY <1>2, <1>6
  <2>2. ASSUME NEW i \in 1..N, i \in Numbered, i < N
        PROVE  i + 1 \in Numbered
    <3>1. i + 1 \in 1..N /\ i + 1 > 1 /\ (i + 1) - 1 = i
      BY <1>2, <2>2
    <3>2. s[i + 1].sequence_number = s[i].sequence_number + 1
      BY <1>6, <3>1
    <3> QED BY <2>2, <3>1, <3>2
  <2> HIDE DEF Numbered
  <2> QED BY <1>2, <2>1, <2>2, InductionUp
<1>8. N = Len(h) /\ s[N].event_hash = h
  <2>1. << heads[c].last_sequence, heads[c].last_event_hash >>
          = << Last(s).sequence_number, Last(s).event_hash >>
    BY <1>3, <1>4 DEF HeadReasons, When
  <2>2. Last(s) = s[N] /\ s[N].sequence_number = N
    BY <1>2, <1>4, <1>7 DEF Last, N
  <2> QED BY <1>1, <2>1, <2>2
<1> DEFINE Bound == {i \in 1..N : s[i].event_hash = SubSeq(h, 1, i)}
\* What the hash at place i + 1 says of itself and of the place before.
<1>9. ASSUME NEW i \in 1..N, i \in Bound
      PROVE  s[i].previous_event_hash = SubSeq(h, 1, i - 1) /\ s[i].draft = h[i]
  <2>1. /\ s[i].previous_event_hash \in Seq(AuditEventDraft)
        /\ s[i].draft \in AuditEventDraft
    BY <1>2 DEF AlteredRow, Hash
  <2>2. i \in 0..Len(h) /\ i - 1 \in 0..Len(h) /\ i >= 1 /\ i \in 1..Len(h)
    BY <1>1, <1>2, <1>8
  <2>3. /\ SubSeq(h, 1, i - 1) \in Seq(AuditEventDraft)
        /\ SubSeq(h, 1, i) = Append(SubSeq(h, 1, i - 1), h[i])
        /\ h[i] \in AuditEventDraft
    BY <1>1, <2>2, HashPrefixes, ElementOfSeq
  <2>4. Append(s[i].previous_event_hash, s[i].draft) = Append(SubSeq(h, 1, i - 1), h[i])
    BY <1>5, <1>9, <2>3
  <2> DEFINE before == s[i].previous_event_hash
             draft == s[i].draft
             prefix == SubSeq(h, 1, i - 1)
             own == h[i]
  <2>5. /\ before \in Seq(AuditEventDraft) /\ draft \in AuditEventDraft
        /\ prefix \in Seq(AuditEventDraft) /\ own \in AuditEventDraft
        /\ Append(before, draft) = Append(prefix, own)
    BY <2>1, <2>3, <2>4
  <2> HIDE DEF before, draft, prefix, own
  <2>6. before = prefix /\ draft = own
    BY <2>5, AppendInjective
  <2> QED BY <2>6 DEF before, draft, prefix, own
<1>10. \A i \in 1..N : i \in Bound
  <2>1. N >= 1 => N \in Bound
    <3>1. SubSeq(h, 1, N) = h
      BY <1>1, <1>8, SubSeqFull
    <3> QED BY <1>2, <1>8, <3>1
  <2>2. ASSUME NEW i \in 1..N, i + 1 \in Bound, i < N
        PROVE  i \in Bound
    <3>1. i + 1 \in 1..N /\ i + 1 > 1 /\ (i + 1) - 1 = i
      BY <1>2, <2>2
    <3>2. s[i + 1].previous_event_hash = SubSeq(h, 1, i)
      BY <1>9, <2>2, <3>1
    <3>3. s[i + 1].previous_event_hash = s[i].event_hash
      BY <1>6, <3>1
    <3> QED BY <3>2, <3>3
  <2> HIDE DEF Bound
  <2> QED BY <1>2, <2>1, <2>2, InductionDown
<1>11. ASSUME NEW i \in 1..N
       PROVE  s[i] = RowAt(h, i)
  <2>1. s[i].previous_event_hash = SubSeq(h, 1, i - 1) /\ s[i].draft = h[i]
    BY <1>9, <1>10
  <2>2. s[i].event_hash = SubSeq(h, 1, i) /\ s[i].sequence_number = i
    BY <1>7, <1>10
  <2>3. s[i].payload = h[i].body /\ s[i] \in AlteredRow
    BY <1>2, <1>5, <2>1
  <2> QED BY <2>1, <2>2, <2>3 DEF AlteredRow, RowAt
<1>12. s = Stretch(h, 1, N)
  <2>1. s = [i \in 1..N |-> s[i]]
    BY LenProperties DEF N
  <2>2. \A i \in 1..N : 1 + i - 1 = i
    BY <1>2
  <2> QED BY <1>11, <2>1, <2>2 DEF Stretch
<1> QED BY <1>8, <1>12 DEF h

-----------------------------------------------------------------------------
\* A sequence in which one member, or the length, is another is another one.
LEMMA OneReplaced ==
    ASSUME NEW S, NEW s \in Seq(S), NEW i \in 1..Len(s), NEW e \in S, e # s[i]
    PROVE  [s EXCEPT ![i] = e] \in Seq(S) /\ [s EXCEPT ![i] = e] # s
<1>1. [s EXCEPT ![i] = e] \in Seq(S) /\ [s EXCEPT ![i] = e][i] = e
  BY ExceptSeq
<1> QED BY <1>1

LEMMA TwoExchanged ==
    ASSUME NEW S, NEW s \in Seq(S), NEW i \in 1..Len(s), NEW j \in 1..Len(s), s[i] # s[j]
    PROVE  LET t == [s EXCEPT ![i] = s[j], ![j] = s[i]]
           IN  t \in Seq(S) /\ t # s
<1> DEFINE u == [s EXCEPT ![i] = s[j]]
           t == [s EXCEPT ![i] = s[j], ![j] = s[i]]
<1>1. s[i] \in S /\ s[j] \in S
  BY ElementOfSeq
<1>2. u \in Seq(S) /\ Len(u) = Len(s) /\ u[i] = s[j]
  BY <1>1, ExceptSeq
<1>3. t = [u EXCEPT ![j] = s[i]]
  OBVIOUS
<1> HIDE DEF u
<1>4. t \in Seq(S) /\ t[j] = s[i]
  BY <1>1, <1>2, <1>3, ExceptSeq
<1> HIDE DEF t
<1>5. t # s
  BY <1>4
<1> QED BY <1>4, <1>5 DEF t

LEMMA OneRemoved ==
    ASSUME NEW S, NEW s \in Seq(S), NEW i \in 1..Len(s)
    PROVE  /\ RemoveAt(s, i) \in Seq(S) /\ RemoveAt(s, i) # s
           /\ InsertAt(s, i, s[i]) \in Seq(S) /\ InsertAt(s, i, s[i]) # s
           /\ SubSeq(s, 1, i - 1) \in Seq(S) /\ SubSeq(s, 1, i - 1) # s
<1> DEFINE L == Len(s)
           front == SubSeq(s, 1, i - 1)
           back == SubSeq(s, i + 1, L)
           rest == SubSeq(s, i, L)
<1>1. L \in Nat /\ i \in Nat /\ i >= 1 /\ i <= L /\ \A n \in 1..L : s[n] \in S
  BY LenProperties, ElementOfSeq
<1>2. front \in Seq(S) /\ Len(front) = i - 1
  <2>1. \A n \in 1..(i - 1) : s[n] \in S
    BY <1>1
  <2> HIDE DEF L
  <2> QED BY <1>1, <2>1, SubSeqProperties
<1>3. back \in Seq(S) /\ Len(back) = L - i
  <2>1. \A n \in (i + 1)..L : s[n] \in S
    BY <1>1
  <2> HIDE DEF L
  <2>2. back \in Seq(S) /\ Len(back) = IF i + 1 <= L THEN L - (i + 1) + 1 ELSE 0
    BY <1>1, <2>1, SubSeqProperties
  <2> QED BY <1>1, <2>2
<1>4. rest \in Seq(S) /\ Len(rest) = L - i + 1
  <2>1. \A n \in i..L : s[n] \in S
    BY <1>1
  <2> HIDE DEF L
  <2>2. rest \in Seq(S) /\ Len(rest) = IF i <= L THEN L - i + 1 ELSE 0
    BY <1>1, <2>1, SubSeqProperties
  <2> QED BY <1>1, <2>2
<1>5. RemoveAt(s, i) = front \o back /\ InsertAt(s, i, s[i]) = front \o << s[i] >> \o rest
  BY DEF RemoveAt, InsertAt
<1> HIDE DEF front, back, rest
<1>6. front \o back \in Seq(S) /\ Len(front \o back) = (i - 1) + (L - i)
  BY <1>2, <1>3, ConcatProperties
<1>7. << s[i] >> \in Seq(S) /\ Len(<< s[i] >>) = 1
  BY <1>1
<1>8. (front \o << s[i] >>) \in Seq(S) /\ Len(front \o << s[i] >>) = i - 1 + 1
  BY <1>2, <1>7, ConcatProperties
<1>9. /\ front \o << s[i] >> \o rest \in Seq(S)
      /\ Len(front \o << s[i] >> \o rest) = (i - 1 + 1) + (L - i + 1)
  <2> DEFINE most == front \o << s[i] >>
  <2>1. most \in Seq(S) /\ Len(most) = i - 1 + 1
    BY <1>8
  <2> HIDE DEF most
  <2>2. most \o rest \in Seq(S) /\ Len(most \o rest) = Len(most) + Len(rest)
    BY <1>4, <2>1, ConcatProperties
  <2> QED BY <1>4, <2>1, <2>2 DEF most
<1>10. (i - 1) + (L - i) # L /\ (i - 1 + 1) + (L - i + 1) # L /\ i - 1 # L
  BY <1>1
<1> QED BY <1>2, <1>5, <1>6, <1>9, <1>10 DEF front

\* A chain rebuilt over the drafts.
LEMMA ForgedRows ==
    ASSUME NEW drafts \in Seq(AuditEventDraft)
    PROVE  /\ Forged(drafts) \in Seq(AlteredRow)
           /\ Len(Forged(drafts)) = Len(drafts)
           /\ \A n \in 1..Len(drafts) : Forged(drafts)[n].draft = drafts[n]
<1>1. DOMAIN drafts = 1..Len(drafts) /\ Len(drafts) \in Nat
  BY LenProperties
<1>2. ASSUME NEW n \in 1..Len(drafts)
      PROVE  BuildEntry(drafts[n], n, SubSeq(drafts, 1, n - 1)) \in AlteredRow
  <2>1. n - 1 \in 0..Len(drafts) /\ n \in Nat \ {0}
    BY <1>1
  <2>2. drafts[n] \in AuditEventDraft /\ drafts[n].body \in Bodies
    <3>1. drafts[n] \in AuditEventDraft
      BY ElementOfSeq
    <3> QED BY <3>1 DEF AuditEventDraft
  <2>3. SubSeq(drafts, 1, n - 1) \in Hash
    BY <2>1, HashPrefixes DEF Hash
  <2> DEFINE before == SubSeq(drafts, 1, n - 1)
  <2> HIDE DEF before
  <2>4. before \in Hash
    BY <2>3 DEF before
  <2>5. Append(before, drafts[n]) \in Hash
    BY <2>2, <2>4, AppendProperties DEF Hash
  <2>6. BuildEntry(drafts[n], n, before) \in AlteredRow
    BY <2>1, <2>2, <2>4, <2>5 DEF BuildEntry, EventHash, AlteredRow
  <2> QED BY <2>6 DEF before
<1> DEFINE e(n) == BuildEntry(drafts[n], n, SubSeq(drafts, 1, n - 1))
<1>3. Forged(drafts) = [n \in 1..Len(drafts) |-> e(n)]
  BY <1>1 DEF Forged
<1>4. \A n \in 1..Len(drafts) : e(n) \in AlteredRow /\ e(n).draft = drafts[n]
  BY <1>2 DEF BuildEntry
<1> HIDE DEF e
<1>5. [n \in 1..Len(drafts) |-> e(n)] \in Seq(AlteredRow)
  BY <1>1, <1>4, IsASeq
<1>6. Len(Forged(drafts)) = Len(drafts)
  <2> DEFINE f == Forged(drafts)
             k == Len(drafts)
  <2>1. f = [n \in 1..k |-> f[n]] /\ k \in Nat
    BY <1>1, <1>3
  <2> HIDE DEF f, k
  <2>2. Len(f) = k
    BY <2>1
  <2> QED BY <2>2 DEF f, k
<1> QED BY <1>3, <1>4, <1>5, <1>6

LEMMA TamperingShows ==
    ASSUME LedgerInv
    PROVE  TamperingIsDetected
<1> SUFFICES ASSUME NEW c \in Chains,
                    NEW altered \in Alterations(LoadRange(c, 1, heads[c].last_sequence,
                                                          heads[c].last_sequence))
             PROVE  VerifyAuditChain(c, altered, {}, {heads[c]}) # {}
  BY DEF TamperingIsDetected
<1> DEFINE h == HeadHash(c)
           L == Len(h)
           rows == Stretch(h, 1, L)
<1>1. h \in Seq(AuditEventDraft) /\ L \in Nat
  BY HashOfChain
<1>2. altered \in Alterations(rows)
  BY WholeChain
<1>3. Reads(rows, c, h, 1, L)
  <2>1. 1 \in 1..(L + 1) /\ L \in 0..(L - 1 + 1)
    BY <1>1
  <2> QED BY <2>1, StretchRows
<1>4. SUFFICES altered \in Seq(AlteredRow) /\ altered # rows
  BY AcceptedIsTheChain
<1> HIDE DEF rows, h
<1>5. DOMAIN rows = 1..L /\ Len(rows) = L
  BY <1>3 DEF Reads
<1>6. ASSUME NEW i \in 1..L
      PROVE  /\ rows[i] \in AlteredRow
             /\ rows[i].draft = h[i] /\ h[i] \in AuditEventDraft
             /\ rows[i].sequence_number = i
             /\ rows[i].previous_event_hash \in Hash
  <2>1. 1 + i - 1 = i /\ i \in Nat \ {0} /\ i \in 0..L /\ i - 1 \in 0..L
    BY <1>1
  <2>2. rows[i] = RowAt(h, i) /\ rows[i].draft = h[i] /\ rows[i].sequence_number = i
    BY <1>3, <2>1 DEF Reads
  <2>3. SubSeq(h, 1, i) \in Hash /\ SubSeq(h, 1, i - 1) \in Hash
    BY <1>1, <2>1, HashPrefixes DEF Hash
  <2>4. h[i] \in AuditEventDraft /\ h[i].body \in Bodies
    <3>1. h[i] \in AuditEventDraft
      BY <1>1, ElementOfSeq
    <3> QED BY <3>1 DEF AuditEventDraft
  <2>5. RowAt(h, i) \in AlteredRow
    BY <2>1, <2>3, <2>4 DEF RowAt, AlteredRow
  <2>6. RowAt(h, i).previous_event_hash \in Hash
    BY <2>5 DEF AlteredRow
  <2> QED BY <2>2, <2>4, <2>5, <2>6
<1>7. rows \in Seq(AlteredRow)
  <2>1. rows = [i \in 1..L |-> rows[i]]
    BY <1>5, <1>3 DEF Reads, rows, Stretch
  <2>2. rows \in [1..L -> AlteredRow]
    BY <1>6, <2>1
  <2> QED BY <1>1, <2>2
<1> DEFINE drafts == [n \in DOMAIN rows |-> rows[n].draft]
           Redrafted(i, d) ==
             {[rows EXCEPT ![i].draft = d],
              [rows EXCEPT ![i].draft = d, ![i].payload = d.body],
              [rows EXCEPT ![i] = BuildEntry(d, i, rows[i].previous_event_hash)],
              Forged([drafts EXCEPT ![i] = d]),
              Forged(Append(drafts, d))}
           Altered(i) ==
                  (UNION {Redrafted(i, d) : d \in Others(drafts[i])})
             \cup {RemoveAt(rows, i), InsertAt(rows, i, rows[i]), SubSeq(rows, 1, i - 1)}
             \cup {[rows EXCEPT ![i] = rows[j], ![j] = rows[i]] : j \in DOMAIN rows \ {i}}
             \cup {[rows EXCEPT ![i].payload = b] :
                     b \in ({"TAMPERED"} \cup Bodies) \ {rows[i].payload}}
<1>8. drafts \in Seq(AuditEventDraft) /\ Len(drafts) = L /\ \A i \in 1..L : drafts[i] = h[i]
  <2>1. drafts = [n \in 1..L |-> drafts[n]] /\ \A i \in 1..L : drafts[i] = h[i]
    BY <1>5, <1>6
  <2> HIDE DEF drafts, L
  <2>2. drafts \in [1..L -> AuditEventDraft]
    BY <1>6, <2>1
  <2> QED BY <1>1, <2>1, <2>2
<1>9. PICK i \in 1..L : altered \in Altered(i)
  <2>1. Alterations(rows) = UNION {Altered(i) : i \in DOMAIN rows}
    BY DEF Alterations
  <2> HIDE DEF Altered
  <2> QED BY SMTT(30), <1>2, <1>5, <2>1
<1>10. \/ \E d \in Others(drafts[i]) : altered \in Redrafted(i, d)
       \/ altered \in {RemoveAt(rows, i), InsertAt(rows, i, rows[i]), SubSeq(rows, 1, i - 1)}
       \/ \E j \in DOMAIN rows \ {i} : altered = [rows EXCEPT ![i] = rows[j], ![j] = rows[i]]
       \/ \E b \in ({"TAMPERED"} \cup Bodies) \ {rows[i].payload} :
            altered = [rows EXCEPT ![i].payload = b]
  <2> HIDE DEF Redrafted
  <2> QED BY <1>9
<1> HIDE DEF Altered, L
<1>11. ASSUME NEW d \in Others(drafts[i]), altered \in Redrafted(i, d)
       PROVE  altered \in Seq(AlteredRow) /\ altered # rows
  <2>1. d \in AuditEventDraft /\ d # h[i] /\ d.body \in Bodies
    BY <1>8 DEF Others, AuditEventDraft
  <2>2. rows[i] \in AlteredRow /\ rows[i].draft # d
    BY <1>6, <2>1
  <2> DEFINE one == [rows[i] EXCEPT !.draft = d]
             two == [rows[i] EXCEPT !.draft = d, !.payload = d.body]
             three == BuildEntry(d, i, rows[i].previous_event_hash)
  <2>3. one \in AlteredRow /\ one # rows[i] /\ two \in AlteredRow /\ two # rows[i]
    BY <2>1, <2>2 DEF AlteredRow
  <2>4. three \in AlteredRow /\ three # rows[i]
    <3> DEFINE before == rows[i].previous_event_hash
    <3>1. before \in Hash /\ i \in Nat \ {0}
      BY <1>1, <1>6 DEF L
    <3> HIDE DEF before
    <3>2. Append(before, d) \in Hash
      BY <2>1, <3>1, AppendProperties DEF Hash
    <3>3. BuildEntry(d, i, before) \in AlteredRow /\ BuildEntry(d, i, before).draft = d
      BY <2>1, <3>1, <3>2 DEF BuildEntry, EventHash, AlteredRow
    <3> QED BY <2>2, <3>3 DEF before
  <2>5. /\ [rows EXCEPT ![i].draft = d] = [rows EXCEPT ![i] = one]
        /\ [rows EXCEPT ![i].draft = d, ![i].payload = d.body] = [rows EXCEPT ![i] = two]
    BY <1>5
  <2> HIDE DEF one, two, three
  <2>6. ASSUME NEW e \in {one, two, three}
        PROVE  [rows EXCEPT ![i] = e] \in Seq(AlteredRow) /\ [rows EXCEPT ![i] = e] # rows
    <3>1. e \in AlteredRow /\ e # rows[i]
      BY <2>3, <2>4
    <3> QED BY <1>5, <1>7, <3>1, OneReplaced
  <2>7. /\ Forged([drafts EXCEPT ![i] = d]) \in Seq(AlteredRow)
        /\ Forged([drafts EXCEPT ![i] = d]) # rows
    <3> DEFINE other == [drafts EXCEPT ![i] = d]
    <3>1. other \in Seq(AuditEventDraft) /\ Len(other) = L /\ other[i] = d
      <4> HIDE DEF drafts
      <4> QED BY <1>8, <2>1, ExceptSeq
    <3> HIDE DEF other
    <3>2. Forged(other) \in Seq(AlteredRow) /\ Forged(other)[i].draft = d
      BY <3>1, ForgedRows
    <3> QED BY <2>2, <3>2 DEF other
  <2>8. Forged(Append(drafts, d)) \in Seq(AlteredRow) /\ Forged(Append(drafts, d)) # rows
    <3> DEFINE longer == Append(drafts, d)
    <3>1. longer \in Seq(AuditEventDraft) /\ Len(longer) = L + 1
      <4> HIDE DEF drafts
      <4> QED BY <1>8, <2>1, AppendProperties
    <3> HIDE DEF longer
    <3>2. Forged(longer) \in Seq(AlteredRow) /\ Len(Forged(longer)) = L + 1
      BY <3>1, ForgedRows
    <3>3. L + 1 # L
      BY <1>1 DEF L
    <3> QED BY <1>5, <3>2, <3>3 DEF longer
  <2>9. \/ altered = [rows EXCEPT ![i] = one]
        \/ altered = [rows EXCEPT ![i] = two]
        \/ altered = [rows EXCEPT ![i] = three]
        \/ altered = Forged([drafts EXCEPT ![i] = d])
        \/ altered = Forged(Append(drafts, d))
    BY <1>11, <2>5 DEF three
  <2> QED BY <2>6, <2>7, <2>8, <2>9
<1>12. ASSUME altered \in {RemoveAt(rows, i), InsertAt(rows, i, rows[i]), SubSeq(rows, 1, i - 1)}
       PROVE  altered \in Seq(AlteredRow) /\ altered # rows
  BY <1>5, <1>7, <1>12, OneRemoved
<1>13. ASSUME NEW j \in DOMAIN rows \ {i},
              altered = [rows EXCEPT ![i] = rows[j], ![j] = rows[i]]
       PROVE  altered \in Seq(AlteredRow) /\ altered # rows
  <2>1. j \in 1..L /\ j # i /\ rows[i] # rows[j]
    BY <1>5, <1>6
  <2>2. j \in 1..Len(rows) /\ i \in 1..Len(rows)
    BY <1>5, <2>1
  <2> QED BY <1>7, <1>13, <2>1, <2>2, TwoExchanged
<1>14. ASSUME NEW b \in ({"TAMPERED"} \cup Bodies) \ {rows[i].payload},
              altered = [rows EXCEPT ![i].payload = b]
       PROVE  altered \in Seq(AlteredRow) /\ altered # rows
  <2> DEFINE e == [rows[i] EXCEPT !.payload = b]
  <2>1. e \in AlteredRow /\ e # rows[i]
    BY <1>6 DEF AlteredRow
  <2>2. [rows EXCEPT ![i].payload = b] = [rows EXCEPT ![i] = e]
    BY <1>5
  <2> HIDE DEF e
  <2> QED BY <1>5, <1>7, <1>14, <2>1, <2>2, OneReplaced
<1> QED BY <1>10, <1>11, <1>12, <1>13, <1>14

-----------------------------------------------------------------------------
\* Stretches are cut and joined.
LEMMA StretchCut ==
    ASSUME NEW h, NEW a \in Int, NEW k \in Nat, NEW j \in 0..k
    PROVE  /\ Len(Stretch(h, a, k)) = k
           /\ SubSeq(Stretch(h, a, k), 1, j) = Stretch(h, a, j)
<1> DEFINE R == Stretch(h, a, k)
<1>1. R = [i \in 1..k |-> R[i]] /\ \A i \in 1..k : R[i] = RowAt(h, a + i - 1)
  BY DEF Stretch
<1> HIDE DEF R
<1>2. Len(R) = k
  BY <1>1
<1>3. SubSeq(R, 1, j) = [i \in 1..j |-> R[i]]
  <2>1. \A i \in 1..j : 1 + i - 1 = i
    OBVIOUS
  <2>2. SubSeq(R, 1, j) = [i \in 1..(1 + j - 1) |-> R[1 + i - 1]]
    OBVIOUS
  <2> QED BY <2>1, <2>2
<1>4. \A i \in 1..j : i \in 1..k
  OBVIOUS
<1>5. SubSeq(R, 1, j) = Stretch(h, a, j)
  BY <1>1, <1>3, <1>4 DEF Stretch
<1> QED BY <1>2, <1>5 DEF R

LEMMA FunctionIsSeq ==
    ASSUME NEW S, NEW k \in Nat, NEW f, f = [i \in 1..k |-> f[i]], \A i \in 1..k : f[i] \in S
    PROVE  f \in Seq(S) /\ Len(f) = k
OBVIOUS

LEMMA StretchJoin ==
    ASSUME NEW h, NEW j \in Nat, NEW k \in Nat
    PROVE  Stretch(h, 1, j) \o Stretch(h, j + 1, k) = Stretch(h, 1, j + k)
<1> DEFINE R == Stretch(h, 1, j)
           T == Stretch(h, j + 1, k)
           U == Stretch(h, 1, j + k)
<1>1. /\ R = [i \in 1..j |-> R[i]] /\ \A i \in 1..j : R[i] = RowAt(h, 1 + i - 1)
      /\ T = [i \in 1..k |-> T[i]] /\ \A i \in 1..k : T[i] = RowAt(h, j + 1 + i - 1)
      /\ U = [i \in 1..(j + k) |-> U[i]] /\ \A i \in 1..(j + k) : U[i] = RowAt(h, 1 + i - 1)
  BY DEF Stretch
<1> DEFINE S == {RowAt(h, n) : n \in Int}
<1>2. \A i \in 1..j : R[i] \in S
  BY <1>1
<1>3. \A i \in 1..k : T[i] \in S
  BY <1>1
<1>4. \A i \in 1..(j + k) : U[i] \in S
  BY <1>1
<1> HIDE DEF R, T, U, S
<1>5. R \in Seq(S) /\ Len(R) = j
  BY <1>1, <1>2, FunctionIsSeq
<1>6. T \in Seq(S) /\ Len(T) = k
  BY <1>1, <1>3, FunctionIsSeq
<1>7. U \in Seq(S) /\ Len(U) = j + k
  <2> DEFINE l == j + k
  <2>1. l \in Nat /\ U = [i \in 1..l |-> U[i]] /\ \A i \in 1..l : U[i] \in S
    BY <1>1, <1>4
  <2> HIDE DEF l
  <2>2. U \in Seq(S) /\ Len(U) = l
    BY <2>1
  <2> QED BY <2>2 DEF l
<1>8. /\ R \o T \in Seq(S) /\ Len(R \o T) = j + k
      /\ \A i \in 1..(j + k) : (R \o T)[i] = IF i <= j THEN R[i] ELSE T[i - j]
  BY <1>5, <1>6, ConcatProperties
<1>9. ASSUME NEW i \in 1..(j + k)
      PROVE  (R \o T)[i] = U[i]
  <2>1. CASE i <= j
    <3>1. i \in 1..j
      BY <2>1
    <3> QED BY <1>1, <1>8, <2>1, <3>1
  <2>2. CASE ~ (i <= j)
    <3>1. i - j \in 1..k /\ j + 1 + (i - j) - 1 = 1 + i - 1
      BY <2>2
    <3>2. T[i - j] = RowAt(h, j + 1 + (i - j) - 1)
      BY <1>1, <3>1
    <3> QED BY <1>1, <1>8, <2>2, <3>1, <3>2
  <2> QED BY <2>1, <2>2
<1>10. R \o T = U
  BY <1>7, <1>8, <1>9, SeqEqual
<1> QED BY <1>10 DEF R, T, U

-----------------------------------------------------------------------------
\* One page: the rows from a on, as many as fit.
Fitting(L, a, m) == IF L - a + 1 < m THEN L - a + 1 ELSE m

PageFrom(h, a, m) ==
    [refused |-> {}, entries |-> Stretch(h, a, Fitting(Len(h), a, m)),
     truncated |-> Len(h) - a + 1 > m, predecessor |-> SubSeq(h, 1, a - 1)]

LEMMA Predecessor ==
    ASSUME LedgerInv, NEW c \in Chains, NEW a \in 1..Len(HeadHash(c))
    PROVE  PredecessorHash(c, a) = {SubSeq(HeadHash(c), 1, a - 1)}
<1> DEFINE h == HeadHash(c)
<1>1. h \in Seq(AuditEventDraft) /\ Len(h) \in Nat
  BY HashOfChain
<1>2. CASE a = 1
  <2>1. SubSeq(h, 1, a - 1) = << >>
    BY <1>1, <1>2, SubSeqEmpty
  <2> QED BY <1>2, <2>1 DEF PredecessorHash, STEP33_GENESIS_SENTINEL
<1>3. CASE a # 1
  <2>1. a - 1 \in 1..Len(h)
    BY <1>1, <1>3
  <2>2. RowsOf(c) = {RowAt(h, n) : n \in 1..Len(h)}
    BY RowsOfChain
  <2>3. \A n : RowAt(h, n).sequence_number = n /\ RowAt(h, n).event_hash = SubSeq(h, 1, n)
    BY DEF RowAt
  <2> HIDE DEF h
  <2>4. {f \in RowsOf(c) : f.sequence_number = a - 1} = {RowAt(h, a - 1)}
    BY <2>1, <2>2, <2>3
  <2>5. PredecessorHash(c, a)
          = {e.event_hash : e \in {f \in RowsOf(c) : f.sequence_number = a - 1}}
    BY <1>3 DEF PredecessorHash
  <2>6. PredecessorHash(c, a) = {RowAt(h, a - 1).event_hash}
    BY <2>4, <2>5
  <2>7. PredecessorHash(c, a) = {SubSeq(h, 1, a - 1)}
    BY <2>3, <2>6
  <2> QED BY <2>7 DEF h
<1> QED BY <1>2, <1>3

LEMMA PageExported ==
    ASSUME LedgerInv, NEW c \in Chains, NEW m \in Nat \ {0},
           NEW a \in 1..Len(HeadHash(c))
    PROVE  ExportChain(c, a, heads[c].last_sequence, m) = PageFrom(HeadHash(c), a, m)
<1> DEFINE h == HeadHash(c)
           L == Len(h)
           k == IF L - a + 1 <= m THEN L - a + 1 ELSE m + 1
           j == Fitting(L, a, m)
           loaded == LoadRange(c, a, heads[c].last_sequence, m)
           page == SubSeq(loaded, 1, IF Len(loaded) < m THEN Len(loaded) ELSE m)
           anchor == PredecessorHash(c, a)
<1>1. /\ h \in Seq(AuditEventDraft) /\ L \in Nat
      /\ heads[c].last_sequence = L
  BY HashOfChain
<1>2. anchor = {SubSeq(h, 1, a - 1)}
  BY Predecessor
<1>3. loaded = Stretch(h, a, k)
  <2>1. a \in 1..(L + 1) /\ m \in Nat
    BY <1>1
  <2> QED BY <1>1, <2>1, Loads
<1>4. /\ a \in Int /\ k \in Nat /\ j \in 0..k /\ j \in 1..(L - a + 1)
      /\ j = IF k < m THEN k ELSE m
      /\ (k > m) = (L - a + 1 > m)
  BY <1>1 DEF Fitting
<1> HIDE DEF k, j, L, h, loaded
<1>5. Len(loaded) = k /\ page = Stretch(h, a, j) /\ Len(page) = j
  <2>1. Len(loaded) = k
    BY <1>3, <1>4, StretchCut
  <2>2. page = Stretch(h, a, j)
    BY <1>3, <1>4, <2>1, StretchCut
  <2>3. j \in Nat /\ j \in 0..j
    BY <1>4
  <2>4. Len(Stretch(h, a, j)) = j
    BY <1>4, <2>3, StretchCut
  <2> QED BY <2>1, <2>2, <2>4
<1> HIDE DEF page, anchor
<1>6. page # << >> /\ anchor # {}
  BY <1>2, <1>4, <1>5
<1>7. VerifyAuditChain(c, page, anchor, {}) = {}
  <2>1. a \in 1..Len(HeadHash(c)) /\ j \in 1..(Len(HeadHash(c)) - a + 1)
    BY <1>4 DEF L, h
  <2>2. anchor = {SubSeq(HeadHash(c), 1, a - 1)}
    BY <1>2 DEF h
  <2>3. VerifyAuditChain(c, Stretch(HeadHash(c), a, j), anchor, {}) = {}
    BY <2>1, <2>2, StretchVerifies
  <2> QED BY <1>5, <2>3 DEF h
<1>8. (CHOOSE x \in anchor : TRUE) = SubSeq(h, 1, a - 1)
  BY <1>2
<1>9. ExportChain(c, a, heads[c].last_sequence, m)
        = [refused |-> {}, entries |-> page, truncated |-> Len(loaded) > m,
           predecessor |-> CHOOSE x \in anchor : TRUE]
  BY <1>6, <1>7 DEF ExportChain, anchor, page, loaded
<1> QED BY <1>4, <1>5, <1>8, <1>9 DEF PageFrom, j, L, h

-----------------------------------------------------------------------------
\* The pages of m rows that a chain of L rows takes.
LEMMA PageNumbers ==
    ASSUME NEW L \in Nat, NEW m \in Nat \ {0}, NEW P, P = (L + m - 1) \div m
    PROVE  /\ P \in Nat
           /\ (L = 0 <=> P = 0)
           /\ P * m >= L
           /\ \A n \in 1..P : (n - 1) * m \in Nat /\ (n - 1) * m < L /\ (n < P => n * m < L)
<1>1. P \in Int /\ P * m <= L + m - 1 /\ L + m - 1 < (P + 1) * m
  OBVIOUS
<1>2. (P + 1) * m = P * m + m /\ P * m \in Int
  BY <1>1
<1>3. P >= 0
  <2>1. SUFFICES ASSUME P + 1 <= 0 PROVE FALSE
    BY <1>1
  <2>2. (P + 1) * m <= 0
    BY <1>1, <2>1
  <2> QED BY <1>1, <2>2
<1>4. P * m >= L
  BY <1>1, <1>2
<1>5. ASSUME NEW n \in Nat, n <= P
      PROVE  n * m <= P * m
  <2>1. (P - n) * m >= 0
    BY <1>1, <1>5
  <2>2. (P - n) * m = P * m - n * m
    BY <1>1
  <2> QED BY <1>2, <2>1, <2>2
<1>6. ASSUME NEW n \in 1..P
      PROVE  (n - 1) * m \in Nat /\ (n - 1) * m < L /\ (n < P => n * m < L)
  <2>1. n \in Nat /\ n <= P /\ n - 1 \in Nat /\ n >= 1
    BY <1>1
  <2>2. n * m <= P * m /\ n * m \in Int /\ (n - 1) * m = n * m - m
    BY <1>5, <2>1
  <2>3. (n - 1) * m < L
    BY <1>1, <1>2, <2>2
  <2>4. (n - 1) * m \in Nat
    BY <2>1
  <2>5. ASSUME n < P
        PROVE  n * m < L
    <3>1. n + 1 \in Nat /\ n + 1 <= P
      BY <1>1, <2>1, <2>5
    <3>2. (n + 1) * m <= P * m /\ (n + 1) * m = n * m + m
      BY <1>5, <2>1, <3>1
    <3> QED BY <1>1, <1>2, <2>2, <3>2
  <2> QED BY <2>3, <2>4, <2>5
<1>7. (L = 0 <=> P = 0)
  <2>1. ASSUME P = 0 PROVE L = 0
    BY <1>4, <2>1
  <2>2. ASSUME L = 0, P # 0 PROVE FALSE
    <3>1. P \in 1..P
      BY <1>1, <1>3, <2>2
    <3>2. (P - 1) * m \in Nat /\ (P - 1) * m < L
      BY <1>6, <3>1
    <3> QED BY <2>2, <3>2
  <2> QED BY <2>1, <2>2
<1> QED BY <1>1, <1>3, <1>4, <1>6, <1>7

IsFlattening(f, seqs, k) ==
    f = [i \in 1..k |-> IF i = 1 THEN seqs[i] ELSE f[i - 1] \o seqs[i]]

LEMMA Flattened ==
    ASSUME NEW seqs, NEW k \in Nat \ {0}, Len(seqs) = k,
           NEW whole, IsFlattening(whole, seqs, k)
    PROVE  FlattenSeq(seqs) = whole[k]
<1> DEFINE f == CHOOSE g : IsFlattening(g, seqs, k)
<1>1. FlattenSeq(seqs) = f[k]
  BY DEF FlattenSeq, IsFlattening
<1>2. IsFlattening(f, seqs, k)
  OBVIOUS
<1> HIDE DEF f
<1>3. \A i \in 1..k : /\ f[i] = IF i = 1 THEN seqs[i] ELSE f[i - 1] \o seqs[i]
                      /\ whole[i] = IF i = 1 THEN seqs[i] ELSE whole[i - 1] \o seqs[i]
  BY <1>2 DEF IsFlattening
<1> DEFINE Same == {i \in 1..k : f[i] = whole[i]}
<1>4. k >= 1 => 1 \in Same
  BY <1>3
<1>5. ASSUME NEW i \in 1..k, i \in Same, i < k
      PROVE  i + 1 \in Same
  <2>1. i + 1 \in 1..k /\ i + 1 # 1 /\ (i + 1) - 1 = i
    BY <1>5
  <2>2. f[i + 1] = f[i] \o seqs[i + 1] /\ whole[i + 1] = whole[i] \o seqs[i + 1]
    BY <1>3, <2>1
  <2> QED BY <1>5, <2>1, <2>2
<1> HIDE DEF Same
<1>6. \A i \in 1..k : i \in Same
  BY <1>4, <1>5, InductionUp
<1>7. k \in 1..k
  OBVIOUS
<1> QED BY <1>1, <1>6, <1>7 DEF Same

\* Where the pages start, as the caller follows the continuations.
AreStarts(f, c, m, k) ==
    f = [n \in 1..k |->
           IF n = 1 THEN 1
           ELSE Last(ExportChain(c, f[n - 1], heads[c].last_sequence, m).entries)
                  .sequence_number + 1]

LEMMA PagesOfChain ==
    ASSUME LedgerInv, NEW c \in Chains, NEW m \in Nat \ {0},
           NEW P, P = (Len(HeadHash(c)) + m - 1) \div m
    PROVE  Pages(c, m) = [n \in 1..P |-> PageFrom(HeadHash(c), (n - 1) * m + 1, m)]
<1> DEFINE h == HeadHash(c)
           L == Len(h)
<1>1. L \in Nat /\ heads[c].last_sequence = L /\ P = (heads[c].last_sequence + m - 1) \div m
  BY HashOfChain
<1>2. /\ P \in Nat
      /\ \A n \in 1..P : (n - 1) * m \in Nat /\ (n - 1) * m < L /\ (n < P => n * m < L)
  <2>1. P = (L + m - 1) \div m
    OBVIOUS
  <2> HIDE DEF L
  <2> QED BY <1>1, <2>1, PageNumbers
<1> DEFINE own == [n \in 1..P |-> (n - 1) * m + 1]
           start == CHOOSE f : AreStarts(f, c, m, P)
<1>3. \A n \in 1..P : own[n] = (n - 1) * m + 1 /\ own[n] \in 1..L
  BY <1>1, <1>2
<1>4. ASSUME NEW n \in 1..P
      PROVE  ExportChain(c, own[n], heads[c].last_sequence, m) = PageFrom(h, own[n], m)
  <2>1. own[n] \in 1..Len(HeadHash(c))
    BY <1>3
  <2> HIDE DEF own
  <2> QED BY <2>1, PageExported
\* The page before ends right before the page.
<1>5. ASSUME NEW n \in 1..P, n < P
      PROVE  Last(ExportChain(c, own[n], heads[c].last_sequence, m).entries)
               .sequence_number + 1 = n * m + 1
  <2> DEFINE a == own[n]
  <2>1. /\ a \in 1..L /\ a = (n - 1) * m + 1 /\ n * m < L
        /\ (n - 1) * m = n * m - m /\ n * m \in Int
    BY <1>2, <1>3, <1>5
  <2> HIDE DEF a
  <2>2. Fitting(L, a, m) = m /\ m \in 0..(L - a + 1) /\ a \in 1..(L + 1)
    BY <1>1, <2>1 DEF Fitting
  <2>3. PageFrom(h, a, m).entries = Stretch(h, a, m)
    BY <2>2 DEF PageFrom
  <2>4. Reads(Stretch(h, a, m), c, h, a, m)
    BY <2>2, StretchRows
  <2>5. Last(Stretch(h, a, m)).sequence_number = a + m - 1
    <3>1. Len(Stretch(h, a, m)) = m /\ m \in 1..m
      BY <2>4 DEF Reads
    <3> QED BY <2>4, <3>1 DEF Last, Reads
  <2>6. a + m - 1 + 1 = n * m + 1
    BY <1>1, <2>1
  <2>7. ExportChain(c, a, heads[c].last_sequence, m) = PageFrom(h, a, m)
    BY <1>4 DEF a
  <2>8. Last(ExportChain(c, a, heads[c].last_sequence, m).entries).sequence_number + 1
          = n * m + 1
    BY <2>3, <2>5, <2>6, <2>7
  <2> QED BY <2>8 DEF a
<1> DEFINE next(k) == Last(ExportChain(c, k, heads[c].last_sequence, m).entries)
                        .sequence_number + 1
<1>6. ASSUME NEW n \in 1..P, n # 1
      PROVE  n - 1 \in 1..P /\ next(own[n - 1]) = own[n]
  <2>1. n - 1 \in 1..P /\ n - 1 < P
    BY <1>2, <1>6
  <2>2. next(own[n - 1]) = (n - 1) * m + 1
    BY <1>5, <2>1
  <2> QED BY <1>3, <2>1, <2>2
<1>7. AreStarts(own, c, m, P)
  <2>1. \A n \in 1..P : own[n] = IF n = 1 THEN 1 ELSE next(own[n - 1])
    <3>1. (1 - 1) * m + 1 = 1
      OBVIOUS
    <3> HIDE DEF own, next
    <3> QED BY <1>3, <1>6, <3>1
  <2>2. own = [n \in 1..P |-> own[n]]
    OBVIOUS
  <2> HIDE DEF own
  <2> QED BY <2>1, <2>2 DEF AreStarts
<1>8. AreStarts(start, c, m, P)
  <2> HIDE DEF own
  <2> QED BY <1>7
<1>9. Pages(c, m)
        = [n \in 1..P |-> ExportChain(c, start[n], heads[c].last_sequence, m)]
  BY <1>1 DEF Pages, AreStarts
<1> HIDE DEF start
<1>10. \A n \in 1..P : start[n] = IF n = 1 THEN 1 ELSE next(start[n - 1])
  <2>1. \A n \in 1..P : start[n] = IF n = 1 THEN 1
           ELSE Last(ExportChain(c, start[n - 1], heads[c].last_sequence, m).entries)
                  .sequence_number + 1
    BY <1>8 DEF AreStarts
  <2> QED BY SMTT(30), <2>1
<1> DEFINE Same == {n \in 1..P : start[n] = own[n]}
<1>11. \A n \in 1..P : n \in Same
  <2>1. P >= 1 => 1 \in Same
    <3>1. (1 - 1) * m + 1 = 1
      OBVIOUS
    <3> HIDE DEF own, next
    <3> QED BY <1>2, <1>3, <1>10, <3>1
  <2>2. ASSUME NEW n \in 1..P, n \in Same, n < P
        PROVE  n + 1 \in Same
    <3>1. n + 1 \in 1..P /\ n + 1 # 1 /\ (n + 1) - 1 = n
      BY <1>2, <2>2
    <3> HIDE DEF own, next
    <3>2. start[n + 1] = next(start[n]) /\ next(own[n]) = own[n + 1]
      BY <1>6, <1>10, <3>1
    <3> QED BY <2>2, <3>1, <3>2
  <2> HIDE DEF Same
  <2> QED BY <1>2, <2>1, <2>2, InductionUp
<1>12. \A n \in 1..P : ExportChain(c, start[n], heads[c].last_sequence, m)
                         = PageFrom(h, (n - 1) * m + 1, m)
  <2> HIDE DEF own
  <2>1. \A n \in 1..P : start[n] = own[n]
    BY <1>11
  <2> QED BY <1>3, <1>4, <2>1
<1> QED BY <1>9, <1>12

ExportIsWhole(c, m) ==
    LET pages == Pages(c, m)
        rows == LoadRange(c, 1, heads[c].last_sequence, heads[c].last_sequence)
    IN  /\ FlattenSeq([n \in DOMAIN pages |-> pages[n].entries]) = rows
        /\ \A n \in DOMAIN pages :
             /\ pages[n].refused = {}
             /\ pages[n].truncated <=> n < Len(pages)
             /\ n > 1 => pages[n].predecessor = Last(pages[n - 1].entries).event_hash

LEMMA EachExportIsWhole ==
    ASSUME LedgerInv, NEW c \in Chains, NEW m \in Nat \ {0}
    PROVE  ExportIsWhole(c, m)
<1> DEFINE h == HeadHash(c)
           L == Len(h)
           P == (L + m - 1) \div m
           pages == Pages(c, m)
           rows == LoadRange(c, 1, heads[c].last_sequence, heads[c].last_sequence)
           seqs == [n \in DOMAIN pages |-> pages[n].entries]
           Before(n) == (n - 1) * m
           Upto(n) == IF n < P THEN n * m ELSE L
<1>1. L \in Nat /\ m \in Nat \ {0}
  BY HashOfChain
<1>2. /\ P \in Nat /\ (L = 0 <=> P = 0) /\ P * m >= L
      /\ \A n \in 1..P : Before(n) \in Nat /\ Before(n) < L /\ (n < P => n * m < L)
  <2>1. P = (L + m - 1) \div m
    OBVIOUS
  <2> HIDE DEF L, P, Before
  <2>2. /\ P \in Nat /\ (L = 0 <=> P = 0) /\ P * m >= L
        /\ \A n \in 1..P : (n - 1) * m \in Nat /\ (n - 1) * m < L /\ (n < P => n * m < L)
    BY <1>1, <2>1, PageNumbers
  <2> QED BY <2>2 DEF Before
<1>3. pages = [n \in 1..P |-> PageFrom(h, Before(n) + 1, m)]
  BY <1>1, PagesOfChain
<1>4. rows = Stretch(h, 1, L)
  BY WholeChain
<1>5. ASSUME NEW n \in 1..P
      PROVE  /\ Before(n) \in Nat /\ Before(n) < L /\ n * m = Before(n) + m
             /\ Upto(n) \in Nat /\ Upto(n) <= L
             /\ Fitting(L, Before(n) + 1, m) = Upto(n) - Before(n)
             /\ Upto(n) - Before(n) \in Nat
             /\ (L - (Before(n) + 1) + 1 > m) = (n < P)
  <2>1. Before(n) \in Nat /\ Before(n) < L /\ (n < P => n * m < L) /\ n \in Nat
    BY <1>2
  <2>2. n * m = Before(n) + m
    BY <1>1, <2>1
  <2>3. ~ (n < P) => Before(n) + m >= L
    <3>1. ~ (n < P) => n = P
      BY SMTT(30), <1>2
    <3> QED BY <1>2, <2>2, <3>1
  <2> HIDE DEF Before, L, P
  <2> QED BY <1>1, <2>1, <2>2, <2>3 DEF Fitting
<1> HIDE DEF h, L, P, Before, rows, pages
<1>6. /\ DOMAIN pages = 1..P /\ Len(pages) = P
      /\ \A n \in 1..P : pages[n] = PageFrom(h, Before(n) + 1, m)
  <2>1. pages = [n \in 1..P |-> pages[n]]
    BY <1>3
  <2>2. Len(pages) = P /\ DOMAIN pages = 1..P
    BY <1>2, <2>1
  <2> QED BY <1>3, <2>2
<1>7. \A n \in 1..P : pages[n].entries = Stretch(h, Before(n) + 1, Upto(n) - Before(n))
  BY <1>5, <1>6 DEF PageFrom, L
<1>8. FlattenSeq(seqs) = rows
  <2>1. seqs = [n \in 1..P |-> seqs[n]] /\ \A n \in 1..P : seqs[n] = pages[n].entries
    BY <1>6
  <2> HIDE DEF seqs
  <2>2. Len(seqs) = P
    BY <1>2, <2>1
  <2>3. CASE P = 0
    <3>1. FlattenSeq(seqs) = seqs
      BY <2>2, <2>3 DEF FlattenSeq
    <3>2. 1..P = {} /\ 1..L = {}
      BY <1>2, <2>3
    <3>3. rows = [i \in 1..L |-> RowAt(h, 1 + i - 1)]
      BY <1>4 DEF Stretch
    <3> QED BY <2>1, <3>1, <3>2, <3>3
  <2>4. CASE P # 0
    <3> DEFINE whole == [n \in 1..P |-> Stretch(h, 1, Upto(n))]
    <3>1. ASSUME NEW n \in 1..P
          PROVE  whole[n] = IF n = 1 THEN seqs[n] ELSE whole[n - 1] \o seqs[n]
      <4>1. seqs[n] = Stretch(h, Before(n) + 1, Upto(n) - Before(n))
        BY <1>7, <2>1
      <4>2. CASE n = 1
        <5>1. Before(n) = 0
          BY <1>1, <4>2 DEF Before
        <5>2. Upto(n) - 0 = Upto(n) /\ 0 + 1 = 1
          BY <1>5
        <5> HIDE DEF Upto
        <5> QED BY <4>1, <4>2, <5>1, <5>2
      <4>3. CASE n # 1
        <5>1. n - 1 \in 1..P /\ n - 1 < P
          BY <1>2, <4>3
        <5>2. Upto(n - 1) = Before(n)
          BY <5>1 DEF Before
        <5>3. whole[n - 1] = Stretch(h, 1, Before(n))
          BY <5>1, <5>2
        <5>4. Before(n) + (Upto(n) - Before(n)) = Upto(n)
          BY <1>5
        <5> DEFINE j == Before(n)
                   k == Upto(n) - Before(n)
        <5>5. j \in Nat /\ k \in Nat
          BY <1>5
        <5> HIDE DEF j, k
        <5>6. Stretch(h, 1, j) \o Stretch(h, j + 1, k) = Stretch(h, 1, j + k)
          BY <5>5, StretchJoin
        <5>7. Stretch(h, 1, Before(n)) \o seqs[n] = Stretch(h, 1, Upto(n))
          <6> HIDE DEF Upto
          <6> QED BY <4>1, <5>4, <5>6 DEF j, k
        <5> QED BY <4>3, <5>3, <5>7
      <4> QED BY <4>2, <4>3
    <3>2. IsFlattening(whole, seqs, P)
      <4>1. whole = [n \in 1..P |-> whole[n]]
        OBVIOUS
      <4> HIDE DEF whole
      <4> QED BY <3>1, <4>1 DEF IsFlattening
    <3>3. P \in Nat \ {0} /\ P \in 1..P
      BY <1>2, <2>4
    <3>4. whole[P] = Stretch(h, 1, L)
      <4>1. ~ (P < P)
        BY <3>3
      <4> QED BY <3>3, <4>1
    <3> HIDE DEF whole
    <3>5. FlattenSeq(seqs) = whole[P]
      BY <2>2, <3>2, <3>3, Flattened
    <3> QED BY <1>4, <3>4, <3>5
  <2> QED BY <2>3, <2>4
<1>9. ASSUME NEW n \in 1..P
      PROVE  /\ pages[n].refused = {}
             /\ pages[n].truncated <=> n < P
             /\ n > 1 => pages[n].predecessor = Last(pages[n - 1].entries).event_hash
  <2>1. pages[n].refused = {}
    BY <1>6 DEF PageFrom
  <2>2. pages[n].truncated <=> n < P
    <3>1. PageFrom(h, Before(n) + 1, m).truncated = (L - (Before(n) + 1) + 1 > m)
      BY DEF PageFrom, L
    <3>2. PageFrom(h, Before(n) + 1, m).truncated = (n < P)
      BY <1>5, <3>1
    <3> QED BY <1>6, <3>2
  <2>3. ASSUME n > 1
        PROVE  pages[n].predecessor = Last(pages[n - 1].entries).event_hash
    <3>1. n - 1 \in 1..P /\ n - 1 < P
      BY <1>2, <2>3
    <3> DEFINE a == Before(n - 1) + 1
    <3>2. /\ Before(n - 1) \in Nat /\ Upto(n - 1) = Before(n)
          /\ Before(n) = Before(n - 1) + m /\ Before(n) <= L
      BY <1>5, <3>1 DEF Before
    <3>3. pages[n - 1].entries = Stretch(h, a, m)
      <4>1. Upto(n - 1) - Before(n - 1) = m
        BY <1>1, <3>2
      <4> QED BY <1>7, <3>1, <4>1
    <3>4. /\ a \in 1..(L + 1) /\ m \in 0..(L - a + 1) /\ m \in 1..m
          /\ a + m - 1 = Before(n)
      BY <1>1, <3>2
    <3> HIDE DEF a
    <3>5. Reads(Stretch(h, a, m), c, h, a, m)
      BY <3>4, StretchRows DEF h, L
    <3>6. Last(Stretch(h, a, m)).event_hash = SubSeq(h, 1, a + m - 1)
      BY <3>4, <3>5 DEF Reads, Last
    <3>7. pages[n].predecessor = SubSeq(h, 1, (Before(n) + 1) - 1)
      <4>1. PageFrom(h, Before(n) + 1, m).predecessor = SubSeq(h, 1, (Before(n) + 1) - 1)
        BY DEF PageFrom
      <4>2. pages[n] = PageFrom(h, Before(n) + 1, m)
        BY <1>6
      <4> QED BY ONLY <4>1, <4>2, Zenon
    <3>8. (Before(n) + 1) - 1 = Before(n)
      BY <1>5
    <3> QED BY <3>3, <3>4, <3>6, <3>7, <3>8
  <2> QED BY <2>1, <2>2, <2>3
<1>10. \A n \in DOMAIN pages :
          /\ pages[n].refused = {}
          /\ pages[n].truncated <=> n < Len(pages)
          /\ n > 1 => pages[n].predecessor = Last(pages[n - 1].entries).event_hash
  BY <1>6, <1>9
<1> QED BY <1>8, <1>10 DEF pages, rows, ExportIsWhole

LEMMA ExportsAreWhole ==
    ASSUME LedgerInv
    PROVE  PagedExportIsWhole
<1>1. \A c \in Chains, m \in 1..MaximumEvents : ExportIsWhole(c, m)
  BY EachExportIsWhole, ReaderAssumption
<1> QED BY <1>1 DEF PagedExportIsWhole, ExportIsWhole

(***************************************************************************)
(* verify_chain accepts whatever the appenders committed, bounded exports  *)
(* put together are the whole chain, and no altered chain verifies against *)
(* the stored head: for chains of every length and pages of every size.    *)
(***************************************************************************)
THEOREM ReadersAreAlwaysExact == LedgerSpec => []ReadersAreExact
<1>1. LedgerInv /\ UsedHeads => ReadersAreExact
  BY ChainsVerify, ExportsAreWhole, TamperingShows DEF ReadersAreExact
<1> QED BY <1>1, ReaderInvariant, PTL
=============================================================================
