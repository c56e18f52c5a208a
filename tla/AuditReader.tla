---------------------------- MODULE AuditReader ----------------------------
(* The read side of the Step 33 ledger: verify_audit_chain, verify_chain and *)
(* export_chain.  Each is one read-only serializable transaction, so it is a *)
(* function of the committed rows and of the committed head.                 *)
EXTENDS AuditLedger, SequencesExt

CONSTANTS VerifyLimit,  \* verify_chain refuses a longer chain (10_000)
          MaximumEvents \* bound on AuditExportRequest.maximum_events

ASSUME ReaderAssumption == VerifyLimit \in Nat /\ MaximumEvents \in Nat \ {0}

-----------------------------------------------------------------------------
(* Repository reads.                                                         *)

\* ORDER BY sequence_number.
InSequence(rows) ==
  CHOOSE s \in SetToSeqs(rows) :
    \A i, j \in DOMAIN s : i < j => s[i].sequence_number <= s[j].sequence_number

MutantLoadRange(c, first, last, maximum) ==       \* an exclusive upper end
  LET ordered == InSequence({e \in RowsOf(c) : e.sequence_number \in first .. last - 1})
  IN  SubSeq(ordered, 1, IF Len(ordered) <= maximum THEN Len(ordered) ELSE maximum + 1)

\* load_range: the rows of a range in sequence order, one more than asked for.
LoadRange(c, first, last, maximum) ==
  LET ordered == InSequence({e \in RowsOf(c) : e.sequence_number \in first .. last})
  IN  SubSeq(ordered, 1, IF Len(ordered) <= maximum THEN Len(ordered) ELSE maximum + 1)

\* predecessor_hash: a singleton, or {} when there is no such row.
PredecessorHash(c, first) ==
  IF first = 1 THEN {STEP33_GENESIS_SENTINEL}
  ELSE {e.event_hash : e \in {f \in RowsOf(c) : f.sequence_number = first - 1}}

-----------------------------------------------------------------------------
(* verify_audit_chain: the set of failure reasons, empty when verified.      *)

When(failed, reason) == IF failed THEN {reason} ELSE {}

\* An entry on its own: its hash and its payload digest are recomputed.
EntryReasons(e) ==
  When(e.event_hash # EventHash(e.previous_event_hash, e.draft),
       "AUDIT_EVENT_HASH_MISMATCH")
    \cup When(e.payload # e.draft.body, "AUDIT_PAYLOAD_DIGEST_MISMATCH")

\* Entry i after the ones before it; `anchor` holds the hash of the row before
\* the range, or is empty.
LinkReasons(c, entries, anchor, i) ==
  LET e == entries[i]
      earlier == {entries[j] : j \in 1 .. i - 1}
      genesis == e.sequence_number = 1
      expected == IF i > 1 THEN {entries[i - 1].event_hash}
                  ELSE IF genesis THEN {STEP33_GENESIS_SENTINEL} ELSE anchor
  IN  When(e.draft.chain # c \/ \E f \in earlier : f.event_hash = e.event_hash,
           "AUDIT_EVENT_INVALID")
        \cup When(\E f \in earlier : f.sequence_number = e.sequence_number,
                  "AUDIT_SEQUENCE_DUPLICATE")
        \cup When(i > 1 /\ e.sequence_number # entries[i - 1].sequence_number + 1,
                  "AUDIT_SEQUENCE_GAP")
        \cup When(e.previous_event_hash \notin expected,
                  IF genesis THEN "AUDIT_GENESIS_INVALID"
                  ELSE "AUDIT_PREVIOUS_HASH_MISMATCH")

HeadReasons(entries, head) ==
  LET last == IF entries = << >>
              THEN << 0, STEP33_GENESIS_SENTINEL >>
              ELSE << Last(entries).sequence_number, Last(entries).event_hash >>
  IN  When(\/ head.head_version # head.last_sequence
           \/ << head.last_sequence, head.last_event_hash >> # last,
           "AUDIT_CHAIN_HEAD_MISMATCH")

\* `expected` holds the head to compare with, or is empty.
VerifyAuditChain(c, entries, anchor, expected) ==
  When(entries = << >>, "AUDIT_GENESIS_INVALID")
    \cup (UNION {EntryReasons(entries[i]) \cup LinkReasons(c, entries, anchor, i) :
                   i \in DOMAIN entries})
    \cup (UNION {HeadReasons(entries, head) : head \in expected})

-----------------------------------------------------------------------------
(* The reader's operations.                                                  *)

\* verify_chain: the whole chain against its head.
VerifyChain(c) ==
  IF heads[c] = NoHead THEN {"AUDIT_EVENT_INVALID"}
  ELSE IF heads[c].last_sequence > VerifyLimit THEN {"AUDIT_EXPORT_TRUNCATED"}
  ELSE VerifyAuditChain(c, LoadRange(c, 1, heads[c].last_sequence,
                                     heads[c].last_sequence), {}, {heads[c]})

Refused(reason) == [refused |-> {reason}, entries |-> << >>, truncated |-> FALSE,
                    predecessor |-> STEP33_GENESIS_SENTINEL]

\* export_chain: one anchored page of a range.
ExportChain(c, first, last, maximum) ==
  LET anchor == PredecessorHash(c, first)
      loaded == LoadRange(c, first, last, maximum)
      page == SubSeq(loaded, 1, IF Len(loaded) < maximum THEN Len(loaded) ELSE maximum)
  IN  IF anchor = {} THEN Refused("AUDIT_PREVIOUS_HASH_MISMATCH")
      ELSE IF page = << >> THEN Refused("AUDIT_EVENT_INVALID")
      ELSE IF VerifyAuditChain(c, page, anchor, {}) # {}
      THEN Refused("AUDIT_CHAIN_BROKEN")
      ELSE [refused |-> {}, entries |-> page,
            truncated |-> Len(loaded) > maximum,
            predecessor |-> CHOOSE h \in anchor : TRUE]

-----------------------------------------------------------------------------
(* Properties.                                                               *)

\* Whatever interleaving of appends, retries and lost connections made the
\* chain, verify_chain accepts it, up to the length it is prepared to read.
EveryChainVerifies ==
  \A c \in Chains : heads[c] # NoHead =>
    VerifyChain(c) = When(heads[c].last_sequence > VerifyLimit, "AUDIT_EXPORT_TRUNCATED")

\* Page n of the export of a chain, each one starting behind the last row of
\* the page before it as the continuation token says.
Pages(c, maximum) ==
  LET pageCount == (heads[c].last_sequence + maximum - 1) \div maximum
      start[n \in 1 .. pageCount] ==
        IF n = 1 THEN 1
        ELSE Last(ExportChain(c, start[n - 1], heads[c].last_sequence, maximum).entries)
               .sequence_number + 1
  IN  [n \in 1 .. pageCount |-> ExportChain(c, start[n], heads[c].last_sequence, maximum)]

\* A caller that follows the continuation of a bounded export gets every row of
\* the chain once and in order, each page anchored in the last event of the one
\* before it, and is told of a continuation exactly when there is one: also for
\* a chain that is too long for verify_chain.
PagedExportIsWhole ==
  \A c \in Chains, maximum \in 1 .. MaximumEvents :
    LET pages == Pages(c, maximum)
        rows == LoadRange(c, 1, heads[c].last_sequence, heads[c].last_sequence)
    IN  /\ FlattenSeq([n \in DOMAIN pages |-> pages[n].entries]) = rows
        /\ \A n \in DOMAIN pages :
             /\ pages[n].refused = {}
             /\ pages[n].truncated <=> n < Len(pages)
             /\ n > 1 => pages[n].predecessor = Last(pages[n - 1].entries).event_hash

\* A chain rebuilt from its genesis over other drafts: every link is right.
Forged(drafts) ==
  [n \in DOMAIN drafts |-> BuildEntry(drafts[n], n, SubSeq(drafts, 1, n - 1))]

Others(d) == {o \in AuditEventDraft : o # d /\ o.chain = d.chain}

\* The ways a stored chain is altered: one row edited with or without its
\* hashes recomputed, a row removed, two rows exchanged, a row repeated, the
\* history rewritten from some event on, rows cut off or added at the end.
Alterations(rows) ==
  LET drafts == [n \in DOMAIN rows |-> rows[n].draft]
      Redrafted(i, d) ==
        {[rows EXCEPT ![i].draft = d],
         [rows EXCEPT ![i].draft = d, ![i].payload = d.body],
         [rows EXCEPT ![i] = BuildEntry(d, i, rows[i].previous_event_hash)],
         Forged([drafts EXCEPT ![i] = d]),
         Forged(Append(drafts, d))}
      Altered(i) ==
             (UNION {Redrafted(i, d) : d \in Others(drafts[i])})
        \cup {RemoveAt(rows, i), InsertAt(rows, i, rows[i]), SubSeq(rows, 1, i - 1)}
        \cup {[rows EXCEPT ![i] = rows[j], ![j] = rows[i]] : j \in DOMAIN rows \ {i}}
        \cup {[rows EXCEPT ![i].payload = b] :
                b \in ({"TAMPERED"} \cup Bodies) \ {rows[i].payload}}
  IN  UNION {Altered(i) : i \in DOMAIN rows}

\* Verification against the stored head rejects every alteration of the rows
\* (the controlled tamper cases of the ledger's documentation).
TamperingIsDetected ==
  \A c \in Chains :
    LET rows == LoadRange(c, 1, heads[c].last_sequence, heads[c].last_sequence)
    IN  \A altered \in Alterations(rows) :
          VerifyAuditChain(c, altered, {}, {heads[c]}) # {}

\* The readers are exact: they accept every chain the ledger can make, return
\* all of it, and accept no alteration of it.
ReadersAreExact == EveryChainVerifies /\ PagedExportIsWhole /\ TamperingIsDetected
=============================================================================
