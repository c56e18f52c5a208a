------------------------------ MODULE AuditLog ------------------------------
(* What the audit ledger promises: one append-only log of event drafts for   *)
(* each owner chain, in which an idempotency key names one draft for ever,   *)
(* and an acknowledgement only for a draft the log holds.  AuditLedger       *)
(* implements it with rows, a locked chain head and hash links.              *)
EXTENDS Sequences, FiniteSets, Integers

CONSTANTS Chains,  \* the (tenant, owner) partitions
          Draft    \* the drafts: records with at least .chain and .key

VARIABLES log,          \* log[c]: the drafts of chain c in sequence order
          acknowledged  \* the drafts some caller holds a receipt for

logVars == << log, acknowledged >>

Logged(d) == \E i \in 1 .. Len(log[d.chain]) : log[d.chain][i] = d
KeyUsed(d) == \E i \in 1 .. Len(log[d.chain]) : log[d.chain][i].key = d.key

LogInit == /\ log = [c \in Chains |-> << >>]
           /\ acknowledged = {}

\* The first append of a key; the acknowledgement may be lost.
LogEvent(d) ==
  /\ ~ KeyUsed(d)
  /\ log' = [log EXCEPT ![d.chain] = Append(@, d)]
  /\ acknowledged' \in {acknowledged, acknowledged \cup {d}}

\* An exact replay is acknowledged and changes nothing.
Acknowledge(d) == /\ Logged(d)
                  /\ acknowledged' = acknowledged \cup {d}
                  /\ UNCHANGED log

LogNext == \E d \in Draft : LogEvent(d) \/ Acknowledge(d)

LogSpec == LogInit /\ [][LogNext]_logVars
=============================================================================
