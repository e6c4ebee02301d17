------------------------------ MODULE PoolGate -------------------------------
(***************************************************************************)
(* The pooled publish gate of one market (src/src/pool.rs) as a record and *)
(* operators on it, so that the handlers that own a gate compose them in   *)
(* the order the code calls them.  NoKey stands for an absent key and for  *)
(* one classify_key cannot order: the code refuses both alike.  The        *)
(* counters of the gate are a record of their own, the tally.              *)
(***************************************************************************)
EXTENDS Integers, Sequences, Functions

CONSTANTS
  Sockets,                  \* socket indices, 0 the publishing slot
  Keys,                     \* orderable venue keys
  NoKey,                    \* no key, or one that cannot be ordered
  Contents,                 \* what a frame may carry (candidate_projection)
  SizeOf,                   \* the length of each projection
  MaxEvidenceEntries,       \* MAX_EVIDENCE_ENTRIES
  MaxEvidenceBytes,         \* MAX_EVIDENCE_BYTES
  MaxProjectionBytes        \* MAX_EVIDENCE_PROJECTION_BYTES

ASSUME PoolAssumption ==
  /\ Sockets \subseteq Nat /\ 0 \in Sockets
  /\ Keys \subseteq Nat /\ NoKey \notin Keys
  /\ SizeOf \in [Contents -> Nat]
  /\ MaxEvidenceEntries \in Nat \ {0}
  /\ MaxProjectionBytes \in Nat /\ MaxEvidenceBytes \in Nat
  /\ MaxProjectionBytes <= MaxEvidenceBytes

Armed == "Armed"

-----------------------------------------------------------------------------
(* The evidence ledger                                                     *)

EmptyLedger == [entries |-> <<>>, bytes |-> 0]

Holds(ledger, key) == \E i \in DOMAIN ledger.entries : ledger.entries[i].key = key

EvidenceFor(ledger, key) ==
  ledger.entries[CHOOSE i \in DOMAIN ledger.entries :
                   /\ ledger.entries[i].key = key
                   /\ \A j \in 1..(i - 1) : ledger.entries[j].key # key].content

BytesOf(entries) == FoldFunction(LAMBDA e, sum : SizeOf[e.content] + sum, 0, entries)

\* Mutant: the bytes of evicted entries are not given back.
RecordKeepingBytes(ledger, key, content) ==
  LET all == Append(ledger.entries, [key |-> key, content |-> content])
      first == IF Len(all) > MaxEvidenceEntries THEN Len(all) - MaxEvidenceEntries + 1 ELSE 1
  IN  [entries |-> SubSeq(all, first, Len(all)),
       bytes |-> ledger.bytes + SizeOf[content]]

\* Push the newest entry, then drop oldest ones while either bound is passed; the byte bound
\* alone never drops the last entry.
Record(ledger, key, content) ==
  LET all == Append(ledger.entries, [key |-> key, content |-> content])
      total == ledger.bytes + SizeOf[content]
      left(d) == total - BytesOf(SubSeq(all, 1, d))
      fits(d) == /\ Len(all) - d <= MaxEvidenceEntries
                 /\ left(d) <= MaxEvidenceBytes \/ Len(all) - d <= 1
      drop == CHOOSE d \in 0..Len(all) : fits(d) /\ \A e \in 0..(d - 1) : ~fits(e)
  IN  [entries |-> SubSeq(all, drop + 1, Len(all)), bytes |-> left(drop)]

-----------------------------------------------------------------------------
(* The gate                                                                *)

NewGate == [last_key |-> [s \in Sockets |-> NoKey], replaced |-> [s \in Sockets |-> FALSE],
            last_published |-> NoKey, evidence |-> EmptyLedger, degraded |-> Armed]

IsArmed(g) == g.degraded = Armed

ClassifyKey(last, next) ==
  IF last = NoKey THEN "First"
  ELSE IF last = next THEN "Duplicate"
  ELSE IF next > last THEN "Advance" ELSE "Inversion"

EvidenceMatches(g, key, content) ==
  Holds(g.evidence, key) /\ EvidenceFor(g.evidence, key) = content

\* The condition that withdraws the licence on this arrival, in the order of the checks.
Violation(g, s, key, content) ==
  IF key = NoKey \/ SizeOf[content] > MaxProjectionBytes THEN "KeyUnavailable"
  ELSE IF Holds(g.evidence, key) /\ EvidenceFor(g.evidence, key) # content
       THEN "EqualKeyContentMismatch"
  ELSE IF ClassifyKey(g.last_key[s], key) = "Inversion" THEN "ConnectionInversion"
  ELSE IF /\ g.last_key[s] = NoKey /\ g.replaced[s]
          /\ ClassifyKey(g.last_published, key) = "Inversion" THEN "ReconnectRewind"
  ELSE "None"

\* Mutant: the verdict is taken against the socket's own last key.
VerdictOfSocket(g, s, key) ==
  CASE ClassifyKey(g.last_key[s], key) \in {"First", "Advance"} -> "Publish"
    [] ClassifyKey(g.last_key[s], key) = "Duplicate" -> "Duplicate"
    [] OTHER -> "Stale"

\* The publish decision: against what the pool published, whichever socket delivers.
Verdict(g, s, key) ==
  CASE ClassifyKey(g.last_published, key) \in {"First", "Advance"} -> "Publish"
    [] ClassifyKey(g.last_published, key) = "Duplicate" -> "Duplicate"
    [] OTHER -> "Stale"

\* PoolGate::admit: the gate after the arrival, and its verdict.
Admit(g, s, key, content) ==
  LET violation == Violation(g, s, key, content)
      ledger == IF Holds(g.evidence, key) THEN g.evidence ELSE Record(g.evidence, key, content)
      own == IF ClassifyKey(g.last_key[s], key) \in {"First", "Advance"} THEN key ELSE g.last_key[s]
  IN  IF ~IsArmed(g) THEN [gate |-> g, verdict |-> "Disarmed"]
      ELSE IF violation # "None"
           THEN [gate |-> [g EXCEPT !.degraded = violation], verdict |-> "Degrade"]
      ELSE [gate |-> [g EXCEPT !.evidence = ledger, !.last_key[s] = own],
            verdict |-> Verdict(g, s, key)]

\* PoolGate::committed, the part the publish decision reads.
Committed(g, key) == [g EXCEPT !.last_published = key]

\* Mutant: the moved connection's own key stays behind.
ReassignSocketKeyless(g, from, to) ==
  IF from = to THEN g
  ELSE [g EXCEPT !.replaced[to] = g.replaced[from], !.replaced[from] = TRUE]

ReassignSocket(g, from, to) ==
  IF from = to THEN g
  ELSE [g EXCEPT !.last_key[to] = g.last_key[from], !.last_key[from] = NoKey,
                 !.replaced[to] = g.replaced[from], !.replaced[from] = TRUE]

ExchangeSockets(g, a, b) ==
  [g EXCEPT !.last_key[a] = g.last_key[b], !.last_key[b] = g.last_key[a],
            !.replaced[a] = g.replaced[b], !.replaced[b] = g.replaced[a]]

ResetSocket(g, s) == [g EXCEPT !.last_key[s] = NoKey]

RetireSocket(g, s) == [g EXCEPT !.last_key[s] = NoKey, !.replaced[s] = TRUE]

-----------------------------------------------------------------------------
(* The tally                                                               *)

NewTally == [published |-> 0, by_socket |-> [s \in Sockets |-> 0], duplicate_drops |-> 0,
             stale_drops |-> 0, last_publisher |-> -1]

TallyAdmitted(t, verdict) ==
  CASE verdict = "Duplicate" -> [t EXCEPT !.duplicate_drops = @ + 1]
    [] verdict = "Stale" -> [t EXCEPT !.stale_drops = @ + 1]
    [] OTHER -> t

TallyCommitted(t, s) ==
  [t EXCEPT !.published = @ + 1, !.by_socket[s] = @ + 1, !.last_publisher = s]

\* PoolGate::recovered: published coverage, taken back out of the duplicates.
TallyRecovered(t, s) ==
  [t EXCEPT !.published = @ + 1, !.by_socket[s] = @ + 1,
            !.duplicate_drops = IF @ = 0 THEN 0 ELSE @ - 1]

\* The last publisher follows its connection; the counts stay with the socket.
TallyReassigned(t, from, to) ==
  IF from # to /\ t.last_publisher = from THEN [t EXCEPT !.last_publisher = to] ELSE t

TallyExchanged(t, a, b) ==
  CASE t.last_publisher = a -> [t EXCEPT !.last_publisher = b]
    [] t.last_publisher = b -> [t EXCEPT !.last_publisher = a]
    [] OTHER -> t
=============================================================================
