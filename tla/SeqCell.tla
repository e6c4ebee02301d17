------------------------------ MODULE SeqCell --------------------------------
(***************************************************************************)
(* One seqlock-published record of the shared segment, at the granularity  *)
(* of the memory model: SeqCell's four operations (src/src/shm/cell.rs),   *)
(* the relaxed stores a writer makes between them, and the bounded retry   *)
(* loop of a reader, under_seqlock (src/src/shm/reader.rs).                *)
(*                                                                         *)
(* The memory is the view semantics of release/acquire atomics.  A cell is *)
(* the sequence of the stores made to it, a view says how far along each   *)
(* cell a thread is sure to be, and a load returns any store that is not   *)
(* before the loader's view.  A store carries a view: a release store the  *)
(* writer's own, a relaxed store the writer's at its last release fence.   *)
(* An acquire load joins the view it finds to the reader's at once, a      *)
(* relaxed load only at the reader's next acquire fence.  One thread       *)
(* stores and readers store nothing, so stores to a cell are in program    *)
(* order, no load can feed a store, and one reader stands for any number.  *)
(*                                                                         *)
(* A data word's content is the number of the publication that stored it.  *)
(***************************************************************************)
EXTENDS Integers, Sequences

CONSTANTS
  Words,            \* the record's data words
  U64Max,           \* the counter's largest value
  MaxReadAttempts   \* MAX_READ_ATTEMPTS

Counter == "counter"
Cells == Words \cup {Counter}

ASSUME SeqCellAssumption ==
  /\ Counter \notin Words
  /\ U64Max \in Nat
  /\ MaxReadAttempts \in Nat \ {0}

VARIABLES
  stores,           \* per cell, the stores made to it in order
  fenced,           \* the writer's view at its last release fence
  writing,          \* whether a write interval is open
  closed,           \* the record as each closed interval left it
  pc,               \* the reader: "idle", "opening" or "copying"
  view,             \* the reader's view
  heard,            \* the views its relaxed loads met, for its next acquire fence
  opened,           \* ReadInterval.opened
  copy,             \* the words copied under that interval
  attempts,         \* attempts this call has made
  stalled_at,       \* the first odd value this call met, or 0
  moved,            \* whether this call saw the counter move
  observed,         \* the counter values this call has loaded
  verdict,          \* how the last call ended
  accepted          \* the last copy a call returned

writer == <<stores, fenced, writing, closed>>
reader == <<pc, view, heard, opened, copy, attempts, stalled_at, moved, observed, verdict, accepted>>
vars == <<writer, reader>>

Unread == -1
Nothing == [w \in Words |-> Unread]
Start == [c \in Cells |-> 1]

Later(i, j) == IF i <= j THEN j ELSE i
Join(v, u) == [c \in Cells |-> Later(v[c], u[c])]

Last(c) == Len(stores[c])
Latest == [c \in Cells |-> Last(c)]

\* A store to c, with the view it carries.
RelaxedStore(c, v) ==
  stores' = [stores EXCEPT ![c] = Append(@,
              [value |-> v, view |-> [fenced EXCEPT ![c] = Last(c) + 1]])]
ReleaseStore(c, v) ==
  stores' = [stores EXCEPT ![c] = Append(@,
              [value |-> v, view |-> [Latest EXCEPT ![c] = Last(c) + 1]])]

Init ==
  /\ stores = [c \in Cells |-> <<[value |-> 0, view |-> Start]>>]
  /\ fenced = Start
  /\ writing = FALSE
  /\ closed = <<>>
  /\ pc = "idle"
  /\ view = Start
  /\ heard = Start
  /\ opened = 0
  /\ copy = Nothing
  /\ attempts = 0
  /\ stalled_at = 0
  /\ moved = FALSE
  /\ observed = {}
  /\ verdict = [kind |-> "none", at |-> 0]
  /\ accepted = [at |-> 0, copy |-> Nothing]

-----------------------------------------------------------------------------
(* The writer                                                              *)

writer_current == stores[Counter][Last(Counter)].value

\* A relaxed store of the odd value, then a release fence.
OpenWrite ==
  /\ ~writing
  /\ writer_current + 2 <= U64Max
  /\ RelaxedStore(Counter, writer_current + 1)
  /\ fenced' = [Latest EXCEPT ![Counter] = Last(Counter) + 1]
  /\ writing' = TRUE
  /\ UNCHANGED <<closed, reader>>

\* One relaxed data store.  A publication stores the words its book needs (a
\* level beyond the count is not stored), in whatever order.
StoreWord(w) ==
  /\ writing
  /\ stores[w][Last(w)].value # Len(closed) + 1
  /\ RelaxedStore(w, Len(closed) + 1)
  /\ UNCHANGED <<fenced, writing, closed, reader>>

CloseWrite ==
  /\ writing
  /\ ReleaseStore(Counter, writer_current + 1)
  /\ writing' = FALSE
  /\ closed' = Append(closed, [w \in Words |-> stores[w][Last(w)].value])
  /\ UNCHANGED <<fenced, reader>>

-----------------------------------------------------------------------------
(* The reader                                                              *)

StartRead ==
  /\ pc = "idle"
  /\ pc' = "opening"
  /\ attempts' = 0
  /\ stalled_at' = 0
  /\ moved' = FALSE
  /\ observed' = {}
  /\ UNCHANGED <<writer, view, heard, opened, copy, verdict, accepted>>

Return(kind, at) ==
  /\ pc' = "idle"
  /\ verdict' = [kind |-> kind, at |-> at]

\* What the loop does with the value its acquire load returned.
FindUnpublished(value) ==
  /\ value = 0
  /\ Return("unpublished", 0)
  /\ UNCHANGED <<opened, copy, stalled_at, moved>>

FindInFlight(value) ==
  /\ value % 2 = 1
  /\ stalled_at' = IF stalled_at = 0 THEN value ELSE stalled_at
  /\ moved' = (moved \/ (stalled_at # 0 /\ stalled_at # value))
  /\ UNCHANGED <<pc, verdict, opened, copy>>

FindStable(value) ==
  /\ value # 0 /\ value % 2 = 0
  /\ pc' = "copying"
  /\ opened' = value
  /\ copy' = Nothing
  /\ UNCHANGED <<stalled_at, moved, verdict>>

\* An acquire load of the counter.
OpenRead ==
  /\ pc = "opening"
  /\ attempts < MaxReadAttempts
  /\ attempts' = attempts + 1
  /\ \E i \in view[Counter] .. Last(Counter) :
       LET found == stores[Counter][i] IN
       /\ view' = Join(view, found.view)
       /\ heard' = Join(heard, found.view)
       /\ observed' = observed \cup {found.value}
       /\ \/ FindUnpublished(found.value)
          \/ FindInFlight(found.value)
          \/ FindStable(found.value)
  /\ UNCHANGED <<writer, accepted>>

\* One relaxed data load.
LoadWord(w) ==
  /\ pc = "copying"
  /\ copy[w] = Unread
  /\ \E i \in view[w] .. Last(w) :
       LET found == stores[w][i] IN
       /\ copy' = [copy EXCEPT ![w] = found.value]
       /\ view' = [view EXCEPT ![w] = i]
       /\ heard' = Join(heard, found.view)
  /\ UNCHANGED <<writer, pc, opened, attempts, stalled_at, moved, observed, verdict, accepted>>

\* What the loop does with the value its relaxed reload returned.
Accept(value) ==
  /\ value = opened
  /\ Return("copied", opened)
  /\ accepted' = [at |-> opened \div 2, copy |-> copy]
  /\ UNCHANGED moved

\* A mutant of the next action: a failed recheck is not counted as movement.
RetryUnmoved(value) ==
  /\ value # opened
  /\ pc' = "opening"
  /\ UNCHANGED <<moved, verdict, accepted>>

Retry(value) ==
  /\ value # opened
  /\ pc' = "opening"
  /\ moved' = TRUE
  /\ UNCHANGED <<verdict, accepted>>

\* A mutant of the next action: without the acquire fence.
CloseReadUnfenced ==
  /\ pc = "copying"
  /\ \E i \in view[Counter] .. Last(Counter) :
       LET found == stores[Counter][i] IN
       /\ view' = [view EXCEPT ![Counter] = i]
       /\ heard' = Join(heard, found.view)
       /\ observed' = observed \cup {found.value}
       /\ Accept(found.value) \/ Retry(found.value)
  /\ UNCHANGED <<writer, opened, copy, attempts, stalled_at>>

\* An acquire fence, then a relaxed reload of the counter.
CloseRead ==
  /\ pc = "copying"
  /\ LET fence == Join(view, heard) IN
     \E i \in fence[Counter] .. Last(Counter) :
       LET found == stores[Counter][i] IN
       /\ view' = [fence EXCEPT ![Counter] = i]
       /\ heard' = Join(heard, found.view)
       /\ observed' = observed \cup {found.value}
       /\ Accept(found.value) \/ Retry(found.value)
  /\ UNCHANGED <<writer, opened, copy, attempts, stalled_at>>

\* The bound expired.
GiveUp ==
  /\ pc = "opening"
  /\ attempts = MaxReadAttempts
  /\ IF stalled_at # 0 /\ ~moved THEN Return("stalled", stalled_at) ELSE Return("contended", 0)
  /\ UNCHANGED <<writer, view, heard, opened, copy, attempts, stalled_at, moved, observed, accepted>>

-----------------------------------------------------------------------------
Next ==
  \/ OpenWrite \/ CloseWrite
  \/ StartRead \/ OpenRead \/ CloseRead \/ GiveUp
  \/ \E w \in Words : StoreWord(w) \/ LoadWord(w)

Spec == Init /\ [][Next]_vars

-----------------------------------------------------------------------------
Stores == [value : 0 .. U64Max, view : [Cells -> Nat \ {0}]]
Copies == [Words -> 0 .. U64Max \cup {Unread}]
Verdicts == {"none", "unpublished", "copied", "stalled", "contended"}

WriterTypes ==
  /\ stores \in [Cells -> Seq(Stores)]
  /\ \A c \in Cells : Last(c) \in Nat \ {0}
  /\ \A i \in 1 .. Last(Counter) : stores[Counter][i].value = i - 1
  /\ fenced \in [Cells -> Nat \ {0}] /\ \A c \in Cells : fenced[c] <= Last(c)
  /\ writing \in BOOLEAN
  /\ closed \in Seq([Words -> 0 .. U64Max])
  /\ Last(Counter) = 2 * Len(closed) + (IF writing THEN 2 ELSE 1)

ReaderTypes ==
  /\ pc \in {"idle", "opening", "copying"}
  /\ view \in [Cells -> Nat \ {0}] /\ heard \in [Cells -> Nat \ {0}]
  /\ \A c \in Cells : view[c] <= Last(c) /\ heard[c] <= Last(c)
  /\ opened \in 0 .. U64Max /\ copy \in Copies
  /\ attempts \in 0 .. MaxReadAttempts /\ stalled_at \in 0 .. U64Max /\ moved \in BOOLEAN
  /\ observed \subseteq 0 .. U64Max
  /\ verdict \in [kind : Verdicts, at : 0 .. U64Max]
  /\ accepted \in [at : 0 .. Len(closed), copy : Copies]

\* Every cell has been stored to at least once, no view runs past the stores
\* made, and the counter counts its own stores within 64 bits.
TypeOK == WriterTypes /\ ReaderTypes

\* No torn read: the words a call returns are those of one publication, the
\* one whose even value it opened under, as that publication left them.  Of
\* the words, some a call may not copy at all.
AcceptedIsStable ==
  accepted.at # 0 =>
    \A w \in Words : accepted.copy[w] \in {Unread, closed[accepted.at][w]}

\* WriterStalled is said of a counter that stood at one odd value for the whole
\* call, and Contended only of one that was seen to move.
VerdictIsHonest ==
  pc = "idle" =>
    /\ verdict.kind = "stalled" => verdict.at % 2 = 1 /\ observed = {verdict.at}
    /\ verdict.kind = "contended" => \E a, b \in observed : a # b

Atomic == INSTANCE AtomicRecord WITH Contents <- 0 .. U64Max, history <- closed, got <- accepted

\* The seqlock implements a record that is published and read in one step
\* each, with reads that never go back to an older publication.
AtomicSpec == Atomic!Spec
=============================================================================
