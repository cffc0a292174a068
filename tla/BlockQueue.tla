---------------------------- MODULE BlockQueue ----------------------------
(***************************************************************************)
(* block_queue: the spans of blocks that connections have reserved or      *)
(* filled, and the hashes that count as requested.  A queue is a record of *)
(* the set of spans and of requested_hashes; each operator is one method,  *)
(* which holds the queue's mutex from beginning to end.                    *)
(*                                                                         *)
(* The set is ordered, and so unique, by start height alone.  The span of  *)
(* the block chain itself (is_blockchain_placeholder) is never put in:     *)
(* there is no gap before the first span, and get_start_gap_span finds     *)
(* none.                                                                   *)
(***************************************************************************)
EXTENDS Integers, Sequences, FiniteSets, SequencesExt

EmptyQueue == [spans |-> {}, requested |-> {}]

\* A span without blocks is scheduled, one with blocks is filled.
Span(start, connection, blocks) ==
  [start |-> start, connection |-> connection, hashes |-> <<>>, blocks |-> blocks]

Filled(s) == s.blocks # <<>>

\* erase_block, for each span of S.
Erase(q, S) ==
  [spans |-> q.spans \ S,
   requested |-> q.requested \ UNION {ToSet(s.hashes) : s \in S}]

\* blocks.insert: nothing happens when there is a span with this start.
Insert(q, s) ==
  IF \E t \in q.spans : t.start = s.start THEN q ELSE [q EXCEPT !.spans = @ \cup {s}]

\* Mutant: the hashes count as requested whether or not there is such a span.
set_span_hashes_always(q, start, connection, hashes) ==
  [spans |-> {IF s.start = start /\ s.connection = connection THEN [s EXCEPT !.hashes = hashes] ELSE s : s \in q.spans},
   requested |-> q.requested \cup ToSet(hashes)]

\* The hashes count as requested only with a span that holds them.
set_span_hashes(q, start, connection, hashes) ==
  LET S == {s \in q.spans : s.start = start /\ s.connection = connection}
      T == {[s EXCEPT !.hashes = hashes] : s \in S}
      r == Erase(q, S)
  IN  IF S = {} THEN q
      ELSE [spans |-> r.spans \cup T, requested |-> r.requested \cup ToSet(hashes)]

\* add_blocks, of a filled span: it inherits the hashes of the span it replaces.
add_blocks(q, start, blocks, connection) ==
  LET old == {s \in q.spans : s.start = start}
      r == Insert(Erase(q, old), Span(start, connection, blocks))
  IN  IF old = {} THEN r
      ELSE LET h == (CHOOSE s \in old : TRUE).hashes IN set_span_hashes(r, start, connection, h)

remove_spans(q, connection, start) ==
  Erase(q, {s \in q.spans : s.connection = connection /\ s.start <= start})

flush_spans(q, connection, all) ==
  Erase(q, {s \in q.spans : s.connection = connection /\ (all \/ ~Filled(s))})

flush_stale_spans(q, live) ==
  Erase(q, {s \in q.spans : s.connection \notin live /\ ~Filled(s)})

\* The part of hashes that reserve_span takes, which ends at height last, and where it
\* starts.
Wanted(q, last, max, hashes) ==
  LET skip == IF \E i \in DOMAIN hashes : hashes[i] \notin q.requested
              THEN (CHOOSE i \in DOMAIN hashes :
                      /\ hashes[i] \notin q.requested
                      /\ \A j \in 1..(i - 1) : hashes[j] \in q.requested) - 1
              ELSE Len(hashes)
      n == IF Len(hashes) - skip < max THEN Len(hashes) - skip ELSE max
  IN  [start |-> last - Len(hashes) + 1 + skip, hashes |-> SubSeq(hashes, skip + 1, skip + n)]

reserve_span(q, connection, w) ==
  set_span_hashes(Insert(q, Span(w.start, connection, <<>>)), w.start, connection, w.hashes)

\* The first span of S, if there is one.
First(S) == {s \in S : \A t \in S : s.start <= t.start}

\* get_next_span, of the filled ones.
get_next_span(q) == First({s \in q.spans : Filled(s)})

get_next_span_if_scheduled(q) == {s \in First(q.spans) : ~Filled(s)}

has_next_scheduled_span(q, connection) ==
  \E s \in First(q.spans) : s.connection = connection /\ ~Filled(s)

get_num_filled_spans(q) == Cardinality({s \in q.spans : Filled(s)})
=============================================================================
