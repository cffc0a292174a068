----------------------------- MODULE SyncProofs -----------------------------
(***************************************************************************)
(* For any peers, blocks and bounds: a hash that counts as requested is    *)
(* held by a span of the block queue.                                      *)
(*                                                                         *)
(* Each method of the queue is shown to keep this, given that spans are    *)
(* whole; each handler is then a few calls of such methods.                *)
(***************************************************************************)
EXTENDS Sync, TLAPS

Hashes(spans) == UNION {ToSet(s.hashes) : s \in spans}

Whole(s) ==
  s = [start |-> s.start, connection |-> s.connection, hashes |-> s.hashes, blocks |-> s.blocks]

\* A queue of whole spans that hold all that is requested.
Tight(q) ==
  /\ q = [spans |-> q.spans, requested |-> q.requested]
  /\ \A s \in q.spans : Whole(s)
  /\ q.requested \subseteq Hashes(q.spans)

IInv == Tight(queue)

\* erase_block takes the hashes of a span with it, even those that another span holds too.
LEMMA EraseTight ==
  ASSUME NEW q, Tight(q), NEW S
  PROVE  Tight(Erase(q, S))
<1> DEFINE r == Erase(q, S)
<1>1. r.spans = q.spans \ S /\ r.requested = q.requested \ Hashes(S)
  BY DEF Erase, Hashes
<1>2. r = [spans |-> r.spans, requested |-> r.requested]
  BY DEF Erase
<1>3. ASSUME NEW h \in r.requested
      PROVE  h \in Hashes(r.spans)
  <2>1. PICK s \in q.spans : h \in ToSet(s.hashes)
    BY <1>1, <1>3 DEF Tight, Hashes
  <2>2. s \notin S
    BY <1>1, <1>3, <2>1 DEF Hashes
  <2> QED
    BY <1>1, <2>1, <2>2 DEF Hashes
<1> QED
  BY <1>1, <1>2, <1>3 DEF Tight

\* blocks.insert adds a span that nothing is requested for yet, or nothing.
LEMMA InsertTight ==
  ASSUME NEW q, Tight(q), NEW s, Whole(s)
  PROVE  Tight(Insert(q, s))
<1> DEFINE r == [q EXCEPT !.spans = @ \cup {s}]
<1>1. /\ r = [spans |-> q.spans \cup {s}, requested |-> q.requested]
  BY DEF Tight
<1>2. Tight(r)
  BY <1>1 DEF Tight, Hashes
<1> QED
  BY <1>2 DEF Insert

\* set_span_hashes requests hashes only when there is a span to hold them.
LEMMA SetHashesTight ==
  ASSUME NEW q, Tight(q), NEW start, NEW connection, NEW hashes
  PROVE  Tight(set_span_hashes(q, start, connection, hashes))
<1> DEFINE S == {s \in q.spans : s.start = start /\ s.connection = connection}
           T == {[s EXCEPT !.hashes = hashes] : s \in S}
           r == Erase(q, S)
           new == [spans |-> r.spans \cup T, requested |-> r.requested \cup ToSet(hashes)]
<1>1. CASE S = {}
  BY <1>1 DEF set_span_hashes
<1>2. CASE S # {}
  <2>1. Tight(r)
    BY EraseTight
  <2>2. ASSUME NEW t \in T PROVE Whole(t) /\ t.hashes = hashes
    <3>1. PICK s \in S : t = [s EXCEPT !.hashes = hashes]
      OBVIOUS
    <3>2. Whole(s)
      BY DEF Tight
    <3>3. t = [start |-> s.start, connection |-> s.connection, hashes |-> hashes, blocks |-> s.blocks]
      BY <3>1, <3>2 DEF Whole
    <3> QED
      BY <3>3 DEF Whole
  <2>3. \E t \in T : TRUE
    BY Zenon, <1>2
  <2>4. r.requested \cup ToSet(hashes) \subseteq Hashes(r.spans \cup T)
    BY <2>1, <2>2, <2>3 DEF Tight, Hashes
  <2>5. \A s \in r.spans \cup T : Whole(s)
    BY <2>1, <2>2 DEF Tight
  <2>6. Tight(new)
    BY Zenon, <2>4, <2>5 DEF Tight
  <2> QED
    BY <1>2, <2>6 DEF set_span_hashes
<1> QED
  BY <1>1, <1>2

\* A new span is whole.
LEMMA SpanWhole ==
  ASSUME NEW start, NEW connection, NEW blocks
  PROVE  Whole(Span(start, connection, blocks))
  BY DEF Whole, Span

\* add_blocks keeps the hashes of the span it replaces requested.
LEMMA AddBlocksTight ==
  ASSUME NEW q, Tight(q), NEW start, NEW blocks, NEW connection
  PROVE  Tight(add_blocks(q, start, blocks, connection))
<1> DEFINE old == {s \in q.spans : s.start = start}
           r == Insert(Erase(q, old), Span(start, connection, blocks))
           h == (CHOOSE s \in old : TRUE).hashes
<1>1. Tight(r)
  BY EraseTight, InsertTight, SpanWhole
<1>2. Tight(set_span_hashes(r, start, connection, h))
  BY <1>1, SetHashesTight
<1> QED
  BY <1>1, <1>2 DEF add_blocks

\* The methods that drop spans erase them.
LEMMA DropTight ==
  ASSUME NEW q, Tight(q), NEW c, NEW start, NEW all, NEW live
  PROVE  /\ Tight(remove_spans(q, c, start))
         /\ Tight(flush_spans(q, c, all))
         /\ Tight(flush_stale_spans(q, live))
  BY EraseTight DEF remove_spans, flush_spans, flush_stale_spans

\* reserve_span, also when another connection has a span with this start.
LEMMA ReserveTight ==
  ASSUME NEW q, Tight(q), NEW c, NEW w
  PROVE  Tight(reserve_span(q, c, w))
  BY InsertTight, SetHashesTight, SpanWhole DEF reserve_span

\* A connection that starts anew leaves its spans, and what they hold, to Nobody.
LEMMA RenameTight ==
  ASSUME NEW q, Tight(q), NEW c,
         NEW r, r = [q EXCEPT !.spans = {IF s.connection = c THEN [s EXCEPT !.connection = Nobody] ELSE s : s \in @}]
  PROVE  Tight(r)
<1> DEFINE ren(s) == IF s.connection = c THEN [s EXCEPT !.connection = Nobody] ELSE s
<1>1. r = [spans |-> {ren(s) : s \in q.spans}, requested |-> q.requested]
  BY Zenon DEF Tight
<1>2. ASSUME NEW s \in q.spans PROVE Whole(ren(s)) /\ ren(s).hashes = s.hashes
  <2>1. Whole(s)
    BY DEF Tight
  <2> QED
    BY <2>1 DEF Whole
<1> HIDE DEF ren
<1>3. r.spans = {ren(s) : s \in q.spans} /\ r.requested = q.requested
  BY <1>1
<1>4. \A t \in r.spans : Whole(t)
  BY <1>2, <1>3
<1>5. ASSUME NEW h \in r.requested PROVE h \in Hashes(r.spans)
  <2>1. PICK s \in q.spans : h \in ToSet(s.hashes)
    BY <1>3, <1>5 DEF Tight, Hashes
  <2>2. ren(s) \in r.spans /\ h \in ToSet(ren(s).hashes)
    BY <1>2, <1>3, <2>1
  <2> QED
    BY <2>2 DEF Hashes
<1> QED
  BY Zenon, <1>1, <1>4, <1>5 DEF Tight

\* AskChain keeps the queue or flushes the connection's spans.
LEMMA AskChainTight ==
  ASSUME NEW c, NEW d, NEW q, Tight(q), AskChain(c, d, q)
  PROVE  Tight(queue')
<1>1. queue' = q \/ queue' = flush_spans(q, c, FALSE)
  BY Zenon DEF AskChain
<1> QED
  BY <1>1, DropTight

\* Every step of every handler keeps the queue tight.
LEMMA StepTight == IInv /\ [Next]_vars => IInv'
<1> SUFFICES ASSUME Tight(queue), [Next]_vars
             PROVE  Tight(queue')
  BY DEF IInv
<1>1. CASE UNCHANGED queue
  BY <1>1
<1>2. ASSUME NEW c \in Connections, Connect(c)
      PROVE  Tight(queue')
  BY <1>2, RenameTight DEF Connect
<1>3. ASSUME NEW c \in Connections, PeerCloses(c) \/ Kick(c)
      PROVE  Tight(queue')
  BY Zenon, <1>3, DropTight DEF PeerCloses, Kick
<1>4. ASSUME NEW c \in Connections, handle_response_get_objects(c)
      PROVE  Tight(queue')
  <2>1. \/ queue' = flush_spans(queue, c, FALSE)
        \/ \E start : queue' = remove_spans(queue, c, start)
        \/ \E start, blocks : queue' = add_blocks(queue, start, blocks, c)
    BY Zenon, <1>4 DEF handle_response_get_objects
  <2> QED
    BY Zenon, <2>1, DropTight, AddBlocksTight
<1>5. ASSUME NEW c \in Connections, DiscardSpan(c) \/ RemoveSpan(c)
      PROVE  Tight(queue')
  BY <1>5, DropTight DEF DiscardSpan, RemoveSpan
<1>6. ASSUME NEW c \in Connections, RefuseBlock(c)
      PROVE  Tight(queue')
  <2> DEFINE q == IF job.connection \in Live THEN flush_spans(queue, job.connection, TRUE) ELSE queue
  <2>1. Tight(q)
    BY Zenon, DropTight
  <2>2. queue' = remove_spans(q, job.connection, job.start)
    BY <1>6 DEF RefuseBlock
  <2> QED
    BY Zenon, <2>1, <2>2, DropTight
<1>7. ASSUME NEW c \in Connections, Standby(c)
      PROVE  Tight(queue')
  BY <1>7, DropTight DEF Standby
<1>8. ASSUME NEW c \in Connections, Request(c)
      PROVE  Tight(queue')
  <2> DEFINE q == flush_stale_spans(queue, Live)
  <2>1. Tight(q)
    BY DropTight
  <2>2. \/ \E d, ids : Ask(c, d, q, ids)
        \/ \E d, w : Ask(c, d, reserve_span(q, c, w), w.hashes)
        \/ \E d : AskChain(c, d, q)
    BY Zenon, <1>8 DEF Request
  <2> QED
    BY Zenon, <2>1, <2>2, ReserveTight, AskChainTight DEF Ask
<1>9. ASSUME NEW c \in Connections, Timers(c) \/ Handle(c)
      PROVE  Tight(queue')
  BY <1>1, <1>3, <1>4, <1>5, <1>6, <1>7, <1>8, <1>9
     DEF Timers, Handle, TimedSync, CheckStandby, on_callback, handle_response_chain_entry, TrySyncLock,
         NoNextSpan, TakeSpan, AwaitParent, AddBlock, AfterAdding
<1> QED
  BY <1>1, <1>2, <1>3, <1>9 DEF Next, vars

\* Spec => []NothingLeaked (block_queue.cpp): whatever connections do and in whatever order, a
\* hash counts as requested only while a span holds it.
THEOREM RequestedHeld == Spec => []NothingLeaked
<1>1. Init => IInv
  BY DEF IInv, Init, Tight, EmptyQueue, Hashes
<1>2. IInv => NothingLeaked
  BY DEF IInv, Tight, NothingLeaked, Hashes
<1> QED
  BY <1>1, <1>2, StepTight, PTL DEF Spec
=============================================================================
