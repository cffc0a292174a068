-------------------------------- MODULE Sync --------------------------------
(***************************************************************************)
(* Synchronisation (cryptonote_protocol_handler.inl): the node asks each   *)
(* peer for the ids of the blocks it lacks, reserves spans of them in the  *)
(* block queue, asks for the blocks, and whichever connection gets the     *)
(* sync lock adds the filled spans to the chain.                           *)
(*                                                                         *)
(* A connection's handlers run one after the other (its strand), those of  *)
(* different connections side by side.  A handler is split where another   *)
(* may come in between: the block queue has its mutex, the chain its lock, *)
(* and m_sync_lock is held while spans are added.  Peers answer in order.  *)
(* The chain is seen through have_block and its top: the node follows the  *)
(* longer chain and, of two equally long ones, the first.                  *)
(***************************************************************************)
EXTENDS BlockQueue, FiniteSetsExt

CONSTANTS
  Blocks,      \* block |-> its height, its parent, and whether it is valid
  Genesis,
  Connections,
  Chains,      \* the possible assignments connection |-> the peer's chain, Genesis first
  SyncSize,    \* get_block_sync_size: blocks in a span
  MaxIds,      \* block ids in a NOTIFY_RESPONSE_CHAIN_ENTRY
  FullQueue,   \* filled spans at which connections stop asking for more
  MaxPending,  \* bound: callbacks and requests of a connection that a timer adds to
  MaxCloses    \* bound: connections that peers close

VARIABLES
  peer,     \* connection |-> the chain of the peer at its other end
  have,     \* the blocks of the node's chains
  refused,  \* m_invalid_blocks
  top,      \* the top of the main chain
  queue,    \* m_block_queue
  adder,    \* who holds m_sync_lock
  job,      \* the span being added: its connection, its start, the blocks left to add
  conn,     \* connection |-> its context, and where its handler is
  closes

vars == <<peer, have, refused, top, queue, adder, job, conn, closes>>

Nobody == "nobody"
NoJob == [connection |-> Nobody, start |-> 0, blocks |-> <<>>]

\* m_needed_objects, m_requested_objects, m_last_response_height,
\* m_callback_request_count; out: the requests that the peer has not answered yet.
Closed ==
  [live |-> FALSE, state |-> "before_handshake", at |-> "wait", force |-> FALSE,
   needed |-> <<>>, requested |-> {}, response_height |-> 0, calls |-> 0, out |-> <<>>]

Init ==
  /\ peer \in Chains
  /\ have = {Genesis} /\ refused = {} /\ top = Genesis
  /\ queue = EmptyQueue /\ adder = Nobody /\ job = NoJob
  /\ conn = [c \in Connections |-> Closed]
  /\ closes = 0

have_block(b) == b \in have \cup refused

Live == {c \in Connections : conn[c].live}

Waiting(c) == conn[c].live /\ conn[c].at = "wait"

\* The main chain below b.
Ancestry[b \in DOMAIN Blocks] ==
  IF b = Genesis THEN {b} ELSE {b} \cup Ancestry[Blocks[b].prev]

ChainRequest == [type |-> "chain", from |-> top, ids |-> <<>>]
ObjectsRequest(ids) == [type |-> "objects", from |-> Genesis, ids |-> ids]

post_notify(d, m) == IF d.live THEN [d EXCEPT !.out = Append(@, m)] ELSE d

\* The handler returns; the context of a connection that was closed goes with it.
Return(d) == IF d.live THEN [d EXCEPT !.at = "wait", !.force = FALSE] ELSE Closed

\* drop_connection and on_connection_close of c, in the contexts C.  A handler of c that is at
\* work goes on.
Dropped(C, c) ==
  [C EXCEPT ![c] = IF @.at = "wait" THEN Closed ELSE [@ EXCEPT !.live = FALSE, !.out = <<>>, !.calls = 0]]

-----------------------------------------------------------------------------
(* Connections come and go *)

\* process_payload_sync_data
Payload(c, d) ==
  LET p == peer[c]
  IN  IF have_block(Last(p))
      THEN [d EXCEPT !.state = "normal"]
      ELSE [d EXCEPT !.state = "synchronizing", !.calls = @ + 1]

\* A new connection has a new id: what the last one with the peer left behind is Nobody's.
Connect(c) ==
  /\ ~conn[c].live /\ conn[c].at = "wait"
  /\ conn' = [conn EXCEPT ![c] = Payload(c, [Closed EXCEPT !.live = TRUE])]
  /\ queue' = [queue EXCEPT !.spans = {IF s.connection = c THEN [s EXCEPT !.connection = Nobody] ELSE s : s \in @}]
  /\ job' = IF job.connection = c THEN [job EXCEPT !.connection = Nobody] ELSE job
  /\ UNCHANGED <<peer, have, refused, top, adder, closes>>

MayAdd(c) == conn[c].calls + Len(conn[c].out) < MaxPending

\* Ids that come while others are still needed are put behind them; a bound: only once.
TimedSync(c) ==
  /\ Waiting(c) /\ conn[c].state # "synchronizing" /\ MayAdd(c) /\ Len(conn[c].needed) <= MaxIds
  /\ conn' = [conn EXCEPT ![c] = Payload(c, @)]
  /\ UNCHANGED <<peer, have, refused, top, queue, adder, job, closes>>

PeerCloses(c) ==
  /\ conn[c].live /\ closes < MaxCloses
  /\ closes' = closes + 1
  /\ conn' = Dropped(conn, c)
  /\ queue' = flush_spans(queue, c, FALSE)
  /\ UNCHANGED <<peer, have, refused, top, adder, job>>

\* Nothing will happen on this connection any more.
Stalled(c) ==
  /\ Waiting(c) /\ conn[c].state = "synchronizing"
  /\ conn[c].out = <<>> /\ conn[c].calls = 0

\* Mutant: only peers that never shook hands are kicked.
KickPassive(c) ==
  /\ Stalled(c) /\ conn[c].state = "before_handshake"
  /\ conn' = Dropped(conn, c)
  /\ queue' = flush_spans(queue, c, FALSE)
  /\ UNCHANGED <<peer, have, refused, top, adder, job, closes>>

\* kick_idle_peers
Kick(c) ==
  /\ Stalled(c)
  /\ conn' = Dropped(conn, c)
  /\ queue' = flush_spans(queue, c, FALSE)
  /\ UNCHANGED <<peer, have, refused, top, adder, job, closes>>

\* check_standby_peers
CheckStandby(c) ==
  /\ Waiting(c) /\ conn[c].state = "standby" /\ MayAdd(c)
  /\ conn' = [conn EXCEPT ![c].calls = @ + 1]
  /\ UNCHANGED <<peer, have, refused, top, queue, adder, job, closes>>

on_callback(c) ==
  /\ Waiting(c) /\ conn[c].calls > 0
  /\ LET d == [conn[c] EXCEPT !.calls = @ - 1] IN
     conn' = [conn EXCEPT ![c] =
       CASE d.state = "synchronizing" -> post_notify(d, ChainRequest)
         [] d.state = "standby" -> [d EXCEPT !.state = "synchronizing", !.at = "try"]
         [] OTHER -> d]
  /\ UNCHANGED <<peer, have, refused, top, queue, adder, job, closes>>

-----------------------------------------------------------------------------
(* Answers of the peer *)

Answered(c, type) ==
  /\ Waiting(c) /\ conn[c].out # <<>> /\ Head(conn[c].out).type = type

\* find_blockchain_supplement at the peer, from the highest block that both main chains have;
\* handle_response_chain_entry adds the ids to what is needed.
handle_response_chain_entry(c) ==
  /\ Answered(c, "chain")
  /\ LET p == peer[c]
         split == Max({i \in DOMAIN p : p[i] \in Ancestry[Head(conn[c].out).from]})
         last == Min({Len(p), split + MaxIds - 1})
     IN conn' = [conn EXCEPT ![c].out = Tail(@), ![c].at = "request", ![c].force = FALSE,
                             ![c].response_height = last - 1,
                             ![c].needed = @ \o SubSeq(p, split, last)]
  /\ UNCHANGED <<peer, have, refused, top, queue, adder, job, closes>>

\* handle_response_get_objects: the peer sends the blocks that it has; they must be all that
\* are requested.
handle_response_get_objects(c) ==
  /\ Answered(c, "objects")
  /\ LET d == [conn[c] EXCEPT !.out = Tail(@)]
         blocks == SelectSeq(Head(conn[c].out).ids, LAMBDA b : b \in ToSet(peer[c]))
         start == Blocks[blocks[1]].height
         e == [d EXCEPT !.requested = {}, !.at = "try"]
     IN IF d.response_height > Len(peer[c]) \/ ToSet(blocks) # d.requested
        THEN /\ conn' = Dropped([conn EXCEPT ![c] = d], c)
             /\ queue' = flush_spans(queue, c, FALSE)
        ELSE /\ conn' = [conn EXCEPT ![c] = e]
             /\ queue' = IF have_block(Last(blocks))
                         THEN remove_spans(queue, c, start)
                         ELSE add_blocks(queue, start, blocks, c)
  /\ UNCHANGED <<peer, have, refused, top, adder, job, closes>>

-----------------------------------------------------------------------------
(* try_add_next_blocks *)

Step(c, from, to) == conn[c].at = from /\ conn' = [conn EXCEPT ![c].at = to]

\* Mutant: without the lock, there is nothing to do.
TryLockOrReturn(c) ==
  /\ \/ adder = Nobody /\ Step(c, "try", "next") /\ adder' = c
     \/ adder # Nobody /\ Step(c, "try", "wait") /\ UNCHANGED adder
  /\ UNCHANGED <<peer, have, refused, top, queue, job, closes>>

TrySyncLock(c) ==
  /\ \/ adder = Nobody /\ Step(c, "try", "next") /\ adder' = c
     \/ adder # Nobody /\ Step(c, "try", "request") /\ UNCHANGED adder
  /\ UNCHANGED <<peer, have, refused, top, queue, job, closes>>

NoNextSpan(c) ==
  /\ get_next_span(queue) = {} /\ Step(c, "next", "after")
  /\ UNCHANGED <<peer, have, refused, top, queue, adder, job, closes>>

\* The parent of the span's first block is known, is requested, or is neither.
TakeSpan(c) ==
  \E s \in get_next_span(queue) :
    /\ have_block(Blocks[s.blocks[1]].prev)
    /\ Step(c, "next", "add")
    /\ job' = [connection |-> s.connection, start |-> s.start, blocks |-> s.blocks]
    /\ UNCHANGED <<peer, have, refused, top, queue, adder, closes>>

AwaitParent(c) ==
  \E s \in get_next_span(queue) :
    LET prev == Blocks[s.blocks[1]].prev IN
    /\ ~have_block(prev) /\ prev \in queue.requested
    /\ Step(c, "next", "after")
    /\ UNCHANGED <<peer, have, refused, top, queue, adder, job, closes>>

DiscardSpan(c) ==
  \E s \in get_next_span(queue) :
    LET prev == Blocks[s.blocks[1]].prev IN
    /\ ~have_block(prev) /\ prev \notin queue.requested
    /\ conn[c].at = "next"
    /\ conn' = [conn EXCEPT ![c].at = "request", ![c].needed = <<>>, ![c].response_height = 0]
    /\ queue' = remove_spans(queue, s.connection, s.start)
    /\ adder' = Nobody
    /\ UNCHANGED <<peer, have, refused, top, job, closes>>

\* handle_incoming_block: a block the node has, even as invalid, is skipped.
AddBlock(c) ==
  /\ conn[c].at = "add"
  /\ LET b == Head(job.blocks) IN
     /\ have_block(b) \/ (Blocks[b].prev \in have /\ Blocks[b].valid)
     /\ have' = IF have_block(b) THEN have ELSE have \cup {b}
     /\ top' = IF ~have_block(b) /\ Blocks[b].height > Blocks[top].height THEN b ELSE top
     /\ job' = [job EXCEPT !.blocks = Tail(@)]
     /\ conn' = [conn EXCEPT ![c].at = IF Len(job.blocks) = 1 THEN "remove" ELSE "add"]
  /\ UNCHANGED <<peer, refused, queue, adder, closes>>

\* A block that is invalid or an orphan: the connection it came by is dropped with all its
\* spans, and the handler returns without another request.
RefuseBlock(c) ==
  /\ conn[c].at = "add"
  /\ LET b == Head(job.blocks) IN
     /\ ~have_block(b) /\ ~(Blocks[b].prev \in have /\ Blocks[b].valid)
     /\ refused' = IF Blocks[b].prev \in have THEN refused \cup {b} ELSE refused
  /\ LET C == IF job.connection \in Live THEN Dropped(conn, job.connection) ELSE conn
         q == IF job.connection \in Live THEN flush_spans(queue, job.connection, TRUE) ELSE queue
     IN /\ conn' = [C EXCEPT ![c] = Return(@)]
        /\ queue' = remove_spans(q, job.connection, job.start)
  /\ adder' = Nobody /\ job' = NoJob
  /\ UNCHANGED <<peer, have, top, closes>>

RemoveSpan(c) ==
  /\ Step(c, "remove", "next")
  /\ queue' = remove_spans(queue, job.connection, job.start)
  /\ job' = NoJob
  /\ UNCHANGED <<peer, have, refused, top, adder, closes>>

\* should_download_next_span: which of two connections is faster, and how long ago the other
\* one asked, is left open.
should_download_next_span(c) ==
  LET next == get_next_span_if_scheduled(queue) IN
  IF next = {}
  THEN {\E s \in get_next_span(queue) : s.start > Blocks[top].height + 1}
  ELSE IF \E s \in next : s.connection = c THEN {FALSE} ELSE BOOLEAN

AfterAdding(c) ==
  /\ conn[c].at = "after"
  /\ \E should \in should_download_next_span(c) :
       conn' = [conn EXCEPT ![c] =
         IF should
         THEN [@ EXCEPT !.at = "request", !.force = TRUE, !.needed = <<>>, !.response_height = 0]
         ELSE [@ EXCEPT !.at = "request", !.force = FALSE]]
  /\ adder' = Nobody
  /\ UNCHANGED <<peer, have, refused, top, queue, job, closes>>

-----------------------------------------------------------------------------
(* request_missing_objects *)

\* The needed blocks from the first one that the node does not have.
Missing(needed) ==
  LET known == {i \in DOMAIN needed : \A j \in 1..i : have_block(needed[j])}
  IN  SubSeq(needed, Cardinality(known) + 1, Len(needed))

\* The request is sent, and the handler is done.
Ask(c, d, q, ids) ==
  /\ conn' = [conn EXCEPT ![c] =
       post_notify(Return([d EXCEPT !.requested = @ \cup ToSet(ids)]), ObjectsRequest(ids))]
  /\ queue' = q

\* No span was found: more ids are needed, or this peer has no more.
AskChain(c, d, q) ==
  LET e == Return([d EXCEPT !.needed = <<>>])
      last == Len(peer[c]) - 1
  IN
  CASE d.response_height < last ->
         conn' = [conn EXCEPT ![c] = post_notify(e, ChainRequest)] /\ queue' = q
    [] d.response_height = last /\ d.requested = {} ->
         conn' = [conn EXCEPT ![c] = Return([d EXCEPT !.needed = <<>>, !.state = "normal"])] /\ queue' = q
    [] OTHER ->
         conn' = Dropped([conn EXCEPT ![c] = e], c) /\ queue' = flush_spans(q, c, FALSE)

\* The queue is full, somebody else is adding blocks, and this connection need not help.
Standby(c) ==
  LET q == flush_stale_spans(queue, Live) IN
  /\ conn[c].at = "request" /\ ~conn[c].force
  /\ get_num_filled_spans(q) >= FullQueue /\ adder # Nobody
  /\ FALSE \in should_download_next_span(c)
  /\ queue' = q
  /\ LET d == [conn[c] EXCEPT !.state = "standby"] IN
     conn' = [conn EXCEPT ![c] =
       Return(IF has_next_scheduled_span(q, c) THEN [d EXCEPT !.calls = @ + 1] ELSE d)]
  /\ UNCHANGED <<peer, have, refused, top, adder, job, closes>>

Request(c) ==
  LET d == IF conn[c].force THEN conn[c] ELSE [conn[c] EXCEPT !.state = "synchronizing"]
      q == flush_stale_spans(queue, Live)
      full == ~d.force /\ get_num_filled_spans(q) >= FullQueue /\ adder # Nobody
      next == get_next_span_if_scheduled(q)
      ids == (CHOOSE s \in next : TRUE).hashes
      needed == Missing(d.needed)
      w == Wanted(q, d.response_height, SyncSize, needed)
      rest == SubSeq(needed, w.start - d.response_height + Len(needed) + Len(w.hashes), Len(needed))
  IN
  /\ d.at = "request"
  /\ full => TRUE \in should_download_next_span(c)
  /\ CASE (d.force \/ full) /\ next # {} ->
            Ask(c, d, q, ids)
       [] d.needed = <<>> /\ ~(d.force \/ full) ->
            AskChain(c, d, q)
       [] d.response_height + 1 < Len(d.needed) ->
            AskChain(c, [d EXCEPT !.response_height = 0], q)
       [] w.hashes # <<>> ->
            Ask(c, [d EXCEPT !.needed = rest], reserve_span(q, c, w), w.hashes)
       [] ~(d.force \/ full) /\ next # {} ->
            Ask(c, [d EXCEPT !.needed = SelectSeq(needed, LAMBDA b : b \notin ToSet(ids))], q, ids)
       [] OTHER ->
            AskChain(c, d, q)
  /\ UNCHANGED <<peer, have, refused, top, adder, job, closes>>

-----------------------------------------------------------------------------
\* A handler goes on, or a message or a callback is handled.
Handle(c) ==
  \/ on_callback(c) \/ handle_response_chain_entry(c) \/ handle_response_get_objects(c)
  \/ TrySyncLock(c) \/ NoNextSpan(c) \/ TakeSpan(c) \/ AwaitParent(c) \/ DiscardSpan(c)
  \/ AddBlock(c) \/ RefuseBlock(c) \/ RemoveSpan(c) \/ AfterAdding(c)
  \/ Standby(c) \/ Request(c)

\* The timers of the node.
Timers(c) == TimedSync(c) \/ CheckStandby(c) \/ Kick(c)

Next ==
  \E c \in Connections : Connect(c) \/ PeerCloses(c) \/ Timers(c) \/ Handle(c)

Fairness ==
  \A c \in Connections : WF_vars(Connect(c)) /\ WF_vars(Timers(c)) /\ WF_vars(Handle(c))

Spec == Init /\ [][Next]_vars /\ Fairness

-----------------------------------------------------------------------------
\* Hashes that count as requested are held by a span (block_queue.cpp:88 and 262), so that a
\* block is never taken for one that is coming when nobody has asked for it.
NothingLeaked ==
  queue.requested \subseteq UNION {ToSet(s.hashes) : s \in queue.spans}

\* A connection that synchronises has a request or a callback under way, so that it goes on
\* by itself, unless a block was refused: the handler that meets one returns without
\* asking for more (cryptonote_protocol_handler.inl:1126), and only kick_idle_peers ends it.
StallsOnlyAfterRefusal ==
  \A c \in Connections : Stalled(c) => refused # {}

\* The valid blocks of the chains of the peers.
Worth == {b \in UNION {ToSet(peer[c]) : c \in Connections} : \A a \in Ancestry[b] : Blocks[a].valid}

\* Every valid block of the peers is downloaded: it ends up in the node's chains or in a filled
\* span, although connections close, spans are lost and two connections reserve different
\* blocks of one height.
Downloads ==
  <>[](Worth \subseteq have \cup UNION {ToSet(s.blocks) : s \in queue.spans})

\* The node ends up with the longest valid chain of its peers: "we do that for as long as we
\* can from the block queue" (cryptonote_protocol_handler.inl:982).  It does not
\* hold: see README.md.
Synchronizes ==
  <>[](\A b \in Worth : Blocks[top].height >= Blocks[b].height)
=============================================================================
