------------------------------ MODULE NetNode ------------------------------
(* The connections of a node to its peers (p2p/net_node.inl).  The idle worker runs *)
(* one job at a time: it makes outgoing connections from the lists of PeerList,     *)
(* checks gray peers, asks every peer for its list and stores the lists.  Other     *)
(* threads meanwhile answer handshakes, ping back who connected, take the answers   *)
(* of peers, close connections and sample their number once a second.               *)
(*                                                                                  *)
(* An address is a pair of a host and a port; "listen" is the port a node listens   *)
(* on and announces.  A connection that is closed is destroyed at once, and a peer  *)
(* is asked for its list and answers in one step.                                   *)
EXTENDS PeerList, Sequences

CONSTANTS Hosts,
          Self,         \* the host of this node, as others know it
          Seeds,        \* the hosts of m_seed_nodes
          CommandLines, \* the hosts --add-peer may name at a start, m_command_line_peers
          Known,        \* for every host, the hosts in the list that it sends
          Callers,      \* the hosts that connect to this node
          Ports,        \* the ports they connect from
          MaxOut,       \* max_out_connection_count
          MaxIn,        \* max_in_connection_count
          Expected,     \* the outgoing connections wanted from the white list
          MaxAnchors,   \* P2P_DEFAULT_ANCHOR_CONNECTIONS_COUNT
          MaxFails,     \* P2P_IP_FAILS_BEFORE_BLOCK
          Scenarios     \* bounds on how often the other jobs run and things happen

Kinds == {"house", "sync", "store", "restart", "down", "lost", "connect", "wrong", "refuse",
          "block"}

ASSUME HostsAssumption ==
  /\ Self \in Hosts /\ Seeds \cup Callers \subseteq Hosts \ {Self}
  /\ CommandLines \subseteq SUBSET Hosts /\ CommandLines # {}
  /\ MaxOut \in Nat /\ MaxAnchors \in Nat /\ Expected \in 0..MaxOut
  /\ Scenarios \subseteq [Kinds -> Nat]

VARIABLES peers,    \* m_peerlist
          saved,    \* what the file of store_config gives; a file cut short gives nothing
          boot,     \* m_peer_id, new at every start
          conns,    \* m_connects
          job,      \* what the idle worker does
          sampled,  \* m_current_number_of_out_peers and ..._in_peers
          blocked,  \* m_blocked_hosts
          fails,    \* m_host_fails_score
          up,       \* the hosts that answer
          reached,  \* the addresses that answered a connection of this node
          left      \* how often each of Kinds may still happen

vars == <<peers, saved, boot, conns, job, sampled, blocked, fails, up, reached, left>>

Listen(h) == <<h, "listen">>

HostOf(a) == a[1]

\* The identity of a host; that of this node changes with every start.
IdOf(h) == <<h, IF h = Self THEN boot ELSE 0>>

NoId == <<>>

\* The identity of nobody: a number drawn at random.
RandomId(h) == <<h>>

Idle == [at |-> "idle", list |-> "none", plan |-> << >>, start |-> 0, last |-> FALSE,
         anchors |-> {}, left |-> {}, tries |-> 0, peer |-> Entry(Listen(Self), NoId)]

Conn(a, kind, i) == [adr |-> a, kind |-> kind, id |-> i]

Outbound == {c \in conns : c.kind # "in"}

Inbound == conns \ Outbound

get_outgoing_connections_count == Cardinality(Outbound)

\* The peers of the command line go into the white list, whether they answer or not.
WithCommandLine(list) ==
  UNION {append_each_white(list, {Entry(Listen(h), RandomId(h)) : h \in named}) : named \in CommandLines}

\* The node starts: its connections, bans and counters are gone, its identity is new.
Start(list) ==
  /\ peers' \in WithCommandLine(list)
  /\ conns' = {}
  /\ job' = Idle
  /\ sampled' = [out |-> 0, in |-> 0]
  /\ blocked' = {}
  /\ fails' = [h \in Hosts |-> 0]

Init ==
  /\ peers \in WithCommandLine(NoPeers)
  /\ saved = NoPeers
  /\ boot = 0
  /\ conns = {}
  /\ job = Idle
  /\ sampled = [out |-> 0, in |-> 0]
  /\ blocked = {}
  /\ fails = [h \in Hosts |-> 0]
  /\ up = Hosts
  /\ reached = {}
  /\ left \in Scenarios

Event(kind) == left[kind] > 0 /\ left' = [left EXCEPT ![kind] = @ - 1]

Do(at) == job' = [job EXCEPT !.at = at]

----------------------------------------------------------------------------
(* Connections: closing, blocking, the answers of peers *)

OfHost(h) == {c \in conns : HostOf(c.adr) = h}

\* on_connection_close: the end of an outgoing connection removes its anchor.
Unanchored(list, cs) ==
  [list EXCEPT !.anchor = {e \in @ : \A c \in cs : c.kind = "in" \/ c.adr # e.adr}]

Close(cs, list) == conns' = conns \ cs /\ peers' = Unanchored(list, cs)

TooManyFails(h) == fails[h] + 1 > MaxFails

\* add_host_fail, and the close of the connections cs, with the lists list.
add_host_fail(h, cs, list) ==
  /\ fails' = [fails EXCEPT ![h] = IF TooManyFails(h) THEN MaxFails \div 2 ELSE @ + 1]
  /\ blocked' = IF TooManyFails(h) THEN blocked \cup {h} ELSE blocked
  /\ Close(cs \cup IF TooManyFails(h) THEN OfHost(h) ELSE {}, list)

block_host(h) ==
  /\ Event("block")
  /\ blocked' = blocked \cup {h}
  /\ Close(OfHost(h), peers)
  /\ UNCHANGED <<saved, boot, job, sampled, fails, up, reached>>

\* unblock_host, or the time of the block is over.
unblock_host(h) ==
  /\ h \in blocked
  /\ blocked' = blocked \ {h}
  /\ UNCHANGED <<peers, saved, boot, conns, job, sampled, fails, up, reached, left>>

is_remote_host_allowed(h) == h \notin blocked

\* What connection::start lets through.
Connects(h) == h \in up /\ is_remote_host_allowed(h)

\* The list a peer sends; a list from the future is refused (fix_time_delta).
Gossip(h) == {Entry(Listen(k), IdOf(k)) : k \in Known[h]}

handle_remote_peerlist(h) == merge_peerlist(peers, Gossip(h))

Answers(c) == c \in conns /\ HostOf(c.adr) \in up

----------------------------------------------------------------------------
(* The idle worker makes connections *)

\* connections_maker: without white peers it starts from the seeds.
connections_maker ==
  /\ job.at = "idle"
  /\ job' = [Idle EXCEPT !.at = IF peers.white = {} /\ Seeds # {} THEN "seed" ELSE "order",
                         !.start = get_outgoing_connections_count]
  /\ UNCHANGED <<peers, saved, boot, conns, sampled, blocked, fails, up, reached, left>>

\* The lists to connect from, each with the number of connections wanted.  The list
\* of anchors is emptied.
Order ==
  /\ job.at = "order"
  /\ LET n == get_outgoing_connections_count
         white == <<"white", IF n < Expected THEN Expected ELSE MaxOut>>
         gray == <<"gray", MaxOut>>
         few == n < Expected
     IN /\ job' = [job EXCEPT
                    !.at = "list",
                    !.plan = IF n >= MaxOut THEN << >>
                             ELSE IF few THEN << <<"anchor", MaxAnchors>>, white, gray >>
                             ELSE <<gray, white>>,
                    !.anchors = IF few THEN peers.anchor ELSE {}]
        /\ peers' = IF few THEN [peers EXCEPT !.anchor = {}] ELSE peers
  /\ UNCHANGED <<saved, boot, conns, sampled, blocked, fails, up, reached, left>>

\* The next list of the plan, and another round with the same one.
NextList == [Idle EXCEPT !.at = "list", !.start = job.start, !.plan = Tail(job.plan)]

SameList == [Idle EXCEPT !.at = "list", !.start = job.start, !.plan = job.plan,
                         !.anchors = job.anchors]

\* make_expected_connections_count without a count of its own, with the sampled one.
CountSampled ==
  /\ job.at = "list"
  /\ job.plan # << >>
  /\ IF sampled.out < Head(job.plan)[2]
     THEN job' = [job EXCEPT !.at = "pick", !.list = Head(job.plan)[1], !.left = job.anchors]
     ELSE job' = NextList
  /\ UNCHANGED <<peers, saved, boot, conns, sampled, blocked, fails, up, reached, left>>

\* One round of the loop of make_expected_connections_count.
make_expected_connections_count ==
  /\ job.at = "list"
  /\ job.plan # << >>
  /\ IF get_outgoing_connections_count < Head(job.plan)[2]
     THEN job' = [job EXCEPT !.at = "pick", !.list = Head(job.plan)[1], !.left = job.anchors]
     ELSE job' = NextList
  /\ UNCHANGED <<peers, saved, boot, conns, sampled, blocked, fails, up, reached, left>>

is_peer_used(e) ==
  \/ e.id = IdOf(Self)
  \/ \E c \in conns : c.id = e.id \/ (c.kind # "in" /\ c.adr = e.adr)

Selected(e) ==
  LET next == [job EXCEPT !.tries = @ + 1, !.left = @ \ {e}]
  IN job' = IF is_peer_used(e) \/ ~is_remote_host_allowed(HostOf(e.adr))
            THEN next
            ELSE [next EXCEPT !.at = "try", !.peer = e]

\* make_new_connection_from_anchor_peerlist and make_new_connection_from_peerlist: the
\* anchors in turn, an entry of the white or the gray list at random.
Pick(e) ==
  /\ job.at = "pick"
  /\ IF job.list = "anchor"
     THEN e \in job.left
     ELSE e \in peers[job.list]
          /\ job.tries < 10 /\ job.tries < Cardinality(peers[job.list])
  /\ Selected(e)
  /\ UNCHANGED <<peers, saved, boot, conns, sampled, blocked, fails, up, reached, left>>

\* The list is at its end, or the random numbers found no other entry of it.
GiveUp ==
  /\ job.at = "pick"
  /\ IF job.list = "anchor"
     THEN job.left = {}
     ELSE job.tries > 0 \/ peers[job.list] = {}
  /\ job' = NextList
  /\ UNCHANGED <<peers, saved, boot, conns, sampled, blocked, fails, up, reached, left>>

\* connect_to_seed, one try of it.
Seed(h) ==
  /\ job.at = "seed"
  /\ job' = [job EXCEPT !.at = "try", !.list = "seed", !.peer = Entry(Listen(h), NoId)]
  /\ UNCHANGED <<peers, saved, boot, conns, sampled, blocked, fails, up, reached, left>>

AfterSeed == IF job.last THEN Idle ELSE [Idle EXCEPT !.at = "order", !.start = job.start]

\* What follows an attempt that failed.
Failed ==
  job' = CASE job.list = "house" -> Idle
           [] job.list = "seed" ->
                IF job.tries < Cardinality(Seeds)
                THEN [job EXCEPT !.at = "seed", !.tries = @ + 1]
                ELSE AfterSeed
           [] OTHER -> [job EXCEPT !.at = "pick", !.peer = Idle.peer]

Evicted == IF job.list = "house" THEN remove_from_peer_gray(peers, job.peer.adr) ELSE peers

Mine == IF job.list \in {"seed", "house"} THEN "short" ELSE "full"

\* try_to_connect_and_handshake_with_new_peer up to the handshake.  The limit is
\* checked against the sampled number; when that is too large a connection goes.
Try ==
  /\ job.at = "try"
  /\ job.list = "house" \/ sampled.out < MaxOut
  /\ IF Connects(HostOf(job.peer.adr))
     THEN Do("wait") /\ conns' = conns \cup {Conn(job.peer.adr, Mine, NoId)} /\ UNCHANGED peers
     ELSE Failed /\ peers' = Evicted /\ UNCHANGED conns
  /\ UNCHANGED <<saved, boot, sampled, blocked, fails, up, reached, left>>

LimitReached ==
  /\ job.at = "try"
  /\ job.list # "house"
  /\ sampled.out >= MaxOut
  /\ IF sampled.out > MaxOut /\ Outbound # {}
     THEN \E c \in Outbound : Close({c}, peers)
     ELSE UNCHANGED <<conns, peers>>
  /\ sampled' = IF sampled.out > MaxOut THEN [sampled EXCEPT !.out = @ - 1] ELSE sampled
  /\ Failed
  /\ UNCHANGED <<saved, boot, blocked, fails, up, reached, left>>

\* The connection whose handshake the idle worker waits for.
Handshaking == {c \in Outbound : c.adr = job.peer.adr /\ c.kind = Mine}

\* The peer answers: its list is merged and, unless only the list was wanted, the peer
\* is known from now on.  A connection to this node itself is closed.
HandshakeAnswered ==
  /\ job.at = "wait"
  /\ \E c \in Handshaking, merged \in handle_remote_peerlist(HostOf(job.peer.adr)) :
       /\ Answers(c)
       /\ IF c.kind = "short"
          THEN Do("made") /\ peers' = merged /\ UNCHANGED conns
          ELSE LET known == [c EXCEPT !.id = IdOf(HostOf(c.adr))]
               IN \E list \in append_with_peer_white(merged, Entry(c.adr, known.id)) :
                    IF known.id = IdOf(Self)
                    THEN Failed /\ Close({c}, list)
                    ELSE Do("made") /\ conns' = (conns \ {c}) \cup {known} /\ peers' = list
       /\ reached' = reached \cup {c.adr}
  /\ UNCHANGED <<saved, boot, sampled, blocked, fails, up, left>>

\* The connection is closed, or the peer does not answer in time.
HandshakeFailed ==
  /\ job.at = "wait"
  /\ \A c \in Handshaking : ~Answers(c)
  /\ Failed
  /\ Close(Handshaking, Evicted)
  /\ UNCHANGED <<saved, boot, sampled, blocked, fails, up, reached, left>>

\* The answer is not acceptable: a list from the future, another network, or the data
\* of the payload handler, which come after the list.
HandshakeRefused ==
  /\ Event("refuse")
  /\ job.at = "wait"
  /\ \E c \in Handshaking : Answers(c)
  /\ \/ add_host_fail(HostOf(job.peer.adr), Handshaking, Evicted)
     \/ Close(Handshaking, Evicted) /\ UNCHANGED <<blocked, fails>>
     \/ /\ Mine = "full"
        /\ \E merged \in handle_remote_peerlist(HostOf(job.peer.adr)) : Close(Handshaking, merged)
        /\ UNCHANGED <<blocked, fails>>
  /\ Failed
  /\ UNCHANGED <<saved, boot, sampled, up, reached>>

\* The idle worker wakes up after the handshake.
Made ==
  /\ job.at = "made"
  /\ LET e == Entry(job.peer.adr, IdOf(HostOf(job.peer.adr)))
     IN CASE job.list = "seed" ->
               Close(Handshaking, peers) /\ job' = AfterSeed
          [] job.list = "house" ->
               /\ \E list \in append_with_peer_white(peers, job.peer) : Close(Handshaking, list)
               /\ job' = Idle
          [] OTHER ->
               /\ \E list \in append_with_peer_white(peers, e) :
                    peers' = append_with_peer_anchor(list, e)
               /\ job' = SameList
               /\ UNCHANGED conns
  /\ UNCHANGED <<saved, boot, sampled, blocked, fails, up, reached, left>>

\* connections_maker without its second call of connect_to_seed.
EndWithoutSeeds ==
  /\ job.at = "list"
  /\ job.plan = << >>
  /\ job' = Idle
  /\ UNCHANGED <<peers, saved, boot, conns, sampled, blocked, fails, up, reached, left>>

\* The end of connections_maker: without a new connection it asks the seeds.
End ==
  /\ job.at = "list"
  /\ job.plan = << >>
  /\ job' = IF job.start = get_outgoing_connections_count /\ job.start < MaxOut /\ Seeds # {}
            THEN [Idle EXCEPT !.at = "seed", !.last = TRUE]
            ELSE Idle
  /\ UNCHANGED <<peers, saved, boot, conns, sampled, blocked, fails, up, reached, left>>

----------------------------------------------------------------------------
(* The other jobs of the idle worker *)

\* A gray peer is tried: it becomes a white one or is forgotten.
gray_peerlist_housekeeping(e) ==
  /\ Event("house")
  /\ job.at = "idle"
  /\ e \in peers.gray
  /\ job' = [Idle EXCEPT !.at = "try", !.list = "house", !.peer = e]
  /\ UNCHANGED <<peers, saved, boot, conns, sampled, blocked, fails, up, reached>>

\* The file is truncated, then written.
store_config ==
  /\ Event("store")
  /\ job.at = "idle"
  /\ job' = [Idle EXCEPT !.at = "store"]
  /\ saved' = NoPeers
  /\ UNCHANGED <<peers, boot, conns, sampled, blocked, fails, up, reached>>

Stored ==
  /\ job.at = "store"
  /\ job' = Idle
  /\ saved' = peers
  /\ UNCHANGED <<peers, boot, conns, sampled, blocked, fails, up, reached, left>>

----------------------------------------------------------------------------
(* Handlers of other threads *)

Connected(h, port) ==
  /\ Event("connect")
  /\ Connects(h)
  /\ \A c \in conns : c.adr # <<h, port>>
  /\ conns' = conns \cup {Conn(<<h, port>>, "in", NoId)}
  /\ UNCHANGED <<peers, saved, boot, job, sampled, blocked, fails, up, reached>>

has_too_many_connections(h) == Cardinality({c \in Inbound : HostOf(c.adr) = h}) > 1

\* The peer that connected is answered, and pinged at the port it announces.
handle_handshake(c) ==
  /\ c.kind = "in" /\ c.id = NoId /\ Answers(c)
  /\ LET h == HostOf(c.adr)
         ping == IF Connects(h) /\ is_host_allowed(c.adr)
                 THEN {Conn(Listen(h), "ping", NoId)} ELSE {}
     IN conns' = IF sampled.in >= MaxIn \/ has_too_many_connections(h)
                 THEN conns \ {c}
                 ELSE (conns \ {c}) \cup {[c EXCEPT !.id = IdOf(h)]} \cup ping
  /\ UNCHANGED <<peers, saved, boot, job, sampled, blocked, fails, up, reached, left>>

\* The handshake is for another network or not from an incoming connection; or it is a
\* second one, or has other wrong data.
WrongHandshake(c) ==
  /\ Event("wrong")
  /\ Answers(c)
  /\ \/ add_host_fail(HostOf(c.adr), {c}, peers)
     \/ c.kind = "in" /\ Close({c}, peers) /\ UNCHANGED <<blocked, fails>>
  /\ UNCHANGED <<saved, boot, job, sampled, up, reached>>

\* The callback of try_ping.
try_ping(c) ==
  /\ c.kind = "ping" /\ Answers(c)
  /\ \E list \in append_with_peer_white(peers, Entry(c.adr, IdOf(HostOf(c.adr)))) :
       Close({c}, list)
  /\ reached' = reached \cup {c.adr}
  /\ UNCHANGED <<saved, boot, job, sampled, blocked, fails, up, left>>

\* The same with the identity of another node.
WrongPing(c) ==
  /\ Event("wrong")
  /\ c.kind = "ping" /\ Answers(c)
  /\ Close({c}, peers)
  /\ UNCHANGED <<saved, boot, job, sampled, blocked, fails, up, reached>>

\* The callback of do_peer_timed_sync without its test of m_is_income.
SyncSeesAll(c) ==
  /\ Event("sync")
  /\ c.id # NoId /\ Answers(c)
  /\ \E merged \in handle_remote_peerlist(HostOf(c.adr)) :
       peers' \in append_with_peer_white(merged, Entry(c.adr, c.id))
  /\ UNCHANGED <<saved, boot, conns, job, sampled, blocked, fails, up, reached>>

Seen(list, c) == IF c.kind = "in" THEN {list} ELSE append_with_peer_white(list, Entry(c.adr, c.id))

\* The callback of do_peer_timed_sync.
do_peer_timed_sync(c) ==
  /\ Event("sync")
  /\ c.id # NoId /\ Answers(c)
  /\ \E merged \in handle_remote_peerlist(HostOf(c.adr)) : peers' \in Seen(merged, c)
  /\ UNCHANGED <<saved, boot, conns, job, sampled, blocked, fails, up, reached>>

\* The same with a list that is not acceptable.
SyncRefused(c) ==
  /\ Event("refuse")
  /\ c.id # NoId /\ Answers(c)
  /\ \E list \in Seen(peers, c) : add_host_fail(HostOf(c.adr), {c}, list)
  /\ UNCHANGED <<saved, boot, job, sampled, up, reached>>

\* The thread that counts the connections, once a second.
Sample ==
  /\ sampled' = [out |-> Cardinality(Outbound), in |-> Cardinality(Inbound)]
  /\ UNCHANGED <<peers, saved, boot, conns, job, blocked, fails, up, reached, left>>

----------------------------------------------------------------------------
(* What peers, the network and the user do *)

\* A connection breaks; those of a host that is down do so sooner or later.
Lost(c) ==
  /\ IF HostOf(c.adr) \in up THEN Event("lost") ELSE UNCHANGED left
  /\ Close({c}, peers)
  /\ UNCHANGED <<saved, boot, job, sampled, blocked, fails, up, reached>>

HostDown(h) ==
  /\ Event("down")
  /\ h # Self
  /\ up' = up \ {h}
  /\ UNCHANGED <<peers, saved, boot, conns, job, sampled, blocked, fails, reached>>

HostUp(h) ==
  /\ h \notin up
  /\ up' = up \cup {h}
  /\ UNCHANGED <<peers, saved, boot, conns, job, sampled, blocked, fails, reached, left>>

\* The node stops, which stores the lists, or crashes, and starts again (init_config).
Restart ==
  /\ Event("restart")
  /\ \E list \in {saved, peers} : Start(list) /\ saved' = list
  /\ boot' = boot + 1
  /\ UNCHANGED <<up, reached>>

----------------------------------------------------------------------------
Entries ==
  {Entry(Listen(h), <<h, n>>) : h \in Hosts, n \in 0..boot} \cup {Entry(Listen(h), RandomId(h)) : h \in Hosts}

MakerStep ==
  \/ Order \/ make_expected_connections_count \/ GiveUp \/ (\E h \in Seeds : Seed(h)) \/ Try
  \/ LimitReached \/ HandshakeAnswered \/ HandshakeFailed \/ Made \/ End \/ Stored

Handlers(c) ==
  handle_handshake(c) \/ try_ping(c)

Others(c) ==
  do_peer_timed_sync(c) \/ WrongHandshake(c) \/ WrongPing(c) \/ SyncRefused(c) \/ Lost(c)

Next ==
  \/ connections_maker
  \/ MakerStep
  \/ \E e \in Entries : Pick(e) \/ gray_peerlist_housekeeping(e)
  \/ store_config
  \/ \E c \in conns : Handlers(c) \/ Others(c)
  \/ HandshakeRefused
  \/ Sample
  \/ \E h \in Hosts : block_host(h) \/ unblock_host(h) \/ HostDown(h) \/ HostUp(h)
  \/ \E h \in Callers, port \in Ports : Connected(h, port)
  \/ Restart

\* Every thread goes on, the timer of connections_maker fires again and again, the
\* random draw does not pass over an address for ever, and a ban comes to its end.
Fairness ==
  /\ WF_vars(MakerStep)
  /\ SF_vars(connections_maker)
  /\ \A h \in Hosts : SF_vars(\E e \in Entries : e.adr = Listen(h) /\ Pick(e))
  /\ WF_vars(\E c \in conns : Handlers(c))
  /\ WF_vars(\E c \in conns : HostOf(c.adr) \notin up /\ Lost(c))
  /\ WF_vars(Sample)
  /\ \A h \in Hosts : WF_vars(unblock_host(h))

Spec == Init /\ [][Next]_vars /\ Fairness

----------------------------------------------------------------------------
(* Properties *)

\* The anchors only hold addresses that answered a connection opened by this node, and
\* the white list, which is preferred and passed on to others, only these and the ones
\* its user named at some start: never the port that a peer happened to connect from,
\* nor an address that only came from another node.
WhiteReached ==
  /\ Addresses(peers.anchor) \subseteq reached
  /\ Addresses(peers.white) \subseteq reached \cup {Listen(h) : h \in UNION CommandLines}

\* However old the sampled number of connections is, connections_maker keeps no more
\* than max_out_connection_count connections, and never two to the same address.  This
\* is a node without priority and exclusive peers: connect_to_peerlist tries these with
\* nothing but the sampled number in the way, and may exceed the limit.
OutBounded ==
  LET full == {c \in conns : c.kind = "full"}
  IN /\ Cardinality(full) <= MaxOut
     /\ \A c, d \in full : c.adr = d.adr => c = d

Reachable == \E s \in Seeds : s \in up /\ \E h \in Known[s] \ {Self} : h \in up

\* A node that lost its peers, its lists or both finds peers again as long as a seed
\* answers and knows one: from a file cut short, a white list of hosts that are gone,
\* an entry with the address of the node itself, a ban or a stale count.
Reconnects == <>[]Reachable => []<>(\E c \in conns : c.id # NoId)

=============================================================================
