--------------------------- MODULE NetNodeProofs ---------------------------
(***************************************************************************)
(* For any hosts, seeds and limits: whatever order connections,            *)
(* handshakes, pings, restarts and lists from peers come in, the anchors   *)
(* only hold addresses that answered this node, the white list those and   *)
(* what the command line named, and outgoing connections stay within the   *)
(* plan of connections_maker.                                              *)
(*                                                                         *)
(* The first is not inductive.  The lists are written from three places    *)
(* that hold an address for some time: the file, a connection that is past *)
(* its handshake and the attempt of the idle worker.  The invariant says   *)
(* of each that its address answered before.                               *)
(***************************************************************************)
EXTENDS NetNode, FiniteSetTheorems, TLAPS

\* What the command line may have named at a start.
Named == {Listen(h) : h \in UNION CommandLines}

\* The preferred lists of the peer lists p only hold addresses of the set R, the white
\* list also what the command line named.
Good(p, R) ==
  /\ p = [white |-> p.white, gray |-> p.gray, anchor |-> p.anchor]
  /\ Addresses(p.white) \subseteq R \cup Named
  /\ Addresses(p.anchor) \subseteq R

\* Trimming a list leaves a part of it.
LEMMA TrimmedPart ==
  ASSUME NEW entries, NEW max, NEW t \in Trimmed(entries, max)
  PROVE  t \subseteq entries
  BY DEF Trimmed, kSubset

\* append_with_peer_white adds at most the address of the new entry.
LEMMA GoodWhite ==
  ASSUME NEW p, NEW R, Good(p, R), NEW e, e.adr \in R, NEW list \in append_with_peer_white(p, e)
  PROVE  Good(list, R)
<1> DEFINE white == ExceptAddress(p.white, e.adr) \cup {e}
<1>1. CASE list = p
  BY <1>1
<1>2. CASE \E w \in Trimmed(white, MaxWhite) :
             list = [p EXCEPT !.white = w, !.gray = ExceptAddress(@, e.adr)]
  <2>1. PICK w \in Trimmed(white, MaxWhite) :
          list = [p EXCEPT !.white = w, !.gray = ExceptAddress(@, e.adr)]
    BY <1>2
  <2>2. w \subseteq white
    BY TrimmedPart
  <2>3. Addresses(w) \subseteq R \cup Named
    BY <2>2 DEF Good, Addresses, ExceptAddress
  <2>4. list = [white |-> w, gray |-> ExceptAddress(p.gray, e.adr), anchor |-> p.anchor]
    BY Zenon, <2>1 DEF Good
  <2> QED
    BY <2>3, <2>4 DEF Good
<1> QED
  BY <1>1, <1>2 DEF append_with_peer_white

\* merge_peerlist only touches the gray list.
LEMMA GoodMerge ==
  ASSUME NEW p, NEW R, Good(p, R), NEW entries, NEW list \in merge_peerlist(p, entries)
  PROVE  Good(list, R)
<1>1. PICK g : list = [p EXCEPT !.gray = g]
  BY Zenon DEF merge_peerlist
<1>2. list = [white |-> p.white, gray |-> g, anchor |-> p.anchor]
  BY <1>1 DEF Good
<1> QED
  BY <1>2 DEF Good

\* append_with_peer_anchor adds at most the address of the new entry.
LEMMA GoodAnchor ==
  ASSUME NEW p, NEW R, Good(p, R), NEW e, e.adr \in R
  PROVE  Good(append_with_peer_anchor(p, e), R)
<1>1. [p EXCEPT !.anchor = @ \cup {e}] = [white |-> p.white, gray |-> p.gray, anchor |-> p.anchor \cup {e}]
  BY DEF Good
<1>2. Addresses(p.anchor \cup {e}) \subseteq R
  BY DEF Good, Addresses
<1>3. Good([white |-> p.white, gray |-> p.gray, anchor |-> p.anchor \cup {e}], R)
  BY <1>2 DEF Good
<1> QED
  BY <1>1, <1>3 DEF append_with_peer_anchor

\* remove_from_peer_gray only touches the gray list, on_connection_close takes anchors away.
LEMMA GoodLess ==
  ASSUME NEW p, NEW R, Good(p, R), NEW a, NEW cs
  PROVE  Good(remove_from_peer_gray(p, a), R) /\ Good(Unanchored(p, cs), R)
<1>1. remove_from_peer_gray(p, a) = [white |-> p.white, gray |-> ExceptAddress(p.gray, a), anchor |-> p.anchor]
  BY DEF Good, remove_from_peer_gray
<1> DEFINE rest == {e \in p.anchor : \A c \in cs : c.kind = "in" \/ c.adr # e.adr}
<1>2. Unanchored(p, cs) = [p EXCEPT !.anchor = rest]
  BY Zenon DEF Unanchored
<1>3. Addresses(rest) \subseteq R
  BY DEF Good, Addresses
<1>4. Good([white |-> p.white, gray |-> ExceptAddress(p.gray, a), anchor |-> p.anchor], R)
  BY DEF Good
<1> HIDE DEF rest
<1>5. Good([white |-> p.white, gray |-> p.gray, anchor |-> rest], R)
  BY <1>3 DEF Good
<1>6. [p EXCEPT !.anchor = rest] = [white |-> p.white, gray |-> p.gray, anchor |-> rest]
  BY DEF Good
<1> QED
  BY <1>1, <1>2, <1>4, <1>5, <1>6

\* The address of an entry.
LEMMA EntryAdr == \A a, i : Entry(a, i).adr = a
  BY Zenon DEF Entry

\* The start adds addresses of the command line, and no others.
LEMMA GoodStart ==
  ASSUME NEW p, NEW R, Good(p, R), NEW list \in WithCommandLine(p)
  PROVE  Good(list, R)
<1>1. PICK named \in CommandLines :
        list \in append_each_white(p, {Entry(Listen(h), RandomId(h)) : h \in named})
  BY DEF WithCommandLine
<1> DEFINE entries == {Entry(Listen(h), RandomId(h)) : h \in named}
           new == {e \in entries : is_host_allowed(e.adr)}
           white == {e \in p.white : e.adr \notin Addresses(new)} \cup new
           gray == {e \in p.gray : e.adr \notin Addresses(new)}
<1>2. PICK w \in Trimmed(white, MaxWhite) : list = [p EXCEPT !.white = w, !.gray = gray]
  BY Zenon, <1>1 DEF append_each_white
<1>3. \A e \in new : e.adr \in Named
  BY EntryAdr DEF Named
<1>4. w \subseteq white
  BY TrimmedPart
<1> HIDE DEF new
<1>5. Addresses(w) \subseteq R \cup Named
  BY <1>3, <1>4 DEF Good, Addresses
<1> HIDE DEF white, gray
<1>6. list = [white |-> w, gray |-> gray, anchor |-> p.anchor]
  BY Zenon, <1>2 DEF Good
<1> QED
  BY <1>5, <1>6 DEF Good

\* More addresses do no harm.
LEMMA GoodMore ==
  ASSUME NEW p, NEW R, NEW S, R \subseteq S, Good(p, R)
  PROVE  Good(p, S)
  BY DEF Good


\* The shape of the record of the idle worker.
JobShape ==
  job = [at |-> job.at, list |-> job.list, plan |-> job.plan, start |-> job.start, last |-> job.last,
         anchors |-> job.anchors, left |-> job.left, tries |-> job.tries, peer |-> job.peer]

\* An outgoing connection past its handshake is to an address that answered.
KnownReached ==
  \A c \in conns : /\ c = [adr |-> c.adr, kind |-> c.kind, id |-> c.id]
                   /\ c.kind # "in" /\ c.id # NoId => c.adr \in reached

\* So is the attempt of the idle worker when it wakes up after the handshake.
AttemptReached == job.at = "made" => job.peer.adr \in reached

IInv == Good(peers, reached) /\ Good(saved, reached) /\ JobShape /\ KnownReached /\ AttemptReached

\* At the start there are no lists, connections or attempts.
LEMMA InitInv == Init => IInv
<1> SUFFICES ASSUME Init PROVE IInv
  OBVIOUS
<1>1. Good(NoPeers, reached)
  BY DEF Good, NoPeers, Addresses
<1>2. Good(peers, reached)
  BY <1>1, GoodStart DEF Init
<1> QED
  BY <1>1, <1>2 DEF Init, IInv, JobShape, KnownReached, AttemptReached, Idle

\* The steps of the idle worker that decide what to do next.
LEMMA DecideInv ==
  ASSUME IInv, UNCHANGED <<peers, saved, conns, reached>>, JobShape', job'.at # "made"
  PROVE  IInv'
  BY DEF IInv, Good, KnownReached, AttemptReached, Addresses, NoId

\* The steps that close connections, add new ones before their handshake, or neither,
\* and change the lists in a good way.
LEMMA OtherInv ==
  ASSUME IInv, reached' = reached, Good(peers', reached), Good(saved', reached),
         \A c \in conns' : \/ c \in conns
                           \/ \E a, k, i : c = Conn(a, k, i) /\ (k = "in" \/ i = NoId),
         job' = job \/ (JobShape' /\ job'.at # "made")
  PROVE  IInv'
<1>1. Good(peers, reached)' /\ Good(saved, reached)'
  BY DEF Good, Addresses
<1>2. KnownReached'
  BY DEF IInv, KnownReached, Conn, NoId
<1>3. JobShape' /\ AttemptReached'
  BY DEF IInv, JobShape, AttemptReached
<1> QED
  BY <1>1, <1>2, <1>3 DEF IInv

\* connections_maker and its choices only change the job.
LEMMA MakerInv ==
  ASSUME IInv,
         \/ connections_maker \/ make_expected_connections_count \/ GiveUp \/ End
         \/ (\E h \in Seeds : Seed(h))
         \/ (\E e \in Entries : Pick(e) \/ gray_peerlist_housekeeping(e))
  PROVE  IInv'
<1>1. UNCHANGED <<peers, saved, conns, reached>>
  BY DEF connections_maker, make_expected_connections_count, GiveUp, End, Seed, Pick,
         gray_peerlist_housekeeping
<1>2. JobShape' /\ job'.at # "made"
  <2>1. CASE connections_maker
    BY Zenon, <2>1 DEF connections_maker, Idle, JobShape
  <2>2. CASE make_expected_connections_count
    BY Zenon, <2>2 DEF make_expected_connections_count, NextList, Idle, IInv, JobShape
  <2>3. CASE GiveUp
    BY Zenon, <2>3 DEF GiveUp, NextList, Idle, JobShape
  <2>4. CASE End
    BY Zenon, <2>4 DEF End, Idle, JobShape
  <2>5. CASE \E h \in Seeds : Seed(h)
    BY <2>5 DEF Seed, IInv, JobShape
  <2>6. ASSUME NEW e, Pick(e)
        PROVE  JobShape' /\ job'.at # "made"
    <3>1. job.at = "pick"
      BY <2>6 DEF Pick
    <3>2. \/ job' = [job EXCEPT !.tries = @ + 1, !.left = @ \ {e}]
          \/ job' = [[job EXCEPT !.tries = @ + 1, !.left = @ \ {e}] EXCEPT !.at = "try", !.peer = e]
      BY <2>6 DEF Pick, Selected
    <3> QED
      BY Zenon, <3>1, <3>2 DEF IInv, JobShape
  <2>7. ASSUME NEW e, gray_peerlist_housekeeping(e)
        PROVE  JobShape' /\ job'.at # "made"
    BY <2>7 DEF gray_peerlist_housekeeping, Idle, JobShape
  <2> QED
    BY <2>1, <2>2, <2>3, <2>4, <2>5, <2>6, <2>7
<1> QED
  BY <1>1, <1>2, DecideInv

\* What follows a failed attempt is a job that is not "made".
LEMMA FailedJob ==
  ASSUME IInv, Failed
  PROVE  JobShape' /\ job'.at # "made"
<1>1. \/ job' = Idle
      \/ job' = [job EXCEPT !.at = "seed", !.tries = @ + 1]
      \/ job' = [Idle EXCEPT !.at = "order", !.start = job.start]
      \/ job' = [job EXCEPT !.at = "pick", !.peer = Idle.peer]
  <2>1. CASE job.list = "house"
    BY <2>1 DEF Failed
  <2>2. CASE job.list = "seed"
    BY <2>2 DEF Failed, AfterSeed
  <2>3. CASE job.list # "house" /\ job.list # "seed"
    BY <2>3 DEF Failed
  <2> QED
    BY <2>1, <2>2, <2>3
<1>2. CASE job' = Idle
  BY <1>2 DEF JobShape, Idle
<1>3. CASE job' = [job EXCEPT !.at = "seed", !.tries = @ + 1]
  BY Zenon, <1>3 DEF IInv, JobShape
<1>4. CASE job' = [Idle EXCEPT !.at = "order", !.start = job.start]
  BY Zenon, <1>4 DEF JobShape, Idle
<1>5. CASE job' = [job EXCEPT !.at = "pick", !.peer = Idle.peer]
  BY Zenon, <1>5 DEF IInv, JobShape
<1> QED
  BY <1>1, <1>2, <1>3, <1>4, <1>5

\* Closing connections leaves good lists good.
LEMMA CloseGood ==
  ASSUME NEW cs, NEW list, Close(cs, list), NEW R, Good(list, R)
  PROVE  Good(peers', R) /\ conns' \subseteq conns
  BY GoodLess DEF Close

\* add_host_fail closes connections, and no more than that.
LEMMA FailGood ==
  ASSUME NEW h, NEW cs, NEW list, add_host_fail(h, cs, list), NEW R, Good(list, R)
  PROVE  Good(peers', R) /\ conns' \subseteq conns
  BY CloseGood DEF add_host_fail

\* The steps of an attempt: connection, handshake, and what is recorded after it.
LEMMA AttemptInv ==
  ASSUME IInv,
         Try \/ LimitReached \/ HandshakeAnswered \/ HandshakeFailed \/ HandshakeRefused \/ Made
  PROVE  IInv'
<1>1. Good(peers, reached) /\ Good(saved, reached) /\ Good(Evicted, reached)
  BY GoodLess DEF IInv, Evicted
<1>2. CASE Try
  <2>1. Good(peers', reached) /\ Good(saved', reached) /\ reached' = reached
    BY <1>1, <1>2 DEF Try
  <2>2. \A c \in conns' : c \in conns \/ \E a, k, i : c = Conn(a, k, i) /\ (k = "in" \/ i = NoId)
    BY <1>2 DEF Try
  <2>3. JobShape' /\ job'.at # "made"
    <3>1. CASE Do("wait")
      BY <3>1 DEF Do, IInv, JobShape
    <3>2. CASE Failed
      BY <3>2, FailedJob
    <3> QED
      BY <1>2, <3>1, <3>2 DEF Try
  <2> QED
    BY <2>1, <2>2, <2>3, OtherInv
<1>3. CASE LimitReached
  <2>1. Good(peers', reached) /\ conns' \subseteq conns
    BY Zenon, <1>1, <1>3, CloseGood DEF LimitReached
  <2>2. JobShape' /\ job'.at # "made"
    BY <1>3, FailedJob DEF LimitReached
  <2>3. saved' = saved /\ reached' = reached
    BY <1>3 DEF LimitReached
  <2> QED
    BY <1>1, <2>1, <2>2, <2>3, OtherInv
<1>4. CASE HandshakeFailed \/ HandshakeRefused
  <2>1. \A merged \in handle_remote_peerlist(HostOf(job.peer.adr)) : Good(merged, reached)
    BY <1>1, GoodMerge DEF handle_remote_peerlist
  <2>2. Good(peers', reached) /\ conns' \subseteq conns
    BY Zenon, <1>1, <1>4, <2>1, CloseGood, FailGood DEF HandshakeFailed, HandshakeRefused
  <2>3. JobShape' /\ job'.at # "made"
    BY <1>4, FailedJob DEF HandshakeFailed, HandshakeRefused
  <2>4. saved' = saved /\ reached' = reached
    BY <1>4 DEF HandshakeFailed, HandshakeRefused
  <2> QED
    BY <1>1, <2>2, <2>3, <2>4, OtherInv
<1>5. CASE HandshakeAnswered
  <2>1. PICK c \in Handshaking, merged \in handle_remote_peerlist(HostOf(job.peer.adr)) :
          /\ IF c.kind = "short"
             THEN Do("made") /\ peers' = merged /\ UNCHANGED conns
             ELSE LET known == [c EXCEPT !.id = IdOf(HostOf(c.adr))]
                  IN \E list \in append_with_peer_white(merged, Entry(c.adr, known.id)) :
                       IF known.id = IdOf(Self)
                       THEN Failed /\ Close({c}, list)
                       ELSE Do("made") /\ conns' = (conns \ {c}) \cup {known} /\ peers' = list
          /\ reached' = reached \cup {c.adr}
    BY <1>5 DEF HandshakeAnswered
  <2>2. c.adr = job.peer.adr /\ c \in conns
    BY DEF Handshaking, Outbound
  <2>3. Good(merged, reached') /\ Good(saved, reached') /\ c.adr \in reached' /\ saved' = saved
    <3>1. Good(merged, reached)
      BY <1>1, GoodMerge DEF handle_remote_peerlist
    <3> QED
      BY <1>1, <1>5, <2>1, <3>1, GoodMore DEF HandshakeAnswered
  <2>4. c = [adr |-> c.adr, kind |-> c.kind, id |-> c.id]
    BY <2>2 DEF IInv, KnownReached
  <2>5. ASSUME Do("made")
        PROVE  JobShape' /\ AttemptReached'
    BY <2>2, <2>3, <2>5 DEF Do, IInv, JobShape, AttemptReached
  <2>6. ASSUME conns' \subseteq conns
        PROVE  KnownReached'
    BY <2>1, <2>6 DEF IInv, KnownReached, NoId
  <2>7. CASE c.kind = "short"
    <3>1. Good(peers', reached') /\ Good(saved', reached')
      BY <2>1, <2>3, <2>7
    <3> QED
      BY <2>1, <2>5, <2>6, <2>7, <3>1 DEF IInv, Good, Addresses
  <2>8. CASE c.kind # "short"
    <3> DEFINE known == [c EXCEPT !.id = IdOf(HostOf(c.adr))]
    <3>1. PICK list \in append_with_peer_white(merged, Entry(c.adr, known.id)) :
            IF known.id = IdOf(Self)
            THEN Failed /\ Close({c}, list)
            ELSE Do("made") /\ conns' = (conns \ {c}) \cup {known} /\ peers' = list
      BY <2>1, <2>8
    <3>2. Good(list, reached')
      BY <2>3, GoodWhite, EntryAdr
    <3>3. CASE Failed /\ Close({c}, list)
      <4>1. Good(peers', reached') /\ conns' \subseteq conns
        BY <3>2, <3>3, CloseGood
      <4>2. JobShape' /\ AttemptReached'
        BY <3>3, FailedJob DEF AttemptReached
      <4> QED
        BY <2>3, <2>6, <4>1, <4>2 DEF IInv, Good, Addresses
    <3>4. CASE Do("made") /\ conns' = (conns \ {c}) \cup {known} /\ peers' = list
      <4>1. known = [adr |-> c.adr, kind |-> c.kind, id |-> known.id] /\ known.adr = c.adr
        BY <2>4
      <4> HIDE DEF known
      <4>2. KnownReached'
        BY <2>1, <2>3, <3>4, <4>1 DEF IInv, KnownReached, NoId
      <4> QED
        BY <2>3, <2>5, <3>2, <3>4, <4>2 DEF IInv, Good, Addresses
    <3> QED
      BY <3>1, <3>3, <3>4
  <2> QED
    BY <2>7, <2>8
<1>6. CASE Made
  <2> DEFINE e == Entry(job.peer.adr, IdOf(HostOf(job.peer.adr)))
  <2>1. job.peer.adr \in reached
    BY <1>6 DEF Made, IInv, AttemptReached
  <2>2. saved' = saved /\ reached' = reached
    BY Zenon, <1>6 DEF Made
  <2>3. CASE job.list = "seed"
    <3>1. Close(Handshaking, peers) /\ job' = AfterSeed
      BY <1>6, <2>3 DEF Made
    <3>2. Good(peers', reached) /\ conns' \subseteq conns
      BY <1>1, <3>1, CloseGood
    <3>3. JobShape' /\ job'.at # "made"
      BY Zenon, <3>1 DEF AfterSeed, Idle, JobShape
    <3> QED
      BY <1>1, <2>2, <3>2, <3>3, OtherInv
  <2>4. CASE job.list = "house"
    <3>1. PICK list \in append_with_peer_white(peers, job.peer) : Close(Handshaking, list) /\ job' = Idle
      BY <1>6, <2>4 DEF Made
    <3>2. Good(list, reached)
      BY <1>1, <2>1, GoodWhite
    <3>3. Good(peers', reached) /\ conns' \subseteq conns
      BY <3>1, <3>2, CloseGood
    <3>4. JobShape' /\ job'.at # "made"
      BY <3>1 DEF Idle, JobShape
    <3> QED
      BY <1>1, <2>2, <3>3, <3>4, OtherInv
  <2>5. CASE job.list # "seed" /\ job.list # "house"
    <3>1. PICK list \in append_with_peer_white(peers, e) :
            peers' = append_with_peer_anchor(list, e) /\ job' = SameList /\ conns' = conns
      BY <1>6, <2>5 DEF Made
    <3>2. e.adr \in reached
      BY <2>1, EntryAdr
    <3> HIDE DEF e
    <3>3. Good(list, reached)
      BY <1>1, <3>1, <3>2, GoodWhite
    <3>4. Good(peers', reached)
      BY <3>1, <3>2, <3>3, GoodAnchor
    <3>5. JobShape' /\ job'.at # "made"
      BY Zenon, <3>1 DEF SameList, Idle, JobShape
    <3> QED
      BY <1>1, <2>2, <3>1, <3>4, <3>5, OtherInv
  <2> QED
    BY <2>3, <2>4, <2>5
<1> QED
  BY <1>2, <1>3, <1>4, <1>5, <1>6

\* The other jobs of the idle worker and the start of a new process.
LEMMA StoreInv ==
  ASSUME IInv, Order \/ store_config \/ Stored \/ Restart
  PROVE  IInv'
<1>1. Good(peers, reached) /\ Good(saved, reached) /\ Good(NoPeers, reached)
  BY DEF IInv, Good, NoPeers, Addresses
<1>2. reached' = reached /\ conns' \subseteq conns
  BY DEF Order, store_config, Stored, Restart, Start
<1>3. Good(saved', reached)
  BY <1>1 DEF Order, store_config, Stored, Restart
<1>4. Good(peers', reached)
  <2>1. CASE Order
    <3>1. Good([peers EXCEPT !.anchor = {}], reached)
      <4>1. [peers EXCEPT !.anchor = {}] = [white |-> peers.white, gray |-> peers.gray, anchor |-> {}]
        BY <1>1 DEF Good
      <4> QED
        BY <1>1, <4>1 DEF Good, Addresses
    <3> QED
      BY <1>1, <2>1, <3>1 DEF Order
  <2>2. CASE Restart
    <3>1. PICK list \in {saved, peers} : peers' \in WithCommandLine(list)
      BY <2>2 DEF Restart, Start
    <3>2. Good(list, reached)
      BY <1>1
    <3> QED
      BY <3>1, <3>2, GoodStart
  <2> QED
    BY <1>1, <2>1, <2>2 DEF store_config, Stored
<1>5. JobShape' /\ job'.at # "made"
  <2>1. CASE Order
    BY Zenon, <2>1 DEF Order, IInv, JobShape
  <2> QED
    BY <2>1 DEF store_config, Stored, Restart, Start, Idle, JobShape
<1> QED
  BY <1>2, <1>3, <1>4, <1>5, OtherInv

\* The handlers of other threads, for a connection c.
LEMMA HandlerInv ==
  ASSUME IInv, NEW c \in conns, Handlers(c) \/ Others(c)
  PROVE  IInv'
<1>1. Good(peers, reached) /\ Good(saved, reached) /\ saved' = saved /\ job' = job
  BY DEF IInv, Handlers, Others, handle_handshake, try_ping, do_peer_timed_sync, WrongHandshake,
         WrongPing, SyncRefused, Lost
<1>2. c = [adr |-> c.adr, kind |-> c.kind, id |-> c.id]
  BY DEF IInv, KnownReached
<1>3. ASSUME NEW p, Good(p, reached), c.id # NoId, NEW list \in Seen(p, c)
      PROVE  Good(list, reached)
  BY <1>3, GoodWhite, EntryAdr DEF Seen, IInv, KnownReached
<1>4. CASE handle_handshake(c)
  <2>1. \A d \in conns' : d \in conns \/ \E a, k, i : d = Conn(a, k, i) /\ (k = "in" \/ i = NoId)
    <3>1. [c EXCEPT !.id = IdOf(HostOf(c.adr))] = Conn(c.adr, "in", IdOf(HostOf(c.adr)))
      BY <1>2, <1>4 DEF handle_handshake, Conn
    <3> QED
      BY <1>4, <3>1 DEF handle_handshake
  <2>2. peers' = peers /\ reached' = reached
    BY <1>4 DEF handle_handshake
  <2> QED
    BY <1>1, <2>1, <2>2, OtherInv
<1>5. CASE WrongHandshake(c) \/ WrongPing(c) \/ Lost(c)
  <2>1. Good(peers', reached) /\ conns' \subseteq conns /\ reached' = reached
    BY <1>1, <1>5, CloseGood, FailGood DEF WrongHandshake, WrongPing, Lost
  <2> QED
    BY <1>1, <2>1, OtherInv
<1>6. CASE SyncRefused(c)
  <2>1. Good(peers', reached) /\ conns' \subseteq conns /\ reached' = reached
    BY <1>1, <1>3, <1>6, FailGood DEF SyncRefused
  <2> QED
    BY <1>1, <2>1, OtherInv
<1>7. CASE do_peer_timed_sync(c)
  <2>1. PICK merged \in handle_remote_peerlist(HostOf(c.adr)) : peers' \in Seen(merged, c)
    BY <1>7 DEF do_peer_timed_sync
  <2>2. Good(merged, reached)
    BY <1>1, GoodMerge DEF handle_remote_peerlist
  <2>3. Good(peers', reached) /\ conns' = conns /\ reached' = reached
    BY <1>3, <1>7, <2>1, <2>2 DEF do_peer_timed_sync
  <2> QED
    BY <1>1, <2>3, OtherInv
<1>8. CASE try_ping(c)
  <2>1. PICK list \in append_with_peer_white(peers, Entry(c.adr, IdOf(HostOf(c.adr)))) : Close({c}, list)
    BY <1>8 DEF try_ping
  <2>2. reached' = reached \cup {c.adr}
    BY <1>8 DEF try_ping
  <2>3. Good(peers, reached') /\ Good(saved, reached')
    BY <1>1, <2>2, GoodMore
  <2>4. Good(peers', reached') /\ conns' \subseteq conns
    BY <2>1, <2>2, <2>3, GoodWhite, EntryAdr, CloseGood
  <2>5. KnownReached'
    BY <2>2, <2>4 DEF IInv, KnownReached, NoId
  <2>6. JobShape' /\ AttemptReached'
    BY <1>1, <2>2 DEF IInv, JobShape, AttemptReached
  <2> QED
    BY <1>1, <2>3, <2>4, <2>5, <2>6 DEF IInv, Good, Addresses
<1> QED
  BY <1>4, <1>5, <1>6, <1>7, <1>8 DEF Handlers, Others

\* Every step preserves the invariant.
LEMMA StepInv == IInv /\ [Next]_vars => IInv'
<1> SUFFICES ASSUME IInv, [Next]_vars
             PROVE  IInv'
  OBVIOUS
<1>1. Good(peers, reached) /\ Good(saved, reached)
  BY DEF IInv
<1>2. ASSUME NEW h \in Hosts, block_host(h)
      PROVE  IInv'
  <2>1. Good(peers', reached) /\ conns' \subseteq conns
    BY <1>1, <1>2, CloseGood DEF block_host
  <2> QED
    BY Zenon, <1>1, <1>2, <2>1, OtherInv DEF block_host
<1>3. CASE Sample \/ (\E h \in Hosts : unblock_host(h) \/ HostDown(h) \/ HostUp(h)) \/ UNCHANGED vars
  <2>1. UNCHANGED <<peers, saved, conns, reached, job>>
    BY <1>3 DEF Sample, unblock_host, HostDown, HostUp, vars
  <2> QED
    BY <1>1, <2>1, OtherInv
<1>4. ASSUME NEW h, NEW port, Connected(h, port)
      PROVE  IInv'
  BY <1>1, <1>4, OtherInv DEF Connected
<1> QED
  BY <1>2, <1>3, <1>4, MakerInv, AttemptInv, StoreInv, HandlerInv DEF Next, MakerStep

\* The file, the connections and the attempts that the lists are written from.
THEOREM Invariance == Spec => []IInv
<1>1. Init => IInv
  BY InitInv
<1>2. IInv /\ [Next]_vars => IInv'
  BY StepInv
<1> QED
  BY <1>1, <1>2, PTL DEF Spec

\* The anchors only hold addresses that answered a connection of this node, the white
\* list those and the peers of its command lines, whatever set_peer_just_seen, try_ping,
\* housekeeping and restarts do.
THEOREM WhiteAnswered == Spec => []WhiteReached
<1>1. IInv => WhiteReached
  BY DEF IInv, Good, WhiteReached, Named
<1> QED
  BY <1>1, Invariance, PTL


----------------------------------------------------------------------------
(* The number of connections.  OutBounded is not inductive: the connections are     *)
(* counted some time before the next one is made.  The invariant carries the count  *)
(* through the places of the attempt in between; connections other threads close    *)
(* only make it smaller, and those they open are of another kind.                   *)

Full == {c \in conns : c.kind = "full"}

\* The most that any list of the plan may ask for.
Limit == IF MaxAnchors > MaxOut THEN MaxAnchors ELSE MaxOut

Lists == {"anchor", "white", "gray"}

\* A connection is made only where there is room for it, to an address that has none.
Room ==
  /\ job.at = "pick" => Mine = "full"
  /\ Mine = "full" /\ job.at \in {"pick", "try", "wait"} => job.plan # << >>
  /\ Mine = "full" /\ job.at \in {"pick", "try"} => Cardinality(Full) < Limit
  /\ Mine = "full" /\ job.at = "try" => \A c \in Full : c.adr # job.peer.adr
  /\ Mine = "full" /\ job.at = "wait" => Cardinality({c \in Full : c.adr # job.peer.adr}) < Limit

OutInv ==
  /\ IsFiniteSet(conns)
  /\ job.plan \in Seq(Lists \X (0..Limit))
  /\ \A c, d \in Full : c.adr = d.adr => c = d
  /\ Cardinality(Full) <= Limit
  /\ Room

\* The limits are numbers, and a part of a finite set is smaller.
LEMMA LimitNat == Limit \in Nat /\ MaxOut <= Limit /\ MaxAnchors <= Limit /\ Expected \in Nat /\ Expected <= Limit
  BY HostsAssumption DEF Limit

\* Fewer connections are a smaller number.
LEMMA Fewer ==
  ASSUME NEW S, IsFiniteSet(S), NEW T, T \subseteq S
  PROVE  IsFiniteSet(T) /\ Cardinality(T) \in Nat /\ Cardinality(S) \in Nat /\ Cardinality(T) <= Cardinality(S)
  BY FS_Subset, FS_CardinalityType

\* One more connection is one more at most.
LEMMA OneMore ==
  ASSUME NEW S, IsFiniteSet(S), NEW x, NEW n \in Nat, Cardinality(S) < n
  PROVE  Cardinality(S \cup {x}) <= n
<1>1. Cardinality(S) \in Nat
  BY FS_CardinalityType
<1>2. Cardinality(S \cup {x}) \in {Cardinality(S), Cardinality(S) + 1}
  BY FS_AddElement
<1> QED
  BY <1>1, <1>2

\* The connections with an address of their own are finitely many.
LEMMA FullFinite ==
  ASSUME IsFiniteSet(conns)
  PROVE  IsFiniteSet(Full) /\ Cardinality(Full) \in Nat
<1>1. Full \subseteq conns
  BY DEF Full
<1> QED
  BY <1>1, Fewer

\* What every step does that makes no connection of the idle worker.
NoneMade == IsFiniteSet(conns') /\ Full' \subseteq Full

\* The bounds that do not depend on the place of the worker.
LEMMA NoneMadeBounds ==
  ASSUME OutInv, NoneMade
  PROVE  /\ \A c, d \in Full' : c.adr = d.adr => c = d
         /\ Cardinality(Full') <= Cardinality(Full) /\ Cardinality(Full') <= Limit
         /\ Cardinality(Full') \in Nat /\ Cardinality(Full) \in Nat
<1>1. IsFiniteSet(Full) /\ Cardinality(Full) \in Nat
  BY FullFinite DEF OutInv
<1>2. Cardinality(Full') <= Cardinality(Full) /\ Cardinality(Full') \in Nat
  BY <1>1, Fewer DEF NoneMade
<1> QED
  BY <1>1, <1>2, LimitNat DEF OutInv, NoneMade

\* Other threads leave the job alone.
LEMMA OthersOut ==
  ASSUME OutInv, NoneMade, job' = job
  PROVE  OutInv'
<1>1. /\ \A c, d \in Full' : c.adr = d.adr => c = d
      /\ Cardinality(Full') <= Cardinality(Full) /\ Cardinality(Full') <= Limit
      /\ Cardinality(Full') \in Nat /\ Cardinality(Full) \in Nat
  BY NoneMadeBounds
<1>2. Mine' = Mine
  BY DEF Mine
<1>3. ASSUME Cardinality({c \in Full : c.adr # job.peer.adr}) < Limit
      PROVE  Cardinality({c \in Full' : c.adr # job.peer.adr}) < Limit
  <2>1. {c \in Full' : c.adr # job.peer.adr} \subseteq {c \in Full : c.adr # job.peer.adr}
    BY DEF NoneMade
  <2>2. IsFiniteSet({c \in Full : c.adr # job.peer.adr})
    BY FullFinite, Fewer DEF OutInv
  <2> QED
    BY <1>3, <2>1, <2>2, Fewer, LimitNat
<1>4. Room'
  BY <1>1, <1>2, <1>3, LimitNat DEF OutInv, Room, NoneMade
<1> QED
  BY <1>1, <1>4 DEF OutInv, NoneMade, Limit

\* The idle worker decides something, and is then at no place that needs room.
LEMMA DecideOut ==
  ASSUME OutInv, NoneMade, job'.plan \in Seq(Lists \X (0..Limit)),
         job'.at \notin {"pick", "try", "wait"} \/ (Mine' # "full" /\ job'.at # "pick")
  PROVE  OutInv'
<1>1. /\ \A c, d \in Full' : c.adr = d.adr => c = d
      /\ Cardinality(Full') <= Limit
  BY NoneMadeBounds
<1>2. Room'
  BY DEF Room
<1> QED
  BY <1>1, <1>2 DEF OutInv, NoneMade, Limit

\* The idle worker looks for another address, with room for it.
LEMMA PickOut ==
  ASSUME OutInv, NoneMade, job'.plan \in Seq(Lists \X (0..Limit)), job'.at = "pick",
         job'.plan # << >>, Mine' = "full", Cardinality(Full') < Limit
  PROVE  OutInv'
<1>1. /\ \A c, d \in Full' : c.adr = d.adr => c = d
      /\ Cardinality(Full') <= Limit
  BY NoneMadeBounds
<1>2. Room'
  BY DEF Room, Limit
<1> QED
  BY <1>1, <1>2 DEF OutInv, NoneMade, Limit

\* Plans are sequences of lists and limits, from the first to the last of them.
LEMMA Plans ==
  /\ << >> \in Seq(Lists \X (0..Limit))
  /\ \A p \in Seq(Lists \X (0..Limit)) :
       p # << >> => /\ Tail(p) \in Seq(Lists \X (0..Limit))
                    /\ Head(p)[1] \in Lists /\ Head(p)[2] \in 0..Limit
<1>1. << >> \in Seq(Lists \X (0..Limit))
  OBVIOUS
<1>2. ASSUME NEW p \in Seq(Lists \X (0..Limit)), p # << >>
      PROVE  /\ Tail(p) \in Seq(Lists \X (0..Limit))
             /\ Head(p)[1] \in Lists /\ Head(p)[2] \in 0..Limit
  <2>1. Head(p) \in Lists \X (0..Limit) /\ Tail(p) \in Seq(Lists \X (0..Limit))
    BY <1>2
  <2> QED
    BY <2>1
<1> QED
  BY <1>1, <1>2

\* Without connections there is nothing to bound.
LEMMA InitOut == Init => OutInv
<1> SUFFICES ASSUME Init PROVE OutInv
  OBVIOUS
<1>1. Full = {}
  BY DEF Init, Full
<1>2. Cardinality(Full) = 0
  BY <1>1, FS_EmptySet
<1>3. job.plan = << >> /\ job.at = "idle"
  BY DEF Init, Idle
<1> QED
  BY <1>1, <1>2, <1>3, FS_EmptySet, LimitNat, Plans DEF Init, OutInv, Room

\* The steps that choose what to do next.
LEMMA MakerOut ==
  ASSUME IInv, OutInv,
         \/ connections_maker \/ make_expected_connections_count \/ GiveUp \/ End
         \/ (\E h \in Seeds : Seed(h))
         \/ (\E e \in Entries : Pick(e) \/ gray_peerlist_housekeeping(e))
  PROVE  OutInv'
<1>1. conns' = conns
  BY DEF connections_maker, make_expected_connections_count, GiveUp, End, Seed, Pick,
         gray_peerlist_housekeeping
<1>2. Full' = Full /\ NoneMade
  BY <1>1 DEF Full, NoneMade, OutInv
<1>3. job.plan \in Seq(Lists \X (0..Limit)) /\ JobShape
  BY DEF OutInv, IInv
<1>4. CASE connections_maker
  <2>1. job'.plan = << >> /\ job'.at \in {"seed", "order"}
    BY Zenon, <1>4 DEF connections_maker, Idle
  <2> QED
    BY <1>2, <2>1, Plans, DecideOut
<1>5. ASSUME job' = NextList, job.plan # << >>
      PROVE  OutInv'
  <2>1. job'.plan = Tail(job.plan) /\ job'.at = "list"
    BY Zenon, <1>5 DEF NextList, Idle
  <2> QED
    BY <1>2, <1>3, <1>5, <2>1, Plans, DecideOut
<1>6. CASE make_expected_connections_count
  <2>1. CASE job' = NextList
    BY <1>5, <1>6, <2>1 DEF make_expected_connections_count
  <2>2. CASE job' # NextList
    <3>1. /\ get_outgoing_connections_count < Head(job.plan)[2] /\ job.plan # << >>
          /\ job' = [job EXCEPT !.at = "pick", !.list = Head(job.plan)[1], !.left = job.anchors]
      BY <1>6, <2>2 DEF make_expected_connections_count
    <3>2. job'.plan = job.plan /\ job'.at = "pick" /\ job'.list = Head(job.plan)[1]
      BY Zenon, <1>3, <3>1 DEF JobShape
    <3>3. Full \subseteq Outbound /\ IsFiniteSet(Outbound)
      BY Fewer DEF Full, Outbound, OutInv
    <3>4. Head(job.plan)[2] \in 0..Limit /\ Mine' = "full"
      BY <1>3, <3>1, <3>2, Plans DEF Lists, Mine
    <3>5. Cardinality(Full) < Limit
      BY <3>1, <3>3, <3>4, Fewer, LimitNat DEF get_outgoing_connections_count
    <3> QED
      BY <1>2, <1>3, <3>1, <3>2, <3>4, <3>5, PickOut
  <2> QED
    BY <2>1, <2>2
<1>7. CASE GiveUp
  BY <1>5, <1>7 DEF GiveUp, OutInv, Room
<1>8. CASE End
  <2>1. job'.plan = << >> /\ job'.at \in {"seed", "idle"}
    BY Zenon, <1>8 DEF End, Idle
  <2> QED
    BY <1>2, <2>1, Plans, DecideOut
<1>9. ASSUME NEW h, Seed(h)
      PROVE  OutInv'
  <2>1. job'.plan = job.plan /\ job'.list = "seed" /\ job'.at = "try"
    BY Zenon, <1>3, <1>9 DEF Seed, JobShape
  <2>2. Mine' # "full"
    BY <2>1 DEF Mine
  <2> QED
    BY <1>2, <1>3, <2>1, <2>2, DecideOut
<1>10. ASSUME NEW e, gray_peerlist_housekeeping(e)
       PROVE  OutInv'
  <2>1. job'.plan = << >> /\ job'.list = "house" /\ job'.at = "try"
    BY Zenon, <1>10 DEF gray_peerlist_housekeeping, Idle
  <2>2. Mine' # "full"
    BY <2>1 DEF Mine
  <2> QED
    BY <1>2, <2>1, <2>2, Plans, DecideOut
<1>11. ASSUME NEW e, Pick(e)
       PROVE  OutInv'
  <2>1. job.at = "pick" /\ Mine = "full"
    BY <1>11 DEF Pick, OutInv, Room
  <2>2. CASE job' = [job EXCEPT !.tries = @ + 1, !.left = @ \ {e}]
    <3>1. job'.plan = job.plan /\ job'.at = "pick" /\ job'.list = job.list
      BY Zenon, <1>3, <2>1, <2>2 DEF JobShape
    <3>2. Mine' = Mine
      BY <3>1 DEF Mine
    <3> QED
      BY <1>2, <1>3, <2>1, <3>1, <3>2, PickOut DEF OutInv, Room
  <2>3. CASE /\ ~is_peer_used(e)
             /\ job' = [[job EXCEPT !.tries = @ + 1, !.left = @ \ {e}] EXCEPT !.at = "try", !.peer = e]
    <3>1. job'.plan = job.plan /\ job'.at = "try" /\ job'.list = job.list /\ job'.peer = e
      BY Zenon, <1>3, <2>3 DEF JobShape
    <3>2. \A c \in Full : c.adr # e.adr
      BY <2>3 DEF is_peer_used, Full
    <3>3. Room'
      BY <1>2, <2>1, <3>1, <3>2 DEF OutInv, Room, Limit
    <3> QED
      BY <1>1, <1>2, <3>1, <3>3 DEF OutInv, Limit
  <2> QED
    BY Zenon, <1>11, <2>2, <2>3 DEF Pick, Selected
<1> QED
  BY <1>4, <1>6, <1>7, <1>8, <1>9, <1>10, <1>11

\* After a failed attempt of its own the worker looks for another address.
LEMMA FailedOut ==
  ASSUME IInv, OutInv, NoneMade, Failed, job.at \in {"try", "wait"},
         Mine = "full" => Cardinality(Full') < Limit
  PROVE  OutInv'
<1>1. job.plan \in Seq(Lists \X (0..Limit)) /\ JobShape
  BY DEF OutInv, IInv
<1>2. CASE job.list = "house"
  <2>1. job'.plan = << >> /\ job'.at = "idle"
    BY <1>2 DEF Failed, Idle
  <2> QED
    BY <2>1, Plans, DecideOut
<1>3. CASE job.list = "seed"
  <2>1. \/ job' = [job EXCEPT !.at = "seed", !.tries = @ + 1]
        \/ job' = Idle
        \/ job' = [Idle EXCEPT !.at = "order", !.start = job.start]
    BY <1>3 DEF Failed, AfterSeed
  <2>2. CASE job' = [job EXCEPT !.at = "seed", !.tries = @ + 1]
    <3>1. job'.plan = job.plan /\ job'.at = "seed"
      BY Zenon, <1>1, <2>2 DEF JobShape
    <3> QED
      BY <1>1, <3>1, DecideOut
  <2>3. CASE job' = Idle
    <3>1. job'.plan = << >> /\ job'.at = "idle"
      BY <2>3 DEF Idle
    <3> QED
      BY <3>1, Plans, DecideOut
  <2>4. CASE job' = [Idle EXCEPT !.at = "order", !.start = job.start]
    <3>1. job'.plan = << >> /\ job'.at = "order"
      BY Zenon, <2>4 DEF Idle
    <3> QED
      BY <3>1, Plans, DecideOut
  <2> QED
    BY <2>1, <2>2, <2>3, <2>4
<1>4. CASE job.list # "house" /\ job.list # "seed"
  <2>1. job' = [job EXCEPT !.at = "pick", !.peer = Idle.peer]
    BY <1>4 DEF Failed
  <2>2. job'.plan = job.plan /\ job'.at = "pick" /\ job'.list = job.list
    BY Zenon, <1>1, <2>1 DEF JobShape
  <2>3. Mine = "full" /\ Mine' = "full"
    BY <1>4, <2>2 DEF Mine
  <2> QED
    BY <1>1, <2>2, <2>3, PickOut DEF OutInv, Room
<1> QED
  BY <1>2, <1>3, <1>4

\* Closing connections makes none.
LEMMA CloseNone ==
  ASSUME IsFiniteSet(conns), NEW cs, NEW list, Close(cs, list)
  PROVE  NoneMade /\ Full' = Full \ cs
<1>1. conns' = conns \ cs
  BY DEF Close
<1> QED
  BY <1>1, Fewer DEF NoneMade, Full

\* add_host_fail only closes connections.
LEMMA FailNone ==
  ASSUME IsFiniteSet(conns), NEW h, NEW cs, NEW list, add_host_fail(h, cs, list)
  PROVE  NoneMade /\ Full' \subseteq Full \ cs
<1>1. Close(cs \cup IF TooManyFails(h) THEN OfHost(h) ELSE {}, list)
  BY DEF add_host_fail
<1> QED
  BY <1>1, CloseNone

\* The connection of an attempt is the only one with its address.
LEMMA WithoutMine ==
  ASSUME OutInv, job.at = "wait", Mine = "full", NEW S, S \subseteq Full,
         \A c \in S : c.adr # job.peer.adr
  PROVE  IsFiniteSet(S) /\ Cardinality(S) \in Nat /\ Cardinality(S) < Limit
<1> DEFINE T == {c \in Full : c.adr # job.peer.adr}
<1>1. S \subseteq T /\ T \subseteq Full
  OBVIOUS
<1>2. IsFiniteSet(T)
  BY <1>1, FullFinite, Fewer DEF OutInv
<1>3. Cardinality(T) < Limit
  BY DEF OutInv, Room
<1> HIDE DEF T
<1> QED
  BY <1>1, <1>2, <1>3, Fewer, LimitNat

\* The place of the worker moves on, and its plan stays.
LEMMA DoPlan ==
  ASSUME IInv, NEW at, Do(at)
  PROVE  job'.at = at /\ job'.plan = job.plan /\ job'.list = job.list /\ job'.peer = job.peer
  BY Zenon DEF Do, IInv, JobShape

\* The connection that the attempt opens.
LEMMA TryOut ==
  ASSUME IInv, OutInv, Try
  PROVE  OutInv'
<1>1. job.at = "try" /\ JobShape /\ IsFiniteSet(Full) /\ Cardinality(Full) \in Nat
  BY FullFinite DEF Try, OutInv, IInv
<1>2. CASE Failed /\ UNCHANGED conns
  <2>1. NoneMade /\ Full' = Full
    BY <1>2 DEF NoneMade, Full, OutInv
  <2> QED
    BY <1>1, <1>2, <2>1, FailedOut DEF OutInv, Room
<1>3. CASE Do("wait") /\ conns' = conns \cup {Conn(job.peer.adr, Mine, NoId)}
  <2> DEFINE new == Conn(job.peer.adr, Mine, NoId)
  <2>1. new.adr = job.peer.adr /\ new.kind = Mine
    BY DEF Conn
  <2>2. job'.at = "wait" /\ job'.plan = job.plan /\ job'.list = job.list /\ job'.peer = job.peer
    BY <1>3, DoPlan
  <2>3. Mine' = Mine
    BY <2>2 DEF Mine
  <2> HIDE DEF new
  <2>4. conns' = conns \cup {new}
    BY <1>3 DEF new
  <2>5. IsFiniteSet(conns')
    BY <2>4, FS_AddElement DEF OutInv
  <2>6. CASE Mine # "full"
    <3>1. NoneMade
      BY <2>1, <2>4, <2>5, <2>6 DEF NoneMade, Full
    <3> QED
      BY <2>2, <2>3, <2>6, <3>1, DecideOut DEF OutInv
  <2>7. CASE Mine = "full"
    <3>1. Full' = Full \cup {new} /\ \A c \in Full : c.adr # job.peer.adr
      BY <1>1, <2>1, <2>4, <2>7 DEF Full, OutInv, Room
    <3>2. Cardinality(Full) < Limit /\ job.plan # << >>
      BY <1>1, <2>7 DEF OutInv, Room
    <3>3. Cardinality(Full') <= Limit
      BY <1>1, <3>1, <3>2, OneMore, LimitNat
    <3>4. {c \in Full' : c.adr # job'.peer.adr} = Full
      BY <2>1, <2>2, <3>1
    <3>5. Room'
      BY <2>2, <2>3, <2>7, <3>2, <3>4 DEF Room, Limit
    <3>6. \A c, d \in Full' : c.adr = d.adr => c = d
      BY <2>1, <3>1 DEF OutInv
    <3> QED
      BY <2>2, <2>5, <3>3, <3>5, <3>6 DEF OutInv, Limit
  <2> QED
    BY <2>6, <2>7 DEF Mine
<1> QED
  BY <1>2, <1>3 DEF Try

\* The answer of the peer: its connection stays, or is closed when it leads to this node.
LEMMA AnsweredOut ==
  ASSUME IInv, OutInv, HandshakeAnswered
  PROVE  OutInv'
<1>1. PICK c \in Handshaking, merged \in handle_remote_peerlist(HostOf(job.peer.adr)) :
        IF c.kind = "short"
        THEN Do("made") /\ peers' = merged /\ UNCHANGED conns
        ELSE LET known == [c EXCEPT !.id = IdOf(HostOf(c.adr))]
             IN \E list \in append_with_peer_white(merged, Entry(c.adr, known.id)) :
                  IF known.id = IdOf(Self)
                  THEN Failed /\ Close({c}, list)
                  ELSE Do("made") /\ conns' = (conns \ {c}) \cup {known} /\ peers' = list
  BY DEF HandshakeAnswered
<1>2. c \in conns /\ c.adr = job.peer.adr /\ c.kind = Mine /\ job.at = "wait"
  BY DEF Handshaking, Outbound, HandshakeAnswered
<1>3. CASE c.kind = "short"
  <2>1. NoneMade
    BY <1>1, <1>3 DEF NoneMade, Full, OutInv
  <2>2. job'.at = "made" /\ job'.plan = job.plan
    BY <1>1, <1>3, DoPlan
  <2> QED
    BY <2>1, <2>2, DecideOut DEF OutInv
<1>4. CASE c.kind # "short"
  <2> DEFINE known == [c EXCEPT !.id = IdOf(HostOf(c.adr))]
  <2>1. Mine = "full" /\ c \in Full
    BY <1>2, <1>4 DEF Mine, Full
  <2>2. \A d \in Full \ {c} : d.adr # job.peer.adr
    BY <1>2, <2>1 DEF OutInv
  <2>3. /\ IsFiniteSet(Full \ {c}) /\ Cardinality(Full \ {c}) \in Nat
        /\ Cardinality(Full \ {c}) < Limit
    BY <1>2, <2>1, <2>2, WithoutMine
  <2>4. CASE \E list : Failed /\ Close({c}, list)
    <3>1. NoneMade /\ Full' = Full \ {c}
      BY <2>4, CloseNone DEF OutInv
    <3> QED
      BY <1>2, <2>3, <2>4, <3>1, FailedOut
  <2>5. CASE Do("made") /\ conns' = (conns \ {c}) \cup {known}
    <3>1. c = [adr |-> c.adr, kind |-> c.kind, id |-> c.id]
      BY <1>2 DEF IInv, KnownReached
    <3>2. known.adr = c.adr /\ known.kind = c.kind
      BY <3>1
    <3> HIDE DEF known
    <3>3. Full' = (Full \ {c}) \cup {known}
      BY <1>2, <2>1, <2>5, <3>2 DEF Full
    <3>4. Cardinality(Full') <= Limit
      BY <2>3, <3>3, OneMore, LimitNat
    <3>5. IsFiniteSet(conns')
      BY <2>5, FS_AddElement, FS_RemoveElement DEF OutInv
    <3>6. job'.at = "made" /\ job'.plan = job.plan
      BY <2>5, DoPlan
    <3>7. Room'
      BY <3>6 DEF Room
    <3>8. \A d, e \in Full' : d.adr = e.adr => d = e
      BY <1>2, <2>2, <3>2, <3>3 DEF OutInv
    <3> QED
      BY <3>4, <3>5, <3>6, <3>7, <3>8 DEF OutInv, Limit
  <2>6. \E list : IF known.id = IdOf(Self)
                  THEN Failed /\ Close({c}, list)
                  ELSE Do("made") /\ conns' = (conns \ {c}) \cup {known} /\ peers' = list
    BY Zenon, <1>1, <1>4
  <2> QED
    BY <2>4, <2>5, <2>6
<1> QED
  BY <1>3, <1>4

\* The other steps of an attempt, which only close connections.
LEMMA AttemptOut ==
  ASSUME IInv, OutInv, LimitReached \/ HandshakeFailed \/ HandshakeRefused \/ Made
  PROVE  OutInv'
<1> IsFiniteSet(conns) /\ job.plan \in Seq(Lists \X (0..Limit))
  BY DEF OutInv
<1>1. CASE LimitReached
  <2>1. NoneMade
    <3>1. CASE conns' = conns
      BY <3>1 DEF NoneMade, Full
    <3>2. ASSUME NEW c, Close({c}, peers)
          PROVE  NoneMade
      BY <3>2, CloseNone
    <3> QED
      BY <1>1, <3>1, <3>2 DEF LimitReached
  <2>2. job.at = "try" /\ Failed
    BY <1>1 DEF LimitReached
  <2>3. Mine = "full" => Cardinality(Full') < Limit
    BY <2>1, <2>2, NoneMadeBounds, LimitNat DEF OutInv, Room
  <2> QED
    BY <2>1, <2>2, <2>3, FailedOut
<1>2. CASE HandshakeFailed \/ HandshakeRefused
  <2>1. NoneMade /\ Full' \subseteq Full \ Handshaking
    BY Zenon, <1>2, CloseNone, FailNone DEF HandshakeFailed, HandshakeRefused
  <2>2. job.at = "wait" /\ Failed
    BY <1>2 DEF HandshakeFailed, HandshakeRefused
  <2>3. ASSUME Mine = "full"
        PROVE  Cardinality(Full') < Limit
    <3>1. \A c \in Full' : c.adr # job.peer.adr
      BY <2>1, <2>3 DEF Full, Handshaking, Outbound
    <3> QED
      BY <2>1, <2>2, <2>3, <3>1, WithoutMine
  <2> QED
    BY <2>1, <2>2, <2>3, FailedOut
<1>3. CASE Made
  <2>1. CASE job.list = "seed"
    <3>1. Close(Handshaking, peers) /\ job' = AfterSeed
      BY <1>3, <2>1 DEF Made
    <3>2. job'.plan = << >> /\ job'.at # "pick" /\ job'.at # "try" /\ job'.at # "wait"
      BY <3>1 DEF AfterSeed, Idle
    <3> QED
      BY <3>1, <3>2, CloseNone, Plans, DecideOut
  <2>2. CASE job.list = "house"
    <3>1. PICK list : Close(Handshaking, list) /\ job' = Idle
      BY <1>3, <2>2 DEF Made
    <3>2. job'.plan = << >> /\ job'.at = "idle"
      BY <3>1 DEF Idle
    <3> QED
      BY <3>1, <3>2, CloseNone, Plans, DecideOut
  <2>3. CASE job.list # "seed" /\ job.list # "house"
    <3>1. job' = SameList /\ conns' = conns
      BY <1>3, <2>3 DEF Made
    <3>2. NoneMade
      BY <3>1 DEF NoneMade, Full
    <3>3. job'.plan = job.plan /\ job'.at = "list"
      BY Zenon, <3>1 DEF SameList, Idle
    <3> QED
      BY <3>2, <3>3, DecideOut
  <2> QED
    BY <2>1, <2>2, <2>3
<1> QED
  BY <1>1, <1>2, <1>3

\* The plan of connections_maker, the file and the new start.
LEMMA StoreOut ==
  ASSUME IInv, OutInv, Order \/ store_config \/ Stored \/ Restart
  PROVE  OutInv'
<1>1. CASE Order
  <2> DEFINE n == get_outgoing_connections_count
             white == <<"white", IF n < Expected THEN Expected ELSE MaxOut>>
             gray == <<"gray", MaxOut>>
  <2>1. white \in Lists \X (0..Limit) /\ gray \in Lists \X (0..Limit)
        /\ <<"anchor", MaxAnchors>> \in Lists \X (0..Limit)
    BY LimitNat, HostsAssumption DEF Lists
  <2>2. NoneMade
    BY <1>1 DEF Order, NoneMade, Full, OutInv
  <2>3. /\ job'.at = "list"
        /\ \/ job'.plan = << >>
           \/ job'.plan = << <<"anchor", MaxAnchors>>, white, gray >>
           \/ job'.plan = <<gray, white>>
    BY Zenon, <1>1 DEF Order, IInv, JobShape
  <2> HIDE DEF white, gray
  <2>4. job'.plan \in Seq(Lists \X (0..Limit))
    <3> DEFINE E == Lists \X (0..Limit)
               anchor == <<"anchor", MaxAnchors>>
    <3>1. anchor \in E /\ white \in E /\ gray \in E
      BY <2>1
    <3> HIDE DEF E, anchor
    <3>2. <<anchor, white, gray>> \in Seq(E) /\ <<gray, white>> \in Seq(E) /\ << >> \in Seq(E)
      BY <3>1
    <3> QED
      BY Zenon, <2>3, <3>2 DEF E, anchor
  <2> QED
    BY <2>2, <2>3, <2>4, DecideOut
<1>2. CASE store_config \/ Stored
  <2>1. NoneMade
    BY <1>2 DEF store_config, Stored, NoneMade, Full, OutInv
  <2>2. CASE store_config
    <3>1. job'.plan = << >> /\ job'.at = "store"
      BY Zenon, <2>2 DEF store_config, Idle
    <3> QED
      BY <2>1, <3>1, Plans, DecideOut
  <2>3. CASE Stored
    <3>1. job'.plan = << >> /\ job'.at = "idle"
      BY <2>3 DEF Stored, Idle
    <3> QED
      BY <2>1, <3>1, Plans, DecideOut
  <2> QED
    BY <1>2, <2>2, <2>3
<1>3. CASE Restart
  <2>1. NoneMade
    BY <1>3, FS_EmptySet DEF Restart, Start, NoneMade, Full
  <2>2. job'.plan = << >> /\ job'.at = "idle"
    BY <1>3 DEF Restart, Start, Idle
  <2> QED
    BY <2>1, <2>2, Plans, DecideOut
<1> QED
  BY <1>1, <1>2, <1>3

\* The handlers of other threads, the network and the user.
LEMMA OtherOut ==
  ASSUME IInv, OutInv,
         \/ \E c \in conns : Handlers(c) \/ Others(c)
         \/ Sample \/ UNCHANGED vars
         \/ \E h \in Hosts : block_host(h) \/ unblock_host(h) \/ HostDown(h) \/ HostUp(h)
         \/ \E h \in Callers, port \in Ports : Connected(h, port)
  PROVE  OutInv'
<1> IsFiniteSet(conns)
  BY DEF OutInv
<1>1. job' = job
  BY Zenon DEF Handlers, Others, handle_handshake, try_ping, do_peer_timed_sync, WrongHandshake,
         WrongPing, SyncRefused, Lost, Sample, vars, block_host, unblock_host, HostDown, HostUp, Connected
<1>2. ASSUME conns' = conns
      PROVE  NoneMade
  BY <1>2 DEF NoneMade, Full
<1>3. ASSUME NEW c \in conns, handle_handshake(c)
      PROVE  NoneMade
  <2> DEFINE known == [c EXCEPT !.id = IdOf(HostOf(c.adr))]
             ping == Conn(Listen(HostOf(c.adr)), "ping", NoId)
  <2>1. known.kind = "in" /\ ping.kind = "ping"
    BY <1>3 DEF handle_handshake, IInv, KnownReached, Conn
  <2>2. conns' \subseteq conns \cup {known, ping}
    BY <1>3 DEF handle_handshake
  <2> HIDE DEF known, ping
  <2>3. IsFiniteSet(conns \cup {known, ping})
    <3>1. conns \cup {known, ping} = (conns \cup {known}) \cup {ping}
      OBVIOUS
    <3> QED
      BY <3>1, FS_AddElement
  <2> QED
    BY <2>1, <2>2, <2>3, FS_Subset DEF NoneMade, Full
<1>4. ASSUME NEW h, NEW port, Connected(h, port)
      PROVE  NoneMade
  <2> DEFINE new == Conn(<<h, port>>, "in", NoId)
  <2>1. new.kind = "in" /\ conns' = conns \cup {new}
    BY <1>4 DEF Connected, Conn
  <2> HIDE DEF new
  <2> QED
    BY <2>1, FS_AddElement DEF NoneMade, Full
<1>5. ASSUME NEW c, try_ping(c) \/ WrongHandshake(c) \/ WrongPing(c) \/ SyncRefused(c) \/ Lost(c)
      PROVE  NoneMade
  BY Zenon, <1>5, CloseNone, FailNone DEF try_ping, WrongHandshake, WrongPing, SyncRefused, Lost
<1>6. ASSUME NEW h, block_host(h)
      PROVE  NoneMade
  BY <1>6, CloseNone DEF block_host
<1>7. ASSUME \/ Sample \/ UNCHANGED vars
             \/ \E h \in Hosts : unblock_host(h) \/ HostDown(h) \/ HostUp(h)
             \/ \E c \in conns : do_peer_timed_sync(c)
      PROVE  NoneMade
  BY <1>2, <1>7 DEF Sample, vars, unblock_host, HostDown, HostUp, do_peer_timed_sync
<1>8. NoneMade
  BY Zenon, <1>3, <1>4, <1>5, <1>6, <1>7 DEF Handlers, Others
<1> QED
  BY <1>1, <1>8, OthersOut

\* Every step preserves the bound.
LEMMA StepBound == IInv /\ OutInv /\ [Next]_vars => OutInv'
  BY Zenon, MakerOut, TryOut, AnsweredOut, AttemptOut, StoreOut, OtherOut DEF Next, MakerStep

\* The connections that connections_maker keeps are never more than any list of its plan
\* may ask for, and no two lead to the same address, however old the sampled count is and
\* whatever other threads open and close between the count and the handshake.
THEOREM OutWithinPlan == Spec => []OutInv
<1>1. Init => OutInv
  BY InitOut
<1>2. IInv /\ OutInv /\ [Next]_vars => OutInv'
  BY StepBound
<1> QED
  BY <1>1, <1>2, Invariance, PTL DEF Spec

\* Where the anchors fit into the limit (P2P_DEFAULT_ANCHOR_CONNECTIONS_COUNT is at most
\* max_out_connection_count), connections_maker never exceeds it on a node without priority
\* and exclusive peers.
THEOREM OutLimited ==
  ASSUME MaxAnchors <= MaxOut
  PROVE  Spec => []OutBounded
<1>1. Limit = MaxOut
  BY HostsAssumption DEF Limit
<1>2. OutInv => OutBounded
  BY <1>1 DEF OutInv, OutBounded, Full
<1> QED
  BY <1>2, OutWithinPlan, PTL

=============================================================================
