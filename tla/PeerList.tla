------------------------------ MODULE PeerList ------------------------------
(* The lists of known peers (p2p/net_peerlist.h): a white list of addresses that   *)
(* this node reached, a gray list of addresses it was told of, and the anchors, to  *)
(* which it had an outgoing connection.  Every operation holds m_peerlist_lock.     *)
(*                                                                                  *)
(* The times of the entries are abstracted: which entry of a list is the oldest, and *)
(* goes when the list is full, is open, but an entry of the white list always gets   *)
(* the present time and so is the latest of them.                                    *)
EXTENDS Naturals, FiniteSets, FiniteSetsExt

CONSTANTS MaxWhite,  \* P2P_LOCAL_WHITE_PEERLIST_LIMIT
          MaxGray,   \* P2P_LOCAL_GRAY_PEERLIST_LIMIT
          Local      \* the addresses that are local or a loopback

NoPeers == [white |-> {}, gray |-> {}, anchor |-> {}]

Entry(a, i) == [adr |-> a, id |-> i]

is_host_allowed(a) == a \notin Local

Addresses(entries) == {e.adr : e \in entries}

ExceptAddress(entries, a) == {e \in entries : e.adr # a}

\* trim_white_peerlist and trim_gray_peerlist: what may be left of a list.
Trimmed(entries, max) ==
  IF Cardinality(entries) > max THEN kSubset(max, entries) ELSE {entries}

\* Also set_peer_just_seen, which makes the entry.
append_with_peer_white(peers, e) ==
  LET white == ExceptAddress(peers.white, e.adr) \cup {e}
  IN IF ~is_host_allowed(e.adr)
     THEN {peers}
     ELSE {[peers EXCEPT !.white = w, !.gray = ExceptAddress(@, e.adr)] :
             w \in {t \in Trimmed(white, MaxWhite) : e \in t}}

\* append_with_peer_white for one entry after the other: they are the latest of the list,
\* and when they are too many, of them alone some are left.
append_each_white(peers, entries) ==
  LET new == {e \in entries : is_host_allowed(e.adr)}
      white == {e \in peers.white : e.adr \notin Addresses(new)} \cup new
  IN {[peers EXCEPT !.white = w, !.gray = {e \in @ : e.adr \notin Addresses(new)}] :
        w \in {t \in Trimmed(white, MaxWhite) : new \subseteq t \/ t \subseteq new}}

\* The lists that may result from what another node sends.
merge_peerlist(peers, entries) ==
  LET new == {e \in entries : is_host_allowed(e.adr) /\ e.adr \notin Addresses(peers.white)}
      old == {e \in peers.gray : e.adr \notin Addresses(new)}
  IN {[peers EXCEPT !.gray = g] : g \in Trimmed(old \cup new, MaxGray)}

append_with_peer_anchor(peers, e) ==
  IF e.adr \in Addresses(peers.anchor)
  THEN peers
  ELSE [peers EXCEPT !.anchor = @ \cup {e}]

remove_from_peer_gray(peers, a) == [peers EXCEPT !.gray = ExceptAddress(@, a)]

=============================================================================
