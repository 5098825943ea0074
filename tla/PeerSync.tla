------------------------------ MODULE PeerSync ------------------------------
(***************************************************************************)
(* The p2p node (net/node.cpp): how nodes fetch each other's chains when   *)
(* they connect (synchronisation) and pass new blocks on when they are in  *)
(* sync (inventory), over ordered connections that may drop.               *)
(*                                                                         *)
(* A block id is the sequence of the producers of the blocks up to it, so  *)
(* the block number is the length of the id, the previous block is its     *)
(* front and "b is on the chain of head h" is IsPrefix(b, h).  The empty   *)
(* sequence is item_hash_t().  A node's fibers give way to each other only *)
(* when they sleep: every handler is one step, the loops run when they are *)
(* triggered (wake), and a sync block's push to the chain is a task of its *)
(* own (in_progress).                                                      *)
(***************************************************************************)
EXTENDS Naturals, Sequences, FiniteSets, SequencesExt, FiniteSetsExt

CONSTANTS
  Node,             \* the nodes
  Setups,           \* the networks to start from, records with
                    \*   links: pairs <<n, m>>, n opens connections to m
                    \*   heads: the head block of each node
                    \*   producers: the nodes that generate blocks
                    \*   blocks, drops: bounds on blocks generated and
                    \*   connections given up
  BatchLimit,       \* ids in one reply (get_block_ids' limit)
  MinPrefetch,      \* GRAPHENE_NET_MIN_BLOCK_IDS_TO_PREFETCH
  MaxPerPeer,       \* _max_sync_blocks_per_peer
  MaxAtOnce,        \* _max_blocks_to_handle_at_once
  MaxPrefetch       \* _max_sync_blocks_to_prefetch

VARIABLES
  setup,       \* the network, one of Setups
  node,        \* node[n]: what n keeps once
  peer,        \* peer[n][m]: n's peer_connection for m
  net,         \* net[n][m]: messages on their way from n to m
  generated,   \* blocks generated so far
  drops        \* connections given up so far

vars == <<setup, node, peer, net, generated, drops>>

\* A connection as the constructor of peer_connection leaves it.
NewPeer ==
  [conn |-> "closed", we_need |-> TRUE, peer_needs |-> TRUE,
   ids_of_items_to_get |-> <<>>, being_processed |-> {}, unfetched |-> 0,
   item_ids_requested |-> {}, sync_items_requested |-> {}, items_requested |-> {},
   last_seen |-> <<>>, advertised_to_peer |-> {}, advertised_to_us |-> {}]

NewNode(head) ==
  [head |-> head, known |-> Prefixes(head), active_sync_requests |-> {},
   new_received |-> <<>>, received |-> <<>>, in_progress |-> <<>>,
   suspended |-> FALSE, accepted |-> IF head = <<>> THEN {} ELSE {head},
   items_to_fetch |-> <<>>, new_inventory |-> {}, wake |-> {}]

Init ==
  /\ setup \in Setups
  /\ node = [n \in Node |-> NewNode(setup.heads[n])]
  /\ peer = [n \in Node |-> [m \in Node |-> NewPeer]]
  /\ net = [n \in Node |-> [m \in Node |-> <<>>]]
  /\ generated = 0
  /\ drops = 0

-----------------------------------------------------------------------------
\* Handlers are functions from a state of all nodes to the next one.
Now == [node |-> node, peer |-> peer, net |-> net]

Become(s) == \E t \in {s} : node' = t.node /\ peer' = t.peer /\ net' = t.net

\* The next thing a handler does, with the state the last one left.
Then(s, Op(_)) == CHOOSE t \in {Op(u) : u \in {s}} : TRUE

Send(s, n, m, msg) == [s EXCEPT !.net[n][m] = Append(@, msg)]

Wake(s, n, loop) == [s EXCEPT !.node[n].wake = @ \cup {loop}]

_active_connections(s, n) == {m \in Node : s.peer[n][m].conn = "active"}

idle(p) ==
  p.items_requested = {} /\ p.sync_items_requested = {} /\ p.item_ids_requested = {}

\* The chain database: a block links when its predecessor is known, and the
\* longest chain wins (application_impl::handle_block, database::push_block).
Links_to(s, n, b) == Front(b) \in s.node[n].known

push_block(s, n, b) ==
  [s EXCEPT !.node[n].known = @ \cup {b},
            !.node[n].head = IF Len(b) > Len(@) THEN b ELSE @]

-----------------------------------------------------------------------------
\* The block numbers a summary up to block high names: from block 1 on, each
\* step goes half of what is left.
SummaryNums(high) ==
  LET f[k \in 1..(high + 1)] ==
        IF k > high THEN <<>> ELSE <<k>> \o f[k + ((high - k + 2) \div 2)]
  IN  f[1]

get_blockchain_synopsis(s, n, reference, after) ==
  LET top == IF reference = <<>> THEN s.node[n].head ELSE reference
      nums == SelectSeq(SummaryNums(Len(top) + after), LAMBDA k : k <= Len(top))
  IN  IF top = <<>> THEN <<>> ELSE [i \in DOMAIN nums |-> SubSeq(top, 1, nums[i])]

create_blockchain_synopsis_for_peer(s, n, m) ==
  LET ids == s.peer[n][m].ids_of_items_to_get
      first == Len(ids[1])
      nums == SelectSeq(SummaryNums(first + Len(ids) - 1), LAMBDA k : k >= first)
  IN  get_blockchain_synopsis(s, n, s.peer[n][m].last_seen, Len(ids))
        \o IF ids = <<>> THEN <<>>
           ELSE [i \in DOMAIN nums |-> ids[nums[i] - first + 1]]

\* Mutant: the reply starts after the common block.
FirstOfReply_next(head, synopsis) ==
  LET ours == SelectSeq(synopsis, LAMBDA b : IsPrefix(b, head))
  IN  IF synopsis = <<>> THEN 1
      ELSE IF ours = <<>> THEN 0 ELSE Min({Len(Last(ours)) + 1, Len(head)})

\* The first block of the reply to a synopsis; 0 when none of it is ours.
FirstOfReply(head, synopsis) ==
  LET ours == SelectSeq(synopsis, LAMBDA b : IsPrefix(b, head))
  IN  IF synopsis = <<>> THEN 1 ELSE IF ours = <<>> THEN 0 ELSE Len(Last(ours))

get_block_ids(s, n, synopsis) ==
  LET head == s.node[n].head
      first == FirstOfReply(head, synopsis)
      size == IF head = <<>> \/ first = 0 THEN 0
              ELSE Min({BatchLimit, Len(head) - first + 1})
  IN  [items |-> [i \in 1..size |-> SubSeq(head, 1, first + i - 1)],
       remaining |-> IF size = 0 THEN 0 ELSE Len(head) - (first + size - 1)]

fetch_next_batch_of_item_ids_from_peer(s, n, m) ==
  Then(s, LAMBDA t : Then(create_blockchain_synopsis_for_peer(t, n, m), LAMBDA synopsis :
    Send([t EXCEPT !.peer[n][m].item_ids_requested = {synopsis}], n, m,
         [type |-> "fetch_blockchain_item_ids", synopsis |-> synopsis])))

start_synchronizing_with_peer(s, n, m) ==
  fetch_next_batch_of_item_ids_from_peer(
    [s EXCEPT !.peer[n][m].ids_of_items_to_get = <<>>,
              !.peer[n][m].unfetched = 0,
              !.peer[n][m].we_need = TRUE,
              !.peer[n][m].last_seen = <<>>], n, m)

\* Mutant: the blocks asked of the peer stay marked as asked for.
on_connection_closed_forgets(s, n, m) ==
  [s EXCEPT !.peer[n][m] = NewPeer, !.net[n][m] = <<>>]

\* Both ends see the connection go: what was asked of the peer is asked again.
on_connection_closed(s, n, m) ==
  LET p == s.peer[n][m]
      others == _active_connections(s, n) \ {m}
      again == SelectSeq(SetToSeq(p.items_requested),
                 LAMBDA b : \E o \in others : b \in s.peer[n][o].advertised_to_us)
  IN  [s EXCEPT
        !.node[n].active_sync_requests = @ \ p.sync_items_requested,
        !.node[n].items_to_fetch = @ \o again,
        !.node[n].wake = @ \cup (IF p.sync_items_requested # {} THEN {"sync"} ELSE {})
                           \cup (IF p.items_requested # {} THEN {"items"} ELSE {}),
        !.peer[n][m] = NewPeer,
        !.net[n][m] = <<>>]

close_connection(s, n, m) ==
  Then(on_connection_closed(s, n, m), LAMBDA t : on_connection_closed(t, m, n))

disconnect_from_peer(s, n, m) == [s EXCEPT !.peer[n][m].conn = "closing"]

-----------------------------------------------------------------------------
\* A message of the given type is at the head of the channel from m to n.
Arrived(n, m, type) == net[m][n] # <<>> /\ Head(net[m][n]).type = type

\* The state once n has taken it off the channel.
Taken(n, m) == [Now EXCEPT !.net[m][n] = Tail(@)]

\* n opens a connection to m; the handshake leaves n syncing with m, and m
\* waiting for n's first request.
on_address_message(n, m) ==
  /\ <<n, m>> \in setup.links
  /\ peer[n][m].conn = "closed" /\ peer[m][n].conn = "closed"
  /\ Become(start_synchronizing_with_peer(
       [Now EXCEPT !.peer[n][m].conn = "active", !.peer[m][n].conn = "handshaking"],
       n, m))
  /\ UNCHANGED <<setup, generated, drops>>

\* Mutant: a reply of the one block both have does not count.
UpToDate_empty(synopsis, items) == items = <<>>

\* The reply tells m nothing new: m has all of n's blocks.
UpToDate(synopsis, items) ==
  items = <<>> \/ (Len(items) = 1 /\ Contains(synopsis, items[1]))

\* m asks which blocks n has after its synopsis.
on_fetch_blockchain_item_ids_message(n, m) ==
  /\ Arrived(n, m, "fetch_blockchain_item_ids")
  /\ LET synopsis == Head(net[m][n]).synopsis
         reply == get_block_ids(Now, n, synopsis)
         told == [Taken(n, m) EXCEPT
                    !.peer[n][m].peer_needs = ~UpToDate(synopsis, reply.items)]
         unknown == /\ ~peer[n][m].we_need
                    /\ synopsis # <<>>
                    /\ Last(synopsis) \notin node[n].known
         restarted == IF unknown THEN start_synchronizing_with_peer(told, n, m) ELSE told
         replied == Send(restarted, n, m, [type |-> "blockchain_item_ids_inventory",
                           items |-> reply.items, remaining |-> reply.remaining])
     IN  Become(IF peer[n][m].conn = "handshaking"
                THEN start_synchronizing_with_peer(
                       [replied EXCEPT !.peer[n][m].conn = "active"], n, m)
                ELSE replied)
  /\ UNCHANGED <<setup, generated, drops>>

\* The list of m's blocks, without the ones known already, appended to what
\* is to be fetched from m.
AppendItems(s, n, m, items) ==
  LET ids == s.peer[n][m].ids_of_items_to_get
      first_of_other ==
        \E o \in _active_connections(s, n) \ {m} :
          LET theirs == s.peer[n][o].ids_of_items_to_get
          IN  theirs # <<>> /\ theirs[1] = items[1]
      new == SelectSeq(items, LAMBDA b : b \notin s.node[n].known)
      had == SelectSeq(items, LAMBDA b : b \in s.node[n].known)
      kept == {k \in DOMAIN ids : ids[k] = items[1]}
  IN  CASE items = <<>> \/ (ids = <<>> /\ first_of_other) ->
             [s EXCEPT !.peer[n][m].ids_of_items_to_get = @ \o items]
        [] items # <<>> /\ ids = <<>> /\ ~first_of_other ->
             [s EXCEPT !.peer[n][m].ids_of_items_to_get = new,
                       !.peer[n][m].last_seen = IF had = <<>> THEN @ ELSE Last(had)]
        [] items # <<>> /\ ids # <<>> /\ kept = {} ->
             [s EXCEPT !.peer[n][m].ids_of_items_to_get = Tail(items),
                       !.peer[n][m].last_seen = items[1]]
        [] OTHER ->
             [s EXCEPT !.peer[n][m].ids_of_items_to_get
                         = SubSeq(ids, 1, Max(kept) - 1) \o items]

\* The reply to n's request for ids.
on_blockchain_item_ids_inventory_message(n, m) ==
  /\ Arrived(n, m, "blockchain_item_ids_inventory")
  /\ LET msg == Head(net[m][n])
         items == msg.items
         p == peer[n][m]
         asked == CHOOSE synopsis \in p.item_ids_requested : TRUE
         valid == \/ items = <<>>
                  \/ asked = <<>> /\ Len(items[1]) = 1
                  \/ Contains(asked, items[1])
         in_sync == /\ msg.remaining = 0
                    /\ items = <<>> \/ (Len(items) = 1 /\ items[1] \in node[n].known)
                    /\ p.ids_of_items_to_get = <<>>
                    /\ p.unfetched = 0
         answered == [Taken(n, m) EXCEPT !.peer[n][m].item_ids_requested = {}]
         enough == IF msg.remaining # 0 THEN MinPrefetch ELSE 0
     IN  Become(
           IF p.item_ids_requested = {} THEN Taken(n, m)
           ELSE IF ~valid THEN disconnect_from_peer(Taken(n, m), n, m)
           ELSE IF in_sync THEN [answered EXCEPT !.peer[n][m].we_need = FALSE]
           ELSE Then(AppendItems([answered EXCEPT !.peer[n][m].unfetched = msg.remaining],
                                 n, m, items), LAMBDA s :
                  IF Len(s.peer[n][m].ids_of_items_to_get) > enough THEN Wake(s, n, "sync")
                  ELSE fetch_next_batch_of_item_ids_from_peer(s, n, m)))
  /\ UNCHANGED <<setup, generated, drops>>

\* m asks for blocks.
on_fetch_items_message(n, m) ==
  /\ Arrived(n, m, "fetch_items")
  /\ LET items == Head(net[m][n]).items
     IN  Become([Taken(n, m) EXCEPT
           !.peer[n][m].last_seen = Last(items),
           !.net[n][m] = @ \o [i \in DOMAIN items |->
                                 [type |-> "block", block |-> items[i]]]])
  /\ UNCHANGED <<setup, generated, drops>>

\* m advertises blocks.
on_item_ids_inventory_message(n, m) ==
  /\ Arrived(n, m, "item_ids_inventory")
  /\ LET active == _active_connections(Now, n)
         new == {b \in Head(net[m][n]).available :
                   \A o \in active : b \notin peer[n][o].advertised_to_peer}
         wanted == {b \in new : /\ \A o \in active : b \notin peer[n][o].items_requested
                                /\ ~Contains(node[n].items_to_fetch, b)}
     IN  Become([Taken(n, m) EXCEPT
           !.peer[n][m].advertised_to_us = @ \cup new,
           !.node[n].items_to_fetch = @ \o SetToSeq(wanted),
           !.node[n].wake = IF wanted = {} THEN @ ELSE @ \cup {"items"}])
  /\ UNCHANGED <<setup, generated, drops>>

broadcast(s, n, b) ==
  [s EXCEPT !.node[n].accepted = @ \cup {b},
            !.node[n].new_inventory = @ \cup {b},
            !.node[n].wake = @ \cup {"advertise"}]

\* A block fetched in normal operation.
process_block_when_in_sync(s, n, m, b) ==
  LET new == b \notin s.node[n].accepted
      seen(p) == IF p.conn = "active" /\ b \in p.advertised_to_us
                 THEN [p EXCEPT !.last_seen = b] ELSE p
  IN  IF new /\ ~Links_to(s, n, b) THEN start_synchronizing_with_peer(s, n, m)
      ELSE broadcast([IF new THEN push_block(s, n, b) ELSE s
                       EXCEPT !.peer[n] = [o \in Node |-> seen(@[o])]], n, b)

\* A block fetched while syncing.
process_block_during_syncing(s, n, m, b) ==
  LET got == [s EXCEPT !.node[n].active_sync_requests = @ \ {b},
                       !.node[n].new_received = <<b>> \o @,
                       !.node[n].wake = @ \cup {"backlog"}]
      p == got.peer[n][m]
  IN  IF ~idle(p) THEN got
      ELSE IF p.unfetched > 0 /\ Len(p.ids_of_items_to_get) < MinPrefetch
      THEN fetch_next_batch_of_item_ids_from_peer(got, n, m)
      ELSE Wake(got, n, "sync")

process_block_message(n, m) ==
  /\ Arrived(n, m, "block")
  /\ LET b == Head(net[m][n]).block
         p == peer[n][m]
     IN  Become(
           IF b \in p.items_requested
           THEN Then(process_block_when_in_sync(
                       [Taken(n, m) EXCEPT !.peer[n][m].items_requested = @ \ {b}], n, m, b),
                     LAMBDA s : IF idle(s.peer[n][m]) THEN Wake(s, n, "items") ELSE s)
           ELSE IF b \in p.sync_items_requested
           THEN process_block_during_syncing(
                  [Taken(n, m) EXCEPT !.peer[n][m].sync_items_requested = @ \ {b}], n, m, b)
           ELSE disconnect_from_peer(Taken(n, m), n, m))
  /\ UNCHANGED <<setup, generated, drops>>

-----------------------------------------------------------------------------
\* The loop that asks for sync blocks: each idle peer we sync with gets the
\* first blocks on its list that are neither here nor asked of anyone.
request_sync_items_from_peer(n, s, m) ==
  LET p == s.peer[n][m]
      k == s.node[n]
      missing == SelectSeq(p.ids_of_items_to_get,
                   LAMBDA b : /\ ~Contains(k.received, b) /\ ~Contains(k.new_received, b)
                              /\ b \notin k.active_sync_requests)
      items == SubSeq(missing, 1, Min({MaxPerPeer, Len(missing)}))
  IN  IF ~p.we_need \/ ~idle(p) \/ items = <<>> THEN s
      ELSE Send([s EXCEPT !.node[n].active_sync_requests = @ \cup Range(items),
                          !.peer[n][m].sync_items_requested = @ \cup Range(items)],
                n, m, [type |-> "fetch_items", items |-> items])

\* The loops go through the peers in an order of no meaning.
Orders(S) == {o \in [1..Cardinality(S) -> S] : Range(o) = S}

Asleep(n, loop) == [Now EXCEPT !.node[n].wake = @ \ {loop}]

fetch_sync_items_loop(n) ==
  /\ "sync" \in node[n].wake
  /\ \E order \in Orders(_active_connections(Now, n)) :
       Become(IF node[n].suspended THEN Asleep(n, "sync")
              ELSE FoldLeft(LAMBDA s, m : Then(s, LAMBDA t :
                                            request_sync_items_from_peer(n, t, m)),
                            Asleep(n, "sync"), order))
  /\ UNCHANGED <<setup, generated, drops>>

\* The loop that asks for advertised items: one item of each idle peer.
RequestItem(n, s, order, b) ==
  LET able == SelectSeq(order, LAMBDA m : /\ idle(s.peer[n][m])
                                          /\ b \in s.peer[n][m].advertised_to_us)
  IN  IF able = <<>> THEN s
      ELSE Send([s EXCEPT !.node[n].items_to_fetch = SelectSeq(@, LAMBDA c : c # b),
                          !.peer[n][able[1]].items_requested = @ \cup {b}],
                n, able[1], [type |-> "fetch_items", items |-> <<b>>])

fetch_items_loop(n) ==
  /\ "items" \in node[n].wake
  /\ \E order \in Orders(_active_connections(Now, n)) :
       Become(FoldLeft(LAMBDA s, b : Then(s, LAMBDA t : RequestItem(n, t, order, b)),
                       Asleep(n, "items"), node[n].items_to_fetch))
  /\ UNCHANGED <<setup, generated, drops>>

\* The loop that advertises new blocks to the peers in sync with us.
advertise_inventory_loop(n) ==
  /\ "advertise" \in node[n].wake
  /\ LET fresh(m) == IF peer[n][m].conn = "active" /\ ~peer[n][m].peer_needs
                     THEN node[n].new_inventory
                            \ (peer[n][m].advertised_to_peer \cup peer[n][m].advertised_to_us)
                     ELSE {}
     IN  Become([Asleep(n, "advertise") EXCEPT
           !.node[n].new_inventory = {},
           !.peer[n] = [m \in Node |->
              [peer[n][m] EXCEPT !.advertised_to_peer = @ \cup fresh(m)]],
           !.net[n] = [m \in Node |->
              net[n][m] \o IF fresh(m) = {} THEN <<>>
                           ELSE <<[type |-> "item_ids_inventory", available |-> fresh(m)]>>]])
  /\ UNCHANGED <<setup, generated, drops>>

\* n has nothing left to do for m's list.
ListDone(p) ==
  p.ids_of_items_to_get = <<>> /\ p.unfetched = 0 /\ p.being_processed = {}

\* b, first on the lists of some peers, is taken off them.
PopFront(s, n, b) ==
  [s EXCEPT !.peer[n] = [m \in Node |->
     LET p == s.peer[n][m]
     IN  IF p.conn = "active" /\ p.ids_of_items_to_get # <<>> /\ p.ids_of_items_to_get[1] = b
         THEN [p EXCEPT !.ids_of_items_to_get = Tail(@), !.being_processed = @ \cup {b}]
         ELSE p]]

\* b came in by the normal mechanism already.
AlreadyAccepted(s, n, b) ==
  LET holders == {m \in _active_connections(s, n) : b \in s.peer[n][m].being_processed}
      done == [s EXCEPT !.peer[n] = [m \in Node |->
                 [s.peer[n][m] EXCEPT !.being_processed =
                    IF m \in holders THEN @ \ {b} ELSE @]]]
  IN  FoldSet(LAMBDA m, t : fetch_next_batch_of_item_ids_from_peer(t, n, m), done,
              {m \in holders : ListDone(done.peer[n][m])})

\* Mutant: a block anywhere on a list will do.
NextOnSomeList_any(s, n, b) ==
  \E m \in _active_connections(s, n) : Contains(s.peer[n][m].ids_of_items_to_get, b)

NextOnSomeList(s, n, b) ==
  \E m \in _active_connections(s, n) :
    LET ids == s.peer[n][m].ids_of_items_to_get IN ids # <<>> /\ ids[1] = b

\* The received blocks that come first on a peer's list are handed over one
\* after the other; an accepted one ends the pass.
RECURSIVE Backlog(_, _)
Backlog(s, n) ==
  LET k == s.node[n]
      ready == SelectSeq(k.received, LAMBDA c : NextOnSomeList(s, n, c))
      b == ready[1]
      popped == PopFront(s, n, b)
      started == [popped EXCEPT !.node[n].received = RemoveFirst(@, b),
                                !.node[n].in_progress = Append(@, b)]
  IN  IF Len(k.in_progress) >= MaxAtOnce
      THEN [s EXCEPT !.node[n].suspended = @ \/ Len(k.received) >= MaxPrefetch]
      ELSE IF ready = <<>> THEN s
      ELSE IF b \in k.accepted THEN AlreadyAccepted(popped, n, b)
      ELSE Then(started, LAMBDA t : Backlog(t, n))

process_backlog_of_sync_blocks(n) ==
  /\ "backlog" \in node[n].wake
  /\ LET s == Asleep(n, "backlog")
         moved == [s EXCEPT !.node[n].suspended = FALSE,
                            !.node[n].received = Reverse(node[n].new_received) \o @,
                            !.node[n].new_received = <<>>]
     IN  Become(IF Len(node[n].in_progress) >= MaxAtOnce THEN s
                ELSE Then(Then(moved, LAMBDA t : Backlog(t, n)), LAMBDA t :
                       IF t.node[n].suspended THEN t ELSE Wake(t, n, "sync")))
  /\ UNCHANGED <<setup, generated, drops>>

\* The chain has taken (or refused) the oldest sync block handed to it.
send_sync_block_to_node_delegate(n) ==
  /\ node[n].in_progress # <<>>
  /\ LET b == Head(node[n].in_progress)
         s == [Now EXCEPT !.node[n].in_progress = Tail(@),
                          !.node[n].wake = @ \cup {"backlog"}]
         active == _active_connections(s, n)
         offered == {m \in active : b \in peer[n][m].being_processed}
         taken == [push_block(s, n, b) EXCEPT
           !.node[n].accepted = @ \cup {b},
           !.peer[n] = [m \in Node |->
              IF m \in offered THEN [peer[n][m] EXCEPT !.being_processed = @ \ {b},
                                                       !.last_seen = b]
              ELSE peer[n][m]]]
         unaware == {m \in active : /\ peer[n][m].ids_of_items_to_get = <<>>
                                    /\ peer[n][m].being_processed = {}
                                    /\ ~peer[n][m].peer_needs /\ ~peer[n][m].we_need}
         asked == Then(taken, LAMBDA t :
                    FoldSet(LAMBDA m, u : fetch_next_batch_of_item_ids_from_peer(u, n, m),
                            t, {m \in offered : ListDone(t.peer[n][m])}))
     IN  Become(IF Links_to(s, n, b)
                THEN FoldSet(LAMBDA m, t : start_synchronizing_with_peer(t, n, m),
                             asked, unaware)
                ELSE FoldSet(LAMBDA m, t : disconnect_from_peer(t, n, m), s, offered))
  /\ UNCHANGED <<setup, generated, drops>>

-----------------------------------------------------------------------------
\* A witness of n signs a block on its head, and n broadcasts it.
generate_block(n) ==
  /\ n \in setup.producers
  /\ generated < setup.blocks
  /\ LET b == Append(node[n].head, n)
     IN  Become(broadcast(push_block(Now, n, b), n, b))
  /\ generated' = generated + 1
  /\ UNCHANGED <<setup, drops>>

\* n waits for blocks of m but has no list of them and has not asked for one.
NothingToGet(p) ==
  p.we_need /\ p.item_ids_requested = {} /\ p.ids_of_items_to_get = <<>>

\* The timer gives up on a peer that owes n an answer, or that n has nothing to
\* get from for the moment.
kill_inactive_conns_loop(n, m) ==
  /\ peer[n][m].conn = "active"
  /\ ~idle(peer[n][m]) \/ NothingToGet(peer[n][m])
  /\ drops < setup.drops
  /\ drops' = drops + 1
  /\ Become(close_connection(Now, n, m))
  /\ UNCHANGED <<setup, generated>>

\* The same when nothing n still has to do can change that: sync has stalled,
\* and the next round of the timer closes the connection.
disconnect_stalled(n, m) ==
  /\ peer[n][m].conn = "active"
  /\ idle(peer[n][m]) /\ NothingToGet(peer[n][m])
  /\ node[n].wake = {} /\ node[n].in_progress = <<>>
  /\ Become(close_connection(Now, n, m))
  /\ UNCHANGED <<setup, generated, drops>>

\* The timer closes a connection n asked its peer to close.
terminate_closing(n, m) ==
  /\ peer[n][m].conn = "closing"
  /\ Become(close_connection(Now, n, m))
  /\ UNCHANGED <<setup, generated, drops>>

Handle(n, m) ==
  \/ on_fetch_blockchain_item_ids_message(n, m)
  \/ on_blockchain_item_ids_inventory_message(n, m)
  \/ on_fetch_items_message(n, m)
  \/ on_item_ids_inventory_message(n, m)
  \/ process_block_message(n, m)

Loops(n) ==
  \/ fetch_sync_items_loop(n)
  \/ fetch_items_loop(n)
  \/ advertise_inventory_loop(n)
  \/ process_backlog_of_sync_blocks(n)
  \/ send_sync_block_to_node_delegate(n)

Next ==
  \E n \in Node :
    \/ Loops(n)
    \/ generate_block(n)
    \/ \E m \in Node \ {n} :
         \/ Handle(n, m)
         \/ on_address_message(n, m)
         \/ kill_inactive_conns_loop(n, m)
         \/ disconnect_stalled(n, m)
         \/ terminate_closing(n, m)

\* The nodes' own work: all of it is waiting to be done, and is done.
Work ==
  \E n \in Node :
    \/ Loops(n)
    \/ \E m \in Node \ {n} :
         \/ Handle(n, m)
         \/ on_address_message(n, m)
         \/ disconnect_stalled(n, m)
         \/ terminate_closing(n, m)

Spec == Init /\ [][Next]_vars /\ WF_vars(Work)

-----------------------------------------------------------------------------
\* A block asked for while syncing is asked of exactly one connected peer, and
\* no block counts as asked for once that peer is gone: otherwise nobody would
\* ask for it again (_active_sync_requests against the peers'
\* sync_items_requested_from_peer, through replies, drops and disconnects).
RequestsOwned ==
  \A n \in Node :
    /\ node[n].active_sync_requests = UNION {peer[n][m].sync_items_requested : m \in Node}
    /\ \A m, o \in Node :
         m # o => peer[n][m].sync_items_requested \cap peer[n][o].sync_items_requested = {}

\* However the answers of several peers interleave, a sync block handed to the
\* chain finds its predecessor there or handed over before it
\* (process_backlog_of_sync_blocks; the chain refuses it otherwise, and the
\* peer that sent it is disconnected).
HandedInOrder ==
  \A n \in Node : \A i \in DOMAIN node[n].in_progress :
    \/ Front(node[n].in_progress[i]) \in node[n].known
    \/ \E j \in 1..(i - 1) : node[n].in_progress[j] = Front(node[n].in_progress[i])

OneLink == Cardinality(setup.links) = 1

\* Two nodes that follow the protocol never disconnect each other for a reply
\* that was not asked for, a list that builds on nothing in the synopsis or a
\* block that does not link, whatever both produce meanwhile and whenever the
\* connection drops.
HonestPeersKept == OneLink => \A n, m \in Node : peer[n][m].conn # "closing"

\* A received block that comes first on a peer's list does not wait for ever:
\* process_backlog_of_sync_blocks goes through the received blocks until none
\* of them is the next one of any peer.
BacklogServed ==
  \A n \in Node :
    []<>(\A k \in DOMAIN node[n].received : ~NextOnSomeList(Now, n, node[n].received[k]))

ListsServed ==
  []<>(\A n, m \in Node : peer[n][m].ids_of_items_to_get = <<>>)

\* Two connected nodes that work off the lists of blocks they get end with
\* chains of the same length and both know it: neither goes on waiting for
\* blocks of the other, so both advertise what they produce (the sync check
\* after the last block of a list, the restart of synchronisation when a block
\* does not link, the timer that closes a connection whose sync has stalled).
PeersConverge ==
  OneLink /\ ListsServed =>
    <>[](\A n, m \in Node : peer[n][m].conn = "active" =>
           /\ Len(node[n].head) = Len(node[m].head)
           /\ ~peer[n][m].we_need /\ ~peer[n][m].peer_needs)

=============================================================================
