----------------------------- MODULE MCPeerSync -----------------------------
(* Instances of PeerSync.                                                  *)
EXTENDS PeerSync, TLC

CONSTANTS na, nb, nc, w

Chain(k) == [i \in 1..k |-> w]

Network(l, h, p, bs, ds) ==
  [links |-> l, heads |-> h, producers |-> p, blocks |-> bs, drops |-> ds]

Both == {<<na, nb>>, <<na, nc>>}

\* na, behind nb, joins it; both produce.
Forking == Network({<<na, nb>>}, na :> Chain(1) @@ nb :> Chain(2) @@ nc :> <<>>, {na, nb}, 2, 0)

\* na, far behind nb, joins it; the connection may be given up.
Dropping == Network({<<na, nb>>}, na :> Chain(1) @@ nb :> Chain(4) @@ nc :> <<>>, {nb}, 0, 1)

\* The same, while one of them produces a block.
Busy == Network({<<na, nb>>}, na :> Chain(1) @@ nb :> Chain(2) @@ nc :> <<>>, {na, nb}, 1, 1)

\* na, with no block at all, joins nb.
Fresh == Network({<<na, nb>>}, na :> <<>> @@ nb :> Chain(5) @@ nc :> <<>>, {nb}, 1, 0)

\* na syncs with two peers that are not equally far.
Two == Network(Both, na :> Chain(1) @@ nb :> Chain(3) @@ nc :> Chain(2), {}, 0, 0)

\* na syncs with two peers on different branches.
Branches == Network(Both, na :> Chain(1) @@ nb :> <<w, w, nb>> @@ nc :> <<w, nc>>, {}, 0, 0)

\* na syncs with nc and passes on to nb what nc produces meanwhile.
Relay == Network(Both, na :> Chain(1) @@ nb :> Chain(1) @@ nc :> Chain(2), {nc}, 1, 0)

MCSetups == {Forking, Dropping, Busy, Fresh, Two, Branches, Relay}
TwoOnly == {Two}

=============================================================================
