---------------------------- MODULE MCCmpClient ----------------------------
(***************************************************************************)
(* An instance of CmpClient for TLC: blocks of 8 octets with a bit count   *)
(* of 2, digests of 2, and messages of every length around a block's end.  *)
(***************************************************************************)
EXTENDS CmpClient

Mixed[state \in Nat, block \in Seq(Octets)] ==
  FoldLeft(LAMBDA a, b : (a * 31 + b + 7) % 65521, state, block)
MCCompress(state, block) == Mixed[state, block]

MCPassword == <<48, 48>>
MCSalt == <<0, 1, 2>>

MCHeaders == {[octets |-> <<1, 0>>, peak |-> 2, valid |-> TRUE],
              [octets |-> <<1, 1, 9>>, peak |-> 7, valid |-> TRUE]}

MCBodies ==
  {[octets |-> [i \in 1 .. n |-> i], peak |-> n + 2, valid |-> TRUE] : n \in 1 .. 10}
    \union {[octets |-> <<7, 7>>, peak |-> 2, valid |-> FALSE]}

Head1 == <<72, 13, 10, 13, 10>>
MCResponses ==
  {[head |-> Head1, body |-> <<48, 2, 5, 0>>, message |-> TRUE],
   [head |-> Head1, body |-> <<48, 0>>, message |-> FALSE],
   [head |-> Head1, body |-> <<60, 72>>, message |-> FALSE],
   [head |-> Head1, body |-> <<>>, message |-> FALSE],
   [head |-> Head1, body |-> <<48, 8, 5, 0, 5, 0, 5, 0, 5, 0>>, message |-> TRUE],
   [head |-> Head1, body |-> <<48, 129, 128>> \o Zeros(128), message |-> TRUE],
   [head |-> Head1, body |-> <<48, 129, 131>> \o Zeros(131), message |-> TRUE]}
=============================================================================
