------------------------------- MODULE MCPubSub -------------------------------
(* PubSub for TLC: a message of data_size bytes and an empty one, which    *)
(* recv() cannot tell from a timeout.                                      *)
EXTENDS PubSub, TLC

\* The network keeps the order and may repeat, or repeats nothing and may
\* reorder.
MCNets == {[ordered |-> TRUE, once |-> FALSE], [ordered |-> FALSE, once |-> TRUE]}

\* The callbacks of a subscriber are its own affair: one has up to two.
CONSTANT Listener
MCMaxCallbacks == [s \in Sub |-> IF s = Listener THEN 2 ELSE 0]

MCData == {<<7>>, <<>>}
=============================================================================
