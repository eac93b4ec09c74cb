------------------------------- MODULE MCTrie -------------------------------
(* Instances of Trie for TLC.                                                *)
EXTENDS Trie, TLC

\* With nibbles 0 and 1: keys that go on after another, keys that part at the
\* first, an inner and the last nibble.
ManyKeys == { <<>>, <<0>>, <<1>>, <<3>>, <<0, 0>>, <<0, 2>> }

FewKeys == { <<>>, <<1>>, <<0, 2>> }

SomeKeys == { <<>>, <<0>>, <<1>>, <<3>>, <<0, 2>> }

ValueSymmetry == Permutations(Values)
=============================================================================
