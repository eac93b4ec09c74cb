-------------------------------- MODULE Trie --------------------------------
(***************************************************************************)
(* The Merkle Patricia trie of mpt/trie.go.                                *)
(*                                                                         *)
(* A node is a leaf, an extension or a branch, or NoNode (nil).  The code  *)
(* changes nodes in place; a node has one parent and no other holder, so   *)
(* here insert and delete return the changed node.  Byte slices are        *)
(* values: the one append that may write into a shared array, in delete,   *)
(* writes below a prefix what the only path left below it already reads.   *)
(*                                                                         *)
(* map, seen and shrunk are history: what a map would hold after the same  *)
(* calls, the keys ever inserted, and whether Delete was ever called.      *)
(***************************************************************************)
EXTENDS Integers, SequencesExt

CONSTANTS
  Keys,      \* byte strings: sequences over 0..(Radix^2 - 1)
  Deletable, \* bound: the keys that are ever deleted
  Values,
  Radix,     \* values of a nibble (16 in the code)
  NotFound   \* Get's error

ASSUME TrieAssumption ==
  /\ Radix \in Nat \ {0}
  /\ \A key \in Keys : key \in Seq(0..(Radix * Radix - 1))
  /\ Deletable \subseteq Keys /\ NotFound \notin Values

VARIABLES
  root,    \* t.root
  result,  \* how the last call ended
  map, seen, shrunk

vars == <<root, result, map, seen, shrunk>>

-----------------------------------------------------------------------------
(* Nodes.                                                                  *)

\* The nil node.
NoNode == [type |-> "nil"]

Leaf(key, value) == [type |-> "leaf", Key |-> key, Value |-> value]

Extension(shared, next) == [type |-> "extension", Shared |-> shared, Next |-> next]

Branch(children) == [type |-> "branch", Children |-> children]

\* The slot of a branch's own value (Children[16]).
Own == Radix

NoChildren == [i \in 0..Radix |-> NoNode]

IsA(node, type) == node.type = type

keyToHex(key) ==
  [i \in 1..(2 * Len(key)) |->
     IF i % 2 = 1 THEN key[(i + 1) \div 2] \div Radix ELSE key[i \div 2] % Radix]

\* What is left of key after its first n nibbles.
From(key, n) == SubSeq(key, n + 1, Len(key))

\* Where the loop over both ends: at an end or at the first difference.
sharedPrefix(s, t) ==
  CHOOSE n \in 0..Len(s) :
    /\ n <= Len(t)
    /\ \A i \in 1..n : s[i] = t[i]
    /\ n < Len(s) /\ n < Len(t) => s[n + 1] # t[n + 1]

\* The outcome of storing the root.
StoreNode(put) == IF put THEN "inserted" ELSE "put failed"

-----------------------------------------------------------------------------
(* The way down.  Get, insert and delete go from a node to the one below   *)
(* it in the same way: a position is a node and what is left of the key.   *)

At(node, key) == [node |-> node, key |-> key]

Descends(at) ==
  \/ IsA(at.node, "branch") /\ at.key # <<>>
  \/ IsA(at.node, "extension") /\ IsPrefix(at.node.Shared, at.key)

Down(at) ==
  IF IsA(at.node, "branch")
    THEN At(at.node.Children[at.key[1]], From(at.key, 1))
    ELSE At(at.node.Next, From(at.key, Len(at.node.Shared)))

\* Every step down takes a nibble of the key or more, so the last position is
\* where the way ends.
Path(node, key) ==
  LET at[i \in 0..Len(key)] ==
        IF i = 0 THEN At(node, key)
        ELSE IF Descends(at[i - 1]) THEN Down(at[i - 1])
        ELSE at[i - 1]
  IN  at

-----------------------------------------------------------------------------
(* Get.                                                                    *)

\* Mutant: the rest of the key is not compared.
LeafValueUnchecked(leaf, key) == leaf.Value

LeafValue(leaf, key) == IF key = leaf.Key THEN leaf.Value ELSE NotFound

\* What Get says where its loop ends.
Answer(at) ==
  CASE IsA(at.node, "leaf") -> LeafValue(at.node, at.key)
    [] IsA(at.node, "branch") /\ IsA(at.node.Children[Own], "leaf") ->
         at.node.Children[Own].Value
    [] OTHER -> NotFound

GetFrom(node, key) == Answer(Path(node, key)[Len(key)])

Get(key) == GetFrom(root, keyToHex(key))

-----------------------------------------------------------------------------
(* Insert.                                                                 *)

\* Mutant: the nibble that chose the child stays in the leaf's key.
PlaceUnshifted(children, key, p, value) ==
  IF p + 1 < Len(key)
    THEN [children EXCEPT ![key[p + 1]] = Leaf(From(key, p), value)]
    ELSE [children EXCEPT ![Own] = Leaf(<<>>, value)]

\* Put a value into a new branch below the first p nibbles of its key.  A key
\* with exactly one nibble left is put into the branch's own slot.
Place(children, key, p, value) ==
  IF p + 1 < Len(key)
    THEN [children EXCEPT ![key[p + 1]] = Leaf(From(key, p + 1), value)]
    ELSE [children EXCEPT ![Own] = Leaf(<<>>, value)]

\* A branch below a common prefix.
Below(prefix, children) ==
  IF prefix = <<>> THEN Branch(children) ELSE Extension(prefix, Branch(children))

SplitExtension(node, key, value) ==
  LET p    == sharedPrefix(key, node.Shared)
      rest == From(node.Shared, p + 1)
      old  == [NoChildren EXCEPT ![node.Shared[p + 1]] =
                 IF rest = <<>> THEN node.Next ELSE Extension(rest, node.Next)]
  IN  Below(SubSeq(node.Shared, 1, p), Place(old, key, p, value))

\* Mutant: the value stays.
UpdateNothing(leaf, value) == leaf

Update(leaf, value) == [leaf EXCEPT !.Value = value]

SplitLeaf(node, key, value) ==
  LET p   == sharedPrefix(key, node.Key)
      old == IF p = Len(node.Key) THEN [NoChildren EXCEPT ![Own] = node]
             ELSE Place(NoChildren, node.Key, p, node.Value)
  IN  IF key = node.Key THEN Update(node, value)
      ELSE Below(SubSeq(key, 1, p), Place(old, key, p, value))

\* What insert makes of the node where its recursion ends.
PutAt(at, value) ==
  CASE at.node = NoNode -> Leaf(at.key, value)
    [] IsA(at.node, "branch") ->
         Branch([at.node.Children EXCEPT ![Own] = Leaf(<<>>, value)])
    [] IsA(at.node, "extension") -> SplitExtension(at.node, at.key, value)
    [] IsA(at.node, "leaf") -> SplitLeaf(at.node, at.key, value)

\* A node on the way with a new node below.
WithBelow(at, new) ==
  IF IsA(at.node, "branch")
    THEN Branch([at.node.Children EXCEPT ![at.key[1]] = new])
    ELSE Extension(at.node.Shared, new)

insert(node, key, value) ==
  LET at == Path(node, key)
      new[i \in 0..Len(key)] ==
        IF Descends(at[i]) THEN WithBelow(at[i], new[i + 1]) ELSE PutAt(at[i], value)
  IN  new[0]

-----------------------------------------------------------------------------
(* Delete.  delete returns the new node and whether it deleted anything.   *)

\* An extension whose successor has changed.
Rejoin(shared, next) ==
  CASE next = NoNode -> NoNode
    [] IsA(next, "extension") -> Extension(shared \o next.Shared, next.Next)
    [] IsA(next, "leaf") -> Extension(shared \o next.Key, next)
    [] IsA(next, "branch") -> Extension(shared, next)

\* Mutant: a last child loses its nibble.
CollapseUnprefixed(children) ==
  LET Full == {i \in 0..Radix : children[i] # NoNode}
      last == CHOOSE i \in Full : \A j \in Full : j <= i
      c    == children[last]
  IN  CASE Full = {} -> NoNode
        [] Full # {} /\ Full # {last} -> Branch(children)
        [] Full = {Own} -> Leaf(<<>>, c.Value)
        [] OTHER -> c

\* A branch one of whose children has changed: with no child it goes, and its
\* only child takes its place.
Collapse(children) ==
  LET Full == {i \in 0..Radix : children[i] # NoNode}
      last == CHOOSE i \in Full : \A j \in Full : j <= i
      c    == children[last]
  IN  CASE Full = {} -> NoNode
        [] Full # {} /\ Full # {last} -> Branch(children)
        [] Full = {Own} -> IF IsA(c, "leaf") THEN Leaf(<<>>, c.Value) ELSE c
        [] OTHER ->
             CASE IsA(c, "leaf") -> Leaf(<<last>> \o c.Key, c.Value)
               [] IsA(c, "extension") -> Extension(<<last>> \o c.Shared, c.Next)
               [] IsA(c, "branch") -> Extension(<<last>>, c)

WithoutOwn(children) == [children EXCEPT ![Own] = NoNode]

\* Where the recursion ends.  A branch loses its own value, there or not.
DeleteAt(at) ==
  CASE IsA(at.node, "leaf") /\ at.node.Key = at.key -> <<NoNode, TRUE>>
    [] IsA(at.node, "branch") -> <<Collapse(WithoutOwn(at.node.Children)), TRUE>>
    [] OTHER -> <<at.node, FALSE>>

\* A node on the way after the deletion below it.
Shrunk(at, below) ==
  CASE ~below[2] -> <<at.node, FALSE>>
    [] below[2] /\ IsA(at.node, "branch") ->
         <<Collapse([at.node.Children EXCEPT ![at.key[1]] = below[1]]), TRUE>>
    [] below[2] /\ ~IsA(at.node, "branch") -> <<Rejoin(at.node.Shared, below[1]), TRUE>>

delete(node, key) ==
  LET at == Path(node, key)
      new[i \in 0..Len(key)] ==
        IF Descends(at[i]) THEN Shrunk(at[i], new[i + 1]) ELSE DeleteAt(at[i])
  IN  new[0]

-----------------------------------------------------------------------------
(* The trie's operations.                                                  *)

Assigned(f, key, value) ==
  [k \in DOMAIN f \union {key} |-> IF k = key THEN value ELSE f[k]]

\* The changed root is put in the store under its hash; when that fails, Insert
\* returns the error and the trie has the key all the same.
Insert(key, value, put) ==
  /\ map' = Assigned(map, key, value) /\ seen' = seen \union {key} /\ UNCHANGED shrunk
  /\ result' = StoreNode(put)
  /\ root' = insert(root, keyToHex(key), value)

\* Delete does not store the new root.
Delete(key) ==
  /\ map' = [k \in DOMAIN map \ {key} |-> map[k]] /\ shrunk' = TRUE /\ UNCHANGED seen
  /\ LET new == delete(root, keyToHex(key))
     IN  /\ root' = new[1]
         /\ result' = IF new[2] THEN "deleted" ELSE "not found"

Init ==
  /\ root = NoNode
  /\ result = "new"
  /\ map = <<>>
  /\ seen = {}
  /\ shrunk = FALSE

Next ==
  \/ \E key \in Keys, value \in Values, put \in BOOLEAN : Insert(key, value, put)
  \/ \E key \in Deletable : Delete(key)

Spec == Init /\ [][Next]_vars

-----------------------------------------------------------------------------
(* Properties.                                                             *)

\* The two keys part before the last nibble of either, or one ends where the
\* other goes on.
Apart(k, l) ==
  LET p == sharedPrefix(keyToHex(k), keyToHex(l))
  IN  p + 1 # 2 * Len(k) /\ p + 1 # 2 * Len(l)

Separable(S) == \A k, l \in S : k # l => Apart(k, l)

\* No two keys begin with the same nibble.
Disjoint(S) == \A k, l \in S : k # l => sharedPrefix(keyToHex(k), keyToHex(l)) = 0

\* Get answers as a map would.
TrieIsMap == \A k \in Keys : Get(k) = IF k \in DOMAIN map THEN map[k] ELSE NotFound

\* While nothing is deleted and no two keys part at a last nibble, the trie is a
\* map, in whatever order keys are inserted and overwritten.
SeparableIsMap == ~shrunk /\ Separable(seen) => TrieIsMap

\* Keys that share no prefix are safe from Delete as well: the trie is a map.
DisjointIsMap == Disjoint(seen) => TrieIsMap

\* Without Delete, Get may miss a key but never answers with a value other than
\* the key's own.
NoWrongValue ==
  ~shrunk => \A k \in Keys : Get(k) # NotFound => k \in DOMAIN map /\ Get(k) = map[k]

\* What Get answers for every key, were node the root.
Readings(node) == [k \in Keys |-> GetFrom(node, keyToHex(k))]

\* A call on k that made such answers from those before may have lost other keys,
\* but has put no other value in the place of one that was found.
OnlyLost(before, after, k) ==
  \A l \in Keys \ {k} : before[l] # NotFound => after[l] \in {before[l], NotFound}

\* After the deletion of k Get(k) finds nothing and other keys are lost at most; a
\* deletion that reports a missing key has changed nothing.
DeletesOnly(before, k) ==
  LET new   == delete(root, keyToHex(k))
      after == Readings(new[1])
  IN  after[k] = NotFound /\ OnlyLost(before, after, k) /\ (~new[2] => new[1] = root)

\* Writing a key that Get finds changes that key's value and no other answer.
\* Writing another may lose it, and others, but puts no wrong value in its place.
WritesOnly(before, k, v) ==
  LET after == Readings(insert(root, keyToHex(k), v))
  IN  IF before[k] # NotFound THEN after = [before EXCEPT ![k] = v]
      ELSE after[k] \in {v, NotFound} /\ OnlyLost(before, after, k)

\* Whatever was inserted and deleted before, in a trie that has misplaced keys
\* too, the next call on a key is of no other harm than this: of the other keys
\* that Get finds it loses some, it gives none another value, and it loses none
\* when it overwrites a key that Get finds or reports a key to be missing.
\* Nothing is said of the keys that Get does not find before the call: a deletion
\* can make an answer appear for one of them.
DamageStaysLocal ==
  LET before == Readings(root)
  IN  \A k \in Keys : DeletesOnly(before, k) /\ \A v \in Values : WritesOnly(before, k, v)

\* trie.go: delete merges the paths of an extension and its successor, so keys
\* that insertion keeps apart stay readable when others are deleted.
DeleteKeepsOthers == Separable(seen) => TrieIsMap
=============================================================================
