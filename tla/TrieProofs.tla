------------------------------ MODULE TrieProofs ------------------------------
(***************************************************************************)
(* What is proved of the trie, for all keys, values and radices.           *)
(***************************************************************************)
EXTENDS Trie, Numbers

Nibbles == 0..(Radix - 1)

Hex == Seq(Nibbles)

\* The slots of a branch.
LEMMA Slots ==
  /\ Radix \in Nat /\ Radix # 0
  /\ Nibbles \subseteq 0..Radix /\ Own \in 0..Radix /\ Own \notin Nibbles
  /\ \A i \in 0..Radix : i = Own \/ i \in Nibbles
<1>1. Radix \in Nat /\ Radix # 0
  BY TrieAssumption
<1> QED
  BY <1>1 DEF Nibbles, Own

-----------------------------------------------------------------------------
(* Keys.                                                                   *)

\* A key with nibbles left is its first nibble and the rest.
LEMMA HexLength ==
  ASSUME NEW key \in Hex
  PROVE  /\ Len(key) \in Nat
         /\ key = <<>> <=> Len(key) = 0
         /\ \A i \in 1..Len(key) : key[i] \in Nibbles
<1>1. Len(key) \in Nat /\ \A i \in 1..Len(key) : key[i] \in Nibbles
  BY LenProperties, ElementOfSeq DEF Hex
<1>2. key # <<>> => Len(key) # 0
  BY EmptySeq DEF Hex
<1> QED
  BY <1>1, <1>2

LEMMA NibbleAt ==
  ASSUME NEW key \in Hex, NEW n \in Nat, n < Len(key)
  PROVE  key[n + 1] \in Nibbles /\ key[n + 1] \in 0..Radix /\ key[n + 1] # Own
<1>1. n + 1 \in 1..Len(key)
  BY HexLength
<1>2. key[n + 1] \in Nibbles
  BY <1>1, HexLength
<1> QED
  BY <1>2, Slots

\* Keys with the same nibbles are the same.
LEMMA HexEqual ==
  ASSUME NEW s \in Hex, NEW t \in Hex, Len(s) = Len(t), \A i \in 1..Len(s) : s[i] = t[i]
  PROVE  s = t
BY SeqEqual DEF Hex

\* What is left after n nibbles.
LEMMA FromIs ==
  ASSUME NEW key \in Hex, NEW n \in 0..Len(key)
  PROVE  /\ From(key, n) \in Hex
         /\ Len(From(key, n)) = Len(key) - n
         /\ \A i \in 1..(Len(key) - n) : From(key, n)[i] = key[n + i]
<1>1. Len(key) \in Nat /\ n \in Nat /\ n <= Len(key)
  BY HexLength
<1>2. \A i \in (n + 1)..Len(key) : key[i] \in Nibbles
  BY <1>1, HexLength
<1>3. /\ SubSeq(key, n + 1, Len(key)) \in Seq(Nibbles)
      /\ Len(SubSeq(key, n + 1, Len(key)))
           = IF n + 1 <= Len(key) THEN Len(key) - (n + 1) + 1 ELSE 0
      /\ \A i \in 1..(Len(key) - (n + 1) + 1) :
           SubSeq(key, n + 1, Len(key))[i] = key[(n + 1) + i - 1]
  BY <1>1, <1>2, SubSeqProperties
<1>4. Len(From(key, n)) = Len(key) - n
  BY <1>1, <1>3 DEF From
<1>5. ASSUME NEW i \in 1..(Len(key) - n) PROVE From(key, n)[i] = key[n + i]
  <2>1. i \in 1..(Len(key) - (n + 1) + 1) /\ (n + 1) + i - 1 = n + i
    BY <1>1
  <2> QED
    BY <1>3, <2>1 DEF From
<1> QED
  BY <1>3, <1>4, <1>5 DEF From, Hex

\* The first n nibbles.
LEMMA UpToIs ==
  ASSUME NEW key \in Hex, NEW n \in 0..Len(key)
  PROVE  /\ SubSeq(key, 1, n) \in Hex
         /\ Len(SubSeq(key, 1, n)) = n
         /\ \A i \in 1..n : SubSeq(key, 1, n)[i] = key[i]
<1>1. Len(key) \in Nat /\ n \in Nat /\ n <= Len(key)
  BY HexLength
<1>2. \A i \in 1..n : key[i] \in Nibbles
  BY <1>1, HexLength
<1>3. /\ SubSeq(key, 1, n) \in Seq(Nibbles)
      /\ Len(SubSeq(key, 1, n)) = IF 1 <= n THEN n - 1 + 1 ELSE 0
      /\ \A i \in 1..(n - 1 + 1) : SubSeq(key, 1, n)[i] = key[1 + i - 1]
  BY <1>1, <1>2, SubSeqProperties
<1>4. ASSUME NEW i \in 1..n PROVE SubSeq(key, 1, n)[i] = key[i]
  <2>1. i \in 1..(n - 1 + 1) /\ 1 + i - 1 = i
    BY <1>1
  <2> QED
    BY <1>3, <2>1
<1> QED
  BY <1>1, <1>3, <1>4 DEF Hex

\* One key is a prefix of another when its nibbles begin it.
LEMMA PrefixIs ==
  ASSUME NEW s \in Hex, NEW t \in Hex
  PROVE  IsPrefix(s, t) <=> Len(s) <= Len(t) /\ \A i \in 1..Len(s) : s[i] = t[i]
<1>1. Len(s) \in Nat /\ Len(t) \in Nat
  BY HexLength
<1>2. CASE Len(s) <= Len(t)
  <2>1. Len(s) \in 0..Len(s) /\ Len(s) \in 0..Len(t)
    BY <1>1, <1>2
  <2>2. /\ SubSeq(s, 1, Len(s)) \in Hex /\ SubSeq(t, 1, Len(s)) \in Hex
        /\ Len(SubSeq(s, 1, Len(s))) = Len(s) /\ Len(SubSeq(t, 1, Len(s))) = Len(s)
        /\ \A i \in 1..Len(s) : SubSeq(s, 1, Len(s))[i] = s[i]
        /\ \A i \in 1..Len(s) : SubSeq(t, 1, Len(s))[i] = t[i]
    BY <2>1, UpToIs
  <2>3. ASSUME \A i \in 1..Len(s) : s[i] = t[i]
        PROVE  SubSeq(s, 1, Len(s)) = SubSeq(t, 1, Len(s))
    BY <2>2, <2>3, HexEqual
  <2>4. ASSUME SubSeq(s, 1, Len(s)) = SubSeq(t, 1, Len(s)), NEW i \in 1..Len(s)
        PROVE  s[i] = t[i]
    BY <2>2, <2>4
  <2> QED
    BY <1>2, <2>3, <2>4 DEF IsPrefix
<1>3. CASE ~(Len(s) <= Len(t))
  BY <1>3 DEF IsPrefix
<1> QED
  BY <1>2, <1>3

\* Keys that agree on n nibbles are equal when the rests are.
LEMMA SameRest ==
  ASSUME NEW s \in Hex, NEW t \in Hex, NEW n \in Nat, n <= Len(s), n <= Len(t),
         \A i \in 1..n : s[i] = t[i]
  PROVE  s = t <=> From(s, n) = From(t, n)
<1>1. Len(s) \in Nat /\ Len(t) \in Nat /\ n \in 0..Len(s) /\ n \in 0..Len(t)
  BY HexLength
<1>2. /\ Len(From(s, n)) = Len(s) - n /\ Len(From(t, n)) = Len(t) - n
      /\ \A i \in 1..(Len(s) - n) : From(s, n)[i] = s[n + i]
      /\ \A i \in 1..(Len(t) - n) : From(t, n)[i] = t[n + i]
  BY <1>1, FromIs
<1>3. ASSUME From(s, n) = From(t, n) PROVE s = t
  <2>1. Len(s) = Len(t)
    BY <1>1, <1>2, <1>3
  <2>2. ASSUME NEW i \in 1..Len(s) PROVE s[i] = t[i]
    <3>1. CASE i <= n
      BY <3>1
    <3>2. CASE ~(i <= n)
      <4>1. i - n \in 1..(Len(s) - n) /\ i - n \in 1..(Len(t) - n) /\ n + (i - n) = i
        BY <1>1, <2>1, <3>2
      <4> QED
        BY <1>2, <1>3, <4>1
    <3> QED
      BY <3>1, <3>2
  <2> QED
    BY <2>1, <2>2, HexEqual
<1> QED
  BY <1>3

\* A prefix and the rest put together.
LEMMA Joined ==
  ASSUME NEW s \in Hex, NEW t \in Hex
  PROVE  /\ s \o t \in Hex /\ Len(s \o t) = Len(s) + Len(t)
         /\ IsPrefix(s, s \o t) /\ From(s \o t, Len(s)) = t
<1>1. Len(s) \in Nat /\ Len(t) \in Nat
  BY HexLength
<1>2. /\ s \o t \in Hex /\ Len(s \o t) = Len(s) + Len(t)
      /\ \A i \in 1..(Len(s) + Len(t)) :
           (s \o t)[i] = IF i <= Len(s) THEN s[i] ELSE t[i - Len(s)]
  BY ConcatProperties DEF Hex
<1>3. IsPrefix(s, s \o t)
  <2>1. Len(s) <= Len(s \o t) /\ \A i \in 1..Len(s) : s[i] = (s \o t)[i]
    BY <1>1, <1>2
  <2> QED
    BY <1>2, <2>1, PrefixIs
<1>4. Len(s) \in 0..Len(s \o t)
  BY <1>1, <1>2
<1>5. /\ From(s \o t, Len(s)) \in Hex /\ Len(From(s \o t, Len(s))) = Len(t)
      /\ \A i \in 1..Len(t) : From(s \o t, Len(s))[i] = (s \o t)[Len(s) + i]
  <2>1. Len(s \o t) - Len(s) = Len(t)
    BY <1>1, <1>2
  <2> QED
    BY <1>2, <1>4, <2>1, FromIs
<1>6. ASSUME NEW i \in 1..Len(t) PROVE From(s \o t, Len(s))[i] = t[i]
  <2>1. Len(s) + i \in 1..(Len(s) + Len(t)) /\ ~(Len(s) + i <= Len(s)) /\ Len(s) + i - Len(s) = i
    BY <1>1
  <2> QED
    BY <1>2, <1>5, <2>1
<1>7. From(s \o t, Len(s)) = t
  BY <1>5, <1>6, HexEqual
<1> QED
  BY <1>2, <1>3, <1>7

\* A key that begins with s is s and the rest.
LEMMA Parted ==
  ASSUME NEW s \in Hex, NEW t \in Hex, IsPrefix(s, t)
  PROVE  /\ Len(s) \in 0..Len(t) /\ From(t, Len(s)) \in Hex
         /\ Len(From(t, Len(s))) = Len(t) - Len(s)
         /\ t = s \o From(t, Len(s))
<1>1. Len(s) \in 0..Len(t)
  BY PrefixIs, HexLength
<1>2. From(t, Len(s)) \in Hex /\ Len(From(t, Len(s))) = Len(t) - Len(s)
  BY <1>1, FromIs
<1> DEFINE u == s \o From(t, Len(s))
<1>3. u \in Hex /\ Len(u) = Len(s) + Len(From(t, Len(s))) /\ IsPrefix(s, u) /\ From(u, Len(s)) = From(t, Len(s))
  BY <1>2, Joined
<1>4. Len(s) \in Nat /\ Len(t) \in Nat /\ Len(s) <= Len(t) /\ Len(u) = Len(t)
  BY <1>1, <1>2, <1>3, HexLength
<1>5. \A i \in 1..Len(s) : u[i] = t[i]
  BY <1>3, PrefixIs
<1> HIDE DEF u
<1>6. u = t
  BY <1>3, <1>4, <1>5, SameRest
<1> QED
  BY <1>1, <1>2, <1>6 DEF u

\* The first nibble as a prefix.
LEMMA FirstNibble ==
  ASSUME NEW key \in Hex
  PROVE  /\ \A i \in Nibbles : /\ <<i>> \in Hex /\ Len(<<i>>) = 1 /\ <<i>>[1] = i
                               /\ IsPrefix(<<i>>, key) <=> key # <<>> /\ key[1] = i
                               /\ <<i>> \o key \in Hex /\ <<i>> \o key # <<>>
                               /\ Len(<<i>> \o key) = 1 + Len(key)
                               /\ (<<i>> \o key)[1] = i /\ From(<<i>> \o key, 1) = key
         /\ key # <<>> => /\ key[1] \in Nibbles /\ From(key, 1) \in Hex
                          /\ Len(From(key, 1)) = Len(key) - 1
                          /\ key = <<key[1]>> \o From(key, 1)
<1>1. ASSUME NEW i \in Nibbles
      PROVE  /\ <<i>> \in Hex /\ Len(<<i>>) = 1 /\ <<i>>[1] = i
             /\ IsPrefix(<<i>>, key) <=> key # <<>> /\ key[1] = i
             /\ <<i>> \o key \in Hex /\ <<i>> \o key # <<>>
             /\ Len(<<i>> \o key) = 1 + Len(key)
             /\ (<<i>> \o key)[1] = i /\ From(<<i>> \o key, 1) = key
  <2>1. <<i>> \in Hex /\ Len(<<i>>) = 1 /\ <<i>>[1] = i
    BY DEF Hex
  <2>2. IsPrefix(<<i>>, key) <=> key # <<>> /\ key[1] = i
    <3>1. Len(key) \in Nat /\ (key = <<>> <=> Len(key) = 0)
      BY HexLength
    <3>2. IsPrefix(<<i>>, key) <=> Len(<<i>>) <= Len(key) /\ \A j \in 1..Len(<<i>>) : <<i>>[j] = key[j]
      BY <2>1, PrefixIs
    <3> QED
      BY <2>1, <3>1, <3>2
  <2>3. /\ <<i>> \o key \in Hex /\ Len(<<i>> \o key) = 1 + Len(key)
        /\ IsPrefix(<<i>>, <<i>> \o key) /\ From(<<i>> \o key, 1) = key
    BY <2>1, Joined
  <2>4. Len(<<i>> \o key) # 0 /\ <<i>> \o key # <<>>
    BY <2>3, HexLength
  <2>5. (<<i>> \o key)[1] = <<i>>[1]
    BY <2>1, <2>3, PrefixIs
  <2> QED
    BY <2>1, <2>2, <2>3, <2>4, <2>5
<1>2. ASSUME key # <<>>
      PROVE  /\ key[1] \in Nibbles /\ From(key, 1) \in Hex
             /\ Len(From(key, 1)) = Len(key) - 1
             /\ key = <<key[1]>> \o From(key, 1)
  <2>1. key[1] \in Nibbles
    BY <1>2, HexLength
  <2>2. <<key[1]>> \in Hex /\ Len(<<key[1]>>) = 1 /\ IsPrefix(<<key[1]>>, key)
    BY <1>1, <1>2, <2>1
  <2> QED
    BY <2>1, <2>2, Parted
<1> QED
  BY <1>1, <1>2

-----------------------------------------------------------------------------
(* Sound nodes.  A node is sound when it is in some set that is closed     *)
(* under its members' successors and whose members all look as they        *)
(* should: no induction over a node is needed to show it of a new node, or *)
(* to use it of a node on the way down.  what names the conditions asked   *)
(* for beyond the shape:                                                   *)
(*   "crowded"  a branch has a value of its own or two children;           *)
(*   "live"     below every node there is a key that Get finds.            *)

Readable(node) == \E key \in Hex : GetFrom(node, key) # NotFound

Crowded(children) ==
  \/ children[Own] # NoNode
  \/ \E i, j \in 0..Radix : i # j /\ children[i] # NoNode /\ children[j] # NoNode

IsLeaf(node) == \E key \in Hex, value \in Values : node = Leaf(key, value)

IsExtension(node, S) ==
  \E shared \in Hex, next \in S :
    shared # <<>> /\ next # NoNode /\ node = Extension(shared, next)

IsBranch(node, S, what) ==
  \E children \in [0..Radix -> S] :
    /\ node = Branch(children)
    /\ children[Own] = NoNode \/ IsLeaf(children[Own])
    /\ "crowded" \in what => Crowded(children)

Shaped(node, S, what) ==
  \/ node = NoNode
  \/ /\ IsLeaf(node) \/ IsExtension(node, S) \/ IsBranch(node, S, what)
     /\ "live" \in what => Readable(node)

Closed(S, what) == \A node \in S : Shaped(node, S, what)

Sound(node, what) == \E S : node \in S /\ Closed(S, what)

\* Larger sets and fewer conditions.
LEMMA ShapedWidens ==
  ASSUME NEW S, NEW T, S \subseteq T, NEW what, NEW less, less \subseteq what, NEW node,
         Shaped(node, S, what)
  PROVE  Shaped(node, T, less)
<1>1. IsExtension(node, S) => IsExtension(node, T)
  BY DEF IsExtension
<1>2. ASSUME IsBranch(node, S, what) PROVE IsBranch(node, T, less)
  <2>1. PICK children \in [0..Radix -> S] :
          /\ node = Branch(children)
          /\ children[Own] = NoNode \/ IsLeaf(children[Own])
          /\ "crowded" \in what => Crowded(children)
    BY <1>2 DEF IsBranch
  <2>2. children \in [0..Radix -> T]
    BY <2>1
  <2> QED
    BY <2>1, <2>2 DEF IsBranch
<1> QED
  BY <1>1, <1>2 DEF Shaped

LEMMA SoundLess ==
  ASSUME NEW node, NEW what, NEW less, less \subseteq what, Sound(node, what)
  PROVE  Sound(node, less)
<1>1. PICK S : node \in S /\ Closed(S, what)
  BY DEF Sound
<1>2. ASSUME NEW n \in S PROVE Shaped(n, S, less)
  <2>1. Shaped(n, S, what)
    BY <1>1 DEF Closed
  <2> QED
    BY <2>1, ShapedWidens
<1> QED
  BY <1>1, <1>2 DEF Sound, Closed

\* What a sound node is.
LEMMA SoundIs ==
  ASSUME NEW node, NEW what, Sound(node, what)
  PROVE  /\ node # NoNode /\ "live" \in what => Readable(node)
         /\ \/ node = NoNode
            \/ IsLeaf(node)
            \/ \E shared \in Hex : \E next :
                 /\ shared # <<>> /\ next # NoNode
                 /\ node = Extension(shared, next) /\ Sound(next, what)
            \/ \E children :
                 /\ children = [i \in 0..Radix |-> children[i]]
                 /\ node = Branch(children)
                 /\ \A i \in 0..Radix : Sound(children[i], what)
                 /\ children[Own] = NoNode \/ IsLeaf(children[Own])
                 /\ "crowded" \in what => Crowded(children)
<1>1. PICK S : node \in S /\ Closed(S, what)
  BY DEF Sound
<1>2. \A n \in S : Sound(n, what)
  BY <1>1 DEF Sound
<1>3. Shaped(node, S, what)
  BY <1>1 DEF Closed
<1>4. ASSUME IsExtension(node, S)
      PROVE  \E shared \in Hex : \E next :
               /\ shared # <<>> /\ next # NoNode
               /\ node = Extension(shared, next) /\ Sound(next, what)
  BY <1>2, <1>4 DEF IsExtension
<1>5. ASSUME IsBranch(node, S, what)
      PROVE  \E children :
               /\ children = [i \in 0..Radix |-> children[i]]
               /\ node = Branch(children)
               /\ \A i \in 0..Radix : Sound(children[i], what)
               /\ children[Own] = NoNode \/ IsLeaf(children[Own])
               /\ "crowded" \in what => Crowded(children)
  <2>1. PICK children \in [0..Radix -> S] :
          /\ node = Branch(children)
          /\ children[Own] = NoNode \/ IsLeaf(children[Own])
          /\ "crowded" \in what => Crowded(children)
    BY <1>5 DEF IsBranch
  <2>2. children = [i \in 0..Radix |-> children[i]] /\ \A i \in 0..Radix : Sound(children[i], what)
    BY <1>2, <2>1
  <2> QED
    BY <2>1, <2>2
<1> QED
  BY <1>3, <1>4, <1>5 DEF Shaped

\* A node of the right shape above sound ones is sound.
LEMMA SoundAbove ==
  ASSUME NEW node, NEW S, NEW what, \A n \in S : Sound(n, what), Shaped(node, S, what)
  PROVE  Sound(node, what)
<1> DEFINE Home(n) == CHOOSE T : n \in T /\ Closed(T, what)
           T == (UNION {Home(n) : n \in S}) \union {node}
<1>1. ASSUME NEW n \in S PROVE n \in Home(n) /\ Closed(Home(n), what)
  BY DEF Sound
<1>2. S \subseteq T
  BY <1>1
<1>3. ASSUME NEW m \in T PROVE Shaped(m, T, what)
  <2>1. CASE m = node
    BY <1>2, <2>1, ShapedWidens
  <2>2. CASE m # node
    <3>1. PICK n \in S : m \in Home(n)
      BY <2>2
    <3>2. Closed(Home(n), what) /\ Home(n) \subseteq T
      BY <1>1
    <3>3. Shaped(m, Home(n), what)
      BY <3>1, <3>2 DEF Closed
    <3> HIDE DEF T, Home
    <3> QED
      BY <3>2, <3>3, ShapedWidens
  <2> QED
    BY <2>1, <2>2
<1>4. node \in T
  OBVIOUS
<1> HIDE DEF T
<1> QED
  BY <1>3, <1>4 DEF Sound, Closed

LEMMA SoundNil ==
  ASSUME NEW what
  PROVE  Sound(NoNode, what)
<1>1. Shaped(NoNode, {}, what)
  BY DEF Shaped
<1> QED
  BY <1>1, SoundAbove

LEMMA SoundExtension ==
  ASSUME NEW what, NEW shared \in Hex, shared # <<>>, NEW next, next # NoNode,
         Sound(next, what),
         "live" \in what => Readable(Extension(shared, next))
  PROVE  Sound(Extension(shared, next), what)
<1>1. Shaped(Extension(shared, next), {next}, what)
  BY DEF Shaped, IsExtension
<1> QED
  BY <1>1, SoundAbove

LEMMA SoundBranch ==
  ASSUME NEW what, NEW children, children = [i \in 0..Radix |-> children[i]],
         \A i \in 0..Radix : Sound(children[i], what),
         children[Own] = NoNode \/ IsLeaf(children[Own]),
         "crowded" \in what => Crowded(children),
         "live" \in what => Readable(Branch(children))
  PROVE  Sound(Branch(children), what)
<1> DEFINE S == {children[i] : i \in 0..Radix}
<1>1. children \in [0..Radix -> S] /\ \A n \in S : Sound(n, what)
  OBVIOUS
<1>2. Shaped(Branch(children), S, what)
  BY <1>1 DEF Shaped, IsBranch
<1> HIDE DEF S
<1> QED
  BY <1>1, <1>2, SoundAbove

\* What kind a node is.
LEMMA Kinds ==
  /\ ~IsA(NoNode, "leaf") /\ ~IsA(NoNode, "branch") /\ ~IsA(NoNode, "extension")
  /\ \A key, value :
       /\ Leaf(key, value) # NoNode
       /\ Leaf(key, value).Key = key /\ Leaf(key, value).Value = value
       /\ IsA(Leaf(key, value), "leaf") /\ ~IsA(Leaf(key, value), "branch")
       /\ ~IsA(Leaf(key, value), "extension")
  /\ \A shared, next :
       /\ Extension(shared, next) # NoNode
       /\ Extension(shared, next).Shared = shared /\ Extension(shared, next).Next = next
       /\ IsA(Extension(shared, next), "extension") /\ ~IsA(Extension(shared, next), "branch")
       /\ ~IsA(Extension(shared, next), "leaf")
  /\ \A children :
       /\ Branch(children) # NoNode /\ Branch(children).Children = children
       /\ IsA(Branch(children), "branch") /\ ~IsA(Branch(children), "extension")
       /\ ~IsA(Branch(children), "leaf")
<1>1. /\ NoNode.type = "nil"
      /\ \A key, value : Leaf(key, value).type = "leaf" /\ Leaf(key, value).Key = key /\ Leaf(key, value).Value = value
      /\ \A shared, next : /\ Extension(shared, next).type = "extension"
                           /\ Extension(shared, next).Shared = shared
                           /\ Extension(shared, next).Next = next
      /\ \A children : Branch(children).type = "branch" /\ Branch(children).Children = children
  BY DEF NoNode, Leaf, Extension, Branch
<1> QED
  BY <1>1 DEF IsA

\* A leaf is sound, and Get can find it.
LEMMA IsLeafIs ==
  ASSUME NEW node, IsLeaf(node)
  PROVE  /\ node.Key \in Hex /\ node.Value \in Values /\ node = Leaf(node.Key, node.Value)
         /\ IsA(node, "leaf") /\ ~IsA(node, "branch") /\ ~IsA(node, "extension") /\ node # NoNode
<1>1. PICK key \in Hex, value \in Values : node = Leaf(key, value)
  BY DEF IsLeaf
<1> QED
  BY <1>1, Kinds

-----------------------------------------------------------------------------
(* The way down.                                                           *)

Step(at) == IF Descends(at) THEN Down(at) ELSE at

Way(f, node, key, n) == f = [i \in 0..n |-> IF i = 0 THEN At(node, key) ELSE Step(f[i - 1])]

LEMMA WayExists ==
  ASSUME NEW node, NEW key, NEW n \in Nat
  PROVE  \E f : Way(f, node, key, n)
<1> DEFINE T == {m \in Nat : \E f : Way(f, node, key, m)}
<1>1. 0 \in T
  <2> DEFINE f == [i \in 0..0 |-> At(node, key)]
  <2>1. Way(f, node, key, 0)
    BY DEF Way
  <2> QED
    BY <2>1
<1>2. ASSUME NEW m \in Nat, m \in T PROVE m + 1 \in T
  <2>1. PICK f : Way(f, node, key, m)
    BY <1>2
  <2> DEFINE h == [i \in 0..(m + 1) |-> IF i = m + 1 THEN Step(f[m]) ELSE f[i]]
  <2>2. \A i \in 0..m : f[i] = IF i = 0 THEN At(node, key) ELSE Step(f[i - 1])
    BY <2>1 DEF Way
  <2>3. ASSUME NEW i \in 0..(m + 1)
        PROVE  h[i] = IF i = 0 THEN At(node, key) ELSE Step(h[i - 1])
    <3>1. CASE i = 0
      BY <2>2, <3>1
    <3>2. CASE i = m + 1
      BY <3>2
    <3>3. CASE i # 0 /\ i # m + 1
      <4>1. i \in 0..m /\ i - 1 \in 0..(m + 1) /\ i - 1 # m + 1
        BY <3>3
      <4>2. h[i] = f[i] /\ h[i - 1] = f[i - 1]
        BY <3>3, <4>1
      <4> QED
        BY <2>2, <3>3, <4>1, <4>2
    <3> QED
      BY <3>1, <3>2, <3>3
  <2>4. h = [i \in 0..(m + 1) |-> h[i]]
    OBVIOUS
  <2> HIDE DEF h
  <2>5. Way(h, node, key, m + 1)
    BY <2>3, <2>4 DEF Way
  <2> QED
    BY <2>5
<1> HIDE DEF T
<1>3. n \in T
  BY <1>1, <1>2, NatInductive
<1> QED
  BY <1>3 DEF T

\* The steps of Path.
LEMMA PathIs ==
  ASSUME NEW node, NEW key \in Hex
  PROVE  /\ Path(node, key)[0] = At(node, key)
         /\ \A i \in 1..Len(key) : Path(node, key)[i] = Step(Path(node, key)[i - 1])
<1>1. Len(key) \in Nat
  BY HexLength
<1>2. \E f : f = [i \in 0..Len(key) |->
                    IF i = 0 THEN At(node, key)
                    ELSE IF Descends(f[i - 1]) THEN Down(f[i - 1])
                    ELSE f[i - 1]]
  BY <1>1, WayExists DEF Way, Step
<1>3. Path(node, key) = [i \in 0..Len(key) |->
                    IF i = 0 THEN At(node, key)
                    ELSE IF Descends(Path(node, key)[i - 1]) THEN Down(Path(node, key)[i - 1])
                    ELSE Path(node, key)[i - 1]]
  BY <1>2 DEF Path
<1> DEFINE f == Path(node, key)
<1>4. \A i \in 0..Len(key) : f[i] = IF i = 0 THEN At(node, key)
                    ELSE IF Descends(f[i - 1]) THEN Down(f[i - 1])
                    ELSE f[i - 1]
  BY <1>3
<1> HIDE DEF f
<1>5. f[0] = At(node, key)
  BY <1>1, <1>4
<1>6. ASSUME NEW i \in 1..Len(key) PROVE f[i] = Step(f[i - 1])
  <2>1. i \in 0..Len(key) /\ i # 0
    BY <1>1
  <2> QED
    BY <1>4, <2>1 DEF Step
<1> QED
  BY <1>5, <1>6 DEF f

\* A step down takes a nibble or more and leads to a sound node.
LEMMA DownIs ==
  ASSUME NEW node, NEW what, Sound(node, what), NEW key \in Hex, Descends(At(node, key))
  PROVE  /\ Sound(Down(At(node, key)).node, what)
         /\ Down(At(node, key)).key \in Hex
         /\ Len(Down(At(node, key)).key) < Len(key)
         /\ Down(At(node, key)) = At(Down(At(node, key)).node, Down(At(node, key)).key)
<1> DEFINE at == At(node, key)
<1>1. at.node = node /\ at.key = key
  BY DEF At
<1>2. \A n, k : At(n, k) = At(At(n, k).node, At(n, k).key) /\ At(n, k).node = n /\ At(n, k).key = k
  BY DEF At
<1>3. Len(key) \in Nat
  BY HexLength
<1>4. CASE IsA(node, "branch")
  <2>1. key # <<>>
    BY <1>1, <1>4, Kinds DEF Descends, IsA
  <2>2. PICK children :
                 /\ node = Branch(children)
                 /\ \A i \in 0..Radix : Sound(children[i], what)
    BY <1>4, SoundIs, IsLeafIs, Kinds
  <2>3. key[1] \in 0..Radix /\ From(key, 1) \in Hex /\ Len(From(key, 1)) = Len(key) - 1
    BY <2>1, FirstNibble, Slots
  <2>4. Down(at) = At(children[key[1]], From(key, 1))
    BY <1>1, <1>4, <2>2, Kinds DEF Down
  <2> QED
    BY <1>2, <1>3, <2>2, <2>3, <2>4
<1>5. CASE ~IsA(node, "branch")
  <2>1. IsA(node, "extension") /\ IsPrefix(node.Shared, key)
    BY <1>1, <1>5 DEF Descends
  <2>2. PICK shared, next :
          /\ shared \in Hex /\ shared # <<>>
          /\ node = Extension(shared, next) /\ Sound(next, what)
    BY <2>1, SoundIs, IsLeafIs, Kinds
  <2>3. node.Shared = shared /\ node.Next = next
    BY <2>2, Kinds
  <2>4. From(key, Len(shared)) \in Hex /\ Len(From(key, Len(shared))) = Len(key) - Len(shared)
    BY <2>1, <2>2, <2>3, Parted
  <2>5. Len(shared) \in Nat /\ Len(shared) # 0
    BY <2>2, HexLength
  <2>6. Down(at) = At(next, From(key, Len(shared)))
    BY <1>1, <1>5, <2>3 DEF Down
  <2> QED
    BY <1>2, <1>3, <2>2, <2>4, <2>5, <2>6
<1> QED
  BY <1>4, <1>5

\* The positions on the way from a sound node are sound, and the last is where
\* it ends.
LEMMA PathSound ==
  ASSUME NEW node, NEW what, Sound(node, what), NEW key \in Hex
  PROVE  /\ \A i \in 0..Len(key) :
              /\ Sound(Path(node, key)[i].node, what) /\ Path(node, key)[i].key \in Hex
              /\ Path(node, key)[i] = At(Path(node, key)[i].node, Path(node, key)[i].key)
         /\ ~Descends(Path(node, key)[Len(key)])
<1> DEFINE f == Path(node, key)
           n == Len(key)
           T == {i \in Nat : i <= n =>
                   /\ Sound(f[i].node, what) /\ f[i].key \in Hex /\ f[i] = At(f[i].node, f[i].key)
                   /\ Descends(f[i]) => Len(f[i].key) <= n - i}
<1>1. n \in Nat
  BY HexLength
<1>2. f[0] = At(node, key) /\ \A i \in 1..n : f[i] = Step(f[i - 1])
  BY PathIs
<1>3. 0 \in T
  BY <1>1, <1>2 DEF At
<1>4. ASSUME NEW i \in Nat, i \in T PROVE i + 1 \in T
  <2> SUFFICES ASSUME i + 1 <= n
               PROVE  /\ Sound(f[i + 1].node, what) /\ f[i + 1].key \in Hex
                      /\ f[i + 1] = At(f[i + 1].node, f[i + 1].key)
                      /\ Descends(f[i + 1]) => Len(f[i + 1].key) <= n - (i + 1)
    OBVIOUS
  <2>1. i <= n /\ i + 1 \in 1..n /\ (i + 1) - 1 = i
    BY <1>1
  <2>2. f[i + 1] = Step(f[i])
    BY <1>2, <2>1
  <2>3. /\ Sound(f[i].node, what) /\ f[i].key \in Hex /\ f[i] = At(f[i].node, f[i].key)
        /\ Descends(f[i]) => Len(f[i].key) <= n - i
    BY <1>4, <2>1
  <2> HIDE DEF f
  <2>4. CASE Descends(f[i])
    <3>1. f[i + 1] = Down(f[i])
      BY <2>2, <2>4 DEF Step
    <3>2. /\ Sound(Down(f[i]).node, what) /\ Down(f[i]).key \in Hex
          /\ Len(Down(f[i]).key) < Len(f[i].key)
          /\ Down(f[i]) = At(Down(f[i]).node, Down(f[i]).key)
      BY <2>3, <2>4, DownIs
    <3>3. Len(f[i].key) \in Nat /\ Len(Down(f[i]).key) \in Nat
      BY <2>3, <3>2, HexLength
    <3>4. Len(Down(f[i]).key) <= n - (i + 1)
      BY <1>1, <2>3, <2>4, <3>2, <3>3
    <3> QED
      BY <3>1, <3>2, <3>4
  <2>5. CASE ~Descends(f[i])
    BY <2>2, <2>3, <2>5 DEF Step
  <2> QED
    BY <2>4, <2>5
<1> HIDE DEF T
<1>5. Nat \subseteq T
  BY <1>3, <1>4, NatInductive
<1>6. \A i \in 0..n : /\ Sound(f[i].node, what) /\ f[i].key \in Hex
                      /\ f[i] = At(f[i].node, f[i].key)
                      /\ Descends(f[i]) => Len(f[i].key) <= n - i
  BY <1>1, <1>5 DEF T
<1> HIDE DEF f, n
<1>7. ASSUME Descends(f[n]) PROVE FALSE
  <2>1. /\ Sound(f[n].node, what) /\ f[n].key \in Hex /\ f[n] = At(f[n].node, f[n].key)
        /\ Len(f[n].key) <= 0
    BY <1>1, <1>6, <1>7
  <2>2. Len(Down(f[n]).key) < Len(f[n].key) /\ Down(f[n]).key \in Hex
    BY <1>7, <2>1, DownIs
  <2> QED
    BY <2>1, <2>2, HexLength
<1> QED
  BY <1>6, <1>7 DEF f, n

\* The way from the second position on is the way from there.
LEMMA PathShift ==
  ASSUME NEW node, NEW what, Sound(node, what), NEW key \in Hex, Descends(At(node, key)),
         NEW below, below = Down(At(node, key))
  PROVE  /\ Len(below.key) \in Nat /\ Len(below.key) + 1 <= Len(key)
         /\ \A i \in 0..Len(below.key) : Path(node, key)[i + 1] = Path(below.node, below.key)[i]
         /\ Path(node, key)[Len(key)] = Path(below.node, below.key)[Len(below.key)]
<1> DEFINE f == Path(node, key)
           g == Path(below.node, below.key)
           n == Len(key)
           m == Len(below.key)
<1>1. /\ Sound(below.node, what) /\ below.key \in Hex /\ below = At(below.node, below.key)
      /\ m < n
  BY DownIs
<1>2. n \in Nat /\ m \in Nat /\ m + 1 <= n
  BY <1>1, HexLength
<1>3. /\ f[0] = At(node, key) /\ \A i \in 1..n : f[i] = Step(f[i - 1])
      /\ g[0] = below /\ \A i \in 1..m : g[i] = Step(g[i - 1])
  BY <1>1, PathIs
<1>4. ~Descends(g[m])
  BY <1>1, PathSound
<1> HIDE DEF f, g, n, m
<1> DEFINE T == {i \in Nat : i <= m => f[i + 1] = g[i]}
<1>5. 0 \in T
  <2>1. 0 + 1 \in 1..n /\ (0 + 1) - 1 = 0
    BY <1>2
  <2>2. f[0 + 1] = Step(f[0])
    BY <1>3, <2>1
  <2> QED
    BY <1>3, <2>2 DEF Step
<1>6. ASSUME NEW i \in Nat, i \in T PROVE i + 1 \in T
  <2> SUFFICES ASSUME i + 1 <= m PROVE f[(i + 1) + 1] = g[i + 1]
    OBVIOUS
  <2>1. (i + 1) + 1 \in 1..n /\ ((i + 1) + 1) - 1 = i + 1 /\ i + 1 \in 1..m /\ (i + 1) - 1 = i
    BY <1>2
  <2>2. f[(i + 1) + 1] = Step(f[i + 1]) /\ g[i + 1] = Step(g[i])
    BY <1>3, <2>1
  <2> QED
    BY <1>2, <1>6, <2>2
<1> HIDE DEF T
<1>7. Nat \subseteq T
  BY <1>5, <1>6, NatInductive
<1>8. \A i \in 0..m : f[i + 1] = g[i]
  BY <1>2, <1>7 DEF T
<1> DEFINE U == {i \in Nat : (m + 1) + i <= n => f[(m + 1) + i] = g[m]}
<1>9. 0 \in U
  BY <1>2, <1>8
<1>10. ASSUME NEW i \in Nat, i \in U PROVE i + 1 \in U
  <2> SUFFICES ASSUME (m + 1) + (i + 1) <= n PROVE f[(m + 1) + (i + 1)] = g[m]
    OBVIOUS
  <2>1. (m + 1) + (i + 1) \in 1..n /\ ((m + 1) + (i + 1)) - 1 = (m + 1) + i /\ (m + 1) + i <= n
    BY <1>2
  <2>2. f[(m + 1) + (i + 1)] = Step(f[(m + 1) + i])
    BY <1>3, <2>1
  <2> QED
    BY <1>4, <1>10, <2>1, <2>2 DEF Step
<1> HIDE DEF U
<1>11. Nat \subseteq U
  BY <1>9, <1>10, NatInductive
<1>12. f[n] = g[m]
  <2>1. n - (m + 1) \in Nat /\ (m + 1) + (n - (m + 1)) = n
    BY <1>2
  <2>2. PICK i \in Nat : i = n - (m + 1) /\ (m + 1) + i = n
    BY <2>1
  <2>3. i \in U /\ (m + 1) + i <= n
    BY <1>2, <1>11, <2>2
  <2> QED
    BY <2>2, <2>3 DEF U
<1> QED
  BY <1>2, <1>8, <1>12 DEF f, g, n, m

\* Where the way ends.
End(node, key) == Path(node, key)[Len(key)]

LEMMA GetEnd ==
  \A node, key : GetFrom(node, key) = Answer(End(node, key))
BY DEF GetFrom, End

LEMMA EndIs ==
  ASSUME NEW node, NEW what, Sound(node, what), NEW key \in Hex
  PROVE  /\ Descends(At(node, key)) =>
              End(node, key) = End(Down(At(node, key)).node, Down(At(node, key)).key)
         /\ ~Descends(At(node, key)) => End(node, key) = At(node, key)
<1>1. ASSUME Descends(At(node, key))
      PROVE  End(node, key) = End(Down(At(node, key)).node, Down(At(node, key)).key)
  BY <1>1, PathShift DEF End
<1>2. ASSUME ~Descends(At(node, key))
      PROVE  End(node, key) = At(node, key)
  <2> DEFINE f == Path(node, key)
             T == {i \in Nat : i <= Len(key) => f[i] = At(node, key)}
  <2>1. f[0] = At(node, key) /\ \A i \in 1..Len(key) : f[i] = Step(f[i - 1])
    BY PathIs
  <2> HIDE DEF f
  <2>2. Len(key) \in Nat
    BY HexLength
  <2>3. 0 \in T
    BY <2>1
  <2>4. ASSUME NEW i \in Nat, i \in T PROVE i + 1 \in T
    <3> SUFFICES ASSUME i + 1 <= Len(key) PROVE f[i + 1] = At(node, key)
      OBVIOUS
    <3>1. i + 1 \in 1..Len(key) /\ (i + 1) - 1 = i /\ i <= Len(key)
      BY <2>2
    <3>2. f[i + 1] = Step(f[i])
      BY <2>1, <3>1
    <3> QED
      BY <1>2, <2>4, <3>1, <3>2 DEF Step
  <2> HIDE DEF T
  <2>5. Len(key) \in T
    BY <2>2, <2>3, <2>4, NatInductive
  <2> QED
    BY <2>2, <2>5 DEF T, End, f
<1> QED
  BY <1>1, <1>2

-----------------------------------------------------------------------------
(* The recursions of insert and delete.                                    *)

Inserted(f, at, value, n) ==
  f = [i \in 0..n |->
         IF Descends(at[i]) THEN WithBelow(at[i], f[i + 1]) ELSE PutAt(at[i], value)]

Removed(f, at, n) ==
  f = [i \in 0..n |->
         IF Descends(at[i]) THEN Shrunk(at[i], f[i + 1]) ELSE DeleteAt(at[i])]

LEMMA InsertedExists ==
  ASSUME NEW at, NEW value, NEW n \in Nat, ~Descends(at[n])
  PROVE  \E f : Inserted(f, at, value, n)
<1> DEFINE Fits(f, m) ==
             f = [i \in m..n |->
                    IF Descends(at[i]) THEN WithBelow(at[i], f[i + 1]) ELSE PutAt(at[i], value)]
           T == {j \in Nat : j <= n => \E f : Fits(f, n - j)}
<1>1. 0 \in T
  <2> DEFINE f == [i \in n..n |-> PutAt(at[n], value)]
  <2>1. Fits(f, n - 0)
    OBVIOUS
  <2> QED
    BY <2>1
<1>2. ASSUME NEW j \in Nat, j \in T PROVE j + 1 \in T
  <2> SUFFICES ASSUME j + 1 <= n PROVE \E f : Fits(f, n - (j + 1))
    OBVIOUS
  <2>1. PICK f : Fits(f, n - j)
    BY <1>2
  <2>2. PICK m \in Nat : m = n - (j + 1) /\ n - j = m + 1 /\ m + 1 <= n
    OBVIOUS
  <2> DEFINE h == [i \in m..n |->
                     IF i = m
                       THEN IF Descends(at[m]) THEN WithBelow(at[m], f[m + 1]) ELSE PutAt(at[m], value)
                       ELSE f[i]]
  <2>3. \A i \in (m + 1)..n :
          f[i] = IF Descends(at[i]) THEN WithBelow(at[i], f[i + 1]) ELSE PutAt(at[i], value)
    BY <2>1, <2>2
  <2>4. ASSUME NEW i \in m..n
        PROVE  h[i] = IF Descends(at[i]) THEN WithBelow(at[i], h[i + 1]) ELSE PutAt(at[i], value)
    <3>1. CASE i = m
      BY <2>2, <3>1
    <3>2. CASE i # m /\ i # n
      <4>1. i \in (m + 1)..n /\ i + 1 \in m..n /\ i + 1 # m
        BY <2>2, <3>2
      <4>2. h[i] = f[i] /\ h[i + 1] = f[i + 1]
        BY <3>2, <4>1
      <4> QED
        BY <2>3, <4>1, <4>2
    <3>3. CASE i # m /\ i = n
      <4>1. i \in (m + 1)..n
        BY <2>2, <3>3
      <4> QED
        BY <2>3, <3>3, <4>1
    <3> QED
      BY <3>1, <3>2, <3>3
  <2>5. h = [i \in m..n |-> h[i]]
    OBVIOUS
  <2> HIDE DEF h
  <2>6. Fits(h, m)
    BY <2>4, <2>5
  <2> QED
    BY <2>2, <2>6
<1> HIDE DEF T
<1>3. n \in T
  BY <1>1, <1>2, NatInductive
<1>4. n - n = 0 /\ n <= n
  OBVIOUS
<1>5. PICK f : Fits(f, 0)
  BY <1>3, <1>4 DEF T
<1> QED
  BY <1>5 DEF Inserted

LEMMA InsertedUnique ==
  ASSUME NEW at, NEW value, NEW n \in Nat, ~Descends(at[n]),
         NEW f, NEW g, Inserted(f, at, value, n), Inserted(g, at, value, n)
  PROVE  f = g
<1>1. /\ \A i \in 0..n : f[i] = IF Descends(at[i]) THEN WithBelow(at[i], f[i + 1]) ELSE PutAt(at[i], value)
      /\ \A i \in 0..n : g[i] = IF Descends(at[i]) THEN WithBelow(at[i], g[i + 1]) ELSE PutAt(at[i], value)
      /\ f = [i \in 0..n |-> f[i]] /\ g = [i \in 0..n |-> g[i]]
  BY DEF Inserted
<1> DEFINE T == {j \in Nat : j <= n => f[n - j] = g[n - j]}
<1>2. 0 \in T
  <2>1. n - 0 = n /\ n \in 0..n
    OBVIOUS
  <2>2. f[n] = g[n]
    BY <1>1, <2>1
  <2> QED
    BY <2>1, <2>2
<1>3. ASSUME NEW j \in Nat, j \in T PROVE j + 1 \in T
  <2> SUFFICES ASSUME j + 1 <= n PROVE f[n - (j + 1)] = g[n - (j + 1)]
    OBVIOUS
  <2>1. PICK i \in 0..n : i = n - (j + 1) /\ n - j = i + 1
    OBVIOUS
  <2>2. f[i + 1] = g[i + 1]
    BY <1>3, <2>1
  <2>3. f[i] = g[i]
    BY <1>1, <2>2
  <2> QED
    BY <2>1, <2>3
<1> HIDE DEF T
<1>4. Nat \subseteq T
  BY <1>2, <1>3, NatInductive
<1>5. ASSUME NEW i \in 0..n PROVE f[i] = g[i]
  <2>1. PICK j \in Nat : j = n - i /\ n - j = i /\ j <= n
    OBVIOUS
  <2>2. j \in T
    BY <1>4
  <2> QED
    BY <2>1, <2>2 DEF T
<1> QED
  BY <1>1, <1>5

\* What insert is, a step at a time.
LEMMA InsertIs ==
  ASSUME NEW node, NEW what, Sound(node, what), NEW key \in Hex, NEW value
  PROVE  insert(node, key, value) =
           IF Descends(At(node, key))
             THEN WithBelow(At(node, key),
                    insert(Down(At(node, key)).node, Down(At(node, key)).key, value))
             ELSE PutAt(At(node, key), value)
<1>1. ASSUME NEW x, Sound(x, what), NEW k \in Hex
      PROVE  /\ \E f : Inserted(f, Path(x, k), value, Len(k))
             /\ \A f : Inserted(f, Path(x, k), value, Len(k)) => insert(x, k, value) = f[0]
  <2>1. Len(k) \in Nat /\ ~Descends(Path(x, k)[Len(k)])
    BY <1>1, HexLength, PathSound
  <2>2. PICK f : Inserted(f, Path(x, k), value, Len(k))
    BY <2>1, InsertedExists
  <2>3. \A g : Inserted(g, Path(x, k), value, Len(k)) => g = f
    BY <2>1, <2>2, InsertedUnique
  <2>4. insert(x, k, value) = f[0]
    BY <2>2, <2>3 DEF insert, Inserted
  <2> QED
    BY <2>2, <2>3, <2>4
<1> DEFINE p == Path(node, key)
           n == Len(key)
<1>2. PICK f : Inserted(f, p, value, n) /\ insert(node, key, value) = f[0]
  BY <1>1
<1>3. n \in Nat /\ p[0] = At(node, key)
  BY HexLength, PathIs
<1> HIDE DEF p, n
<1>4. \A i \in 0..n : f[i] = IF Descends(p[i]) THEN WithBelow(p[i], f[i + 1]) ELSE PutAt(p[i], value)
  BY <1>2 DEF Inserted
<1>5. f[0] = IF Descends(p[0]) THEN WithBelow(p[0], f[0 + 1]) ELSE PutAt(p[0], value)
  BY <1>3, <1>4
<1>6. CASE ~Descends(At(node, key))
  BY <1>2, <1>3, <1>5, <1>6
<1>7. CASE Descends(At(node, key))
  <2> DEFINE below == Down(At(node, key))
             q == Path(below.node, below.key)
             m == Len(below.key)
             g == [i \in 0..m |-> f[i + 1]]
  <2>1. Sound(below.node, what) /\ below.key \in Hex
    BY <1>7, DownIs
  <2>2. m \in Nat /\ m + 1 <= n /\ \A i \in 0..m : p[i + 1] = q[i]
    BY <1>7, PathShift DEF p, n
  <2>3. ~Descends(q[m])
    BY <2>1, PathSound
  <2>4. ASSUME NEW i \in 0..m
        PROVE  g[i] = IF Descends(q[i]) THEN WithBelow(q[i], g[i + 1]) ELSE PutAt(q[i], value)
    <3>1. i + 1 \in 0..n /\ p[i + 1] = q[i] /\ g[i] = f[i + 1]
      BY <1>3, <2>2
    <3>2. f[i + 1] = IF Descends(q[i]) THEN WithBelow(q[i], f[(i + 1) + 1]) ELSE PutAt(q[i], value)
      BY <1>4, <3>1
    <3>3. CASE i = m
      BY <2>3, <3>1, <3>2, <3>3
    <3>4. CASE i # m
      <4>1. i + 1 \in 0..m
        BY <2>2, <3>4
      <4>2. g[i + 1] = f[(i + 1) + 1]
        BY <4>1
      <4> QED
        BY <3>1, <3>2, <4>2
    <3> QED
      BY <3>3, <3>4
  <2>5. g = [i \in 0..m |-> g[i]] /\ g[0] = f[0 + 1]
    BY <2>2
  <2> HIDE DEF g, q, m, below
  <2>6. Inserted(g, q, value, m)
    BY <2>4, <2>5 DEF Inserted
  <2>7. insert(below.node, below.key, value) = g[0]
    BY <1>1, <2>1, <2>6 DEF q, m
  <2> QED
    BY <1>2, <1>3, <1>5, <1>7, <2>5, <2>7 DEF below
<1> QED
  BY <1>6, <1>7

LEMMA RemovedExists ==
  ASSUME NEW at, NEW n \in Nat, ~Descends(at[n])
  PROVE  \E f : Removed(f, at, n)
<1> DEFINE Fits(f, m) ==
             f = [i \in m..n |->
                    IF Descends(at[i]) THEN Shrunk(at[i], f[i + 1]) ELSE DeleteAt(at[i])]
           T == {j \in Nat : j <= n => \E f : Fits(f, n - j)}
<1>1. 0 \in T
  <2> DEFINE f == [i \in n..n |-> DeleteAt(at[n])]
  <2>1. Fits(f, n - 0)
    OBVIOUS
  <2> QED
    BY <2>1
<1>2. ASSUME NEW j \in Nat, j \in T PROVE j + 1 \in T
  <2> SUFFICES ASSUME j + 1 <= n PROVE \E f : Fits(f, n - (j + 1))
    OBVIOUS
  <2>1. PICK f : Fits(f, n - j)
    BY <1>2
  <2>2. PICK m \in Nat : m = n - (j + 1) /\ n - j = m + 1 /\ m + 1 <= n
    OBVIOUS
  <2> DEFINE h == [i \in m..n |->
                     IF i = m
                       THEN IF Descends(at[m]) THEN Shrunk(at[m], f[m + 1]) ELSE DeleteAt(at[m])
                       ELSE f[i]]
  <2>3. \A i \in (m + 1)..n :
          f[i] = IF Descends(at[i]) THEN Shrunk(at[i], f[i + 1]) ELSE DeleteAt(at[i])
    BY <2>1, <2>2
  <2>4. ASSUME NEW i \in m..n
        PROVE  h[i] = IF Descends(at[i]) THEN Shrunk(at[i], h[i + 1]) ELSE DeleteAt(at[i])
    <3>1. CASE i = m
      BY <2>2, <3>1
    <3>2. CASE i # m /\ i # n
      <4>1. i \in (m + 1)..n /\ i + 1 \in m..n /\ i + 1 # m
        BY <2>2, <3>2
      <4>2. h[i] = f[i] /\ h[i + 1] = f[i + 1]
        BY <3>2, <4>1
      <4> QED
        BY <2>3, <4>1, <4>2
    <3>3. CASE i # m /\ i = n
      <4>1. i \in (m + 1)..n
        BY <2>2, <3>3
      <4> QED
        BY <2>3, <3>3, <4>1
    <3> QED
      BY <3>1, <3>2, <3>3
  <2>5. h = [i \in m..n |-> h[i]]
    OBVIOUS
  <2> HIDE DEF h
  <2>6. Fits(h, m)
    BY <2>4, <2>5
  <2> QED
    BY <2>2, <2>6
<1> HIDE DEF T
<1>3. n \in T
  BY <1>1, <1>2, NatInductive
<1>4. n - n = 0 /\ n <= n
  OBVIOUS
<1>5. PICK f : Fits(f, 0)
  BY <1>3, <1>4 DEF T
<1> QED
  BY <1>5 DEF Removed

LEMMA RemovedUnique ==
  ASSUME NEW at, NEW n \in Nat, ~Descends(at[n]),
         NEW f, NEW g, Removed(f, at, n), Removed(g, at, n)
  PROVE  f = g
<1>1. /\ \A i \in 0..n : f[i] = IF Descends(at[i]) THEN Shrunk(at[i], f[i + 1]) ELSE DeleteAt(at[i])
      /\ \A i \in 0..n : g[i] = IF Descends(at[i]) THEN Shrunk(at[i], g[i + 1]) ELSE DeleteAt(at[i])
      /\ f = [i \in 0..n |-> f[i]] /\ g = [i \in 0..n |-> g[i]]
  BY DEF Removed
<1> DEFINE T == {j \in Nat : j <= n => f[n - j] = g[n - j]}
<1>2. 0 \in T
  <2>1. n - 0 = n /\ n \in 0..n
    OBVIOUS
  <2>2. f[n] = g[n]
    BY <1>1, <2>1
  <2> QED
    BY <2>1, <2>2
<1>3. ASSUME NEW j \in Nat, j \in T PROVE j + 1 \in T
  <2> SUFFICES ASSUME j + 1 <= n PROVE f[n - (j + 1)] = g[n - (j + 1)]
    OBVIOUS
  <2>1. PICK i \in 0..n : i = n - (j + 1) /\ n - j = i + 1
    OBVIOUS
  <2>2. f[i + 1] = g[i + 1]
    BY <1>3, <2>1
  <2>3. f[i] = g[i]
    BY <1>1, <2>2
  <2> QED
    BY <2>1, <2>3
<1> HIDE DEF T
<1>4. Nat \subseteq T
  BY <1>2, <1>3, NatInductive
<1>5. ASSUME NEW i \in 0..n PROVE f[i] = g[i]
  <2>1. PICK j \in Nat : j = n - i /\ n - j = i /\ j <= n
    OBVIOUS
  <2>2. j \in T
    BY <1>4
  <2> QED
    BY <2>1, <2>2 DEF T
<1> QED
  BY <1>1, <1>5

\* What delete is, a step at a time.
LEMMA DeleteIs ==
  ASSUME NEW node, NEW what, Sound(node, what), NEW key \in Hex
  PROVE  delete(node, key) =
           IF Descends(At(node, key))
             THEN Shrunk(At(node, key),
                    delete(Down(At(node, key)).node, Down(At(node, key)).key))
             ELSE DeleteAt(At(node, key))
<1>1. ASSUME NEW x, Sound(x, what), NEW k \in Hex
      PROVE  /\ \E f : Removed(f, Path(x, k), Len(k))
             /\ \A f : Removed(f, Path(x, k), Len(k)) => delete(x, k) = f[0]
  <2>1. Len(k) \in Nat /\ ~Descends(Path(x, k)[Len(k)])
    BY <1>1, HexLength, PathSound
  <2>2. PICK f : Removed(f, Path(x, k), Len(k))
    BY <2>1, RemovedExists
  <2>3. \A g : Removed(g, Path(x, k), Len(k)) => g = f
    BY <2>1, <2>2, RemovedUnique
  <2>4. delete(x, k) = f[0]
    BY <2>2, <2>3 DEF delete, Removed
  <2> QED
    BY <2>2, <2>3, <2>4
<1> DEFINE p == Path(node, key)
           n == Len(key)
<1>2. PICK f : Removed(f, p, n) /\ delete(node, key) = f[0]
  BY <1>1
<1>3. n \in Nat /\ p[0] = At(node, key)
  BY HexLength, PathIs
<1> HIDE DEF p, n
<1>4. \A i \in 0..n : f[i] = IF Descends(p[i]) THEN Shrunk(p[i], f[i + 1]) ELSE DeleteAt(p[i])
  BY <1>2 DEF Removed
<1>5. f[0] = IF Descends(p[0]) THEN Shrunk(p[0], f[0 + 1]) ELSE DeleteAt(p[0])
  BY <1>3, <1>4
<1>6. CASE ~Descends(At(node, key))
  BY <1>2, <1>3, <1>5, <1>6
<1>7. CASE Descends(At(node, key))
  <2> DEFINE below == Down(At(node, key))
             q == Path(below.node, below.key)
             m == Len(below.key)
             g == [i \in 0..m |-> f[i + 1]]
  <2>1. Sound(below.node, what) /\ below.key \in Hex
    BY <1>7, DownIs
  <2>2. m \in Nat /\ m + 1 <= n /\ \A i \in 0..m : p[i + 1] = q[i]
    BY <1>7, PathShift DEF p, n
  <2>3. ~Descends(q[m])
    BY <2>1, PathSound
  <2>4. ASSUME NEW i \in 0..m
        PROVE  g[i] = IF Descends(q[i]) THEN Shrunk(q[i], g[i + 1]) ELSE DeleteAt(q[i])
    <3>1. i + 1 \in 0..n /\ p[i + 1] = q[i] /\ g[i] = f[i + 1]
      BY <1>3, <2>2
    <3>2. f[i + 1] = IF Descends(q[i]) THEN Shrunk(q[i], f[(i + 1) + 1]) ELSE DeleteAt(q[i])
      BY <1>4, <3>1
    <3>3. CASE i = m
      BY <2>3, <3>1, <3>2, <3>3
    <3>4. CASE i # m
      <4>1. i + 1 \in 0..m
        BY <2>2, <3>4
      <4>2. g[i + 1] = f[(i + 1) + 1]
        BY <4>1
      <4> QED
        BY <3>1, <3>2, <4>2
    <3> QED
      BY <3>3, <3>4
  <2>5. g = [i \in 0..m |-> g[i]] /\ g[0] = f[0 + 1]
    BY <2>2
  <2> HIDE DEF g, q, m, below
  <2>6. Removed(g, q, m)
    BY <2>4, <2>5 DEF Removed
  <2>7. delete(below.node, below.key) = g[0]
    BY <1>1, <2>1, <2>6 DEF q, m
  <2> QED
    BY <1>2, <1>3, <1>5, <1>7, <2>5, <2>7 DEF below
<1> QED
  BY <1>6, <1>7

-----------------------------------------------------------------------------
(* Get, insert and delete by the kind of the node.                         *)

\* Where the way goes from each kind of node.
LEMMA Ways ==
  ASSUME NEW key \in Hex
  PROVE  /\ \A node, k : At(node, k).node = node /\ At(node, k).key = k
         /\ ~Descends(At(NoNode, key))
         /\ \A k, v : ~Descends(At(Leaf(k, v), key))
         /\ \A shared, next :
              /\ Descends(At(Extension(shared, next), key)) <=> IsPrefix(shared, key)
              /\ Down(At(Extension(shared, next), key)) = At(next, From(key, Len(shared)))
         /\ \A children :
              /\ Descends(At(Branch(children), key)) <=> key # <<>>
              /\ Down(At(Branch(children), key)) = At(children[key[1]], From(key, 1))
<1>1. \A node, k : At(node, k).node = node /\ At(node, k).key = k
  BY DEF At
<1> QED
  BY <1>1, Kinds DEF Descends, Down

\* What Get says at each kind of node.
LEMMA Answers ==
  ASSUME NEW key
  PROVE  /\ Answer(At(NoNode, key)) = NotFound
         /\ \A k, v : Answer(At(Leaf(k, v), key)) = IF key = k THEN v ELSE NotFound
         /\ \A shared, next : Answer(At(Extension(shared, next), key)) = NotFound
         /\ \A children : Answer(At(Branch(children), key)) =
              IF IsA(children[Own], "leaf") THEN children[Own].Value ELSE NotFound
<1>1. \A node, k : At(node, k).node = node /\ At(node, k).key = k
  BY DEF At
<1>2. Answer(At(NoNode, key)) = NotFound
  BY <1>1, Kinds DEF Answer
<1>3. ASSUME NEW k, NEW v PROVE Answer(At(Leaf(k, v), key)) = IF key = k THEN v ELSE NotFound
  <2>1. /\ At(Leaf(k, v), key).node = Leaf(k, v) /\ At(Leaf(k, v), key).key = key
        /\ IsA(Leaf(k, v), "leaf") /\ Leaf(k, v).Key = k /\ Leaf(k, v).Value = v
        /\ ~IsA(Leaf(k, v), "branch")
    BY <1>1, Kinds
  <2>2. Answer(At(Leaf(k, v), key)) = LeafValue(Leaf(k, v), key)
    BY <2>1 DEF Answer
  <2> QED
    BY <2>1, <2>2 DEF LeafValue
<1>4. ASSUME NEW shared, NEW next PROVE Answer(At(Extension(shared, next), key)) = NotFound
  BY <1>1, Kinds DEF Answer
<1>5. ASSUME NEW children
      PROVE  Answer(At(Branch(children), key)) =
               IF IsA(children[Own], "leaf") THEN children[Own].Value ELSE NotFound
  <2>1. /\ At(Branch(children), key).node = Branch(children) /\ Branch(children).Children = children
        /\ IsA(Branch(children), "branch") /\ ~IsA(Branch(children), "leaf")
    BY <1>1, Kinds
  <2> QED
    BY <2>1 DEF Answer
<1> QED
  BY <1>2, <1>3, <1>4, <1>5

LEMMA GetNil ==
  ASSUME NEW key \in Hex
  PROVE  GetFrom(NoNode, key) = NotFound
<1>1. Sound(NoNode, {})
  BY SoundNil
<1>2. End(NoNode, key) = At(NoNode, key)
  BY <1>1, Ways, EndIs
<1> QED
  BY <1>2, Answers DEF GetFrom, End

\* A leaf is sound whatever is asked, for Get finds it.
LEMMA GetLeaf ==
  ASSUME NEW k \in Hex, NEW v \in Values, NEW what
  PROVE  /\ Sound(Leaf(k, v), what) /\ IsLeaf(Leaf(k, v))
         /\ \A key \in Hex : GetFrom(Leaf(k, v), key) = IF key = k THEN v ELSE NotFound
<1>1. IsLeaf(Leaf(k, v))
  BY DEF IsLeaf
<1>2. Shaped(Leaf(k, v), {}, {})
  BY <1>1 DEF Shaped
<1>3. Sound(Leaf(k, v), {})
  BY <1>2, SoundAbove
<1>4. ASSUME NEW key \in Hex PROVE GetFrom(Leaf(k, v), key) = IF key = k THEN v ELSE NotFound
  <2>1. End(Leaf(k, v), key) = At(Leaf(k, v), key)
    BY <1>3, Ways, EndIs
  <2>2. Answer(At(Leaf(k, v), key)) = IF key = k THEN v ELSE NotFound
    BY Answers
  <2> QED
    BY <2>1, <2>2, GetEnd
<1>5. Readable(Leaf(k, v))
  BY <1>4, TrieAssumption DEF Readable
<1>6. Shaped(Leaf(k, v), {}, what)
  BY <1>1, <1>5 DEF Shaped
<1>7. Sound(Leaf(k, v), what)
  BY <1>6, SoundAbove
<1> QED
  BY <1>1, <1>4, <1>7

LEMMA GetExtension ==
  ASSUME NEW shared \in Hex, shared # <<>>, NEW next, next # NoNode, Sound(next, {}),
         NEW key \in Hex
  PROVE  /\ Sound(Extension(shared, next), {})
         /\ GetFrom(Extension(shared, next), key) =
              IF IsPrefix(shared, key) THEN GetFrom(next, From(key, Len(shared))) ELSE NotFound
<1>1. Sound(Extension(shared, next), {})
  BY SoundExtension
<1>2. CASE IsPrefix(shared, key)
  <2>1. /\ Descends(At(Extension(shared, next), key))
        /\ Down(At(Extension(shared, next), key)) = At(next, From(key, Len(shared)))
        /\ At(next, From(key, Len(shared))).node = next
        /\ At(next, From(key, Len(shared))).key = From(key, Len(shared))
    BY <1>2, Ways, SMTT(30)
  <2>2. End(Extension(shared, next), key) = End(next, From(key, Len(shared)))
    BY <1>1, <2>1, EndIs
  <2> QED
    BY <1>1, <1>2, <2>2 DEF GetFrom, End
<1>3. CASE ~IsPrefix(shared, key)
  <2>1. End(Extension(shared, next), key) = At(Extension(shared, next), key)
    BY <1>1, <1>3, Ways, EndIs
  <2>2. Answer(At(Extension(shared, next), key)) = NotFound
    BY Answers
  <2> QED
    BY <1>1, <1>3, <2>1, <2>2, GetEnd
<1> QED
  BY <1>2, <1>3

\* The children of a branch, sound each.
Children(children, what) ==
  /\ children = [i \in 0..Radix |-> children[i]]
  /\ \A i \in 0..Radix : Sound(children[i], what)
  /\ children[Own] = NoNode \/ IsLeaf(children[Own])

OwnValue(children) == IF children[Own] = NoNode THEN NotFound ELSE children[Own].Value

LEMMA GetBranch ==
  ASSUME NEW children, Children(children, {}), NEW key \in Hex
  PROVE  /\ Sound(Branch(children), {})
         /\ GetFrom(Branch(children), key) =
              IF key = <<>> THEN OwnValue(children)
              ELSE GetFrom(children[key[1]], From(key, 1))
<1>1. Sound(Branch(children), {})
  BY SoundBranch DEF Children
<1>2. CASE key # <<>>
  <2>1. End(Branch(children), key) = End(children[key[1]], From(key, 1))
    BY <1>1, <1>2, Ways, EndIs, SMTT(30)
  <2> QED
    BY <1>1, <1>2, <2>1 DEF GetFrom, End
<1>3. CASE key = <<>>
  <2>1. End(Branch(children), key) = At(Branch(children), key)
    BY <1>1, <1>3, Ways, EndIs
  <2>2. IsA(children[Own], "leaf") <=> children[Own] # NoNode
    BY IsLeafIs, Kinds DEF Children
  <2>3. GetFrom(Branch(children), key) = Answer(At(Branch(children), key))
    BY <2>1 DEF GetFrom, End
  <2> QED
    BY <1>1, <1>3, <2>2, <2>3, Answers DEF OwnValue
<1> QED
  BY <1>2, <1>3

\* A branch below a prefix, which may be empty.
LEMMA GetBelow ==
  ASSUME NEW prefix \in Hex, NEW children, Children(children, {}), NEW key \in Hex
  PROVE  /\ Sound(Below(prefix, children), {})
         /\ GetFrom(Below(prefix, children), key) =
              IF IsPrefix(prefix, key)
                THEN GetFrom(Branch(children), From(key, Len(prefix))) ELSE NotFound
<1>1. Sound(Branch(children), {})
  BY GetBranch
<1>2. CASE prefix # <<>>
  BY <1>1, <1>2, GetExtension, Kinds DEF Below
<1>3. CASE prefix = <<>>
  <2>1. Len(prefix) = 0 /\ IsPrefix(prefix, key)
    BY <1>3, HexLength, PrefixIs
  <2>2. From(key, Len(prefix)) = key
    BY <2>1, SubSeqFull DEF From, Hex
  <2> QED
    BY <1>1, <1>3, <2>1, <2>2 DEF Below
<1> QED
  BY <1>2, <1>3

-----------------------------------------------------------------------------
(* Where two keys part.                                                    *)

LEMMA SharedIs ==
  ASSUME NEW s \in Hex, NEW t \in Hex
  PROVE  /\ sharedPrefix(s, t) \in 0..Len(s) /\ sharedPrefix(s, t) \in 0..Len(t)
         /\ \A i \in 1..sharedPrefix(s, t) : s[i] = t[i]
         /\ sharedPrefix(s, t) < Len(s) /\ sharedPrefix(s, t) < Len(t) =>
              s[sharedPrefix(s, t) + 1] # t[sharedPrefix(s, t) + 1]
<1> DEFINE Ends == {n \in Nat : n = Len(s) \/ n = Len(t) \/ s[n + 1] # t[n + 1]}
<1>1. Len(s) \in Nat /\ Len(t) \in Nat
  BY HexLength
<1>2. PICK n \in Ends : \A m \in Ends : n <= m
  <2>1. Len(s) \in Ends
    BY <1>1
  <2> HIDE DEF Ends
  <2>2. Ends \subseteq Nat /\ Ends # {}
    BY <2>1 DEF Ends
  <2> QED
    BY <2>2, LeastNatural
<1>3. n <= Len(s) /\ n <= Len(t) /\ n \in Nat
  BY <1>1, <1>2
<1>4. ASSUME NEW i \in 1..n PROVE s[i] = t[i]
  <2>1. i - 1 \in Nat /\ i - 1 < n /\ (i - 1) + 1 = i
    BY <1>3
  <2>2. PICK m \in Nat : m = i - 1 /\ m < n /\ m + 1 = i
    BY <2>1
  <2>3. m \notin Ends
    <3> HIDE DEF Ends
    <3> QED
      BY <1>2, <1>3, <2>2
  <2>4. s[m + 1] = t[m + 1]
    BY <2>3
  <2> QED
    BY <2>2, <2>4
<1>5. n < Len(s) /\ n < Len(t) => s[n + 1] # t[n + 1]
  BY <1>1, <1>2
<1>6. \E m \in 0..Len(s) : /\ m <= Len(t)
                           /\ \A i \in 1..m : s[i] = t[i]
                           /\ m < Len(s) /\ m < Len(t) => s[m + 1] # t[m + 1]
  BY <1>1, <1>3, <1>4, <1>5
<1>7. /\ sharedPrefix(s, t) \in 0..Len(s) /\ sharedPrefix(s, t) <= Len(t)
      /\ \A i \in 1..sharedPrefix(s, t) : s[i] = t[i]
      /\ sharedPrefix(s, t) < Len(s) /\ sharedPrefix(s, t) < Len(t) =>
           s[sharedPrefix(s, t) + 1] # t[sharedPrefix(s, t) + 1]
  BY <1>6 DEF sharedPrefix
<1> QED
  BY <1>1, <1>7

\* There is only one such place.
LEMMA SharedUnique ==
  ASSUME NEW s \in Hex, NEW t \in Hex, NEW n \in Nat, n <= Len(s), n <= Len(t),
         \A i \in 1..n : s[i] = t[i],
         n < Len(s) /\ n < Len(t) => s[n + 1] # t[n + 1]
  PROVE  sharedPrefix(s, t) = n
<1> DEFINE p == sharedPrefix(s, t)
<1>1. Len(s) \in Nat /\ Len(t) \in Nat
  BY HexLength
<1>2. /\ p \in 0..Len(s) /\ p \in 0..Len(t) /\ \A i \in 1..p : s[i] = t[i]
      /\ p < Len(s) /\ p < Len(t) => s[p + 1] # t[p + 1]
  BY SharedIs
<1> HIDE DEF p
<1>3. CASE p < n
  <2>1. p + 1 \in 1..n
    BY <1>1, <1>2, <1>3
  <2> QED
    BY <1>1, <1>2, <1>3, <2>1
<1>4. CASE n < p
  <2>1. n + 1 \in 1..p
    BY <1>1, <1>2, <1>4
  <2> QED
    BY <1>1, <1>2, <1>4, <2>1
<1> QED
  BY <1>1, <1>2, <1>3, <1>4 DEF p

\* A key that does not begin with s parts from it before its end.
LEMMA NotPrefix ==
  ASSUME NEW s \in Hex, NEW t \in Hex
  PROVE  IsPrefix(s, t) <=> sharedPrefix(t, s) = Len(s)
<1>1. Len(s) \in Nat /\ Len(t) \in Nat
  BY HexLength
<1>2. ASSUME IsPrefix(s, t) PROVE sharedPrefix(t, s) = Len(s)
  BY <1>1, <1>2, PrefixIs, SharedUnique
<1>3. ASSUME sharedPrefix(t, s) = Len(s) PROVE IsPrefix(s, t)
  BY <1>1, <1>3, PrefixIs, SharedIs
<1> QED
  BY <1>2, <1>3

\* The rest of a rest.
LEMMA FromFrom ==
  ASSUME NEW key \in Hex, NEW m \in Nat, NEW n \in Nat, m + n <= Len(key)
  PROVE  From(From(key, m), n) = From(key, m + n)
<1>1. Len(key) \in Nat /\ m \in 0..Len(key) /\ m + n \in 0..Len(key)
  BY HexLength
<1>2. /\ From(key, m) \in Hex /\ Len(From(key, m)) = Len(key) - m
      /\ \A i \in 1..(Len(key) - m) : From(key, m)[i] = key[m + i]
  BY <1>1, FromIs
<1>3. n \in 0..Len(From(key, m))
  BY <1>1, <1>2
<1>4. /\ From(From(key, m), n) \in Hex
      /\ Len(From(From(key, m), n)) = Len(From(key, m)) - n
      /\ \A i \in 1..(Len(From(key, m)) - n) : From(From(key, m), n)[i] = From(key, m)[n + i]
  BY <1>2, <1>3, FromIs
<1>5. /\ From(key, m + n) \in Hex /\ Len(From(key, m + n)) = Len(key) - (m + n)
      /\ \A i \in 1..(Len(key) - (m + n)) : From(key, m + n)[i] = key[(m + n) + i]
  BY <1>1, FromIs
<1>6. Len(From(From(key, m), n)) = Len(key) - (m + n)
  BY <1>1, <1>2, <1>4
<1>7. ASSUME NEW i \in 1..(Len(key) - (m + n))
      PROVE  From(From(key, m), n)[i] = From(key, m + n)[i]
  <2>1. i \in 1..(Len(From(key, m)) - n) /\ n + i \in 1..(Len(key) - m) /\ m + (n + i) = (m + n) + i
    BY <1>1, <1>2
  <2> QED
    BY <1>2, <1>4, <1>5, <2>1
<1> QED
  BY <1>4, <1>5, <1>6, <1>7, HexEqual

\* Keys compared after n equal nibbles and one more.
LEMMA SameAfter ==
  ASSUME NEW s \in Hex, NEW t \in Hex, NEW n \in Nat, n < Len(s), n < Len(t),
         \A i \in 1..n : s[i] = t[i]
  PROVE  /\ s = t <=> s[n + 1] = t[n + 1] /\ From(s, n + 1) = From(t, n + 1)
         /\ From(s, n) # <<>> /\ From(s, n)[1] = s[n + 1] /\ From(From(s, n), 1) = From(s, n + 1)
<1>1. Len(s) \in Nat /\ Len(t) \in Nat /\ n \in 0..Len(s)
  BY HexLength
<1>2. ASSUME s[n + 1] = t[n + 1], From(s, n + 1) = From(t, n + 1) PROVE s = t
  <2>1. \A i \in 1..(n + 1) : s[i] = t[i]
    BY <1>1, <1>2
  <2> QED
    BY <1>1, <1>2, <2>1, SameRest
<1>3. /\ From(s, n) \in Hex /\ Len(From(s, n)) = Len(s) - n
      /\ \A i \in 1..(Len(s) - n) : From(s, n)[i] = s[n + i]
  BY <1>1, FromIs
<1>4. From(s, n) # <<>> /\ From(s, n)[1] = s[n + 1]
  BY <1>1, <1>3, HexLength
<1>5. From(From(s, n), 1) = From(s, n + 1)
  BY <1>1, FromFrom
<1> QED
  BY <1>2, <1>4, <1>5

\* A path and a key that agree on more than p nibbles.
LEMMA PrefixParts ==
  ASSUME NEW shared \in Hex, NEW l \in Hex, NEW p \in Nat, p < Len(shared), p < Len(l),
         \A i \in 1..p : shared[i] = l[i], l[p + 1] = shared[p + 1]
  PROVE  /\ IsPrefix(From(shared, p + 1), From(l, p + 1)) <=> IsPrefix(shared, l)
         /\ IsPrefix(shared, l) =>
              From(From(l, p + 1), Len(From(shared, p + 1))) = From(l, Len(shared))
<1> DEFINE rest == From(shared, p + 1)
<1>1. Len(shared) \in Nat /\ Len(l) \in Nat
  BY HexLength
<1>2. p + 1 \in 0..Len(shared) /\ p + 1 \in 0..Len(l)
  BY <1>1
<1>3. rest \in Hex /\ Len(rest) = Len(shared) - (p + 1) /\ \A i \in 1..(Len(shared) - (p + 1)) : rest[i] = shared[(p + 1) + i]
  BY <1>2, FromIs
<1>4. /\ From(l, p + 1) \in Hex /\ Len(From(l, p + 1)) = Len(l) - (p + 1)
      /\ \A i \in 1..(Len(l) - (p + 1)) : From(l, p + 1)[i] = l[(p + 1) + i]
  BY <1>2, FromIs
<1>5. IsPrefix(shared, l) <=> Len(shared) <= Len(l) /\ \A i \in 1..Len(shared) : shared[i] = l[i]
  BY PrefixIs
<1> HIDE DEF rest
<1>6. IsPrefix(rest, From(l, p + 1)) <=>
        /\ Len(shared) - (p + 1) <= Len(l) - (p + 1)
        /\ \A i \in 1..(Len(shared) - (p + 1)) : rest[i] = From(l, p + 1)[i]
  BY <1>3, <1>4, PrefixIs
<1>7. ASSUME IsPrefix(shared, l) PROVE IsPrefix(rest, From(l, p + 1))
  <2>1. ASSUME NEW i \in 1..(Len(shared) - (p + 1)) PROVE rest[i] = From(l, p + 1)[i]
    <3>1. i \in 1..(Len(l) - (p + 1)) /\ (p + 1) + i \in 1..Len(shared)
      BY <1>1, <1>5, <1>7
    <3> QED
      BY <1>3, <1>4, <1>5, <1>7, <3>1
  <2> QED
    BY <1>1, <1>5, <1>6, <1>7, <2>1
<1>8. ASSUME IsPrefix(rest, From(l, p + 1)) PROVE IsPrefix(shared, l)
  <2>1. Len(shared) <= Len(l)
    BY <1>1, <1>6, <1>8
  <2>2. ASSUME NEW i \in 1..Len(shared) PROVE shared[i] = l[i]
    <3>1. CASE i <= p
      BY <3>1
    <3>2. CASE i = p + 1
      BY <3>2
    <3>3. CASE i > p + 1
      <4>1. PICK j \in 1..(Len(shared) - (p + 1)) : (p + 1) + j = i
        <5>1. i - (p + 1) \in 1..(Len(shared) - (p + 1)) /\ (p + 1) + (i - (p + 1)) = i
          BY <1>1, <3>3
        <5> QED
          BY <5>1
      <4>2. j \in 1..(Len(l) - (p + 1))
        BY <1>1, <2>1
      <4> QED
        BY <1>3, <1>4, <1>6, <1>8, <4>1, <4>2
    <3> QED
      BY <3>1, <3>2, <3>3
  <2> QED
    BY <1>5, <2>1, <2>2
<1>9. ASSUME IsPrefix(shared, l) PROVE From(From(l, p + 1), Len(rest)) = From(l, Len(shared))
  <2>1. p + 1 \in Nat /\ Len(rest) \in Nat /\ (p + 1) + Len(rest) = Len(shared) /\ Len(shared) <= Len(l)
    BY <1>1, <1>3, <1>5, <1>9
  <2>2. From(From(l, p + 1), Len(rest)) = From(l, (p + 1) + Len(rest))
    BY <2>1, FromFrom
  <2> QED
    BY <2>1, <2>2
<1> QED
  BY <1>7, <1>8, <1>9 DEF rest

-----------------------------------------------------------------------------
(* Insertion by the kind of the node.                                      *)

LEMMA InsertNil ==
  ASSUME NEW key \in Hex, NEW value
  PROVE  insert(NoNode, key, value) = Leaf(key, value)
<1>1. Sound(NoNode, {}) /\ ~Descends(At(NoNode, key)) /\ At(NoNode, key).node = NoNode
      /\ At(NoNode, key).key = key
  BY SoundNil, Ways
<1>2. insert(NoNode, key, value) = PutAt(At(NoNode, key), value)
  BY <1>1, InsertIs
<1>3. PutAt(At(NoNode, key), value) = Leaf(key, value)
  BY <1>1, Kinds DEF PutAt
<1> QED
  BY <1>2, <1>3

LEMMA InsertLeaf ==
  ASSUME NEW k \in Hex, NEW v \in Values, NEW key \in Hex, NEW value
  PROVE  insert(Leaf(k, v), key, value) = SplitLeaf(Leaf(k, v), key, value)
<1> DEFINE node == Leaf(k, v)
<1>1. Sound(node, {}) /\ ~Descends(At(node, key)) /\ At(node, key).node = node
      /\ At(node, key).key = key
  BY GetLeaf, Ways
<1>2. insert(node, key, value) = PutAt(At(node, key), value)
  BY <1>1, InsertIs
<1>3. node # NoNode /\ IsA(node, "leaf") /\ ~IsA(node, "branch") /\ ~IsA(node, "extension")
  BY Kinds
<1> HIDE DEF node
<1>4. PutAt(At(node, key), value) = SplitLeaf(node, key, value)
  BY <1>1, <1>3 DEF PutAt
<1> QED
  BY <1>2, <1>4 DEF node

LEMMA InsertExtension ==
  ASSUME NEW shared \in Hex, shared # <<>>, NEW next, next # NoNode, Sound(next, {}),
         NEW key \in Hex, NEW value
  PROVE  insert(Extension(shared, next), key, value) =
           IF IsPrefix(shared, key)
             THEN Extension(shared, insert(next, From(key, Len(shared)), value))
             ELSE SplitExtension(Extension(shared, next), key, value)
<1> DEFINE node == Extension(shared, next)
<1>1. Sound(node, {})
  BY GetExtension
<1>2. CASE IsPrefix(shared, key)
  <2>1. /\ Descends(At(node, key)) /\ Down(At(node, key)) = At(next, From(key, Len(shared)))
        /\ At(next, From(key, Len(shared))).node = next
        /\ At(next, From(key, Len(shared))).key = From(key, Len(shared))
        /\ At(node, key).node = node
    BY <1>2, Ways, SMTT(30)
  <2>2. insert(node, key, value) = WithBelow(At(node, key), insert(next, From(key, Len(shared)), value))
    BY <1>1, <2>1, InsertIs
  <2> QED
    BY <1>2, <2>1, <2>2, Kinds DEF WithBelow
<1>3. CASE ~IsPrefix(shared, key)
  <2>1. ~Descends(At(node, key)) /\ At(node, key).node = node /\ At(node, key).key = key
    BY <1>3, Ways
  <2>2. insert(node, key, value) = PutAt(At(node, key), value)
    BY <1>1, <2>1, InsertIs
  <2>3. PutAt(At(node, key), value) = SplitExtension(node, key, value)
    BY <2>1, Kinds DEF PutAt
  <2> QED
    BY <1>3, <2>2, <2>3
<1> QED
  BY <1>2, <1>3

LEMMA InsertBranch ==
  ASSUME NEW children, Children(children, {}), NEW key \in Hex, NEW value
  PROVE  insert(Branch(children), key, value) =
           IF key = <<>> THEN Branch([children EXCEPT ![Own] = Leaf(<<>>, value)])
           ELSE Branch([children EXCEPT ![key[1]] =
                          insert(children[key[1]], From(key, 1), value)])
<1> DEFINE node == Branch(children)
<1>1. Sound(node, {})
  BY GetBranch
<1>2. CASE key # <<>>
  <2>1. /\ Descends(At(node, key)) /\ Down(At(node, key)) = At(children[key[1]], From(key, 1))
        /\ At(children[key[1]], From(key, 1)).node = children[key[1]]
        /\ At(children[key[1]], From(key, 1)).key = From(key, 1)
        /\ At(node, key).node = node /\ At(node, key).key = key
    BY <1>2, Ways
  <2>2. insert(node, key, value) = WithBelow(At(node, key), insert(children[key[1]], From(key, 1), value))
    BY <1>1, <2>1, InsertIs
  <2> QED
    BY <1>2, <2>1, <2>2, Kinds DEF WithBelow
<1>3. CASE key = <<>>
  <2>1. ~Descends(At(node, key)) /\ At(node, key).node = node
    BY <1>3, Ways
  <2>2. insert(node, key, value) = PutAt(At(node, key), value)
    BY <1>1, <2>1, InsertIs
  <2>3. PutAt(At(node, key), value) = Branch([children EXCEPT ![Own] = Leaf(<<>>, value)])
    BY <2>1, Kinds DEF PutAt
  <2> QED
    BY <1>3, <2>2, <2>3
<1> QED
  BY <1>2, <1>3

-----------------------------------------------------------------------------
(* New branches.                                                           *)

\* The key under which Get finds a value that Place has put below p nibbles.
Stored(key, p) == IF p + 1 < Len(key) THEN key ELSE SubSeq(key, 1, p)

\* Get through a branch below a prefix.
LEMMA GetThrough ==
  ASSUME NEW prefix \in Hex, NEW children, Children(children, {}), NEW key \in Hex
  PROVE  /\ Sound(Below(prefix, children), {})
         /\ ~IsPrefix(prefix, key) => GetFrom(Below(prefix, children), key) = NotFound
         /\ key = prefix => GetFrom(Below(prefix, children), key) = OwnValue(children)
         /\ IsPrefix(prefix, key) /\ key # prefix =>
              /\ Len(prefix) < Len(key)
              /\ GetFrom(Below(prefix, children), key) =
                   GetFrom(children[key[Len(prefix) + 1]], From(key, Len(prefix) + 1))
<1> DEFINE n == Len(prefix)
<1>1. Sound(Below(prefix, children), {})
  BY GetBelow
<1>2. ASSUME ~IsPrefix(prefix, key)
      PROVE  GetFrom(Below(prefix, children), key) = NotFound
  BY <1>2, GetBelow
<1>3. n \in Nat /\ Len(key) \in Nat
  BY HexLength
<1>4. ASSUME key = prefix
      PROVE  GetFrom(Below(prefix, children), key) = OwnValue(children)
  <2>1. IsPrefix(prefix, key)
    BY <1>3, <1>4, PrefixIs
  <2>2. From(key, n) = <<>>
    <3>1. From(key, n) \in Hex /\ Len(From(key, n)) = Len(key) - n
      BY <1>3, <1>4, FromIs
    <3> QED
      BY <1>3, <1>4, <3>1, HexLength
  <2>3. From(key, n) \in Hex
    BY <2>1, Parted
  <2>4. GetFrom(Below(prefix, children), key) = GetFrom(Branch(children), From(key, n))
    BY <2>1, GetBelow
  <2> QED
    BY <2>2, <2>3, <2>4, GetBranch
<1>5. ASSUME IsPrefix(prefix, key), key # prefix
      PROVE  /\ n < Len(key)
             /\ GetFrom(Below(prefix, children), key) =
                  GetFrom(children[key[n + 1]], From(key, n + 1))
  <2>1. n <= Len(key) /\ \A i \in 1..n : key[i] = prefix[i]
    BY <1>5, PrefixIs
  <2>2. n # Len(key)
    BY <1>5, <2>1, HexEqual
  <2>3. n < Len(key)
    BY <1>3, <2>1, <2>2
  <2>4. From(key, n) # <<>> /\ From(key, n)[1] = key[n + 1] /\ From(From(key, n), 1) = From(key, n + 1)
    BY <1>3, <2>3, SameAfter
  <2>5. From(key, n) \in Hex
    BY <1>5, Parted
  <2>6. GetFrom(Below(prefix, children), key) = GetFrom(Branch(children), From(key, n))
    BY <1>5, GetBelow
  <2>7. GetFrom(Branch(children), From(key, n)) =
          GetFrom(children[From(key, n)[1]], From(From(key, n), 1))
    BY <2>4, <2>5, GetBranch
  <2> QED
    BY <2>3, <2>4, <2>6, <2>7
<1> QED
  BY <1>1, <1>2, <1>4, <1>5

\* A changed child.
Changed(c, children, i, new) == c = [children EXCEPT ![i] = new]

LEMMA ChildrenExcept ==
  ASSUME NEW what, NEW children, Children(children, what), NEW i \in 0..Radix, NEW new,
         Sound(new, what), i = Own => new = NoNode \/ IsLeaf(new),
         NEW c, Changed(c, children, i, new)
  PROVE  /\ Children(c, what)
         /\ \A j \in 0..Radix : c[j] = IF j = i THEN new ELSE children[j]
<1>1. children = [j \in 0..Radix |-> children[j]]
  BY DEF Children
<1>2. c = [j \in 0..Radix |-> IF j = i THEN new ELSE children[j]]
  BY <1>1 DEF Changed
<1>3. c = [j \in 0..Radix |-> c[j]] /\ \A j \in 0..Radix : c[j] = IF j = i THEN new ELSE children[j]
  BY <1>2
<1>4. Children(c, what)
  BY <1>3, Slots DEF Children
<1> QED
  BY <1>3, <1>4

LEMMA ChildrenNone ==
  ASSUME NEW what
  PROVE  Children(NoChildren, what) /\ \A i \in 0..Radix : NoChildren[i] = NoNode
<1>1. \A i \in 0..Radix : NoChildren[i] = NoNode
  BY DEF NoChildren
<1>2. NoChildren = [i \in 0..Radix |-> NoChildren[i]]
  BY DEF NoChildren
<1> QED
  BY <1>1, <1>2, SoundNil, Slots DEF Children

LEMMA ChildrenLess ==
  ASSUME NEW what, NEW children, Children(children, what)
  PROVE  Children(children, {})
<1>1. \A i \in 0..Radix : Sound(children[i], {})
  BY SoundLess DEF Children
<1> QED
  BY <1>1 DEF Children

\* What Place changes: the slot it fills, and the answer for the key it stores.
LEMMA PlaceIs ==
  ASSUME NEW what, NEW children, Children(children, what), NEW key \in Hex,
         NEW p \in 0..Len(key), NEW value \in Values,
         p + 1 < Len(key) => children[key[p + 1]] = NoNode
  PROVE  /\ Children(Place(children, key, p, value), what)
         /\ \A i \in 0..Radix : Place(children, key, p, value)[i] =
              IF p + 1 < Len(key) /\ i = key[p + 1] THEN Leaf(From(key, p + 1), value)
              ELSE IF ~(p + 1 < Len(key)) /\ i = Own THEN Leaf(<<>>, value)
              ELSE children[i]
         /\ \A l \in Hex :
              GetFrom(Below(SubSeq(key, 1, p), Place(children, key, p, value)), l) =
                IF l = Stored(key, p) THEN value
                ELSE GetFrom(Below(SubSeq(key, 1, p), children), l)
<1> DEFINE c == Place(children, key, p, value)
           x == SubSeq(key, 1, p)
<1>1. p \in Nat /\ Len(key) \in Nat /\ p <= Len(key)
  BY HexLength
<1>2. x \in Hex /\ Len(x) = p /\ \A i \in 1..p : x[i] = key[i]
  BY UpToIs
<1>3. CASE p + 1 < Len(key)
  <2>1. p + 1 \in 1..Len(key) /\ p + 1 \in 0..Len(key) /\ p < Len(key)
    BY <1>1, <1>3
  <2>2. key[p + 1] \in Nibbles /\ key[p + 1] \in 0..Radix /\ key[p + 1] # Own
    BY <2>1, HexLength, Slots
  <2>3. From(key, p + 1) \in Hex
    BY <2>1, FromIs
  <2> DEFINE new == Leaf(From(key, p + 1), value)
  <2>4. Sound(new, what)
    BY <2>3, GetLeaf
  <2>5. Changed(c, children, key[p + 1], new)
    BY <1>3 DEF Place, Changed
  <2>6. Children(c, what) /\ \A j \in 0..Radix : c[j] = IF j = key[p + 1] THEN new ELSE children[j]
    <3> HIDE DEF c, new
    <3> QED
      BY <2>2, <2>4, <2>5, ChildrenExcept
  <2>7. Children(c, {}) /\ Children(children, {})
    BY <2>6, ChildrenLess
  <2> HIDE DEF c, x
  <2>8. OwnValue(c) = OwnValue(children)
    BY <2>2, <2>6, Slots DEF OwnValue
  <2>9. ASSUME NEW l \in Hex
        PROVE  GetFrom(Below(x, c), l) = IF l = key THEN value ELSE GetFrom(Below(x, children), l)
    <3>1. IsPrefix(x, key)
      BY <1>1, <1>2, PrefixIs
    <3>2. CASE ~IsPrefix(x, l)
      BY <1>2, <2>7, <3>1, <3>2, GetThrough
    <3>3. CASE l = x
      <4>1. l # key
        BY <1>2, <2>1, <3>3
      <4> QED
        BY <1>2, <2>7, <2>8, <3>3, <4>1, GetThrough
    <3>4. CASE IsPrefix(x, l) /\ l # x
      <4>1. /\ p < Len(l)
            /\ GetFrom(Below(x, c), l) = GetFrom(c[l[p + 1]], From(l, p + 1))
            /\ GetFrom(Below(x, children), l) = GetFrom(children[l[p + 1]], From(l, p + 1))
        BY <1>2, <2>7, <3>4, GetThrough
      <4>2. Len(l) \in Nat
        BY HexLength
      <4>3. p + 1 \in 1..Len(l) /\ p + 1 \in 0..Len(l)
        BY <1>1, <4>1, <4>2
      <4>4. l[p + 1] \in 0..Radix /\ From(l, p + 1) \in Hex
        BY <4>3, HexLength, Slots, FromIs
      <4>5. \A i \in 1..p : l[i] = key[i]
        BY <1>2, <3>4, PrefixIs
      <4>6. l = key <=> l[p + 1] = key[p + 1] /\ From(l, p + 1) = From(key, p + 1)
        BY <1>1, <2>1, <4>1, <4>5, SameAfter
      <4>7. GetFrom(new, From(l, p + 1)) = IF From(l, p + 1) = From(key, p + 1) THEN value ELSE NotFound
        BY <2>3, <4>4, GetLeaf
      <4>8. GetFrom(NoNode, From(l, p + 1)) = NotFound
        BY <4>4, GetNil
      <4>9. CASE l[p + 1] = key[p + 1]
        <5>1. c[l[p + 1]] = new /\ children[l[p + 1]] = NoNode
          BY <1>3, <2>6, <4>4, <4>9
        <5> QED
          BY <4>1, <4>6, <4>7, <4>8, <4>9, <5>1
      <4>10. CASE l[p + 1] # key[p + 1]
        <5>1. c[l[p + 1]] = children[l[p + 1]]
          BY <2>6, <4>4, <4>10
        <5> QED
          BY <4>1, <4>6, <4>10, <5>1
      <4> QED
        BY <4>9, <4>10
    <3> QED
      BY <3>2, <3>3, <3>4
  <2> QED
    BY <1>3, <2>6, <2>9 DEF Stored, c, x
<1>4. CASE ~(p + 1 < Len(key))
  <2> DEFINE new == Leaf(<<>>, value)
  <2>1. <<>> \in Hex
    BY EmptySeq DEF Hex
  <2>2. Sound(new, what) /\ IsLeaf(new) /\ new.Value = value /\ new # NoNode
    BY <2>1, GetLeaf, Kinds
  <2>3. Changed(c, children, Own, new)
    BY <1>4 DEF Place, Changed
  <2>4. Children(c, what) /\ \A j \in 0..Radix : c[j] = IF j = Own THEN new ELSE children[j]
    <3> HIDE DEF c, new
    <3> QED
      BY <2>2, <2>3, Slots, ChildrenExcept
  <2>5. Children(c, {}) /\ Children(children, {})
    BY <2>4, ChildrenLess
  <2> HIDE DEF c, x
  <2>6. OwnValue(c) = value
    <3>1. c[Own] = new
      BY <2>4, Slots
    <3> QED
      BY <2>2, <3>1 DEF OwnValue
  <2>7. ASSUME NEW l \in Hex
        PROVE  GetFrom(Below(x, c), l) = IF l = x THEN value ELSE GetFrom(Below(x, children), l)
    <3>1. CASE ~IsPrefix(x, l)
      <4>1. l # x
        BY <1>1, <1>2, <3>1, PrefixIs
      <4> QED
        BY <1>2, <2>5, <3>1, <4>1, GetThrough
    <3>2. CASE l = x
      BY <1>2, <2>5, <2>6, <3>2, GetThrough
    <3>3. CASE IsPrefix(x, l) /\ l # x
      <4>1. /\ p < Len(l)
            /\ GetFrom(Below(x, c), l) = GetFrom(c[l[p + 1]], From(l, p + 1))
            /\ GetFrom(Below(x, children), l) = GetFrom(children[l[p + 1]], From(l, p + 1))
        BY <1>2, <2>5, <3>3, GetThrough
      <4>2. Len(l) \in Nat /\ p + 1 \in 1..Len(l)
        BY <1>1, <4>1, HexLength
      <4>3. l[p + 1] \in 0..Radix /\ l[p + 1] # Own
        BY <4>2, HexLength, Slots
      <4>4. c[l[p + 1]] = children[l[p + 1]]
        BY <2>4, <4>3
      <4> QED
        BY <3>3, <4>1, <4>4
    <3> QED
      BY <3>1, <3>2, <3>3
  <2> QED
    BY <1>4, <2>4, <2>7 DEF Stored, c, x
<1> QED
  BY <1>3, <1>4

\* What is left of a shared path, or the node below where nothing is left.
LEMMA GetRest ==
  ASSUME NEW shared \in Hex, NEW next, next # NoNode, Sound(next, {}), NEW key \in Hex
  PROVE  GetFrom(IF shared = <<>> THEN next ELSE Extension(shared, next), key) =
           IF IsPrefix(shared, key) THEN GetFrom(next, From(key, Len(shared))) ELSE NotFound
<1>1. CASE shared # <<>>
  BY <1>1, GetExtension
<1>2. CASE shared = <<>>
  <2>1. Len(shared) = 0 /\ IsPrefix(shared, key)
    BY <1>2, HexLength, PrefixIs
  <2>2. From(key, Len(shared)) = key
    BY <2>1, SubSeqFull DEF From, Hex
  <2> QED
    BY <1>2, <2>1, <2>2
<1> QED
  BY <1>1, <1>2

-----------------------------------------------------------------------------
(* Leaves on the way.                                                      *)

\* The way along key ends at a leaf with what is left of key.
LeafAt(node, key) ==
  IsA(End(node, key).node, "leaf") /\ End(node, key).node.Key = End(node, key).key

LEMMA LeafAtEnds ==
  ASSUME NEW key \in Hex
  PROVE  /\ ~LeafAt(NoNode, key)
         /\ \A k \in Hex, v \in Values : LeafAt(Leaf(k, v), key) <=> key = k
         /\ \A shared \in Hex : \A next :
              shared # <<>> /\ next # NoNode /\ Sound(next, {}) =>
                (LeafAt(Extension(shared, next), key) <=>
                   IsPrefix(shared, key) /\ LeafAt(next, From(key, Len(shared))))
         /\ \A children : Children(children, {}) =>
              (LeafAt(Branch(children), key) <=>
                 key # <<>> /\ LeafAt(children[key[1]], From(key, 1)))
<1>1. \A node, k : At(node, k).node = node /\ At(node, k).key = k
  BY DEF At
<1>2. ~LeafAt(NoNode, key)
  <2>1. End(NoNode, key) = At(NoNode, key)
    BY SoundNil, Ways, EndIs
  <2> QED
    BY <1>1, <2>1, Kinds DEF LeafAt
<1>3. ASSUME NEW k \in Hex, NEW v \in Values PROVE LeafAt(Leaf(k, v), key) <=> key = k
  <2>1. End(Leaf(k, v), key) = At(Leaf(k, v), key)
    BY GetLeaf, Ways, EndIs
  <2>2. At(Leaf(k, v), key).node = Leaf(k, v) /\ At(Leaf(k, v), key).key = key
    BY <1>1
  <2> QED
    BY <2>1, <2>2, Kinds DEF LeafAt
<1>4. ASSUME NEW shared \in Hex, NEW next, shared # <<>>, next # NoNode, Sound(next, {})
      PROVE  LeafAt(Extension(shared, next), key) <=>
               IsPrefix(shared, key) /\ LeafAt(next, From(key, Len(shared)))
  <2>1. Sound(Extension(shared, next), {})
    BY <1>4, GetExtension
  <2>2. CASE IsPrefix(shared, key)
    <3>1. Descends(At(Extension(shared, next), key)) /\ Down(At(Extension(shared, next), key)) = At(next, From(key, Len(shared)))
      BY <2>2, Ways, SMTT(30)
    <3>2. End(Extension(shared, next), key) = End(next, From(key, Len(shared)))
      BY <1>1, <2>1, <3>1, EndIs
    <3> QED
      BY <2>2, <3>2 DEF LeafAt
  <2>3. CASE ~IsPrefix(shared, key)
    <3>1. End(Extension(shared, next), key) = At(Extension(shared, next), key)
      BY <2>1, <2>3, Ways, EndIs
    <3>2. At(Extension(shared, next), key).node = Extension(shared, next)
      BY <1>1
    <3> QED
      BY <2>3, <3>1, <3>2, Kinds DEF LeafAt
  <2> QED
    BY <2>2, <2>3
<1>5. ASSUME NEW children, Children(children, {})
      PROVE  LeafAt(Branch(children), key) <=> key # <<>> /\ LeafAt(children[key[1]], From(key, 1))
  <2>1. Sound(Branch(children), {})
    BY <1>5, GetBranch
  <2>2. CASE key # <<>>
    <3>1. Descends(At(Branch(children), key)) /\ Down(At(Branch(children), key)) = At(children[key[1]], From(key, 1))
      BY <2>2, Ways
    <3>2. End(Branch(children), key) = End(children[key[1]], From(key, 1))
      BY <1>1, <2>1, <3>1, EndIs
    <3> QED
      BY <2>2, <3>2 DEF LeafAt
  <2>3. CASE key = <<>>
    <3>1. End(Branch(children), key) = At(Branch(children), key)
      BY <2>1, <2>3, Ways, EndIs
    <3>2. At(Branch(children), key).node = Branch(children)
      BY <1>1
    <3> QED
      BY <2>3, <3>1, <3>2, Kinds DEF LeafAt
  <2> QED
    BY <2>2, <2>3
<1> QED
  BY <1>2, <1>3, <1>4, <1>5

LEMMA LeafThrough ==
  ASSUME NEW prefix \in Hex, NEW children, Children(children, {}), NEW key \in Hex
  PROVE  LeafAt(Below(prefix, children), key) <=>
           /\ IsPrefix(prefix, key) /\ key # prefix
           /\ LeafAt(children[key[Len(prefix) + 1]], From(key, Len(prefix) + 1))
<1> DEFINE n == Len(prefix)
<1>1. n \in Nat /\ Len(key) \in Nat
  BY HexLength
<1>2. LeafAt(Below(prefix, children), key) <=>
        IsPrefix(prefix, key) /\ LeafAt(Branch(children), From(key, n))
  <2>1. CASE prefix = <<>>
    <3>1. n = 0 /\ IsPrefix(prefix, key)
      BY <2>1, HexLength, PrefixIs
    <3>2. From(key, n) = key
      BY <3>1, SubSeqFull DEF From, Hex
    <3> QED
      BY <2>1, <3>1, <3>2 DEF Below
  <2>2. CASE prefix # <<>>
    <3>1. Sound(Branch(children), {}) /\ Branch(children) # NoNode
      BY GetBranch, Kinds
    <3> QED
      BY <2>2, <3>1, LeafAtEnds DEF Below
  <2> QED
    BY <2>1, <2>2
<1>3. ASSUME IsPrefix(prefix, key)
      PROVE  LeafAt(Branch(children), From(key, n)) <=>
               key # prefix /\ LeafAt(children[key[n + 1]], From(key, n + 1))
  <2>1. /\ n \in 0..Len(key) /\ From(key, n) \in Hex /\ Len(From(key, n)) = Len(key) - n
        /\ \A i \in 1..n : key[i] = prefix[i]
    BY <1>3, Parted, PrefixIs
  <2>2. CASE n = Len(key)
    <3>1. From(key, n) = <<>> /\ key = prefix
      BY <1>1, <2>1, <2>2, HexLength, HexEqual
    <3> QED
      BY <2>1, <3>1, LeafAtEnds
  <2>3. CASE n # Len(key)
    <3>1. n < Len(key)
      BY <1>1, <2>1, <2>3
    <3>2. From(key, n) # <<>> /\ From(key, n)[1] = key[n + 1] /\ From(From(key, n), 1) = From(key, n + 1)
      BY <1>1, <3>1, SameAfter
    <3>3. key # prefix
      BY <2>3
    <3> QED
      BY <2>1, <3>2, <3>3, LeafAtEnds
  <2> QED
    BY <2>2, <2>3
<1> QED
  BY <1>2, <1>3

\* No leaf is new but the one of key.
Leaves(new, key, node) == \A l \in Hex : LeafAt(new, l) => l = key \/ LeafAt(node, l)

LEMMA PlaceLeaves ==
  ASSUME NEW children, Children(children, {}), NEW key \in Hex,
         NEW p \in 0..Len(key), NEW value \in Values,
         p + 1 < Len(key) => children[key[p + 1]] = NoNode
  PROVE  Leaves(Below(SubSeq(key, 1, p), Place(children, key, p, value)), key,
                Below(SubSeq(key, 1, p), children))
<1> DEFINE c == Place(children, key, p, value)
           x == SubSeq(key, 1, p)
<1>1. p \in Nat /\ Len(key) \in Nat /\ p <= Len(key)
  BY HexLength
<1>2. x \in Hex /\ Len(x) = p /\ \A i \in 1..p : x[i] = key[i]
  BY UpToIs
<1>3. /\ Children(c, {})
      /\ \A i \in 0..Radix : c[i] =
              IF p + 1 < Len(key) /\ i = key[p + 1] THEN Leaf(From(key, p + 1), value)
              ELSE IF ~(p + 1 < Len(key)) /\ i = Own THEN Leaf(<<>>, value)
              ELSE children[i]
  BY PlaceIs
<1> HIDE DEF c, x
<1>4. ASSUME NEW l \in Hex, LeafAt(Below(x, c), l)
      PROVE  l = key \/ LeafAt(Below(x, children), l)
  <2>1. IsPrefix(x, l) /\ l # x /\ LeafAt(c[l[p + 1]], From(l, p + 1))
    BY <1>2, <1>3, <1>4, LeafThrough
  <2>2. p < Len(l) /\ \A i \in 1..p : l[i] = x[i]
    BY <1>2, <1>3, <2>1, GetThrough, PrefixIs
  <2>3. Len(l) \in Nat /\ p + 1 \in 0..Len(l)
    BY <1>1, <2>2, HexLength
  <2>4. l[p + 1] \in 0..Radix /\ l[p + 1] # Own /\ From(l, p + 1) \in Hex
    BY <1>1, <2>2, <2>3, NibbleAt, FromIs
  <2>5. CASE p + 1 < Len(key) /\ l[p + 1] = key[p + 1]
    <3>1. c[l[p + 1]] = Leaf(From(key, p + 1), value)
      BY <1>3, <2>4, <2>5
    <3>2. p < Len(key) /\ p + 1 \in 0..Len(key)
      BY <1>1, <2>5
    <3>3. From(key, p + 1) \in Hex
      BY <3>2, FromIs
    <3>4. From(l, p + 1) = From(key, p + 1)
      BY <2>1, <2>4, <3>1, <3>3, LeafAtEnds
    <3>5. \A i \in 1..p : l[i] = key[i]
      BY <1>2, <2>2
    <3> QED
      BY <1>1, <2>2, <2>5, <3>2, <3>4, <3>5, SameAfter
  <2>6. CASE ~(p + 1 < Len(key) /\ l[p + 1] = key[p + 1])
    <3>1. c[l[p + 1]] = children[l[p + 1]]
      BY <1>3, <2>4, <2>6
    <3>2. LeafAt(children[l[p + 1]], From(l, p + 1))
      BY <2>1, <3>1
    <3> QED
      BY <1>2, <2>1, <3>2, LeafThrough
  <2> QED
    BY <2>5, <2>6
<1> QED
  BY <1>4 DEF Leaves, c, x

LEMMA LeafRest ==
  ASSUME NEW shared \in Hex, NEW next, next # NoNode, Sound(next, {}), NEW key \in Hex
  PROVE  LeafAt(IF shared = <<>> THEN next ELSE Extension(shared, next), key) <=>
           IsPrefix(shared, key) /\ LeafAt(next, From(key, Len(shared)))
<1>1. CASE shared # <<>>
  BY <1>1, LeafAtEnds
<1>2. CASE shared = <<>>
  <2>1. Len(shared) = 0 /\ IsPrefix(shared, key)
    BY <1>2, HexLength, PrefixIs
  <2>2. From(key, Len(shared)) = key
    BY <2>1, SubSeqFull DEF From, Hex
  <2> QED
    BY <1>2, <2>1, <2>2
<1> QED
  BY <1>1, <1>2

LEMMA SoundBelow ==
  ASSUME NEW what, NEW prefix \in Hex, NEW children, Children(children, what),
         "crowded" \in what => Crowded(children),
         NEW l \in Hex, GetFrom(Below(prefix, children), l) # NotFound
  PROVE  Sound(Below(prefix, children), what) /\ Below(prefix, children) # NoNode
<1>1. Children(children, {})
  BY ChildrenLess
<1>2. IsPrefix(prefix, l) /\ GetFrom(Branch(children), From(l, Len(prefix))) # NotFound
  BY <1>1, GetBelow
<1>3. From(l, Len(prefix)) \in Hex
  BY <1>2, Parted
<1>4. Sound(Branch(children), what) /\ Branch(children) # NoNode
  BY <1>2, <1>3, SoundBranch, Kinds DEF Children, Readable
<1>5. CASE prefix = <<>>
  BY <1>4, <1>5 DEF Below
<1>6. CASE prefix # <<>>
  <2>1. Below(prefix, children) = Extension(prefix, Branch(children))
    BY <1>6 DEF Below
  <2>2. Readable(Extension(prefix, Branch(children)))
    BY <2>1 DEF Readable
  <2> QED
    BY <1>4, <1>6, <2>1, <2>2, SoundExtension, Kinds
<1> QED
  BY <1>5, <1>6

LEMMA TwoFilled ==
  ASSUME NEW children, NEW a \in 0..Radix, NEW b \in 0..Radix, a # b,
         children[a] # NoNode, children[b] # NoNode
  PROVE  Crowded(children)
BY DEF Crowded

\* Get finds value under at, and otherwise what it finds at node.
Adds(new, at, value, node) ==
  at \in Hex /\ \A l \in Hex : GetFrom(new, l) = IF l = at THEN value ELSE GetFrom(node, l)

\* Get finds value under at, v under b and nothing else.
Holds(new, at, value, b, v) ==
  /\ at \in Hex /\ b \in Hex
  /\ \A l \in Hex : GetFrom(new, l) =
       IF l = at THEN value ELSE IF l = b THEN v ELSE NotFound

\* Splitting an extension adds one key to what Get finds.
LEMMA SplitExtensionIs ==
  ASSUME NEW what, NEW shared \in Hex, shared # <<>>, NEW next, next # NoNode,
         Sound(next, what), NEW key \in Hex, ~IsPrefix(shared, key), NEW value \in Values,
         NEW p, p = sharedPrefix(key, shared), NEW new,
         new = SplitExtension(Extension(shared, next), key, value)
  PROVE  /\ Sound(new, what) /\ new # NoNode
         /\ p \in 0..Len(key) /\ Adds(new, Stored(key, p), value, Extension(shared, next))
         /\ Leaves(new, key, Extension(shared, next))
<1> DEFINE x    == SubSeq(key, 1, p)
           rest == From(shared, p + 1)
           deep == IF rest = <<>> THEN next ELSE Extension(rest, next)
           old  == [NoChildren EXCEPT ![shared[p + 1]] = deep]
           c    == Place(old, key, p, value)
<1>1. Len(key) \in Nat /\ Len(shared) \in Nat
  BY HexLength
<1>2. /\ p \in 0..Len(key) /\ p \in 0..Len(shared) /\ \A i \in 1..p : key[i] = shared[i]
      /\ p < Len(key) /\ p < Len(shared) => key[p + 1] # shared[p + 1]
  BY SharedIs
<1>3. p \in Nat /\ p < Len(shared) /\ p + 1 \in 1..Len(shared) /\ p + 1 \in 0..Len(shared)
  BY <1>1, <1>2, NotPrefix
<1>4. /\ x \in Hex /\ Len(x) = p /\ \A i \in 1..p : x[i] = key[i]
      /\ SubSeq(shared, 1, p) = x
  <2>1. /\ x \in Hex /\ Len(x) = p /\ \A i \in 1..p : x[i] = key[i]
        /\ SubSeq(shared, 1, p) \in Hex /\ Len(SubSeq(shared, 1, p)) = p
        /\ \A i \in 1..p : SubSeq(shared, 1, p)[i] = shared[i]
    BY <1>2, UpToIs
  <2> HIDE DEF x
  <2>2. SubSeq(shared, 1, p) = x
    BY <1>2, <2>1, HexEqual
  <2> QED
    BY <2>1, <2>2
<1>5. rest \in Hex /\ Len(rest) = Len(shared) - (p + 1) /\ \A i \in 1..(Len(shared) - (p + 1)) : rest[i] = shared[(p + 1) + i]
  BY <1>3, FromIs
<1>6. Sound(next, {})
  BY SoundLess
<1>7. new = Below(x, c)
  <2>1. Extension(shared, next).Shared = shared /\ Extension(shared, next).Next = next
    BY Kinds
  <2>2. new = Below(SubSeq(shared, 1, p), c)
    BY <2>1 DEF SplitExtension
  <2> QED
    BY <1>4, <2>2
<1>8. Sound(deep, what) /\ deep # NoNode
  <2>1. CASE rest = <<>>
    BY <2>1
  <2>2. CASE rest # <<>>
    <3>1. ASSUME "live" \in what PROVE Readable(Extension(rest, next))
      <4>1. PICK m \in Hex : GetFrom(next, m) # NotFound
        BY <3>1, SoundIs DEF Readable
      <4>2. rest \o m \in Hex /\ IsPrefix(rest, rest \o m) /\ From(rest \o m, Len(rest)) = m
        BY <1>5, Joined
      <4>3. GetFrom(Extension(rest, next), rest \o m) = GetFrom(next, m)
        BY <1>5, <1>6, <2>2, <4>2, GetExtension
      <4> QED
        BY <4>1, <4>2, <4>3 DEF Readable
    <3>2. Sound(Extension(rest, next), what)
      BY <1>5, <2>2, <3>1, SoundExtension
    <3> QED
      BY <2>2, <3>2, Kinds
  <2> QED
    BY <2>1, <2>2
<1>9. shared[p + 1] \in Nibbles /\ shared[p + 1] \in 0..Radix /\ shared[p + 1] # Own
  BY <1>3, HexLength, Slots
<1>10. \A m \in Hex : GetFrom(deep, m) = IF IsPrefix(rest, m) THEN GetFrom(next, From(m, Len(rest))) ELSE NotFound
  BY <1>5, <1>6, GetRest
<1> HIDE DEF x, rest, deep
<1>11. Children(old, what) /\ \A j \in 0..Radix : old[j] = IF j = shared[p + 1] THEN deep ELSE NoNode
  <2>1. Changed(old, NoChildren, shared[p + 1], deep)
    BY DEF Changed
  <2>2. Children(NoChildren, what) /\ \A j \in 0..Radix : NoChildren[j] = NoNode
    BY ChildrenNone
  <2> HIDE DEF old
  <2>3. Children(old, what) /\ \A j \in 0..Radix : old[j] = IF j = shared[p + 1] THEN deep ELSE NoChildren[j]
    BY <1>8, <1>9, <2>1, <2>2, ChildrenExcept
  <2> QED
    BY <2>2, <2>3
<1> HIDE DEF old, c
<1>12. p + 1 < Len(key) => key[p + 1] \in 0..Radix /\ key[p + 1] # shared[p + 1] /\ old[key[p + 1]] = NoNode
  <2> SUFFICES ASSUME p + 1 < Len(key)
               PROVE  key[p + 1] \in 0..Radix /\ key[p + 1] # shared[p + 1] /\ old[key[p + 1]] = NoNode
    OBVIOUS
  <2>1. p < Len(key) /\ p + 1 \in 1..Len(key)
    BY <1>1, <1>3
  <2>2. key[p + 1] \in 0..Radix /\ key[p + 1] # shared[p + 1]
    BY <1>2, <1>3, <2>1, HexLength, Slots
  <2> QED
    BY <1>11, <2>2
<1>13. /\ Children(c, what)
       /\ \A i \in 0..Radix : c[i] =
              IF p + 1 < Len(key) /\ i = key[p + 1] THEN Leaf(From(key, p + 1), value)
              ELSE IF ~(p + 1 < Len(key)) /\ i = Own THEN Leaf(<<>>, value)
              ELSE old[i]
       /\ \A l \in Hex : GetFrom(Below(x, c), l) =
              IF l = Stored(key, p) THEN value ELSE GetFrom(Below(x, old), l)
  BY <1>2, <1>11, <1>12, PlaceIs DEF c, x
<1>14. Crowded(c)
  <2>1. c[shared[p + 1]] = deep
    BY <1>9, <1>11, <1>12, <1>13
  <2>2. CASE p + 1 < Len(key)
    <3>1. c[key[p + 1]] # NoNode
      BY <1>12, <1>13, <2>2, Kinds
    <3> QED
      BY <1>8, <1>9, <1>12, <2>1, <2>2, <3>1, TwoFilled
  <2>3. CASE ~(p + 1 < Len(key))
    <3>1. c[Own] # NoNode
      BY <1>13, <2>3, Kinds, Slots
    <3> QED
      BY <1>8, <1>9, <2>1, <3>1, TwoFilled, Slots
  <2> QED
    BY <2>2, <2>3
<1>15. Stored(key, p) \in Hex
  BY <1>4 DEF Stored, x
<1>16. Sound(new, what) /\ new # NoNode
  <2>1. GetFrom(Below(x, c), Stored(key, p)) = value /\ value # NotFound
    BY <1>13, <1>15, TrieAssumption
  <2>2. GetFrom(Below(x, c), Stored(key, p)) # NotFound /\ Children(c, what) /\ x \in Hex
    BY <1>4, <1>13, <2>1
  <2>3. Sound(Below(x, c), what) /\ Below(x, c) # NoNode
    BY <1>14, <1>15, <2>2, SoundBelow
  <2> QED
    BY <1>7, <2>3
<1>17. ASSUME NEW l \in Hex
       PROVE  GetFrom(Below(x, old), l) = GetFrom(Extension(shared, next), l)
  <2>1. Children(old, {})
    BY <1>11, ChildrenLess
  <2>2. GetFrom(Extension(shared, next), l) =
          IF IsPrefix(shared, l) THEN GetFrom(next, From(l, Len(shared))) ELSE NotFound
    BY <1>6, GetExtension
  <2>3. Len(l) \in Nat /\ (IsPrefix(shared, l) <=> Len(shared) <= Len(l) /\ \A i \in 1..Len(shared) : shared[i] = l[i])
    BY HexLength, PrefixIs
  <2>4. IsPrefix(x, l) <=> p <= Len(l) /\ \A i \in 1..p : shared[i] = l[i]
    <3>1. IsPrefix(x, l) <=> p <= Len(l) /\ \A i \in 1..p : x[i] = l[i]
      BY <1>4, PrefixIs
    <3> QED
      BY <1>2, <1>4, <3>1
  <2>5. CASE ~IsPrefix(x, l)
    <3>1. ~IsPrefix(shared, l)
      BY <1>3, <2>3, <2>4, <2>5, <1>1
    <3> QED
      BY <1>4, <2>1, <2>2, <2>5, <3>1, GetThrough
  <2>6. CASE l = x
    <3>1. ~IsPrefix(shared, l)
      BY <1>1, <1>3, <1>4, <2>3, <2>6
    <3>2. OwnValue(old) = NotFound
      BY <1>9, <1>11, Slots DEF OwnValue
    <3> QED
      BY <1>4, <2>1, <2>2, <2>6, <3>1, <3>2, GetThrough
  <2>7. CASE IsPrefix(x, l) /\ l # x
    <3>1. /\ p < Len(l)
          /\ GetFrom(Below(x, old), l) = GetFrom(old[l[p + 1]], From(l, p + 1))
      BY <1>4, <2>1, <2>7, GetThrough
    <3>2. p + 1 \in 1..Len(l) /\ p + 1 \in 0..Len(l)
      BY <1>3, <2>3, <3>1
    <3>3. l[p + 1] \in 0..Radix
      BY <3>2, HexLength, Slots
    <3>4. /\ From(l, p + 1) \in Hex /\ Len(From(l, p + 1)) = Len(l) - (p + 1)
          /\ \A i \in 1..(Len(l) - (p + 1)) : From(l, p + 1)[i] = l[(p + 1) + i]
      BY <3>2, FromIs
    <3>5. CASE l[p + 1] # shared[p + 1]
      <4>1. ~IsPrefix(shared, l)
        BY <1>3, <2>3, <3>5
      <4>2. old[l[p + 1]] = NoNode
        BY <1>11, <3>3, <3>5
      <4> QED
        BY <2>2, <3>1, <3>4, <4>1, <4>2, GetNil
    <3>6. CASE l[p + 1] = shared[p + 1]
      <4>1. old[l[p + 1]] = deep
        BY <1>11, <3>3, <3>6
      <4>2. /\ IsPrefix(rest, From(l, p + 1)) <=> IsPrefix(shared, l)
            /\ IsPrefix(shared, l) => From(From(l, p + 1), Len(rest)) = From(l, Len(shared))
        BY <1>3, <2>4, <2>7, <3>1, <3>6, PrefixParts DEF rest
      <4> QED
        BY <1>10, <2>2, <3>1, <3>4, <4>1, <4>2
    <3> QED
      BY <3>5, <3>6
  <2> QED
    BY <2>5, <2>6, <2>7
<1>18. \A m \in Hex : LeafAt(deep, m) <=> IsPrefix(rest, m) /\ LeafAt(next, From(m, Len(rest)))
  BY <1>5, <1>6, LeafRest DEF deep
<1>19. ASSUME NEW l \in Hex, LeafAt(Below(x, old), l) PROVE LeafAt(Extension(shared, next), l)
  <2>1. Children(old, {})
    BY <1>11, ChildrenLess
  <2>2. IsPrefix(x, l) /\ l # x /\ LeafAt(old[l[p + 1]], From(l, p + 1))
    BY <1>4, <1>19, <2>1, LeafThrough
  <2>3. p < Len(l) /\ \A i \in 1..p : shared[i] = l[i]
    BY <1>2, <1>4, <2>1, <2>2, GetThrough, PrefixIs
  <2>4. Len(l) \in Nat /\ p + 1 \in 0..Len(l)
    BY <1>3, <2>3, HexLength
  <2>5. l[p + 1] \in 0..Radix /\ From(l, p + 1) \in Hex
    BY <1>3, <2>3, <2>4, NibbleAt, FromIs
  <2>6. l[p + 1] = shared[p + 1]
    BY <1>11, <2>2, <2>5, LeafAtEnds
  <2>7. IsPrefix(rest, From(l, p + 1)) /\ LeafAt(next, From(From(l, p + 1), Len(rest)))
    BY <1>11, <1>18, <2>2, <2>5, <2>6
  <2>8. /\ IsPrefix(rest, From(l, p + 1)) <=> IsPrefix(shared, l)
        /\ IsPrefix(shared, l) => From(From(l, p + 1), Len(rest)) = From(l, Len(shared))
    BY <1>3, <2>3, <2>6, PrefixParts DEF rest
  <2> QED
    BY <1>6, <2>7, <2>8, LeafAtEnds
<1>20. Leaves(new, key, Extension(shared, next))
  <2>1. Children(old, {})
    BY <1>11, ChildrenLess
  <2>2. Leaves(Below(x, c), key, Below(x, old))
    BY <1>2, <1>12, <2>1, PlaceLeaves DEF c, x
  <2> QED
    BY <1>7, <1>19, <2>2 DEF Leaves
<1> QED
  BY <1>2, <1>7, <1>13, <1>15, <1>16, <1>17, <1>20 DEF Adds

\* Splitting a leaf leaves the two keys, each where Place has put it.
LEMMA SplitLeafIs ==
  ASSUME NEW what, NEW k \in Hex, NEW v \in Values, NEW key \in Hex, key # k,
         NEW value \in Values, NEW p, p = sharedPrefix(key, k), NEW new,
         new = SplitLeaf(Leaf(k, v), key, value)
  PROVE  /\ Sound(new, what) /\ new # NoNode
         /\ p \in 0..Len(key) /\ p \in 0..Len(k)
         /\ Holds(new, Stored(key, p), value, Stored(k, p), v)
         /\ Leaves(new, key, Leaf(k, v))
<1> DEFINE x    == SubSeq(key, 1, p)
           node == Leaf(k, v)
           old  == IF p = Len(k) THEN [NoChildren EXCEPT ![Own] = node]
                   ELSE Place(NoChildren, k, p, v)
           c    == Place(old, key, p, value)
<1>1. Len(key) \in Nat /\ Len(k) \in Nat
  BY HexLength
<1>2. /\ p \in 0..Len(key) /\ p \in 0..Len(k) /\ \A i \in 1..p : key[i] = k[i]
      /\ p < Len(key) /\ p < Len(k) => key[p + 1] # k[p + 1]
  BY SharedIs
<1>3. p \in Nat
  BY <1>2
<1>4. /\ x \in Hex /\ Len(x) = p /\ SubSeq(k, 1, p) = x /\ SubSeq(k, 1, p) \in Hex
  <2>1. /\ x \in Hex /\ Len(x) = p /\ \A i \in 1..p : x[i] = key[i]
        /\ SubSeq(k, 1, p) \in Hex /\ Len(SubSeq(k, 1, p)) = p
        /\ \A i \in 1..p : SubSeq(k, 1, p)[i] = k[i]
    BY <1>2, UpToIs
  <2> HIDE DEF x
  <2>2. SubSeq(k, 1, p) = x
    BY <1>2, <2>1, HexEqual
  <2> QED
    BY <2>1, <2>2
<1>5. node.Key = k /\ node.Value = v /\ IsLeaf(node) /\ Sound(node, what) /\ node # NoNode
  BY GetLeaf, Kinds
<1>6. new = Below(x, c)
  <2> HIDE DEF node
  <2>1. SplitLeaf(node, key, value) = Below(x, c)
    BY <1>5 DEF SplitLeaf
  <2> QED
    BY <2>1 DEF node
<1>7. Stored(key, p) \in Hex /\ Stored(k, p) \in Hex
  BY <1>4 DEF Stored, x
<1>8. Children(NoChildren, what) /\ Children(NoChildren, {}) /\ \A i \in 0..Radix : NoChildren[i] = NoNode
  BY ChildrenNone
<1> HIDE DEF x, node
<1>9. ASSUME NEW l \in Hex PROVE GetFrom(Below(x, NoChildren), l) = NotFound
  <2>1. CASE ~IsPrefix(x, l)
    BY <1>4, <1>8, <2>1, GetThrough
  <2>2. CASE l = x
    BY <1>4, <1>8, <2>2, GetThrough, Slots DEF OwnValue
  <2>3. CASE IsPrefix(x, l) /\ l # x
    <3>1. /\ p < Len(l)
          /\ GetFrom(Below(x, NoChildren), l) = GetFrom(NoChildren[l[p + 1]], From(l, p + 1))
      BY <1>4, <1>8, <2>3, GetThrough
    <3>2. Len(l) \in Nat
      BY HexLength
    <3>3. p + 1 \in 1..Len(l) /\ p + 1 \in 0..Len(l)
      BY <1>3, <3>1, <3>2
    <3>4. l[p + 1] \in 0..Radix /\ From(l, p + 1) \in Hex
      BY <3>3, HexLength, Slots, FromIs
    <3> QED
      BY <1>8, <3>1, <3>4, GetNil
  <2> QED
    BY <2>1, <2>2, <2>3
<1>10. /\ Children(old, what)
       /\ \A l \in Hex : GetFrom(Below(x, old), l) = IF l = Stored(k, p) THEN v ELSE NotFound
       /\ \A i \in 0..Radix : old[i] # NoNode <=> i = IF p + 1 < Len(k) THEN k[p + 1] ELSE Own
  <2>1. CASE p = Len(k)
    <3>1. Changed(old, NoChildren, Own, node)
      BY <2>1 DEF Changed
    <3>2. Stored(k, p) = x /\ ~(p + 1 < Len(k))
      BY <1>3, <1>4, <2>1 DEF Stored
    <3> HIDE DEF old
    <3>3. Children(old, what) /\ \A j \in 0..Radix : old[j] = IF j = Own THEN node ELSE NoChildren[j]
      BY <1>5, <1>8, <3>1, ChildrenExcept, Slots
    <3>4. Children(old, {})
      BY <3>3, ChildrenLess
    <3>5. OwnValue(old) = v
      BY <1>5, <3>3, Slots DEF OwnValue
    <3>6. ASSUME NEW l \in Hex PROVE GetFrom(Below(x, old), l) = IF l = x THEN v ELSE NotFound
      <4>1. CASE ~IsPrefix(x, l)
        <5>1. l # x
          BY <1>3, <1>4, <4>1, PrefixIs
        <5> QED
          BY <1>4, <3>4, <4>1, <5>1, GetThrough
      <4>2. CASE l = x
        BY <1>4, <3>4, <3>5, <4>2, GetThrough
      <4>3. CASE IsPrefix(x, l) /\ l # x
        <5>1. /\ p < Len(l)
              /\ GetFrom(Below(x, old), l) = GetFrom(old[l[p + 1]], From(l, p + 1))
          BY <1>4, <3>4, <4>3, GetThrough
        <5>2. Len(l) \in Nat
          BY HexLength
        <5>3. p + 1 \in 1..Len(l) /\ p + 1 \in 0..Len(l)
          BY <1>3, <5>1, <5>2
        <5>4. l[p + 1] \in 0..Radix /\ l[p + 1] # Own /\ From(l, p + 1) \in Hex
          BY <5>3, HexLength, Slots, FromIs
        <5>5. old[l[p + 1]] = NoNode
          BY <1>8, <3>3, <5>4
        <5> QED
          BY <4>3, <5>1, <5>4, <5>5, GetNil
      <4> QED
        BY <4>1, <4>2, <4>3
    <3> QED
      BY <1>5, <1>8, <3>2, <3>3, <3>6
  <2>2. CASE p # Len(k)
    <3>1. old = Place(NoChildren, k, p, v)
      BY <2>2
    <3> HIDE DEF old
    <3>2. p + 1 < Len(k) => k[p + 1] \in 0..Radix
      <4>1. p + 1 < Len(k) => p < Len(k)
        BY <1>1, <1>3
      <4> QED
        BY <1>3, <4>1, NibbleAt
    <3>3. p + 1 < Len(k) => NoChildren[k[p + 1]] = NoNode
      BY <1>8, <3>2
    <3>4. /\ Children(old, what)
          /\ \A i \in 0..Radix : old[i] =
                 IF p + 1 < Len(k) /\ i = k[p + 1] THEN Leaf(From(k, p + 1), v)
                 ELSE IF ~(p + 1 < Len(k)) /\ i = Own THEN Leaf(<<>>, v)
                 ELSE NoChildren[i]
          /\ \A l \in Hex : GetFrom(Below(SubSeq(k, 1, p), old), l) =
                 IF l = Stored(k, p) THEN v ELSE GetFrom(Below(SubSeq(k, 1, p), NoChildren), l)
      BY <1>2, <1>8, <3>1, <3>3, PlaceIs
    <3>5. \A i \in 0..Radix : old[i] # NoNode <=> i = IF p + 1 < Len(k) THEN k[p + 1] ELSE Own
      BY <1>8, <3>4, Kinds
    <3> QED
      BY <1>4, <1>9, <3>4, <3>5
  <2> QED
    BY <2>1, <2>2
<1> HIDE DEF old, c
<1>11. p + 1 < Len(key) => /\ key[p + 1] \in 0..Radix /\ old[key[p + 1]] = NoNode
                           /\ key[p + 1] # IF p + 1 < Len(k) THEN k[p + 1] ELSE Own
  <2> SUFFICES ASSUME p + 1 < Len(key)
               PROVE  /\ key[p + 1] \in 0..Radix
                      /\ key[p + 1] # IF p + 1 < Len(k) THEN k[p + 1] ELSE Own
    BY <1>10
  <2>1. p < Len(key) /\ p + 1 \in 1..Len(key)
    BY <1>1, <1>3
  <2>2. key[p + 1] \in 0..Radix /\ key[p + 1] # Own
    BY <2>1, HexLength, Slots
  <2>3. p + 1 < Len(k) => p < Len(k)
    BY <1>1, <1>3
  <2> QED
    BY <1>2, <2>1, <2>2, <2>3
<1>12. /\ Children(c, what)
       /\ \A i \in 0..Radix : c[i] =
              IF p + 1 < Len(key) /\ i = key[p + 1] THEN Leaf(From(key, p + 1), value)
              ELSE IF ~(p + 1 < Len(key)) /\ i = Own THEN Leaf(<<>>, value)
              ELSE old[i]
       /\ \A l \in Hex : GetFrom(Below(x, c), l) =
              IF l = Stored(key, p) THEN value ELSE GetFrom(Below(x, old), l)
  BY <1>2, <1>10, <1>11, PlaceIs DEF c, x
<1>13. Crowded(c)
  <2> DEFINE a == IF p + 1 < Len(k) THEN k[p + 1] ELSE Own
             b == IF p + 1 < Len(key) THEN key[p + 1] ELSE Own
  <2>1. a \in 0..Radix /\ b \in 0..Radix
    <3>1. p + 1 < Len(k) => p < Len(k)
      BY <1>1, <1>3
    <3> QED
      BY <1>3, <1>11, <3>1, NibbleAt, Slots
  <2>2. c[b] # NoNode
    BY <1>12, <2>1, Kinds
  <2>3. c[a] # NoNode
    BY <1>10, <1>12, <2>1, Kinds
  <2>4. CASE a # b
    <3> HIDE DEF a, b
    <3> QED
      BY <2>1, <2>2, <2>3, <2>4, TwoFilled
  <2>5. CASE a = b
    <3>1. a = Own
      BY <1>11, <2>5
    <3> QED
      BY <2>3, <3>1 DEF Crowded
  <2> QED
    BY <2>4, <2>5
<1>14. Sound(new, what) /\ new # NoNode
  <2>1. GetFrom(Below(x, c), Stored(key, p)) = value /\ value # NotFound
    BY <1>7, <1>12, TrieAssumption
  <2> QED
    BY <1>4, <1>6, <1>7, <1>12, <1>13, <2>1, SoundBelow
<1>15. Leaves(Below(x, old), k, Below(x, NoChildren))
  <2>1. CASE p = Len(k)
    <3>1. ASSUME NEW l \in Hex PROVE ~LeafAt(Below(x, old), l)
      <4>1. Children(old, {})
        BY <1>10, ChildrenLess
      <4>2. SUFFICES ASSUME LeafAt(Below(x, old), l) PROVE FALSE
        OBVIOUS
      <4>3. IsPrefix(x, l) /\ l # x /\ LeafAt(old[l[p + 1]], From(l, p + 1))
        BY <1>4, <4>1, <4>2, LeafThrough
      <4>4. p < Len(l)
        BY <1>4, <4>1, <4>3, GetThrough
      <4>5. Len(l) \in Nat /\ p + 1 \in 0..Len(l)
        BY <1>3, <4>4, HexLength
      <4>6. l[p + 1] \in 0..Radix /\ l[p + 1] # Own /\ From(l, p + 1) \in Hex
        BY <1>3, <4>4, <4>5, NibbleAt, FromIs
      <4>7. ~(p + 1 < Len(k))
        BY <1>3, <2>1
      <4>8. old[l[p + 1]] = NoNode
        BY <1>10, <4>6, <4>7
      <4> QED
        BY <4>3, <4>6, <4>8, LeafAtEnds
    <3> QED
      BY <3>1 DEF Leaves
  <2>2. CASE p # Len(k)
    <3>1. old = Place(NoChildren, k, p, v)
      BY <2>2 DEF old
    <3>2. p + 1 < Len(k) => NoChildren[k[p + 1]] = NoNode
      <4>1. p + 1 < Len(k) => p < Len(k)
        BY <1>1, <1>3
      <4> QED
        BY <1>3, <1>8, <4>1, NibbleAt
    <3>3. Leaves(Below(SubSeq(k, 1, p), old), k, Below(SubSeq(k, 1, p), NoChildren))
      BY <1>2, <1>8, <3>1, <3>2, PlaceLeaves
    <3> QED
      BY <1>4, <3>3
  <2> QED
    BY <2>1, <2>2
<1>16. ASSUME NEW l \in Hex PROVE ~LeafAt(Below(x, NoChildren), l)
  <2>1. SUFFICES ASSUME LeafAt(Below(x, NoChildren), l) PROVE FALSE
    OBVIOUS
  <2>2. IsPrefix(x, l) /\ l # x /\ LeafAt(NoChildren[l[p + 1]], From(l, p + 1))
    BY <1>4, <1>8, <2>1, LeafThrough
  <2>3. p < Len(l)
    BY <1>4, <1>8, <2>2, GetThrough
  <2>4. Len(l) \in Nat /\ p + 1 \in 0..Len(l)
    BY <1>3, <2>3, HexLength
  <2>5. l[p + 1] \in 0..Radix /\ From(l, p + 1) \in Hex
    BY <1>3, <2>3, <2>4, NibbleAt, FromIs
  <2> QED
    BY <1>8, <2>2, <2>5, LeafAtEnds
<1>17. Leaves(Below(x, c), key, Below(x, old))
  <2>1. Children(old, {})
    BY <1>10, ChildrenLess
  <2> QED
    BY <1>2, <1>11, <2>1, PlaceLeaves DEF c, x
<1>18. Leaves(new, key, Leaf(k, v))
  BY <1>6, <1>15, <1>16, <1>17, LeafAtEnds DEF Leaves
<1> QED
  BY <1>2, <1>6, <1>7, <1>10, <1>12, <1>14, <1>18 DEF Holds

-----------------------------------------------------------------------------
(* Insertion keeps nodes sound.                                            *)

LEMMA InsertSound ==
  ASSUME NEW what, NEW value \in Values,
         "live" \in what => \A node, key : Sound(node, {}) /\ key \in Hex =>
                             Readable(insert(node, key, value))
  PROVE  \A node, key : Sound(node, what) /\ key \in Hex =>
           Sound(insert(node, key, value), what) /\ insert(node, key, value) # NoNode
<1> DEFINE Good(node, key) ==
             Sound(insert(node, key, value), what) /\ insert(node, key, value) # NoNode
           T == {n \in Nat : \A node, key :
                   Sound(node, what) /\ key \in Hex /\ Len(key) <= n => Good(node, key)}
<1>1. ASSUME NEW n \in Nat, NEW node, NEW key \in Hex, Sound(node, what), Len(key) <= n,
             \A x, k : Sound(x, what) /\ k \in Hex /\ Len(k) < n => Good(x, k)
      PROVE  Good(node, key)
  <2> HIDE DEF Good
  <2>1. Len(key) \in Nat
    BY HexLength
  <2>2. CASE node = NoNode
    BY <2>2, InsertNil, GetLeaf, Kinds DEF Good
  <2>6. Sound(node, {})
    BY <1>1, SoundLess
  <2>3. CASE IsLeaf(node)
    <3>1. PICK k \in Hex, v \in Values : node = Leaf(k, v)
      BY <2>3 DEF IsLeaf
    <3>2. insert(node, key, value) = SplitLeaf(Leaf(k, v), key, value)
      BY <3>1, InsertLeaf
    <3>3. CASE key # k
      BY <3>2, <3>3, SplitLeafIs DEF Good
    <3>4. CASE key = k
      <4>1. SplitLeaf(Leaf(k, v), key, value) = Leaf(k, value)
        BY <3>4, Kinds DEF SplitLeaf, Update, Leaf
      <4> QED
        BY <3>2, <4>1, GetLeaf, Kinds DEF Good
    <3> QED
      BY <3>3, <3>4
  <2>4. ASSUME NEW shared \in Hex, NEW next, shared # <<>>, next # NoNode,
               node = Extension(shared, next), Sound(next, what)
        PROVE  Good(node, key)
    <3>1. Sound(next, {})
      BY <2>4, SoundLess
    <3>2. CASE IsPrefix(shared, key)
      <4>1. insert(node, key, value) = Extension(shared, insert(next, From(key, Len(shared)), value))
        BY <2>4, <3>1, <3>2, InsertExtension
      <4>2. /\ From(key, Len(shared)) \in Hex
            /\ Len(From(key, Len(shared))) = Len(key) - Len(shared)
        BY <3>2, Parted
      <4>3. Len(shared) \in Nat /\ Len(shared) # 0
        BY <2>4, HexLength
      <4>4. Good(next, From(key, Len(shared)))
        BY <1>1, <2>1, <2>4, <4>2, <4>3
      <4>5. "live" \in what => Readable(insert(node, key, value))
        BY <2>6
      <4> QED
        BY <2>4, <4>1, <4>4, <4>5, SoundExtension, Kinds DEF Good
    <3>3. CASE ~IsPrefix(shared, key)
      <4>1. insert(node, key, value) = SplitExtension(Extension(shared, next), key, value)
        BY <2>4, <3>1, <3>3, InsertExtension
      <4> QED
        BY <2>4, <3>3, <4>1, SplitExtensionIs DEF Good
    <3> QED
      BY <3>2, <3>3
  <2>5. ASSUME NEW children, node = Branch(children), Children(children, what),
               "crowded" \in what => Crowded(children)
        PROVE  Good(node, key)
    <3>1. Children(children, {})
      BY <2>5, ChildrenLess
    <3> DEFINE i == IF key = <<>> THEN Own ELSE key[1]
               new == IF key = <<>> THEN Leaf(<<>>, value)
                      ELSE insert(children[key[1]], From(key, 1), value)
               c == [children EXCEPT ![i] = new]
    <3>2. insert(node, key, value) = Branch(c)
      BY <2>5, <3>1, InsertBranch
    <3>3. i \in 0..Radix /\ Sound(new, what) /\ new # NoNode /\ (i = Own => IsLeaf(new))
      <4>1. CASE key = <<>>
        <5>1. <<>> \in Hex
          BY EmptySeq DEF Hex
        <5> QED
          BY <4>1, <5>1, GetLeaf, Kinds, Slots
      <4>2. CASE key # <<>>
        <5>1. key[1] \in Nibbles /\ From(key, 1) \in Hex /\ Len(From(key, 1)) = Len(key) - 1
          BY <4>2, FirstNibble
        <5>2. key[1] \in 0..Radix /\ key[1] # Own
          BY <5>1, Slots
        <5>3. Sound(children[key[1]], what)
          BY <2>5, <5>2 DEF Children
        <5>4. Good(children[key[1]], From(key, 1))
          BY <1>1, <2>1, <5>1, <5>3
        <5> QED
          BY <4>2, <5>2, <5>4 DEF Good
      <4> QED
        BY <4>1, <4>2
    <3>4. Changed(c, children, i, new)
      BY DEF Changed
    <3> HIDE DEF c, new, i
    <3>5. Children(c, what) /\ \A j \in 0..Radix : c[j] = IF j = i THEN new ELSE children[j]
      BY <2>5, <3>3, <3>4, ChildrenExcept
    <3>6. \A j \in 0..Radix : children[j] # NoNode => c[j] # NoNode
      BY <3>3, <3>5
    <3>7. Crowded(children) => Crowded(c)
      BY <3>6, Slots DEF Crowded
    <3>8. "live" \in what => Readable(Branch(c))
      BY <2>6, <3>2
    <3>9. Sound(Branch(c), what)
      BY <2>5, <3>5, <3>7, <3>8, SoundBranch DEF Children
    <3> QED
      BY <3>2, <3>9, Kinds DEF Good
  <2> QED
    BY <1>1, <2>2, <2>3, <2>4, <2>5, SoundIs DEF Children
<1>2. 0 \in T
  BY <1>1
<1>3. ASSUME NEW n \in Nat, n \in T PROVE n + 1 \in T
  <2>1. ASSUME NEW x, NEW k, Sound(x, what), k \in Hex, Len(k) < n + 1 PROVE Good(x, k)
    <3>1. Len(k) <= n
      BY <2>1, HexLength
    <3> QED
      BY <1>3, <2>1, <3>1
  <2> QED
    BY <1>1, <2>1
<1> HIDE DEF T
<1>4. Nat \subseteq T
  BY <1>2, <1>3, NatInductive
<1>5. ASSUME NEW node, NEW key \in Hex, Sound(node, what) PROVE Good(node, key)
  <2>1. Len(key) \in T /\ Len(key) <= Len(key)
    BY <1>4, HexLength
  <2> QED
    BY <1>5, <2>1 DEF T
<1> QED
  BY <1>5

-----------------------------------------------------------------------------
(* What an insertion changes.                                              *)

\* Two keys below the same path.
LEMMA SharedLift ==
  ASSUME NEW s \in Hex, NEW a \in Hex, NEW b \in Hex
  PROVE  sharedPrefix(s \o a, s \o b) = Len(s) + sharedPrefix(a, b)
<1> DEFINE p == sharedPrefix(a, b)
           m == Len(s)
<1>1. m \in Nat /\ Len(a) \in Nat /\ Len(b) \in Nat
  BY HexLength
<1>2. /\ p \in 0..Len(a) /\ p \in 0..Len(b) /\ \A i \in 1..p : a[i] = b[i]
      /\ p < Len(a) /\ p < Len(b) => a[p + 1] # b[p + 1]
  BY SharedIs
<1>3. /\ s \o a \in Hex /\ Len(s \o a) = m + Len(a) /\ s \o b \in Hex /\ Len(s \o b) = m + Len(b)
      /\ \A i \in 1..(m + Len(a)) : (s \o a)[i] = IF i <= m THEN s[i] ELSE a[i - m]
      /\ \A i \in 1..(m + Len(b)) : (s \o b)[i] = IF i <= m THEN s[i] ELSE b[i - m]
  BY ConcatProperties DEF Hex
<1> DEFINE u == s \o a
           w == s \o b
<1> HIDE DEF p, m, u, w
<1>4. ASSUME NEW i \in 1..(m + p) PROVE u[i] = w[i]
  <2>1. i \in 1..(m + Len(a)) /\ i \in 1..(m + Len(b))
    BY <1>1, <1>2
  <2>2. CASE i <= m
    BY <1>3, <2>1, <2>2 DEF u, w
  <2>3. CASE ~(i <= m)
    <3>1. i - m \in 1..p
      BY <1>1, <1>2, <2>3
    <3> QED
      BY <1>2, <1>3, <2>1, <2>3, <3>1 DEF u, w
  <2> QED
    BY <2>2, <2>3
<1>5. ASSUME m + p < Len(u), m + p < Len(w) PROVE u[(m + p) + 1] # w[(m + p) + 1]
  <2>1. p < Len(a) /\ p < Len(b)
    BY <1>1, <1>2, <1>3, <1>5 DEF u, w
  <2>2. /\ (m + p) + 1 \in 1..(m + Len(a)) /\ (m + p) + 1 \in 1..(m + Len(b))
        /\ ~((m + p) + 1 <= m) /\ ((m + p) + 1) - m = p + 1
    BY <1>1, <1>2, <2>1
  <2>3. u[(m + p) + 1] = a[p + 1] /\ w[(m + p) + 1] = b[p + 1]
    BY <1>3, <2>2 DEF u, w
  <2> QED
    BY <1>2, <2>1, <2>3
<1>6. m + p \in Nat /\ m + p <= Len(u) /\ m + p <= Len(w) /\ u \in Hex /\ w \in Hex
  BY <1>1, <1>2, <1>3 DEF u, w
<1>7. sharedPrefix(u, w) = m + p
  BY <1>4, <1>5, <1>6, SharedUnique
<1> QED
  BY <1>7 DEF u, w, m, p

\* The insertion of key at node into new puts the value where Get finds it under
\* a, and moves what was found under b to c, and nothing else.  a is key, or key
\* lacks its last nibble, where another key parts from it; c is b, or b is a leaf
\* of the trie and c, under which nothing was found, lacks its last nibble likewise.
Effect(node, key, value, new, live, a, b, c) ==
  /\ \A l \in Hex : GetFrom(new, l) =
       IF l = a THEN value
       ELSE IF l = c THEN GetFrom(node, b)
       ELSE IF l = b THEN NotFound
       ELSE GetFrom(node, l)
  /\ \/ a = key
     \/ /\ Len(a) + 1 = Len(key)
        /\ live => \E y \in Hex : /\ GetFrom(node, y) # NotFound /\ y # key
                                  /\ sharedPrefix(key, y) + 1 = Len(key)
  /\ \/ c = b
     \/ /\ Len(c) + 1 = Len(b) /\ GetFrom(node, b) # NotFound /\ b # key
        /\ sharedPrefix(key, b) + 1 = Len(b) /\ GetFrom(node, c) = NotFound
        /\ IsA(End(node, b).node, "leaf") /\ End(node, b).node.Key = End(node, b).key
  /\ GetFrom(node, key) # NotFound => a = key /\ b = key /\ c = key
  /\ a # key => GetFrom(new, key) = NotFound

\* A plain insertion.
LEMMA EffectPlain ==
  ASSUME NEW node, NEW key \in Hex, NEW value, NEW new, NEW live,
         \A l \in Hex : GetFrom(new, l) = IF l = key THEN value ELSE GetFrom(node, l)
  PROVE  Effect(node, key, value, new, live, key, key, key)
BY DEF Effect

\* Below a path s, through which Get goes from node and from new.
LEMMA EffectLift ==
  ASSUME NEW s \in Hex, NEW node, NEW below, NEW new, NEW newBelow,
         NEW key \in Hex, NEW value, NEW live, NEW a \in Hex, NEW b \in Hex, NEW c \in Hex,
         Effect(below, key, value, newBelow, live, a, b, c),
         \A l \in Hex : /\ GetFrom(node, s \o l) = GetFrom(below, l)
                        /\ GetFrom(new, s \o l) = GetFrom(newBelow, l)
                        /\ End(node, s \o l) = End(below, l),
         \A l \in Hex : ~IsPrefix(s, l) => GetFrom(new, l) = GetFrom(node, l)
  PROVE  Effect(node, s \o key, value, new, live, s \o a, s \o b, s \o c)
<1>1. /\ \A l \in Hex : s \o l \in Hex /\ Len(s \o l) = Len(s) + Len(l) /\ IsPrefix(s, s \o l)
                        /\ From(s \o l, Len(s)) = l
  BY Joined
<1>2. \A l, m \in Hex : s \o l = s \o m <=> l = m
  <2> SUFFICES ASSUME NEW l \in Hex, NEW m \in Hex, s \o l = s \o m PROVE l = m
    OBVIOUS
  <2>1. From(s \o l, Len(s)) = l /\ From(s \o m, Len(s)) = m
    BY <1>1
  <2> QED
    BY <2>1
<1>3. Len(s) \in Nat /\ \A l \in Hex : Len(l) \in Nat
  BY HexLength
<1>4. \A l, m \in Hex : sharedPrefix(s \o l, s \o m) = Len(s) + sharedPrefix(l, m) /\ sharedPrefix(l, m) \in Nat
  BY SharedLift, SharedIs
<1>5. ASSUME NEW l \in Hex
      PROVE  GetFrom(new, l) = IF l = s \o a THEN value
                               ELSE IF l = s \o c THEN GetFrom(node, s \o b)
                               ELSE IF l = s \o b THEN NotFound
                               ELSE GetFrom(node, l)
  <2>1. CASE ~IsPrefix(s, l)
    BY <1>1, <2>1
  <2>2. CASE IsPrefix(s, l)
    <3>1. PICK m \in Hex : l = s \o m
      BY <2>2, Parted
    <3>2. GetFrom(newBelow, m) = IF m = a THEN value
                                 ELSE IF m = c THEN GetFrom(below, b)
                                 ELSE IF m = b THEN NotFound
                                 ELSE GetFrom(below, m)
      BY DEF Effect
    <3>3. GetFrom(new, l) = GetFrom(newBelow, m) /\ GetFrom(node, l) = GetFrom(below, m)
          /\ GetFrom(node, s \o b) = GetFrom(below, b)
      BY <3>1
    <3>4. (l = s \o a <=> m = a) /\ (l = s \o b <=> m = b) /\ (l = s \o c <=> m = c)
      BY <1>2, <3>1
    <3> QED
      BY <3>2, <3>3, <3>4
  <2> QED
    BY <2>1, <2>2
<1>6. \/ s \o a = s \o key
      \/ /\ Len(s \o a) + 1 = Len(s \o key)
         /\ live => \E y \in Hex : /\ GetFrom(node, y) # NotFound /\ y # s \o key
                                   /\ sharedPrefix(s \o key, y) + 1 = Len(s \o key)
  <2>1. CASE a = key
    BY <2>1
  <2>2. CASE a # key
    <3>1. /\ Len(a) + 1 = Len(key)
          /\ live => \E y \in Hex : /\ GetFrom(below, y) # NotFound /\ y # key
                                    /\ sharedPrefix(key, y) + 1 = Len(key)
      BY <2>2 DEF Effect
    <3>2. ASSUME live PROVE \E y \in Hex : /\ GetFrom(node, y) # NotFound /\ y # s \o key
                                           /\ sharedPrefix(s \o key, y) + 1 = Len(s \o key)
      <4>1. PICK y \in Hex : /\ GetFrom(below, y) # NotFound /\ y # key
                             /\ sharedPrefix(key, y) + 1 = Len(key)
        BY <3>1, <3>2
      <4>2. s \o y \in Hex /\ GetFrom(node, s \o y) # NotFound /\ s \o y # s \o key
        BY <1>1, <1>2, <4>1
      <4>3. sharedPrefix(s \o key, s \o y) + 1 = Len(s \o key)
        <5>1. sharedPrefix(s \o key, s \o y) = Len(s) + sharedPrefix(key, y) /\ sharedPrefix(key, y) \in Nat
          BY <1>4
        <5>2. Len(s \o key) = Len(s) + Len(key)
          BY <1>1
        <5> QED
          BY <1>3, <4>1, <5>1, <5>2
      <4> QED
        BY <4>2, <4>3
    <3>3. Len(s \o a) + 1 = Len(s \o key)
      <4>1. Len(s \o a) = Len(s) + Len(a) /\ Len(s \o key) = Len(s) + Len(key)
        BY <1>1
      <4> QED
        BY <1>3, <3>1, <4>1
    <3> QED
      BY <3>2, <3>3
  <2> QED
    BY <2>1, <2>2
<1>7. \/ s \o c = s \o b
      \/ /\ Len(s \o c) + 1 = Len(s \o b) /\ GetFrom(node, s \o b) # NotFound /\ s \o b # s \o key
         /\ sharedPrefix(s \o key, s \o b) + 1 = Len(s \o b) /\ GetFrom(node, s \o c) = NotFound
         /\ IsA(End(node, s \o b).node, "leaf") /\ End(node, s \o b).node.Key = End(node, s \o b).key
  <2>1. CASE c = b
    BY <2>1
  <2>2. CASE c # b
    <3>1. /\ Len(c) + 1 = Len(b) /\ GetFrom(below, b) # NotFound /\ b # key
          /\ sharedPrefix(key, b) + 1 = Len(b) /\ GetFrom(below, c) = NotFound
          /\ IsA(End(below, b).node, "leaf") /\ End(below, b).node.Key = End(below, b).key
      BY <2>2 DEF Effect
    <3>2. Len(s \o c) = Len(s) + Len(c) /\ Len(s \o b) = Len(s) + Len(b)
      BY <1>1
    <3>3. sharedPrefix(s \o key, s \o b) = Len(s) + sharedPrefix(key, b) /\ sharedPrefix(key, b) \in Nat
      BY <1>4
    <3>4. Len(s) \in Nat /\ Len(b) \in Nat /\ Len(c) \in Nat
      BY <1>3
    <3>5. Len(s \o c) + 1 = Len(s \o b) /\ sharedPrefix(s \o key, s \o b) + 1 = Len(s \o b)
      BY <3>1, <3>2, <3>3, <3>4
    <3>6. /\ GetFrom(node, s \o b) # NotFound /\ s \o b # s \o key /\ End(node, s \o b) = End(below, b)
          /\ GetFrom(node, s \o c) = NotFound
      BY <1>2, <3>1
    <3> QED
      BY <3>1, <3>5, <3>6
  <2> QED
    BY <2>1, <2>2
<1>8. ASSUME GetFrom(node, s \o key) # NotFound PROVE s \o a = s \o key /\ s \o b = s \o key /\ s \o c = s \o key
  <2>1. GetFrom(below, key) # NotFound
    BY <1>8
  <2>2. a = key /\ b = key /\ c = key
    BY <2>1 DEF Effect
  <2> QED
    BY <2>2
<1>9. ASSUME s \o a # s \o key PROVE GetFrom(new, s \o key) = NotFound
  <2>1. a # key
    BY <1>9
  <2>2. GetFrom(newBelow, key) = NotFound
    BY <2>1 DEF Effect
  <2> QED
    BY <2>2
<1> QED
  BY <1>5, <1>6, <1>7, <1>8, <1>9 DEF Effect

LEMMA EndExtension ==
  ASSUME NEW shared \in Hex, shared # <<>>, NEW next, next # NoNode, Sound(next, {}), NEW l \in Hex
  PROVE  /\ End(Extension(shared, next), shared \o l) = End(next, l)
         /\ GetFrom(Extension(shared, next), shared \o l) = GetFrom(next, l)
<1>1. Sound(Extension(shared, next), {})
  BY GetExtension
<1>2. shared \o l \in Hex /\ IsPrefix(shared, shared \o l) /\ From(shared \o l, Len(shared)) = l
  BY Joined
<1> DEFINE at == At(Extension(shared, next), shared \o l)
<1>3. Descends(at) /\ Down(at) = At(next, l) /\ At(next, l).node = next /\ At(next, l).key = l
  <2>1. PICK k \in Hex : k = shared \o l
    BY <1>2
  <2>2. /\ Descends(At(Extension(shared, next), k)) <=> IsPrefix(shared, k)
        /\ Down(At(Extension(shared, next), k)) = At(next, From(k, Len(shared)))
        /\ At(next, l).node = next /\ At(next, l).key = l
    BY Ways, ZenonT(60)
  <2> QED
    BY <1>2, <2>1, <2>2
<1>4. End(Extension(shared, next), shared \o l) = End(next, l)
  BY <1>1, <1>2, <1>3, EndIs
<1> QED
  BY <1>4, GetEnd

LEMMA EndBranch ==
  ASSUME NEW children, Children(children, {}), NEW i \in Nibbles, NEW l \in Hex
  PROVE  /\ End(Branch(children), <<i>> \o l) = End(children[i], l)
         /\ GetFrom(Branch(children), <<i>> \o l) = GetFrom(children[i], l)
<1>1. Sound(Branch(children), {})
  BY GetBranch
<1>2. /\ <<i>> \o l \in Hex /\ <<i>> \o l # <<>>
      /\ (<<i>> \o l)[1] = i /\ From(<<i>> \o l, 1) = l
  BY FirstNibble
<1> DEFINE at == At(Branch(children), <<i>> \o l)
<1>3. Descends(at) /\ Down(at) = At(children[i], l) /\ At(children[i], l).node = children[i] /\ At(children[i], l).key = l
  <2>1. PICK k \in Hex : k = <<i>> \o l
    BY <1>2
  <2>2. /\ Descends(At(Branch(children), k)) <=> k # <<>>
        /\ Down(At(Branch(children), k)) = At(children[k[1]], From(k, 1))
        /\ At(children[i], l).node = children[i] /\ At(children[i], l).key = l
    BY Ways, ZenonT(60)
  <2> QED
    BY <1>2, <2>1, <2>2
<1>4. End(Branch(children), <<i>> \o l) = End(children[i], l)
  BY <1>1, <1>2, <1>3, EndIs
<1> QED
  BY <1>4, GetEnd

\* Every insertion has such an effect.
LEMMA InsertEffect ==
  ASSUME NEW what, NEW value \in Values
  PROVE  \A node, key : Sound(node, what) /\ key \in Hex =>
           \E a, b, c \in Hex :
             Effect(node, key, value, insert(node, key, value), "live" \in what, a, b, c)
<1> DEFINE live == "live" \in what
           Good(node, key) ==
             \E a, b, c \in Hex : Effect(node, key, value, insert(node, key, value), live, a, b, c)
           T == {n \in Nat : \A node, key :
                   Sound(node, what) /\ key \in Hex /\ Len(key) <= n => Good(node, key)}
<1>0. \A node, key : Sound(node, {}) /\ key \in Hex =>
        Sound(insert(node, key, value), {}) /\ insert(node, key, value) # NoNode
  BY InsertSound
<1>1. ASSUME NEW n \in Nat, NEW node, NEW key \in Hex, Sound(node, what), Len(key) <= n,
             \A x, k : Sound(x, what) /\ k \in Hex /\ Len(k) < n => Good(x, k)
      PROVE  Good(node, key)
  <2>1. Len(key) \in Nat
    BY HexLength
  <2> HIDE DEF live
  <2>2. ASSUME \A l \in Hex : GetFrom(insert(node, key, value), l) =
                 IF l = key THEN value ELSE GetFrom(node, l)
        PROVE  Good(node, key)
    BY <2>2, EffectPlain
  <2> HIDE DEF Good
  <2>3. CASE node = NoNode
    <3>1. insert(node, key, value) = Leaf(key, value)
      BY <2>3, InsertNil
    <3>2. \A l \in Hex : GetFrom(Leaf(key, value), l) = IF l = key THEN value ELSE NotFound
      BY GetLeaf
    <3>3. \A l \in Hex : GetFrom(node, l) = NotFound
      BY <2>3, GetNil
    <3> QED
      BY <2>2, <3>1, <3>2, <3>3
  <2>4. CASE IsLeaf(node)
    <3>1. PICK k \in Hex, v \in Values : node = Leaf(k, v)
      BY <2>4 DEF IsLeaf
    <3>2. insert(node, key, value) = SplitLeaf(Leaf(k, v), key, value)
      BY <3>1, InsertLeaf
    <3>3. \A l \in Hex : GetFrom(node, l) = IF l = k THEN v ELSE NotFound
      BY <3>1, GetLeaf
    <3>4. CASE key # k
      <4> DEFINE p == sharedPrefix(key, k)
                 new == insert(node, key, value)
                 a == Stored(key, p)
                 c == Stored(k, p)
      <4>1. /\ a \in Hex /\ c \in Hex /\ p \in 0..Len(key) /\ p \in 0..Len(k)
            /\ \A l \in Hex : GetFrom(new, l) =
                 IF l = a THEN value ELSE IF l = c THEN v ELSE NotFound
        <5>1. p = sharedPrefix(key, k) /\ new = SplitLeaf(Leaf(k, v), key, value)
          BY <3>2
        <5> HIDE DEF p, new
        <5>2. /\ Sound(new, what) /\ p \in 0..Len(key) /\ p \in 0..Len(k)
              /\ Holds(new, Stored(key, p), value, Stored(k, p), v)
          BY <3>4, <5>1, SplitLeafIs
        <5> QED
          BY <5>2 DEF Holds
      <4>2. Len(k) \in Nat
        BY HexLength
      <4>3. ASSUME NEW l \in Hex
            PROVE  GetFrom(new, l) = IF l = a THEN value
                                     ELSE IF l = c THEN GetFrom(node, k)
                                     ELSE IF l = k THEN NotFound
                                     ELSE GetFrom(node, l)
        BY <3>3, <4>1
      <4>4. ASSUME NEW h \in Hex, p \in 0..Len(h), Stored(h, p) # h
            PROVE  Len(Stored(h, p)) + 1 = Len(h) /\ p + 1 = Len(h)
        <5>1. Len(h) \in Nat /\ ~(p + 1 < Len(h)) /\ Stored(h, p) = SubSeq(h, 1, p)
          BY <4>4, HexLength DEF Stored
        <5>2. p # Len(h)
          BY <4>4, <5>1, SubSeqFull DEF Hex
        <5>3. p + 1 = Len(h)
          BY <4>4, <5>1, <5>2
        <5>4. Len(SubSeq(h, 1, p)) = p
          BY <4>4, UpToIs
        <5> QED
          BY <5>1, <5>3, <5>4
      <4>5. a = key \/ /\ Len(a) + 1 = Len(key)
                       /\ \E y \in Hex : /\ GetFrom(node, y) # NotFound /\ y # key
                                         /\ sharedPrefix(key, y) + 1 = Len(key)
        <5>1. GetFrom(node, k) # NotFound
          BY <3>3, TrieAssumption
        <5> QED
          BY <3>4, <4>1, <4>4, <5>1
      <4>6. End(node, k) = At(node, k) /\ At(node, k).node = node /\ At(node, k).key = k
        BY <3>1, Ways, GetLeaf, EndIs
      <4>7. \/ c = k
            \/ /\ Len(c) + 1 = Len(k) /\ GetFrom(node, k) # NotFound /\ k # key
               /\ sharedPrefix(key, k) + 1 = Len(k) /\ GetFrom(node, c) = NotFound
               /\ IsA(End(node, k).node, "leaf") /\ End(node, k).node.Key = End(node, k).key
        <5>1. GetFrom(node, k) # NotFound /\ (c # k => GetFrom(node, c) = NotFound)
          BY <3>3, <4>1, TrieAssumption
        <5>2. IsA(End(node, k).node, "leaf") /\ End(node, k).node.Key = End(node, k).key
          BY <3>1, <4>6, Kinds
        <5> QED
          BY <3>4, <4>1, <4>4, <5>1, <5>2
      <4>8. GetFrom(node, key) = NotFound
        BY <3>3, <3>4
      <4>9. ASSUME a # key PROVE GetFrom(new, key) = NotFound
        <5>1. Len(a) + 1 = Len(key) /\ p + 1 = Len(key)
          BY <4>1, <4>4, <4>9
        <5>2. ASSUME c = key PROVE FALSE
          <6>1. c # k
            BY <3>4, <5>2
          <6>2. Len(c) + 1 = Len(k) /\ p + 1 = Len(k)
            BY <4>1, <4>4, <6>1
          <6> QED
            BY <2>1, <4>2, <5>1, <5>2, <6>2
        <5> QED
          BY <3>4, <4>3, <4>8, <4>9, <5>2
      <4> HIDE DEF a, c, p, new
      <4>10. Effect(node, key, value, new, live, a, k, c)
        BY <4>3, <4>5, <4>7, <4>8, <4>9 DEF Effect
      <4> QED
        BY <4>1, <4>10 DEF Good, new
    <3>5. CASE key = k
      <4>1. SplitLeaf(Leaf(k, v), key, value) = Leaf(k, value)
        BY <3>5, Kinds DEF SplitLeaf, Update, Leaf
      <4>2. \A l \in Hex : GetFrom(Leaf(k, value), l) = IF l = k THEN value ELSE NotFound
        BY GetLeaf
      <4> QED
        BY <2>2, <3>2, <3>3, <3>5, <4>1, <4>2
    <3> QED
      BY <3>4, <3>5
  <2>5. ASSUME NEW shared \in Hex, NEW next, shared # <<>>, next # NoNode,
               node = Extension(shared, next), Sound(next, what)
        PROVE  Good(node, key)
    <3>1. Sound(next, {})
      BY <2>5, SoundLess
    <3>2. CASE IsPrefix(shared, key)
      <4> DEFINE rest == From(key, Len(shared))
                 newNext == insert(next, rest, value)
      <4>1. insert(node, key, value) = Extension(shared, newNext)
        BY <2>5, <3>1, <3>2, InsertExtension
      <4>2. rest \in Hex /\ Len(rest) = Len(key) - Len(shared) /\ key = shared \o rest
        BY <3>2, Parted
      <4>3. Len(shared) \in Nat /\ Len(shared) # 0
        BY <2>5, HexLength
      <4>4. Good(next, rest)
        BY <1>1, <2>1, <2>5, <4>2, <4>3
      <4>5. PICK a \in Hex, b \in Hex, c \in Hex : Effect(next, rest, value, newNext, live, a, b, c)
        BY <4>4 DEF Good
      <4>6. Sound(newNext, {}) /\ newNext # NoNode
        BY <1>0, <3>1, <4>2
      <4> HIDE DEF rest, newNext
      <4>7. \A l \in Hex : /\ GetFrom(node, shared \o l) = GetFrom(next, l)
                           /\ GetFrom(Extension(shared, newNext), shared \o l) = GetFrom(newNext, l)
                           /\ End(node, shared \o l) = End(next, l)
        BY <2>5, <3>1, <4>6, EndExtension
      <4>8. \A l \in Hex : ~IsPrefix(shared, l) => GetFrom(Extension(shared, newNext), l) = GetFrom(node, l)
        BY <2>5, <3>1, <4>6, GetExtension
      <4>9. Effect(node, shared \o rest, value, Extension(shared, newNext), live, shared \o a, shared \o b, shared \o c)
        BY <4>2, <4>5, <4>7, <4>8, EffectLift
      <4>10. shared \o a \in Hex /\ shared \o b \in Hex /\ shared \o c \in Hex
        BY Joined
      <4> QED
        BY <4>1, <4>2, <4>9, <4>10 DEF Good
    <3>3. CASE ~IsPrefix(shared, key)
      <4> DEFINE p == sharedPrefix(key, shared)
                 new == insert(node, key, value)
                 a == Stored(key, p)
      <4>1. new = SplitExtension(Extension(shared, next), key, value)
        BY <2>5, <3>1, <3>3, InsertExtension
      <4>2. /\ a \in Hex /\ p \in 0..Len(key)
            /\ \A l \in Hex : GetFrom(new, l) = IF l = a THEN value ELSE GetFrom(node, l)
        <5>1. p = sharedPrefix(key, shared)
          OBVIOUS
        <5> HIDE DEF p, new
        <5>2. p \in 0..Len(key) /\ Adds(new, Stored(key, p), value, Extension(shared, next))
          BY <2>5, <3>3, <4>1, <5>1, SplitExtensionIs
        <5> QED
          BY <2>5, <5>2 DEF Adds
      <4>3. GetFrom(node, key) = NotFound
        BY <2>5, <3>1, <3>3, GetExtension
      <4>4. CASE a = key
        BY <2>2, <4>2, <4>4
      <4>5. CASE a # key
        <5>1. ~(p + 1 < Len(key)) /\ a = SubSeq(key, 1, p)
          BY <4>5 DEF Stored
        <5>2. p # Len(key)
          BY <4>5, <5>1, SubSeqFull DEF Hex
        <5>3. p + 1 = Len(key)
          BY <2>1, <4>2, <5>1, <5>2
        <5>4. Len(a) = p
          BY <4>2, <5>1, UpToIs
        <5>5. Len(a) + 1 = Len(key) /\ p + 1 = Len(key)
          BY <5>3, <5>4
        <5>6. ASSUME live
              PROVE  \E y \in Hex : /\ GetFrom(node, y) # NotFound /\ y # key
                                    /\ sharedPrefix(key, y) + 1 = Len(key)
          <6>1. PICK y \in Hex : GetFrom(node, y) # NotFound
            BY <1>1, <2>5, <5>6, SoundIs, Kinds DEF live, Readable
          <6>2. IsPrefix(shared, y)
            BY <2>5, <3>1, <6>1, GetExtension
          <6>3. y # key
            BY <3>3, <6>2
          <6>4. /\ p \in 0..Len(shared) /\ \A i \in 1..p : key[i] = shared[i]
                /\ p < Len(key) /\ p < Len(shared) => key[p + 1] # shared[p + 1]
            BY SharedIs
          <6>5. Len(shared) \in Nat /\ Len(y) \in Nat /\ p # Len(shared)
            BY <3>3, NotPrefix, HexLength
          <6>6. Len(shared) <= Len(y) /\ \A i \in 1..Len(shared) : shared[i] = y[i]
            BY <6>2, PrefixIs
          <6> HIDE DEF p
          <6>7. p \in Nat /\ p < Len(shared) /\ p + 1 \in 1..Len(shared) /\ p <= Len(key) /\ p <= Len(y) /\ p < Len(key)
            BY <2>1, <5>3, <6>4, <6>5, <6>6
          <6>8. \A i \in 1..p : key[i] = y[i]
            BY <6>4, <6>5, <6>6, <6>7
          <6>9. key[p + 1] # y[p + 1]
            BY <6>4, <6>6, <6>7
          <6>10. sharedPrefix(key, y) = p
            BY <6>7, <6>8, <6>9, SharedUnique
          <6> QED
            BY <5>5, <6>1, <6>3, <6>10
        <5> HIDE DEF a, p, new
        <5>7. \A l \in Hex : GetFrom(new, l) =
                 IF l = a THEN value
                 ELSE IF l = key THEN GetFrom(node, key)
                 ELSE IF l = key THEN NotFound
                 ELSE GetFrom(node, l)
          BY <4>2
        <5>8. a # key => GetFrom(new, key) = NotFound
          BY <4>2, <4>3
        <5>9. Effect(node, key, value, new, live, a, key, key)
          BY <4>3, <5>5, <5>6, <5>7, <5>8 DEF Effect
        <5> QED
          BY <4>2, <5>9 DEF Good, new
      <4> QED
        BY <4>4, <4>5
    <3> QED
      BY <3>2, <3>3
  <2>6. ASSUME NEW children, node = Branch(children), Children(children, what)
        PROVE  Good(node, key)
    <3>1. Children(children, {})
      BY <2>6, ChildrenLess
    <3>2. CASE key = <<>>
      <4> DEFINE own == Leaf(<<>>, value)
                 c == [children EXCEPT ![Own] = own]
      <4>1. insert(node, key, value) = Branch(c)
        BY <2>6, <3>1, <3>2, InsertBranch
      <4>2. Sound(own, {}) /\ IsLeaf(own) /\ own # NoNode /\ own.Value = value
        BY <3>2, GetLeaf, Kinds
      <4>3. Changed(c, children, Own, own)
        BY DEF Changed
      <4> HIDE DEF c, own
      <4>4. Children(c, {}) /\ \A j \in 0..Radix : c[j] = IF j = Own THEN own ELSE children[j]
        BY <3>1, <4>2, <4>3, ChildrenExcept, Slots
      <4>5. ASSUME NEW l \in Hex PROVE GetFrom(Branch(c), l) = IF l = key THEN value ELSE GetFrom(node, l)
        <5>1. CASE l = <<>>
          <6>1. GetFrom(Branch(c), l) = OwnValue(c)
            BY <4>4, <5>1, GetBranch
          <6>2. c[Own] = own
            BY <4>4, Slots
          <6> QED
            BY <3>2, <4>2, <5>1, <6>1, <6>2 DEF OwnValue
        <5>2. CASE l # <<>>
          <6>1. l[1] \in Nibbles /\ l[1] \in 0..Radix /\ l[1] # Own
            BY <5>2, FirstNibble, Slots
          <6>2. c[l[1]] = children[l[1]]
            BY <4>4, <6>1
          <6> QED
            BY <2>6, <3>1, <3>2, <4>4, <5>2, <6>2, GetBranch
        <5> QED
          BY <5>1, <5>2
      <4> QED
        BY <2>2, <4>1, <4>5
    <3>3. CASE key # <<>>
      <4> DEFINE i == key[1]
                 rest == From(key, 1)
                 child == insert(children[i], rest, value)
                 d == [children EXCEPT ![i] = child]
      <4>1. insert(node, key, value) = Branch(d)
        BY <2>6, <3>1, <3>3, InsertBranch
      <4>2. i \in Nibbles /\ rest \in Hex /\ Len(rest) = Len(key) - 1 /\ key = <<i>> \o rest
        BY <3>3, FirstNibble
      <4>3. i \in 0..Radix /\ i # Own
        BY <4>2, Slots
      <4>4. Sound(children[i], what) /\ Sound(children[i], {})
        BY <2>6, <3>1, <4>3 DEF Children
      <4>5. Good(children[i], rest)
        BY <1>1, <2>1, <4>2, <4>4
      <4>6. PICK a \in Hex, b \in Hex, c \in Hex : Effect(children[i], rest, value, child, live, a, b, c)
        BY <4>5 DEF Good
      <4>7. Sound(child, {})
        BY <1>0, <4>2, <4>4
      <4>8. Changed(d, children, i, child)
        BY DEF Changed
      <4> HIDE DEF d, child, rest, i
      <4>9. Children(d, {}) /\ \A j \in 0..Radix : d[j] = IF j = i THEN child ELSE children[j]
        BY <3>1, <4>3, <4>7, <4>8, ChildrenExcept
      <4>10. d[i] = child
        BY <4>3, <4>9
      <4>11. \A l \in Hex : /\ GetFrom(node, <<i>> \o l) = GetFrom(children[i], l)
                            /\ GetFrom(Branch(d), <<i>> \o l) = GetFrom(child, l)
                            /\ End(node, <<i>> \o l) = End(children[i], l)
        BY <2>6, <3>1, <4>2, <4>9, <4>10, EndBranch
      <4>12. ASSUME NEW l \in Hex, ~IsPrefix(<<i>>, l) PROVE GetFrom(Branch(d), l) = GetFrom(node, l)
        <5>1. CASE l = <<>>
          <6>1. OwnValue(d) = OwnValue(children)
            BY <4>3, <4>9, Slots DEF OwnValue
          <6> QED
            BY <2>6, <3>1, <4>9, <5>1, <6>1, GetBranch
        <5>2. CASE l # <<>>
          <6>1. l[1] \in Nibbles /\ l[1] # i
            BY <4>2, <4>12, <5>2, FirstNibble
          <6>2. d[l[1]] = children[l[1]]
            BY <4>9, <6>1, Slots
          <6> QED
            BY <2>6, <3>1, <4>9, <5>2, <6>2, GetBranch
        <5> QED
          BY <5>1, <5>2
      <4>13. <<i>> \in Hex
        BY <4>2, FirstNibble
      <4>14. Effect(node, <<i>> \o rest, value, Branch(d), live, <<i>> \o a, <<i>> \o b, <<i>> \o c)
        BY <4>2, <4>6, <4>11, <4>12, <4>13, EffectLift
      <4>15. <<i>> \o a \in Hex /\ <<i>> \o b \in Hex /\ <<i>> \o c \in Hex
        BY <4>13, Joined
      <4> QED
        BY <4>1, <4>2, <4>14, <4>15 DEF Good
    <3> QED
      BY <3>2, <3>3
  <2> QED
    BY <1>1, <2>3, <2>4, <2>5, <2>6, SoundIs DEF Children
<1>2. 0 \in T
  BY <1>1
<1>3. ASSUME NEW n \in Nat, n \in T PROVE n + 1 \in T
  <2>1. ASSUME NEW x, NEW k, Sound(x, what), k \in Hex, Len(k) < n + 1 PROVE Good(x, k)
    <3>1. Len(k) <= n
      BY <2>1, HexLength
    <3> QED
      BY <1>3, <2>1, <3>1
  <2> QED
    BY <1>1, <2>1
<1> HIDE DEF T
<1>4. Nat \subseteq T
  BY <1>2, <1>3, NatInductive
<1>5. ASSUME NEW node, NEW key \in Hex, Sound(node, what) PROVE Good(node, key)
  <2>1. Len(key) \in T /\ Len(key) <= Len(key)
    BY <1>4, HexLength
  <2> QED
    BY <1>5, <2>1 DEF T
<1> QED
  BY <1>5

\* So insertion keeps every node readable as well.
LEMMA InsertKeepsSound ==
  ASSUME NEW what, NEW value \in Values, NEW node, Sound(node, what), NEW key \in Hex
  PROVE  Sound(insert(node, key, value), what)
<1>1. ASSUME NEW x, NEW k, Sound(x, {}) /\ k \in Hex PROVE Readable(insert(x, k, value))
  <2>1. PICK a \in Hex, b \in Hex, c \in Hex :
          Effect(x, k, value, insert(x, k, value), "live" \in {}, a, b, c)
    BY <1>1, InsertEffect
  <2>2. GetFrom(insert(x, k, value), a) = value
    BY <2>1 DEF Effect
  <2> QED
    BY <2>2, TrieAssumption DEF Readable
<1> QED
  BY <1>1, InsertSound

\* An insertion brings no leaf but its own.
LEMMA InsertLeaves ==
  ASSUME NEW value \in Values
  PROVE  \A node, key : Sound(node, {}) /\ key \in Hex =>
           Leaves(insert(node, key, value), key, node)
<1> DEFINE Good(node, key) == Leaves(insert(node, key, value), key, node)
           T == {n \in Nat : \A node, key :
                   Sound(node, {}) /\ key \in Hex /\ Len(key) <= n => Good(node, key)}
<1>0. \A node, key : Sound(node, {}) /\ key \in Hex =>
        Sound(insert(node, key, value), {}) /\ insert(node, key, value) # NoNode
  BY InsertSound
<1>1. ASSUME NEW n \in Nat, NEW node, NEW key \in Hex, Sound(node, {}), Len(key) <= n,
             \A x, k : Sound(x, {}) /\ k \in Hex /\ Len(k) < n => Good(x, k)
      PROVE  Good(node, key)
  <2>1. Len(key) \in Nat
    BY HexLength
  <2> HIDE DEF Good
  <2>2. CASE node = NoNode
    <3>1. insert(node, key, value) = Leaf(key, value)
      BY <2>2, InsertNil
    <3> QED
      BY <3>1, LeafAtEnds DEF Good, Leaves
  <2>3. CASE IsLeaf(node)
    <3>1. PICK k \in Hex, v \in Values : node = Leaf(k, v)
      BY <2>3 DEF IsLeaf
    <3>2. insert(node, key, value) = SplitLeaf(Leaf(k, v), key, value)
      BY <3>1, InsertLeaf
    <3>3. CASE key # k
      BY <3>1, <3>2, <3>3, SplitLeafIs DEF Good
    <3>4. CASE key = k
      <4>1. SplitLeaf(Leaf(k, v), key, value) = Leaf(k, value)
        BY <3>4, Kinds DEF SplitLeaf, Update, Leaf
      <4> QED
        BY <3>2, <3>4, <4>1, LeafAtEnds DEF Good, Leaves
    <3> QED
      BY <3>3, <3>4
  <2>4. ASSUME NEW shared \in Hex, NEW next, shared # <<>>, next # NoNode,
               node = Extension(shared, next), Sound(next, {})
        PROVE  Good(node, key)
    <3>1. CASE IsPrefix(shared, key)
      <4> DEFINE rest == From(key, Len(shared))
                 newNext == insert(next, rest, value)
      <4>1. insert(node, key, value) = Extension(shared, newNext)
        BY <2>4, <3>1, InsertExtension
      <4>2. rest \in Hex /\ Len(rest) = Len(key) - Len(shared) /\ key = shared \o rest
        BY <3>1, Parted
      <4>3. Len(shared) \in Nat /\ Len(shared) # 0
        BY <2>4, HexLength
      <4>4. Good(next, rest)
        BY <1>1, <2>1, <2>4, <4>2, <4>3
      <4>5. Leaves(newNext, rest, next)
        BY <4>4 DEF Good
      <4>6. Sound(newNext, {}) /\ newNext # NoNode
        BY <1>0, <2>4, <4>2
      <4> HIDE DEF rest, newNext
      <4>7. ASSUME NEW l \in Hex, LeafAt(Extension(shared, newNext), l)
            PROVE  l = key \/ LeafAt(node, l)
        <5>1. IsPrefix(shared, l) /\ LeafAt(newNext, From(l, Len(shared)))
          BY <2>4, <4>6, <4>7, LeafAtEnds
        <5>2. From(l, Len(shared)) \in Hex /\ l = shared \o From(l, Len(shared))
          BY <5>1, Parted
        <5>3. From(l, Len(shared)) = rest \/ LeafAt(next, From(l, Len(shared)))
          BY <4>5, <5>1, <5>2 DEF Leaves
        <5>4. CASE From(l, Len(shared)) = rest
          BY <4>2, <5>2, <5>4
        <5>5. CASE LeafAt(next, From(l, Len(shared)))
          BY <2>4, <5>1, <5>5, LeafAtEnds
        <5> QED
          BY <5>3, <5>4, <5>5
      <4> QED
        BY <4>1, <4>7 DEF Good, Leaves
    <3>2. CASE ~IsPrefix(shared, key)
      <4>1. insert(node, key, value) = SplitExtension(Extension(shared, next), key, value)
        BY <2>4, <3>2, InsertExtension
      <4> QED
        BY <2>4, <3>2, <4>1, SplitExtensionIs DEF Good
    <3> QED
      BY <3>1, <3>2
  <2>5. ASSUME NEW children, node = Branch(children), Children(children, {})
        PROVE  Good(node, key)
    <3> DEFINE i == IF key = <<>> THEN Own ELSE key[1]
               new == IF key = <<>> THEN Leaf(<<>>, value)
                      ELSE insert(children[key[1]], From(key, 1), value)
               c == [children EXCEPT ![i] = new]
    <3>1. insert(node, key, value) = Branch(c)
      BY <2>5, InsertBranch
    <3>2. /\ i \in 0..Radix /\ Sound(new, {}) /\ (i = Own => IsLeaf(new))
          /\ i # Own => key # <<>> /\ i = key[1] /\ Leaves(new, From(key, 1), children[i])
      <4>1. CASE key = <<>>
        <5>1. <<>> \in Hex
          BY EmptySeq DEF Hex
        <5> QED
          BY <4>1, <5>1, GetLeaf, Slots
      <4>2. CASE key # <<>>
        <5>1. key[1] \in Nibbles /\ From(key, 1) \in Hex /\ Len(From(key, 1)) = Len(key) - 1
          BY <4>2, FirstNibble
        <5>2. key[1] \in 0..Radix /\ key[1] # Own
          BY <5>1, Slots
        <5>3. Sound(children[key[1]], {})
          BY <2>5, <5>2 DEF Children
        <5>4. Good(children[key[1]], From(key, 1))
          BY <1>1, <2>1, <5>1, <5>3
        <5>5. Sound(new, {})
          BY <1>0, <4>2, <5>1, <5>3
        <5> QED
          BY <4>2, <5>2, <5>4, <5>5 DEF Good
      <4> QED
        BY <4>1, <4>2
    <3>3. Changed(c, children, i, new)
      BY DEF Changed
    <3> HIDE DEF c, new, i
    <3>4. Children(c, {}) /\ \A j \in 0..Radix : c[j] = IF j = i THEN new ELSE children[j]
      BY <2>5, <3>2, <3>3, ChildrenExcept
    <3>5. ASSUME NEW l \in Hex, LeafAt(Branch(c), l) PROVE l = key \/ LeafAt(node, l)
      <4>1. l # <<>> /\ LeafAt(c[l[1]], From(l, 1))
        BY <3>4, <3>5, LeafAtEnds
      <4>2. l[1] \in Nibbles /\ From(l, 1) \in Hex /\ l = <<l[1]>> \o From(l, 1)
        BY <4>1, FirstNibble
      <4>3. l[1] \in 0..Radix /\ l[1] # Own
        BY <4>2, Slots
      <4>4. CASE l[1] # i
        BY <2>5, <3>4, <4>1, <4>3, <4>4, LeafAtEnds
      <4>5. CASE l[1] = i
        <5>1. LeafAt(new, From(l, 1)) /\ key # <<>> /\ i = key[1] /\ Leaves(new, From(key, 1), children[i])
          BY <3>2, <3>4, <4>1, <4>3, <4>5
        <5>2. From(l, 1) = From(key, 1) \/ LeafAt(children[i], From(l, 1))
          BY <4>2, <5>1 DEF Leaves
        <5>3. CASE From(l, 1) = From(key, 1)
          <6>1. key = <<key[1]>> \o From(key, 1)
            BY <5>1, FirstNibble
          <6> QED
            BY <4>2, <4>5, <5>1, <5>3, <6>1
        <5>4. CASE LeafAt(children[i], From(l, 1))
          BY <2>5, <4>1, <4>5, <5>4, LeafAtEnds
        <5> QED
          BY <5>2, <5>3, <5>4
      <4> QED
        BY <4>4, <4>5
    <3> QED
      BY <3>1, <3>5 DEF Good, Leaves
  <2> QED
    BY <1>1, <2>2, <2>3, <2>4, <2>5, SoundIs DEF Children
<1>2. 0 \in T
  BY <1>1
<1>3. ASSUME NEW n \in Nat, n \in T PROVE n + 1 \in T
  <2>1. ASSUME NEW x, NEW k, Sound(x, {}), k \in Hex, Len(k) < n + 1 PROVE Good(x, k)
    <3>1. Len(k) <= n
      BY <2>1, HexLength
    <3> QED
      BY <1>3, <2>1, <3>1
  <2> QED
    BY <1>1, <2>1
<1> HIDE DEF T
<1>4. Nat \subseteq T
  BY <1>2, <1>3, NatInductive
<1>5. ASSUME NEW node, NEW key \in Hex, Sound(node, {}) PROVE Good(node, key)
  <2>1. Len(key) \in T /\ Len(key) <= Len(key)
    BY <1>4, HexLength
  <2> QED
    BY <1>5, <2>1 DEF T
<1> QED
  BY <1>5

-----------------------------------------------------------------------------
(* The nibbles of a key.                                                   *)

Bytes == 0..(Radix * Radix - 1)

LEMMA BytesOf ==
  ASSUME NEW key \in Keys
  PROVE  key \in Seq(Bytes) /\ Len(key) \in Nat /\ \A j \in 1..Len(key) : key[j] \in Bytes
<1>1. key \in Seq(Bytes)
  BY TrieAssumption DEF Bytes
<1> QED
  BY <1>1

LEMMA ByteNibbles ==
  ASSUME NEW x \in Bytes
  PROVE  /\ x \div Radix \in Nibbles /\ x % Radix \in Nibbles
         /\ x = Radix * (x \div Radix) + (x % Radix)
<1> DEFINE q == x \div Radix
           r == x % Radix
<1>1. Radix \in Nat /\ Radix # 0
  BY Slots
<1>2. Radix * Radix \in Nat /\ x \in Nat /\ x < Radix * Radix
  BY <1>1 DEF Bytes
<1>3. q \in Int /\ r \in 0..(Radix - 1) /\ x = Radix * q + r
  BY <1>1, <1>2, ModSplit
<1> HIDE DEF q, r
<1>4. q >= 0
  BY <1>1, <1>2, <1>3
<1>5. q < Radix
  BY <1>1, <1>2, <1>3
<1> QED
  BY <1>1, <1>3, <1>4, <1>5 DEF Nibbles, q, r

LEMMA HexOf ==
  ASSUME NEW key \in Keys
  PROVE  /\ Len(key) \in Nat /\ keyToHex(key) \in Hex /\ Len(keyToHex(key)) = 2 * Len(key)
         /\ \A j \in 1..Len(key) : /\ keyToHex(key)[2 * j - 1] = key[j] \div Radix
                                   /\ keyToHex(key)[2 * j] = key[j] % Radix
<1> DEFINE n == Len(key)
           h == keyToHex(key)
<1>2. n \in Nat /\ \A j \in 1..n : key[j] \in Bytes
  BY BytesOf
<1>3. h = [i \in 1..(2 * n) |->
             IF i % 2 = 1 THEN key[(i + 1) \div 2] \div Radix ELSE key[i \div 2] % Radix]
  BY DEF keyToHex
<1> HIDE DEF n, h
<1>4. ASSUME NEW i \in 1..(2 * n)
      PROVE  (IF i % 2 = 1 THEN key[(i + 1) \div 2] \div Radix ELSE key[i \div 2] % Radix) \in Nibbles
  <2>1. i % 2 = 1 => (i + 1) \div 2 \in 1..n
    BY <1>2
  <2>2. i % 2 # 1 => i \div 2 \in 1..n
    BY <1>2
  <2> QED
    BY <1>2, <2>1, <2>2, ByteNibbles
<1>5. h \in [1..(2 * n) -> Nibbles]
  BY <1>3, <1>4
<1>6. 2 * n \in Nat
  BY <1>2
<1>7. h \in Hex /\ Len(h) = 2 * n
  BY <1>5, <1>6 DEF Hex
<1>8. ASSUME NEW j \in 1..n PROVE h[2 * j - 1] = key[j] \div Radix /\ h[2 * j] = key[j] % Radix
  <2>1. /\ 2 * j - 1 \in 1..(2 * n) /\ (2 * j - 1) % 2 = 1 /\ ((2 * j - 1) + 1) \div 2 = j
        /\ 2 * j \in 1..(2 * n) /\ (2 * j) % 2 # 1 /\ (2 * j) \div 2 = j
    BY <1>2
  <2> QED
    BY <1>3, <2>1
<1> QED
  BY <1>2, <1>7, <1>8 DEF n, h

LEMMA HexInjective ==
  ASSUME NEW k \in Keys, NEW l \in Keys, keyToHex(k) = keyToHex(l)
  PROVE  k = l
<1>1. k \in Seq(Bytes) /\ l \in Seq(Bytes)
  BY BytesOf
<1>2. Len(k) \in Nat /\ Len(l) \in Nat /\ 2 * Len(k) = 2 * Len(l)
  BY HexOf
<1>3. Len(k) = Len(l)
  BY <1>2
<1>4. ASSUME NEW j \in 1..Len(k) PROVE k[j] = l[j]
  <2>1. k[j] \div Radix = l[j] \div Radix /\ k[j] % Radix = l[j] % Radix
    BY <1>3, HexOf
  <2>2. k[j] \in Bytes /\ l[j] \in Bytes
    BY <1>3, BytesOf
  <2> QED
    BY <2>1, <2>2, ByteNibbles
<1> QED
  BY <1>1, <1>3, <1>4, SeqEqual

-----------------------------------------------------------------------------
(* Deletion, one step at a time.                                           *)

LEMMA DeleteNil ==
  ASSUME NEW key \in Hex
  PROVE  delete(NoNode, key) = <<NoNode, FALSE>>
<1>1. Sound(NoNode, {})
  BY SoundNil
<1>2. ~Descends(At(NoNode, key)) /\ At(NoNode, key).node = NoNode
  BY Ways
<1>3. delete(NoNode, key) = DeleteAt(At(NoNode, key))
  BY <1>1, <1>2, DeleteIs
<1> QED
  BY <1>2, <1>3, Kinds DEF DeleteAt

LEMMA DeleteLeaf ==
  ASSUME NEW k \in Hex, NEW v \in Values, NEW key \in Hex
  PROVE  delete(Leaf(k, v), key) = IF key = k THEN <<NoNode, TRUE>> ELSE <<Leaf(k, v), FALSE>>
<1>1. Sound(Leaf(k, v), {})
  BY GetLeaf
<1>2. ~Descends(At(Leaf(k, v), key)) /\ At(Leaf(k, v), key).node = Leaf(k, v)
      /\ At(Leaf(k, v), key).key = key
  BY Ways
<1>3. delete(Leaf(k, v), key) = DeleteAt(At(Leaf(k, v), key))
  BY <1>1, <1>2, DeleteIs
<1> QED
  BY <1>2, <1>3, Kinds DEF DeleteAt

LEMMA DeleteExtension ==
  ASSUME NEW shared \in Hex, shared # <<>>, NEW next, next # NoNode, Sound(next, {}),
         NEW key \in Hex, NEW below, below = delete(next, From(key, Len(shared)))
  PROVE  delete(Extension(shared, next), key) =
           IF IsPrefix(shared, key) /\ below[2] THEN <<Rejoin(shared, below[1]), TRUE>>
           ELSE <<Extension(shared, next), FALSE>>
<1> DEFINE node == Extension(shared, next)
           at   == At(node, key)
<1>1. Sound(node, {})
  BY GetExtension
<1>2. /\ at.node = node /\ at.key = key /\ (Descends(at) <=> IsPrefix(shared, key))
      /\ Down(at).node = next /\ Down(at).key = From(key, Len(shared))
  <2>1. /\ at.node = node /\ at.key = key
        /\ Descends(At(Extension(shared, next), key)) <=> IsPrefix(shared, key)
        /\ Down(At(Extension(shared, next), key)) = At(next, From(key, Len(shared)))
    BY Ways, SMTT(30)
  <2>2. /\ At(next, From(key, Len(shared))).node = next
        /\ At(next, From(key, Len(shared))).key = From(key, Len(shared))
    BY Ways
  <2> QED
    BY <2>1, <2>2
<1>3. delete(node, key) = IF Descends(at) THEN Shrunk(at, below) ELSE DeleteAt(at)
  BY <1>1, <1>2, DeleteIs
<1>4. node.Shared = shared /\ ~IsA(node, "branch") /\ ~IsA(node, "leaf")
  BY Kinds
<1> HIDE DEF node, at
<1>5. Shrunk(at, below) = IF below[2] THEN <<Rejoin(shared, below[1]), TRUE>> ELSE <<node, FALSE>>
  BY <1>2, <1>4 DEF Shrunk
<1>6. DeleteAt(at) = <<node, FALSE>>
  BY <1>2, <1>4 DEF DeleteAt
<1>7. delete(node, key) =
           IF IsPrefix(shared, key) /\ below[2] THEN <<Rejoin(shared, below[1]), TRUE>>
           ELSE <<node, FALSE>>
  BY <1>2, <1>3, <1>5, <1>6
<1> QED
  BY <1>7 DEF node

LEMMA DeleteBranch ==
  ASSUME NEW children, Children(children, {}), NEW key \in Hex,
         NEW below, below = delete(children[key[1]], From(key, 1))
  PROVE  delete(Branch(children), key) =
           IF key = <<>> THEN <<Collapse(WithoutOwn(children)), TRUE>>
           ELSE IF below[2] THEN <<Collapse([children EXCEPT ![key[1]] = below[1]]), TRUE>>
           ELSE <<Branch(children), FALSE>>
<1> DEFINE node == Branch(children)
           at   == At(node, key)
<1>1. Sound(node, {})
  BY GetBranch
<1>2. /\ at.node = node /\ at.key = key /\ (Descends(at) <=> key # <<>>)
      /\ Down(at).node = children[key[1]] /\ Down(at).key = From(key, 1)
  BY Ways
<1>3. delete(node, key) = IF Descends(at) THEN Shrunk(at, below) ELSE DeleteAt(at)
  BY <1>1, <1>2, DeleteIs
<1>4. node.Children = children /\ IsA(node, "branch") /\ ~IsA(node, "leaf")
  BY Kinds
<1> HIDE DEF node, at
<1>5. Shrunk(at, below) =
        IF below[2] THEN <<Collapse([children EXCEPT ![key[1]] = below[1]]), TRUE>> ELSE <<node, FALSE>>
  BY <1>2, <1>4 DEF Shrunk
<1>6. DeleteAt(at) = <<Collapse(WithoutOwn(children)), TRUE>>
  BY <1>2, <1>4 DEF DeleteAt
<1>7. delete(node, key) =
        IF key = <<>> THEN <<Collapse(WithoutOwn(children)), TRUE>>
        ELSE IF below[2] THEN <<Collapse([children EXCEPT ![key[1]] = below[1]]), TRUE>>
        ELSE <<node, FALSE>>
  BY <1>2, <1>3, <1>5, <1>6
<1> QED
  BY <1>7 DEF node

\* A path in two parts.
LEMMA PrefixJoined ==
  ASSUME NEW s \in Hex, NEW t \in Hex, NEW l \in Hex
  PROVE  /\ s \o t \in Hex
         /\ IsPrefix(s \o t, l) <=> IsPrefix(s, l) /\ IsPrefix(t, From(l, Len(s)))
         /\ IsPrefix(s \o t, l) => From(l, Len(s \o t)) = From(From(l, Len(s)), Len(t))
<1>1. s \o t \in Hex
  BY Joined
<1>2. ASSUME IsPrefix(s \o t, l)
      PROVE  /\ IsPrefix(s, l) /\ IsPrefix(t, From(l, Len(s)))
             /\ From(l, Len(s \o t)) = From(From(l, Len(s)), Len(t))
  <2> DEFINE r == From(l, Len(s \o t))
  <2>1. r \in Hex /\ l = (s \o t) \o r
    BY <1>1, <1>2, Parted
  <2> HIDE DEF r
  <2>2. l = s \o (t \o r)
    BY <2>1, ConcatAssociative DEF Hex
  <2>3. PICK m \in Hex : m = t \o r
    BY <2>1, Joined
  <2>4. IsPrefix(t, m) /\ From(m, Len(t)) = r
    BY <2>1, <2>3, Joined
  <2>5. IsPrefix(s, s \o m) /\ From(s \o m, Len(s)) = m
    BY Joined
  <2> QED
    BY <2>2, <2>3, <2>4, <2>5 DEF r
<1>3. ASSUME IsPrefix(s, l), IsPrefix(t, From(l, Len(s))) PROVE IsPrefix(s \o t, l)
  <2>1. PICK m \in Hex : m = From(l, Len(s)) /\ l = s \o m
    BY <1>3, Parted
  <2>2. PICK r \in Hex : m = t \o r
    BY <1>3, <2>1, Parted
  <2>3. l = (s \o t) \o r
    <3>1. (s \o t) \o r = s \o (t \o r)
      BY ConcatAssociative, SMTT(30) DEF Hex
    <3> QED
      BY <2>1, <2>2, <3>1
  <2>4. PICK u \in Hex : u = s \o t
    BY <1>1
  <2>5. IsPrefix(u, u \o r)
    BY Joined
  <2> QED
    BY <2>3, <2>4, <2>5
<1> QED
  BY <1>1, <1>2, <1>3

-----------------------------------------------------------------------------
(* What becomes of a branch that has lost something.                       *)

\* Nothing but slot i of a branch is filled.
Only(children, i) ==
  i \in 0..Radix /\ children[i] # NoNode /\ \A j \in 0..Radix : j # i => children[j] = NoNode

\* A node below one more nibble.
Lengthened(i, node) ==
  CASE IsA(node, "leaf") -> Leaf(<<i>> \o node.Key, node.Value)
    [] IsA(node, "extension") -> Extension(<<i>> \o node.Shared, node.Next)
    [] IsA(node, "branch") -> Extension(<<i>>, node)

LEMMA CollapseCases ==
  ASSUME NEW children
  PROVE  \/ (\A i \in 0..Radix : children[i] = NoNode) /\ Collapse(children) = NoNode
         \/ /\ \E i, j \in 0..Radix : i # j /\ children[i] # NoNode /\ children[j] # NoNode
            /\ Collapse(children) = Branch(children)
         \/ /\ Only(children, Own)
            /\ Collapse(children) =
                 IF IsA(children[Own], "leaf") THEN Leaf(<<>>, children[Own].Value) ELSE children[Own]
         \/ \E i \in 0..Radix :
              i # Own /\ Only(children, i) /\ Collapse(children) = Lengthened(i, children[i])
<1> DEFINE Full == {i \in 0..Radix : children[i] # NoNode}
           last == CHOOSE i \in Full : \A j \in Full : j <= i
           c    == children[last]
           Long == Lengthened(last, c)
<1>1. Collapse(children) =
        CASE Full = {} -> NoNode
          [] Full # {} /\ Full # {last} -> Branch(children)
          [] Full = {Own} -> IF IsA(c, "leaf") THEN Leaf(<<>>, c.Value) ELSE c
          [] OTHER -> Long
  BY DEF Collapse, Lengthened
<1>2. CASE Full = {}
  <2>1. Collapse(children) = NoNode
    <3> HIDE DEF last, c, Long, Full
    <3> QED
      BY <1>1, <1>2
  <2> QED
    BY <1>2, <2>1
<1>3. ASSUME NEW i \in Full, Full = {i}
      PROVE  last = i /\ Only(children, i)
  <2>1. i \in Int /\ i <= i
    BY Slots
  <2>2. last \in Full
    <3>1. \E k \in Full : \A j \in Full : j <= k
      BY <1>3, <2>1
    <3> HIDE DEF Full
    <3> QED
      BY <3>1
  <2>3. last = i
    BY <1>3, <2>2
  <2> QED
    BY <1>3, <2>3 DEF Only
<1>4. CASE Full = {Own}
  <2>1. last = Own /\ Only(children, Own)
    BY <1>3, <1>4
  <2>2. Collapse(children) = IF IsA(c, "leaf") THEN Leaf(<<>>, c.Value) ELSE c
    <3> HIDE DEF last, c, Long, Full
    <3> QED
      BY <1>1, <1>4, <2>1
  <2> QED
    BY <2>1, <2>2
<1>5. ASSUME NEW i \in Full, Full = {i}, i # Own
      PROVE  Only(children, i) /\ Collapse(children) = Lengthened(i, children[i])
  <2>1. last = i /\ Only(children, i)
    BY <1>3, <1>5
  <2>2. Collapse(children) = Long
    <3> HIDE DEF last, c, Long, Full
    <3> QED
      BY <1>1, <1>5, <2>1
  <2> QED
    BY <2>1, <2>2
<1>6. ASSUME NEW i \in Full, NEW j \in Full, i # j
      PROVE  Collapse(children) = Branch(children)
  <2> HIDE DEF last, c, Long, Full
  <2> QED
    BY <1>1, <1>6
<1>7. \/ Full = {} \/ Full = {Own} \/ (\E i \in Full : Full = {i} /\ i # Own)
      \/ \E i, j \in Full : i # j
  <2> HIDE DEF Full
  <2> QED
    OBVIOUS
<1>8. \A i \in Full : i \in 0..Radix /\ children[i] # NoNode
  OBVIOUS
<1> HIDE DEF Full, last, c, Long
<1>9. CASE \E i \in Full : Full = {i} /\ i # Own
  BY <1>5, <1>8, <1>9
<1>10. CASE \E i, j \in Full : i # j
  BY <1>6, <1>8, <1>10
<1> QED
  BY <1>2, <1>4, <1>7, <1>9, <1>10

\* Firm is the soundness every trie has.
Firm == {"crowded"}

LEMMA FirmParts ==
  /\ "crowded" \in Firm /\ "live" \notin Firm
  /\ \A node : Sound(node, Firm) => Sound(node, {})
BY SoundLess DEF Firm

LEMMA LengthenedIs ==
  ASSUME NEW i \in Nibbles, NEW node, node # NoNode, Sound(node, Firm), NEW new, new = Lengthened(i, node)
  PROVE  /\ Sound(new, Firm)
         /\ \A l \in Hex : GetFrom(new, l) =
              IF l # <<>> /\ l[1] = i THEN GetFrom(node, From(l, 1)) ELSE NotFound
         /\ IsLeaf(node) => IsLeaf(new)
         /\ \A y, v : new = Leaf(y, v) => y \in Hex /\ y # <<>> /\ y[1] = i
<1>1. CASE IsLeaf(node)
  <2>1. PICK k \in Hex, v \in Values : node = Leaf(k, v)
    BY <1>1 DEF IsLeaf
  <2>2. new = Leaf(<<i>> \o k, v)
    BY <2>1, Kinds DEF Lengthened
  <2>3. /\ <<i>> \o k \in Hex /\ <<i>> \o k # <<>>
        /\ (<<i>> \o k)[1] = i /\ From(<<i>> \o k, 1) = k
    BY FirstNibble
  <2>4. PICK y \in Hex : y = <<i>> \o k
    BY <2>3
  <2>5. Sound(new, Firm) /\ IsLeaf(new) /\ \A l \in Hex : GetFrom(new, l) = IF l = y THEN v ELSE NotFound
    <3>1. new = Leaf(y, v)
      BY <2>2, <2>4
    <3>2. /\ Sound(Leaf(y, v), Firm) /\ IsLeaf(Leaf(y, v))
          /\ \A l \in Hex : GetFrom(Leaf(y, v), l) = IF l = y THEN v ELSE NotFound
      BY GetLeaf
    <3> QED
      BY <3>1, <3>2
  <2>6. ASSUME NEW l \in Hex
        PROVE  GetFrom(new, l) = IF l # <<>> /\ l[1] = i THEN GetFrom(node, From(l, 1)) ELSE NotFound
    <3>1. CASE l # <<>> /\ l[1] = i
      <4>1. From(l, 1) \in Hex /\ l = <<i>> \o From(l, 1)
        BY <3>1, FirstNibble
      <4>2. l = y <=> From(l, 1) = k
        BY <2>3, <2>4, <4>1
      <4>3. GetFrom(node, From(l, 1)) = IF From(l, 1) = k THEN v ELSE NotFound
        BY <2>1, <4>1, GetLeaf
      <4> QED
        BY <2>5, <3>1, <4>2, <4>3
    <3>2. CASE ~(l # <<>> /\ l[1] = i)
      BY <2>3, <2>4, <2>5, <3>2
    <3> QED
      BY <3>1, <3>2
  <2>7. ASSUME NEW x, NEW w, new = Leaf(x, w) PROVE x = y
    <3>1. Leaf(x, w) = Leaf(y, v)
      BY <2>2, <2>4, <2>7
    <3>2. Leaf(x, w).Key = x /\ Leaf(y, v).Key = y
      BY Kinds
    <3> QED
      BY <3>1, <3>2
  <2> QED
    BY <2>3, <2>4, <2>5, <2>6, <2>7
<1>2. ASSUME NEW shared \in Hex, NEW next, shared # <<>>, next # NoNode,
             node = Extension(shared, next), Sound(next, Firm)
      PROVE  /\ Sound(new, Firm) /\ ~IsA(new, "leaf") /\ ~IsLeaf(node)
             /\ \A l \in Hex : GetFrom(new, l) =
                  IF l # <<>> /\ l[1] = i THEN GetFrom(node, From(l, 1)) ELSE NotFound
  <2>1. new = Extension(<<i>> \o shared, next)
    BY <1>2, Kinds DEF Lengthened
  <2>2. <<i>> \in Hex /\ Len(<<i>>) = 1 /\ <<i>> \o shared \in Hex /\ <<i>> \o shared # <<>>
    BY FirstNibble
  <2>3. PICK s \in Hex : s = <<i>>
    BY <2>2
  <2>4. PICK t \in Hex : t = s \o shared /\ t # <<>>
    BY <2>2, <2>3
  <2>5. Sound(next, {})
    BY <1>2, FirmParts
  <2>6. Sound(new, Firm) /\ ~IsA(new, "leaf") /\ ~IsLeaf(node)
    BY <1>2, <2>1, <2>3, <2>4, FirmParts, SoundExtension, Kinds, IsLeafIs, ZenonT(60)
  <2>7. ASSUME NEW l \in Hex
        PROVE  GetFrom(new, l) = IF l # <<>> /\ l[1] = i THEN GetFrom(node, From(l, 1)) ELSE NotFound
    <3>1. GetFrom(new, l) = IF IsPrefix(t, l) THEN GetFrom(next, From(l, Len(t))) ELSE NotFound
      <4>1. new = Extension(t, next)
        BY <2>1, <2>3, <2>4
      <4>2. GetFrom(Extension(t, next), l) = IF IsPrefix(t, l) THEN GetFrom(next, From(l, Len(t))) ELSE NotFound
        BY <1>2, <2>4, <2>5, GetExtension
      <4> QED
        BY <4>1, <4>2
    <3>2. IsPrefix(s, l) <=> l # <<>> /\ l[1] = i
      BY <2>3, FirstNibble
    <3>3. /\ IsPrefix(t, l) <=> IsPrefix(s, l) /\ IsPrefix(shared, From(l, 1))
          /\ IsPrefix(t, l) => From(l, Len(t)) = From(From(l, 1), Len(shared))
      <4>1. Len(s) = 1
        BY <2>2, <2>3
      <4> QED
        <5>1. /\ IsPrefix(s \o shared, l) <=> IsPrefix(s, l) /\ IsPrefix(shared, From(l, Len(s)))
              /\ IsPrefix(s \o shared, l) =>
                   From(l, Len(s \o shared)) = From(From(l, Len(s)), Len(shared))
          BY PrefixJoined
        <5> QED
          BY <2>4, <4>1, <5>1
    <3>4. CASE l # <<>> /\ l[1] = i
      <4>1. From(l, 1) \in Hex
        BY <3>4, FirstNibble
      <4>2. GetFrom(node, From(l, 1)) =
              IF IsPrefix(shared, From(l, 1)) THEN GetFrom(next, From(From(l, 1), Len(shared))) ELSE NotFound
        BY <1>2, <2>5, <4>1, GetExtension
      <4> QED
        BY <3>1, <3>2, <3>3, <3>4, <4>2
    <3>5. CASE ~(l # <<>> /\ l[1] = i)
      BY <3>1, <3>2, <3>3, <3>5
    <3> QED
      BY <3>4, <3>5
  <2> QED
    BY <2>6, <2>7
<1>3. ASSUME NEW children, node = Branch(children)
      PROVE  /\ Sound(new, Firm) /\ ~IsA(new, "leaf") /\ ~IsLeaf(node)
             /\ \A l \in Hex : GetFrom(new, l) =
                  IF l # <<>> /\ l[1] = i THEN GetFrom(node, From(l, 1)) ELSE NotFound
  <2>1. new = Extension(<<i>>, node)
    BY <1>3, Kinds DEF Lengthened
  <2>2. <<i>> \in Hex /\ Len(<<i>>) = 1
    BY <1>3, EmptySeq, FirstNibble DEF Hex
  <2>3. <<i>> # <<>> /\ Sound(node, {})
    BY <2>2, HexLength, FirmParts
  <2>4. PICK s \in Hex : s = <<i>> /\ Len(s) = 1 /\ s # <<>>
    BY <2>2, <2>3
  <2>5. Sound(new, Firm) /\ ~IsA(new, "leaf") /\ ~IsLeaf(node)
    BY <1>3, <2>1, <2>4, FirmParts, SoundExtension, Kinds, IsLeafIs
  <2>6. ASSUME NEW l \in Hex
        PROVE  GetFrom(new, l) = IF l # <<>> /\ l[1] = i THEN GetFrom(node, From(l, 1)) ELSE NotFound
    <3>1. GetFrom(new, l) = IF IsPrefix(s, l) THEN GetFrom(node, From(l, 1)) ELSE NotFound
      <4>1. new = Extension(s, node)
        BY <2>1, <2>4
      <4>2. GetFrom(Extension(s, node), l) =
              IF IsPrefix(s, l) THEN GetFrom(node, From(l, Len(s))) ELSE NotFound
        BY <2>3, <2>4, GetExtension
      <4> QED
        BY <2>4, <4>1, <4>2
    <3>2. IsPrefix(s, l) <=> l # <<>> /\ l[1] = i
      BY <2>4, FirstNibble
    <3> QED
      BY <3>1, <3>2
  <2> QED
    BY <2>5, <2>6
<1>4. \A y, v : new = Leaf(y, v) => IsA(new, "leaf")
  BY Kinds
<1> QED
  BY <1>1, <1>2, <1>3, <1>4, SoundIs

\* A branch that goes, or is replaced by its only child, is read as before.
LEMMA CollapseIs ==
  ASSUME NEW children, Children(children, Firm), NEW new, new = Collapse(children)
  PROVE  /\ Sound(new, Firm)
         /\ \A l \in Hex : GetFrom(new, l) = GetFrom(Branch(children), l)
         /\ \A y, v : new = Leaf(y, v) =>
              /\ y \in Hex
              /\ \/ y = <<>> /\ Only(children, Own)
                 \/ \E i \in Nibbles : Only(children, i) /\ y # <<>> /\ y[1] = i
<1>0. Children(children, {})
  BY ChildrenLess
<1>1. CASE (\A i \in 0..Radix : children[i] = NoNode) /\ new = NoNode
  <2>1. Sound(new, Firm) /\ \A y, v : new # Leaf(y, v)
    BY <1>1, SoundNil, Kinds
  <2>2. ASSUME NEW l \in Hex PROVE GetFrom(new, l) = GetFrom(Branch(children), l)
    <3>1. GetFrom(new, l) = NotFound
      BY <1>1, GetNil
    <3>2. CASE l = <<>>
      BY <1>0, <1>1, <3>1, <3>2, GetBranch, Slots DEF OwnValue
    <3>3. CASE l # <<>>
      <4>1. From(l, 1) \in Hex /\ l[1] \in 0..Radix
        BY <3>3, FirstNibble, Slots
      <4> QED
        BY <1>0, <1>1, <3>1, <3>3, <4>1, GetBranch, GetNil
    <3> QED
      BY <3>2, <3>3
  <2> QED
    BY <2>1, <2>2
<1>2. CASE /\ \E i, j \in 0..Radix : i # j /\ children[i] # NoNode /\ children[j] # NoNode
           /\ new = Branch(children)
  <2>1. Crowded(children)
    BY <1>2 DEF Crowded
  <2>2. Sound(new, Firm)
    BY <1>2, <2>1, FirmParts, SoundBranch DEF Children
  <2> QED
    BY <1>2, <2>2, Kinds
<1>3. CASE /\ Only(children, Own)
           /\ new = IF IsA(children[Own], "leaf") THEN Leaf(<<>>, children[Own].Value) ELSE children[Own]
  <2>1. IsLeaf(children[Own])
    BY <1>3 DEF Children, Only
  <2>2. IsA(children[Own], "leaf") /\ children[Own].Value \in Values
    BY <2>1, IsLeafIs
  <2>3. PICK v \in Values : v = children[Own].Value
    BY <2>2
  <2>4. new = Leaf(<<>>, v)
    BY <1>3, <2>2, <2>3
  <2>5. <<>> \in Hex
    BY EmptySeq DEF Hex
  <2>6. Sound(new, Firm) /\ \A l \in Hex : GetFrom(new, l) = IF l = <<>> THEN v ELSE NotFound
    BY <2>4, <2>5, GetLeaf
  <2>7. ASSUME NEW l \in Hex PROVE GetFrom(new, l) = GetFrom(Branch(children), l)
    <3>1. CASE l = <<>>
      BY <1>0, <1>3, <2>3, <2>6, <3>1, GetBranch DEF OwnValue, Only
    <3>2. CASE l # <<>>
      <4>1. From(l, 1) \in Hex /\ l[1] \in 0..Radix /\ l[1] # Own
        BY <3>2, FirstNibble, Slots
      <4>2. children[l[1]] = NoNode
        BY <1>3, <4>1 DEF Only
      <4> QED
        BY <1>0, <2>6, <3>2, <4>1, <4>2, GetBranch, GetNil
    <3> QED
      BY <3>1, <3>2
  <2>8. \A y, w : new = Leaf(y, w) => y = <<>>
    BY <2>4, Kinds
  <2> QED
    BY <1>3, <2>5, <2>6, <2>7, <2>8
<1>4. ASSUME NEW i \in 0..Radix, i # Own, Only(children, i), new = Lengthened(i, children[i])
      PROVE  /\ Sound(new, Firm)
             /\ \A l \in Hex : GetFrom(new, l) = GetFrom(Branch(children), l)
             /\ \A y, v : new = Leaf(y, v) => y \in Hex /\ y # <<>> /\ y[1] = i
             /\ i \in Nibbles
  <2>1. i \in Nibbles /\ children[i] # NoNode /\ Sound(children[i], Firm)
    BY <1>4, Slots DEF Only, Children
  <2>2. PICK child : child = children[i]
    OBVIOUS
  <2>3. /\ Sound(new, Firm)
        /\ \A l \in Hex : GetFrom(new, l) =
             IF l # <<>> /\ l[1] = i THEN GetFrom(child, From(l, 1)) ELSE NotFound
        /\ \A y, v : new = Leaf(y, v) => y \in Hex /\ y # <<>> /\ y[1] = i
    BY <1>4, <2>1, <2>2, LengthenedIs
  <2>4. ASSUME NEW l \in Hex PROVE GetFrom(new, l) = GetFrom(Branch(children), l)
    <3>1. CASE l = <<>>
      <4>1. children[Own] = NoNode
        BY <1>4, Slots DEF Only
      <4> QED
        BY <1>0, <2>3, <3>1, <4>1, GetBranch DEF OwnValue
    <3>2. CASE l # <<>>
      <4>1. From(l, 1) \in Hex /\ l[1] \in 0..Radix
        BY <3>2, FirstNibble, Slots
      <4>2. GetFrom(Branch(children), l) = GetFrom(children[l[1]], From(l, 1))
        BY <1>0, <3>2, GetBranch
      <4>3. CASE l[1] = i
        BY <2>2, <2>3, <3>2, <4>2, <4>3
      <4>4. CASE l[1] # i
        <5>1. children[l[1]] = NoNode
          BY <1>4, <4>1, <4>4 DEF Only
        <5> QED
          BY <2>3, <4>1, <4>2, <4>4, <5>1, GetNil
      <4> QED
        BY <4>3, <4>4
    <3> QED
      BY <3>1, <3>2
  <2> QED
    BY <2>1, <2>3, <2>4
<1> QED
  BY <1>1, <1>2, <1>3, <1>4, CollapseCases

\* An extension whose successor has changed is sound, and what is not read below
\* it is not read through it, unless the successor is now a leaf whose key the
\* extension takes over: then the key is wanted twice.
LEMMA RejoinIs ==
  ASSUME NEW shared \in Hex, shared # <<>>, NEW next, Sound(next, Firm), NEW rest \in Hex,
         GetFrom(next, rest) = NotFound,
         \A y, v : next = Leaf(y, v) /\ y \in Hex => rest # y \o y,
         NEW new, new = Rejoin(shared, next)
  PROVE  Sound(new, Firm) /\ GetFrom(new, shared \o rest) = NotFound /\ ~IsA(new, "leaf")
<1>0. Sound(next, {})
  BY FirmParts
<1>1. PICK key \in Hex : key = shared \o rest /\ IsPrefix(shared, key) /\ From(key, Len(shared)) = rest
  BY Joined
<1>2. CASE next = NoNode
  <2>1. new = NoNode
    BY <1>2, Kinds DEF Rejoin
  <2> QED
    BY <1>1, <2>1, SoundNil, GetNil, Kinds
<1>3. CASE IsLeaf(next)
  <2>1. PICK y \in Hex, v \in Values : next = Leaf(y, v)
    BY <1>3 DEF IsLeaf
  <2>2. new = Extension(shared \o y, next)
    BY <2>1, Kinds DEF Rejoin
  <2>3. shared \o y \in Hex /\ Len(shared \o y) = Len(shared) + Len(y)
    BY Joined
  <2>4. Len(shared) \in Nat /\ Len(shared) # 0 /\ Len(y) \in Nat
    BY HexLength
  <2>5. PICK s \in Hex : s = shared \o y /\ s # <<>>
    <3>1. Len(shared \o y) # 0
      BY <2>3, <2>4
    <3> QED
      BY <2>3, <3>1, HexLength
  <2>6. next # NoNode
    BY <2>1, Kinds
  <2>7. Sound(new, Firm) /\ ~IsA(new, "leaf")
    BY <2>2, <2>5, <2>6, FirmParts, SoundExtension, Kinds
  <2>8. GetFrom(new, key) = IF IsPrefix(s, key) THEN GetFrom(next, From(key, Len(s))) ELSE NotFound
    <3>1. new = Extension(s, next)
      BY <2>2, <2>5
    <3>2. GetFrom(Extension(s, next), key) =
            IF IsPrefix(s, key) THEN GetFrom(next, From(key, Len(s))) ELSE NotFound
      BY <1>0, <2>5, <2>6, GetExtension
    <3> QED
      BY <3>1, <3>2
  <2>9. /\ IsPrefix(s, key) <=> IsPrefix(y, rest)
        /\ IsPrefix(s, key) => From(key, Len(s)) = From(rest, Len(y))
    BY <1>1, <2>5, PrefixJoined
  <2>10. ASSUME IsPrefix(y, rest) PROVE GetFrom(next, From(rest, Len(y))) = NotFound
    <3>1. From(rest, Len(y)) \in Hex /\ rest = y \o From(rest, Len(y))
      BY <2>10, Parted
    <3>2. rest # y \o y
      BY <2>1
    <3>3. From(rest, Len(y)) # y
      BY <3>1, <3>2
    <3> QED
      BY <2>1, <3>1, <3>3, GetLeaf
  <2> QED
    BY <1>1, <2>7, <2>8, <2>9, <2>10
<1>4. ASSUME NEW s \in Hex, NEW n, s # <<>>, n # NoNode, next = Extension(s, n), Sound(n, Firm)
      PROVE  Sound(new, Firm) /\ GetFrom(new, key) = NotFound /\ ~IsA(new, "leaf")
  <2>1. new = Extension(shared \o s, n)
    BY <1>4, Kinds DEF Rejoin
  <2>2. shared \o s \in Hex /\ Len(shared \o s) = Len(shared) + Len(s)
    BY Joined
  <2>3. Len(shared) \in Nat /\ Len(shared) # 0 /\ Len(s) \in Nat
    BY HexLength
  <2>4. PICK t \in Hex : t = shared \o s /\ t # <<>>
    <3>1. Len(shared \o s) # 0
      BY <2>2, <2>3
    <3> QED
      BY <2>2, <3>1, HexLength
  <2>5. Sound(n, {})
    BY <1>4, FirmParts
  <2>6. Sound(new, Firm) /\ ~IsA(new, "leaf")
    BY <1>4, <2>1, <2>4, FirmParts, SoundExtension, Kinds
  <2>7. GetFrom(new, key) = IF IsPrefix(t, key) THEN GetFrom(n, From(key, Len(t))) ELSE NotFound
    <3>1. new = Extension(t, n)
      BY <2>1, <2>4
    <3>2. GetFrom(Extension(t, n), key) =
            IF IsPrefix(t, key) THEN GetFrom(n, From(key, Len(t))) ELSE NotFound
      BY <1>4, <2>4, <2>5, GetExtension
    <3> QED
      BY <3>1, <3>2
  <2>8. /\ IsPrefix(t, key) <=> IsPrefix(s, rest)
        /\ IsPrefix(t, key) => From(key, Len(t)) = From(rest, Len(s))
    BY <1>1, <2>4, PrefixJoined
  <2>9. GetFrom(next, rest) = IF IsPrefix(s, rest) THEN GetFrom(n, From(rest, Len(s))) ELSE NotFound
    BY <1>4, <2>5, GetExtension
  <2> QED
    BY <2>6, <2>7, <2>8, <2>9
<1>5. ASSUME NEW children, next = Branch(children)
      PROVE  Sound(new, Firm) /\ GetFrom(new, key) = NotFound /\ ~IsA(new, "leaf")
  <2>1. new = Extension(shared, next) /\ next # NoNode
    BY <1>5, Kinds DEF Rejoin
  <2>2. Sound(new, Firm) /\ ~IsA(new, "leaf")
    BY <2>1, FirmParts, SoundExtension, Kinds
  <2> QED
    BY <1>0, <1>1, <2>1, <2>2, GetExtension
<1> QED
  BY <1>1, <1>2, <1>3, <1>4, <1>5, SoundIs

\* What is read below an extension whose successor has changed is read through
\* it, or no more when the successor is now a leaf.
LEMMA RejoinKeeps ==
  ASSUME NEW shared \in Hex, shared # <<>>, NEW next, Sound(next, Firm), NEW rest \in Hex,
         GetFrom(next, rest) # NotFound, NEW new, new = Rejoin(shared, next)
  PROVE  /\ GetFrom(new, shared \o rest) \in {GetFrom(next, rest), NotFound}
         /\ new # NoNode
<1>0. Sound(next, {})
  BY FirmParts
<1>1. PICK key \in Hex : key = shared \o rest /\ IsPrefix(shared, key) /\ From(key, Len(shared)) = rest
  BY Joined
<1>2. CASE next = NoNode
  BY <1>2, GetNil
<1>3. CASE IsLeaf(next)
  <2>1. PICK y \in Hex, v \in Values : next = Leaf(y, v)
    BY <1>3 DEF IsLeaf
  <2>2. new = Extension(shared \o y, next) /\ next # NoNode
    BY <2>1, Kinds DEF Rejoin
  <2>3. \A l \in Hex : GetFrom(next, l) = IF l = y THEN v ELSE NotFound
    BY <2>1, GetLeaf
  <2>4. shared \o y \in Hex /\ Len(shared \o y) = Len(shared) + Len(y)
    BY Joined
  <2>5. Len(shared) \in Nat /\ Len(shared) # 0 /\ Len(y) \in Nat
    BY HexLength
  <2>6. PICK s \in Hex : s = shared \o y /\ s # <<>>
    <3>1. Len(shared \o y) # 0
      BY <2>4, <2>5
    <3> QED
      BY <2>4, <3>1, HexLength
  <2>7. new = Extension(s, next)
    BY <2>2, <2>6
  <2>8. GetFrom(new, key) = IF IsPrefix(s, key) THEN GetFrom(next, From(key, Len(s))) ELSE NotFound
    <3>1. GetFrom(Extension(s, next), key) =
            IF IsPrefix(s, key) THEN GetFrom(next, From(key, Len(s))) ELSE NotFound
      BY <1>0, <2>2, <2>6, GetExtension
    <3> QED
      BY <2>7, <3>1
  <2>9. rest = y /\ GetFrom(next, rest) = v
    BY <2>3
  <2>10. IsPrefix(s, key) => From(key, Len(s)) \in Hex
    BY Parted
  <2>11. GetFrom(new, key) \in {v, NotFound}
    BY <2>3, <2>8, <2>10
  <2> QED
    BY <1>1, <2>7, <2>9, <2>11, Kinds
<1>4. ASSUME NEW s \in Hex, NEW n, s # <<>>, n # NoNode, next = Extension(s, n), Sound(n, Firm)
      PROVE  GetFrom(new, key) = GetFrom(next, rest) /\ new # NoNode
  <2>1. new = Extension(shared \o s, n)
    BY <1>4, Kinds DEF Rejoin
  <2>2. shared \o s \in Hex /\ Len(shared \o s) = Len(shared) + Len(s)
    BY Joined
  <2>3. Len(shared) \in Nat /\ Len(shared) # 0 /\ Len(s) \in Nat
    BY HexLength
  <2>4. PICK t \in Hex : t = shared \o s /\ t # <<>>
    <3>1. Len(shared \o s) # 0
      BY <2>2, <2>3
    <3> QED
      BY <2>2, <3>1, HexLength
  <2>5. Sound(n, {})
    BY <1>4, FirmParts
  <2>6. new = Extension(t, n)
    BY <2>1, <2>4
  <2>7. GetFrom(new, key) = IF IsPrefix(t, key) THEN GetFrom(n, From(key, Len(t))) ELSE NotFound
    <3>1. GetFrom(Extension(t, n), key) =
            IF IsPrefix(t, key) THEN GetFrom(n, From(key, Len(t))) ELSE NotFound
      BY <1>4, <2>4, <2>5, GetExtension
    <3> QED
      BY <2>6, <3>1
  <2>8. /\ IsPrefix(t, key) <=> IsPrefix(s, rest)
        /\ IsPrefix(t, key) => From(key, Len(t)) = From(rest, Len(s))
    BY <1>1, <2>4, PrefixJoined
  <2>9. GetFrom(next, rest) = IF IsPrefix(s, rest) THEN GetFrom(n, From(rest, Len(s))) ELSE NotFound
    BY <1>4, <2>5, GetExtension
  <2> QED
    BY <2>6, <2>7, <2>8, <2>9, Kinds
<1>5. ASSUME NEW children, next = Branch(children)
      PROVE  GetFrom(new, key) = GetFrom(next, rest) /\ new # NoNode
  <2>1. new = Extension(shared, next) /\ next # NoNode
    BY <1>5, Kinds DEF Rejoin
  <2> QED
    BY <1>0, <1>1, <2>1, GetExtension, Kinds
<1> QED
  BY <1>1, <1>2, <1>3, <1>4, <1>5, SoundIs

-----------------------------------------------------------------------------
(* Deletion keeps nodes sound and takes its key away.                      *)

\* What the deletion of key at node leaves in new of the keys found at node: it
\* may lose another key, but not where it leaves a leaf or nothing, and it gives
\* none another value.
Keeps(node, key, new) ==
  \A l \in Hex : l # key /\ GetFrom(node, l) # NotFound =>
    \/ GetFrom(new, l) = GetFrom(node, l)
    \/ GetFrom(new, l) = NotFound /\ new # NoNode /\ ~IsA(new, "leaf")

\* What delete makes of a node: d is the new node and whether it deleted.  A
\* deletion that leaves a leaf does not leave one whose key is half of what it
\* was to delete, which an extension above would make readable again.
Clean(node, key, d) ==
  /\ Sound(d[1], Firm) /\ GetFrom(d[1], key) = NotFound
  /\ ~d[2] => d[1] = node
  /\ d[2] => \A y, v : d[1] = Leaf(y, v) /\ y \in Hex => key # y \o y
  /\ Keeps(node, key, d[1])

LEMMA CleanUnchanged ==
  ASSUME NEW node, NEW key, Sound(node, Firm), GetFrom(node, key) = NotFound
  PROVE  Clean(node, key, <<node, FALSE>>)
BY DEF Clean, Keeps

LEMMA CleanChanged ==
  ASSUME NEW node, NEW key, NEW new, Sound(new, Firm), GetFrom(new, key) = NotFound,
         \A y, v : new = Leaf(y, v) /\ y \in Hex => key # y \o y, Keeps(node, key, new)
  PROVE  Clean(node, key, <<new, TRUE>>)
BY DEF Clean

LEMMA DeleteClean ==
  \A node, key : Sound(node, Firm) /\ key \in Hex => Clean(node, key, delete(node, key))
<1> DEFINE Good(node, key) == Clean(node, key, delete(node, key))
           T == {n \in Nat : \A node, key :
                   Sound(node, Firm) /\ key \in Hex /\ Len(key) <= n => Good(node, key)}
<1>1. ASSUME NEW n \in Nat, NEW node, NEW key \in Hex, Sound(node, Firm), Len(key) <= n,
             \A x, k : Sound(x, Firm) /\ k \in Hex /\ Len(k) < n => Good(x, k)
      PROVE  Good(node, key)
  <2>1. Len(key) \in Nat
    BY HexLength
  <2> HIDE DEF Good
  <2>2. CASE node = NoNode
    <3>1. delete(node, key) = <<node, FALSE>>
      BY <2>2, DeleteNil
    <3>2. GetFrom(node, key) = NotFound
      BY <2>2, GetNil
    <3> QED
      BY <1>1, <3>1, <3>2, CleanUnchanged DEF Good
  <2>3. CASE IsLeaf(node)
    <3>1. PICK k \in Hex, v \in Values : node = Leaf(k, v)
      BY <2>3 DEF IsLeaf
    <3>2. CASE key = k
      <4>1. delete(node, key) = <<NoNode, TRUE>>
        BY <3>1, <3>2, DeleteLeaf
      <4>2. Sound(NoNode, Firm) /\ GetFrom(NoNode, key) = NotFound /\ \A y, w : NoNode # Leaf(y, w)
        BY SoundNil, GetNil, Kinds
      <4>3. Keeps(node, key, NoNode)
        BY <3>1, <3>2, GetLeaf DEF Keeps
      <4> QED
        BY <4>1, <4>2, <4>3, CleanChanged DEF Good
    <3>3. CASE key # k
      <4>1. delete(node, key) = <<node, FALSE>>
        BY <3>1, <3>3, DeleteLeaf
      <4>2. GetFrom(node, key) = NotFound
        BY <3>1, <3>3, GetLeaf
      <4> QED
        BY <1>1, <4>1, <4>2, CleanUnchanged DEF Good
    <3> QED
      BY <3>2, <3>3
  <2>4. ASSUME NEW shared \in Hex, NEW next, shared # <<>>, next # NoNode,
               node = Extension(shared, next), Sound(next, Firm)
        PROVE  Good(node, key)
    <3>1. Sound(next, {})
      BY <2>4, FirmParts
    <3> DEFINE rest  == From(key, Len(shared))
               below == delete(next, rest)
    <3>2. delete(node, key) =
            IF IsPrefix(shared, key) /\ below[2] THEN <<Rejoin(shared, below[1]), TRUE>>
            ELSE <<node, FALSE>>
      BY <2>4, <3>1, DeleteExtension
    <3>3. GetFrom(node, key) = IF IsPrefix(shared, key) THEN GetFrom(next, rest) ELSE NotFound
      BY <2>4, <3>1, GetExtension
    <3>4. CASE ~IsPrefix(shared, key)
      <4>1. delete(node, key) = <<node, FALSE>>
        BY <3>2, <3>4
      <4> QED
        BY <1>1, <3>3, <3>4, <4>1, CleanUnchanged DEF Good
    <3>5. CASE IsPrefix(shared, key)
      <4>1. rest \in Hex /\ Len(rest) = Len(key) - Len(shared) /\ key = shared \o rest
        BY <3>5, Parted
      <4>2. Len(shared) \in Nat /\ Len(shared) # 0
        BY <2>4, HexLength
      <4>3. Good(next, rest)
        BY <1>1, <2>1, <2>4, <4>1, <4>2
      <4>4. Clean(next, rest, below)
        BY <4>3 DEF Good
      <4> HIDE DEF rest, below
      <4>5. CASE ~below[2]
        <5>1. GetFrom(node, key) = NotFound
          BY <3>3, <3>5, <4>4, <4>5 DEF Clean
        <5>2. delete(node, key) = <<node, FALSE>>
          BY <3>2, <4>5
        <5> QED
          BY <1>1, <5>1, <5>2, CleanUnchanged DEF Good
      <4>6. CASE below[2]
        <5> DEFINE new == Rejoin(shared, below[1])
        <5>1. delete(node, key) = <<new, TRUE>>
          BY <3>2, <3>5, <4>6
        <5>2. PICK after : after = below[1]
          OBVIOUS
        <5>3. /\ Sound(after, Firm) /\ GetFrom(after, rest) = NotFound
              /\ \A y, v : after = Leaf(y, v) /\ y \in Hex => rest # y \o y
          BY <4>4, <4>6, <5>2 DEF Clean
        <5>4. new = Rejoin(shared, after)
          BY <5>2
        <5> HIDE DEF new
        <5>5. Sound(new, Firm) /\ GetFrom(new, shared \o rest) = NotFound /\ ~IsA(new, "leaf")
          BY <2>4, <4>1, <5>3, <5>4, RejoinIs
        <5>6. \A y, v : new # Leaf(y, v)
          BY <5>5, Kinds
        <5>7. GetFrom(new, key) = NotFound
          BY <4>1, <5>5
        <5>8. Keeps(next, rest, after)
          BY <4>4, <5>2 DEF Clean
        <5>9. ASSUME NEW l \in Hex, l # key, GetFrom(node, l) # NotFound
              PROVE  GetFrom(new, l) \in {GetFrom(node, l), NotFound} /\ new # NoNode
          <6>1. IsPrefix(shared, l) /\ GetFrom(node, l) = GetFrom(next, From(l, Len(shared)))
            BY <2>4, <3>1, <5>9, GetExtension
          <6>2. PICK r \in Hex : r = From(l, Len(shared)) /\ l = shared \o r
            BY <6>1, Parted
          <6>3. r # rest /\ GetFrom(next, r) # NotFound /\ GetFrom(node, l) = GetFrom(next, r)
            BY <4>1, <5>9, <6>1, <6>2
          <6>4. CASE GetFrom(after, r) = GetFrom(next, r)
            <7>1. GetFrom(new, shared \o r) \in {GetFrom(after, r), NotFound} /\ new # NoNode
              BY <2>4, <5>3, <5>4, <6>3, <6>4, RejoinKeeps
            <7> QED
              BY <6>2, <6>3, <6>4, <7>1
          <6>5. CASE GetFrom(after, r) = NotFound /\ after # NoNode /\ ~IsA(after, "leaf")
            <7>1. \A y, v : after # Leaf(y, v)
              BY <6>5, Kinds
            <7>2. GetFrom(new, shared \o r) = NotFound
              BY <2>4, <5>3, <5>4, <6>5, <7>1, RejoinIs
            <7>3. new # NoNode
              <8>1. \/ IsA(after, "extension") /\ new = Extension(shared \o after.Shared, after.Next)
                    \/ IsA(after, "branch") /\ new = Extension(shared, after)
                <9>1. ~IsLeaf(after)
                  BY <6>5, IsLeafIs
                <9> QED
                  BY <5>3, <5>4, <6>5, <9>1, SoundIs, Kinds DEF Rejoin
              <8> QED
                BY <8>1, Kinds
            <7> QED
              BY <6>2, <7>2, <7>3
          <6> QED
            BY <5>8, <6>3, <6>4, <6>5 DEF Keeps
        <5>10. Keeps(node, key, new)
          BY <5>5, <5>9 DEF Keeps
        <5>11. Clean(node, key, <<new, TRUE>>)
          BY <5>5, <5>6, <5>7, <5>10, CleanChanged
        <5> QED
          BY <5>1, <5>11 DEF Good
      <4> QED
        BY <4>5, <4>6
    <3> QED
      BY <3>4, <3>5
  <2>5. ASSUME NEW children, node = Branch(children), Children(children, Firm), Crowded(children)
        PROVE  Good(node, key)
    <3>0. Children(children, {})
      BY <2>5, ChildrenLess
    <3> DEFINE below == delete(children[key[1]], From(key, 1))
    <3>1. delete(node, key) =
            IF key = <<>> THEN <<Collapse(WithoutOwn(children)), TRUE>>
            ELSE IF below[2] THEN <<Collapse([children EXCEPT ![key[1]] = below[1]]), TRUE>>
            ELSE <<node, FALSE>>
      BY <2>5, <3>0, DeleteBranch
    <3>2. CASE key = <<>>
      <4>1. PICK c : Changed(c, children, Own, NoNode) /\ c = WithoutOwn(children)
        BY DEF Changed, WithoutOwn
      <4>2. Children(c, Firm) /\ \A j \in 0..Radix : c[j] = IF j = Own THEN NoNode ELSE children[j]
        BY <2>5, <4>1, ChildrenExcept, SoundNil, Slots
      <4>3. PICK new : new = Collapse(c)
        OBVIOUS
      <4>4. /\ Sound(new, Firm)
            /\ \A l \in Hex : GetFrom(new, l) = GetFrom(Branch(c), l)
            /\ \A y, v : new = Leaf(y, v) =>
                 /\ y \in Hex
                 /\ \/ y = <<>> /\ Only(c, Own)
                    \/ \E i \in Nibbles : Only(c, i) /\ y # <<>> /\ y[1] = i
        BY <4>2, <4>3, CollapseIs
      <4>5. c[Own] = NoNode /\ Children(c, {})
        BY <4>2, Slots, ChildrenLess
      <4>6. GetFrom(new, key) = NotFound
        BY <3>2, <4>4, <4>5, GetBranch DEF OwnValue
      <4>7. ASSUME NEW y, NEW v, new = Leaf(y, v), y \in Hex PROVE key # y \o y
        <5>1. y # <<>>
          BY <4>4, <4>5, <4>7 DEF Only
        <5>2. Len(y \o y) = Len(y) + Len(y) /\ y \o y \in Hex
          BY <4>7, Joined
        <5>3. Len(y) \in Nat /\ Len(y) # 0 /\ Len(key) = 0
          BY <3>2, <4>7, <5>1, HexLength
        <5> QED
          BY <5>2, <5>3
      <4>8. delete(node, key) = <<new, TRUE>>
        BY <3>1, <3>2, <4>1, <4>3
      <4>9. ASSUME NEW l \in Hex, l # key PROVE GetFrom(new, l) = GetFrom(node, l)
        <5>1. From(l, 1) \in Hex /\ l[1] \in 0..Radix /\ l[1] # Own
          BY <3>2, <4>9, FirstNibble, Slots
        <5>2. c[l[1]] = children[l[1]]
          BY <4>2, <5>1
        <5> QED
          BY <2>5, <3>0, <3>2, <4>4, <4>5, <4>9, <5>2, GetBranch
      <4>10. Keeps(node, key, new)
        BY <4>9 DEF Keeps
      <4>11. Clean(node, key, <<new, TRUE>>)
        BY <4>4, <4>6, <4>7, <4>10, CleanChanged
      <4> QED
        BY <4>8, <4>11 DEF Good
    <3>3. CASE key # <<>>
      <4> DEFINE i    == key[1]
                 rest == From(key, 1)
      <4>1. i \in Nibbles /\ rest \in Hex /\ Len(rest) = Len(key) - 1
        BY <3>3, FirstNibble
      <4>2. i \in 0..Radix /\ i # Own
        BY <4>1, Slots
      <4>3. Sound(children[i], Firm)
        BY <2>5, <4>2 DEF Children
      <4>4. Good(children[i], rest)
        BY <1>1, <2>1, <4>1, <4>3
      <4>5. Clean(children[i], rest, below)
        BY <4>4 DEF Good
      <4>6. GetFrom(node, key) = GetFrom(children[i], rest)
        BY <2>5, <3>0, <3>3, GetBranch
      <4>7. CASE ~below[2]
        <5>1. GetFrom(node, key) = NotFound
          BY <4>5, <4>6, <4>7 DEF Clean
        <5>2. delete(node, key) = <<node, FALSE>>
          BY <3>1, <3>3, <4>7
        <5> QED
          BY <1>1, <5>1, <5>2, CleanUnchanged DEF Good
      <4>8. CASE below[2]
        <5>1. PICK after : after = below[1]
          OBVIOUS
        <5>2. Sound(after, Firm) /\ GetFrom(after, rest) = NotFound
          BY <4>5, <5>1 DEF Clean
        <5>3. PICK c : Changed(c, children, i, after) /\ c = [children EXCEPT ![i] = below[1]]
          BY <5>1 DEF Changed
        <5>4. Children(c, Firm) /\ \A j \in 0..Radix : c[j] = IF j = i THEN after ELSE children[j]
          <6> HIDE DEF i, below, rest
          <6>1. Changed(c, children, i, after)
            BY <5>3
          <6> QED
            BY <2>5, <4>2, <5>2, <6>1, ChildrenExcept
        <5>5. PICK new : new = Collapse(c)
          OBVIOUS
        <5>6. delete(node, key) = <<new, TRUE>>
          BY <3>1, <3>3, <4>8, <5>3, <5>5
        <5> HIDE DEF below, i, rest
        <5>7. /\ Sound(new, Firm)
              /\ \A l \in Hex : GetFrom(new, l) = GetFrom(Branch(c), l)
              /\ \A y, v : new = Leaf(y, v) =>
                   /\ y \in Hex
                   /\ \/ y = <<>> /\ Only(c, Own)
                      \/ \E j \in Nibbles : Only(c, j) /\ y # <<>> /\ y[1] = j
          BY <5>4, <5>5, CollapseIs
        <5>8. GetFrom(new, key) = NotFound
          <6>1. Children(c, {})
            BY <5>4, ChildrenLess
          <6>2. GetFrom(Branch(c), key) = GetFrom(c[i], rest)
            BY <3>3, <6>1, GetBranch DEF i, rest
          <6>3. c[i] = after
            BY <4>2, <5>4
          <6> QED
            BY <5>2, <5>7, <6>2, <6>3
        <5>9. ~Only(c, i)
          <6>1. SUFFICES ASSUME Only(c, i) PROVE FALSE
            OBVIOUS
          <6>2. \A j \in 0..Radix : j # i => children[j] = NoNode
            BY <5>4, <6>1 DEF Only
          <6>3. children[Own] = NoNode
            BY <4>2, <6>2, Slots
          <6> QED
            BY <2>5, <6>2, <6>3 DEF Crowded
        <5>10. ASSUME NEW y, NEW v, new = Leaf(y, v), y \in Hex PROVE key # y \o y
          <6>1. CASE y = <<>>
            <7>1. Len(y \o y) = Len(y) + Len(y) /\ Len(y) = 0
              BY <5>10, <6>1, Joined, HexLength
            <7>2. Len(key) # 0
              BY <3>3, HexLength
            <7> QED
              BY <7>1, <7>2
          <6>2. CASE y # <<>>
            <7>1. y[1] # i
              BY <5>7, <5>9, <5>10, <6>2
            <7>2. IsPrefix(y, y \o y) /\ y \o y \in Hex
              BY <5>10, Joined
            <7>3. Len(y) \in Nat /\ Len(y) # 0
              BY <5>10, <6>2, HexLength
            <7>4. (y \o y)[1] = y[1]
              <8>1. \A j \in 1..Len(y) : y[j] = (y \o y)[j]
                BY <5>10, <7>2, PrefixIs
              <8>2. 1 \in 1..Len(y)
                BY <7>3
              <8> QED
                BY <8>1, <8>2
            <7> QED
              BY <7>1, <7>4 DEF i
          <6> QED
            BY <6>1, <6>2
        <5>11. Children(c, {}) /\ Keeps(children[i], rest, after)
          BY <4>5, <5>1, <5>4, ChildrenLess DEF Clean
        <5>12. key = <<i>> \o rest
          BY <3>3, FirstNibble DEF i, rest
        <5>13. ASSUME NEW l \in Hex, l # key, GetFrom(node, l) # NotFound
               PROVE  \/ GetFrom(new, l) = GetFrom(node, l)
                      \/ GetFrom(new, l) = NotFound /\ new # NoNode /\ ~IsA(new, "leaf")
          <6>1. GetFrom(new, l) = GetFrom(Branch(c), l)
            BY <5>7
          <6>2. CASE l = <<>>
            <7>1. c[Own] = children[Own]
              BY <4>2, <5>4, Slots
            <7> QED
              BY <2>5, <3>0, <5>11, <6>1, <6>2, <7>1, GetBranch DEF OwnValue
          <6>3. CASE l # <<>>
            <7>1. PICK r \in Hex : r = From(l, 1) /\ l = <<l[1]>> \o r /\ l[1] \in 0..Radix
              BY <6>3, FirstNibble, Slots
            <7>2. GetFrom(Branch(c), l) = GetFrom(c[l[1]], r) /\ GetFrom(node, l) = GetFrom(children[l[1]], r)
              BY <2>5, <3>0, <5>11, <6>3, <7>1, GetBranch
            <7>3. CASE l[1] # i
              BY <5>4, <6>1, <7>1, <7>2, <7>3
            <7>4. CASE l[1] = i
              <8>1. r # rest /\ c[l[1]] = after
                BY <4>2, <5>4, <5>12, <5>13, <7>1, <7>4
              <8>2. CASE GetFrom(after, r) = GetFrom(children[i], r)
                BY <6>1, <7>2, <7>4, <8>1, <8>2
              <8>3. CASE GetFrom(after, r) = NotFound /\ after # NoNode /\ ~IsA(after, "leaf")
                <9>1. c[i] # NoNode
                  BY <7>4, <8>1, <8>3
                <9>2. new = Branch(c)
                  BY <4>2, <5>5, <5>9, <9>1, CollapseCases DEF Only
                <9> QED
                  BY <6>1, <7>2, <8>1, <8>3, <9>2, Kinds
              <8> QED
                BY <5>11, <5>13, <7>2, <7>4, <8>1, <8>2, <8>3 DEF Keeps
            <7> QED
              BY <7>3, <7>4
          <6> QED
            BY <6>2, <6>3
        <5>14. Keeps(node, key, new)
          BY <5>13 DEF Keeps
        <5>15. Clean(node, key, <<new, TRUE>>)
          BY <5>7, <5>8, <5>10, <5>14, CleanChanged
        <5> QED
          BY <5>6, <5>15 DEF Good
      <4> QED
        BY <4>7, <4>8
    <3> QED
      BY <3>2, <3>3
  <2> QED
    BY <1>1, <2>2, <2>3, <2>4, <2>5, SoundIs, FirmParts DEF Children
<1>2. 0 \in T
  BY <1>1
<1>3. ASSUME NEW n \in Nat, n \in T PROVE n + 1 \in T
  <2>1. ASSUME NEW x, NEW k, Sound(x, Firm), k \in Hex, Len(k) < n + 1 PROVE Good(x, k)
    <3>1. Len(k) <= n
      BY <2>1, HexLength
    <3> QED
      BY <1>3, <2>1, <3>1
  <2> QED
    BY <1>1, <2>1
<1> HIDE DEF T
<1>4. Nat \subseteq T
  BY <1>2, <1>3, NatInductive
<1>5. ASSUME NEW node, NEW key \in Hex, Sound(node, Firm) PROVE Good(node, key)
  <2>1. Len(key) \in T /\ Len(key) <= Len(key)
    BY <1>4, HexLength
  <2> QED
    BY <1>5, <2>1 DEF T
<1> QED
  BY <1>5

-----------------------------------------------------------------------------
(* A trie of keys with different first nibbles is a leaf, or a branch over *)
(* leaves.                                                                 *)

FlatChildren(children) ==
  /\ children = [i \in 0..Radix |-> children[i]]
  /\ \A i \in 0..Radix : children[i] = NoNode \/ IsLeaf(children[i])

Flat(node) ==
  \/ node = NoNode \/ IsLeaf(node)
  \/ \E children :
       /\ node = Branch(children) /\ FlatChildren(children)
       /\ \E i, j \in 0..Radix : i # j /\ children[i] # NoNode /\ children[j] # NoNode

LEMMA LeafSound ==
  ASSUME NEW node, IsLeaf(node), NEW what
  PROVE  Sound(node, what)
BY GetLeaf DEF IsLeaf

LEMMA FlatIsSound ==
  ASSUME NEW children, FlatChildren(children), NEW what
  PROVE  Children(children, what)
<1>1. \A i \in 0..Radix : Sound(children[i], what)
  BY LeafSound, SoundNil DEF FlatChildren
<1> QED
  BY <1>1, Slots DEF FlatChildren, Children

LEMMA FlatSound ==
  ASSUME NEW node, Flat(node), NEW what
  PROVE  Sound(node, what)
<1>1. CASE node = NoNode \/ IsLeaf(node)
  BY <1>1, LeafSound, SoundNil
<1>2. ASSUME NEW children, node = Branch(children), FlatChildren(children),
             NEW i \in 0..Radix, NEW j \in 0..Radix, i # j, children[i] # NoNode, children[j] # NoNode
      PROVE  Sound(node, what)
  <2>1. Children(children, what) /\ Children(children, {})
    BY <1>2, FlatIsSound
  <2>2. Crowded(children)
    BY <1>2 DEF Crowded
  <2>3. Readable(Branch(children))
    <3>1. PICK key \in Hex, v \in Values : children[i] = Leaf(key, v)
      BY <1>2 DEF FlatChildren, IsLeaf
    <3>2. v # NotFound
      BY TrieAssumption
    <3>3. CASE i = Own
      <4>1. <<>> \in Hex
        BY EmptySeq DEF Hex
      <4>2. OwnValue(children) = v
        BY <3>1, <3>3, Kinds DEF OwnValue
      <4>3. GetFrom(Branch(children), <<>>) = v
        BY <2>1, <4>1, <4>2, GetBranch
      <4> QED
        BY <3>2, <4>1, <4>3 DEF Readable
    <3>4. CASE i # Own
      <4>1. i \in Nibbles
        BY <3>4, Slots
      <4>2. <<i>> \o key \in Hex
        BY <4>1, FirstNibble
      <4>3. GetFrom(Branch(children), <<i>> \o key) = GetFrom(children[i], key)
        BY <2>1, <4>1, EndBranch
      <4>4. GetFrom(Leaf(key, v), key) = v
        BY GetLeaf
      <4> QED
        BY <3>1, <3>2, <4>2, <4>3, <4>4 DEF Readable
    <3> QED
      BY <3>3, <3>4
  <2>4. Sound(Branch(children), what)
    BY <2>1, <2>2, <2>3, SoundBranch DEF Children
  <2> QED
    BY <1>2, <2>4
<1> QED
  BY <1>1, <1>2 DEF Flat

LEMMA FlatCollapse ==
  ASSUME NEW children, FlatChildren(children)
  PROVE  Flat(Collapse(children))
<1> DEFINE new == Collapse(children)
<1>1. CASE new = NoNode
  BY <1>1 DEF Flat
<1>2. CASE /\ \E i, j \in 0..Radix : i # j /\ children[i] # NoNode /\ children[j] # NoNode
           /\ new = Branch(children)
  BY <1>2 DEF Flat
<1>3. CASE /\ Only(children, Own)
           /\ new = IF IsA(children[Own], "leaf") THEN Leaf(<<>>, children[Own].Value) ELSE children[Own]
  <2>1. IsLeaf(children[Own])
    BY <1>3, Slots DEF Only, FlatChildren
  <2>2. IsA(children[Own], "leaf") /\ children[Own].Value \in Values
    BY <2>1, IsLeafIs
  <2>3. <<>> \in Hex
    BY EmptySeq DEF Hex
  <2>4. IsLeaf(Leaf(<<>>, children[Own].Value))
    BY <2>2, <2>3 DEF IsLeaf
  <2> QED
    BY <1>3, <2>2, <2>4 DEF Flat
<1>4. ASSUME NEW i \in 0..Radix, i # Own, Only(children, i), new = Lengthened(i, children[i])
      PROVE  Flat(new)
  <2>1. i \in Nibbles
    BY <1>4, Slots
  <2>2. PICK child : child = children[i]
    OBVIOUS
  <2>3. IsLeaf(child) /\ child # NoNode
    BY <1>4, <2>2 DEF Only, FlatChildren
  <2>4. Sound(child, Firm)
    BY <2>3, LeafSound
  <2> HIDE DEF new
  <2>5. IsLeaf(new)
    BY <1>4, <2>1, <2>2, <2>3, <2>4, LengthenedIs
  <2> QED
    BY <2>5 DEF Flat
<1> HIDE DEF new
<1>5. Flat(new)
  <2>1. \/ (\A i \in 0..Radix : children[i] = NoNode) /\ new = NoNode
        \/ /\ \E i, j \in 0..Radix : i # j /\ children[i] # NoNode /\ children[j] # NoNode
           /\ new = Branch(children)
        \/ /\ Only(children, Own)
           /\ new = IF IsA(children[Own], "leaf") THEN Leaf(<<>>, children[Own].Value) ELSE children[Own]
        \/ \E i \in 0..Radix :
             i # Own /\ Only(children, i) /\ new = Lengthened(i, children[i])
    BY CollapseCases DEF new
  <2>2. CASE \E i \in 0..Radix : i # Own /\ Only(children, i) /\ new = Lengthened(i, children[i])
    BY <1>4, <2>2
  <2> QED
    BY <1>1, <1>2, <1>3, <2>1, <2>2 DEF new
<1> QED
  BY <1>5 DEF new

\* A slot of a flat branch is emptied.
LEMMA FlatExcept ==
  ASSUME NEW children, FlatChildren(children), NEW i \in 0..Radix, NEW new,
         new = NoNode \/ IsLeaf(new), NEW c, Changed(c, children, i, new)
  PROVE  FlatChildren(c) /\ \A j \in 0..Radix : c[j] = IF j = i THEN new ELSE children[j]
<1>1. Children(children, {}) /\ Sound(new, {})
  BY FlatIsSound, LeafSound, SoundNil
<1>2. Children(c, {}) /\ \A j \in 0..Radix : c[j] = IF j = i THEN new ELSE children[j]
  BY <1>1, ChildrenExcept
<1> QED
  BY <1>2 DEF FlatChildren, Children

LEMMA PairIs ==
  \A a : /\ <<a, TRUE>>[1] = a /\ <<a, TRUE>>[2]
         /\ <<a, FALSE>>[1] = a /\ ~<<a, FALSE>>[2]
OBVIOUS

\* In a flat trie a deletion takes its own key away and no other.
LEMMA FlatDelete ==
  ASSUME NEW node, Flat(node), NEW key \in Hex, NEW new, new = delete(node, key)[1]
  PROVE  /\ Flat(new)
         /\ \A l \in Hex : GetFrom(new, l) = IF l = key THEN NotFound ELSE GetFrom(node, l)
<1>1. CASE node = NoNode
  <2>1. new = NoNode
    BY <1>1, DeleteNil, PairIs
  <2> QED
    BY <1>1, <2>1, GetNil
<1>2. CASE IsLeaf(node)
  <2>1. PICK k \in Hex, v \in Values : node = Leaf(k, v)
    BY <1>2 DEF IsLeaf
  <2>2. \A l \in Hex : GetFrom(node, l) = IF l = k THEN v ELSE NotFound
    BY <2>1, GetLeaf
  <2>3. new = IF key = k THEN NoNode ELSE node
    <3>1. delete(node, key) = IF key = k THEN <<NoNode, TRUE>> ELSE <<node, FALSE>>
      BY <2>1, DeleteLeaf
    <3> QED
      BY <3>1, PairIs
  <2>4. \A l \in Hex : GetFrom(NoNode, l) = NotFound
    BY GetNil
  <2> QED
    BY <1>2, <2>2, <2>3, <2>4 DEF Flat
<1>3. ASSUME NEW children, node = Branch(children), FlatChildren(children)
      PROVE  /\ Flat(new)
             /\ \A l \in Hex : GetFrom(new, l) = IF l = key THEN NotFound ELSE GetFrom(node, l)
  <2>1. Children(children, {})
    BY <1>3, FlatIsSound
  <2> DEFINE below == delete(children[key[1]], From(key, 1))
  <2>2. delete(node, key) =
          IF key = <<>> THEN <<Collapse(WithoutOwn(children)), TRUE>>
          ELSE IF below[2] THEN <<Collapse([children EXCEPT ![key[1]] = below[1]]), TRUE>>
          ELSE <<node, FALSE>>
    BY <1>3, <2>1, DeleteBranch
  <2>3. CASE key = <<>>
    <3>1. PICK c : Changed(c, children, Own, NoNode) /\ c = WithoutOwn(children)
      BY DEF Changed, WithoutOwn
    <3>2. FlatChildren(c) /\ \A j \in 0..Radix : c[j] = IF j = Own THEN NoNode ELSE children[j]
      BY <1>3, <3>1, FlatExcept, Slots
    <3>3. new = Collapse(c)
      BY <2>2, <2>3, <3>1
    <3>4. Flat(new)
      BY <3>2, <3>3, FlatCollapse
    <3>5. Children(c, Firm) /\ Children(c, {})
      BY <3>2, FlatIsSound
    <3>6. \A l \in Hex : GetFrom(new, l) = GetFrom(Branch(c), l)
      BY <3>3, <3>5, CollapseIs
    <3>7. ASSUME NEW l \in Hex PROVE GetFrom(new, l) = IF l = key THEN NotFound ELSE GetFrom(node, l)
      <4>1. CASE l = <<>>
        <5>1. c[Own] = NoNode
          BY <3>2, Slots
        <5> QED
          BY <2>3, <3>5, <3>6, <4>1, <5>1, GetBranch DEF OwnValue
      <4>2. CASE l # <<>>
        <5>1. l[1] \in 0..Radix /\ l[1] # Own
          BY <4>2, FirstNibble, Slots
        <5>2. c[l[1]] = children[l[1]]
          BY <3>2, <5>1
        <5> QED
          BY <1>3, <2>1, <2>3, <3>5, <3>6, <4>2, <5>2, GetBranch
      <4> QED
        BY <4>1, <4>2
    <3> QED
      BY <3>4, <3>7
  <2>4. CASE key # <<>>
    <3> DEFINE i    == key[1]
               rest == From(key, 1)
    <3>1. i \in Nibbles /\ rest \in Hex /\ key = <<i>> \o rest
      BY <2>4, FirstNibble
    <3>2. i \in 0..Radix /\ i # Own
      BY <3>1, Slots
    <3>3. GetFrom(node, key) = GetFrom(children[i], rest)
      BY <1>3, <2>1, <2>4, GetBranch
    <3>4. ASSUME below = <<children[i], FALSE>>, GetFrom(children[i], rest) = NotFound
          PROVE  /\ Flat(new)
                 /\ \A l \in Hex : GetFrom(new, l) = IF l = key THEN NotFound ELSE GetFrom(node, l)
      <4>1. ~below[2]
        BY <3>4, PairIs
      <4>2. new = node
        BY <2>2, <2>4, <4>1
      <4> QED
        BY <3>3, <3>4, <4>2
    <3>5. CASE children[i] = NoNode
      <4>1. below = <<children[i], FALSE>>
        BY <3>1, <3>5, DeleteNil
      <4>2. GetFrom(children[i], rest) = NotFound
        BY <3>1, <3>5, GetNil
      <4> QED
        BY <3>4, <4>1, <4>2
    <3>6. CASE IsLeaf(children[i])
      <4>1. PICK k \in Hex, v \in Values : children[i] = Leaf(k, v)
        BY <3>6 DEF IsLeaf
      <4>2. delete(Leaf(k, v), rest) = IF rest = k THEN <<NoNode, TRUE>> ELSE <<Leaf(k, v), FALSE>>
        BY <3>1, DeleteLeaf
      <4>3. \A l \in Hex : GetFrom(children[i], l) = IF l = k THEN v ELSE NotFound
        BY <4>1, GetLeaf
      <4>4. CASE rest # k
        <5>1. below = <<children[i], FALSE>>
          BY <4>1, <4>2, <4>4
        <5>2. GetFrom(children[i], rest) = NotFound
          BY <3>1, <4>3, <4>4
        <5> QED
          BY <3>4, <5>1, <5>2
      <4>5. CASE rest = k
        <5>1. below = <<NoNode, TRUE>>
          BY <4>1, <4>2, <4>5
        <5>2. below[1] = NoNode /\ below[2]
          BY <5>1, PairIs
        <5>3. PICK c : Changed(c, children, i, NoNode) /\ c = [children EXCEPT ![i] = below[1]]
          BY <5>2 DEF Changed
        <5>4. new = Collapse(c)
          BY <2>2, <2>4, <5>2, <5>3
        <5> HIDE DEF below, i, rest
        <5>5. Changed(c, children, i, NoNode)
          BY <5>3
        <5>6. FlatChildren(c) /\ \A j \in 0..Radix : c[j] = IF j = i THEN NoNode ELSE children[j]
          BY <1>3, <3>2, <5>5, FlatExcept
        <5>7. Flat(new)
          BY <5>4, <5>6, FlatCollapse
        <5>8. Children(c, Firm) /\ Children(c, {})
          BY <5>6, FlatIsSound
        <5>9. \A l \in Hex : GetFrom(new, l) = GetFrom(Branch(c), l)
          BY <5>4, <5>8, CollapseIs
        <5>10. ASSUME NEW l \in Hex PROVE GetFrom(new, l) = IF l = key THEN NotFound ELSE GetFrom(node, l)
          <6>1. CASE l = <<>>
            <7>1. c[Own] = children[Own]
              BY <3>2, <5>6, Slots
            <7> QED
              BY <1>3, <2>1, <2>4, <5>8, <5>9, <6>1, <7>1, GetBranch DEF OwnValue
          <6>2. CASE l # <<>>
            <7>1. l[1] \in 0..Radix /\ From(l, 1) \in Hex /\ l = <<l[1]>> \o From(l, 1)
              BY <6>2, FirstNibble, Slots
            <7>2. GetFrom(new, l) = GetFrom(c[l[1]], From(l, 1))
              BY <5>8, <5>9, <6>2, GetBranch
            <7>3. GetFrom(node, l) = GetFrom(children[l[1]], From(l, 1))
              BY <1>3, <2>1, <6>2, GetBranch
            <7>4. CASE l[1] # i
              <8>1. c[l[1]] = children[l[1]] /\ l # key
                BY <5>6, <7>1, <7>4 DEF i
              <8> QED
                BY <7>2, <7>3, <8>1
            <7>5. CASE l[1] = i
              <8>1. c[l[1]] = NoNode
                BY <5>6, <7>1, <7>5
              <8>2. GetFrom(new, l) = NotFound
                BY <7>1, <7>2, <8>1, GetNil
              <8>3. l # key => From(l, 1) # k
                BY <3>1, <4>5, <7>1, <7>5
              <8>4. l # key => GetFrom(node, l) = NotFound
                BY <4>3, <7>1, <7>3, <7>5, <8>3
              <8> QED
                BY <8>2, <8>4
            <7> QED
              BY <7>4, <7>5
          <6> QED
            BY <6>1, <6>2
        <5> QED
          BY <5>7, <5>10
      <4> QED
        BY <4>4, <4>5
    <3> QED
      BY <1>3, <3>2, <3>5, <3>6 DEF FlatChildren
  <2> QED
    BY <2>3, <2>4
<1> QED
  BY <1>1, <1>2, <1>3 DEF Flat

LEMMA AtLeastTwo ==
  ASSUME NEW n \in Nat, n # 0, n # 1
  PROVE  0 + 1 < n /\ 1 \in 0..n
OBVIOUS

\* A new key that shares no first nibble with the others leaves a flat trie flat.
LEMMA FlatInsert ==
  ASSUME NEW node, Flat(node), NEW key \in Hex, Len(key) # 1, NEW value \in Values,
         \A y \in Hex : GetFrom(node, y) # NotFound =>
           Len(y) # 1 /\ (y # key => sharedPrefix(key, y) = 0)
  PROVE  Flat(insert(node, key, value))
<1>0. Len(key) \in Nat
  BY HexLength
<1>1. CASE node = NoNode
  <2>1. insert(node, key, value) = Leaf(key, value)
    BY <1>1, InsertNil
  <2> QED
    BY <2>1 DEF Flat, IsLeaf
<1>2. CASE IsLeaf(node)
  <2>1. PICK k \in Hex, v \in Values : node = Leaf(k, v)
    BY <1>2 DEF IsLeaf
  <2>2. insert(node, key, value) = SplitLeaf(Leaf(k, v), key, value)
    BY <2>1, InsertLeaf
  <2>3. CASE key = k
    <3>1. SplitLeaf(Leaf(k, v), key, value) = Leaf(k, value)
      BY <2>3, Kinds DEF SplitLeaf, Update, Leaf
    <3> QED
      BY <2>2, <3>1 DEF Flat, IsLeaf
  <2>4. CASE key # k
    <3>1. GetFrom(node, k) # NotFound
      BY <2>1, GetLeaf, TrieAssumption
    <3>2. sharedPrefix(key, k) = 0 /\ Len(k) # 1 /\ Len(k) \in Nat
      BY <2>4, <3>1, HexLength
    <3> DEFINE old == IF Len(k) = 0 THEN [NoChildren EXCEPT ![Own] = node] ELSE Place(NoChildren, k, 0, v)
               c   == Place(old, key, 0, value)
               i   == IF Len(k) = 0 THEN Own ELSE k[1]
               j   == IF Len(key) = 0 THEN Own ELSE key[1]
    <3>3. SplitLeaf(Leaf(k, v), key, value) = Branch(c)
      <4>1. SubSeq(key, 1, 0) = <<>>
        BY SubSeqEmpty, <1>0
      <4>2. Leaf(k, v).Key = k /\ Leaf(k, v).Value = v
        BY Kinds
      <4> QED
        BY <2>1, <2>4, <3>2, <4>1, <4>2 DEF SplitLeaf, Below
    <3>4. FlatChildren(NoChildren)
      BY DEF FlatChildren, NoChildren
    <3>5. i \in 0..Radix /\ j \in 0..Radix
      <4>1. Len(k) # 0 => k[1] \in 0..Radix
        BY <3>2, NibbleAt
      <4>2. Len(key) # 0 => key[1] \in 0..Radix
        BY <1>0, NibbleAt
      <4> QED
        BY <4>1, <4>2, Slots
    <3>6. i # j
      <4>1. CASE Len(k) # 0 /\ Len(key) # 0
        BY <1>0, <3>2, <4>1, SharedIs
      <4>2. CASE Len(k) = 0 /\ Len(key) # 0
        BY <1>0, <4>2, NibbleAt
      <4>3. CASE Len(k) # 0 /\ Len(key) = 0
        BY <3>2, <4>3, NibbleAt
      <4>4. CASE Len(k) = 0 /\ Len(key) = 0
        BY <2>4, <4>4, HexLength
      <4> QED
        BY <4>1, <4>2, <4>3, <4>4
    <3>7. PICK a : (a = NoNode \/ IsLeaf(a)) /\ a # NoNode /\ Changed(old, NoChildren, i, a)
      <4>1. CASE Len(k) = 0
        BY <1>2, <2>1, <4>1, Kinds DEF Changed
      <4>2. CASE Len(k) # 0
        <5>1. 0 + 1 < Len(k) /\ 1 \in 0..Len(k)
          BY <3>2, <4>2, AtLeastTwo
        <5>2. IsLeaf(Leaf(From(k, 1), v)) /\ Leaf(From(k, 1), v) # NoNode
          BY <5>1, FromIs, Kinds DEF IsLeaf
        <5>3. old = [NoChildren EXCEPT ![k[1]] = Leaf(From(k, 1), v)]
          BY <4>2, <5>1 DEF Place
        <5> QED
          BY <4>2, <5>2, <5>3 DEF Changed
      <4> QED
        BY <4>1, <4>2
    <3>8. PICK b : (b = NoNode \/ IsLeaf(b)) /\ b # NoNode /\ Changed(c, old, j, b)
      <4> HIDE DEF old
      <4>1. CASE Len(key) = 0
        <5>1. <<>> \in Hex
          BY EmptySeq DEF Hex
        <5>2. IsLeaf(Leaf(<<>>, value)) /\ Leaf(<<>>, value) # NoNode
          BY <5>1, Kinds DEF IsLeaf
        <5>3. c = [old EXCEPT ![Own] = Leaf(<<>>, value)]
          BY <4>1 DEF Place
        <5> QED
          BY <4>1, <5>2, <5>3 DEF Changed
      <4>2. CASE Len(key) # 0
        <5>1. 0 + 1 < Len(key) /\ 1 \in 0..Len(key)
          BY <1>0, <4>2, AtLeastTwo
        <5>2. IsLeaf(Leaf(From(key, 1), value)) /\ Leaf(From(key, 1), value) # NoNode
          BY <5>1, FromIs, Kinds DEF IsLeaf
        <5>3. c = [old EXCEPT ![key[1]] = Leaf(From(key, 1), value)]
          BY <4>2, <5>1 DEF Place
        <5> QED
          BY <4>2, <5>2, <5>3 DEF Changed
      <4> QED
        BY <4>1, <4>2
    <3> HIDE DEF old, c, i, j
    <3>9. FlatChildren(old) /\ old[i] = a
      BY <3>4, <3>5, <3>7, FlatExcept
    <3>10. FlatChildren(c) /\ c[i] = a /\ c[j] = b
      BY <3>5, <3>6, <3>8, <3>9, FlatExcept
    <3> QED
      BY <2>2, <3>3, <3>5, <3>6, <3>7, <3>8, <3>10 DEF Flat
  <2> QED
    BY <2>3, <2>4
<1>3. ASSUME NEW children, node = Branch(children), FlatChildren(children),
             NEW s \in 0..Radix, NEW t \in 0..Radix, s # t, children[s] # NoNode, children[t] # NoNode
      PROVE  Flat(insert(node, key, value))
  <2>1. Children(children, {})
    BY <1>3, FlatIsSound
  <2> DEFINE i   == IF key = <<>> THEN Own ELSE key[1]
             new == IF key = <<>> THEN Leaf(<<>>, value)
                    ELSE insert(children[key[1]], From(key, 1), value)
             c   == [children EXCEPT ![i] = new]
  <2>2. insert(node, key, value) = Branch(c)
    BY <1>3, <2>1, InsertBranch
  <2>3. i \in 0..Radix /\ IsLeaf(new)
    <3>1. CASE key = <<>>
      <4>1. <<>> \in Hex
        BY EmptySeq DEF Hex
      <4> QED
        BY <3>1, <4>1, GetLeaf, Slots
    <3>2. CASE key # <<>>
      <4>1. key[1] \in Nibbles /\ From(key, 1) \in Hex /\ key = <<key[1]>> \o From(key, 1) /\ Len(key) # 0
        BY <3>2, FirstNibble, HexLength
      <4>2. key[1] \in 0..Radix
        BY <4>1, Slots
      <4>3. CASE children[key[1]] = NoNode
        <5>1. new = Leaf(From(key, 1), value)
          BY <3>2, <4>1, <4>3, InsertNil
        <5>2. IsLeaf(Leaf(From(key, 1), value))
          BY <4>1, GetLeaf
        <5> QED
          BY <3>2, <4>2, <5>1, <5>2
      <4>4. CASE IsLeaf(children[key[1]])
        <5>1. PICK r \in Hex, v \in Values : children[key[1]] = Leaf(r, v)
          BY <4>4 DEF IsLeaf
        <5>2. PICK y \in Hex : y = <<key[1]>> \o r /\ y # <<>> /\ y[1] = key[1] /\ From(y, 1) = r
          <6>1. /\ <<key[1]>> \o r \in Hex /\ <<key[1]>> \o r # <<>>
                /\ (<<key[1]>> \o r)[1] = key[1] /\ From(<<key[1]>> \o r, 1) = r
            BY <4>1, <5>1, FirstNibble, ZenonT(60)
          <6> QED
            BY <6>1
        <5>3. GetFrom(node, y) = GetFrom(Leaf(r, v), r)
          BY <1>3, <2>1, <5>1, <5>2, GetBranch
        <5>4. GetFrom(Leaf(r, v), r) = v
          BY GetLeaf
        <5>5. GetFrom(node, y) # NotFound
          BY <5>3, <5>4, TrieAssumption
        <5>6. y = key
          <6>1. SUFFICES ASSUME y # key PROVE FALSE
            OBVIOUS
          <6>2. sharedPrefix(key, y) = 0
            BY <5>5, <6>1
          <6>3. Len(y) \in Nat /\ Len(y) # 0
            BY <5>2, HexLength
          <6> QED
            <7>1. 0 < Len(key) /\ 0 < Len(y)
              BY <1>0, <4>1, <6>3
            <7>2. 0 < Len(key) /\ 0 < Len(y) => key[0 + 1] # y[0 + 1]
              BY <6>2, SharedIs
            <7> QED
              BY <5>2, <7>1, <7>2
        <5>7. From(key, 1) = r
          BY <5>2, <5>6
        <5>8. SplitLeaf(Leaf(r, v), r, value) = Leaf(r, value)
          BY Kinds DEF SplitLeaf, Update, Leaf
        <5>9. insert(Leaf(r, v), r, value) = Leaf(r, value)
          BY <5>8, InsertLeaf
        <5>10. new = Leaf(r, value)
          BY <3>2, <5>1, <5>7, <5>9
        <5>11. IsLeaf(Leaf(r, value))
          BY GetLeaf
        <5> QED
          BY <3>2, <4>2, <5>10, <5>11
      <4> QED
        BY <1>3, <4>2, <4>3, <4>4 DEF FlatChildren
    <3> QED
      BY <3>1, <3>2
  <2>4. Changed(c, children, i, new)
    BY DEF Changed
  <2> HIDE DEF c, i, new
  <2>5. FlatChildren(c) /\ \A j \in 0..Radix : c[j] = IF j = i THEN new ELSE children[j]
    BY <1>3, <2>3, <2>4, FlatExcept
  <2>6. new # NoNode
    BY <2>3, IsLeafIs
  <2>7. c[s] # NoNode /\ c[t] # NoNode
    BY <1>3, <2>5, <2>6
  <2> QED
    BY <1>3, <2>2, <2>5, <2>7 DEF Flat
<1> QED
  BY <1>1, <1>2, <1>3 DEF Flat

-----------------------------------------------------------------------------
(* The invariant.                                                          *)

\* The history is of the trie's keys and values.
Known ==
  /\ seen \subseteq Keys /\ DOMAIN map \subseteq seen
  /\ \A k \in DOMAIN map : map[k] \in Values

\* What is read from node is what f holds.
Exact(node, f) ==
  /\ \A l \in Hex : GetFrom(node, l) # NotFound => \E k \in DOMAIN f : l = keyToHex(k)
  /\ \A k \in DOMAIN f : GetFrom(node, keyToHex(k)) = f[k]

\* Every leaf ends at a whole byte, and so does everything that is read, unless
\* it lost a nibble on the way in.
Whole(node, f) ==
  /\ \A l \in Hex : LeafAt(node, l) => Len(l) % 2 = 0
  /\ \A l \in Hex : GetFrom(node, l) # NotFound /\ Len(l) % 2 = 0 =>
       \E k \in DOMAIN f : l = keyToHex(k) /\ GetFrom(node, l) = f[k]

TrieInvariant ==
  /\ Known
  /\ Sound(root, Firm)
  /\ ~shrunk => Whole(root, map)
  /\ (~shrunk /\ Separable(seen)) \/ Disjoint(seen) => Sound(root, {"live"}) /\ Exact(root, map)
  /\ Disjoint(seen) => Flat(root)

\* Keys without a common first nibble are separable.
LEMMA DisjointSeparable ==
  ASSUME NEW S, S \subseteq Keys, Disjoint(S)
  PROVE  Separable(S)
<1> SUFFICES ASSUME NEW k \in S, NEW l \in S, k # l PROVE Apart(k, l)
  BY DEF Separable
<1>1. sharedPrefix(keyToHex(k), keyToHex(l)) = 0
  BY DEF Disjoint
<1>2. Len(k) \in Nat /\ Len(l) \in Nat
  BY HexOf
<1> QED
  BY <1>1, <1>2 DEF Apart

\* An insertion into a trie that is exact, of a key that stands apart from all.
LEMMA InsertExact ==
  ASSUME NEW node, Sound(node, {"live"}), NEW f, DOMAIN f \subseteq Keys, Exact(node, f),
         NEW key \in Keys, NEW value \in Values,
         \A k \in DOMAIN f : k # key => Apart(key, k),
         NEW new, new = insert(node, keyToHex(key), value),
         NEW g, g = Assigned(f, key, value)
  PROVE  Sound(new, {"live"}) /\ Exact(new, g)
<1>g. DOMAIN g = DOMAIN f \union {key} /\ g[key] = value /\ \A k \in DOMAIN f : k # key => g[k] = f[k]
  BY DEF Assigned
<1>1. PICK h \in Hex : h = keyToHex(key) /\ Len(h) = 2 * Len(key)
  BY HexOf
<1>2. Sound(new, {"live"})
  BY <1>1, InsertKeepsSound
<1>3. PICK a \in Hex, b \in Hex, c \in Hex : Effect(node, h, value, new, "live" \in {"live"}, a, b, c)
  BY <1>1, InsertEffect
<1>4. \A y \in Hex : GetFrom(node, y) # NotFound /\ y # h =>
        sharedPrefix(h, y) + 1 # Len(h) /\ sharedPrefix(h, y) + 1 # Len(y)
  <2> SUFFICES ASSUME NEW y \in Hex, GetFrom(node, y) # NotFound, y # h
               PROVE  sharedPrefix(h, y) + 1 # Len(h) /\ sharedPrefix(h, y) + 1 # Len(y)
    OBVIOUS
  <2>1. PICK k \in DOMAIN f : y = keyToHex(k)
    BY DEF Exact
  <2>2. k \in Keys /\ k # key
    BY <1>1, <2>1
  <2>3. Apart(key, k)
    BY <2>2
  <2>4. Len(y) = 2 * Len(k)
    BY <2>1, <2>2, HexOf
  <2> QED
    BY <1>1, <2>1, <2>3, <2>4 DEF Apart
<1>5. a = h
  BY <1>3, <1>4 DEF Effect
<1>6. c = b
  BY <1>3, <1>4 DEF Effect
<1>7. \A l \in Hex : GetFrom(new, l) = IF l = h THEN value ELSE GetFrom(node, l)
  BY <1>3, <1>5, <1>6 DEF Effect
<1>8. value # NotFound
  BY TrieAssumption
<1>9. ASSUME NEW l \in Hex, GetFrom(new, l) # NotFound
      PROVE  \E k \in DOMAIN g : l = keyToHex(k)
  <2>1. CASE l = h
    BY <1>1, <2>1, <1>g
  <2>2. CASE l # h
    <3>1. \E k \in DOMAIN f : l = keyToHex(k)
      BY <1>7, <1>9, <2>2 DEF Exact
    <3> QED
      BY <3>1, <1>g
  <2> QED
    BY <2>1, <2>2
<1>10. ASSUME NEW k \in DOMAIN g
       PROVE  GetFrom(new, keyToHex(k)) = g[k]
  <2>1. CASE k = key
    BY <1>1, <1>7, <2>1, <1>g
  <2>2. CASE k # key
    <3>1. k \in DOMAIN f /\ g[k] = f[k]
      BY <1>10, <2>2, <1>g
    <3>2. k \in Keys
      BY <3>1
    <3>3. keyToHex(k) \in Hex /\ keyToHex(k) # h
      BY <1>1, <2>2, <3>2, HexOf, HexInjective
    <3> QED
      BY <1>7, <3>1, <3>3 DEF Exact
  <2> QED
    BY <2>1, <2>2
<1> QED
  BY <1>2, <1>9, <1>10 DEF Exact

\* Any insertion: what it misplaces, it misplaces to the middle of a byte.
LEMMA InsertWhole ==
  ASSUME NEW node, Sound(node, Firm), NEW f, DOMAIN f \subseteq Keys, Whole(node, f),
         NEW key \in Keys, NEW value \in Values,
         NEW new, new = insert(node, keyToHex(key), value),
         NEW g, g = Assigned(f, key, value)
  PROVE  Whole(new, g)
<1>0. Sound(node, {})
  BY FirmParts
<1>g. DOMAIN g = DOMAIN f \union {key} /\ g[key] = value /\ \A k \in DOMAIN f : k # key => g[k] = f[k]
  BY DEF Assigned
<1>1. PICK h \in Hex : h = keyToHex(key) /\ Len(h) = 2 * Len(key) /\ Len(key) \in Nat
  BY HexOf
<1>2. Len(h) % 2 = 0
  BY <1>1
<1>3. Leaves(new, h, node)
  BY <1>0, <1>1, InsertLeaves
<1>4. \A l \in Hex : LeafAt(new, l) => Len(l) % 2 = 0
  BY <1>2, <1>3 DEF Leaves, Whole
<1>5. PICK a \in Hex, b \in Hex, c \in Hex : Effect(node, h, value, new, "live" \in {}, a, b, c)
  BY <1>0, <1>1, InsertEffect
<1>6. Len(a) \in Nat /\ Len(b) \in Nat /\ Len(c) \in Nat
  BY HexLength
<1>7. a = h \/ Len(a) % 2 = 1
  <2>1. a = h \/ Len(a) + 1 = Len(h)
    BY <1>5 DEF Effect
  <2> QED
    BY <1>2, <1>6, <2>1
<1>8. c = b \/ Len(c) % 2 = 1
  <2>1. c = b \/ (Len(c) + 1 = Len(b) /\ LeafAt(node, b))
    BY <1>5 DEF Effect, LeafAt
  <2>2. LeafAt(node, b) => Len(b) % 2 = 0
    BY DEF Whole
  <2> QED
    BY <1>6, <2>1, <2>2
<1>9. ASSUME NEW l \in Hex, GetFrom(new, l) # NotFound, Len(l) % 2 = 0
      PROVE  \E k \in DOMAIN g :
               l = keyToHex(k) /\ GetFrom(new, l) = g[k]
  <2>1. CASE l = a
    <3>1. a = h
      BY <1>7, <1>9, <2>1
    <3>2. GetFrom(new, l) = value
      BY <1>5, <2>1 DEF Effect
    <3> QED
      BY <1>1, <2>1, <3>1, <3>2, <1>g
  <2>2. CASE l # a
    <3>1. GetFrom(new, l) = GetFrom(node, l)
      <4>1. CASE l = c
        <5>1. c = b
          BY <1>8, <1>9, <4>1
        <5> QED
          BY <1>5, <2>2, <4>1, <5>1 DEF Effect
      <4>2. CASE l # c
        <5>1. GetFrom(new, l) = IF l = b THEN NotFound ELSE GetFrom(node, l)
          BY <1>5, <2>2, <4>2 DEF Effect
        <5> QED
          BY <1>9, <5>1
      <4> QED
        BY <4>1, <4>2
    <3>2. PICK k \in DOMAIN f : l = keyToHex(k) /\ GetFrom(node, l) = f[k]
      BY <1>9, <3>1 DEF Whole
    <3>3. k # key
      <4>1. SUFFICES ASSUME k = key PROVE FALSE
        OBVIOUS
      <4>2. l = h /\ GetFrom(node, h) # NotFound
        BY <1>1, <1>9, <3>1, <3>2, <4>1
      <4>3. a = h
        BY <1>5, <4>2 DEF Effect
      <4> QED
        BY <2>2, <4>2, <4>3
    <3> QED
      BY <3>1, <3>2, <3>3, <1>g
  <2> QED
    BY <2>1, <2>2
<1> QED
  BY <1>4, <1>9 DEF Whole

LEMMA SmallerSets ==
  ASSUME NEW S, NEW R, R \subseteq S
  PROVE  (Separable(S) => Separable(R)) /\ (Disjoint(S) => Disjoint(R))
BY DEF Separable, Disjoint

LEMMA InitHolds ==
  Init => TrieInvariant
<1> SUFFICES ASSUME Init PROVE TrieInvariant
  OBVIOUS
<1>1. root = NoNode /\ map = <<>> /\ seen = {} /\ ~shrunk
  BY DEF Init
<1>2. DOMAIN map = {}
  BY <1>1
<1>3. Known
  BY <1>1, <1>2 DEF Known
<1>4. Sound(root, Firm) /\ Sound(root, {"live"}) /\ Flat(root)
  BY <1>1, SoundNil DEF Flat
<1>5. \A l \in Hex : GetFrom(root, l) = NotFound /\ ~LeafAt(root, l)
  BY <1>1, GetNil, LeafAtEnds
<1>6. Whole(root, map) /\ Exact(root, map)
  BY <1>2, <1>5 DEF Whole, Exact
<1> QED
  BY <1>3, <1>4, <1>6 DEF TrieInvariant

LEMMA InsertHolds ==
  ASSUME TrieInvariant, NEW key \in Keys, NEW value \in Values, NEW put, Insert(key, value, put)
  PROVE  TrieInvariant'
<1>1. /\ map' = Assigned(map, key, value) /\ seen' = seen \union {key} /\ shrunk' = shrunk
      /\ root' = insert(root, keyToHex(key), value)
  BY DEF Insert
<1>2. Known /\ DOMAIN map \subseteq Keys /\ seen \subseteq Keys /\ Sound(root, Firm)
  BY DEF TrieInvariant, Known
<1>3. PICK h \in Hex : h = keyToHex(key) /\ Len(h) = 2 * Len(key) /\ Len(key) \in Nat
  BY HexOf
<1>4. Known'
  <2>1. DOMAIN map' = DOMAIN map \union {key} /\ map'[key] = value
        /\ \A k \in DOMAIN map : k # key => map'[k] = map[k]
    BY <1>1 DEF Assigned
  <2> QED
    BY <1>1, <1>2, <2>1 DEF Known
<1>5. Sound(root', Firm)
  BY <1>1, <1>2, <1>3, InsertKeepsSound
<1>6. ASSUME ~shrunk' PROVE Whole(root', map')
  <2>1. Whole(root, map)
    BY <1>1, <1>6 DEF TrieInvariant
  <2> QED
    BY <1>1, <1>2, <2>1, InsertWhole
<1>7. seen \subseteq seen' /\ seen' \subseteq Keys
  BY <1>1, <1>2
<1>8. ASSUME (~shrunk' /\ Separable(seen')) \/ Disjoint(seen')
      PROVE  /\ Separable(seen') /\ Sound(root, {"live"}) /\ Exact(root, map)
             /\ Sound(root', {"live"}) /\ Exact(root', map')
  <2>1. Separable(seen')
    BY <1>7, <1>8, DisjointSeparable
  <2>2. (~shrunk /\ Separable(seen)) \/ Disjoint(seen)
    BY <1>1, <1>7, <1>8, SmallerSets
  <2>3. Sound(root, {"live"}) /\ Exact(root, map)
    BY <2>2 DEF TrieInvariant
  <2>4. \A k \in DOMAIN map : k # key => Apart(key, k)
    BY <1>1, <1>2, <2>1 DEF Separable, Known
  <2>5. Sound(root', {"live"}) /\ Exact(root', map')
    BY <1>1, <1>2, <2>3, <2>4, InsertExact
  <2> QED
    BY <2>1, <2>3, <2>5
<1>9. ASSUME Disjoint(seen') PROVE Flat(root')
  <2>1. Disjoint(seen)
    BY <1>7, <1>9, SmallerSets
  <2>2. Flat(root) /\ Exact(root, map)
    BY <2>1 DEF TrieInvariant
  <2>3. ASSUME NEW y \in Hex, GetFrom(root, y) # NotFound
        PROVE  Len(y) # 1 /\ (y # h => sharedPrefix(h, y) = 0)
    <3>1. PICK k \in DOMAIN map : y = keyToHex(k)
      BY <2>2, <2>3 DEF Exact
    <3>2. k \in Keys /\ k \in seen' /\ key \in seen'
      BY <1>1, <1>2, <3>1 DEF Known
    <3>3. Len(y) = 2 * Len(k) /\ Len(k) \in Nat
      BY <3>1, <3>2, HexOf
    <3>4. Len(y) # 1
      BY <3>3
    <3>5. ASSUME y # h PROVE sharedPrefix(h, y) = 0
      <4>1. k # key
        BY <1>3, <3>1, <3>5
      <4> QED
        BY <1>3, <1>9, <3>1, <3>2, <4>1 DEF Disjoint
    <3> QED
      BY <3>4, <3>5
  <2>4. Len(h) # 1
    BY <1>3
  <2>5. Flat(insert(root, h, value))
    BY <2>2, <2>3, <2>4, FlatInsert
  <2> QED
    BY <1>1, <1>3, <2>5
<1> QED
  BY <1>4, <1>5, <1>6, <1>8, <1>9 DEF TrieInvariant

LEMMA DeleteHolds ==
  ASSUME TrieInvariant, NEW key \in Deletable, Delete(key)
  PROVE  TrieInvariant'
<1>1. /\ map' = [k \in DOMAIN map \ {key} |-> map[k]] /\ seen' = seen /\ shrunk'
      /\ root' = delete(root, keyToHex(key))[1]
  BY DEF Delete
<1>2. /\ Known /\ Sound(root, Firm) /\ key \in Keys /\ DOMAIN map \subseteq Keys
  BY TrieAssumption DEF TrieInvariant, Known
<1>3. PICK h \in Hex : h = keyToHex(key)
  BY <1>2, HexOf
<1>4. DOMAIN map' = DOMAIN map \ {key} /\ \A k \in DOMAIN map' : map'[k] = map[k]
  BY <1>1
<1>5. Known'
  BY <1>1, <1>2, <1>4 DEF Known
<1>6. Sound(root', Firm)
  BY <1>1, <1>2, <1>3, DeleteClean DEF Clean
<1>7. ASSUME Disjoint(seen') PROVE Flat(root') /\ Sound(root', {"live"}) /\ Exact(root', map')
  <2>1. Flat(root) /\ Exact(root, map)
    BY <1>1, <1>7 DEF TrieInvariant
  <2>2. /\ Flat(root')
        /\ \A l \in Hex : GetFrom(root', l) = IF l = h THEN NotFound ELSE GetFrom(root, l)
    BY <1>1, <1>3, <2>1, FlatDelete
  <2>3. Sound(root', {"live"})
    BY <2>2, FlatSound
  <2>4. ASSUME NEW l \in Hex, GetFrom(root', l) # NotFound
        PROVE  \E k \in DOMAIN map' : l = keyToHex(k)
    <3>1. l # h /\ GetFrom(root, l) # NotFound
      BY <2>2, <2>4
    <3>2. PICK k \in DOMAIN map : l = keyToHex(k)
      BY <2>1, <3>1 DEF Exact
    <3> QED
      BY <1>3, <1>4, <3>1, <3>2
  <2>5. ASSUME NEW k \in DOMAIN map' PROVE GetFrom(root', keyToHex(k)) = map'[k]
    <3>1. k \in DOMAIN map /\ k \in Keys /\ k # key /\ map'[k] = map[k]
      BY <1>2, <1>4
    <3>2. keyToHex(k) \in Hex /\ keyToHex(k) # h
      BY <1>2, <1>3, <3>1, HexOf, HexInjective
    <3> QED
      BY <2>1, <2>2, <3>1, <3>2 DEF Exact
  <2> QED
    BY <2>2, <2>3, <2>4, <2>5 DEF Exact
<1> QED
  BY <1>1, <1>5, <1>6, <1>7 DEF TrieInvariant

LEMMA TrieStep ==
  TrieInvariant /\ [Next]_vars => TrieInvariant'
<1> SUFFICES ASSUME TrieInvariant, [Next]_vars PROVE TrieInvariant'
  OBVIOUS
<1>1. CASE \E key \in Keys, value \in Values, put \in BOOLEAN : Insert(key, value, put)
  BY <1>1, InsertHolds
<1>2. CASE \E key \in Deletable : Delete(key)
  BY <1>2, DeleteHolds
<1>3. CASE UNCHANGED vars
  BY <1>3 DEF vars, TrieInvariant, Known
<1> QED
  BY <1>1, <1>2, <1>3 DEF Next

\* Every state of the trie has the invariant.
THEOREM TrieAlwaysSound == Spec => []TrieInvariant
BY InitHolds, TrieStep, PTL DEF Spec

-----------------------------------------------------------------------------
(* The properties.                                                         *)

LEMMA ExactIsMap ==
  ASSUME Known, Exact(root, map)
  PROVE  TrieIsMap
<1> SUFFICES ASSUME NEW k \in Keys
             PROVE  GetFrom(root, keyToHex(k)) = IF k \in DOMAIN map THEN map[k] ELSE NotFound
  BY DEF TrieIsMap, Get
<1>1. CASE k \in DOMAIN map
  BY <1>1 DEF Exact
<1>2. CASE k \notin DOMAIN map
  <2>1. SUFFICES ASSUME GetFrom(root, keyToHex(k)) # NotFound PROVE FALSE
    BY <1>2
  <2>2. keyToHex(k) \in Hex
    BY HexOf
  <2>3. PICK l \in DOMAIN map : keyToHex(k) = keyToHex(l)
    BY <2>1, <2>2 DEF Exact
  <2>4. l \in Keys
    BY <2>3 DEF Known
  <2> QED
    BY <1>2, <2>3, <2>4, HexInjective
<1> QED
  BY <1>1, <1>2

LEMMA WholeIsRight ==
  ASSUME Known, Whole(root, map)
  PROVE  \A k \in Keys : Get(k) # NotFound => k \in DOMAIN map /\ Get(k) = map[k]
<1> SUFFICES ASSUME NEW k \in Keys, Get(k) # NotFound PROVE k \in DOMAIN map /\ Get(k) = map[k]
  OBVIOUS
<1>1. PICK h \in Hex : h = keyToHex(k) /\ Len(h) = 2 * Len(k) /\ Len(k) \in Nat
  BY HexOf
<1>2. Len(h) % 2 = 0 /\ Get(k) = GetFrom(root, h)
  BY <1>1 DEF Get
<1>3. PICK l \in DOMAIN map : h = keyToHex(l) /\ GetFrom(root, h) = map[l]
  BY <1>2 DEF Whole
<1>4. l = k
  BY <1>1, <1>3, HexInjective DEF Known
<1> QED
  BY <1>2, <1>3, <1>4

LEMMA SoundIsLocal ==
  ASSUME Sound(root, Firm)
  PROVE  DamageStaysLocal
<1>1. PICK before : before = Readings(root)
  OBVIOUS
<1>2. \A k \in Keys : before[k] = GetFrom(root, keyToHex(k))
  BY <1>1 DEF Readings
<1>3. \A node : Readings(node) = [k \in Keys |-> Readings(node)[k]]
  BY DEF Readings
<1>4. ASSUME NEW k \in Keys PROVE DeletesOnly(before, k)
  <2>1. PICK h \in Hex : h = keyToHex(k)
    BY HexOf
  <2>2. PICK d : d = delete(root, h)
    OBVIOUS
  <2>3. Clean(root, h, d)
    BY <2>2, DeleteClean
  <2>4. PICK after : after = Readings(d[1])
    OBVIOUS
  <2>5. \A l \in Keys : after[l] = GetFrom(d[1], keyToHex(l))
    BY <2>4 DEF Readings
  <2>6. after[k] = NotFound /\ (~d[2] => d[1] = root)
    BY <2>1, <2>3, <2>5 DEF Clean
  <2>7. ASSUME NEW l \in Keys \ {k}, before[l] # NotFound PROVE after[l] \in {before[l], NotFound}
    <3>1. keyToHex(l) \in Hex /\ keyToHex(l) # h
      BY <2>1, HexOf, HexInjective
    <3> QED
      BY <1>2, <2>3, <2>5, <2>7, <3>1 DEF Clean, Keeps
  <2> QED
    BY <2>1, <2>2, <2>4, <2>6, <2>7 DEF DeletesOnly, OnlyLost
<1>5. ASSUME NEW k \in Keys, NEW v \in Values PROVE WritesOnly(before, k, v)
  <2>1. PICK h \in Hex : h = keyToHex(k) /\ Len(h) = 2 * Len(k) /\ Len(k) \in Nat
    BY HexOf
  <2>2. PICK new : new = insert(root, h, v)
    OBVIOUS
  <2>3. PICK a \in Hex, b \in Hex, c \in Hex : Effect(root, h, v, new, "live" \in Firm, a, b, c)
    BY <2>2, InsertEffect
  <2>4. PICK after : after = Readings(new)
    OBVIOUS
  <2>5. \A l \in Keys : after[l] = GetFrom(new, keyToHex(l))
    BY <2>4 DEF Readings
  <2>6. CASE before[k] # NotFound
    <3>1. \A m \in Hex : GetFrom(new, m) = IF m = h THEN v ELSE GetFrom(root, m)
      BY <1>2, <2>1, <2>3, <2>6 DEF Effect
    <3>2. ASSUME NEW l \in Keys PROVE after[l] = IF l = k THEN v ELSE before[l]
      <4>1. keyToHex(l) \in Hex /\ (keyToHex(l) = h <=> l = k)
        BY <2>1, HexOf, HexInjective
      <4> QED
        BY <1>2, <2>5, <3>1, <4>1
    <3>3. after = [l \in Keys |-> after[l]] /\ before = [l \in Keys |-> before[l]]
      BY <1>1, <1>3, <2>4
    <3>4. after = [before EXCEPT ![k] = v]
      BY <3>2, <3>3
    <3> QED
      BY <2>1, <2>2, <2>4, <2>6, <3>4 DEF WritesOnly
  <2>7. CASE before[k] = NotFound
    <3>1. after[k] \in {v, NotFound}
      <4>1. GetFrom(new, a) = v /\ (a # h => GetFrom(new, h) = NotFound)
        BY <2>3 DEF Effect
      <4> QED
        BY <2>1, <2>5, <4>1
    <3>2. ASSUME NEW l \in Keys \ {k}, before[l] # NotFound PROVE after[l] \in {before[l], NotFound}
      <4>1. PICK m \in Hex : m = keyToHex(l) /\ Len(m) = 2 * Len(l) /\ Len(l) \in Nat
        BY HexOf
      <4>2. m # h
        BY <2>1, <4>1, HexInjective
      <4>3. GetFrom(root, m) # NotFound /\ before[l] = GetFrom(root, m) /\ after[l] = GetFrom(new, m)
        BY <1>2, <2>5, <3>2, <4>1
      <4>4. m # a
        <5>1. a = h \/ Len(a) + 1 = Len(h)
          BY <2>3 DEF Effect
        <5>2. Len(m) + 1 # Len(h)
          BY <2>1, <4>1
        <5> QED
          BY <4>2, <5>1, <5>2
      <4>5. m = c => c = b
        BY <2>3, <4>3 DEF Effect
      <4> QED
        BY <2>3, <4>3, <4>4, <4>5 DEF Effect
    <3> QED
      BY <2>1, <2>2, <2>4, <2>7, <3>1, <3>2 DEF WritesOnly, OnlyLost
  <2> QED
    BY <2>6, <2>7
<1> QED
  BY <1>1, <1>4, <1>5 DEF DamageStaysLocal

\* While Delete is never called and no two inserted keys part at the last nibble
\* of one of them, Get answers as a map would: Insert may branch, split leaves
\* and split extensions as it likes.
THEOREM SeparableIsMapHolds == Spec => []SeparableIsMap
<1>1. TrieInvariant => SeparableIsMap
  BY ExactIsMap DEF TrieInvariant, SeparableIsMap
<1> QED
  BY <1>1, TrieAlwaysSound, PTL

\* Without Delete, whatever the keys, Get never answers with another key's value:
\* what Insert misplaces ends in the middle of a byte, where no key is looked up.
THEOREM NoWrongValueHolds == Spec => []NoWrongValue
<1>1. TrieInvariant => NoWrongValue
  BY WholeIsRight DEF TrieInvariant, NoWrongValue
<1> QED
  BY <1>1, TrieAlwaysSound, PTL

\* Keys that begin with different nibbles are a map's under Insert and Delete.
THEOREM DisjointIsMapHolds == Spec => []DisjointIsMap
<1>1. TrieInvariant => DisjointIsMap
  BY ExactIsMap DEF TrieInvariant, DisjointIsMap
<1> QED
  BY <1>1, TrieAlwaysSound, PTL

\* Whatever was inserted and deleted before, a deleted key is not found, a failed
\* deletion changes nothing, overwriting a key that Get finds changes no other
\* answer, and no call puts another value in the place of one that Get finds: the
\* other keys it loses at most.
THEOREM DamageStaysLocalHolds == Spec => []DamageStaysLocal
<1>1. TrieInvariant => DamageStaysLocal
  BY SoundIsLocal DEF TrieInvariant
<1> QED
  BY <1>1, TrieAlwaysSound, PTL
=============================================================================
