------------------------------ MODULE RadixTree ------------------------------
(***************************************************************************)
(* Tree of internal/radix/tree.go, the index over string keys that prefix  *)
(* scans use.  Every operation holds t.mu, so each is one action.  A key is *)
(* a sequence of characters; a node is a record of its prefix, the hash of  *)
(* the key that ends there (NoHash where none does: isLeaf and keyHash of   *)
(* the code in one field) and its children by first character.  Each key    *)
(* stands for its own hash.                                                 *)
(***************************************************************************)
EXTENDS Integers, SequencesExt, FiniteSetsExt

CONSTANTS TreeKeys,   \* the keys that callers insert and delete
          Limits,     \* how many hashes they ask for
          NoHash

ASSUME TreeAssumption == NoHash \notin TreeKeys /\ Limits \subseteq Int

VARIABLES root,       \* t.root
          treeSize,   \* t.size
          members     \* history: the keys inserted and not deleted since

treeVars == <<root, treeSize, members>>

NewNode(prefix, hash) == [prefix |-> prefix, hash |-> hash, kids |-> <<>>]

IsLeaf(n) == n.hash # NoHash

HasKid(n, c) == c \in DOMAIN n.kids

WithKid(n, c, child) ==
  [n EXCEPT !.kids = [d \in DOMAIN @ \cup {c} |-> IF d = c THEN child ELSE @[d]]]

WithoutKid(n, c) == [n EXCEPT !.kids = [d \in DOMAIN @ \ {c} |-> @[d]]]

Rest(s, n) == SubSeq(s, n + 1, Len(s))

CommonPrefixLen(a, b) == Len(LongestCommonPrefix({a, b}))

-----------------------------------------------------------------------------
\* mutant: a key that ends where the child is split makes no leaf
SplitNoLeaf(child, n, key, hash) ==
  LET below == [child EXCEPT !.prefix = Rest(@, n)]
      rest == Rest(key, n)
      upper == WithKid(NewNode(SubSeq(key, 1, n), NoHash), Head(below.prefix), below)
  IN  IF rest = <<>> THEN upper ELSE WithKid(upper, Head(rest), NewNode(rest, hash))

(* A child whose prefix the key leaves after n characters goes under a new *)
(* node with the common part; the rest of the key, if any, is its sibling. *)
Split(child, n, key, hash) ==
  LET below == [child EXCEPT !.prefix = Rest(@, n)]
      rest == Rest(key, n)
      upper(h) == WithKid(NewNode(SubSeq(key, 1, n), h), Head(below.prefix), below)
  IN  IF rest = <<>> THEN upper(hash)
      ELSE WithKid(upper(NoHash), Head(rest), NewNode(rest, hash))

\* insertNode: the node after the insertion, and whether the key is new
RECURSIVE InsertNode(_, _, _)
InsertNode(n, key, hash) ==
  IF key = <<>> THEN [node |-> [n EXCEPT !.hash = hash], new |-> ~IsLeaf(n)]
  ELSE
    LET c == Head(key)
        child == n.kids[c]
        common == CommonPrefixLen(child.prefix, key)
    IN  IF ~HasKid(n, c)
        THEN [node |-> WithKid(n, c, NewNode(key, hash)), new |-> TRUE]
        ELSE IF common = Len(child.prefix)
        THEN LET r == InsertNode(child, Rest(key, common), hash)
             IN  [node |-> WithKid(n, c, r.node), new |-> r.new]
        ELSE [node |-> WithKid(n, c, Split(child, common, key, hash)), new |-> TRUE]

\* After a deletion below child: an empty child goes, and one that only leads
\* to a single grandchild is merged with it.
CleanUp(n, c, child) ==
  IF IsLeaf(child) \/ Cardinality(DOMAIN child.kids) > 1 THEN WithKid(n, c, child)
  ELSE IF DOMAIN child.kids = {} THEN WithoutKid(n, c)
  ELSE LET d == CHOOSE d \in DOMAIN child.kids : TRUE
       IN  WithKid(n, c, [child.kids[d] EXCEPT !.prefix = child.prefix \o @])

\* deleteNode: the node after the deletion, and whether the key was there
RECURSIVE DeleteNode(_, _)
DeleteNode(n, key) ==
  IF key = <<>> THEN [node |-> [n EXCEPT !.hash = NoHash], deleted |-> IsLeaf(n)]
  ELSE
    LET c == Head(key)
        child == n.kids[c]
        common == CommonPrefixLen(child.prefix, key)
    IN  IF ~HasKid(n, c) \/ common < Len(child.prefix)
        THEN [node |-> n, deleted |-> FALSE]
        ELSE LET r == DeleteNode(child, Rest(key, common))
             IN  [node |-> CleanUp(n, c, r.node), deleted |-> r.deleted]

\* FindByPrefix and WalkPrefix: the node that holds every key with the prefix,
\* if there is one
RECURSIVE FindNode(_, _)
FindNode(n, rest) ==
  IF rest = <<>> THEN {n}
  ELSE
    LET c == Head(rest)
        child == n.kids[c]
        common == CommonPrefixLen(child.prefix, rest)
    IN  IF ~HasKid(n, c) THEN {}
        ELSE IF common = Len(rest) THEN {child}
        ELSE IF common = Len(child.prefix) THEN FindNode(child, Rest(rest, common))
        ELSE {}

\* walkNode: the keys passed to the callback, each with its hash
RECURSIVE WalkNode(_, _)
WalkNode(n, keyPrefix) ==
  (IF IsLeaf(n) THEN {<<keyPrefix, n.hash>>} ELSE {})
  \cup UNION {WalkNode(n.kids[c], keyPrefix \o n.kids[c].prefix) : c \in DOMAIN n.kids}

\* The leaves at and below n, each with where it hangs
RECURSIVE Leaves(_, _)
Leaves(n, path) ==
  (IF IsLeaf(n) THEN {<<path, n.hash>>} ELSE {})
  \cup UNION {Leaves(n.kids[c], Append(path, c)) : c \in DOMAIN n.kids}

\* collectHashes: what the hashes may come to when found have been collected before.
\* Go visits the children in any order, and none after the limit.
RECURSIVE CollectHashes(_, _, _), CollectKids(_, _, _, _)
CollectHashes(n, found, limit) ==
  IF Cardinality(found) >= limit THEN {found}
  ELSE CollectKids(n, DOMAIN n.kids, found \cup IF IsLeaf(n) THEN {n.hash} ELSE {}, limit)

CollectKids(n, kids, found, limit) ==
  IF kids = {} \/ Cardinality(found) >= limit THEN {found}
  ELSE UNION {UNION {CollectKids(n, kids \ {c}, f, limit) :
                     f \in CollectHashes(n.kids[c], found, limit)} : c \in kids}

LimitOf(limit) == IF limit <= 0 THEN 100 ELSE limit

FindByPrefix(prefix, limit) ==
  IF FindNode(root, prefix) = {} THEN {{}}
  ELSE UNION {CollectHashes(n, {}, LimitOf(limit)) : n \in FindNode(root, prefix)}

WalkPrefix(prefix) == UNION {WalkNode(n, prefix) : n \in FindNode(root, prefix)}

RECURSIVE HasFrom(_, _)
HasFrom(n, rest) ==
  IF rest = <<>> THEN IsLeaf(n)
  ELSE LET c == Head(rest)
           child == n.kids[c]
           common == CommonPrefixLen(child.prefix, rest)
       IN  HasKid(n, c) /\ common = Len(child.prefix) /\ HasFrom(child, Rest(rest, common))

Has(key) == HasFrom(root, key)

-----------------------------------------------------------------------------
TreeInit == root = NewNode(<<>>, NoHash) /\ treeSize = 0 /\ members = {}

TreeInsert(key) ==
  LET r == InsertNode(root, key, key)
  IN  /\ root' = r.node
      /\ treeSize' = treeSize + (IF r.new THEN 1 ELSE 0)
      /\ members' = members \cup {key}

TreeDelete(key) ==
  LET r == DeleteNode(root, key)
  IN  /\ root' = r.node
      /\ treeSize' = treeSize - (IF r.deleted THEN 1 ELSE 0)
      /\ members' = members \ {key}

TreeClear == root' = NewNode(<<>>, NoHash) /\ treeSize' = 0 /\ members' = {}

TreeNext == \/ \E key \in TreeKeys : TreeInsert(key) \/ TreeDelete(key)
            \/ TreeClear

-----------------------------------------------------------------------------
(* Properties.                                                             *)

WithPrefix(p) == {k \in members : IsPrefix(p, k)}

TreePrefixes == UNION {Prefixes(k) : k \in TreeKeys}

\* The tree is the set of its keys, whatever splits and merges came before: it
\* has a key if and only if the key was inserted and not deleted since, hangs
\* each key in one place and counts them.  Also when the prefix ends inside a
\* node, a search finds as many keys with it as there are and the limit lets it,
\* and a walk comes to all of them.  It passes each by its name if the prefix is a
\* key itself or empty; one that ends inside a node lacks the rest of that node.
TreeIsKeySet ==
  /\ treeSize = Cardinality(members) /\ Cardinality(Leaves(root, <<>>)) = treeSize
  /\ \A k \in TreeKeys : Has(k) <=> k \in members
  /\ \A p \in TreePrefixes :
       /\ \A limit \in Limits : \A found \in FindByPrefix(p, limit) :
            /\ found \subseteq WithPrefix(p)
            /\ Cardinality(found) = Min({LimitOf(limit), Cardinality(WithPrefix(p))})
       /\ {w[2] : w \in WalkPrefix(p)} = WithPrefix(p)
       /\ p \in members \cup {<<>>} => \A w \in WalkPrefix(p) : w[1] = w[2]
=============================================================================
