------------------------------- MODULE MCParts -------------------------------
(***************************************************************************)
(* Model checking of the parts that call none of the others: in a          *)
(* behaviour one of them, kind, moves and the rest stay as they started.   *)
(***************************************************************************)
EXTENDS RadixTree, SwissTable, CuckooFilter, GCFreeStore, Glob, LockFreeLFU, Iterator

CONSTANT Kinds

VARIABLE kind

\* Keys that split nodes, end at splits and merge when others go
MCTreeKeys == {<<>>, <<1>>, <<2>>, <<1, 1>>, <<1, 2>>, <<1, 1, 2>>, <<1, 2, 1>>,
               <<1, 2, 2>>, <<2, 2, 1>>}

\* Hashes with the same h2, and with the same group in tables of each size
MCSwissHashes == {0, 16, 1, 8, 13}

\* Keys that share a bucket, and one that shares both with another
MCCuckooKeys == {[hash |-> 0, fp |-> 1], [hash |-> 0, fp |-> 3], [hash |-> 1, fp |-> 5]}

\* Two keys with one hash, and an empty key
MCGcKeys == {[hash |-> 1, len |-> 2], [hash |-> 1, len |-> 1], [hash |-> 2, len |-> 0]}

MCAlphabet == <<"*", "-", "?", "[", "\\", "]", "^", "a", "b", "z">>

MCPieces ==
  {<<c>> : c \in {"*", "?", "[", "\\", "]", "-", "a", "b"}}
  \cup {<<"[", "a">>, <<"[", "^", "a", "]">>, <<"[", "b", "-", "a", "]">>,
        <<"[", "a", "-", "z", "]">>}

\* Two hashes that share a word in each row, a counter in one, and a bit
MCCounterOf == [g |-> <<0, 1>>, h |-> <<1, 1>>]
MCDoorBits == [g |-> <<0, 1>>, h |-> <<1, 2>>]
MCBatches == {<<"g">>, <<"h">>, <<"g", "g">>}

\* Iterations with pages of one entry: Scans with any pattern, and one prefix with
\* any pattern that comes with it.  The page of ten holds the whole store.
MCIteration ==
  IF iter.count = 1 THEN iter.prefix = IF iter.byPrefix THEN {0, 1, 2} ELSE IterKeys
  ELSE Wanted = IterKeys

-----------------------------------------------------------------------------
Init ==
  /\ kind \in Kinds
  /\ TreeInit /\ SwissInit /\ CuckooInit /\ GcInit /\ GlobInit /\ LfInit /\ IterInit
  /\ kind # "swiss" => Len(groups) = 1
  /\ kind = "iterator" => MCIteration
  /\ kind # "iterator" => stored = {} /\ Wanted = IterKeys /\ ~iter.byPrefix /\ iter.count = 1

Next ==
  /\ UNCHANGED kind
  /\ \/ kind = "tree" /\ TreeNext
     \/ kind # "tree" /\ UNCHANGED treeVars
  /\ \/ kind = "swiss" /\ SwissNext
     \/ kind # "swiss" /\ UNCHANGED swissVars
  /\ \/ kind = "cuckoo" /\ CuckooNext
     \/ kind # "cuckoo" /\ UNCHANGED cuckooVars
  /\ \/ kind = "gcfree" /\ GcNext
     \/ kind # "gcfree" /\ UNCHANGED gcVars
  /\ \/ kind = "glob" /\ GlobNext
     \/ kind # "glob" /\ UNCHANGED glob
  /\ \/ kind = "lockfree" /\ LfNext
     \/ kind # "lockfree" /\ UNCHANGED lfVars
  /\ \/ kind = "iterator" /\ IteratorNext
     \/ kind # "iterator" /\ UNCHANGED iterVars

Spec == Init /\ [][Next]_<<kind, treeVars, swissVars, cuckooVars, gcVars, glob, lfVars, iterVars>>
=============================================================================
