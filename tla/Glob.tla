--------------------------------- MODULE Glob ---------------------------------
(***************************************************************************)
(* Patterns of internal/glob/pattern.go, which ScanMatch compiles and then *)
(* matches keys with.  A pattern and a key are sequences of characters.    *)
(* The functions that scan a string by an index take the rest of it here.  *)
(***************************************************************************)
EXTENDS Integers, SequencesExt, FiniteSetsExt

CONSTANTS Alphabet,     \* the characters in byte order, the last one is 0xFF
          Pieces,       \* sequences of characters that patterns are made of
          MaxPieces,    \* bound: pieces of a pattern
          KeyChars,     \* those that keys are made of
          MaxKey        \* bound: length of a key

ASSUME GlobAssumption ==
  /\ ToSet(Alphabet) \cup {"*", "?", "[", "]", "^", "-", "\\"} = ToSet(Alphabet)
  /\ KeyChars \cup UNION {ToSet(p) : p \in Pieces} \subseteq ToSet(Alphabet)
  /\ {MaxPieces, MaxKey} \subseteq Nat

VARIABLE glob    \* the compiled Pattern, or what came of compiling it

From(s, i) == SubSeq(s, i, Len(s))
IsWild(c) == c \in {"*", "?", "["}
Escapes(s) == Head(s) = "\\" /\ Len(s) > 1

\* mutant: the scan goes on behind a wildcard
UnescapedPrefix(s) == SelectSeq(s, LAMBDA c : ~IsWild(c))

\* The literal characters before the first wildcard
RECURSIVE ExtractPrefix(_)
ExtractPrefix(s) ==
  IF s = <<>> \/ IsWild(s[1]) THEN <<>>
  ELSE IF Escapes(s) THEN <<s[2]>> \o ExtractPrefix(From(s, 3))
  ELSE <<s[1]>> \o ExtractPrefix(Tail(s))

\* How many characters of s make up a literal segment
RECURSIVE LiteralLen(_)
LiteralLen(s) ==
  IF s = <<>> \/ IsWild(s[1]) THEN 0
  ELSE IF Escapes(s) THEN 2 + LiteralLen(From(s, 3)) ELSE 1 + LiteralLen(Tail(s))

RECURSIVE Unescape(_)
Unescape(s) ==
  IF s = <<>> THEN <<>>
  ELSE IF Escapes(s) THEN <<s[2]>> \o Unescape(From(s, 3))
  ELSE <<s[1]>> \o Unescape(Tail(s))

-----------------------------------------------------------------------------
Byte(c) == CHOOSE i \in DOMAIN Alphabet : Alphabet[i] = c

\* parseCharset's range, its ends in either order
CharRange(c, d) ==
  {e \in ToSet(Alphabet) : \/ Byte(c) <= Byte(e) /\ Byte(e) <= Byte(d)
                           \/ Byte(d) <= Byte(e) /\ Byte(e) <= Byte(c)}

\* The loop over a range counts a byte up while it is at most the end: it never
\* gets past the largest byte.
Diverges(c, d) == Len(Alphabet) \in {Byte(c), Byte(d)}

Failure(why) == [status |-> why]

\* parseCharset after the bracket and the negation: the set and what follows it
RECURSIVE Charset(_, _)
Charset(s, set) ==
  IF s = <<>> THEN Failure("ErrUnmatchedBrace")
  ELSE IF s[1] = "]" THEN [status |-> "ok", set |-> set, rest |-> Tail(s)]
  ELSE IF Escapes(s) THEN Charset(From(s, 3), set \cup {s[2]})
  ELSE IF Len(s) > 2 /\ s[2] = "-" /\ s[3] # "]"
  THEN IF Diverges(s[1], s[3]) THEN Failure("diverges")
       ELSE Charset(From(s, 4), set \cup CharRange(s[1], s[3]))
  ELSE Charset(Tail(s), set \cup {s[1]})

Negated(s) == s # <<>> /\ s[1] \in {"^", "!"}

Then(segment, parsed) ==
  IF parsed.status = "ok" THEN [parsed EXCEPT !.segments = <<segment>> \o @] ELSE parsed

\* The loop of Compile
RECURSIVE Parse(_)
Parse(s) ==
  IF s = <<>> THEN [status |-> "ok", segments |-> <<>>]
  ELSE CASE s[1] = "*" /\ Len(s) > 1 /\ s[2] = "*" -> Then([typ |-> "double"], Parse(From(s, 3)))
         [] s[1] = "*" /\ ~(Len(s) > 1 /\ s[2] = "*") -> Then([typ |-> "star"], Parse(Tail(s)))
         [] s[1] = "?" -> Then([typ |-> "question"], Parse(Tail(s)))
         [] s[1] = "[" ->
              LET negated == Negated(Tail(s))
                  c == Charset(From(s, IF negated THEN 3 ELSE 2), {})
              IN  IF c.status # "ok" THEN c
                  ELSE Then([typ |-> "charset", set |-> c.set, negated |-> negated],
                            Parse(c.rest))
         [] OTHER ->
              LET n == LiteralLen(s)
              IN  Then([typ |-> "literal", literal |-> Unescape(SubSeq(s, 1, n))],
                       Parse(From(s, n + 1)))

InCharset(seg, c) == (c \in seg.set) # seg.negated

RECURSIVE MatchSegments(_, _)
MatchSegments(segs, key) ==
  IF segs = <<>> THEN key = <<>>
  ELSE LET seg == Head(segs) IN
    CASE seg.typ = "literal" ->
           /\ IsPrefix(seg.literal, key)
           /\ MatchSegments(Tail(segs), From(key, Len(seg.literal) + 1))
      [] seg.typ = "question" -> key # <<>> /\ MatchSegments(Tail(segs), Tail(key))
      [] seg.typ = "charset" ->
           key # <<>> /\ InCharset(seg, Head(key)) /\ MatchSegments(Tail(segs), Tail(key))
      [] seg.typ \in {"star", "double"} ->
           \E i \in 1 .. Len(key) + 1 : MatchSegments(Tail(segs), From(key, i))

Match(key) == MatchSegments(glob.segments, key)

IsLiteral == Len(glob.segments) = 1 /\ glob.segments[1].typ = "literal"

-----------------------------------------------------------------------------
GlobInit == glob = Failure("none yet")

\* A Pattern is compiled once and never changes.
GlobCompile(pattern) ==
  LET parsed == Parse(pattern)
  IN  /\ glob.status = "none yet"
      /\ glob' = IF pattern = <<>> THEN Failure("ErrEmptyPattern")
                  ELSE IF parsed.status # "ok" THEN parsed
                  ELSE [status |-> "ok", raw |-> pattern, prefix |-> ExtractPrefix(pattern),
                        segments |-> parsed.segments]

GlobNext == \E pieces \in BoundedSeq(Pieces, MaxPieces) : GlobCompile(FlattenSeq(pieces))

-----------------------------------------------------------------------------
SearchedKeys == BoundedSeq(KeyChars, MaxKey)

\* What a segment stands for, as a set of pieces of a key
Denotes(seg, piece) ==
  CASE seg.typ = "literal" -> piece = seg.literal
    [] seg.typ = "question" -> Len(piece) = 1
    [] seg.typ = "charset" -> Len(piece) = 1 /\ InCharset(seg, piece[1])
    [] seg.typ \in {"star", "double"} -> TRUE

\* The key can be cut into pieces, one for each segment.
CanBeCut(segs, key) ==
  \E cut \in [0 .. Len(segs) -> 0 .. Len(key)] :
    /\ cut[0] = 0 /\ cut[Len(segs)] = Len(key)
    /\ \A i \in DOMAIN segs : /\ cut[i - 1] <= cut[i]
                              /\ Denotes(segs[i], SubSeq(key, cut[i - 1] + 1, cut[i]))

\* ScanMatch searches the keys with the pattern's prefix and keeps those that
\* match: no match is missed, since each starts with the prefix, escapes and
\* sets included; a pattern without wildcards matches its prefix alone; and the
\* matches are the keys that can be cut into pieces the segments stand for.
PatternMeaning ==
  glob.status = "ok" =>
    \A key \in SearchedKeys :
      /\ Match(key) => IsPrefix(glob.prefix, key)
      /\ IsLiteral => (Match(key) <=> key = glob.prefix)
      /\ Match(key) <=> CanBeCut(glob.segments, key)
=============================================================================
