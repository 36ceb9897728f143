-------------------------- MODULE PatternReference --------------------------
(***************************************************************************)
(* What a pattern matches, after the Lua 5.1 manual, section 5.4.1: every  *)
(* way in which a pattern matches at a place of a text, the preferred one  *)
(* first.  A pattern is read as it stands, with no tokens and no list of   *)
(* items, and nothing is tried and taken back.                             *)
(*                                                                         *)
(* For patterns in which only single bytes are repeated, `^` stands at the *)
(* beginning and `$` at the end, captures are not empty and not referred   *)
(* to, and the set of a frontier does not contain the end of the text.     *)
(***************************************************************************)
EXTENDS TableLibrary, PatternEngine

\* The single-byte classes at i of the pattern: the bytes and what is behind.
\* A set ends at the first ] that is not its first byte.
SetEnd(p, i) ==
  LET first == IF p[i + 1] = "^" THEN i + 3 ELSE i + 2
      ends  == {j \in first .. Len(p) : p[j] = "]" /\ (p[j - 1] # "%" \/ p[j - 2] = "%")}
  IN  IF ends = {} THEN 0 ELSE Min(ends)

RECURSIVE SetBytes(_)
SetBytes(q) ==
  CASE q = <<>> -> {}
    [] q # <<>> /\ q[1] = "%" -> (IF IsClass(q[2]) THEN ClassBytes(q[2]) ELSE {q[2]}) \cup SetBytes(SubSeq(q, 3, Len(q)))
    [] q # <<>> /\ q[1] # "%" ->
         IF Len(q) >= 3 /\ q[2] = "-" THEN ByteRange(q[1], q[3]) \cup SetBytes(SubSeq(q, 4, Len(q)))
         ELSE {q[1]} \cup SetBytes(Tail(q))

SingleEnd(p, i) == CASE p[i] = "[" -> SetEnd(p, i) + 1 [] p[i] = "%" -> i + 2 [] OTHER -> i + 1
SingleBytes(p, i) ==
  LET to == SetEnd(p, i) - 1
  IN  CASE p[i] = "." -> ByteSet
        [] p[i] = "%" -> IF IsClass(p[i + 1]) THEN ClassBytes(p[i + 1]) ELSE {p[i + 1]}
        [] p[i] = "[" -> IF p[i + 1] = "^" THEN ByteSet \ SetBytes(SubSeq(p, i + 2, to))
                         ELSE SetBytes(SubSeq(p, i + 1, to))
        [] OTHER -> {p[i]}

\* Where a pattern can not be read.
RECURSIVE IllFormedFrom(_, _, _)
IllFormedFrom(p, i, depth) ==
  CASE i > Len(p) -> depth # 0
    [] i <= Len(p) /\ p[i] = "(" -> IllFormedFrom(p, i + 1, depth + 1)
    [] i <= Len(p) /\ p[i] = ")" -> depth = 0 \/ IllFormedFrom(p, i + 1, depth - 1)
    [] i <= Len(p) /\ p[i] = "%" ->
         \/ i = Len(p)
         \/ p[i + 1] = "b" /\ i + 3 > Len(p)
         \/ p[i + 1] = "f" /\ (i + 2 > Len(p) \/ p[i + 2] # "[")
         \/ IllFormedFrom(p, IF p[i + 1] = "b" THEN i + 4 ELSE i + 2, depth)
    [] i <= Len(p) /\ p[i] = "[" -> SetEnd(p, i) = 0 \/ IllFormedFrom(p, SetEnd(p, i) + 1, depth)
    [] OTHER -> IllFormedFrom(p, i + 1, depth)

\* The shortest balanced text at j, of length 0 when there is none.
BalancedLength(s, j, x, y) ==
  LET Count(b, n) == Cardinality({k \in j .. j + n - 1 : s[k] = b})
      ns == {n \in 2 .. Len(s) - j + 1 :
               s[j] = x /\ IF x = y THEN s[j + n - 1] = x ELSE Count(x, n) = Count(y, n)}
  IN  IF ns = {} THEN 0 ELSE Min(ns)

\* The ways to match the pattern from i on at the j-th byte: where the match
\* ends and the spans of the captures; an open one ends at 0.
RECURSIVE Ways(_, _, _, _, _)
Ways(p, i, s, j, cs) ==
  LET ep   == SingleEnd(p, i)
      q    == IF ep <= Len(p) /\ p[ep] \in Quantifiers THEN p[ep] ELSE ""
      set  == SingleBytes(p, i)
      most == Max({n \in 0 .. Len(s) - j + 1 : \A k \in j .. j + n - 1 : s[k] \in set})
      open == Max({c \in DOMAIN cs : cs[c].to = 0})
      two  == SubSeq(p, i, i + 1)
      length == BalancedLength(s, j, p[i + 2], p[i + 3])
      After0(n) == Ways(p, IF q = "" THEN ep ELSE ep + 1, s, j + n, cs)
  IN  CASE i > Len(p)   -> <<[end |-> j, captures |-> cs]>>
        [] i <= Len(p) /\ p[i] = "(" -> Ways(p, i + 1, s, j, Append(cs, [from |-> j, to |-> 0]))
        [] i <= Len(p) /\ p[i] = ")" -> Ways(p, i + 1, s, j, [cs EXCEPT ![open].to = j])
        [] i = Len(p) /\ p[i] = "$"  -> IF j = Len(s) + 1 THEN Ways(p, i + 1, s, j, cs) ELSE <<>>
        [] i < Len(p) /\ two = <<"%", "b">> -> IF length = 0 THEN <<>> ELSE Ways(p, i + 4, s, j + length, cs)
        [] i < Len(p) /\ two = <<"%", "f">> ->
             IF /\ j <= Len(s) /\ s[j] \in SingleBytes(p, i + 2)
                /\ j = 1 \/ s[j - 1] \notin SingleBytes(p, i + 2)
             THEN Ways(p, SingleEnd(p, i + 2), s, j, cs) ELSE <<>>
        [] OTHER ->
             CASE q = ""  -> IF most >= 1 THEN After0(1) ELSE <<>>
               [] q = "*" -> FlattenSeq([n \in 1 .. most + 1 |-> After0(most + 1 - n)])
               [] q = "+" -> FlattenSeq([n \in 1 .. most |-> After0(most + 1 - n)])
               [] q = "-" -> FlattenSeq([n \in 1 .. most + 1 |-> After0(n - 1)])
               [] q = "?" -> (IF most >= 1 THEN After0(1) ELSE <<>>) \o After0(0)

\* The first match at or behind j: [from, end, captures]; None.
NoMatch == [end |-> 0]
FirstFrom(p, s, j) ==
  LET anchored == p # <<>> /\ p[1] = "^"
      At1(k) == Ways(p, IF anchored THEN 2 ELSE 1, s, k, <<>>)
      places == {k \in (IF anchored THEN {j} ELSE j .. Len(s) + 1) : At1(k) # <<>>}
  IN  IF places = {} THEN NoMatch
      ELSE LET w == At1(Min(places))[1] IN [from |-> Min(places), end |-> w.end, captures |-> w.captures]

Span(s, from, to) == String(SubSeq(s, from, to - 1))
Captured(s, m) == [i \in DOMAIN m.captures |-> Span(s, m.captures[i].from, m.captures[i].to)]
CapturedOrAll(s, m) == IF m.captures = <<>> THEN <<Span(s, m.from, m.end)>> ELSE Captured(s, m)

\* Where a search with init begins; behind the text when there is nothing.
SearchStart(s, init) == IF init < 0 THEN Max({1, Len(s) + 1 + init}) ELSE Max({init, 1})

\* The replacement of a match: None when a capture is missing or a % stands
\* before anything else.
ReplacementFor(r, s, m) ==
  LET all == <<Span(s, m.from, m.end)>> \o CapturedOrAll(s, m)
      Number0(c) == CHOOSE n \in 0 .. 9 : ToString(n) = c
      marks == {i \in DOMAIN r : /\ r[i] = "%"
                                 /\ Cardinality({j \in 1 .. i : \A k \in j .. i : r[k] = "%"}) % 2 = 1}
      Part(i) == CASE i \in marks -> <<>>
                   [] i - 1 \in marks /\ r[i] # "%" -> all[Number0(r[i]) + 1].s
                   [] OTHER -> <<r[i]>>
      Wrong(c) == c # "%" /\ (c \notin Digits \/ Number0(c) >= Len(all))
  IN  IF \E i \in marks : i = Len(r) \/ Wrong(r[i + 1]) THEN None
      ELSE String(FlattenSeq([i \in DOMAIN r |-> Part(i)]))

\* The replacement by a string or by what a function m maps the first capture
\* to; a match without an entry stays.
Replaces(r, s, m) ==
  LET k == CapturedOrAll(s, m)[1]
  IN  CASE r.t = "str" -> ReplacementFor(r.s, s, m)
        [] r.t = "map" /\ k \in DOMAIN r.m /\ ToBool(r.m[k]) -> IF r.m[k].t = "str" THEN r.m[k] ELSE None
        [] OTHER -> Span(s, m.from, m.end)

\* gsub from the j-th byte on, with n replacements left: the rest of the
\* result and the number of replacements.
RECURSIVE GsubFrom(_, _, _, _, _)
GsubFrom(p, s, j, n, r) ==
  LET m     == FirstFrom(p, s, j)
      empty == m.end = m.from
      v     == Replaces(r, s, m)
      rest  == GsubFrom(p, s, IF empty THEN m.end + 1 ELSE m.end, n - 1, r)
  IN  CASE n = 0 \/ j > Len(s) + 1 \/ m = NoMatch -> [ok |-> TRUE, s |-> SubSeq(s, j, Len(s)), n |-> 0]
        [] OTHER -> IF v = None \/ ~ rest.ok THEN [ok |-> FALSE]
                    ELSE [ok |-> TRUE, n |-> rest.n + 1,
                          s |-> SubSeq(s, j, m.from - 1) \o v.s \o (IF empty THEN SubSeq(s, m.end, Min({m.end, Len(s)})) ELSE <<>>)
                                \o rest.s]

=============================================================================
