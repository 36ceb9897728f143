--------------------------- MODULE PatternEngine ---------------------------
(***************************************************************************)
(* Lua patterns (src/crates/phodopus/src/stdlib/string/pattern_engine.rs): *)
(* a pattern is read into tokens, the tokens into a flat list of items in  *)
(* which captures are a pair of markers (parse_pattern followed by         *)
(* convert_ast), and a backtracking matcher runs on the list.              *)
(*                                                                         *)
(* Texts and patterns are sequences of bytes out of Bytes.  Positions      *)
(* count from 0 as in the code.                                            *)
(***************************************************************************)
EXTENDS LuaValues, FiniteSets, SequencesExt

StringFunctions == <<"find", "match", "gmatch", "gsub">>

CONSTANT MaxRecursionDepth    \* MAX_RECURSION_DEPTH

\* The bytes that occur in texts and patterns, in their order.
Bytes == <<" ", "$", "%", "(", ")", "*", "+", "-", ".", "0", "1", "2", "?", "A", "B", "[", "]", "^",
           "a", "b", "c", "f">>
ByteSet == {Bytes[i] : i \in DOMAIN Bytes}
ByteRange(a, b) ==
  {Bytes[i] : i \in {j \in DOMAIN Bytes : /\ \E k \in 1 .. j : Bytes[k] = a
                                          /\ \E k \in j .. Len(Bytes) : Bytes[k] = b}}

\* is_class_byte and check_class: the bytes of a class; a capital letter
\* stands for all others.
Lower  == {"a", "b", "c", "f"}
Upper  == {"A", "B"}
Digits == {"0", "1", "2"}
Punctuation == ByteSet \ (Lower \cup Upper \cup Digits \cup {" "})
Classes == [a |-> Lower \cup Upper, c |-> {}, d |-> Digits, g |-> ByteSet \ {" "}, l |-> Lower,
            p |-> Punctuation, s |-> {" "}, u |-> Upper, w |-> Lower \cup Upper \cup Digits,
            x |-> Lower \cup Upper \cup Digits]
Negations == [A |-> "a", C |-> "c", D |-> "d", G |-> "g", L |-> "l", P |-> "p", S |-> "s", U |-> "u",
              W |-> "w", X |-> "x"]
IsClass(c)    == c \in DOMAIN Classes \cup DOMAIN Negations
ClassBytes(c) == IF c \in DOMAIN Classes THEN Classes[c] ELSE ByteSet \ Classes[Negations[c]]

\* is_escapable_magic_byte
MagicBytes == {"(", ")", ".", "%", "[", "]", "*", "+", "-", "?", "^", "$"}
Quantifiers == {"*", "+", "?", "-"}

-----------------------------------------------------------------------------
(* ByteLexer *)

\* b is the byte a token stands for inside of a set (token_to_byte).
Magic(b)    == [k |-> "magic", b |-> b]
Literal(b)  == [k |-> "literal", b |-> b]
Escaped(b)  == [k |-> "escaped", b |-> b]
NoToken     == [k |-> "malformed", b |-> ""]

\* What follows a % at i: the token and the number of bytes it takes.
Escape(p, i, sets) ==
  LET c == p[i + 1]
      Takes(n, token) == [token |-> token, n |-> n]
  IN  CASE i = Len(p)      -> Takes(1, NoToken)
        [] c \in MagicBytes -> Takes(2, Escaped(c))
        [] IsClass(c)      -> Takes(2, [k |-> "class", b |-> c])
        [] sets > 0        -> Takes(2, NoToken)
        [] c = "b"         -> IF i + 3 > Len(p) THEN Takes(1, NoToken)
                              ELSE Takes(4, [k |-> "balanced", b |-> "b", open |-> p[i + 2], close |-> p[i + 3]])
        [] c = "f"         -> Takes(2, [k |-> "frontier", b |-> "f"])
        [] c \in Digits \ {"0"} -> Takes(2, [k |-> "reference", b |-> c])
        [] OTHER           -> Takes(2, NoToken)

\* next_token until the end or an error.  Brackets and parentheses are
\* counted wherever they stand, inside of a set too.
RECURSIVE Lex(_, _, _, _, _)
Lex(p, i, captures, sets, tokens) ==
  LET b == p[i]
      e == Escape(p, i, sets)
      Goes(token, dc, ds) == Lex(p, i + 1, captures + dc, sets + ds, Append(tokens, token))
  IN  CASE i > Len(p)  -> tokens
        [] b = "("     -> Goes(Magic(b), 1, 0)
        [] b = ")"     -> IF captures > 0 THEN Goes(Magic(b), -1, 0) ELSE Goes(Literal(b), 0, 0)
        [] b = "["     -> Goes(Magic(b), 0, 1)
        [] b = "]"     -> IF sets > 0 THEN Goes(Magic(b), 0, -1) ELSE Goes(Literal(b), 0, 0)
        [] b \in {".", "^", "$"} -> Goes(Magic(b), 0, 0)
        [] b \in Quantifiers -> Goes(IF sets > 0 THEN Literal(b) ELSE Magic(b), 0, 0)
        [] b = "%"     -> IF e.token = NoToken THEN Append(tokens, NoToken)
                          ELSE Lex(p, i + e.n, captures, sets, Append(tokens, e.token))
        [] OTHER       -> Goes(Literal(b), 0, 0)

-----------------------------------------------------------------------------
(* ByteParser and convert_single *)

\* Literal, Any, Class and Set match one byte of a set.
OneOf(set)      == [k |-> "one", set |-> set]
CaptureStart(i) == [k |-> "start", i |-> i]
CaptureEnd(i)   == [k |-> "end", i |-> i]
Quantified(body, q) == [k |-> "quantified", body |-> body, q |-> q]

MaxCaptures == 32

\* The items that were read, the next token and the captures so far.
Parsed(items, i, n) == [ok |-> TRUE, items |-> items, i |-> i, n |-> n]
Malformed           == [ok |-> FALSE, items |-> <<>>, i |-> 0, n |-> 0]
IsMagic(ts, i, b)   == i <= Len(ts) /\ ts[i] = Magic(b)

\* parse_set, behind the bracket: its bytes and the token behind the set.
RECURSIVE SetFrom(_, _, _)
SetFrom(ts, i, set) ==
  LET t == ts[i]
      ranges == /\ t.k = "literal" /\ i + 2 <= Len(ts)
                /\ ts[i + 1] = Literal("-") /\ ts[i + 2].k = "literal"
  IN  CASE i > Len(ts)      -> Malformed
        [] IsMagic(ts, i, "]") -> [ok |-> TRUE, set |-> set, i |-> i + 1]
        [] t.k = "class"    -> SetFrom(ts, i + 1, set \cup ClassBytes(t.b))
        [] ranges           -> IF ByteRange(t.b, ts[i + 2].b) = {} THEN Malformed
                               ELSE SetFrom(ts, i + 3, set \cup ByteRange(t.b, ts[i + 2].b))
        [] OTHER            -> SetFrom(ts, i + 1, set \cup {t.b})

SetItem(s, negated, n, Item(_)) ==
  IF s.ok THEN Parsed(<<Item(IF negated THEN ByteSet \ s.set ELSE s.set)>>, s.i, n) ELSE Malformed
ParseSet(ts, i, n, Item(_)) ==
  LET negated == IsMagic(ts, i, "^")
  IN  With(SetFrom(ts, IF negated THEN i + 1 ELSE i, {}), LAMBDA s : SetItem(s, negated, n, Item))

RECURSIVE ParseSequence(_, _, _, _)

\* parse_capture: numbered by its opening parenthesis.
Capturing(n, inner) ==
  IF n > MaxCaptures \/ ~ inner.ok THEN Malformed
  ELSE Parsed(<<CaptureStart(n)>> \o inner.items \o <<CaptureEnd(n)>>, inner.i + 1, inner.n)
ParseCapture(ts, i, n) == With(ParseSequence(ts, i, n, ")"), LAMBDA inner : Capturing(n, inner))

ParseBase(ts, i, n) ==
  LET t == ts[i]
      Gives(item) == Parsed(<<item>>, i + 1, n)
      Frontier(set) == [k |-> "frontier", set |-> set]
  IN  CASE t.k = "literal"   -> IF t.b \in {")", "]"} THEN Malformed ELSE Gives(OneOf({t.b}))
        [] t.k = "escaped"   -> Gives(OneOf({t.b}))
        [] t.k = "class"     -> Gives(OneOf(ClassBytes(t.b)))
        [] t.k = "balanced"  -> Gives([k |-> "balanced", open |-> t.open, close |-> t.close])
        [] t.k = "frontier"  -> IF IsMagic(ts, i + 1, "[") THEN ParseSet(ts, i + 2, n, Frontier) ELSE Malformed
        [] t.k = "reference" -> Gives([k |-> "reference"])
        [] t = Magic(".")    -> Gives(OneOf(ByteSet))
        [] t = Magic("^")    -> Gives([k |-> "anchor start"])
        [] t = Magic("$")    -> Gives([k |-> "anchor end"])
        [] t = Magic("[")    -> ParseSet(ts, i + 1, n, OneOf)
        [] t = Magic("(")    -> ParseCapture(ts, i + 1, n + 1)
        [] t = Magic("-")    -> Gives(OneOf({"-"}))
        [] OTHER             -> Malformed

\* parse_item: the quantifier behind what was read.
WithQuantifier(ts, base) ==
  IF ~ base.ok \/ \A q \in Quantifiers : ~ IsMagic(ts, base.i, q) THEN base
  ELSE IF base.items[1].k \in {"anchor start", "anchor end", "frontier"} THEN Malformed
  ELSE Parsed(<<Quantified(base.items, ts[base.i].b)>>, base.i + 1, base.n)

\* parse_sequence
FollowedBy(item, rest) ==
  IF rest.ok THEN [rest EXCEPT !.items = item.items \o @] ELSE Malformed
SequenceAfter(ts, item, end) ==
  IF item.ok THEN With(ParseSequence(ts, item.i, item.n, end), LAMBDA rest : FollowedBy(item, rest)) ELSE Malformed
ParseSequence(ts, i, n, end) ==
  IF i > Len(ts) THEN IF end = "" THEN Parsed(<<>>, i, n) ELSE Malformed
  ELSE IF IsMagic(ts, i, end) THEN Parsed(<<>>, i, n)
  ELSE With(With(ParseBase(ts, i, n), LAMBDA base : WithQuantifier(ts, base)),
            LAMBDA item : SequenceAfter(ts, item, end))

ParseTokens(ts) == IF ts # <<>> /\ ts[Len(ts)] = NoToken THEN Malformed ELSE ParseSequence(ts, 1, 0, "")
ParsePattern(p) == With(Lex(p, 1, 0, 0, <<>>), ParseTokens)

-----------------------------------------------------------------------------
(* The matcher.  A state has the slots of the captures of its pattern. *)

NoSpan == [from |-> -1, to |-> -1]

MatchState(n, start) ==
  [pos |-> start, start |-> start, captures |-> [i \in 1 .. n |-> NoSpan], starts |-> [i \in 1 .. n |-> -1],
   depth |-> 0]

ByteAt(text, pos) == IF pos \in 0 .. Len(text) - 1 THEN {text[pos + 1]} ELSE {}

\* Pat::Balanced: the positions behind a closing byte that balances the opening
\* one at pos.
Balance(text, from, to, open, close) ==
  IF open = close THEN 1 - Cardinality({k \in from + 2 .. to : text[k] = close})
  ELSE Cardinality({k \in from + 1 .. to : text[k] = open}) - Cardinality({k \in from + 1 .. to : text[k] = close})
BalancedEnds(text, pos, open, close) ==
  {j \in pos + 2 .. Len(text) : ByteAt(text, pos) = {open} /\ Balance(text, pos, j, open, close) = 0}

RECURSIVE MatchRecursive(_, _, _), FirstOf(_, _, _), Repetitions(_, _, _)

\* match_greedy and match_non_greedy: the states after 0, 1, 2... repetitions
\* of the body, up to one that moves nothing.  The recursion depth ends them
\* long before the limit on their number.
RepetitionsFrom(text, body, s, next) ==
  CASE next = None -> <<s>>
    [] next # None /\ next.pos = s.pos -> <<s, next>>
    [] next # None /\ next.pos # s.pos -> <<s>> \o Repetitions(text, body, next)
Repetitions(text, body, s) ==
  With(MatchRecursive(text, body, s), LAMBDA next : RepetitionsFrom(text, body, s, next))

\* The order in which they are tried.
Tried(q, states) ==
  CASE q = "*" -> Reverse(states)
    [] q = "+" -> IF Len(states) = 1 \/ states[2].pos = states[1].pos THEN <<>> ELSE Reverse(Tail(states))
    [] q = "?" -> Reverse(SubSeq(states, 1, IF Len(states) = 1 THEN 1 ELSE 2))
    [] q = "-" -> states

\* The states behind one item, the one to go on with first.
Alternatives(text, item, s) ==
  LET bytes == ByteAt(text, s.pos)
      If(cond, state) == IF cond THEN <<state>> ELSE <<>>
      MovedTo(pos) == [s EXCEPT !.pos = pos]
      Nearest(ends) == If(ends # {}, MovedTo(CHOOSE j \in ends : \A k \in ends : j <= k))
  IN  CASE item.k = "one" -> If(bytes # {} /\ bytes \subseteq item.set, MovedTo(s.pos + 1))
        [] item.k = "anchor start" -> If(s.pos = s.start, s)
        [] item.k = "anchor end"   -> If(s.pos = Len(text), s)
        [] item.k = "start" -> <<[s EXCEPT !.starts[item.i] = s.pos, !.captures[item.i] = NoSpan]>>
        [] item.k = "end"   -> <<[s EXCEPT !.captures[item.i] = [from |-> s.starts[item.i], to |-> s.pos]]>>
        [] item.k = "reference" -> <<>>
        [] item.k = "balanced"  -> Nearest(BalancedEnds(text, s.pos, item.open, item.close))
        [] item.k = "frontier"  ->
             If(ByteAt(text, s.pos - 1) \cap item.set = {} /\ bytes \cap item.set # {}, s)
        [] item.k = "quantified" -> With(Repetitions(text, item.body, s), LAMBDA states : Tried(item.q, states))

\* match_recursive: the state at the end of the items, or None.
MatchRecursive(text, items, s) ==
  CASE s.depth > MaxRecursionDepth -> None
    [] s.depth <= MaxRecursionDepth /\ items = <<>> -> [s EXCEPT !.depth = @ + 1]
    [] OTHER -> With(Alternatives(text, Head(items), [s EXCEPT !.depth = @ + 1]),
                     LAMBDA states : FirstOf(text, Tail(items), states))

Preferred(m, text, items, others) == IF m # None THEN m ELSE FirstOf(text, items, others)
FirstOf(text, items, states) ==
  IF states = <<>> THEN None
  ELSE With(MatchRecursive(text, items, Head(states)), LAMBDA m : Preferred(m, text, items, Tail(states)))

\* find_first_match: at every start from `from` on; an anchored pattern only
\* at the first.  pattern is the result of ParsePattern.
IsAnchored(items) == items # <<>> /\ Head(items).k = "anchor start"
RECURSIVE FirstMatch(_, _, _, _)
MatchOrNext(m, pattern, text, at, from) ==
  CASE m # None -> [from |-> at, to |-> m.pos, captures |-> m.captures]
    [] m = None /\ IsAnchored(pattern.items) /\ at = from -> None
    [] OTHER -> FirstMatch(pattern, text, at + 1, from)
FirstMatch(pattern, text, at, from) ==
  IF at > Len(text) THEN None
  ELSE With(MatchRecursive(text, pattern.items, MatchState(pattern.n, at)),
            LAMBDA m : MatchOrNext(m, pattern, text, at, from))
FindFirstMatch(pattern, text, from) == FirstMatch(pattern, text, from, from)

=============================================================================
