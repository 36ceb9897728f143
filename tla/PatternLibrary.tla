--------------------------- MODULE PatternLibrary ---------------------------
(***************************************************************************)
(* find, match, gmatch and gsub of the string library                      *)
(* (src/crates/phodopus/src/stdlib/string/patterns.rs and the functions    *)
(* find and pattern_match of pattern_engine.rs).  Fuel and the ceiling on  *)
(* the size of the output are not modelled.                                *)
(***************************************************************************)
EXTENDS TableLibrary, PatternEngine

\* FromValue for String: numbers are converted.
IsText(v) == IsImplicitString(v)

Slice(text, from, to) == SubSeq(text, from + 1, to)

\* The captures that took part in a match, in their order.
CapturesOf(text, m) ==
  LET spans == SelectSeq(m.captures, LAMBDA c : c # NoSpan)
  IN  [i \in DOMAIN spans |-> Slice(text, spans[i].from, spans[i].to)]
CapturesOrMatch(text, m) ==
  IF CapturesOf(text, m) = <<>> THEN <<Slice(text, m.from, m.to)>> ELSE CapturesOf(text, m)
Strings(texts) == [i \in DOMAIN texts |-> String(texts[i])]

\* calculate_start_index
StartIndex(len, init) ==
  CASE init > 0 -> Min({init - 1, len})
    [] init < 0 -> Max({len + init, 0})
    [] OTHER    -> 0

\* The first place at or behind start where needle stands in the text.
PlainPlaces(text, needle, start) ==
  {i \in start .. Len(text) - Len(needle) : Slice(text, i, i + Len(needle)) = needle}

\* The arguments of all four functions; init is 0 when it is not given.
ArgumentsOk(args) ==
  /\ IsText(Argument(args, 1)) /\ IsText(Argument(args, 2))
  /\ OptInteger(Argument(args, 3), Integer(0)) # None
TextOf(args, i) == Text(args[i])
InitOf(args)    == OptInteger(Argument(args, 3), Integer(0)).n

\* The search of find and match, with the pattern that was parsed: None when
\* there is no match.
Search(args, ast) == FindFirstMatch(ast, TextOf(args, 1), StartIndex(Len(TextOf(args, 1)), InitOf(args)))
BehindText(args)  == InitOf(args) > Len(TextOf(args, 1)) + 1

\* string.find
FoundAt(from, to, captures) == Returns(<<Integer(from + 1), Integer(to)>> \o Strings(captures))
FoundPlain(needle, at) == IF at = {} THEN Returns(<<Nil>>) ELSE FoundAt(Min(at), Min(at) + Len(needle), <<>>)
FoundMatch(text, m) == IF m = None THEN Returns(<<Nil>>) ELSE FoundAt(m.from, m.to, CapturesOf(text, m))
FindParsed(args, ast) == IF ast.ok THEN With(Search(args, ast), LAMBDA m : FoundMatch(TextOf(args, 1), m)) ELSE Failure
StringFind(args) ==
  CASE ~ ArgumentsOk(args) \/ Argument(args, 4).t \notin {"nil", "bool"} -> Failure
    [] ArgumentsOk(args) /\ BehindText(args) -> Returns(<<Nil>>)
    [] OTHER ->
         IF Argument(args, 4) = Boolean(TRUE)
         THEN FoundPlain(TextOf(args, 2), PlainPlaces(TextOf(args, 1), TextOf(args, 2),
                                                      StartIndex(Len(TextOf(args, 1)), InitOf(args))))
         ELSE With(ParsePattern(TextOf(args, 2)), LAMBDA ast : FindParsed(args, ast))

\* string.match
Matched(text, m) == Returns(IF m = None THEN <<Nil>> ELSE Strings(CapturesOrMatch(text, m)))
MatchParsed(args, ast) == IF ast.ok THEN With(Search(args, ast), LAMBDA m : Matched(TextOf(args, 1), m)) ELSE Failure
StringMatch(args) ==
  CASE ~ ArgumentsOk(args) -> Failure
    [] ArgumentsOk(args) /\ BehindText(args) -> Returns(<<Nil>>)
    [] OTHER -> With(ParsePattern(TextOf(args, 2)), LAMBDA ast : MatchParsed(args, ast))

-----------------------------------------------------------------------------
(* string.gmatch.  The iterator is a callback with a state of its own; the *)
(* cursor is kept in the array part of a table that no Lua code can reach. *)

CursorTable(pos) == [raw |-> RawSet(RawTable(0, 0), Integer(1), Integer(pos)), meta |-> 0]

\* GMatchInner::new: the cursor is behind the end when init lies there.
GMatchParsed(ts, args, ast) ==
  LET len == Len(TextOf(args, 1))
      pos == IF InitOf(args) > 0 THEN Min({InitOf(args) - 1, len + 1}) ELSE StartIndex(len, InitOf(args))
  IN  IF ~ ast.ok THEN Done(ts, Failure)
      ELSE Done(Append(ts, CursorTable(pos)),
                Returns(<<Callback("gmatch next", <<TextOf(args, 1), ast, Table(Len(ts) + 1)>>)>>))
StringGMatch(ts, args) ==
  IF ArgumentsOk(args) THEN With(ParsePattern(TextOf(args, 2)), LAMBDA ast : GMatchParsed(ts, args, ast))
  ELSE Done(ts, Failure)

\* GMatchInner::next: an empty match moves the cursor on by one; the one at
\* the end of the text is dropped unless the pattern is empty.
Cursor(ts, up) == GetRaw(ts, up[3], Integer(1)).n
GMatched(ts, up, m) ==
  LET text == up[1]
      next == IF m.from = m.to THEN m.to + 1 ELSE m.to
      dropped == next > Len(text) /\ up[2].items # <<>>
  IN  IF m = None THEN Done(ts, Returns(<<>>))
      ELSE Done(SetRaw(ts, up[3], Integer(1), Integer(next)),
                Returns(IF dropped THEN <<>> ELSE Strings(CapturesOrMatch(text, m))))
GMatchNext(ts, up) ==
  With(FindFirstMatch(up[2], up[1], Cursor(ts, up)), LAMBDA m : GMatched(ts, up, m))

-----------------------------------------------------------------------------
(* string.gsub *)

\* GsubSequence; a text has fewer matches than two more than its bytes.
Gsub(text, ast, repl, max) ==
  [k |-> "gsub", text |-> text, ast |-> ast, repl |-> repl, max |-> max, last |-> 0, count |-> 0, result |-> <<>>]

GsubParsed(text, ast, repl, max) ==
  IF ast.ok THEN Runs(Gsub(text, ast, IF IsTable(repl) THEN repl ELSE String(Text(repl)), max), <<>>) ELSE Failure
StringGsub(args) ==
  LET repl == Argument(args, 3)
      n    == OptInteger(Argument(args, 4), Integer(Len(TextOf(args, 1)) + 2))
  IN  IF /\ IsText(Argument(args, 1)) /\ IsText(Argument(args, 2)) /\ n # None
         /\ IsText(repl) \/ IsTable(repl)
      THEN With(ParsePattern(TextOf(args, 2)), LAMBDA ast : GsubParsed(TextOf(args, 1), ast, repl, Max({n.n, 0})))
      ELSE Failure

\* process_replacement_bytes: the text, or Failure.
RECURSIVE Substituted(_, _, _)
Prefixed(s, rest) == IF rest.k = "error" THEN rest ELSE Value(s \o rest.v)
Substituted(repl, match, captures) ==
  LET c == repl[2]
      index == CHOOSE i \in 0 .. 2 : ToString(i) = c
      literal == repl[1] # "%" \/ c = "%"
      direct == c \in Digits /\ (index = 0 \/ (index = 1 /\ captures = <<>>))
      Then(s, rest) == With(rest, LAMBDA r : Prefixed(s, r))
      Rest(n) == Substituted(SubSeq(repl, n + 1, Len(repl)), match, captures)
  IN  CASE repl = <<>>      -> Value(<<>>)
        [] repl = <<"%">>   -> Failure
        [] literal          -> Then(<<repl[1]>>, Rest(IF repl[1] = "%" THEN 2 ELSE 1))
        [] direct           -> Then(match, Rest(2))
        [] OTHER            -> IF c \notin Digits \/ index > Len(captures) THEN Failure
                               ELSE Then(captures[index], Rest(2))

\* What replaces a match: the string with its captures, or the entry of a
\* table; a match without an entry stays.
EntryOr(v, match) ==
  CASE IsText(v)   -> Value(Text(v))
    [] ~ ToBool(v) -> Value(match)
    [] OTHER       -> Failure
Replacement(ts, repl, match, captures) ==
  IF IsTable(repl) THEN EntryOr(GetRaw(ts, repl, String(IF captures = <<>> THEN match ELSE captures[1])), match)
  ELSE Substituted(repl.s, match, captures)

\* One turn of the loop in GsubSequence::poll, which may end after any of them
\* when the fuel does.
GsubDone(result, count) == Returns(<<String(result), Integer(count)>>)
GsubReplaced(g, m, r) ==
  LET empty == m.from = m.to
      grown == g.result \o Slice(g.text, g.last, m.from) \o r.v
  IN  CASE r.k = "error" -> Failure
        [] r.k # "error" /\ empty /\ m.to = Len(g.text) -> GsubDone(grown, g.count + 1)
        [] OTHER -> [k |-> "go", seq |-> [g EXCEPT
                       !.result = grown \o IF empty THEN Slice(g.text, m.to, m.to + 1) ELSE <<>>,
                       !.last   = IF empty THEN m.to + 1 ELSE m.to, !.count = @ + 1]]
GsubMatched(ts, g, m) ==
  IF m = None THEN GsubDone(g.result \o Slice(g.text, g.last, Len(g.text)), g.count)
  ELSE With(Replacement(ts, g.repl, Slice(g.text, m.from, m.to), CapturesOf(g.text, m)), LAMBDA r : GsubReplaced(g, m, r))
PollGsubStep(ts, g) ==
  With(IF g.count < g.max THEN FindFirstMatch(g.ast, g.text, g.last) ELSE None, LAMBDA m : GsubMatched(ts, g, m))

\* The call of any callback.
InvokeAny(ts, f, args) ==
  CASE f.cb = "find"   -> Done(ts, StringFind(args))
    [] f.cb = "match"  -> Done(ts, StringMatch(args))
    [] f.cb = "gsub"   -> Done(ts, StringGsub(args))
    [] f.cb = "gmatch" -> StringGMatch(ts, args)
    [] f.cb = "gmatch next" -> GMatchNext(ts, f.up)
    [] OTHER -> Invoke(ts, f, args)

=============================================================================
