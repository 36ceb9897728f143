------------------------------- MODULE MCLua -------------------------------
(***************************************************************************)
(* Source programs for the whole path from tokens to results: the parser,  *)
(* the compiler, the interpreter and the reference they are compared with. *)
(***************************************************************************)
EXTENDS Vm, Compiler, Parser, LuaReference

MCStringTokens == [t \in {"'a'", "'b'", "'c'", "'#'", "'3'"} |->
                     CASE t = "'a'" -> <<"a">> [] t = "'b'" -> <<"b">> [] t = "'c'" -> <<"c">>
                       [] t = "'#'" -> <<"#">> [] t = "'3'" -> <<"3">>]
Arguments == <<Integer(1), Integer(2)>>
MCStringLibrary == Table(2)

-----------------------------------------------------------------------------
(* Loops that create closures, in every kind of loop and with every exit *)

Capture == [
  var   |-> <<"f", "=", "f", "or", "function", "(", ")", "x", "=", "x", "+", "1", "return", "x",
        "end">>,
  outer |-> <<"f", "=", "function", "(", ")", "n", "=", "n", "+", "x", "return", "n", "end">>,
  both  |-> <<"local", "y", "=", "n", "f", "=", "f", "or", "function", "(", ")", "y", "=", "y", "+",
        "x", "return", "y", "end", "n", "=", "y", "+", "1">>]

Exit == [
  none   |-> <<>>,
  break  |-> <<"if", "x", "==", "2", "then", "break", "end">>,
  goto   |-> <<"if", "x", "==", "2", "then", "goto", "next", "end">>,
  return |-> <<"if", "x", "==", "2", "then", "return", "n", ",", "f", "(", ")", "end">>]

Looping(kind, body) ==
  CASE kind = "for"    -> <<"for", "i", "=", "1", ",", "3", "do", "local", "x", "=", "i">> \o body \o <<"::", "next", "::", "end">>
    [] kind = "forin"  -> <<"for", "i", ",", "x", "in", "ipairs", "(", "{", "1", ",", "2", ",", "3", "}", ")",
        "do">> \o body \o <<"::", "next", "::", "end">>
    [] kind = "while"  -> <<"while", "n", "<", "4", "do", "local", "x", "=", "n", "n", "=", "n", "+", "1">> \o body \o <<"::", "next", "::", "end">>
    [] kind = "repeat" -> <<"repeat", "local", "x", "=", "n", "n", "=", "n", "+", "1", "do">> \o body \o <<"::", "next", "::", "end", "until", "x", ">", "2">>
    [] kind = "goto"   -> <<"do", "::", "top", "::", "local", "x", "=", "n", "n", "=", "n", "+", "1", "while",
        "true", "do">> \o body
                            \o <<"break", "::", "next", "::", "break", "end", "if", "n", "<", "4", "then", "goto",
        "top", "end", "end">>

Loops == {<<"local", "f", "local", "n", "=", "1">> \o Looping(kind, Capture[c] \o Exit[e])
            \o <<"return", "n", ",", "f", "(", ")", ",", "f", "(", ")">> :
            kind \in {"for", "forin", "while", "repeat", "goto"}, c \in DOMAIN Capture, e \in DOMAIN Exit}

-----------------------------------------------------------------------------
(* One program per feature *)

SrcShared ==
  <<"local", "a", ",", "b", "local", "x", "=", "1", "do", "local", "y", "=", "x", "a", "=",
    "function", "(", ")", "y", "=", "y", "+", "x", "return", "y", "end", "b", "=", "function",
    "(", ")", "x", "=", "x", "+", "1", "return", "y", "end", "end", "return", "a", "(", ")",
    ",", "b", "(", ")", ",", "a", "(", ")", ",", "x">>
SrcRecursive ==
  <<"local", "function", "fact", "(", "n", ")", "if", "n", "<=", "1", "then", "return", "1",
    "end", "return", "n", "*", "fact", "(", "n", "-", "1", ")", "end", "local", "function",
    "loop", "(", "n", ",", "...", ")", "if", "n", "==", "0", "then", "return", "...", "end",
    "return", "loop", "(", "n", "-", "1", ",", "n", ",", "...", ")", "end", "return", "fact",
    "(", "3", ")", ",", "loop", "(", "2", ",", "7", ")">>
SrcVarargs ==
  <<"local", "function", "f", "(", "a", ",", "...", ")", "local", "b", ",", "c", "=", "...",
    "return", "a", ",", "c", ",", "select", "(", "'#'", ",", "...", ")", ",", "...", "end",
    "local", "t", "=", "{", "f", "(", "1", ",", "2", ")", ",", "f", "(", "3", ",", "...", ")",
    "}", "return", "#", "t", ",", "t", "[", "1", "]", ",", "t", "[", "2", "]", ",", "t", "[",
    "6", "]", ",", "(", "f", "(", "1", ")", ")", ",", "f", "(", "...", ")">>
SrcMethods ==
  <<"local", "o", "=", "{", "n", "=", "1", ",", "k", "=", "{", "}", "}", "function", "o", ".",
    "k", ":", "add", "(", "i", ",", "...", ")", "self", ".", "n", "=", "i", "+", "select", "(",
    "'#'", ",", "...", ")", "return", "self", "end", "function", "o", ":", "get", "(", ")",
    "return", "self", ".", "n", "end", "return", "o", ".", "k", ":", "add", "(", "2", ",", "3",
    ",", "4", ")", ".", "n", ",", "o", ":", "get", "(", ")", ",", "pcall", "(", "o", ".",
    "none", ",", "1", ")", ",", "(", "'a'", ")", ":", "none", "(", ")">>
SrcMeta ==
  <<"local", "m", "=", "{", "__index", "=", "{", "z", "=", "5", "}", ",", "__newindex", "=",
    "function", "(", "t", ",", "k", ",", "v", ")", "rawset", "(", "t", ",", "k", ",", "v", "+",
    "1", ")", "end", ",", "__call", "=", "function", "(", "self", ",", "a", ")", "return", "a",
    "end", ",", "__len", "=", "function", "(", ")", "return", "9", "end", ",", "__unm", "=",
    "function", "(", ")", "return", "8", "end", ",", "__eq", "=", "function", "(", ")",
    "return", "1", "end", ",", "__lt", "=", "function", "(", ")", "return", "nil", "end", ",",
    "__concat", "=", "function", "(", "a", ",", "b", ")", "return", "'c'", "end", "}", "local",
    "t", ",", "u", "=", "setmetatable", "(", "{", "}", ",", "m", ")", ",", "setmetatable", "(",
    "{", "}", ",", "m", ")", "t", ".", "a", "=", "1", "return", "t", ".", "a", ",", "t", ".",
    "z", ",", "t", "(", "3", ")", ",", "#", "t", ",", "-", "t", ",", "t", "==", "u", ",", "t",
    "<", "u", ",", "t", "~=", "u", ",", "'a'", "..", "t", "..", "'b'">>
SrcErrors ==
  <<"local", "g", "local", "ok", ",", "e", "=", "pcall", "(", "function", "(", ")", "local",
    "x", "=", "1", "g", "=", "function", "(", ")", "x", "=", "x", "+", "1", "return", "x",
    "end", "error", "(", "'a'", ")", "end", ")", "return", "ok", ",", "e", ",", "g", "(", ")",
    ",", "g", "(", ")", ",", "pcall", "(", "pcall", ",", "error", ")", ",", "pcall", "(",
    "function", "(", ")", "return", "{", "}", "..", "1", "end", ")">>
SrcNested ==
  <<"local", "t", "=", "setmetatable", "(", "{", "}", ",", "{", "__index", "=", "function",
    "(", ")", "error", "(", "'b'", ")", "end", ",", "__concat", "=", "function", "(", "a", ",",
    "b", ")", "return", "b", ".", "x", "end", "}", ")", "local", "ok", ",", "a", ",", "e", "=",
    "pcall", "(", "pcall", ",", "function", "(", ")", "return", "1", "..", "t", "end", ")",
    "return", "ok", ",", "a", ",", "e", "==", "'b'", ",", "rawlen", "(", "{", "1", ",", "2",
    "}", ")", ",", "getmetatable", "(", "{", "}", ")">>
SrcIterate ==
  <<"local", "function", "idx", "(", "t", ",", "k", ")", "if", "k", "<", "4", "then", "return",
    "3", "end", "end", "local", "s", "=", "0", "for", "i", ",", "v", "in", "ipairs", "(",
    "setmetatable", "(", "{", "1", ",", "2", "}", ",", "{", "__index", "=", "idx", "}", ")",
    ")", "do", "s", "=", "s", "+", "i", "*", "v", "end", "return", "s">>
SrcCustom ==
  <<"local", "s", "=", "0", "local", "function", "it", "(", "a", ",", "c", ")", "if", "c", "<",
    "2", "then", "return", "c", "+", "1", "end", "end", "for", "k", "in", "it", ",", "nil",
    ",", "0", "do", "s", "=", "s", "+", "k", "end", "for", "k", ",", "v", "in", "it", ",",
    "nil", ",", "1", "do", "s", "=", "s", "*", "k", "end", "return", "s">>
SrcNumeric ==
  <<"local", "n", "=", "0", "for", "i", "=", "30", ",", "31", "do", "n", "=", "n", "+", "1",
    "end", "for", "i", "=", "3", ",", "1", ",", "-", "1", "do", "n", "=", "n", "*", "2", "+",
    "i", "end", "for", "i", "=", "1.0", ",", "2", "do", "n", "=", "n", "+", "1", "end", "for",
    "i", "=", "2", ",", "1", "do", "n", "=", "0", "end", "return", "n", ",", "7", "//", "-",
    "2", ",", "-", "7", "%", "3", ",", "7", "%", "-", "3", ",", "1", "<<", "2", "|", "3", ",",
    "~", "0", ",", "'3'", "+", "1">>
SrcAssign ==
  <<"local", "t", ",", "i", "=", "{", "1", ",", "2", ",", "3", "}", ",", "1", "i", ",", "t",
    "[", "i", "]", "=", "i", "+", "1", ",", "7", "local", "a", ",", "b", ",", "c", "=", "(",
    "function", "(", ")", "return", "4", ",", "5", "end", ")", "(", ")", "a", ",", "b", "=",
    "b", ",", "a", "x", ",", "y", "=", "a", "return", "i", ",", "t", "[", "1", "]", ",", "t",
    "[", "2", "]", ",", "a", ",", "b", ",", "c", ",", "x", ",", "y">>
SrcLogic ==
  <<"local", "function", "id", "(", "...", ")", "return", "...", "end", "local", "n", "=",
    "nil", "and", "1", "or", "2", "local", "m", "=", "id", "(", "1", ")", "and", "id", "(",
    "nil", ")", "or", "id", "(", "3", ")", "local", "k", "=", "not", "id", "(", "nil", ")",
    "==", "true", "and", "1", "<", "2", "if", "not", "(", "n", ">", "1", ")", "or", "m", "~=",
    "3", "then", "n", "=", "0", "elseif", "id", "(", "false", ")", "then", "n", "=", "5",
    "else", "n", "=", "6", "end", "return", "n", ",", "m", ",", "k", ",", "1", "==", "1.0",
    ",", "'a'", "<", "'b'", ",", "id", "(", "nil", ")", "or", "false">>
SrcEnv ==
  <<"function", "g", "(", "a", ")", "return", "a", ",", "h", "end", "h", "=", "4", "local",
    "_ENV", "=", "{", "k", "=", "5", ",", "g", "=", "g", "}", "h", "=", "k", "return", "h",
    ",", "k", ",", "g", "(", "1", ")">>
SrcConcat ==
  <<"local", "a", "=", "1", "return", "a", "..", "'a'", "..", "2", "..", "'b'", ",", "'a'",
    "..", "a", "==", "'a1'", ",", "#", "(", "'a'", "..", "'b'", ")">>
SrcRepeat ==
  <<"local", "fs", ",", "n", "=", "{", "}", ",", "0", "repeat", "n", "=", "n", "+", "1",
    "local", "i", "=", "n", "fs", "[", "n", "]", "=", "function", "(", ")", "i", "=", "i", "+",
    "1", "return", "i", "end", "until", "i", ">=", "2", "while", "true", "do", "if", "n", ">",
    "3", "then", "break", "end", "n", "=", "n", "+", "1", "end", "return", "n", ",", "fs", "[",
    "1", "]", "(", ")", ",", "fs", "[", "1", "]", "(", ")", ",", "fs", "[", "2", "]", "(", ")">>
SrcFlush ==
  <<"local", "function", "two", "(", ")", "return", "1", ",", "2", "end", "local", "t", "=",
    "{", "1", ",", "2", ",", "3", ",", "two", "(", ")", ",", "two", "(", ")", ",", "k", "=",
    "4", ",", "[", "9", "]", "=", "5", ",", "...", "}", "return", "t", "[", "3", "]", ",", "t",
    "[", "4", "]", ",", "t", "[", "5", "]", ",", "t", "[", "6", "]", ",", "t", "[", "7", "]",
    ",", "t", "[", "8", "]", ",", "t", ".", "k", ",", "t", "[", "9", "]">>
SrcRuntime ==
  <<"local", "a", ",", "b", "=", "7", ",", "-", "3", "return", "a", "//", "b", ",", "a", "%",
    "b", ",", "b", "%", "3", ",", "a", "/", "b", ",", "a", "^", "2", ",", "a", "*", "b", ",",
    "a", "<=", "b", ",", "a", ">=", "b", ",", "b", ">", "2.0">>
SrcBits ==
  <<"local", "a", ",", "z", "=", "7", ",", "nil", "local", "c", "=", "a", "and", "5", "local",
    "d", "=", "z", "or", "a", "local", "e", "=", "z", "and", "a", "return", "a", "&", "c", ",",
    "a", "|", "8", ",", "a", "~", "2", ",", "a", "<<", "1", ",", "a", ">>", "1", ",", "~", "a",
    ",", "c", ",", "d", ",", "e">>
SrcBadMethod ==
  <<"local", "t", "return", "t", ":", "m", "(", ")">>
SrcBadNext ==
  <<"local", "function", "idx", "(", ")", "error", "(", "'c'", ")", "end", "return", "pcall",
    "(", "function", "(", ")", "for", "i", "in", "ipairs", "(", "setmetatable", "(", "{", "}",
    ",", "{", "__index", "=", "idx", "}", ")", ")", "do", "end", "end", ")">>
SrcBad ==
  <<"local", "t", "=", "{", "}", "return", "t", ".", "x", ".", "y">>
SrcBadCall ==
  <<"local", "x", "=", "1", "return", "x", "(", ")">>
SrcBadOp ==
  <<"return", "{", "}", "<", "1">>
SrcBadFor ==
  <<"for", "i", "=", "1", ",", "'a'", "do", "end">>
SrcBadFor2 ==
  <<"for", "i", "=", "{", "}", ",", "1", "do", "end">>
SrcBadIter ==
  <<"for", "i", "in", "nil", "do", "end">>
SrcNoKey ==
  <<"local", "t", "=", "{", "}", "t", "[", "nil", "]", "=", "1">>
SrcInsert ==
  <<"local", "t", "=", "{", "1", ",", "2", "}", "table", ".", "insert", "(", "t", ",", "3",
    ")", "table", ".", "insert", "(", "t", ",", "1", ",", "4", ")", "table", ".", "insert",
    "(", "t", ",", "4", ",", "5", ")", "local", "a", "=", "table", ".", "remove", "(", "t",
    ",", "2", ")", "return", "a", ",", "table", ".", "remove", "(", "t", ")", ",", "#", "t",
    ",", "table", ".", "unpack", "(", "t", ")">>
SrcProxy ==
  <<"local", "s", "=", "{", "1", ",", "2", ",", "3", "}", "local", "p", "=", "setmetatable",
    "(", "{", "}", ",", "{", "__index", "=", "function", "(", "t", ",", "k", ")", "return",
    "s", "[", "k", "]", "end", ",", "__newindex", "=", "s", ",", "__len", "=", "function", "(",
    ")", "return", "#", "s", "end", "}", ")", "table", ".", "insert", "(", "p", ",", "1", ",",
    "9", ")", "table", ".", "insert", "(", "p", ",", "8", ")", "local", "r", "=", "table", ".",
    "remove", "(", "p", ",", "2", ")", "return", "r", ",", "table", ".", "remove", "(", "p",
    ",", "5", ")", ",", "#", "s", ",", "table", ".", "unpack", "(", "p", ")">>
SrcSparse ==
  <<"local", "t", "=", "{", "}", "t", "[", "3", "]", "=", "3", "t", "[", "2", "]", "=", "2",
    "t", "[", "1", "]", "=", "1", "table", ".", "insert", "(", "t", ",", "2", ",", "7", ")",
    "local", "u", "=", "{", "}", "u", "[", "2", "]", "=", "5", "u", "[", "1", "]", "=", "4",
    "return", "table", ".", "remove", "(", "u", ",", "1", ")", ",", "u", "[", "1", "]", ",",
    "u", "[", "2", "]", ",", "#", "t", ",", "table", ".", "unpack", "(", "t", ")">>
SrcPack ==
  <<"local", "p", ",", "q", "=", "table", ".", "pack", "(", "...", ")", ",", "table", ".",
    "pack", "(", ")", "return", "p", ".", "n", ",", "p", "[", "1", "]", ",", "p", "[", "2",
    "]", ",", "q", ".", "n", ",", "select", "(", "'#'", ",", "table", ".", "unpack", "(", "{",
    "1", ",", "nil", ",", "3", "}", ",", "1", ",", "3", ")", ")", ",", "table", ".", "unpack",
    "(", "p", ",", "2", ")">>
SrcPairs ==
  <<"local", "m", "=", "{", "__pairs", "=", "function", "(", "t", ")", "return", "function",
    "(", "s", ",", "k", ")", "if", "not", "k", "then", "return", "1", ",", "2", "end", "end",
    ",", "t", ",", "nil", ",", "5", "end", "}", "local", "t", "=", "setmetatable", "(", "{",
    "}", ",", "m", ")", "local", "n", "=", "0", "for", "k", ",", "v", "in", "pairs", "(", "t",
    ")", "do", "n", "=", "n", "+", "v", "end", "return", "n", ",", "select", "(", "'#'", ",",
    "pairs", "(", "t", ")", ")", ",", "pcall", "(", "next", ",", "{", "}", ",", "'a'", ")">>
SrcBadTable ==
  <<"local", "function", "bad", "(", "len", ")", "return", "setmetatable", "(", "{", "}", ",",
    "{", "__len", "=", "len", "}", ")", "end", "return", "pcall", "(", "table", ".", "insert",
    ",", "{", "}", ",", "5", ",", "1", ")", ",", "pcall", "(", "table", ".", "remove", ",",
    "{", "1", "}", ",", "5", ")", ",", "pcall", "(", "table", ".", "insert", ",", "{", "}",
    ")", ",", "(", "pcall", "(", "table", ".", "unpack", ")", ")", ",", "pcall", "(", "table",
    ".", "insert", ",", "bad", "(", "function", "(", ")", "error", "(", "'a'", ")", "end", ")",
    ",", "1", ")", ",", "pcall", "(", "table", ".", "remove", ",", "bad", "(", "function", "(",
    ")", "return", "'a'", "end", ")", ")", ",", "pcall", "(", "table", ".", "insert", ",",
    "bad", "(", "function", "(", ")", "return", "1", "end", ")", ",", "4", ",", "1", ")">>
SrcBadPairs ==
  <<"return", "pcall", "(", "pairs", ",", "setmetatable", "(", "{", "}", ",", "{", "__pairs",
    "=", "error", "}", ")", ")", ",", "(", "pcall", "(", "next", ",", "1", ")", ")">>
SrcLong ==
  <<"local", "t", "=", "{", "1", ",", "2", ",", "3", ",", "4", ",", "a", "=", "1", ",", "b",
    "=", "2", "}", "t", "[", "5", "]", "=", "5", "local", "n", "=", "#", "t", "t", "[", "6",
    "]", "=", "6", "t", ".", "a", "=", "nil", "t", "[", "7", "]", "=", "7", "return", "n", ",",
    "#", "t", ",", "t", "[", "5", "]", ",", "t", "[", "6", "]", ",", "t", "[", "7", "]", ",",
    "t", ".", "b", ",", "t", ".", "a">>
SrcHoles ==
  <<"local", "t", "=", "{", "}", "for", "i", "=", "12", ",", "1", ",", "-", "1", "do", "t",
    "[", "i", "]", "=", "i", "end", "for", "i", "=", "2", ",", "12", ",", "3", "do", "t", "[",
    "i", "]", "=", "nil", "end", "local", "n", "=", "0", "for", "i", "in", "pairs", "(", "t",
    ")", "do", "n", "=", "n", "+", "1", "t", "[", "i", "]", "=", "nil", "end", "return", "n",
    ",", "#", "t">>

Features == {SrcShared, SrcRecursive, SrcVarargs, SrcMethods, SrcMeta, SrcErrors, SrcNested,
            SrcIterate, SrcCustom, SrcNumeric, SrcAssign, SrcLogic, SrcEnv, SrcConcat,
            SrcRepeat, SrcFlush, SrcRuntime, SrcBits, SrcBadMethod, SrcBadNext, SrcBad,
            SrcBadCall, SrcBadOp, SrcBadFor, SrcBadFor2, SrcBadIter, SrcNoKey, SrcInsert,
            SrcProxy, SrcSparse, SrcPack, SrcPairs, SrcBadTable, SrcBadPairs, SrcLong, SrcHoles}

-----------------------------------------------------------------------------
(* Tables whose keys come in every order, and what a traversal finds *)

Traversals == {
  <<"local", "a", ",", "b", ",", "c", ",", "d", "=", "...", "local", "t", "=", "{", "}",
        "t", "[", "a", "]", "=", "1", "t", "[", "b", "]", "=", "2", "t", "[", "c", "]", "=",
        "4", "t", "[", "b", "]", "=", "nil", "t", "[", "d", "]", "=", "8", "local", "n", "=",
        "0", "for", "k", ",", "v", "in", "pairs", "(", "t", ")", "do", "n", "=", "n", "+", "v",
        "t", "[", "k", "]", "=", "nil", "end", "return", "n", ",", "next", "(", "t", ")", "==",
        "nil">>}
TableKeys == {Integer(1), Integer(2), Integer(3), Number(4), Name("a"), Boolean(TRUE)}
Keys == [1 .. 4 -> TableKeys]

-----------------------------------------------------------------------------
(* Patterns: two repeated items around and inside of a capture, where every *)
(* one may have to give back what it took, and one pattern per kind of item *)

Find      == <<"local", "s", ",", "p", ",", "i", ",", "b", "=", "...", "return", "string", ".",
        "find", "(", "s", ",", "p", ",", "i", ",", "b", ")">>
Match0    == <<"local", "s", ",", "p", ",", "i", "=", "...", "return", "s", ":", "match", "(", "p",
        ",", "i", ")">>
GMatch    == <<"local", "s", ",", "p", "=", "...", "local", "t", "=", "'a'", "for", "x", ",", "y",
        "in", "string", ".", "gmatch", "(", "s", ",", "p", ")", "do", "t", "=", "t", "..", "x",
        "..", "'#'", "..", "(", "y", "or", "'b'", ")", "end", "return", "t">>
GsubText  == <<"local", "s", ",", "p", ",", "r", ",", "n", "=", "...", "return", "pcall", "(",
        "string", ".", "gsub", ",", "s", ",", "p", ",", "r", ",", "n", ")">>
GsubTable == <<"local", "s", ",", "p", "=", "...", "return", "s", ":", "gsub", "(", "p", ",", "{",
        "a", "=", "'b'", ",", "b", "=", "false", ",", "c", "=", "'3'", "}", ")">>
GsubBad   == <<"local", "s", ",", "p", "=", "...", "return", "(", "pcall", "(", "string", ".", "gsub",
        ",", "s", ",", "p", ",", "{", "a", "=", "true", "}", ")", ")", ",", "(", "pcall", "(",
        "string", ".", "gsub", ",", "s", ",", "p", ")", ")">>

Items == {<<x>> \o q : x \in {"a", "."}, q \in {<<>>} \cup {<<q>> : q \in Quantifiers}}
Repeated == UNION {{<<"(">> \o x \o <<")">> \o y \o <<"$">>, x \o <<"(">> \o y \o <<")">>, <<"^">> \o x \o <<"(">> \o y \o <<")", "b">>} : x, y \in Items}
Replaced == {<<"(">> \o x \o <<")">> \o y : x, y \in Items}

Texts == {<<"a", "a", "b">>, <<" ", "a", "b", " ">>, <<"(", "a", "(", "b", ")", ")">>, <<"1", "-", "b", ".">>}
Kinds == {<<>>, <<"%", "b", "(", ")">>, <<"%", "f", "[", "%", "a", "]", "%", "a", "+">>, <<"[", "b", "-", "c", "]", "+">>, <<"[", "^", "a", "-", "c", "%", "s", "]">>, <<"[", "%", "a", "-", "]", "*">>, <<"[", "a", "-", "]", "b">>, <<"[", "%", "]", ".", "]">>, <<"%", "A", "%", ".", "?">>, <<"-", "b">>, <<"(", "a", ")", "(", "b", ")">>,
          <<"(", "(", "a", ")", "b", ")">>, <<"^", "%", "s", "*", "(", ".", "-", ")", "%", "s", "*", "$">>, <<"%", "(", ".">>, <<"(", "a">>, <<"a", ")">>, <<"a", "%">>, <<"[", "a">>, <<"%", "b", "(">>, <<"%", "f">>}
Global == {<<"a">>, <<".">>, <<"%", "a", "+">>, <<"(", "a", ")", "(", ".", ")">>, <<"[", "^", "b", "]", "-", "b">>, <<"%", "b", "(", ")">>}

Call2(t, p)       == <<String(t), String(p)>>
Calls(f, ts, ps)  == {[f |-> f, args |-> Call2(t, p)] : t \in ts, p \in ps}
Matching ==
  Calls(Find, {<<"a", "a", "b">>, <<"b", "a">>}, Repeated) \cup Calls(Match0, Texts, Kinds) \cup Calls(GMatch, Texts, Global)
  \cup {[f |-> GsubText, args |-> Call2(<<"a", "a", "b">>, p) \o <<String(<<"%", "0", "-", "%", "1">>)>>] : p \in Replaced}
  \cup {[f |-> GsubText, args |-> Call2(<<"(", "a", "(", "b", ")", ")">>, p) \o <<String(r), n>>] :
           p \in {<<"a">>, <<"(", "a", ")", "(", ".", ")">>, <<>>, <<"[", "a">>}, r \in {<<"%", "1", "%", "%">>, <<"%", "2">>, <<"b", "%">>, <<"%", "b">>}, n \in {Nil, Integer(0), Integer(1)}}
  \cup Calls(GsubTable, Texts, {<<"%", "a">>, <<"%", "a", "?">>, <<"(", "%", "a", ")", "(", ".", ")">>}) \cup Calls(GsubBad, {<<"a", "a", "b">>}, {<<"a">>})
  \cup {[f |-> Find, args |-> Call2(<<"a", "a", "b">>, p) \o <<Integer(i), Boolean(b)>>] :
           p \in {<<"a">>, <<"a", "b">>, <<"a", "*", "b">>, <<>>}, i \in {-4, -1, 0, 2, 4, 5}, b \in BOOLEAN}

-----------------------------------------------------------------------------
(* Short programs with labels, gotos and scopes; they are only compiled *)

Scoped == {
  <<"::", "a", "::">>, <<"goto", "a">>, <<"local", "x">>, <<"local", "x", "::", "a", "::">>, <<"do", "goto", "a", "end">>, <<"do", "::", "b", "::", "local", "x", "end">>, <<"goto", "b">>,
  <<"do", "local", "x", "goto", "a", "end">>, <<"while", "x", "do", "break", "end", "break">>, <<"f", "=", "function", "(", ")", "goto", "a", "end">>,
  <<"local", "x", "<", "const", ">", "=", "1">>, <<"x", "=", "2">>}
Scopes == {s \o t \o u : s \in Scoped, t \in Scoped, u \in Scoped}

-----------------------------------------------------------------------------

\* FunctionPrototype::compile: a syntax error hides what the compiler says.
CompileSource(ts, called, args) ==
  LET t  == ParseChunk(ts)
      c  == CompileChunk(t.x)
      ok == t.p.err = "" /\ c.c.err = ""
  IN  [source |-> ts, called |-> called, args |-> args,
       err    |-> IF t.p.err # "" THEN t.p.err ELSE c.c.err,
       proto  |-> IF ok THEN c.x ELSE None]

MCChunks == LET chunks == {CompileSource(ts, TRUE, Arguments) : ts \in Loops \cup Features}
                            \cup UNION {{[c EXCEPT !.args = m.args] : m \in {n \in Matching : n.f = c.source}} :
                                           c \in {CompileSource(m.f, TRUE, <<>>) : m \in Matching}}
                            \cup {CompileSource(ts, FALSE, <<>>) : ts \in Scopes}
                            \cup {[c EXCEPT !.args = a] : c \in {CompileSource(ts, TRUE, <<>>) : ts \in Traversals}, a \in Keys}
            IN  chunks

Reference(c) == Meaning(ParseChunk(c.source).x, c.args)

\* What a finished thread holds.
Outcome ==
  IF Frame.k = "Result" THEN [k |-> "return", vs |-> Above(Frame.bottom)] ELSE [k |-> "error", e |-> Frame.e]

\* Every program that is called ends with the values, or the error, that the
\* reference gives it: registers, upvalues, jumps, varargs, metamethods and
\* protected calls carry no trace into the result.
ResultIsReference ==
  [][Finished' /\ chunk.called => Outcome' = Reference(chunk)]_vars

\* The compiler accepts exactly the programs whose jumps have a label to go to
\* and enter no local's scope, and that assign to no constant.
AcceptsWellFormed ==
  [][closures = <<>> => (closures' # <<>>) = WellFormed(ParseChunk(chunk.source).x)]_vars

=============================================================================
