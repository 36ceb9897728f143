------------------------------ MODULE UpValues ------------------------------
(***************************************************************************)
(* The upvalues of a thread (src/crates/phodopus/src/thread/thread.rs).    *)
(*                                                                         *)
(* ups has every upvalue that was ever made: [open |-> TRUE, i] for one    *)
(* that stands for the stack index i, or [open |-> FALSE, v].  open is     *)
(* ThreadState::open_upvalues, a list of indices into ups.  The list is    *)
(* sorted by stack index, which the binary searches of the code rely on.   *)
(***************************************************************************)
EXTENDS Integers, FiniteSets, SequencesExt

\* The list is sorted, and names each open upvalue once.
Listed(open, ups) ==
  /\ \A i, j \in DOMAIN open : i < j => ups[open[i]].i < ups[open[j]].i
  /\ {open[i] : i \in DOMAIN open} = {u \in DOMAIN ups : ups[u].open}

\* Mutant: a new upvalue goes to the end of the list.
InsertLast(s, index) == Len(s.open) + 1
\* LuaRegisters::open_upvalue: one upvalue per stack index.  ids collects the
\* upvalues of the closure that is being made.
InsertionPoint(s, index) == Cardinality({i \in DOMAIN s.open : s.ups[s.open[i]].i < index}) + 1
OpenUpvalue(s, index) ==
  LET at   == {i \in DOMAIN s.open : s.ups[s.open[i]].i = index}
      new  == Len(s.ups) + 1
  IN  IF at # {} THEN [open |-> s.open, ups |-> s.ups, ids |-> Append(s.ids, s.open[CHOOSE i \in at : TRUE])]
      ELSE [open |-> InsertAt(s.open, InsertionPoint(s, index), new),
            ups  |-> Append(s.ups, [open |-> TRUE, i |-> index]),
            ids  |-> Append(s.ids, new)]

\* close_upvalues: the open upvalues from the first one at or above `from` take
\* their values from the stack st.
FirstOpen(open, ups, from) == Min({i \in DOMAIN open : ups[open[i]].i >= from} \cup {Len(open) + 1})
CloseFrom(open, ups, st, from) ==
  LET start == FirstOpen(open, ups, from)
  IN  [open |-> SubSeq(open, 1, start - 1),
       ups  |-> [u \in DOMAIN ups |-> IF \E i \in start .. Len(open) : open[i] = u
                                      THEN [open |-> FALSE, v |-> st[ups[u].i + 1]] ELSE ups[u]]]

=============================================================================
