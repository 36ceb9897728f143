------------------------------- MODULE Tables -------------------------------
(***************************************************************************)
(* The storage of a table (src/crates/phodopus/src/table/raw.rs): an array *)
(* part, always as long as its capacity, and a map part.                   *)
(*                                                                         *)
(* map is a function from the numbers of the full buckets to their         *)
(* contents, [key, dead, v].  Which bucket a new entry gets is incidental  *)
(* in the code; here it is the one behind the last.  cap is the number of  *)
(* entries the map holds before it grows.  Indices of the array part start *)
(* at 1.  Refusals of the memory quota are the subject of Sandbox; NaN is  *)
(* not a value of the model.                                               *)
(***************************************************************************)
EXTENDS LuaValues, FiniteSets, SequencesExt

\* The capacity that hashbrown gives a map of n entries.
MapCapacity(n) == Min({c \in {0, 3} \cup {7 * 2 ^ i : i \in 0 .. IntBits} : c >= n})

\* The capacity of a vector of len elements that is to hold `additional` more.
ArrayCapacity(len, additional) == Max({2 * len, len + additional, 4})

\* RawTable::with_capacity
RawTable(array, map) == [array |-> [i \in 1 .. array |-> Nil], map |-> <<>>, cap |-> MapCapacity(map)]

-----------------------------------------------------------------------------
(* Keys *)

\* CanonicalKey::new: a float that holds an integer is the integer's key.  The
\* largest integer has no float of its own: f64_to_i64 gives the one above to it.
CanonicalKey(k) ==
  CASE k.t = "num" /\ k.n \in MinInt .. MaxInt -> Integer(k.n)
    [] k.t = "num" /\ k.n = MaxInt + 1 -> Integer(MaxInt)
    [] OTHER -> k
ValidKey(k) == k # Nil

\* to_array_index: the place of a key in the array part, 0 when it has none.
ArrayIndex(k) ==
  LET c == CanonicalKey(k) IN IF IsInt(c) /\ c.n > 0 THEN c.n ELSE 0

\* The bucket of a key, dead or alive; 0 when there is none.
Buckets(rt, k) == {b \in DOMAIN rt.map : rt.map[b].key = CanonicalKey(k)}
Bucket(rt, k) == IF Buckets(rt, k) = {} THEN 0 ELSE CHOOSE b \in Buckets(rt, k) : TRUE

MapLen(rt) == Cardinality(DOMAIN rt.map)
Live(rt) == {b \in DOMAIN rt.map : rt.map[b].v # Nil}

\* try_insert_no_grow, when there is room: a new entry in an empty bucket
InsertNoGrow(map, e) ==
  LET new == Max({0} \cup DOMAIN map) + 1
  IN  [b \in DOMAIN map \cup {new} |-> IF b = new THEN e ELSE map[b]]

\* Key::kill: the key of an object is forgotten, so that the object can go.
Kill(e) == [key |-> e.key, dead |-> e.key.t \notin {"bool", "int", "num", "opaque"}, v |-> Nil]

-----------------------------------------------------------------------------
(* Operations *)

\* RawTable::get
RawGet(rt, k) ==
  LET i == ArrayIndex(k)
      b == Bucket(rt, k)
  IN  CASE i \in DOMAIN rt.array -> rt.array[i]
        [] i \notin DOMAIN rt.array /\ b # 0 -> rt.map[b].v
        [] OTHER -> Nil

\* Mutant: the entries that fit into the longer array stay in the map.
MovedNothing(rt, n) == Restrict(rt.map, Live(rt))
\* Growing the array drops the entries that were removed and moves those that
\* the array part has a place for.
KeptInMap(rt, n) == Restrict(rt.map, {b \in Live(rt) : ArrayIndex(rt.map[b].key) \notin 1 .. n})
GrowArray(rt, additional) ==
  LET n == ArrayCapacity(Len(rt.array), additional)
  IN  [array |-> [i \in 1 .. n |-> RawGet(rt, Integer(i))], map |-> KeptInMap(rt, n), cap |-> rt.cap]

\* try_reserve_array_through
ReserveThrough(rt, i) == IF i <= Len(rt.array) THEN rt ELSE GrowArray(rt, i - Len(rt.array))

\* try_reserve_map: entries that were removed go before the map grows.
ReserveMap(rt, additional) ==
  LET live == Cardinality(Live(rt))
  IN  IF additional <= rt.cap - MapLen(rt) THEN rt
      ELSE [array |-> rt.array, map |-> Restrict(rt.map, Live(rt)),
            cap |-> IF additional <= rt.cap - live THEN rt.cap
                    ELSE MapCapacity(Max({live + additional, rt.cap + 1}))]

\* The keys that the array part could hold, with a new one.
Candidates(rt, i) ==
  ({j \in DOMAIN rt.array : rt.array[j] # Nil}
     \cup {ArrayIndex(rt.map[b].key) : b \in Live(rt)} \cup {i}) \ {0}

\* The largest power of two such that more than half of the places up to it,
\* and one in its upper half, are used.
OptimalSize(js) ==
  Max({0} \cup {n \in {2 ^ b : b \in 0 .. IntBits} :
                 /\ n \div 2 < Cardinality(js)
                 /\ \E j \in js : j \in (n \div 2) + 1 .. n
                 /\ Cardinality({j \in js : j <= n}) > n \div 2})

\* RawTable::set, for a key that is valid.
RawSet(rt, k, v) ==
  LET i    == ArrayIndex(k)
      b    == Bucket(rt, k)
      e    == [key |-> CanonicalKey(k), dead |-> FALSE, v |-> v]
      size == OptimalSize(Candidates(rt, i))
      more == ReserveMap(rt, Max({MapLen(rt), 1}))
  IN  IF i \in DOMAIN rt.array THEN [rt EXCEPT !.array[i] = v]
      ELSE IF v = Nil THEN IF b = 0 THEN rt ELSE [rt EXCEPT !.map[b] = Kill(@)]
      ELSE IF b # 0 THEN [rt EXCEPT !.map[b] = e]
      ELSE IF MapLen(rt) < rt.cap THEN [rt EXCEPT !.map = InsertNoGrow(@, e)]
      ELSE IF i # 0 /\ size >= i THEN [GrowArray(rt, size - Len(rt.array)) EXCEPT !.array[i] = v]
      ELSE [more EXCEPT !.map = InsertNoGrow(@, e)]

\* The binary search of length, from min to max: t[max] is nil, and min is 0 or
\* t[min] is not nil.
SearchBorder(rt, min, max) ==
  LET border[s \in (min .. max) \X (min .. max)] ==
        LET lo == s[1]
            hi == s[2]
            mid == lo + (hi - lo) \div 2
        IN  IF hi - lo <= 1 THEN lo
            ELSE IF RawGet(rt, Integer(mid)) = Nil THEN border[<<lo, mid>>] ELSE border[<<mid, hi>>]
  IN  border[<<min, max>>]

\* Doubling until an entry is nil; 0 when the largest integer is not.
NilFrom(rt, i) ==
  LET nil[m \in 1 .. MaxInt] ==
        IF RawGet(rt, Integer(m)) = Nil THEN m
        ELSE IF m = MaxInt THEN 0 ELSE nil[Min({2 * m, MaxInt})]
  IN  nil[i]

\* RawTable::length
RawLength(rt) ==
  LET n  == Len(rt.array)
      hi == NilFrom(rt, n + 1)
  IN  IF n > 0 /\ rt.array[n] = Nil THEN SearchBorder(rt, 0, n)
      ELSE IF rt.map = <<>> THEN n
      ELSE IF hi = 0 THEN MaxInt ELSE SearchBorder(rt, n, hi)

\* RawTable::next: the array part first, then the buckets.  Any index of the
\* array part will do, and a key that was removed still has its bucket.
NotFound == -1
Position(rt, k) ==
  CASE k = Nil -> 0
    [] ArrayIndex(k) \in DOMAIN rt.array -> ArrayIndex(k)
    [] OTHER -> IF Bucket(rt, k) = 0 THEN NotFound ELSE Len(rt.array) + Bucket(rt, k)
Positions(rt) == 1 .. Len(rt.array) \cup {Len(rt.array) + b : b \in DOMAIN rt.map}
Entry(rt, p) ==
  IF p <= Len(rt.array) THEN [key |-> Integer(p), dead |-> FALSE, v |-> rt.array[p]]
  ELSE rt.map[p - Len(rt.array)]
\* The position of the next entry; 0 behind the last one.
NextPosition(rt, p) ==
  LET later == {q \in Positions(rt) : q > p /\ Entry(rt, q).v # Nil}
  IN  IF later = {} THEN 0 ELSE Min(later)

-----------------------------------------------------------------------------
(* What the code relies on *)

\* An entry has one place: a key that the array part has a place for is not in
\* the map, and no key has two buckets.
OnePlace(rt) ==
  /\ \A b \in DOMAIN rt.map : ArrayIndex(rt.map[b].key) \notin DOMAIN rt.array
  /\ \A b, c \in DOMAIN rt.map : rt.map[b].key = rt.map[c].key => b = c

\* length is a border, and next leads from nil through every entry.
LengthIsBorder(rt) ==
  LET n == RawLength(rt)
  IN  /\ n = 0 \/ RawGet(rt, Integer(n)) # Nil
      /\ n = MaxInt \/ RawGet(rt, Integer(n + 1)) = Nil

\* The expectations of set, next and grow_array: a dead key has no value.
DeadIsNil(rt) == \A b \in DOMAIN rt.map : rt.map[b].dead => rt.map[b].v = Nil

\* All of it: nil is no key, and the map holds no more than it has room for.
ReliedOn(rt) ==
  /\ OnePlace(rt) /\ DeadIsNil(rt) /\ LengthIsBorder(rt)
  /\ MapLen(rt) <= rt.cap
  /\ \A b \in DOMAIN rt.map : ValidKey(rt.map[b].key)

=============================================================================
