---------------------------- MODULE TablesProofs ----------------------------
(***************************************************************************)
(* What a table promises, for every content and every width of integers.   *)
(*                                                                         *)
(* WellFormed is what the operations of Tables rely on and keep: every key *)
(* has one place, a dead key has no value, and the map holds no more than  *)
(* its capacity.  Growing either part moves entries between places and     *)
(* must not change what any key reads; that is the bulk of the work.       *)
(***************************************************************************)
EXTENDS Tables, FiniteSetTheorems, WellFoundedInduction, TLAPS

\* A value that may be a key; its number is one of the type's.
IsKey(k) ==
    /\ k # Nil
    /\ IsInt(k) => k = Integer(k.n) /\ k.n \in MinInt .. MaxInt
    /\ k.t = "num" => k.n \in Int

IsEntry(e) ==
    /\ e = [key |-> e.key, dead |-> e.dead, v |-> e.v]
    /\ IsKey(e.key) /\ CanonicalKey(e.key) = e.key
    /\ e.dead => e.v = Nil

\* The array part a, the map m and its capacity c.
IsArray(a) == \E S : a \in Seq(S)
IsMap(m) ==
    /\ m = [b \in DOMAIN m |-> m[b]]
    /\ DOMAIN m \subseteq Nat \ {0} /\ IsFiniteSet(DOMAIN m)
    /\ \A b \in DOMAIN m : IsEntry(m[b])
    /\ \A b, d \in DOMAIN m : m[b].key = m[d].key => b = d
Parts(a, m, c) ==
    /\ IsArray(a) /\ IsMap(m)
    /\ \A b \in DOMAIN m : ArrayIndex(m[b].key) \notin DOMAIN a
    /\ c \in Nat /\ Cardinality(DOMAIN m) <= c

TableOf(a, m, c) == [array |-> a, map |-> m, cap |-> c]
WellFormed(rt) == \E a, m, c : Parts(a, m, c) /\ rt = TableOf(a, m, c)

\* Hashbrown's table of sizes reaches far enough for one more growth.
Room(rt) == 2 * rt.cap + 1 <= 7 * 2 ^ IntBits

-----------------------------------------------------------------------------
(* Least and greatest members *)

(* A set of natural numbers that is not empty has a least member. *)
LEMMA LeastMember ==
  ASSUME NEW S \in SUBSET Nat, S # {}
  PROVE  Min(S) \in S /\ \A y \in S : Min(S) <= y
<1>1. PICK R : IsWellFoundedOn(R, Nat) /\ \A x, y \in Nat : x < y => <<x, y>> \in R
  <2>1. \A x, y \in Nat : x < y => <<x, y>> \in OpToRel(<, Nat)
    BY DEF OpToRel
  <2>2. IsWellFoundedOn(OpToRel(<, Nat), Nat)
    BY NatLessThanWellFounded, Zenon
  <2> WITNESS OpToRel(<, Nat)
  <2> QED BY <2>1, <2>2, Zenon
<1>2. PICK x \in S : \A y \in S : ~ (<<y, x>> \in R)
  <2>1. S \subseteq Nat /\ S # {} /\ IsWellFoundedOn(R, Nat)
    BY <1>1, Zenon
  <2> QED BY ONLY <2>1, WFMin, Zenon
<1>3. \A y \in S : ~ (y < x)
  <2>1. \A y \in S : y \in Nat
    OBVIOUS
  <2> QED BY <1>1, <1>2, <2>1, Zenon
<1>4. \A y \in S : x <= y
  BY <1>3
<1> QED BY <1>4 DEF Min

HasGreatest(S) == \E x \in S : \A y \in S : x >= y

(* A finite one that is not empty has a greatest: of two sets, one a member *)
(* smaller, take the greater of the member and the smaller set's greatest.  *)
LEMMA FiniteHasGreatest ==
  ASSUME NEW S \in SUBSET Nat, S # {}, IsFiniteSet(S)
  PROVE  HasGreatest(S)
<1> DEFINE Bad(T) == T \in SUBSET Nat /\ T # {} /\ IsFiniteSet(T) /\ ~ HasGreatest(T)
           C == {n \in Nat : \E T : Bad(T) /\ Cardinality(T) = n}
<1>1. SUFFICES ASSUME C # {} PROVE FALSE
  <2>1. SUFFICES ASSUME Bad(S) PROVE C # {}
    BY <1>1
  <2>2. Cardinality(S) \in Nat
    BY FS_CardinalityType
  <2> QED BY <2>1, <2>2
<1>2. PICK n \in C : \A y \in C : n <= y
  <2>1. C \in SUBSET Nat
    OBVIOUS
  <2> HIDE DEF C
  <2> QED BY <1>1, <2>1, LeastMember
<1>3. PICK T : Bad(T) /\ Cardinality(T) = n
  BY <1>2
<1>4. PICK x \in T : TRUE
  BY <1>3
<1> DEFINE U == T \ {x}
<1>5. IsFiniteSet(U) /\ Cardinality(U) = n - 1 /\ U \in SUBSET Nat /\ n - 1 \in Nat
  <2>1. IsFiniteSet(U) /\ Cardinality(U) = n - 1
    BY <1>3, <1>4, FS_RemoveElement
  <2>2. Cardinality(U) \in Nat
    BY <2>1, FS_CardinalityType
  <2> QED BY <1>3, <2>1, <2>2
<1>6. ~ Bad(U)
  BY <1>2, <1>5
<1>7. CASE U = {}
  BY <1>3, <1>4, <1>7 DEF HasGreatest
<1>8. CASE HasGreatest(U)
  <2>1. PICK y \in U : \A z \in U : y >= z
    BY <1>8 DEF HasGreatest
  <2>2. x \in Nat /\ y \in Nat /\ \A z \in T : z = x \/ z \in U
    BY <1>3, <1>4, <1>5, <2>1
  <2>3. CASE x >= y
    <3>1. \A z \in T : x >= z
      BY <1>3, <2>1, <2>2, <2>3
    <3> QED BY <1>3, <1>4, <3>1 DEF HasGreatest
  <2>4. CASE y >= x
    <3>1. \A z \in T : y >= z
      BY <1>3, <2>1, <2>2, <2>4
    <3> QED BY <1>3, <2>1, <3>1 DEF HasGreatest
  <2> QED BY <2>2, <2>3, <2>4
<1> QED BY <1>5, <1>6, <1>7, <1>8

LEMMA GreatestMember ==
  ASSUME NEW S \in SUBSET Nat, S # {}, IsFiniteSet(S)
  PROVE  Max(S) \in S /\ \A y \in S : Max(S) >= y
BY FiniteHasGreatest DEF HasGreatest, Max

(* The greatest of two or three numbers *)
LEMMA MaxOfThree ==
  ASSUME NEW l \in Nat, NEW m \in Nat, NEW n \in Nat
  PROVE  /\ Max({l, m, n}) \in Nat
         /\ Max({l, m, n}) >= l /\ Max({l, m, n}) >= m /\ Max({l, m, n}) >= n
         /\ Max({l, m, n}) \in {l, m, n}
<1>1. IsFiniteSet({l, m, n})
  <2>1. \E x \in {l, m, n} : \A y \in {l, m, n} : y <= x
    OBVIOUS
  <2> QED BY <2>1, FS_BoundedSetOfNaturals
<1> HIDE DEF Max
<1> QED BY <1>1, GreatestMember

LEMMA MaxOfTwo ==
  ASSUME NEW m \in Nat, NEW n \in Nat
  PROVE  Max({m, n}) \in Nat /\ Max({m, n}) >= m /\ Max({m, n}) >= n /\ Max({m, n}) \in {m, n}
<1>1. {m, n} = {m, m, n}
  OBVIOUS
<1> QED BY <1>1, MaxOfThree

-----------------------------------------------------------------------------
(* Keys *)

LEMMA Widths ==
  /\ MaxInt \in Nat /\ MinInt \in Int /\ MinInt = - MaxInt - 1
  /\ \A i \in 0 .. IntBits : 2 ^ i \in Nat \ {0}
<1>1. \A i \in 0 .. IntBits : 2 ^ i \in Nat \ {0}
  BY WidthAssumption
<1>2. IntBits - 1 \in 0 .. IntBits
  BY WidthAssumption
<1>3. 2 ^ (IntBits - 1) \in Nat \ {0}
  BY <1>1, <1>2
<1>4. MaxInt \in Nat
  BY <1>3 DEF MaxInt
<1> QED BY <1>1, <1>4 DEF MinInt

(* The canonical form of a key is a key, and canonical. *)
LEMMA CanonicalFacts ==
  ASSUME NEW k, IsKey(k)
  PROVE  /\ IsKey(CanonicalKey(k))
         /\ CanonicalKey(CanonicalKey(k)) = CanonicalKey(k)
<1> USE Widths
<1>1. CASE k.t = "num" /\ k.n \in MinInt .. MaxInt
  <2>1. CanonicalKey(k) = Integer(k.n)
    BY <1>1 DEF CanonicalKey
  <2> QED BY <1>1, <2>1 DEF CanonicalKey, IsKey, Integer, IsInt, Nil
<1>2. CASE k.t = "num" /\ k.n = MaxInt + 1
  <2>1. CanonicalKey(k) = Integer(MaxInt)
    BY <1>2 DEF CanonicalKey
  <2> QED BY <1>2, <2>1 DEF CanonicalKey, IsKey, Integer, IsInt, Nil
<1>3. CASE ~ (k.t = "num" /\ k.n \in MinInt .. MaxInt) /\ ~ (k.t = "num" /\ k.n = MaxInt + 1)
  <2>1. CanonicalKey(k) = k
    BY <1>3 DEF CanonicalKey
  <2> QED BY <2>1
<1> QED BY <1>1, <1>2, <1>3

(* A key with a place in the array part is the integer of that place. *)
LEMMA IndexFacts ==
  ASSUME NEW k, IsKey(k)
  PROVE  /\ ArrayIndex(k) \in 0 .. MaxInt
         /\ ArrayIndex(CanonicalKey(k)) = ArrayIndex(k)
         /\ ArrayIndex(k) # 0 => CanonicalKey(k) = Integer(ArrayIndex(k))
<1> DEFINE c == CanonicalKey(k)
<1>1. IsKey(c) /\ CanonicalKey(c) = c
  BY CanonicalFacts
<1>2. ArrayIndex(c) = ArrayIndex(k) /\ ArrayIndex(k) = IF IsInt(c) /\ c.n > 0 THEN c.n ELSE 0
  BY <1>1 DEF ArrayIndex
<1> HIDE DEF c
<1>3. IsInt(c) => c = Integer(c.n) /\ c.n \in MinInt .. MaxInt
  BY <1>1 DEF IsKey
<1>4. ArrayIndex(k) \in 0 .. MaxInt /\ (ArrayIndex(k) # 0 => c = Integer(ArrayIndex(k)))
  BY <1>2, <1>3, Widths
<1> QED BY <1>2, <1>4 DEF c

(* Positive integers are canonical and are their own places. *)
LEMMA PlaceFacts ==
  ASSUME NEW i \in Nat \ {0}
  PROVE  CanonicalKey(Integer(i)) = Integer(i) /\ ArrayIndex(Integer(i)) = i
<1>1. CanonicalKey(Integer(i)) = Integer(i)
  BY DEF CanonicalKey, Integer
<1> QED BY <1>1 DEF ArrayIndex, IsInt, Integer

-----------------------------------------------------------------------------
(* Reading *)

LEMMA ArrayFacts ==
  ASSUME NEW a, IsArray(a)
  PROVE  /\ Len(a) \in Nat /\ DOMAIN a = 1 .. Len(a)
         /\ a = [i \in 1 .. Len(a) |-> a[i]]
BY DEF IsArray

(* A function on the first n numbers is an array of length n. *)
LEMMA ArrayOf ==
  ASSUME NEW n \in Nat, NEW a, a = [i \in 1 .. n |-> a[i]]
  PROVE  IsArray(a) /\ Len(a) = n /\ DOMAIN a = 1 .. n
<1>1. a \in Seq({a[i] : i \in 1 .. n}) /\ Len(a) = n
  OBVIOUS
<1>2. IsArray(a)
  BY <1>1, Zenon DEF IsArray
<1> QED BY <1>1, <1>2

(* An array with one element replaced *)
LEMMA ArrayExcept ==
  ASSUME NEW a, IsArray(a), NEW i \in DOMAIN a, NEW v
  PROVE  /\ IsArray([a EXCEPT ![i] = v])
         /\ DOMAIN [a EXCEPT ![i] = v] = DOMAIN a /\ Len([a EXCEPT ![i] = v]) = Len(a)
         /\ \A j \in DOMAIN a : [a EXCEPT ![i] = v][j] = IF j = i THEN v ELSE a[j]
<1> DEFINE r == [a EXCEPT ![i] = v]
<1>1. Len(a) \in Nat /\ DOMAIN a = 1 .. Len(a)
  BY ArrayFacts
<1>2. DOMAIN r = DOMAIN a /\ \A j \in DOMAIN a : r[j] = IF j = i THEN v ELSE a[j]
  OBVIOUS
<1>3. r = [j \in 1 .. Len(a) |-> r[j]]
  BY <1>1
<1> HIDE DEF r
<1>4. IsArray(r) /\ Len(r) = Len(a)
  BY <1>1, <1>3, ArrayOf
<1> QED BY <1>2, <1>4 DEF r

(* What a key reads: its element, or else the value of its bucket, or else nil. *)
LEMMA ReadArray ==
  ASSUME NEW a, NEW m, NEW c, NEW k, ArrayIndex(k) \in DOMAIN a
  PROVE  RawGet(TableOf(a, m, c), k) = a[ArrayIndex(k)]
BY DEF RawGet, TableOf

LEMMA ReadBucket ==
  ASSUME NEW a, NEW m, NEW c, NEW k, ArrayIndex(k) \notin DOMAIN a, Parts(a, m, c),
         NEW b \in DOMAIN m, m[b].key = CanonicalKey(k)
  PROVE  /\ RawGet(TableOf(a, m, c), k) = m[b].v
         /\ Bucket(TableOf(a, m, c), k) = b
<1>1. Buckets(TableOf(a, m, c), k) = {b}
  BY DEF Buckets, TableOf, Parts, IsMap
<1>2. Bucket(TableOf(a, m, c), k) = b
  BY <1>1 DEF Bucket
<1>3. b # 0
  BY DEF Parts, IsMap
<1> QED BY <1>2, <1>3 DEF RawGet, TableOf

LEMMA ReadNothing ==
  ASSUME NEW a, NEW m, NEW c, NEW k, ArrayIndex(k) \notin DOMAIN a,
         \A b \in DOMAIN m : m[b].key # CanonicalKey(k)
  PROVE  /\ RawGet(TableOf(a, m, c), k) = Nil
         /\ Bucket(TableOf(a, m, c), k) = 0
<1>1. Buckets(TableOf(a, m, c), k) = {}
  BY DEF Buckets, TableOf
<1>2. Bucket(TableOf(a, m, c), k) = 0
  BY <1>1 DEF Bucket
<1> QED BY <1>2 DEF RawGet, TableOf

(* The bucket that is found, when one is *)
LEMMA BucketFound ==
  ASSUME NEW a, NEW m, NEW c, Parts(a, m, c), NEW k
  PROVE  LET b == Bucket(TableOf(a, m, c), k)
         IN  IF b = 0 THEN \A d \in DOMAIN m : m[d].key # CanonicalKey(k)
             ELSE b \in DOMAIN m /\ m[b].key = CanonicalKey(k)
<1> DEFINE B == Buckets(TableOf(a, m, c), k)
<1>1. B = {d \in DOMAIN m : m[d].key = CanonicalKey(k)}
  BY DEF Buckets, TableOf
<1>2. 0 \notin DOMAIN m
  BY DEF Parts, IsMap
<1> QED BY <1>1, <1>2 DEF Bucket

(* Two keys with one canonical form read the same. *)
LEMMA ReadCanonical ==
  ASSUME NEW rt, NEW k, NEW k2, IsKey(k), IsKey(k2), CanonicalKey(k) = CanonicalKey(k2)
  PROVE  RawGet(rt, k) = RawGet(rt, k2)
<1>1. ArrayIndex(k) = ArrayIndex(k2)
  BY IndexFacts
<1>2. Bucket(rt, k) = Bucket(rt, k2)
  BY DEF Bucket, Buckets
<1> QED BY <1>1, <1>2 DEF RawGet

-----------------------------------------------------------------------------
(* The map part *)

LEMMA MapRestrict ==
  ASSUME NEW m, IsMap(m), NEW B \in SUBSET DOMAIN m
  PROVE  LET r == Restrict(m, B)
         IN  /\ IsMap(r) /\ DOMAIN r = B /\ \A b \in B : r[b] = m[b]
             /\ Cardinality(B) \in Nat /\ Cardinality(B) <= Cardinality(DOMAIN m)
             /\ Cardinality(DOMAIN m) \in Nat
<1> DEFINE r == Restrict(m, B)
<1>1. DOMAIN r = B /\ (\A b \in B : r[b] = m[b]) /\ r = [b \in DOMAIN r |-> r[b]]
  BY DEF Restrict
<1>2. IsFiniteSet(DOMAIN m)
  BY DEF IsMap
<1>3. IsFiniteSet(B) /\ Cardinality(B) <= Cardinality(DOMAIN m)
  BY <1>2, FS_Subset
<1>4. Cardinality(B) \in Nat /\ Cardinality(DOMAIN m) \in Nat
  BY <1>2, <1>3, FS_CardinalityType
<1> HIDE DEF r
<1>5. IsMap(r)
  BY <1>1, <1>3 DEF IsMap
<1> QED BY <1>1, <1>3, <1>4, <1>5 DEF r

LEMMA MapInsert ==
  ASSUME NEW m, IsMap(m), NEW e, IsEntry(e), \A b \in DOMAIN m : m[b].key # e.key
  PROVE  LET r == InsertNoGrow(m, e)
         IN  /\ IsMap(r) /\ Cardinality(DOMAIN r) = Cardinality(DOMAIN m) + 1
             /\ \E new \in Nat \ DOMAIN m :
                   /\ DOMAIN r = DOMAIN m \cup {new} /\ r[new] = e
                   /\ \A b \in DOMAIN m : r[b] = m[b]
<1> DEFINE r == InsertNoGrow(m, e)
           last == Max({0} \cup DOMAIN m)
           new == last + 1
<1>1. DOMAIN m \subseteq Nat \ {0} /\ IsFiniteSet(DOMAIN m)
  BY DEF IsMap
<1>2. last \in Nat /\ \A b \in DOMAIN m : last >= b
  <2>1. IsFiniteSet(DOMAIN m \cup {0})
    BY <1>1, FS_AddElement
  <2>2. DOMAIN m \cup {0} = {0} \cup DOMAIN m
    OBVIOUS
  <2>3. {0} \cup DOMAIN m \in SUBSET Nat /\ {0} \cup DOMAIN m # {} /\ IsFiniteSet({0} \cup DOMAIN m)
    BY <1>1, <2>1, <2>2
  <2>4. last \in {0} \cup DOMAIN m /\ \A y \in {0} \cup DOMAIN m : last >= y
    BY <2>3, GreatestMember
  <2> HIDE DEF last
  <2> QED BY <1>1, <2>4
<1>3. new \in Nat /\ new # 0 /\ new \notin DOMAIN m
  <2> HIDE DEF last
  <2> QED BY <1>1, <1>2
<1>4. r = [b \in DOMAIN m \cup {new} |-> IF b = new THEN e ELSE m[b]]
  BY DEF InsertNoGrow
<1> HIDE DEF r, new
<1>5. DOMAIN r = DOMAIN m \cup {new} /\ r[new] = e /\ \A b \in DOMAIN m : r[b] = m[b]
  BY <1>3, <1>4
<1>6. IsFiniteSet(DOMAIN r) /\ Cardinality(DOMAIN r) = Cardinality(DOMAIN m) + 1
  BY <1>1, <1>3, <1>5, FS_AddElement
<1>7. IsMap(r)
  <2>1. r = [b \in DOMAIN r |-> r[b]]
    BY <1>4
  <2>2. \A b \in DOMAIN r : IsEntry(r[b])
    BY <1>5 DEF IsMap
  <2>3. \A b, d \in DOMAIN r : r[b].key = r[d].key => b = d
    BY <1>5 DEF IsMap
  <2> QED BY <1>1, <1>3, <1>5, <1>6, <2>1, <2>2, <2>3 DEF IsMap
<1> QED BY <1>3, <1>5, <1>6, <1>7 DEF r

LEMMA MapReplace ==
  ASSUME NEW m, IsMap(m), NEW d \in DOMAIN m, NEW e, IsEntry(e), e.key = m[d].key
  PROVE  LET r == [m EXCEPT ![d] = e]
         IN  /\ IsMap(r) /\ DOMAIN r = DOMAIN m
             /\ \A b \in DOMAIN m : r[b] = IF b = d THEN e ELSE m[b]
<1> DEFINE r == [m EXCEPT ![d] = e]
<1>1. /\ DOMAIN r = DOMAIN m /\ r = [b \in DOMAIN r |-> r[b]]
      /\ \A b \in DOMAIN m : r[b] = IF b = d THEN e ELSE m[b]
  <2>1. m = [b \in DOMAIN m |-> m[b]]
    BY DEF IsMap
  <2> QED BY <2>1
<1> HIDE DEF r
<1>2. \A b \in DOMAIN r : IsEntry(r[b]) /\ r[b].key = m[b].key
  BY <1>1 DEF IsMap
<1>3. IsMap(r)
  BY <1>1, <1>2 DEF IsMap
<1> QED BY <1>1, <1>3 DEF r

(* Killing an entry leaves its key, without a value. *)
LEMMA KillFacts ==
  ASSUME NEW e, IsEntry(e)
  PROVE  IsEntry(Kill(e)) /\ Kill(e).key = e.key /\ Kill(e).v = Nil
<1> DEFINE key == e.key
           gone == key.t \notin {"bool", "int", "num", "opaque"}
           r == [key |-> key, dead |-> gone, v |-> Nil]
<1>1. IsKey(key) /\ CanonicalKey(key) = key
  BY DEF IsEntry
<1>2. Kill(e) = r
  BY DEF Kill
<1> HIDE DEF key, gone
<1>3. r.key = key /\ r.v = Nil /\ r = [key |-> r.key, dead |-> r.dead, v |-> r.v]
  OBVIOUS
<1> HIDE DEF r
<1>4. IsEntry(r)
  BY <1>1, <1>3 DEF IsEntry
<1> QED BY <1>2, <1>3, <1>4 DEF key

LEMMA EntryFacts ==
  ASSUME NEW k, IsKey(k), NEW v
  PROVE  LET e == [key |-> CanonicalKey(k), dead |-> FALSE, v |-> v]
         IN  IsEntry(e) /\ e.key = CanonicalKey(k) /\ e.v = v
<1> DEFINE c == CanonicalKey(k)
           e == [key |-> c, dead |-> FALSE, v |-> v]
<1>1. IsKey(c) /\ CanonicalKey(c) = c
  BY CanonicalFacts
<1> HIDE DEF c
<1>2. e.key = c /\ e.v = v /\ ~ e.dead /\ e = [key |-> e.key, dead |-> e.dead, v |-> e.v]
  OBVIOUS
<1> HIDE DEF e
<1>3. IsEntry(e)
  BY <1>1, <1>2 DEF IsEntry
<1> QED BY <1>2, <1>3 DEF e, c

-----------------------------------------------------------------------------
(* Growing *)

\* Every key reads in r what it reads in rt.
SameReads(rt, r) == \A k : IsKey(k) => RawGet(r, k) = RawGet(rt, k)

(* A key that no array part has a place for reads the same after buckets of *)
(* other keys, and buckets without a value, have gone. *)
LEMMA ReadRestricted ==
  ASSUME NEW a, NEW m, NEW c, Parts(a, m, c), NEW z, NEW r, NEW d, Parts(z, r, d),
         DOMAIN r \subseteq DOMAIN m, \A b \in DOMAIN r : r[b] = m[b],
         NEW k, IsKey(k), ArrayIndex(k) \notin DOMAIN a, ArrayIndex(k) \notin DOMAIN z,
         \A b \in DOMAIN m \ DOMAIN r : m[b].key = CanonicalKey(k) => m[b].v = Nil
  PROVE  RawGet(TableOf(z, r, d), k) = RawGet(TableOf(a, m, c), k)
<1>1. CASE \E b \in DOMAIN r : m[b].key = CanonicalKey(k)
  <2>1. PICK b \in DOMAIN r : m[b].key = CanonicalKey(k)
    BY <1>1
  <2>2. RawGet(TableOf(a, m, c), k) = m[b].v
    BY <2>1, ReadBucket
  <2>3. RawGet(TableOf(z, r, d), k) = r[b].v
    BY <2>1, ReadBucket
  <2> QED BY <2>2, <2>3
<1>2. CASE \A b \in DOMAIN r : m[b].key # CanonicalKey(k)
  <2>1. RawGet(TableOf(z, r, d), k) = Nil
    BY <1>2, ReadNothing
  <2>2. CASE \A b \in DOMAIN m : m[b].key # CanonicalKey(k)
    BY <2>1, <2>2, ReadNothing
  <2>3. CASE \E b \in DOMAIN m : m[b].key = CanonicalKey(k)
    <3>1. PICK b \in DOMAIN m : m[b].key = CanonicalKey(k)
      BY <2>3
    <3>2. RawGet(TableOf(a, m, c), k) = m[b].v
      BY <3>1, ReadBucket
    <3> QED BY <1>2, <2>1, <3>1, <3>2
  <2> QED BY <2>2, <2>3
<1> QED BY <1>1, <1>2

LEMMA CapacityFacts ==
  ASSUME NEW n \in Nat, n <= 7 * 2 ^ IntBits
  PROVE  MapCapacity(n) \in Nat /\ MapCapacity(n) >= n
<1> DEFINE S == {c \in {0, 3} \cup {7 * 2 ^ i : i \in 0 .. IntBits} : c >= n}
<1>1. S \in SUBSET Nat
  BY Widths
<1>2. 7 * 2 ^ IntBits \in S
  BY WidthAssumption
<1>3. MapCapacity(n) = Min(S)
  BY DEF MapCapacity
<1>4. \A x \in S : x >= n
  OBVIOUS
<1> HIDE DEF S
<1>5. Min(S) \in S
  BY <1>1, <1>2, LeastMember
<1> QED BY <1>1, <1>3, <1>4, <1>5

LEMMA TableOfFields ==
  ASSUME NEW a, NEW m, NEW c
  PROVE  TableOf(a, m, c).array = a /\ TableOf(a, m, c).map = m /\ TableOf(a, m, c).cap = c
BY DEF TableOf

(* A longer array part takes the entries that it has places for, and the *)
(* others stay: nothing reads differently. *)
LEMMA GrowParts ==
  ASSUME NEW a, NEW m, NEW c, Parts(a, m, c), NEW n \in Nat, n >= Len(a)
  PROVE  LET rt == TableOf(a, m, c)
             z == [i \in 1 .. n |-> RawGet(rt, Integer(i))]
             r == KeptInMap(rt, n)
         IN  Parts(z, r, c) /\ SameReads(rt, TableOf(z, r, c)) /\ DOMAIN z = 1 .. n /\ Len(z) = n
<1> DEFINE rt == TableOf(a, m, c)
           z == [i \in 1 .. n |-> RawGet(rt, Integer(i))]
           r == KeptInMap(rt, n)
           B == {b \in DOMAIN m : m[b].v # Nil /\ ArrayIndex(m[b].key) \notin 1 .. n}
<1>1. r = Restrict(m, B)
  <2>1. Live(rt) = {b \in DOMAIN m : m[b].v # Nil}
    BY TableOfFields DEF Live
  <2>2. {b \in Live(rt) : ArrayIndex(rt.map[b].key) \notin 1 .. n} = B
    BY <2>1, TableOfFields
  <2>3. rt.map = m
    BY TableOfFields
  <2> HIDE DEF B, rt
  <2>4. KeptInMap(rt, n) = Restrict(rt.map, {b \in Live(rt) : ArrayIndex(rt.map[b].key) \notin 1 .. n})
    BY DEF KeptInMap
  <2>5. KeptInMap(rt, n) = Restrict(m, B)
    BY ONLY <2>2, <2>3, <2>4, Zenon
  <2> QED BY <2>5
<1>2. IsMap(m) /\ IsArray(a) /\ c \in Nat /\ Cardinality(DOMAIN m) <= c
  BY DEF Parts
<1>3. /\ IsMap(r) /\ DOMAIN r = B /\ (\A b \in B : r[b] = m[b]) /\ Cardinality(B) \in Nat
      /\ Cardinality(B) <= Cardinality(DOMAIN m) /\ Cardinality(DOMAIN m) \in Nat
  <2>1. B \in SUBSET DOMAIN m
    OBVIOUS
  <2> HIDE DEF B, r
  <2> QED BY <1>1, <1>2, <2>1, MapRestrict
<1> HIDE DEF r
<1>4. IsArray(z) /\ Len(z) = n /\ DOMAIN z = 1 .. n
  <2>1. z = [i \in 1 .. n |-> z[i]]
    OBVIOUS
  <2> HIDE DEF z
  <2> QED BY <2>1, ArrayOf
<1>5. Parts(z, r, c)
  <2>1. \A b \in DOMAIN r : ArrayIndex(r[b].key) \notin DOMAIN z
    BY <1>3, <1>4
  <2> HIDE DEF z, B
  <2> QED BY <1>2, <1>3, <1>4, <2>1 DEF Parts
<1>6. ASSUME NEW k, IsKey(k) PROVE RawGet(TableOf(z, r, c), k) = RawGet(rt, k)
  <2>1. CASE ArrayIndex(k) \in 1 .. n
    <3> DEFINE i == ArrayIndex(k)
    <3>1. i \in 1 .. MaxInt /\ CanonicalKey(k) = Integer(i)
      BY <1>6, <2>1, IndexFacts, Widths
    <3>2. RawGet(TableOf(z, r, c), k) = z[i]
      <4> HIDE DEF z
      <4> QED BY <1>4, <2>1, ReadArray
    <3> HIDE DEF i
    <3>3. i \in Nat \ {0} /\ CanonicalKey(Integer(i)) = Integer(i)
      BY <3>1, Widths, PlaceFacts
    <3>4. IsKey(Integer(i))
      BY <3>1, Widths DEF IsKey, Integer, IsInt, Nil
    <3>5. RawGet(rt, Integer(i)) = RawGet(rt, k)
      BY <1>6, <3>1, <3>3, <3>4, ReadCanonical
    <3>6. z[i] = RawGet(rt, Integer(i))
      <4>1. i \in 1 .. n
        BY <2>1 DEF i
      <4> HIDE DEF rt
      <4> QED BY <4>1
    <3> QED BY <3>2, <3>5, <3>6
  <2>2. CASE ArrayIndex(k) \notin 1 .. n
    <3>1. ArrayIndex(k) \notin DOMAIN a
      BY <1>2, <2>2, ArrayFacts
    <3>2. \A b \in DOMAIN m \ DOMAIN r : m[b].key = CanonicalKey(k) => m[b].v = Nil
      <4> SUFFICES ASSUME NEW b \in DOMAIN m, b \notin B, m[b].key = CanonicalKey(k)
                   PROVE  m[b].v = Nil
        BY <1>3
      <4>1. ArrayIndex(m[b].key) = ArrayIndex(k)
        BY <1>6, IndexFacts
      <4> QED BY <2>2, <4>1
    <3>3. DOMAIN r \subseteq DOMAIN m /\ \A b \in DOMAIN r : r[b] = m[b]
      BY <1>3
    <3>4. ArrayIndex(k) \notin DOMAIN z
      BY <1>4, <2>2
    <3> HIDE DEF z, B
    <3> QED BY <1>5, <1>6, <3>1, <3>2, <3>3, <3>4, ReadRestricted
  <2> QED BY <2>1, <2>2
<1>7. SameReads(rt, TableOf(z, r, c))
  BY <1>6 DEF SameReads
<1> HIDE DEF z, rt
<1> QED BY <1>4, <1>5, <1>7 DEF rt, r, z

LEMMA ArrayCapacityFacts ==
  ASSUME NEW n \in Nat, NEW additional \in Nat
  PROVE  ArrayCapacity(n, additional) \in Nat /\ ArrayCapacity(n, additional) >= n + additional
<1>1. 2 * n \in Nat /\ n + additional \in Nat /\ 4 \in Nat
  OBVIOUS
<1> DEFINE l == 2 * n
           k == n + additional
<1>2. ArrayCapacity(n, additional) = Max({l, k, 4})
  BY DEF ArrayCapacity
<1> HIDE DEF l, k
<1>3. l \in Nat /\ k \in Nat
  BY <1>1 DEF l, k
<1>4. Max({l, k, 4}) \in Nat /\ Max({l, k, 4}) >= k
  BY <1>3, MaxOfThree
<1> QED BY <1>2, <1>4 DEF k

(* Growing the array part: the table stays well formed, the array is as long *)
(* as asked for, and no key reads differently although entries move from the *)
(* map to the array and removed ones are dropped. *)
THEOREM GrowArrayCorrect ==
  ASSUME NEW rt, WellFormed(rt), NEW additional \in Nat
  PROVE  LET r == GrowArray(rt, additional)
         IN  /\ WellFormed(r) /\ SameReads(rt, r)
             /\ Len(r.array) = ArrayCapacity(Len(rt.array), additional)
             /\ Len(r.array) >= Len(rt.array) + additional
             /\ r.cap = rt.cap
<1>1. PICK a, m, c : Parts(a, m, c) /\ rt = TableOf(a, m, c)
  BY DEF WellFormed
<1> DEFINE n == ArrayCapacity(Len(a), additional)
           z == [i \in 1 .. n |-> RawGet(rt, Integer(i))]
           y == KeptInMap(rt, n)
<1>2. Len(a) \in Nat
  BY <1>1, ArrayFacts DEF Parts
<1>3. n \in Nat /\ n >= Len(a) + additional
  BY <1>2, ArrayCapacityFacts
<1>4. rt.array = a /\ rt.cap = c
  BY <1>1, TableOfFields
<1>5. GrowArray(rt, additional) = TableOf(z, y, c)
  BY <1>4 DEF GrowArray, TableOf
<1> HIDE DEF n
<1>6. Parts(z, y, c) /\ SameReads(rt, TableOf(z, y, c)) /\ Len(z) = n
  <2>1. n >= Len(a)
    BY <1>2, <1>3
  <2> QED BY <1>1, <1>3, <2>1, GrowParts
<1> HIDE DEF z, y
<1>7. WellFormed(TableOf(z, y, c)) /\ TableOf(z, y, c).array = z /\ TableOf(z, y, c).cap = c
  BY <1>6, TableOfFields DEF WellFormed
<1> QED BY <1>3, <1>4, <1>5, <1>6, <1>7 DEF n

(* try_reserve_array_through, which table.move and the constructors use: the *)
(* array part then has a place for i, and no key reads differently. *)
THEOREM ReserveThroughCorrect ==
  ASSUME NEW rt, WellFormed(rt), NEW i \in Nat
  PROVE  LET r == ReserveThrough(rt, i)
         IN  WellFormed(r) /\ SameReads(rt, r) /\ i <= Len(r.array)
<1>1. Len(rt.array) \in Nat
  BY ArrayFacts, TableOfFields DEF WellFormed, Parts
<1>2. CASE i <= Len(rt.array)
  BY <1>2 DEF ReserveThrough, SameReads
<1>3. CASE ~ (i <= Len(rt.array))
  <2> DEFINE d == i - Len(rt.array)
             r == GrowArray(rt, d)
  <2>1. d \in Nat /\ Len(rt.array) + d = i
    BY <1>1, <1>3
  <2>2. ReserveThrough(rt, i) = r
    BY <1>3 DEF ReserveThrough
  <2>3. WellFormed(r) /\ SameReads(rt, r) /\ Len(r.array) >= Len(rt.array) + d
    <3> HIDE DEF d
    <3> QED BY <2>1, GrowArrayCorrect
  <2>4. Len(r.array) >= i
    <3> HIDE DEF d, r
    <3> QED BY <2>1, <2>3
  <2>5. i <= Len(r.array)
    <3>1. Len(r.array) \in Nat
      <4> HIDE DEF r
      <4> QED BY <2>3, ArrayFacts, TableOfFields DEF WellFormed, Parts
    <3> HIDE DEF r
    <3> QED BY <2>4, <3>1
  <2> QED BY <2>2, <2>3, <2>5
<1> QED BY <1>2, <1>3

(* try_reserve_map: the map then holds `additional` more entries without *)
(* growing, and no key reads differently although removed entries go. *)
THEOREM ReserveMapCorrect ==
  ASSUME NEW rt, WellFormed(rt), NEW additional \in Nat,
         MapLen(rt) + additional <= 7 * 2 ^ IntBits, rt.cap + 1 <= 7 * 2 ^ IntBits
  PROVE  LET r == ReserveMap(rt, additional)
         IN  /\ WellFormed(r) /\ SameReads(rt, r) /\ r.array = rt.array
             /\ MapLen(r) + additional <= r.cap
             /\ DOMAIN r.map \subseteq DOMAIN rt.map /\ \A b \in DOMAIN r.map : r.map[b] = rt.map[b]
<1>1. PICK a, m, c : Parts(a, m, c) /\ rt = TableOf(a, m, c)
  BY DEF WellFormed
<1> DEFINE L == {b \in DOMAIN m : m[b].v # Nil}
           live == Cardinality(L)
           len == Cardinality(DOMAIN m)
<1>2. rt.array = a /\ rt.map = m /\ rt.cap = c /\ MapLen(rt) = len /\ Live(rt) = L
  BY <1>1, TableOfFields DEF MapLen, Live
<1>3. L \in SUBSET DOMAIN m /\ \A b \in DOMAIN m \ L : m[b].v = Nil
  OBVIOUS
<1> HIDE DEF L
<1>4. live \in Nat /\ live <= len /\ len \in Nat /\ DOMAIN Restrict(m, L) = L /\ c \in Nat
  BY <1>1, <1>3, MapRestrict DEF Parts
<1> HIDE DEF live, len
<1>5. CASE additional <= c - len
  <2>1. ReserveMap(rt, additional) = rt
    BY <1>2, <1>5 DEF ReserveMap
  <2> QED BY <1>2, <1>4, <1>5, <2>1 DEF SameReads
<1>6. ASSUME NEW d \in Nat, live + additional <= d,
             ReserveMap(rt, additional) = TableOf(a, Restrict(m, L), d)
      PROVE  LET r == ReserveMap(rt, additional)
             IN  /\ WellFormed(r) /\ SameReads(rt, r) /\ r.array = rt.array
                 /\ MapLen(r) + additional <= r.cap
                 /\ DOMAIN r.map \subseteq DOMAIN rt.map
                 /\ \A b \in DOMAIN r.map : r.map[b] = rt.map[b]
  <2> DEFINE y == Restrict(m, L)
             r == TableOf(a, y, d)
  <2>1. live <= d
    BY <1>4, <1>6
  <2>2. Parts(a, y, d) /\ SameReads(rt, r)
    <3>1. IsMap(m) /\ IsMap(y) /\ \A b \in L : y[b] = m[b]
      BY <1>1, <1>3, MapRestrict DEF Parts
    <3>2. DOMAIN y = L
      BY <1>4
    <3> HIDE DEF y
    <3>3. Parts(a, y, d)
      BY <1>1, <1>3, <2>1, <3>1, <3>2 DEF Parts, live
    <3>4. ASSUME NEW k, IsKey(k) PROVE RawGet(TableOf(a, y, d), k) = RawGet(TableOf(a, m, c), k)
      <4>1. CASE ArrayIndex(k) \in DOMAIN a
        BY <4>1, ReadArray
      <4>2. CASE ArrayIndex(k) \notin DOMAIN a
        BY <1>1, <1>3, <3>1, <3>2, <3>3, <3>4, <4>2, ReadRestricted
      <4> QED BY <4>1, <4>2
    <3> QED BY <1>1, <3>3, <3>4 DEF SameReads
  <2>3. MapLen(r) = live
    <3>1. r.map = y
      BY TableOfFields
    <3> QED BY <1>4, <3>1 DEF MapLen, live
  <2>4. r.array = a /\ r.cap = d /\ r.map = y
    BY TableOfFields
  <2>5. DOMAIN y \subseteq DOMAIN m /\ \A b \in DOMAIN y : y[b] = m[b]
    BY <1>3, <1>4 DEF Restrict
  <2> HIDE DEF y
  <2>6. WellFormed(r)
    BY <2>2 DEF WellFormed
  <2>7. ReserveMap(rt, additional) = r
    BY <1>6 DEF y
  <2> HIDE DEF r
  <2> QED BY <1>2, <1>6, <2>2, <2>3, <2>4, <2>5, <2>6, <2>7
<1>7. CASE ~ (additional <= c - len) /\ additional <= c - live
  <2>1. ReserveMap(rt, additional) = TableOf(a, Restrict(m, L), c)
    BY <1>2, <1>7 DEF ReserveMap, live, TableOf
  <2>2. live + additional <= c
    BY <1>4, <1>7
  <2> QED BY <1>4, <1>6, <2>1, <2>2
<1>8. CASE ~ (additional <= c - len) /\ ~ (additional <= c - live)
  <2> DEFINE need == live + additional
             next == c + 1
             most == Max({need, next})
             d == MapCapacity(most)
  <2>1. need \in Nat /\ next \in Nat /\ need <= 7 * 2 ^ IntBits /\ next <= 7 * 2 ^ IntBits
    BY <1>2, <1>4, WidthAssumption
  <2>2. ReserveMap(rt, additional) = TableOf(a, Restrict(m, L), d)
    BY <1>2, <1>8 DEF ReserveMap, live, TableOf
  <2> HIDE DEF need, next
  <2>3. most \in Nat /\ most >= need /\ most \in {need, next}
    BY <2>1, MaxOfTwo
  <2> HIDE DEF most
  <2>4. d \in Nat /\ d >= most
    BY <2>1, <2>3, CapacityFacts
  <2> HIDE DEF d
  <2>5. live + additional <= d
    BY <1>4, <2>1, <2>3, <2>4 DEF need
  <2> QED BY <1>6, <2>2, <2>4, <2>5
<1> QED BY <1>5, <1>7, <1>8

-----------------------------------------------------------------------------
(* Assignment *)

\* In r, the keys with the canonical form of k read v, and every other key reads
\* what it reads in rt.
Assigned(rt, r, k, v) ==
    \A j : IsKey(j) => RawGet(r, j) = IF CanonicalKey(j) = CanonicalKey(k) THEN v ELSE RawGet(rt, j)

LEMMA AssignedAfter ==
  ASSUME NEW rt, NEW r, NEW s, NEW k, NEW v, SameReads(rt, r), Assigned(r, s, k, v)
  PROVE  Assigned(rt, s, k, v)
BY DEF SameReads, Assigned

LEMMA SetElement ==
  ASSUME NEW a, NEW m, NEW c, Parts(a, m, c), NEW k, IsKey(k), NEW v, ArrayIndex(k) \in DOMAIN a
  PROVE  LET z == [a EXCEPT ![ArrayIndex(k)] = v]
         IN  Parts(z, m, c) /\ Assigned(TableOf(a, m, c), TableOf(z, m, c), k, v)
<1> DEFINE i == ArrayIndex(k)
           z == [a EXCEPT ![i] = v]
<1>1. /\ IsArray(z) /\ DOMAIN z = DOMAIN a /\ i \in DOMAIN a
      /\ \A j \in DOMAIN a : z[j] = IF j = i THEN v ELSE a[j]
  <2>1. IsArray(a) /\ i \in DOMAIN a
    BY DEF Parts
  <2> HIDE DEF i
  <2> QED BY <2>1, ArrayExcept
<1>2. i # 0
  BY <1>1, ArrayFacts DEF Parts
<1> HIDE DEF z
<1>3. Parts(z, m, c)
  BY <1>1 DEF Parts
<1>4. ASSUME NEW j, IsKey(j)
      PROVE  RawGet(TableOf(z, m, c), j) =
                IF CanonicalKey(j) = CanonicalKey(k) THEN v ELSE RawGet(TableOf(a, m, c), j)
  <2>1. CanonicalKey(j) = CanonicalKey(k) <=> ArrayIndex(j) = i
    BY <1>2, <1>4, IndexFacts
  <2>2. CASE ArrayIndex(j) \in DOMAIN a
    <3>1. RawGet(TableOf(z, m, c), j) = z[ArrayIndex(j)]
      BY <1>1, <2>2, ReadArray
    <3>2. RawGet(TableOf(a, m, c), j) = a[ArrayIndex(j)]
      BY <2>2, ReadArray
    <3> QED BY <1>1, <2>1, <2>2, <3>1, <3>2
  <2>3. CASE ArrayIndex(j) \notin DOMAIN a
    <3>1. CanonicalKey(j) # CanonicalKey(k)
      BY <1>1, <2>1, <2>3
    <3>2. RawGet(TableOf(z, m, c), j) = RawGet(TableOf(a, m, c), j)
      BY <1>1, <1>3, <1>4, <2>3, ReadRestricted
    <3> QED BY <3>1, <3>2
  <2> QED BY <2>2, <2>3
<1>5. Assigned(TableOf(a, m, c), TableOf(z, m, c), k, v)
  BY <1>4 DEF Assigned
<1> QED BY <1>3, <1>5 DEF z

(* A map r that has a bucket for k with the value v, and for every other key *)
(* what m has for it *)
LEMMA SetBucket ==
  ASSUME NEW a, NEW m, NEW c, Parts(a, m, c), NEW k, IsKey(k), NEW v,
         ArrayIndex(k) \notin DOMAIN a, NEW r, IsMap(r), Cardinality(DOMAIN r) <= c,
         NEW d \in DOMAIN r, r[d].key = CanonicalKey(k), r[d].v = v,
         DOMAIN m \subseteq DOMAIN r, DOMAIN r \subseteq DOMAIN m \cup {d},
         d \in DOMAIN m => m[d].key = CanonicalKey(k),
         \A b \in DOMAIN m : b # d => r[b] = m[b]
  PROVE  Parts(a, r, c) /\ Assigned(TableOf(a, m, c), TableOf(a, r, c), k, v)
<1>1. Parts(a, r, c)
  <2>1. ArrayIndex(r[d].key) \notin DOMAIN a
    BY IndexFacts
  <2>2. \A b \in DOMAIN r : ArrayIndex(r[b].key) \notin DOMAIN a
    BY <2>1 DEF Parts
  <2> QED BY <2>2 DEF Parts
<1>2. ASSUME NEW j, IsKey(j)
      PROVE  RawGet(TableOf(a, r, c), j) =
                IF CanonicalKey(j) = CanonicalKey(k) THEN v ELSE RawGet(TableOf(a, m, c), j)
  <2>1. CASE CanonicalKey(j) = CanonicalKey(k)
    <3>1. ArrayIndex(j) \notin DOMAIN a
      <4>1. ArrayIndex(j) = ArrayIndex(k)
        BY <1>2, <2>1, IndexFacts
      <4> QED BY <4>1
    <3>2. RawGet(TableOf(a, r, c), j) = r[d].v
      BY <1>1, <2>1, <3>1, ReadBucket
    <3> QED BY <2>1, <3>2
  <2>2. CASE CanonicalKey(j) # CanonicalKey(k) /\ ArrayIndex(j) \in DOMAIN a
    BY <2>2, ReadArray
  <2>3. CASE CanonicalKey(j) # CanonicalKey(k) /\ ArrayIndex(j) \notin DOMAIN a
    <3>1. CASE \E b \in DOMAIN m : m[b].key = CanonicalKey(j)
      <4>1. PICK b \in DOMAIN m : m[b].key = CanonicalKey(j)
        BY <3>1
      <4>2. b # d /\ r[b] = m[b] /\ b \in DOMAIN r
        BY <2>3, <4>1
      <4>3. RawGet(TableOf(a, m, c), j) = m[b].v
        BY <2>3, <4>1, ReadBucket
      <4>4. RawGet(TableOf(a, r, c), j) = r[b].v
        BY <1>1, <2>3, <4>1, <4>2, ReadBucket
      <4> QED BY <2>3, <4>2, <4>3, <4>4
    <3>2. CASE \A b \in DOMAIN m : m[b].key # CanonicalKey(j)
      <4>1. \A b \in DOMAIN r : r[b].key # CanonicalKey(j)
        BY <2>3, <3>2
      <4>2. RawGet(TableOf(a, m, c), j) = Nil
        BY <2>3, <3>2, ReadNothing
      <4>3. RawGet(TableOf(a, r, c), j) = Nil
        BY <2>3, <4>1, ReadNothing
      <4> QED BY <2>3, <4>2, <4>3
    <3> QED BY <3>1, <3>2
  <2> QED BY <2>1, <2>2, <2>3
<1> QED BY <1>1, <1>2 DEF Assigned

LEMMA SetInBucket ==
  ASSUME NEW a, NEW m, NEW c, Parts(a, m, c), NEW k, IsKey(k), NEW v,
         ArrayIndex(k) \notin DOMAIN a, NEW d \in DOMAIN m, m[d].key = CanonicalKey(k),
         NEW e, IsEntry(e), e.key = CanonicalKey(k), e.v = v
  PROVE  LET r == [m EXCEPT ![d] = e]
         IN  Parts(a, r, c) /\ Assigned(TableOf(a, m, c), TableOf(a, r, c), k, v)
<1> DEFINE r == [m EXCEPT ![d] = e]
<1>1. /\ IsMap(r) /\ DOMAIN r = DOMAIN m
      /\ \A b \in DOMAIN m : r[b] = IF b = d THEN e ELSE m[b]
  BY MapReplace DEF Parts
<1> HIDE DEF r
<1>2. Cardinality(DOMAIN r) <= c
  BY <1>1 DEF Parts
<1>3. d \in DOMAIN r /\ r[d].key = CanonicalKey(k) /\ r[d].v = v
  BY <1>1
<1>4. Parts(a, r, c) /\ Assigned(TableOf(a, m, c), TableOf(a, r, c), k, v)
  BY <1>1, <1>2, <1>3, SetBucket
<1> QED BY <1>4 DEF r

LEMMA SetInNewBucket ==
  ASSUME NEW a, NEW m, NEW c, Parts(a, m, c), NEW k, IsKey(k), NEW v,
         ArrayIndex(k) \notin DOMAIN a, \A b \in DOMAIN m : m[b].key # CanonicalKey(k),
         NEW e, IsEntry(e), e.key = CanonicalKey(k), e.v = v, Cardinality(DOMAIN m) < c
  PROVE  LET r == InsertNoGrow(m, e)
         IN  Parts(a, r, c) /\ Assigned(TableOf(a, m, c), TableOf(a, r, c), k, v)
<1> DEFINE r == InsertNoGrow(m, e)
<1>1. /\ IsMap(m) /\ c \in Nat /\ Cardinality(DOMAIN m) \in Nat
      /\ \A b \in DOMAIN m : m[b].key # e.key
  BY FS_CardinalityType DEF Parts, IsMap
<1>2. /\ IsMap(r) /\ Cardinality(DOMAIN r) = Cardinality(DOMAIN m) + 1
      /\ \E new \in Nat \ DOMAIN m :
            /\ DOMAIN r = DOMAIN m \cup {new} /\ r[new] = e
            /\ \A b \in DOMAIN m : r[b] = m[b]
  BY ONLY IsEntry(e), <1>1, MapInsert
<1> HIDE DEF r
<1>3. PICK new \in Nat \ DOMAIN m :
            /\ DOMAIN r = DOMAIN m \cup {new} /\ r[new] = e
            /\ \A b \in DOMAIN m : r[b] = m[b]
  BY <1>2
<1>4. Cardinality(DOMAIN r) <= c
  BY <1>1, <1>2
<1>5. Parts(a, r, c) /\ Assigned(TableOf(a, m, c), TableOf(a, r, c), k, v)
  BY <1>2, <1>3, <1>4, SetBucket
<1> QED BY <1>5 DEF r

LEMMA OptimalSizeType ==
  ASSUME NEW js
  PROVE  OptimalSize(js) \in Nat
<1> DEFINE P == {2 ^ b : b \in 0 .. IntBits}
           S == {0} \cup {n \in P : /\ n \div 2 < Cardinality(js)
                                    /\ \E j \in js : j \in (n \div 2) + 1 .. n
                                    /\ Cardinality({j \in js : j <= n}) > n \div 2}
<1>1. IsFiniteSet(P) /\ P \in SUBSET Nat
  <2> DEFINE f == [b \in 0 .. IntBits |-> 2 ^ b]
  <2>1. f \in Surjection(0 .. IntBits, P)
    BY DEF Surjection
  <2>2. IsFiniteSet(0 .. IntBits)
    BY WidthAssumption, FS_Interval
  <2>3. P \in SUBSET Nat
    BY Widths
  <2> HIDE DEF f, P
  <2> QED BY <2>1, <2>2, <2>3, FS_Surjection
<1>2. OptimalSize(js) = Max(S)
  BY DEF OptimalSize
<1>3. S \subseteq P \cup {0} /\ S # {}
  OBVIOUS
<1> HIDE DEF S, P
<1>4. IsFiniteSet(P \cup {0})
  BY <1>1, FS_AddElement
<1>5. IsFiniteSet(S) /\ S \in SUBSET Nat
  <2>1. S \in SUBSET (P \cup {0})
    BY <1>3
  <2>2. IsFiniteSet(S)
    BY ONLY <1>4, <2>1, FS_Subset
  <2>3. P \cup {0} \subseteq Nat
    BY <1>1
  <2> QED BY ONLY <2>1, <2>2, <2>3
<1>6. Max(S) \in S
  BY <1>3, <1>5, GreatestMember
<1> QED BY <1>2, <1>5, <1>6

(* RawTable::set, whichever of its branches it takes: the key that is        *)
(* assigned reads the value, as an integer or as a float, every other key    *)
(* reads what it read, and the table stays well formed.                      *)
THEOREM SetCorrect ==
  ASSUME NEW rt, WellFormed(rt), Room(rt), NEW k, IsKey(k), NEW v
  PROVE  WellFormed(RawSet(rt, k, v)) /\ Assigned(rt, RawSet(rt, k, v), k, v)
<1>1. PICK a, m, c : Parts(a, m, c) /\ rt = TableOf(a, m, c)
  BY DEF WellFormed
<1> DEFINE i == ArrayIndex(k)
           b == Bucket(rt, k)
           e == [key |-> CanonicalKey(k), dead |-> FALSE, v |-> v]
           size == OptimalSize(Candidates(rt, i))
           len == MapLen(rt)
           more == ReserveMap(rt, Max({len, 1}))
<1>2. RawSet(rt, k, v) =
        IF i \in DOMAIN rt.array THEN [rt EXCEPT !.array[i] = v]
        ELSE IF v = Nil THEN IF b = 0 THEN rt ELSE [rt EXCEPT !.map[b] = Kill(rt.map[b])]
        ELSE IF b # 0 THEN [rt EXCEPT !.map[b] = e]
        ELSE IF len < rt.cap THEN [rt EXCEPT !.map = InsertNoGrow(rt.map, e)]
        ELSE IF i # 0 /\ size >= i THEN [GrowArray(rt, size - Len(rt.array)) EXCEPT !.array[i] = v]
        ELSE [more EXCEPT !.map = InsertNoGrow(more.map, e)]
  BY Zenon DEF RawSet
<1>3. rt.array = a /\ rt.map = m /\ rt.cap = c /\ len = Cardinality(DOMAIN m)
  BY <1>1, TableOfFields DEF MapLen
<1>4. IsEntry(e) /\ e.key = CanonicalKey(k) /\ e.v = v
  BY EntryFacts
<1>5. IF b = 0 THEN \A d \in DOMAIN m : m[d].key # CanonicalKey(k)
      ELSE b \in DOMAIN m /\ m[b].key = CanonicalKey(k)
  BY <1>1, BucketFound
<1>6. /\ i \in 0 .. MaxInt /\ Len(a) \in Nat /\ DOMAIN a = 1 .. Len(a)
      /\ len \in Nat /\ len <= c /\ c \in Nat /\ size \in Nat
  <2>1. IsFiniteSet(DOMAIN m) /\ IsArray(a) /\ c \in Nat /\ Cardinality(DOMAIN m) <= c
    BY <1>1 DEF Parts, IsMap
  <2>2. i \in 0 .. MaxInt /\ size \in Nat
    BY IndexFacts, OptimalSizeType
  <2>3. Cardinality(DOMAIN m) \in Nat
    BY <2>1, FS_CardinalityType
  <2> HIDE DEF i, size, len
  <2> QED BY <1>3, <2>1, <2>2, <2>3, ArrayFacts
<1> HIDE DEF b, e, size, more, len
<1>7. ASSUME NEW z, NEW y, NEW d, Parts(z, y, d), SameReads(rt, TableOf(z, y, d)),
             NEW r, NEW x, NEW w, RawSet(rt, k, v) = TableOf(r, x, w), Parts(r, x, w),
             Assigned(TableOf(z, y, d), TableOf(r, x, w), k, v)
      PROVE  WellFormed(RawSet(rt, k, v)) /\ Assigned(rt, RawSet(rt, k, v), k, v)
  BY <1>7, AssignedAfter DEF WellFormed
<1>8. SameReads(rt, TableOf(a, m, c))
  BY <1>1 DEF SameReads
<1>9. CASE i \in DOMAIN a
  <2>1. RawSet(rt, k, v) = TableOf([a EXCEPT ![i] = v], m, c)
    <3>1. RawSet(rt, k, v) = [rt EXCEPT !.array[i] = v]
      BY <1>2, <1>3, <1>9
    <3>2. [rt EXCEPT !.array[i] = v] = TableOf([a EXCEPT ![i] = v], m, c)
      BY <1>1 DEF TableOf
    <3> QED BY <3>1, <3>2
  <2>2. /\ Parts([a EXCEPT ![i] = v], m, c)
        /\ Assigned(TableOf(a, m, c), TableOf([a EXCEPT ![i] = v], m, c), k, v)
    BY <1>1, <1>9, SetElement
  <2> QED BY <1>1, <1>7, <1>8, <2>1, <2>2
<1>10. CASE i \notin DOMAIN a /\ v = Nil /\ b = 0
  <2>1. RawSet(rt, k, v) = rt
    BY <1>2, <1>3, <1>10
  <2>2. RawGet(rt, k) = Nil
    BY <1>1, <1>5, <1>10, ReadNothing
  <2>3. \A j : IsKey(j) /\ CanonicalKey(j) = CanonicalKey(k) => RawGet(rt, j) = Nil
    BY <2>2, ReadCanonical
  <2> QED BY <1>10, <2>1, <2>3 DEF Assigned
<1>11. CASE i \notin DOMAIN a /\ v = Nil /\ b # 0
  <2> DEFINE x == Kill(m[b])
  <2>1. RawSet(rt, k, v) = TableOf(a, [m EXCEPT ![b] = x], c)
    <3>1. RawSet(rt, k, v) = [rt EXCEPT !.map[b] = Kill(rt.map[b])]
      BY <1>2, <1>3, <1>11
    <3>2. [rt EXCEPT !.map[b] = Kill(rt.map[b])] = TableOf(a, [m EXCEPT ![b] = x], c)
      BY <1>1 DEF TableOf
    <3> QED BY <3>1, <3>2
  <2>2. IsEntry(x) /\ x.key = CanonicalKey(k) /\ x.v = v
    <3>1. IsEntry(m[b]) /\ m[b].key = CanonicalKey(k)
      BY <1>1, <1>5, <1>11 DEF Parts, IsMap
    <3> QED BY <1>11, <3>1, KillFacts
  <2> HIDE DEF x
  <2>3. /\ Parts(a, [m EXCEPT ![b] = x], c)
        /\ Assigned(TableOf(a, m, c), TableOf(a, [m EXCEPT ![b] = x], c), k, v)
    BY <1>1, <1>5, <1>11, <2>2, SetInBucket
  <2> QED BY <1>1, <1>7, <1>8, <2>1, <2>3
<1>12. CASE i \notin DOMAIN a /\ v # Nil /\ b # 0
  <2>1. RawSet(rt, k, v) = TableOf(a, [m EXCEPT ![b] = e], c)
    <3>1. RawSet(rt, k, v) = [rt EXCEPT !.map[b] = e]
      BY <1>2, <1>3, <1>12
    <3>2. [rt EXCEPT !.map[b] = e] = TableOf(a, [m EXCEPT ![b] = e], c)
      BY <1>1 DEF TableOf
    <3> QED BY <3>1, <3>2
  <2>2. /\ Parts(a, [m EXCEPT ![b] = e], c)
        /\ Assigned(TableOf(a, m, c), TableOf(a, [m EXCEPT ![b] = e], c), k, v)
    BY <1>1, <1>4, <1>5, <1>12, SetInBucket
  <2> QED BY <1>1, <1>7, <1>8, <2>1, <2>2
<1>13. CASE i \notin DOMAIN a /\ v # Nil /\ b = 0 /\ len < c
  <2>1. RawSet(rt, k, v) = TableOf(a, InsertNoGrow(m, e), c)
    <3>1. RawSet(rt, k, v) = [rt EXCEPT !.map = InsertNoGrow(rt.map, e)]
      BY <1>2, <1>3, <1>13
    <3>2. [rt EXCEPT !.map = InsertNoGrow(rt.map, e)] = TableOf(a, InsertNoGrow(m, e), c)
      BY <1>1 DEF TableOf
    <3> QED BY <3>1, <3>2
  <2>2. /\ Parts(a, InsertNoGrow(m, e), c)
        /\ Assigned(TableOf(a, m, c), TableOf(a, InsertNoGrow(m, e), c), k, v)
    BY <1>1, <1>3, <1>4, <1>5, <1>13, SetInNewBucket
  <2> QED BY <1>1, <1>7, <1>8, <2>1, <2>2
<1>14. CASE i \notin DOMAIN a /\ v # Nil /\ b = 0 /\ ~ (len < c) /\ i # 0 /\ size >= i
  <2> DEFINE d == size - Len(a)
             g == GrowArray(rt, d)
  <2>1. RawSet(rt, k, v) = [g EXCEPT !.array[i] = v]
    BY <1>2, <1>3, <1>14
  <2>2. d \in Nat /\ Len(a) + d = size /\ i > 0 /\ i \in Nat
    BY <1>6, <1>14, Widths
  <2>3. WellFormed(g) /\ SameReads(rt, g) /\ Len(g.array) >= Len(rt.array) + d
    <3> HIDE DEF d
    <3> QED BY <2>2, GrowArrayCorrect
  <2> HIDE DEF d, g
  <2>4. PICK z, y, w : Parts(z, y, w) /\ g = TableOf(z, y, w)
    BY <2>3 DEF WellFormed
  <2>5. Len(z) >= size /\ Len(z) \in Nat /\ DOMAIN z = 1 .. Len(z)
    BY <1>3, <2>2, <2>3, <2>4, TableOfFields, ArrayFacts DEF Parts
  <2>6. i \in DOMAIN z
    BY <1>6, <1>14, <2>2, <2>5
  <2>7. RawSet(rt, k, v) = TableOf([z EXCEPT ![i] = v], y, w)
    <3>1. [g EXCEPT !.array[i] = v] = TableOf([z EXCEPT ![i] = v], y, w)
      BY <2>4 DEF TableOf
    <3> QED BY <2>1, <3>1
  <2>8. /\ Parts([z EXCEPT ![i] = v], y, w)
        /\ Assigned(TableOf(z, y, w), TableOf([z EXCEPT ![i] = v], y, w), k, v)
    BY <2>4, <2>6, SetElement
  <2> QED BY <1>7, <2>3, <2>4, <2>7, <2>8
<1>15. CASE i \notin DOMAIN a /\ v # Nil /\ b = 0 /\ ~ (len < c) /\ ~ (i # 0 /\ size >= i)
  <2> DEFINE add == Max({len, 1})
  <2>1. RawSet(rt, k, v) = [more EXCEPT !.map = InsertNoGrow(more.map, e)]
    BY <1>2, <1>3, <1>15
  <2>2. add \in Nat /\ add >= 1 /\ add \in {len, 1}
    BY <1>6, MaxOfTwo
  <2>3. more = ReserveMap(rt, add)
    BY DEF more
  <2> HIDE DEF add
  <2>4. len + add <= 7 * 2 ^ IntBits /\ c + 1 <= 7 * 2 ^ IntBits
    BY <1>3, <1>6, <2>2, WidthAssumption DEF Room
  <2>5. /\ WellFormed(more) /\ SameReads(rt, more) /\ more.array = a
        /\ MapLen(more) + add <= more.cap
        /\ DOMAIN more.map \subseteq DOMAIN m /\ \A d \in DOMAIN more.map : more.map[d] = m[d]
    <3>1. MapLen(rt) + add <= 7 * 2 ^ IntBits /\ rt.cap + 1 <= 7 * 2 ^ IntBits
      BY <1>3, <2>4 DEF len
    <3> QED BY <1>3, <2>2, <2>3, <3>1, ReserveMapCorrect
  <2>6. PICK z, y, w : Parts(z, y, w) /\ more = TableOf(z, y, w)
    BY <2>5 DEF WellFormed
  <2>7. z = a /\ more.map = y /\ more.cap = w
    BY <2>5, <2>6, TableOfFields
  <2>8. RawSet(rt, k, v) = TableOf(a, InsertNoGrow(y, e), w)
    <3>1. [more EXCEPT !.map = InsertNoGrow(more.map, e)] = TableOf(a, InsertNoGrow(y, e), w)
      BY <2>6, <2>7 DEF TableOf
    <3> QED BY <2>1, <3>1
  <2>9. Cardinality(DOMAIN y) < w
    <3>1. w \in Nat /\ Cardinality(DOMAIN y) \in Nat
      BY <2>6, FS_CardinalityType DEF Parts, IsMap
    <3>2. MapLen(more) = Cardinality(DOMAIN y)
      BY <2>7 DEF MapLen
    <3> QED BY <2>2, <2>5, <2>7, <3>1, <3>2
  <2>10. \A d \in DOMAIN y : y[d].key # CanonicalKey(k)
    BY <1>5, <1>15, <2>5, <2>7
  <2>11. /\ Parts(a, InsertNoGrow(y, e), w)
         /\ Assigned(TableOf(a, y, w), TableOf(a, InsertNoGrow(y, e), w), k, v)
    BY <1>4, <1>15, <2>6, <2>7, <2>9, <2>10, SetInNewBucket
  <2> QED BY <1>7, <2>5, <2>6, <2>7, <2>8, <2>11
<1> QED BY <1>9, <1>10, <1>11, <1>12, <1>13, <1>14, <1>15

(* RawTable::array_mut, through which table.insert and table.remove shift   *)
(* elements: "All values that *can* be stored in the array part of the      *)
(* table will always be stored there, so this comes with no invariants that *)
(* you must uphold" (raw.rs 545-548).  Any values may be written, and they  *)
(* are what get returns for their indices; no other key reads differently.  *)
THEOREM ArrayMutCorrect ==
  ASSUME NEW rt, WellFormed(rt), NEW z, IsArray(z), Len(z) = Len(rt.array)
  PROVE  LET r == [rt EXCEPT !.array = z]
         IN  /\ WellFormed(r)
             /\ \A k : IsKey(k) => RawGet(r, k) = IF ArrayIndex(k) \in DOMAIN z THEN z[ArrayIndex(k)]
                                                  ELSE RawGet(rt, k)
<1>1. PICK a, m, c : Parts(a, m, c) /\ rt = TableOf(a, m, c)
  BY DEF WellFormed
<1>2. rt.array = a /\ rt.map = m /\ rt.cap = c
  BY <1>1 DEF TableOf
<1>3. [rt EXCEPT !.array = z] = TableOf(z, m, c)
  BY <1>1 DEF TableOf
<1>4. DOMAIN z = DOMAIN a
  BY <1>1, <1>2 DEF IsArray, Parts
<1>5. Parts(z, m, c)
  BY <1>1, <1>4 DEF Parts
<1>6. ASSUME NEW k, IsKey(k)
      PROVE  RawGet(TableOf(z, m, c), k) = IF ArrayIndex(k) \in DOMAIN z THEN z[ArrayIndex(k)]
                                           ELSE RawGet(rt, k)
  <2>1. Bucket(TableOf(z, m, c), k) = Bucket(rt, k)
    <3>1. Buckets(TableOf(z, m, c), k) = Buckets(rt, k)
      BY <1>1 DEF Buckets, TableOf
    <3> QED BY <3>1 DEF Bucket
  <2>2. TableOf(z, m, c).array = z /\ TableOf(z, m, c).map = m
    BY DEF TableOf
  <2>3. CASE ArrayIndex(k) \in DOMAIN z
    BY <2>2, <2>3 DEF RawGet
  <2>4. CASE ArrayIndex(k) \notin DOMAIN z
    BY <1>2, <1>4, <2>1, <2>2, <2>4 DEF RawGet
  <2> QED BY <2>3, <2>4
<1> QED BY <1>3, <1>5, <1>6 DEF WellFormed

(* RawTable::with_capacity: a new table is well formed and reads nil for *)
(* every key, whatever the hints. *)
THEOREM NewTableCorrect ==
  ASSUME NEW array \in Nat, NEW map \in Nat, map <= 7 * 2 ^ IntBits
  PROVE  /\ WellFormed(RawTable(array, map))
         /\ \A k : IsKey(k) => RawGet(RawTable(array, map), k) = Nil
<1> DEFINE a == [i \in 1 .. array |-> Nil]
           m == <<>>
           c == MapCapacity(map)
<1>1. RawTable(array, map) = TableOf(a, m, c)
  BY DEF RawTable, TableOf
<1>2. IsArray(a) /\ DOMAIN a = 1 .. array /\ \A i \in 1 .. array : a[i] = Nil
  <2>1. a = [i \in 1 .. array |-> a[i]]
    OBVIOUS
  <2>2. \A i \in 1 .. array : a[i] = Nil
    OBVIOUS
  <2> HIDE DEF a
  <2> QED BY <2>1, <2>2, ArrayOf
<1>3. DOMAIN m = {} /\ m = [b \in DOMAIN m |-> m[b]]
  OBVIOUS
<1>4. c \in Nat
  BY CapacityFacts
<1> HIDE DEF a, m, c
<1>5. IsFiniteSet(DOMAIN m) /\ Cardinality(DOMAIN m) = 0
  BY <1>3, FS_EmptySet
<1>6. Parts(a, m, c)
  BY <1>2, <1>3, <1>4, <1>5 DEF Parts, IsMap
<1>7. ASSUME NEW k, IsKey(k) PROVE RawGet(TableOf(a, m, c), k) = Nil
  <2>1. CASE ArrayIndex(k) \in DOMAIN a
    BY <1>2, <2>1, ReadArray
  <2>2. CASE ArrayIndex(k) \notin DOMAIN a
    BY <1>3, <2>2, ReadNothing
  <2> QED BY <2>1, <2>2
<1> QED BY <1>1, <1>6, <1>7 DEF WellFormed

-----------------------------------------------------------------------------
(* Length *)

\* One step of the two searches: what g has for the smaller problem.
Halving(rt, g, s) ==
    LET mid == s[1] + (s[2] - s[1]) \div 2
    IN  IF s[2] - s[1] <= 1 THEN s[1]
        ELSE IF RawGet(rt, Integer(mid)) = Nil THEN g[<<s[1], mid>>] ELSE g[<<mid, s[2]>>]
Doubling(rt, g, m) ==
    IF RawGet(rt, Integer(m)) = Nil THEN m
    ELSE IF m = MaxInt THEN 0 ELSE g[Min({2 * m, MaxInt})]

LEMMA Middle ==
  ASSUME NEW lo \in Int, NEW hi \in Int, hi - lo > 1
  PROVE  lo + (hi - lo) \div 2 \in Int /\ lo < lo + (hi - lo) \div 2 /\ lo + (hi - lo) \div 2 < hi
<1> DEFINE d == hi - lo
<1>1. d \in Int /\ d > 1
  OBVIOUS
<1> HIDE DEF d
<1>2. d \div 2 \in Int /\ 0 < d \div 2 /\ d \div 2 < d
  BY <1>1
<1> QED BY <1>2 DEF d

(* The step looks only at smaller problems: functions that agree on these *)
(* take the same step. *)
LEMMA HalvingAgrees ==
  ASSUME NEW rt, NEW min \in Int, NEW max \in Int, NEW f, NEW g,
         NEW s \in (min .. max) \X (min .. max),
         \A p \in (min .. max) \X (min .. max) : p[2] - p[1] < s[2] - s[1] => f[p] = g[p]
  PROVE  Halving(rt, f, s) = Halving(rt, g, s)
<1>1. CASE s[2] - s[1] <= 1
  BY <1>1 DEF Halving
<1>2. CASE s[2] - s[1] > 1
  <2> DEFINE mid == s[1] + (s[2] - s[1]) \div 2
  <2>1. s[1] \in min .. max /\ s[2] \in min .. max
    OBVIOUS
  <2>2. mid \in Int /\ s[1] < mid /\ mid < s[2]
    BY <1>2, <2>1, Middle
  <2>3. ~ (s[2] - s[1] <= 1)
    BY <1>2, <2>1
  <2>4. \A h : Halving(rt, h, s) = IF RawGet(rt, Integer(mid)) = Nil THEN h[<<s[1], mid>>] ELSE h[<<mid, s[2]>>]
    BY <2>3 DEF Halving
  <2> HIDE DEF mid
  <2>5. f[<<s[1], mid>>] = g[<<s[1], mid>>]
    BY <2>1, <2>2
  <2>6. f[<<mid, s[2]>>] = g[<<mid, s[2]>>]
    BY <2>1, <2>2
  <2> QED BY <2>4, <2>5, <2>6
<1> QED BY <1>1, <1>2

\* g satisfies the equation of the search for intervals no longer than d.
HalvesTo(rt, min, max, g, d) ==
    \A s \in (min .. max) \X (min .. max) : s[2] - s[1] <= d => g[s] = Halving(rt, g, s)

(* There is a function that satisfies the equation of the binary search: *)
(* applying the step to one that does so up to some length gives one that *)
(* does so for intervals one longer. *)
LEMMA HalvingExists ==
  ASSUME NEW rt, NEW min \in Int, NEW max \in Int
  PROVE  \E g : g = [s \in (min .. max) \X (min .. max) |-> Halving(rt, g, s)]
<1> DEFINE D == (min .. max) \X (min .. max)
           P(d) == \E g : HalvesTo(rt, min, max, g, d)
<1>1. P(0)
  <2> DEFINE g == [s \in D |-> s[1]]
  <2>1. ASSUME NEW s \in D, s[2] - s[1] <= 0 PROVE g[s] = Halving(rt, g, s)
    <3>1. s[1] \in Int /\ s[2] \in Int
      OBVIOUS
    <3>2. s[2] - s[1] <= 1
      BY <2>1, <3>1
    <3>3. g[s] = s[1]
      OBVIOUS
    <3> HIDE DEF g
    <3> QED BY <3>2, <3>3 DEF Halving
  <2>2. HalvesTo(rt, min, max, g, 0)
    BY <2>1 DEF HalvesTo
  <2> QED BY <2>2
<1>2. ASSUME NEW d \in Nat, P(d) PROVE P(d + 1)
  <2>1. PICK g : HalvesTo(rt, min, max, g, d)
    BY <1>2
  <2> DEFINE h == [s \in D |-> Halving(rt, g, s)]
  <2>2. \A s \in D : h[s] = Halving(rt, g, s)
    OBVIOUS
  <2> HIDE DEF h
  <2>3. ASSUME NEW s \in D, s[2] - s[1] <= d + 1 PROVE h[s] = Halving(rt, h, s)
    <3>1. \A p \in D : p[2] - p[1] < s[2] - s[1] => g[p] = h[p]
      <4> SUFFICES ASSUME NEW p \in D, p[2] - p[1] < s[2] - s[1] PROVE g[p] = h[p]
        OBVIOUS
      <4>1. p[1] \in Int /\ p[2] \in Int /\ s[1] \in Int /\ s[2] \in Int
        OBVIOUS
      <4>2. p[2] - p[1] <= d
        BY <2>3, <4>1
      <4> QED BY <2>1, <2>2, <4>2 DEF HalvesTo
    <3>2. Halving(rt, g, s) = Halving(rt, h, s)
      BY <3>1, HalvingAgrees
    <3> QED BY <2>2, <3>2
  <2>4. HalvesTo(rt, min, max, h, d + 1)
    BY <2>3 DEF HalvesTo
  <2> QED BY <2>4
<1> HIDE DEF P
<1>3. \A d \in Nat : P(d)
  <2> DEFINE C == {d \in Nat : ~ P(d)}
  <2>1. SUFFICES ASSUME C # {} PROVE FALSE
    OBVIOUS
  <2>2. PICK d \in C : \A y \in C : d <= y
    <3>1. C \in SUBSET Nat
      OBVIOUS
    <3> HIDE DEF C
    <3> QED BY <2>1, <3>1, LeastMember
  <2>3. d # 0
    BY <1>1
  <2>4. d - 1 \in Nat /\ P(d - 1) /\ (d - 1) + 1 = d
    BY <2>2, <2>3
  <2>5. P((d - 1) + 1)
    BY ONLY <1>2, <2>4
  <2> QED BY <2>4, <2>5
<1>4. \E g : \A s \in D : g[s] = Halving(rt, g, s)
  <2>1. PICK n \in Nat : \A s \in D : s[2] - s[1] <= n
    <3>1. CASE min <= max
      <4>1. max - min \in Nat /\ \A s \in D : s[2] - s[1] <= max - min
        BY <3>1
      <4> QED BY <4>1
    <3>2. CASE ~ (min <= max)
      <4>1. D = {}
        BY <3>2
      <4> QED BY <4>1
    <3> QED BY <3>1, <3>2
  <2>2. PICK g : HalvesTo(rt, min, max, g, n)
    BY <1>3 DEF P
  <2> QED BY <2>1, <2>2 DEF HalvesTo
<1>5. PICK g : \A s \in D : g[s] = Halving(rt, g, s)
  BY <1>4
<1> DEFINE h == [s \in D |-> g[s]]
<1>6. \A s \in D : h[s] = g[s]
  OBVIOUS
<1>7. ASSUME NEW s \in D PROVE g[s] = Halving(rt, h, s)
  <2> HIDE DEF h
  <2>1. Halving(rt, g, s) = Halving(rt, h, s)
    BY <1>6, HalvingAgrees
  <2> QED BY <1>5, <2>1
<1>8. h = [s \in D |-> Halving(rt, h, s)]
  BY <1>7
<1> QED BY <1>8

IsNil(rt, i) == RawGet(rt, Integer(i)) = Nil

LEMMA SearchUnfolds ==
  ASSUME NEW rt, NEW min \in Int, NEW max \in Int
  PROVE  \E g : /\ SearchBorder(rt, min, max) = g[<<min, max>>]
                /\ \A s \in (min .. max) \X (min .. max) : g[s] = Halving(rt, g, s)
<1> DEFINE D == (min .. max) \X (min .. max)
           g == CHOOSE f : f = [s \in D |-> Halving(rt, f, s)]
<1>1. SearchBorder(rt, min, max) = g[<<min, max>>]
  BY Zenon DEF SearchBorder, Halving
<1>2. g = [s \in D |-> Halving(rt, g, s)]
  BY HalvingExists, Zenon
<1> HIDE DEF g
<1>3. \A s \in D : g[s] = Halving(rt, g, s)
  BY <1>2
<1> QED BY <1>1, <1>3

(* The binary search ends between an entry that is there (or 0) and one that *)
(* is nil, next to each other. *)
LEMMA SearchFinds ==
  ASSUME NEW rt, NEW min \in Nat, NEW max \in Nat, min < max,
         min = 0 \/ ~ IsNil(rt, min), IsNil(rt, max)
  PROVE  LET r == SearchBorder(rt, min, max)
         IN  r \in min .. max - 1 /\ (r = 0 \/ ~ IsNil(rt, r)) /\ IsNil(rt, r + 1)
<1> DEFINE I == min .. max
           D == I \X I
           Border(r) == r \in min .. max - 1 /\ (r = 0 \/ ~ IsNil(rt, r)) /\ IsNil(rt, r + 1)
           Encloses(lo, hi) == lo < hi /\ (lo = 0 \/ ~ IsNil(rt, lo)) /\ IsNil(rt, hi)
<1>1. PICK g : /\ SearchBorder(rt, min, max) = g[<<min, max>>]
               /\ \A s \in D : g[s] = Halving(rt, g, s)
  BY SearchUnfolds
<1>2. ASSUME NEW lo \in I, NEW hi \in I
      PROVE  LET mid == lo + (hi - lo) \div 2
             IN  g[<<lo, hi>>] = IF hi - lo <= 1 THEN lo
                                 ELSE IF IsNil(rt, mid) THEN g[<<lo, mid>>] ELSE g[<<mid, hi>>]
  <2>1. <<lo, hi>> \in D
    OBVIOUS
  <2>2. g[<<lo, hi>>] = Halving(rt, g, <<lo, hi>>)
    BY <1>1, <2>1
  <2> QED BY <2>2 DEF Halving, IsNil
<1> DEFINE Bad(d) == \E lo, hi \in I : hi - lo = d /\ Encloses(lo, hi) /\ ~ Border(g[<<lo, hi>>])
           C == {d \in Nat : Bad(d)}
<1>3. SUFFICES ASSUME C # {} PROVE FALSE
  <2>1. SUFFICES ASSUME ~ Border(g[<<min, max>>]) PROVE C # {}
    BY <1>1, <1>3
  <2> HIDE DEF Border
  <2>2. min \in I /\ max \in I /\ Encloses(min, max) /\ max - min \in Nat
    OBVIOUS
  <2>3. Bad(max - min)
    BY <2>1, <2>2
  <2> HIDE DEF Bad
  <2> QED BY <2>2, <2>3
<1>4. PICK d \in C : \A y \in C : d <= y
  <2>1. C \in SUBSET Nat
    OBVIOUS
  <2> HIDE DEF C
  <2> QED BY <1>3, <2>1, LeastMember
<1>5. PICK lo \in I, hi \in I : hi - lo = d /\ Encloses(lo, hi) /\ ~ Border(g[<<lo, hi>>])
  BY <1>4
<1>6. lo \in Nat /\ hi \in Nat /\ lo < hi /\ d \in Nat
  BY <1>4, <1>5
<1>7. ASSUME NEW p \in I, NEW q \in I, Encloses(p, q), q - p < d PROVE Border(g[<<p, q>>])
  <2> SUFFICES ASSUME ~ Border(g[<<p, q>>]) PROVE FALSE
    OBVIOUS
  <2>1. Bad(q - p)
    <3> HIDE DEF Border, Encloses
    <3> QED BY <1>7
  <2>2. q - p \in Nat /\ d \in Nat
    BY <1>4, <1>7
  <2> HIDE DEF Bad
  <2>3. q - p \in C
    BY <2>1, <2>2
  <2> HIDE DEF C
  <2> QED BY <1>4, <1>7, <2>2, <2>3
<1>8. CASE hi - lo <= 1
  <2>1. hi = lo + 1
    BY <1>6, <1>8
  <2>2. g[<<lo, hi>>] = lo
    BY <1>2, <1>8
  <2>3. Border(lo)
    BY <1>5, <1>6, <2>1
  <2> HIDE DEF Border
  <2> QED BY <1>5, <2>2, <2>3
<1>9. CASE ~ (hi - lo <= 1)
  <2> DEFINE mid == lo + (hi - lo) \div 2
  <2>1. mid \in Int /\ lo < mid /\ mid < hi
    <3>1. lo \in Int /\ hi \in Int /\ hi - lo > 1
      BY <1>6, <1>9
    <3> QED BY ONLY <3>1, Middle
  <2>2. g[<<lo, hi>>] = IF IsNil(rt, mid) THEN g[<<lo, mid>>] ELSE g[<<mid, hi>>]
    BY <1>2, <1>9
  <2> HIDE DEF mid
  <2>3. mid \in I /\ mid # 0
    BY <1>5, <1>6, <2>1
  <2>4. CASE IsNil(rt, mid)
    <3>1. Encloses(lo, mid) /\ mid - lo < d
      BY <1>5, <1>6, <2>1, <2>4
    <3> HIDE DEF Encloses, Border
    <3> QED BY <1>5, <1>7, <2>2, <2>3, <2>4, <3>1
  <2>5. CASE ~ IsNil(rt, mid)
    <3>1. Encloses(mid, hi) /\ hi - mid < d
      BY <1>5, <1>6, <2>1, <2>5
    <3> HIDE DEF Encloses, Border
    <3> QED BY <1>5, <1>7, <2>2, <2>3, <2>5, <3>1
  <2> QED BY <2>4, <2>5
<1> QED BY <1>8, <1>9

(* Doubling stays within the integers and goes up. *)
LEMMA Doubled ==
  ASSUME NEW m \in 1 .. MaxInt, m # MaxInt
  PROVE  Min({2 * m, MaxInt}) \in 1 .. MaxInt /\ Min({2 * m, MaxInt}) > m
<1> DEFINE S == {2 * m, MaxInt}
<1>1. S \in SUBSET Nat /\ \A y \in S : y > m
  BY Widths
<1>2. MaxInt \in S /\ MaxInt \in Nat
  BY Widths
<1> HIDE DEF S
<1>3. Min(S) \in S /\ Min(S) <= MaxInt
  BY <1>1, <1>2, LeastMember
<1>4. ASSUME NEW x \in Nat, x > m, x <= MaxInt PROVE x \in 1 .. MaxInt
  BY <1>2, <1>4
<1>5. Min(S) \in Nat /\ Min(S) > m
  BY <1>1, <1>3
<1>6. Min(S) \in 1 .. MaxInt
  BY <1>3, <1>4, <1>5
<1> QED BY <1>5, <1>6 DEF S

LEMMA DoublingAgrees ==
  ASSUME NEW rt, NEW f, NEW g, NEW m \in 1 .. MaxInt,
         \A p \in 1 .. MaxInt : p > m => f[p] = g[p]
  PROVE  Doubling(rt, f, m) = Doubling(rt, g, m)
<1>1. CASE m = MaxInt
  BY <1>1 DEF Doubling
<1>2. CASE m # MaxInt
  <2>1. f[Min({2 * m, MaxInt})] = g[Min({2 * m, MaxInt})]
    BY <1>2, Doubled
  <2> QED BY <2>1 DEF Doubling
<1> QED BY <1>1, <1>2

DoublesFrom(rt, g, d) == \A m \in 1 .. MaxInt : MaxInt - m <= d => g[m] = Doubling(rt, g, m)

(* There is a function that satisfies the equation of the doubling, by the *)
(* argument of HalvingExists on the distance from the largest integer. *)
LEMMA DoublingExists ==
  ASSUME NEW rt
  PROVE  \E g : g = [m \in 1 .. MaxInt |-> Doubling(rt, g, m)]
<1> DEFINE P(d) == \E g : DoublesFrom(rt, g, d)
<1>1. P(0)
  <2> DEFINE g == [m \in 1 .. MaxInt |-> IF RawGet(rt, Integer(m)) = Nil THEN m ELSE 0]
  <2>1. \A m \in 1 .. MaxInt : g[m] = IF RawGet(rt, Integer(m)) = Nil THEN m ELSE 0
    OBVIOUS
  <2> HIDE DEF g
  <2>2. ASSUME NEW m \in 1 .. MaxInt, MaxInt - m <= 0 PROVE g[m] = Doubling(rt, g, m)
    <3>1. m = MaxInt
      BY <2>2, Widths
    <3> QED BY <2>1, <3>1 DEF Doubling
  <2>3. DoublesFrom(rt, g, 0)
    BY <2>2 DEF DoublesFrom
  <2> QED BY <2>3
<1>2. ASSUME NEW d \in Nat, P(d) PROVE P(d + 1)
  <2>1. PICK g : DoublesFrom(rt, g, d)
    BY <1>2
  <2> DEFINE h == [m \in 1 .. MaxInt |-> Doubling(rt, g, m)]
  <2>2. \A m \in 1 .. MaxInt : h[m] = Doubling(rt, g, m)
    OBVIOUS
  <2> HIDE DEF h
  <2>3. ASSUME NEW m \in 1 .. MaxInt, MaxInt - m <= d + 1 PROVE h[m] = Doubling(rt, h, m)
    <3>1. \A p \in 1 .. MaxInt : p > m => g[p] = h[p]
      <4> SUFFICES ASSUME NEW p \in 1 .. MaxInt, p > m PROVE g[p] = h[p]
        OBVIOUS
      <4>1. MaxInt - p <= d
        BY <2>3, Widths
      <4> QED BY <2>1, <2>2, <4>1 DEF DoublesFrom
    <3>2. Doubling(rt, g, m) = Doubling(rt, h, m)
      BY <3>1, DoublingAgrees
    <3> QED BY <2>2, <3>2
  <2>4. DoublesFrom(rt, h, d + 1)
    BY <2>3 DEF DoublesFrom
  <2> QED BY <2>4
<1> HIDE DEF P
<1>3. \A d \in Nat : P(d)
  <2> DEFINE C == {d \in Nat : ~ P(d)}
  <2>1. SUFFICES ASSUME C # {} PROVE FALSE
    OBVIOUS
  <2>2. PICK d \in C : \A y \in C : d <= y
    <3>1. C \in SUBSET Nat
      OBVIOUS
    <3> HIDE DEF C
    <3> QED BY <2>1, <3>1, LeastMember
  <2>3. d # 0
    BY <1>1
  <2>4. d - 1 \in Nat /\ P(d - 1) /\ (d - 1) + 1 = d
    BY <2>2, <2>3
  <2>5. P((d - 1) + 1)
    BY ONLY <1>2, <2>4
  <2> QED BY <2>4, <2>5
<1>4. PICK g : \A m \in 1 .. MaxInt : g[m] = Doubling(rt, g, m)
  <2>1. PICK g : DoublesFrom(rt, g, MaxInt)
    BY <1>3, Widths DEF P
  <2>2. \A m \in 1 .. MaxInt : MaxInt - m <= MaxInt
    BY Widths
  <2> QED BY <2>1, <2>2 DEF DoublesFrom
<1> DEFINE h == [m \in 1 .. MaxInt |-> g[m]]
<1>5. \A m \in 1 .. MaxInt : h[m] = g[m]
  OBVIOUS
<1>6. ASSUME NEW m \in 1 .. MaxInt PROVE g[m] = Doubling(rt, h, m)
  <2> HIDE DEF h
  <2>1. Doubling(rt, g, m) = Doubling(rt, h, m)
    BY <1>5, DoublingAgrees
  <2> QED BY <1>4, <2>1
<1>7. h = [m \in 1 .. MaxInt |-> Doubling(rt, h, m)]
  BY <1>6
<1> QED BY <1>7

(* The doubling finds an entry that is nil, or gives up at the largest *)
(* integer, whose entry is not. *)
LEMMA NilFinds ==
  ASSUME NEW rt, NEW i \in 1 .. MaxInt
  PROVE  LET hi == NilFrom(rt, i)
         IN  IF hi = 0 THEN ~ IsNil(rt, MaxInt) ELSE hi \in i .. MaxInt /\ IsNil(rt, hi)
<1> DEFINE I == 1 .. MaxInt
           g == CHOOSE f : f = [m \in I |-> Doubling(rt, f, m)]
           Found(m) == IF g[m] = 0 THEN ~ IsNil(rt, MaxInt) ELSE g[m] \in m .. MaxInt /\ IsNil(rt, g[m])
<1>1. NilFrom(rt, i) = g[i]
  BY Zenon DEF NilFrom, Doubling
<1>2. g = [m \in I |-> Doubling(rt, g, m)]
  BY DoublingExists, Zenon
<1> HIDE DEF g
<1>3. \A m \in I : g[m] = Doubling(rt, g, m)
  BY <1>2
<1> DEFINE C == {d \in Nat : \E m \in I : MaxInt - m = d /\ ~ Found(m)}
<1>4. SUFFICES ASSUME C # {} PROVE FALSE
  <2>1. SUFFICES ASSUME ~ Found(i) PROVE C # {}
    BY <1>1, <1>4
  <2>2. MaxInt - i \in Nat
    BY Widths
  <2> HIDE DEF Found
  <2> QED BY <2>1, <2>2
<1>5. PICK d \in C : \A y \in C : d <= y
  <2>1. C \in SUBSET Nat
    OBVIOUS
  <2> HIDE DEF C
  <2> QED BY <1>4, <2>1, LeastMember
<1>6. PICK m \in I : MaxInt - m = d /\ ~ Found(m)
  BY <1>5
<1>7. m \in Nat /\ MaxInt \in Nat /\ m >= 1 /\ m <= MaxInt
  BY Widths
<1>8. CASE IsNil(rt, m)
  <2>1. g[m] = m
    BY <1>3, <1>8 DEF Doubling, IsNil
  <2> QED BY <1>6, <1>7, <1>8, <2>1
<1>9. CASE ~ IsNil(rt, m) /\ m = MaxInt
  <2>1. g[m] = 0
    BY <1>3, <1>9 DEF Doubling, IsNil
  <2> QED BY <1>6, <1>9, <2>1
<1>10. CASE ~ IsNil(rt, m) /\ m # MaxInt
  <2> DEFINE q == Min({2 * m, MaxInt})
  <2>1. g[m] = g[q]
    BY <1>3, <1>10 DEF Doubling, IsNil
  <2>2. q \in I /\ q > m
    BY <1>10, Doubled
  <2> HIDE DEF q
  <2>3. Found(q)
    <3> SUFFICES ASSUME ~ Found(q) PROVE FALSE
      OBVIOUS
    <3>1. MaxInt - q \in Nat /\ MaxInt - q < d /\ d \in Nat
      BY <1>5, <1>6, <1>7, <2>2
    <3>2. MaxInt - q \in C
      <4> HIDE DEF Found
      <4> QED BY <2>2, <3>1
    <3> HIDE DEF C
    <3> QED BY <1>5, <3>1, <3>2
  <2>4. CASE g[q] = 0
    BY <1>6, <2>1, <2>3, <2>4
  <2>5. CASE g[q] # 0
    <3>1. g[q] \in q .. MaxInt /\ IsNil(rt, g[q])
      BY <2>3, <2>5
    <3>2. g[m] \in m .. MaxInt /\ IsNil(rt, g[m]) /\ g[m] # 0
      BY <1>7, <2>1, <2>2, <3>1
    <3> QED BY <1>6, <3>2
  <2> QED BY <2>4, <2>5
<1> QED BY <1>8, <1>9, <1>10

(* RawTable::length: the result is a border, an entry that is not nil (or 0) *)
(* with a nil one behind it, wherever the array part ends and whatever is in *)
(* the map part; the searches end at the largest integer, without overflow. *)
THEOREM LengthCorrect ==
  ASSUME NEW rt, WellFormed(rt), Len(rt.array) < MaxInt
  PROVE  RawLength(rt) \in 0 .. MaxInt /\ LengthIsBorder(rt)
<1>1. PICK a, m, c : Parts(a, m, c) /\ rt = TableOf(a, m, c)
  BY DEF WellFormed
<1> DEFINE n == Len(a)
           hi == NilFrom(rt, n + 1)
           r == RawLength(rt)
<1>2. rt.array = a /\ rt.map = m
  BY <1>1, TableOfFields
<1>3. n \in Nat /\ DOMAIN a = 1 .. n /\ n < MaxInt /\ MaxInt \in Nat
  BY <1>1, <1>2, ArrayFacts, Widths DEF Parts
<1>4. r = IF n > 0 /\ a[n] = Nil THEN SearchBorder(rt, 0, n)
          ELSE IF m = <<>> THEN n
          ELSE IF hi = 0 THEN MaxInt ELSE SearchBorder(rt, n, hi)
  BY <1>2 DEF RawLength
<1>5. ASSUME NEW i \in 1 .. n PROVE IsNil(rt, i) <=> a[i] = Nil
  <2>1. ArrayIndex(Integer(i)) = i
    BY <1>3, PlaceFacts
  <2>2. RawGet(rt, Integer(i)) = a[i]
    BY <1>1, <1>3, <2>1, ReadArray
  <2> QED BY <2>2 DEF IsNil
<1>6. SUFFICES r \in 0 .. MaxInt /\ (r = 0 \/ ~ IsNil(rt, r)) /\ (r = MaxInt \/ IsNil(rt, r + 1))
  BY DEF LengthIsBorder, IsNil
<1> HIDE DEF hi, r, n
<1>7. CASE n > 0 /\ a[n] = Nil
  <2>1. IsNil(rt, n)
    BY <1>3, <1>5, <1>7
  <2>2. r \in 0 .. n - 1 /\ (r = 0 \/ ~ IsNil(rt, r)) /\ IsNil(rt, r + 1)
    BY <1>3, <1>4, <1>7, <2>1, SearchFinds
  <2> QED BY <1>3, <2>2
<1>8. CASE ~ (n > 0 /\ a[n] = Nil)
  <2>1. n = 0 \/ ~ IsNil(rt, n)
    BY <1>3, <1>5, <1>8
  <2>2. CASE m = <<>>
    <3>1. r = n
      BY <1>4, <1>8, <2>2
    <3>2. ArrayIndex(Integer(n + 1)) = n + 1 /\ n + 1 \notin DOMAIN a
      BY <1>3, PlaceFacts
    <3>3. DOMAIN m = {}
      BY <2>2
    <3>4. IsNil(rt, n + 1)
      BY <1>1, <3>2, <3>3, ReadNothing DEF IsNil
    <3> QED BY <1>3, <2>1, <3>1, <3>4
  <2>3. CASE m # <<>>
    <3>1. n + 1 \in 1 .. MaxInt
      BY <1>3
    <3>2. IF hi = 0 THEN ~ IsNil(rt, MaxInt) ELSE hi \in n + 1 .. MaxInt /\ IsNil(rt, hi)
      BY <3>1, NilFinds DEF hi
    <3>3. CASE hi = 0
      BY <1>3, <1>4, <1>8, <2>3, <3>2, <3>3
    <3>4. CASE hi # 0
      <4>1. hi \in Nat /\ n < hi /\ hi <= MaxInt /\ IsNil(rt, hi)
        BY <1>3, <3>2, <3>4
      <4>2. r = SearchBorder(rt, n, hi)
        BY <1>4, <1>8, <2>3, <3>4
      <4>3. r \in n .. hi - 1 /\ (r = 0 \/ ~ IsNil(rt, r)) /\ IsNil(rt, r + 1)
        BY <1>3, <2>1, <4>1, <4>2, SearchFinds
      <4> QED BY <1>3, <4>1, <4>3
    <3> QED BY <3>3, <3>4
  <2> QED BY <2>2, <2>3
<1> QED BY <1>7, <1>8

-----------------------------------------------------------------------------
(* Traversal *)

LEMMA PositionIs ==
  ASSUME NEW a, NEW m, NEW c, Parts(a, m, c), NEW k, IsKey(k)
  PROVE  LET rt == TableOf(a, m, c)
         IN  /\ ArrayIndex(k) \in DOMAIN a => Position(rt, k) = ArrayIndex(k)
             /\ \A b \in DOMAIN m : ArrayIndex(k) \notin DOMAIN a /\ m[b].key = CanonicalKey(k)
                                      => Position(rt, k) = Len(a) + b
             /\ ArrayIndex(k) \notin DOMAIN a /\ (\A b \in DOMAIN m : m[b].key # CanonicalKey(k))
                  => Position(rt, k) = NotFound
<1> DEFINE rt == TableOf(a, m, c)
<1>1. rt.array = a
  BY TableOfFields
<1>2. k # Nil
  BY DEF IsKey
<1>3. CASE ArrayIndex(k) \in DOMAIN a
  BY <1>1, <1>2, <1>3 DEF Position
<1>4. CASE ArrayIndex(k) \notin DOMAIN a
  <2> HIDE DEF rt
  <2>1. Position(rt, k) = IF Bucket(rt, k) = 0 THEN NotFound ELSE Len(a) + Bucket(rt, k)
    BY <1>1, <1>2, <1>4 DEF Position
  <2>2. \A b \in DOMAIN m : m[b].key = CanonicalKey(k) => Bucket(rt, k) = b /\ b # 0
    BY <1>4, ReadBucket DEF rt, Parts, IsMap
  <2>3. (\A b \in DOMAIN m : m[b].key # CanonicalKey(k)) => Bucket(rt, k) = 0
    BY <1>4, ReadNothing DEF rt
  <2> QED BY <1>4, <2>1, <2>2, <2>3 DEF rt
<1> QED BY <1>3, <1>4

(* The entry at a position carries a key that is found there and reads the *)
(* entry's value. *)
LEMMA EntryAt ==
  ASSUME NEW rt, WellFormed(rt), Len(rt.array) <= MaxInt, NEW p \in Positions(rt)
  PROVE  /\ p \in Nat \ {0}
         /\ IsKey(Entry(rt, p).key) /\ Position(rt, Entry(rt, p).key) = p
         /\ RawGet(rt, Entry(rt, p).key) = Entry(rt, p).v
         /\ CanonicalKey(Entry(rt, p).key) = Entry(rt, p).key
         /\ Entry(rt, p).dead => Entry(rt, p).v = Nil
<1>1. PICK a, m, c : Parts(a, m, c) /\ rt = TableOf(a, m, c)
  BY DEF WellFormed
<1>2. rt.array = a /\ rt.map = m
  BY <1>1, TableOfFields
<1>3. /\ Len(a) \in Nat /\ DOMAIN a = 1 .. Len(a) /\ Len(a) <= MaxInt
      /\ DOMAIN m \subseteq Nat \ {0} /\ MaxInt \in Nat
  BY <1>1, <1>2, ArrayFacts, Widths DEF Parts, IsMap
<1>4. p \in 1 .. Len(a) \/ \E b \in DOMAIN m : p = Len(a) + b
  BY <1>2 DEF Positions
<1>5. CASE p \in 1 .. Len(a)
  <2> DEFINE e == [key |-> Integer(p), dead |-> FALSE, v |-> a[p]]
  <2>1. Entry(rt, p) = e
    BY <1>2, <1>3, <1>5 DEF Entry
  <2>2. ArrayIndex(Integer(p)) = p /\ CanonicalKey(Integer(p)) = Integer(p) /\ p \in Nat \ {0}
    BY <1>3, <1>5, PlaceFacts
  <2>3. IsKey(Integer(p))
    BY <1>3, <1>5, Widths DEF IsKey, Integer, IsInt, Nil
  <2>4. RawGet(rt, Integer(p)) = a[p]
    BY <1>1, <1>3, <1>5, <2>2, ReadArray
  <2>5. Position(rt, Integer(p)) = p
    BY <1>1, <1>3, <1>5, <2>2, <2>3, PositionIs
  <2>6. e.key = Integer(p) /\ e.v = a[p] /\ ~ e.dead
    OBVIOUS
  <2> HIDE DEF e
  <2> QED BY <2>1, <2>2, <2>3, <2>4, <2>5, <2>6
<1>6. ASSUME NEW b \in DOMAIN m, p = Len(a) + b
      PROVE  /\ p \in Nat \ {0}
             /\ IsKey(Entry(rt, p).key) /\ Position(rt, Entry(rt, p).key) = p
             /\ RawGet(rt, Entry(rt, p).key) = Entry(rt, p).v
             /\ CanonicalKey(Entry(rt, p).key) = Entry(rt, p).key
             /\ Entry(rt, p).dead => Entry(rt, p).v = Nil
  <2>1. p \in Nat \ {0} /\ ~ (p <= Len(a)) /\ p - Len(a) = b
    BY <1>3, <1>6
  <2>2. Entry(rt, p) = m[b]
    BY <1>2, <2>1 DEF Entry
  <2>3. IsEntry(m[b]) /\ ArrayIndex(m[b].key) \notin DOMAIN a
    BY <1>1 DEF Parts, IsMap
  <2>4. IsKey(m[b].key) /\ CanonicalKey(m[b].key) = m[b].key /\ (m[b].dead => m[b].v = Nil)
    BY <2>3 DEF IsEntry
  <2>5. RawGet(rt, m[b].key) = m[b].v
    BY <1>1, <2>3, <2>4, ReadBucket
  <2>6. Position(rt, m[b].key) = Len(a) + b
    BY <1>1, <2>3, <2>4, PositionIs
  <2> QED BY <1>6, <2>1, <2>2, <2>4, <2>5, <2>6
<1> QED BY <1>4, <1>5, <1>6

(* Every key with a value has a position, where its entry is: a traversal  *)
(* that visits all positions with a value visits all keys with a value.    *)
THEOREM EveryKeyHasPosition ==
  ASSUME NEW rt, WellFormed(rt), NEW k, IsKey(k), RawGet(rt, k) # Nil
  PROVE  /\ Position(rt, k) \in Positions(rt)
         /\ Entry(rt, Position(rt, k)).v = RawGet(rt, k)
         /\ Entry(rt, Position(rt, k)).key = CanonicalKey(k)
<1>1. PICK a, m, c : Parts(a, m, c) /\ rt = TableOf(a, m, c)
  BY DEF WellFormed
<1>2. rt.array = a /\ rt.map = m
  BY <1>1, TableOfFields
<1>3. Len(a) \in Nat /\ DOMAIN a = 1 .. Len(a) /\ DOMAIN m \subseteq Nat \ {0}
  BY <1>1, ArrayFacts DEF Parts, IsMap
<1>4. CASE ArrayIndex(k) \in DOMAIN a
  <2> DEFINE i == ArrayIndex(k)
  <2>1. Position(rt, k) = i
    BY <1>1, <1>4, PositionIs
  <2>2. i \in 1 .. Len(a) /\ CanonicalKey(k) = Integer(i)
    BY <1>3, <1>4, IndexFacts
  <2>3. RawGet(rt, k) = a[i]
    BY <1>1, <1>4, ReadArray
  <2> HIDE DEF i
  <2>4. Entry(rt, i) = [key |-> Integer(i), dead |-> FALSE, v |-> a[i]]
    BY <1>2, <1>3, <2>2 DEF Entry
  <2>5. i \in Positions(rt)
    BY <1>2, <2>2 DEF Positions
  <2> QED BY <2>1, <2>2, <2>3, <2>4, <2>5
<1>5. CASE ArrayIndex(k) \notin DOMAIN a
  <2>1. PICK b \in DOMAIN m : m[b].key = CanonicalKey(k)
    BY <1>1, <1>5, ReadNothing
  <2>2. Position(rt, k) = Len(a) + b /\ RawGet(rt, k) = m[b].v
    BY <1>1, <1>5, <2>1, PositionIs, ReadBucket
  <2>3. ~ (Len(a) + b <= Len(a)) /\ (Len(a) + b) - Len(a) = b
    BY <1>3
  <2>4. Entry(rt, Len(a) + b) = m[b] /\ Len(a) + b \in Positions(rt)
    BY <1>2, <2>3 DEF Entry, Positions
  <2> QED BY <2>1, <2>2, <2>4
<1> QED BY <1>4, <1>5

(* RawTable::next: the entry that follows a position is the nearest later  *)
(* one that has a value; its key is alive, reads the entry's value, and is *)
(* found at its position again, so that the traversal goes on from there;  *)
(* 0 is returned only when no later entry has a value.                     *)
THEOREM NextCorrect ==
  ASSUME NEW rt, WellFormed(rt), Len(rt.array) <= MaxInt, NEW p \in Nat
  PROVE  LET q == NextPosition(rt, p)
             e == Entry(rt, q)
         IN  IF q = 0 THEN \A s \in Positions(rt) : s > p => Entry(rt, s).v = Nil
             ELSE /\ q \in Positions(rt) /\ q > p /\ e.v # Nil /\ ~ e.dead
                  /\ \A s \in Positions(rt) : s > p /\ s < q => Entry(rt, s).v = Nil
                  /\ IsKey(e.key) /\ RawGet(rt, e.key) = e.v /\ Position(rt, e.key) = q
<1> DEFINE later == {s \in Positions(rt) : s > p /\ Entry(rt, s).v # Nil}
           q == NextPosition(rt, p)
<1>1. q = IF later = {} THEN 0 ELSE Min(later)
  BY DEF NextPosition
<1>2. Positions(rt) \subseteq Nat \ {0}
  BY EntryAt
<1>3. CASE later = {}
  <2>1. \A s \in Positions(rt) : s > p => Entry(rt, s).v = Nil
    BY <1>3
  <2> QED BY <1>1, <1>3, <2>1
<1>4. CASE later # {}
  <2>1. later \in SUBSET Nat
    BY <1>2
  <2> HIDE DEF later, q
  <2>2. q \in later /\ \A y \in later : q <= y
    BY <1>1, <1>4, <2>1, LeastMember
  <2>3. q \in Positions(rt) /\ q > p /\ Entry(rt, q).v # Nil
    BY <2>2 DEF later
  <2>4. \A s \in Positions(rt) : s > p /\ s < q => Entry(rt, s).v = Nil
    <3> SUFFICES ASSUME NEW s \in Positions(rt), s > p, s < q, Entry(rt, s).v # Nil PROVE FALSE
      OBVIOUS
    <3>1. s \in later
      BY DEF later
    <3>2. q <= s /\ s \in Nat /\ q \in Nat
      BY <1>2, <2>2, <2>3, <3>1
    <3> QED BY <3>2
  <2>5. /\ q # 0 /\ IsKey(Entry(rt, q).key) /\ Position(rt, Entry(rt, q).key) = q
        /\ RawGet(rt, Entry(rt, q).key) = Entry(rt, q).v
        /\ Entry(rt, q).dead => Entry(rt, q).v = Nil
    BY <2>3, EntryAt
  <2> QED BY <2>3, <2>4, <2>5 DEF q
<1> QED BY <1>3, <1>4

\* The same places for the same keys.
SameShape(rt, r) ==
    /\ Positions(r) = Positions(rt)
    /\ \A p \in Positions(rt) : Entry(r, p).key = Entry(rt, p).key
    /\ \A j : IsKey(j) => Position(r, j) = Position(rt, j)

LEMMA ShapeOfParts ==
  ASSUME NEW a, NEW m, NEW c, Parts(a, m, c), NEW z, NEW y, NEW d, Parts(z, y, d),
         DOMAIN z = DOMAIN a, Len(z) = Len(a), DOMAIN y = DOMAIN m,
         \A b \in DOMAIN m : y[b].key = m[b].key
  PROVE  SameShape(TableOf(a, m, c), TableOf(z, y, d))
<1> DEFINE rt == TableOf(a, m, c)
           r == TableOf(z, y, d)
<1>1. rt.array = a /\ rt.map = m /\ r.array = z /\ r.map = y
  BY TableOfFields
<1>2. Len(a) \in Nat /\ DOMAIN a = 1 .. Len(a) /\ DOMAIN m \subseteq Nat \ {0}
  BY ArrayFacts DEF Parts, IsMap
<1>3. ASSUME NEW j, IsKey(j) PROVE Position(r, j) = Position(rt, j)
  <2>1. CASE ArrayIndex(j) \in DOMAIN a
    BY <1>3, <2>1, PositionIs
  <2>2. CASE ArrayIndex(j) \notin DOMAIN a /\ \E b \in DOMAIN m : m[b].key = CanonicalKey(j)
    <3>1. PICK b \in DOMAIN m : m[b].key = CanonicalKey(j)
      BY <2>2
    <3>2. Position(rt, j) = Len(a) + b
      BY <1>3, <2>2, <3>1, PositionIs
    <3>3. Position(r, j) = Len(z) + b
      <4>1. b \in DOMAIN y /\ y[b].key = CanonicalKey(j) /\ ArrayIndex(j) \notin DOMAIN z
        BY <2>2, <3>1
      <4> QED BY <1>3, <4>1, PositionIs
    <3> QED BY <3>2, <3>3
  <2>3. CASE ArrayIndex(j) \notin DOMAIN a /\ \A b \in DOMAIN m : m[b].key # CanonicalKey(j)
    <3>1. Position(rt, j) = NotFound
      BY <1>3, <2>3, PositionIs
    <3>2. Position(r, j) = NotFound
      <4>1. (\A b \in DOMAIN y : y[b].key # CanonicalKey(j)) /\ ArrayIndex(j) \notin DOMAIN z
        BY <2>3
      <4> QED BY <1>3, <4>1, PositionIs
    <3> QED BY <3>1, <3>2
  <2> QED BY <2>1, <2>2, <2>3
<1> HIDE DEF rt, r
<1>4. Positions(r) = Positions(rt)
  BY <1>1 DEF Positions
<1>5. ASSUME NEW p \in Positions(rt) PROVE Entry(r, p).key = Entry(rt, p).key
  <2>1. p \in 1 .. Len(a) \/ \E b \in DOMAIN m : p = Len(a) + b
    BY <1>1 DEF Positions
  <2>2. CASE p \in 1 .. Len(a)
    BY <1>1, <1>2, <2>2 DEF Entry
  <2>3. ASSUME NEW b \in DOMAIN m, p = Len(a) + b PROVE Entry(r, p).key = Entry(rt, p).key
    <3>1. ~ (p <= Len(a)) /\ p - Len(a) = b
      BY <1>2, <2>3
    <3>2. Entry(rt, p) = m[b] /\ Entry(r, p) = y[b]
      BY <1>1, <3>1 DEF Entry
    <3> QED BY <3>2
  <2> QED BY <2>1, <2>2, <2>3
<1>6. SameShape(rt, r)
  BY <1>3, <1>4, <1>5 DEF SameShape
<1> QED BY <1>6 DEF rt, r

(* What a traversal relies on while the table changes under it: assigning to *)
(* a key that is there, and removing any key, moves nothing, so that every   *)
(* key keeps its position, the one removed included, and next goes on.       *)
THEOREM TraversalStable ==
  ASSUME NEW rt, WellFormed(rt), NEW k, IsKey(k), NEW v, Position(rt, k) # NotFound \/ v = Nil
  PROVE  SameShape(rt, RawSet(rt, k, v))
<1>1. PICK a, m, c : Parts(a, m, c) /\ rt = TableOf(a, m, c)
  BY DEF WellFormed
<1> DEFINE i == ArrayIndex(k)
           b == Bucket(rt, k)
           e == [key |-> CanonicalKey(k), dead |-> FALSE, v |-> v]
<1>2. rt.array = a /\ rt.map = m
  BY <1>1, TableOfFields
<1>3. IsArray(a) /\ IsMap(m)
  BY <1>1 DEF Parts
<1>4. IF b = 0 THEN \A d \in DOMAIN m : m[d].key # CanonicalKey(k)
      ELSE b \in DOMAIN m /\ m[b].key = CanonicalKey(k)
  BY <1>1, BucketFound
<1>5. CASE i \in DOMAIN a
  <2> DEFINE z == [a EXCEPT ![i] = v]
  <2>1. RawSet(rt, k, v) = [rt EXCEPT !.array[i] = v]
    BY <1>2, <1>5 DEF RawSet
  <2>2. [rt EXCEPT !.array[i] = v] = TableOf(z, m, c)
    BY <1>1 DEF TableOf
  <2>3. Parts(z, m, c)
    BY <1>1, <1>5, SetElement
  <2>4. DOMAIN z = DOMAIN a /\ Len(z) = Len(a)
    BY <1>3, <1>5, ArrayExcept
  <2> HIDE DEF z
  <2>5. SameShape(TableOf(a, m, c), TableOf(z, m, c))
    BY <1>1, <2>3, <2>4, ShapeOfParts
  <2> QED BY <1>1, <2>1, <2>2, <2>5
<1>6. ASSUME i \notin DOMAIN a, b # 0, NEW x, IsEntry(x), x.key = CanonicalKey(k),
             RawSet(rt, k, v) = [rt EXCEPT !.map[b] = x]
      PROVE  SameShape(rt, RawSet(rt, k, v))
  <2> DEFINE y == [m EXCEPT ![b] = x]
  <2>1. [rt EXCEPT !.map[b] = x] = TableOf(a, y, c)
    BY <1>1 DEF TableOf
  <2>2. DOMAIN y = DOMAIN m /\ \A d \in DOMAIN m : y[d] = IF d = b THEN x ELSE m[d]
    BY <1>3, <1>4, <1>6, MapReplace
  <2>3. Parts(a, y, c)
    BY <1>1, <1>4, <1>6, SetInBucket
  <2> HIDE DEF y
  <2>4. \A d \in DOMAIN m : y[d].key = m[d].key
    BY <1>4, <1>6, <2>2
  <2>5. SameShape(TableOf(a, m, c), TableOf(a, y, c))
    BY <1>1, <2>2, <2>3, <2>4, ShapeOfParts
  <2> QED BY <1>1, <1>6, <2>1, <2>5
<1>7. CASE i \notin DOMAIN a /\ b # 0 /\ v = Nil
  <2>1. RawSet(rt, k, v) = [rt EXCEPT !.map[b] = Kill(m[b])]
    BY <1>2, <1>7 DEF RawSet
  <2>2. IsEntry(Kill(m[b])) /\ Kill(m[b]).key = CanonicalKey(k)
    BY <1>3, <1>4, <1>7, KillFacts DEF IsMap
  <2> HIDE DEF b
  <2> QED BY <1>6, <1>7, <2>1, <2>2
<1>8. CASE i \notin DOMAIN a /\ b # 0 /\ v # Nil
  <2>1. RawSet(rt, k, v) = [rt EXCEPT !.map[b] = e]
    BY <1>2, <1>8 DEF RawSet
  <2>2. IsEntry(e) /\ e.key = CanonicalKey(k)
    BY EntryFacts
  <2> HIDE DEF b, e
  <2> QED BY <1>6, <1>8, <2>1, <2>2
<1>9. CASE i \notin DOMAIN a /\ b = 0
  <2>1. Position(rt, k) = NotFound
    BY <1>1, <1>4, <1>9, PositionIs
  <2>2. RawSet(rt, k, v) = rt
    BY <1>2, <1>9, <2>1 DEF RawSet
  <2> QED BY <2>2 DEF SameShape
<1> QED BY <1>5, <1>7, <1>8, <1>9

-----------------------------------------------------------------------------
(* What the code relies on *)

(* A table that is well formed is what the code that reads it relies on: one *)
(* place for a key, no value under a dead key, no more entries than the      *)
(* capacity, a border for its length.  NewTableCorrect, SetCorrect,          *)
(* ReserveThroughCorrect and ReserveMapCorrect make it so for every table    *)
(* that these operations reach.                                              *)
THEOREM WellFormedIsReliedOn ==
  ASSUME NEW rt, WellFormed(rt), Len(rt.array) < MaxInt
  PROVE  ReliedOn(rt)
<1>1. PICK a, m, c : Parts(a, m, c) /\ rt = TableOf(a, m, c)
  BY DEF WellFormed
<1>2. rt.array = a /\ rt.map = m /\ rt.cap = c
  BY <1>1, TableOfFields
<1>3. OnePlace(rt)
  BY <1>1, <1>2 DEF OnePlace, Parts, IsMap
<1>4. DeadIsNil(rt)
  BY <1>1, <1>2 DEF DeadIsNil, Parts, IsMap, IsEntry
<1>5. MapLen(rt) <= rt.cap
  BY <1>1, <1>2 DEF MapLen, Parts
<1>6. \A b \in DOMAIN rt.map : ValidKey(rt.map[b].key)
  BY <1>1, <1>2 DEF Parts, IsMap, IsEntry, IsKey, ValidKey
<1> QED BY <1>3, <1>4, <1>5, <1>6, LengthCorrect DEF ReliedOn

=============================================================================
