--------------------------- MODULE WasiAllocProofs ---------------------------
(***************************************************************************)
(* What operator new of WasiAlloc guarantees for every width of size_t,     *)
(* every heap, every size and every alignment.                              *)
(***************************************************************************)
EXTENDS WasiAlloc, TLAPS

\* The rest of a division: what taking it away leaves is a multiple.
LEMMA Multiple ==
  ASSUME NEW n \in Nat, NEW a \in Nat \ {0}
  PROVE  (n % a) \in 0 .. a - 1 /\ n - (n % a) \in 0 .. n
         /\ (n - (n % a)) % a = 0
<1>1. n = a * (n \div a) + (n % a) /\ (n % a) \in 0 .. a - 1 /\ n \div a \in Nat
  OBVIOUS
<1>2. n - (n % a) = a * (n \div a)
  BY <1>1
<1>3. a * (n \div a) \in Nat
  BY <1>1
<1>4. (a * (n \div a)) % a = 0
  BY <1>1
<1> QED
  BY <1>1, <1>2, <1>3, <1>4

\* Rounded gives a size_t that is a multiple of the alignment, and unless the
\* sum wraps it is the least one that is not below the size.
LEMMA RoundedMultiple ==
  ASSUME NEW size \in Nat, NEW align \in Nat \ {0}
  PROVE  /\ Rounded(size, align) \in 0 .. SizeMax
         /\ Rounded(size, align) % align = 0
         /\ size + align - 1 <= SizeMax
              => /\ size <= Rounded(size, align)
                 /\ Rounded(size, align) <= size + align - 1
<1> DEFINE sum == Wrap(size + align - 1)
<1>1. sum \in 0 .. SizeMax
  BY SizeAssumption DEF Wrap
<1>2. size + align - 1 <= SizeMax => sum = size + align - 1
  BY SizeAssumption DEF Wrap
<1>3. Rounded(size, align) = sum - (sum % align)
  BY DEF Rounded
<1>4. /\ (sum % align) \in 0 .. align - 1 /\ sum - (sum % align) \in 0 .. sum
      /\ (sum - (sum % align)) % align = 0
  BY <1>1, Multiple
<1> HIDE DEF sum
<1> QED
  BY <1>1, <1>2, <1>3, <1>4, SizeAssumption

\* Divisibility is transitive.
LEMMA Divides ==
  ASSUME NEW p \in Nat, NEW b \in Nat \ {0}, NEW a \in Nat \ {0},
         p % b = 0, b % a = 0
  PROVE  p % a = 0
<1>1. p = b * (p \div b) /\ p \div b \in Nat
  OBVIOUS
<1>2. b = a * (b \div a) /\ b \div a \in Nat
  OBVIOUS
<1>3. PICK k \in Nat, m \in Nat : p = b * k /\ b = a * m
  BY <1>1, <1>2
<1>4. p = a * (m * k) /\ m * k \in Nat
  BY <1>3
<1>5. \A x \in Nat : (a * x) % a = 0
  OBVIOUS
<1> QED
  BY <1>4, <1>5

LEMMA AlignForType ==
  ASSUME NEW align \in Aligns
  PROVE  /\ align \in Nat \ {0} /\ AlignFor(align) \in Nat \ {0}
         /\ AlignFor(align) % align = 0
<1>1. align \in Nat \ {0} /\ PtrSize \in Nat \ {0}
  BY AlignAssumption
<1>2. align % align = 0
  BY <1>1
<1> QED
  BY <1>1, <1>2, AlignAssumption DEF AlignFor, AtLeast

LEMMA AtLeastOneType ==
  ASSUME NEW size \in Sizes
  PROVE  /\ AtLeastOne(size) \in 1 .. SizeMax /\ size <= AtLeastOne(size)
         /\ size \in 0 .. SizeMax
BY SizeAssumption DEF AtLeastOne, AtLeast

IInv == TypeOK /\ MultipleOfAlign /\ BlockHolds

\* A request to the C heap with the right numbers keeps the invariant.
LEMMA TakeKeeps ==
  ASSUME IInv, NEW fn \in {"malloc", "aligned_alloc"},
         NEW align \in Nat \ {0}, NEW n \in 0 .. SizeMax,
         NEW asked \in 0 .. SizeMax, NEW wanted \in Nat \ {0},
         NEW throwing \in BOOLEAN,
         fn = "aligned_alloc" => n % align = 0,
         align % wanted = 0,
         asked + AlignFor(wanted) - 1 <= SizeMax => asked <= n,
         Take(fn, align, n, asked, wanted, throwing)
  PROVE  IInv'
<1>1. request' = [fn |-> fn, align |-> align, size |-> n, asked |-> asked]
  BY DEF Take
<1>2. outcome' \in {"returned", "null", "bad_alloc"}
  BY DEF Take, Refused
<1>3. ASSUME NEW b \in live'
      PROVE  /\ b \in Blocks
             /\ b.asked + AlignFor(b.wanted) - 1 <= SizeMax => Holds(b)
  <2>1. CASE b \in live
    BY <2>1 DEF IInv, TypeOK, BlockHolds
  <2>2. CASE b \notin live
    <3>1. PICK p \in Room(align, n) :
             b = [at |-> p, len |-> n, asked |-> asked, wanted |-> wanted]
      BY <2>2, <1>3 DEF Take
    <3>2. p \in 1 .. HeapEnd /\ p % align = 0
      BY <3>1 DEF Room
    <3>3. p \in Nat /\ p % wanted = 0
      BY <3>2, Divides, BoundAssumption
    <3> QED
      BY <3>1, <3>2, <3>3 DEF Blocks, Holds
  <2> QED
    BY <2>1, <2>2
<1>4. TypeOK'
  BY <1>1, <1>2, <1>3 DEF TypeOK
<1>5. MultipleOfAlign'
  BY <1>1 DEF MultipleOfAlign
<1>6. BlockHolds'
  BY <1>3 DEF BlockHolds
<1> QED
  BY <1>4, <1>5, <1>6 DEF IInv

LEMMA Invariance == Spec => []IInv
<1>1. Init => IInv
  BY SizeAssumption, AlignAssumption
  DEF Init, IInv, TypeOK, MultipleOfAlign, BlockHolds
<1>2. IInv /\ [Next]_vars => IInv'
  <2> SUFFICES ASSUME IInv, [Next]_vars PROVE IInv'
    OBVIOUS
  <2>1. ASSUME NEW size \in Sizes, NEW throwing \in BOOLEAN,
               New(size, throwing)
        PROVE  IInv'
    <3>1. HeapAlign \in Nat \ {0} /\ HeapAlign % HeapAlign = 0
      BY AlignAssumption
    <3>2. Take("malloc", HeapAlign, AtLeastOne(size), size, HeapAlign, throwing)
      BY <2>1 DEF New
    <3>3. AtLeastOne(size) \in 0 .. SizeMax /\ size <= AtLeastOne(size)
          /\ size \in 0 .. SizeMax
      BY AtLeastOneType, SizeAssumption
    <3> QED
      BY <3>1, <3>2, <3>3, TakeKeeps
  <2>2. ASSUME NEW size \in Sizes, NEW align \in Aligns,
               NEW throwing \in BOOLEAN, NewAligned(size, align, throwing)
        PROVE  IInv'
    <3> DEFINE n == Rounded(AtLeastOne(size), AlignFor(align))
    <3>1. Take("aligned_alloc", AlignFor(align), n, size, align, throwing)
      BY <2>2 DEF NewAligned
    <3>2. /\ align \in Nat \ {0} /\ AlignFor(align) \in Nat \ {0}
          /\ AlignFor(align) % align = 0
      BY AlignForType
    <3>3. /\ AtLeastOne(size) \in 1 .. SizeMax /\ size <= AtLeastOne(size)
          /\ size \in 0 .. SizeMax
      BY AtLeastOneType
    <3>4. AtLeastOne(size) \in Nat
      BY <3>3, SizeAssumption
    <3>5. n \in 0 .. SizeMax /\ n % AlignFor(align) = 0
      BY <3>2, <3>4, RoundedMultiple
    <3>6. AtLeastOne(size) + AlignFor(align) - 1 <= SizeMax
            => AtLeastOne(size) <= n
      BY <3>2, <3>4, RoundedMultiple
    <3>7. size + AlignFor(align) - 1 <= SizeMax => size <= n
      <4>1. CASE size = 0
        BY <4>1, <3>5, SizeAssumption
      <4>2. CASE size # 0
        <5>1. AtLeastOne(size) = size
          BY <4>2, <3>3, SizeAssumption DEF AtLeastOne, AtLeast
        <5> QED
          BY <5>1, <3>6
      <4> QED
        BY <4>1, <4>2
    <3> HIDE DEF n
    <3> QED
      BY <3>1, <3>2, <3>3, <3>5, <3>7, TakeKeeps
  <2>3. ASSUME NEW b \in live, Delete(b) PROVE IInv'
    <3>1. live' \subseteq live /\ request' = request /\ outcome' = "returned"
      BY <2>3 DEF Delete
    <3> QED
      BY <3>1 DEF IInv, TypeOK, MultipleOfAlign, BlockHolds, Holds
  <2>4. CASE UNCHANGED vars
    BY <2>4 DEF vars, IInv, TypeOK, MultipleOfAlign, BlockHolds
  <2> QED
    BY <2>1, <2>2, <2>3, <2>4 DEF Next
<1> QED
  BY <1>1, <1>2, PTL DEF Spec

\* Sizes stay sizes, addresses inside the heap (every operator new).
THEOREM TypeCorrect == Spec => []TypeOK
<1>1. IInv => TypeOK
  BY DEF IInv
<1> QED
  BY <1>1, Invariance, PTL

\* do_alloc_aligned never breaks the rule of aligned_alloc, for no width of
\* size_t, also where its sum wraps.
THEOREM AlwaysMultiple == Spec => []MultipleOfAlign
<1>1. IInv => MultipleOfAlign
  BY DEF IInv
<1> QED
  BY <1>1, Invariance, PTL

\* Where the sum does not wrap, what operator new returns holds the bytes asked
\* for at the alignment asked for.
THEOREM BlocksHold == Spec => []BlockHolds
<1>1. IInv => BlockHolds
  BY DEF IInv
<1> QED
  BY <1>1, Invariance, PTL

------------------------------------------------------------------------------
(* A call that fails.                                                        *)

\* Where more bytes fit, fewer do.
LEMMA RoomForLess ==
  ASSUME TypeOK, NEW align \in Nat \ {0}, NEW n \in Nat, NEW m \in Nat,
         n <= m, Room(align, n) = {}
  PROVE  Room(align, m) = {}
<1> SUFFICES ASSUME NEW p \in Room(align, m) PROVE p \in Room(align, n)
  OBVIOUS
<1>1. AtLeast(1, n) \in Nat /\ AtLeast(1, m) \in Nat
      /\ AtLeast(1, n) <= AtLeast(1, m)
  BY DEF AtLeast
<1>2. p \in 1 .. HeapEnd /\ p % align = 0 /\ p + AtLeast(1, m) - 1 <= HeapEnd
  BY DEF Room
<1>3. p + AtLeast(1, n) - 1 <= HeapEnd
  BY <1>1, <1>2, BoundAssumption
<1>4. ASSUME NEW b \in live
      PROVE  p + AtLeast(1, n) <= b.at \/ b.at + AtLeast(1, b.len) <= p
  <2>1. p + AtLeast(1, m) <= b.at \/ b.at + AtLeast(1, b.len) <= p
    BY DEF Room
  <2>2. b.at \in 1 .. HeapEnd
    BY DEF TypeOK, Blocks
  <2> QED
    BY <2>1, <2>2, <1>1, <1>2, BoundAssumption
<1> QED
  BY <1>2, <1>3, <1>4 DEF Room

\* More bytes than the heap has fit nowhere.
LEMMA RoomForTooMuch ==
  ASSUME NEW align \in Nat \ {0}, NEW n \in Nat, n > HeapEnd
  PROVE  Room(align, n) = {}
BY BoundAssumption DEF Room, AtLeast

\* A failing request of the operators, for n bytes on behalf of asked: there was
\* no room for asked bytes and the alignment, which is n at least, or more than
\* the heap has.
LEMMA FailsForWantOfRoom ==
  ASSUME TypeOK, NEW fn, NEW align \in Nat \ {0}, NEW n \in 0 .. SizeMax,
         NEW asked \in 0 .. SizeMax, NEW wanted, NEW throwing,
         asked + align <= SizeMax => n \in 1 .. asked + align,
         Take(fn, align, n, asked, wanted, throwing),
         outcome' \in {"null", "bad_alloc"}
  PROVE  Room(request'.align, request'.asked + request'.align) = {}
<1>1. request'.align = align /\ request'.asked = asked
  BY DEF Take
<1>2. n \in Nat /\ asked + align \in Nat
  BY SizeAssumption
<1>3. CASE asked + align <= SizeMax
  <2>1. n # 0 /\ n <= asked + align
    BY <1>2, <1>3
  <2>2. Room(align, n) = {}
    BY <2>1 DEF Take, HeapMay
  <2> QED
    BY <1>1, <1>2, <2>1, <2>2, RoomForLess
<1>4. CASE asked + align > SizeMax
  <2>1. asked + align > HeapEnd
    BY <1>2, <1>4, HeapAssumption, BoundAssumption, SizeAssumption
  <2> QED
    BY <1>1, <1>2, <2>1, RoomForTooMuch
<1> QED
  BY <1>2, <1>3, <1>4, SizeAssumption

\* No operator new fails while the heap has room for the bytes and the alignment
\* asked for: not for an empty request, and not because rounding wrapped, which
\* it does for requests larger than the heap only.
THEOREM FailsOnlyWhenFull == Spec => NoSpuriousFailure
<1>1. TypeOK /\ [Next]_vars
        => [outcome' \in {"null", "bad_alloc"} =>
              Room(request'.align, request'.asked + request'.align) = {}]_vars
  <2> SUFFICES ASSUME TypeOK, Next, outcome' \in {"null", "bad_alloc"}
               PROVE  Room(request'.align, request'.asked + request'.align) = {}
    OBVIOUS
  <2>1. ASSUME NEW size \in Sizes, NEW throwing \in BOOLEAN,
               New(size, throwing)
        PROVE  Room(request'.align, request'.asked + request'.align) = {}
    <3>1. Take("malloc", HeapAlign, AtLeastOne(size), size, HeapAlign, throwing)
      BY <2>1 DEF New
    <3>2. AtLeastOne(size) \in 1 .. SizeMax /\ size \in 0 .. SizeMax
      BY AtLeastOneType
    <3>3. HeapAlign \in Nat \ {0}
      BY AlignAssumption
    <3>4. AtLeastOne(size) \in 1 .. size + HeapAlign
      BY <3>2, <3>3, SizeAssumption DEF AtLeastOne, AtLeast
    <3> QED
      BY <3>1, <3>2, <3>3, <3>4, FailsForWantOfRoom, SizeAssumption
  <2>2. ASSUME NEW size \in Sizes, NEW align \in Aligns,
               NEW throwing \in BOOLEAN, NewAligned(size, align, throwing)
        PROVE  Room(request'.align, request'.asked + request'.align) = {}
    <3> DEFINE s == AtLeastOne(size)
               a == AlignFor(align)
               n == Rounded(s, a)
    <3>1. Take("aligned_alloc", a, n, size, align, throwing)
      BY <2>2 DEF NewAligned
    <3>2. s \in 1 .. SizeMax /\ size \in 0 .. SizeMax
      BY AtLeastOneType
    <3>3. a \in Nat \ {0}
      BY AlignForType
    <3>4. s <= size + 1
      BY <3>2, SizeAssumption DEF AtLeastOne, AtLeast
    <3> HIDE DEF s, a
    <3>5. n \in 0 .. SizeMax /\ (s + a - 1 <= SizeMax => s <= n /\ n <= s + a - 1)
      BY <3>2, <3>3, SizeAssumption, RoundedMultiple
    <3> HIDE DEF n
    <3>6. size + a <= SizeMax => n \in 1 .. size + a
      BY <3>2, <3>3, <3>4, <3>5, SizeAssumption
    <3> QED
      BY <3>1, <3>2, <3>3, <3>5, <3>6, FailsForWantOfRoom
  <2>3. ASSUME NEW b \in live, Delete(b) PROVE FALSE
    BY <2>3 DEF Delete
  <2> QED
    BY <2>1, <2>2, <2>3 DEF Next
<1> QED
  BY <1>1, TypeCorrect, PTL DEF Spec, NoSpuriousFailure
==============================================================================
