------------------------------ MODULE WasiAlloc ------------------------------
(***************************************************************************)
(* operator new and delete of wasi-operator-new.cpp over the C heap of the  *)
(* embedding.  An action is one call of an operator, the malloc,            *)
(* aligned_alloc or free it makes included.  Sizes are size_t: arithmetic   *)
(* is modulo SizeMax + 1.                                                   *)
(***************************************************************************)
EXTENDS Integers, FiniteSets

CONSTANTS
  SizeMax,       \* SIZE_MAX
  PtrSize,       \* sizeof(void *)
  HeapAlign,     \* alignment of a block of malloc
  HeapEnd,       \* bound: the heap is the addresses 1 .. HeapEnd
  Sizes,         \* sizes the C++ code asks for
  Aligns,        \* alignments it asks for: std::align_val_t
  MaxLive        \* bound: blocks allocated at a time

ASSUME SizeAssumption  ==
  SizeMax \in Nat \ {0} /\ Sizes \subseteq 0 .. SizeMax
ASSUME AlignAssumption ==
  /\ PtrSize \in Nat \ {0} /\ HeapAlign \in Nat \ {0}
  /\ Aligns \subseteq Nat \ {0}
  /\ \A a \in Aligns : a < PtrSize => PtrSize % a = 0   \* powers of two
ASSUME BoundAssumption == HeapEnd \in Nat /\ MaxLive \in Nat
ASSUME HeapAssumption  == HeapEnd <= SizeMax   \* an address fits in a size_t

VARIABLES
  live,          \* the blocks allocated
  request,       \* the latest request to the C heap: [fn, align, size, asked]
  outcome        \* of the latest call: "returned", "null" or "bad_alloc"

vars == <<live, request, outcome>>

\* asked, wanted: size and alignment of the C++ code; len: of the C heap.
Blocks == [at : 1 .. HeapEnd, len : 0 .. SizeMax,
           asked : 0 .. SizeMax, wanted : Nat \ {0}]

Wrap(n) == n % (SizeMax + 1)

Init ==
  /\ live = {} /\ outcome = "returned"
  /\ request = [fn |-> "malloc", align |-> HeapAlign, size |-> 0,
                 asked |-> 0]

------------------------------------------------------------------------------
(* The C heap. *)

AtLeast(m, n) == IF n < m THEN m ELSE n

\* Where a block of n bytes, or the byte of an empty one, fits.
Room(align, n) ==
  {p \in 1 .. HeapEnd :
     /\ p % align = 0 /\ p + AtLeast(1, n) - 1 <= HeapEnd
     /\ \A b \in live : \/ p + AtLeast(1, n) <= b.at
                        \/ b.at + AtLeast(1, b.len) <= p}

\* malloc and aligned_alloc refuse what does not fit; of nothing they may
\* return the address of an empty block or null.
HeapMay(align, n, granted) ==
  IF granted THEN Room(align, n) # {} ELSE n = 0 \/ Room(align, n) = {}

------------------------------------------------------------------------------
(* operator new. *)

\* Faulty variant: malloc is asked for 0 bytes.
PassedOn(size)   == size
AtLeastOne(size) == AtLeast(1, size)

AlignFor(align)  == AtLeast(PtrSize, align)

\* n & ~(align - 1) for a power of two.
\* Faulty variants: rounded down; not at all.
RoundedDown(size, align)  == size - (size % align)
RoundedNever(size, align) == size
Rounded(size, align) ==
  LET sum == Wrap(size + align - 1) IN sum - (sum % align)

\* What the throwing and the nothrow operators make of a null pointer.
Refused(throwing) == IF throwing THEN "bad_alloc" ELSE "null"

\* fn is asked for n bytes, aligned to align, on behalf of a request for asked
\* bytes aligned to wanted.
Take(fn, align, n, asked, wanted, throwing) ==
  /\ request' = [fn |-> fn, align |-> align, size |-> n, asked |-> asked]
  /\ \/ /\ HeapMay(align, n, TRUE) /\ outcome' = "returned"
        /\ \E p \in Room(align, n) :
             live' = live \cup
                     {[at |-> p, len |-> n, asked |-> asked, wanted |-> wanted]}
     \/ /\ HeapMay(align, n, FALSE) /\ outcome' = Refused(throwing)
        /\ UNCHANGED live

New(size, throwing) ==
  /\ Cardinality(live) < MaxLive
  /\ Take("malloc", HeapAlign, AtLeastOne(size), size, HeapAlign, throwing)

NewAligned(size, align, throwing) ==
  /\ Cardinality(live) < MaxLive
  /\ Take("aligned_alloc", AlignFor(align),
          Rounded(AtLeastOne(size), AlignFor(align)), size, align,
          throwing)

\* Every overload of operator delete is free; of a null pointer it is nothing.
Delete(b) ==
  /\ b \in live
  /\ live' = live \ {b} /\ outcome' = "returned" /\ UNCHANGED request

Next ==
  \/ \E size \in Sizes, throwing \in BOOLEAN : New(size, throwing)
  \/ \E size \in Sizes, align \in Aligns, throwing \in BOOLEAN :
       NewAligned(size, align, throwing)
  \/ \E b \in live : Delete(b)

Spec == Init /\ [][Next]_vars

------------------------------------------------------------------------------
TypeOK ==
  /\ live \subseteq Blocks
  /\ request \in [fn : {"malloc", "aligned_alloc"}, align : Nat \ {0},
                 size : 0 .. SizeMax, asked : 0 .. SizeMax]
  /\ outcome \in {"returned", "null", "bad_alloc"}

\* "C aligned_alloc requires size to be a multiple of alignment": so do the
\* requests of do_alloc_aligned, also where size + align - 1 wraps.
MultipleOfAlign ==
  request.fn = "aligned_alloc" => request.size % request.align = 0

Holds(b) == b.asked <= b.len /\ b.at % b.wanted = 0

\* A block that operator new returned holds the bytes asked for, at an address
\* with the alignment asked for, unless rounding its size up to the alignment
\* wrapped (do_alloc, do_alloc_aligned).
BlockHolds ==
  \A b \in live : b.asked + AlignFor(b.wanted) - 1 <= SizeMax => Holds(b)

\* No call fails while the heap has room for the bytes asked for and the
\* alignment together, an empty block included: malloc(0) may be null, and
\* `size ? size : 1` never asks for it.
NoSpuriousFailure ==
  [][outcome' \in {"null", "bad_alloc"} =>
       Room(request'.align, request'.asked + request'.align) = {}]_vars
==============================================================================
