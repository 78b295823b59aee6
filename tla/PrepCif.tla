-------------------------------- MODULE PrepCif --------------------------------
(***************************************************************************)
(* The portable half of libffi-wasi: ffi_prep_cif, ffi_prep_cif_var and     *)
(* ffi_get_struct_offsets (prep_cif.c) over the wasm32 back end (ffi.c).    *)
(* The caller owns the struct types and one ffi_cif, and may go on using    *)
(* them after a call that failed.  A type of size 0 is one whose layout is  *)
(* still to be computed; initialize_aggregate does that, calling itself for *)
(* elements that are in the same case.  Its frames are `stack` and `next`.  *)
(* Sizes are naturals: sums of element sizes stay far below 2^32.           *)
(***************************************************************************)
EXTENDS Naturals, Sequences

CONSTANTS
  Structs,      \* the struct types the caller has made
  NoElements,   \* elements = NULL
  Shapes,       \* the elements the structs may have
  Rank,         \* no struct contains itself: elements have a smaller rank
  Calls,        \* the calls the caller may make
  MaxArgs       \* MAX_ARGS, 1024 in the code

\* The predefined types, and a record of the caller's own with type
\* FFI_TYPE_COMPLEX, which this target does not define.
Scalar == [void    |-> [size |-> 1,  alignment |-> 1],
           uint8   |-> [size |-> 1,  alignment |-> 1],
           sint16  |-> [size |-> 2,  alignment |-> 2],
           sint32  |-> [size |-> 4,  alignment |-> 4],
           float   |-> [size |-> 4,  alignment |-> 4],
           double  |-> [size |-> 8,  alignment |-> 8],
           longdouble |-> [size |-> 16, alignment |-> 16],
           complex |-> [size |-> 8,  alignment |-> 4]]
Scalars == DOMAIN Scalar
Types   == Structs \cup Scalars

Abis == {"FIRST_ABI", "WASM32", "LAST_ABI"}

ASSUME StructsAssumption == Structs \cap Scalars = {}
ASSUME ShapesAssumption  ==
  Shapes \subseteq [Structs -> Seq(Types) \cup {NoElements}]
ASSUME NoElementsAssumption == NoElements \notin Seq(Types)
ASSUME RankAssumption ==
  /\ Rank \in [Structs -> Nat]
  /\ \A s \in Shapes, t \in Structs : s[t] # NoElements =>
       \A k \in 1 .. Len(s[t]) : s[t][k] \in Structs => Rank[s[t][k]] < Rank[t]
\* fn: the function called; for "offsets" only abi and rtype, the struct, count.
ASSUME CallsAssumption   ==
  Calls \subseteq [fn : {"prep", "var", "offsets"}, abi : Abis, nfixed : Nat,
                   rtype : Types, atypes : Seq(Types)]
ASSUME MaxArgsAssumption == MaxArgs \in Nat

VARIABLES
  elements, size, alignment,   \* the fields of the struct types
  stack, next, back, offsets,  \* initialize_aggregate: frames, next element of
                               \* each, where the outermost returns to
  pc, call, i, bytes, rc,      \* ffi_prep_cif_core and its result
  flags, nfixedargs,           \* of the caller's ffi_cif
  spoilt                       \* types whose layout was given up half-way, and
                               \* those laid out around them

typeVars   == <<elements, size, alignment, spoilt>>
frameVars  == <<stack, next, back, offsets>>
cifVars    == <<flags, nfixedargs>>
vars == <<typeVars, frameVars, cifVars, pc, call, i, bytes, rc>>

SizeOf(t)  == IF t \in Structs THEN size[t] ELSE Scalar[t].size
AlignOf(t) == IF t \in Structs THEN alignment[t] ELSE Scalar[t].alignment

\* Faulty variant: rounds down.
FFI_ALIGN_DOWN(v, a) == IF a = 0 THEN 0 ELSE v - (v % a)

\* ((v - 1) | (a - 1)) + 1 on size_t: for a power of two a, v - 1 with its low
\* bits set, plus one.  a = 0 and v = 0 both wrap to 0.
FFI_ALIGN(v, a) == IF v = 0 \/ a = 0 THEN 0 ELSE (v - 1) - ((v - 1) % a) + a

SizeOfArg == 4
STACK_ARG_SIZE(x) == FFI_ALIGN(x, SizeOfArg)

\* Faulty variant: the last element decides.
Latter(a, b) == b
Larger(a, b) == IF a > b THEN a ELSE b
OnStack == {stack[k] : k \in 1 .. Len(stack)}
Top     == stack[Len(stack)]
NoCall  == [fn |-> "prep", abi |-> "WASM32", nfixed |-> 0, rtype |-> "void",
            atypes |-> <<>>]

Init ==
  /\ elements \in Shapes
  /\ size = [t \in Structs |-> 0] /\ alignment = [t \in Structs |-> 0]
  /\ spoilt = {}
  /\ stack = <<>> /\ next = [t \in Structs |-> 1] /\ back = "none"
  /\ offsets = <<>>
  /\ pc = "idle" /\ call = NoCall /\ i = 1 /\ bytes = 0 /\ rc = "none"
  /\ flags = {} /\ nfixedargs = 0

Goto(p)        == pc' = p /\ UNCHANGED rc
Return(status) == pc' = "idle" /\ rc' = status

------------------------------------------------------------------------------
(* initialize_aggregate.                                                     *)

\* Every frame returns FFI_BAD_TYPEDEF, and so does the function that began.
\* Types of the frames keep what was computed so far.
GiveUp ==
  /\ spoilt' = (spoilt \ OnStack) \cup {t \in OnStack : size[t] # 0}
  /\ stack' = <<>>
  /\ UNCHANGED <<size, alignment, next>>
  /\ Return("BAD_TYPEDEF")

\* Entered for t; without elements it returns before it has touched t.
Enter(t) ==
  IF elements[t] = NoElements THEN GiveUp
  ELSE /\ size' = [size EXCEPT ![t] = 0]
       /\ alignment' = [alignment EXCEPT ![t] = 0]
       /\ next' = [next EXCEPT ![t] = 1]
       /\ stack' = Append(stack, t)
       /\ Goto("layout") /\ UNCHANGED spoilt

\* The loop head: another element, laid out already or not.
NextElement ==
  /\ pc = "layout" /\ next[Top] <= Len(elements[Top])
  /\ LET e == elements[Top][next[Top]]
     IN IF SizeOf(e) = 0 THEN Enter(e)
        ELSE /\ Goto("element")
             /\ UNCHANGED <<size, alignment, next, stack, spoilt>>
  /\ UNCHANGED <<elements, back, offsets, call, i, bytes, cifVars>>

\* Faulty variant: the recursive call is given the buffer, not NULL.
WritesNested == back = "offsets"

\* Only the outermost frame of ffi_get_struct_offsets has a buffer for offsets.
WritesOffsets == back = "offsets" /\ Len(stack) = 1

PlaceElement ==
  /\ pc = "element"
  /\ LET e  == elements[Top][next[Top]]
         at == FFI_ALIGN(size[Top], AlignOf(e))
     IN /\ offsets' = IF WritesOffsets THEN Append(offsets, at) ELSE offsets
        /\ size' = [size EXCEPT ![Top] = at + SizeOf(e)]
        /\ alignment' = [alignment EXCEPT ![Top] = Larger(@, AlignOf(e))]
  /\ next' = [next EXCEPT ![Top] = @ + 1]
  /\ Goto("layout")
  /\ UNCHANGED <<elements, spoilt, stack, back, call, i, bytes, cifVars>>

\* Tail padding; a struct without size is an error.  Then the frame returns to
\* the element of the frame below, or to the function that began.
Padded == FFI_ALIGN(size[Top], alignment[Top])

EndAggregate ==
  /\ pc = "layout" /\ next[Top] > Len(elements[Top])
  /\ IF Padded = 0 THEN GiveUp
     ELSE /\ size' = [size EXCEPT ![Top] = Padded]
          /\ spoilt' = IF \E k \in 1 .. Len(elements[Top]) :
                             elements[Top][k] \in spoilt
                       THEN spoilt \cup {Top} ELSE spoilt \ {Top}
          /\ stack' = SubSeq(stack, 1, Len(stack) - 1)
          /\ IF Len(stack) > 1 THEN Goto("element")
             ELSE IF back = "offsets" THEN Return("OK")
             ELSE Goto(back)
          /\ UNCHANGED <<alignment, next>>
  /\ UNCHANGED <<elements, back, offsets, call, i, bytes, cifVars>>

------------------------------------------------------------------------------
(* The entry points.                                                         *)

Begin(c) ==
  /\ pc = "idle"
  /\ call' = c /\ i' = 1 /\ bytes' = 0 /\ offsets' = <<>>

BadAbi(c) ==
  /\ Begin(c) /\ c.abi # "WASM32"
  /\ Return("BAD_ABI")
  /\ UNCHANGED <<typeVars, stack, next, back, cifVars>>

\* Faulty variant: cif->flags is left from an earlier use of the ffi_cif.
PrepCifKeepFlags(c) ==
  /\ Begin(c) /\ c.abi = "WASM32" /\ c.fn # "offsets"
  /\ Goto("rtype")
  /\ UNCHANGED <<typeVars, stack, next, back, cifVars>>

\* ffi_prep_cif and ffi_prep_cif_var enter ffi_prep_cif_core.
PrepCif(c) ==
  /\ Begin(c) /\ c.abi = "WASM32" /\ c.fn # "offsets"
  /\ flags' = {} /\ Goto("rtype")
  /\ UNCHANGED <<typeVars, stack, next, back, nfixedargs>>

\* ffi_get_struct_offsets lays the struct out anew, whatever its size.
GetStructOffsets(c) ==
  /\ Begin(c) /\ c.abi = "WASM32" /\ c.fn = "offsets"
  /\ back' = "offsets"
  /\ IF c.rtype \in Structs THEN Enter(c.rtype)
     ELSE /\ Return("BAD_TYPEDEF")
          /\ UNCHANGED <<size, alignment, next, stack, spoilt>>
  /\ UNCHANGED <<elements, cifVars>>

\* A type of size 0 is laid out first.
LayOut(t, then, p) ==
  /\ pc = p
  /\ IF SizeOf(t) = 0 THEN Enter(t) /\ back' = then
     ELSE Goto(then) /\ UNCHANGED <<size, alignment, next, stack, spoilt, back>>
  /\ UNCHANGED <<elements, offsets, call, i, bytes, cifVars>>

LayOutReturn == LayOut(call.rtype, "takeReturn", "rtype")

\* abort() on a complex type; space for the pointer to a struct result.
TakeReturn ==
  /\ pc = "takeReturn"
  /\ bytes' = IF call.rtype \in Structs THEN STACK_ARG_SIZE(4) ELSE 0
  /\ Goto(IF call.rtype = "complex" THEN "aborted" ELSE "arg")
  /\ UNCHANGED <<typeVars, frameVars, cifVars, call, i>>

Nargs == Len(call.atypes)
Arg   == call.atypes[i]

LayOutArg == i <= Nargs /\ LayOut(Arg, "takeArg", "arg")

\* The check of an argument that was laid out, and its place on the stack.
TakeArg ==
  /\ pc = "takeArg"
  /\ bytes' = (IF bytes % AlignOf(Arg) # 0 THEN FFI_ALIGN(bytes, AlignOf(Arg))
               ELSE bytes) + STACK_ARG_SIZE(SizeOf(Arg))
  /\ i' = i + 1
  /\ Goto(IF Arg = "complex" THEN "aborted" ELSE "arg")
  /\ UNCHANGED <<typeVars, frameVars, cifVars, call>>

\* ffi_prep_cif_machdep; its check for complex types comes after the abort.
Machdep ==
  /\ pc = "arg" /\ i > Nargs /\ call.fn = "prep"
  /\ nfixedargs' = IF "VARARGS" \in flags THEN nfixedargs ELSE Nargs
  /\ Return(IF Nargs > MaxArgs THEN "BAD_TYPEDEF" ELSE "OK")
  /\ UNCHANGED <<typeVars, frameVars, flags, call, i, bytes>>

\* Faulty variant: float passes for a type of the size of int.
UnpromotedBySize(t) ==
  t \notin Structs \cup {"complex"} /\ SizeOf(t) < Scalar.sint32.size

\* What may not stand among the variable arguments: a type the default argument
\* promotions would have changed.
Unpromoted(t) ==
  \/ t = "float"
  \/ t \notin Structs \cup {"complex"} /\ SizeOf(t) < Scalar.sint32.size

\* ffi_prep_cif_machdep_var, and the checks of ffi_prep_cif_var after it.
MachdepVar ==
  /\ pc = "arg" /\ i > Nargs /\ call.fn = "var"
  /\ flags' = flags \cup {"VARARGS"} /\ nfixedargs' = call.nfixed
  /\ Return(IF call.nfixed + 1 > MaxArgs THEN "BAD_TYPEDEF"
            ELSE IF \E k \in call.nfixed + 1 .. Nargs :
                      Unpromoted(call.atypes[k])
                 THEN "BAD_ARGTYPE" ELSE "OK")
  /\ UNCHANGED <<typeVars, frameVars, call, i, bytes>>

Aborted == pc = "aborted" /\ UNCHANGED vars

Next ==
  \/ \E c \in Calls : BadAbi(c) \/ PrepCif(c) \/ GetStructOffsets(c)
  \/ NextElement \/ PlaceElement \/ EndAggregate
  \/ LayOutReturn \/ TakeReturn \/ LayOutArg \/ TakeArg
  \/ Machdep \/ MachdepVar \/ Aborted

Spec == Init /\ [][Next]_vars

------------------------------------------------------------------------------
(* The layout C prescribes, from the elements alone.                         *)

LeastMultiple(v, a) == CHOOSE m \in v .. v + a - 1 : m % a = 0

\* Where each of the elements of sizes w and alignments a ends; 0: where the
\* first begins.
Ends(w, a) ==
  LET end[j \in 0 .. Len(w)] ==
        IF j = 0 THEN 0 ELSE LeastMultiple(end[j - 1], a[j]) + w[j]
  IN end

Widths(t)     == [k \in 1 .. Len(elements[t]) |-> SizeOf(elements[t][k])]
Aligns(t)     == [k \in 1 .. Len(elements[t]) |-> AlignOf(elements[t][k])]
EndsOf(t)     == Ends(Widths(t), Aligns(t))
COffset(t, k) == LeastMultiple(EndsOf(t)[k - 1], Aligns(t)[k])

Settled(t) == size[t] # 0 /\ t \notin OnStack /\ t \notin spoilt

Mentioned == {call.rtype} \cup {call.atypes[k] : k \in 1 .. Len(call.atypes)}
CifOK == pc = "idle" /\ rc = "OK" /\ call.fn # "offsets"

Powers == {1, 2, 4, 8, 16}

(* Properties.                                                               *)

\* The variables have their types; an alignment is a power of two up to 16, or 0.
TypeOK ==
  /\ elements \in Shapes
  /\ size \in [Structs -> Nat] /\ alignment \in [Structs -> Powers \cup {0}]
  /\ spoilt \subseteq Structs
  /\ stack \in Seq(Structs) /\ next \in [Structs -> Nat]
  /\ pc \in {"idle", "layout", "element", "rtype", "takeReturn", "arg",
             "takeArg", "aborted"}
  /\ back \in {"none", "offsets", "takeReturn", "takeArg"}
  /\ call \in Calls \cup {NoCall}
  /\ i \in Nat /\ bytes \in Nat /\ offsets \in Seq(Nat)
  /\ rc \in {"none", "OK", "BAD_TYPEDEF", "BAD_ABI", "BAD_ARGTYPE"}
  /\ flags \subseteq {"VARARGS"} /\ nfixedargs \in Nat

\* ffi_get_struct_offsets never writes more offsets than the struct has elements,
\* the length of the caller's buffer, though it may lay out other structs first.
OffsetsFit ==
  offsets # <<>> => Len(offsets) <= Len(elements[call.rtype])

\* A type that any sequence of calls has laid out, and no failure interrupted,
\* has the alignment of its strictest element and the size C gives it.
LayoutRight ==
  stack = <<>> => \A t \in Structs : Settled(t) =>
    /\ \E k \in 1 .. Len(elements[t]) : alignment[t] = AlignOf(elements[t][k])
    /\ \A k \in 1 .. Len(elements[t]) : AlignOf(elements[t][k]) <= alignment[t]
    /\ size[t] = LeastMultiple(EndsOf(t)[Len(elements[t])], alignment[t])

\* ffi_get_struct_offsets reports the offsets of C, one for each element.
OffsetsRight ==
  pc = "idle" /\ rc = "OK" /\ call.fn = "offsets" /\ call.rtype \notin spoilt =>
    offsets = [k \in 1 .. Len(elements[call.rtype]) |-> COffset(call.rtype, k)]

\* The bytes that the first arguments of sizes w take.
Sums(w) ==
  LET sum[k \in 0 .. Len(w)] == IF k = 0 THEN 0 ELSE sum[k - 1] + w[k]
  IN sum

\* The argument area holds the pointer to a struct result and every argument,
\* and is in whole words.
ArgSizes   == [k \in 1 .. Nargs |-> SizeOf(call.atypes[k])]
BytesCover ==
  /\ bytes >= (IF call.rtype \in Structs THEN 4 ELSE 0) + Sums(ArgSizes)[Nargs]
  /\ bytes % SizeOfArg = 0

\* A cif reported as prepared names only types with a layout, no complex type,
\* no more arguments than the host takes, only promoted variable arguments, and
\* as many bytes as its arguments take.
TypesPrepared == \A t \in Mentioned : SizeOf(t) # 0 /\ t # "complex"
ArgsAccepted ==
  /\ (IF call.fn = "prep" THEN Nargs ELSE call.nfixed + 1) <= MaxArgs
  /\ call.fn = "var" => \A k \in call.nfixed + 1 .. Nargs :
                          call.atypes[k] \notin {"float", "uint8", "sint16"}
CifSound == CifOK => BytesCover /\ TypesPrepared /\ ArgsAccepted

\* The host tells variadic calls by flags and nfixedargs; a ffi_cif that is used
\* again carries nothing over from its earlier use.
FixedArgs ==
  CifOK => /\ (call.fn = "var") = ("VARARGS" \in flags)
           /\ nfixedargs = IF call.fn = "var" THEN call.nfixed ELSE Nargs

\* "Structure size includes tail padding" (prep_cif.c), said of every struct that
\* a prepared cif names, also when an earlier call on it has failed.  The code
\* does not give this.
SizeIncludesPadding ==
  CifOK => \A t \in Mentioned \cap Structs : size[t] % alignment[t] = 0
==============================================================================
