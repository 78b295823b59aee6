----------------------------- MODULE PrepCifProofs -----------------------------
(***************************************************************************)
(* Theorems about the layout of types and the preparation of a cif, for     *)
(* every set of structs that do not contain themselves, and every caller.   *)
(***************************************************************************)
EXTENDS PrepCif, SequenceTheorems, WellFoundedInduction, TLAPS

(* The frames of initialize_aggregate: each is of a struct with elements, is *)
(* at one of them if it waits for a frame above, and has a larger rank.      *)
FramesInv ==
  /\ pc \in {"layout", "element"} <=> stack # <<>>
  /\ \A k \in 1 .. Len(stack) : /\ elements[stack[k]] # NoElements
                                /\ next[stack[k]] >= 1
  /\ \A k \in 1 .. Len(stack) : k < Len(stack) \/ pc = "element" =>
       next[stack[k]] <= Len(elements[stack[k]])
  /\ \A j, k \in 1 .. Len(stack) : j < k => Rank[stack[k]] < Rank[stack[j]]

(* Where the outermost frame returns to, and what it has written by then.    *)
ReturnInv ==
  /\ stack # <<>> => back # "none"
  /\ i >= 1
  /\ pc = "takeArg" => i <= Nargs
  /\ stack # <<>> /\ back = "takeArg" => i <= Nargs
  /\ stack # <<>> /\ back = "offsets" =>
       stack[1] = call.rtype /\ Len(offsets) + 1 = next[call.rtype]

TypeInv == TypeOK /\ FramesInv /\ ReturnInv

LEMMA ScalarFacts ==
  \A t \in Scalars :
    Scalar[t].size \in Nat \ {0} /\ Scalar[t].alignment \in Powers
  BY DEF Scalars, Scalar, Powers

(* FFI_ALIGN rounds up to a multiple of its second argument.                 *)
LEMMA AlignFacts ==
  ASSUME NEW v \in Nat, NEW a \in Powers \cup {0}
  PROVE  /\ FFI_ALIGN(v, a) \in Nat
         /\ FFI_ALIGN(v, a) # 0 => a # 0 /\ FFI_ALIGN(v, a) % a = 0
<1>1. CASE a = 0 BY <1>1 DEF FFI_ALIGN
<1>2. CASE a = 1 BY <1>2 DEF FFI_ALIGN
<1>3. CASE a = 2 BY <1>3 DEF FFI_ALIGN
<1>4. CASE a = 4 BY <1>4 DEF FFI_ALIGN
<1>5. CASE a = 8 BY <1>5 DEF FFI_ALIGN
<1>6. CASE a = 16 BY <1>6 DEF FFI_ALIGN
<1> QED
  BY <1>1, <1>2, <1>3, <1>4, <1>5, <1>6 DEF Powers

(* A sequence without its last element.                                      *)
LEMMA PopFacts ==
  ASSUME NEW S, NEW s \in Seq(S), Len(s) >= 1
  PROVE  LET f == SubSeq(s, 1, Len(s) - 1)
         IN /\ f \in Seq(S) /\ Len(f) = Len(s) - 1
            /\ \A k \in 1 .. Len(f) : f[k] = s[k]
<1> DEFINE n == Len(s) - 1
           f == SubSeq(s, 1, n)
<1>1. 1 \in Int /\ n \in Int /\ n >= 0 /\ \A k \in 1 .. n : s[k] \in S
  OBVIOUS
<1> HIDE DEF n
<1>2. f \in Seq(S)
  BY <1>1, SubSeqProperties
<1>3. Len(f) = IF 1 <= n THEN n - 1 + 1 ELSE 0
  BY <1>1, SubSeqProperties
<1>4. \A k \in 1 .. n - 1 + 1 : f[k] = s[1 + k - 1]
  BY <1>1, SubSeqProperties
<1> HIDE DEF f
<1>5. Len(f) = n /\ \A k \in 1 .. n : f[k] = s[k]
  BY <1>1, <1>3, <1>4
<1> QED
  BY <1>2, <1>5 DEF f, n

(* The fields of any type are numbers.                                       *)
LEMMA FieldFacts ==
  ASSUME TypeOK, NEW t \in Types
  PROVE  SizeOf(t) \in Nat /\ AlignOf(t) \in Powers \cup {0}
  BY ScalarFacts, StructsAssumption DEF TypeOK, Types, SizeOf, AlignOf

(* A struct with elements has a sequence of types.                           *)
LEMMA ElementFacts ==
  ASSUME TypeOK, NEW t \in Structs, elements[t] # NoElements
  PROVE  /\ elements[t] \in Seq(Types) /\ Len(elements[t]) \in Nat
         /\ \A k \in 1 .. Len(elements[t]) :
              /\ elements[t][k] \in Types
              /\ elements[t][k] \in Structs => Rank[elements[t][k]] < Rank[t]
<1>1. elements \in [Structs -> Seq(Types) \cup {NoElements}]
  BY ShapesAssumption DEF TypeOK
<1>2. elements[t] \in Seq(Types)
  BY <1>1
<1>3. Len(elements[t]) \in Nat
        /\ \A k \in 1 .. Len(elements[t]) : elements[t][k] \in Types
  BY <1>2
<1>4. elements \in Shapes
  BY DEF TypeOK
<1>5. \A k \in 1 .. Len(elements[t]) :
        elements[t][k] \in Structs => Rank[elements[t][k]] < Rank[t]
  BY <1>4, RankAssumption
<1> QED
  BY <1>2, <1>3, <1>5

(* The struct on top of the stack, and the one it was entered for.           *)
LEMMA TopFacts ==
  ASSUME TypeInv, stack # <<>>
  PROVE  /\ Len(stack) \in Nat \ {0} /\ Top \in Structs
         /\ elements[Top] # NoElements /\ next[Top] \in Nat \ {0}
  BY DEF TypeInv, TypeOK, FramesInv, Top

LEMMA CallFacts ==
  ASSUME TypeOK
  PROVE  /\ call.rtype \in Types /\ call.atypes \in Seq(Types)
         /\ call.nfixed \in Nat /\ Nargs \in Nat
         /\ \A k \in 1 .. Nargs : call.atypes[k] \in Types
<1>1. CASE call \in Calls
  BY <1>1, CallsAssumption DEF Nargs
<1>2. CASE call = NoCall
  BY <1>2 DEF NoCall, Nargs, Types, Scalars, Scalar
<1> QED
  BY <1>1, <1>2 DEF TypeOK

------------------------------------------------------------------------------
(* initialize_aggregate.                                                     *)

(* The size of a struct that is laid out includes its tail padding, also     *)
(* while another one is being laid out.                                      *)
PaddedLayout ==
  \A t \in Structs :
    Settled(t) => alignment[t] \in Powers /\ size[t] % alignment[t] = 0

Inv == TypeInv /\ OffsetsFit /\ PaddedLayout

FrameTypes ==
  /\ size \in [Structs -> Nat] /\ alignment \in [Structs -> Powers \cup {0}]
  /\ spoilt \subseteq Structs
  /\ stack \in Seq(Structs) /\ next \in [Structs -> Nat]

LEMMA GiveUpStep ==
  ASSUME Inv, GiveUp, UNCHANGED elements
  PROVE  /\ FrameTypes' /\ FramesInv' /\ PaddedLayout'
         /\ stack' = <<>> /\ pc' = "idle" /\ rc' = "BAD_TYPEDEF"
<1> USE DEF Inv, TypeInv, TypeOK, GiveUp, Return
<1>1. OnStack \subseteq Structs
  BY DEF OnStack
<1>2. FrameTypes' /\ FramesInv'
  BY <1>1 DEF FrameTypes, FramesInv
<1>3. ASSUME NEW t \in Structs, Settled(t)' PROVE Settled(t)
  BY <1>3 DEF Settled
<1> QED
  BY <1>2, <1>3 DEF PaddedLayout

(* A frame is entered from outside or for the next element of the top one.   *)
LEMMA EnterStep ==
  ASSUME Inv, NEW t \in Structs, Enter(t), UNCHANGED elements,
         \/ stack = <<>>
         \/ /\ pc = "layout" /\ next[Top] <= Len(elements[Top])
            /\ t = elements[Top][next[Top]]
  PROVE  /\ FrameTypes' /\ FramesInv' /\ PaddedLayout'
         /\ \/ stack' = <<>> /\ pc' = "idle" /\ rc' = "BAD_TYPEDEF"
            \/ /\ stack' = Append(stack, t) /\ pc' = "layout" /\ rc' = rc
               /\ next' = [next EXCEPT ![t] = 1]
               /\ \A k \in 1 .. Len(stack) : stack[k] # t
<1>1. CASE elements[t] = NoElements
  BY <1>1, GiveUpStep DEF Enter
<1>2. CASE elements[t] # NoElements
  <2>1. /\ size' = [size EXCEPT ![t] = 0]
        /\ alignment' = [alignment EXCEPT ![t] = 0]
        /\ next' = [next EXCEPT ![t] = 1]
        /\ stack' = Append(stack, t)
        /\ pc' = "layout" /\ rc' = rc /\ spoilt' = spoilt
    BY <1>2 DEF Enter, Goto
  <2>2. TypeOK /\ FramesInv /\ stack \in Seq(Structs) /\ Len(stack) \in Nat
    BY DEF Inv, TypeInv, TypeOK
  <2>3. /\ Len(stack') = Len(stack) + 1 /\ stack'[Len(stack) + 1] = t
        /\ \A k \in 1 .. Len(stack) : stack'[k] = stack[k]
    BY <2>1, <2>2
  <2>4. \A k \in 1 .. Len(stack) : Rank[t] < Rank[stack[k]]
    <3>1. CASE stack = <<>> BY <3>1
    <3>2. CASE stack # <<>>
      <4>1. Top \in Structs /\ elements[Top] # NoElements
            /\ next[Top] \in Nat \ {0} /\ Len(stack) \in Nat \ {0}
        BY <3>2, TopFacts DEF Inv
      <4>2. Rank[t] < Rank[Top]
        BY <2>2, <3>2, <4>1, ElementFacts
      <4>3. \A k \in 1 .. Len(stack) :
              k # Len(stack) => Rank[Top] < Rank[stack[k]]
        BY <2>2, <4>1 DEF FramesInv, Top
      <4>4. \A k \in 1 .. Len(stack) : Rank[stack[k]] \in Nat
        BY <2>2, RankAssumption
      <4>5. Rank[t] \in Nat /\ Rank[Top] \in Nat
        BY <4>1, RankAssumption
      <4> QED
        BY <4>2, <4>3, <4>4, <4>5 DEF Top
    <3> QED
      BY <3>1, <3>2
  <2>5. \A k \in 1 .. Len(stack) : stack[k] # t
    BY <2>2, <2>4, RankAssumption
  <2>6. FrameTypes'
    BY <2>1, <2>2 DEF FrameTypes, TypeOK
  <2>7. \A k \in 1 .. Len(stack) : next'[stack[k]] = next[stack[k]]
    BY <2>1, <2>2, <2>5 DEF TypeOK
  <2>8. next'[t] = 1
    BY <2>1, <2>2 DEF TypeOK
  <2>9. FramesInv'
    <3>1. pc' \in {"layout", "element"} <=> stack' # <<>>
      BY <2>1, <2>2
    <3>2. \A k \in 1 .. Len(stack') : /\ elements'[stack'[k]] # NoElements
                                     /\ next'[stack'[k]] >= 1
      BY <1>2, <2>2, <2>3, <2>7, <2>8 DEF FramesInv
    <3>3. \A k \in 1 .. Len(stack) : next[stack[k]] <= Len(elements[stack[k]])
      BY <2>2 DEF FramesInv, Top
    <3>4. \A k \in 1 .. Len(stack') : k < Len(stack') \/ pc' = "element" =>
            next'[stack'[k]] <= Len(elements'[stack'[k]])
      <4>1. \A k \in 1 .. Len(stack) :
              next'[stack'[k]] <= Len(elements'[stack'[k]])
        BY <2>3, <2>7, <3>3
      <4> QED
        BY <2>1, <2>2, <2>3, <4>1
    <3>5. \A j, k \in 1 .. Len(stack') :
            j < k => Rank[stack'[k]] < Rank[stack'[j]]
      BY <2>2, <2>3, <2>4 DEF FramesInv
    <3> QED
      BY <3>1, <3>2, <3>4, <3>5 DEF FramesInv
  <2>10. PaddedLayout'
    <3>1. ASSUME NEW u \in Structs, Settled(u)'
          PROVE  /\ Settled(u)
                 /\ size'[u] = size[u] /\ alignment'[u] = alignment[u]
      <4>1. t \in OnStack'
        BY <2>2, <2>3 DEF OnStack
      <4>2. u # t
        BY <3>1, <4>1 DEF Settled
      <4>3. OnStack \subseteq OnStack'
        BY <2>2, <2>3 DEF OnStack
      <4> QED
        BY <2>1, <2>2, <3>1, <4>2, <4>3 DEF Settled, TypeOK
    <3> QED
      BY <3>1 DEF PaddedLayout, Inv
  <2> QED
    BY <2>1, <2>5, <2>6, <2>9, <2>10
<1> QED
  BY <1>1, <1>2

LEMMA NextElementStep == Inv /\ NextElement => Inv'
<1> SUFFICES ASSUME Inv, NextElement PROVE Inv'
  OBVIOUS
<1> DEFINE e == elements[Top][next[Top]]
<1>1. /\ pc = "layout" /\ next[Top] <= Len(elements[Top])
      /\ UNCHANGED <<elements, back, offsets, call, i, bytes, cifVars>>
  BY DEF NextElement
<1>2. TypeOK /\ FramesInv /\ ReturnInv /\ stack # <<>>
  BY <1>1 DEF Inv, TypeInv, FramesInv
<1>3. /\ Len(stack) \in Nat \ {0} /\ Top \in Structs
      /\ elements[Top] # NoElements /\ next[Top] \in Nat \ {0}
  BY <1>2, TopFacts DEF Inv
<1>4. e \in Types /\ (e \in Structs => Rank[e] < Rank[Top])
  BY <1>1, <1>2, <1>3, ElementFacts
<1>5. OffsetsFit'
  BY <1>1 DEF Inv, OffsetsFit
<1>6. CASE SizeOf(e) = 0
  <2>1. e \in Structs /\ Enter(e)
    BY <1>4, <1>6, ScalarFacts DEF NextElement, SizeOf, Types
  <2>2. /\ FrameTypes' /\ FramesInv' /\ PaddedLayout'
        /\ \/ stack' = <<>> /\ pc' = "idle" /\ rc' = "BAD_TYPEDEF"
           \/ /\ stack' = Append(stack, e) /\ pc' = "layout" /\ rc' = rc
              /\ next' = [next EXCEPT ![e] = 1]
              /\ \A k \in 1 .. Len(stack) : stack[k] # e
    BY <1>1, <2>1, EnterStep
  <2>3. TypeOK'
    BY <1>1, <1>2, <2>2 DEF TypeOK, FrameTypes, cifVars
  <2>4. ReturnInv'
    <3>1. CASE stack' = <<>> /\ pc' = "idle"
      BY <1>1, <1>2, <3>1 DEF ReturnInv
    <3>2. CASE /\ stack' = Append(stack, e) /\ pc' = "layout"
               /\ next' = [next EXCEPT ![e] = 1]
               /\ \A k \in 1 .. Len(stack) : stack[k] # e
      <4>1. stack'[1] = stack[1] /\ stack[1] \in Structs
        BY <1>2, <1>3, <2>1, <3>2 DEF TypeOK
      <4>2. next'[stack[1]] = next[stack[1]]
        BY <1>2, <1>3, <3>2, <4>1 DEF TypeOK
      <4> QED
        BY <1>1, <1>2, <3>2, <4>1, <4>2 DEF ReturnInv, Nargs
    <3> QED
      BY <2>2, <3>1, <3>2
  <2> QED
    BY <1>5, <2>2, <2>3, <2>4 DEF Inv, TypeInv
<1>7. CASE SizeOf(e) # 0
  <2>1. /\ pc' = "element" /\ rc' = rc
        /\ UNCHANGED <<size, alignment, next, stack, spoilt>>
    BY <1>7 DEF NextElement, Goto
  <2>2. TypeOK'
    BY <1>1, <1>2, <2>1 DEF TypeOK, cifVars
  <2>3. FramesInv'
    BY <1>1, <1>2, <1>3, <2>1 DEF FramesInv, Top
  <2>4. ReturnInv'
    BY <1>1, <1>2, <2>1 DEF ReturnInv, Nargs
  <2>5. PaddedLayout'
    BY <2>1 DEF Inv, PaddedLayout, Settled, OnStack
  <2> QED
    BY <1>5, <2>2, <2>3, <2>4, <2>5 DEF Inv, TypeInv
<1> QED
  BY <1>6, <1>7

LEMMA PlaceElementStep == Inv /\ PlaceElement => Inv'
<1> SUFFICES ASSUME Inv, PlaceElement PROVE Inv'
  OBVIOUS
<1> DEFINE e  == elements[Top][next[Top]]
           at == FFI_ALIGN(size[Top], AlignOf(e))
<1>1. /\ pc = "element" /\ pc' = "layout" /\ rc' = rc
      /\ offsets' = IF WritesOffsets THEN Append(offsets, at) ELSE offsets
      /\ size' = [size EXCEPT ![Top] = at + SizeOf(e)]
      /\ alignment' = [alignment EXCEPT ![Top] = Larger(@, AlignOf(e))]
      /\ next' = [next EXCEPT ![Top] = @ + 1]
      /\ UNCHANGED <<elements, spoilt, stack, back, call, i, bytes, cifVars>>
  BY DEF PlaceElement, Goto
<1>2. TypeOK /\ FramesInv /\ ReturnInv /\ stack # <<>>
  BY <1>1 DEF Inv, TypeInv, FramesInv
<1>3. /\ Len(stack) \in Nat \ {0} /\ Top \in Structs
      /\ elements[Top] # NoElements /\ next[Top] \in Nat \ {0}
  BY <1>2, TopFacts DEF Inv
<1>4. next[Top] <= Len(elements[Top]) /\ Len(elements[Top]) \in Nat
  BY <1>1, <1>2, <1>3, ElementFacts, SMTT(20) DEF FramesInv, Top
<1>5. e \in Types
  BY <1>2, <1>3, <1>4, ElementFacts
<1>6. SizeOf(e) \in Nat /\ AlignOf(e) \in Powers \cup {0} /\ size[Top] \in Nat
  BY <1>2, <1>3, <1>5, FieldFacts DEF TypeOK
<1>7. at \in Nat
  BY <1>6, AlignFacts
<1>8. TypeOK'
  <2>1. size' \in [Structs -> Nat] /\ next' \in [Structs -> Nat]
    <3>1. at + SizeOf(e) \in Nat /\ next[Top] + 1 \in Nat
      BY <1>3, <1>6, <1>7
    <3>2. size \in [Structs -> Nat] /\ next \in [Structs -> Nat]
      BY <1>2 DEF TypeOK
    <3> HIDE DEF e, at
    <3> QED
      BY <1>1, <1>3, <3>1, <3>2
  <2>2. alignment' \in [Structs -> Powers \cup {0}]
    <3>1. alignment[Top] \in Powers \cup {0}
      BY <1>2, <1>3 DEF TypeOK
    <3>2. Larger(alignment[Top], AlignOf(e)) \in Powers \cup {0}
      BY <1>6, <3>1 DEF Larger
    <3>3. alignment' =
            [alignment EXCEPT ![Top] = Larger(alignment[Top], AlignOf(e))]
      BY <1>1
    <3>4. alignment \in [Structs -> Powers \cup {0}]
      BY <1>2 DEF TypeOK
    <3> HIDE DEF e
    <3> QED
      BY <1>3, <3>2, <3>3, <3>4
  <2>3. offsets' \in Seq(Nat)
    BY <1>1, <1>2, <1>7 DEF TypeOK
  <2> QED
    BY <1>1, <1>2, <2>1, <2>2, <2>3 DEF TypeOK, cifVars
<1>9. \A k \in 1 .. Len(stack) : k # Len(stack) => stack[k] # Top
  <2>1. \A k \in 1 .. Len(stack) : k # Len(stack) => Rank[Top] < Rank[stack[k]]
    BY <1>2, <1>3 DEF FramesInv, Top
  <2> QED
    BY <1>3, <2>1, RankAssumption
<1>10. /\ next'[Top] = next[Top] + 1
       /\ \A t \in Structs : t # Top => next'[t] = next[t]
  BY <1>1, <1>2, <1>3 DEF TypeOK
<1>11. FramesInv'
  <2>1. \A k \in 1 .. Len(stack) : next'[stack[k]] >= 1
    <3>1. stack \in Seq(Structs) /\ next \in [Structs -> Nat]
      BY <1>2 DEF TypeOK
    <3>2. \A k \in 1 .. Len(stack) : stack[k] \in Structs
                                     /\ next[stack[k]] >= 1
      BY <1>2, <3>1 DEF FramesInv
    <3> QED
      BY <1>3, <1>10, <3>1, <3>2
  <2>2. \A k \in 1 .. Len(stack) : k < Len(stack) =>
          next'[stack[k]] <= Len(elements[stack[k]])
    BY <1>2, <1>3, <1>9, <1>10, SMTT(20) DEF FramesInv, TypeOK
  <2> QED
    BY <1>1, <1>2, <2>1, <2>2 DEF FramesInv
<1>12. ReturnInv' /\ OffsetsFit'
  <2>1. CASE WritesOffsets
    <3>1. /\ back = "offsets" /\ Len(stack) = 1 /\ Top = stack[1]
          /\ Top = call.rtype /\ Len(offsets) + 1 = next[Top]
      BY <1>2, <2>1 DEF WritesOffsets, Top, ReturnInv
    <3>2. Len(offsets') = Len(offsets) + 1 /\ Len(offsets) \in Nat
      BY <1>1, <1>2, <1>7, <2>1 DEF TypeOK
    <3> QED
      <4>1. call' = call /\ back' = back /\ i' = i /\ stack' = stack
            /\ elements' = elements
        BY <1>1
      <4>2. Len(offsets') + 1 = next'[call'.rtype]
        BY <1>3, <1>10, <3>1, <3>2, <4>1
      <4>3. Len(offsets') <= Len(elements'[call'.rtype])
        BY <1>3, <1>4, <3>1, <3>2, <4>1
      <4> QED
        BY <1>1, <1>2, <3>1, <4>1, <4>2, <4>3 DEF ReturnInv, OffsetsFit, Nargs
  <2>2. CASE ~WritesOffsets
    <3>1. offsets' = offsets
      BY <1>1, <2>2
    <3>2. back = "offsets" => stack[1] # Top /\ stack[1] \in Structs
      <4>1. stack \in Seq(Structs)
        BY <1>2 DEF TypeOK
      <4>2. stack[1] \in Structs
        BY <1>3, <4>1
      <4>3. ASSUME back = "offsets" PROVE stack[1] # Top
        <5>1. Len(stack) # 1
          BY <2>2, <4>3 DEF WritesOffsets
        <5>2. 1 \in 1 .. Len(stack)
          BY <1>3
        <5> QED
          BY <1>9, <5>1, <5>2
      <4> QED
        BY <4>2, <4>3
    <3>3. back = "offsets" => next'[stack[1]] = next[stack[1]]
      BY <1>10, <3>2
    <3> QED
      BY <1>1, <1>2, <3>1, <3>3 DEF ReturnInv, OffsetsFit, Nargs, Inv
  <2> QED
    BY <2>1, <2>2
<1>13. PaddedLayout'
  <2>1. ASSUME NEW t \in Structs, Settled(t)'
        PROVE  Settled(t) /\ size'[t] = size[t] /\ alignment'[t] = alignment[t]
    <3>1. Top \in OnStack /\ OnStack' = OnStack
      BY <1>1, <1>3 DEF OnStack, Top
    <3>2. t # Top
      BY <2>1, <3>1 DEF Settled
    <3> QED
      BY <1>1, <1>2, <1>3, <2>1, <3>1, <3>2 DEF Settled, TypeOK
  <2> QED
    BY <2>1 DEF PaddedLayout, Inv
<1> QED
  BY <1>8, <1>11, <1>12, <1>13 DEF Inv, TypeInv

(* The end of a struct: its size is a multiple of its alignment, since        *)
(* FFI_ALIGN gave it and it is not 0, and the frame below is at an element.  *)
LEMMA EndAggregateStep == Inv /\ EndAggregate => Inv'
<1> SUFFICES ASSUME Inv, EndAggregate PROVE Inv'
  OBVIOUS
<1>1. /\ pc = "layout"
      /\ UNCHANGED <<elements, back, offsets, call, i, bytes, cifVars>>
  BY DEF EndAggregate
<1>2. TypeOK /\ FramesInv /\ ReturnInv /\ stack # <<>>
  BY <1>1 DEF Inv, TypeInv, FramesInv
<1>3. Len(stack) \in Nat /\ Len(stack) >= 1 /\ Top \in Structs
  <2>1. Len(stack) \in Nat \ {0} /\ Top \in Structs
    BY <1>2, TopFacts DEF Inv
  <2> QED
    BY <2>1
<1>4. OffsetsFit'
  BY <1>1 DEF Inv, OffsetsFit
<1>5. CASE Padded = 0
  <2>1. GiveUp
    BY <1>5 DEF EndAggregate
  <2>2. /\ FrameTypes' /\ FramesInv' /\ PaddedLayout'
        /\ stack' = <<>> /\ pc' = "idle" /\ rc' = "BAD_TYPEDEF"
    BY <1>1, <2>1, GiveUpStep
  <2>3. TypeOK'
    BY <1>1, <1>2, <2>2 DEF TypeOK, FrameTypes, cifVars
  <2>4. ReturnInv'
    BY <1>1, <1>2, <2>2 DEF ReturnInv
  <2> QED
    BY <1>4, <2>2, <2>3, <2>4 DEF Inv, TypeInv
<1>6. CASE Padded # 0
  <2>1. /\ size' = [size EXCEPT ![Top] = Padded]
        /\ spoilt' \in {spoilt \cup {Top}, spoilt \ {Top}}
        /\ stack' = SubSeq(stack, 1, Len(stack) - 1)
        /\ UNCHANGED <<alignment, next>>
        /\ \/ Len(stack) # 1 /\ pc' = "element" /\ rc' = rc
           \/ Len(stack) = 1 /\ back = "offsets" /\ pc' = "idle" /\ rc' = "OK"
           \/ Len(stack) = 1 /\ back # "offsets" /\ pc' = back /\ rc' = rc
    <3>1. spoilt' \in {spoilt \cup {Top}, spoilt \ {Top}}
      BY <1>6 DEF EndAggregate
    <3>2. /\ size' = [size EXCEPT ![Top] = Padded]
          /\ stack' = SubSeq(stack, 1, Len(stack) - 1)
          /\ UNCHANGED <<alignment, next>>
          /\ IF Len(stack) > 1 THEN Goto("element")
             ELSE IF back = "offsets" THEN Return("OK") ELSE Goto(back)
      BY <1>6 DEF EndAggregate
    <3>3. Len(stack) > 1 <=> Len(stack) # 1
      <4>1. \A n \in Nat : n >= 1 => (n > 1 <=> n # 1)
        OBVIOUS
      <4> QED
        BY <1>3, <4>1, Zenon
    <3> QED
      BY <3>1, <3>2, <3>3 DEF Goto, Return
  <2>2. /\ stack' \in Seq(Structs) /\ Len(stack') = Len(stack) - 1
        /\ \A k \in 1 .. Len(stack') : stack'[k] = stack[k]
    <3>1. stack \in Seq(Structs)
      BY <1>2 DEF TypeOK
    <3>2. stack' = SubSeq(stack, 1, Len(stack) - 1)
      BY <2>1
    <3> QED
      BY <1>3, <3>1, <3>2, PopFacts
  <2>3. /\ Padded \in Nat /\ alignment[Top] \in Powers
        /\ Padded % alignment[Top] = 0
    <3>1. size[Top] \in Nat /\ alignment[Top] \in Powers \cup {0}
      BY <1>2, <1>3 DEF TypeOK
    <3> QED
      BY <1>6, <3>1, AlignFacts DEF Padded
  <2>4. TypeOK'
    <3>1. size' \in [Structs -> Nat]
      BY <1>2, <1>3, <2>1, <2>3 DEF TypeOK
    <3>2. spoilt' \subseteq Structs
      BY <1>2, <1>3, <2>1 DEF TypeOK
    <3>3. back # "none"
      BY <1>2 DEF ReturnInv
    <3> QED
      BY <1>1, <1>2, <2>1, <2>2, <3>1, <3>2, <3>3 DEF TypeOK, cifVars
  <2>5. FramesInv'
    <3>1. pc' \in {"layout", "element"} <=> stack' # <<>>
      <4>1. stack' # <<>> <=> Len(stack) # 1
        BY <1>3, <2>2
      <4>2. back \notin {"layout", "element"}
        BY <1>2 DEF TypeOK
      <4>3. CASE stack' # <<>>
        <5>1. pc' = "element"
          BY <2>1, <4>1, <4>3
        <5> QED
          BY <4>3, <5>1
      <4>4. CASE stack' = <<>>
        BY <1>3, <2>1, <4>1, <4>2, <4>4
      <4> QED
        BY <4>3, <4>4
    <3>2. \A k \in 1 .. Len(stack') :
            /\ elements'[stack'[k]] # NoElements /\ next'[stack'[k]] >= 1
            /\ next'[stack'[k]] <= Len(elements'[stack'[k]])
      BY <1>1, <1>2, <1>3, <2>1, <2>2 DEF FramesInv
    <3>3. \A j, k \in 1 .. Len(stack') :
            j < k => Rank[stack'[k]] < Rank[stack'[j]]
      BY <1>2, <1>3, <2>2, SMTT(20) DEF FramesInv
    <3> QED
      BY <3>1, <3>2, <3>3 DEF FramesInv
  <2>6. ReturnInv'
    <3>1. stack' # <<>> => stack'[1] = stack[1]
      BY <1>3, <2>2
    <3>2. i' = i /\ back' = back /\ call' = call /\ offsets' = offsets
      BY <1>1
    <3>3. pc' = "takeArg" => back = "takeArg"
      BY <2>1
    <3> QED
      BY <1>2, <2>1, <3>1, <3>2, <3>3 DEF ReturnInv, Nargs
  <2>7. PaddedLayout'
    <3>1. OnStack \subseteq OnStack' \cup {Top}
      BY <1>3, <2>2 DEF OnStack, Top
    <3>2. /\ size'[Top] = Padded /\ alignment' = alignment
          /\ \A u \in Structs \ {Top} : size'[u] = size[u]
      BY <1>2, <1>3, <2>1 DEF TypeOK
    <3>3. ASSUME NEW u \in Structs, u # Top, Settled(u)'
          PROVE  Settled(u)
      BY <2>1, <3>1, <3>2, <3>3 DEF Settled
    <3>4. ASSUME NEW u \in Structs, Settled(u)'
          PROVE  alignment'[u] \in Powers /\ size'[u] % alignment'[u] = 0
      <4>1. CASE u = Top
        BY <2>3, <3>2, <4>1
      <4>2. CASE u # Top
        BY <3>2, <3>3, <3>4, <4>2 DEF PaddedLayout, Inv
      <4> QED
        BY <4>1, <4>2
    <3> QED
      BY <3>4 DEF PaddedLayout
  <2> QED
    BY <1>4, <2>4, <2>5, <2>6, <2>7 DEF Inv, TypeInv
<1> QED
  BY <1>5, <1>6

------------------------------------------------------------------------------
(* The entry points.                                                         *)

(* A step outside initialize_aggregate that touches no type.                 *)
LEMMA OutsideStep ==
  ASSUME Inv, TypeOK', ReturnInv', stack = <<>>,
         UNCHANGED <<typeVars, stack, next>>,
         pc' \notin {"layout", "element"},
         OffsetsFit'
  PROVE  Inv'
<1>1. FramesInv'
  BY DEF FramesInv, typeVars
<1>2. PaddedLayout'
  BY DEF Inv, PaddedLayout, Settled, OnStack, typeVars
<1> QED
  BY <1>1, <1>2 DEF Inv, TypeInv

LEMMA BeginStep ==
  ASSUME Inv, NEW c \in Calls, BadAbi(c) \/ PrepCif(c)
  PROVE  Inv'
<1>1. /\ stack = <<>> /\ UNCHANGED <<typeVars, stack, next, back>>
      /\ pc' \in {"idle", "rtype"} /\ call' = c /\ i' = 1 /\ bytes' = 0
      /\ offsets' = <<>> /\ rc' \in {rc, "BAD_ABI"}
      /\ flags' \in {flags, {}} /\ nfixedargs' = nfixedargs
  BY DEF BadAbi, PrepCif, Begin, Goto, Return, Inv, TypeInv, FramesInv, cifVars
<1>2. TypeOK'
  BY <1>1 DEF Inv, TypeInv, TypeOK, typeVars
<1>3. ReturnInv'
  BY <1>1 DEF ReturnInv
<1>4. OffsetsFit'
  BY <1>1 DEF OffsetsFit
<1> QED
  BY <1>1, <1>2, <1>3, <1>4, OutsideStep

LEMMA GetStructOffsetsStep ==
  ASSUME Inv, NEW c \in Calls, GetStructOffsets(c)
  PROVE  Inv'
<1>1. /\ stack = <<>> /\ elements' = elements /\ back' = "offsets"
      /\ call' = c /\ i' = 1 /\ bytes' = 0 /\ offsets' = <<>>
      /\ UNCHANGED <<flags, nfixedargs>>
  BY DEF GetStructOffsets, Begin, Inv, TypeInv, FramesInv, cifVars
<1>2. CASE c.rtype \in Structs
  <2>1. Enter(c.rtype)
    BY <1>2 DEF GetStructOffsets
  <2>2. /\ FrameTypes' /\ FramesInv' /\ PaddedLayout'
        /\ \/ stack' = <<>> /\ pc' = "idle" /\ rc' = "BAD_TYPEDEF"
           \/ /\ stack' = Append(stack, c.rtype) /\ pc' = "layout" /\ rc' = rc
              /\ next' = [next EXCEPT ![c.rtype] = 1]
    BY <1>1, <1>2, <2>1, EnterStep
  <2>3. TypeOK'
    BY <1>1, <2>2 DEF Inv, TypeInv, TypeOK, FrameTypes
  <2>4. ReturnInv'
    <3>1. CASE stack' = <<>> /\ pc' = "idle"
      BY <1>1, <3>1 DEF ReturnInv
    <3>2. CASE /\ stack' = Append(stack, c.rtype) /\ pc' = "layout"
               /\ next' = [next EXCEPT ![c.rtype] = 1]
      <4>1. stack' = <<c.rtype>> /\ next'[c.rtype] = 1
        BY <1>1, <1>2, <3>2 DEF Inv, TypeInv, TypeOK
      <4> QED
        BY <1>1, <3>2, <4>1 DEF ReturnInv
    <3> QED
      BY <2>2, <3>1, <3>2
  <2>5. OffsetsFit'
    BY <1>1 DEF OffsetsFit
  <2> QED
    BY <2>2, <2>3, <2>4, <2>5 DEF Inv, TypeInv
<1>3. CASE c.rtype \notin Structs
  <2>1. /\ UNCHANGED <<typeVars, stack, next>>
        /\ pc' = "idle" /\ rc' = "BAD_TYPEDEF"
    BY <1>1, <1>3 DEF GetStructOffsets, Return, typeVars
  <2>2. TypeOK'
    BY <1>1, <2>1 DEF Inv, TypeInv, TypeOK, typeVars
  <2>3. ReturnInv'
    BY <1>1, <2>1 DEF ReturnInv
  <2>4. OffsetsFit'
    BY <1>1 DEF OffsetsFit
  <2> QED
    BY <1>1, <2>1, <2>2, <2>3, <2>4, OutsideStep
<1> QED
  BY <1>2, <1>3

LEMMA LayOutStep ==
  ASSUME Inv, NEW t \in Types,
         \/ LayOut(t, "takeReturn", "rtype")
         \/ LayOut(t, "takeArg", "arg") /\ i <= Nargs
  PROVE  Inv'
<1>1. PICK then \in {"takeReturn", "takeArg"} :
        /\ stack = <<>> /\ (then = "takeArg" => i <= Nargs)
        /\ IF SizeOf(t) = 0 THEN Enter(t) /\ back' = then
           ELSE /\ Goto(then)
                /\ UNCHANGED <<size, alignment, next, stack, spoilt, back>>
        /\ UNCHANGED <<elements, offsets, call, i, bytes, cifVars>>
  BY DEF LayOut, Inv, TypeInv, FramesInv
<1>2. TypeOK /\ ReturnInv
  BY DEF Inv, TypeInv
<1>3. CASE SizeOf(t) = 0
  <2>1. t \in Structs /\ Enter(t) /\ back' = then
    BY <1>1, <1>3, ScalarFacts DEF SizeOf, Types
  <2>2. /\ FrameTypes' /\ FramesInv' /\ PaddedLayout'
        /\ \/ stack' = <<>> /\ pc' = "idle" /\ rc' = "BAD_TYPEDEF"
           \/ stack' = Append(stack, t) /\ pc' = "layout" /\ rc' = rc
    BY <1>1, <2>1, EnterStep
  <2>3. TypeOK'
    BY <1>1, <1>2, <2>1, <2>2 DEF TypeOK, FrameTypes, cifVars
  <2>4. ReturnInv'
    BY <1>1, <1>2, <2>1, <2>2 DEF ReturnInv, Nargs
  <2>5. OffsetsFit'
    BY <1>1 DEF Inv, OffsetsFit
  <2> QED
    BY <2>2, <2>3, <2>4, <2>5 DEF Inv, TypeInv
<1>4. CASE SizeOf(t) # 0
  <2>1. /\ UNCHANGED <<typeVars, stack, next, back>>
        /\ pc' = then /\ rc' = rc
    BY <1>1, <1>4 DEF Goto, typeVars
  <2>2. TypeOK'
    BY <1>1, <1>2, <2>1 DEF TypeOK, typeVars, cifVars
  <2>3. ReturnInv'
    BY <1>1, <1>2, <2>1 DEF ReturnInv, Nargs
  <2>4. OffsetsFit'
    BY <1>1 DEF Inv, OffsetsFit
  <2> QED
    BY <1>1, <2>1, <2>2, <2>3, <2>4, OutsideStep
<1> QED
  BY <1>3, <1>4

(* The steps that take a type that was laid out, and the back end.           *)
LEMMA TakeStep ==
  ASSUME Inv, TakeReturn \/ TakeArg \/ Machdep \/ MachdepVar
  PROVE  Inv'
<1>1. /\ stack = <<>> /\ TypeOK /\ ReturnInv
  BY DEF TakeReturn, TakeArg, Machdep, MachdepVar, Inv, TypeInv, FramesInv
<1>2. /\ UNCHANGED <<typeVars, frameVars, call>>
      /\ pc' \in {"arg", "aborted", "idle"}
      /\ rc' \in {rc, "BAD_TYPEDEF", "BAD_ARGTYPE", "OK"}
      /\ i' \in {i, i + 1} /\ flags' \subseteq flags \cup {"VARARGS"}
  BY DEF TakeReturn, TakeArg, Machdep, MachdepVar, Goto, Return, cifVars
<1>3. nfixedargs' \in Nat
  BY <1>1, CallFacts
     DEF TakeReturn, TakeArg, Machdep, MachdepVar, cifVars, TypeOK
<1>4. bytes' \in Nat
  <2>1. \A x \in Nat : STACK_ARG_SIZE(x) \in Nat
    BY AlignFacts DEF STACK_ARG_SIZE, SizeOfArg, Powers
  <2>2. CASE TakeReturn
    BY <2>1, <2>2 DEF TakeReturn
  <2>3. CASE TakeArg
    <3>1. Arg \in Types
      BY <1>1, <2>3, CallFacts DEF TakeArg, ReturnInv, TypeOK, Arg
    <3>2. SizeOf(Arg) \in Nat /\ FFI_ALIGN(bytes, AlignOf(Arg)) \in Nat
      BY <1>1, <3>1, FieldFacts, AlignFacts DEF TypeOK
    <3>3. STACK_ARG_SIZE(SizeOf(Arg)) \in Nat /\ bytes \in Nat
      BY <1>1, <2>1, <3>2 DEF TypeOK
    <3> QED
      BY <2>3, <3>2, <3>3 DEF TakeArg
  <2>4. CASE Machdep \/ MachdepVar
    BY <1>1, <2>4 DEF Machdep, MachdepVar, TypeOK
  <2> QED
    BY <2>2, <2>3, <2>4
<1>5. TypeOK'
  BY <1>1, <1>2, <1>3, <1>4 DEF TypeOK, typeVars, frameVars
<1>6. ReturnInv'
  BY <1>1, <1>2 DEF ReturnInv, frameVars, TypeOK
<1>7. OffsetsFit'
  BY <1>2 DEF Inv, OffsetsFit, typeVars, frameVars
<1> QED
  BY <1>1, <1>2, <1>5, <1>6, <1>7, OutsideStep DEF frameVars

LEMMA InitInv == Init => Inv
<1> SUFFICES ASSUME Init PROVE Inv
  OBVIOUS
<1>1. TypeOK
  BY DEF Init, TypeOK
<1>2. FramesInv /\ ReturnInv
  BY DEF Init, FramesInv, ReturnInv
<1>3. OffsetsFit /\ PaddedLayout
  BY DEF Init, OffsetsFit, PaddedLayout, Settled
<1> QED
  BY <1>1, <1>2, <1>3 DEF Inv, TypeInv

LEMMA NextInv == Inv /\ [Next]_vars => Inv'
<1> SUFFICES ASSUME Inv, [Next]_vars PROVE Inv'
  OBVIOUS
<1>1. ASSUME NEW c \in Calls, BadAbi(c) \/ PrepCif(c) \/ GetStructOffsets(c)
      PROVE  Inv'
  BY <1>1, BeginStep, GetStructOffsetsStep
<1>2. CASE NextElement \/ PlaceElement \/ EndAggregate
  BY <1>2, NextElementStep, PlaceElementStep, EndAggregateStep
<1>3. CASE LayOutReturn
  BY <1>3, LayOutStep, CallFacts DEF LayOutReturn, Inv, TypeInv
<1>4. CASE LayOutArg
  <2>1. Arg \in Types
    BY <1>4, CallFacts DEF LayOutArg, Arg, Inv, TypeInv, TypeOK, ReturnInv
  <2> QED
    BY <1>4, <2>1, LayOutStep DEF LayOutArg
<1>5. CASE TakeReturn \/ TakeArg \/ Machdep \/ MachdepVar
  BY <1>5, TakeStep
<1>6. CASE Aborted \/ UNCHANGED vars
  <2>1. UNCHANGED <<typeVars, frameVars, cifVars, pc, call, i, bytes, rc>>
    BY <1>6 DEF Aborted, vars
  <2>2. TypeOK'
    BY <2>1 DEF typeVars, frameVars, cifVars, Inv, TypeInv, TypeOK
  <2>3. FramesInv' /\ ReturnInv'
    BY <2>1 DEF typeVars, frameVars, Inv, TypeInv, FramesInv, ReturnInv, Nargs
  <2>4. OffsetsFit' /\ PaddedLayout'
    BY <2>1 DEF typeVars, frameVars, Inv, OffsetsFit, PaddedLayout, Settled,
       OnStack
  <2> QED
    BY <2>2, <2>3, <2>4 DEF Inv, TypeInv
<1> QED
  BY <1>1, <1>2, <1>3, <1>4, <1>5, <1>6 DEF Next

LEMMA InvHolds == Spec => []Inv
  BY InitInv, NextInv, PTL DEF Spec

(* The fields of the types, the frames and the cif have their types.         *)
THEOREM LayoutTypeCorrect == Spec => []TypeOK
<1>1. Inv => TypeOK
  BY DEF Inv, TypeInv
<1> QED
  BY <1>1, InvHolds, PTL

(* ffi_get_struct_offsets writes no more offsets than the struct has         *)
(* elements, whatever else of the struct it has to lay out on the way.       *)
THEOREM OffsetsNeverOverrun == Spec => []OffsetsFit
<1>1. Inv => OffsetsFit
  BY DEF Inv
<1> QED
  BY <1>1, InvHolds, PTL

------------------------------------------------------------------------------
(* ffi_prep_cif_core: which call is going on, and what it has of the cif.    *)

InCore == {"rtype", "takeReturn", "arg", "takeArg", "aborted"}
CoreInv ==
  /\ pc \in InCore => call.fn # "offsets"
  /\ stack # <<>> => (back = "offsets" <=> call.fn = "offsets")
  /\ pc # "idle" /\ call.fn # "offsets" => flags = {}

(* A frame entered or given up leaves the cif alone, and gives no OK.        *)
LEMMA EnterControl ==
  ASSUME NEW t, Enter(t)
  PROVE  \/ pc' = "layout" /\ stack' # <<>>
         \/ pc' = "idle" /\ stack' = <<>> /\ rc' = "BAD_TYPEDEF"
BY DEF Enter, GiveUp, Goto, Return

LEMMA CoreStep == Inv /\ CoreInv /\ FixedArgs /\ [Next]_vars
                    => CoreInv' /\ FixedArgs'
<1> SUFFICES ASSUME Inv, CoreInv, FixedArgs, [Next]_vars
              PROVE  CoreInv' /\ FixedArgs'
  OBVIOUS
<1> USE DEF CoreInv, FixedArgs, CifOK, InCore
<1>0. /\ stack # <<>> <=> pc \in {"layout", "element"}
      /\ back \in {"none", "offsets", "takeReturn", "takeArg"}
      /\ stack # <<>> => back # "none"
  BY DEF Inv, TypeInv, TypeOK, FramesInv, ReturnInv
<1>1. ASSUME NEW c \in Calls, BadAbi(c) PROVE CoreInv' /\ FixedArgs'
  BY <1>0, <1>1 DEF BadAbi, Begin, Return
<1>2. ASSUME NEW c \in Calls, PrepCif(c) PROVE CoreInv' /\ FixedArgs'
  BY <1>0, <1>2 DEF PrepCif, Begin, Goto
<1>3. ASSUME NEW c \in Calls, GetStructOffsets(c) PROVE CoreInv' /\ FixedArgs'
  <2>1. /\ call'.fn = "offsets" /\ back' = "offsets"
        /\ pc' \in {"idle", "layout"}
    BY <1>3, EnterControl DEF GetStructOffsets, Begin, Return
  <2> QED BY <2>1
<1>4. CASE NextElement
  <2>1. UNCHANGED <<back, call, flags, nfixedargs>>
    BY <1>4 DEF NextElement, cifVars
  <2>2. \/ pc' \in {"layout", "element"}
        \/ pc' = "idle" /\ stack' = <<>> /\ rc' = "BAD_TYPEDEF"
    BY <1>4, EnterControl DEF NextElement, Goto
  <2> QED BY <1>0, <1>4, <2>1, <2>2 DEF NextElement
<1>5. CASE PlaceElement
  BY <1>0, <1>5 DEF PlaceElement, Goto, cifVars
<1>6. CASE EndAggregate
  <2>1. stack # <<>> /\ UNCHANGED <<back, call, flags, nfixedargs>>
    BY <1>0, <1>6 DEF EndAggregate, cifVars
  <2>2. \/ pc' = "element"
        \/ pc' = "idle" /\ stack' = <<>> /\ rc' = "BAD_TYPEDEF"
        \/ pc' = "idle" /\ back = "offsets"
        \/ pc' = back /\ back # "offsets"
    BY <1>6 DEF EndAggregate, GiveUp, Goto, Return
  <2> QED BY <1>0, <1>6, <2>1, <2>2 DEF EndAggregate
<1>7. ASSUME NEW t, NEW then \in {"takeReturn", "takeArg"}, NEW p \in {"rtype", "arg"},
              LayOut(t, then, p)
      PROVE  CoreInv' /\ FixedArgs'
  <2>1. /\ pc = p /\ stack = <<>> /\ UNCHANGED <<call, flags, nfixedargs>>
        /\ \/ pc' = then /\ stack' = <<>>
           \/ pc' = "layout" /\ back' = then
           \/ pc' = "idle" /\ stack' = <<>> /\ rc' = "BAD_TYPEDEF"
    BY <1>0, <1>7, EnterControl DEF LayOut, Goto, cifVars
  <2> QED BY <2>1
<1>8. CASE TakeReturn \/ TakeArg
  BY <1>0, <1>8 DEF TakeReturn, TakeArg, Goto, frameVars, cifVars
<1>9. CASE Machdep
  BY <1>0, <1>9 DEF Machdep, Return, frameVars, Nargs
<1>10. CASE MachdepVar
  BY <1>0, <1>10 DEF MachdepVar, Return, frameVars
<1>11. CASE Aborted \/ UNCHANGED vars
  BY <1>11 DEF Aborted, vars, frameVars, cifVars, Nargs
<1> QED
  BY <1>1, <1>2, <1>3, <1>4, <1>5, <1>6, <1>7, <1>8, <1>9, <1>10, <1>11
     DEF Next, LayOutReturn, LayOutArg

LEMMA CoreHolds == Spec => [](CoreInv /\ FixedArgs)
<1>1. Init => CoreInv /\ FixedArgs
  BY DEF Init, CoreInv, FixedArgs, CifOK, InCore
<1> QED
  BY <1>1, CoreStep, InvHolds, PTL DEF Spec

(* A prepared cif says that it is variadic exactly if ffi_prep_cif_var made  *)
(* it, with the fixed arguments of that call, however often it was used.     *)
THEOREM FixedArgsRight == Spec => []FixedArgs
  BY CoreHolds, PTL

(* A type that is laid out, and that no frame is at work on.                 *)
Prepared(t) == SizeOf(t) # 0 /\ t \notin OnStack

(* The type that the outermost frame was entered for.                        *)
Wanted == IF back = "takeReturn" THEN call.rtype ELSE Arg

(* ffi_prep_cif_core is past the return type; past the arguments before i.   *)
AtArgs == pc \in {"arg", "takeArg"} \/ (stack # <<>> /\ back = "takeArg")
SoundInv ==
  /\ pc \in {"rtype", "takeReturn"} => i = 1
  /\ stack # <<>> /\ back = "takeReturn" => i = 1
  /\ pc = "takeReturn" => Prepared(call.rtype)
  /\ pc = "takeArg" => Prepared(Arg)
  /\ AtArgs => Prepared(call.rtype) /\ call.rtype # "complex"
  /\ AtArgs => \A k \in 1 .. Nargs : k < i =>
                 Prepared(call.atypes[k]) /\ call.atypes[k] # "complex"
  /\ stack # <<>> /\ back # "offsets" => stack[1] = Wanted
  /\ CifOK => TypesPrepared /\ ArgsAccepted

(* What the frames do not touch stays prepared, and as it is: a struct is    *)
(* entered only if it has no size, and only the one on top is changed.       *)
LEMMA PreparedKept ==
  ASSUME Inv, NEW t \in Types, Prepared(t),
         NextElement \/ PlaceElement \/ EndAggregate
  PROVE  Prepared(t)' /\ SizeOf(t)' = SizeOf(t) /\ AlignOf(t)' = AlignOf(t)
<1>1. /\ stack # <<>> /\ Top \in Structs /\ Top \in OnStack
      /\ stack \in Seq(Structs) /\ size \in [Structs -> Nat]
      /\ alignment \in [Structs -> Powers \cup {0}]
  <2>1. pc \in {"layout", "element"}
    BY DEF NextElement, PlaceElement, EndAggregate
  <2>2. stack # <<>>
    BY <2>1 DEF Inv, TypeInv, FramesInv
  <2>3. Len(stack) \in Nat \ {0} /\ Top \in Structs
    BY <2>2, TopFacts DEF Inv
  <2>4. Top \in OnStack
    BY <2>3 DEF Top, OnStack
  <2>5. /\ stack \in Seq(Structs) /\ size \in [Structs -> Nat]
        /\ alignment \in [Structs -> Powers \cup {0}]
    BY DEF Inv, TypeInv, TypeOK
  <2> QED
    BY <2>2, <2>3, <2>4, <2>5
<1>2. t # Top
  BY <1>1 DEF Prepared
<1>3. CASE NextElement
  <2> DEFINE e == elements[Top][next[Top]]
  <2>1. CASE SizeOf(e) # 0
    BY <1>3, <2>1 DEF NextElement, Prepared, SizeOf, AlignOf, OnStack
  <2>2. CASE SizeOf(e) = 0 /\ ~GiveUp
    <3>1. t # e
      BY <2>2 DEF Prepared
    <3>2. /\ size' = [size EXCEPT ![e] = 0]
          /\ alignment' = [alignment EXCEPT ![e] = 0]
      BY <1>3, <2>2 DEF NextElement, Enter
    <3>3. stack' = Append(stack, e)
      BY <1>3, <2>2 DEF NextElement, Enter
    <3> HIDE DEF e
    <3>4. OnStack' \subseteq OnStack \cup {e}
      <4>1. stack \in Seq(Structs)
        BY <1>1
      <4> QED
        BY <3>3, <4>1 DEF OnStack
    <3>5. t \in Structs => size'[t] = size[t] /\ alignment'[t] = alignment[t]
      BY <1>1, <3>1, <3>2
    <3> QED
      BY <3>1, <3>4, <3>5 DEF Prepared, SizeOf, AlignOf
  <2>3. CASE GiveUp
    BY <2>3 DEF GiveUp, Prepared, SizeOf, AlignOf, OnStack
  <2> QED
    BY <2>1, <2>2, <2>3
<1>4. CASE PlaceElement
  <2>1. stack' = stack /\ \A u \in Structs : u # Top =>
          size'[u] = size[u] /\ alignment'[u] = alignment[u]
    BY <1>1, <1>4 DEF PlaceElement
  <2> QED
    BY <1>2, <2>1 DEF Prepared, SizeOf, AlignOf, OnStack
<1>5. CASE EndAggregate
  <2>1. CASE GiveUp
    BY <2>1 DEF GiveUp, Prepared, SizeOf, AlignOf, OnStack
  <2>2. CASE ~GiveUp
    <3>1. /\ stack' = SubSeq(stack, 1, Len(stack) - 1)
          /\ size' = [size EXCEPT ![Top] = Padded] /\ alignment' = alignment
      BY <1>5, <2>2 DEF EndAggregate
    <3>2. \A u \in Structs : u # Top => size'[u] = size[u]
      BY <1>1, <3>1
    <3>3. OnStack' \subseteq OnStack
      <4>1. Len(stack) >= 1 /\ Len(stack) \in Nat
        BY <1>1
      <4>2. Len(stack') = Len(stack) - 1
             /\ \A k \in 1 .. Len(stack') : stack'[k] = stack[k]
        BY <1>1, <3>1, <4>1, PopFacts
      <4> QED
        BY <4>1, <4>2 DEF OnStack
    <3> QED
      BY <1>2, <3>1, <3>2, <3>3 DEF Prepared, SizeOf, AlignOf
  <2> QED
    BY <2>1, <2>2
<1> QED
  BY <1>3, <1>4, <1>5

(* A frame entered from ffi_prep_cif_core, for a type without size.          *)
LEMMA PreparedEntered ==
  ASSUME Inv, NEW t \in Types, SizeOf(t) = 0, Enter(t), stack = <<>>,
         NEW u \in Types, Prepared(u)
  PROVE  Prepared(u)' /\ SizeOf(u)' = SizeOf(u) /\ AlignOf(u)' = AlignOf(u)
<1>1. /\ u # t /\ size \in [Structs -> Nat]
      /\ alignment \in [Structs -> Powers \cup {0}]
  BY DEF Prepared, Inv, TypeInv, TypeOK
<1>2. CASE GiveUp
  BY <1>2 DEF GiveUp, Prepared, SizeOf, AlignOf, OnStack
<1>3. CASE ~GiveUp
  <2>1. /\ size' = [size EXCEPT ![t] = 0] /\ stack' = <<t>>
        /\ alignment' = [alignment EXCEPT ![t] = 0]
    BY <1>3 DEF Enter
  <2> QED
    BY <1>1, <2>1 DEF Prepared, SizeOf, AlignOf, OnStack
<1> QED
  BY <1>2, <1>3

(* The frames keep what ffi_prep_cif_core is through with.                   *)
LEMMA SoundFrames ==
  ASSUME Inv, CoreInv, SoundInv, NextElement \/ PlaceElement \/ EndAggregate
  PROVE  SoundInv'
<1>0. /\ TypeOK /\ stack # <<>> /\ pc \in {"layout", "element"} /\ Top \in Structs
      /\ UNCHANGED <<call, i, back>>
      /\ Arg' = Arg /\ Wanted' = Wanted /\ Nargs' = Nargs
      /\ Len(stack) \in Nat \ {0} /\ stack \in Seq(Structs)
      /\ back \in {"offsets", "takeReturn", "takeArg"}
  BY TopFacts DEF NextElement, PlaceElement, EndAggregate, Inv, TypeInv, TypeOK,
     FramesInv, ReturnInv, Arg, Wanted, Nargs
<1>1. \/ pc' \in {"layout", "element"} /\ stack' # <<>> /\ stack'[1] = stack[1]
      \/ pc' = "idle" /\ stack' = <<>> /\ rc' = "BAD_TYPEDEF"
      \/ pc' = "idle" /\ stack' = <<>> /\ back = "offsets"
      \/ /\ pc' = back /\ back # "offsets" /\ stack' = <<>>
         /\ \A t \in Types : t = stack[1] => Prepared(t)'
  <2>1. CASE NextElement
    <3>1. \/ pc' = "element" /\ stack' = stack
          \/ pc' = "idle" /\ stack' = <<>> /\ rc' = "BAD_TYPEDEF"
          \/ pc' = "layout" /\ stack' = Append(stack, elements[Top][next[Top]])
      BY <2>1 DEF NextElement, Enter, GiveUp, Goto, Return
    <3>2. \A e : /\ Append(stack, e) # <<>>
                 /\ Append(stack, e)[1] = stack[1]
      BY <1>0
    <3> QED
      BY <1>0, <3>1, <3>2
  <2>2. CASE PlaceElement
    BY <1>0, <2>2 DEF PlaceElement, Goto
  <2>3. CASE EndAggregate /\ GiveUp
    BY <2>3 DEF GiveUp, Return
  <2>4. CASE EndAggregate /\ ~GiveUp
    <3>1. /\ stack' = SubSeq(stack, 1, Len(stack) - 1)
          /\ size' = [size EXCEPT ![Top] = Padded] /\ Padded # 0
          /\ IF Len(stack) > 1 THEN pc' = "element"
             ELSE IF back = "offsets" THEN pc' = "idle" ELSE pc' = back
      BY <2>4 DEF EndAggregate, Goto, Return
    <3>2. /\ Len(stack') = Len(stack) - 1 /\ stack' \in Seq(Structs)
          /\ \A k \in 1 .. Len(stack') : stack'[k] = stack[k]
      BY <1>0, <3>1, PopFacts
    <3>3. CASE Len(stack) > 1
      <4>1. stack' # <<>> /\ stack'[1] = stack[1]
        BY <1>0, <3>2, <3>3
      <4> QED
        BY <3>1, <3>3, <4>1
    <3>4. CASE ~(Len(stack) > 1)
      <4>1. stack' = <<>> /\ Top = stack[1]
        BY <1>0, <3>2, <3>4 DEF Top
      <4>2. size'[Top] = Padded
        BY <1>0, <3>1 DEF TypeOK
      <4>3. ASSUME NEW t \in Types, t = Top PROVE Prepared(t)'
        <5>1. OnStack' = {}
          BY <4>1 DEF OnStack
        <5>2. t \in Structs /\ size'[t] # 0
          BY <1>0, <3>1, <4>2, <4>3
        <5> QED
          BY <5>1, <5>2 DEF Prepared, SizeOf
      <4>4. \A t \in Types : t = stack[1] => Prepared(t)'
        BY <4>1, <4>3
      <4>5. pc' = IF back = "offsets" THEN "idle" ELSE back
        BY <3>1, <3>4, Zenon
      <4> QED
        BY <1>0, <4>1, <4>4, <4>5
    <3> QED
      BY <3>3, <3>4
  <2> QED
    BY <2>1, <2>2, <2>3, <2>4
<1>2. back # "offsets" =>
        \A t \in Types : Prepared(t) => Prepared(t)'
  BY <1>0, PreparedKept
<1>3. /\ call.rtype \in Types
      /\ \A k \in 1 .. Nargs : call.atypes[k] \in Types
  BY <1>0, CallFacts
<1>4. CASE back = "offsets"
  BY <1>0, <1>1, <1>4 DEF SoundInv, AtArgs, CifOK, CoreInv
<1>5. CASE back = "takeReturn"
  BY <1>0, <1>1, <1>2, <1>3, <1>5 DEF SoundInv, AtArgs, CifOK, Wanted
<1>6. CASE back = "takeArg"
  <2>1. Prepared(call.rtype)' /\ call.rtype # "complex"
    BY <1>0, <1>2, <1>3, <1>6 DEF SoundInv, AtArgs
  <2>2. \A k \in 1 .. Nargs : k < i =>
          Prepared(call.atypes[k])' /\ call.atypes[k] # "complex"
    BY <1>0, <1>2, <1>3, <1>6 DEF SoundInv, AtArgs
  <2>3. \A k \in 1 .. Nargs' : k < i' =>
          Prepared(call.atypes[k])' /\ call'.atypes[k] # "complex"
    BY <1>0, <2>2
  <2>4. stack[1] = Arg
    BY <1>0, <1>6 DEF SoundInv, Wanted
  <2>5. pc' = "takeArg" => Prepared(Arg)'
    <3>1. Arg \in Types
      BY <1>0, <1>3, <1>6 DEF Arg, Inv, TypeInv, TypeOK, ReturnInv
    <3>2. pc' = "takeArg" => \A t \in Types : t = Arg => Prepared(t)'
      BY <1>0, <1>1, <2>4
    <3> QED
      BY <1>0, <3>1, <3>2
  <2>6. stack' # <<>> => stack'[1] = Wanted'
    BY <1>0, <1>1, <1>6 DEF SoundInv
  <2>7. ~CifOK'
    BY <1>0, <1>1, <1>6 DEF CifOK
  <2> QED
    BY <1>0, <1>1, <1>6, <2>1, <2>3, <2>5, <2>6, <2>7 DEF SoundInv
<1> QED
  BY <1>0, <1>4, <1>5, <1>6

LEMMA SoundLayOut ==
  ASSUME Inv, CoreInv, SoundInv, LayOutReturn \/ LayOutArg
  PROVE  SoundInv'
<1> DEFINE t    == IF LayOutReturn THEN call.rtype ELSE Arg
           then == IF LayOutReturn THEN "takeReturn" ELSE "takeArg"
<1>1. /\ LayOut(t, then, IF LayOutReturn THEN "rtype" ELSE "arg")
      /\ ~LayOutReturn => i <= Nargs
  BY DEF LayOutArg, LayOutReturn
<1>2. /\ TypeOK /\ stack = <<>> /\ UNCHANGED <<call, i>>
      /\ pc = IF LayOutReturn THEN "rtype" ELSE "arg"
      /\ Arg' = Arg /\ Nargs' = Nargs /\ call.fn # "offsets" /\ i >= 1 /\ i \in Nat
  BY <1>1 DEF LayOut, Inv, TypeInv, TypeOK, FramesInv, ReturnInv, Arg, Nargs,
     CoreInv, InCore
<1>3. /\ call.rtype \in Types /\ t \in Types
      /\ \A k \in 1 .. Nargs : call.atypes[k] \in Types
  BY <1>1, <1>2, CallFacts DEF Arg
<1>4. CASE SizeOf(t) # 0
  <2>1. /\ pc' = then /\ UNCHANGED <<size, stack>>
    BY <1>1, <1>4 DEF LayOut, Goto
  <2>2. \A u \in Types : Prepared(u)' = Prepared(u)
    BY <2>1 DEF Prepared, SizeOf, OnStack
  <2>3. Prepared(t)
    BY <1>2, <1>4 DEF Prepared, OnStack
  <2>4. CASE LayOutReturn
    <3>1. Prepared(call.rtype)'
      BY <1>2, <1>3, <2>2, <2>3, <2>4
    <3> QED
      BY <1>2, <2>1, <2>4, <3>1 DEF SoundInv, AtArgs, CifOK
  <2>5. CASE ~LayOutReturn
    <3>1. Prepared(Arg)'
      BY <1>2, <1>3, <2>2, <2>3, <2>5
    <3>2. Prepared(call.rtype)' /\ call'.rtype # "complex"
      BY <1>2, <1>3, <2>2, <2>5 DEF SoundInv, AtArgs
    <3>3. \A k \in 1 .. Nargs' : k < i' =>
            Prepared(call.atypes[k])' /\ call'.atypes[k] # "complex"
      BY <1>2, <1>3, <2>2, <2>5 DEF SoundInv, AtArgs
    <3> QED
      BY <1>2, <2>1, <2>5, <3>1, <3>2, <3>3 DEF SoundInv, CifOK
  <2> QED
    BY <2>4, <2>5
<1>5. CASE SizeOf(t) = 0
  <2>1. Enter(t) /\ back' = then
    BY <1>1, <1>5 DEF LayOut
  <2>2. \/ pc' = "layout" /\ stack' = <<t>>
        \/ pc' = "idle" /\ stack' = <<>> /\ rc' = "BAD_TYPEDEF"
    BY <1>2, <2>1 DEF Enter, GiveUp, Goto, Return
  <2>3. \A u \in Types : Prepared(u) => Prepared(u)'
    BY <1>2, <1>3, <1>5, <2>1, PreparedEntered
  <2>4. CASE LayOutReturn
    BY <1>2, <2>1, <2>2, <2>4 DEF SoundInv, AtArgs, CifOK, Wanted
  <2>5. CASE ~LayOutReturn
    <3>1. Prepared(call.rtype)' /\ call'.rtype # "complex"
      BY <1>2, <1>3, <2>3, <2>5 DEF SoundInv, AtArgs
    <3>2. \A k \in 1 .. Nargs' : k < i' =>
            Prepared(call.atypes[k])' /\ call'.atypes[k] # "complex"
      BY <1>2, <1>3, <2>3, <2>5 DEF SoundInv, AtArgs
    <3> QED
      BY <1>2, <2>1, <2>2, <2>5, <3>1, <3>2 DEF SoundInv, CifOK, Wanted
  <2> QED
    BY <2>4, <2>5
<1> QED
  BY <1>4, <1>5

(* A type that is taken is not complex, or the process has aborted.          *)
LEMMA SoundTake ==
  ASSUME Inv, SoundInv, TakeReturn \/ TakeArg
  PROVE  SoundInv'
<1>1. /\ TypeOK /\ stack = <<>> /\ UNCHANGED <<call, size, stack>>
      /\ Nargs' = Nargs /\ i \in Nat /\ i >= 1
      /\ pc' \in {"arg", "aborted"}
  BY DEF TakeReturn, TakeArg, Goto, Inv, TypeInv, TypeOK, FramesInv, ReturnInv,
     Nargs, typeVars, frameVars
<1>2. \A u : Prepared(u)' = Prepared(u)
  BY <1>1 DEF Prepared, SizeOf, OnStack
<1>3. CASE TakeReturn
  <2>1. /\ Prepared(call.rtype) /\ i = 1 /\ i' = 1
        /\ pc' = "arg" => call.rtype # "complex"
    BY <1>3 DEF TakeReturn, Goto, SoundInv
  <2>2. Prepared(call.rtype)'
    BY <1>1, <1>2, <2>1
  <2> QED
    BY <1>1, <2>1, <2>2 DEF SoundInv, AtArgs, CifOK
<1>4. CASE TakeArg
  <2>1. /\ Prepared(Arg) /\ i' = i + 1 /\ pc = "takeArg" /\ i <= Nargs
        /\ pc' = "arg" => Arg # "complex"
    BY <1>4 DEF TakeArg, Goto, SoundInv, Inv, TypeInv, ReturnInv
  <2>2. Prepared(call.rtype)' /\ call'.rtype # "complex"
    BY <1>1, <1>2, <2>1 DEF SoundInv, AtArgs
  <2>3. pc' = "arg" => \A k \in 1 .. Nargs : k < i + 1 =>
          Prepared(call.atypes[k]) /\ call.atypes[k] # "complex"
    BY <1>1, <2>1 DEF SoundInv, AtArgs, Arg
  <2>4. pc' = "arg" => \A k \in 1 .. Nargs' : k < i' =>
          Prepared(call.atypes[k])' /\ call'.atypes[k] # "complex"
    BY <1>1, <1>2, <2>1, <2>3
  <2> QED
    BY <1>1, <2>2, <2>4 DEF SoundInv, AtArgs, CifOK
<1> QED
  BY <1>3, <1>4

(* The back end: all the types were taken, and it counts and checks.         *)
LEMMA SoundMachdep ==
  ASSUME Inv, SoundInv, Machdep \/ MachdepVar
  PROVE  SoundInv'
<1>1. /\ TypeOK /\ stack = <<>> /\ UNCHANGED <<call, size, stack>>
      /\ pc' = "idle" /\ i \in Nat /\ pc = "arg" /\ i > Nargs /\ Nargs \in Nat
      /\ call.nfixed \in Nat
  BY CallFacts DEF Machdep, MachdepVar, Return, Inv, TypeInv, TypeOK, FramesInv,
     typeVars, frameVars
<1>2. TypesPrepared
  BY <1>1 DEF SoundInv, AtArgs, TypesPrepared, Mentioned, Prepared, Nargs
<1>3. ASSUME Machdep, rc' = "OK" PROVE ArgsAccepted
  BY <1>1, <1>3, MaxArgsAssumption DEF Machdep, Return, ArgsAccepted
<1>4. ASSUME MachdepVar, rc' = "OK" PROVE ArgsAccepted
  <2>1. call.nfixed + 1 <= MaxArgs
    BY <1>1, <1>4, MaxArgsAssumption DEF MachdepVar, Return
  <2>2. \A k \in call.nfixed + 1 .. Nargs : ~Unpromoted(call.atypes[k])
    BY <1>4 DEF MachdepVar, Return
  <2>3. \A u \in {"float", "uint8", "sint16"} : Unpromoted(u)
    BY StructsAssumption DEF Unpromoted, SizeOf, Scalar, Scalars
  <2> QED
    BY <1>4, <2>1, <2>2, <2>3 DEF MachdepVar, ArgsAccepted
<1>5. TypesPrepared' = TypesPrepared /\ ArgsAccepted' = ArgsAccepted
  BY <1>1 DEF TypesPrepared, ArgsAccepted, Mentioned, SizeOf, Nargs
<1> QED
  BY <1>1, <1>2, <1>3, <1>4, <1>5 DEF SoundInv, AtArgs, CifOK

LEMMA SoundStep == Inv /\ CoreInv /\ SoundInv /\ [Next]_vars => SoundInv'
<1> SUFFICES ASSUME Inv, CoreInv, SoundInv, [Next]_vars PROVE SoundInv'
  OBVIOUS
<1>1. ASSUME NEW c \in Calls, BadAbi(c) \/ PrepCif(c) \/ GetStructOffsets(c)
      PROVE  SoundInv'
  <2>1. stack = <<>>
    BY <1>1 DEF BadAbi, PrepCif, GetStructOffsets, Begin, Inv, TypeInv, FramesInv
  <2>2. CASE BadAbi(c)
    BY <2>1, <2>2 DEF BadAbi, Begin, Return, SoundInv, AtArgs, CifOK
  <2>3. CASE PrepCif(c)
    BY <2>1, <2>3 DEF PrepCif, Begin, Goto, SoundInv, AtArgs, CifOK
  <2>4. CASE GetStructOffsets(c)
    <3>1. /\ call'.fn = "offsets" /\ back' = "offsets"
          /\ pc' \in {"idle", "layout"}
      BY <2>4, EnterControl DEF GetStructOffsets, Begin, Return
    <3> QED
      BY <3>1 DEF SoundInv, AtArgs, CifOK
  <2> QED
    BY <1>1, <2>2, <2>3, <2>4
<1>2. CASE NextElement \/ PlaceElement \/ EndAggregate
  BY <1>2, SoundFrames
<1>3. CASE LayOutReturn \/ LayOutArg
  BY <1>3, SoundLayOut
<1>4. CASE TakeReturn \/ TakeArg
  BY <1>4, SoundTake
<1>5. CASE Machdep \/ MachdepVar
  BY <1>5, SoundMachdep
<1>6. CASE Aborted \/ UNCHANGED vars
  <2>1. UNCHANGED <<typeVars, frameVars, cifVars, pc, call, i, bytes, rc>>
    BY <1>6 DEF Aborted, vars
  <2>2. /\ Nargs' = Nargs /\ Arg' = Arg /\ Wanted' = Wanted /\ AtArgs' = AtArgs
        /\ OnStack' = OnStack /\ Mentioned' = Mentioned /\ CifOK' = CifOK
        /\ \A u : SizeOf(u)' = SizeOf(u)
    BY <2>1 DEF typeVars, frameVars, Nargs, Arg, Wanted, AtArgs, OnStack,
       Mentioned, CifOK, SizeOf
  <2>3. TypesPrepared' = TypesPrepared /\ ArgsAccepted' = ArgsAccepted
    BY <2>1, <2>2 DEF TypesPrepared, ArgsAccepted
  <2> QED
    BY <2>1, <2>2, <2>3 DEF frameVars, SoundInv, Prepared
<1> QED
  BY <1>1, <1>2, <1>3, <1>4, <1>5, <1>6 DEF Next

------------------------------------------------------------------------------
(* What the reference definitions say of every sequence.  They are recursive *)
(* functions: a function that meets their equation is equal to them, since   *)
(* the arguments up to which the two agree are all of them.                  *)

(* A set that has 0, and each number up to n whose predecessor it has.       *)
LEMMA IntervalInduction ==
  ASSUME NEW n \in Nat, NEW S, 0 \in S,
         \A j \in 1 .. n : j - 1 \in S => j \in S
  PROVE  0 .. n \subseteq S
<1> DEFINE T == (0 .. n) \ S
           R == OpToRel(<, Nat)
<1>1. SUFFICES ASSUME T # {} PROVE FALSE
  OBVIOUS
<1>2. PICK x \in T : \A y \in T : ~ (<<y, x>> \in R)
  <2>1. T \subseteq Nat
    OBVIOUS
  <2> HIDE DEF T, R
  <2>2. IsWellFoundedOn(R, Nat)
    BY NatLessThanWellFounded DEF R
  <2> QED BY <1>1, <2>1, <2>2, WFMin
<1>3. \A y \in Nat : y < x => <<y, x>> \in R
  BY DEF OpToRel
<1> HIDE DEF R
<1>4. x \in 1 .. n /\ x - 1 \in 0 .. n /\ x - 1 \in Nat /\ x - 1 < x
  OBVIOUS
<1>5. x - 1 \in S
  BY <1>2, <1>3, <1>4
<1> QED
  BY <1>4, <1>5

(* For a power of two FFI_ALIGN gives the least multiple that is not less.   *)
LEMMA LeastMultipleFacts ==
  ASSUME NEW v \in Nat, NEW a \in Powers
  PROVE  /\ LeastMultiple(v, a) = FFI_ALIGN(v, a)
         /\ FFI_ALIGN(v, a) \in Nat /\ FFI_ALIGN(v, a) >= v
<1>1. ASSUME NEW m \in v .. v + a - 1, m % a = 0
      PROVE  m = FFI_ALIGN(v, a)
  <2>1. CASE a = 1 BY <1>1, <2>1 DEF FFI_ALIGN
  <2>2. CASE a = 2 BY <1>1, <2>2 DEF FFI_ALIGN
  <2>3. CASE a = 4 BY <1>1, <2>3 DEF FFI_ALIGN
  <2>4. CASE a = 8 BY <1>1, <2>4 DEF FFI_ALIGN
  <2>5. CASE a = 16 BY <1>1, <2>5 DEF FFI_ALIGN
  <2> QED BY <2>1, <2>2, <2>3, <2>4, <2>5 DEF Powers
<1>2. FFI_ALIGN(v, a) \in v .. v + a - 1 /\ FFI_ALIGN(v, a) % a = 0
  <2>1. CASE a = 1 BY <2>1 DEF FFI_ALIGN
  <2>2. CASE a = 2 BY <2>2 DEF FFI_ALIGN
  <2>3. CASE a = 4 BY <2>3 DEF FFI_ALIGN
  <2>4. CASE a = 8 BY <2>4 DEF FFI_ALIGN
  <2>5. CASE a = 16 BY <2>5 DEF FFI_ALIGN
  <2> QED BY <2>1, <2>2, <2>3, <2>4, <2>5 DEF Powers
<1>3. LeastMultiple(v, a) \in v .. v + a - 1 /\ LeastMultiple(v, a) % a = 0
  BY <1>2 DEF LeastMultiple
<1>4. LeastMultiple(v, a) = FFI_ALIGN(v, a)
  BY <1>1, <1>3
<1> QED BY <1>2, <1>4 DEF Powers

(* f[j]: where the j-th element of sizes w and alignments a ends, as the     *)
(* code computes it.                                                         *)
Laid(w, a, n, f) ==
  /\ f \in [0 .. n -> Nat] /\ f[0] = 0
  /\ \A j \in 1 .. n : f[j] = FFI_ALIGN(f[j - 1], a[j]) + w[j]

(* It depends on the first n sizes and alignments alone.                     *)
LEMMA LaidUnique ==
  ASSUME NEW n \in Nat, NEW w, NEW a, NEW v, NEW b, NEW f, NEW g,
         Laid(w, a, n, f), Laid(v, b, n, g),
         \A j \in 1 .. n : w[j] = v[j] /\ a[j] = b[j]
  PROVE  f = g
<1> DEFINE S == {j \in 0 .. n : f[j] = g[j]}
<1>1. 0 \in S
  BY DEF Laid
<1>2. \A j \in 1 .. n : j - 1 \in S => j \in S
  BY DEF Laid
<1> HIDE DEF S
<1>3. \A j \in 0 .. n : j \in S
  BY <1>1, <1>2, IntervalInduction
<1>4. \A j \in 0 .. n : f[j] = g[j]
  BY <1>3 DEF S
<1>5. f = [j \in 0 .. n |-> f[j]] /\ g = [j \in 0 .. n |-> g[j]]
  BY DEF Laid
<1> QED
  BY <1>4, <1>5

(* It is what the reference definition says.                                 *)
LEMMA EndsOfLaid ==
  ASSUME NEW w, NEW a, NEW f, Len(w) \in Nat, Laid(w, a, Len(w), f),
         \A j \in 1 .. Len(w) : a[j] \in Powers
  PROVE  Ends(w, a) = f
<1> DEFINE n == Len(w)
           Body(g) == [j \in 0 .. n |->
                         IF j = 0 THEN 0 ELSE LeastMultiple(g[j - 1], a[j]) + w[j]]
<1>1. \A j \in 1 .. n :
        FFI_ALIGN(f[j - 1], a[j]) = LeastMultiple(f[j - 1], a[j])
  <2> TAKE j \in 1 .. n
  <2>1. f[j - 1] \in Nat /\ a[j] \in Powers
    BY DEF Laid
  <2> QED BY <2>1, LeastMultipleFacts
<1>2. f = Body(f)
  BY <1>1 DEF Laid
<1>3. Ends(w, a) = CHOOSE g : g = Body(g)
  BY DEF Ends
<1>4. Ends(w, a) = Body(Ends(w, a))
  <2> HIDE DEF Body
  <2> QED BY <1>2, <1>3
<1> DEFINE e == Ends(w, a)
           S == {j \in 0 .. n : e[j] = f[j]}
<1>5. e[0] = 0 /\ \A j \in 1 .. n : e[j] = LeastMultiple(e[j - 1], a[j]) + w[j]
  <2> HIDE DEF e
  <2>1. e = Body(e)
    <3> HIDE DEF Body
    <3> QED BY <1>4 DEF e
  <2> QED BY <2>1
<1>6. \A j \in 1 .. n : f[j] = LeastMultiple(f[j - 1], a[j]) + w[j]
  BY <1>1 DEF Laid
<1> HIDE DEF e
<1>7. 0 \in S
  BY <1>5 DEF Laid
<1>8. \A j \in 1 .. n : j - 1 \in S => j \in S
  BY <1>5, <1>6
<1> HIDE DEF S
<1>9. \A j \in 0 .. n : j \in S
  BY <1>7, <1>8, IntervalInduction
<1>10. \A j \in 0 .. n : e[j] = f[j]
  BY <1>9 DEF S
<1>11. e = [j \in 0 .. n |-> e[j]]
  BY <1>4 DEF e
<1>12. e = f
  BY <1>10, <1>11 DEF Laid
<1> QED
  BY <1>12 DEF e

(* g[j]: the sum of the first j of the sizes w.                              *)
Summed(w, n, g) ==
  /\ g \in [0 .. n -> Nat] /\ g[0] = 0
  /\ \A j \in 1 .. n : g[j] = g[j - 1] + w[j]

LEMMA SumsOfSummed ==
  ASSUME NEW w, NEW g, Len(w) \in Nat, Summed(w, Len(w), g)
  PROVE  Sums(w) = g
<1> DEFINE n == Len(w)
           Body(h) == [k \in 0 .. n |-> IF k = 0 THEN 0 ELSE h[k - 1] + w[k]]
<1>1. g = Body(g)
  BY DEF Summed
<1>2. Sums(w) = CHOOSE h : h = Body(h)
  BY DEF Sums
<1>3. Sums(w) = Body(Sums(w))
  <2> HIDE DEF Body
  <2> QED BY <1>1, <1>2
<1> DEFINE e == Sums(w)
           S == {j \in 0 .. n : e[j] = g[j]}
<1>4. e[0] = 0 /\ \A j \in 1 .. n : e[j] = e[j - 1] + w[j]
  <2> HIDE DEF e
  <2>1. e = Body(e)
    <3> HIDE DEF Body
    <3> QED BY <1>3 DEF e
  <2> QED BY <2>1
<1> HIDE DEF e
<1>5. 0 \in S
  BY <1>4 DEF Summed
<1>6. \A j \in 1 .. n : j - 1 \in S => j \in S
  BY <1>4 DEF Summed
<1> HIDE DEF S
<1>7. \A j \in 0 .. n : j \in S
  BY <1>5, <1>6, IntervalInduction
<1>8. \A j \in 0 .. n : e[j] = g[j]
  BY <1>7 DEF S
<1>9. e = [j \in 0 .. n |-> e[j]]
  BY <1>3 DEF e
<1>10. e = g
  BY <1>8, <1>9 DEF Summed
<1> QED
  BY <1>10 DEF e

------------------------------------------------------------------------------
(* What the frames have laid out so far.                                     *)

Strictest(a, b, n) ==
  /\ \A j \in 1 .. n : b[j] <= a
  /\ IF n = 0 THEN a = 0 ELSE \E j \in 1 .. n : b[j] = a

(* The elements before the next one are laid out and placed: the size is     *)
(* where the last of them ends, the alignment that of the strictest.  The    *)
(* outermost frame of ffi_get_struct_offsets has reported where they begin.  *)
FrameLaid(t) ==
  LET n == next[t] - 1
  IN /\ n <= Len(elements[t])
     /\ \A j \in 1 .. n : Prepared(elements[t][j])
     /\ Strictest(alignment[t], Aligns(t), n)
     /\ \E f : /\ Laid(Widths(t), Aligns(t), n, f) /\ size[t] = f[n]
               /\ t = stack[1] /\ back = "offsets" =>
                    \A j \in 1 .. n :
                      offsets[j] = FFI_ALIGN(f[j - 1], Aligns(t)[j])

LaidInv ==
  /\ \A t \in Structs : size[t] # 0 => alignment[t] # 0
  /\ \A t \in OnStack : FrameLaid(t)
  /\ \A k \in 1 .. Len(stack) : k < Len(stack) =>
       stack[k + 1] = elements[stack[k]][next[stack[k]]]
  /\ pc = "element" => Prepared(elements[Top][next[Top]])

(* No struct has two frames.                                                 *)
LEMMA FramesDiffer ==
  ASSUME Inv, NEW j \in 1 .. Len(stack), NEW k \in 1 .. Len(stack), j # k
  PROVE  stack[j] # stack[k]
<1>1. /\ stack \in Seq(Structs) /\ Len(stack) \in Nat
      /\ \A m, n \in 1 .. Len(stack) : m < n => Rank[stack[n]] < Rank[stack[m]]
  BY SMTT(20) DEF Inv, TypeInv, TypeOK, FramesInv
<1>2. Rank[stack[j]] \in Nat /\ Rank[stack[k]] \in Nat
  BY <1>1, RankAssumption
<1>3. j < k \/ k < j
  BY <1>1
<1> QED
  BY <1>1, <1>2, <1>3

(* The elements of the struct on top have a smaller rank than any frame.     *)
LEMMA ElementsOff ==
  ASSUME Inv, stack # <<>>, NEW k \in 1 .. Len(elements[Top])
  PROVE  elements[Top][k] \in Types \ OnStack
<1>1. /\ Len(stack) \in Nat \ {0} /\ Top \in Structs /\ stack \in Seq(Structs)
      /\ elements[Top] # NoElements
  BY TopFacts DEF Inv, TypeInv, TypeOK
<1>2. /\ elements[Top][k] \in Types
      /\ elements[Top][k] \in Structs => Rank[elements[Top][k]] < Rank[Top]
  BY <1>1, ElementFacts DEF Inv, TypeInv
<1>3. ASSUME NEW m \in 1 .. Len(stack), stack[m] = elements[Top][k] PROVE FALSE
  <2>1. stack[m] \in Structs /\ Rank[stack[m]] < Rank[Top]
    BY <1>1, <1>2, <1>3
  <2>2. Rank[stack[m]] \in Nat /\ Rank[Top] \in Nat
    BY <1>1, <2>1, RankAssumption
  <2>3. m < Len(stack) => Rank[Top] < Rank[stack[m]]
    BY <1>1 DEF Inv, TypeInv, FramesInv, Top
  <2>4. m = Len(stack) => stack[m] = Top
    BY DEF Top
  <2> QED
    BY <1>1, <2>1, <2>2, <2>3, <2>4
<1> QED
  BY <1>2, <1>3 DEF OnStack

(* The structs of the frames have elements.                                  *)
LEMMA OnStackFacts ==
  ASSUME Inv, NEW t \in OnStack
  PROVE  /\ t \in Structs /\ elements[t] # NoElements
         /\ Len(elements[t]) \in Nat /\ next[t] \in Nat \ {0}
         /\ \A j \in 1 .. Len(elements[t]) : elements[t][j] \in Types
<1>1. PICK k \in 1 .. Len(stack) : t = stack[k]
  BY DEF OnStack
<1>2. /\ t \in Structs /\ elements[t] # NoElements /\ next[t] \in Nat
      /\ next[t] >= 1
  BY <1>1 DEF Inv, TypeInv, TypeOK, FramesInv
<1> QED
  BY <1>2, ElementFacts DEF Inv, TypeInv

(* What a frame has laid out stays so while its elements and itself are not  *)
(* touched.                                                                  *)
LEMMA FrameKept ==
  ASSUME NEW t \in Structs, FrameLaid(t), UNCHANGED <<elements, back>>,
         stack'[1] = stack[1],
         next'[t] = next[t], size'[t] = size[t], alignment'[t] = alignment[t],
         t = stack[1] /\ back = "offsets" => offsets' = offsets,
         Len(elements[t]) \in Nat, next[t] \in Nat \ {0},
         \A j \in 1 .. Len(elements[t]) :
           Prepared(elements[t][j]) =>
             /\ Prepared(elements[t][j])'
             /\ SizeOf(elements[t][j])' = SizeOf(elements[t][j])
             /\ AlignOf(elements[t][j])' = AlignOf(elements[t][j])
  PROVE  FrameLaid(t)'
<1> DEFINE n == next[t] - 1
<1>1. /\ n \in Nat /\ n <= Len(elements[t])
      /\ \A j \in 1 .. n : Prepared(elements[t][j])
      /\ Strictest(alignment[t], Aligns(t), n)
  BY DEF FrameLaid
<1>2. PICK f : /\ Laid(Widths(t), Aligns(t), n, f) /\ size[t] = f[n]
               /\ t = stack[1] /\ back = "offsets" =>
                    \A j \in 1 .. n :
                      offsets[j] = FFI_ALIGN(f[j - 1], Aligns(t)[j])
  BY DEF FrameLaid
<1>3. n' = n
  OBVIOUS
<1>4. \A j \in 1 .. n : Prepared(elements[t][j])'
  BY <1>1
<1>5. \A j \in 1 .. n : Widths(t)'[j] = Widths(t)[j]
                        /\ Aligns(t)'[j] = Aligns(t)[j]
  <2> TAKE j \in 1 .. n
  <2>1. j \in 1 .. Len(elements[t])
    BY <1>1
  <2> QED
    BY <1>1, <2>1 DEF Widths, Aligns
<1> HIDE DEF n
<1>6. Strictest(alignment'[t], Aligns(t)', n)
  BY <1>1, <1>5 DEF Strictest
<1>7. Laid(Widths(t)', Aligns(t)', n, f) /\ size'[t] = f[n]
  BY <1>2, <1>5 DEF Laid
<1>8. t = stack'[1] /\ back' = "offsets" =>
        \A j \in 1 .. n : offsets'[j] = FFI_ALIGN(f[j - 1], Aligns(t)'[j])
  BY <1>2, <1>5
<1> QED
  BY <1>1, <1>3, <1>4, <1>6, <1>7, <1>8 DEF FrameLaid, n

(* Nothing is laid out of a struct that is entered.                          *)
LEMMA FrameEntered ==
  ASSUME TypeOK, NEW t \in Structs, elements[t] # NoElements, elements' = elements,
         size'[t] = 0, alignment'[t] = 0, next'[t] = 1
  PROVE  FrameLaid(t)'
<1> DEFINE f == [j \in 0 .. 0 |-> 0]
<1>1. Len(elements'[t]) \in Nat /\ next'[t] - 1 = 0
  BY ElementFacts
<1>2. Laid(Widths(t)', Aligns(t)', 0, f) /\ size'[t] = f[0]
  BY DEF Laid
<1>3. Strictest(alignment'[t], Aligns(t)', 0)
  BY DEF Strictest
<1> QED
  BY <1>1, <1>2, <1>3 DEF FrameLaid

LEMMA LaidGivenUp ==
  ASSUME LaidInv, GiveUp
  PROVE  LaidInv'
<1>1. /\ stack' = <<>> /\ pc' = "idle"
      /\ UNCHANGED <<size, alignment>>
  BY DEF GiveUp, Return
<1> QED
  BY <1>1 DEF LaidInv, OnStack

(* A frame is entered from outside.                                          *)
LEMMA LaidEntered ==
  ASSUME Inv, LaidInv, NEW t \in Structs, Enter(t), UNCHANGED elements, stack = <<>>
  PROVE  LaidInv'
<1>1. CASE elements[t] = NoElements
  BY <1>1, LaidGivenUp DEF Enter
<1>2. CASE elements[t] # NoElements
  <2>1. /\ size' = [size EXCEPT ![t] = 0]
        /\ alignment' = [alignment EXCEPT ![t] = 0]
        /\ next' = [next EXCEPT ![t] = 1]
        /\ stack' = <<t>> /\ pc' = "layout"
    BY <1>2 DEF Enter, Goto
  <2>2. /\ size \in [Structs -> Nat] /\ alignment \in [Structs -> Powers \cup {0}]
        /\ next \in [Structs -> Nat] /\ TypeOK
    BY DEF Inv, TypeInv, TypeOK
  <2>3. size'[t] = 0 /\ alignment'[t] = 0 /\ next'[t] = 1
    BY <2>1, <2>2
  <2>4. FrameLaid(t)'
    BY <1>2, <2>2, <2>3, FrameEntered
  <2>5. \A u \in Structs : size'[u] # 0 => alignment'[u] # 0
    BY <2>1, <2>2 DEF LaidInv
  <2>6. OnStack' = {t} /\ Len(stack') = 1
    BY <2>1 DEF OnStack
  <2> QED
    BY <2>1, <2>4, <2>5, <2>6 DEF LaidInv
<1> QED
  BY <1>1, <1>2

(* A frame that a step does not change itself is left as it was.             *)
LEMMA FrameUntouched ==
  ASSUME Inv, LaidInv, NextElement \/ PlaceElement \/ EndAggregate,
         NEW t \in OnStack, stack'[1] = stack[1],
         next'[t] = next[t], size'[t] = size[t], alignment'[t] = alignment[t],
         t = stack[1] /\ back = "offsets" => offsets' = offsets
  PROVE  FrameLaid(t)'
<1>1. UNCHANGED <<elements, back>>
  BY DEF NextElement, PlaceElement, EndAggregate
<1>2. FrameLaid(t)
  BY DEF LaidInv
<1>3. \A u \in Types : Prepared(u) => /\ Prepared(u)' /\ SizeOf(u)' = SizeOf(u)
                                      /\ AlignOf(u)' = AlignOf(u)
  BY PreparedKept
<1>4. \A j \in 1 .. Len(elements[t]) :
         Prepared(elements[t][j]) =>
           /\ Prepared(elements[t][j])'
           /\ SizeOf(elements[t][j])' = SizeOf(elements[t][j])
           /\ AlignOf(elements[t][j])' = AlignOf(elements[t][j])
  BY <1>1, <1>3, OnStackFacts
<1> QED
  BY <1>1, <1>2, <1>4, OnStackFacts, FrameKept

LEMMA LaidNextElement ==
  ASSUME Inv, LaidInv, NextElement
  PROVE  LaidInv'
<1>0. PICK e : e = elements[Top][next[Top]]
  OBVIOUS
<1>1. /\ pc = "layout" /\ next[Top] <= Len(elements[Top])
      /\ UNCHANGED <<elements, back, offsets>>
  BY DEF NextElement
<1>2. /\ TypeOK /\ FramesInv /\ stack # <<>> /\ stack \in Seq(Structs)
      /\ Len(stack) \in Nat \ {0} /\ Top \in Structs
      /\ elements[Top] # NoElements /\ next[Top] \in Nat \ {0}
      /\ size \in [Structs -> Nat] /\ alignment \in [Structs -> Powers \cup {0}]
      /\ next \in [Structs -> Nat]
  BY <1>1, TopFacts DEF Inv, TypeInv, TypeOK, FramesInv
<1>3. e \in Types \ OnStack /\ (e \in Structs => Rank[e] < Rank[Top])
  BY <1>0, <1>1, <1>2, ElementsOff, ElementFacts, SMTT(20)
<1>4. CASE SizeOf(e) # 0
  <2>1. pc' = "element" /\ UNCHANGED <<size, alignment, next, stack>>
    BY <1>0, <1>4 DEF NextElement, Goto
  <2>2. OnStack' = OnStack /\ Top' = Top
    BY <2>1 DEF OnStack, Top
  <2>3. \A t \in OnStack' : FrameLaid(t)'
    BY <1>1, <2>1, <2>2, FrameUntouched
  <2>4. Prepared(e)'
    BY <1>1, <1>3, <1>4, <2>1, <2>2 DEF Prepared, SizeOf
  <2> QED
    BY <1>0, <1>1, <2>1, <2>2, <2>3, <2>4 DEF LaidInv
<1>5. CASE SizeOf(e) = 0 /\ GiveUp
  BY <1>5, LaidGivenUp
<1>6. CASE SizeOf(e) = 0 /\ ~GiveUp
  <2>1. e \in Structs /\ Enter(e) /\ elements[e] # NoElements
    BY <1>0, <1>3, <1>6, ScalarFacts DEF NextElement, SizeOf, Types, Enter
  <2>2. /\ size' = [size EXCEPT ![e] = 0]
        /\ alignment' = [alignment EXCEPT ![e] = 0]
        /\ next' = [next EXCEPT ![e] = 1]
        /\ stack' = Append(stack, e) /\ pc' = "layout"
    BY <2>1 DEF Enter, Goto
  <2>3. size'[e] = 0 /\ alignment'[e] = 0 /\ next'[e] = 1
    BY <1>2, <2>1, <2>2
  <2>4. \A t \in Structs : t # e => /\ size'[t] = size[t] /\ next'[t] = next[t]
                                    /\ alignment'[t] = alignment[t]
    BY <1>2, <2>2
  <2>5. /\ Len(stack') = Len(stack) + 1 /\ stack'[Len(stack) + 1] = e
        /\ \A k \in 1 .. Len(stack) : stack'[k] = stack[k]
    BY <1>2, <2>1, <2>2
  <2>6. OnStack' \subseteq OnStack \cup {e}
    <3>1. \A k \in 1 .. Len(stack') : k \in 1 .. Len(stack) \/ k = Len(stack) + 1
      BY <1>2, <2>5
    <3> QED
      BY <2>5, <3>1 DEF OnStack
  <2>7. FrameLaid(e)'
    BY <1>1, <1>2, <2>1, <2>3, FrameEntered
  <2>8. \A t \in OnStack' : FrameLaid(t)'
    <3>1. \A t \in OnStack : FrameLaid(t)'
      <4>1. stack'[1] = stack[1]
        BY <1>2, <2>5
      <4>2. \A t \in OnStack : t \in Structs /\ t # e
        BY <1>3, OnStackFacts
      <4> QED
        BY <1>1, <2>4, <4>1, <4>2, FrameUntouched
    <3> QED
      BY <2>6, <2>7, <3>1
  <2>9. \A t \in Structs : size'[t] # 0 => alignment'[t] # 0
    BY <2>3, <2>4 DEF LaidInv
  <2>10. \A k \in 1 .. Len(stack) : next'[stack[k]] = next[stack[k]]
    BY <1>2, <1>3, <2>4 DEF OnStack
  <2>11. \A k \in 1 .. Len(stack') : k < Len(stack') =>
           stack'[k + 1] = elements'[stack'[k]][next'[stack'[k]]]
    <3>1. ASSUME NEW k \in 1 .. Len(stack), k < Len(stack)
          PROVE  stack'[k + 1] = elements'[stack'[k]][next'[stack'[k]]]
      <4>1. k + 1 \in 1 .. Len(stack) /\ stack'[k + 1] = stack[k + 1]
        BY <1>2, <2>5, <3>1, SMTT(20)
      <4> QED
        BY <1>1, <2>5, <2>10, <3>1, <4>1 DEF LaidInv
    <3>2. stack'[Len(stack) + 1]
            = elements'[stack'[Len(stack)]][next'[stack'[Len(stack)]]]
      <4>1. Len(stack) \in 1 .. Len(stack) /\ stack[Len(stack)] = Top
        BY <1>2 DEF Top
      <4>2. stack'[Len(stack)] = Top /\ next'[Top] = next[Top]
        BY <2>5, <2>10, <4>1
      <4> QED
        BY <1>0, <1>1, <2>5, <4>2
    <3>3. \A k \in 1 .. Len(stack') : k < Len(stack') =>
            k \in 1 .. Len(stack) /\ (k < Len(stack) \/ k = Len(stack))
      BY <1>2, <2>5
    <3> QED
      BY <3>1, <3>2, <3>3
  <2> QED
    BY <2>2, <2>8, <2>9, <2>11 DEF LaidInv
<1> QED
  BY <1>4, <1>5, <1>6

(* The next element is placed behind the others, at a multiple of its        *)
(* alignment.                                                                *)
LEMMA LaidPlaceElement ==
  ASSUME Inv, LaidInv, PlaceElement
  PROVE  LaidInv'
<1>0. PICK e, at : /\ e = elements[Top][next[Top]]
                   /\ at = FFI_ALIGN(size[Top], AlignOf(e))
  OBVIOUS
<1>1. /\ pc = "element" /\ pc' = "layout"
      /\ offsets' = IF WritesOffsets THEN Append(offsets, at) ELSE offsets
      /\ size' = [size EXCEPT ![Top] = at + SizeOf(e)]
      /\ alignment' =
           [alignment EXCEPT ![Top] = Larger(alignment[Top], AlignOf(e))]
      /\ next' = [next EXCEPT ![Top] = next[Top] + 1]
      /\ UNCHANGED <<elements, stack, back>>
  BY <1>0 DEF PlaceElement, Goto
<1>2. /\ TypeOK /\ FramesInv /\ stack # <<>> /\ stack \in Seq(Structs)
      /\ Len(stack) \in Nat \ {0} /\ Top \in Structs /\ Top \in OnStack
      /\ elements[Top] # NoElements /\ next[Top] \in Nat \ {0}
      /\ size \in [Structs -> Nat] /\ alignment \in [Structs -> Powers \cup {0}]
      /\ next \in [Structs -> Nat] /\ offsets \in Seq(Nat)
  BY <1>1, TopFacts DEF Inv, TypeInv, TypeOK, FramesInv, Top, OnStack
<1>3. PICK t \in Structs, n \in Nat : t = Top /\ n = next[Top] - 1
  BY <1>2
<1>4. /\ next[t] = n + 1 /\ n + 1 <= Len(elements[t]) /\ Len(elements[t]) \in Nat
  <2>1. next[Top] <= Len(elements[Top])
    <3>1. Len(stack) \in 1 .. Len(stack) /\ stack[Len(stack)] = Top
      BY <1>2 DEF Top
    <3> QED
      BY <1>1, <1>2, <3>1 DEF FramesInv
  <2>2. Len(elements[Top]) \in Nat
    BY <1>2, ElementFacts
  <2> QED
    BY <1>2, <1>3, <2>1, <2>2
<1>5. e \in Types /\ e = elements[t][n + 1] /\ Prepared(e)
  <2>1. e = elements[t][next[t]] /\ elements[t] # NoElements
    BY <1>0, <1>2, <1>3
  <2>2. next[t] \in 1 .. Len(elements[t])
    BY <1>4
  <2>3. elements[t][next[t]] \in Types
    BY <1>2, <2>1, <2>2, ElementFacts
  <2>4. Prepared(elements[t][next[t]])
    BY <1>1, <1>3 DEF LaidInv
  <2> QED
    BY <1>4, <2>1, <2>3, <2>4
<1>6. /\ SizeOf(e) \in Nat \ {0} /\ AlignOf(e) \in Powers /\ at \in Nat
  <2>1. SizeOf(e) \in Nat \ {0} /\ AlignOf(e) \in Powers \cup {0}
    BY <1>2, <1>5, FieldFacts DEF Prepared
  <2>2. AlignOf(e) # 0
    BY <1>5, <2>1, ScalarFacts DEF LaidInv, SizeOf, AlignOf, Types, Powers
  <2> QED
    BY <1>0, <1>2, <2>1, <2>2, AlignFacts
<1>7. /\ size'[t] = at + SizeOf(e) /\ next'[t] = n + 2
      /\ alignment'[t] = Larger(alignment[t], AlignOf(e))
      /\ \A u \in Structs : u # t => /\ size'[u] = size[u] /\ next'[u] = next[u]
                                     /\ alignment'[u] = alignment[u]
  BY <1>1, <1>2, <1>3, <1>4
<1>8. \A u \in Types : Prepared(u) => /\ Prepared(u)' /\ SizeOf(u)' = SizeOf(u)
                                      /\ AlignOf(u)' = AlignOf(u)
  BY PreparedKept
<1>9. FrameLaid(t)
  BY <1>2, <1>3 DEF LaidInv
<1>10. PICK f : /\ Laid(Widths(t), Aligns(t), n, f) /\ size[t] = f[n]
                /\ t = stack[1] /\ back = "offsets" =>
                     \A j \in 1 .. n :
                       offsets[j] = FFI_ALIGN(f[j - 1], Aligns(t)[j])
  BY <1>4, <1>9 DEF FrameLaid
<1>11. \A j \in 1 .. n + 1 : elements'[t][j] = elements[t][j]
         /\ elements[t][j] \in Types /\ Prepared(elements[t][j])
  <2>1. \A j \in 1 .. n : Prepared(elements[t][j])
    BY <1>4, <1>9 DEF FrameLaid
  <2>2. \A j \in 1 .. n + 1 : j \in 1 .. Len(elements[t]) /\ (j \in 1 .. n \/ j = n + 1)
    BY <1>4
  <2> QED
    BY <1>1, <1>2, <1>3, <1>5, <2>1, <2>2, ElementFacts
<1>12. \A j \in 1 .. n + 1 : Prepared(elements[t][j])'
  BY <1>8, <1>11
<1>13. \A j \in 1 .. n + 1 : /\ Widths(t)'[j] = Widths(t)[j]
                             /\ Aligns(t)'[j] = Aligns(t)[j]
  <2> TAKE j \in 1 .. n + 1
  <2>1. j \in 1 .. Len(elements[t])
    BY <1>4
  <2> QED
    BY <1>1, <1>8, <1>11, <2>1 DEF Widths, Aligns
<1>14. Widths(t)[n + 1] = SizeOf(e) /\ Aligns(t)[n + 1] = AlignOf(e)
  <2>1. n + 1 \in 1 .. Len(elements[t])
    BY <1>4
  <2> QED
    BY <1>5, <2>1 DEF Widths, Aligns
<1> DEFINE g == [j \in 0 .. n + 1 |-> IF j <= n THEN f[j] ELSE at + SizeOf(e)]
<1>15. /\ Laid(Widths(t)', Aligns(t)', n + 1, g) /\ size'[t] = g[n + 1]
       /\ \A j \in 0 .. n : g[j] = f[j]
  <2>1. /\ g \in [0 .. n + 1 -> Nat] /\ g[n + 1] = at + SizeOf(e)
        /\ \A j \in 0 .. n : g[j] = f[j]
    BY <1>6, <1>10 DEF Laid
  <2> HIDE DEF g
  <2>2. \A j \in 1 .. n : g[j] = FFI_ALIGN(g[j - 1], Aligns(t)[j]) + Widths(t)[j]
    <3>1. \A j \in 1 .. n : j \in 0 .. n /\ j - 1 \in 0 .. n
      OBVIOUS
    <3> QED
      BY <1>10, <2>1, <3>1 DEF Laid
  <2>3. g[n + 1] = FFI_ALIGN(g[n], Aligns(t)[n + 1]) + Widths(t)[n + 1]
    <3>1. n \in 0 .. n
      OBVIOUS
    <3> QED
      BY <1>0, <1>3, <1>10, <1>14, <2>1, <3>1
  <2>4. \A j \in 1 .. n + 1 : j \in 1 .. n \/ (j = n + 1 /\ j - 1 = n)
    OBVIOUS
  <2>5. \A j \in 1 .. n + 1 :
          g[j] = FFI_ALIGN(g[j - 1], Aligns(t)'[j]) + Widths(t)'[j]
    BY <1>13, <2>2, <2>3, <2>4
  <2>6. 0 \in 0 .. n /\ f[0] = 0
    BY <1>10 DEF Laid
  <2> QED
    BY <1>7, <2>1, <2>5, <2>6 DEF Laid
<1> HIDE DEF g
<1>16. Strictest(alignment'[t], Aligns(t)', n + 1)
  <2>1. Strictest(alignment[t], Aligns(t), n)
    BY <1>4, <1>9 DEF FrameLaid
  <2>2. \A j \in 1 .. n + 1 : Aligns(t)[j] \in Nat
    <3> TAKE j \in 1 .. n + 1
    <3>1. j \in 1 .. Len(elements[t])
      BY <1>4
    <3>2. AlignOf(elements[t][j]) \in Powers \cup {0}
      BY <1>2, <1>11, FieldFacts
    <3> QED
      BY <3>1, <3>2 DEF Aligns, Powers
  <2>3. alignment[t] \in Nat /\ AlignOf(e) \in Nat /\ AlignOf(e) # 0
    <3>1. alignment[t] \in Powers \cup {0}
      BY <1>2
    <3> QED
      BY <1>6, <3>1 DEF Powers
  <2>4. \A j \in 1 .. n + 1 : j \in 1 .. n \/ j = n + 1
    OBVIOUS
  <2>5. \A j \in 1 .. n + 1 : Aligns(t)[j] <= Larger(alignment[t], AlignOf(e))
    BY <1>14, <2>1, <2>2, <2>3, <2>4 DEF Strictest, Larger
  <2>6. \E j \in 1 .. n + 1 : Aligns(t)[j] = Larger(alignment[t], AlignOf(e))
    <3>1. CASE AlignOf(e) >= alignment[t]
      <4>1. Larger(alignment[t], AlignOf(e)) = AlignOf(e) /\ n + 1 \in 1 .. n + 1
        BY <2>3, <3>1 DEF Larger
      <4> QED
        BY <1>14, <4>1
    <3>2. CASE ~(AlignOf(e) >= alignment[t])
      <4>1. Larger(alignment[t], AlignOf(e)) = alignment[t] /\ alignment[t] # 0
        BY <2>3, <3>2 DEF Larger
      <4>2. PICK j \in 1 .. n : Aligns(t)[j] = alignment[t]
        BY <2>1, <4>1 DEF Strictest
      <4> QED
        BY <4>1, <4>2
    <3> QED
      BY <3>1, <3>2
  <2> QED
    BY <1>7, <1>13, <2>5, <2>6 DEF Strictest
<1>17. t = stack[1] /\ back = "offsets" =>
         \A j \in 1 .. n + 1 :
           offsets'[j] = FFI_ALIGN(g[j - 1], Aligns(t)'[j])
  <2> SUFFICES ASSUME t = stack[1], back = "offsets"
               PROVE  \A j \in 1 .. n + 1 :
                        offsets'[j] = FFI_ALIGN(g[j - 1], Aligns(t)'[j])
    OBVIOUS
  <2>1. WritesOffsets
    <3>1. Len(stack) = 1
      <4>1. 1 \in 1 .. Len(stack) /\ Len(stack) \in 1 .. Len(stack)
        BY <1>2
      <4>2. stack[Len(stack)] = stack[1]
        BY <1>3 DEF Top
      <4> QED
        BY <4>1, <4>2, FramesDiffer
    <3> QED
      BY <3>1 DEF WritesOffsets
  <2>2. Len(offsets) = n
    <3>1. Len(offsets) + 1 = next[t] /\ Len(offsets) \in Nat
      BY <1>2 DEF Inv, TypeInv, ReturnInv
    <3> QED
      BY <1>4, <3>1
  <2>3. offsets' = Append(offsets, at)
    BY <1>1, <2>1
  <2>4. /\ offsets'[n + 1] = at
        /\ \A j \in 1 .. n : offsets'[j] = offsets[j]
    BY <1>2, <1>6, <2>2, <2>3
  <2>5. \A j \in 1 .. n + 1 : j \in 1 .. n \/ (j = n + 1 /\ j - 1 = n)
    OBVIOUS
  <2>6. \A j \in 1 .. n : offsets'[j] = FFI_ALIGN(g[j - 1], Aligns(t)'[j])
    <3>1. \A j \in 1 .. n : j - 1 \in 0 .. n /\ j \in 1 .. n + 1
      OBVIOUS
    <3> QED
      BY <1>10, <1>13, <1>15, <2>4, <3>1
  <2>7. offsets'[n + 1] = FFI_ALIGN(g[n], Aligns(t)'[n + 1])
    <3>1. n \in 0 .. n /\ n + 1 \in 1 .. n + 1
      OBVIOUS
    <3> QED
      BY <1>0, <1>3, <1>10, <1>13, <1>14, <1>15, <2>4, <3>1
  <2> QED
    BY <2>5, <2>6, <2>7
<1>18. FrameLaid(t)'
  <2>1. next'[t] - 1 = n + 1 /\ n + 1 <= Len(elements'[t])
    BY <1>1, <1>4, <1>7
  <2> QED
    BY <1>1, <1>12, <1>15, <1>16, <1>17, <2>1 DEF FrameLaid
<1>19. \A u \in OnStack' : FrameLaid(u)'
  <2> SUFFICES ASSUME NEW u \in OnStack, u # t
               PROVE  FrameLaid(u)'
    BY <1>1, <1>18 DEF OnStack
  <2>1. u = stack[1] /\ back = "offsets" => offsets' = offsets
    <3>1. ASSUME u = stack[1] PROVE Len(stack) # 1
      BY <1>3, <3>1 DEF Top
    <3> QED
      BY <1>1, <3>1 DEF WritesOffsets
  <2> QED
    BY <1>1, <1>7, <2>1, OnStackFacts, FrameUntouched
<1>20. \A u \in Structs : size'[u] # 0 => alignment'[u] # 0
  <2>1. Larger(alignment[t], AlignOf(e)) # 0
    <3>1. AlignOf(e) \in Nat \ {0}
      BY <1>6 DEF Powers
    <3>2. alignment[t] \in Nat
      <4>1. alignment[t] \in Powers \cup {0}
        BY <1>2
      <4> QED
        BY <4>1 DEF Powers
    <3> QED
      BY <3>1, <3>2 DEF Larger
  <2> QED
    BY <1>7, <2>1 DEF LaidInv
<1>21. \A k \in 1 .. Len(stack) : k < Len(stack) =>
         stack[k + 1] = elements[stack[k]][next'[stack[k]]]
  <2> TAKE k \in 1 .. Len(stack)
  <2> HAVE k < Len(stack)
  <2>1. stack[k] # t
    <3>1. Len(stack) \in 1 .. Len(stack) /\ k # Len(stack)
      BY <1>2
    <3> QED
      BY <1>3, <3>1, FramesDiffer DEF Top
  <2>2. stack[k] \in Structs
    BY <1>2
  <2>3. next'[stack[k]] = next[stack[k]]
    BY <1>7, <2>1, <2>2
  <2>4. stack[k + 1] = elements[stack[k]][next[stack[k]]]
    BY DEF LaidInv
  <2> QED
    BY <2>3, <2>4
<1> QED
  BY <1>1, <1>19, <1>20, <1>21 DEF LaidInv

(* The frame that ends leaves a struct with a size, for which the frame      *)
(* below waits.                                                              *)
LEMMA LaidEndAggregate ==
  ASSUME Inv, LaidInv, EndAggregate
  PROVE  LaidInv'
<1>1. CASE Padded = 0
  BY <1>1, LaidGivenUp DEF EndAggregate
<1>2. CASE Padded # 0
  <2>1. /\ UNCHANGED <<elements, back, offsets, alignment, next>>
        /\ size' = [size EXCEPT ![Top] = Padded]
        /\ stack' = SubSeq(stack, 1, Len(stack) - 1)
        /\ stack # <<>>
    BY <1>2 DEF EndAggregate, Inv, TypeInv, FramesInv
  <2>2. /\ Len(stack) \in Nat \ {0} /\ Top \in Structs /\ stack \in Seq(Structs)
        /\ Len(stack) \in 1 .. Len(stack) /\ stack[Len(stack)] = Top
        /\ size \in [Structs -> Nat] /\ alignment \in [Structs -> Powers \cup {0}]
    BY <2>1, TopFacts DEF Inv, TypeInv, TypeOK, Top
  <2>3. PICK t \in Structs, n \in Nat : t = Top /\ n = Len(stack) - 1
    <3>1. Len(stack) - 1 \in Nat
      BY <2>2
    <3> QED
      BY <2>2, <3>1
  <2>4. /\ Len(stack') = n /\ Len(stack) = n + 1
        /\ \A k \in 1 .. n : stack'[k] = stack[k]
    BY <2>1, <2>2, <2>3, PopFacts
  <2>5. \A k \in 1 .. n : k \in 1 .. Len(stack) /\ stack[k] # t
    BY <2>2, <2>3, <2>4, FramesDiffer
  <2>6. OnStack' \subseteq OnStack \ {t}
    BY <2>4, <2>5 DEF OnStack
  <2>7. size'[t] = Padded /\ \A u \in Structs : u # t => size'[u] = size[u]
    BY <2>1, <2>2, <2>3
  <2>8. alignment[t] # 0
    BY <1>2, <2>3 DEF Padded, FFI_ALIGN
  <2>9. \A u \in Structs : size'[u] # 0 => alignment'[u] # 0
    BY <2>1, <2>7, <2>8 DEF LaidInv
  <2>10. \A u \in OnStack' : FrameLaid(u)'
    <3> TAKE u \in OnStack'
    <3>1. u \in OnStack /\ u # t /\ u \in Structs
      BY <2>6, OnStackFacts
    <3>2. stack'[1] = stack[1]
      <4>1. PICK k \in 1 .. n : u = stack'[k]
        BY <2>4 DEF OnStack
      <4>2. 1 \in 1 .. n
        OBVIOUS
      <4> QED
        BY <2>4, <4>2
    <3> QED
      BY <2>1, <2>7, <3>1, <3>2, FrameUntouched
  <2>11. \A k \in 1 .. Len(stack') : k < Len(stack') =>
           stack'[k + 1] = elements'[stack'[k]][next'[stack'[k]]]
    <3>1. \A k \in 1 .. n : k < n => k + 1 \in 1 .. n /\ k < Len(stack)
      BY <2>4
    <3> QED
      BY <2>1, <2>4, <2>5, <3>1 DEF LaidInv
  <2>12. pc' = "element" => Prepared(elements[Top][next[Top]])'
    <3> SUFFICES ASSUME pc' = "element"
                 PROVE  Prepared(elements[Top][next[Top]])'
      OBVIOUS
    <3>1. n \in 1 .. n /\ n + 1 = Len(stack) /\ n < Len(stack)
      <4>1. Len(stack) > 1
        BY <1>2 DEF EndAggregate, Goto, Return, Inv, TypeInv, TypeOK
      <4> QED
        BY <2>4, <4>1
    <3>2. Top' = stack[n] /\ stack[n] \in Structs
      BY <2>2, <2>4, <2>5, <3>1 DEF Top
    <3>3. elements[stack[n]][next[stack[n]]] = t
      BY <2>2, <2>3, <2>5, <3>1 DEF LaidInv
    <3>4. elements'[Top'][next'[Top']] = t
      BY <2>1, <3>2, <3>3
    <3>5. Prepared(t)'
      BY <1>2, <2>6, <2>7 DEF Prepared, SizeOf
    <3> QED
      BY <3>4, <3>5
  <2> QED
    BY <2>9, <2>10, <2>11, <2>12 DEF LaidInv
<1> QED
  BY <1>1, <1>2

(* Outside initialize_aggregate a step enters a frame or touches no type.    *)
LEMMA LaidOutside ==
  ASSUME Inv, LaidInv, stack = <<>>,
         \/ \E t \in Structs : Enter(t) /\ UNCHANGED elements
         \/ UNCHANGED <<size, alignment, stack>> /\ pc' # "element"
  PROVE  LaidInv'
<1>1. CASE UNCHANGED <<size, alignment, stack>> /\ pc' # "element"
  BY <1>1 DEF LaidInv, OnStack
<1> QED
  BY <1>1, LaidEntered

LEMMA LaidStep == Inv /\ LaidInv /\ [Next]_vars => LaidInv'
<1> SUFFICES ASSUME Inv, LaidInv, [Next]_vars PROVE LaidInv'
  OBVIOUS
<1>0. /\ pc \notin {"layout", "element"} => stack = <<>>
      /\ TypeOK /\ ReturnInv
  BY DEF Inv, TypeInv, FramesInv
<1>1. ASSUME NEW c \in Calls, BadAbi(c) \/ PrepCif(c)
      PROVE  LaidInv'
  BY <1>0, <1>1, LaidOutside DEF BadAbi, PrepCif, Begin, Goto, Return, typeVars
<1>2. ASSUME NEW c \in Calls, GetStructOffsets(c)
      PROVE  LaidInv'
  BY <1>0, <1>2, LaidOutside DEF GetStructOffsets, Begin, Return
<1>3. CASE NextElement \/ PlaceElement \/ EndAggregate
  BY <1>3, LaidNextElement, LaidPlaceElement, LaidEndAggregate
<1>4. ASSUME NEW t \in Types, NEW then \in {"takeReturn", "takeArg"},
             NEW p \in {"rtype", "arg"}, LayOut(t, then, p)
      PROVE  LaidInv'
  <2>1. stack = <<>> /\ UNCHANGED elements
    BY <1>0, <1>4 DEF LayOut
  <2>2. CASE SizeOf(t) = 0
    <3>1. t \in Structs /\ Enter(t)
      BY <1>4, <2>2, ScalarFacts DEF LayOut, SizeOf, Types
    <3> QED
      BY <2>1, <3>1, LaidOutside
  <2>3. CASE SizeOf(t) # 0
    BY <1>4, <2>1, <2>3, LaidOutside DEF LayOut, Goto
  <2> QED
    BY <2>2, <2>3
<1>5. CASE LayOutReturn \/ LayOutArg
  <2>1. call.rtype \in Types /\ (LayOutArg => Arg \in Types)
    BY <1>0, CallFacts, SMTT(20) DEF LayOutArg, Arg, ReturnInv, TypeOK
  <2> QED
    BY <1>4, <1>5, <2>1 DEF LayOutReturn, LayOutArg
<1>6. CASE TakeReturn \/ TakeArg \/ Machdep \/ MachdepVar
  BY <1>0, <1>6, LaidOutside
     DEF TakeReturn, TakeArg, Machdep, MachdepVar, Goto, Return, typeVars, frameVars
<1>7. CASE Aborted \/ UNCHANGED vars
  <2>1. UNCHANGED <<elements, size, alignment, stack, next, back, offsets, pc>>
    BY <1>7 DEF Aborted, vars, typeVars, frameVars
  <2>2. /\ OnStack' = OnStack /\ Top' = Top
        /\ \A u : /\ Prepared(u)' = Prepared(u)
                  /\ Widths(u)' = Widths(u) /\ Aligns(u)' = Aligns(u)
    BY <2>1 DEF OnStack, Top, Prepared, SizeOf, AlignOf, Widths, Aligns
  <2>3. \A u : FrameLaid(u)' = FrameLaid(u)
    BY <2>1, <2>2 DEF FrameLaid
  <2> QED
    BY <2>1, <2>2, <2>3 DEF LaidInv
<1> QED
  BY <1>1, <1>2, <1>3, <1>5, <1>6, <1>7 DEF Next

LEMMA LaidHolds == Spec => []LaidInv
<1>1. Init => LaidInv
  BY DEF Init, LaidInv, OnStack
<1> QED
  BY <1>1, LaidStep, InvHolds, PTL DEF Spec

(* All the elements of the struct that ends are placed.                      *)
LEMMA WholeFacts ==
  ASSUME Inv, LaidInv, stack # <<>>, NEW t, t = Top,
         next[t] > Len(elements[t])
  PROVE  /\ Len(elements[t]) \in Nat /\ next[t] = Len(elements[t]) + 1
         /\ \A j \in 1 .. Len(elements[t]) :
              /\ elements[t][j] \in Types /\ Prepared(elements[t][j])
              /\ AlignOf(elements[t][j]) \in Powers
         /\ Strictest(alignment[t], Aligns(t), Len(elements[t]))
         /\ \E f : /\ Laid(Widths(t), Aligns(t), Len(elements[t]), f)
                   /\ size[t] = f[Len(elements[t])]
                   /\ t = stack[1] /\ back = "offsets" =>
                        \A j \in 1 .. Len(elements[t]) :
                          offsets[j] = FFI_ALIGN(f[j - 1], Aligns(t)[j])
<1>1. t \in OnStack /\ t \in Structs /\ TypeOK
  <2>1. Len(stack) \in 1 .. Len(stack) /\ t \in Structs
    BY TopFacts DEF Inv
  <2> QED
    BY <2>1 DEF OnStack, Top, Inv, TypeInv
<1>2. /\ Len(elements[t]) \in Nat /\ next[t] \in Nat \ {0}
      /\ \A j \in 1 .. Len(elements[t]) : elements[t][j] \in Types
  BY <1>1, OnStackFacts
<1>3. FrameLaid(t) /\ next[t] - 1 <= Len(elements[t])
  BY <1>1 DEF LaidInv, FrameLaid
<1>4. next[t] - 1 = Len(elements[t]) /\ next[t] = Len(elements[t]) + 1
  BY <1>2, <1>3
<1>5. \A j \in 1 .. Len(elements[t]) : Prepared(elements[t][j])
  BY <1>3, <1>4 DEF FrameLaid
<1>6. \A e \in Types : Prepared(e) => AlignOf(e) \in Powers
  <2> TAKE e \in Types
  <2> HAVE Prepared(e)
  <2>1. SizeOf(e) # 0 /\ AlignOf(e) \in Powers \cup {0}
    BY <1>1, FieldFacts DEF Prepared
  <2>2. AlignOf(e) # 0
    BY <2>1, ScalarFacts DEF LaidInv, SizeOf, AlignOf, Types, Powers
  <2> QED
    BY <2>1, <2>2
<1> QED
  BY <1>2, <1>3, <1>4, <1>5, <1>6 DEF FrameLaid

(* The offsets are those of C once the struct has ended, and stay so until   *)
(* the caller's next call.                                                   *)
LEMMA OffsetsReported ==
  ASSUME Inv, LaidInv, EndAggregate, Padded # 0, Len(stack) = 1, back = "offsets"
  PROVE  OffsetsRight'
<1>1. /\ stack # <<>> /\ next[Top] > Len(elements[Top])
      /\ UNCHANGED <<elements, offsets, call>>
  BY DEF EndAggregate, Inv, TypeInv, FramesInv
<1>2. PICK t : t = Top
  OBVIOUS
<1>3. t = stack[1] /\ t = call.rtype /\ t \in Structs /\ t \in OnStack
  <2>1. Top \in Structs /\ Len(stack) \in 1 .. Len(stack)
    BY <1>1, TopFacts DEF Inv
  <2> QED
    BY <1>1, <1>2, <2>1 DEF Top, Inv, TypeInv, ReturnInv, OnStack
<1> DEFINE n == Len(elements[t])
<1>4. /\ n \in Nat /\ next[t] = n + 1
      /\ \A j \in 1 .. n : /\ elements[t][j] \in Types /\ Prepared(elements[t][j])
                           /\ AlignOf(elements[t][j]) \in Powers
  BY <1>1, <1>2, WholeFacts
<1>5. PICK f : /\ Laid(Widths(t), Aligns(t), n, f)
               /\ \A j \in 1 .. n : offsets[j] = FFI_ALIGN(f[j - 1], Aligns(t)[j])
  BY <1>1, <1>2, <1>3, WholeFacts
<1>6. \A u \in Types : Prepared(u) => /\ SizeOf(u)' = SizeOf(u)
                                      /\ AlignOf(u)' = AlignOf(u)
  BY PreparedKept
<1>7. Widths(t)' = Widths(t) /\ Aligns(t)' = Aligns(t)
  BY <1>1, <1>4, <1>6 DEF Widths, Aligns
<1>8. \A j \in 1 .. n : Aligns(t)[j] \in Powers
  BY <1>4 DEF Aligns
<1>9. EndsOf(t)' = f
  <2>1. Len(Widths(t)) = n
    BY <1>4 DEF Widths
  <2>2. Ends(Widths(t), Aligns(t)) = f
    BY <1>4, <1>5, <1>8, <2>1, EndsOfLaid
  <2> QED
    BY <1>7, <2>2 DEF EndsOf
<1>10. \A k \in 1 .. n : COffset(t, k)' = offsets[k]
  <2> TAKE k \in 1 .. n
  <2>1. f[k - 1] \in Nat
    <3>1. k - 1 \in 0 .. n
      BY <1>4
    <3>2. f \in [0 .. n -> Nat]
      BY <1>5 DEF Laid
    <3> QED
      BY <3>1, <3>2
  <2>2. COffset(t, k)' = LeastMultiple(f[k - 1], Aligns(t)[k])
    BY <1>7, <1>9 DEF COffset
  <2> QED
    BY <1>5, <1>8, <2>1, <2>2, LeastMultipleFacts
<1>11. offsets = [k \in 1 .. n |-> offsets[k]]
  <2>1. Len(offsets) + 1 = next[t] /\ offsets \in Seq(Nat)
    BY <1>1, <1>3 DEF Inv, TypeInv, TypeOK, ReturnInv
  <2>2. Len(offsets) \in Nat
    BY <2>1
  <2>3. Len(offsets) = n
    BY <1>4, <2>1, <2>2
  <2> QED
    BY <2>1, <2>3
<1>12. elements'[call'.rtype] = elements[t] /\ call'.rtype = t
  BY <1>1, <1>3
<1>13. offsets' = [k \in 1 .. Len(elements'[call'.rtype]) |-> COffset(t, k)']
  BY <1>1, <1>10, <1>11, <1>12
<1> QED
  BY <1>12, <1>13 DEF OffsetsRight

LEMMA OffsetsStep ==
  Inv /\ CoreInv /\ LaidInv /\ OffsetsRight /\ [Next]_vars => OffsetsRight'
<1> SUFFICES ASSUME Inv, CoreInv, LaidInv, OffsetsRight, [Next]_vars
             PROVE  OffsetsRight'
  OBVIOUS
<1> DEFINE Reported == pc = "idle" /\ rc = "OK" /\ call.fn = "offsets"
<1>1. ~Reported' => OffsetsRight'
  BY DEF OffsetsRight
<1>2. ASSUME NEW c \in Calls, BadAbi(c) \/ PrepCif(c) \/ GetStructOffsets(c)
      PROVE  ~Reported'
  <2>1. CASE BadAbi(c) \/ PrepCif(c)
    BY <2>1 DEF BadAbi, PrepCif, Goto, Return
  <2>2. CASE GetStructOffsets(c)
    BY <2>2, EnterControl DEF GetStructOffsets, Return
  <2> QED
    BY <1>2, <2>1, <2>2
<1>3. CASE NextElement
  <2>1. ~Reported'
    BY <1>3, EnterControl DEF NextElement, Goto
  <2> QED
    BY <1>1, <2>1
<1>4. CASE PlaceElement
  BY <1>4 DEF PlaceElement, Goto, OffsetsRight
<1>5. CASE EndAggregate
  <2>1. CASE Padded = 0
    BY <2>1, <1>5 DEF EndAggregate, GiveUp, Return, OffsetsRight
  <2>2. CASE Padded # 0 /\ ~(Len(stack) > 1) /\ back = "offsets"
    <3>1. stack # <<>>
      BY <1>5 DEF EndAggregate, Inv, TypeInv, FramesInv
    <3>2. Len(stack) \in Nat \ {0}
      BY <3>1, TopFacts DEF Inv
    <3>3. Len(stack) = 1
      BY <2>2, <3>2, SMTT(20)
    <3> QED
      BY <1>5, <2>2, <3>3, OffsetsReported
  <2>3. CASE Padded # 0 /\ (Len(stack) > 1 \/ back # "offsets")
    <3>1. pc' \in {"element", back} /\ (back = "offsets" => pc' = "element")
      BY <1>5, <2>3 DEF EndAggregate, Goto, Return
    <3>2. back \in {"none", "offsets", "takeReturn", "takeArg"}
      BY DEF Inv, TypeInv, TypeOK
    <3> QED
      BY <3>1, <3>2 DEF OffsetsRight
  <2> QED
    BY <2>1, <2>2, <2>3
<1>6. CASE \/ LayOutReturn \/ LayOutArg \/ TakeReturn \/ TakeArg
           \/ Machdep \/ MachdepVar
  <2>1. call' = call /\ pc \in InCore
    BY <1>6 DEF LayOutReturn, LayOutArg, LayOut, TakeReturn, TakeArg, Machdep,
       MachdepVar, InCore
  <2> QED
    BY <2>1 DEF CoreInv, OffsetsRight
<1>7. CASE Aborted \/ UNCHANGED vars
  <2>1. UNCHANGED <<elements, size, alignment, spoilt, offsets, pc, call, rc>>
    BY <1>7 DEF Aborted, vars, typeVars, frameVars
  <2>2. \A t : Widths(t)' = Widths(t) /\ Aligns(t)' = Aligns(t)
    BY <2>1 DEF Widths, Aligns, SizeOf, AlignOf
  <2>3. \A t, k : COffset(t, k)' = COffset(t, k)
    BY <2>2 DEF COffset, EndsOf
  <2> QED
    BY <2>1, <2>3 DEF OffsetsRight
<1> QED
  BY <1>1, <1>2, <1>3, <1>4, <1>5, <1>6, <1>7 DEF Next

(* ffi_get_struct_offsets reports, for each element of any struct, the least *)
(* multiple of its alignment that is not before the end of the one before.   *)
THEOREM OffsetsReportedRight == Spec => []OffsetsRight
<1>1. Init => OffsetsRight
  BY DEF Init, OffsetsRight
<1> QED
  BY <1>1, OffsetsStep, LaidHolds, CoreHolds, InvHolds, PTL DEF Spec

------------------------------------------------------------------------------
(* The bytes of the arguments that ffi_prep_cif_core is through with.        *)

ForResult == IF call.rtype \in Structs THEN 4 ELSE 0
BytesSoFar ==
  /\ i <= Nargs + 1 /\ bytes % SizeOfArg = 0
  /\ \E g : Summed(ArgSizes, i - 1, g) /\ bytes >= ForResult + g[i - 1]

BytesInv == (AtArgs => BytesSoFar) /\ (CifOK => BytesCover)

(* While these arguments keep their sizes, so do the sums.                   *)
LEMMA BytesKept ==
  ASSUME Inv, BytesSoFar, UNCHANGED <<call, i, bytes>>,
         \A k \in 1 .. Nargs : k < i =>
           SizeOf(call.atypes[k])' = SizeOf(call.atypes[k])
  PROVE  BytesSoFar'
<1>1. /\ Nargs' = Nargs /\ ForResult' = ForResult /\ Nargs \in Nat
      /\ i \in Nat \ {0}
  <2>1. TypeOK /\ i >= 1
    BY DEF Inv, TypeInv, ReturnInv
  <2>2. i \in Nat
    BY <2>1 DEF TypeOK
  <2> QED
    BY <2>1, <2>2, CallFacts DEF Nargs, ForResult
<1>2. PICK g : Summed(ArgSizes, i - 1, g) /\ bytes >= ForResult + g[i - 1]
  BY DEF BytesSoFar
<1>3. \A k \in 1 .. i - 1 : ArgSizes'[k] = ArgSizes[k]
  <2> TAKE k \in 1 .. i - 1
  <2>1. k \in 1 .. Nargs /\ k < i
    BY <1>1 DEF BytesSoFar
  <2> QED
    BY <1>1, <2>1 DEF ArgSizes
<1>4. Summed(ArgSizes', i - 1, g)
  BY <1>2, <1>3 DEF Summed
<1> QED
  BY <1>1, <1>2, <1>4 DEF BytesSoFar

(* The place of an argument is aligned, and padded to whole words.           *)
LEMMA BytesTaken ==
  ASSUME NEW b \in Nat, b % 4 = 0, NEW w \in Nat \ {0}, NEW a \in Powers
  PROVE  LET c == (IF b % a # 0 THEN FFI_ALIGN(b, a) ELSE b) + STACK_ARG_SIZE(w)
         IN c % 4 = 0 /\ c >= b + w
<1>1. STACK_ARG_SIZE(w) \in Nat /\ STACK_ARG_SIZE(w) >= w
      /\ STACK_ARG_SIZE(w) % 4 = 0
  BY DEF STACK_ARG_SIZE, SizeOfArg, FFI_ALIGN
<1> DEFINE d == IF b % a # 0 THEN FFI_ALIGN(b, a) ELSE b
<1>2. d \in Nat /\ d >= b /\ d % 4 = 0
  <2>1. CASE a = 1 BY <2>1 DEF FFI_ALIGN
  <2>2. CASE a = 2 BY <2>2 DEF FFI_ALIGN
  <2>3. CASE a = 4 BY <2>3 DEF FFI_ALIGN
  <2>4. CASE a = 8 BY <2>4 DEF FFI_ALIGN
  <2>5. CASE a = 16 BY <2>5 DEF FFI_ALIGN
  <2> QED BY <2>1, <2>2, <2>3, <2>4, <2>5 DEF Powers
<1> HIDE DEF d
<1>3. (d + STACK_ARG_SIZE(w)) % 4 = 0 /\ d + STACK_ARG_SIZE(w) >= b + w
  BY <1>1, <1>2
<1> QED
  BY <1>3 DEF d

LEMMA BytesFrames ==
  ASSUME Inv, CoreInv, SoundInv, BytesInv, NextElement \/ PlaceElement \/ EndAggregate
  PROVE  BytesInv'
<1>1. /\ stack # <<>> /\ UNCHANGED <<call, i, bytes, back>> /\ Nargs' = Nargs
      /\ TypeOK /\ back \in {"none", "offsets", "takeReturn", "takeArg"}
  BY DEF NextElement, PlaceElement, EndAggregate, Inv, TypeInv, TypeOK, FramesInv,
     Nargs
<1>2. \/ pc' \in {"layout", "element"}
      \/ pc' = "idle" /\ stack' = <<>> /\ rc' = "BAD_TYPEDEF"
      \/ pc' = "idle" /\ back = "offsets"
      \/ pc' = back /\ back # "offsets"
  BY EnterControl DEF NextElement, PlaceElement, EndAggregate, GiveUp, Goto, Return
<1>3. ~CifOK'
  BY <1>1, <1>2 DEF CifOK, CoreInv
<1>4. ASSUME AtArgs' PROVE BytesSoFar'
  <2>1. back = "takeArg"
    BY <1>1, <1>2, <1>4 DEF AtArgs
  <2>2. AtArgs
    BY <1>1, <2>1 DEF AtArgs
  <2>3. \A t \in Types : Prepared(t) => SizeOf(t)' = SizeOf(t)
    BY PreparedKept
  <2>4. \A k \in 1 .. Nargs : call.atypes[k] \in Types
    BY <1>1, CallFacts
  <2>5. \A k \in 1 .. Nargs : k < i =>
          SizeOf(call.atypes[k])' = SizeOf(call.atypes[k])
    BY <1>1, <2>2, <2>3, <2>4 DEF SoundInv
  <2> QED
    BY <1>1, <2>2, <2>5, BytesKept DEF BytesInv
<1> QED
  BY <1>3, <1>4 DEF BytesInv

LEMMA BytesLayOutArg ==
  ASSUME Inv, SoundInv, BytesInv, LayOutArg
  PROVE  BytesInv'
<1>1. /\ stack = <<>> /\ UNCHANGED <<call, i, bytes>> /\ TypeOK /\ pc = "arg"
      /\ i <= Nargs /\ i >= 1 /\ i \in Nat
  BY DEF LayOutArg, LayOut, Inv, TypeInv, TypeOK, FramesInv, ReturnInv
<1>2. /\ \A k \in 1 .. Nargs : call.atypes[k] \in Types
      /\ Arg \in Types
  BY <1>1, CallFacts DEF Arg
<1>3. ~CifOK'
  <2>1. pc' = "takeArg" \/ pc' = "layout" \/ rc' = "BAD_TYPEDEF"
    BY EnterControl DEF LayOutArg, LayOut, Goto
  <2> QED
    BY <2>1 DEF CifOK
<1>4. \A k \in 1 .. Nargs : k < i =>
        SizeOf(call.atypes[k])' = SizeOf(call.atypes[k])
  <2>1. \A t \in Types : Prepared(t) => SizeOf(t)' = SizeOf(t)
    <3>1. CASE SizeOf(Arg) = 0
      BY <1>1, <1>2, <3>1, PreparedEntered DEF LayOutArg, LayOut
    <3>2. CASE SizeOf(Arg) # 0
      BY <3>2 DEF LayOutArg, LayOut, SizeOf
    <3> QED
      BY <3>1, <3>2
  <2> QED
    BY <1>1, <1>2, <2>1 DEF SoundInv, AtArgs
<1> QED
  BY <1>1, <1>3, <1>4, BytesKept DEF BytesInv, AtArgs

LEMMA BytesTake ==
  ASSUME Inv, LaidInv, SoundInv, BytesInv, TakeReturn \/ TakeArg
  PROVE  BytesInv'
<1>1. /\ stack = <<>> /\ TypeOK /\ i \in Nat /\ i >= 1 /\ bytes \in Nat
      /\ UNCHANGED <<call, size, stack>> /\ pc' \in {"arg", "aborted"}
      /\ Nargs' = Nargs /\ Nargs \in Nat /\ ForResult' = ForResult
      /\ ForResult \in Nat
  BY CallFacts DEF TakeReturn, TakeArg, Goto, Inv, TypeInv, TypeOK, FramesInv,
     ReturnInv, typeVars, frameVars, Nargs, ForResult
<1>2. ~CifOK' /\ ArgSizes' = ArgSizes
  BY <1>1 DEF CifOK, ArgSizes, SizeOf
<1>3. CASE TakeReturn
  <2>1. i' = 1 /\ bytes' = ForResult
    BY <1>3 DEF TakeReturn, SoundInv, STACK_ARG_SIZE, SizeOfArg, FFI_ALIGN, ForResult
  <2>2. Summed(ArgSizes', 0, [k \in 0 .. 0 |-> 0])
    BY DEF Summed
  <2>3. bytes' % SizeOfArg = 0
    BY <2>1 DEF ForResult, SizeOfArg
  <2>4. bytes' >= ForResult' + [k \in 0 .. 0 |-> 0][0]
    BY <1>1, <2>1
  <2>5. BytesSoFar'
    <3>1. i' - 1 = 0 /\ i' <= Nargs' + 1
      BY <1>1, <2>1
    <3> QED
      BY <2>2, <2>3, <2>4, <3>1 DEF BytesSoFar
  <2> QED
    BY <1>2, <2>5 DEF BytesInv
<1>4. CASE TakeArg
  <2>1. pc = "takeArg" /\ i' = i + 1 /\ i <= Nargs /\ Prepared(Arg) /\ BytesSoFar
    BY <1>4 DEF TakeArg, SoundInv, BytesInv, AtArgs, Inv, TypeInv, ReturnInv
  <2>2. Arg \in Types
    BY <1>1, <2>1, CallFacts DEF Arg
  <2>3. SizeOf(Arg) \in Nat \ {0} /\ AlignOf(Arg) \in Powers
    <3>1. SizeOf(Arg) \in Nat \ {0} /\ AlignOf(Arg) \in Powers \cup {0}
      BY <1>1, <2>1, <2>2, FieldFacts DEF Prepared
    <3>2. AlignOf(Arg) # 0
      BY <2>2, <3>1, ScalarFacts DEF LaidInv, SizeOf, AlignOf, Types, Powers
    <3> QED
      BY <3>1, <3>2
  <2>4. bytes % 4 = 0
    BY <2>1 DEF BytesSoFar, SizeOfArg
  <2>5. bytes' % 4 = 0 /\ bytes' >= bytes + SizeOf(Arg)
    <3>1. bytes' = (IF bytes % AlignOf(Arg) # 0 THEN FFI_ALIGN(bytes, AlignOf(Arg))
                    ELSE bytes) + STACK_ARG_SIZE(SizeOf(Arg))
      BY <1>4 DEF TakeArg
    <3> QED
      BY <1>1, <2>3, <2>4, <3>1, BytesTaken
  <2>6. PICK g : Summed(ArgSizes, i - 1, g) /\ bytes >= ForResult + g[i - 1]
    BY <2>1 DEF BytesSoFar
  <2>7. ArgSizes[i] = SizeOf(Arg)
    BY <1>1, <2>1 DEF ArgSizes, Arg
  <2> DEFINE h == [k \in 0 .. i |-> IF k < i THEN g[k] ELSE g[i - 1] + SizeOf(Arg)]
  <2>8. g[i - 1] \in Nat
    <3>1. i - 1 \in 0 .. i - 1
      BY <1>1
    <3> QED
      BY <2>6, <3>1 DEF Summed
  <2>9. Summed(ArgSizes, i, h) /\ h[i] = g[i - 1] + SizeOf(Arg)
    <3>1. /\ h \in [0 .. i -> Nat] /\ h[i] = g[i - 1] + SizeOf(Arg)
          /\ \A k \in 0 .. i - 1 : h[k] = g[k]
      BY <1>1, <2>3, <2>6, <2>8 DEF Summed
    <3> HIDE DEF h
    <3>2. \A k \in 1 .. i - 1 : h[k] = h[k - 1] + ArgSizes[k]
      <4>1. \A k \in 1 .. i - 1 : k \in 0 .. i - 1 /\ k - 1 \in 0 .. i - 1
        BY <1>1
      <4> QED
        BY <2>6, <3>1, <4>1 DEF Summed
    <3>3. h[i] = h[i - 1] + ArgSizes[i]
      <4>1. i - 1 \in 0 .. i - 1
        BY <1>1
      <4> QED
        BY <2>7, <3>1, <4>1
    <3>4. \A k \in 1 .. i : k \in 1 .. i - 1 \/ k = i
      BY <1>1
    <3>5. 0 \in 0 .. i - 1
      BY <1>1
    <3> QED
      BY <2>6, <3>1, <3>2, <3>3, <3>4, <3>5 DEF Summed
  <2> HIDE DEF h
  <2>10. i' - 1 = i /\ i' <= Nargs' + 1
    BY <1>1, <2>1
  <2>11. bytes' >= ForResult + h[i]
    <3>1. bytes' \in Nat
      BY <1>4, TakeStep DEF Inv, TypeInv, TypeOK
    <3> QED
      BY <1>1, <2>3, <2>5, <2>6, <2>8, <2>9, <3>1
  <2>12. BytesSoFar'
    <3>1. Summed(ArgSizes', i' - 1, h) /\ bytes' >= ForResult' + h[i' - 1]
      BY <1>1, <1>2, <2>9, <2>10, <2>11
    <3> QED
      BY <2>5, <2>10, <3>1 DEF BytesSoFar, SizeOfArg
  <2> QED
    BY <1>2, <2>12 DEF BytesInv
<1> QED
  BY <1>3, <1>4

(* All the arguments were taken.                                             *)
LEMMA BytesMachdep ==
  ASSUME Inv, BytesInv, Machdep \/ MachdepVar
  PROVE  BytesInv'
<1>1. /\ TypeOK /\ i \in Nat /\ Nargs \in Nat /\ i > Nargs /\ pc = "arg"
      /\ UNCHANGED <<call, size, bytes, stack>> /\ pc' = "idle" /\ stack = <<>>
  BY CallFacts DEF Machdep, MachdepVar, Return, Inv, TypeInv, TypeOK, FramesInv,
     typeVars, frameVars
<1>2. i - 1 = Nargs /\ bytes % SizeOfArg = 0
  BY <1>1 DEF BytesInv, AtArgs, BytesSoFar
<1>3. PICK g : Summed(ArgSizes, Nargs, g) /\ bytes >= ForResult + g[Nargs]
  BY <1>1, <1>2 DEF BytesInv, AtArgs, BytesSoFar
<1>4. Sums(ArgSizes) = g
  <2>1. Len(ArgSizes) = Nargs
    BY <1>1 DEF ArgSizes
  <2> QED
    BY <1>1, <1>3, <2>1, SumsOfSummed
<1>5. BytesCover
  BY <1>2, <1>3, <1>4 DEF BytesCover, ForResult
<1>6. Nargs' = Nargs /\ ArgSizes' = ArgSizes
  BY <1>1 DEF Nargs, ArgSizes, SizeOf
<1>7. BytesCover'
  BY <1>1, <1>5, <1>6 DEF BytesCover
<1> QED
  BY <1>1, <1>7 DEF BytesInv, AtArgs

LEMMA BytesStep ==
  Inv /\ CoreInv /\ LaidInv /\ SoundInv /\ BytesInv /\ [Next]_vars => BytesInv'
<1> SUFFICES ASSUME Inv, CoreInv, LaidInv, SoundInv, BytesInv, [Next]_vars
             PROVE  BytesInv'
  OBVIOUS
<1>0. pc \notin {"layout", "element"} => stack = <<>>
  BY DEF Inv, TypeInv, FramesInv
<1>1. ASSUME NEW c \in Calls, BadAbi(c) \/ PrepCif(c) \/ GetStructOffsets(c)
      PROVE  BytesInv'
  <2>1. CASE BadAbi(c) \/ PrepCif(c)
    BY <1>0, <2>1
       DEF BadAbi, PrepCif, Begin, Goto, Return, BytesInv, AtArgs, CifOK
  <2>2. CASE GetStructOffsets(c)
    <3>1. /\ call'.fn = "offsets" /\ back' = "offsets"
          /\ pc' \in {"idle", "layout"}
      BY <2>2, EnterControl DEF GetStructOffsets, Begin, Return
    <3> QED
      BY <3>1 DEF BytesInv, AtArgs, CifOK
  <2> QED
    BY <1>1, <2>1, <2>2
<1>2. CASE NextElement \/ PlaceElement \/ EndAggregate
  BY <1>2, BytesFrames
<1>3. CASE LayOutReturn
  <2>1. \/ pc' = "takeReturn" /\ stack' = stack
        \/ pc' = "layout" /\ back' = "takeReturn"
        \/ pc' = "idle" /\ stack' = <<>> /\ rc' = "BAD_TYPEDEF"
    BY <1>3, EnterControl DEF LayOutReturn, LayOut, Goto
  <2>2. stack = <<>>
    BY <1>0, <1>3 DEF LayOutReturn, LayOut
  <2> QED
    BY <2>1, <2>2 DEF BytesInv, AtArgs, CifOK
<1>4. CASE LayOutArg
  BY <1>4, BytesLayOutArg
<1>5. CASE TakeReturn \/ TakeArg
  BY <1>5, BytesTake
<1>6. CASE Machdep \/ MachdepVar
  BY <1>6, BytesMachdep
<1>7. CASE Aborted \/ UNCHANGED vars
  <2>1. UNCHANGED <<typeVars, frameVars, cifVars, pc, call, i, bytes, rc>>
    BY <1>7 DEF Aborted, vars
  <2>2. /\ Nargs' = Nargs /\ AtArgs' = AtArgs /\ CifOK' = CifOK
        /\ ForResult' = ForResult /\ ArgSizes' = ArgSizes
    BY <2>1 DEF typeVars, frameVars, Nargs, AtArgs, CifOK, ForResult, ArgSizes,
       SizeOf
  <2> QED
    BY <2>1, <2>2 DEF BytesInv, BytesSoFar, BytesCover
<1> QED
  BY <1>1, <1>2, <1>3, <1>4, <1>5, <1>6, <1>7 DEF Next

(* A cif reported as prepared names no type without a layout and no complex  *)
(* one, has no more arguments than the host takes, no variable argument that *)
(* was not promoted, and as many bytes as its arguments take.                *)
THEOREM CifIsSound == Spec => []CifSound
<1>1. Init => SoundInv /\ BytesInv
  BY DEF Init, SoundInv, BytesInv, AtArgs, CifOK
<1>2. SoundInv /\ BytesInv => CifSound
  BY DEF SoundInv, BytesInv, CifSound
<1> QED
  BY <1>1, <1>2, SoundStep, BytesStep, LaidHolds, CoreHolds, InvHolds, PTL DEF Spec

------------------------------------------------------------------------------
(* The types whose layout is that of C.  s and a are the sizes and the       *)
(* alignments of those in G: of one that ffi_get_struct_offsets lays out     *)
(* anew, the ones it had before, which it gets again.                        *)

WidthsIn(s, t) ==
  [k \in 1 .. Len(elements[t]) |-> IF elements[t][k] \in Structs
                                   THEN s[elements[t][k]]
                                   ELSE Scalar[elements[t][k]].size]
AlignsIn(a, t) ==
  [k \in 1 .. Len(elements[t]) |-> IF elements[t][k] \in Structs
                                   THEN a[elements[t][k]]
                                   ELSE Scalar[elements[t][k]].alignment]

\* The layout of t follows from those of its elements.
Composed(t, G, s, a) ==
  LET n == Len(elements[t])
  IN /\ elements[t] # NoElements
     /\ \A j \in 1 .. n : elements[t][j] \in Structs => elements[t][j] \in G
     /\ \A j \in 1 .. n : AlignsIn(a, t)[j] \in Powers
     /\ Strictest(a[t], AlignsIn(a, t), n)
     /\ \E f : /\ Laid(WidthsIn(s, t), AlignsIn(a, t), n, f)
               /\ s[t] = FFI_ALIGN(f[n], a[t])
     /\ s[t] # 0

Known(G, s, a) ==
  /\ G \subseteq Structs /\ s \in [Structs -> Nat]
  /\ a \in [Structs -> Powers \cup {0}]
  /\ \A t \in Structs : Settled(t) => t \in G
  /\ \A t \in G : t \notin OnStack =>
       Settled(t) /\ s[t] = size[t] /\ a[t] = alignment[t]
  /\ \A t \in G : t \in OnStack => Len(stack) = 1
  /\ \A t \in G : Composed(t, G, s, a)

KnownInv == \E G, s, a : Known(G, s, a)

(* A layout stays composed as long as the types keep their elements.         *)
LEMMA ComposedKept ==
  ASSUME NEW G, NEW s, NEW a, NEW t, Composed(t, G, s, a), UNCHANGED elements
  PROVE  Composed(t, G, s, a)'
<1>1. WidthsIn(s, t)' = WidthsIn(s, t) /\ AlignsIn(a, t)' = AlignsIn(a, t)
  BY DEF WidthsIn, AlignsIn
<1> QED
  BY <1>1 DEF Composed

(* The layouts stay known if what is settled or undone is among them.         *)
LEMMA KnownStays ==
  ASSUME NEW G, NEW s, NEW a, Known(G, s, a), UNCHANGED elements,
         \A t \in Structs : Settled(t)' => t \in G,
         \A t \in G : t \notin OnStack' =>
           Settled(t)' /\ s[t] = size'[t] /\ a[t] = alignment'[t],
         \A t \in G : t \in OnStack' => Len(stack') = 1
  PROVE  KnownInv'
<1>1. \A t \in G : Composed(t, G, s, a)'
  BY ComposedKept DEF Known
<1>2. Known(G, s, a)'
  BY <1>1 DEF Known
<1> QED
  BY <1>2 DEF KnownInv

(* A step that touches no type, and no frame.                                *)
LEMMA KnownUntouched ==
  ASSUME NEW G, NEW s, NEW a, Known(G, s, a),
         UNCHANGED <<elements, size, alignment, stack, spoilt>>
  PROVE  KnownInv'
<1>1. OnStack' = OnStack /\ \A t : Settled(t)' = Settled(t)
  BY DEF OnStack, Settled
<1> QED
  BY <1>1, KnownStays DEF Known

(* No struct of G is given up: that is the one at work, and it has a size.   *)
LEMMA KnownGivenUp ==
  ASSUME Inv, NEW G, NEW s, NEW a, Known(G, s, a), UNCHANGED elements, GiveUp,
         stack # <<>> => Top \notin G
  PROVE  KnownInv'
<1>1. /\ spoilt' = (spoilt \ OnStack) \cup {t \in OnStack : size[t] # 0}
      /\ stack' = <<>> /\ UNCHANGED <<size, alignment>>
  BY DEF GiveUp
<1>2. OnStack' = {}
  BY <1>1 DEF OnStack
<1>3. \A t \in G : t \notin OnStack
  <2> SUFFICES ASSUME NEW t \in G, t \in OnStack PROVE FALSE
    OBVIOUS
  <2>1. Len(stack) = 1
    BY DEF Known
  <2>2. PICK k \in 1 .. Len(stack) : t = stack[k]
    BY DEF OnStack
  <2>3. t = Top /\ stack # <<>>
    BY <2>1, <2>2 DEF Top
  <2> QED
    BY <2>3
<1>4. \A t \in Structs : Settled(t)' => Settled(t)
  BY <1>1, <1>2 DEF Settled
<1>5. \A t \in G : Settled(t)'
  BY <1>1, <1>2, <1>3 DEF Known, Settled
<1>6. \A t \in G : s[t] = size'[t] /\ a[t] = alignment'[t]
  BY <1>1, <1>3 DEF Known
<1>7. \A t \in Structs : Settled(t)' => t \in G
  BY <1>4 DEF Known
<1>8. \A t \in G : t \notin OnStack'
  BY <1>2
<1> QED
  BY <1>5, <1>6, <1>7, <1>8, KnownStays

(* A struct that is entered for want of a size is not in G, nor is the one   *)
(* of whose layout that is a part.                                           *)
LEMMA KnownEntered ==
  ASSUME Inv, NEW G, NEW s, NEW a, Known(G, s, a), UNCHANGED elements,
         NEW t \in Structs, t \notin OnStack, Enter(t),
         stack # <<>> => Top \notin G /\ t \notin G
  PROVE  KnownInv'
<1>1. CASE elements[t] = NoElements
  BY <1>1, KnownGivenUp DEF Enter
<1>2. CASE elements[t] # NoElements
  <2>1. /\ size' = [size EXCEPT ![t] = 0]
        /\ alignment' = [alignment EXCEPT ![t] = 0]
        /\ stack' = Append(stack, t) /\ spoilt' = spoilt
    BY <1>2 DEF Enter
  <2>2. /\ size \in [Structs -> Nat] /\ alignment \in [Structs -> Powers \cup {0}]
        /\ stack \in Seq(Structs) /\ Len(stack) \in Nat
    BY DEF Inv, TypeInv, TypeOK
  <2>3. \A u \in Structs : u # t => /\ size'[u] = size[u]
                                    /\ alignment'[u] = alignment[u]
    BY <2>1, <2>2
  <2>4. OnStack' = OnStack \cup {t} /\ Len(stack') = Len(stack) + 1
    <3>1. /\ Len(stack') = Len(stack) + 1 /\ stack'[Len(stack) + 1] = t
          /\ \A k \in 1 .. Len(stack) : stack'[k] = stack[k]
      BY <2>1, <2>2
    <3>2. \A k : k \in 1 .. Len(stack') <=>
                   k \in 1 .. Len(stack) \/ k = Len(stack) + 1
      BY <2>2, <3>1
    <3> QED
      BY <3>1, <3>2 DEF OnStack
  <2>5. \A u \in Structs \ {t} : Settled(u)' = Settled(u)
    BY <2>1, <2>3, <2>4 DEF Settled
  <2>6. \A u \in Structs : Settled(u)' => u \in G
    BY <2>4, <2>5 DEF Known, Settled
  <2>7. \A u \in G : u \notin OnStack' =>
          Settled(u)' /\ s[u] = size'[u] /\ a[u] = alignment'[u]
    BY <2>3, <2>4, <2>5 DEF Known
  <2>8. \A u \in G : u \in OnStack' => Len(stack') = 1
    <3>1. CASE stack = <<>>
      BY <2>4, <3>1
    <3>2. CASE stack # <<>>
      <4> SUFFICES ASSUME NEW u \in G, u \in OnStack PROVE FALSE
        BY <2>4, <3>2
      <4>1. Len(stack) = 1
        BY DEF Known
      <4>2. PICK k \in 1 .. Len(stack) : u = stack[k]
        BY DEF OnStack
      <4>3. u = Top
        BY <4>1, <4>2 DEF Top
      <4> QED
        BY <3>2, <4>3
    <3> QED
      BY <3>1, <3>2
  <2> QED
    BY <2>6, <2>7, <2>8, KnownStays
<1> QED
  BY <1>1, <1>2

LEMMA KnownNextElement ==
  ASSUME Inv, KnownInv, NextElement
  PROVE  KnownInv'
<1>1. PICK G, s, a : Known(G, s, a)
  BY DEF KnownInv
<1>2. PICK e, t : t = Top /\ e = elements[t][next[t]]
  OBVIOUS
<1>3. /\ stack # <<>> /\ next[Top] <= Len(elements[Top]) /\ elements' = elements
      /\ next[Top] \in Nat \ {0} /\ Top \in Structs /\ elements[Top] # NoElements
  BY TopFacts DEF NextElement, Inv, TypeInv, FramesInv
<1>4. Len(elements[Top]) \in Nat
  BY <1>3, ElementFacts DEF Inv, TypeInv
<1>5. next[t] \in 1 .. Len(elements[t])
  BY <1>2, <1>3, <1>4
<1>6. e \in Types \ OnStack
  BY <1>2, <1>3, <1>5, ElementsOff
<1>7. CASE SizeOf(e) # 0
  BY <1>1, <1>2, <1>7, KnownUntouched DEF NextElement
<1>8. CASE SizeOf(e) = 0
  <2>1. e \in Structs /\ Enter(e) /\ size[e] = 0
    BY <1>2, <1>6, <1>8, ScalarFacts DEF NextElement, SizeOf, Types
  <2>2. e \notin G
    BY <1>1, <1>6, <2>1 DEF Known, Settled
  <2>3. t \notin G
    BY <1>1, <1>2, <1>5, <2>1, <2>2 DEF Known, Composed
  <2> QED
    BY <1>1, <1>2, <1>3, <1>6, <2>1, <2>2, <2>3, KnownEntered
<1> QED
  BY <1>7, <1>8

LEMMA KnownPlaceElement ==
  ASSUME Inv, KnownInv, PlaceElement
  PROVE  KnownInv'
<1>1. PICK G, s, a : Known(G, s, a)
  BY DEF KnownInv
<1>2. /\ stack # <<>> /\ UNCHANGED <<elements, stack, spoilt>>
      /\ Top \in Structs /\ Top \in OnStack
  <2>1. stack # <<>> /\ UNCHANGED <<elements, stack, spoilt>>
    BY DEF PlaceElement, Inv, TypeInv, FramesInv
  <2>2. Top \in Structs /\ Len(stack) \in Nat \ {0}
    BY <2>1, TopFacts DEF Inv
  <2> QED
    BY <2>1, <2>2 DEF OnStack, Top
<1>3. \A u \in Structs : u # Top =>
        size'[u] = size[u] /\ alignment'[u] = alignment[u]
  BY DEF PlaceElement, Inv, TypeInv, TypeOK
<1>4. OnStack' = OnStack /\ \A u \in Structs : Settled(u)' = Settled(u)
  BY <1>2, <1>3 DEF OnStack, Settled
<1>5. \A u \in G : u \notin OnStack' =>
        Settled(u)' /\ s[u] = size'[u] /\ a[u] = alignment'[u]
  BY <1>1, <1>2, <1>3, <1>4 DEF Known
<1>6. \A u \in Structs : Settled(u)' => u \in G
  BY <1>1, <1>4 DEF Known
<1>7. \A u \in G : u \in OnStack' => Len(stack') = 1
  BY <1>1, <1>2, <1>4 DEF Known
<1> QED
  BY <1>1, <1>2, <1>5, <1>6, <1>7, KnownStays

(* The elements of the struct that ends are as G has them.                   *)
LEMMA KnownElements ==
  ASSUME Inv, LaidInv, NEW G, NEW s, NEW a, Known(G, s, a), stack # <<>>,
         NEW t, t = Top, next[t] > Len(elements[t]),
         NEW j \in 1 .. Len(elements[t]),
         elements[t][j] \in Structs => elements[t][j] \in G
  PROVE  /\ WidthsIn(s, t)[j] = Widths(t)[j]
         /\ AlignsIn(a, t)[j] = Aligns(t)[j]
         /\ elements[t][j] \notin spoilt
<1>1. PICK e : e = elements[t][j]
  OBVIOUS
<1>2. e \in Types /\ e \notin OnStack
  BY <1>1, WholeFacts DEF Prepared
<1>3. e \in Structs => s[e] = size[e] /\ a[e] = alignment[e] /\ e \notin spoilt
  BY <1>1, <1>2 DEF Known, Settled
<1>4. e \notin Structs => e \notin spoilt
  BY DEF Inv, TypeInv, TypeOK
<1> QED
  BY <1>1, <1>3, <1>4 DEF WidthsIn, AlignsIn, Widths, Aligns, SizeOf, AlignOf

(* A struct of G that is laid out anew gets the layout it had.               *)
LEMMA KnownAgain ==
  ASSUME Inv, LaidInv, NEW G, NEW s, NEW a, Known(G, s, a), stack # <<>>,
         NEW t \in G, t = Top, next[t] > Len(elements[t])
  PROVE  Padded = s[t] /\ alignment[t] = a[t]
<1> DEFINE n == Len(elements[t])
<1>1. n \in Nat /\ Strictest(alignment[t], Aligns(t), n) /\ t \in Structs
  BY WholeFacts, TopFacts DEF Inv
<1>2. PICK f : Laid(Widths(t), Aligns(t), n, f) /\ size[t] = f[n]
  BY WholeFacts
<1>3. Composed(t, G, s, a)
  BY DEF Known
<1>4. PICK g : /\ Laid(WidthsIn(s, t), AlignsIn(a, t), n, g)
               /\ s[t] = FFI_ALIGN(g[n], a[t])
  BY <1>3 DEF Composed
<1>5. \A j \in 1 .. n : /\ WidthsIn(s, t)[j] = Widths(t)[j]
                        /\ AlignsIn(a, t)[j] = Aligns(t)[j]
  BY <1>3, KnownElements DEF Composed
<1>6. f = g
  <2> HIDE DEF n
  <2> QED
    BY <1>1, <1>2, <1>4, <1>5, LaidUnique
<1>7. Strictest(a[t], AlignsIn(a, t), n)
  BY <1>3 DEF Composed
<1>8. \A j \in 1 .. n : Aligns(t)[j] \in Nat
  BY <1>3, <1>5 DEF Composed, Powers
<1>9. alignment[t] \in Nat /\ a[t] \in Nat
  <2>1. alignment[t] \in Powers \cup {0} /\ a[t] \in Powers \cup {0}
    BY <1>1 DEF Known, Inv, TypeInv, TypeOK
  <2> QED
    BY <2>1 DEF Powers
<1>10. alignment[t] = a[t]
  <2>1. CASE n = 0
    BY <1>1, <1>7, <2>1 DEF Strictest
  <2>2. CASE n # 0
    <3> HIDE DEF n
    <3>1. PICK j \in 1 .. n : Aligns(t)[j] = alignment[t]
      BY <1>1, <2>2 DEF Strictest
    <3>2. PICK k \in 1 .. n : AlignsIn(a, t)[k] = a[t]
      BY <1>7, <2>2 DEF Strictest
    <3>3. alignment[t] <= a[t]
      BY <1>5, <1>7, <3>1 DEF Strictest
    <3>4. a[t] <= alignment[t]
      BY <1>1, <1>5, <3>2 DEF Strictest
    <3> QED
      BY <1>9, <3>3, <3>4
  <2> QED
    BY <2>1, <2>2
<1> QED
  BY <1>2, <1>4, <1>6, <1>10 DEF Padded

(* G with the struct that ends.                                              *)
Grown(G, s, a, H, r, b) ==
  /\ H = G \cup {Top} /\ H \subseteq Structs
  /\ r \in [Structs -> Nat] /\ b \in [Structs -> Powers \cup {0}]
  /\ r[Top] = Padded /\ b[Top] = alignment[Top]
  /\ \A u \in G : r[u] = s[u] /\ b[u] = a[u]
  /\ \A u \in H : Composed(u, H, r, b)

(* A struct that was laid out around elements of G belongs to G.             *)
LEMMA KnownNew ==
  ASSUME Inv, LaidInv, NEW G, NEW s, NEW a, Known(G, s, a), stack # <<>>,
         NEW t, t = Top, t \notin G, next[t] > Len(elements[t]), Padded # 0,
         \A k \in 1 .. Len(elements[t]) : elements[t][k] \notin spoilt
  PROVE  \E H, r, b : Grown(G, s, a, H, r, b)
<1> DEFINE n == Len(elements[t])
<1>0. PICK H, r, b : /\ H = G \cup {t} /\ r = [s EXCEPT ![t] = Padded]
                     /\ b = [a EXCEPT ![t] = alignment[t]]
  OBVIOUS
<1>1. /\ t \in Structs /\ elements[t] # NoElements /\ G \subseteq Structs
      /\ s \in [Structs -> Nat] /\ a \in [Structs -> Powers \cup {0}]
      /\ size[t] \in Nat /\ alignment[t] \in Powers \cup {0}
  BY TopFacts DEF Known, Inv, TypeInv, TypeOK
<1>2. Padded \in Nat
  BY <1>1, AlignFacts DEF Padded
<1>3. /\ H \subseteq Structs /\ r \in [Structs -> Nat]
      /\ b \in [Structs -> Powers \cup {0}]
      /\ r[t] = Padded /\ b[t] = alignment[t]
      /\ \A u \in Structs : u # t => r[u] = s[u] /\ b[u] = a[u]
  BY <1>0, <1>1, <1>2
<1>4. /\ n \in Nat /\ Strictest(alignment[t], Aligns(t), n)
      /\ \A j \in 1 .. n : /\ elements[t][j] \in Types /\ Prepared(elements[t][j])
                           /\ AlignOf(elements[t][j]) \in Powers
  BY WholeFacts
<1>5. \A j \in 1 .. n : elements[t][j] \in Structs => elements[t][j] \in G
  <2> TAKE j \in 1 .. n
  <2> HAVE elements[t][j] \in Structs
  <2>1. Settled(elements[t][j])
    BY <1>4 DEF Settled, Prepared, SizeOf
  <2> QED
    BY <2>1 DEF Known
<1>6. \A u \in H : u # t => Composed(u, H, r, b)
  <2> TAKE u \in H
  <2> HAVE u # t
  <2>1. u \in G /\ u \in Structs /\ Composed(u, G, s, a)
    BY <1>0, <1>1 DEF Known
  <2>2. \A j \in 1 .. Len(elements[u]) : elements[u][j] \in Structs =>
          elements[u][j] \in G /\ elements[u][j] # t
    BY <2>1 DEF Composed
  <2>3. WidthsIn(r, u) = WidthsIn(s, u) /\ AlignsIn(b, u) = AlignsIn(a, u)
    BY <1>3, <2>2 DEF WidthsIn, AlignsIn
  <2> QED
    BY <1>0, <1>3, <2>1, <2>2, <2>3 DEF Composed
<1>7. \A j \in 1 .. n : /\ WidthsIn(r, t)[j] = Widths(t)[j]
                        /\ AlignsIn(b, t)[j] = Aligns(t)[j]
  <2> TAKE j \in 1 .. n
  <2>1. WidthsIn(s, t)[j] = Widths(t)[j] /\ AlignsIn(a, t)[j] = Aligns(t)[j]
    BY <1>5, KnownElements
  <2>2. WidthsIn(r, t)[j] = WidthsIn(s, t)[j]
        /\ AlignsIn(b, t)[j] = AlignsIn(a, t)[j]
    BY <1>1, <1>3, <1>5 DEF WidthsIn, AlignsIn
  <2> QED
    BY <2>1, <2>2
<1>8. Composed(t, H, r, b)
  <2>1. PICK f : Laid(Widths(t), Aligns(t), n, f) /\ size[t] = f[n]
    BY WholeFacts
  <2>2. Laid(WidthsIn(r, t), AlignsIn(b, t), n, f)
    BY <1>7, <2>1 DEF Laid
  <2>3. r[t] = FFI_ALIGN(f[n], b[t]) /\ r[t] # 0
    BY <1>3, <2>1 DEF Padded
  <2>4. Strictest(b[t], AlignsIn(b, t), n)
    <3> HIDE DEF n
    <3> QED
      BY <1>3, <1>4, <1>7 DEF Strictest
  <2>5. \A j \in 1 .. n : AlignsIn(b, t)[j] \in Powers
    BY <1>4, <1>7 DEF Aligns
  <2> QED
    BY <1>0, <1>1, <1>5, <2>2, <2>3, <2>4, <2>5 DEF Composed
<1>9. \A u \in H : Composed(u, H, r, b)
  BY <1>6, <1>8
<1>10. \A u \in G : r[u] = s[u] /\ b[u] = a[u]
  BY <1>1, <1>3
<1>11. Grown(G, s, a, H, r, b)
  BY <1>0, <1>3, <1>9, <1>10 DEF Grown
<1> QED
  BY <1>11

LEMMA KnownEndAggregate ==
  ASSUME Inv, LaidInv, KnownInv, EndAggregate
  PROVE  KnownInv'
<1>1. PICK G, s, a : Known(G, s, a)
  BY DEF KnownInv
<1>2. PICK t : t = Top
  OBVIOUS
<1>3. /\ stack # <<>> /\ next[t] > Len(elements[t]) /\ elements' = elements
      /\ t \in Structs /\ Len(stack) \in Nat /\ Len(stack) >= 1
      /\ stack \in Seq(Structs)
  <2>1. /\ stack # <<>> /\ next[t] > Len(elements[t]) /\ elements' = elements
        /\ stack \in Seq(Structs)
    BY <1>2 DEF EndAggregate, Inv, TypeInv, TypeOK, FramesInv
  <2>2. Len(stack) \in Nat \ {0} /\ t \in Structs
    BY <1>2, <2>1, TopFacts DEF Inv
  <2> QED
    BY <2>1, <2>2
<1>4. t \in G => Padded = s[t] /\ s[t] # 0 /\ alignment[t] = a[t]
  <2> HAVE t \in G
  <2>1. Padded = s[t] /\ alignment[t] = a[t]
    BY <1>1, <1>2, <1>3, KnownAgain
  <2>2. s[t] # 0
    BY <1>1 DEF Known, Composed
  <2> QED
    BY <2>1, <2>2
<1>5. CASE Padded = 0
  BY <1>1, <1>2, <1>3, <1>4, <1>5, KnownGivenUp DEF EndAggregate
<1>6. CASE Padded # 0
  <2>1. /\ size' = [size EXCEPT ![t] = Padded] /\ alignment' = alignment
        /\ stack' = SubSeq(stack, 1, Len(stack) - 1)
        /\ spoilt' = IF \E k \in 1 .. Len(elements[t]) : elements[t][k] \in spoilt
                     THEN spoilt \cup {t} ELSE spoilt \ {t}
    BY <1>2, <1>6 DEF EndAggregate
  <2>2. size'[t] = Padded /\ \A u \in Structs : u # t => size'[u] = size[u]
    BY <1>3, <2>1 DEF Inv, TypeInv, TypeOK
  <2>3. /\ Len(stack') = Len(stack) - 1
        /\ \A k \in 1 .. Len(stack') : stack'[k] = stack[k]
    BY <1>3, <2>1, PopFacts
  <2>4. OnStack' = OnStack \ {t} /\ t \in OnStack
    <3>1. \A k \in 1 .. Len(stack') : stack'[k] \in OnStack \ {t}
      <4>1. \A k \in 1 .. Len(stack') :
              /\ k \in 1 .. Len(stack) /\ k # Len(stack)
              /\ Len(stack) \in 1 .. Len(stack)
        BY <1>3, <2>3
      <4> QED
        BY <1>2, <2>3, <4>1, FramesDiffer DEF OnStack, Top
    <3>2. \A k \in 1 .. Len(stack) : k \in 1 .. Len(stack') \/ k = Len(stack)
      BY <1>3, <2>3
    <3>3. Len(stack) \in 1 .. Len(stack) /\ stack[Len(stack)] = t
      BY <1>2, <1>3 DEF Top
    <3>4. OnStack' \subseteq OnStack \ {t}
      BY <3>1 DEF OnStack
    <3>5. OnStack \ {t} \subseteq OnStack'
      <4>1. ASSUME NEW k \in 1 .. Len(stack), stack[k] # t
            PROVE  stack[k] \in OnStack'
        BY <2>3, <3>2, <3>3, <4>1 DEF OnStack
      <4> QED
        BY <4>1 DEF OnStack
    <3>6. t \in OnStack
      BY <3>3 DEF OnStack
    <3> QED
      BY <3>4, <3>5, <3>6
  <2>5. \A u \in Structs : u # t => Settled(u)' = Settled(u)
    BY <2>1, <2>2, <2>4 DEF Settled
  <2>6. \A u \in G : u # t /\ u \notin OnStack' =>
          Settled(u)' /\ s[u] = size'[u] /\ a[u] = alignment'[u]
    BY <1>1, <2>1, <2>2, <2>4, <2>5 DEF Known
  <2>7. \A u \in G : u \notin OnStack'
    <3> SUFFICES ASSUME NEW u \in G, u \in OnStack' PROVE FALSE
      OBVIOUS
    <3>1. Len(stack) = 1
      BY <1>1, <2>4 DEF Known
    <3>2. PICK k \in 1 .. Len(stack') : u = stack'[k]
      BY DEF OnStack
    <3> QED
      BY <2>3, <3>1, <3>2
  <2>8. CASE t \in G
    <3>1. \A k \in 1 .. Len(elements[t]) : elements[t][k] \notin spoilt
      <4>1. \A k \in 1 .. Len(elements[t]) :
              elements[t][k] \in Structs => elements[t][k] \in G
        BY <1>1, <2>8 DEF Known, Composed
      <4> QED
        BY <1>1, <1>2, <1>3, <4>1, KnownElements
    <3>2. Settled(t)'
      BY <1>6, <2>1, <2>2, <2>4, <3>1 DEF Settled
    <3>3. s[t] = size'[t] /\ a[t] = alignment'[t]
      BY <1>4, <2>1, <2>2, <2>8
    <3>4. \A u \in Structs : Settled(u)' => u \in G
      BY <1>1, <2>5, <2>8 DEF Known
    <3> QED
      BY <1>1, <1>3, <2>6, <2>7, <3>2, <3>3, <3>4, KnownStays
  <2>9. CASE t \notin G /\ t \in spoilt'
    <3>1. \A u \in Structs : Settled(u)' => u \in G
      BY <1>1, <2>5, <2>9 DEF Known, Settled
    <3> QED
      BY <1>1, <1>3, <2>6, <2>7, <2>9, <3>1, KnownStays
  <2>10. CASE t \notin G /\ t \notin spoilt'
    <3>1. \A k \in 1 .. Len(elements[t]) : elements[t][k] \notin spoilt
      BY <2>1, <2>10
    <3>2. PICK H, r, b : Grown(G, s, a, H, r, b)
      BY <1>1, <1>2, <1>3, <1>6, <2>10, <3>1, KnownNew
    <3>3. /\ H = G \cup {t} /\ H \subseteq Structs /\ r \in [Structs -> Nat]
          /\ b \in [Structs -> Powers \cup {0}]
          /\ r[t] = Padded /\ b[t] = alignment[t]
          /\ \A u \in G : r[u] = s[u] /\ b[u] = a[u]
          /\ \A u \in H : Composed(u, H, r, b)
      BY <1>2, <3>2 DEF Grown
    <3>4. \A u \in H : Composed(u, H, r, b)'
      BY <1>3, <3>3, ComposedKept
    <3>5. Settled(t)'
      BY <1>6, <2>2, <2>4, <2>10 DEF Settled
    <3>6. \A u \in H : Settled(u)' /\ r[u] = size'[u] /\ b[u] = alignment'[u]
      BY <2>1, <2>2, <2>6, <2>7, <2>10, <3>3, <3>5
    <3>7. \A u \in Structs : Settled(u)' => u \in H
      BY <1>1, <2>5, <3>3 DEF Known
    <3>8. \A u \in H : u \notin OnStack'
      BY <2>4, <2>7, <3>3
    <3>9. Known(H, r, b)'
      BY <3>3, <3>4, <3>6, <3>7, <3>8 DEF Known
    <3> QED
      BY <3>9 DEF KnownInv
  <2> QED
    BY <2>8, <2>9, <2>10
<1> QED
  BY <1>5, <1>6

LEMMA KnownStep == Inv /\ LaidInv /\ KnownInv /\ [Next]_vars => KnownInv'
<1> SUFFICES ASSUME Inv, LaidInv, KnownInv, [Next]_vars PROVE KnownInv'
  OBVIOUS
<1>0. /\ pc \notin {"layout", "element"} => stack = <<>>
      /\ TypeOK /\ ReturnInv
  BY DEF Inv, TypeInv, FramesInv
<1>1. PICK G, s, a : Known(G, s, a)
  BY DEF KnownInv
<1>2. ASSUME NEW t \in Structs, Enter(t), UNCHANGED elements, stack = <<>>
      PROVE  KnownInv'
  <2>1. t \notin OnStack
    BY <1>2 DEF OnStack
  <2> QED
    BY <1>1, <1>2, <2>1, KnownEntered
<1>3. ASSUME UNCHANGED <<elements, size, alignment, stack, spoilt>>
      PROVE  KnownInv'
  BY <1>1, <1>3, KnownUntouched
<1>4. ASSUME NEW c \in Calls, BadAbi(c) \/ PrepCif(c)
      PROVE  KnownInv'
  BY <1>3, <1>4 DEF BadAbi, PrepCif, typeVars
<1>5. ASSUME NEW c \in Calls, GetStructOffsets(c)
      PROVE  KnownInv'
  BY <1>0, <1>2, <1>3, <1>5 DEF GetStructOffsets, Begin
<1>6. CASE NextElement \/ PlaceElement \/ EndAggregate
  BY <1>6, KnownNextElement, KnownPlaceElement, KnownEndAggregate
<1>7. ASSUME NEW t \in Types, NEW then, NEW p \in {"rtype", "arg"},
             LayOut(t, then, p)
      PROVE  KnownInv'
  <2>1. stack = <<>> /\ UNCHANGED elements
    BY <1>0, <1>7 DEF LayOut
  <2>2. SizeOf(t) = 0 => t \in Structs /\ Enter(t)
    BY <1>7, ScalarFacts DEF LayOut, SizeOf, Types
  <2>3. SizeOf(t) # 0 => UNCHANGED <<size, alignment, stack, spoilt>>
    BY <1>7 DEF LayOut
  <2> QED
    BY <1>2, <1>3, <2>1, <2>2, <2>3
<1>8. CASE LayOutReturn \/ LayOutArg
  <2>1. call.rtype \in Types /\ (LayOutArg => Arg \in Types)
    BY <1>0, CallFacts DEF LayOutArg, Arg, ReturnInv, TypeOK
  <2> QED
    BY <1>7, <1>8, <2>1 DEF LayOutReturn, LayOutArg
<1>9. CASE \/ TakeReturn \/ TakeArg \/ Machdep \/ MachdepVar \/ Aborted
           \/ UNCHANGED vars
  BY <1>3, <1>9
     DEF TakeReturn, TakeArg, Machdep, MachdepVar, Aborted, vars, typeVars, frameVars
<1> QED
  BY <1>4, <1>5, <1>6, <1>8, <1>9 DEF Next

LEMMA KnownRight ==
  ASSUME Inv, KnownInv PROVE LayoutRight
<1> SUFFICES ASSUME stack = <<>>, NEW t \in Structs, Settled(t)
             PROVE  /\ \E k \in 1 .. Len(elements[t]) :
                         alignment[t] = AlignOf(elements[t][k])
                    /\ \A k \in 1 .. Len(elements[t]) :
                         AlignOf(elements[t][k]) <= alignment[t]
                    /\ size[t] = LeastMultiple(EndsOf(t)[Len(elements[t])],
                                               alignment[t])
  BY DEF LayoutRight
<1>1. PICK G, s, a : Known(G, s, a)
  BY DEF KnownInv
<1> DEFINE n == Len(elements[t])
<1>2. OnStack = {}
  BY DEF OnStack
<1>3. /\ t \in G /\ Composed(t, G, s, a)
      /\ \A u \in G : s[u] = size[u] /\ a[u] = alignment[u]
  BY <1>1, <1>2 DEF Known
<1>4. elements[t] # NoElements /\ n \in Nat
  BY <1>3, ElementFacts DEF Composed, Inv, TypeInv
<1>5. WidthsIn(s, t) = Widths(t) /\ AlignsIn(a, t) = Aligns(t)
  <2>1. \A j \in 1 .. n : elements[t][j] \in Structs => elements[t][j] \in G
    BY <1>3 DEF Composed
  <2> QED
    BY <1>3, <2>1 DEF WidthsIn, AlignsIn, Widths, Aligns, SizeOf, AlignOf
<1>6. PICK f : /\ Laid(Widths(t), Aligns(t), n, f)
               /\ size[t] = FFI_ALIGN(f[n], alignment[t])
  BY <1>3, <1>5 DEF Composed
<1>7. /\ \A j \in 1 .. n : Aligns(t)[j] \in Powers
      /\ Strictest(alignment[t], Aligns(t), n)
  BY <1>3, <1>5 DEF Composed
<1>8. EndsOf(t) = f
  <2>1. Len(Widths(t)) = n
    BY <1>4 DEF Widths
  <2> QED
    BY <1>4, <1>6, <1>7, <2>1, EndsOfLaid DEF EndsOf
<1>9. n # 0
  <2> SUFFICES ASSUME n = 0 PROVE FALSE
    OBVIOUS
  <2>1. f[n] = 0
    BY <1>6 DEF Laid
  <2> QED
    BY <1>6, <2>1 DEF FFI_ALIGN, Settled
<1>10. /\ \E k \in 1 .. n : Aligns(t)[k] = alignment[t]
       /\ \A k \in 1 .. n : Aligns(t)[k] <= alignment[t]
  BY <1>7, <1>9 DEF Strictest
<1>11. size[t] = LeastMultiple(f[n], alignment[t])
  <2>1. f[n] \in Nat
    <3>1. n \in 0 .. n /\ f \in [0 .. n -> Nat]
      BY <1>4, <1>6 DEF Laid
    <3> QED
      BY <3>1
  <2>2. alignment[t] \in Powers
    BY <1>7, <1>10
  <2> QED
    BY <1>6, <2>1, <2>2, LeastMultipleFacts
<1> QED
  BY <1>8, <1>10, <1>11 DEF Aligns

(* Every struct whose layout no failure interrupted has, while no layout is  *)
(* going on, the alignment of its strictest element and the size of C, though *)
(* ffi_get_struct_offsets lays structs out again that others contain.        *)
THEOREM LayoutIsRight == Spec => []LayoutRight
<1>1. Init => KnownInv
  <2> SUFFICES ASSUME Init PROVE KnownInv
    OBVIOUS
  <2>1. Known({}, size, alignment)
    BY DEF Init, Known, Settled, Powers
  <2> QED
    BY <2>1 DEF KnownInv
<1>2. Inv /\ KnownInv => LayoutRight
  BY KnownRight
<1> QED
  BY <1>1, <1>2, KnownStep, LaidHolds, InvHolds, PTL DEF Spec
==============================================================================
