---------------------------- MODULE ImportsProofs ----------------------------
(***************************************************************************)
(* The imports of http_client.c, for every integer, string and list that    *)
(* the canonical ABI can carry: what the wrappers lift is what the host      *)
(* answered, the return areas hold it, the free functions free it, and the   *)
(* host hears what a caller lowered.                                         *)
(*                                                                         *)
(* The proof follows the types.  Of each combinator of CanonicalAbi it shows  *)
(* once how an image of a compound value contains the images of its parts,    *)
(* then goes through the operators of the two machines one type at a time.    *)
(***************************************************************************)
EXTENDS MCImports, SequenceTheorems, TLAPS

------------------------------------------------------------------------------
(* Images                                                                    *)

\* What is at p of a, or of the core arguments, is the image m.
Holds(a, p, m) ==
  \A q \in DOMAIN m : p + q \in DOMAIN a /\ a[p + q] = m[q]

\* The parts of an image that is put together of two.
LEMMA HoldsParts ==
  ASSUME NEW a, NEW p \in Nat, NEW m1, NEW m2, NEW d \in Nat,
         DOMAIN m1 \subseteq 0 .. d - 1, DOMAIN m2 \subseteq Nat
  PROVE  Holds(a, p, Beside(m1, Shifted(m2, d)))
           <=> Holds(a, p, m1) /\ Holds(a, p + d, m2)
<1> DEFINE s == Shifted(m2, d)
           b == Beside(m1, s)
<1>1. DOMAIN s = {d + x : x \in DOMAIN m2}
  BY DEF Shifted
<1>2. \A x \in DOMAIN m2 : d + x \in DOMAIN s /\ d + x \notin DOMAIN m1
                             /\ s[d + x] = m2[x] /\ p + (d + x) = (p + d) + x
  BY DEF Shifted
<1>3. DOMAIN b = DOMAIN m1 \cup DOMAIN s
  BY DEF Beside
<1>4. \A q \in DOMAIN m1 : b[q] = m1[q]
  BY DEF Beside
<1>5. \A x \in DOMAIN m2 : d + x \in DOMAIN b /\ b[d + x] = m2[x]
  BY <1>2 DEF Beside
<1>6. ASSUME Holds(a, p, b) PROVE Holds(a, p, m1) /\ Holds(a, p + d, m2)
  <2> HIDE DEF b, s
  <2>1. Holds(a, p, m1)
    BY <1>3, <1>4, <1>6 DEF Holds
  <2>2. Holds(a, p + d, m2)
    BY <1>2, <1>5, <1>6 DEF Holds
  <2> QED BY <2>1, <2>2
<1>7. ASSUME Holds(a, p, m1), Holds(a, p + d, m2) PROVE Holds(a, p, b)
  <2> HIDE DEF b, s
  <2> SUFFICES ASSUME NEW q \in DOMAIN b
               PROVE  p + q \in DOMAIN a /\ a[p + q] = b[q]
    BY DEF Holds
  <2>1. CASE q \in DOMAIN m1
    BY <1>4, <1>7, <2>1 DEF Holds
  <2>2. CASE q \in DOMAIN s
    <3> PICK x \in DOMAIN m2 : q = d + x
      BY <1>1, <2>2
    <3>1. p + d + x \in DOMAIN a /\ a[p + d + x] = m2[x]
      BY <1>7 DEF Holds
    <3> QED BY <1>2, <1>5, <3>1
  <2> QED BY <1>3, <2>1, <2>2
<1> QED BY <1>6, <1>7

\* What is read at the width of the cell that lies there is what it holds.
LEMMA HoldsCell ==
  ASSUME NEW a, NEW p \in Nat, NEW w, NEW x, Holds(a, p, Cell(w, x))
  PROVE  At(a, p, w) = x
BY DEF Holds, Cell, At

\* A core argument that is where it belongs.
LEMMA HoldsSlot ==
  ASSUME NEW a, NEW p \in Nat, NEW x
  PROVE  Holds(a, p, Slot(x)) <=> p \in DOMAIN a /\ a[p] = x
BY DEF Holds, Slot

------------------------------------------------------------------------------
(* Types                                                                     *)

\* The cells of a type's values lie inside its size, and the core arguments of
\* its values inside its slots.
WellFormed(T) ==
  /\ T.size \in Nat /\ T.slots \in Nat /\ T.align \in {1, 2, 4, 8}
  /\ \A v \in Values(T) :
       /\ \A q \in DOMAIN T.mem[v] :
            /\ q \in Nat /\ T.mem[v][q].w \in Nat \ {0}
            /\ q + T.mem[v][q].w <= T.size
       /\ DOMAIN T.args[v] \subseteq 0 .. T.slots - 1

\* No two values are spread over the same core arguments.
Unambiguous(T) ==
  \A v1, v2 \in Values(T), p \in Nat : \A s :
    Holds(s, p, T.args[v1]) /\ Holds(s, p, T.args[v2]) => v1 = v2
\* A type of which all this is known.
Shape(T, size, align, n) ==
  /\ WellFormed(T) /\ Unambiguous(T)
  /\ T.size = size /\ T.align = align /\ T.slots = n

\* The measures of a type are numbers.
LEMMA Measures ==
  ASSUME NEW T, WellFormed(T)
  PROVE  T.size \in Nat /\ T.slots \in Nat /\ T.align \in {1, 2, 4, 8}
BY DEF WellFormed

\* An offset is rounded up to one that is no smaller.
LEMMA RoundUpFacts ==
  ASSUME NEW n \in Nat, NEW a \in {1, 2, 4, 8}
  PROVE  RoundUp(n, a) \in Nat /\ RoundUp(n, a) >= n /\ RoundUp(1, a) = a
BY DEF RoundUp

\* The member of a set of numbers that no other exceeds is its Max.
LEMMA MaxIs ==
  ASSUME NEW S \in SUBSET Nat, NEW m \in S, \A x \in S : x <= m
  PROVE  Max(S) = m
<1> DEFINE P(x) == x \in S /\ \A y \in S : x >= y
<1>1. P(m)
  OBVIOUS
<1>2. P(CHOOSE x : P(x))
  BY <1>1
<1>3. Max(S) = CHOOSE x : P(x)
  BY DEF Max
<1> HIDE DEF P
<1> DEFINE M == Max(S)
<1>4. M \in S /\ M >= m
  BY <1>2, <1>3 DEF P
<1> HIDE DEF M
<1>5. M \in Nat /\ m \in Nat /\ M <= m
  BY <1>4
<1>6. M = m
  BY <1>4, <1>5
<1> QED BY <1>6 DEF M

\* A word of any width.
LEMMA WordsOf ==
  ASSUME NEW w \in {1, 2, 4, 8}
  PROVE  /\ WellFormed(Word(w)) /\ Unambiguous(Word(w))
         /\ Word(w).size = w /\ Word(w).align = w /\ Word(w).slots = 1
<1> DEFINE T == Word(w)
<1>1. /\ T.size = w /\ T.align = w /\ T.slots = 1
      /\ \A v \in Values(T) : T.mem[v] = Cell(w, v) /\ T.args[v] = Slot(v)
  BY DEF Word, Values
<1> HIDE DEF T
<1>2. WellFormed(T)
  BY <1>1 DEF WellFormed, Cell, Slot
<1>3. Unambiguous(T)
  BY <1>1, HoldsSlot DEF Unambiguous
<1> QED BY <1>1, <1>2, <1>3 DEF T

\* The images of a text are its two words.
LEMMA TextShape ==
  ASSUME NEW v \in Texts
  PROVE  /\ Text.mem[v] = Beside(Cell(4, v.ptr), Shifted(Cell(4, v.len), 4))
         /\ Text.args[v] = Beside(Slot(v.ptr), Shifted(Slot(v.len), 1))
         /\ v = [k |-> "text", ptr |-> v.ptr, len |-> v.len]
         /\ v.len.n \in Nat /\ v.len.k = "len"
         /\ v.ptr \in Blocks <=> v.len.n > 0
         /\ v.len \notin Blocks
<1>1. v = TextOf(0, 0) \/ \E p \in Pointers, n \in Lengths : v = TextOf(p, n)
  BY DEF Texts
<1> QED BY <1>1, TextAssumption DEF Text, TextOf, Blocks, Ptr

\* A text: two words of four bytes each.
LEMMA TextsAre ==
  /\ WellFormed(Text) /\ Unambiguous(Text)
  /\ Text.size = 8 /\ Text.align = 4 /\ Text.slots = 2 /\ Values(Text) = Texts
<1> DEFINE T == Text
<1>1. T.size = 8 /\ T.align = 4 /\ T.slots = 2 /\ Values(T) = Texts
  BY DEF Text, Values
<1>2. \A v \in Texts :
        /\ T.mem[v] = Beside(Cell(4, v.ptr), Shifted(Cell(4, v.len), 4))
        /\ T.args[v] = Beside(Slot(v.ptr), Shifted(Slot(v.len), 1))
        /\ v = [k |-> "text", ptr |-> v.ptr, len |-> v.len]
  BY TextShape
<1> HIDE DEF T
<1>3. \A x : /\ DOMAIN Cell(4, x) = {0} /\ Cell(4, x)[0].w = 4
             /\ DOMAIN Slot(x) = {0} /\ Slot(x)[0] = x
  BY DEF Cell, Slot
<1>4. ASSUME NEW v \in Texts
      PROVE  /\ DOMAIN T.mem[v] = {0, 4}
             /\ T.mem[v][0].w = 4 /\ T.mem[v][4].w = 4
             /\ DOMAIN T.args[v] = {0, 1}
  <2> DEFINE c2 == Shifted(Cell(4, v.len), 4)
             s2 == Shifted(Slot(v.len), 1)
  <2>1. DOMAIN c2 = {4} /\ c2[4].w = 4 /\ DOMAIN s2 = {1}
    BY <1>3 DEF Shifted
  <2>2. /\ T.mem[v] = Beside(Cell(4, v.ptr), c2)
        /\ T.args[v] = Beside(Slot(v.ptr), s2)
    BY <1>2
  <2> HIDE DEF c2, s2
  <2> QED BY <1>3, <2>1, <2>2 DEF Beside
<1>5. WellFormed(T)
  BY <1>1, <1>4 DEF WellFormed
<1>6. ASSUME NEW v \in Texts, NEW s, NEW p \in Nat, Holds(s, p, T.args[v])
      PROVE  v.ptr = s[p] /\ v.len = s[p + 1]
  <2>1. Holds(s, p, Slot(v.ptr)) /\ Holds(s, p + 1, Slot(v.len))
    BY <1>2, <1>3, <1>6, HoldsParts
  <2> QED BY <2>1, HoldsSlot
<1>7. Unambiguous(T)
  <2> SUFFICES ASSUME NEW v1 \in Texts, NEW v2 \in Texts, NEW p \in Nat, NEW s,
                      Holds(s, p, T.args[v1]), Holds(s, p, T.args[v2])
               PROVE  v1 = v2
    BY <1>1 DEF Unambiguous
  <2>1. v1.ptr = s[p] /\ v1.len = s[p + 1]
    BY <1>6
  <2>2. v2.ptr = s[p] /\ v2.len = s[p + 1]
    BY <1>6
  <2> QED BY <1>2, <2>1, <2>2
<1> QED BY <1>1, <1>5, <1>7 DEF T

\* The type of nothing.
LEMMA Units ==
  /\ WellFormed(Unit) /\ Unambiguous(Unit)
  /\ Unit.size = 0 /\ Unit.align = 1 /\ Unit.slots = 0
  /\ Values(Unit) = {Nothing} /\ Unit.mem[Nothing] = NoCells
<1> DEFINE T == Unit
<1>1. /\ T.size = 0 /\ T.align = 1 /\ T.slots = 0
      /\ Values(T) = {Nothing} /\ T.mem[Nothing] = NoCells
      /\ T.args[Nothing] = NoCells /\ DOMAIN NoCells = {}
  BY DEF Unit, Values, NoCells
<1> HIDE DEF T
<1> QED BY <1>1 DEF WellFormed, Unambiguous, T

\* The images of a record are those of its two fields.
LEMMA PairParts ==
  ASSUME NEW S, NEW T, NEW v \in Values(Pair(S, T))
  PROVE  LET at == RoundUp(S.size, T.align)
         IN  /\ v.vs[1] \in Values(S) /\ v.vs[2] \in Values(T)
             /\ v = Fields(<<v.vs[1], v.vs[2]>>)
             /\ Pair(S, T).mem[v] = Beside(S.mem[v.vs[1]], Shifted(T.mem[v.vs[2]], at))
             /\ Pair(S, T).args[v]
                  = Beside(S.args[v.vs[1]], Shifted(T.args[v.vs[2]], S.slots))
<1>1. Values(Pair(S, T)) = Pairs(S, T)
  BY DEF Pair, Values
<1>2. PICK x \in Values(S), y \in Values(T) : v = Fields(<<x, y>>)
  BY <1>1 DEF Pairs
<1>3. v.vs[1] = x /\ v.vs[2] = y
  BY <1>2 DEF Fields
<1> QED BY <1>1, <1>2, <1>3 DEF Pair

\* A record is as well formed, and as unambiguous, as its fields are.
LEMMA PairsOf ==
  ASSUME NEW S, NEW T, WellFormed(S), WellFormed(T),
         Unambiguous(S), Unambiguous(T)
  PROVE  LET P  == Pair(S, T)
             at == RoundUp(S.size, T.align)
             a  == Max({S.align, T.align})
         IN  /\ WellFormed(P) /\ Unambiguous(P)
             /\ P.size = RoundUp(at + T.size, a) /\ P.align = a
             /\ P.slots = S.slots + T.slots
<1> DEFINE P  == Pair(S, T)
           at == RoundUp(S.size, T.align)
           a  == Max({S.align, T.align})
<1>1. /\ P.size = RoundUp(at + T.size, a) /\ P.align = a
      /\ P.slots = S.slots + T.slots
  BY DEF Pair
<1>2. \A v \in Values(P) :
        /\ v.vs[1] \in Values(S) /\ v.vs[2] \in Values(T)
        /\ v = Fields(<<v.vs[1], v.vs[2]>>)
        /\ P.mem[v] = Beside(S.mem[v.vs[1]], Shifted(T.mem[v.vs[2]], at))
        /\ P.args[v] = Beside(S.args[v.vs[1]], Shifted(T.args[v.vs[2]], S.slots))
  BY PairParts
<1>3. at \in Nat /\ at >= S.size
  BY RoundUpFacts DEF WellFormed
<1>4. a \in {1, 2, 4, 8}
  <2>1. CASE S.align <= T.align
    BY <2>1, MaxIs DEF WellFormed
  <2>2. CASE T.align <= S.align
    BY <2>2, MaxIs DEF WellFormed
  <2> QED BY <2>1, <2>2 DEF WellFormed
<1>5. P.size \in Nat /\ P.size >= at + T.size
  BY <1>1, <1>3, <1>4, RoundUpFacts, SMTT(20) DEF WellFormed
<1> HIDE DEF P, at, a
<1>6. ASSUME NEW v \in Values(P)
      PROVE  /\ \A q \in DOMAIN P.mem[v] :
                  /\ q \in Nat /\ P.mem[v][q].w \in Nat \ {0}
                  /\ q + P.mem[v][q].w <= P.size
             /\ DOMAIN P.args[v] \subseteq 0 .. P.slots - 1
  <2> DEFINE m1 == S.mem[v.vs[1]]
             m2 == T.mem[v.vs[2]]
  <2>1. ASSUME NEW q \in DOMAIN P.mem[v]
        PROVE  /\ q \in Nat /\ P.mem[v][q].w \in Nat \ {0}
               /\ q + P.mem[v][q].w <= P.size
    <3>1. CASE q \in DOMAIN m1
      <4>1. P.mem[v][q] = m1[q]
        BY <1>2, <3>1 DEF Beside
      <4>2. q \in Nat /\ m1[q].w \in Nat \ {0} /\ q + m1[q].w <= S.size
        BY <1>2, <3>1 DEF WellFormed
      <4>3. S.size \in Nat /\ T.size \in Nat
        BY DEF WellFormed
      <4> HIDE DEF m1
      <4> QED BY <1>3, <1>5, <4>1, <4>2, <4>3
    <3>2. CASE q \notin DOMAIN m1
      <4>1. q \in DOMAIN Shifted(m2, at) /\ P.mem[v][q] = Shifted(m2, at)[q]
        <5>1. P.mem[v] = Beside(m1, Shifted(m2, at))
          BY <1>2
        <5> HIDE DEF m1, m2
        <5> QED BY <3>2, <5>1 DEF Beside
      <4>2. PICK x \in DOMAIN m2 : q = at + x
        BY <4>1 DEF Shifted
      <4>3. x \in Nat /\ m2[x].w \in Nat \ {0} /\ x + m2[x].w <= T.size
        BY <1>2 DEF WellFormed
      <4>4. q - at = x
        BY <1>3, <4>2, <4>3
      <4>5. P.mem[v][q] = m2[x]
        BY <4>1, <4>4 DEF Shifted
      <4>6. T.size \in Nat
        BY DEF WellFormed
      <4> HIDE DEF m2
      <4> QED BY <1>3, <1>5, <4>2, <4>3, <4>5, <4>6
    <3> QED BY <3>1, <3>2
  <2>2. DOMAIN P.args[v] \subseteq 0 .. P.slots - 1
    <3> DEFINE a1 == S.args[v.vs[1]]
               a2 == T.args[v.vs[2]]
    <3>1. P.args[v] = Beside(a1, Shifted(a2, S.slots))
      BY <1>2
    <3>2. /\ DOMAIN a1 \subseteq 0 .. S.slots - 1
          /\ DOMAIN a2 \subseteq 0 .. T.slots - 1
          /\ S.slots \in Nat /\ T.slots \in Nat
      BY <1>2 DEF WellFormed
    <3> HIDE DEF a1, a2
    <3> QED BY <1>1, <3>1, <3>2 DEF Beside, Shifted
  <2> QED BY <2>1, <2>2
<1>7. WellFormed(P)
  <2>1. P.slots \in Nat
    BY <1>1 DEF WellFormed
  <2> QED BY <1>1, <1>4, <1>5, <1>6, <2>1 DEF WellFormed
<1>8. ASSUME NEW v \in Values(P), NEW s, NEW p \in Nat, Holds(s, p, P.args[v])
      PROVE  Holds(s, p, S.args[v.vs[1]]) /\ Holds(s, p + S.slots, T.args[v.vs[2]])
  <2> DEFINE a1 == S.args[v.vs[1]]
             a2 == T.args[v.vs[2]]
  <2>1. Holds(s, p, Beside(a1, Shifted(a2, S.slots)))
    BY <1>2, <1>8
  <2>2. /\ DOMAIN a1 \subseteq 0 .. S.slots - 1
        /\ DOMAIN a2 \subseteq 0 .. T.slots - 1
        /\ S.slots \in Nat
    BY <1>2 DEF WellFormed
  <2>4. DOMAIN a2 \subseteq Nat
    <3> HIDE DEF a2
    <3> QED BY <2>2
  <2> HIDE DEF a1, a2
  <2>3. Holds(s, p, a1) /\ Holds(s, p + S.slots, a2)
    BY <2>1, <2>2, <2>4, HoldsParts
  <2> QED BY <2>3 DEF a1, a2
<1>9. Unambiguous(P)
  <2> SUFFICES ASSUME NEW v1 \in Values(P), NEW v2 \in Values(P), NEW s,
                      NEW p \in Nat,
                      Holds(s, p, P.args[v1]), Holds(s, p, P.args[v2])
               PROVE  v1 = v2
    BY DEF Unambiguous
  <2>1. v1.vs[1] = v2.vs[1]
    <3>1. v1.vs[1] \in Values(S) /\ v2.vs[1] \in Values(S)
      BY <1>2
    <3>2. Holds(s, p, S.args[v1.vs[1]]) /\ Holds(s, p, S.args[v2.vs[1]])
      BY <1>8
    <3> QED BY <3>1, <3>2 DEF Unambiguous
  <2>2. v1.vs[2] = v2.vs[2]
    <3>1. p + S.slots \in Nat
      BY DEF WellFormed
    <3>2. v1.vs[2] \in Values(T) /\ v2.vs[2] \in Values(T)
      BY <1>2
    <3>3. /\ Holds(s, p + S.slots, T.args[v1.vs[2]])
          /\ Holds(s, p + S.slots, T.args[v2.vs[2]])
      BY <1>8
    <3> QED BY <3>1, <3>2, <3>3 DEF Unambiguous
  <2> QED BY <1>2, <2>1, <2>2
<1> QED BY <1>1, <1>7, <1>9 DEF P, at, a

\* The images of a variant are its tag and those of the payload at hand.
LEMMA VariantParts ==
  ASSUME NEW ts, NEW n \in Nat, DOMAIN ts = 1 .. n, NEW v \in Values(Variant(ts))
  PROVE  /\ v.tag \in 0 .. n - 1 /\ v.tag + 1 \in DOMAIN ts
         /\ v.val \in Values(ts[v.tag + 1]) /\ v = Case(v.tag, v.val)
         /\ Variant(ts).mem[v]
              = Beside(Cell(1, Tag(v.tag)),
                       Shifted(ts[v.tag + 1].mem[v.val], PayloadAt(ts)))
         /\ Variant(ts).args[v]
              = Beside(Slot(Tag(v.tag)), Shifted(ts[v.tag + 1].args[v.val], 1))
<1>1. v \in Cases(ts)
  BY DEF Variant, Values
<1>2. PICK i \in DOMAIN ts : v \in {Case(i - 1, x) : x \in Values(ts[i])}
  BY <1>1 DEF Cases
<1>3. PICK x \in Values(ts[i]) : v = Case(i - 1, x)
  BY <1>2
<1>4. v.tag = i - 1 /\ v.val = x /\ v.tag + 1 = i
  BY <1>3 DEF Case
<1>5. v.tag \in 0 .. n - 1
  BY <1>4
<1> QED BY <1>1, <1>3, <1>4, <1>5 DEF Variant

\* A variant is as well formed, and as unambiguous, as its cases are; its size,
\* alignment and slots are those of the largest.
LEMMA VariantsOf ==
  ASSUME NEW ts, NEW n \in Nat, DOMAIN ts = 1 .. n,
         NEW a \in {1, 2, 4, 8}, NEW z \in Nat, NEW k \in Nat,
         \A i \in DOMAIN ts :
           /\ WellFormed(ts[i]) /\ Unambiguous(ts[i])
           /\ ts[i].align <= a /\ ts[i].size <= z /\ ts[i].slots <= k,
         \E i \in DOMAIN ts : ts[i].align = a,
         \E i \in DOMAIN ts : ts[i].size = z,
         \E i \in DOMAIN ts : ts[i].slots = k
  PROVE  Shape(Variant(ts), RoundUp(a + z, a), a, 1 + k) /\ PayloadAt(ts) = a
<1> DEFINE V == Variant(ts)
<1>0. \A i \in DOMAIN ts :
        /\ ts[i].size \in Nat /\ ts[i].slots \in Nat
        /\ ts[i].align \in {1, 2, 4, 8}
  BY Measures
<1>1. AlignOfAny(ts) = a
  <2> DEFINE S == {ts[i].align : i \in DOMAIN ts}
  <2>1. \A i \in DOMAIN ts : ts[i].align \in Nat /\ ts[i].align <= a
    BY <1>0, SMTT(20)
  <2>2. a \in S
    OBVIOUS
  <2>3. S \in SUBSET Nat /\ \A x \in S : x <= a
    BY <2>1
  <2> HIDE DEF S
  <2>4. Max(S) = a
    BY <2>2, <2>3, MaxIs
  <2> QED BY <2>4 DEF S, AlignOfAny
<1>2. SizeOfAny(ts) = z
  <2> DEFINE S == {ts[i].size : i \in DOMAIN ts}
  <2>1. \A i \in DOMAIN ts : ts[i].size \in Nat /\ ts[i].size <= z
    BY <1>0
  <2>2. z \in S
    OBVIOUS
  <2>3. S \in SUBSET Nat /\ \A x \in S : x <= z
    BY <2>1
  <2> HIDE DEF S
  <2>4. Max(S) = z
    BY <2>2, <2>3, MaxIs
  <2> QED BY <2>4 DEF S, SizeOfAny
<1>3. SlotsOfAny(ts) = k
  <2> DEFINE S == {ts[i].slots : i \in DOMAIN ts}
  <2>1. \A i \in DOMAIN ts : ts[i].slots \in Nat /\ ts[i].slots <= k
    BY <1>0
  <2>2. k \in S
    OBVIOUS
  <2>3. S \in SUBSET Nat /\ \A x \in S : x <= k
    BY <2>1
  <2> HIDE DEF S
  <2>4. Max(S) = k
    BY <2>2, <2>3, MaxIs
  <2> QED BY <2>4 DEF S, SlotsOfAny
<1>4. PayloadAt(ts) = a
  BY <1>1, RoundUpFacts DEF PayloadAt
<1>5. V.size = RoundUp(a + z, a) /\ V.align = a /\ V.slots = 1 + k
  BY <1>1, <1>2, <1>3, <1>4 DEF Variant
<1>6. V.size \in Nat /\ V.size >= a + z /\ V.slots \in Nat
  <2>1. a + z \in Nat
    OBVIOUS
  <2>2. RoundUp(a + z, a) \in Nat /\ RoundUp(a + z, a) >= a + z
    BY <2>1, RoundUpFacts
  <2>3. 1 + k \in Nat
    OBVIOUS
  <2> HIDE DEF V
  <2> QED BY <1>5, <2>2, <2>3
<1>7. \A v \in Values(V) :
        /\ v.tag + 1 \in DOMAIN ts
        /\ v.val \in Values(ts[v.tag + 1]) /\ v = Case(v.tag, v.val)
        /\ V.mem[v] = Beside(Cell(1, Tag(v.tag)),
                             Shifted(ts[v.tag + 1].mem[v.val], a))
        /\ V.args[v]
             = Beside(Slot(Tag(v.tag)), Shifted(ts[v.tag + 1].args[v.val], 1))
  BY <1>4, VariantParts
<1>8. \A x : /\ DOMAIN Cell(1, x) = {0} /\ Cell(1, x)[0].w = 1
             /\ DOMAIN Slot(x) = {0}
  BY DEF Cell, Slot
<1> HIDE DEF V
<1>9. ASSUME NEW v \in Values(V)
      PROVE  /\ \A q \in DOMAIN V.mem[v] :
                  /\ q \in Nat /\ V.mem[v][q].w \in Nat \ {0}
                  /\ q + V.mem[v][q].w <= V.size
             /\ DOMAIN V.args[v] \subseteq 0 .. V.slots - 1
  <2> DEFINE T  == ts[v.tag + 1]
             m1 == Cell(1, Tag(v.tag))
             m2 == T.mem[v.val]
             a2 == T.args[v.val]
  <2>1. /\ V.mem[v] = Beside(m1, Shifted(m2, a))
        /\ V.args[v] = Beside(Slot(Tag(v.tag)), Shifted(a2, 1))
        /\ DOMAIN m1 = {0} /\ m1[0].w = 1
    BY <1>7, <1>8
  <2>2. /\ \A q \in DOMAIN m2 : /\ q \in Nat /\ m2[q].w \in Nat \ {0}
                                /\ q + m2[q].w <= T.size
        /\ DOMAIN a2 \subseteq 0 .. T.slots - 1
        /\ T.size \in Nat /\ T.size <= z /\ T.slots \in Nat /\ T.slots <= k
    BY <1>7 DEF WellFormed
  <2> HIDE DEF m1, m2, a2, T
  <2>3. ASSUME NEW q \in DOMAIN V.mem[v]
        PROVE  /\ q \in Nat /\ V.mem[v][q].w \in Nat \ {0}
               /\ q + V.mem[v][q].w <= V.size
    <3>1. CASE q \in DOMAIN m1
      BY <1>6, <2>1, <3>1, SMTT(20) DEF Beside
    <3>2. CASE q \notin DOMAIN m1
      <4>1. q \in DOMAIN Shifted(m2, a) /\ V.mem[v][q] = Shifted(m2, a)[q]
        BY <2>1, <3>2 DEF Beside
      <4>2. PICK x \in DOMAIN m2 : q = a + x
        BY <4>1 DEF Shifted
      <4>3. q - a = x
        BY <2>2, <4>2
      <4>4. V.mem[v][q] = m2[x]
        BY <4>1, <4>3 DEF Shifted
      <4>5. x \in Nat /\ m2[x].w \in Nat \ {0} /\ x + m2[x].w <= z
        BY <2>2, SMTT(20)
      <4>6. q \in Nat /\ V.mem[v][q].w \in Nat \ {0}
        BY <4>2, <4>4, <4>5, SMTT(20)
      <4> DEFINE w == m2[x].w
      <4>7. w \in Nat /\ x + w <= z /\ x \in Nat
        BY <4>5
      <4> HIDE DEF w
      <4>8. q + w <= V.size
        <5>1. PICK y \in Nat : y = V.size /\ a + z <= y
          BY <1>6
        <5>2. q + w <= a + z
          BY <4>2, <4>7, SMTT(20)
        <5>3. q + w \in Nat
          BY <4>2, <4>7, SMTT(20)
        <5> QED BY <5>1, <5>2, <5>3
      <4> QED BY <4>4, <4>6, <4>8 DEF w
    <3> QED BY <3>1, <3>2
  <2>4. DOMAIN V.args[v] \subseteq 0 .. V.slots - 1
    BY <1>5, <1>8, <2>1, <2>2, SMTT(20) DEF Beside, Shifted
  <2> QED BY <2>3, <2>4
<1>10. WellFormed(V)
  BY <1>5, <1>6, <1>9 DEF WellFormed
<1>11. ASSUME NEW v \in Values(V), NEW s, NEW p \in Nat, Holds(s, p, V.args[v])
       PROVE  s[p] = Tag(v.tag) /\ Holds(s, p + 1, ts[v.tag + 1].args[v.val])
  <2> DEFINE a1 == Slot(Tag(v.tag))
             a2 == ts[v.tag + 1].args[v.val]
  <2>1. Holds(s, p, Beside(a1, Shifted(a2, 1)))
    BY <1>7, <1>11
  <2>2. DOMAIN a1 \subseteq 0 .. 1 - 1
    BY <1>8
  <2>3. DOMAIN a2 \subseteq 0 .. ts[v.tag + 1].slots - 1
    BY <1>7 DEF WellFormed
  <2>4. DOMAIN a2 \subseteq Nat
    <3> HIDE DEF a2
    <3> QED BY <2>3
  <2> HIDE DEF a1, a2
  <2>5. Holds(s, p, a1) /\ Holds(s, p + 1, a2)
    BY <2>1, <2>2, <2>4, HoldsParts
  <2> QED BY <2>5, HoldsSlot DEF a1, a2
<1>12. Unambiguous(V)
  <2> SUFFICES ASSUME NEW v1 \in Values(V), NEW v2 \in Values(V), NEW p \in Nat,
                      NEW s, Holds(s, p, V.args[v1]), Holds(s, p, V.args[v2])
               PROVE  v1 = v2
    BY DEF Unambiguous
  <2>1. v1.tag = v2.tag
    <3>1. s[p] = Tag(v1.tag)
      BY <1>11
    <3>2. s[p] = Tag(v2.tag)
      BY <1>11
    <3> QED BY <3>1, <3>2 DEF Tag
  <2> DEFINE T == ts[v1.tag + 1]
  <2>2. v1.val \in Values(T) /\ Holds(s, p + 1, T.args[v1.val])
    BY <1>7, <1>11
  <2>3. v2.val \in Values(T) /\ Holds(s, p + 1, T.args[v2.val])
    BY <1>7, <1>11, <2>1
  <2>4. Unambiguous(T) /\ p + 1 \in Nat
    BY <1>7
  <2> HIDE DEF T
  <2>5. v1.val = v2.val
    BY <2>2, <2>3, <2>4 DEF Unambiguous
  <2> QED BY <1>7, <2>1, <2>5
<1> QED BY <1>4, <1>5, <1>10, <1>12 DEF V, Shape

\* An option of a type whose shape is known.
LEMMA OptionsOf ==
  ASSUME NEW T, NEW z, NEW a, NEW k, Shape(T, z, a, k)
  PROVE  /\ Shape(Option(T), RoundUp(a + z, a), a, 1 + k)
         /\ PayloadAt(<<Unit, T>>) = a
<1> DEFINE ts == <<Unit, T>>
<1>1. z \in Nat /\ k \in Nat /\ a \in {1, 2, 4, 8}
  BY DEF Shape, WellFormed
<1>2. DOMAIN ts = 1 .. 2 /\ ts[1] = Unit /\ ts[2] = T
  OBVIOUS
<1>3. ts[1].align = 1 /\ ts[1].size = 0 /\ ts[1].slots = 0
  BY <1>2, Units
<1>4. ts[2].align = a /\ ts[2].size = z /\ ts[2].slots = k
  BY <1>2 DEF Shape
<1>5. \A i \in DOMAIN ts : WellFormed(ts[i]) /\ Unambiguous(ts[i])
  BY <1>2, Units DEF Shape
<1> HIDE DEF ts
<1>6. \A i \in DOMAIN ts :
        /\ WellFormed(ts[i]) /\ Unambiguous(ts[i])
        /\ ts[i].align <= a /\ ts[i].size <= z /\ ts[i].slots <= k
  BY <1>1, <1>2, <1>3, <1>4, <1>5
<1>7. /\ \E i \in DOMAIN ts : ts[i].align = a
      /\ \E i \in DOMAIN ts : ts[i].size = z
      /\ \E i \in DOMAIN ts : ts[i].slots = k
  BY <1>2, <1>4
<1>8. Shape(Variant(ts), RoundUp(a + z, a), a, 1 + k) /\ PayloadAt(ts) = a
  BY <1>1, <1>2, <1>6, <1>7, VariantsOf
<1> QED BY <1>8 DEF Option, ts

\* A result of two types whose shapes are known.
LEMMA ResultsOf ==
  ASSUME NEW T, NEW z1, NEW a1, NEW k1, Shape(T, z1, a1, k1),
         NEW E, NEW z2, NEW a2, NEW k2, Shape(E, z2, a2, k2),
         NEW z \in {z1, z2}, NEW a \in {a1, a2}, NEW k \in {k1, k2},
         z1 <= z, z2 <= z, a1 <= a, a2 <= a, k1 <= k, k2 <= k
  PROVE  /\ Shape(Result(T, E), RoundUp(a + z, a), a, 1 + k)
         /\ PayloadAt(<<T, E>>) = a
<1> DEFINE ts == <<T, E>>
<1>1. z \in Nat /\ k \in Nat /\ a \in {1, 2, 4, 8}
  BY DEF Shape, WellFormed
<1>2. DOMAIN ts = 1 .. 2 /\ ts[1] = T /\ ts[2] = E
  OBVIOUS
<1>3. ts[1].align = a1 /\ ts[1].size = z1 /\ ts[1].slots = k1
  BY <1>2 DEF Shape
<1>4. ts[2].align = a2 /\ ts[2].size = z2 /\ ts[2].slots = k2
  BY <1>2 DEF Shape
<1>5. \A i \in DOMAIN ts : WellFormed(ts[i]) /\ Unambiguous(ts[i])
  BY <1>2 DEF Shape
<1> HIDE DEF ts
<1>6. \A i \in DOMAIN ts :
        /\ WellFormed(ts[i]) /\ Unambiguous(ts[i])
        /\ ts[i].align <= a /\ ts[i].size <= z /\ ts[i].slots <= k
  BY <1>1, <1>2, <1>3, <1>4, <1>5
<1>7. /\ \E i \in DOMAIN ts : ts[i].align = a
      /\ \E i \in DOMAIN ts : ts[i].size = z
      /\ \E i \in DOMAIN ts : ts[i].slots = k
  BY <1>2, <1>3, <1>4
<1>8. Shape(Variant(ts), RoundUp(a + z, a), a, 1 + k) /\ PayloadAt(ts) = a
  BY <1>1, <1>2, <1>6, <1>7, VariantsOf, ZenonT(30)
<1> QED BY <1>8 DEF Result, ts

------------------------------------------------------------------------------
(* The shapes of the WIT types, one by one.                                  *)

\* The types without a parameter.
LEMMA Shapes ==
  /\ Shape(Unit, 0, 1, 0)
  /\ Shape(Text, 8, 4, 2)
  /\ \A w \in {1, 2, 4, 8} : Shape(Word(w), w, w, 1)
  /\ Shape(Handle, 4, 4, 1)
BY Units, WordsOf, TextsAre DEF Shape, Handle

\* The options of words and texts.
LEMMA Options ==
  /\ Shape(Option(Text), 12, 4, 3)
  /\ Shape(Option(Word(1)), 2, 1, 2)
  /\ Shape(Option(Word(2)), 4, 2, 2)
  /\ Shape(Option(Word(4)), 8, 4, 2)
  /\ Shape(Option(Word(8)), 16, 8, 2)
  /\ Shape(Option(Handle), 8, 4, 2)
<1>1. /\ RoundUp(4 + 8, 4) = 12 /\ RoundUp(1 + 1, 1) = 2 /\ RoundUp(2 + 2, 2) = 4
      /\ RoundUp(4 + 4, 4) = 8 /\ RoundUp(8 + 8, 8) = 16
  BY DEF RoundUp
<1>2. Shape(Option(Text), RoundUp(4 + 8, 4), 4, 1 + 2)
  <2>1. Shape(Text, 8, 4, 2)
    BY Shapes
  <2> QED BY <2>1, OptionsOf
<1>3. ASSUME NEW w \in {1, 2, 4, 8}
      PROVE  Shape(Option(Word(w)), RoundUp(w + w, w), w, 1 + 1)
  <2>1. Shape(Word(w), w, w, 1)
    BY Shapes
  <2> QED BY <2>1, OptionsOf
<1>4. 1 + 1 = 2 /\ 1 + 2 = 3
  OBVIOUS
<1>5. Shape(Option(Word(8)), RoundUp(8 + 8, 8), 8, 1 + 1)
  BY <1>3
<1>6. Shape(Option(Word(4)), RoundUp(4 + 4, 4), 4, 1 + 1)
  BY <1>3
<1>7. Shape(Option(Word(2)), RoundUp(2 + 2, 2), 2, 1 + 1)
  BY <1>3
<1>8. Shape(Option(Word(1)), RoundUp(1 + 1, 1), 1, 1 + 1)
  BY <1>3
<1> QED BY <1>1, <1>2, <1>4, <1>5, <1>6, <1>7, <1>8 DEF Handle

\* stream-error and header-error.
LEMMA Errors ==
  /\ Shape(StreamError, 8, 4, 2) /\ PayloadAt(<<Handle, Unit>>) = 4
  /\ Shape(HeaderError, 1, 1, 1) /\ PayloadAt(<<Unit, Unit, Unit>>) = 1
<1>1. RoundUp(4 + 4, 4) = 8 /\ RoundUp(1 + 0, 1) = 1 /\ 1 + 1 = 2 /\ 1 + 0 = 1
  BY DEF RoundUp
<1>2. Shape(Handle, 4, 4, 1) /\ Shape(Unit, 0, 1, 0)
  BY Shapes
<1>3. /\ Shape(Result(Handle, Unit), RoundUp(4 + 4, 4), 4, 1 + 1)
      /\ PayloadAt(<<Handle, Unit>>) = 4
  BY <1>2, ResultsOf
<1> DEFINE ts == <<Unit, Unit, Unit>>
<1>4. DOMAIN ts = 1 .. 3 /\ \A i \in DOMAIN ts : ts[i] = Unit
  OBVIOUS
<1> HIDE DEF ts
<1>5. /\ \A i \in DOMAIN ts :
           /\ WellFormed(ts[i]) /\ Unambiguous(ts[i])
           /\ ts[i].align <= 1 /\ ts[i].size <= 0 /\ ts[i].slots <= 0
      /\ \E i \in DOMAIN ts : ts[i].align = 1
      /\ \E i \in DOMAIN ts : ts[i].size = 0
      /\ \E i \in DOMAIN ts : ts[i].slots = 0
  BY <1>4, Units
<1>6. Shape(Variant(ts), RoundUp(1 + 0, 1), 1, 1 + 0) /\ PayloadAt(ts) = 1
  BY <1>4, <1>5, VariantsOf
<1> QED BY <1>1, <1>3, <1>6 DEF ts, StreamError, HeaderError, Result

\* The records inside error-code.
LEMMA Payloads ==
  /\ Shape(DnsErrorPayload, 16, 4, 5)
  /\ Shape(TlsAlertReceivedPayload, 16, 4, 5)
  /\ Shape(FieldSizePayload, 20, 4, 5)
  /\ Shape(Option(FieldSizePayload), 24, 4, 6)
<1>1. /\ RoundUp(12, 2) = 12 /\ RoundUp(12 + 4, 4) = 16 /\ RoundUp(2, 4) = 4
      /\ RoundUp(4 + 12, 4) = 16 /\ RoundUp(12, 4) = 12 /\ RoundUp(12 + 8, 4) = 20
      /\ RoundUp(4 + 20, 4) = 24
  BY DEF RoundUp
<1>2. /\ Shape(Option(Text), 12, 4, 3) /\ Shape(Option(Word(1)), 2, 1, 2)
      /\ Shape(Option(Word(2)), 4, 2, 2) /\ Shape(Option(Word(4)), 8, 4, 2)
  BY Options
<1>3. /\ Max({4, 2}) = 4 /\ Max({1, 4}) = 4 /\ Max({4, 4}) = 4
  BY MaxIs
<1>4. Shape(DnsErrorPayload, 16, 4, 5)
  BY <1>1, <1>2, <1>3, PairsOf DEF Shape, DnsErrorPayload
<1>5. Shape(TlsAlertReceivedPayload, 16, 4, 5)
  BY <1>1, <1>2, <1>3, PairsOf DEF Shape, TlsAlertReceivedPayload
<1>6. Shape(FieldSizePayload, 20, 4, 5)
  BY <1>1, <1>2, <1>3, PairsOf DEF Shape, FieldSizePayload
<1>7. Shape(Option(FieldSizePayload), RoundUp(4 + 20, 4), 4, 1 + 5)
  BY <1>6, OptionsOf
<1>8. 1 + 5 = 6
  OBVIOUS
<1> QED BY <1>1, <1>4, <1>5, <1>6, <1>7, <1>8

\* method.
LEMMA MethodShape ==
  Shape(Method, 12, 4, 3) /\ PayloadAt(MethodCases) = 4 /\ DOMAIN MethodCases = 1 .. 10
<1> DEFINE ts == MethodCases
<1>1. DOMAIN ts = 1 .. 10 /\ ts[10] = Text /\ \A i \in 1 .. 10 : ts[i] \in {Text, Unit}
  BY DEF MethodCases, MethodOther
<1> HIDE DEF ts
<1>2. \A i \in DOMAIN ts :
        /\ WellFormed(ts[i]) /\ Unambiguous(ts[i])
        /\ ts[i].align <= 4 /\ ts[i].size <= 8 /\ ts[i].slots <= 2
  BY <1>1, Units, TextsAre
<1>3. /\ \E i \in DOMAIN ts : ts[i].align = 4
      /\ \E i \in DOMAIN ts : ts[i].size = 8
      /\ \E i \in DOMAIN ts : ts[i].slots = 2
  BY <1>1, TextsAre
<1>4. Shape(Variant(ts), RoundUp(4 + 8, 4), 4, 1 + 2) /\ PayloadAt(ts) = 4
  BY <1>1, <1>2, <1>3, VariantsOf
<1>5. RoundUp(4 + 8, 4) = 12 /\ 1 + 2 = 3
  BY DEF RoundUp
<1> QED BY <1>1, <1>4, <1>5 DEF ts, Method

\* scheme and option<scheme>.
LEMMA SchemeShape ==
  /\ Shape(Scheme, 12, 4, 3) /\ PayloadAt(SchemeCases) = 4
  /\ DOMAIN SchemeCases = 1 .. 3
  /\ Shape(Option(Scheme), 16, 4, 4)
<1> DEFINE ts == SchemeCases
<1>1. DOMAIN ts = 1 .. 3 /\ ts[3] = Text /\ \A i \in 1 .. 3 : ts[i] \in {Text, Unit}
  BY DEF SchemeCases
<1> HIDE DEF ts
<1>2. \A i \in DOMAIN ts :
        /\ WellFormed(ts[i]) /\ Unambiguous(ts[i])
        /\ ts[i].align <= 4 /\ ts[i].size <= 8 /\ ts[i].slots <= 2
  BY <1>1, Units, TextsAre
<1>3. /\ \E i \in DOMAIN ts : ts[i].align = 4
      /\ \E i \in DOMAIN ts : ts[i].size = 8
      /\ \E i \in DOMAIN ts : ts[i].slots = 2
  BY <1>1, TextsAre
<1>4. Shape(Variant(ts), RoundUp(4 + 8, 4), 4, 1 + 2) /\ PayloadAt(ts) = 4
  BY <1>1, <1>2, <1>3, VariantsOf
<1>5. /\ RoundUp(4 + 8, 4) = 12 /\ 1 + 2 = 3
      /\ RoundUp(4 + 12, 4) = 16 /\ 1 + 3 = 4
  BY DEF RoundUp
<1>6. Shape(Scheme, 12, 4, 3)
  BY <1>4, <1>5 DEF ts, Scheme
<1>7. Shape(Option(Scheme), RoundUp(4 + 12, 4), 4, 1 + 3)
  BY <1>6, OptionsOf
<1> QED BY <1>1, <1>4, <1>5, <1>6, <1>7 DEF ts

\* The payloads of error-code.
LEMMA ErrorPayloads ==
  ASSUME NEW t \in 0 .. 38
  PROVE  /\ t = 1 => ErrorPayload(t) = DnsErrorPayload
         /\ t = 14 => ErrorPayload(t) = TlsAlertReceivedPayload
         /\ t \in {17, 28} => ErrorPayload(t) = Option(Word(8))
         /\ t \in {21, 23, 26, 29} => ErrorPayload(t) = Option(Word(4))
         /\ t = 22 => ErrorPayload(t) = Option(FieldSizePayload)
         /\ t \in {24, 27, 30} => ErrorPayload(t) = FieldSizePayload
         /\ t \in {31, 32, 38} => ErrorPayload(t) = Option(Text)
         /\ t \notin {1, 14, 17, 28, 21, 23, 26, 29, 22, 24, 27, 30, 31, 32, 38} =>
              ErrorPayload(t) = Unit
BY DEF ErrorPayload

\* error-code: 39 cases behind a tag, and 8 bytes ahead of each payload.
LEMMA ErrorCodes ==
  /\ Shape(ErrorCode, 32, 8, 7) /\ PayloadAt(ErrorCases) = 8
  /\ DOMAIN ErrorCases = 1 .. 39
  /\ \A i \in 1 .. 39 :
       ErrorCases[i] = ErrorPayload(i - 1) /\ WellFormed(ErrorCases[i])
<1> DEFINE ts == ErrorCases
<1>1. DOMAIN ts = 1 .. 39 /\ \A i \in 1 .. 39 : ts[i] = ErrorPayload(i - 1)
  BY DEF ErrorCases
<1> HIDE DEF ts
<1>2. ASSUME NEW t \in 0 .. 38
      PROVE  LET T == ErrorPayload(t)
             IN  /\ WellFormed(T) /\ Unambiguous(T)
                 /\ T.align <= 8 /\ T.size <= 24 /\ T.slots <= 6
  <2> DEFINE T == ErrorPayload(t)
  <2>1. \/ T \in {DnsErrorPayload, TlsAlertReceivedPayload}
        \/ T \in {Option(Word(8)), Option(Word(4)), Option(Text)}
        \/ T \in {Option(FieldSizePayload), FieldSizePayload}
        \/ T = Unit
    BY ErrorPayloads
  <2> HIDE DEF T
  <2>2. CASE T = Unit
    BY <2>2, Units DEF T
  <2>3. CASE T \in {Option(Word(8)), Option(Word(4)), Option(Text)}
    BY <2>3, Options DEF Shape, T
  <2>4. CASE T \in {DnsErrorPayload, TlsAlertReceivedPayload,
                    Option(FieldSizePayload), FieldSizePayload}
    BY <2>4, Payloads DEF Shape, T
  <2> QED BY <2>1, <2>2, <2>3, <2>4
<1>3. \A i \in DOMAIN ts :
        /\ WellFormed(ts[i]) /\ Unambiguous(ts[i])
        /\ ts[i].align <= 8 /\ ts[i].size <= 24 /\ ts[i].slots <= 6
  BY <1>1, <1>2
<1>4. ts[18] = Option(Word(8)) /\ ts[23] = Option(FieldSizePayload)
  BY <1>1, ErrorPayloads
<1>5. /\ \E i \in DOMAIN ts : ts[i].align = 8
      /\ \E i \in DOMAIN ts : ts[i].size = 24
      /\ \E i \in DOMAIN ts : ts[i].slots = 6
  BY <1>1, <1>4, Options, Payloads DEF Shape
<1>6. Shape(Variant(ts), RoundUp(8 + 24, 8), 8, 1 + 6) /\ PayloadAt(ts) = 8
  <2>1. PICK a \in {1, 2, 4, 8}, z \in Nat, k \in Nat, n \in Nat :
           a = 8 /\ z = 24 /\ k = 6 /\ n = 39
    OBVIOUS
  <2>2. DOMAIN ts = 1 .. n
    BY <1>1, <2>1
  <2>3. \A i \in DOMAIN ts :
          /\ WellFormed(ts[i]) /\ Unambiguous(ts[i])
          /\ ts[i].align <= a /\ ts[i].size <= z /\ ts[i].slots <= k
    BY <1>3, <2>1
  <2>4. /\ \E i \in DOMAIN ts : ts[i].align = a
        /\ \E i \in DOMAIN ts : ts[i].size = z
        /\ \E i \in DOMAIN ts : ts[i].slots = k
    BY <1>5, <2>1
  <2>5. Shape(Variant(ts), RoundUp(a + z, a), a, 1 + k) /\ PayloadAt(ts) = a
    BY <2>2, <2>3, <2>4, VariantsOf
  <2> QED BY <2>1, <2>5
<1>7. RoundUp(8 + 24, 8) = 32 /\ 1 + 6 = 7
  BY DEF RoundUp
<1> QED BY <1>1, <1>3, <1>6, <1>7 DEF ts, ErrorCode

TrailersResult == Result(Option(Handle), ErrorCode)
ResponseResult == Result(Handle, ErrorCode)

\* The results that the imports return, and where their payloads begin.
LEMMA Results ==
  /\ Shape(Result(Text, StreamError), 12, 4, 3)
  /\ PayloadAt(<<Text, StreamError>>) = 4
  /\ Shape(Result(Word(8), StreamError), 16, 8, 3)
  /\ PayloadAt(<<Word(8), StreamError>>) = 8
  /\ Shape(Result(Unit, StreamError), 12, 4, 3)
  /\ PayloadAt(<<Unit, StreamError>>) = 4
  /\ Shape(Result(Unit, HeaderError), 2, 1, 2)
  /\ PayloadAt(<<Unit, HeaderError>>) = 1
  /\ Shape(Result(Handle, Unit), 8, 4, 2)
  /\ PayloadAt(<<Handle, Unit>>) = 4
  /\ Shape(Result(Handle, HeaderError), 8, 4, 2)
  /\ PayloadAt(<<Handle, HeaderError>>) = 4
  /\ Shape(Result(Unit, ErrorCode), 40, 8, 8)
  /\ PayloadAt(<<Unit, ErrorCode>>) = 8
  /\ Shape(Result(Handle, ErrorCode), 40, 8, 8)
  /\ PayloadAt(<<Handle, ErrorCode>>) = 8
  /\ Shape(Result(Option(Handle), ErrorCode), 40, 8, 8)
  /\ PayloadAt(<<Option(Handle), ErrorCode>>) = 8
  /\ Shape(Result(TrailersResult, Unit), 48, 8, 9)
  /\ PayloadAt(<<TrailersResult, Unit>>) = 8
  /\ Shape(Result(ResponseResult, Unit), 48, 8, 9)
  /\ PayloadAt(<<ResponseResult, Unit>>) = 8
<1>1. /\ Shape(Unit, 0, 1, 0) /\ Shape(Text, 8, 4, 2) /\ Shape(Handle, 4, 4, 1)
      /\ Shape(Word(8), 8, 8, 1) /\ Shape(Option(Handle), 8, 4, 2)
      /\ Shape(StreamError, 8, 4, 2) /\ Shape(HeaderError, 1, 1, 1)
      /\ Shape(ErrorCode, 32, 8, 7)
  BY Shapes, Options, Errors, ErrorCodes
<1>2. /\ Shape(Result(Text, StreamError), 12, 4, 3)
      /\ PayloadAt(<<Text, StreamError>>) = 4
  <2>1. RoundUp(4 + 8, 4) = 12 /\ 1 + 2 = 3
    BY DEF RoundUp
  <2>3. /\ Shape(Result(Text, StreamError), RoundUp(4 + 8, 4), 4, 1 + 2)
        /\ PayloadAt(<<Text, StreamError>>) = 4
    BY <1>1, ResultsOf
  <2> QED BY <2>1, <2>3
<1>3. /\ Shape(Result(Word(8), StreamError), 16, 8, 3)
      /\ PayloadAt(<<Word(8), StreamError>>) = 8
  <2>1. RoundUp(8 + 8, 8) = 16 /\ 1 + 2 = 3
    BY DEF RoundUp
  <2>3. /\ Shape(Result(Word(8), StreamError), RoundUp(8 + 8, 8), 8, 1 + 2)
        /\ PayloadAt(<<Word(8), StreamError>>) = 8
    BY <1>1, ResultsOf
  <2> QED BY <2>1, <2>3
<1>4. /\ Shape(Result(Unit, StreamError), 12, 4, 3)
      /\ PayloadAt(<<Unit, StreamError>>) = 4
  <2>1. RoundUp(4 + 8, 4) = 12 /\ 1 + 2 = 3
    BY DEF RoundUp
  <2>3. /\ Shape(Result(Unit, StreamError), RoundUp(4 + 8, 4), 4, 1 + 2)
        /\ PayloadAt(<<Unit, StreamError>>) = 4
    BY <1>1, ResultsOf
  <2> QED BY <2>1, <2>3
<1>5. /\ Shape(Result(Unit, HeaderError), 2, 1, 2)
      /\ PayloadAt(<<Unit, HeaderError>>) = 1
  <2>1. RoundUp(1 + 1, 1) = 2 /\ 1 + 1 = 2
    BY DEF RoundUp
  <2>3. /\ Shape(Result(Unit, HeaderError), RoundUp(1 + 1, 1), 1, 1 + 1)
        /\ PayloadAt(<<Unit, HeaderError>>) = 1
    BY <1>1, ResultsOf
  <2> QED BY <2>1, <2>3
<1>6. /\ Shape(Result(Handle, Unit), 8, 4, 2)
      /\ PayloadAt(<<Handle, Unit>>) = 4
  <2>1. RoundUp(4 + 4, 4) = 8 /\ 1 + 1 = 2
    BY DEF RoundUp
  <2>3. /\ Shape(Result(Handle, Unit), RoundUp(4 + 4, 4), 4, 1 + 1)
        /\ PayloadAt(<<Handle, Unit>>) = 4
    BY <1>1, ResultsOf
  <2> QED BY <2>1, <2>3
<1>7. /\ Shape(Result(Handle, HeaderError), 8, 4, 2)
      /\ PayloadAt(<<Handle, HeaderError>>) = 4
  <2>1. RoundUp(4 + 4, 4) = 8 /\ 1 + 1 = 2
    BY DEF RoundUp
  <2>3. /\ Shape(Result(Handle, HeaderError), RoundUp(4 + 4, 4), 4, 1 + 1)
        /\ PayloadAt(<<Handle, HeaderError>>) = 4
    BY <1>1, ResultsOf
  <2> QED BY <2>1, <2>3
<1>8. /\ Shape(Result(Unit, ErrorCode), 40, 8, 8)
      /\ PayloadAt(<<Unit, ErrorCode>>) = 8
  <2>1. RoundUp(8 + 32, 8) = 40 /\ 1 + 7 = 8
    BY DEF RoundUp
  <2>3. /\ Shape(Result(Unit, ErrorCode), RoundUp(8 + 32, 8), 8, 1 + 7)
        /\ PayloadAt(<<Unit, ErrorCode>>) = 8
    BY <1>1, ResultsOf
  <2> QED BY <2>1, <2>3
<1>9. /\ Shape(Result(Handle, ErrorCode), 40, 8, 8)
      /\ PayloadAt(<<Handle, ErrorCode>>) = 8
  <2>1. RoundUp(8 + 32, 8) = 40 /\ 1 + 7 = 8
    BY DEF RoundUp
  <2>3. /\ Shape(Result(Handle, ErrorCode), RoundUp(8 + 32, 8), 8, 1 + 7)
        /\ PayloadAt(<<Handle, ErrorCode>>) = 8
    BY <1>1, ResultsOf
  <2> QED BY <2>1, <2>3
<1>10. /\ Shape(Result(Option(Handle), ErrorCode), 40, 8, 8)
      /\ PayloadAt(<<Option(Handle), ErrorCode>>) = 8
  <2>1. RoundUp(8 + 32, 8) = 40 /\ 1 + 7 = 8
    BY DEF RoundUp
  <2>3. /\ Shape(Result(Option(Handle), ErrorCode), RoundUp(8 + 32, 8), 8, 1 + 7)
        /\ PayloadAt(<<Option(Handle), ErrorCode>>) = 8
    BY <1>1, ResultsOf
  <2> QED BY <2>1, <2>3
<1>11. /\ Shape(Result(TrailersResult, Unit), 48, 8, 9)
      /\ PayloadAt(<<TrailersResult, Unit>>) = 8
  <2>1. RoundUp(8 + 40, 8) = 48 /\ 1 + 8 = 9
    BY DEF RoundUp
  <2>2. Shape(TrailersResult, 40, 8, 8)
    BY <1>10 DEF TrailersResult
  <2>3. /\ Shape(Result(TrailersResult, Unit), RoundUp(8 + 40, 8), 8, 1 + 8)
        /\ PayloadAt(<<TrailersResult, Unit>>) = 8
    BY <1>1, <2>2, ResultsOf
  <2> QED BY <2>1, <2>3
<1>12. /\ Shape(Result(ResponseResult, Unit), 48, 8, 9)
      /\ PayloadAt(<<ResponseResult, Unit>>) = 8
  <2>1. RoundUp(8 + 40, 8) = 48 /\ 1 + 8 = 9
    BY DEF RoundUp
  <2>2. Shape(ResponseResult, 40, 8, 8)
    BY <1>9 DEF ResponseResult
  <2>3. /\ Shape(Result(ResponseResult, Unit), RoundUp(8 + 40, 8), 8, 1 + 8)
        /\ PayloadAt(<<ResponseResult, Unit>>) = 8
    BY <1>1, <2>2, ResultsOf
  <2> QED BY <2>1, <2>3
<1> QED BY <1>2, <1>3, <1>4, <1>5, <1>6, <1>7, <1>8, <1>9, <1>10, <1>11, <1>12

\* The options around error-code and around results.
LEMMA OuterOptions ==
  /\ Shape(Option(ErrorCode), 40, 8, 8)
  /\ Shape(Option(Result(TrailersResult, Unit)), 56, 8, 10)
  /\ Shape(Option(Result(ResponseResult, Unit)), 56, 8, 10)
  /\ PayloadAt(<<Unit, ErrorCode>>) = 8
  /\ PayloadAt(<<Unit, Result(TrailersResult, Unit)>>) = 8
  /\ PayloadAt(<<Unit, Result(ResponseResult, Unit)>>) = 8
<1>1. RoundUp(8 + 32, 8) = 40 /\ RoundUp(8 + 48, 8) = 56 /\ 1 + 7 = 8 /\ 1 + 9 = 10
  BY DEF RoundUp
<1>2. /\ Shape(Option(ErrorCode), RoundUp(8 + 32, 8), 8, 1 + 7)
      /\ PayloadAt(<<Unit, ErrorCode>>) = 8
  <2>1. Shape(ErrorCode, 32, 8, 7)
    BY ErrorCodes
  <2> QED BY <2>1, OptionsOf
<1>3. /\ Shape(Option(Result(TrailersResult, Unit)), RoundUp(8 + 48, 8), 8, 1 + 9)
      /\ PayloadAt(<<Unit, Result(TrailersResult, Unit)>>) = 8
  <2>1. Shape(Result(TrailersResult, Unit), 48, 8, 9)
    BY Results
  <2> QED BY <2>1, OptionsOf
<1>4. /\ Shape(Option(Result(ResponseResult, Unit)), RoundUp(8 + 48, 8), 8, 1 + 9)
      /\ PayloadAt(<<Unit, Result(ResponseResult, Unit)>>) = 8
  <2>1. Shape(Result(ResponseResult, Unit), 48, 8, 9)
    BY Results
  <2> QED BY <2>1, OptionsOf
<1> QED BY <1>1, <1>2, <1>3, <1>4

------------------------------------------------------------------------------
(* Lifting                                                                   *)

\* The byte at p of a variant is its tag, and its payload lies behind it.
LEMMA VariantRead ==
  ASSUME NEW ts, NEW n \in Nat, DOMAIN ts = 1 .. n,
         \A i \in DOMAIN ts : WellFormed(ts[i]),
         NEW d \in {1, 2, 4, 8}, PayloadAt(ts) = d,
         NEW v \in Values(Variant(ts)),
         NEW a, NEW p \in Nat, Holds(a, p, Variant(ts).mem[v])
  PROVE  /\ At(a, p, 1).n = v.tag
         /\ Holds(a, p + d, ts[v.tag + 1].mem[v.val])
<1> DEFINE m1 == Cell(1, Tag(v.tag))
           m2 == ts[v.tag + 1].mem[v.val]
<1>1. /\ v.tag + 1 \in DOMAIN ts /\ v.val \in Values(ts[v.tag + 1])
      /\ Variant(ts).mem[v] = Beside(m1, Shifted(m2, d))
  BY VariantParts
<1>2. DOMAIN m1 \subseteq 0 .. d - 1
  BY DEF Cell
<1>3. DOMAIN m2 \subseteq Nat
  BY <1>1 DEF WellFormed
<1> HIDE DEF m1, m2
<1>4. Holds(a, p, m1) /\ Holds(a, p + d, m2)
  BY <1>1, <1>2, <1>3, HoldsParts
<1>5. At(a, p, 1) = Tag(v.tag)
  BY <1>4, HoldsCell DEF m1
<1> QED BY <1>4, <1>5 DEF m2, Tag

\* The same of a result, whose cases are two.
LEMMA ResultRead ==
  ASSUME NEW T, NEW E, WellFormed(T), WellFormed(E),
         NEW d \in {1, 2, 4, 8}, PayloadAt(<<T, E>>) = d,
         NEW v \in Values(Result(T, E)),
         NEW a, NEW p \in Nat, Holds(a, p, Result(T, E).mem[v])
  PROVE  /\ v.tag \in {0, 1} /\ v = Case(v.tag, v.val)
         /\ At(a, p, 1).n = v.tag
         /\ v.tag = 0 => v.val \in Values(T) /\ Holds(a, p + d, T.mem[v.val])
         /\ v.tag = 1 => v.val \in Values(E) /\ Holds(a, p + d, E.mem[v.val])
         /\ \A x, y : (v.tag = 0 => x = v.val) /\ (v.tag = 1 => y = v.val)
                       => ResultAt(a, p, x, y) = v
<1> DEFINE ts == <<T, E>>
<1>1. DOMAIN ts = 1 .. 2 /\ ts[1] = T /\ ts[2] = E
  OBVIOUS
<1>2. \A i \in DOMAIN ts : WellFormed(ts[i])
  BY <1>1
<1>3. PayloadAt(ts) = d
  OBVIOUS
<1>4. v \in Values(Variant(ts)) /\ Holds(a, p, Variant(ts).mem[v])
  BY DEF Result
<1> HIDE DEF ts
<1>5. /\ v.tag \in 0 .. 2 - 1 /\ v.val \in Values(ts[v.tag + 1])
      /\ v = Case(v.tag, v.val)
  BY <1>1, <1>4, VariantParts
<1>6. At(a, p, 1).n = v.tag /\ Holds(a, p + d, ts[v.tag + 1].mem[v.val])
  <2>1. DOMAIN ts = 1 .. 2 /\ d \in {1, 2, 4, 8}
    BY <1>1
  <2> QED BY <1>2, <1>3, <1>4, <2>1, VariantRead
<1>7. \A x, y : ResultAt(a, p, x, y)
                  = Case(v.tag, IF v.tag = 0 THEN x ELSE y)
  BY <1>5, <1>6 DEF ResultAt, Switch
<1> QED BY <1>1, <1>5, <1>6, <1>7

\* The same of an option; OptionAt lifts it when its payload is lifted.
LEMMA OptionRead ==
  ASSUME NEW T, NEW z, NEW d, NEW k, Shape(T, z, d, k),
         NEW v \in Values(Option(T)),
         NEW a, NEW p \in Nat, Holds(a, p, Option(T).mem[v])
  PROVE  /\ v.tag \in {0, 1} /\ v = Case(v.tag, v.val)
         /\ v.tag = 0 => v.val = Nothing
         /\ v.tag = 1 => v.val \in Values(T) /\ Holds(a, p + d, T.mem[v.val])
         /\ \A x : (v.tag = 1 => x = v.val) => OptionAt(a, p, x) = v
<1>1. Option(T) = Result(Unit, T)
  BY DEF Option, Result
<1>2. PayloadAt(<<Unit, T>>) = d /\ d \in {1, 2, 4, 8}
  BY OptionsOf DEF Shape, WellFormed
<1>3. WellFormed(Unit) /\ WellFormed(T)
  BY Units DEF Shape
<1>4. v \in Values(Result(Unit, T)) /\ Holds(a, p, Result(Unit, T).mem[v])
  BY <1>1
<1>5. /\ v.tag \in {0, 1} /\ v = Case(v.tag, v.val)
      /\ At(a, p, 1).n = v.tag
      /\ v.tag = 0 => v.val \in Values(Unit)
      /\ v.tag = 1 => v.val \in Values(T) /\ Holds(a, p + d, T.mem[v.val])
  BY <1>2, <1>3, <1>4, ResultRead
<1>6. v.tag = 0 => v.val = Nothing
  BY <1>5, Units
<1>7. \A x : (v.tag = 1 => x = v.val) => OptionAt(a, p, x) = v
  BY <1>5, <1>6 DEF OptionAt, Switch
<1> QED BY <1>5, <1>6, <1>7

\* A text is lifted from its two words.
LEMMA TextRead ==
  ASSUME NEW v \in Values(Text), NEW a, NEW p \in Nat, Holds(a, p, Text.mem[v])
  PROVE  TextAt(a, p, p + 4) = v
<1> DEFINE m1 == Cell(4, v.ptr)
           m2 == Cell(4, v.len)
<1>1. /\ Text.mem[v] = Beside(m1, Shifted(m2, 4))
      /\ v = [k |-> "text", ptr |-> v.ptr, len |-> v.len]
  BY TextShape, TextsAre
<1>2. DOMAIN m1 = {0} /\ DOMAIN m2 = {0}
  BY DEF Cell
<1> HIDE DEF m1, m2
<1>3. Holds(a, p, m1) /\ Holds(a, p + 4, m2)
  BY <1>1, <1>2, HoldsParts
<1>4. At(a, p, 4) = v.ptr /\ At(a, p + 4, 4) = v.len
  BY <1>3, HoldsCell DEF m1, m2
<1> QED BY <1>1, <1>4 DEF TextAt

\* A word is lifted by reading it at its width.
LEMMA WordRead ==
  ASSUME NEW w \in {1, 2, 4, 8}, NEW v \in Values(Word(w)),
         NEW a, NEW p \in Nat, Holds(a, p, Word(w).mem[v])
  PROVE  At(a, p, w) = v
<1>1. Word(w).mem[v] = Cell(w, v)
  BY DEF Word, Values
<1> QED BY <1>1, HoldsCell

\* The fields of a record lie one behind the other.
LEMMA PairRead ==
  ASSUME NEW S, NEW T, WellFormed(S), WellFormed(T),
         NEW d \in Nat, RoundUp(S.size, T.align) = d,
         NEW v \in Values(Pair(S, T)),
         NEW a, NEW p \in Nat, Holds(a, p, Pair(S, T).mem[v])
  PROVE  /\ v = Fields(<<v.vs[1], v.vs[2]>>)
         /\ v.vs[1] \in Values(S) /\ Holds(a, p, S.mem[v.vs[1]])
         /\ v.vs[2] \in Values(T) /\ Holds(a, p + d, T.mem[v.vs[2]])
<1> DEFINE m1 == S.mem[v.vs[1]]
           m2 == T.mem[v.vs[2]]
<1>1. /\ v.vs[1] \in Values(S) /\ v.vs[2] \in Values(T)
      /\ v = Fields(<<v.vs[1], v.vs[2]>>)
      /\ Pair(S, T).mem[v] = Beside(m1, Shifted(m2, d))
  BY PairParts
<1>2. \A q \in DOMAIN m1 : q \in Nat /\ m1[q].w \in Nat \ {0}
                            /\ q + m1[q].w <= S.size
  BY <1>1 DEF WellFormed
<1>3. DOMAIN m2 \subseteq Nat
  BY <1>1 DEF WellFormed
<1>4. S.size \in Nat /\ S.size <= d
  BY RoundUpFacts DEF WellFormed
<1> HIDE DEF m1, m2
<1>5. DOMAIN m1 \subseteq 0 .. d - 1
  <2> SUFFICES ASSUME NEW q \in DOMAIN m1 PROVE q \in 0 .. d - 1
    OBVIOUS
  <2> DEFINE w == m1[q].w
  <2>1. q \in Nat /\ w \in Nat \ {0} /\ q + w <= S.size
    BY <1>2
  <2> HIDE DEF w
  <2> QED BY <1>4, <2>1
<1>6. Holds(a, p, m1) /\ Holds(a, p + d, m2)
  BY <1>1, <1>3, <1>5, HoldsParts
<1> QED BY <1>1, <1>6 DEF m1, m2

\* option<string>, wherever it lies.
LEMMA OptionTextRead ==
  ASSUME NEW v \in Values(Option(Text)),
         NEW a, NEW p \in Nat, Holds(a, p, Option(Text).mem[v])
  PROVE  OptionTextAt(a, p) = v
<1>1. Shape(Text, 8, 4, 2)
  BY Shapes
<1>2. /\ v.tag = 1 => v.val \in Values(Text) /\ Holds(a, p + 4, Text.mem[v.val])
      /\ \A x : (v.tag = 1 => x = v.val) => OptionAt(a, p, x) = v
  BY <1>1, OptionRead
<1>3. p + 4 \in Nat /\ (p + 4) + 4 = p + 8
  OBVIOUS
<1>4. v.tag = 1 => TextAt(a, p + 4, p + 8) = v.val
  BY <1>2, <1>3, TextRead
<1> QED BY <1>2, <1>4 DEF OptionTextAt

\* option<u8> to option<u64>, wherever it lies.
LEMMA OptionWordRead ==
  ASSUME NEW w \in {1, 2, 4, 8}, NEW v \in Values(Option(Word(w))),
         NEW a, NEW p \in Nat, Holds(a, p, Option(Word(w)).mem[v])
  PROVE  OptionAt(a, p, At(a, p + w, w)) = v
<1>1. Shape(Word(w), w, w, 1)
  BY Shapes
<1>2. /\ v.tag = 1 => v.val \in Values(Word(w)) /\ Holds(a, p + w, Word(w).mem[v.val])
      /\ \A x : (v.tag = 1 => x = v.val) => OptionAt(a, p, x) = v
  BY <1>1, OptionRead
<1>3. p + w \in Nat
  OBVIOUS
<1>4. v.tag = 1 => At(a, p + w, w) = v.val
  BY <1>2, <1>3, WordRead
<1> QED BY <1>2, <1>4

\* option<u64> as OptionU64At reads it.
LEMMA OptionU64Read ==
  ASSUME NEW v \in Values(Option(Word(8))),
         NEW a, NEW p \in Nat, Holds(a, p, Option(Word(8)).mem[v])
  PROVE  OptionU64At(a, p) = v
BY OptionWordRead DEF OptionU64At

\* option<u32> as OptionU32At reads it.
LEMMA OptionU32Read ==
  ASSUME NEW v \in Values(Option(Word(4))),
         NEW a, NEW p \in Nat, Holds(a, p, Option(Word(4)).mem[v])
  PROVE  OptionU32At(a, p) = v
BY OptionWordRead DEF OptionU32At

\* The three records of an optional string and an optional integer.
LEMMA DnsErrorRead ==
  ASSUME NEW v \in Values(DnsErrorPayload),
         NEW a, NEW p \in Nat, Holds(a, p, DnsErrorPayload.mem[v])
  PROVE  DnsErrorAt(a, p) = v
<1> DEFINE S == Option(Text)
           T == Option(Word(2))
<1>1. Shape(S, 12, 4, 3) /\ Shape(T, 4, 2, 2)
  BY Options
<1>2. RoundUp(12, 2) = 12
  BY DEF RoundUp
<1>3. RoundUp(S.size, T.align) = 12 /\ WellFormed(S) /\ WellFormed(T)
  BY <1>1, <1>2 DEF Shape
<1>4. v \in Values(Pair(S, T)) /\ Holds(a, p, Pair(S, T).mem[v])
  BY DEF DnsErrorPayload
<1> HIDE DEF S, T
<1>5. /\ v = Fields(<<v.vs[1], v.vs[2]>>)
      /\ v.vs[1] \in Values(S) /\ Holds(a, p, S.mem[v.vs[1]])
      /\ v.vs[2] \in Values(T) /\ Holds(a, p + 12, T.mem[v.vs[2]])
  BY <1>3, <1>4, PairRead
<1>6. OptionTextAt(a, p) = v.vs[1]
  BY <1>5, OptionTextRead DEF S
<1>7. p + 12 \in Nat /\ (p + 12) + 2 = p + 14
  OBVIOUS
<1>8. OptionAt(a, p + 12, At(a, p + 14, 2)) = v.vs[2]
  BY <1>5, <1>7, OptionWordRead DEF T
<1> QED BY <1>5, <1>6, <1>8 DEF DnsErrorAt

\* TLS-alert-received-payload.
LEMMA TlsAlertRead ==
  ASSUME NEW v \in Values(TlsAlertReceivedPayload),
         NEW a, NEW p \in Nat, Holds(a, p, TlsAlertReceivedPayload.mem[v])
  PROVE  TlsAlertAt(a, p) = v
<1> DEFINE S == Option(Word(1))
           T == Option(Text)
<1>1. Shape(S, 2, 1, 2) /\ Shape(T, 12, 4, 3)
  BY Options
<1>2. RoundUp(2, 4) = 4
  BY DEF RoundUp
<1>3. RoundUp(S.size, T.align) = 4 /\ WellFormed(S) /\ WellFormed(T)
  BY <1>1, <1>2 DEF Shape
<1>4. v \in Values(Pair(S, T)) /\ Holds(a, p, Pair(S, T).mem[v])
  BY DEF TlsAlertReceivedPayload
<1> HIDE DEF S, T
<1>5. /\ v = Fields(<<v.vs[1], v.vs[2]>>)
      /\ v.vs[1] \in Values(S) /\ Holds(a, p, S.mem[v.vs[1]])
      /\ v.vs[2] \in Values(T) /\ Holds(a, p + 4, T.mem[v.vs[2]])
  BY <1>3, <1>4, PairRead
<1>6. OptionAt(a, p, At(a, p + 1, 1)) = v.vs[1]
  BY <1>5, OptionWordRead DEF S
<1>7. OptionTextAt(a, p + 4) = v.vs[2]
  BY <1>5, OptionTextRead DEF T
<1> QED BY <1>5, <1>6, <1>7 DEF TlsAlertAt

\* field-size-payload.
LEMMA FieldSizeRead ==
  ASSUME NEW v \in Values(FieldSizePayload),
         NEW a, NEW p \in Nat, Holds(a, p, FieldSizePayload.mem[v])
  PROVE  FieldSizeAt(a, p) = v
<1> DEFINE S == Option(Text)
           T == Option(Word(4))
<1>1. Shape(S, 12, 4, 3) /\ Shape(T, 8, 4, 2)
  BY Options
<1>2. RoundUp(12, 4) = 12
  BY DEF RoundUp
<1>3. RoundUp(S.size, T.align) = 12 /\ WellFormed(S) /\ WellFormed(T)
  BY <1>1, <1>2 DEF Shape
<1>4. v \in Values(Pair(S, T)) /\ Holds(a, p, Pair(S, T).mem[v])
  BY DEF FieldSizePayload
<1> HIDE DEF S, T
<1>5. /\ v = Fields(<<v.vs[1], v.vs[2]>>)
      /\ v.vs[1] \in Values(S) /\ Holds(a, p, S.mem[v.vs[1]])
      /\ v.vs[2] \in Values(T) /\ Holds(a, p + 12, T.mem[v.vs[2]])
  BY <1>3, <1>4, PairRead
<1>6. OptionTextAt(a, p) = v.vs[1]
  BY <1>5, OptionTextRead DEF S
<1>7. p + 12 \in Nat /\ (p + 12) + 4 = p + 16
  OBVIOUS
<1>8. OptionAt(a, p + 12, At(a, p + 16, 4)) = v.vs[2]
  BY <1>5, <1>7, OptionWordRead DEF T
<1> QED BY <1>5, <1>6, <1>8 DEF FieldSizeAt

\* option<field-size-payload>.
LEMMA OptionFieldSizeRead ==
  ASSUME NEW v \in Values(Option(FieldSizePayload)),
         NEW a, NEW p \in Nat, Holds(a, p, Option(FieldSizePayload).mem[v])
  PROVE  OptionFieldSizeAt(a, p) = v
<1>1. Shape(FieldSizePayload, 20, 4, 5)
  BY Payloads
<1>2. /\ v.tag = 1 => /\ v.val \in Values(FieldSizePayload)
                       /\ Holds(a, p + 4, FieldSizePayload.mem[v.val])
      /\ \A x : (v.tag = 1 => x = v.val) => OptionAt(a, p, x) = v
  BY <1>1, OptionRead
<1>3. v.tag = 1 => FieldSizeAt(a, p + 4) = v.val
  BY <1>2, FieldSizeRead
<1> QED BY <1>2, <1>3 DEF OptionFieldSizeAt

\* error-code, case by case.
LEMMA ErrorCodeRead ==
  ASSUME NEW v \in Values(ErrorCode),
         NEW a, NEW p \in Nat, Holds(a, p, ErrorCode.mem[v])
  PROVE  ErrorCodeAt(a, p) = v
<1> DEFINE T == ErrorPayload(v.tag)
           t == v.tag
           q == p + 8
<1>1. /\ DOMAIN ErrorCases = 1 .. 39 /\ PayloadAt(ErrorCases) = 8
      /\ \A i \in 1 .. 39 : ErrorCases[i] = ErrorPayload(i - 1)
  BY ErrorCodes
<1>2. \A i \in 1 .. 39 : WellFormed(ErrorCases[i])
  BY ErrorCodes
<1>3. /\ t \in 0 .. 38 /\ v.val \in Values(ErrorCases[t + 1])
      /\ v = Case(t, v.val)
  <2>1. v \in Values(Variant(ErrorCases))
    BY DEF ErrorCode
  <2>2. PICK n \in Nat : n = 39 /\ DOMAIN ErrorCases = 1 .. n
    BY <1>1
  <2>3. /\ t \in 0 .. n - 1 /\ v.val \in Values(ErrorCases[t + 1])
        /\ v = Case(t, v.val)
    BY <2>1, <2>2, VariantParts
  <2> QED BY <2>2, <2>3
<1>4. At(a, p, 1).n = t /\ Holds(a, p + 8, ErrorCases[t + 1].mem[v.val])
  <2>1. v \in Values(Variant(ErrorCases)) /\ Holds(a, p, Variant(ErrorCases).mem[v])
    BY DEF ErrorCode
  <2>2. DOMAIN ErrorCases = 1 .. 39
    BY <1>1
  <2>3. PayloadAt(ErrorCases) = 8
    BY <1>1
  <2> QED BY <1>2, <2>1, <2>2, <2>3, VariantRead
<1>5. ErrorCases[t + 1] = T
  BY <1>1, <1>3
<1>6. v.val \in Values(T) /\ Holds(a, q, T.mem[v.val]) /\ q \in Nat
  BY <1>3, <1>4, <1>5
<1> HIDE DEF T, t, q
<1>7. ErrorCodeAt(a, p) = Case(t,
        CASE t = 1                  -> DnsErrorAt(a, q)
          [] t = 14                 -> TlsAlertAt(a, q)
          [] t \in {17, 28}         -> OptionU64At(a, q)
          [] t \in {21, 23, 26, 29} -> OptionU32At(a, q)
          [] t = 22                 -> OptionFieldSizeAt(a, q)
          [] t \in {24, 27, 30}     -> FieldSizeAt(a, q)
          [] t \in {31, 32, 38}     -> OptionTextAt(a, q)
          [] OTHER                  -> Nothing)
  BY <1>3, <1>4 DEF ErrorCodeAt, Switch, q
<1>8. CASE t = 1
  BY <1>3, <1>6, <1>7, <1>8, DnsErrorRead, ErrorPayloads DEF T, t
<1>9. CASE t = 14
  BY <1>3, <1>6, <1>7, <1>9, TlsAlertRead, ErrorPayloads DEF T, t
<1>10. CASE t \in {17, 28}
  BY <1>3, <1>6, <1>7, <1>10, OptionU64Read, ErrorPayloads DEF T, t
<1>11. CASE t \in {21, 23, 26, 29}
  BY <1>3, <1>6, <1>7, <1>11, OptionU32Read, ErrorPayloads DEF T, t
<1>12. CASE t = 22
  BY <1>3, <1>6, <1>7, <1>12, OptionFieldSizeRead, ErrorPayloads DEF T, t
<1>13. CASE t \in {24, 27, 30}
  BY <1>3, <1>6, <1>7, <1>13, FieldSizeRead, ErrorPayloads DEF T, t
<1>14. CASE t \in {31, 32, 38}
  BY <1>3, <1>6, <1>7, <1>14, OptionTextRead, ErrorPayloads DEF T, t
<1>15. CASE t \notin {1, 14, 17, 28, 21, 23, 26, 29, 22, 24, 27, 30, 31, 32, 38}
  BY <1>3, <1>6, <1>7, <1>15, Units, ErrorPayloads DEF T, t
<1> QED BY <1>8, <1>9, <1>10, <1>11, <1>12, <1>13, <1>14, <1>15

\* stream-error.
LEMMA StreamErrorRead ==
  ASSUME NEW v \in Values(StreamError),
         NEW a, NEW p \in Nat, Holds(a, p, StreamError.mem[v])
  PROVE  StreamErrorAt(a, p) = v
<1>1. StreamError = Result(Handle, Unit)
  BY DEF StreamError, Result
<1>2. PayloadAt(<<Handle, Unit>>) = 4 /\ WellFormed(Handle) /\ WellFormed(Unit)
  BY Errors, Shapes DEF Shape
<1>3. /\ v.tag \in {0, 1} /\ v = Case(v.tag, v.val) /\ At(a, p, 1).n = v.tag
      /\ v.tag = 0 => v.val \in Values(Handle) /\ Holds(a, p + 4, Handle.mem[v.val])
      /\ v.tag = 1 => v.val \in Values(Unit)
  BY <1>1, <1>2, ResultRead
<1>4. v.tag = 0 => At(a, p + 4, 4) = v.val
  BY <1>3, WordRead DEF Handle
<1>5. v.tag = 1 => v.val = Nothing
  BY <1>3, Units
<1> QED BY <1>3, <1>4, <1>5 DEF StreamErrorAt, Switch

\* header-error.
LEMMA HeaderErrorRead ==
  ASSUME NEW v \in Values(HeaderError),
         NEW a, NEW p \in Nat, Holds(a, p, HeaderError.mem[v])
  PROVE  HeaderErrorAt(a, p) = v
<1> DEFINE ts == <<Unit, Unit, Unit>>
<1>1. DOMAIN ts = 1 .. 3 /\ \A i \in DOMAIN ts : ts[i] = Unit
  OBVIOUS
<1>2. \A i \in DOMAIN ts : WellFormed(ts[i])
  BY <1>1, Units
<1>3. PayloadAt(ts) = 1
  BY Errors
<1>4. v \in Values(Variant(ts)) /\ Holds(a, p, Variant(ts).mem[v])
  BY DEF HeaderError
<1> HIDE DEF ts
<1>5. /\ v.tag + 1 \in DOMAIN ts /\ v.val \in Values(ts[v.tag + 1])
      /\ v = Case(v.tag, v.val)
  BY <1>1, <1>4, VariantParts
<1>6. At(a, p, 1).n = v.tag /\ Holds(a, p + 1, ts[v.tag + 1].mem[v.val])
  <2>1. DOMAIN ts = 1 .. 3
    BY <1>1
  <2> QED BY <1>2, <1>3, <1>4, <2>1, VariantRead
<1>7. v.val = Nothing
  BY <1>1, <1>5, Units
<1> QED BY <1>5, <1>6, <1>7 DEF HeaderErrorAt, Switch, NoCells

\* method.
LEMMA MethodRead ==
  ASSUME NEW v \in Values(Method), NEW a, Holds(a, 0, Method.mem[v])
  PROVE  RequestMethod(a) = v
<1>1. /\ DOMAIN MethodCases = 1 .. 10 /\ PayloadAt(MethodCases) = 4
      /\ \A i \in 1 .. 10 : MethodCases[i] = IF i = 10 THEN Text ELSE Unit
  BY MethodShape DEF MethodCases, MethodOther
<1>2. \A i \in 1 .. 10 : WellFormed(MethodCases[i])
  BY <1>1, Units, TextsAre
<1>3. v \in Values(Variant(MethodCases)) /\ Holds(a, 0, Variant(MethodCases).mem[v])
  BY DEF Method
<1>4. /\ v.tag \in 0 .. 10 - 1 /\ v.val \in Values(MethodCases[v.tag + 1])
      /\ v = Case(v.tag, v.val)
  BY <1>1, <1>3, VariantParts
<1>5. At(a, 0, 1).n = v.tag /\ Holds(a, 0 + 4, MethodCases[v.tag + 1].mem[v.val])
  <2>1. DOMAIN MethodCases = 1 .. 10
    BY <1>1
  <2>2. PayloadAt(MethodCases) = 4
    BY <1>1
  <2> QED BY <1>2, <1>3, <2>1, <2>2, VariantRead
<1>6. CASE v.tag = 9
  <2>1. v.val \in Values(Text) /\ Holds(a, 4, Text.mem[v.val])
    BY <1>1, <1>4, <1>5, <1>6
  <2>2. TextAt(a, 4, 4 + 4) = v.val
    BY <2>1, TextRead
  <2> QED BY <1>4, <1>5, <1>6, <2>2 DEF RequestMethod, Switch
<1>7. CASE v.tag # 9
  <2>1. v.val = Nothing
    BY <1>1, <1>4, <1>7, Units
  <2> QED BY <1>4, <1>5, <1>7, <2>1 DEF RequestMethod, Switch
<1> QED BY <1>6, <1>7

\* scheme.
LEMMA SchemeRead ==
  ASSUME NEW v \in Values(Scheme), NEW a, Holds(a, 4, Scheme.mem[v])
  PROVE  Switch(a, 4, [t \in {2} |-> TextAt(a, 8, 12)]) = v
<1>1. /\ DOMAIN SchemeCases = 1 .. 3 /\ PayloadAt(SchemeCases) = 4
      /\ \A i \in 1 .. 3 : SchemeCases[i] = IF i = 3 THEN Text ELSE Unit
  BY SchemeShape DEF SchemeCases
<1>2. \A i \in 1 .. 3 : WellFormed(SchemeCases[i])
  BY <1>1, Units, TextsAre
<1>3. v \in Values(Variant(SchemeCases)) /\ Holds(a, 4, Variant(SchemeCases).mem[v])
  BY DEF Scheme
<1>4. /\ v.tag \in 0 .. 3 - 1 /\ v.val \in Values(SchemeCases[v.tag + 1])
      /\ v = Case(v.tag, v.val)
  BY <1>1, <1>3, VariantParts
<1>5. At(a, 4, 1).n = v.tag /\ Holds(a, 4 + 4, SchemeCases[v.tag + 1].mem[v.val])
  <2>1. DOMAIN SchemeCases = 1 .. 3
    BY <1>1
  <2>2. PayloadAt(SchemeCases) = 4
    BY <1>1
  <2> QED BY <1>2, <1>3, <2>1, <2>2, VariantRead
<1>6. CASE v.tag = 2
  <2>1. v.val \in Values(Text) /\ Holds(a, 8, Text.mem[v.val])
    BY <1>1, <1>4, <1>5, <1>6
  <2>2. TextAt(a, 8, 8 + 4) = v.val
    BY <2>1, TextRead
  <2> QED BY <1>4, <1>5, <1>6, <2>2 DEF Switch
<1>7. CASE v.tag # 2
  <2>1. v.val = Nothing
    BY <1>1, <1>4, <1>7, Units
  <2> QED BY <1>4, <1>5, <1>7, <2>1 DEF Switch
<1> QED BY <1>6, <1>7

------------------------------------------------------------------------------
(* The wrappers, one family of imports at a time.                            *)

\* What each family of wrappers expects, reserves, lifts and hands out.
LEMMA Families ==
  ASSUME NEW f, NEW a
  PROVE
  /\ f \in Reads =>
       /\ ResultType(f) = Result(Text, StreamError)
       /\ Area(f) = Buffer(12, 4)
       /\ Lifted(f, a) = InputStreamRead(a)
       /\ f \notin Plain /\ f \notin Optional
  /\ f \in Counts =>
       /\ ResultType(f) = Result(Word(8), StreamError)
       /\ Area(f) = Buffer(16, 8)
       /\ Lifted(f, a) = StreamCount(a)
       /\ f \notin Plain /\ f \notin Optional
  /\ f \in Writes =>
       /\ ResultType(f) = Result(Unit, StreamError)
       /\ Area(f) = Buffer(12, 4)
       /\ Lifted(f, a) = OutputStreamWrite(a)
       /\ f \notin Plain /\ f \notin Optional
  /\ f \in Lists =>
       /\ ResultType(f) = Text
       /\ Area(f) = Buffer(8, 4)
       /\ Lifted(f, a) = TextAt(a, 0, 4)
       /\ f \in Plain
  /\ f \in Edits =>
       /\ ResultType(f) = Result(Unit, HeaderError)
       /\ Area(f) = Buffer(2, 1)
       /\ Lifted(f, a) = FieldsEdit(a)
       /\ f \notin Plain /\ f \notin Optional
  /\ f \in Methods =>
       /\ ResultType(f) = Method
       /\ Area(f) = Buffer(12, 4)
       /\ Lifted(f, a) = RequestMethod(a)
       /\ f \in Plain
  /\ f \in Strings =>
       /\ ResultType(f) = Option(Text)
       /\ Area(f) = Buffer(12, 4)
       /\ Lifted(f, a) = RequestString(a)
       /\ f \notin Plain /\ f \in Optional
  /\ f \in Schemes =>
       /\ ResultType(f) = Option(Scheme)
       /\ Area(f) = Buffer(16, 4)
       /\ Lifted(f, a) = RequestScheme(a)
       /\ f \notin Plain /\ f \in Optional
  /\ f \in Parts =>
       /\ ResultType(f) = Result(Handle, Unit)
       /\ Area(f) = Buffer(8, 4)
       /\ Lifted(f, a) = MessagePart(a)
       /\ f \notin Plain /\ f \notin Optional
  /\ f \in Timeouts =>
       /\ ResultType(f) = Option(Word(8))
       /\ Area(f) = Buffer(16, 8)
       /\ Lifted(f, a) = RequestOptionsTimeout(a)
       /\ f \notin Plain /\ f \in Optional
  /\ f = "http-error-code" =>
       /\ ResultType(f) = Option(ErrorCode)
       /\ Area(f) = Buffer(40, 8)
       /\ Lifted(f, a) = HttpErrorCode(a)
       /\ f \notin Plain /\ f \in Optional
  /\ f = "fields.from-list" =>
       /\ ResultType(f) = Result(Handle, HeaderError)
       /\ Area(f) = Buffer(8, 4)
       /\ Lifted(f, a) = FieldsFromList(a)
       /\ f \notin Plain /\ f \notin Optional
  /\ f = "outgoing-body.finish" =>
       /\ ResultType(f) = Result(Unit, ErrorCode)
       /\ Area(f) = Buffer(40, 8)
       /\ Lifted(f, a) = OutgoingBodyFinish(a)
       /\ f \notin Plain /\ f \notin Optional
  /\ f = "outgoing-handler.handle" =>
       /\ ResultType(f) = Result(Handle, ErrorCode)
       /\ Area(f) = Buffer(40, 8)
       /\ Lifted(f, a) = OutgoingHandlerHandle(a)
       /\ f \notin Plain /\ f \notin Optional
  /\ f = "future-trailers.get" =>
       /\ ResultType(f) = Option(Result(TrailersResult, Unit))
       /\ Area(f) = Buffer(56, 8)
       /\ Lifted(f, a) = FutureTrailersGet(a)
       /\ f \notin Plain /\ f \in Optional
  /\ f = "future-incoming-response.get" =>
       /\ ResultType(f) = Option(Result(ResponseResult, Unit))
       /\ Area(f) = Buffer(56, 8)
       /\ Lifted(f, a) = FutureIncomingResponseGet(a)
       /\ f \notin Plain /\ f \in Optional
<1> USE DEF Reads, Counts, Writes, Lists, Edits, Methods, Strings, Schemes, Parts,
            Timeouts
<1>1. CASE f \in Reads
  <2>1. ResultType(f) = Result(Text, StreamError)
    BY <1>1 DEF ResultType
  <2>2. Area(f) = Buffer(12, 4)
    BY <1>1 DEF Area
  <2>3. Lifted(f, a) = InputStreamRead(a)
    BY <1>1 DEF Lifted
  <2>4. f \notin Plain /\ f \notin Optional
    BY <1>1 DEF Plain, Optional
  <2> QED BY <1>1, <2>1, <2>2, <2>3, <2>4
<1>2. CASE f \in Counts
  <2>1. ResultType(f) = Result(Word(8), StreamError)
    BY <1>2 DEF ResultType
  <2>2. Area(f) = Buffer(16, 8)
    BY <1>2 DEF Area
  <2>3. Lifted(f, a) = StreamCount(a)
    BY <1>2 DEF Lifted
  <2>4. f \notin Plain /\ f \notin Optional
    BY <1>2 DEF Plain, Optional
  <2> QED BY <1>2, <2>1, <2>2, <2>3, <2>4
<1>3. CASE f \in Writes
  <2>1. ResultType(f) = Result(Unit, StreamError)
    BY <1>3 DEF ResultType
  <2>2. Area(f) = Buffer(12, 4)
    BY <1>3 DEF Area
  <2>3. Lifted(f, a) = OutputStreamWrite(a)
    BY <1>3 DEF Lifted
  <2>4. f \notin Plain /\ f \notin Optional
    BY <1>3 DEF Plain, Optional
  <2> QED BY <1>3, <2>1, <2>2, <2>3, <2>4
<1>4. CASE f \in Lists
  <2>1. ResultType(f) = Text
    BY <1>4 DEF ResultType
  <2>2. Area(f) = Buffer(8, 4)
    BY <1>4 DEF Area
  <2>3. Lifted(f, a) = TextAt(a, 0, 4)
    BY <1>4 DEF Lifted
  <2>4. f \in Plain
    BY <1>4 DEF Plain, Optional
  <2> QED BY <1>4, <2>1, <2>2, <2>3, <2>4
<1>5. CASE f \in Edits
  <2>1. ResultType(f) = Result(Unit, HeaderError)
    BY <1>5 DEF ResultType
  <2>2. Area(f) = Buffer(2, 1)
    BY <1>5 DEF Area
  <2>3. Lifted(f, a) = FieldsEdit(a)
    BY <1>5 DEF Lifted
  <2>4. f \notin Plain /\ f \notin Optional
    BY <1>5 DEF Plain, Optional
  <2> QED BY <1>5, <2>1, <2>2, <2>3, <2>4
<1>6. CASE f \in Methods
  <2>1. ResultType(f) = Method
    BY <1>6 DEF ResultType
  <2>2. Area(f) = Buffer(12, 4)
    BY <1>6 DEF Area
  <2>3. Lifted(f, a) = RequestMethod(a)
    BY <1>6 DEF Lifted
  <2>4. f \in Plain
    BY <1>6 DEF Plain, Optional
  <2> QED BY <1>6, <2>1, <2>2, <2>3, <2>4
<1>7. CASE f \in Strings
  <2>1. ResultType(f) = Option(Text)
    BY <1>7 DEF ResultType
  <2>2. Area(f) = Buffer(12, 4)
    BY <1>7 DEF Area
  <2>3. Lifted(f, a) = RequestString(a)
    BY <1>7 DEF Lifted
  <2>4. f \notin Plain /\ f \in Optional
    BY <1>7 DEF Plain, Optional
  <2> QED BY <1>7, <2>1, <2>2, <2>3, <2>4
<1>8. CASE f \in Schemes
  <2>1. ResultType(f) = Option(Scheme)
    BY <1>8 DEF ResultType
  <2>2. Area(f) = Buffer(16, 4)
    BY <1>8 DEF Area
  <2>3. Lifted(f, a) = RequestScheme(a)
    BY <1>8 DEF Lifted
  <2>4. f \notin Plain /\ f \in Optional
    BY <1>8 DEF Plain, Optional
  <2> QED BY <1>8, <2>1, <2>2, <2>3, <2>4
<1>9. CASE f \in Parts
  <2>1. ResultType(f) = Result(Handle, Unit)
    BY <1>9 DEF ResultType
  <2>2. Area(f) = Buffer(8, 4)
    BY <1>9 DEF Area
  <2>3. Lifted(f, a) = MessagePart(a)
    BY <1>9 DEF Lifted
  <2>4. f \notin Plain /\ f \notin Optional
    BY <1>9 DEF Plain, Optional
  <2> QED BY <1>9, <2>1, <2>2, <2>3, <2>4
<1>10. CASE f \in Timeouts
  <2>1. ResultType(f) = Option(Word(8))
    BY <1>10 DEF ResultType
  <2>2. Area(f) = Buffer(16, 8)
    BY <1>10 DEF Area
  <2>3. Lifted(f, a) = RequestOptionsTimeout(a)
    BY <1>10 DEF Lifted
  <2>4. f \notin Plain /\ f \in Optional
    BY <1>10 DEF Plain, Optional
  <2> QED BY <1>10, <2>1, <2>2, <2>3, <2>4
<1>11. CASE f = "http-error-code"
  <2>1. ResultType(f) = Option(ErrorCode)
    BY <1>11 DEF ResultType
  <2>2. Area(f) = Buffer(40, 8)
    BY <1>11 DEF Area
  <2>3. Lifted(f, a) = HttpErrorCode(a)
    BY <1>11 DEF Lifted
  <2>4. f \notin Plain /\ f \in Optional
    BY <1>11 DEF Plain, Optional
  <2> QED BY <1>11, <2>1, <2>2, <2>3, <2>4
<1>12. CASE f = "fields.from-list"
  <2>1. ResultType(f) = Result(Handle, HeaderError)
    BY <1>12 DEF ResultType
  <2>2. Area(f) = Buffer(8, 4)
    BY <1>12 DEF Area
  <2>3. Lifted(f, a) = FieldsFromList(a)
    BY <1>12 DEF Lifted
  <2>4. f \notin Plain /\ f \notin Optional
    BY <1>12 DEF Plain, Optional
  <2> QED BY <1>12, <2>1, <2>2, <2>3, <2>4
<1>13. CASE f = "outgoing-body.finish"
  <2>1. ResultType(f) = Result(Unit, ErrorCode)
    BY <1>13 DEF ResultType
  <2>2. Area(f) = Buffer(40, 8)
    BY <1>13 DEF Area
  <2>3. Lifted(f, a) = OutgoingBodyFinish(a)
    BY <1>13 DEF Lifted
  <2>4. f \notin Plain /\ f \notin Optional
    BY <1>13 DEF Plain, Optional
  <2> QED BY <1>13, <2>1, <2>2, <2>3, <2>4
<1>14. CASE f = "outgoing-handler.handle"
  <2>1. ResultType(f) = Result(Handle, ErrorCode)
    BY <1>14 DEF ResultType
  <2>2. Area(f) = Buffer(40, 8)
    BY <1>14 DEF Area
  <2>3. Lifted(f, a) = OutgoingHandlerHandle(a)
    BY <1>14 DEF Lifted
  <2>4. f \notin Plain /\ f \notin Optional
    BY <1>14 DEF Plain, Optional
  <2> QED BY <1>14, <2>1, <2>2, <2>3, <2>4
<1>15. CASE f = "future-trailers.get"
  <2>1. ResultType(f) = Option(Result(TrailersResult, Unit))
    BY <1>15 DEF ResultType, TrailersResult
  <2>2. Area(f) = Buffer(56, 8)
    BY <1>15 DEF Area
  <2>3. Lifted(f, a) = FutureTrailersGet(a)
    BY <1>15 DEF Lifted
  <2>4. f \notin Plain /\ f \in Optional
    BY <1>15 DEF Plain, Optional
  <2> QED BY <1>15, <2>1, <2>2, <2>3, <2>4
<1>16. CASE f = "future-incoming-response.get"
  <2>1. ResultType(f) = Option(Result(ResponseResult, Unit))
    BY <1>16 DEF ResultType, ResponseResult
  <2>2. Area(f) = Buffer(56, 8)
    BY <1>16 DEF Area
  <2>3. Lifted(f, a) = FutureIncomingResponseGet(a)
    BY <1>16 DEF Lifted
  <2>4. f \notin Plain /\ f \in Optional
    BY <1>16 DEF Plain, Optional
  <2> QED BY <1>16, <2>1, <2>2, <2>3, <2>4
<1> QED
  BY <1>1, <1>2, <1>3, <1>4, <1>5, <1>6, <1>7, <1>8, <1>9, <1>10, <1>11, <1>12,
     <1>13, <1>14, <1>15, <1>16

\* The value's whole extent lies in ret_area.
LEMMA ResultFits ==
  ASSUME NEW f \in Functions
  PROVE  /\ WellFormed(ResultType(f))
         /\ ResultType(f).size <= Area(f).bytes
         /\ Area(f).aligned % ResultType(f).align = 0
         /\ Area(f).bytes \in Nat
<1>1. /\ \A x, y : Buffer(x, y).bytes = x /\ Buffer(x, y).aligned = y
      /\ 4 % 4 = 0 /\ 8 % 8 = 0 /\ 1 % 1 = 0
  BY DEF Buffer
<1>2. CASE f \in Reads
  <2>1. Shape(Result(Text, StreamError), 12, 4, 3)
    BY Results
  <2>2. ResultType(f) = Result(Text, StreamError) /\ Area(f) = Buffer(12, 4)
    BY <1>2, Families
  <2> QED BY <1>1, <2>1, <2>2 DEF Shape
<1>3. CASE f \in Counts
  <2>1. Shape(Result(Word(8), StreamError), 16, 8, 3)
    BY Results
  <2>2. ResultType(f) = Result(Word(8), StreamError) /\ Area(f) = Buffer(16, 8)
    BY <1>3, Families
  <2> QED BY <1>1, <2>1, <2>2 DEF Shape
<1>4. CASE f \in Writes
  <2>1. Shape(Result(Unit, StreamError), 12, 4, 3)
    BY Results
  <2>2. ResultType(f) = Result(Unit, StreamError) /\ Area(f) = Buffer(12, 4)
    BY <1>4, Families
  <2> QED BY <1>1, <2>1, <2>2 DEF Shape
<1>5. CASE f \in Lists
  <2>1. Shape(Text, 8, 4, 2)
    BY Shapes
  <2>2. ResultType(f) = Text /\ Area(f) = Buffer(8, 4)
    BY <1>5, Families
  <2> QED BY <1>1, <2>1, <2>2 DEF Shape
<1>6. CASE f \in Edits
  <2>1. Shape(Result(Unit, HeaderError), 2, 1, 2)
    BY Results
  <2>2. ResultType(f) = Result(Unit, HeaderError) /\ Area(f) = Buffer(2, 1)
    BY <1>6, Families
  <2> QED BY <1>1, <2>1, <2>2 DEF Shape
<1>7. CASE f \in Methods
  <2>1. Shape(Method, 12, 4, 3)
    BY MethodShape
  <2>2. ResultType(f) = Method /\ Area(f) = Buffer(12, 4)
    BY <1>7, Families
  <2> QED BY <1>1, <2>1, <2>2 DEF Shape
<1>8. CASE f \in Strings
  <2>1. Shape(Option(Text), 12, 4, 3)
    BY Options
  <2>2. ResultType(f) = Option(Text) /\ Area(f) = Buffer(12, 4)
    BY <1>8, Families
  <2> QED BY <1>1, <2>1, <2>2 DEF Shape
<1>9. CASE f \in Schemes
  <2>1. Shape(Option(Scheme), 16, 4, 4)
    BY SchemeShape
  <2>2. ResultType(f) = Option(Scheme) /\ Area(f) = Buffer(16, 4)
    BY <1>9, Families
  <2> QED BY <1>1, <2>1, <2>2 DEF Shape
<1>10. CASE f \in Parts
  <2>1. Shape(Result(Handle, Unit), 8, 4, 2)
    BY Results
  <2>2. ResultType(f) = Result(Handle, Unit) /\ Area(f) = Buffer(8, 4)
    BY <1>10, Families
  <2> QED BY <1>1, <2>1, <2>2 DEF Shape
<1>11. CASE f \in Timeouts
  <2>1. Shape(Option(Word(8)), 16, 8, 2)
    BY Options
  <2>2. ResultType(f) = Option(Word(8)) /\ Area(f) = Buffer(16, 8)
    BY <1>11, Families
  <2> QED BY <1>1, <2>1, <2>2 DEF Shape
<1>12. CASE f = "http-error-code"
  <2>1. Shape(Option(ErrorCode), 40, 8, 8)
    BY OuterOptions
  <2>2. ResultType(f) = Option(ErrorCode) /\ Area(f) = Buffer(40, 8)
    BY <1>12, Families
  <2> QED BY <1>1, <2>1, <2>2 DEF Shape
<1>13. CASE f = "fields.from-list"
  <2>1. Shape(Result(Handle, HeaderError), 8, 4, 2)
    BY Results
  <2>2. ResultType(f) = Result(Handle, HeaderError) /\ Area(f) = Buffer(8, 4)
    BY <1>13, Families
  <2> QED BY <1>1, <2>1, <2>2 DEF Shape
<1>14. CASE f = "outgoing-body.finish"
  <2>1. Shape(Result(Unit, ErrorCode), 40, 8, 8)
    BY Results
  <2>2. ResultType(f) = Result(Unit, ErrorCode) /\ Area(f) = Buffer(40, 8)
    BY <1>14, Families
  <2> QED BY <1>1, <2>1, <2>2 DEF Shape
<1>15. CASE f = "outgoing-handler.handle"
  <2>1. Shape(Result(Handle, ErrorCode), 40, 8, 8)
    BY Results
  <2>2. ResultType(f) = Result(Handle, ErrorCode) /\ Area(f) = Buffer(40, 8)
    BY <1>15, Families
  <2> QED BY <1>1, <2>1, <2>2 DEF Shape
<1>16. CASE f = "future-trailers.get"
  <2>1. Shape(Option(Result(TrailersResult, Unit)), 56, 8, 10)
    BY OuterOptions
  <2>2. ResultType(f) = Option(Result(TrailersResult, Unit)) /\ Area(f) = Buffer(56, 8)
    BY <1>16, Families
  <2> QED BY <1>1, <2>1, <2>2 DEF Shape
<1>17. CASE f = "future-incoming-response.get"
  <2>1. Shape(Option(Result(ResponseResult, Unit)), 56, 8, 10)
    BY OuterOptions
  <2>2. ResultType(f) = Option(Result(ResponseResult, Unit)) /\ Area(f) = Buffer(56, 8)
    BY <1>17, Families
  <2> QED BY <1>1, <2>1, <2>2 DEF Shape
<1> QED
  BY <1>2, <1>3, <1>4, <1>5, <1>6, <1>7, <1>8, <1>9, <1>10, <1>11, <1>12, <1>13,
     <1>14, <1>15, <1>16, <1>17 DEF Functions

\* A result that holds one of two things that have been lifted.
LEMMA ResultLift ==
  ASSUME NEW T, NEW z1, NEW a1, NEW k1, Shape(T, z1, a1, k1),
         NEW E, NEW z2, NEW a2, NEW k2, Shape(E, z2, a2, k2),
         NEW d \in {1, 2, 4, 8}, PayloadAt(<<T, E>>) = d,
         NEW v \in Values(Result(T, E)),
         NEW a, NEW p \in Nat, Holds(a, p, Result(T, E).mem[v]),
         NEW x, NEW y
  PROVE  /\ \A u \in Values(T) : Holds(a, p + d, T.mem[u]) => x = u
         /\ \A u \in Values(E) : Holds(a, p + d, E.mem[u]) => y = u
         => ResultAt(a, p, x, y) = v
<1>1. WellFormed(T) /\ WellFormed(E)
  BY DEF Shape
<1>2. /\ v.tag \in {0, 1} /\ v = Case(v.tag, v.val) /\ At(a, p, 1).n = v.tag
      /\ v.tag = 0 => v.val \in Values(T) /\ Holds(a, p + d, T.mem[v.val])
      /\ v.tag = 1 => v.val \in Values(E) /\ Holds(a, p + d, E.mem[v.val])
  BY <1>1, ResultRead, SMTT(20)
<1> QED BY <1>2 DEF ResultAt, Switch

\* An option is lifted whole when its payload is.
LEMMA OptionLift ==
  ASSUME NEW T, NEW z, NEW d, NEW k, Shape(T, z, d, k),
         NEW v \in Values(Option(T)),
         NEW a, NEW p \in Nat, Holds(a, p, Option(T).mem[v]),
         NEW x, \A u \in Values(T) : Holds(a, p + d, T.mem[u]) => x = u
  PROVE  OptionAt(a, p, x) = v
<1>1. /\ v.tag = 1 => v.val \in Values(T) /\ Holds(a, p + d, T.mem[v.val])
      /\ \A x1 : (v.tag = 1 => x1 = v.val) => OptionAt(a, p, x1) = v
  BY OptionRead
<1> QED BY <1>1

\* Of the type of nothing there is one value.
LEMMA NothingRead ==
  ASSUME NEW u \in Values(Unit) PROVE Nothing = u
BY Units

\* A handle is a word of four bytes.
LEMMA HandleRead ==
  ASSUME NEW a, NEW p \in Nat, NEW u \in Values(Handle), Holds(a, p, Handle.mem[u])
  PROVE  At(a, p, 4) = u
BY WordRead DEF Handle

\* What a wrapper lifts is what the host stored.
LEMMA LiftedIsSent ==
  ASSUME NEW f \in Functions, NEW v \in Values(ResultType(f))
  PROVE  Lifted(f, ResultType(f).mem[v]) = v
<1> DEFINE T == ResultType(f)
           a == T.mem[v]
<1>1. Holds(a, 0, a)
  BY ResultFits DEF Holds, WellFormed
<1> HIDE DEF a
<1>2. v \in Values(T) /\ Holds(a, 0, T.mem[v])
  BY <1>1 DEF a
<1> HIDE DEF T
<1>s. /\ 0 + 1 = 1 /\ 0 + 4 = 4 /\ 0 + 8 = 8 /\ 4 + 4 = 8 /\ 8 + 8 = 16
      /\ 16 + 8 = 24 /\ 24 + 4 = 28
  OBVIOUS
<1>t. /\ Shape(Unit, 0, 1, 0) /\ Shape(Text, 8, 4, 2) /\ Shape(Handle, 4, 4, 1)
      /\ Shape(Word(8), 8, 8, 1)
      /\ Shape(StreamError, 8, 4, 2) /\ Shape(HeaderError, 1, 1, 1)
      /\ Shape(ErrorCode, 32, 8, 7) /\ Shape(Scheme, 12, 4, 3)
      /\ Shape(Option(Handle), 8, 4, 2)
  BY Shapes, Errors, ErrorCodes, SchemeShape, Options
<1>3. CASE f \in Reads
  <2>1. T = Result(Text, StreamError) /\ Lifted(f, a) = InputStreamRead(a)
    BY <1>3, Families DEF T
  <2>2. PayloadAt(<<Text, StreamError>>) = 4
    BY Results
  <2>3. \A u \in Values(Text) : Holds(a, 0 + 4, Text.mem[u]) => TextAt(a, 4, 8) = u
    BY <1>s, TextRead
  <2>4. \A u \in Values(StreamError) :
          Holds(a, 0 + 4, StreamError.mem[u]) => StreamErrorAt(a, 4) = u
    BY <1>s, StreamErrorRead
  <2>5. ResultAt(a, 0, TextAt(a, 4, 8), StreamErrorAt(a, 4)) = v
    BY <1>2, <1>t, <2>1, <2>2, <2>3, <2>4, ResultLift
  <2> QED BY <2>1, <2>5 DEF InputStreamRead, a, T
<1>4. CASE f \in Counts
  <2>1. T = Result(Word(8), StreamError) /\ Lifted(f, a) = StreamCount(a)
    BY <1>4, Families DEF T
  <2>2. PayloadAt(<<Word(8), StreamError>>) = 8
    BY Results
  <2>3. \A u \in Values(Word(8)) : Holds(a, 0 + 8, Word(8).mem[u]) => At(a, 8, 8) = u
    BY <1>s, WordRead
  <2>4. \A u \in Values(StreamError) :
          Holds(a, 0 + 8, StreamError.mem[u]) => StreamErrorAt(a, 8) = u
    BY <1>s, StreamErrorRead
  <2>5. ResultAt(a, 0, At(a, 8, 8), StreamErrorAt(a, 8)) = v
    BY <1>2, <1>t, <2>1, <2>2, <2>3, <2>4, ResultLift
  <2> QED BY <2>1, <2>5 DEF StreamCount, a, T
<1>5. CASE f \in Writes
  <2>1. T = Result(Unit, StreamError) /\ Lifted(f, a) = OutputStreamWrite(a)
    BY <1>5, Families DEF T
  <2>2. PayloadAt(<<Unit, StreamError>>) = 4
    BY Results
  <2>3. \A u \in Values(Unit) : Holds(a, 0 + 4, Unit.mem[u]) => Nothing = u
    BY NothingRead
  <2>4. \A u \in Values(StreamError) :
          Holds(a, 0 + 4, StreamError.mem[u]) => StreamErrorAt(a, 4) = u
    BY <1>s, StreamErrorRead
  <2>5. ResultAt(a, 0, Nothing, StreamErrorAt(a, 4)) = v
    BY <1>2, <1>t, <2>1, <2>2, <2>3, <2>4, ResultLift
  <2> QED BY <2>1, <2>5 DEF OutputStreamWrite, a, T
<1>6. CASE f \in Edits
  <2>1. T = Result(Unit, HeaderError) /\ Lifted(f, a) = FieldsEdit(a)
    BY <1>6, Families DEF T
  <2>2. PayloadAt(<<Unit, HeaderError>>) = 1
    BY Results
  <2>3. \A u \in Values(Unit) : Holds(a, 0 + 1, Unit.mem[u]) => Nothing = u
    BY <1>s, NothingRead
  <2>4. \A u \in Values(HeaderError) :
          Holds(a, 0 + 1, HeaderError.mem[u]) => HeaderErrorAt(a, 1) = u
    BY <1>s, HeaderErrorRead
  <2>5. ResultAt(a, 0, Nothing, HeaderErrorAt(a, 1)) = v
    BY <1>2, <1>t, <2>1, <2>2, <2>3, <2>4, ResultLift
  <2> QED BY <2>1, <2>5 DEF FieldsEdit, a, T
<1>7. CASE f \in Parts
  <2>1. T = Result(Handle, Unit) /\ Lifted(f, a) = MessagePart(a)
    BY <1>7, Families DEF T
  <2>2. PayloadAt(<<Handle, Unit>>) = 4
    BY Results
  <2>3. \A u \in Values(Handle) : Holds(a, 0 + 4, Handle.mem[u]) => At(a, 4, 4) = u
    BY <1>s, HandleRead
  <2>4. \A u \in Values(Unit) :
          Holds(a, 0 + 4, Unit.mem[u]) => Nothing = u
    BY <1>s, NothingRead
  <2>5. ResultAt(a, 0, At(a, 4, 4), Nothing) = v
    BY <1>2, <1>t, <2>1, <2>2, <2>3, <2>4, ResultLift
  <2> QED BY <2>1, <2>5 DEF MessagePart, a, T
<1>8. CASE f = "fields.from-list"
  <2>1. T = Result(Handle, HeaderError) /\ Lifted(f, a) = FieldsFromList(a)
    BY <1>8, Families DEF T
  <2>2. PayloadAt(<<Handle, HeaderError>>) = 4
    BY Results
  <2>3. \A u \in Values(Handle) : Holds(a, 0 + 4, Handle.mem[u]) => At(a, 4, 4) = u
    BY <1>s, HandleRead
  <2>4. \A u \in Values(HeaderError) :
          Holds(a, 0 + 4, HeaderError.mem[u]) => HeaderErrorAt(a, 4) = u
    BY <1>s, HeaderErrorRead
  <2>5. ResultAt(a, 0, At(a, 4, 4), HeaderErrorAt(a, 4)) = v
    BY <1>2, <1>t, <2>1, <2>2, <2>3, <2>4, ResultLift
  <2> QED BY <2>1, <2>5 DEF FieldsFromList, a, T
<1>9. CASE f = "outgoing-body.finish"
  <2>1. T = Result(Unit, ErrorCode) /\ Lifted(f, a) = OutgoingBodyFinish(a)
    BY <1>9, Families DEF T
  <2>2. PayloadAt(<<Unit, ErrorCode>>) = 8
    BY Results
  <2>3. \A u \in Values(Unit) : Holds(a, 0 + 8, Unit.mem[u]) => Nothing = u
    BY <1>s, NothingRead
  <2>4. \A u \in Values(ErrorCode) :
          Holds(a, 0 + 8, ErrorCode.mem[u]) => ErrorCodeAt(a, 8) = u
    BY <1>s, ErrorCodeRead
  <2>5. ResultAt(a, 0, Nothing, ErrorCodeAt(a, 8)) = v
    BY <1>2, <1>t, <2>1, <2>2, <2>3, <2>4, ResultLift
  <2> QED BY <2>1, <2>5 DEF OutgoingBodyFinish, a, T
<1>10. CASE f = "outgoing-handler.handle"
  <2>1. T = Result(Handle, ErrorCode) /\ Lifted(f, a) = OutgoingHandlerHandle(a)
    BY <1>10, Families DEF T
  <2>2. PayloadAt(<<Handle, ErrorCode>>) = 8
    BY Results
  <2>3. \A u \in Values(Handle) : Holds(a, 0 + 8, Handle.mem[u]) => At(a, 8, 4) = u
    BY <1>s, HandleRead
  <2>4. \A u \in Values(ErrorCode) :
          Holds(a, 0 + 8, ErrorCode.mem[u]) => ErrorCodeAt(a, 8) = u
    BY <1>s, ErrorCodeRead
  <2>5. ResultAt(a, 0, At(a, 8, 4), ErrorCodeAt(a, 8)) = v
    BY <1>2, <1>t, <2>1, <2>2, <2>3, <2>4, ResultLift
  <2> QED BY <2>1, <2>5 DEF OutgoingHandlerHandle, a, T
<1>11. CASE f \in Lists
  <2>1. T = Text /\ Lifted(f, a) = TextAt(a, 0, 4)
    BY <1>11, Families DEF T
  <2>2. TextAt(a, 0, 0 + 4) = v
    BY <1>2, <2>1, TextRead
  <2> QED BY <1>s, <2>1, <2>2 DEF a, T
<1>12. CASE f \in Methods
  <2>1. T = Method /\ Lifted(f, a) = RequestMethod(a)
    BY <1>12, Families DEF T
  <2>2. RequestMethod(a) = v
    BY <1>2, <2>1, MethodRead
  <2> QED BY <2>1, <2>2 DEF a, T
<1>13. CASE f \in Strings
  <2>1. T = Option(Text) /\ Lifted(f, a) = RequestString(a)
    BY <1>13, Families DEF T
  <2>2. OptionTextAt(a, 0) = v
    BY <1>2, <2>1, OptionTextRead
  <2> QED BY <2>1, <2>2 DEF RequestString, a, T
<1>14. CASE f \in Schemes
  <2>1. T = Option(Scheme) /\ Lifted(f, a) = RequestScheme(a)
    BY <1>14, Families DEF T
  <2>2. \A u \in Values(Scheme) : Holds(a, 0 + 4, Scheme.mem[u]) =>
          Switch(a, 4, [t \in {2} |-> TextAt(a, 8, 12)]) = u
    BY <1>s, SchemeRead
  <2>3. OptionAt(a, 0, Switch(a, 4, [t \in {2} |-> TextAt(a, 8, 12)])) = v
    BY <1>2, <1>t, <2>1, <2>2, OptionLift
  <2> QED BY <2>1, <2>3 DEF RequestScheme, a, T
<1>15. CASE f \in Timeouts
  <2>1. T = Option(Word(8)) /\ Lifted(f, a) = RequestOptionsTimeout(a)
    BY <1>15, Families DEF T
  <2>2. OptionU64At(a, 0) = v
    BY <1>2, <2>1, OptionU64Read
  <2> QED BY <2>1, <2>2 DEF RequestOptionsTimeout, a, T
<1>16. CASE f = "http-error-code"
  <2>1. T = Option(ErrorCode) /\ Lifted(f, a) = HttpErrorCode(a)
    BY <1>16, Families DEF T
  <2>2. \A u \in Values(ErrorCode) :
          Holds(a, 0 + 8, ErrorCode.mem[u]) => ErrorCodeAt(a, 8) = u
    BY <1>s, ErrorCodeRead
  <2>3. OptionAt(a, 0, ErrorCodeAt(a, 8)) = v
    BY <1>2, <1>t, <2>1, <2>2, OptionLift
  <2> QED BY <2>1, <2>3 DEF HttpErrorCode, a, T
<1>17. CASE f = "future-trailers.get"
  <2> DEFINE R    == TrailersResult
             some == OptionAt(a, 24, At(a, 28, 4))
             res  == ResultAt(a, 16, some, ErrorCodeAt(a, 24))
             out  == ResultAt(a, 8, res, Nothing)
  <2>1. T = Option(Result(R, Unit)) /\ Lifted(f, a) = FutureTrailersGet(a)
    BY <1>17, Families DEF T
  <2>2. /\ PayloadAt(<<Option(Handle), ErrorCode>>) = 8
        /\ PayloadAt(<<R, Unit>>) = 8
        /\ Shape(R, 40, 8, 8) /\ Shape(Result(R, Unit), 48, 8, 9)
    BY Results DEF TrailersResult
  <2>3. \A u \in Values(Option(Handle)) :
          Holds(a, 16 + 8, Option(Handle).mem[u]) => some = u
    BY <1>s, OptionWordRead DEF Handle
  <2>4. \A u \in Values(ErrorCode) :
          Holds(a, 16 + 8, ErrorCode.mem[u]) => ErrorCodeAt(a, 24) = u
    BY <1>s, ErrorCodeRead
  <2>5. \A u \in Values(R) : Holds(a, 8 + 8, R.mem[u]) => res = u
    <3> SUFFICES ASSUME NEW u \in Values(R), Holds(a, 8 + 8, R.mem[u])
                 PROVE  res = u
      OBVIOUS
    <3>1. R = Result(Option(Handle), ErrorCode)
      BY DEF TrailersResult
    <3>2. Holds(a, 16, R.mem[u])
      BY <1>s
    <3> HIDE DEF R, some
    <3> QED BY <1>t, <2>2, <2>3, <2>4, <3>1, <3>2, ResultLift
  <2>6. \A u \in Values(Unit) : Holds(a, 8 + 8, Unit.mem[u]) => Nothing = u
    BY NothingRead
  <2> HIDE DEF R, res
  <2>7. \A u \in Values(Result(R, Unit)) :
          Holds(a, 0 + 8, Result(R, Unit).mem[u]) => out = u
    BY <1>s, <1>t, <2>2, <2>5, <2>6, ResultLift
  <2> HIDE DEF out
  <2>8. OptionAt(a, 0, out) = v
    BY <1>2, <2>1, <2>2, <2>7, OptionLift
  <2> QED BY <2>1, <2>8 DEF FutureTrailersGet, out, res, a, T
<1>18. CASE f = "future-incoming-response.get"
  <2> DEFINE R   == ResponseResult
             res == ResultAt(a, 16, At(a, 24, 4), ErrorCodeAt(a, 24))
             out == ResultAt(a, 8, res, Nothing)
  <2>1. T = Option(Result(R, Unit)) /\ Lifted(f, a) = FutureIncomingResponseGet(a)
    BY <1>18, Families DEF T
  <2>2. /\ PayloadAt(<<Handle, ErrorCode>>) = 8
        /\ PayloadAt(<<R, Unit>>) = 8
        /\ Shape(R, 40, 8, 8) /\ Shape(Result(R, Unit), 48, 8, 9)
    BY Results DEF ResponseResult
  <2>3. \A u \in Values(Handle) :
          Holds(a, 16 + 8, Handle.mem[u]) => At(a, 24, 4) = u
    BY <1>s, HandleRead
  <2>4. \A u \in Values(ErrorCode) :
          Holds(a, 16 + 8, ErrorCode.mem[u]) => ErrorCodeAt(a, 24) = u
    BY <1>s, ErrorCodeRead
  <2>5. \A u \in Values(R) : Holds(a, 8 + 8, R.mem[u]) => res = u
    <3> SUFFICES ASSUME NEW u \in Values(R), Holds(a, 8 + 8, R.mem[u])
                 PROVE  res = u
      OBVIOUS
    <3>1. R = Result(Handle, ErrorCode)
      BY DEF ResponseResult
    <3>2. Holds(a, 16, R.mem[u])
      BY <1>s
    <3> HIDE DEF R
    <3> QED BY <1>t, <2>2, <2>3, <2>4, <3>1, <3>2, ResultLift
  <2>6. \A u \in Values(Unit) : Holds(a, 8 + 8, Unit.mem[u]) => Nothing = u
    BY NothingRead
  <2> HIDE DEF R, res
  <2>7. \A u \in Values(Result(R, Unit)) :
          Holds(a, 0 + 8, Result(R, Unit).mem[u]) => out = u
    BY <1>s, <1>t, <2>2, <2>5, <2>6, ResultLift
  <2> HIDE DEF out
  <2>8. OptionAt(a, 0, out) = v
    BY <1>2, <2>1, <2>2, <2>7, OptionLift
  <2> QED BY <2>1, <2>8 DEF FutureIncomingResponseGet, out, res, a, T
<1> QED
  BY <1>3, <1>4, <1>5, <1>6, <1>7, <1>8, <1>9, <1>10, <1>11, <1>12, <1>13, <1>14,
     <1>15, <1>16, <1>17, <1>18 DEF Functions

------------------------------------------------------------------------------
(* Freeing                                                                   *)

\* The blocks that an image in memory points to.
Owned(m) == Stored(m) \cap Blocks

\* An image that is put together of two owns the blocks of both.
LEMMA OwnedParts ==
  ASSUME NEW m1, NEW m2, NEW d \in Nat,
         DOMAIN m1 \subseteq 0 .. d - 1, DOMAIN m2 \subseteq Nat
  PROVE  Owned(Beside(m1, Shifted(m2, d))) = Owned(m1) \cup Owned(m2)
<1> DEFINE s == Shifted(m2, d)
           b == Beside(m1, s)
<1>1. DOMAIN s = {d + x : x \in DOMAIN m2}
  BY DEF Shifted
<1>2. \A x \in DOMAIN m2 : d + x \in DOMAIN s /\ d + x \notin DOMAIN m1
                             /\ s[d + x] = m2[x]
  BY DEF Shifted
<1>3. DOMAIN b = DOMAIN m1 \cup DOMAIN s
  BY DEF Beside
<1>4. \A q \in DOMAIN m1 : b[q] = m1[q]
  BY DEF Beside
<1>5. \A x \in DOMAIN m2 : d + x \in DOMAIN b /\ b[d + x] = m2[x]
  BY <1>2 DEF Beside
<1> HIDE DEF b, s
<1>6. Stored(b) = Stored(m1) \cup Stored(m2)
  <2>1. ASSUME NEW q \in DOMAIN b PROVE b[q].v \in Stored(m1) \cup Stored(m2)
    <3>1. CASE q \in DOMAIN m1
      BY <1>4, <3>1 DEF Stored
    <3>2. CASE q \in DOMAIN s
      <4> PICK x \in DOMAIN m2 : q = d + x
        BY <1>1, <3>2
      <4> QED BY <1>5 DEF Stored
    <3> QED BY <1>3, <3>1, <3>2
  <2>2. ASSUME NEW q \in DOMAIN m1 PROVE m1[q].v \in Stored(b)
    <3>1. q \in DOMAIN b /\ b[q].v = m1[q].v
      BY <1>3, <1>4
    <3> QED BY <3>1 DEF Stored
  <2>3. ASSUME NEW x \in DOMAIN m2 PROVE m2[x].v \in Stored(b)
    <3>1. d + x \in DOMAIN b /\ b[d + x].v = m2[x].v
      BY <1>5
    <3> QED BY <3>1 DEF Stored
  <2>4. Stored(b) \subseteq Stored(m1) \cup Stored(m2)
    BY <2>1 DEF Stored
  <2>5. Stored(m1) \cup Stored(m2) \subseteq Stored(b)
    <3>1. Stored(m1) \subseteq Stored(b)
      <4> SUFFICES ASSUME NEW y \in Stored(m1) PROVE y \in Stored(b)
        OBVIOUS
      <4> PICK q \in DOMAIN m1 : y = m1[q].v
        BY DEF Stored
      <4> QED BY <2>2
    <3>2. Stored(m2) \subseteq Stored(b)
      <4> SUFFICES ASSUME NEW y \in Stored(m2) PROVE y \in Stored(b)
        OBVIOUS
      <4> PICK q \in DOMAIN m2 : y = m2[q].v
        BY DEF Stored
      <4> QED BY <2>3
    <3> QED BY <3>1, <3>2
  <2> QED BY <2>4, <2>5
<1> QED BY <1>6 DEF Owned, b, s

\* A cell owns the block it points to.
LEMMA OwnedCell ==
  ASSUME NEW w, NEW x
  PROVE  Owned(Cell(w, x)) = {x} \cap Blocks
<1>1. Stored(Cell(w, x)) = {x}
  BY DEF Stored, Cell
<1> QED BY <1>1 DEF Owned

\* Words own no block.
LEMMA OwnedWord ==
  ASSUME NEW w \in {1, 2, 4, 8}, NEW v \in Values(Word(w))
  PROVE  Owned(Word(w).mem[v]) = {}
<1>1. Word(w).mem[v] = Cell(w, v) /\ v \in {Num(w, n) : n \in Ints[w]}
  BY DEF Word, Values
<1>2. v \notin Blocks
  BY <1>1 DEF Num, Blocks, Ptr
<1> QED BY <1>1, <1>2, OwnedCell

\* Nothing owns no block.
LEMMA OwnedUnit ==
  ASSUME NEW v \in Values(Unit)
  PROVE  Owned(Unit.mem[v]) = {}
<1>1. Unit.mem[v] = NoCells
  BY Units
<1> QED BY <1>1 DEF Owned, Stored, NoCells

\* A string or list owns its block unless it is empty.
LEMMA OwnedText ==
  ASSUME NEW v \in Values(Text)
  PROVE  Owned(Text.mem[v]) = FreeText(v)
<1> DEFINE m1 == Cell(4, v.ptr)
           m2 == Cell(4, v.len)
<1>1. /\ Text.mem[v] = Beside(m1, Shifted(m2, 4))
      /\ v.ptr \in Blocks <=> v.len.n > 0
      /\ v.len \notin Blocks
  BY TextShape, TextsAre
<1>2. DOMAIN m1 = {0} /\ DOMAIN m2 = {0}
  BY DEF Cell
<1>3. Owned(m1) = {v.ptr} \cap Blocks /\ Owned(m2) = {v.len} \cap Blocks
  BY OwnedCell
<1> HIDE DEF m1, m2
<1>4. Owned(Text.mem[v]) = Owned(m1) \cup Owned(m2)
  BY <1>1, <1>2, OwnedParts
<1> QED BY <1>1, <1>3, <1>4 DEF FreeText

\* A variant owns what its payload owns.
LEMMA OwnedVariant ==
  ASSUME NEW ts, NEW n \in Nat, DOMAIN ts = 1 .. n,
         \A i \in DOMAIN ts : WellFormed(ts[i]),
         NEW d \in {1, 2, 4, 8}, PayloadAt(ts) = d,
         NEW v \in Values(Variant(ts))
  PROVE  Owned(Variant(ts).mem[v]) = Owned(ts[v.tag + 1].mem[v.val])
<1> DEFINE m1 == Cell(1, Tag(v.tag))
           m2 == ts[v.tag + 1].mem[v.val]
<1>1. /\ v.tag + 1 \in DOMAIN ts /\ v.val \in Values(ts[v.tag + 1])
      /\ Variant(ts).mem[v] = Beside(m1, Shifted(m2, d))
  BY VariantParts
<1>2. DOMAIN m1 \subseteq 0 .. d - 1
  BY DEF Cell
<1>3. DOMAIN m2 \subseteq Nat
  BY <1>1 DEF WellFormed
<1>4. Owned(m1) = {}
  <2>1. Tag(v.tag) \notin Blocks
    BY DEF Tag, Blocks, Ptr
  <2> QED BY <2>1, OwnedCell
<1> HIDE DEF m1, m2
<1>5. Owned(Variant(ts).mem[v]) = Owned(m1) \cup Owned(m2)
  BY <1>1, <1>2, <1>3, OwnedParts
<1> QED BY <1>4, <1>5 DEF m2

\* The same of a result.
LEMMA OwnedResult ==
  ASSUME NEW T, NEW E, WellFormed(T), WellFormed(E),
         NEW d \in {1, 2, 4, 8}, PayloadAt(<<T, E>>) = d,
         NEW v \in Values(Result(T, E))
  PROVE  /\ v.tag \in {0, 1}
         /\ v.tag = 0 => /\ v.val \in Values(T)
                         /\ Owned(Result(T, E).mem[v]) = Owned(T.mem[v.val])
         /\ v.tag = 1 => /\ v.val \in Values(E)
                         /\ Owned(Result(T, E).mem[v]) = Owned(E.mem[v.val])
<1> DEFINE ts == <<T, E>>
<1>1. DOMAIN ts = 1 .. 2 /\ ts[1] = T /\ ts[2] = E
  OBVIOUS
<1>2. \A i \in DOMAIN ts : WellFormed(ts[i])
  BY <1>1
<1>3. PayloadAt(ts) = d
  OBVIOUS
<1>4. v \in Values(Variant(ts)) /\ Result(T, E) = Variant(ts)
  BY DEF Result
<1> HIDE DEF ts
<1>5. v.tag \in 0 .. 2 - 1 /\ v.val \in Values(ts[v.tag + 1])
  BY <1>1, <1>4, VariantParts
<1>6. Owned(Variant(ts).mem[v]) = Owned(ts[v.tag + 1].mem[v.val])
  <2>1. DOMAIN ts = 1 .. 2 /\ d \in {1, 2, 4, 8}
    BY <1>1
  <2> QED BY <1>2, <1>3, <1>4, <2>1, OwnedVariant
<1> QED BY <1>1, <1>4, <1>5, <1>6

\* The same of an option.
LEMMA OwnedOption ==
  ASSUME NEW T, NEW z, NEW d, NEW k, Shape(T, z, d, k),
         NEW v \in Values(Option(T))
  PROVE  /\ v.tag \in {0, 1}
         /\ v.tag = 0 => Owned(Option(T).mem[v]) = {}
         /\ v.tag = 1 => /\ v.val \in Values(T)
                         /\ Owned(Option(T).mem[v]) = Owned(T.mem[v.val])
<1>1. Option(T) = Result(Unit, T)
  BY DEF Option, Result
<1>2. PayloadAt(<<Unit, T>>) = d /\ d \in {1, 2, 4, 8}
  BY OptionsOf DEF Shape, WellFormed
<1>3. WellFormed(Unit) /\ WellFormed(T)
  BY Units DEF Shape
<1>4. v \in Values(Result(Unit, T))
  BY <1>1
<1>5. /\ v.tag \in {0, 1}
      /\ v.tag = 0 => /\ v.val \in Values(Unit)
                      /\ Owned(Result(Unit, T).mem[v]) = Owned(Unit.mem[v.val])
      /\ v.tag = 1 => /\ v.val \in Values(T)
                      /\ Owned(Result(Unit, T).mem[v]) = Owned(T.mem[v.val])
  BY <1>2, <1>3, <1>4, OwnedResult
<1> QED BY <1>1, <1>5, OwnedUnit

\* A record owns what its fields own.
LEMMA OwnedPair ==
  ASSUME NEW S, NEW T, WellFormed(S), WellFormed(T), NEW v \in Values(Pair(S, T))
  PROVE  /\ v.vs[1] \in Values(S) /\ v.vs[2] \in Values(T)
         /\ Owned(Pair(S, T).mem[v])
              = Owned(S.mem[v.vs[1]]) \cup Owned(T.mem[v.vs[2]])
<1> DEFINE m1 == S.mem[v.vs[1]]
           m2 == T.mem[v.vs[2]]
           d  == RoundUp(S.size, T.align)
<1>1. /\ v.vs[1] \in Values(S) /\ v.vs[2] \in Values(T)
      /\ Pair(S, T).mem[v] = Beside(m1, Shifted(m2, d))
  BY PairParts
<1>2. \A q \in DOMAIN m1 : q \in Nat /\ m1[q].w \in Nat \ {0}
                            /\ q + m1[q].w <= S.size
  BY <1>1 DEF WellFormed
<1>3. DOMAIN m2 \subseteq Nat
  BY <1>1 DEF WellFormed
<1>4. S.size \in Nat /\ S.size <= d /\ d \in Nat
  BY RoundUpFacts DEF WellFormed
<1> HIDE DEF m1, m2, d
<1>5. DOMAIN m1 \subseteq 0 .. d - 1
  <2> SUFFICES ASSUME NEW q \in DOMAIN m1 PROVE q \in 0 .. d - 1
    OBVIOUS
  <2> DEFINE w == m1[q].w
  <2>1. q \in Nat /\ w \in Nat \ {0} /\ q + w <= S.size
    BY <1>2
  <2> HIDE DEF w
  <2> QED BY <1>4, <2>1
<1>6. Owned(Beside(m1, Shifted(m2, d))) = Owned(m1) \cup Owned(m2)
  BY <1>3, <1>4, <1>5, OwnedParts
<1> QED BY <1>1, <1>6 DEF m1, m2

\* The free of an option<string> frees what it owns.
LEMMA OptionTextFreed ==
  ASSUME NEW v \in Values(Option(Text))
  PROVE  FreeOptionText(v) = Owned(Option(Text).mem[v])
<1>1. Shape(Text, 8, 4, 2)
  BY Shapes
<1>2. /\ v.tag \in {0, 1}
      /\ v.tag = 0 => Owned(Option(Text).mem[v]) = {}
      /\ v.tag = 1 => /\ v.val \in Values(Text)
                      /\ Owned(Option(Text).mem[v]) = Owned(Text.mem[v.val])
  BY <1>1, OwnedOption
<1> QED BY <1>2, OwnedText DEF FreeOptionText

\* An optional integer or handle has nothing to free.
LEMMA OptionWordFreed ==
  ASSUME NEW w \in {1, 2, 4, 8}, NEW v \in Values(Option(Word(w)))
  PROVE  Owned(Option(Word(w)).mem[v]) = {}
<1>1. Shape(Word(w), w, w, 1)
  BY Shapes
<1>2. /\ v.tag \in {0, 1}
      /\ v.tag = 0 => Owned(Option(Word(w)).mem[v]) = {}
      /\ v.tag = 1 => /\ v.val \in Values(Word(w))
                      /\ Owned(Option(Word(w)).mem[v]) = Owned(Word(w).mem[v.val])
  BY <1>1, OwnedOption
<1> QED BY <1>2, OwnedWord

\* The free of a record's string frees what the record owns.
LEMMA PayloadsFreed ==
  /\ \A v \in Values(DnsErrorPayload) :
       FreeOptionText(v.vs[1]) = Owned(DnsErrorPayload.mem[v])
  /\ \A v \in Values(TlsAlertReceivedPayload) :
       FreeOptionText(v.vs[2]) = Owned(TlsAlertReceivedPayload.mem[v])
  /\ \A v \in Values(FieldSizePayload) :
       FreeFieldSizePayload(v) = Owned(FieldSizePayload.mem[v])
<1> DEFINE O(w) == Option(Word(w))
           S    == Option(Text)
<1>1. /\ WellFormed(S) /\ WellFormed(O(1)) /\ WellFormed(O(2)) /\ WellFormed(O(4))
  BY Options DEF Shape
<1>2. /\ DnsErrorPayload = Pair(S, O(2)) /\ FieldSizePayload = Pair(S, O(4))
      /\ TlsAlertReceivedPayload = Pair(O(1), S)
  BY DEF DnsErrorPayload, FieldSizePayload, TlsAlertReceivedPayload
<1>3. /\ \A u \in Values(S) : FreeOptionText(u) = Owned(S.mem[u])
      /\ \A w \in {1, 2, 4, 8} : \A u \in Values(O(w)) : Owned(O(w).mem[u]) = {}
  BY OptionTextFreed, OptionWordFreed
<1> HIDE DEF S, O
<1>4. ASSUME NEW v \in Values(DnsErrorPayload)
      PROVE  FreeOptionText(v.vs[1]) = Owned(DnsErrorPayload.mem[v])
  <2>1. /\ v.vs[1] \in Values(S) /\ v.vs[2] \in Values(O(2))
        /\ Owned(Pair(S, O(2)).mem[v])
             = Owned(S.mem[v.vs[1]]) \cup Owned(O(2).mem[v.vs[2]])
    BY <1>1, <1>2, OwnedPair
  <2>2. /\ Owned(O(2).mem[v.vs[2]]) = {}
        /\ FreeOptionText(v.vs[1]) = Owned(S.mem[v.vs[1]])
    BY <1>3, <2>1
  <2> QED BY <1>2, <2>1, <2>2
<1>5. ASSUME NEW v \in Values(TlsAlertReceivedPayload)
      PROVE  FreeOptionText(v.vs[2]) = Owned(TlsAlertReceivedPayload.mem[v])
  <2>1. /\ v.vs[1] \in Values(O(1)) /\ v.vs[2] \in Values(S)
        /\ Owned(Pair(O(1), S).mem[v])
             = Owned(O(1).mem[v.vs[1]]) \cup Owned(S.mem[v.vs[2]])
    BY <1>1, <1>2, OwnedPair
  <2>2. /\ Owned(O(1).mem[v.vs[1]]) = {}
        /\ FreeOptionText(v.vs[2]) = Owned(S.mem[v.vs[2]])
    BY <1>3, <2>1
  <2> QED BY <1>2, <2>1, <2>2
<1>6. ASSUME NEW v \in Values(FieldSizePayload)
      PROVE  FreeFieldSizePayload(v) = Owned(FieldSizePayload.mem[v])
  <2>1. /\ v.vs[1] \in Values(S) /\ v.vs[2] \in Values(O(4))
        /\ Owned(Pair(S, O(4)).mem[v])
             = Owned(S.mem[v.vs[1]]) \cup Owned(O(4).mem[v.vs[2]])
    BY <1>1, <1>2, OwnedPair
  <2>2. /\ Owned(O(4).mem[v.vs[2]]) = {}
        /\ FreeOptionText(v.vs[1]) = Owned(S.mem[v.vs[1]])
    BY <1>3, <2>1
  <2> QED BY <1>2, <2>1, <2>2 DEF FreeFieldSizePayload
<1> QED BY <1>4, <1>5, <1>6

\* The free of option<field-size-payload>.
LEMMA OptionFieldSizeFreed ==
  ASSUME NEW v \in Values(Option(FieldSizePayload))
  PROVE  FreeOptionFieldSizePayload(v) = Owned(Option(FieldSizePayload).mem[v])
<1> DEFINE T == FieldSizePayload
<1>1. Shape(T, 20, 4, 5)
  BY Payloads
<1>2. /\ v.tag \in {0, 1}
      /\ v.tag = 0 => Owned(Option(T).mem[v]) = {}
      /\ v.tag = 1 => /\ v.val \in Values(T)
                      /\ Owned(Option(T).mem[v]) = Owned(T.mem[v.val])
  BY <1>1, OwnedOption
<1> QED BY <1>2, PayloadsFreed DEF FreeOptionFieldSizePayload

\* The free of error-code frees what the case at hand owns.
LEMMA ErrorCodeFreed ==
  ASSUME NEW v \in Values(ErrorCode)
  PROVE  FreeErrorCode(v) = Owned(ErrorCode.mem[v])
<1> DEFINE t == v.tag
           T == ErrorPayload(t)
<1>1. /\ DOMAIN ErrorCases = 1 .. 39 /\ PayloadAt(ErrorCases) = 8
      /\ \A i \in 1 .. 39 : ErrorCases[i] = ErrorPayload(i - 1)
      /\ \A i \in 1 .. 39 : WellFormed(ErrorCases[i])
  BY ErrorCodes
<1>2. v \in Values(Variant(ErrorCases)) /\ ErrorCode = Variant(ErrorCases)
  BY DEF ErrorCode
<1>3. t \in 0 .. 38 /\ v.val \in Values(ErrorCases[t + 1])
  <2>1. 39 - 1 = 38
    OBVIOUS
  <2> QED BY <1>1, <1>2, <2>1, VariantParts
<1>4. Owned(Variant(ErrorCases).mem[v]) = Owned(ErrorCases[t + 1].mem[v.val])
  <2>1. DOMAIN ErrorCases = 1 .. 39
    BY <1>1
  <2>2. \A i \in DOMAIN ErrorCases : WellFormed(ErrorCases[i])
    BY <1>1
  <2>3. PayloadAt(ErrorCases) = 8
    BY <1>1
  <2> QED BY <1>2, <2>1, <2>2, <2>3, OwnedVariant
<1>5. ErrorCases[t + 1] = T
  BY <1>1, <1>3
<1>6. v.val \in Values(T) /\ Owned(ErrorCode.mem[v]) = Owned(T.mem[v.val])
  BY <1>2, <1>3, <1>4, <1>5
<1> HIDE DEF T
<1>w. /\ \A u \in Values(Option(Word(8))) : Owned(Option(Word(8)).mem[u]) = {}
      /\ \A u \in Values(Option(Word(4))) : Owned(Option(Word(4)).mem[u]) = {}
  BY OptionWordFreed
<1>7. CASE t = 1
  BY <1>3, <1>6, <1>7, PayloadsFreed, ErrorPayloads DEF FreeErrorCode, T
<1>8. CASE t = 14
  BY <1>3, <1>6, <1>8, PayloadsFreed, ErrorPayloads DEF FreeErrorCode, T
<1>9. CASE t \in {17, 28}
  <2>1. T = Option(Word(8))
    BY <1>3, <1>9, ErrorPayloads DEF T
  <2>2. FreeErrorCode(v) = {}
    BY <1>9 DEF FreeErrorCode
  <2> QED BY <1>6, <1>w, <2>1, <2>2
<1>10. CASE t \in {21, 23, 26, 29}
  BY <1>3, <1>6, <1>10, <1>w, ErrorPayloads DEF FreeErrorCode, T
<1>11. CASE t = 22
  BY <1>3, <1>6, <1>11, OptionFieldSizeFreed, ErrorPayloads DEF FreeErrorCode, T
<1>12. CASE t \in {24, 27, 30}
  BY <1>3, <1>6, <1>12, PayloadsFreed, ErrorPayloads DEF FreeErrorCode, T
<1>13. CASE t \in {31, 32, 38}
  BY <1>3, <1>6, <1>13, OptionTextFreed, ErrorPayloads DEF FreeErrorCode, T
<1>14. CASE t \notin {1, 14, 17, 28, 21, 23, 26, 29, 22, 24, 27, 30, 31, 32, 38}
  BY <1>3, <1>6, <1>14, OwnedUnit, ErrorPayloads DEF FreeErrorCode, T
<1> QED
  BY <1>7, <1>8, <1>9, <1>10, <1>11, <1>12, <1>13, <1>14

\* stream-error and header-error own no block.
LEMMA OwnedErrors ==
  /\ \A v \in Values(StreamError) : Owned(StreamError.mem[v]) = {}
  /\ \A v \in Values(HeaderError) : Owned(HeaderError.mem[v]) = {}
<1>1. ASSUME NEW v \in Values(StreamError) PROVE Owned(StreamError.mem[v]) = {}
  <2>1. StreamError = Result(Handle, Unit)
    BY DEF StreamError, Result
  <2>2. PayloadAt(<<Handle, Unit>>) = 4 /\ WellFormed(Handle) /\ WellFormed(Unit)
    BY Errors, Shapes DEF Shape
  <2>3. v \in Values(Result(Handle, Unit))
    BY <2>1
  <2>4. /\ v.tag \in {0, 1}
        /\ v.tag = 0 => /\ v.val \in Values(Handle)
                        /\ Owned(Result(Handle, Unit).mem[v]) = Owned(Handle.mem[v.val])
        /\ v.tag = 1 => /\ v.val \in Values(Unit)
                        /\ Owned(Result(Handle, Unit).mem[v]) = Owned(Unit.mem[v.val])
    BY <2>2, <2>3, OwnedResult
  <2> QED BY <2>1, <2>4, OwnedUnit, OwnedWord DEF Handle
<1>2. ASSUME NEW v \in Values(HeaderError) PROVE Owned(HeaderError.mem[v]) = {}
  <2> DEFINE ts == <<Unit, Unit, Unit>>
  <2>1. DOMAIN ts = 1 .. 3 /\ \A i \in DOMAIN ts : ts[i] = Unit
    OBVIOUS
  <2>2. \A i \in DOMAIN ts : WellFormed(ts[i])
    BY <2>1, Units
  <2>3. PayloadAt(ts) = 1
    BY Errors
  <2>4. v \in Values(Variant(ts)) /\ HeaderError = Variant(ts)
    BY DEF HeaderError
  <2> HIDE DEF ts
  <2>5. v.tag + 1 \in DOMAIN ts /\ v.val \in Values(ts[v.tag + 1])
    BY <2>1, <2>4, VariantParts
  <2>6. Owned(Variant(ts).mem[v]) = Owned(ts[v.tag + 1].mem[v.val])
    <3>1. DOMAIN ts = 1 .. 3
      BY <2>1
    <3> QED BY <2>2, <2>3, <2>4, <3>1, OwnedVariant
  <2> QED BY <2>1, <2>4, <2>5, <2>6, OwnedUnit
<1> QED BY <1>1, <1>2

\* What a caller frees, by the family of the import.
LEMMA FreedFamilies ==
  ASSUME NEW f \in Functions, NEW g
  PROVE  /\ f \in Lists => Freed(f, g) = FreeText(g.ret)
         /\ f \in Strings \cup Reads =>
              Freed(f, g) = IF g.rc THEN FreeText(g.ret) ELSE {}
         /\ f \in Methods => Freed(f, g) = FreeMethod(g.ret)
         /\ f \in Schemes => Freed(f, g) = IF g.rc THEN FreeScheme(g.ret) ELSE {}
         /\ f = "http-error-code" =>
              Freed(f, g) = IF g.rc THEN FreeErrorCode(g.ret) ELSE {}
         /\ f \in {"future-trailers.get", "future-incoming-response.get"} =>
              Freed(f, g) = IF g.rc THEN FreeNestedResult(g.ret) ELSE {}
         /\ f \in {"outgoing-body.finish", "outgoing-handler.handle"} =>
              Freed(f, g) = IF g.rc THEN {} ELSE FreeErrorCode(g.err)
         /\ f \in Counts \cup Writes \cup Edits \cup Parts \cup Timeouts
                  \cup {"fields.from-list"} => Freed(f, g) = {}
<1>1. CASE g.rc
  BY <1>1 DEF Freed, Reads, Counts, Writes, Lists, Edits, Methods, Strings, Schemes,
              Parts, Timeouts
<1>2. CASE ~g.rc
  BY <1>2 DEF Freed, Reads, Counts, Writes, Lists, Edits, Methods, Strings, Schemes,
              Parts, Timeouts
<1> QED BY <1>1, <1>2

\* The out-parameter that a caller is told to look at holds the value.
LEMMA HandedOut ==
  ASSUME NEW f, NEW v
  PROVE  /\ f \in Plain => HandOut(f, v).ret = v
         /\ f \notin Plain /\ f \in Optional =>
              /\ v.tag = 1 => HandOut(f, v).rc /\ HandOut(f, v).ret = v.val
              /\ v.tag # 1 => ~HandOut(f, v).rc
         /\ f \notin Plain /\ f \notin Optional =>
              /\ v.tag = 0 => HandOut(f, v).rc /\ HandOut(f, v).ret = v.val
              /\ v.tag # 0 => ~HandOut(f, v).rc /\ HandOut(f, v).err = v.val
BY DEF HandOut, NotYet

\* The free of a method.
LEMMA MethodFreed ==
  ASSUME NEW v \in Values(Method)
  PROVE  FreeMethod(v) = Owned(Method.mem[v])
<1> DEFINE ts == MethodCases
<1>1. /\ DOMAIN ts = 1 .. 10 /\ PayloadAt(ts) = 4
      /\ \A i \in 1 .. 10 : ts[i] = IF i = 10 THEN Text ELSE Unit
  BY MethodShape DEF MethodCases, MethodOther
<1>2. v \in Values(Variant(ts)) /\ Method = Variant(ts)
  BY DEF Method
<1> HIDE DEF ts
<1>3. \A i \in DOMAIN ts : WellFormed(ts[i])
  BY <1>1, Units, TextsAre
<1>4. v.tag \in 0 .. 10 - 1 /\ v.val \in Values(ts[v.tag + 1])
  BY <1>1, <1>2, VariantParts
<1>5. Owned(Variant(ts).mem[v]) = Owned(ts[v.tag + 1].mem[v.val])
  <2>1. DOMAIN ts = 1 .. 10
    BY <1>1
  <2>2. PayloadAt(ts) = 4
    BY <1>1
  <2> QED BY <1>2, <1>3, <2>1, <2>2, OwnedVariant
<1>6. CASE v.tag = 9
  BY <1>1, <1>2, <1>4, <1>5, <1>6, OwnedText DEF FreeMethod
<1>7. CASE v.tag # 9
  BY <1>1, <1>2, <1>4, <1>5, <1>7, OwnedUnit DEF FreeMethod
<1> QED BY <1>6, <1>7

\* The free of a scheme.
LEMMA SchemeFreed ==
  ASSUME NEW v \in Values(Scheme)
  PROVE  FreeScheme(v) = Owned(Scheme.mem[v])
<1> DEFINE ts == SchemeCases
<1>1. /\ DOMAIN ts = 1 .. 3 /\ PayloadAt(ts) = 4
      /\ \A i \in 1 .. 3 : ts[i] = IF i = 3 THEN Text ELSE Unit
  BY SchemeShape DEF SchemeCases
<1>2. v \in Values(Variant(ts)) /\ Scheme = Variant(ts)
  BY DEF Scheme
<1> HIDE DEF ts
<1>3. \A i \in DOMAIN ts : WellFormed(ts[i])
  BY <1>1, Units, TextsAre
<1>4. v.tag \in 0 .. 3 - 1 /\ v.val \in Values(ts[v.tag + 1])
  BY <1>1, <1>2, VariantParts
<1>5. Owned(Variant(ts).mem[v]) = Owned(ts[v.tag + 1].mem[v.val])
  <2>1. DOMAIN ts = 1 .. 3
    BY <1>1
  <2>2. PayloadAt(ts) = 4
    BY <1>1
  <2> QED BY <1>2, <1>3, <2>1, <2>2, OwnedVariant
<1>6. CASE v.tag = 2
  BY <1>1, <1>2, <1>4, <1>5, <1>6, OwnedText DEF FreeScheme
<1>7. CASE v.tag # 2
  BY <1>1, <1>2, <1>4, <1>5, <1>7, OwnedUnit DEF FreeScheme
<1> QED BY <1>6, <1>7

\* What the caller of a nested result frees: the error code inside, if any.
LEMMA NestedFreed ==
  ASSUME NEW S, NEW z, NEW a, NEW k, Shape(S, z, a, k),
         \A u \in Values(S) : Owned(S.mem[u]) = {},
         NEW R, R = Result(S, ErrorCode), PayloadAt(<<S, ErrorCode>>) = 8,
         PayloadAt(<<R, Unit>>) = 8, WellFormed(R),
         NEW v \in Values(Result(R, Unit))
  PROVE  FreeNestedResult(v) = Owned(Result(R, Unit).mem[v])
<1>1. WellFormed(S) /\ WellFormed(ErrorCode) /\ WellFormed(Unit)
  BY ErrorCodes, Units DEF Shape
<1>2. /\ v.tag \in {0, 1}
      /\ v.tag = 0 => /\ v.val \in Values(R)
                      /\ Owned(Result(R, Unit).mem[v]) = Owned(R.mem[v.val])
      /\ v.tag = 1 => /\ v.val \in Values(Unit)
                      /\ Owned(Result(R, Unit).mem[v]) = Owned(Unit.mem[v.val])
  BY <1>1, OwnedResult
<1>3. ASSUME NEW u \in Values(R)
      PROVE  /\ u.tag \in {0, 1}
             /\ u.tag = 0 => Owned(R.mem[u]) = {}
             /\ u.tag = 1 => /\ u.val \in Values(ErrorCode)
                             /\ Owned(R.mem[u]) = Owned(ErrorCode.mem[u.val])
  <2>1. /\ u.tag \in {0, 1}
        /\ u.tag = 0 => /\ u.val \in Values(S)
                        /\ Owned(Result(S, ErrorCode).mem[u]) = Owned(S.mem[u.val])
        /\ u.tag = 1 =>
             /\ u.val \in Values(ErrorCode)
             /\ Owned(Result(S, ErrorCode).mem[u]) = Owned(ErrorCode.mem[u.val])
    BY <1>1, OwnedResult
  <2> QED BY <2>1
<1>4. CASE v.tag = 1
  BY <1>2, <1>4, OwnedUnit DEF FreeNestedResult
<1>5. CASE v.tag = 0
  BY <1>2, <1>3, <1>5, ErrorCodeFreed DEF FreeNestedResult
<1> QED BY <1>2, <1>4, <1>5

\* The caller frees exactly what the host allocated for the value.
LEMMA FreedIsOwned ==
  ASSUME NEW f \in Functions, NEW v \in Values(ResultType(f))
  PROVE  Freed(f, HandOut(f, v)) = Owned(ResultType(f).mem[v])
<1> DEFINE T == ResultType(f)
           g == HandOut(f, v)
<1>t. /\ WellFormed(Unit) /\ WellFormed(Text) /\ WellFormed(Handle)
      /\ WellFormed(Word(8)) /\ WellFormed(StreamError) /\ WellFormed(HeaderError)
      /\ WellFormed(ErrorCode)
  BY Shapes, Errors, ErrorCodes DEF Shape
<1>h. /\ \A u \in Values(Handle) : Owned(Handle.mem[u]) = {}
      /\ \A u \in Values(Word(8)) : Owned(Word(8).mem[u]) = {}
  BY OwnedWord DEF Handle
<1>g. /\ f \in Plain => g.ret = v
      /\ f \notin Plain /\ f \in Optional =>
           /\ v.tag = 1 => g.rc /\ g.ret = v.val
           /\ v.tag # 1 => ~g.rc
      /\ f \notin Plain /\ f \notin Optional =>
           /\ v.tag = 0 => g.rc /\ g.ret = v.val
           /\ v.tag # 0 => ~g.rc /\ g.err = v.val
  BY HandedOut
<1>v. v \in Values(T)
  OBVIOUS
<1> HIDE DEF g
<1>1. CASE f \in Reads
  <2>1. T = Result(Text, StreamError) /\ f \notin Plain /\ f \notin Optional
    BY <1>1, Families
  <2>2. PayloadAt(<<Text, StreamError>>) = 4
    BY Results
  <2>3. /\ v.tag \in {0, 1}
        /\ v.tag = 0 => /\ v.val \in Values(Text)
                        /\ Owned(Result(Text, StreamError).mem[v]) =
                             Owned(Text.mem[v.val])
        /\ v.tag = 1 => /\ v.val \in Values(StreamError)
                        /\ Owned(Result(Text, StreamError).mem[v]) =
                             Owned(StreamError.mem[v.val])
    BY <1>t, <1>v, <2>1, <2>2, OwnedResult
  <2>4. Freed(f, g) = IF g.rc THEN FreeText(g.ret) ELSE {}
    BY <1>1, FreedFamilies
  <2> HIDE DEF T
  <2> QED BY <1>g, <1>h, <2>1, <2>3, <2>4, OwnedText, OwnedErrors DEF T, g
<1>2. CASE f \in Counts
  <2>1. T = Result(Word(8), StreamError) /\ f \notin Plain /\ f \notin Optional
    BY <1>2, Families
  <2>2. PayloadAt(<<Word(8), StreamError>>) = 8
    BY Results
  <2>3. /\ v.tag \in {0, 1}
        /\ v.tag = 0 => /\ v.val \in Values(Word(8))
                        /\ Owned(Result(Word(8), StreamError).mem[v]) =
                             Owned(Word(8).mem[v.val])
        /\ v.tag = 1 => /\ v.val \in Values(StreamError)
                        /\ Owned(Result(Word(8), StreamError).mem[v]) =
                             Owned(StreamError.mem[v.val])
    BY <1>t, <1>v, <2>1, <2>2, OwnedResult
  <2>4. Freed(f, g) = {}
    BY <1>2, FreedFamilies
  <2> HIDE DEF T
  <2> QED BY <1>g, <1>h, <2>1, <2>3, <2>4, OwnedErrors DEF T, g
<1>3. CASE f \in Writes
  <2>1. T = Result(Unit, StreamError) /\ f \notin Plain /\ f \notin Optional
    BY <1>3, Families
  <2>2. PayloadAt(<<Unit, StreamError>>) = 4
    BY Results
  <2>3. /\ v.tag \in {0, 1}
        /\ v.tag = 0 => /\ v.val \in Values(Unit)
                        /\ Owned(Result(Unit, StreamError).mem[v]) =
                             Owned(Unit.mem[v.val])
        /\ v.tag = 1 => /\ v.val \in Values(StreamError)
                        /\ Owned(Result(Unit, StreamError).mem[v]) =
                             Owned(StreamError.mem[v.val])
    BY <1>t, <1>v, <2>1, <2>2, OwnedResult
  <2>4. Freed(f, g) = {}
    BY <1>3, FreedFamilies
  <2> HIDE DEF T
  <2> QED BY <1>g, <1>h, <2>1, <2>3, <2>4, OwnedUnit, OwnedErrors DEF T, g
<1>4. CASE f \in Edits
  <2>1. T = Result(Unit, HeaderError) /\ f \notin Plain /\ f \notin Optional
    BY <1>4, Families
  <2>2. PayloadAt(<<Unit, HeaderError>>) = 1
    BY Results
  <2>3. /\ v.tag \in {0, 1}
        /\ v.tag = 0 => /\ v.val \in Values(Unit)
                        /\ Owned(Result(Unit, HeaderError).mem[v]) =
                             Owned(Unit.mem[v.val])
        /\ v.tag = 1 => /\ v.val \in Values(HeaderError)
                        /\ Owned(Result(Unit, HeaderError).mem[v]) =
                             Owned(HeaderError.mem[v.val])
    BY <1>t, <1>v, <2>1, <2>2, OwnedResult
  <2>4. Freed(f, g) = {}
    BY <1>4, FreedFamilies
  <2> HIDE DEF T
  <2> QED BY <1>g, <1>h, <2>1, <2>3, <2>4, OwnedUnit, OwnedErrors DEF T, g
<1>5. CASE f \in Parts
  <2>1. T = Result(Handle, Unit) /\ f \notin Plain /\ f \notin Optional
    BY <1>5, Families
  <2>2. PayloadAt(<<Handle, Unit>>) = 4
    BY Results
  <2>3. /\ v.tag \in {0, 1}
        /\ v.tag = 0 => /\ v.val \in Values(Handle)
                        /\ Owned(Result(Handle, Unit).mem[v]) = Owned(Handle.mem[v.val])
        /\ v.tag = 1 => /\ v.val \in Values(Unit)
                        /\ Owned(Result(Handle, Unit).mem[v]) = Owned(Unit.mem[v.val])
    BY <1>t, <1>v, <2>1, <2>2, OwnedResult
  <2>4. Freed(f, g) = {}
    BY <1>5, FreedFamilies
  <2> HIDE DEF T
  <2> QED BY <1>g, <1>h, <2>1, <2>3, <2>4, OwnedUnit DEF T, g
<1>6. CASE f = "fields.from-list"
  <2>1. T = Result(Handle, HeaderError) /\ f \notin Plain /\ f \notin Optional
    BY <1>6, Families
  <2>2. PayloadAt(<<Handle, HeaderError>>) = 4
    BY Results
  <2>3. /\ v.tag \in {0, 1}
        /\ v.tag = 0 => /\ v.val \in Values(Handle)
                        /\ Owned(Result(Handle, HeaderError).mem[v]) =
                             Owned(Handle.mem[v.val])
        /\ v.tag = 1 => /\ v.val \in Values(HeaderError)
                        /\ Owned(Result(Handle, HeaderError).mem[v]) =
                             Owned(HeaderError.mem[v.val])
    BY <1>t, <1>v, <2>1, <2>2, OwnedResult
  <2>4. Freed(f, g) = {}
    BY <1>6, FreedFamilies
  <2> HIDE DEF T
  <2> QED BY <1>g, <1>h, <2>1, <2>3, <2>4, OwnedErrors DEF T, g
<1>7. CASE f = "outgoing-body.finish"
  <2>1. T = Result(Unit, ErrorCode) /\ f \notin Plain /\ f \notin Optional
    BY <1>7, Families
  <2>2. PayloadAt(<<Unit, ErrorCode>>) = 8
    BY Results
  <2>3. /\ v.tag \in {0, 1}
        /\ v.tag = 0 => /\ v.val \in Values(Unit)
                        /\ Owned(Result(Unit, ErrorCode).mem[v]) =
                             Owned(Unit.mem[v.val])
        /\ v.tag = 1 => /\ v.val \in Values(ErrorCode)
                        /\ Owned(Result(Unit, ErrorCode).mem[v]) =
                             Owned(ErrorCode.mem[v.val])
    BY <1>t, <1>v, <2>1, <2>2, OwnedResult
  <2>4. Freed(f, g) = IF g.rc THEN {} ELSE FreeErrorCode(g.err)
    BY <1>7, FreedFamilies
  <2> HIDE DEF T
  <2> QED BY <1>g, <1>h, <2>1, <2>3, <2>4, OwnedUnit, ErrorCodeFreed DEF T, g
<1>8. CASE f = "outgoing-handler.handle"
  <2>1. T = Result(Handle, ErrorCode) /\ f \notin Plain /\ f \notin Optional
    BY <1>8, Families
  <2>2. PayloadAt(<<Handle, ErrorCode>>) = 8
    BY Results
  <2>3. /\ v.tag \in {0, 1}
        /\ v.tag = 0 => /\ v.val \in Values(Handle)
                        /\ Owned(Result(Handle, ErrorCode).mem[v]) =
                             Owned(Handle.mem[v.val])
        /\ v.tag = 1 => /\ v.val \in Values(ErrorCode)
                        /\ Owned(Result(Handle, ErrorCode).mem[v]) =
                             Owned(ErrorCode.mem[v.val])
    BY <1>t, <1>v, <2>1, <2>2, OwnedResult
  <2>4. Freed(f, g) = IF g.rc THEN {} ELSE FreeErrorCode(g.err)
    BY <1>8, FreedFamilies
  <2> HIDE DEF T
  <2> QED BY <1>g, <1>h, <2>1, <2>3, <2>4, ErrorCodeFreed DEF T, g
<1>9. CASE f \in Lists
  <2>1. T = Text /\ f \in Plain /\ Freed(f, g) = FreeText(g.ret)
    BY <1>9, Families, FreedFamilies
  <2> HIDE DEF T
  <2> QED BY <1>g, <1>v, <2>1, OwnedText DEF T, g
<1>10. CASE f \in Methods
  <2>1. T = Method /\ f \in Plain /\ Freed(f, g) = FreeMethod(g.ret)
    BY <1>10, Families, FreedFamilies
  <2> HIDE DEF T
  <2> QED BY <1>g, <1>v, <2>1, MethodFreed DEF T, g
<1>11. CASE f \in Strings
  <2>1. T = Option(Text) /\ f \notin Plain /\ f \in Optional
    BY <1>11, Families
  <2>2. Shape(Text, 8, 4, 2)
    BY Shapes
  <2>3. /\ v.tag \in {0, 1}
        /\ v.tag = 0 => Owned(Option(Text).mem[v]) = {}
        /\ v.tag = 1 => /\ v.val \in Values(Text)
                        /\ Owned(Option(Text).mem[v]) = Owned(Text.mem[v.val])
    BY <1>v, <2>1, <2>2, OwnedOption
  <2>4. Freed(f, g) = IF g.rc THEN FreeText(g.ret) ELSE {}
    BY <1>11, FreedFamilies
  <2> HIDE DEF T
  <2> QED BY <1>g, <1>h, <2>1, <2>3, <2>4, OwnedText DEF T, g
<1>12. CASE f \in Schemes
  <2>1. T = Option(Scheme) /\ f \notin Plain /\ f \in Optional
    BY <1>12, Families
  <2>2. Shape(Scheme, 12, 4, 3)
    BY SchemeShape
  <2>3. /\ v.tag \in {0, 1}
        /\ v.tag = 0 => Owned(Option(Scheme).mem[v]) = {}
        /\ v.tag = 1 => /\ v.val \in Values(Scheme)
                        /\ Owned(Option(Scheme).mem[v]) = Owned(Scheme.mem[v.val])
    BY <1>v, <2>1, <2>2, OwnedOption
  <2>4. Freed(f, g) = IF g.rc THEN FreeScheme(g.ret) ELSE {}
    BY <1>12, FreedFamilies
  <2> HIDE DEF T
  <2> QED BY <1>g, <1>h, <2>1, <2>3, <2>4, SchemeFreed DEF T, g
<1>13. CASE f \in Timeouts
  <2>1. T = Option(Word(8)) /\ f \notin Plain /\ f \in Optional
    BY <1>13, Families
  <2>2. Shape(Word(8), 8, 8, 1)
    BY Shapes
  <2>3. /\ v.tag \in {0, 1}
        /\ v.tag = 0 => Owned(Option(Word(8)).mem[v]) = {}
        /\ v.tag = 1 => /\ v.val \in Values(Word(8))
                        /\ Owned(Option(Word(8)).mem[v]) = Owned(Word(8).mem[v.val])
    BY <1>v, <2>1, <2>2, OwnedOption
  <2>4. Freed(f, g) = {}
    BY <1>13, FreedFamilies
  <2> HIDE DEF T
  <2> QED BY <1>g, <1>h, <2>1, <2>3, <2>4, OwnedUnit DEF T, g
<1>14. CASE f = "http-error-code"
  <2>1. T = Option(ErrorCode) /\ f \notin Plain /\ f \in Optional
    BY <1>14, Families
  <2>2. Shape(ErrorCode, 32, 8, 7)
    BY ErrorCodes
  <2>3. /\ v.tag \in {0, 1}
        /\ v.tag = 0 => Owned(Option(ErrorCode).mem[v]) = {}
        /\ v.tag = 1 => /\ v.val \in Values(ErrorCode)
                        /\ Owned(Option(ErrorCode).mem[v]) = Owned(ErrorCode.mem[v.val])
    BY <1>v, <2>1, <2>2, OwnedOption
  <2>4. Freed(f, g) = IF g.rc THEN FreeErrorCode(g.ret) ELSE {}
    BY <1>14, FreedFamilies
  <2> HIDE DEF T
  <2> QED BY <1>g, <1>h, <2>1, <2>3, <2>4, ErrorCodeFreed DEF T, g
<1>15. CASE f = "future-trailers.get"
  <2>1. T = Option(Result(TrailersResult, Unit)) /\ f \notin Plain /\ f \in Optional
    BY <1>15, Families
  <2>2. Shape(Result(TrailersResult, Unit), 48, 8, 9)
    BY Results
  <2>3. /\ v.tag \in {0, 1}
        /\ v.tag = 0 => Owned(Option(Result(TrailersResult, Unit)).mem[v]) = {}
        /\ v.tag = 1 => /\ v.val \in Values(Result(TrailersResult, Unit))
                        /\ Owned(Option(Result(TrailersResult, Unit)).mem[v]) =
                             Owned(Result(TrailersResult, Unit).mem[v.val])
    BY <1>v, <2>1, <2>2, OwnedOption
  <2>4. Freed(f, g) = IF g.rc THEN FreeNestedResult(g.ret) ELSE {}
    BY <1>15, FreedFamilies
  <2>5. /\ Shape(Option(Handle), 8, 4, 2) /\ WellFormed(TrailersResult)
        /\ PayloadAt(<<Option(Handle), ErrorCode>>) = 8
        /\ PayloadAt(<<TrailersResult, Unit>>) = 8
        /\ TrailersResult = Result(Option(Handle), ErrorCode)
    BY Shapes, Options, Results DEF Shape, TrailersResult
  <2>6. \A u \in Values(Option(Handle)) : Owned(Option(Handle).mem[u]) = {}
    BY OptionWordFreed DEF Handle
  <2>7. \A u \in Values(Result(TrailersResult, Unit)) :
          FreeNestedResult(u) = Owned(Result(TrailersResult, Unit).mem[u])
    BY <2>5, <2>6, NestedFreed
  <2> HIDE DEF T
  <2> QED BY <1>g, <1>h, <2>1, <2>3, <2>4, <2>7 DEF T, g
<1>16. CASE f = "future-incoming-response.get"
  <2>1. T = Option(Result(ResponseResult, Unit)) /\ f \notin Plain /\ f \in Optional
    BY <1>16, Families
  <2>2. Shape(Result(ResponseResult, Unit), 48, 8, 9)
    BY Results
  <2>3. /\ v.tag \in {0, 1}
        /\ v.tag = 0 => Owned(Option(Result(ResponseResult, Unit)).mem[v]) = {}
        /\ v.tag = 1 => /\ v.val \in Values(Result(ResponseResult, Unit))
                        /\ Owned(Option(Result(ResponseResult, Unit)).mem[v]) =
                             Owned(Result(ResponseResult, Unit).mem[v.val])
    BY <1>v, <2>1, <2>2, OwnedOption
  <2>4. Freed(f, g) = IF g.rc THEN FreeNestedResult(g.ret) ELSE {}
    BY <1>16, FreedFamilies
  <2>5. /\ Shape(Handle, 4, 4, 1) /\ WellFormed(ResponseResult)
        /\ PayloadAt(<<Handle, ErrorCode>>) = 8
        /\ PayloadAt(<<ResponseResult, Unit>>) = 8
        /\ ResponseResult = Result(Handle, ErrorCode)
    BY Shapes, Options, Results DEF Shape, ResponseResult
  <2>6. \A u \in Values(Handle) : Owned(Handle.mem[u]) = {}
    BY <1>h
  <2>7. \A u \in Values(Result(ResponseResult, Unit)) :
          FreeNestedResult(u) = Owned(Result(ResponseResult, Unit).mem[u])
    BY <2>5, <2>6, NestedFreed
  <2> HIDE DEF T
  <2> QED BY <1>g, <1>h, <2>1, <2>3, <2>4, <2>7 DEF T, g
<1> QED
  BY <1>1, <1>2, <1>3, <1>4, <1>5, <1>6, <1>7, <1>8, <1>9, <1>10, <1>11, <1>12,
     <1>13, <1>14, <1>15, <1>16 DEF Functions

------------------------------------------------------------------------------
(* Lowering                                                                  *)

\* ImportArguments is instantiated with the constants of this module, so its
\* types are these types.
LEMMA SameValues ==
  /\ Arguments!Nothing = Nothing
  /\ \A t : Arguments!Tag(t) = Tag(t)
  /\ Arguments!Wide = {Num(8, n) : n \in Ints[8]}
BY DEF Arguments!Nothing, Arguments!Fields, Nothing, Fields, Arguments!Tag, Tag,
       Arguments!Wide, Arguments!Num, Num

\* The types of the module that is instantiated are those that are extended.
LEMMA SameText == Arguments!Text = Text
BY DEF Arguments!Text, Arguments!Texts, Arguments!TextOf, Arguments!Ptr,
       Arguments!Cell, Arguments!Beside, Arguments!Shifted, Arguments!Slot,
       Text, Texts, TextOf, Ptr, Cell, Beside, Shifted, Slot

\* The same.
LEMMA SameUnit == Arguments!Unit = Unit
BY DEF Arguments!Unit, Arguments!NoCells, Arguments!Nothing, Arguments!Fields,
       Unit, NoCells, Nothing, Fields

\* The same.
LEMMA SameWord ==
  ASSUME NEW w PROVE Arguments!Word(w) = Word(w)
BY DEF Arguments!Word, Arguments!Num, Arguments!Cell, Arguments!Slot,
       Word, Num, Cell, Slot

\* The same.
LEMMA SamePair ==
  ASSUME NEW S, NEW T PROVE Arguments!Pair(S, T) = Pair(S, T)
BY DEF Arguments!Pair, Arguments!Pairs, Arguments!RoundUp, Arguments!Values,
       Arguments!Max, Arguments!Beside, Arguments!Shifted, Arguments!Fields,
       Pair, Pairs, RoundUp, Values, Max, Beside, Shifted, Fields

\* The same.
LEMMA SameVariant ==
  ASSUME NEW ts PROVE Arguments!Variant(ts) = Variant(ts)
BY DEF Arguments!Variant, Arguments!Cases, Arguments!AlignOfAny, Arguments!SizeOfAny,
       Arguments!SlotsOfAny, Arguments!PayloadAt, Arguments!RoundUp,
       Arguments!Values, Arguments!Max, Arguments!Case, Arguments!Tag,
       Arguments!Cell, Arguments!Slot, Arguments!Beside, Arguments!Shifted,
       Variant, Cases, AlignOfAny, SizeOfAny, SlotsOfAny, PayloadAt, RoundUp,
       Values, Max, Case, Tag, Cell, Slot, Beside, Shifted

\* The same.
LEMMA SameCombinators ==
  /\ \A T : Arguments!Option(T) = Option(T)
  /\ \A T, E : Arguments!Result(T, E) = Result(T, E)
BY SameVariant, SameUnit DEF Arguments!Option, Arguments!Result, Option, Result

\* The same.
LEMMA SameTypes ==
  /\ Arguments!Handle = Handle
  /\ Arguments!Method = Method
  /\ Arguments!Scheme = Scheme
  /\ Arguments!ErrorCode = ErrorCode
<1>1. Arguments!Handle = Handle
  BY SameWord DEF Arguments!Handle, Handle
<1>2. Arguments!MethodCases = MethodCases /\ Arguments!SchemeCases = SchemeCases
  BY SameText, SameUnit DEF Arguments!MethodCases, Arguments!MethodOther,
     Arguments!SchemeCases, MethodCases, MethodOther, SchemeCases
<1>3. Arguments!Method = Method /\ Arguments!Scheme = Scheme
  BY <1>2, SameVariant DEF Arguments!Method, Arguments!Scheme, Method, Scheme
<1>4. /\ Arguments!DnsErrorPayload = DnsErrorPayload
      /\ Arguments!TlsAlertReceivedPayload = TlsAlertReceivedPayload
      /\ Arguments!FieldSizePayload = FieldSizePayload
  BY SamePair, SameCombinators, SameText, SameWord
     DEF Arguments!DnsErrorPayload, Arguments!TlsAlertReceivedPayload,
         Arguments!FieldSizePayload, DnsErrorPayload, TlsAlertReceivedPayload,
         FieldSizePayload
<1>5. ASSUME NEW t PROVE Arguments!ErrorPayload(t) = ErrorPayload(t)
  BY <1>4, SameCombinators, SameText, SameWord, SameUnit
     DEF Arguments!ErrorPayload, ErrorPayload
<1>6. Arguments!ErrorCases = ErrorCases
  BY <1>5 DEF Arguments!ErrorCases, ErrorCases
<1>7. Arguments!ErrorCode = ErrorCode
  BY <1>6, SameVariant DEF Arguments!ErrorCode, ErrorCode
<1> QED BY <1>1, <1>3, <1>7

\* What a slot can carry, and what it can carry in 32 bits.
TextParts == {v.ptr : v \in Texts} \cup {v.len : v \in Texts}
WordParts == UNION {Values(Word(w)) : w \in {1, 2, 4, 8}}
Atoms     == {Tag(t) : t \in Nat} \cup WordParts \cup TextParts
Narrow == Atoms \ Arguments!Wide

\* Tags, texts and words of up to four bytes fit a slot of 32 bits.
LEMMA NarrowAtoms ==
  /\ \A t \in Nat : Tag(t) \in Narrow
  /\ \A v \in Values(Word(8)) : v \in Atoms
  /\ \A w \in {1, 2, 4} : \A v \in Values(Word(w)) : v \in Narrow
  /\ \A v \in Texts : v.ptr \in Narrow /\ v.len \in Narrow
<1>1. \A x \in Arguments!Wide : x.k = "int" /\ x.w = 8
  BY SameValues DEF Num
<1>2. \A t \in Nat : Tag(t) \in Atoms /\ Tag(t).k = "tag"
  BY DEF Tag, Atoms
<1>3. ASSUME NEW w \in {1, 2, 4, 8}, NEW v \in Values(Word(w))
      PROVE  v \in Atoms /\ v.w = w
  <2>1. v \in {Num(w, n) : n \in Ints[w]}
    BY DEF Word, Values
  <2> QED BY <2>1 DEF Num, Atoms, WordParts
<1>4. ASSUME NEW v \in Texts PROVE v.ptr \in Narrow /\ v.len \in Narrow
  <2>1. v.ptr \in Atoms /\ v.len \in Atoms
    <3>1. v.ptr \in TextParts /\ v.len \in TextParts
      BY DEF TextParts
    <3> QED BY <3>1 DEF Atoms
  <2>2. v.ptr.k = "ptr" /\ v.len.k = "len"
    BY DEF Texts, TextOf, Ptr
  <2> QED BY <1>1, <2>1, <2>2 DEF Narrow
<1>5. ASSUME NEW w \in {1, 2, 4}, NEW v \in Values(Word(w)) PROVE v \in Narrow
  BY <1>1, <1>3 DEF Narrow
<1> QED BY <1>1, <1>2, <1>3, <1>4, <1>5 DEF Narrow

\* The sequence s spreads the value v over n slots.
Spread(s, X, n, T, v) ==
  s \in Seq(X) /\ Len(s) = n /\ Holds(s, 1, T.args[v])

\* A run of zeros is a run of tags 0.
LEMMA ZerosAre ==
  ASSUME NEW n \in Nat
  PROVE  /\ Arguments!Zeros(n) \in Seq(Narrow) /\ Len(Arguments!Zeros(n)) = n
         /\ \A i \in 1 .. n : Arguments!Zeros(n)[i] = Tag(0)
<1> DEFINE z == Arguments!Zeros(n)
<1>1. Tag(0) \in Narrow
  BY NarrowAtoms
<1>2. z = [i \in 1 .. n |-> Tag(0)]
  BY SameValues DEF Arguments!Zeros, Arguments!Zero
<1> HIDE DEF z
<1>3. z \in [1 .. n -> Narrow]
  BY <1>1, <1>2
<1>4. z \in Seq(Narrow)
  BY <1>3, SeqDef
<1>5. Len(z) = n
  BY <1>3, <1>4, LenProperties
<1> QED BY <1>2, <1>4, <1>5 DEF z

\* An image of core arguments stays where it is when others follow, and moves up
\* when others go before it.
LEMMA HoldsConcat ==
  ASSUME NEW X, NEW s1 \in Seq(X), NEW s2 \in Seq(X), NEW m, DOMAIN m \subseteq Nat
  PROVE  /\ Holds(s1, 1, m) => Holds(s1 \o s2, 1, m)
         /\ Holds(s2, 1, m) => Holds(s1 \o s2, 1 + Len(s1), m)
         /\ s1 \o s2 \in Seq(X) /\ Len(s1 \o s2) = Len(s1) + Len(s2)
<1> DEFINE s == s1 \o s2
           l1 == Len(s1)
           l2 == Len(s2)
<1>1. /\ l1 \in Nat /\ DOMAIN s1 = 1 .. l1
      /\ l2 \in Nat /\ DOMAIN s2 = 1 .. l2
  BY LenProperties
<1>2. /\ s \in Seq(X) /\ Len(s) = l1 + l2
      /\ \A i \in 1 .. l1 + l2 : s[i] = IF i <= l1 THEN s1[i] ELSE s2[i - l1]
  BY ConcatProperties
<1> HIDE DEF s, l1, l2
<1>3. DOMAIN s = 1 .. l1 + l2
  BY <1>2, LenProperties
<1>4. ASSUME Holds(s1, 1, m) PROVE Holds(s, 1, m)
  BY <1>1, <1>2, <1>3, <1>4 DEF Holds
<1>5. ASSUME Holds(s2, 1, m) PROVE Holds(s, 1 + l1, m)
  <2> SUFFICES ASSUME NEW q \in DOMAIN m
               PROVE  1 + l1 + q \in DOMAIN s /\ s[1 + l1 + q] = m[q]
    BY DEF Holds
  <2>1. 1 + q \in 1 .. l2 /\ s2[1 + q] = m[q]
    BY <1>1, <1>5 DEF Holds
  <2>2. q \in Nat
    OBVIOUS
  <2>3. 1 + l1 + q \in 1 .. l1 + l2 /\ ~(1 + l1 + q <= l1)
        /\ (1 + l1 + q) - l1 = 1 + q
    BY <1>1, <2>1, <2>2
  <2> QED BY <1>2, <1>3, <2>1, <2>3
<1> QED BY <1>2, <1>4, <1>5 DEF s, l1, l2

\* Core arguments spread a variant when a tag goes before the payload.
LEMMA VariantHolds ==
  ASSUME NEW ts, NEW n \in Nat, DOMAIN ts = 1 .. n,
         \A i \in DOMAIN ts : WellFormed(ts[i]),
         NEW v \in Values(Variant(ts)), NEW s, NEW p \in Nat
  PROVE  Holds(s, p, Variant(ts).args[v])
           <=> /\ p \in DOMAIN s /\ s[p] = Tag(v.tag)
               /\ Holds(s, p + 1, ts[v.tag + 1].args[v.val])
<1> DEFINE a1 == Slot(Tag(v.tag))
           T  == ts[v.tag + 1]
           a2 == T.args[v.val]
<1>1. /\ v.tag + 1 \in DOMAIN ts /\ v.val \in Values(T)
      /\ Variant(ts).args[v] = Beside(a1, Shifted(a2, 1))
  BY VariantParts
<1>2. DOMAIN a1 \subseteq 0 .. 1 - 1
  BY DEF Slot
<1>3. DOMAIN a2 \subseteq 0 .. T.slots - 1
  BY <1>1 DEF WellFormed
<1>4. DOMAIN a2 \subseteq Nat
  <2> HIDE DEF a2, T
  <2> QED BY <1>3
<1> HIDE DEF a1, a2
<1>5. Holds(s, p, Variant(ts).args[v]) <=> Holds(s, p, a1) /\ Holds(s, p + 1, a2)
  BY <1>1, <1>2, <1>4, HoldsParts
<1> QED BY <1>5, HoldsSlot DEF a1, a2

\* The same of a result.
LEMMA ResultHolds ==
  ASSUME NEW T, NEW E, WellFormed(T), WellFormed(E),
         NEW v \in Values(Result(T, E)), NEW s
  PROVE  /\ v.tag \in {0, 1}
         /\ v.tag = 0 => v.val \in Values(T)
         /\ v.tag = 1 => v.val \in Values(E)
         /\ /\ 1 \in DOMAIN s /\ s[1] = Tag(v.tag)
            /\ v.tag = 0 => Holds(s, 2, T.args[v.val])
            /\ v.tag = 1 => Holds(s, 2, E.args[v.val])
            => Holds(s, 1, Result(T, E).args[v])
<1> DEFINE ts == <<T, E>>
<1>1. DOMAIN ts = 1 .. 2 /\ ts[1] = T /\ ts[2] = E
  OBVIOUS
<1>2. \A i \in DOMAIN ts : WellFormed(ts[i])
  BY <1>1
<1>3. v \in Values(Variant(ts)) /\ Result(T, E) = Variant(ts)
  BY DEF Result
<1> HIDE DEF ts
<1>4. v.tag \in 0 .. 2 - 1 /\ v.val \in Values(ts[v.tag + 1])
  BY <1>1, <1>3, VariantParts
<1>5. Holds(s, 1, Variant(ts).args[v])
           <=> /\ 1 \in DOMAIN s /\ s[1] = Tag(v.tag)
               /\ Holds(s, 1 + 1, ts[v.tag + 1].args[v.val])
  BY <1>1, <1>2, <1>3, VariantHolds
<1> QED BY <1>1, <1>3, <1>4, <1>5

\* The same of an option, whose none has no payload.
LEMMA OptionHolds ==
  ASSUME NEW T, WellFormed(T), NEW v \in Values(Option(T)), NEW s
  PROVE  /\ v.tag \in {0, 1}
         /\ v.tag = 1 => v.val \in Values(T)
         /\ /\ 1 \in DOMAIN s /\ s[1] = Tag(v.tag)
            /\ v.tag = 1 => Holds(s, 2, T.args[v.val])
            => Holds(s, 1, Option(T).args[v])
<1>1. Option(T) = Result(Unit, T)
  BY DEF Option, Result
<1>2. \A u \in Values(Unit) : Holds(s, 2, Unit.args[u])
  BY Units DEF Unit, NoCells, Holds
<1>3. WellFormed(Unit)
  BY Units
<1>4. /\ v.tag \in {0, 1}
      /\ v.tag = 0 => v.val \in Values(Unit)
      /\ v.tag = 1 => v.val \in Values(T)
      /\ /\ 1 \in DOMAIN s /\ s[1] = Tag(v.tag)
         /\ v.tag = 0 => Holds(s, 2, Unit.args[v.val])
         /\ v.tag = 1 => Holds(s, 2, T.args[v.val])
         => Holds(s, 1, Result(Unit, T).args[v])
  BY <1>1, <1>3, ResultHolds
<1> QED BY <1>1, <1>2, <1>4

\* A slot before the others moves them up by one.
LEMMA TagBefore ==
  ASSUME NEW X, NEW x \in X, NEW s \in Seq(X), NEW m, DOMAIN m \subseteq Nat
  PROVE  /\ <<x>> \o s \in Seq(X) /\ Len(<<x>> \o s) = 1 + Len(s)
         /\ 1 \in DOMAIN (<<x>> \o s) /\ (<<x>> \o s)[1] = x
         /\ Holds(s, 1, m) => Holds(<<x>> \o s, 2, m)
<1> DEFINE t == <<x>>
           r == t \o s
<1>1. t \in Seq(X) /\ Len(t) = 1 /\ t[1] = x
  OBVIOUS
<1> HIDE DEF t
<1>2. /\ r \in Seq(X) /\ Len(r) = Len(t) + Len(s)
      /\ Holds(s, 1, m) => Holds(r, 1 + Len(t), m)
  BY <1>1, HoldsConcat
<1>3. r[1] = IF 1 <= Len(t) THEN t[1] ELSE s[1 - Len(t)]
  <2>1. Len(s) \in Nat
    BY LenProperties
  <2> QED BY <1>1, <2>1, ConcatProperties
<1> HIDE DEF r
<1>4. DOMAIN r = 1 .. 1 + Len(s) /\ Len(s) \in Nat
  BY <1>1, <1>2, LenProperties
<1> QED BY <1>1, <1>2, <1>3, <1>4 DEF r, t

\* An option goes as a tag and its payload, or as zeros.
LEMMA OptionSpread ==
  ASSUME NEW X, Narrow \subseteq X, NEW T, WellFormed(T), NEW n \in Nat,
         NEW v \in Values(Option(T)), NEW s,
         v.tag = 1 => Spread(s, X, n, T, v.val),
         NEW r, r = IF v.tag = 1 THEN <<Tag(1)>> \o s ELSE Arguments!Zeros(1 + n)
  PROVE  Spread(r, X, 1 + n, Option(T), v)
<1>1. v.tag \in {0, 1} /\ (v.tag = 1 => v.val \in Values(T))
  BY OptionHolds
<1>2. CASE v.tag = 1
  <2>1. DOMAIN T.args[v.val] \subseteq 0 .. T.slots - 1
    BY <1>1, <1>2 DEF WellFormed
  <2>2. DOMAIN T.args[v.val] \subseteq Nat
    BY <2>1
  <2>3. Tag(1) \in X /\ s \in Seq(X) /\ Len(s) = n /\ Holds(s, 1, T.args[v.val])
    BY <1>2, NarrowAtoms DEF Spread
  <2>4. /\ r \in Seq(X) /\ Len(r) = 1 + n
        /\ 1 \in DOMAIN r /\ r[1] = Tag(1)
        /\ Holds(r, 2, T.args[v.val])
    BY <1>2, <2>2, <2>3, TagBefore
  <2> QED BY <1>2, <2>4, OptionHolds DEF Spread
<1>3. CASE v.tag = 0
  <2>1. 1 + n \in Nat
    OBVIOUS
  <2>2. /\ r \in Seq(Narrow) /\ Len(r) = 1 + n
        /\ \A i \in 1 .. 1 + n : r[i] = Tag(0)
    <3>1. r = Arguments!Zeros(1 + n)
      BY <1>3
    <3> QED BY <2>1, <3>1, ZerosAre
  <2>3. 1 \in DOMAIN r /\ r[1] = Tag(0)
    BY <2>2, LenProperties
  <2>4. r \in Seq(X)
    BY <2>2, SeqMonotonic
  <2> QED BY <1>3, <2>2, <2>3, <2>4, OptionHolds DEF Spread
<1> QED BY <1>1, <1>2, <1>3

\* A record goes as its fields, one behind the other.
LEMMA PairSpread ==
  ASSUME NEW X, NEW S, NEW T, WellFormed(S), WellFormed(T),
         NEW v \in Values(Pair(S, T)), NEW s1, NEW s2, NEW n2 \in Nat,
         Spread(s1, X, S.slots, S, v.vs[1]), Spread(s2, X, n2, T, v.vs[2])
  PROVE  Spread(s1 \o s2, X, S.slots + n2, Pair(S, T), v)
<1> DEFINE a1 == S.args[v.vs[1]]
           a2 == T.args[v.vs[2]]
           n1 == S.slots
           s  == s1 \o s2
<1>1. /\ v.vs[1] \in Values(S) /\ v.vs[2] \in Values(T)
      /\ Pair(S, T).args[v] = Beside(a1, Shifted(a2, n1))
  BY PairParts
<1>2. DOMAIN a1 \subseteq 0 .. n1 - 1 /\ DOMAIN a2 \subseteq 0 .. T.slots - 1
      /\ n1 \in Nat
  BY <1>1 DEF WellFormed
<1>3. /\ s1 \in Seq(X) /\ Len(s1) = n1 /\ Holds(s1, 1, a1)
      /\ s2 \in Seq(X) /\ Len(s2) = n2 /\ Holds(s2, 1, a2)
  BY DEF Spread
<1> HIDE DEF a1, a2, n1
<1>4. DOMAIN a1 \subseteq Nat /\ DOMAIN a2 \subseteq Nat
  BY <1>2
<1>5. Holds(s, 1, a1) /\ s \in Seq(X) /\ Len(s) = n1 + n2
  BY <1>3, <1>4, HoldsConcat
<1>6. Holds(s, 1 + n1, a2)
  BY <1>3, <1>4, HoldsConcat
<1> HIDE DEF s
<1>7. Holds(s, 1, Beside(a1, Shifted(a2, n1)))
  BY <1>2, <1>4, <1>5, <1>6, HoldsParts
<1> QED BY <1>1, <1>5, <1>7 DEF Spread, n1, s

\* What fits narrow slots fits wider ones.
LEMMA SpreadWider ==
  ASSUME NEW s, NEW X, NEW Y, X \subseteq Y, NEW n, NEW T, NEW v, Spread(s, X, n, T, v)
  PROVE  Spread(s, Y, n, T, v)
BY SeqMonotonic DEF Spread

\* A text goes as its pointer and its length.
LEMMA LowerTextSpread ==
  ASSUME NEW v \in Values(Text)
  PROVE  Spread(Arguments!LowerText(v), Narrow, 2, Text, v)
<1> DEFINE s == Arguments!LowerText(v)
<1>1. v \in Texts /\ Text.args[v] = Beside(Slot(v.ptr), Shifted(Slot(v.len), 1))
  BY TextShape, TextsAre
<1>2. v.ptr \in Narrow /\ v.len \in Narrow
  BY <1>1, NarrowAtoms
<1>3. s = <<v.ptr, v.len>>
  BY DEF Arguments!LowerText
<1>4. /\ s \in Seq(Narrow) /\ Len(s) = 2 /\ DOMAIN s = 1 .. 2
      /\ s[1] = v.ptr /\ s[2] = v.len
  BY <1>2, <1>3
<1> HIDE DEF s
<1>5. Holds(s, 1, Slot(v.ptr)) /\ Holds(s, 1 + 1, Slot(v.len))
  BY <1>4, HoldsSlot
<1>6. DOMAIN Slot(v.ptr) \subseteq 0 .. 1 - 1 /\ DOMAIN Slot(v.len) \subseteq Nat
  BY DEF Slot
<1>7. Holds(s, 1, Text.args[v])
  BY <1>1, <1>5, <1>6, HoldsParts
<1> QED BY <1>4, <1>7 DEF Spread, s

\* option<string>.
LEMMA LowerOptionTextSpread ==
  ASSUME NEW v \in Values(Option(Text))
  PROVE  Spread(Arguments!LowerOptionText(v), Narrow, 3, Option(Text), v)
<1> DEFINE s == Arguments!LowerText(v.val)
           r == Arguments!LowerOptionText(v)
<1>1. WellFormed(Text)
  BY TextsAre
<1>2. v.tag = 1 => v.val \in Values(Text)
  BY <1>1, OptionHolds
<1>3. v.tag = 1 => Spread(s, Narrow, 2, Text, v.val)
  BY <1>2, LowerTextSpread
<1>4. r = IF v.tag = 1 THEN <<Tag(1)>> \o s ELSE Arguments!Zeros(1 + 2)
  BY SameValues DEF Arguments!LowerOptionText
<1> HIDE DEF s, r
<1>5. Spread(r, Narrow, 1 + 2, Option(Text), v)
  BY <1>1, <1>3, <1>4, OptionSpread
<1>6. 1 + 2 = 3
  OBVIOUS
<1> QED BY <1>5, <1>6 DEF r

\* An option of a word, in a slot as wide as the word.
LEMMA LowerOptionWordSpread ==
  ASSUME NEW w \in {1, 2, 4, 8}, NEW v \in Values(Option(Word(w))),
         NEW X, Narrow \subseteq X, Values(Word(w)) \subseteq X
  PROVE  Spread(Arguments!LowerOptionWord(v), X, 2, Option(Word(w)), v)
<1> DEFINE r == Arguments!LowerOptionWord(v)
<1>1. WellFormed(Word(w))
  BY WordsOf
<1>2. v.tag \in {0, 1} /\ (v.tag = 1 => v.val \in Values(Word(w)))
  BY <1>1, OptionHolds
<1>3. r = IF v.tag = 1 THEN <<Tag(1), v.val>> ELSE Arguments!Zeros(2)
  BY SameValues DEF Arguments!LowerOptionWord
<1> HIDE DEF r
<1>4. CASE v.tag = 1
  <2>1. Tag(1) \in X /\ v.val \in X
    BY <1>2, <1>4, NarrowAtoms
  <2>2. /\ r \in Seq(X) /\ Len(r) = 2 /\ DOMAIN r = 1 .. 2
        /\ r[1] = Tag(1) /\ r[2] = v.val
    BY <1>3, <1>4, <2>1
  <2>3. Word(w).args[v.val] = Slot(v.val)
    BY <1>2, <1>4 DEF Word, Values
  <2>4. Holds(r, 2, Word(w).args[v.val])
    BY <2>2, <2>3, HoldsSlot
  <2>5. 1 \in DOMAIN r
    BY <2>2
  <2> QED BY <1>1, <1>4, <2>2, <2>4, <2>5, OptionHolds DEF Spread, r
<1>5. CASE v.tag = 0
  <2>1. /\ r \in Seq(Narrow) /\ Len(r) = 2
        /\ \A i \in 1 .. 2 : r[i] = Tag(0)
    <3>1. r = Arguments!Zeros(2) /\ 2 \in Nat
      BY <1>3, <1>5
    <3> HIDE DEF r
    <3> QED BY <3>1, ZerosAre
  <2>2. 1 \in DOMAIN r /\ r[1] = Tag(0)
    BY <2>1, LenProperties
  <2>3. r \in Seq(X)
    BY <2>1, SeqMonotonic
  <2> QED BY <1>1, <1>5, <2>1, <2>2, <2>3, OptionHolds DEF Spread, r
<1> QED BY <1>2, <1>4, <1>5

\* The records inside error-code.
LEMMA LowerPayloadsSpread ==
  /\ \A v \in Values(DnsErrorPayload) :
       Spread(Arguments!LowerDnsErrorPayload(v), Narrow, 5, DnsErrorPayload, v)
  /\ \A v \in Values(TlsAlertReceivedPayload) :
       Spread(Arguments!LowerTlsAlertPayload(v), Narrow, 5, TlsAlertReceivedPayload, v)
  /\ \A v \in Values(FieldSizePayload) :
       Spread(Arguments!LowerFieldSizePayload(v), Narrow, 5, FieldSizePayload, v)
<1> DEFINE O(w) == Option(Word(w))
           S    == Option(Text)
           L(u) == Arguments!LowerOptionText(u)
           W(u) == Arguments!LowerOptionWord(u)
<1>1. /\ WellFormed(S) /\ S.slots = 3
      /\ \A w \in {1, 2, 4} : WellFormed(O(w)) /\ O(w).slots = 2
  BY Options DEF Shape
<1>2. /\ DnsErrorPayload = Pair(S, O(2)) /\ FieldSizePayload = Pair(S, O(4))
      /\ TlsAlertReceivedPayload = Pair(O(1), S)
  BY DEF DnsErrorPayload, FieldSizePayload, TlsAlertReceivedPayload
<1>3. \A u \in Values(S) : Spread(L(u), Narrow, 3, S, u)
  BY LowerOptionTextSpread
<1>4. \A w \in {1, 2, 4} : \A u \in Values(O(w)) : Spread(W(u), Narrow, 2, O(w), u)
  <2> SUFFICES ASSUME NEW w \in {1, 2, 4}, NEW u \in Values(O(w))
               PROVE  Spread(W(u), Narrow, 2, O(w), u)
    OBVIOUS
  <2>1. Values(Word(w)) \subseteq Narrow /\ w \in {1, 2, 4, 8}
    BY NarrowAtoms
  <2> QED BY <2>1, LowerOptionWordSpread
<1>5. \A v : /\ Arguments!LowerDnsErrorPayload(v) = L(v.vs[1]) \o W(v.vs[2])
             /\ Arguments!LowerTlsAlertPayload(v) = W(v.vs[1]) \o L(v.vs[2])
             /\ Arguments!LowerFieldSizePayload(v) = L(v.vs[1]) \o W(v.vs[2])
  BY DEF Arguments!LowerDnsErrorPayload, Arguments!LowerTlsAlertPayload,
         Arguments!LowerFieldSizePayload
<1> HIDE DEF S, O, L, W
<1>6. 3 + 2 = 5 /\ 2 + 3 = 5
  OBVIOUS
<1>7. ASSUME NEW w \in {1, 2, 4}, NEW v \in Values(Pair(S, O(w)))
      PROVE  Spread(L(v.vs[1]) \o W(v.vs[2]), Narrow, 5, Pair(S, O(w)), v)
  <2>1. v.vs[1] \in Values(S) /\ v.vs[2] \in Values(O(w))
    BY PairParts
  <2>2. /\ Spread(L(v.vs[1]), Narrow, S.slots, S, v.vs[1])
        /\ Spread(W(v.vs[2]), Narrow, 2, O(w), v.vs[2])
    BY <1>1, <1>3, <1>4, <2>1
  <2>3. Spread(L(v.vs[1]) \o W(v.vs[2]), Narrow, S.slots + 2, Pair(S, O(w)), v)
    BY <1>1, <2>2, PairSpread
  <2> QED BY <1>1, <1>6, <2>3
<1>8. ASSUME NEW v \in Values(Pair(O(1), S))
      PROVE  Spread(W(v.vs[1]) \o L(v.vs[2]), Narrow, 5, Pair(O(1), S), v)
  <2>1. v.vs[1] \in Values(O(1)) /\ v.vs[2] \in Values(S)
    BY PairParts
  <2>2. /\ Spread(W(v.vs[1]), Narrow, O(1).slots, O(1), v.vs[1])
        /\ Spread(L(v.vs[2]), Narrow, 3, S, v.vs[2])
    BY <1>1, <1>3, <1>4, <2>1
  <2>3. Spread(W(v.vs[1]) \o L(v.vs[2]), Narrow, O(1).slots + 3, Pair(O(1), S), v)
    BY <1>1, <2>2, PairSpread
  <2> QED BY <1>1, <1>6, <2>3
<1> QED BY <1>2, <1>5, <1>7, <1>8

\* option<field-size-payload>.
LEMMA LowerOptionFieldSizeSpread ==
  ASSUME NEW v \in Values(Option(FieldSizePayload))
  PROVE  Spread(Arguments!LowerOptionFieldSize(v), Narrow, 6,
                Option(FieldSizePayload), v)
<1> DEFINE s == Arguments!LowerFieldSizePayload(v.val)
           r == Arguments!LowerOptionFieldSize(v)
           T == FieldSizePayload
<1>1. WellFormed(T)
  BY Payloads DEF Shape
<1>2. v.tag = 1 => v.val \in Values(T)
  BY <1>1, OptionHolds
<1>3. v.tag = 1 => Spread(s, Narrow, 5, T, v.val)
  BY <1>2, LowerPayloadsSpread
<1>4. r = IF v.tag = 1 THEN <<Tag(1)>> \o s ELSE Arguments!Zeros(1 + 5)
  <2>1. 1 + 5 = 6
    OBVIOUS
  <2> QED BY <2>1, SameValues DEF Arguments!LowerOptionFieldSize
<1> HIDE DEF s, r, T
<1>5. Spread(r, Narrow, 1 + 5, Option(T), v)
  <2>1. v \in Values(Option(T))
    BY DEF T
  <2> QED BY <1>1, <1>3, <1>4, <2>1, OptionSpread
<1>6. 1 + 5 = 6
  OBVIOUS
<1> QED BY <1>5, <1>6 DEF r, T

\* The payloads of error-code share six slots, of which the second is 64 bits wide.
LEMMA FilledSpread ==
  ASSUME NEW s, NEW X, Narrow \subseteq X, NEW n \in Nat, NEW k \in 0 .. n,
         NEW T, NEW v,
         DOMAIN T.args[v] \subseteq Nat, Spread(s, X, k, T, v)
  PROVE  /\ Spread(Arguments!Filled(s, n), X, n, T, v)
         /\ \A i \in 1 .. n : Arguments!Filled(s, n)[i] \notin Narrow =>
                                i <= k /\ Arguments!Filled(s, n)[i] = s[i]
<1> DEFINE z == Arguments!Zeros(n - k)
           r == s \o z
<1>1. s \in Seq(X) /\ Len(s) = k /\ Holds(s, 1, T.args[v])
  BY DEF Spread
<1>2. Arguments!Filled(s, n) = r
  BY <1>1 DEF Arguments!Filled
<1>3. z \in Seq(Narrow) /\ Len(z) = n - k /\ \A i \in 1 .. n - k : z[i] = Tag(0)
  <2>1. n - k \in Nat
    OBVIOUS
  <2> QED BY <2>1, ZerosAre
<1> HIDE DEF z
<1>4. z \in Seq(X)
  BY <1>3, SeqMonotonic
<1>5. r \in Seq(X) /\ Len(r) = Len(s) + Len(z) /\ Holds(r, 1, T.args[v])
  BY <1>1, <1>4, HoldsConcat
<1>6. \A i \in 1 .. Len(s) + Len(z) :
        r[i] = IF i <= Len(s) THEN s[i] ELSE z[i - Len(s)]
  BY <1>1, <1>4, ConcatProperties
<1> HIDE DEF r
<1>7. k + (n - k) = n
  OBVIOUS
<1>8. \A i \in 1 .. n : r[i] \in Narrow \/ (i <= k /\ r[i] = s[i])
  <2> SUFFICES ASSUME NEW i \in 1 .. n, ~(i <= k) PROVE r[i] \in Narrow
    BY <1>1, <1>3, <1>6, <1>7
  <2>1. i - k \in 1 .. n - k
    OBVIOUS
  <2>2. r[i] = z[i - k]
    BY <1>1, <1>3, <1>6, <1>7
  <2> QED BY <1>3, <2>1, <2>2, NarrowAtoms
<1>9. Spread(r, X, n, T, v)
  <2>1. Len(r) = n
    BY <1>1, <1>3, <1>5, <1>7
  <2> QED BY <1>5, <2>1 DEF Spread
<1> HIDE DEF r
<1>10. Spread(Arguments!Filled(s, n), X, n, T, v)
  BY <1>2, <1>9
<1>11. \A i \in 1 .. n : Arguments!Filled(s, n)[i] \notin Narrow =>
                          i <= k /\ Arguments!Filled(s, n)[i] = s[i]
  BY <1>2, <1>8
<1> QED BY <1>10, <1>11

\* The payload of error-code, filled up to six slots; only the second one can be
\* wide.
LEMMA LowerErrorPayloadSpread ==
  ASSUME NEW v, v.tag \in 0 .. 38, v.val \in Values(ErrorPayload(v.tag))
  PROVE  LET r == Arguments!Filled(Arguments!LowerErrorPayload(v), 6)
         IN  /\ Spread(r, Atoms, 6, ErrorPayload(v.tag), v.val)
             /\ \A i \in 1 .. 6 : i # 2 => r[i] \in Narrow
<1> DEFINE t == v.tag
           T == ErrorPayload(t)
           s == Arguments!LowerErrorPayload(v)
           r == Arguments!Filled(s, 6)
           u == v.val
<1>1. /\ t = 1 => T = DnsErrorPayload
      /\ t = 14 => T = TlsAlertReceivedPayload
      /\ t \in {17, 28} => T = Option(Word(8))
      /\ t \in {21, 23, 26, 29} => T = Option(Word(4))
      /\ t = 22 => T = Option(FieldSizePayload)
      /\ t \in {24, 27, 30} => T = FieldSizePayload
      /\ t \in {31, 32, 38} => T = Option(Text)
      /\ t \notin {1, 14, 17, 28, 21, 23, 26, 29, 22, 24, 27, 30, 31, 32, 38} =>
           T = Unit
  BY ErrorPayloads
<1>2. /\ t = 1 => s = Arguments!LowerDnsErrorPayload(u)
      /\ t = 14 => s = Arguments!LowerTlsAlertPayload(u)
      /\ t \in {17, 28, 21, 23, 26, 29} => s = Arguments!LowerOptionWord(u)
      /\ t = 22 => s = Arguments!LowerOptionFieldSize(u)
      /\ t \in {24, 27, 30} => s = Arguments!LowerFieldSizePayload(u)
      /\ t \in {31, 32, 38} => s = Arguments!LowerOptionText(u)
      /\ t \notin {1, 14, 17, 28, 21, 23, 26, 29, 22, 24, 27, 30, 31, 32, 38} =>
           s = <<>>
  BY SMTT(20) DEF Arguments!LowerErrorPayload
<1>3. WellFormed(T)
  <2>1. T = ErrorCases[t + 1] /\ t + 1 \in 1 .. 39
    BY ErrorCodes
  <2> QED BY <2>1, ErrorCodes
<1>4. DOMAIN T.args[u] \subseteq Nat
  <2>1. DOMAIN T.args[u] \subseteq 0 .. T.slots - 1
    BY <1>3 DEF WellFormed
  <2> QED BY <2>1
<1> HIDE DEF T, s, r
<1>5. Narrow \subseteq Atoms /\ Values(Word(8)) \subseteq Atoms
        /\ Values(Word(4)) \subseteq Narrow
  BY NarrowAtoms DEF Narrow
<1>6. ASSUME NEW k \in 0 .. 6, Spread(s, Narrow, k, T, u)
      PROVE  Spread(r, Atoms, 6, T, u) /\ \A i \in 1 .. 6 : r[i] \in Narrow
  <2>1. /\ Spread(r, Narrow, 6, T, u)
        /\ \A i \in 1 .. 6 : r[i] \in Narrow \/ (i <= k /\ r[i] = s[i])
    <3>1. 6 \in Nat
      OBVIOUS
    <3> QED BY <1>4, <1>6, <3>1, FilledSpread DEF r
  <2>2. \A i \in 1 .. k : s[i] \in Narrow
    BY <1>6, ElementOfSeq DEF Spread
  <2>3. Spread(r, Atoms, 6, T, u)
    BY <1>5, <2>1, SpreadWider
  <2> QED BY <2>1, <2>2, <2>3
<1>7. CASE t = 1
  <2>1. Spread(s, Narrow, 5, T, u)
    BY <1>1, <1>2, <1>7, LowerPayloadsSpread DEF T
  <2> QED BY <1>6, <2>1 DEF r, s, T
<1>8. CASE t = 14
  <2>1. Spread(s, Narrow, 5, T, u)
    BY <1>1, <1>2, <1>8, LowerPayloadsSpread DEF T
  <2> QED BY <1>6, <2>1 DEF r, s, T
<1>9. CASE t \in {24, 27, 30}
  <2>1. Spread(s, Narrow, 5, T, u)
    BY <1>1, <1>2, <1>9, LowerPayloadsSpread DEF T
  <2> QED BY <1>6, <2>1 DEF r, s, T
<1>10. CASE t = 22
  <2>1. Spread(s, Narrow, 6, T, u)
    BY <1>1, <1>2, <1>10, LowerOptionFieldSizeSpread DEF T
  <2> QED BY <1>6, <2>1 DEF r, s, T
<1>11. CASE t \in {31, 32, 38}
  <2>1. Spread(s, Narrow, 3, T, u)
    BY <1>1, <1>2, <1>11, LowerOptionTextSpread DEF T
  <2> QED BY <1>6, <2>1 DEF r, s, T
<1>12. CASE t \in {21, 23, 26, 29}
  <2>1. T = Option(Word(4)) /\ s = Arguments!LowerOptionWord(u)
    BY <1>1, <1>2, <1>12
  <2>2. u \in Values(Option(Word(4)))
    BY <2>1 DEF T
  <2>3. Spread(s, Narrow, 2, T, u)
    BY <1>5, <2>1, <2>2, LowerOptionWordSpread
  <2> QED BY <1>6, <2>3 DEF r, s, T
<1>13. CASE t \notin {1, 14, 17, 28, 21, 23, 26, 29, 22, 24, 27, 30, 31, 32, 38}
  <2>1. T = Unit /\ s = <<>>
    BY <1>1, <1>2, <1>13
  <2>2. u = Nothing
    BY <2>1, Units DEF T
  <2>3. Unit.args[u] = NoCells
    BY <2>2 DEF Unit
  <2>4. Holds(s, 1, T.args[u])
    BY <2>1, <2>3 DEF Holds, NoCells
  <2>5. s \in Seq(Narrow) /\ Len(s) = 0
    BY <2>1, EmptySeq
  <2>6. Spread(s, Narrow, 0, T, u)
    BY <2>4, <2>5 DEF Spread
  <2> QED BY <1>6, <2>6 DEF r, s, T
<1>14. CASE t \in {17, 28}
  <2>1. T = Option(Word(8)) /\ s = Arguments!LowerOptionWord(u)
    BY <1>1, <1>2, <1>14
  <2>2. u \in Values(Option(Word(8)))
    BY <2>1 DEF T
  <2>3. Spread(s, Atoms, 2, T, u)
    BY <1>5, <2>1, <2>2, LowerOptionWordSpread
  <2>4. /\ Spread(r, Atoms, 6, T, u)
        /\ \A i \in 1 .. 6 : r[i] \in Narrow \/ (i <= 2 /\ r[i] = s[i])
    <3>1. 2 \in 0 .. 6 /\ 6 \in Nat
      OBVIOUS
    <3> QED BY <1>4, <1>5, <2>3, <3>1, FilledSpread DEF r
  <2>5. s[1] \in Narrow
    <3>1. s[1] = Tag(1) \/ s[1] = Tag(0)
      BY <2>1, SameValues, ZerosAre DEF Arguments!LowerOptionWord
    <3> QED BY <3>1, NarrowAtoms
  <2> QED BY <2>4, <2>5 DEF r, s, T
<1> QED
  BY <1>7, <1>8, <1>9, <1>10, <1>11, <1>12, <1>13, <1>14 DEF r, s, T

\* error-code: its tag goes first, so only the third slot can be wide.
LEMMA LowerErrorCodeSpread ==
  ASSUME NEW v \in Values(ErrorCode)
  PROVE  LET r == Arguments!LowerErrorCode(v)
         IN  /\ Spread(r, Atoms, 7, ErrorCode, v)
             /\ \A i \in 1 .. 7 : i # 3 => r[i] \in Narrow
<1> DEFINE T == ErrorPayload(v.tag)
           s == Arguments!Filled(Arguments!LowerErrorPayload(v), 6)
           r == Arguments!LowerErrorCode(v)
<1>1. /\ DOMAIN ErrorCases = 1 .. 39
      /\ \A i \in 1 .. 39 : ErrorCases[i] = ErrorPayload(i - 1)
      /\ \A i \in 1 .. 39 : WellFormed(ErrorCases[i])
  BY ErrorCodes
<1>2. v \in Values(Variant(ErrorCases)) /\ ErrorCode = Variant(ErrorCases)
  BY DEF ErrorCode
<1>3. v.tag \in 0 .. 38 /\ v.val \in Values(ErrorCases[v.tag + 1])
  <2>1. 39 - 1 = 38
    OBVIOUS
  <2> QED BY <1>1, <1>2, <2>1, VariantParts
<1>4. ErrorCases[v.tag + 1] = T /\ WellFormed(T)
  BY <1>1, <1>3
<1>5. Spread(s, Atoms, 6, T, v.val) /\ \A i \in 1 .. 6 : i # 2 => s[i] \in Narrow
  BY <1>3, <1>4, LowerErrorPayloadSpread
<1>6. r = <<Tag(v.tag)>> \o s
  BY SameValues DEF Arguments!LowerErrorCode
<1>7. Tag(v.tag) \in Narrow /\ Tag(v.tag) \in Atoms
  BY <1>3, NarrowAtoms DEF Narrow
<1>8. DOMAIN T.args[v.val] \subseteq Nat
  <2>1. DOMAIN T.args[v.val] \subseteq 0 .. T.slots - 1
    BY <1>3, <1>4 DEF WellFormed
  <2> QED BY <2>1
<1> HIDE DEF T, s, r
<1>9. s \in Seq(Atoms) /\ Len(s) = 6 /\ Holds(s, 1, T.args[v.val])
  BY <1>5 DEF Spread
<1>10. /\ r \in Seq(Atoms) /\ Len(r) = 1 + 6
       /\ 1 \in DOMAIN r /\ r[1] = Tag(v.tag)
       /\ Holds(r, 1 + 1, ErrorCases[v.tag + 1].args[v.val])
  <2> DEFINE x == Tag(v.tag)
             m == T.args[v.val]
  <2>1. x \in Atoms /\ DOMAIN m \subseteq Nat
    BY <1>7, <1>8
  <2> HIDE DEF x, m
  <2>2. /\ <<x>> \o s \in Seq(Atoms) /\ Len(<<x>> \o s) = 1 + Len(s)
        /\ 1 \in DOMAIN (<<x>> \o s) /\ (<<x>> \o s)[1] = x
        /\ Holds(s, 1, m) => Holds(<<x>> \o s, 2, m)
    BY <1>9, <2>1, TagBefore
  <2> QED BY <1>4, <1>6, <1>9, <2>2 DEF x, m
<1>11. Holds(r, 1, Variant(ErrorCases).args[v])
  <2>1. DOMAIN ErrorCases = 1 .. 39
    BY <1>1
  <2>2. \A i \in DOMAIN ErrorCases : WellFormed(ErrorCases[i])
    BY <1>1
  <2> QED BY <1>2, <1>10, <2>1, <2>2, VariantHolds
<1>12. \A i \in 2 .. 7 : r[i] = s[i - 1]
  <2>1. <<Tag(v.tag)>> \in Seq(Atoms) /\ Len(<<Tag(v.tag)>>) = 1
    BY <1>7
  <2>2. \A i \in 1 .. 1 + 6 : r[i] = IF i <= 1 THEN <<Tag(v.tag)>>[i] ELSE s[i - 1]
    BY <1>6, <1>9, <2>1, ConcatProperties
  <2> QED BY <2>2
<1>13. \A i \in 1 .. 7 : i # 3 => r[i] \in Narrow
  <2> SUFFICES ASSUME NEW i \in 1 .. 7, i # 3 PROVE r[i] \in Narrow
    OBVIOUS
  <2>1. CASE i = 1
    BY <1>7, <1>10, <2>1
  <2>2. CASE i # 1
    <3>1. i \in 2 .. 7 /\ i - 1 \in 1 .. 6 /\ i - 1 # 2
      BY <2>2
    <3> QED BY <1>5, <1>12, <3>1
  <2> QED BY <2>1, <2>2
<1>14. 1 + 6 = 7
  OBVIOUS
<1>15. Spread(r, Atoms, 7, ErrorCode, v)
  BY <1>2, <1>10, <1>11, <1>14 DEF Spread
<1> QED BY <1>13, <1>15 DEF r

\* result<handle, error-code>: only the fourth slot can be wide.
LEMMA LowerResponseSpread ==
  ASSUME NEW v \in Values(Result(Handle, ErrorCode))
  PROVE  LET r == Arguments!LowerResponse(v)
         IN  /\ Spread(r, Atoms, 8, Result(Handle, ErrorCode), v)
             /\ \A i \in 1 .. 8 : i # 4 => r[i] \in Narrow
<1> DEFINE r == Arguments!LowerResponse(v)
           T == Result(Handle, ErrorCode)
<1>1. WellFormed(Handle) /\ WellFormed(ErrorCode)
  BY Shapes, ErrorCodes DEF Shape
<1>2. /\ v.tag \in {0, 1}
      /\ v.tag = 0 => v.val \in Values(Handle)
      /\ v.tag = 1 => v.val \in Values(ErrorCode)
  BY <1>1, ResultHolds
<1>3. r = IF v.tag = 1 THEN <<Tag(1)>> \o Arguments!LowerErrorCode(v.val)
          ELSE Arguments!Filled(<<Tag(0), v.val>>, 8)
  BY SameValues DEF Arguments!LowerResponse
<1>4. Narrow \subseteq Atoms /\ Tag(0) \in Narrow /\ Tag(1) \in Narrow
  BY NarrowAtoms DEF Narrow
<1> HIDE DEF r
<1>5. CASE v.tag = 1
  <2> DEFINE s == Arguments!LowerErrorCode(v.val)
             m == ErrorCode.args[v.val]
  <2>1. /\ Spread(s, Atoms, 7, ErrorCode, v.val)
        /\ \A i \in 1 .. 7 : i # 3 => s[i] \in Narrow
    BY <1>2, <1>5, LowerErrorCodeSpread
  <2>2. r = <<Tag(1)>> \o s
    BY <1>3, <1>5
  <2>3. DOMAIN m \subseteq 0 .. ErrorCode.slots - 1
    BY <1>1, <1>2, <1>5 DEF WellFormed
  <2>4. s \in Seq(Atoms) /\ Len(s) = 7 /\ Holds(s, 1, m)
    BY <2>1 DEF Spread
  <2> HIDE DEF s, m
  <2>5. DOMAIN m \subseteq Nat
    BY <2>3
  <2>6. Tag(1) \in Atoms
    BY <1>4
  <2>7. /\ r \in Seq(Atoms) /\ Len(r) = 1 + 7
        /\ 1 \in DOMAIN r /\ r[1] = Tag(1) /\ Holds(r, 2, m)
    <3> DEFINE x == Tag(1)
    <3>1. x \in Atoms
      BY <2>6
    <3> HIDE DEF x
    <3>2. /\ <<x>> \o s \in Seq(Atoms) /\ Len(<<x>> \o s) = 1 + Len(s)
          /\ 1 \in DOMAIN (<<x>> \o s) /\ (<<x>> \o s)[1] = x
          /\ Holds(s, 1, m) => Holds(<<x>> \o s, 2, m)
      BY <2>4, <2>5, <3>1, TagBefore
    <3> QED BY <2>2, <2>4, <3>2 DEF x
  <2>8. Holds(r, 1, T.args[v])
    BY <1>1, <1>5, <2>7, ResultHolds DEF m
  <2>9. \A i \in 2 .. 8 : r[i] = s[i - 1]
    <3>1. <<Tag(1)>> \in Seq(Atoms) /\ Len(<<Tag(1)>>) = 1
      BY <2>6
    <3>2. \A i \in 1 .. 1 + 7 : r[i] = IF i <= 1 THEN <<Tag(1)>>[i] ELSE s[i - 1]
      BY <2>2, <2>4, <3>1, ConcatProperties
    <3> QED BY <3>2
  <2>10. ASSUME NEW i \in 1 .. 8, i # 4 PROVE r[i] \in Narrow
    <3>1. CASE i = 1
      BY <1>4, <2>7, <3>1
    <3>2. CASE i # 1
      <4>1. i \in 2 .. 8 /\ i - 1 \in 1 .. 7 /\ i - 1 # 3
        BY <2>10, <3>2
      <4> QED BY <2>1, <2>9, <4>1 DEF s
    <3> QED BY <3>1, <3>2
  <2>11. 1 + 7 = 8
    OBVIOUS
  <2>12. Spread(r, Atoms, 8, T, v)
    BY <2>7, <2>8, <2>11 DEF Spread
  <2> QED BY <2>10, <2>12 DEF r
<1>6. CASE v.tag = 0
  <2> DEFINE s == <<Tag(0), v.val>>
  <2>1. v.val \in Narrow /\ Handle.args[v.val] = Slot(v.val)
    <3>1. v.val \in Values(Word(4))
      BY <1>2, <1>6 DEF Handle
    <3>2. v.val \in Narrow
      BY <3>1, NarrowAtoms
    <3> QED BY <3>1, <3>2 DEF Handle, Word, Values
  <2>2. /\ s \in Seq(Narrow) /\ Len(s) = 2 /\ DOMAIN s = 1 .. 2
        /\ s[1] = Tag(0) /\ s[2] = v.val
    BY <1>4, <2>1
  <2> HIDE DEF s
  <2>3. Holds(s, 2, Handle.args[v.val])
    BY <2>1, <2>2, HoldsSlot
  <2>4. 1 \in DOMAIN s
    BY <2>2
  <2>5. Holds(s, 1, T.args[v])
    BY <1>1, <1>6, <2>2, <2>3, <2>4, ResultHolds
  <2>6. Spread(s, Narrow, 2, T, v)
    BY <2>2, <2>5 DEF Spread
  <2>7. DOMAIN T.args[v] \subseteq Nat
    <3>1. WellFormed(T)
      BY Results DEF Shape
    <3>2. DOMAIN T.args[v] \subseteq 0 .. T.slots - 1
      BY <3>1 DEF WellFormed
    <3> HIDE DEF T
    <3> QED BY <3>2
  <2>8. r = Arguments!Filled(s, 8) /\ 8 \in Nat /\ 2 \in 0 .. 8
    BY <1>3, <1>6 DEF s
  <2> HIDE DEF T
  <2>9. /\ Spread(r, Narrow, 8, T, v)
        /\ \A i \in 1 .. 8 : r[i] \notin Narrow => i <= 2 /\ r[i] = s[i]
    BY <2>6, <2>7, <2>8, FilledSpread
  <2>10. Spread(r, Atoms, 8, T, v)
    BY <1>4, <2>9, SpreadWider
  <2>11. \A i \in 1 .. 8 : r[i] \in Narrow
    BY <1>4, <2>1, <2>2, <2>9
  <2> QED BY <2>10, <2>11 DEF r, T
<1> QED BY <1>2, <1>5, <1>6

\* method and scheme: their last case carries a string.
LEMMA TextLastSpread ==
  ASSUME NEW n \in Nat, NEW ts, DOMAIN ts = 1 .. n,
         \A i \in DOMAIN ts : ts[i] = IF i = n THEN Text ELSE Unit,
         NEW v \in Values(Variant(ts)), NEW r,
         r = <<Tag(v.tag)>>
               \o (IF v.tag = n - 1 THEN Arguments!LowerText(v.val)
                   ELSE Arguments!Zeros(2))
  PROVE  Spread(r, Narrow, 3, Variant(ts), v)
<1> DEFINE s == IF v.tag = n - 1 THEN Arguments!LowerText(v.val)
                ELSE Arguments!Zeros(2)
           m == ts[v.tag + 1].args[v.val]
           x == Tag(v.tag)
<1>1. \A i \in DOMAIN ts : WellFormed(ts[i])
  BY TextsAre, Units
<1>2. v.tag \in 0 .. n - 1 /\ v.val \in Values(ts[v.tag + 1])
  BY VariantParts
<1>3. s \in Seq(Narrow) /\ Len(s) = 2 /\ Holds(s, 1, m) /\ DOMAIN m \subseteq Nat
  <2>1. CASE v.tag = n - 1
    <3>1. ts[v.tag + 1] = Text
      BY <1>2, <2>1
    <3>2. v.val \in Values(Text)
      BY <1>2, <3>1
    <3>3. Spread(s, Narrow, 2, Text, v.val)
      BY <2>1, <3>2, LowerTextSpread
    <3>4. DOMAIN Text.args[v.val] \subseteq 0 .. Text.slots - 1
      BY <3>2, TextsAre DEF WellFormed
    <3>5. DOMAIN Text.args[v.val] \subseteq Nat
      BY <3>4
    <3> QED BY <3>1, <3>3, <3>5 DEF Spread
  <2>2. CASE v.tag # n - 1
    <3>1. ts[v.tag + 1] = Unit
      BY <1>2, <2>2
    <3>2. v.val \in Values(Unit)
      BY <1>2, <3>1
    <3>3. Unit.args[v.val] = NoCells
      BY <3>2, Units DEF Unit
    <3>4. Holds(s, 1, NoCells) /\ DOMAIN NoCells \subseteq Nat
      BY DEF Holds, NoCells
    <3>5. s = Arguments!Zeros(2) /\ 2 \in Nat
      BY <2>2
    <3>6. s \in Seq(Narrow) /\ Len(s) = 2
      BY <3>5, ZerosAre
    <3> QED BY <3>1, <3>3, <3>4, <3>6
  <2> QED BY <2>1, <2>2
<1>4. x \in Narrow
  BY <1>2, NarrowAtoms
<1>5. r = <<x>> \o s
  OBVIOUS
<1> HIDE DEF s, m, x
<1>6. /\ r \in Seq(Narrow) /\ Len(r) = 1 + 2
      /\ 1 \in DOMAIN r /\ r[1] = x /\ Holds(r, 1 + 1, m)
  <2>1. /\ <<x>> \o s \in Seq(Narrow) /\ Len(<<x>> \o s) = 1 + Len(s)
        /\ 1 \in DOMAIN (<<x>> \o s) /\ (<<x>> \o s)[1] = x
        /\ Holds(s, 1, m) => Holds(<<x>> \o s, 2, m)
    BY <1>3, <1>4, TagBefore
  <2> DEFINE z == <<x>> \o s
  <2>2. r = z /\ 1 + 1 = 2
    BY <1>5
  <2>3. z \in Seq(Narrow) /\ Len(z) = 1 + 2 /\ 1 \in DOMAIN z /\ z[1] = x
        /\ Holds(z, 2, m)
    BY <1>3, <2>1
  <2> HIDE DEF z
  <2> QED BY <2>2, <2>3
<1>7. Holds(r, 1, Variant(ts).args[v])
  BY <1>1, <1>6, VariantHolds DEF m, x
<1>8. 1 + 2 = 3
  OBVIOUS
<1> QED BY <1>6, <1>7, <1>8 DEF Spread

\* method.
LEMMA LowerMethodSpread ==
  ASSUME NEW v \in Values(Method)
  PROVE  Spread(Arguments!LowerMethod(v), Narrow, 3, Method, v)
<1>1. DOMAIN MethodCases = 1 .. 10
  BY DEF MethodCases
<1>2. \A i \in DOMAIN MethodCases :
        MethodCases[i] = IF i = 10 THEN Text ELSE Unit
  BY DEF MethodCases, MethodOther
<1>3. v \in Values(Variant(MethodCases))
  BY DEF Method
<1>4. Arguments!LowerMethod(v) =
        <<Tag(v.tag)>> \o (IF v.tag = 10 - 1 THEN Arguments!LowerText(v.val)
                           ELSE Arguments!Zeros(2))
  <2>1. 10 - 1 = 9
    OBVIOUS
  <2> QED BY <2>1, SameValues DEF Arguments!LowerMethod
<1>5. 10 \in Nat
  OBVIOUS
<1> QED BY <1>1, <1>2, <1>3, <1>4, <1>5, TextLastSpread DEF Method

\* scheme.
LEMMA LowerSchemeSpread ==
  ASSUME NEW v \in Values(Scheme)
  PROVE  Spread(Arguments!LowerScheme(v), Narrow, 3, Scheme, v)
<1>1. DOMAIN SchemeCases = 1 .. 3
  BY DEF SchemeCases
<1>2. \A i \in DOMAIN SchemeCases :
        SchemeCases[i] = IF i = 3 THEN Text ELSE Unit
  BY DEF SchemeCases
<1>3. v \in Values(Variant(SchemeCases))
  BY DEF Scheme
<1>4. Arguments!LowerScheme(v) =
        <<Tag(v.tag)>> \o (IF v.tag = 3 - 1 THEN Arguments!LowerText(v.val)
                           ELSE Arguments!Zeros(2))
  <2>1. 3 - 1 = 2
    OBVIOUS
  <2> QED BY <2>1, SameValues DEF Arguments!LowerScheme
<1>5. 3 \in Nat
  OBVIOUS
<1> QED BY <1>1, <1>2, <1>3, <1>4, <1>5, TextLastSpread DEF Scheme

\* option<scheme>.
LEMMA LowerOptionSchemeSpread ==
  ASSUME NEW v \in Values(Option(Scheme))
  PROVE  Spread(Arguments!LowerOptionScheme(v), Narrow, 4, Option(Scheme), v)
<1> DEFINE s == Arguments!LowerScheme(v.val)
           r == Arguments!LowerOptionScheme(v)
<1>1. WellFormed(Scheme)
  BY SchemeShape DEF Shape
<1>2. v.tag = 1 => v.val \in Values(Scheme)
  BY <1>1, OptionHolds
<1>3. v.tag = 1 => Spread(s, Narrow, 3, Scheme, v.val)
  BY <1>2, LowerSchemeSpread
<1>4. r = IF v.tag = 1 THEN <<Tag(1)>> \o s ELSE Arguments!Zeros(1 + 3)
  BY SameValues DEF Arguments!LowerOptionScheme
<1> HIDE DEF s, r
<1>5. Spread(r, Narrow, 1 + 3, Option(Scheme), v)
  BY <1>1, <1>3, <1>4, OptionSpread
<1>6. 1 + 3 = 4
  OBVIOUS
<1> QED BY <1>5, <1>6 DEF r

------------------------------------------------------------------------------
(* Hearing                                                                   *)

\* The host takes the slots for the one value that is spread like them.
LEMMA SpreadIsHeard ==
  ASSUME NEW T, WellFormed(T), Unambiguous(T), NEW v \in Values(T), NEW s,
         Holds(s, 1, T.args[v])
  PROVE  Arguments!Unflatten(T, s) = v
<1>1. ASSUME NEW u \in Values(T)
      PROVE  Arguments!Means(T, u, s) <=> Holds(s, 1, T.args[u])
  <2>1. DOMAIN T.args[u] \subseteq 0 .. T.slots - 1
    BY DEF WellFormed
  <2>2. \A q \in DOMAIN T.args[u] : q + 1 = 1 + q
    BY <2>1
  <2> QED BY <2>2 DEF Arguments!Means, Holds
<1>2. \A u \in Values(T) : Arguments!Means(T, u, s) <=> u = v
  BY <1>1 DEF Unambiguous
<1>3. Arguments!Values(T) = Values(T)
  BY DEF Arguments!Values, Values
<1> QED BY <1>2, <1>3 DEF Arguments!Unflatten

\* The core arguments of a call, as the import's parameters hold them.
Sent(f, s) ==
  [i \in DOMAIN s |-> IF i \in DOMAIN Arguments!SlotTypes(f)
                      THEN Arguments!Passed(Arguments!SlotTypes(f)[i], s[i])
                      ELSE s[i]]

\* The import gets the arguments whole when none that needs 64 bits is declared
\* as 32.
LEMMA SentWhole ==
  ASSUME NEW f, NEW s \in Seq(Atoms),
         \A i \in DOMAIN s : s[i] \in Narrow
           \/ (i \in DOMAIN Arguments!SlotTypes(f)
               => Arguments!SlotTypes(f)[i] # "i32")
  PROVE  Sent(f, s) = s
<1>1. \A i \in DOMAIN s : Sent(f, s)[i] = s[i]
  BY DEF Sent, Arguments!Passed, Narrow
<1>2. s \in [1 .. Len(s) -> Atoms]
  BY LenProperties
<1> QED BY <1>1, <1>2 DEF Sent

\* What each family of wrappers takes, and how it spreads it.
LEMMA ArgumentFamilies ==
  ASSUME NEW f, NEW v
  PROVE
  /\ f \in Arguments!TextSetters =>
       /\ Arguments!ArgType(f) = Option(Text)
       /\ Arguments!Lowered(f, v) = Arguments!LowerOptionText(v)
  /\ f \in Arguments!TimeoutSetters =>
       /\ Arguments!ArgType(f) = Option(Word(8))
       /\ Arguments!Lowered(f, v) = Arguments!LowerOptionWord(v)
       /\ Arguments!SlotTypes(f) = <<"i32", "i64">>
  /\ f \in Arguments!HandOvers =>
       /\ Arguments!ArgType(f) = Option(Handle)
       /\ Arguments!Lowered(f, v) = Arguments!LowerOptionWord(v)
  /\ f = "set-method" =>
       /\ Arguments!ArgType(f) = Method
       /\ Arguments!Lowered(f, v) = Arguments!LowerMethod(v)
  /\ f = "set-scheme" =>
       /\ Arguments!ArgType(f) = Option(Scheme)
       /\ Arguments!Lowered(f, v) = Arguments!LowerOptionScheme(v)
  /\ f = "response-outparam.set" =>
       /\ Arguments!ArgType(f) = Result(Handle, ErrorCode)
       /\ Arguments!Lowered(f, v) = Arguments!LowerResponse(v)
       /\ Arguments!SlotTypes(f) =
            <<"i32", "i32", "i32", "i64", "i32", "i32", "i32", "i32">>
<1>1. CASE f \in Arguments!TextSetters
  BY <1>1, SameText, SameCombinators
     DEF Arguments!ArgType, Arguments!Lowered, Arguments!TextSetters,
         Arguments!TimeoutSetters, Arguments!HandOvers
<1>2. CASE f \in Arguments!TimeoutSetters
  BY <1>2, SameWord, SameCombinators
     DEF Arguments!ArgType, Arguments!Lowered, Arguments!SlotTypes,
         Arguments!TextSetters, Arguments!TimeoutSetters, Arguments!HandOvers
<1>3. CASE f \in Arguments!HandOvers
  BY <1>3, SameTypes, SameCombinators
     DEF Arguments!ArgType, Arguments!Lowered, Arguments!TextSetters,
         Arguments!TimeoutSetters, Arguments!HandOvers
<1>4. CASE f = "set-method"
  BY <1>4, SameTypes
     DEF Arguments!ArgType, Arguments!Lowered, Arguments!TextSetters,
         Arguments!TimeoutSetters, Arguments!HandOvers
<1>5. CASE f = "set-scheme"
  BY <1>5, SameTypes, SameCombinators
     DEF Arguments!ArgType, Arguments!Lowered, Arguments!TextSetters,
         Arguments!TimeoutSetters, Arguments!HandOvers
<1>6. CASE f = "response-outparam.set"
  BY <1>6, SameTypes, SameCombinators
     DEF Arguments!ArgType, Arguments!Lowered, Arguments!SlotTypes,
         Arguments!TextSetters, Arguments!TimeoutSetters, Arguments!HandOvers
<1> QED BY <1>1, <1>2, <1>3, <1>4, <1>5, <1>6

\* What a caller hands over is what the host hears.
LEMMA LoweredIsHeard ==
  ASSUME NEW f \in Arguments!Functions, NEW v \in Values(Arguments!ArgType(f))
  PROVE  Arguments!Unflatten(Arguments!ArgType(f), Sent(f, Arguments!Lowered(f, v))) = v
<1> DEFINE T == Arguments!ArgType(f)
           s == Arguments!Lowered(f, v)
           t == Arguments!SlotTypes(f)
<1>n. Narrow \subseteq Atoms
  BY DEF Narrow
<1>1. SUFFICES
        /\ WellFormed(T) /\ Unambiguous(T)
        /\ s \in Seq(Atoms) /\ Holds(s, 1, T.args[v])
        /\ \A i \in DOMAIN s : s[i] \in Narrow \/ (i \in DOMAIN t => t[i] # "i32")
  <2>1. Sent(f, s) = s
    BY <1>1, SentWhole
  <2> QED BY <1>1, <2>1, SpreadIsHeard
<1>2. ASSUME NEW n \in Nat, Spread(s, Narrow, n, T, v),
             WellFormed(T), Unambiguous(T)
      PROVE  /\ WellFormed(T) /\ Unambiguous(T)
             /\ s \in Seq(Atoms) /\ Holds(s, 1, T.args[v])
             /\ \A i \in DOMAIN s :
                  s[i] \in Narrow \/ (i \in DOMAIN t => t[i] # "i32")
  <2> HIDE DEF T, s, t
  <2>1. s \in Seq(Narrow) /\ Holds(s, 1, T.args[v])
    BY <1>2 DEF Spread
  <2>2. s \in Seq(Atoms)
    BY <1>n, <2>1, SeqMonotonic
  <2>3. \A i \in DOMAIN s : s[i] \in Narrow
    BY <2>1, LenProperties
  <2> QED BY <1>2, <2>1, <2>2, <2>3
<1>3. CASE f \in Arguments!TextSetters
  <2>1. T = Option(Text) /\ s = Arguments!LowerOptionText(v)
    BY <1>3, ArgumentFamilies
  <2>2. v \in Values(Option(Text))
    BY <2>1
  <2>3. Spread(s, Narrow, 3, T, v)
    BY <2>1, <2>2, LowerOptionTextSpread
  <2>4. WellFormed(T) /\ Unambiguous(T)
    BY <2>1, Options DEF Shape
  <2> QED BY <1>2, <2>3, <2>4
<1>4. CASE f \in Arguments!TimeoutSetters
  <2>1. /\ T = Option(Word(8)) /\ s = Arguments!LowerOptionWord(v)
        /\ t = <<"i32", "i64">>
    BY <1>4, ArgumentFamilies
  <2>2. WellFormed(T) /\ Unambiguous(T)
    BY <2>1, Options DEF Shape
  <2>3. v \in Values(Option(Word(8))) /\ Values(Word(8)) \subseteq Atoms
    BY <2>1, NarrowAtoms
  <2>4. Spread(s, Atoms, 2, T, v)
    BY <1>n, <2>1, <2>3, LowerOptionWordSpread
  <2>5. v.tag \in {0, 1} /\ s[1] = Tag(v.tag)
    <3>1. WellFormed(Word(8))
      BY WordsOf
    <3>2. v.tag \in {0, 1}
      BY <2>3, <3>1, OptionHolds
    <3>3. s = IF v.tag = 1 THEN <<Tag(1), v.val>> ELSE Arguments!Zeros(2)
      BY <2>1, SameValues DEF Arguments!LowerOptionWord
    <3>4. Arguments!Zeros(2)[1] = Tag(0)
      BY ZerosAre
    <3> QED BY <3>2, <3>3, <3>4
  <2>6. s[1] \in Narrow
    BY <2>5, NarrowAtoms
  <2>7. t[2] # "i32"
    BY <2>1
  <2> HIDE DEF T, s, t
  <2>8. s \in Seq(Atoms) /\ Len(s) = 2 /\ Holds(s, 1, T.args[v])
    BY <2>4 DEF Spread
  <2>9. DOMAIN s = 1 .. 2
    BY <2>8, LenProperties
  <2> QED BY <2>2, <2>6, <2>7, <2>8, <2>9
<1>5. CASE f \in Arguments!HandOvers
  <2>1. T = Option(Handle) /\ s = Arguments!LowerOptionWord(v)
    BY <1>5, ArgumentFamilies
  <2>2. v \in Values(Option(Word(4))) /\ Values(Word(4)) \subseteq Narrow
    BY <2>1, NarrowAtoms DEF Handle
  <2>3. Spread(s, Narrow, 2, T, v)
    BY <2>1, <2>2, LowerOptionWordSpread DEF Handle
  <2>4. WellFormed(T) /\ Unambiguous(T)
    BY <2>1, Options DEF Shape
  <2> QED BY <1>2, <2>3, <2>4
<1>6. CASE f = "set-method"
  <2>1. T = Method /\ s = Arguments!LowerMethod(v)
    BY <1>6, ArgumentFamilies
  <2>2. Spread(s, Narrow, 3, T, v)
    BY <2>1, LowerMethodSpread
  <2>3. WellFormed(T) /\ Unambiguous(T)
    BY <2>1, MethodShape DEF Shape
  <2> QED BY <1>2, <2>2, <2>3
<1>7. CASE f = "set-scheme"
  <2>1. T = Option(Scheme) /\ s = Arguments!LowerOptionScheme(v)
    BY <1>7, ArgumentFamilies
  <2>2. Spread(s, Narrow, 4, T, v)
    BY <2>1, LowerOptionSchemeSpread
  <2>3. WellFormed(T) /\ Unambiguous(T)
    BY <2>1, SchemeShape DEF Shape
  <2> QED BY <1>2, <2>2, <2>3
<1>8. CASE f = "response-outparam.set"
  <2>1. /\ T = Result(Handle, ErrorCode) /\ s = Arguments!LowerResponse(v)
        /\ t = <<"i32", "i32", "i32", "i64", "i32", "i32", "i32", "i32">>
    BY <1>8, ArgumentFamilies
  <2>2. WellFormed(T) /\ Unambiguous(T)
    BY <2>1, Results DEF Shape
  <2>3. v \in Values(Result(Handle, ErrorCode))
    BY <2>1
  <2>4. /\ Spread(s, Atoms, 8, T, v)
        /\ \A i \in 1 .. 8 : i # 4 => s[i] \in Narrow
    BY <2>1, <2>3, LowerResponseSpread
  <2>5. t[4] # "i32"
    BY <2>1
  <2> HIDE DEF T, s, t
  <2>6. s \in Seq(Atoms) /\ Len(s) = 8 /\ Holds(s, 1, T.args[v])
    BY <2>4 DEF Spread
  <2>7. DOMAIN s = 1 .. 8
    BY <2>6, LenProperties
  <2> QED BY <2>2, <2>4, <2>5, <2>6, <2>7
<1> QED
  BY <1>3, <1>4, <1>5, <1>6, <1>7, <1>8
     DEF Arguments!Functions, Arguments!Setters

------------------------------------------------------------------------------
(* The two machines                                                          *)

\* Between the call and the free, ret_area holds the image of what the host
\* sent, the heap the block that belongs to it, and after the return the caller
\* holds exactly what the wrapper makes of that value.
ResultsInv ==
  /\ pc \in {"idle", "called", "returned"} /\ ~wild
  /\ pc = "idle" => heap = {}
  /\ pc # "idle" =>
       /\ fn \in Functions /\ sent \in Values(ResultType(fn))
       /\ area = ResultType(fn).mem[sent] /\ heap = Owned(area)
  /\ pc = "returned" => got = HandOut(fn, sent)

\* Until the host answers, the slots are what the wrapper made of the argument;
\* from then on the host has heard the argument itself.
ArgumentsInv ==
  /\ setterPc \in {"idle", "called", "answered", "returned"}
  /\ setterPc # "idle" =>
       setter \in Arguments!Functions /\ arg \in Values(Arguments!ArgType(setter))
  /\ setterPc = "called" => slots = Sent(setter, Arguments!Lowered(setter, arg))
  /\ setterPc \in {"answered", "returned"} => heard = arg
  /\ setterPc = "returned" /\ setter \in Arguments!Setters => rc = (reply = 0)

Inv == ResultsInv /\ ArgumentsInv

\* The invariant holds before the first call.
LEMMA InitInv == MCInit => Inv
BY DEF MCInit, Init, Arguments!Init, Inv, ResultsInv, ArgumentsInv

\* A call that the host answers keeps the invariant.
LEMMA CallKeepsInv ==
  ASSUME Inv, NEW f \in Functions, Call(f), UNCHANGED argumentVars
  PROVE  Inv'
<1>1. /\ pc' = "called" /\ fn' = f /\ sent' \in Values(ResultType(f))
      /\ area' = ResultType(f).mem[sent'] /\ heap' = Stored(area') \cap Blocks
      /\ UNCHANGED wild
  BY DEF Call
<1>2. ResultsInv'
  BY <1>1 DEF Inv, ResultsInv, Owned
<1>3. ArgumentsInv'
  BY DEF Inv, ArgumentsInv, argumentVars
<1> QED BY <1>2, <1>3 DEF Inv

\* So does the return of the wrapper, which lifts what was sent,
LEMMA ReturnKeepsInv ==
  ASSUME Inv, Return, UNCHANGED argumentVars
  PROVE  Inv'
<1>1. /\ pc = "called" /\ pc' = "returned" /\ got' = HandOut(fn, Lifted(fn, area))
      /\ UNCHANGED <<fn, sent, area, heap, wild>>
  BY DEF Return
<1>2. /\ fn \in Functions /\ sent \in Values(ResultType(fn))
      /\ area = ResultType(fn).mem[sent] /\ heap = Owned(area)
  BY <1>1 DEF Inv, ResultsInv
<1>3. Lifted(fn, area) = sent
  BY <1>2, LiftedIsSent
<1>4. ResultsInv'
  BY <1>1, <1>2, <1>3 DEF Inv, ResultsInv
<1>5. ArgumentsInv'
  BY DEF Inv, ArgumentsInv, argumentVars
<1> QED BY <1>4, <1>5 DEF Inv

\* and the free, which gives back exactly what is on the heap.
LEMMA FreeKeepsInv ==
  ASSUME Inv, Free, UNCHANGED argumentVars
  PROVE  Inv'
<1>1. /\ pc = "returned" /\ pc' = "idle" /\ heap' = heap \ Freed(fn, got)
      /\ wild' = (wild \/ ~(Freed(fn, got) \subseteq heap))
  BY DEF Free
<1>2. /\ fn \in Functions /\ sent \in Values(ResultType(fn)) /\ ~wild
      /\ area = ResultType(fn).mem[sent] /\ heap = Owned(area)
      /\ got = HandOut(fn, sent)
  BY <1>1 DEF Inv, ResultsInv
<1>3. Freed(fn, got) = heap
  BY <1>2, FreedIsOwned
<1>4. heap' = {} /\ ~wild'
  BY <1>1, <1>2, <1>3
<1>5. ResultsInv'
  BY <1>1, <1>4 DEF ResultsInv
<1>6. ArgumentsInv'
  BY DEF Inv, ArgumentsInv, argumentVars
<1> QED BY <1>5, <1>6 DEF Inv

\* A call that hands an argument over keeps it,
LEMMA SetterCallKeepsInv ==
  ASSUME Inv, NEW f \in Arguments!Functions, Arguments!Call(f), UNCHANGED vars
  PROVE  Inv'
<1>1. /\ setterPc' = "called" /\ setter' = f
      /\ arg' \in Values(Arguments!ArgType(f))
      /\ slots' = Sent(f, Arguments!Lowered(f, arg'))
  BY DEF Arguments!Call, Arguments!Values, Values, Sent
<1>2. ArgumentsInv'
  BY <1>1 DEF ArgumentsInv
<1>3. ResultsInv'
  BY DEF Inv, ResultsInv, vars
<1> QED BY <1>2, <1>3 DEF Inv

\* the host's answer does, for it has heard what was lowered,
LEMMA AnswerKeepsInv ==
  ASSUME Inv, Arguments!Answer, UNCHANGED vars
  PROVE  Inv'
<1>1. /\ setterPc = "called" /\ setterPc' = "answered"
      /\ heard' = Arguments!Unflatten(Arguments!ArgType(setter), slots)
      /\ UNCHANGED <<setter, arg>>
  BY DEF Arguments!Answer
<1>2. /\ setter \in Arguments!Functions /\ arg \in Values(Arguments!ArgType(setter))
      /\ slots = Sent(setter, Arguments!Lowered(setter, arg))
  BY <1>1 DEF Inv, ArgumentsInv
<1>3. heard' = arg'
  BY <1>1, <1>2, LoweredIsHeard
<1>4. ArgumentsInv'
  BY <1>1, <1>2, <1>3 DEF ArgumentsInv
<1>5. ResultsInv'
  BY DEF Inv, ResultsInv, vars
<1> QED BY <1>4, <1>5 DEF Inv

\* the return of the wrapper,
LEMMA SetterReturnKeepsInv ==
  ASSUME Inv, Arguments!Return, UNCHANGED vars
  PROVE  Inv'
<1>1. /\ setterPc = "answered" /\ setterPc' = "returned"
      /\ UNCHANGED <<setter, arg, slots, heard, reply>>
  BY DEF Arguments!Return
<1>2. /\ setter \in Arguments!Functions /\ arg \in Values(Arguments!ArgType(setter))
      /\ heard = arg
  BY <1>1 DEF Inv, ArgumentsInv
<1>3. setter \in Arguments!Setters => rc' = (reply = 0)
  BY DEF Arguments!Return, Arguments!Verdict
<1>4. ArgumentsInv'
  BY <1>1, <1>2, <1>3 DEF ArgumentsInv
<1>5. ResultsInv'
  BY DEF Inv, ResultsInv, vars
<1> QED BY <1>4, <1>5 DEF Inv

\* and the next round.
LEMMA AgainKeepsInv ==
  ASSUME Inv, Arguments!Again, UNCHANGED vars
  PROVE  Inv'
<1>1. setterPc' = "idle"
  BY DEF Arguments!Again
<1>2. ArgumentsInv'
  BY <1>1 DEF ArgumentsInv
<1>3. ResultsInv'
  BY DEF Inv, ResultsInv, vars
<1> QED BY <1>2, <1>3 DEF Inv

\* The invariant holds in every behaviour of the two machines.
LEMMA Invariance == MCSpec => []Inv
<1>1. ASSUME Inv, MCNext PROVE Inv'
  <2>1. CASE Next /\ UNCHANGED argumentVars
    BY <1>1, <2>1, CallKeepsInv, ReturnKeepsInv, FreeKeepsInv DEF Next
  <2>2. CASE Arguments!Next /\ UNCHANGED vars
    BY <1>1, <2>2, SetterCallKeepsInv, AnswerKeepsInv, SetterReturnKeepsInv,
       AgainKeepsInv DEF Arguments!Next
  <2> QED BY <1>1, <2>1, <2>2 DEF MCNext
<1>2. ASSUME Inv, UNCHANGED <<vars, argumentVars>> PROVE Inv'
  BY <1>2 DEF Inv, ResultsInv, ArgumentsInv, vars, argumentVars
<1> QED BY InitInv, <1>1, <1>2, PTL DEF MCSpec

------------------------------------------------------------------------------
(* The theorems                                                              *)

\* The caller that holds what HandOut makes of a value holds the value.
LEMMA InvRoundTrip == Inv => RoundTrip
<1> SUFFICES ASSUME Inv, pc = "returned" PROVE RoundTrip
  BY DEF RoundTrip
<1>1. got = HandOut(fn, sent)
  BY DEF Inv, ResultsInv
<1>2. CASE fn \in Plain
  BY <1>1, <1>2, HandedOut DEF RoundTrip
<1>3. CASE fn \notin Plain /\ fn \in Optional
  <2>1. got.rc = (sent.tag = 1)
    <3>1. CASE sent.tag = 1
      BY <1>1, <1>3, <3>1 DEF HandOut, NotYet
    <3>2. CASE sent.tag # 1
      BY <1>1, <1>3, <3>2 DEF HandOut, NotYet
    <3> QED BY <3>1, <3>2
  <2>2. sent.tag = 1 => got.ret = sent.val
    BY <1>1, <1>3, HandedOut
  <2> QED BY <1>3, <2>1, <2>2 DEF RoundTrip
<1>4. CASE fn \notin Plain /\ fn \notin Optional
  BY <1>1, <1>4 DEF RoundTrip, HandOut
<1> QED BY <1>2, <1>3, <1>4

\* The image of a well-formed value of a type that fits lies in ret_area.
LEMMA InvAreaFits == Inv => AreaFits
<1> SUFFICES ASSUME Inv, pc = "called" PROVE AreaFits
  BY DEF AreaFits
<1> DEFINE T == ResultType(fn)
           z == Area(fn).bytes
<1>1. fn \in Functions /\ sent \in Values(T) /\ area = T.mem[sent]
  BY DEF Inv, ResultsInv
<1>2. /\ WellFormed(T) /\ T.size <= z /\ z \in Nat
      /\ Area(fn).aligned % T.align = 0
  BY <1>1, ResultFits
<1>3. ASSUME NEW p \in DOMAIN area PROVE p + area[p].w <= z
  <2>1. /\ p \in Nat /\ area[p].w \in Nat /\ p + area[p].w <= T.size
        /\ T.size \in Nat
    BY <1>1, <1>2 DEF WellFormed
  <2> HIDE DEF T, z
  <2> QED BY <1>2, <2>1
<1> QED BY <1>2, <1>3 DEF AreaFits

\* For every import, whatever the host answers: when a wrapper of http_client.c
\* has returned, its caller holds exactly the value that the host stored, and
\* the returned bool says in which out-parameter.
THEOREM AnswersComeHome == MCSpec => []RoundTrip
BY Invariance, InvRoundTrip, PTL

\* Nothing that the host stores for a result, and no padding of its type, lies
\* outside the wrapper's ret_area, and every ret_area is aligned for its type.
THEOREM AnswersFit == MCSpec => []AreaFits
BY Invariance, InvAreaFits, PTL

\* The free function of the type that the caller holds gives back every block
\* that came with the answer, and never anything else.
THEOREM AnswersAreFreed == MCSpec => []FreedOnce
<1>1. Inv => FreedOnce
  BY DEF Inv, ResultsInv, FreedOnce
<1> QED BY <1>1, Invariance, PTL

\* Every argument that a wrapper spreads over the core arguments of an import,
\* through slots that each case uses for something else, is what the host hears,
\* and a setter returns whether the host took it.
THEOREM ArgumentsAreHeard == MCSpec => []Understood
<1>1. Inv => Understood
  BY DEF Inv, ArgumentsInv, Understood, Arguments!Understood
<1> QED BY <1>1, Invariance, PTL
==============================================================================
