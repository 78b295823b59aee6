----------------------------- MODULE CanonicalAbi -----------------------------
(***************************************************************************)
(* What the component model's canonical ABI asks of a 32-bit guest: how a   *)
(* value of a WIT type lies in linear memory, and how it is spread over the *)
(* core arguments of a call.  This is the host's side of http_client.c and  *)
(* knows nothing of its offsets.                                            *)
(*                                                                         *)
(* A value is one of: an integer or a handle, with its width; a text, that   *)
(* is a string or a list, by its pointer and its length; a record; a         *)
(* variant.  An option is a variant of cases 0 (none) and 1, a result one of *)
(* cases 0 (ok) and 1.                                                       *)
(***************************************************************************)
EXTENDS Naturals, Sequences, FiniteSetsExt

CONSTANTS
  Ints,          \* Ints[w]: the integers of w bytes
  Pointers,      \* the blocks that cabi_realloc may give for a text
  Lengths        \* of the texts that are not empty

ASSUME IntsAssumption == Ints \in [{1, 2, 4, 8} -> SUBSET Nat]
ASSUME TextAssumption ==
  Pointers \subseteq Nat \ {0} /\ Lengths \subseteq Nat \ {0}

Num(w, n)    == [k |-> "int", w |-> w, n |-> n]
Tag(t)       == [k |-> "tag", n |-> t]
Ptr(p)       == [k |-> "ptr", n |-> p]
TextOf(p, n) == [k |-> "text", ptr |-> Ptr(p), len |-> [k |-> "len", n |-> n]]
Fields(vs)   == [k |-> "record", vs |-> vs]
Nothing      == Fields(<<>>)
Case(t, v)   == [k |-> "variant", tag |-> t, val |-> v]

Texts  == {TextOf(0, 0)} \cup {TextOf(p, n) : p \in Pointers, n \in Lengths}
Blocks == {Ptr(p) : p \in Pointers}

------------------------------------------------------------------------------
(* An image: a function from offsets to what is there, in memory a cell of    *)
(* some width, among the core arguments a value.                             *)

Cell(w, v)     == [q \in {0} |-> [w |-> w, v |-> v]]
Slot(v)        == [q \in {0} |-> v]
NoCells        == [q \in {} |-> Nothing]
Shifted(m, p)  == [q \in {p + x : x \in DOMAIN m} |-> m[q - p]]
Beside(m1, m2) ==
  [q \in DOMAIN m1 \cup DOMAIN m2 |-> IF q \in DOMAIN m1 THEN m1[q] ELSE m2[q]]

RoundUp(n, a) == ((n + a - 1) \div a) * a

------------------------------------------------------------------------------
(* A WIT type: its size and alignment in memory and its core arguments, and   *)
(* of each value the image in memory (mem) and among the arguments (args).    *)

Values(T) == DOMAIN T.mem

Word(w) ==
  [size |-> w, align |-> w, slots |-> 1,
   mem  |-> [v \in {Num(w, n) : n \in Ints[w]} |-> Cell(w, v)],
   args |-> [v \in {Num(w, n) : n \in Ints[w]} |-> Slot(v)]]

Text ==
  [size |-> 8, align |-> 4, slots |-> 2,
   mem  |-> [v \in Texts |-> Beside(Cell(4, v.ptr), Shifted(Cell(4, v.len), 4))],
   args |-> [v \in Texts |-> Beside(Slot(v.ptr), Shifted(Slot(v.len), 1))]]

Unit ==
  [size |-> 0, align |-> 1, slots |-> 0,
   mem  |-> [v \in {Nothing} |-> NoCells], args |-> [v \in {Nothing} |-> NoCells]]

\* A record of two fields.
Pairs(S, T) == {Fields(<<x, y>>) : x \in Values(S), y \in Values(T)}
Pair(S, T) ==
  LET align == Max({S.align, T.align})
      at    == RoundUp(S.size, T.align)
  IN  [size |-> RoundUp(at + T.size, align), align |-> align,
       slots |-> S.slots + T.slots,
       mem  |-> [v \in Pairs(S, T) |->
                   Beside(S.mem[v.vs[1]], Shifted(T.mem[v.vs[2]], at))],
       args |-> [v \in Pairs(S, T) |->
                   Beside(S.args[v.vs[1]], Shifted(T.args[v.vs[2]], S.slots))]]

\* Case t has the type ts[t + 1].
Cases(ts) == UNION {{Case(i - 1, v) : v \in Values(ts[i])} : i \in DOMAIN ts}
AlignOfAny(ts) == Max({ts[i].align : i \in DOMAIN ts})
SizeOfAny(ts)  == Max({ts[i].size : i \in DOMAIN ts})
SlotsOfAny(ts) == Max({ts[i].slots : i \in DOMAIN ts})
PayloadAt(ts)  == RoundUp(1, AlignOfAny(ts))
Variant(ts) ==
  [size  |-> RoundUp(PayloadAt(ts) + SizeOfAny(ts), AlignOfAny(ts)),
   align |-> AlignOfAny(ts), slots |-> 1 + SlotsOfAny(ts),
   mem   |-> [v \in Cases(ts) |->
                Beside(Cell(1, Tag(v.tag)),
                       Shifted(ts[v.tag + 1].mem[v.val], PayloadAt(ts)))],
   args  |-> [v \in Cases(ts) |->
                Beside(Slot(Tag(v.tag)), Shifted(ts[v.tag + 1].args[v.val], 1))]]

Option(T)    == Variant(<<Unit, T>>)
Result(T, E) == Variant(<<T, E>>)

------------------------------------------------------------------------------
\* What the host makes of core arguments: the value that is spread like them.
\* Slots that the case at hand does not use are not looked at.
Means(T, v, slots) ==
  \A q \in DOMAIN T.args[v] : q + 1 \in DOMAIN slots /\ slots[q + 1] = T.args[v][q]
Garbage == [k |-> "garbage", n |-> 0]
Unflatten(T, slots) ==
  IF \E v \in Values(T) : Means(T, v, slots)
  THEN CHOOSE v \in Values(T) : Means(T, v, slots) ELSE Garbage
==============================================================================
