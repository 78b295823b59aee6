---------------------------- MODULE BindingsProofs ----------------------------
(***************************************************************************)
(* Theorems about the heap of one Request(), for every number of response   *)
(* headers.                                                                 *)
(***************************************************************************)
EXTENDS Bindings, TLAPS

(* A list of header entries is a sequence.                                   *)
LEMMA EntriesAreSeqs ==
  ASSUME NEW es \in Entries
  PROVE  /\ es \in Seq(Entry) /\ Len(es) \in Nat /\ Len(es) <= MaxEntries
         /\ \A k \in 1 .. Len(es) : es[k] \in Entry
<1>1. PICK n \in 0 .. MaxEntries : es \in [1 .. n -> Entry]
  BY DEF Entries
<1>2. es \in Seq(Entry) /\ Len(es) = n
  BY <1>1, MaxEntriesAssumption
<1> QED
  BY <1>1, <1>2, MaxEntriesAssumption

(* The blocks of the entries are named by their positions.                   *)
LEMMA EntryBlocksBounded ==
  ASSUME NEW es \in Entries, NEW n \in Nat
  PROVE  EntryBlocks(es, n) \subseteq {"key", "val"} \X (1 .. Len(es))
<1> SUFFICES ASSUME NEW b \in EntryBlocks(es, n)
             PROVE  b \in {"key", "val"} \X (1 .. Len(es))
  OBVIOUS
<1>1. PICK k \in {j \in 1 .. Len(es) : j > n} :
        b \in Has(es[k].key, Key(k)) \cup Has(es[k].val, Val(k))
  BY DEF EntryBlocks
<1> QED
  BY <1>1 DEF Has, Key, Val

(* The error code that is freed is read through the member it was written    *)
(* through: the table of error_code_free is that of the lifting.             *)
LEMMA MembersAgree ==
  ASSUME NEW c \in LiftedCodes
  PROVE  /\ FreeMember(c.tag) = c.member
         /\ c.member \in Textual /\ (c.member = Outer => c.some)
              => c.text \in Lengths \cup {"absent"}
         /\ c.text = "block"
              => c.member \in Textual /\ (c.member = Outer => c.some)
  BY DEF LiftedCodes, Codes, LiftMember, FreeMember, Outer, Textual, Lengths,
         Tags

LEMMA InitTypeOK == Init => TypeOK
<1> SUFFICES ASSUME Init PROVE TypeOK
  OBVIOUS
<1>1. entries \in Entries /\ i \in 0 .. Len(entries)
  <2>1. <<>> \in [1 .. 0 -> Entry]
    OBVIOUS
  <2> QED
    BY <2>1, MaxEntriesAssumption DEF Init, Entries
<1> QED
  BY <1>1 DEF Init, TypeOK, Lists

LEMMA StepTypeOK == TypeOK /\ [Next]_vars => TypeOK'
<1> SUFFICES ASSUME TypeOK, [Next]_vars PROVE TypeOK'
  OBVIOUS
<1> USE DEF TypeOK, Goto, Step
<1>a. ASSUME NEW p \in {"free"}, Lift(p) PROVE TypeOK'
  BY <1>a DEF Lift, Has, Blocks
<1>1. CASE Handle BY <1>1, <1>a DEF Handle
<1>2. CASE Write BY <1>2 DEF Write
<1>3. CASE Finish BY <1>3, <1>a DEF Finish
<1>4. CASE Get BY <1>4, <1>a DEF Get
<1>5. CASE FreeCode BY <1>5 DEF FreeCode
<1>6. CASE FieldsEntries
  <2>1. PICK es \in Entries :
          /\ entries' = es
          /\ heap' = heap \cup EntryBlocks(es, 0) \cup ListBlocks(es)
    BY <1>6 DEF FieldsEntries
  <2>2. Len(es) \in Nat /\ Len(es) <= MaxEntries
    BY EntriesAreSeqs
  <2>3. EntryBlocks(es, 0) \subseteq {"key", "val"} \X (1 .. Len(es))
    BY EntryBlocksBounded
  <2>4. {"key", "val"} \X (1 .. Len(es)) \subseteq Blocks
    BY <2>2, MaxEntriesAssumption DEF Blocks
  <2>5. heap' \subseteq Blocks
    BY <2>1, <2>3, <2>4 DEF ListBlocks, Blocks
  <2>6. i' \in 0 .. Len(entries')
    BY <1>6, <2>1, <2>2 DEF FieldsEntries
  <2> QED
    BY <1>6, <2>1, <2>5, <2>6 DEF FieldsEntries
<1>7. CASE CopyEntry
  BY <1>7, EntriesAreSeqs DEF CopyEntry, More
<1>8. CASE EndCopy
  BY <1>8, EntriesAreSeqs DEF EndCopy
<1>9. CASE FreeEntry
  BY <1>9, EntriesAreSeqs DEF FreeEntry, More
<1>10. CASE FreeEntryList BY <1>10 DEF FreeEntryList
<1>11. CASE BlockingRead
  BY <1>11 DEF BlockingRead, Lists, Has, Blocks
<1>12. CASE Deliver BY <1>12 DEF Deliver
<1>13. CASE DeliverThrows BY <1>13 DEF DeliverThrows
<1>14. CASE FreeChunk BY <1>14 DEF FreeChunk, Free
<1>15. CASE ToDebugString
  BY <1>15 DEF ToDebugString, Lists, Has, Blocks
<1>16. CASE FreeDebugString
  BY <1>16 DEF FreeDebugString, Free, Lists, Lengths
<1>17. CASE Done \/ UNCHANGED vars BY <1>17 DEF Done, vars
<1> QED
  BY <1>1, <1>2, <1>3, <1>4, <1>5, <1>6, <1>7, <1>8, <1>9, <1>10, <1>11,
     <1>12, <1>13, <1>14, <1>15, <1>16, <1>17 DEF Next

(* The variables keep their types, the loops over the header entries stay    *)
(* within the list: list_tuple2_free and the copy in Request().              *)
THEOREM HeapTypeCorrect == Spec => []TypeOK
  BY InitTypeOK, StepTypeOK, PTL DEF Spec

------------------------------------------------------------------------------

HeapInv == TypeOK /\ Accounted /\ HeapSafe

(* Freeing entry k + 1 leaves the blocks of the entries after it.            *)
LEMMA EntryFreed ==
  ASSUME NEW es \in Entries, NEW k \in Nat, k < Len(es)
  PROVE  /\ EntryBlocks(es, k) =
              Has(es[k + 1].key, Key(k + 1)) \cup Has(es[k + 1].val, Val(k + 1))
                \cup EntryBlocks(es, k + 1)
         /\ Key(k + 1) \notin EntryBlocks(es, k + 1)
         /\ Val(k + 1) \notin EntryBlocks(es, k + 1)
<1> USE EntriesAreSeqs
<1>1. {j \in 1 .. Len(es) : j > k} =
        {k + 1} \cup {j \in 1 .. Len(es) : j > k + 1}
  OBVIOUS
<1>2. EntryBlocks(es, k) =
        Has(es[k + 1].key, Key(k + 1)) \cup Has(es[k + 1].val, Val(k + 1))
          \cup EntryBlocks(es, k + 1)
  BY <1>1 DEF EntryBlocks
<1>3. ASSUME NEW b \in EntryBlocks(es, k + 1)
      PROVE  b # Key(k + 1) /\ b # Val(k + 1)
  <2>1. PICK j \in {j \in 1 .. Len(es) : j > k + 1} :
          b \in Has(es[j].key, Key(j)) \cup Has(es[j].val, Val(j))
    BY DEF EntryBlocks
  <2> QED
    BY <2>1 DEF Has, Key, Val
<1> QED
  BY <1>2, <1>3

(* After the last entry nothing but the list is left.                        *)
LEMMA EntriesFreed ==
  ASSUME NEW es \in Entries, NEW k \in Nat, k >= Len(es)
  PROVE  EntryBlocks(es, k) = {}
  BY EntriesAreSeqs DEF EntryBlocks

(* The blocks of the entries are there while the copy loop reads them.       *)
LEMMA EntryHeld ==
  ASSUME NEW es \in Entries, NEW k \in Nat, k < Len(es)
  PROVE  /\ Has(es[k + 1].key, Key(k + 1)) \subseteq EntryBlocks(es, 0)
         /\ Has(es[k + 1].val, Val(k + 1)) \subseteq EntryBlocks(es, 0)
<1>1. k + 1 \in {j \in 1 .. Len(es) : j > 0}
  BY EntriesAreSeqs
<1> QED
  BY <1>1 DEF EntryBlocks

LEMMA ListApart ==
  ASSUME NEW es \in Entries, NEW k \in Nat
  PROVE  List \notin EntryBlocks(es, k)
<1>1. List \notin {"key", "val"} \X (1 .. Len(es))
  BY DEF List
<1> QED
  BY <1>1, EntryBlocksBounded

LEMMA InitHeapInv == Init => HeapInv
  BY InitTypeOK DEF Init, HeapInv, Accounted, Owned, HeapSafe

LEMMA StepHeapInv == HeapInv /\ [Next]_vars => HeapInv'
<1> SUFFICES ASSUME HeapInv, [Next]_vars PROVE Accounted' /\ HeapSafe'
  BY StepTypeOK DEF HeapInv
<1> USE DEF Goto, Step, HeapSafe
<1>0. TypeOK /\ Accounted /\ HeapSafe
  BY DEF HeapInv
<1>a. ASSUME pc # "done" PROVE ~threw /\ heap = Owned
  BY <1>a, <1>0 DEF Accounted
<1>b. ASSUME Lift("free"), pc # "done", heap = {}
      PROVE  Accounted' /\ HeapSafe'
  BY <1>0, <1>a, <1>b DEF Lift, Accounted, Owned
<1>1. CASE Handle
  <2>1. pc = "dispatch" /\ heap = {}
    BY <1>1, <1>a DEF Handle, Owned
  <2> QED
    BY <1>0, <1>1, <1>a, <1>b, <2>1 DEF Handle, Accounted, Owned
<1>2. CASE Write
  BY <1>0, <1>2, <1>a DEF Write, Accounted, Owned
<1>3. CASE Finish
  <2>1. pc = "finish" /\ heap = {}
    BY <1>3, <1>a DEF Finish, Owned
  <2> QED
    BY <1>0, <1>3, <1>a, <1>b, <2>1 DEF Finish, Accounted, Owned
<1>4. CASE Get
  <2>1. pc = "get" /\ heap = {}
    BY <1>4, <1>a DEF Get, Owned
  <2> QED
    BY <1>0, <1>4, <1>a, <1>b, <2>1 DEF Get, Accounted, Owned
<1>5. CASE FreeCode
  <2>1. pc = "free" /\ code \in LiftedCodes /\ ~threw /\ ~broken
    BY <1>0, <1>5 DEF FreeCode, Accounted
  <2>2. heap = Has(code.text, Text)
    BY <1>a, <2>1 DEF Owned
  <2>3. FreeMember(code.tag) = code.member
    BY <2>1, MembersAgree
  <2>4. CASE code.member \in Textual /\ (code.member = Outer => code.some)
    <3>1. code.text \in Lengths \cup {"absent"}
      BY <2>1, <2>4, MembersAgree
    <3>2. ~Bad(code.text, Text)
      BY <2>2, <3>1 DEF Bad, Has, Lengths
    <3>3. heap' = {} /\ ~broken'
      BY <1>5, <2>1, <2>2, <2>3, <2>4, <3>2 DEF FreeCode
    <3> QED
      BY <1>5, <2>1, <3>3 DEF FreeCode, Accounted, Owned
  <2>5. CASE ~(code.member \in Textual /\ (code.member = Outer => code.some))
    <3>1. heap = {}
      BY <2>1, <2>2, <2>5, MembersAgree DEF Has
    <3>2. heap' = {} /\ ~broken'
      BY <1>5, <2>1, <2>3, <2>5, <3>1 DEF FreeCode
    <3> QED
      BY <1>5, <2>1, <3>2 DEF FreeCode, Accounted, Owned
  <2> QED
    BY <2>4, <2>5
<1>6. CASE FieldsEntries
  BY <1>0, <1>6, <1>a DEF FieldsEntries, Accounted, Owned
<1>7. CASE CopyEntry
  <2>1. pc = "copy" /\ heap = EntryBlocks(entries, 0) \cup ListBlocks(entries)
    BY <1>7, <1>a DEF CopyEntry, Owned
  <2>2. /\ entries \in Entries /\ i \in Nat /\ i < Len(entries)
        /\ Len(entries) \in Nat
        /\ entries[i + 1] \in Entry /\ entries # <<>>
    BY <1>0, <1>7, EntriesAreSeqs DEF CopyEntry, More, TypeOK
  <2>3. At(i + 1) = entries[i + 1] /\ List \in heap
    BY <2>1, <2>2 DEF At, ListBlocks
  <2>4. /\ Has(entries[i + 1].key, Key(i + 1)) \subseteq heap
        /\ Has(entries[i + 1].val, Val(i + 1)) \subseteq heap
    BY <2>1, <2>2, EntryHeld
  <2>5. ~Bad(At(i + 1).key, Key(i + 1)) /\ ~Bad(At(i + 1).val, Val(i + 1))
    BY <2>2, <2>3, <2>4 DEF Bad, Has, Entry, Lengths
  <2> QED
    BY <1>0, <1>7, <1>a, <2>1, <2>3, <2>5 DEF CopyEntry, Accounted, Owned
<1>8. CASE EndCopy
  BY <1>0, <1>8, <1>a DEF EndCopy, Accounted, Owned
<1>9. CASE FreeEntry
  <2> DEFINE own == Has(entries[i + 1].key, Key(i + 1))
                      \cup Has(entries[i + 1].val, Val(i + 1))
  <2>1. /\ pc = "freeEntries"
        /\ heap = EntryBlocks(entries, i) \cup ListBlocks(entries)
    BY <1>9, <1>a DEF FreeEntry, Owned
  <2>2. /\ entries \in Entries /\ i \in Nat /\ i < Len(entries)
        /\ Len(entries) \in Nat
        /\ entries[i + 1] \in Entry /\ entries # <<>>
    BY <1>0, <1>9, EntriesAreSeqs DEF FreeEntry, More, TypeOK
  <2>3. At(i + 1) = entries[i + 1] /\ List \in heap
    BY <2>1, <2>2 DEF At, ListBlocks
  <2>4. /\ EntryBlocks(entries, i) = own \cup EntryBlocks(entries, i + 1)
        /\ own \cap EntryBlocks(entries, i + 1) = {}
    BY <2>2, EntryFreed DEF Has
  <2>5. own \cap ListBlocks(entries) = {}
    BY DEF ListBlocks, List, Has, Key, Val
  <2>6. heap' = EntryBlocks(entries, i + 1) \cup ListBlocks(entries)
    BY <1>9, <2>1, <2>3, <2>4, <2>5 DEF FreeEntry
  <2>7. ~Bad(At(i + 1).key, Key(i + 1)) /\ ~Bad(At(i + 1).val, Val(i + 1))
    BY <2>1, <2>2, <2>3, <2>4 DEF Bad, Has, Entry, Lengths
  <2>8. /\ UNCHANGED <<pc, entries, threw>> /\ i' = i + 1 /\ ~broken'
    BY <1>0, <1>9, <2>3, <2>7 DEF FreeEntry
  <2> QED
    BY <1>a, <2>1, <2>6, <2>8 DEF Accounted, Owned
<1>10. CASE FreeEntryList
  <2>1. /\ pc = "freeEntries" /\ i \in Nat /\ i >= Len(entries)
        /\ entries \in Entries
    BY <1>0, <1>10, EntriesAreSeqs DEF FreeEntryList, More, TypeOK
  <2>2. heap = ListBlocks(entries)
    BY <1>a, <2>1, EntriesFreed DEF Owned
  <2>3. heap' = {} /\ ~broken'
    BY <1>0, <1>10, <2>2 DEF FreeEntryList, ListBlocks
  <2> QED
    BY <1>0, <1>10, <1>a, <2>1, <2>3 DEF FreeEntryList, Accounted, Owned
<1>11. CASE BlockingRead
  <2>1. pc = "read" /\ heap = {}
    BY <1>11, <1>a DEF BlockingRead, Owned
  <2> QED
    BY <1>0, <1>11, <1>a, <2>1
       DEF BlockingRead, Accounted, Owned, Lengths
<1>12. CASE Deliver
  BY <1>0, <1>12, <1>a DEF Deliver, Accounted, Owned, Bad, Has
<1>13. CASE DeliverThrows
  BY <1>0, <1>13, <1>a DEF DeliverThrows, Accounted, Owned, Bad, Has
<1>14. CASE FreeChunk
  BY <1>0, <1>14, <1>a DEF FreeChunk, Free, Accounted, Owned, Bad, Has
<1>15. CASE ToDebugString
  <2>1. pc = "debug" /\ heap = {}
    BY <1>15, <1>a DEF ToDebugString, Owned
  <2> QED
    BY <1>0, <1>15, <1>a, <2>1 DEF ToDebugString, Accounted, Owned, Lengths
<1>16. CASE FreeDebugString
  BY <1>0, <1>16, <1>a DEF FreeDebugString, Free, Accounted, Owned, Bad, Has
<1>17. CASE Done \/ UNCHANGED vars
  <2>1. UNCHANGED vars
    BY <1>17 DEF Done
  <2> QED
    BY <1>0, <2>1 DEF vars, Accounted, Owned, Bad, LiftedCodes, Codes
<1> QED
  BY <1>1, <1>2, <1>3, <1>4, <1>5, <1>6, <1>7, <1>8, <1>9, <1>10, <1>11,
     <1>12, <1>13, <1>14, <1>15, <1>16, <1>17 DEF Next

(* No free and no copy of Request() or of the *_free functions touches       *)
(* memory that is not a live block.                                          *)
THEOREM HeapSafety == Spec => []HeapSafe
<1>1. HeapInv => HeapSafe
  BY DEF HeapInv
<1> QED
  BY <1>1, InitHeapInv, StepHeapInv, PTL DEF Spec

(* Between any two statements the heap is what the rest of Request() frees,  *)
(* each block once.                                                          *)
THEOREM HeapAccounted == Spec => []Accounted
<1>1. HeapInv => Accounted
  BY DEF HeapInv
<1> QED
  BY <1>1, InitHeapInv, StepHeapInv, PTL DEF Spec
==============================================================================
