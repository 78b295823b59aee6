--------------------------- MODULE ImportArguments ---------------------------
(***************************************************************************)
(* How the wrappers of http_client.c that take a variant, an option or a     *)
(* result spread it over the core arguments of the import: one slot for each *)
(* tag, and the payloads of all cases in the same slots behind it, each slot *)
(* as wide as its widest use and filled up with zeros.  An optional argument *)
(* is a pointer that may be NULL.  `self` is left out.                       *)
(***************************************************************************)
EXTENDS WitTypes

TextSetters    == {"set-path-with-query", "set-authority"}
TimeoutSetters == {"set-connect-timeout", "set-first-byte-timeout",
                   "set-between-bytes-timeout"}
Setters   == TextSetters \cup TimeoutSetters \cup {"set-method", "set-scheme"}
HandOvers == {"outgoing-body.finish", "outgoing-handler.handle"}
Functions == Setters \cup HandOvers \cup {"response-outparam.set"}

VARIABLES
  pc,      \* "idle", "called", "answered" or "returned"
  fn, arg, \* the wrapper and what its caller gave it
  slots,   \* the core arguments
  heard,   \* what the host made of them
  reply,   \* the core result of the setters, 0 or 1
  rc       \* the bool they return

vars == <<pc, fn, arg, slots, heard, reply, rc>>

ArgType(f) ==
  CASE f \in TextSetters    -> Option(Text)
    [] f \in TimeoutSetters -> Option(Word(8))
    [] f \in HandOvers      -> Option(Handle)
    [] f = "set-method"     -> Method
    [] f = "set-scheme"     -> Option(Scheme)
    [] f = "response-outparam.set" -> Result(Handle, ErrorCode)

\* The parameters of the imports; pointers and size_t are i32.
SlotTypes(f) ==
  CASE f \in TextSetters \cup {"set-method"} -> <<"i32", "i32", "i32">>
    [] f \in TimeoutSetters -> <<"i32", "i64">>
    [] f \in HandOvers      -> <<"i32", "i32">>
    [] f = "set-scheme"     -> <<"i32", "i32", "i32", "i32">>
    [] f = "response-outparam.set" ->
         <<"i32", "i32", "i32", "i64", "i32", "i32", "i32", "i32">>

------------------------------------------------------------------------------
(* The lowering of each type.                                                *)

Zero     == Tag(0)
Zeros(n) == [i \in 1 .. n |-> Zero]
Filled(s, n) == s \o Zeros(n - Len(s))

LowerText(v)   == <<v.ptr, v.len>>
LowerMethod(v) ==
  <<Tag(v.tag)>> \o (IF v.tag = 9 THEN LowerText(v.val) ELSE Zeros(2))
LowerScheme(v) ==
  <<Tag(v.tag)>> \o (IF v.tag = 2 THEN LowerText(v.val) ELSE Zeros(2))
LowerOptionScheme(v) ==
  IF v.tag = 1 THEN <<Tag(1)>> \o LowerScheme(v.val) ELSE Zeros(4)
LowerOptionText(v) ==
  IF v.tag = 1 THEN <<Tag(1)>> \o LowerText(v.val) ELSE Zeros(3)
LowerOptionWord(v) == IF v.tag = 1 THEN <<Tag(1), v.val>> ELSE Zeros(2)

LowerDnsErrorPayload(v) ==
  LowerOptionText(v.vs[1]) \o LowerOptionWord(v.vs[2])
LowerTlsAlertPayload(v) ==
  LowerOptionWord(v.vs[1]) \o LowerOptionText(v.vs[2])
LowerFieldSizePayload(v) ==
  LowerOptionText(v.vs[1]) \o LowerOptionWord(v.vs[2])
\* Faulty variant: a payload that is there goes without its tag.
LowerOptionFieldSizeBare(v) ==
  IF v.tag = 1 THEN LowerFieldSizePayload(v.val) ELSE Zeros(6)
LowerOptionFieldSize(v) ==
  IF v.tag = 1 THEN <<Tag(1)>> \o LowerFieldSizePayload(v.val) ELSE Zeros(6)

LowerErrorPayload(v) ==
  CASE v.tag = 1                    -> LowerDnsErrorPayload(v.val)
    [] v.tag = 14                   -> LowerTlsAlertPayload(v.val)
    [] v.tag \in {17, 28, 21, 23, 26, 29} -> LowerOptionWord(v.val)
    [] v.tag = 22                   -> LowerOptionFieldSize(v.val)
    [] v.tag \in {24, 27, 30}       -> LowerFieldSizePayload(v.val)
    [] v.tag \in {31, 32, 38}       -> LowerOptionText(v.val)
    [] OTHER                        -> <<>>
LowerErrorCode(v) == <<Tag(v.tag)>> \o Filled(LowerErrorPayload(v), 6)
LowerResponse(v) ==
  IF v.tag = 1 THEN <<Tag(1)>> \o LowerErrorCode(v.val)
  ELSE Filled(<<Tag(0), v.val>>, 8)

Lowered(f, v) ==
  CASE f \in TextSetters -> LowerOptionText(v)
    [] f \in TimeoutSetters \cup HandOvers -> LowerOptionWord(v)
    [] f = "set-method"  -> LowerMethod(v)
    [] f = "set-scheme"  -> LowerOptionScheme(v)
    [] f = "response-outparam.set" -> LowerResponse(v)

\* Passing x in a slot of type t: 64 bits do not survive in 32.
Narrowed == [k |-> "narrowed", n |-> 255]
Wide == {Num(8, n) : n \in Ints[8]}
Passed(t, x) == IF t = "i32" /\ x \in Wide THEN Narrowed ELSE x

------------------------------------------------------------------------------

Init ==
  /\ pc = "idle" /\ fn = "none" /\ arg = Nothing /\ slots = <<>>
  /\ heard = Nothing /\ reply = 0 /\ rc = FALSE

Call(f) ==
  /\ pc = "idle"
  /\ pc' = "called" /\ fn' = f
  /\ \E v \in Values(ArgType(f)) :
       LET s == Lowered(f, v)
       IN  /\ arg' = v
           /\ slots' = [i \in DOMAIN s |->
                          IF i \in DOMAIN SlotTypes(f)
                          THEN Passed(SlotTypes(f)[i], s[i]) ELSE s[i]]
  /\ UNCHANGED <<heard, reply, rc>>

\* The host reads the arguments by the canonical ABI and answers.
Answer ==
  /\ pc = "called"
  /\ pc' = "answered"
  /\ heard' = Unflatten(ArgType(fn), slots)
  /\ reply' \in IF fn \in Setters THEN {0, 1} ELSE {0}
  /\ UNCHANGED <<fn, arg, slots, rc>>

\* switch (ret): 0 is ok.
Verdict(r) == r = 0

Return ==
  /\ pc = "answered"
  /\ pc' = "returned"
  /\ rc' = (fn \in Setters /\ Verdict(reply))
  /\ UNCHANGED <<fn, arg, slots, heard, reply>>

Again ==
  /\ pc = "returned"
  /\ pc' = "idle"
  /\ fn' = "none" /\ arg' = Nothing /\ slots' = <<>> /\ heard' = Nothing
  /\ reply' = 0 /\ rc' = FALSE

Next == (\E f \in Functions : Call(f)) \/ Answer \/ Return \/ Again
Spec == Init /\ [][Next]_vars

------------------------------------------------------------------------------

\* The host hears what the caller said: every case of every variant, through
\* slots that mean a different thing in each case (in response-outparam.set the
\* fourth one is a length, a pointer, a tag or 64 bits) and that are as wide
\* as the import declares them; and the caller of a setter hears whether the host
\* took the value.
Understood ==
  /\ pc \in {"answered", "returned"} => heard = arg
  /\ pc = "returned" /\ fn \in Setters => rc = (reply = 0)
==============================================================================
