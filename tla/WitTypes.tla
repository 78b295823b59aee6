------------------------------- MODULE WitTypes -------------------------------
(***************************************************************************)
(* The types of wasi:io 0.2.0 and wasi:http 0.2.0 that http_client.h        *)
(* declares as C structs, as WIT types.  Handles are 32-bit words.          *)
(***************************************************************************)
EXTENDS CanonicalAbi

Handle      == Word(4)
StreamError == Variant(<<Handle, Unit>>)
HeaderError == Variant(<<Unit, Unit, Unit>>)

MethodOther == 9
MethodCases == [i \in 1 .. 10 |-> IF i - 1 = MethodOther THEN Text ELSE Unit]
Method      == Variant(MethodCases)
SchemeCases == <<Unit, Unit, Text>>
Scheme      == Variant(SchemeCases)

DnsErrorPayload  == Pair(Option(Text), Option(Word(2)))
TlsAlertReceivedPayload == Pair(Option(Word(1)), Option(Text))
FieldSizePayload == Pair(Option(Text), Option(Word(4)))

ErrorPayload(t) ==
  CASE t = 1                    -> DnsErrorPayload
    [] t = 14                   -> TlsAlertReceivedPayload
    [] t \in {17, 28}           -> Option(Word(8))
    [] t \in {21, 23, 26, 29}   -> Option(Word(4))
    [] t = 22                   -> Option(FieldSizePayload)
    [] t \in {24, 27, 30}       -> FieldSizePayload
    [] t \in {31, 32, 38}       -> Option(Text)
    [] OTHER                    -> Unit
ErrorCases == [i \in 1 .. 39 |-> ErrorPayload(i - 1)]
ErrorCode  == Variant(ErrorCases)
==============================================================================
