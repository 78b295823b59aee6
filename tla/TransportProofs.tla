---------------------------- MODULE TransportProofs ----------------------------
(***************************************************************************)
(* The two ends of a call of WasiHTTPClient.  Its beginning: ParseUrl splits *)
(* every URL of every length where its syntax says.  Its end: an upload and  *)
(* its server never wait for each other, for every body, every answer and    *)
(* every size of the buffers between them, and a response returned is a      *)
(* whole one.                                                                *)
(***************************************************************************)
EXTENDS UploadDuplex, UrlParse, SequenceTheorems, WellFoundedInduction, TLAPS

------------------------------------------------------------------------------
(* Upload and answer                                                         *)

\* How far the client is, in terms of what it called.
Phase ==
  /\ pc = "write" => ~ended
  /\ pc \in {"block", "read", "ok"} => ended /\ off = body
  /\ pc = "ok" => sent = answer /\ down = 0

\* How far the server is, in terms of what it sent; nothing of the answer is
\* read before the body is written.
Progress ==
  /\ server = "sending" \/ sent > 0 => eager \/ ended
  /\ server \in {"taking", "sending"} => sent < answer
  /\ server = "answered" => sent = answer
  /\ pc \in {"write", "block"} => down = sent

IInv == TypeOK /\ Phase /\ Progress

LEMMA InitInv == Init => IInv
<1> SUFFICES ASSUME Init PROVE IInv
  OBVIOUS
<1> USE WindowAssumption DEF Init
<1>1. TypeOK
  <2>1. ended \in BOOLEAN /\ eager \in BOOLEAN
    OBVIOUS
  <2> QED
    BY <2>1 DEF TypeOK
<1>2. Phase
  BY DEF Phase
<1>3. Progress
  BY DEF Progress
<1> QED
  BY <1>1, <1>2, <1>3 DEF IInv

LEMMA NextInv == IInv /\ [Next]_vars => IInv'
<1> SUFFICES ASSUME IInv, [Next]_vars PROVE IInv'
  OBVIOUS
<1> USE WindowAssumption DEF IInv, TypeOK, Phase, Progress, request, client
<1>1. CASE WriteChunk
  BY <1>1 DEF WriteChunk, More, Fail
<1>2. CASE FinishBody
  <2>1. CASE server # "hungup"
    <3>1. ended' <=> TRUE
      BY <1>2, <2>1 DEF FinishBody, FinishCalled
    <3>2. /\ pc = "write" /\ pc' = "block" /\ off = body
          /\ UNCHANGED <<off, up, down, body, answer, eager, server, sent>>
      BY <1>2, <2>1 DEF FinishBody, More
    <3>3. TypeOK'
      <4>1. ended' \in BOOLEAN
        BY <3>1
      <4> QED
        BY <3>2, <4>1
    <3> QED
      BY <3>1, <3>2, <3>3
  <2>2. CASE server = "hungup"
    BY <1>2, <2>2 DEF FinishBody, Fail
  <2> QED
    BY <2>1, <2>2
<1>3. CASE Block
  <2>1. CASE down > 0 /\ pc' = "read" /\ down' = down - 1
               /\ UNCHANGED <<off, up, ended>>
    BY <1>3, <2>1 DEF Block
  <2>2. CASE down = 0 /\ server = "hungup" /\ Fail
    BY <1>3, <2>2 DEF Block, Fail
  <2> QED
    BY <1>3, <2>1, <2>2 DEF Block
<1>4. CASE ReadChunk
  <2>1. CASE down > 0 /\ down' = down - 1 /\ UNCHANGED <<pc, off, up, ended>>
    BY <1>4, <2>1 DEF ReadChunk
  <2>2. CASE ReadAll /\ pc' = "ok" /\ UNCHANGED <<off, up, ended, down>>
    BY <1>4, <2>2 DEF ReadChunk, ReadAll
  <2>3. CASE down = 0 /\ sent # answer /\ server = "hungup" /\ Fail
    BY <1>4, <2>3 DEF ReadChunk, Fail
  <2> QED
    BY <1>4, <2>1, <2>2, <2>3 DEF ReadChunk
<1>5. CASE Take
  BY <1>5 DEF Take
<1>6. CASE TurnToAnswer
  BY <1>6 DEF TurnToAnswer
<1>7. CASE Send
  BY <1>7 DEF Send
<1>8. CASE HangUp
  BY <1>8 DEF HangUp
<1>9. CASE UNCHANGED vars
  BY <1>9 DEF vars
<1> QED
  BY <1>1, <1>2, <1>3, <1>4, <1>5, <1>6, <1>7, <1>8, <1>9
  DEF Next, Request, Server

LEMMA Invariance == Spec => []IInv
BY InitInv, NextInv, PTL DEF Spec

\* The counts stay inside the body, the answer and the buffers.
THEOREM TypeCorrect == Spec => []TypeOK
<1>1. IInv => TypeOK
  BY DEF IInv
<1> QED
  BY <1>1, Invariance, PTL

\* A client that waits for room in the body's buffer faces a server that has
\* begun to answer, which a server that fits cannot be blocked in; one that
\* waits for the answer has ended the body.
THEOREM MutualWaitFree == Spec => []NoMutualWait
<1>1. IInv => NoMutualWait
  <2> SUFFICES ASSUME IInv, Fits, ClientWaits, ServerWaits PROVE FALSE
    BY DEF NoMutualWait
  <2> USE WindowAssumption DEF IInv, TypeOK, Phase, Progress, ServerWaits
  <2>1. CASE pc = "write" /\ off < body /\ up = BodyWindow
    BY <2>1 DEF Fits
  <2>2. CASE pc = "block" /\ down = 0
    BY <2>2
  <2>3. CASE pc = "read" /\ down = 0 /\ sent # answer
    BY <2>3
  <2> QED
    BY <2>1, <2>2, <2>3 DEF ClientWaits
<1> QED
  BY <1>1, Invariance, PTL

\* What Request() returns as a response is the whole answer to a whole body.
THEOREM WholeAlways == Spec => []WholeExchange
<1>1. IInv => WholeExchange
  BY DEF IInv, Phase, WholeExchange
<1> QED
  BY <1>1, Invariance, PTL

(* What is left of an exchange: to write and to take, to send and to read,   *)
(* and the turns of the two.  A chunk under way weighs less than one not yet  *)
(* handed over.                                                              *)
ClientTurns == [write |-> 3, block |-> 2, read |-> 1, ok |-> 0, failed |-> 0]
ServerTurns == [taking |-> 2, sending |-> 1, answered |-> 1, hungup |-> 0]
Remaining ==
  2 * (body - off) + up + 3 * (answer - sent) + down
    + ClientTurns[pc] + ServerTurns[server]

\* Each part of it is a natural number.
LEMMA RemainingNat ==
  ASSUME IInv
  PROVE  /\ body - off \in Nat /\ up \in Nat /\ answer - sent \in Nat
         /\ down \in Nat /\ ClientTurns[pc] \in Nat
         /\ ServerTurns[server] \in Nat /\ Remaining \in Nat
<1> USE WindowAssumption DEF IInv, TypeOK
<1>1. body \in Nat /\ off \in 0 .. body /\ answer \in Nat /\ sent \in 0 .. answer
  OBVIOUS
<1>2. body - off \in Nat /\ answer - sent \in Nat
  BY <1>1
<1>3. up \in Nat /\ down \in Nat
  OBVIOUS
<1>4. ClientTurns[pc] \in Nat
  BY DEF ClientTurns
<1>5. ServerTurns[server] \in Nat
  BY DEF ServerTurns
<1> QED
  BY <1>2, <1>3, <1>4, <1>5 DEF Remaining

\* Every step of the client, of the server and of the network leaves less.
LEMMA RemainingStep ==
  ASSUME IInv, Next PROVE Remaining \in Nat /\ Remaining' < Remaining
<1>1. /\ body - off \in Nat /\ up \in Nat /\ answer - sent \in Nat
      /\ down \in Nat /\ ClientTurns[pc] \in Nat
      /\ ServerTurns[server] \in Nat /\ Remaining \in Nat
  BY RemainingNat
<1>2. body \in Nat /\ off \in Nat /\ answer \in Nat /\ sent \in Nat
  BY WindowAssumption DEF IInv, TypeOK
<1>3. server \in {"taking", "sending", "answered", "hungup"}
  BY DEF IInv, TypeOK
<1> USE <1>1, <1>2 DEF Remaining, request, client
<1>4. CASE WriteChunk
  <2>1. CASE server # "hungup"
    BY <1>4, <2>1 DEF WriteChunk
  <2>2. CASE server = "hungup"
    BY <1>4, <2>2 DEF WriteChunk, Fail, ClientTurns
  <2> QED
    BY <2>1, <2>2
<1>5. CASE FinishBody
  <2>1. /\ pc = "write" /\ pc' \in {"block", "failed"}
        /\ UNCHANGED <<body, off, up, answer, sent, down, server>>
    BY <1>5 DEF FinishBody, Fail
  <2> QED
    BY <2>1 DEF ClientTurns
<1>6. CASE Block
  BY <1>6 DEF Block, Fail, ClientTurns
<1>7. CASE ReadChunk
  <2>1. CASE down' = down - 1 /\ UNCHANGED pc
    BY <1>7, <2>1 DEF ReadChunk, Fail
  <2>2. CASE pc' \in {"ok", "failed"} /\ UNCHANGED down
    BY <1>7, <2>2 DEF ReadChunk, Fail, ClientTurns
  <2> QED
    BY <1>7, <2>1, <2>2 DEF ReadChunk, Fail
<1>8. CASE Take
  BY <1>8 DEF Take
<1>9. CASE TurnToAnswer
  BY <1>9 DEF TurnToAnswer, ServerTurns
<1>10. CASE Send
  <2>1. /\ server = "sending" /\ server' \in {"answered", "taking"}
        /\ down' = down + 1 /\ sent' = sent + 1
        /\ UNCHANGED <<pc, body, off, up, answer>>
    BY <1>10 DEF Send
  <2>2. ServerTurns[server] = 1 /\ ServerTurns[server'] \in {1, 2}
    BY <2>1 DEF ServerTurns
  <2> QED
    BY <2>1, <2>2
<1>11. CASE HangUp
  <2>1. /\ server' = "hungup" /\ server # "hungup" /\ up' = 0
        /\ UNCHANGED <<pc, body, off, answer, sent, down>>
    BY <1>11 DEF HangUp
  <2>2. ServerTurns[server'] = 0 /\ ServerTurns[server] \in {1, 2}
    BY <1>3, <2>1 DEF ServerTurns
  <2> QED
    BY <2>1, <2>2
<1> QED
  BY <1>4, <1>5, <1>6, <1>7, <1>8, <1>9, <1>10, <1>11
     DEF Next, Request, Server

\* No exchange goes on for ever: every step leaves less of it.  With
\* MutualWaitFree, which says that a call that waits is not waited for, this is
\* the part of CallEnds that does not depend on fairness.
THEOREM ExchangesAdvance == Spec => [][Remaining' < Remaining]_vars
<1>1. IInv /\ [Next]_vars => [Remaining' < Remaining]_vars
  BY RemainingStep
<1> QED
  BY <1>1, Invariance, PTL DEF Spec

------------------------------------------------------------------------------
(* ParseUrl                                                                  *)

\* A set of numbers has a least one.
LEMMA LeastExists ==
  ASSUME NEW T \in SUBSET Nat, T # {}
  PROVE  Min(T) \in T /\ \A y \in T : Min(T) <= y
<1> DEFINE R == OpToRel(<, Nat)
<1>1. IsWellFoundedOn(R, Nat)
  BY NatLessThanWellFounded DEF R
<1>2. PICK x \in T : \A y \in T : ~ (<<y, x>> \in R)
  BY <1>1, WFMin
<1>3. \A y \in T : ~ (y < x)
  BY <1>2 DEF OpToRel
<1>4. \A y \in T : x <= y
  BY <1>3
<1> QED
  BY <1>4 DEF Min

------------------------------------------------------------------------------
(* std::string::find: the first place, if there is one.                      *)

Begins(s, pat, i) == SubSeq(s, i, i + Len(pat) - 1) = pat

LEMMA FindFirst ==
  ASSUME NEW s \in Seq(Symbols), NEW pat \in Seq(Symbols), NEW n \in Nat
  PROVE  LET f  == Find(s, pat, n)
             at == {i \in n + 1 .. Len(s) - Len(pat) + 1 : Begins(s, pat, i)}
         IN  /\ f = 0 => at = {}
             /\ f # 0 => f \in at /\ \A i \in at : f <= i
             /\ f \in Nat
<1> DEFINE at == {i \in n + 1 .. Len(s) - Len(pat) + 1 : Begins(s, pat, i)}
<1>1. Find(s, pat, n) = IF at = {} THEN 0 ELSE Min(at)
  BY DEF Find, Begins
<1>2. at \in SUBSET Nat /\ 0 \notin at
  OBVIOUS
<1> HIDE DEF at
<1>3. at # {} => Min(at) \in at /\ \A y \in at : Min(at) <= y
  BY <1>2, LeastExists
<1> QED
  BY <1>1, <1>2, <1>3 DEF at

\* A pattern of one symbol begins where that symbol is.
LEMMA BeginsSymbol ==
  ASSUME NEW s \in Seq(Symbols), NEW c, NEW i \in 1 .. Len(s)
  PROVE  Begins(s, <<c>>, i) <=> s[i] = c
<1>1. i + Len(<<c>>) - 1 = i
  OBVIOUS
<1>2. Begins(s, <<c>>, i) <=> SubSeq(s, i, i) = <<c>>
  BY <1>1 DEF Begins
<1>3. s[i] \in Symbols /\ \A k \in i .. i : s[k] \in Symbols
  OBVIOUS
<1>4. SubSeq(s, i, i) \in Seq(Symbols)
  BY <1>3, SubSeqProperties
<1>5. Len(SubSeq(s, i, i)) = 1
  BY <1>3, SubSeqProperties
<1>6. SubSeq(s, i, i)[1] = s[i]
  BY <1>3, SubSeqProperties
<1>7. ASSUME s[i] = c PROVE SubSeq(s, i, i) = <<c>>
  <2>1. <<c>> \in Seq(Symbols) /\ Len(<<c>>) = 1 /\ <<c>>[1] = c
    BY <1>3, <1>7
  <2> DEFINE u == SubSeq(s, i, i)
             v == <<c>>
  <2>2. \A k \in 1 .. 1 : u[k] = v[k]
    BY <2>1, <1>6, <1>7
  <2>3. u \in Seq(Symbols) /\ v \in Seq(Symbols) /\ Len(u) = 1 /\ Len(v) = 1
    BY <2>1, <1>4, <1>5
  <2> HIDE DEF u, v
  <2>4. u = v
    BY <2>2, <2>3, SeqEqual
  <2> QED
    BY <2>4 DEF u, v
<1>8. ASSUME SubSeq(s, i, i) = <<c>> PROVE s[i] = c
  BY <1>6, <1>8
<1> QED
  BY <1>2, <1>7, <1>8

\* Where Find looks for a slash behind the first n symbols.
LEMMA FindSlash ==
  ASSUME NEW s \in Seq(Symbols), NEW n \in Nat
  PROVE  LET f == Find(s, <<"/">>, n)
         IN  /\ f \in Nat
             /\ f = 0 => \A i \in n + 1 .. Len(s) : s[i] # "/"
             /\ f # 0 => /\ f \in n + 1 .. Len(s) /\ s[f] = "/"
                         /\ \A i \in n + 1 .. Len(s) : s[i] = "/" => f <= i
<1> DEFINE f  == Find(s, <<"/">>, n)
           at == {i \in n + 1 .. Len(s) - Len(<<"/">>) + 1 : Begins(s, <<"/">>, i)}
<1>1. <<"/">> \in Seq(Symbols) /\ Len(<<"/">>) = 1 /\ Len(s) \in Nat
  BY DEF Symbols
<1>2. /\ f = 0 => at = {} /\ f \in Nat
      /\ f # 0 => f \in at /\ \A i \in at : f <= i
      /\ f \in Nat
  BY <1>1, FindFirst
<1>3. \A i : i \in at <=> i \in n + 1 .. Len(s) /\ s[i] = "/"
  BY <1>1, BeginsSymbol
<1> HIDE DEF f, at
<1> QED
  BY <1>2, <1>3 DEF f

------------------------------------------------------------------------------
(* What ParseUrl has found at each point.                                    *)

SchemeMark == Find(url, <<":", "/", "/">>, 0)
Slash      == Find(url, <<"/">>, after)

AfterScheme ==
  IF SchemeMark = 0 THEN after = 0
  ELSE https = NotHttp(SubSeq(url, 1, SchemeMark - 1)) /\ after = SchemeMark + 2

IsSplit ==
  IF Slash = 0
  THEN authority = SubSeq(url, after + 1, Len(url)) /\ path = <<"/">>
  ELSE authority = SubSeq(url, after + 1, Slash - 1) /\ path = PathFrom(Slash)

ParseInv ==
  /\ url \in Seq(Symbols) /\ step \in {"scheme", "split", "done"}
  /\ step = "scheme" => after = 0
  /\ step # "scheme" => AfterScheme
  /\ step = "done" => IsSplit

LEMMA ParseInvariance == ParseSpec => []ParseInv
<1>1. ParseInit => ParseInv
  <2> SUFFICES ASSUME ParseInit PROVE url \in Seq(Symbols)
    BY DEF ParseInit, ParseInv
  <2>1. PICK n \in 0 .. MaxLen : url \in [1 .. n -> Symbols]
    BY DEF ParseInit, Urls
  <2>2. n \in Nat
    BY <2>1, MaxLenAssumption
  <2> QED
    BY <2>1, <2>2, SeqDef
<1>2. ParseInv /\ [ParseNext]_parseVars => ParseInv'
  <2> SUFFICES ASSUME ParseInv, [ParseNext]_parseVars PROVE ParseInv'
    OBVIOUS
  <2>1. CASE FindScheme
    <3>1. url' = url /\ step = "scheme" /\ step' = "split" /\ after = 0
      BY <2>1 DEF FindScheme, ParseInv
    <3>2. AfterScheme'
      BY <2>1, <3>1 DEF FindScheme, AfterScheme, SchemeMark
    <3> QED
      BY <3>1, <3>2 DEF ParseInv
  <2>2. CASE Split
    <3>1. url' = url /\ after' = after /\ https' = https
          /\ step = "split" /\ step' = "done"
      BY <2>2 DEF Split
    <3>2. AfterScheme'
      BY <3>1 DEF ParseInv, AfterScheme, SchemeMark
    <3>3. IsSplit'
      BY <2>2, <3>1 DEF Split, IsSplit, Slash, PathFrom
    <3> QED
      BY <3>1, <3>2, <3>3 DEF ParseInv
  <2>3. CASE UNCHANGED parseVars
    BY <2>3 DEF parseVars, ParseInv, AfterScheme, SchemeMark, IsSplit, Slash, PathFrom
  <2> QED
    BY <2>1, <2>2, <2>3 DEF ParseNext
<1> QED
  BY <1>1, <1>2, PTL DEF ParseSpec

\* Where ParseUrl stands, and where the slash is that it finds from there.
LEMMA Places ==
  ASSUME ParseInv
  PROVE  /\ Len(url) \in Nat /\ SchemeMark \in Nat /\ Slash \in Nat
         /\ step = "done" => after \in 0 .. Len(url)
         /\ step = "done" /\ SchemeMark # 0
              => SchemeMark + 2 <= Len(url)
         /\ step = "done" /\ Slash = 0
              => \A i \in after + 1 .. Len(url) : url[i] # "/"
         /\ step = "done" /\ Slash # 0
              => /\ Slash \in after + 1 .. Len(url) /\ url[Slash] = "/"
                 /\ \A i \in after + 1 .. Len(url) : url[i] = "/" => Slash <= i
<1> DEFINE m == <<":", "/", "/">>
           at == {i \in 0 + 1 .. Len(url) - Len(m) + 1 : Begins(url, m, i)}
<1>1. url \in Seq(Symbols) /\ Len(url) \in Nat
  BY DEF ParseInv
<1>2. m \in Seq(Symbols) /\ Len(m) = 3
  BY DEF Symbols
<1>3. SchemeMark \in Nat /\ (SchemeMark # 0 => SchemeMark \in at)
  BY <1>1, <1>2, FindFirst DEF SchemeMark
<1>4. SchemeMark # 0 => SchemeMark + 2 <= Len(url)
  BY <1>1, <1>2, <1>3
<1>5. step \in {"scheme", "split", "done"} /\ after \in 0 .. Len(url)
  BY <1>1, <1>3, <1>4 DEF ParseInv, AfterScheme
<1>6. after \in Nat
  BY <1>1, <1>5
<1>7. /\ Slash \in Nat
      /\ Slash = 0 => \A i \in after + 1 .. Len(url) : url[i] # "/"
      /\ Slash # 0 => /\ Slash \in after + 1 .. Len(url) /\ url[Slash] = "/"
                      /\ \A i \in after + 1 .. Len(url) : url[i] = "/" => Slash <= i
  BY <1>1, <1>6, FindSlash DEF Slash
<1> QED
  BY <1>1, <1>3, <1>4, <1>5, <1>7

\* Nothing that follows the scheme of a string is lost or invented (ParseUrl).
THEOREM NothingIsLost == ParseSpec => []NothingLost
<1>1. ASSUME ParseInv PROVE NothingLost
  <2> SUFFICES ASSUME step = "done", Slash # 0
               PROVE  authority \o path = SubSeq(url, after + 1, Len(url))
    BY <1>1 DEF NothingLost, ParseInv, IsSplit
  <2>1. url \in Seq(Symbols)
    BY <1>1 DEF ParseInv
  <2>2. authority = SubSeq(url, after + 1, Slash - 1)
        /\ path = SubSeq(url, Slash, Len(url))
    BY <1>1 DEF ParseInv, IsSplit, PathFrom
  <2>3. /\ after \in 0 .. Len(url) /\ Slash \in after + 1 .. Len(url)
        /\ Slash \in Nat /\ Len(url) \in Nat
    BY <1>1, Places
  <2> DEFINE m == after + 1
             k == Slash - 1
             n == Len(url)
  <2>4. m \in 1 .. Len(url) + 1 /\ k \in m - 1 .. Len(url) /\ n \in k .. Len(url)
        /\ k + 1 = Slash
    BY <2>3
  <2> HIDE DEF m, k, n
  <2>5. SubSeq(url, m, k) \o SubSeq(url, k + 1, n) = SubSeq(url, m, n)
    BY <2>1, <2>4, ConcatAdjacentSubSeq
  <2> QED
    BY <2>2, <2>4, <2>5 DEF m, k, n
<1> QED
  BY <1>1, ParseInvariance, PTL

------------------------------------------------------------------------------
(* What the syntax of a URL says.                                            *)

\* A part of the rest of a string is a part of the string.
LEMMA PartOfRest ==
  ASSUME NEW s \in Seq(Symbols), NEW a \in 0 .. Len(s),
         NEW i \in Nat \ {0}, NEW j \in Nat, j <= Len(s) - a
  PROVE  SubSeq(SubSeq(s, a + 1, Len(s)), i, j) = SubSeq(s, a + i, a + j)
<1> DEFINE r == SubSeq(s, a + 1, Len(s))
           u == SubSeq(r, i, j)
           v == SubSeq(s, a + i, a + j)
<1>1. Len(s) \in Nat /\ a \in Nat /\ \A k \in 1 .. Len(s) : s[k] \in Symbols
  OBVIOUS
<1>2. /\ r \in Seq(Symbols)
      /\ \A k \in 1 .. Len(s) - (a + 1) + 1 : r[k] = s[a + 1 + k - 1]
  <2>1. a + 1 \in Int /\ Len(s) \in Int /\ \A k \in a + 1 .. Len(s) : s[k] \in Symbols
    BY <1>1
  <2> QED
    BY <2>1, SubSeqProperties
<1>3. \A k \in 1 .. Len(s) - a : r[k] = s[a + k]
  BY <1>1, <1>2
<1> HIDE DEF r
<1>4. \A k \in i .. j : k \in 1 .. Len(s) - a /\ r[k] = s[a + k]
                      /\ a + k \in 1 .. Len(s) /\ r[k] \in Symbols
  BY <1>1, <1>3
<1>5. /\ u \in Seq(Symbols) /\ Len(u) = IF i <= j THEN j - i + 1 ELSE 0
      /\ \A k \in 1 .. j - i + 1 : u[k] = r[i + k - 1]
  BY <1>4, SubSeqProperties
<1>6. /\ v \in Seq(Symbols)
      /\ Len(v) = IF a + i <= a + j THEN a + j - (a + i) + 1 ELSE 0
      /\ \A k \in 1 .. a + j - (a + i) + 1 : v[k] = s[a + i + k - 1]
  <2>1. a + i \in Int /\ a + j \in Int /\ \A k \in a + i .. a + j : s[k] \in Symbols
    BY <1>1
  <2> QED
    BY <2>1, SubSeqProperties
<1> HIDE DEF u, v
<1>7. Len(u) = Len(v)
  BY <1>1, <1>5, <1>6
<1>8. ASSUME NEW k \in 1 .. Len(u) PROVE u[k] = v[k]
  <2>1. k \in 1 .. j - i + 1 /\ k \in 1 .. a + j - (a + i) + 1
        /\ i + k - 1 \in i .. j /\ a + (i + k - 1) = a + i + k - 1
    BY <1>1, <1>5
  <2> QED
    BY <2>1, <1>4, <1>5, <1>6
<1>9. u = v
  BY <1>5, <1>6, <1>7, <1>8, SeqEqual
<1> QED
  BY <1>9 DEF u, v, r

\* The rest of a well-formed URL is what ParseUrl has not passed over.
LEMMA RestFacts ==
  ASSUME ParseInv, step = "done", WellFormed
  PROVE  /\ Scheme = SubSeq(url, 1, SchemeMark - 1) /\ SchemeMark # 0
         /\ Rest = SubSeq(url, after + 1, Len(url))
         /\ Rest \in Seq(Symbols) /\ Len(Rest) = Len(url) - after
         /\ \A i \in 1 .. Len(Rest) : Rest[i] = url[after + i]
<1>1. url \in Seq(Symbols) /\ Len(url) \in Nat
      /\ \A i \in 1 .. Len(url) : url[i] \in Symbols
  BY DEF ParseInv
<1>2. SchemeMark \in Nat /\ SchemeMark > 1 /\ SchemeMark + 2 <= Len(url)
      /\ Scheme = SubSeq(url, 1, SchemeMark - 1)
  BY Places DEF WellFormed, Scheme, SchemeMark
<1>3. after = SchemeMark + 2 /\ after \in 0 .. Len(url)
  BY <1>2, Places DEF ParseInv, AfterScheme
<1>4. Len(Scheme) = SchemeMark - 1
  <2> DEFINE n == SchemeMark - 1
  <2>1. 1 \in Int /\ n \in Int /\ 1 <= n /\ n - 1 + 1 = n
        /\ \A i \in 1 .. n : url[i] \in Symbols
    BY <1>1, <1>2
  <2> HIDE DEF n
  <2>2. Len(SubSeq(url, 1, n)) = IF 1 <= n THEN n - 1 + 1 ELSE 0
    BY <2>1, SubSeqProperties
  <2>3. Len(SubSeq(url, 1, n)) = n
    BY <2>1, <2>2
  <2> QED
    BY <2>3, <1>2 DEF n
<1>5. Rest = SubSeq(url, after + 1, Len(url))
  <2>1. Len(Scheme) + 4 = after + 1
    BY <1>2, <1>3, <1>4
  <2> QED
    BY <2>1 DEF Rest
<1>6. Rest \in Seq(Symbols) /\ Len(Rest) = Len(url) - after
      /\ \A i \in 1 .. Len(Rest) : Rest[i] = url[after + i]
  <2> DEFINE m == after + 1
             n == Len(url)
  <2>1. m \in Int /\ n \in Int /\ \A i \in m .. n : url[i] \in Symbols
    BY <1>1, <1>3
  <2>2. m - 1 = after /\ m <= n + 1
    BY <1>1, <1>3
  <2> HIDE DEF m, n
  <2>3. /\ SubSeq(url, m, n) \in Seq(Symbols)
        /\ Len(SubSeq(url, m, n)) = IF m <= n THEN n - m + 1 ELSE 0
        /\ \A i \in 1 .. n - m + 1 : SubSeq(url, m, n)[i] = url[m + i - 1]
    BY <2>1, SubSeqProperties
  <2>4. Rest = SubSeq(url, m, n)
    BY <1>5 DEF m, n
  <2>5. Len(Rest) = n - m + 1
    BY <2>1, <2>2, <2>3, <2>4
  <2>6. \A i \in 1 .. Len(Rest) : Rest[i] = url[m + i - 1] /\ m + i - 1 = after + i
    BY <2>1, <2>2, <2>3, <2>4, <2>5, <1>3
  <2> QED
    BY <1>1, <1>3, <2>2, <2>3, <2>4, <2>5, <2>6 DEF n
<1> QED
  BY <1>2, <1>5, <1>6

\* Where its authority ends.
LEMMA EndFacts ==
  ASSUME ParseInv, step = "done", WellFormed
  PROVE  /\ AuthorityEnd \in 1 .. Len(Rest) + 1
         /\ AuthorityEnd <= Len(Rest) => Rest[AuthorityEnd] \in {"/", "?"}
         /\ \A i \in 1 .. Len(Rest) : Rest[i] = "/" => AuthorityEnd <= i
<1> DEFINE T == {i \in DOMAIN Rest : Rest[i] \in {"/", "?"}} \cup {Len(Rest) + 1}
<1>1. Rest \in Seq(Symbols)
  BY RestFacts
<1>2. Len(Rest) \in Nat /\ DOMAIN Rest = 1 .. Len(Rest)
  BY <1>1
<1>3. T \in SUBSET Nat /\ T # {} /\ T \subseteq 1 .. Len(Rest) + 1
  BY <1>2
<1>4. AuthorityEnd = Min(T)
  BY DEF AuthorityEnd
<1> HIDE DEF T
<1>5. AuthorityEnd \in T /\ \A i \in T : AuthorityEnd <= i
  BY <1>3, <1>4, LeastExists
<1> QED
  BY <1>2, <1>3, <1>5 DEF T

\* However many colons, slashes and question marks a URL has, ParseUrl splits it
\* where its syntax says, and takes plain http for the scheme "http" only.
THEOREM SplitsRight == ParseSpec => []SplitRight
<1>1. ASSUME ParseInv PROVE SplitRight
  <2> SUFFICES ASSUME step = "done", WellFormed,
                      Remainder = <<>> \/ Remainder[1] = "/"
               PROVE  /\ https = (Scheme # <<"http">>)
                      /\ authority = Authority
                      /\ path = IF Remainder = <<>> THEN <<"/">> ELSE Remainder
    BY DEF SplitRight
  <2> DEFINE e == AuthorityEnd
             n == Len(url)
  <2>1. /\ Scheme = SubSeq(url, 1, SchemeMark - 1) /\ SchemeMark # 0
        /\ Rest = SubSeq(url, after + 1, n)
        /\ Rest \in Seq(Symbols) /\ Len(Rest) = n - after
        /\ \A i \in 1 .. Len(Rest) : Rest[i] = url[after + i]
    BY <1>1, RestFacts
  <2>2. /\ e \in 1 .. Len(Rest) + 1
        /\ \A i \in 1 .. Len(Rest) : Rest[i] = "/" => e <= i
    BY <1>1, EndFacts
  <2>3. /\ url \in Seq(Symbols) /\ n \in Nat /\ after \in 0 .. n
        /\ IsSplit /\ AfterScheme /\ Slash \in Nat
    BY <1>1, Places DEF ParseInv
  <2>4. https = (Scheme # <<"http">>)
    BY <2>1, <2>3 DEF AfterScheme, NotHttp
  <2> HIDE DEF e, n
  <2>5. Remainder = SubSeq(url, after + e, n)
    <3>1. e \in Nat \ {0} /\ n - after \in Nat /\ after + (n - after) = n
          /\ n - after <= n - after
      BY <2>1, <2>2, <2>3
    <3>2. SubSeq(SubSeq(url, after + 1, Len(url)), e, n - after)
            = SubSeq(url, after + e, after + (n - after))
      BY <2>3, <3>1, PartOfRest DEF n
    <3> QED
      BY <3>1, <3>2, <2>1 DEF Remainder, e, n
  <2>6. Authority = SubSeq(url, after + 1, after + (e - 1))
    <3>1. e - 1 \in Nat /\ e - 1 <= n - after /\ 1 \in Nat \ {0}
      BY <2>1, <2>2, <2>3
    <3>2. SubSeq(SubSeq(url, after + 1, Len(url)), 1, e - 1)
            = SubSeq(url, after + 1, after + (e - 1))
      BY <2>3, <3>1, PartOfRest DEF n
    <3> QED
      BY <3>2, <2>1 DEF Authority, e, n
  <2>7. Slash # 0 => /\ Slash \in after + 1 .. n /\ url[Slash] = "/"
                     /\ e <= Slash - after
    <3> SUFFICES ASSUME Slash # 0
                 PROVE  /\ Slash \in after + 1 .. n /\ url[Slash] = "/"
                        /\ e <= Slash - after
      OBVIOUS
    <3>1. Slash \in after + 1 .. n /\ url[Slash] = "/"
      BY <1>1, Places DEF n
    <3>2. Slash - after \in 1 .. Len(Rest) /\ after + (Slash - after) = Slash
      BY <3>1, <2>1, <2>3
    <3>3. Rest[Slash - after] = "/"
      BY <3>1, <3>2, <2>1
    <3> QED
      BY <3>1, <3>2, <3>3, <2>2
  <2>8. CASE e = Len(Rest) + 1
    <3>1. n \in Int /\ after + e \in Int /\ n < after + e /\ after + (e - 1) = n
      BY <2>8, <2>1, <2>2, <2>3
    <3>2. Remainder = <<>>
      BY <3>1, <2>5, SubSeqEmpty
    <3>3. Slash = 0
      BY <2>7, <2>8, <2>1, <2>2, <2>3
    <3> QED
      BY <3>1, <3>2, <3>3, <2>3, <2>4, <2>6 DEF IsSplit, n
  <2>9. CASE e # Len(Rest) + 1
    <3> DEFINE m == after + e
    <3>1. e \in 1 .. Len(Rest) /\ m \in after + 1 .. n /\ Rest[e] = url[m]
          /\ m \in Int /\ n \in Int /\ m <= n
          /\ m - 1 = after + (e - 1) /\ m + 1 - 1 = m
      BY <2>9, <2>1, <2>2, <2>3
    <3>2. \A i \in m .. n : url[i] \in Symbols
      BY <3>1, <2>3 DEF n
    <3>3. Remainder = SubSeq(url, m, n)
      BY <2>5
    <3> HIDE DEF m
    <3>4. /\ Len(SubSeq(url, m, n)) = IF m <= n THEN n - m + 1 ELSE 0
          /\ \A i \in 1 .. n - m + 1 : SubSeq(url, m, n)[i] = url[m + i - 1]
      BY <3>1, <3>2, SubSeqProperties
    <3>5. Len(Remainder) > 0 /\ Remainder[1] = url[m]
      BY <3>1, <3>3, <3>4
    <3>6. Remainder # <<>> /\ url[m] = "/"
      BY <3>5
    <3>7. Slash # 0 /\ Slash <= m
      BY <3>1, <3>6, <1>1, Places DEF n
    <3>8. Slash = m
      BY <3>7, <2>7, <2>2, <2>3 DEF m
    <3> QED
      BY <3>1, <3>3, <3>6, <3>8, <2>3, <2>4, <2>6 DEF IsSplit, PathFrom, n, m
  <2> QED
    BY <2>8, <2>9
<1> QED
  BY <1>1, ParseInvariance, PTL
==============================================================================
