------------------------------- MODULE UrlParse -------------------------------
(***************************************************************************)
(* ParseUrl of wasi_http_client.cpp.  A URL is a sequence of symbols: a word, *)
(* of which only "http" matters, or one of the characters that split a URL.  *)
(* The URLs checked are all sequences up to MaxLen, well-formed or not.      *)
(***************************************************************************)
EXTENDS Naturals, Sequences, SequencesExt

CONSTANT MaxLen      \* bound: symbols of a URL
ASSUME MaxLenAssumption == MaxLen \in Nat

Symbols == {"http", "word", ":", "/", "?"}
Urls    == UNION {[1 .. n -> Symbols] : n \in 0 .. MaxLen}

VARIABLES
  step,               \* "scheme", "split" or "done"
  url,
  after,            \* the symbols that ParseUrl has passed over
  https, authority, path   \* the ParsedUrl

parseVars == <<step, url, after, https, authority, path>>

\* Where pat begins in s behind its first n symbols; 0: npos.
Find(s, pat, n) ==
  LET at == {i \in n + 1 .. Len(s) - Len(pat) + 1 :
               SubSeq(s, i, i + Len(pat) - 1) = pat}
  IN  IF at = {} THEN 0 ELSE Min(at)

ParseInit ==
  /\ step = "scheme" /\ url \in Urls
  /\ after = 0 /\ https = TRUE /\ authority = <<>> /\ path = <<>>

\* Faulty variant: the URL only has to begin with "http".
NotHttpPrefix(s) == s = <<>> \/ s[1] # "http"
NotHttp(s)       == s # <<"http">>

FindScheme ==
  /\ step = "scheme"
  /\ LET pos == Find(url, <<":", "/", "/">>, 0)
     IN  IF pos = 0 THEN UNCHANGED <<https, after>>
         ELSE https' = NotHttp(SubSeq(url, 1, pos - 1)) /\ after' = pos + 2
  /\ step' = "split" /\ UNCHANGED <<url, authority, path>>

\* Faulty variant: the slash is dropped from the path.
PathBehind(slash) == SubSeq(url, slash + 1, Len(url))
PathFrom(slash)   == SubSeq(url, slash, Len(url))

Split ==
  /\ step = "split"
  /\ LET slash == Find(url, <<"/">>, after)
     IN  IF slash = 0
         THEN authority' = SubSeq(url, after + 1, Len(url)) /\ path' = <<"/">>
         ELSE /\ authority' = SubSeq(url, after + 1, slash - 1)
              /\ path' = PathFrom(slash)
  /\ step' = "done" /\ UNCHANGED <<url, after, https>>

ParseNext == FindScheme \/ Split
ParseSpec == ParseInit /\ [][ParseNext]_parseVars

------------------------------------------------------------------------------
(* What a URL means: scheme://authority, then the rest from the first / or ?. *)

Scheme == SubSeq(url, 1, Find(url, <<":">>, 0) - 1)
Rest   == SubSeq(url, Len(Scheme) + 4, Len(url))
WellFormed ==
  /\ Find(url, <<":">>, 0) = Find(url, <<":", "/", "/">>, 0)
  /\ Find(url, <<":">>, 0) > 1
  /\ \A i \in DOMAIN Scheme : Scheme[i] \notin {"/", "?"}
AuthorityEnd ==
  Min({i \in DOMAIN Rest : Rest[i] \in {"/", "?"}} \cup {Len(Rest) + 1})
Authority == SubSeq(Rest, 1, AuthorityEnd - 1)
Remainder == SubSeq(Rest, AuthorityEnd, Len(Rest))

\* A well-formed URL whose authority is followed by a path, or by nothing, is
\* split where its syntax says, however many colons, slashes and question marks
\* follow (another "://" in the query, an empty path), and plain http is used
\* exactly for the scheme "http" (ParseUrl).
SplitRight ==
  step = "done" /\ WellFormed
    /\ (Remainder = <<>> \/ Remainder[1] = "/") =>
       /\ https = (Scheme # <<"http">>)
       /\ authority = Authority
       /\ path = IF Remainder = <<>> THEN <<"/">> ELSE Remainder

\* Nothing of what follows the scheme is lost or invented, whatever the string:
\* authority and path together are it, but for the "/" of an empty path.
NothingLost ==
  step = "done" =>
    \/ authority \o path = SubSeq(url, after + 1, Len(url))
    \/ path = <<"/">> /\ authority = SubSeq(url, after + 1, Len(url))
==============================================================================
