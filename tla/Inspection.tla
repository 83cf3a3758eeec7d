----------------------------- MODULE Inspection -----------------------------
(***************************************************************************)
(* What the PEP computes from the text of one request: normalization       *)
(* (pep/normalize.py, stage 2 of pep/pipeline.py), the threat-intelligence *)
(* lookup (threat_intel/feed.py, stage 4) and the DLP scan                 *)
(* (dlp/detectors.py, stage 5).                                            *)
(*                                                                         *)
(* A URL is what urlsplit makes of it.  A path is a sequence of tokens: a  *)
(* symbol ("/", "..", "?" or a name) and the number of times it is         *)
(* percent-encoded, so that only a token encoded zero times is a separator *)
(* or a parent reference.  "." segments are treated by the code as empty   *)
(* ones, so "//" stands for them.  A host is its sequence of labels, in    *)
(* ASCII or not, and whether it is written in lower case; a query is its   *)
(* sequence of key/value pairs; keys are ranks in sorting order.  The      *)
(* scanned text is a sequence of words, each one what a detector looks     *)
(* for.  IPv6 literals and URLs that do not parse are left out.            *)
(***************************************************************************)
EXTENDS Integers, Sequences, FiniteSets, SequencesExt, FiniteSetsExt

CONSTANTS
  Requests,   \* the requests: [tool, url, text]
  Listed,     \* the names on the threat-intelligence list, as label sequences
  ToAscii     \* what the idna codec makes of each label it takes

VARIABLES
  request,    \* the arguments as the caller sent them
  canonical,  \* the arguments every later stage sees
  knownBad,   \* stage 4: is_known_bad(fqdn)
  verdict,    \* stage 5: PASS, REDACT or BLOCK
  stage

vars == <<request, canonical, knownBad, verdict, stage>>

-----------------------------------------------------------------------------
(* Normalization.                                                          *)

MAX_DECODE_ROUNDS == 5
NoPort == 0
NoHost == <<>>
DefaultPort == [http |-> 80, https |-> 443, ftp |-> NoPort]

Token(symbol, encoded) == [symbol |-> symbol, encoded |-> encoded]
Slash  == Token("/", 0)
Parent == Token("..", 0)
Question == Token("?", 0)  \* or "#": what ends a path when it is read

UrlRecord ==
  [scheme : DOMAIN DefaultPort,
   host : [labels : Seq(STRING), plain : BOOLEAN],
   port : Nat,
   userinfo : BOOLEAN,
   path : Seq([symbol : STRING, encoded : Nat]),
   query : Seq([key : Nat, value : STRING])]

ASSUME RequestsAssumption ==
  Requests \subseteq [tool : STRING, url : UrlRecord,
                      text : Seq([kind : STRING, digits : Seq(0 .. 9)])]

\* Blank lines of the list are skipped.
ASSUME ListedAssumption == Listed \subseteq Seq(STRING) \ {<<>>}

\* The codec takes what it gives, and leaves it as it is.
ASSUME IdnaAssumption ==
  \A l \in DOMAIN ToAscii :
    ToAscii[l] \in STRING /\ ToAscii[l] \in DOMAIN ToAscii /\ ToAscii[ToAscii[l]] = ToAscii[l]

\* urllib's unquote: one level of percent-encoding, everywhere.
Unquote(path) ==
  [i \in DOMAIN path |-> [path[i] EXCEPT !.encoded = IF @ = 0 THEN 0 ELSE @ - 1]]

\* Mutant: one round less than the code makes.
DecodeOnceLess(path) ==
  LET f[n \in 0 .. MAX_DECODE_ROUNDS] == IF n <= 1 THEN path ELSE Unquote(f[n - 1])
  IN f[MAX_DECODE_ROUNDS]

\* At most MAX_DECODE_ROUNDS rounds; a round that changes nothing is the last.
DecodeRepeatedly(path) ==
  LET f[n \in 0 .. MAX_DECODE_ROUNDS] == IF n = 0 THEN path ELSE Unquote(f[n - 1])
  IN f[MAX_DECODE_ROUNDS]

\* str.split("/"): the text between the separators, empty segments included.
AddToken(segs, t) ==
  IF t = Slash THEN Append(segs, <<>>)
  ELSE [segs EXCEPT ![Len(segs)] = Append(@, t)]

Segments(path) ==
  LET f[n \in 0 .. Len(path)] ==
        IF n = 0 THEN << <<>> >> ELSE AddToken(f[n - 1], path[n])
  IN f[Len(path)]

\* The stack of posixpath.normpath below a root: ".." never climbs above it.
AddSegment(stack, s) ==
  CASE s = <<>>       -> stack
    [] s = <<Parent>> -> IF stack = <<>> THEN stack ELSE Front(stack)
    [] OTHER          -> Append(stack, s)

Collapse(segs) ==
  LET f[n \in 0 .. Len(segs)] ==
        IF n = 0 THEN <<>> ELSE AddSegment(f[n - 1], segs[n])
  IN f[Len(segs)]

\* A slash in front of every segment.
Join(stack) ==
  LET f[n \in 0 .. Len(stack)] ==
        IF n = 0 THEN <<>> ELSE f[n - 1] \o <<Slash>> \o stack[n]
  IN f[Len(stack)]

\* Mutant: segments are collapsed first, decoded afterwards.
CollapseThenDecode(path) ==
  LET stack == Collapse(Segments(path))
  IN IF path = <<>> THEN <<>>
     ELSE DecodeRepeatedly(IF stack = <<>> THEN <<Slash>> ELSE Join(stack))

\* "/" + decoded.lstrip("/"), so that normpath sees exactly one leading slash.
NormalizePath(path) ==
  LET stack == Collapse(Segments(DecodeRepeatedly(path)))
  IN CASE path = <<>>                  -> <<>>
       [] path # <<>> /\ stack = <<>> -> <<Slash>>
       [] OTHER                        -> Join(stack)

\* Only the last label may be empty.
IdnaTakes(labels) ==
  \A i \in DOMAIN labels : labels[i] \in DOMAIN ToAscii \/ (labels[i] = "" /\ i = Len(labels))

Idna(labels) ==
  [i \in DOMAIN labels |-> IF labels[i] \in DOMAIN ToAscii THEN ToAscii[labels[i]] ELSE labels[i]]

\* Lower case, then IDNA: a host that the codec rejects keeps its labels.
NormalizeHost(host) ==
  [labels |-> IF IdnaTakes(host.labels) THEN Idna(host.labels) ELSE host.labels,
   plain  |-> TRUE]

KeysOf(query) == {query[i].key : i \in DOMAIN query}

\* dict assignment in order: the last occurrence of a key wins.  A key
\* without a value gets the empty one.
LastOccurrence(query, k) ==
  LET pair == query[Max({i \in DOMAIN query : query[i].key = k})]
  IN [pair EXCEPT !.value = IF @ = "none" THEN "" ELSE @]

\* sorted(): each element once, in increasing order.
Sorted(S) ==
  CHOOSE f \in [1 .. Cardinality(S) -> S] : \A i, j \in DOMAIN f : i < j => f[i] < f[j]

NormalizeQuery(query) ==
  LET keys == Sorted(KeysOf(query))
  IN [i \in DOMAIN keys |-> LastOccurrence(query, keys[i])]

FoldPort(scheme, port) == IF port = DefaultPort[scheme] THEN NoPort ELSE port

\* The netloc is rebuilt from host and port: userinfo is dropped.
NormalizeUrl(url) ==
  [url EXCEPT !.userinfo = FALSE,
              !.host  = NormalizeHost(@),
              !.port  = FoldPort(url.scheme, @),
              !.path  = NormalizePath(@),
              !.query = NormalizeQuery(@)]

HttpTools == {"http.get", "http.post"}

NormalizeArguments(r) ==
  CASE r.tool \in HttpTools   -> [r EXCEPT !.url = NormalizeUrl(@)]
    [] r.tool = "file.read"   -> [r EXCEPT !.url.path = NormalizePath(@)]
    [] OTHER                  -> r

\* urlsplit, on the text of a canonical URL: a "?" that was decoded in the
\* path now ends it, and what follows is a key without a value.
ReadBack(url) ==
  LET cuts == {i \in DOMAIN url.path : url.path[i] = Question}
      left == [key |-> 0, value |-> "none"]
  IN IF cuts = {} THEN url
     ELSE [url EXCEPT !.path  = SubSeq(@, 1, Min(cuts) - 1),
                      !.query = IF Min(cuts) = Len(url.path) THEN @ ELSE <<left>> \o @]

\* Destination and resource, read off the canonical arguments.
ExtractTarget(r) ==
  CASE r.tool \in HttpTools -> [fqdn |-> r.url.host.labels, resource |-> ReadBack(r.url).path]
    [] r.tool = "file.read" -> [fqdn |-> NoHost, resource |-> r.url.path]
    [] OTHER                -> [fqdn |-> NoHost, resource |-> r.text]

-----------------------------------------------------------------------------
(* Threat intelligence.                                                    *)

\* Mutant: only the name itself and its immediate parent are looked up.
ParentOnly(fqdn) ==
  \E i \in {1, 2} : i <= Len(fqdn) /\ SubSeq(fqdn, i, Len(fqdn)) \in Listed

\* The name, or any of its parent domains, is listed.
IsKnownBad(fqdn) ==
  \E i \in 1 .. Len(fqdn) : SubSeq(fqdn, i, Len(fqdn)) \in Listed

-----------------------------------------------------------------------------
(* Data loss prevention.                                                   *)

\* Mutant: a doubled digit is not reduced.
DoubledUnreduced(d) == 2 * d

Doubled(d) == IF 2 * d > 9 THEN 2 * d - 9 ELSE 2 * d

\* Which digits are doubled depends on the parity of the length.
Weighted(digits, i) ==
  IF (i - 1) % 2 = Len(digits) % 2 THEN Doubled(digits[i]) ELSE digits[i]

Checksum(digits) ==
  LET f[n \in 0 .. Len(digits)] ==
        IF n = 0 THEN 0 ELSE f[n - 1] + Weighted(digits, n)
  IN f[Len(digits)]

LuhnValid(digits) == Len(digits) \in 13 .. 19 /\ Checksum(digits) % 10 = 0

\* The severities of the findings in one word.
Findings(word) ==
  CASE word.kind = "secret" -> {"BLOCK"}    \* AWS key, JWT, PEM, connection string
    [] word.kind = "random" -> {"REDACT"}   \* high entropy
    [] word.kind = "prose"  -> {}
    [] word.kind = "digits" -> (IF LuhnValid(word.digits) THEN {"BLOCK"} ELSE {})
                         \union (IF Len(word.digits) = 12 THEN {"REDACT"} ELSE {})

Scan(text) == UNION {Findings(text[i]) : i \in DOMAIN text}

\* The worst severity found.
Outcome(findings) ==
  CASE "BLOCK" \in findings -> "BLOCK"
    [] findings = {}        -> "PASS"
    [] OTHER                -> "REDACT"

-----------------------------------------------------------------------------
(* One request on its way through the stages.                              *)

Init ==
  /\ request \in Requests
  /\ canonical = request
  /\ knownBad = FALSE
  /\ verdict = "PASS"
  /\ stage = "normalize"

\* Stage 2.
Normalize ==
  /\ stage = "normalize"
  /\ canonical' = NormalizeArguments(request)
  /\ stage' = "threat_intel"
  /\ UNCHANGED <<request, knownBad, verdict>>

\* Stage 4.
LookUp ==
  /\ stage = "threat_intel"
  /\ knownBad' = IsKnownBad(ExtractTarget(canonical).fqdn)
  /\ stage' = "dlp"
  /\ UNCHANGED <<request, canonical, verdict>>

\* Stage 5, for a call the policy lets through: the URL is not scanned.
Inspect ==
  /\ stage = "dlp"
  /\ verdict' = Outcome(Scan(canonical.text))
  /\ stage' = "done"
  /\ UNCHANGED <<request, canonical, knownBad>>

Next == Normalize \/ LookUp \/ Inspect

Spec == Init /\ [][Next]_vars

-----------------------------------------------------------------------------
(* Properties.                                                             *)

\* The rounds are enough for the path of the request as it was sent.
Decodable(path) == \A i \in DOMAIN path : path[i].encoded <= MAX_DECODE_ROUNDS

PathDecides(r) == r.tool \in HttpTools \union {"file.read"}

\* The same request in its plainest spelling: nothing encoded, the port
\* written out, nobody named before the host, every key once.
Decoded(path) == [i \in DOMAIN path |-> Token(path[i].symbol, 0)]
Undisputed(query) ==
  LET last == {i \in DOMAIN query : \A j \in DOMAIN query :
                 j > i => query[j].key # query[i].key}
      order == Sorted(last)
  IN [n \in DOMAIN order |-> query[order[n]]]
PlainUrl(url) ==
  [url EXCEPT !.userinfo = FALSE, !.host = NormalizeHost(@),
              !.port  = IF @ = NoPort THEN DefaultPort[url.scheme] ELSE @,
              !.path  = Decoded(@),
              !.query = Undisputed(@)]
Plain(r) ==
  CASE r.tool \in HttpTools -> [r EXCEPT !.url = PlainUrl(@)]
    [] r.tool = "file.read" -> [r EXCEPT !.url.path = Decoded(@)]
    [] OTHER                -> r

\* However a request is spelled, the stages after normalization judge, and
\* the PEP forwards, what they would for its plainest spelling: up to five
\* layers of encoding (normalize.py's decode-collapse order and its bound on
\* the rounds), user info, letter case, IDNA, default ports and duplicated
\* keys make no difference.
SpellingIsIrrelevant ==
  stage # "normalize" /\ Decodable(request.url.path)
    => canonical = NormalizeArguments(Plain(request))

Reread(r) == IF r.tool \in HttpTools THEN [r EXCEPT !.url = ReadBack(@)] ELSE r

\* The canonical form is read again, by extract_target and for the event's
\* destination (pep/proxy.py).  It is a fixed point of normalization exactly
\* when the rounds left nothing encoded and no "?" came out of the path of a
\* URL: the code is idempotent for these requests and no others (see
\* NormalizationIsIdempotent below).  Whatever was sent, a canonical path
\* starts with one slash, has no empty segment and no parent reference.
CanonicalIsStable ==
  stage # "normalize" /\ PathDecides(request) =>
    LET path == canonical.url.path
        settled == /\ \A t \in ToSet(path) : t.encoded = 0
                   /\ request.tool \in HttpTools => Question \notin ToSet(path)
    IN /\ NormalizeArguments(Reread(canonical)) = canonical <=> settled
       /\ path # <<>> => Head(path) = Slash
       /\ \A i \in 1 .. Len(path) - 1 : ~ (path[i] = Slash /\ path[i + 1] = Slash)
       /\ \A s \in ToSet(Segments(path)) : s # <<Parent>>

\* A host is refused by threat intelligence exactly when cutting labels off
\* its front leads to a listed name, however deep it is and however it was
\* spelled, in Unicode included; a host that the idna codec rejects is looked
\* up as it was written.  A longer label that merely ends in a listed name is
\* not hit.
ListingCoversSubdomains ==
  stage \in {"dlp", "done"} /\ request.tool \in HttpTools =>
    LET labels == NormalizeHost(request.url.host).labels
    IN knownBad <=> \E name \in Listed : IsSuffix(name, labels)

\* A card number that the scan blocks is not mistyped in one digit: with any
\* one digit changed the same text is no longer blocked.  (_luhn_valid: the
\* parity of the length decides which digits are doubled.)
TypoIsNotACard ==
  stage = "done" /\ verdict = "BLOCK" =>
    \A i \in DOMAIN request.text :
      request.text[i].kind = "digits" /\ Len(request.text) = 1 =>
        \A p \in DOMAIN request.text[i].digits, d \in 0 .. 9 :
          d # request.text[i].digits[p] =>
            Outcome(Scan([request.text EXCEPT ![i].digits[p] = d])) # "BLOCK"

-----------------------------------------------------------------------------
(* What the documentation says and the code does not ensure.               *)

\* AGENTFW_CONTEXT.md:122 - normalizing what was normalized changes nothing.
NormalizationIsIdempotent ==
  stage # "normalize" /\ PathDecides(request)
    => NormalizeArguments(Reread(canonical)) = canonical
=============================================================================
