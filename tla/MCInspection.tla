---------------------------- MODULE MCInspection ----------------------------
(***************************************************************************)
(* Instances of Inspection.  PathRequests: every path of up to MaxPath     *)
(* tokens, each encoded as often as in Encodings.  UrlRequests: hosts of   *)
(* up to four labels, empty and Unicode ones included, the spellings of    *)
(* one authority, and queries of up to MaxQuery pairs.                     *)
(* CardRequests: numbers of 12, 13, 16 and 19 digits, at most three of     *)
(* them other than 0, and the other findings.                              *)
(***************************************************************************)
EXTENDS Inspection

CONSTANTS MaxPath, Encodings, MaxQuery

MCListed == {<<"evil", "example">>, <<"c2">>}

Url(scheme, host, port, userinfo, path, query) ==
  [scheme |-> scheme, host |-> host, port |-> port, userinfo |-> userinfo,
   path |-> path, query |-> query]
Host(labels, plain) == [labels |-> labels, plain |-> plain]
Request(tool, url, text) == [tool |-> tool, url |-> url, text |-> text]

News    == Host(<<"news">>, TRUE)
Home    == Url("http", News, NoPort, FALSE, <<Slash>>, <<>>)
Tokens  == {Token(s, n) : s \in {"/", "..", "a", "?"}, n \in Encodings}
Paths   == UNION {[1 .. n -> Tokens] : n \in 0 .. MaxPath}

\* The path of a URL starts with the slash and ends before the query.
UrlPaths == {p \in Paths : p # <<>> => Head(p) = Slash /\ Question \notin ToSet(p)}

PathRequests ==
  {Request("file.read", [Home EXCEPT !.path = p], <<>>) : p \in Paths}
  \union
  {Request("http.get", [Home EXCEPT !.path = p], <<>>) : p \in UrlPaths}

\* "wide-evil" stands for a spelling of "evil" outside ASCII.
Ascii   == {"www", "evil", "notevil", "example", "c2", "news"}
MCToAscii == [l \in Ascii \union {"wide-evil"} |-> IF l = "wide-evil" THEN "evil" ELSE l]

Labels  == {"www", "evil", "notevil", "wide-evil", "example", "c2", ""}
Hosts   == {Host(l, plain) : l \in UNION {[1 .. n -> Labels] : n \in 1 .. 4}, plain \in BOOLEAN}
Queries == UNION {[1 .. n -> [key : 1 .. 2, value : {"", "x", "y"}]] : n \in 0 .. MaxQuery}

UrlRequests ==
  {Request("http.post", [Home EXCEPT !.host = h], <<>>) : h \in Hosts}
  \union
  {Request("http.post", Url(s, News, p, u, <<>>, <<>>), <<>>) :
     s \in {"http", "https", "ftp"}, p \in {NoPort, 80, 443, 8080}, u \in BOOLEAN}
  \union
  {Request("http.post", [Home EXCEPT !.query = q], <<>>) : q \in Queries}

Word(kind, digits) == [kind |-> kind, digits |-> digits]
Zeros(n)    == [i \in 1 .. n |-> 0]
Numbers(n)  == {[Zeros(n) EXCEPT ![i] = a, ![j] = b, ![n] = c] :
                  i \in 1 .. 2, j \in {n - 1}, a \in 0 .. 9, b \in {1, 7}, c \in 0 .. 9}
Words       == {Word("digits", d) : d \in UNION {Numbers(n) : n \in {12, 13, 16, 19}}}
                \union {Word(k, <<>>) : k \in {"secret", "random", "prose"}}

CardRequests == {Request("email.send", Home, <<w>>) : w \in Words}
                \union {Request("email.send", Home, <<Word("prose", <<>>), w>>) : w \in Words}

MCRequests == PathRequests \union UrlRequests \union CardRequests
=============================================================================
