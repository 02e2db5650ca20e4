-------------------------------- MODULE Url --------------------------------
(***************************************************************************)
(* url_encode() and url_decode() of chef::strings_op (src/include/chef_    *)
(* base/chef_strings_op.hpp), and chef::url_context (chef_url.hpp), which  *)
(* takes an address apart with Text's Cut().                               *)
(*                                                                         *)
(* A char is signed, as gcc has it on x86: a byte from 128 on is a         *)
(* negative index into the table of digits, and what lies in memory before *)
(* the table, urlJunk, is the digit.                                       *)
(***************************************************************************)
EXTENDS Text

CONSTANTS
  UrlBytes,       \* the bytes of the strings that are encoded and decoded
  UrlMaxLen,      \* bound: how many
  UrlJunk,        \* the bytes that may lie before the table of digits
  UrlColon, UrlSlash, UrlMark,            \* the characters : / ?
  UrlScheme, UrlHosts, UrlPorts, UrlItems, UrlQueries, \* the parts of the addresses
  UrlMaxItems,    \* bound: the items of a path
  UrlOldPorts,    \* origin_port_ of a new context, which no constructor sets
  UrlMaxParses    \* bound: the addresses parsed into one context

ASSUME UrlAssumption == UrlBytes \subseteq 0..255 /\ UrlJunk \subseteq 0..255
                        /\ UrlMaxLen \in Nat /\ UrlMaxParses \in Nat

VARIABLES
  urlString,      \* what is encoded and decoded
  urlJunk,
  urlCtx,         \* the context
  urlParses,
  urlParts,       \* history: the parts of the address that was parsed last
  urlBefore       \* history: origin_port_ before that

urlVars == <<urlString, urlJunk, urlCtx, urlParses, urlParts, urlBefore>>

Letters == 65..90 \cup 97..122
Digits  == 48..57
HexDigits == Digits \cup 65..70 \cup 97..102

HexDigit(d) == IF d < 10 THEN 48 + d ELSE 55 + d
UnHex(b) == CASE b \in Digits -> b - 48 [] b \in 97..122 -> b - 87 [] b \in 65..90 -> b - 55 [] OTHER -> 0

UrlEncodeByte(b, junk) ==
  CASE b \in Letters \cup Digits \cup {45, 95, 46, 126} -> <<b>>
    [] b = 32 -> <<43>>
    [] OTHER  -> <<37, IF b < 128 THEN HexDigit(b \div 16) ELSE junk, HexDigit(b % 16)>>
UrlEncode(s, junk) == FlattenSeq([i \in DOMAIN s |-> UrlEncodeByte(s[i], junk)])

RECURSIVE UrlDecodeFrom(_, _, _)
UrlDecodeFrom(s, i, result) ==
  CASE i > Len(s)            -> result
    [] i <= Len(s) /\ s[i] = 37 -> IF i + 2 > Len(s) \/ {s[i + 1], s[i + 2]} \ HexDigits # {} THEN << >>
                                   ELSE UrlDecodeFrom(s, i + 3, Append(result, 16 * UnHex(s[i + 1]) + UnHex(s[i + 2])))
    [] i <= Len(s) /\ s[i] = 43 -> UrlDecodeFrom(s, i + 1, Append(result, 32))
    [] OTHER                 -> UrlDecodeFrom(s, i + 1, Append(result, s[i]))
UrlDecode(s) == UrlDecodeFrom(s, 1, << >>)

UrlLastItem(path)    ==
  LET c == CutLast(path, <<UrlSlash>>) IN [c EXCEPT !.before = TrimPrefix(@, <<UrlSlash>>)]

UrlDigits == <<"0", "1", "2", "3", "4", "5", "6", "7", "8", "9">>
Atoi(s) ==
  LET n == Max({k \in 0..Len(s) : \A i \in 1..k : s[i] \in Range(UrlDigits)})
  IN FoldLeft(LAMBDA v, c : 10 * v + (CHOOSE d \in 0..9 : UrlDigits[d + 1] = c), 0, SubSeq(s, 1, n))

UrlParse(url, old) ==
  LET scheme == Cut(url, <<UrlColon, UrlSlash, UrlSlash>>)
      host   == Cut(scheme.after, <<UrlSlash>>)
      port   == Cut(host.before, <<UrlColon>>)
      full   == <<UrlSlash>> \o host.after
      path   == Cut(full, <<UrlMark>>)
      items  == UrlLastItem(path.before)
  IN [scheme |-> scheme.before, stdhost |-> host.before, host |-> port.before,
      port |-> IF port.after = << >> THEN old ELSE Atoi(port.after),
      withQuery |-> full, path |-> path.before, query |-> path.after,
      withoutLast |-> items.before, last |-> items.after]

UrlNew(port) == [scheme |-> << >>, stdhost |-> << >>, host |-> << >>, port |-> port, withQuery |-> << >>,
                 path |-> << >>, query |-> << >>, withoutLast |-> << >>, last |-> << >>]
UrlNone == [scheme |-> << >>]
UrlBegun == urlString # << >> \/ urlParts # UrlNone

\* the address made of its parts
Opt(mark, s) == IF s = << >> THEN << >> ELSE <<mark>> \o s
UrlPath(items) == FlattenSeq([i \in DOMAIN items |-> <<UrlSlash>> \o items[i]])
UrlStdHost(p)  == p.host \o Opt(UrlColon, p.port)
UrlAddress(p)  ==
  p.scheme \o <<UrlColon, UrlSlash, UrlSlash>> \o UrlStdHost(p) \o UrlPath(p.items) \o Opt(UrlMark, p.query)

UrlInit ==
  /\ urlString = << >> /\ urlJunk \in UrlJunk
  /\ \E port \in UrlOldPorts : urlCtx = UrlNew(port) /\ urlBefore = port
  /\ urlParses = 0 /\ urlParts = UrlNone

UrlCode(s) ==
  /\ ~UrlBegun
  /\ urlString' = s
  /\ UNCHANGED <<urlJunk, urlCtx, urlParses, urlParts, urlBefore>>

UrlParseCall(p) ==
  /\ urlString = << >> /\ urlParses < UrlMaxParses
  /\ urlCtx' = UrlParse(UrlAddress(p), urlCtx.port)
  /\ urlParses' = urlParses + 1
  /\ urlParts' = p /\ urlBefore' = urlCtx.port
  /\ UNCHANGED <<urlString, urlJunk>>

UrlNext ==
  \/ \E s \in SeqOf(UrlBytes, UrlMaxLen) : UrlCode(s)
  \/ \E p \in [scheme : {UrlScheme}, host : UrlHosts, port : UrlPorts, items : SeqOf(UrlItems, UrlMaxItems),
               query : UrlQueries] : UrlParseCall(p)
UrlSpec == UrlInit /\ [][UrlNext]_urlVars

-----------------------------------------------------------------------------
(***************************************************************************)
(* What was encoded is decoded, as long as its bytes are below 128 (the    *)
(* test at chef_strings_op_test.cc:802 expects it of every string), and    *)
(* decoding refuses exactly the strings with a percent sign that two       *)
(* hexadecimal digits do not follow, whatever other bytes they have.       *)
(***************************************************************************)
UrlRoundTrip == UrlDecode(UrlEncode(urlString, urlJunk)) = urlString

UrlCoded ==
  LET bad == \E i \in DOMAIN urlString : urlString[i] = 37 /\
               ~(i + 2 <= Len(urlString) /\ {urlString[i + 1], urlString[i + 2]} \subseteq HexDigits)
  IN /\ Range(urlString) \subseteq 0..127 => UrlRoundTrip
     /\ urlString # << >> => (UrlDecode(urlString) = << >>) = bad

(***************************************************************************)
(* An address put together from its parts is taken apart into them: with   *)
(* and without a port and a query, for paths that end in a slash, for a    *)
(* query with slashes, colons and marks in it (of an address without a     *)
(* path the query is left in the host, and is not claimed). Without a port *)
(* origin_port_ stays what it was before the call (not 0, as               *)
(* chef_url.hpp:42 says).                                                  *)
(***************************************************************************)
UrlPartsFound ==
  urlParts # UrlNone /\ (urlParts.items = << >> => urlParts.query = << >>) =>
    LET p == urlParts IN
    /\ urlCtx.scheme = p.scheme /\ urlCtx.host = p.host /\ urlCtx.stdhost = UrlStdHost(p)
    /\ urlCtx.port = IF p.port = << >> THEN urlBefore ELSE Atoi(p.port)
    /\ p.items # << >> =>
         /\ urlCtx.path = UrlPath(p.items) /\ urlCtx.query = p.query
         /\ urlCtx.last = Last(p.items)
         /\ p.items[1] # << >> => Opt(UrlSlash, urlCtx.withoutLast) = UrlPath(Front(p.items))

=============================================================================
