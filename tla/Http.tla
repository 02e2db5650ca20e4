-------------------------------- MODULE Http --------------------------------
(***************************************************************************)
(* chef::http_op::get_or_post (src/include/chef_base/.invisible/.wrapper/  *)
(* chef_http_op_impl.hpp), around an external libcurl, which calls back    *)
(* with pieces of the body and with lines of headers, in any order, those  *)
(* of a redirection too.  A line is [name, value], or Nameless when it has *)
(* no colon; a cookie line may have another number of fields than seven.   *)
(* Nothing clears the response, so it may still have what an earlier call  *)
(* has put into it; the body of this call comes after the earlier one's.   *)
(***************************************************************************)
EXTENDS Naturals, Sequences, SequencesExt

CONSTANTS
  HHeaderLines,       \* the header lines: [name, value] records, and Nameless
  HCookieLines,     \* the cookie lines: [name, value, seven] records
  HMaxBody, HMaxLines, HMaxCookies,    \* bounds: pieces of the body, header lines, cookie lines
  Nameless

ASSUME HttpAssumption ==
  /\ HMaxBody \in Nat /\ HMaxLines \in Nat /\ HMaxCookies \in Nat
  /\ Nameless \notin HCookieLines

VARIABLES
  hPc,          \* "start", "perform", "cookies", "headers", "done"
  hCurl,        \* the easy handle: "none", "open" or "released"
  hList,        \* request_header_list: "none", "owned" or "freed"
  hBody, hHeaderBuf,     \* what this call appends to resp.content_, and resp_headers_buf
  hCookieList,           \* cs_cookies
  hLeft,                 \* what the loop over the cookies, or the one over the lines, has still to visit
  hFreed,                \* whether cs_cookies is freed
  hHeaders, hCookies,    \* resp.headers_ and resp.cookies_
  hRet,
  hOldHeaders, hOldCookies    \* history: the two maps at the call

hOld  == <<hOldHeaders, hOldCookies>>
hRes  == <<hCurl, hList, hFreed, hOld>>
hVars == <<hPc, hRes, hBody, hHeaderBuf, hCookieList, hLeft, hHeaders, hCookies, hRet>>

HMaps(lines) == {map \in SUBSET lines : \A e, f \in map : e.name = f.name => e = f}

HInit ==
  /\ hPc = "start" /\ hCurl = "none" /\ hList = "none" /\ hFreed = TRUE
  /\ hBody = << >> /\ hHeaderBuf = << >> /\ hCookieList = << >> /\ hLeft = << >>
  /\ hHeaders \in HMaps(HHeaderLines \ {Nameless}) /\ hCookies \in HMaps({c \in HCookieLines : c.seven})
  /\ hOldHeaders = hHeaders /\ hOldCookies = hCookies /\ hRet = 0

HNoHandle ==
  /\ hPc = "start"
  /\ hPc' = "done" /\ hRet' = -1
  /\ UNCHANGED <<hRes, hBody, hHeaderBuf, hCookieList, hLeft, hHeaders, hCookies>>

HBegin ==                 \* with headers or without
  /\ hPc = "start"
  /\ hPc' = "perform" /\ hCurl' = "open"
  /\ hList' \in {"none", "owned"}
  /\ UNCHANGED <<hFreed, hOld, hBody, hHeaderBuf, hCookieList, hLeft, hHeaders, hCookies, hRet>>

response_body_cb ==
  /\ hPc = "perform" /\ Len(hBody) < HMaxBody
  /\ hBody' = Append(hBody, Len(hBody) + 1)
  /\ UNCHANGED <<hPc, hRes, hHeaderBuf, hCookieList, hLeft, hHeaders, hCookies, hRet>>

response_header_cb(line) ==
  /\ hPc = "perform" /\ Len(hHeaderBuf) < HMaxLines
  /\ hHeaderBuf' = Append(hHeaderBuf, line)
  /\ UNCHANGED <<hPc, hRes, hBody, hCookieList, hLeft, hHeaders, hCookies, hRet>>

HListFreed == IF hList = "owned" THEN "freed" ELSE hList     \* RELEASE_CURL_SLIST_IF_NEEDED

HFails ==                 \* curl_easy_perform() or the query of the cookies
  /\ hPc = "perform"
  /\ hPc' = "done" /\ hRet' = -1 /\ hCurl' = "released" /\ hList' = HListFreed
  /\ UNCHANGED <<hFreed, hOld, hBody, hHeaderBuf, hCookieList, hLeft, hHeaders, hCookies>>

HAnswered(list) ==        \* and the list of cookies is handed over
  /\ hPc = "perform"
  /\ hPc' = "cookies" /\ hCookieList' = list /\ hLeft' = list /\ hFreed' = (list = << >>)
  /\ UNCHANGED <<hCurl, hList, hOld, hBody, hHeaderBuf, hHeaders, hCookies, hRet>>

HFirst(map, entry) == IF \E e \in map : e.name = entry.name THEN map ELSE map \cup {entry}   \* deviation
HAssign(map, entry) == {e \in map : e.name # entry.name} \cup {entry}                        \* map[k] = v

HCookie ==                \* a line without seven fields is not passed: continue, line 133
  /\ hPc = "cookies" /\ hLeft # << >> /\ Head(hLeft).seven
  /\ hCookies' = HAssign(hCookies, Head(hLeft))
  /\ hLeft' = Tail(hLeft)
  /\ UNCHANGED <<hPc, hRes, hBody, hHeaderBuf, hCookieList, hHeaders, hRet>>

HCookiesDone ==
  /\ hPc = "cookies" /\ hLeft = << >>
  /\ hPc' = "headers" /\ hFreed' = TRUE
  /\ hLeft' = hHeaderBuf
  /\ UNCHANGED <<hCurl, hList, hOld, hBody, hHeaderBuf, hCookieList, hHeaders, hCookies, hRet>>

HHeader ==                \* a line without a colon is passed
  /\ hPc = "headers" /\ hLeft # << >>
  /\ hHeaders' = IF Head(hLeft) = Nameless THEN hHeaders ELSE HAssign(hHeaders, Head(hLeft))
  /\ hLeft' = Tail(hLeft)
  /\ UNCHANGED <<hPc, hRes, hBody, hHeaderBuf, hCookieList, hCookies, hRet>>

HReturns ==
  /\ hPc = "headers" /\ hLeft = << >>
  /\ hPc' = "done" /\ hRet' = 0 /\ hCurl' = "released" /\ hList' = HListFreed
  /\ UNCHANGED <<hFreed, hOld, hBody, hHeaderBuf, hCookieList, hLeft, hHeaders, hCookies>>

HNext ==
  \/ HNoHandle \/ HBegin \/ response_body_cb \/ HFails \/ HCookie \/ HCookiesDone \/ HHeader \/ HReturns
  \/ \E line \in HHeaderLines : response_header_cb(line)
  \/ \E list \in SeqOf(HCookieLines, HMaxCookies) : HAnswered(list)

HSpec == HInit /\ [][HNext]_hVars

-----------------------------------------------------------------------------
(***************************************************************************)
(* On every way out the handle and both lists are freed.                   *)
(***************************************************************************)
HttpReleased == hPc = "done" => hCurl # "open" /\ hList # "owned" /\ hFreed

(***************************************************************************)
(* On success the response has, of all answers on the way, the last line   *)
(* of each header and the last of each cookie; an entry of an earlier call *)
(* stays only if no line has its name.  And every cookie line had seven    *)
(* fields (with another the call would not have come back).                *)
(***************************************************************************)
HLastLines(s) ==
  {s[i] : i \in {i \in DOMAIN s : s[i] # Nameless /\
     \A j \in i + 1..Len(s) : s[j] # Nameless => s[j].name # s[i].name}}

HUnnamed(s, old) == {e \in old : \A i \in DOMAIN s : s[i] # Nameless => s[i].name # e.name}

HLast(s, map, old) == map = HLastLines(s) \cup HUnnamed(s, old)

HttpLastOfEach ==
  hPc = "done" /\ hRet = 0 =>
    /\ HLast(hHeaderBuf, hHeaders, hOldHeaders) /\ HLast(hCookieList, hCookies, hOldCookies)
    /\ \A i \in DOMAIN hCookieList : hCookieList[i].seven

(***************************************************************************)
(* A call that has ended has freed everything and reports the last answer. *)
(***************************************************************************)
HttpSound == HttpReleased /\ HttpLastOfEach
=============================================================================
