---------------------------- MODULE MCSequential ----------------------------
(***************************************************************************)
(* The components that one thread uses at a time, in one run: each         *)
(* behaviour is one of the component "subject", the others stay as they    *)
(* are (what Init leaves open is fixed for them).  Nothing is composed;    *)
(* the properties are those of the modules.                                *)
(***************************************************************************)
EXTENDS SkipList, Lru, ByteBuffer, ConsistentHash, WeightSelector, Hmac, Rounds, Url, Base64, Filepath, Zlib, Http

VARIABLE subject

-----------------------------------------------------------------------------
(***************************************************************************)
(* Values of the constants that a cfg cannot write.                        *)
(***************************************************************************)
\* two hash functions: one that keeps virtual nodes apart, one where two nodes meet
ChNumber(n) == CASE n = "a" -> 0 [] n = "b" -> 1 [] OTHER -> 2
Apart   == [v \in ChVirtual |-> ChNumber(v[1]) + (3 * v[2])]
Meeting == [v \in ChVirtual |-> ChNumber(v[1]) + v[2]]
Hashes  == {Apart, Meeting}

Items == <<"a", "b", "c">>

OneHost  == {<<"h">>, <<"h", "h">>}
Ports    == {<< >>, <<"8", "0">>, <<"1", "h">>}
UrlWays  == {<< >>, <<"a">>, <<"a", ":">>}
Queries  == {<< >>, <<"q">>, <<"/", "q", "?", ":">>}
Scheme   == <<"s">>
Replaced == <<"a", "n">>

Sextets  == {0, 27, 63, B64Pad, B64Invalid}

\* trees of up to three levels under "a", with files, links and directories
Names   == {"a", "b"}
FpNodes == UNION {[1..k -> Names] : k \in 1..3}
FileBytes == {"o", "n"}
FpWrites == <<"n", "o">>
Full  == FpFile(<<"o">>)
Leaf  == {FpNone, Full, FpLink}
Tree(aa, ab, aaa, b0, ba) ==
  [n \in FpNodes |-> CASE n = <<"a">> -> FpDir
                     [] n = <<"a", "a">> -> aa
                     [] n = <<"a", "b">> -> ab
                     [] n = <<"a", "a", "a">> -> aaa
                     [] n = <<"b">> -> b0
                     [] n = <<"b", "a">> -> ba
                     [] OTHER -> FpNone]
Trees == {[Tree(FpNone, FpNone, FpNone, y, FpNone) EXCEPT ![<<"a">>] = x] :
            x \in Leaf \cup {FpDir}, y \in {FpNone, FpDir, Full}}
         \cup {Tree(x, y, FpNone, FpDir, Full) : x \in Leaf \cup {FpDir}, y \in Leaf}
         \cup {Tree(FpDir, y, x, FpNone, FpNone) : x \in Leaf \cup {FpDir}, y \in Leaf}
OneTree == Tree(FpNone, FpNone, FpNone, FpNone, FpNone)
Paths  == {<<"a">>, <<"a", "a">>, <<"a", "a", "a">>}
Target == <<"b">>

Lines    == {[name |-> "a", value |-> 1], [name |-> "a", value |-> 2], [name |-> "b", value |-> 1], Nameless}
Cookies  == {[name |-> "a", value |-> 1, seven |-> TRUE], [name |-> "a", value |-> 2, seven |-> TRUE],
             [name |-> "b", value |-> 1, seven |-> FALSE]}

-----------------------------------------------------------------------------
Subjects == {"skiplist", "lru", "buffer", "consistent_hash", "weight_selector", "hashes", "hmac",
             "rounds", "strings", "url", "base64", "filepath", "compress", "http"}

mcVars == <<subject, vars, lruVars, bufVars, chVars, wsVars, dgVars, hmVars, rdVars, txVars, urlVars,
            b64Vars, fpVars, zVars, hVars>>

MCInit ==
  /\ subject \in Subjects
  /\ Init /\ BufBegin /\ WsInit /\ HmInit /\ TxInit /\ B64Init
  /\ LruInit /\ (subject # "lru" => lruCapacity = 0)
  /\ ChInit /\ (subject # "consistent_hash" => chHash = Apart)
  /\ DgInit /\ (subject # "hashes" => dgKind = "md5")
  /\ RdInit /\ (subject # "rounds" => rdKind = "md5")
  /\ UrlInit /\ (subject # "url" => urlJunk = Min(UrlJunk) /\ urlBefore = Min(UrlOldPorts))
  /\ FpInit /\ (subject # "filepath" => fpFs = OneTree)
  /\ ZInit /\ (subject # "compress" => zOp = "compress" /\ zIn = 0)
  /\ HInit /\ (subject # "http" => hHeaders = {} /\ hCookies = {})

\* the variables of the other components
Others(c) ==
  /\ UNCHANGED subject
  /\ c # "skiplist" => UNCHANGED vars
  /\ c # "lru" => UNCHANGED lruVars
  /\ c # "buffer" => UNCHANGED bufVars
  /\ c # "consistent_hash" => UNCHANGED chVars
  /\ c # "weight_selector" => UNCHANGED wsVars
  /\ c # "hashes" => UNCHANGED dgVars
  /\ c # "hmac" => UNCHANGED hmVars
  /\ c # "rounds" => UNCHANGED rdVars
  /\ c # "strings" => UNCHANGED txVars
  /\ c # "url" => UNCHANGED urlVars
  /\ c # "base64" => UNCHANGED b64Vars
  /\ c # "filepath" => UNCHANGED fpVars
  /\ c # "compress" => UNCHANGED zVars
  /\ c # "http" => UNCHANGED hVars

MCNext ==
  \/ subject = "skiplist" /\ Next /\ Others("skiplist")
  \/ subject = "lru" /\ LruNext /\ Others("lru")
  \/ subject = "buffer" /\ BufNext /\ Others("buffer")
  \/ subject = "consistent_hash" /\ ChNext /\ Others("consistent_hash")
  \/ subject = "weight_selector" /\ WsNext /\ Others("weight_selector")
  \/ subject = "hashes" /\ DgNext /\ Others("hashes")
  \/ subject = "hmac" /\ HmNext /\ Others("hmac")
  \/ subject = "rounds" /\ RdNext /\ Others("rounds")
  \/ subject = "strings" /\ TxNext /\ Others("strings")
  \/ subject = "url" /\ UrlNext /\ Others("url")
  \/ subject = "base64" /\ B64Next /\ Others("base64")
  \/ subject = "filepath" /\ FpNext /\ Others("filepath")
  \/ subject = "compress" /\ ZNext /\ Others("compress")
  \/ subject = "http" /\ HNext /\ Others("http")

MCSpec == MCInit /\ [][MCNext]_mcVars

-----------------------------------------------------------------------------
(***************************************************************************)
(* The type invariants of the modules: links in two directions agree, maps *)
(* name nodes that exist, rings have every virtual node, indices stay in   *)
(* their arrays, totals and counters are those of what was put in.         *)
(***************************************************************************)
TypesOK == TypeOK /\ LruTypeOK /\ BufTypeOK /\ ChTypeOK /\ WsTypeOK /\ DgTypeOK
=============================================================================
