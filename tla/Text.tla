-------------------------------- MODULE Text --------------------------------
(***************************************************************************)
(* chef::strings_op (src/include/chef_base/chef_strings_op.hpp): strings   *)
(* as sequences of characters, positions counted from 1, and 0 for npos.   *)
(*                                                                         *)
(* A call has a string txS and a second string txT: what to look for, the  *)
(* separator, or a list of characters.  Texts of printf, case conversion   *)
(* and comparison, which are done by the C library, are left out.          *)
(***************************************************************************)
EXTENDS Integers, Sequences, SequencesExt, FiniteSetsExt

CONSTANTS
  TxChar,
  TxCR, TxLF,          \* the ends of lines
  TxReplacement,       \* what replace() puts in
  TxMaxS, TxMaxT       \* bounds: the lengths of the two strings

ASSUME TxAssumption == {TxCR, TxLF} \subseteq TxChar /\ TxReplacement \in Seq(TxChar)

VARIABLES txS, txT     \* the arguments of the call

txVars == <<txS, txT>>

npos == 0
Substr(s, from)  == SubSeq(s, from, Len(s))                 \* to the end
AtPos(s, t, i)   == SubSeq(s, i, i + Len(t) - 1) = t
TxPlaces(s, t, l)  == {i \in l..Len(s) + 1 - Len(t) : AtPos(s, t, i)}
FindAt(s, t, l)    == Min(IF TxPlaces(s, t, l) = {} THEN {npos} ELSE TxPlaces(s, t, l))
RFind(s, t)      == Max(TxPlaces(s, t, 1) \cup {npos})
FindFirstOf(s, list, l) ==
  LET found == {i \in l..Len(s) : s[i] \in Range(list)} IN Min(IF found = {} THEN {npos} ELSE found)
FindFirstNotOf(s, list) == Min({i \in DOMAIN s : s[i] \notin Range(list)} \cup {Len(s) + 1})
FindLastNotOf(s, list)  == Max({i \in DOMAIN s : s[i] \notin Range(list)} \cup {0})

(***************************************************************************)
(* Questions                                                               *)
(***************************************************************************)
HasPart(s, t)       == FindAt(s, t, 1) # npos
ContainsAny(s, list) == FindFirstOf(s, list, 1) # npos
ContainsAll(s, list) ==
  s # << >> /\ list # << >> /\ Len(s) >= Len(list) /\ Range(list) \subseteq Range(s)
HasPrefix(s, t) == s # << >> /\ t # << >> /\ Len(s) >= Len(t) /\ SubSeq(s, 1, Len(t)) = t
HasSuffix(s, t) == s # << >> /\ t # << >> /\ Len(s) >= Len(t) /\ Substr(s, Len(s) - Len(t) + 1) = t

RECURSIVE CountFrom(_, _, _)
CountFrom(s, t, pos) ==
  LET found == FindAt(s, t, pos) IN
  IF found = npos THEN 0
  ELSE IF found + Len(t) > Len(s) THEN 1 ELSE 1 + CountFrom(s, t, found + Len(t))
CountOf(s, t) == IF s = t THEN 1 ELSE IF s = << >> \/ t = << >> THEN 0 ELSE CountFrom(s, t, 1)

(***************************************************************************)
(* Taking apart: next[l] is the first separator, of width w, at or after   *)
(* the position l.                                                         *)
(***************************************************************************)
Piece(s, l, r, keep) == IF l # r \/ keep THEN <<SubSeq(s, l, r - 1)>> ELSE << >>

RECURSIVE Pieces(_, _, _, _, _)
Pieces(s, next, w, l, keep) ==
  LET r == next[l] IN
  IF r # npos THEN Piece(s, l, r, keep) \o Pieces(s, next, w, r + w, keep)
  ELSE Piece(s, l, Len(s) + 1, keep)

SplitAny(s, list, keep) ==
  IF s = << >> THEN << >> ELSE IF list = << >> THEN <<s>>
  ELSE Pieces(s, [l \in 1..Len(s) + 1 |-> FindFirstOf(s, list, l)], 1, 1, keep)

SplitSkips(s, sep, keep) ==    \* deviation: goes on one character after a separator
  IF s = << >> THEN << >> ELSE IF sep = << >> THEN <<s>>
  ELSE Pieces(s, [l \in 1..Len(s) + 1 |-> FindAt(s, sep, l)], 1, 1, keep)
Split(s, sep, keep) ==
  IF s = << >> THEN << >> ELSE IF sep = << >> THEN <<s>>
  ELSE Pieces(s, [l \in 1..Len(s) + 1 |-> FindAt(s, sep, l)], Len(sep), 1, keep)

NoPiece(keep) == IF keep THEN << << >> >> ELSE << >>

SplitOnce(s, c, keep) ==
  LET pos == FindAt(s, <<c>>, 1) IN
  CASE s = << >>    -> << >>
    [] pos = npos   -> <<s>>
    [] pos = 1      -> NoPiece(keep) \o <<Substr(s, 2)>>
    [] pos = Len(s) -> <<Front(s)>> \o NoPiece(keep)
    [] OTHER        -> <<SubSeq(s, 1, pos - 1), Substr(s, pos + 1)>>

SplitChar(s, c, keep) ==       \* getline() has no piece after a separator at the end
  LET next   == [l \in 1..Len(s) + 1 |-> FindAt(s, <<c>>, l)]
      pieces == Pieces(s, next, 1, 1, TRUE)
      got    == IF Last(s) = c THEN Front(pieces) ELSE pieces
  IN IF s = << >> THEN << >>
     ELSE SelectSeq(got, LAMBDA p : keep \/ p # << >>) \o (IF Last(s) = c THEN NoPiece(keep) ELSE << >>)

CRWithLF(s, r) == s[r] = TxCR /\ r < Len(s) /\ s[r + 1] = TxLF

RECURSIVE LinesFrom(_, _, _)
LinesFrom(s, l, keepEnds) ==
  LET r    == FindFirstOf(s, <<TxCR, TxLF>>, l)
      next == IF CRWithLF(s, r) THEN r + 2 ELSE r + 1
  IN IF r = npos THEN IF l <= Len(s) THEN <<Substr(s, l)>> ELSE << >>
     ELSE <<SubSeq(s, l, IF keepEnds THEN next - 1 ELSE r - 1)>> \o LinesFrom(s, next, keepEnds)
SplitLines(s, keepEnds) == LinesFrom(s, 1, keepEnds)

CutAt(s, sep, pos) ==
  IF pos = npos THEN [found |-> FALSE, before |-> s, after |-> << >>]
  ELSE [found |-> TRUE, before |-> SubSeq(s, 1, pos - 1), after |-> Substr(s, pos + Len(sep))]
Cut(s, sep)     == CutAt(s, sep, FindAt(s, sep, 1))
CutLast(s, sep) == CutAt(s, sep, RFind(s, sep))

TrimLeft(s, list)  == IF list = << >> THEN s ELSE Substr(s, FindFirstNotOf(s, list))
TrimRight(s, list) == IF list = << >> THEN s ELSE SubSeq(s, 1, FindLastNotOf(s, list))
TrimPrefix(s, t)   == IF HasPrefix(s, t) THEN Substr(s, Len(t) + 1) ELSE s
TrimSuffix(s, t)   == IF HasSuffix(s, t) THEN SubSeq(s, 1, Len(s) - Len(t)) ELSE s

(***************************************************************************)
(* Putting together                                                        *)
(***************************************************************************)
JoinAll(ss, sep) ==
  IF ss = << >> THEN << >> ELSE FoldLeft(LAMBDA r, p : r \o p \o sep, << >>, Front(ss)) \o Last(ss)

RECURSIVE ReplaceFrom(_, _, _, _)
ReplaceFrom(s, t, with, l) ==
  LET r == FindAt(s, t, l) IN
  IF r = npos THEN Substr(s, l)
  ELSE SubSeq(s, l, r - 1) \o with \o ReplaceFrom(s, t, with, r + Len(t))
ReplaceEach(s, t, with) == IF s = << >> \/ t = << >> THEN s ELSE ReplaceFrom(s, t, with, 1)

ReplaceIn(s, t, with, pos) ==
  IF s = << >> \/ t = << >> \/ pos = npos THEN s
  ELSE SubSeq(s, 1, pos - 1) \o with \o Substr(s, pos + Len(t))
ReplaceFirst(s, t, with) == ReplaceIn(s, t, with, FindAt(s, t, 1))
ReplaceLast(s, t, with)  == ReplaceIn(s, t, with, RFind(s, t))

RECURSIVE WrapLine(_, _)
WrapLine(line, width) ==
  IF Len(line) <= width THEN <<line>>
  ELSE <<SubSeq(line, 1, width)>> \o WrapLine(Substr(line, width + 1), width)
TextFlowWrap(s, width, eol) ==
  JoinAll(FlattenSeq([i \in DOMAIN Split(s, eol, TRUE) |-> WrapLine(Split(s, eol, TRUE)[i], width)]), eol)

PathJoin(path, name, slash) ==     \* filepath_op::join(): just one slash between the two
  path \o slash \o name
FilepathJoin(path, name, slash) ==
  IF path = << >> THEN name ELSE IF name = << >> THEN path
  ELSE PathJoin(IF Last(path) = slash THEN Front(path) ELSE path,
                IF Head(name) = slash THEN Tail(name) ELSE name, <<slash>>)

(***************************************************************************)
(* A call with any two strings.                                            *)
(***************************************************************************)
TxInit == txS = << >> /\ txT = << >>
TxCall(s, t) == txVars = << << >>, << >> >> /\ txS' = s /\ txT' = t
TxNext == \E s \in SeqOf(TxChar, TxMaxS), t \in SeqOf(TxChar, TxMaxT) : TxCall(s, t)
TxSpec == TxInit /\ [][TxNext]_txVars

-----------------------------------------------------------------------------
Concat(ss) == FlattenSeq(ss)
Nonempty   == txS # << >> /\ txT # << >>

(***************************************************************************)
(* Splitting and joining undo each other; replacing is splitting and       *)
(* joining with something else, counting is splitting and counting; the    *)
(* four ways to split agree where they overlap, and dropping empty pieces  *)
(* drops nothing else.                                                     *)
(***************************************************************************)
TxSplitJoins ==
  LET split(keep) == Split(txS, txT, keep) IN
  Nonempty =>
    /\ JoinAll(split(TRUE), txT) = txS
    /\ JoinAll(split(TRUE), TxReplacement) = ReplaceEach(txS, txT, TxReplacement)
    /\ CountOf(txS, txT) = Len(split(TRUE)) - 1
    /\ \A p \in Range(split(TRUE)) : ~HasPart(p, txT)
    /\ split(FALSE) = SelectSeq(split(TRUE), LAMBDA p : p # << >>)
    /\ Len(txT) = 1 => \A keep \in BOOLEAN :
         /\ split(keep) = SplitAny(txS, txT, keep)
         /\ split(keep) = SplitChar(txS, txT[1], keep)
    /\ Len(txT) = 1 /\ CountOf(txS, txT) = 1 => SplitOnce(txS, txT[1], TRUE) = split(TRUE)

(***************************************************************************)
(* Lines with their ends are the text again; no line has an end inside,    *)
(* and CR LF ends one line, not two.                                       *)
(***************************************************************************)
TxLinesWhole ==
  LET ended == SplitLines(txS, TRUE)
      plain == SplitLines(txS, FALSE)
      ends  == {<<TxCR>>, <<TxLF>>, <<TxCR, TxLF>>}
  IN /\ Concat(ended) = txS
     /\ Len(plain) = Len(ended)
     /\ \A i \in DOMAIN plain :
          /\ ~ContainsAny(plain[i], <<TxCR, TxLF>>)
          /\ ended[i] \in {plain[i] \o e : e \in ends} \cup (IF i = Len(plain) THEN {plain[i]} ELSE {})
          /\ i < Len(plain) /\ Last(ended[i]) = TxCR => Head(ended[i + 1]) # TxLF

(***************************************************************************)
(* Cutting loses only the separator, at its first or last place; replacing *)
(* the first or last one is cutting there and putting something else in.   *)
(***************************************************************************)
TxCutWhole ==
  LET first == Cut(txS, txT)
      last  == CutLast(txS, txT)
  IN /\ first.found = HasPart(txS, txT) /\ last.found = first.found
     /\ \A c \in {first, last} : IF c.found THEN c.before \o txT \o c.after = txS
                                 ELSE c.before = txS /\ c.after = << >>
     /\ Nonempty /\ first.found =>
          /\ ~HasPart(first.before \o Front(txT), txT) /\ ~HasPart(Tail(txT) \o last.after, txT)
          /\ ReplaceFirst(txS, txT, TxReplacement) = first.before \o TxReplacement \o first.after
          /\ ReplaceLast(txS, txT, TxReplacement) = last.before \o TxReplacement \o last.after

(***************************************************************************)
(* Trimming takes away listed characters only, and all of them at that     *)
(* end; a prefix or suffix is taken away once.                             *)
(***************************************************************************)
TxTrimmed ==
  LET left  == TrimLeft(txS, txT)
      right == TrimRight(txS, txT)
      gone(n, from) == Range(SubSeq(txS, from, from + n - 1)) \subseteq Range(txT)
  IN /\ left = Substr(txS, Len(txS) - Len(left) + 1) /\ gone(Len(txS) - Len(left), 1)
     /\ right = SubSeq(txS, 1, Len(right)) /\ gone(Len(txS) - Len(right), Len(right) + 1)
     /\ left # << >> => Head(left) \notin Range(txT)
     /\ right # << >> => Last(right) \notin Range(txT)
     /\ Nonempty => /\ HasPrefix(txS, txT) => txT \o TrimPrefix(txS, txT) = txS
                    /\ HasSuffix(txS, txT) => TrimSuffix(txS, txT) \o txT = txS
     /\ ContainsAll(txS, txT) /\ left = << >> => Range(txS) = Range(txT)

(***************************************************************************)
(* A joined path names the directories of the one, then those of the       *)
(* other, whichever of the two brings the slash (here any character).      *)
(***************************************************************************)
TxPathJoined ==
  \A slash \in TxChar :
    /\ SplitAny(FilepathJoin(txS, txT, slash), <<slash>>, FALSE)
         = SplitAny(txS, <<slash>>, FALSE) \o SplitAny(txT, <<slash>>, FALSE)
    /\ HasPrefix(txS, <<slash>>) => HasPrefix(FilepathJoin(txS, txT, slash), <<slash>>)

(***************************************************************************)
(* Wrapped text has no line longer than the width, and unwrapped it is the *)
(* text: only ends of lines are put in.                                    *)
(***************************************************************************)
TxWrapped ==
  \A width \in 1..2 :
    LET wrapped == Split(TextFlowWrap(txS, width, <<TxLF>>), <<TxLF>>, TRUE) IN
    /\ \A i \in DOMAIN wrapped : Len(wrapped[i]) <= width
    /\ Concat(wrapped) = SelectSeq(txS, LAMBDA c : c # TxLF)

(***************************************************************************)
(* No operation on strings loses, doubles or invents a character it is not *)
(* asked to.                                                               *)
(***************************************************************************)
TextKeepsAll ==
  TxSplitJoins /\ TxLinesWhole /\ TxCutWhole /\ TxTrimmed /\ TxPathJoined /\ TxWrapped
=============================================================================
