------------------------------ MODULE Filepath ------------------------------
(***************************************************************************)
(* chef::filepath_op (src/include/chef_base/chef_filepath_op.hpp): calls   *)
(* that take several system calls each, on a tree that others change       *)
(* meanwhile.                                                              *)
(*                                                                         *)
(* A node is the sequence of the names on its way; a file has a content, a *)
(* symbolic link leads to FpTarget.  One call is made.  A look at an entry *)
(* (exist() and is_dir(), and the unlink() of a file found while a         *)
(* directory is removed) is one step.  Every system call may fail, but for *)
(* strdup(), new and closedir(), which nothing depends on.  Writes go to   *)
(* the end of a file: what others write into it meanwhile, or that they    *)
(* remove it and make it anew, is not told apart.                          *)
(***************************************************************************)
EXTENDS Integers, Sequences, SequencesExt

CONSTANTS
  FpName,          \* the names of entries
  FpNode,          \* the nodes there can be
  FpTrees,         \* the trees to begin with: [FpNode -> what is there]
  FpPaths,         \* the arguments of the calls
  FpTarget,        \* where links lead
  FpByte,          \* what files are made of
  FpNew,           \* what is written
  FpMaxOthers,     \* bound: changes by others during the call
  FpMaxFaults      \* bound: system calls that fail, or write less, for no reason of the tree

FpNone == <<"none">>
FpDir  == <<"dir">>
FpLink == <<"link">>
FpFile(content) == <<"file", content>>
FpNoWork == [made |-> 0, dir |-> << >>, size |-> 0]
FpEntry == {FpNone, FpDir, FpLink} \cup ({"file"} \X Seq(FpByte))

(***************************************************************************)
(* What is in a tree is in a directory of it.  The ways that the arguments *)
(* name, also through links, are among the nodes.                          *)
(***************************************************************************)
FpIsTree(t) == \A n \in FpNode : t[n] # FpNone => Len(n) = 1 \/ (Front(n) \in FpNode /\ t[Front(n)] = FpDir)

FpWays(p, i) == {SubSeq(p, 1, i)} \cup {FpTarget \o SubSeq(p, j + 1, i) : j \in 1..i}

ASSUME FpAssumption ==
  /\ \A n \in FpNode : n \in Seq(FpName) /\ n # << >>
  /\ FpTarget \in FpNode /\ FpNew \in Seq(FpByte) /\ FpNew # << >>
  /\ FpTrees \subseteq [FpNode -> FpEntry] /\ \A t \in FpTrees : FpIsTree(t) /\ t[FpTarget] # FpLink
  /\ \A p \in FpPaths : p \in Seq(FpName) /\ p # << >> /\ \A i \in 1..Len(p) : FpWays(p, i) \subseteq FpNode

VARIABLES
  fpFs,            \* the tree
  fpCall,          \* the call: [op, path]
  fpPc,            \* "idle", the system call that is next, or "done"
  fpFrames,        \* the open directories, the innermost last
  fpWork,          \* the parts of a path done and the node they lead to; the size of a file;
                   \* or the bytes written, and of them those fwrite() has taken
  fpOut,           \* what is given out
  fpRet,
  fpBefore, fpOthers, fpFaults      \* history: the tree at the call, the changes and faults since

fpHist == <<fpBefore, fpOthers>>
fpVars == <<fpFs, fpCall, fpPc, fpFrames, fpWork, fpOut, fpRet, fpHist, fpFaults>>

FpIsFile(x)   == x[1] = "file"
FpLeads(t, n) == IF t[n] = FpLink THEN FpTarget ELSE n
FpFollow(n)   == FpLeads(fpFs, n)
FpStat(n)     == fpFs[FpFollow(n)]
FpNames(n)    == {m \in FpNode : Len(m) = Len(n) + 1 /\ Front(m) = n /\ fpFs[m] # FpNone}
FpWay(t, p) ==                    \* where the first i names lead in the tree t
  LET at[i \in 0..Len(p)] == IF i = 0 THEN << >> ELSE FpLeads(t, Append(at[i - 1], p[i])) IN at
FpResolve(p) == FpWay(fpFs, p)[Len(p)]
FpPlace(p) == Append(FpResolve(Front(p)), Last(p))
FpThere(n)    == FpStat(n) # FpNone

FpDone(ret)   == fpPc' = "done" /\ fpRet' = ret
FpFault       == fpFaults < FpMaxFaults /\ fpFaults' = fpFaults + 1

FpInit ==
  /\ fpFs \in FpTrees /\ fpBefore = fpFs
  /\ fpCall = [op |-> "none", path |-> << >>] /\ fpPc = "idle"
  /\ fpFrames = << >> /\ fpWork = FpNoWork /\ fpOut = [dirs |-> {}, files |-> {}, content |-> << >>]
  /\ fpRet = 0 /\ fpOthers = 0 /\ fpFaults = 0

FpOpened(n) == [node |-> n, dir |-> FpFollow(n), left |-> FpNames(FpFollow(n)), ret |-> 0]

FpBegin(op, p) == fpPc = "idle" /\ fpCall' = [op |-> op, path |-> p] /\ UNCHANGED <<fpFs, fpHist>>

rmdir_recursive(p) ==
  /\ FpBegin("rmdir", p)
  /\ CASE FpStat(p) = FpNone -> FpDone(0) /\ UNCHANGED fpFrames
       [] FpStat(p) = FpDir  -> fpPc' = "visit" /\ fpFrames' = <<FpOpened(p)>> /\ UNCHANGED fpRet
       [] OTHER              -> FpDone(-1) /\ UNCHANGED fpFrames
  /\ UNCHANGED <<fpWork, fpOut, fpFaults>>

walk_dir(p) ==
  /\ FpBegin("walk", p)
  /\ IF FpStat(p) = FpDir THEN fpPc' = "visit" /\ fpFrames' = <<FpOpened(p)>> /\ UNCHANGED fpRet
     ELSE FpDone(-1) /\ UNCHANGED fpFrames
  /\ UNCHANGED <<fpWork, fpOut, fpFaults>>

mkdir_recursive(p) ==
  /\ FpBegin("mkdir", p) /\ fpPc' = "mkdir" /\ fpWork' = FpNoWork
  /\ UNCHANGED <<fpFrames, fpOut, fpRet, fpFaults>>

rm_file(p) ==
  /\ FpBegin("rm", p)
  /\ CASE FpStat(p) = FpNone -> FpDone(0)
       [] FpStat(p) = FpDir  -> FpDone(-1)
       [] OTHER              -> fpPc' = "unlink" /\ UNCHANGED fpRet
  /\ UNCHANGED <<fpFrames, fpWork, fpOut, fpFaults>>

(***************************************************************************)
(* A call whose first system calls fail.  Nothing is done.  To remove what *)
(* exist() cannot stat() is no failure; a file with no size has nothing.   *)
(***************************************************************************)
FpGivesUp(op) ==
  CASE op \in {"rmdir", "rm"}             -> {0, -1}
    [] op = "read"                        -> {0}
    [] op = "walk"                        -> {-1}

FpBeginFails(op, n) ==
  /\ FpBegin(op, n) /\ FpThere(n) /\ FpFault
  /\ \E ret \in FpGivesUp(op) : FpDone(ret)
  /\ UNCHANGED <<fpFrames, fpWork, fpOut>>

FpTop  == Last(fpFrames)
FpIn(n) == Len(n) = 1 \/ (Front(n) \in FpNode /\ FpStat(Front(n)) = FpDir)     \* has a directory

FpEnters(c)    == FpStat(c) = FpDir

FpPassed(c)    == [fpFrames EXCEPT ![Len(fpFrames)].left = @ \ {c}]
FpFailed(fs)   == [fs EXCEPT ![Len(fs)].ret = -1]
FpFileGiven(c) == [fpOut EXCEPT !.files = @ \cup {c}]

FpVisit(c) ==                               \* an entry that readdir_r() gives
  /\ fpPc = "visit" /\ c \in FpTop.left
  /\ CASE fpCall.op = "walk" ->
             /\ fpOut' = IF ~FpThere(c) THEN fpOut
                         ELSE IF FpStat(c) = FpDir THEN [fpOut EXCEPT !.dirs = @ \cup {c}]
                         ELSE FpFileGiven(c)
             /\ fpFrames' = FpPassed(c) /\ UNCHANGED fpFs
       [] fpCall.op = "rmdir" /\ FpEnters(c) ->
             fpFrames' = Append(FpPassed(c), FpOpened(c)) /\ UNCHANGED <<fpFs, fpOut>>
       [] fpCall.op = "rmdir" /\ ~FpEnters(c) ->
             /\ fpFs' = IF FpThere(c) THEN [fpFs EXCEPT ![c] = FpNone] ELSE fpFs
             /\ fpFrames' = FpPassed(c) /\ UNCHANGED fpOut
  /\ UNCHANGED <<fpCall, fpPc, fpWork, fpRet, fpHist, fpFaults>>

FpVisitFails(c) ==    \* exist() fails: it is left out; is_dir(): it is no directory; others: it stays
  /\ fpPc = "visit" /\ c \in FpTop.left /\ FpThere(c) /\ FpFault
  /\ \/ fpFrames' = FpPassed(c) /\ UNCHANGED fpOut
     \/ fpCall.op = "walk" /\ fpFrames' = FpPassed(c) /\ fpOut' = FpFileGiven(c)
     \/ fpCall.op = "rmdir" /\ fpFrames' = FpFailed(FpPassed(c)) /\ UNCHANGED fpOut
  /\ UNCHANGED <<fpFs, fpCall, fpPc, fpWork, fpRet, fpHist>>

FpReaddirFails ==                           \* the rest of a directory is not looked at
  /\ fpPc = "visit" /\ FpTop.left # {} /\ FpFault
  /\ fpFrames' = [fpFrames EXCEPT ![Len(fpFrames)].left = {}]
  /\ UNCHANGED <<fpFs, fpCall, fpPc, fpWork, fpOut, fpRet, fpHist>>

FpOfEntries(gone) == IF FpTop.ret = 0 THEN 0 ELSE -1      \* deviation: rmdir() is not looked at
FpOfRmdir(gone)   == IF gone /\ FpTop.ret = 0 THEN 0 ELSE -1

FpLeave(gone) ==                            \* closedir(), and rmdir() of the directory
  /\ fpPc = "visit" /\ FpTop.left = {}
  /\ LET node == FpTop.node
         can  == fpCall.op = "rmdir" /\ fpFs[node] = FpDir /\ FpNames(node) = {}
         ret  == IF fpCall.op = "walk" THEN 0 ELSE FpOfRmdir(gone)
         up   == Front(fpFrames)
     IN /\ gone => can
        /\ IF gone <=> can THEN UNCHANGED fpFaults ELSE FpFault
        /\ fpFs' = IF gone THEN [fpFs EXCEPT ![node] = FpNone] ELSE fpFs
        /\ fpFrames' = IF up # << >> /\ ret # 0 THEN FpFailed(up) ELSE up
        /\ IF up = << >> THEN FpDone(ret) ELSE UNCHANGED <<fpPc, fpRet>>
  /\ UNCHANGED <<fpCall, fpWork, fpOut, fpHist>>

FpMkdirEnds(p, i)  == i = Len(p)

FpMkdir ==                                  \* a part of the path; that it exists is no error
  LET i    == fpWork.made + 1
      n    == Append(fpWork.dir, fpCall.path[i])
      next == fpWork' = [fpWork EXCEPT !.made = i, !.dir = FpLeads(fpFs', n)]
      goOn == next /\ IF FpMkdirEnds(fpCall.path, i) THEN FpDone(0) ELSE UNCHANGED <<fpPc, fpRet>>
  IN /\ fpPc = "mkdir"
     /\ \/ FpIn(n) /\ fpFs' = [fpFs EXCEPT ![n] = IF @ = FpNone THEN FpDir ELSE @] /\ goOn
           /\ UNCHANGED fpFaults
        \/ ~FpIn(n) /\ FpDone(-1) /\ UNCHANGED <<fpFs, fpWork, fpFaults>>
        \/ FpFault /\ FpDone(-1) /\ UNCHANGED <<fpFs, fpWork>>
     /\ UNCHANGED <<fpCall, fpFrames, fpOut, fpHist>>

FpUnlink ==
  /\ fpPc = "unlink"
  /\ \/ /\ fpFs[fpCall.path] \notin {FpNone, FpDir} /\ FpDone(0)
        /\ fpFs' = [fpFs EXCEPT ![fpCall.path] = FpNone] /\ UNCHANGED fpFaults
     \/ fpFs[fpCall.path] \in {FpNone, FpDir} /\ FpDone(-1) /\ UNCHANGED <<fpFs, fpFaults>>
     \/ FpFault /\ FpDone(-1) /\ UNCHANGED fpFs
  /\ UNCHANGED <<fpCall, fpFrames, fpWork, fpOut, fpHist>>

FpKept(append, old) == IF append THEN old ELSE << >>

write_file(p, append) ==                    \* fopen()
  LET n   == FpFollow(p)
      old == IF FpIsFile(fpFs[n]) THEN fpFs[n][2] ELSE << >>
  IN /\ fpPc = "idle"
     /\ fpCall' = [op |-> IF append THEN "append" ELSE "write", path |-> n]
     /\ \/ FpIn(n) /\ fpFs[n] # FpDir /\ fpFs' = [fpFs EXCEPT ![n] = FpFile(FpKept(append, old))]
           /\ fpPc' = "fwrite" /\ UNCHANGED <<fpRet, fpFaults>>
        \/ ~(FpIn(n) /\ fpFs[n] # FpDir) /\ FpDone(-1) /\ UNCHANGED <<fpFs, fpFaults>>
        \/ FpFault /\ FpDone(-1) /\ UNCHANGED fpFs
     /\ UNCHANGED <<fpFrames, fpWork, fpOut, fpHist>>

FpPut(n, s) ==                              \* to no place when the file was removed
  fpFs' = IF FpIsFile(fpFs[n]) THEN [fpFs EXCEPT ![n] = FpFile(@[2] \o s)] ELSE fpFs

FpFwrite ==                    \* takes all of it, or less; has already written some of what it has taken
  /\ fpPc = "fwrite" /\ fpPc' = "fclose"
  /\ \E taken, made \in 0..Len(FpNew) :
       /\ made <= taken
       /\ FpPut(fpCall.path, SubSeq(FpNew, 1, made))
       /\ fpWork' = [fpWork EXCEPT !.made = made, !.size = taken]
       /\ IF taken = Len(FpNew) THEN UNCHANGED fpFaults ELSE FpFault
  /\ UNCHANGED <<fpCall, fpFrames, fpOut, fpRet, fpHist>>

FpTaken == IF fpWork.size = Len(FpNew) THEN 0 ELSE -1

FpFclose ==                                 \* writes the rest; what it returns is not looked at
  /\ fpPc = "fclose" /\ FpDone(FpTaken)
  /\ \E made \in fpWork.made..fpWork.size :
       /\ FpPut(fpCall.path, SubSeq(FpNew, fpWork.made + 1, made))
       /\ IF made = fpWork.size THEN UNCHANGED fpFaults ELSE FpFault
  /\ UNCHANGED <<fpCall, fpFrames, fpWork, fpOut, fpHist>>

get_file_size(n) == IF FpIsFile(FpStat(n)) THEN Len(FpStat(n)[2]) ELSE -1

FpReadUpTo(content, size) == SubSeq(content, 1, IF size < Len(content) THEN size ELSE Len(content))

read_file(p) ==                             \* first the size, then fopen() and fread()
  /\ FpBegin("read", p)
  /\ fpWork' = [fpWork EXCEPT !.size = get_file_size(p)]
  /\ IF get_file_size(p) > 0 THEN fpPc' = "fread" /\ UNCHANGED fpRet ELSE FpDone(0)
  /\ UNCHANGED <<fpFrames, fpOut, fpFaults>>

FpFread ==
  LET x   == FpStat(fpCall.path)
      all == IF FpIsFile(x) THEN FpReadUpTo(x[2], fpWork.size) ELSE << >>
  IN /\ fpPc = "fread" /\ FpDone(0)
     /\ \E k \in 0..Len(all) :                \* nothing, when fopen() fails
          /\ fpOut' = [fpOut EXCEPT !.content = SubSeq(all, 1, k)]
          /\ IF k = Len(all) THEN UNCHANGED fpFaults ELSE FpFault
     /\ UNCHANGED <<fpFs, fpCall, fpFrames, fpWork, fpHist>>

FpOther(n) ==        \* somebody else makes a file, makes it longer, or removes what has nothing below
  /\ fpPc \notin {"idle", "done"} /\ fpOthers < FpMaxOthers
  /\ FpIn(n) /\ FpNames(n) = {}
  /\ \/ fpFs[n] # FpNone /\ fpFs' = [fpFs EXCEPT ![n] = FpNone]
     \/ \E x \in FpByte : /\ fpFs[n] = FpNone \/ FpIsFile(fpFs[n])
                          /\ fpFs' = [fpFs EXCEPT ![n] = FpFile(IF FpIsFile(@) THEN Append(@[2], x) ELSE <<x>>)]
  /\ fpOthers' = fpOthers + 1
  /\ UNCHANGED <<fpCall, fpPc, fpFrames, fpWork, fpOut, fpRet, fpBefore, fpFaults>>

FpNext ==
  \/ \E p \in FpPaths :
       \/ mkdir_recursive(p)
       \/ LET n == FpPlace(p) IN
            \/ rmdir_recursive(n) \/ walk_dir(n) \/ rm_file(n) \/ read_file(n)
            \/ \E append \in BOOLEAN : write_file(n, append)
            \/ \E op \in {"rmdir", "walk", "rm", "read"} : FpBeginFails(op, n)
  \/ \E n \in FpNode : FpVisit(n) \/ FpVisitFails(n) \/ FpOther(n)
  \/ \E gone \in BOOLEAN : FpLeave(gone)
  \/ FpReaddirFails \/ FpMkdir \/ FpUnlink \/ FpFwrite \/ FpFclose \/ FpFread

FpSpec == FpInit /\ [][FpNext]_fpVars

-----------------------------------------------------------------------------
FpBelow(p) == {n \in FpNode : IsPrefix(p, n)}
FpWas(p)   == IF fpBefore[p] = FpLink THEN fpBefore[FpTarget] ELSE fpBefore[p]
FpEnds(ops) == fpPc = "done" /\ fpCall.op \in ops
FpAlone    == fpOthers = 0 /\ fpFaults = 0

(***************************************************************************)
(* rmdir_recursive() and rm_file() say 0 only if it is gone, whatever      *)
(* others put into the directory meanwhile and whatever failed; but when   *)
(* the very stat() of exist() fails they say 0 and have done nothing (line *)
(* 70 does not say that).                                                  *)
(***************************************************************************)
FpGoneOrUnseen ==
  FpEnds({"rmdir", "rm"}) /\ fpRet = 0 =>
    FpStat(fpCall.path) = FpNone \/ (fpFaults > 0 /\ fpFs = fpBefore)

(***************************************************************************)
(* Left alone, it removes a tree of any shape, if there is no link in it,  *)
(* and nothing else.  (A link that leads nowhere is left and makes the     *)
(* call fail; one to a directory is entered, lines 322-323, and what it    *)
(* leads to is emptied.)                                                   *)
(***************************************************************************)
FpRemovesTree ==
  FpEnds({"rmdir"}) /\ FpAlone /\ (\A n \in FpBelow(fpCall.path) : fpBefore[n] # FpLink) =>
    /\ fpRet = 0 <=> ~FpIsFile(FpWas(fpCall.path))
    /\ \A n \in FpNode :
         fpFs[n] = IF n \in FpBelow(fpCall.path) /\ fpRet = 0 THEN FpNone ELSE fpBefore[n]

(***************************************************************************)
(* mkdir_recursive() says 0 only if the whole way is there (its last part  *)
(* may be a file, or a link that leads nowhere), and -1 only if something  *)
(* in the way is no directory or a call failed.  It removes nothing.       *)
(***************************************************************************)
FpMadeWay ==
  FpEnds({"mkdir"}) /\ fpOthers = 0 =>
    LET p   == fpCall.path
        end == FpPlace(p)
    IN /\ \A n \in FpNode : fpBefore[n] # FpNone => fpFs[n] = fpBefore[n]
       /\ fpRet = 0 => FpIn(end) /\ fpFs[end] # FpNone
       /\ fpRet = -1 /\ fpFaults = 0 => \E i \in 1..Len(p) - 1 : fpFs[FpResolve(SubSeq(p, 1, i))] # FpDir

(***************************************************************************)
(* write_file() changes no other file. The file has what was to be         *)
(* written, after what it had when that was to be kept, and the result is  *)
(* 0; unless fopen() failed, and all is as it was, or a later call failed, *)
(* and it has only a beginning. The result may then be 0 too: fclose() is  *)
(* not looked at (line 353), whatever line 98 says of 0. A file that is    *)
(* written over has lost its old content.                                  *)
(***************************************************************************)
FpOld ==
  LET was == fpBefore[fpCall.path]
  IN  FpKept(fpCall.op = "append", IF FpIsFile(was) THEN was[2] ELSE << >>)

FpHas(k) == fpFs = [fpBefore EXCEPT ![fpCall.path] = FpFile(FpOld \o SubSeq(FpNew, 1, k))]

FpWritten ==
  FpEnds({"write", "append"}) /\ fpOthers = 0 =>
    \/ fpRet = -1 /\ fpFs = fpBefore
    \/ fpRet = 0 /\ FpHas(Len(FpNew))
    \/ fpFaults > 0 /\ \E k \in 0..Len(FpNew) : FpHas(k)

(***************************************************************************)
(* read_file() never gives more than the size it found, nor anything the   *)
(* file did not have, whatever is done to the file between stat() and      *)
(* fread(), and left alone it gives all of it, or a beginning if a call    *)
(* fails.                                                                  *)
(***************************************************************************)
FpReadHonest ==
  FpEnds({"read"}) =>
    /\ Len(fpOut.content) <= fpWork.size \/ fpOut.content = << >>
    /\ fpOthers = 0 =>
         LET was == IF FpIsFile(FpWas(fpCall.path)) THEN FpWas(fpCall.path)[2] ELSE << >>
         IN  \/ fpOut.content = was
             \/ fpFaults > 0 /\ \E k \in 0..Len(was) : fpOut.content = SubSeq(was, 1, k)

(***************************************************************************)
(* walk_dir(), left alone, gives every entry once, as a directory or a     *)
(* file, but for links that lead nowhere.  When a call fails (and the      *)
(* result may be 0 all the same) entries are missing, or a directory is    *)
(* given as a file; a directory it gives is one, and nothing is given that *)
(* is not there, or twice.                                                 *)
(***************************************************************************)
FpListed(names) ==
  LET there == {n \in names : FpThere(n)}
  IN /\ fpOut.dirs \cap fpOut.files = {} /\ fpOut.dirs \cup fpOut.files \subseteq there
     /\ \A n \in fpOut.dirs : FpStat(n) = FpDir
     /\ fpFaults = 0 => /\ there \subseteq fpOut.dirs \cup fpOut.files
                        /\ \A n \in fpOut.files : FpStat(n) # FpDir

FpWalksAll ==
  FpEnds({"walk"}) /\ fpOthers = 0 /\ fpRet = 0 => FpListed(FpNames(FpFollow(fpCall.path)))

(***************************************************************************)
(* What every call reports is so: what the directory or the file is        *)
(* afterwards, or was when it was read.                                    *)
(***************************************************************************)
FpHonest ==
  FpGoneOrUnseen /\ FpRemovesTree /\ FpMadeWay /\ FpWritten /\ FpReadHonest /\ FpWalksAll
=============================================================================
