----------------------------- MODULE CountDump -----------------------------
(***************************************************************************)
(* chef::multi_tag_counter and chef::multi_tag_count_dumper (src/include/  *)
(* chef_base/chef_count_dump.hpp): counters by tag, and a thread that      *)
(* writes all of them to a file from time to time and once more when the   *)
(* dumper is destroyed.                                                    *)
(*                                                                         *)
(* A count is the set of the calls that it counts.  A call of CdCall is    *)
(* made once.  Reading a counter and writing it back are two steps unless  *)
(* the counter is atomic; the mutex is the one of the MUTEX type.  The     *)
(* process may crash, a write may fail or be cut short, and then the file  *)
(* system keeps what has been written.                                     *)
(***************************************************************************)
EXTENDS Integers, Sequences, SequencesExt

CONSTANTS
  CdTags,        \* the tags, in the order of the map
  CdCall,
  CdKind,        \* "count": increment, decrement, add_count, del_count;
                 \* "set": set_count; "add": add_tag; "del": del_tag
  CdTagOf,       \* the tag of each call
  CdThreadOf,    \* the thread that makes it
  CdMaxDumps,    \* bound: the dumps of the dumping thread
  CdMaxFaults    \* bound: the writes that fail

CdTag == Range(CdTags)

ASSUME CdAssumption ==
  /\ CdTags \in Seq(CdTag)
  /\ "dumper" \notin CdCall /\ "nobody" \notin CdCall
  /\ CdKind \in [CdCall -> {"count", "set", "add", "del"}]
  /\ CdTagOf \in [CdCall -> CdTag]
  /\ CdMaxDumps \in Nat /\ CdMaxFaults \in Nat

VARIABLES
  cdType,      \* type_ of the counters: "atomic" or "mutex"
  cdStyle,     \* type_ of the dumper: "overwrite" or "append"
  cdCount,     \* tag2count_ or tag2atomic_count_: a function on the tags present
  cdLock,      \* who holds mutex_: a call, "dumper" or "nobody"
  cdAt,        \* where each call is
  cdRead,      \* the value a call has read
  cdPc,        \* where dump2disk() is, or the dumping thread
  cdBy,        \* who dumps: "nobody" yet, the "thread", or the "owner" after the join
  cdSnap,      \* tag2count, the copy made so far
  cdPos,       \* how far it is
  cdTmp,       \* the temporary file: a sequence of at most one dump
  cdFile,      \* the file: its dumps, each with its counts and whether it is whole
  cdDumps, cdFaults,  \* how often the thread has dumped, and a write has failed
  cdExit,      \* exit_flag_: whether the destructor has been called
  cdCrashed,
  cdDone,      \* history: the calls counted since the tag was set or added
  cdDoneAtExit \* history: cdDone when the destructor was called

cdCounters == <<cdCount, cdAt, cdRead, cdDone>>
cdFiles    == <<cdTmp, cdFile, cdFaults>>
cdFixed    == <<cdType, cdStyle>>
cdVars     == <<cdFixed, cdCounters, cdLock, cdPc, cdBy, cdSnap, cdPos, cdFiles,
                cdDumps, cdExit, cdCrashed, cdDoneAtExit>>

CdNone == [g \in {} |-> {}]

CdInit ==      \* the tags of the atomic type are added before any count
  /\ cdType \in {"atomic", "mutex"} /\ cdStyle \in {"overwrite", "append"}
  /\ cdCount = IF cdType = "atomic" THEN [g \in CdTag |-> {}] ELSE CdNone
  /\ cdLock = "nobody"
  /\ cdAt = [c \in CdCall |-> "idle"] /\ cdRead = [c \in CdCall |-> {}]
  /\ cdPc = "none" /\ cdBy = "nobody" /\ cdSnap = CdNone /\ cdPos = 1
  /\ cdTmp = << >> /\ cdFile = << >> /\ cdDumps = 0 /\ cdFaults = 0
  /\ cdExit = FALSE /\ cdCrashed = FALSE
  /\ cdDone = [g \in CdTag |-> {}] /\ cdDoneAtExit = cdDone

CdValue(g) == IF g \in DOMAIN cdCount THEN cdCount[g] ELSE {}
CdWith(g, S) == [h \in DOMAIN cdCount \cup {g} |-> IF h = g THEN S ELSE cdCount[h]]
CdWithout(g) == [h \in DOMAIN cdCount \ {g} |-> cdCount[h]]

(***************************************************************************)
(* LOCK_IF_NEEDED and UNLOCK_IF_NEEDED.                                    *)
(***************************************************************************)
CdLocksAtomic == cdType = "atomic"    \* deviation: the wrong type locks
CdLocks       == cdType = "mutex"

CdTake(who) == IF CdLocks THEN cdLock = "nobody" /\ cdLock' = who ELSE UNCHANGED cdLock
CdGive      == cdLock' = IF CdLocks THEN "nobody" ELSE cdLock

(***************************************************************************)
(* The operations of the counters.  A thread makes one call at a time.     *)
(***************************************************************************)
CdFree(c) == cdAt[c] = "idle" /\ \A d \in CdCall : CdThreadOf[d] = CdThreadOf[c] => cdAt[d] # "read"
CdGoes(c, a) == cdAt' = [cdAt EXCEPT ![c] = a]
CdNothingElse == UNCHANGED <<cdFixed, cdPc, cdBy, cdSnap, cdPos, cdFiles, cdDumps,
                           cdExit, cdCrashed, cdDoneAtExit>>

AtomicCall(c) ==     \* a tag that does not exist is refused; tags are not changed
  LET g == CdTagOf[c] IN
  /\ cdType = "atomic" /\ CdFree(c) /\ CdKind[c] \in {"count", "set"}
  /\ g \in DOMAIN cdCount
  /\ cdCount' = CdWith(g, IF CdKind[c] = "set" THEN {c} ELSE cdCount[g] \cup {c})
  /\ cdDone' = [cdDone EXCEPT ![g] = cdCount'[g]]
  /\ CdGoes(c, "done")
  /\ UNCHANGED <<cdLock, cdRead>> /\ CdNothingElse

CountReads(c) ==
  /\ cdType = "mutex" /\ CdFree(c) /\ CdKind[c] = "count"
  /\ CdTake(c)
  /\ cdRead' = [cdRead EXCEPT ![c] = CdValue(CdTagOf[c])]
  /\ CdGoes(c, "read")
  /\ UNCHANGED <<cdCount, cdDone>> /\ CdNothingElse

CountWrites(c) ==
  LET g == CdTagOf[c] IN
  /\ cdAt[c] = "read"
  /\ cdCount' = CdWith(g, cdRead[c] \cup {c})
  /\ cdDone' = [cdDone EXCEPT ![g] = @ \cup {c}]
  /\ CdGive /\ CdGoes(c, "done")
  /\ UNCHANGED cdRead /\ CdNothingElse

SetTag(c) ==         \* set_count, add_tag, del_tag: the old value does not matter
  LET g == CdTagOf[c]
      new == IF CdKind[c] = "set" THEN {c} ELSE {}
  IN
  /\ cdType = "mutex" /\ CdFree(c) /\ CdKind[c] # "count"
  /\ CdLocks => cdLock = "nobody"
  /\ cdCount' = IF CdKind[c] = "del" THEN CdWithout(g) ELSE CdWith(g, new)
  /\ cdDone' = [cdDone EXCEPT ![g] = new]
  /\ CdGoes(c, "done")
  /\ UNCHANGED <<cdLock, cdRead>> /\ CdNothingElse

(***************************************************************************)
(* dump2disk(), of the dumping thread or of the destructor: copy the       *)
(* counters one by one, write the copy, and for OVERWRITE rename the       *)
(* temporary file.  No result is looked at.                                *)
(***************************************************************************)
CdDumping(from, to) == cdPc = from /\ cdPc' = to
CdSame == UNCHANGED <<cdFixed, cdCounters, cdBy, cdExit, cdCrashed, cdDoneAtExit>>
CdAfterDump == IF cdBy = "owner" THEN "ended" ELSE "sleep"

CopyBegins ==
  /\ CdDumping("lock", "copy")
  /\ CdTake("dumper")
  /\ cdSnap' = CdNone /\ cdPos' = 1
  /\ CdSame /\ UNCHANGED <<cdFiles, cdDumps>>

CopyOne ==
  LET g == CdTags[cdPos] IN
  /\ cdPos <= Len(CdTags) /\ CdDumping("copy", "copy")
  /\ cdSnap' = IF g \in DOMAIN cdCount
               THEN [h \in DOMAIN cdSnap \cup {g} |-> IF h = g THEN cdCount[g] ELSE cdSnap[h]]
               ELSE cdSnap
  /\ cdPos' = cdPos + 1
  /\ CdSame /\ UNCHANGED <<cdLock, cdFiles, cdDumps>>

CopyEnds ==
  /\ cdPos > Len(CdTags) /\ CdDumping("copy", "write")
  /\ CdGive
  /\ CdSame /\ UNCHANGED <<cdSnap, cdPos, cdFiles, cdDumps>>

CdPartial  == [whole |-> FALSE, counts |-> CdNone]
CdOpened   == IF cdStyle = "append" THEN Append(cdFile, CdPartial) ELSE cdFile

WriteOpens ==
  /\ CdDumping("write", "fill")
  /\ cdFile' = CdOpened
  /\ cdTmp' = IF cdStyle = "append" THEN cdTmp ELSE <<CdPartial>>
  /\ CdSame /\ UNCHANGED <<cdLock, cdSnap, cdPos, cdFaults, cdDumps>>

CdFilled(f) == SubSeq(f, 1, Len(f) - 1) \o <<[whole |-> TRUE, counts |-> cdSnap]>>

WriteFills ==
  /\ CdDumping("fill", IF cdStyle = "append" THEN CdAfterDump ELSE "rename")
  /\ cdFile' = IF cdStyle = "append" THEN CdFilled(cdFile) ELSE cdFile
  /\ cdTmp' = IF cdStyle = "append" THEN cdTmp ELSE CdFilled(cdTmp)
  /\ CdSame /\ UNCHANGED <<cdLock, cdSnap, cdPos, cdFaults, cdDumps>>

WriteFails ==        \* the file cannot be opened, or the text is cut short
  /\ cdFaults < CdMaxFaults /\ cdPc \in {"write", "fill"}
  /\ cdPc' = IF cdStyle = "append" THEN CdAfterDump ELSE "rename"
  /\ cdFaults' = cdFaults + 1
  /\ CdSame /\ UNCHANGED <<cdLock, cdSnap, cdPos, cdTmp, cdFile, cdDumps>>

CdRename ==
  /\ CdDumping("rename", CdAfterDump)
  /\ cdFile' = IF cdTmp = << >> THEN cdFile ELSE cdTmp
  /\ cdTmp' = << >>
  /\ CdSame /\ UNCHANGED <<cdLock, cdSnap, cdPos, cdFaults, cdDumps>>

DumpStep == \/ CopyBegins \/ CopyOne \/ CopyEnds
            \/ WriteOpens \/ WriteFills \/ WriteFails \/ CdRename

(***************************************************************************)
(* start(), run_in_thread() and the destructor.                            *)
(***************************************************************************)
CdStart ==
  /\ cdPc = "none" /\ ~cdExit
  /\ cdPc' = "check" /\ cdBy' = "thread"
  /\ UNCHANGED <<cdFixed, cdCounters, cdLock, cdSnap, cdPos, cdFiles, cdDumps, cdExit, cdCrashed, cdDoneAtExit>>

CdLeaves == cdExit

LoopTest ==
  /\ CdDumping("check", IF CdLeaves THEN "joinable" ELSE "lock")
  /\ CdLeaves \/ cdDumps < CdMaxDumps
  /\ cdDumps' = IF CdLeaves THEN cdDumps ELSE cdDumps + 1
  /\ CdSame /\ UNCHANGED <<cdLock, cdSnap, cdPos, cdFiles>>

SleepOver == CdDumping("sleep", "check") /\ CdSame /\ UNCHANGED <<cdLock, cdSnap, cdPos, cdFiles, cdDumps>>

CdDestroy ==
  /\ ~cdExit /\ cdExit' = TRUE
  /\ cdDoneAtExit' = cdDone
  /\ cdPc' = IF cdPc = "none" THEN "ended" ELSE cdPc
  /\ UNCHANGED <<cdFixed, cdCounters, cdLock, cdBy, cdSnap, cdPos, cdFiles, cdDumps, cdCrashed>>

CdStaleDump == "write"    \* deviation: the copy made last is written again
CdLastDump  == "lock"

CdJoin ==
  /\ cdExit /\ CdDumping("joinable", CdLastDump)
  /\ cdBy' = "owner"
  /\ UNCHANGED <<cdFixed, cdCounters, cdLock, cdSnap, cdPos, cdFiles, cdDumps, cdExit, cdCrashed, cdDoneAtExit>>

CdCrash ==
  /\ cdCrashed' = TRUE
  /\ UNCHANGED <<cdFixed, cdCounters, cdLock, cdPc, cdBy, cdSnap, cdPos, cdFiles, cdDumps, cdExit, cdDoneAtExit>>

CdDumperStep == ~cdCrashed /\ (DumpStep \/ LoopTest \/ SleepOver \/ CdJoin)

CdNext ==
  \/ ~cdCrashed /\ \E c \in CdCall : AtomicCall(c) \/ CountReads(c) \/ CountWrites(c) \/ SetTag(c)
  \/ CdDumperStep
  \/ ~cdCrashed /\ (CdStart \/ CdDestroy \/ CdCrash)

CdSpec == CdInit /\ [][CdNext]_cdVars

(***************************************************************************)
(* The dumping thread and a counting call go on; a free mutex is given to  *)
(* each that asks for it in turn (the calls are finitely many).            *)
(***************************************************************************)
CdFairSpec == /\ CdSpec
              /\ WF_cdVars(CdDumperStep)
              /\ \A c \in CdCall : WF_cdVars(~cdCrashed /\ CountWrites(c))

-----------------------------------------------------------------------------
(***************************************************************************)
(* Types, and mutex_ is held by a call between its two steps or by the     *)
(* dumper while it copies.                                                 *)
(***************************************************************************)
CdTypeOK ==
  /\ DOMAIN cdCount \subseteq CdTag
  /\ \A g \in DOMAIN cdCount : cdCount[g] \subseteq CdCall
  /\ cdAt \in [CdCall -> {"idle", "read", "done"}]
  /\ cdPc \in {"none", "check", "lock", "copy", "write", "fill", "rename", "sleep", "joinable", "ended"}
  /\ cdBy \in {"nobody", "thread", "owner"}
  /\ Len(cdTmp) <= 1 /\ (cdStyle = "overwrite" => Len(cdFile) <= 1)
  /\ cdDumps \in 0..CdMaxDumps /\ cdFaults \in 0..CdMaxFaults
  /\ cdLock = "dumper" => cdPc = "copy"
  /\ cdLock \in CdCall => cdAt[cdLock] = "read"

(***************************************************************************)
(* No count is lost and none is made twice, whatever other threads count   *)
(* and whatever is dumped meanwhile.                                       *)
(***************************************************************************)
CdNoLostCount ==
  \A g \in CdTag : g \in DOMAIN cdCount => cdCount[g] = cdDone[g]

(***************************************************************************)
(* With the mutex a dump is the counters of one moment; atomic counters    *)
(* make no such promise.                                                   *)
(***************************************************************************)
CdDumpIsCut ==
  cdType = "mutex" /\ cdPc = "copy" /\ cdPos > Len(CdTags) => cdSnap = cdCount

(***************************************************************************)
(* OVERWRITE: as long as no write has failed the file holds a whole dump,  *)
(* also after a crash.                                                     *)
(***************************************************************************)
CdFileWhole ==
  cdStyle = "overwrite" /\ cdFaults = 0 => \A i \in DOMAIN cdFile : cdFile[i].whole

(***************************************************************************)
(* The destructor of a dumper that was started leaves a file that has      *)
(* everything that was counted before it was called, up to tags that are   *)
(* set or removed, and unless a write fails.                               *)
(***************************************************************************)
CdOnlyCounted(g) == \A c \in CdCall : CdTagOf[c] = g => CdKind[c] = "count"

CdLastDumpComplete ==
  cdPc = "ended" /\ cdBy = "owner" /\ cdFaults = 0 =>
    /\ cdFile # << >>
    /\ \A g \in CdTag : CdOnlyCounted(g) /\ cdDoneAtExit[g] # {} =>
         g \in DOMAIN Last(cdFile).counts /\ cdDoneAtExit[g] \subseteq Last(cdFile).counts[g]

(***************************************************************************)
(* The destructor returns: the thread sees exit_flag_ after its sleep.     *)
(***************************************************************************)
CdDtorReturns == []<>(cdExit => cdPc = "ended" \/ cdCrashed)

(***************************************************************************)
(* Counting and copying do not disturb each other.                         *)
(***************************************************************************)
CdCountsKept == CdTypeOK /\ CdNoLostCount /\ CdDumpIsCut

(***************************************************************************)
(* What is on the disk can be relied on: after a crash, and after the      *)
(* destructor.                                                             *)
(***************************************************************************)
CdDumpsKept == CdFileWhole /\ CdLastDumpComplete
=============================================================================
