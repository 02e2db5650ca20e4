----------------------------- MODULE ByteBuffer -----------------------------
(***************************************************************************)
(* chef::basic_buffer (src/include/chef_base/chef_buffer.hpp): bytes        *)
(* between a read and a write index in an array that grows by doubling and *)
(* shrinks back.  bufQueue is what the user has put in and not taken out.  *)
(*                                                                         *)
(* The other buffer of an assignment is given by its readable bytes.  An   *)
(* empty array (init_capacity 0) is left out: reserve() would double 0 for *)
(* ever.  A search changes nothing and is left out.                        *)
(***************************************************************************)
EXTENDS Integers, Sequences, SequencesExt, FiniteSetsExt

CONSTANTS
  BufByte,
  BufSpace,      \* the bytes for which isspace() is true
  BufJunk,       \* what is in memory nobody has written
  BufInit,       \* init_capacity_
  BufShrink,     \* shrink_capacity_
  BufMaxLen,     \* bound: the bytes of one call
  BufMaxSize     \* bound: the bytes in the buffer

ASSUME BufAssumption ==
  /\ BufSpace \subseteq BufByte /\ BufJunk \notin BufByte
  /\ BufInit \in Nat \ {0} /\ BufShrink \in Nat
  /\ BufMaxLen \in Nat /\ BufMaxSize \in Nat

VARIABLES
  buf,           \* capacity_, read_index_, write_index_ and data_
  bufQueue       \* history

bufVars == <<buf, bufQueue>>

BufFresh(n)  == [i \in 0..n - 1 |-> BufJunk]
BufNew       == [cap |-> BufInit, read |-> 0, write |-> 0, data |-> BufFresh(BufInit)]
BufSize(b)   == b.write - b.read
BufBytes(b)  == [i \in 1..BufSize(b) |-> b.data[b.read + i - 1]]
BufStrings   == UNION {[1..n -> BufByte] : n \in 0..BufMaxLen}

BufBegin == buf = BufNew /\ bufQueue = << >>

\* memcpy() of the readable bytes to the start of a new array of n bytes, which replaces data_
BufMovedTo(b, n) ==
  [cap |-> n, read |-> 0, write |-> BufSize(b),
   data |-> [i \in 0..n - 1 |-> IF i < BufSize(b) THEN b.data[b.read + i] ELSE BufJunk]]

(* The loop that doubles the capacity until need_len is reached. *)
BufPower[k \in Nat]   == IF k = 0 THEN 1 ELSE 2 * BufPower[k - 1]
BufDoubled(cap, need) == Min({cap * BufPower[k] : k \in 0..need} \ 0..need - 1)

BufNotMoved(b) == [b EXCEPT !.read = 0, !.write = BufSize(b)]   \* deviation: the indices alone
BufPacked(b)   ==                                               \* memmove() in data_
  [b EXCEPT !.read = 0, !.write = BufSize(b),
            !.data = [i \in 0..b.cap - 1 |-> IF i < BufSize(b) THEN b.data[b.read + i] ELSE b.data[i]]]

BufReserved(b, len) ==
  IF b.cap - b.write >= len THEN b
  ELSE IF b.cap - b.write + b.read >= len THEN BufPacked(b)
  ELSE BufMovedTo(b, BufDoubled(b.cap, BufSize(b) + len))

BufWritten(b, s) ==  \* memcpy() to write_pos(), or the user's own bytes there, and the new index
  [b EXCEPT !.data = [i \in 0..b.cap - 1 |-> IF i \in b.write..b.write + Len(s) - 1
                                             THEN s[i - b.write + 1] ELSE b.data[i]],
            !.write = @ + Len(s)]

BufShrunk(b) == IF BufSize(b) < BufInit /\ b.cap > BufShrink THEN BufMovedTo(b, BufInit) ELSE b

BufAppend(s) ==
  /\ Len(bufQueue) + Len(s) <= BufMaxSize
  /\ buf' = BufWritten(BufReserved(buf, Len(s)), s)
  /\ bufQueue' = bufQueue \o s

BufReserveAndSeek(n, s) ==   \* reserve(n), at most n bytes at write_pos(), seek_write_pos()
  /\ Len(s) <= n /\ Len(bufQueue) + n <= BufMaxSize
  /\ buf' = BufWritten(BufReserved(buf, n), s)
  /\ bufQueue' = bufQueue \o s

BufErase(n) ==
  /\ n <= BufSize(buf)
  /\ buf' = BufShrunk([buf EXCEPT !.read = @ + n])
  /\ bufQueue' = SubSeq(bufQueue, n + 1, Len(bufQueue))

BufClear ==
  /\ buf' = IF buf.cap > BufShrink THEN BufNew ELSE [buf EXCEPT !.read = 0, !.write = 0]
  /\ bufQueue' = << >>

BufRollback(n) ==
  /\ n <= BufSize(buf)
  /\ buf' = [buf EXCEPT !.write = @ - n]
  /\ bufQueue' = SubSeq(bufQueue, 1, Len(bufQueue) - n)

BufNotSpaces(lo, hi) == {i \in lo..hi - 1 : buf.data[i] \notin BufSpace}

BufTrimLeft ==
  /\ buf' = [buf EXCEPT !.read = Min(BufNotSpaces(@, buf.write) \cup {buf.write})]
  /\ bufQueue' = SubSeq(bufQueue, Min({i \in DOMAIN bufQueue : bufQueue[i] \notin BufSpace}
                                      \cup {Len(bufQueue) + 1}), Len(bufQueue))

BufTrimRight ==
  /\ buf' = [buf EXCEPT !.write = 1 + Max(BufNotSpaces(buf.read, @) \cup {buf.read - 1})]
  /\ bufQueue' = SubSeq(bufQueue, 1, Max({i \in DOMAIN bufQueue : bufQueue[i] \notin BufSpace} \cup {0}))

BufAssign(s) ==      \* operator= from a buffer with the bytes s
  /\ Len(s) <= BufMaxSize
  /\ buf' = BufWritten(BufReserved([buf EXCEPT !.read = 0, !.write = 0], Len(s)), s)
  /\ bufQueue' = s

BufCopy ==           \* the copy of the buffer takes its place
  /\ buf' = BufWritten([BufNew EXCEPT !.cap = buf.cap, !.data = BufFresh(buf.cap)], BufBytes(buf))
  /\ UNCHANGED bufQueue

BufNext ==
  \/ \E s \in BufStrings : BufAppend(s) \/ BufAssign(s) \/ \E n \in 0..BufMaxLen : BufReserveAndSeek(n, s)
  \/ \E n \in 0..BufMaxSize : BufErase(n) \/ BufRollback(n)
  \/ BufClear \/ BufTrimLeft \/ BufTrimRight \/ BufCopy

BufSpec == BufBegin /\ [][BufNext]_bufVars

-----------------------------------------------------------------------------
(***************************************************************************)
(* The indices are inside the array, and the array has its capacity.       *)
(***************************************************************************)
BufTypeOK ==
  /\ buf.cap \in Nat \ {0}
  /\ 0 <= buf.read /\ buf.read <= buf.write /\ buf.write <= buf.cap
  /\ buf.data \in [0..buf.cap - 1 -> BufByte \cup {BufJunk}]

(***************************************************************************)
(* Line 6, a FIFO: through every move, growth and shrinking the readable   *)
(* bytes are what was put in and not taken out, in order; memory nobody    *)
(* has written is never read.                                              *)
(***************************************************************************)
BufIsQueue == BufBytes(buf) = bufQueue

(***************************************************************************)
(* Memory stays in proportion: no sequence of calls gets more than what    *)
(* the buffer is created with, or less than twice what it had to hold.     *)
(***************************************************************************)
BufBounded == buf.cap < 2 * BufMaxSize \/ buf.cap = BufInit

(***************************************************************************)
(* The buffer as its callers see it: a queue in bounded memory.            *)
(***************************************************************************)
BufSound == BufIsQueue /\ BufBounded
=============================================================================
