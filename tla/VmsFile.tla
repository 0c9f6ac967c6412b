------------------------------- MODULE VmsFile -------------------------------
(***************************************************************************)
(* The file methods of the OpenVMS port, os_vms.c: vmsRead(), vmsWrite(),  *)
(* vmsTruncate(), vmsFileSize(), and the chunk size and the size hint of   *)
(* vmsFileControl().                                                       *)
(* sys$qiow moves whole blocks, so a range of bytes is moved in up to      *)
(* three parts: the end of a first block, whole blocks, the beginning of a *)
(* last one.  A file is the bytes of its allocated blocks; the file system *)
(* is external and knows no other end of file.                             *)
(*                                                                         *)
(* Byte k of a written buffer is k, so that a byte that is written to the  *)
(* wrong place, or not written over, shows.  The pager calls these methods *)
(* under its locks, so a call is one step; any of its transfers may fail.  *)
(***************************************************************************)
EXTENDS Integers, Sequences

CONSTANTS
  Block,               \* bytes of a block: SQLITE_DEFAULT_SECTOR_SIZE
  MaxByte,             \* bound: no write goes beyond this offset
  Crossing,            \* a write may begin or end within a block and cross one
  DefExt,              \* the default extension of the file, in blocks, or 0
  RmsExtend,           \* the extension of the process (JPI), or 0
  VolExtend            \* the extension of the volume

ConstantsOK ==
  /\ Block \in Nat /\ Block >= 2 /\ MaxByte \in Nat
  /\ Crossing \in BOOLEAN
  /\ DefExt \in Nat /\ RmsExtend \in Nat /\ VolExtend \in Nat

VARIABLES
  file,                \* the bytes of the allocated blocks
  szChunk, szHint,     \* of vmsFile, both used as counts of blocks
  want,                \* ghost: want[i], the byte written last at offset i
  rc,                  \* the result of the last call
  fault                \* ghost: a transfer of the last call failed

vars == <<file, szChunk, szHint, want, rc, fault>>

Offset == 0..(MaxByte - 1)
Unknown    == -1           \* nothing is known of this byte

Buffer(amt) == [k \in 1..amt |-> k]

Blocks(f) == Len(f) \div Block

(* n bytes of buffer b, after its first p, are moved to offset at of f.    *)
Move(f, at, b, p, n) ==
  [i \in 1..Len(f) |-> IF i \in (at + 1)..(at + n) THEN b[p + i - at] ELSE f[i]]

-----------------------------------------------------------------------------
(* vmsRead().                                                              *)

Least(a, b) == IF a <= b THEN a ELSE b

(* sys$qiow with IO$_READVBLK of n bytes at block vbn (from 1): what there *)
(* is of them, and no success where there is none.                         *)
ReadBlocks(f, vbn, n) ==
  LET first == (vbn - 1) * Block
  IN  SubSeq(f, first + 1, Least(first + n, Len(f)))

(* A call is going on: buf has been read, amt bytes are to come, the next  *)
(* from block vbn.                                                         *)
Reading(buf, amt, vbn, eof) == [buf |-> buf, amt |-> amt, vbn |-> vbn, eof |-> eof]

ReadHead(f, off, amt) ==
  LET vbn  == (off \div Block) + 1
      vpos == off % Block
      got  == ReadBlocks(f, vbn, Block)
      bcnt == Least(amt, Block - vpos)
  IN  IF vpos = 0 THEN Reading(<<>>, amt, vbn, FALSE)
      ELSE IF got = <<>> THEN Reading(<<>>, amt, vbn + 1, TRUE)
      ELSE Reading(SubSeq(got, vpos + 1, vpos + bcnt), amt - bcnt, vbn + 1, FALSE)

(* Mutant: the block number does not move on.                              *)
ReadMiddleStays(f, s) ==
  LET whole == s.amt - (s.amt % Block)
      got   == ReadBlocks(f, s.vbn, whole)
  IN  IF s.eof \/ s.amt < Block THEN s
      ELSE Reading(s.buf \o got, s.amt - Len(got), s.vbn, Len(got) < whole)

ReadMiddle(f, s) ==
  LET whole == s.amt - (s.amt % Block)
      got   == ReadBlocks(f, s.vbn, whole)
  IN  IF s.eof \/ s.amt < Block THEN s
      ELSE Reading(s.buf \o got, s.amt - Len(got), s.vbn + (Len(got) \div Block),
                   Len(got) < whole)

ReadTail(f, s) ==
  LET got == ReadBlocks(f, s.vbn, Block)
  IN  IF s.eof \/ s.amt = 0 THEN s
      ELSE IF got = <<>> THEN [s EXCEPT !.eof = TRUE]
      ELSE Reading(s.buf \o SubSeq(got, 1, s.amt), 0, s.vbn, FALSE)

(* The part of the buffer that was not read is zeroed.                     *)
ZeroFill(s) == s.buf \o [k \in 1..s.amt |-> 0]

(* The first transfer that fails: none, or that of one of the parts.  What *)
(* is in the buffer then is not said.                                      *)
Failing == {"none", "head", "middle", "tail"}

vmsRead(f, off, amt, failing) ==
  LET h == ReadHead(f, off, amt)
      m == ReadMiddle(f, h)
      s == ReadTail(f, m)
      failed == \/ failing = "head" /\ off % Block # 0
                \/ failing = "middle" /\ ~h.eof /\ h.amt >= Block
                \/ failing = "tail" /\ ~m.eof /\ m.amt > 0
  IN  IF failed THEN [rc |-> "SQLITE_IOERR_READ", buf |-> <<>>]
      ELSE IF s.eof THEN [rc |-> "SQLITE_IOERR_SHORT_READ", buf |-> ZeroFill(s)]
      ELSE [rc |-> "SQLITE_OK", buf |-> s.buf]

-----------------------------------------------------------------------------
(* vmsWrite().                                                             *)

(* Mutant: the last block of the range is not counted.                     *)
neededLess(off, amt) == (off \div Block) + (amt \div Block)

(* The blocks the file must have, by the block of the offset.              *)
needed(off, amt) == (off \div Block) + 1 + (amt \div Block) + 1

Highest(a, b) == IF a >= b THEN a ELSE b

(* The least multiple of e that is n or more.                              *)
RoundedUp(n, e) == ((n + e - 1) \div e) * e

(* fib$l_exsz: the blocks that are added.  The chunk size goes first, then *)
(* the default of the file.  That of the process is used as it is; the one *)
(* of the volume is a minimum (FIB$V_ALDEF).                               *)
exsz(n) ==
  IF szChunk > 0 THEN RoundedUp(n, szChunk)
  ELSE IF DefExt > 0 THEN RoundedUp(n, DefExt)
  ELSE Highest(IF RmsExtend > 0 THEN RmsExtend ELSE n, VolExtend)

(* The file is extended if it is too short; the hint is used once.         *)
Extended(f, off, amt) ==
  LET n == IF szHint > 0 THEN Highest(szHint, needed(off, amt)) ELSE needed(off, amt)
  IN  IF Blocks(f) >= n THEN f ELSE f \o [i \in 1..(exsz(n) * Block) |-> 0]

(* A call is going on: f is the file, amt bytes are to come from pBuf on,  *)
(* to block vbn; bcnt has been set, or is whatever was on the stack.       *)
Writing(f, amt, vbn, pBuf, bcnt, ok) ==
  [f |-> f, amt |-> amt, vbn |-> vbn, pBuf |-> pBuf, bcnt |-> bcnt, ok |-> ok]

InFile(f, vbn, n) == (vbn - 1) * Block + n <= Len(f)

(* The end of a first block, which is read and written back.  The test of  *)
(* bcnt leaves pBuf where it was.                                          *)
WriteHead(f, off, buf, stack) ==
  LET vbn  == (off \div Block) + 1
      vpos == off % Block
      bcnt == Least(Len(buf), Block - vpos)
  IN  IF vpos = 0 THEN Writing(f, Len(buf), vbn, 0, stack, TRUE)
      ELSE IF ~InFile(f, vbn, Block) THEN Writing(f, Len(buf), vbn, 0, stack, FALSE)
      ELSE Writing(Move(f, off, buf, 0, bcnt), Len(buf) - bcnt, vbn + 1,
                   IF bcnt <= 0 THEN bcnt ELSE 0, bcnt, TRUE)

(* Whole blocks.  pBuf and vbn move on only if bcnt is positive.           *)
WriteMiddle(s, buf) ==
  LET remainder == s.amt % Block
      whole     == s.amt - remainder
  IN  IF ~s.ok \/ s.amt < Block THEN s
      ELSE IF ~InFile(s.f, s.vbn, whole) THEN [s EXCEPT !.ok = FALSE]
      ELSE Writing(Move(s.f, (s.vbn - 1) * Block, buf, s.pBuf, whole), remainder,
                   IF s.bcnt > 0 THEN s.vbn + (s.amt \div Block) ELSE s.vbn,
                   IF s.bcnt > 0 THEN s.pBuf + whole ELSE s.pBuf, s.bcnt, TRUE)

(* The beginning of a last block, which is read and written back.          *)
WriteTail(s, buf) ==
  IF ~s.ok \/ s.amt = 0 THEN s
  ELSE IF ~InFile(s.f, s.vbn, Block) THEN [s EXCEPT !.ok = FALSE]
  ELSE [s EXCEPT !.f = Move(s.f, (s.vbn - 1) * Block, buf, s.pBuf, s.amt)]

(* The bytes of the range that has been written; when the call fails they  *)
(* may be anything.                                                        *)
Wanted(off, buf, ok) ==
  [i \in Offset |-> IF i \in off..(off + Len(buf) - 1)
                    THEN IF ok THEN buf[i - off + 1] ELSE Unknown
                    ELSE want[i]]

vmsWrite(off, buf, stack) ==
  /\ off + Len(buf) <= MaxByte
  /\ LET f == Extended(file, off, Len(buf))
         s == WriteTail(WriteMiddle(WriteHead(f, off, buf, stack), buf), buf)
     IN  /\ file' = s.f
         /\ want' = Wanted(off, buf, s.ok)
         /\ rc' = IF s.ok THEN "SQLITE_OK" ELSE "SQLITE_IOERR_WRITE"
  /\ szHint' = 0 /\ fault' = FALSE /\ UNCHANGED szChunk

(* A transfer fails: that of the size, the extension, or one of the parts. *)
WriteError(off, buf, stack) ==
  /\ off + Len(buf) <= MaxByte
  /\ \/ UNCHANGED <<file, szHint>>
     \/ /\ LET f == Extended(file, off, Len(buf))
                h == WriteHead(f, off, buf, stack)
            IN  file' \in {file, f, h.f, WriteMiddle(h, buf).f}
        /\ szHint' = 0
  /\ want' = Wanted(off, buf, FALSE)
  /\ rc' = "SQLITE_IOERR_WRITE" /\ fault' = TRUE /\ UNCHANGED szChunk

-----------------------------------------------------------------------------

(* Mutant: the block that is cut is not kept.                              *)
exvbnDown(n) == n \div Block

(* fib$l_exvbn: the last block that is kept.                               *)
exvbn(n) == (n \div Block) + (IF n % Block # 0 THEN 1 ELSE 0)

(* vmsTruncate() to n bytes.  Its failure is not reported.                 *)
vmsTruncate(n) ==
  /\ file' \in {file, SubSeq(file, 1, Least(exvbn(n) * Block, Len(file)))}
  /\ want' = [i \in Offset |-> IF i < n THEN want[i] ELSE Unknown]
  /\ rc' = "SQLITE_OK" /\ fault' = FALSE /\ UNCHANGED <<szChunk, szHint>>

(* vmsFileControl() of n bytes.  The chunk size is kept as it is given.    *)
vmsFileControl(op, n) ==
  /\ \/ op = "SQLITE_FCNTL_CHUNK_SIZE" /\ szChunk' = n /\ UNCHANGED szHint
     \/ op = "SQLITE_FCNTL_SIZE_HINT" /\ szHint' = (n \div Block) + 1 /\ UNCHANGED szChunk
  /\ rc' = "SQLITE_OK" /\ fault' = FALSE /\ UNCHANGED <<file, want>>

(* vmsFileSize(): the allocated blocks.                                    *)
vmsFileSize(f) == Blocks(f) * Block

Init ==
  /\ file = <<>> /\ szChunk = 0 /\ szHint = 0 /\ rc = "SQLITE_OK" /\ fault = FALSE
  /\ want = [i \in Offset |-> Unknown]

(* The ranges that are written: whole blocks, as of the database file; a   *)
(* range within a block, as of the fields of a journal header; or any, as  *)
(* of the page images of a journal.                                        *)
Written(off, amt) ==
  \/ Crossing
  \/ off % Block = 0 /\ amt % Block = 0
  \/ off \div Block = (off + amt - 1) \div Block

Next ==
  \/ \E off \in Offset, amt \in 1..MaxByte :
     \E stack \in IF Crossing THEN {0, 1} ELSE {0} :
        /\ Written(off, amt)
        /\ vmsWrite(off, Buffer(amt), stack) \/ WriteError(off, Buffer(amt), stack)
  \/ \E n \in 0..MaxByte : vmsTruncate(n)
  \/ \E n \in {0, MaxByte} : vmsFileControl("SQLITE_FCNTL_CHUNK_SIZE", n)
  \/ vmsFileControl("SQLITE_FCNTL_SIZE_HINT", MaxByte)

Spec == Init /\ [][Next]_vars

-----------------------------------------------------------------------------
(* Properties.                                                             *)

(* The file is whole blocks of bytes, hint and chunk size count blocks.    *)
TypeOK ==
  /\ Len(file) % Block = 0
  /\ \A i \in 1..Len(file) : file[i] \in 0..MaxByte
  /\ szChunk \in {0, MaxByte} /\ szHint \in 0..((MaxByte \div Block) + 1)
  /\ rc \in {"SQLITE_OK", "SQLITE_IOERR_WRITE"}

(* What vmsWrite() reported as written stays in the file, byte for byte,   *)
(* whatever is written beside it, however the file is extended or          *)
(* truncated, and whichever writes fail.                                   *)
FileHolds ==
  \A i \in Offset : want[i] # Unknown => i < Len(file) /\ file[i + 1] = want[i]

(* vmsRead() of any range returns the bytes of the file and, exactly where *)
(* the file ends, zeroes and SQLITE_IOERR_SHORT_READ; whichever transfer   *)
(* fails, what is there is not taken for the end of the file.              *)
ReadCorrect ==
  \A off \in Offset, amt \in 1..MaxByte, failing \in Failing :
     LET r == vmsRead(file, off, amt, failing)
     IN  \/ r.rc = "SQLITE_IOERR_READ" /\ failing # "none"
         \/ /\ r.buf = [k \in 1..amt |-> IF off + k <= Len(file) THEN file[off + k] ELSE 0]
            /\ r.rc = IF off + amt <= vmsFileSize(file) THEN "SQLITE_OK"
                      ELSE "SQLITE_IOERR_SHORT_READ"

(* vmsWrite() extends the file by what it needs, by its chunk size, by its *)
(* default or by that of the volume: it fails only if a transfer does, or  *)
(* where the extension is the RMS default of the process, which os_vms.c   *)
(* uses as it is (line 286) although it may be less than is needed.        *)
ExtendsEnough ==
  rc = "SQLITE_IOERR_WRITE" => fault \/ (szChunk = 0 /\ DefExt = 0 /\ RmsExtend > 0)
=============================================================================
