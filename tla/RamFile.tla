------------------------------ MODULE RamFile -------------------------------
(***************************************************************************)
(* A regular file of fs/ramfs.c: the bytes and the capacity behind an      *)
(* inode, and the positions and flags of the open files on it, with the    *)
(* checks of vfs_read, vfs_write and vfs_lseek.  The calls run with        *)
(* interrupts off and none sleeps, so each is one step.                    *)
(***************************************************************************)
EXTENDS Integers, Sequences, FiniteSets, FiniteSetsExt

CONSTANTS
  File,      \* open files on the inode; files and inode live as long as the run
  HEAP,      \* the largest block that kmalloc can give
  WORD,      \* 2^32, the range of size_t; off_t is wider
  MAX_POS,   \* bound on the positions that lseek is asked for
  COUNTS,    \* counts of the reads and writes
  SIZES,     \* arguments of truncate: words, the upper half of them negative
  OFFSETS,   \* arguments of lseek: likewise
  GROW,      \* added to twice the capacity, 4096 in the code
  Byte,      \* what is written
  Flags      \* of open and F_SETFL: sets of "r", "w", "rw" and "append", "other"

ASSUME RamFileConstants ==
  /\ {HEAP, WORD, MAX_POS, GROW} \subseteq Nat \ {0}
  /\ 2 * HEAP + GROW < WORD /\ HEAP <= MAX_POS
  /\ {COUNTS, SIZES, OFFSETS} \subseteq SUBSET (0 .. WORD - 1)
  /\ Byte \subseteq Nat \ {0}
  /\ \A fl \in Flags : Cardinality(fl \cap {"r", "w", "rw"}) = 1

VARIABLES
  data,      \* ri->data: as long as ri->capacity
  i_size,
  f_pos,
  f_flags,
  got,       \* what the read returned, if the latest call was one
  high,      \* history: the largest size since the file was last empty
  cut        \* history: an end or a size that does not fit in size_t

vars == <<data, i_size, f_pos, f_flags, got, high, cut>>

capacity == Len(data)

\* (off_t)(s32) of an argument.
signed(a) == IF 2 * a < WORD THEN a ELSE a - WORD

Init ==
  /\ data = <<>>
  /\ i_size = 0
  /\ f_pos = [f \in File |-> 0]
  /\ f_flags \in [File -> Flags]
  /\ got = <<>>
  /\ high = 0
  /\ cut = {}

-----------------------------------------------------------------------------
\* Faulty: the new bytes keep what the heap had there.
grown_dirty(n) == [k \in 1 .. n |-> IF k <= capacity THEN data[k] ELSE Max(Byte)]

\* krealloc to n bytes with the new ones cleared.
grown(n) == [k \in 1 .. n |-> IF k <= capacity THEN data[k] ELSE 0]

\* O_RDONLY is zero: with any other flag set the first test fails.
may_read(f) == f_flags[f] = {"r"} \/ "rw" \in f_flags[f]
may_write(f) == f_flags[f] # {"r"}

\* vfs_read and ramfs_read.
ramfs_read(f, count) ==
  LET pos == f_pos[f]
      n   == IF pos >= i_size THEN 0 ELSE Min({count, i_size - pos})
  IN  /\ cut = {} /\ may_read(f)
      /\ got' = IF capacity = 0 THEN <<>> ELSE SubSeq(data, pos + 1, pos + n)
      /\ f_pos' = [f_pos EXCEPT ![f] = IF capacity = 0 THEN @ ELSE @ + n]
      /\ UNCHANGED <<data, i_size, f_flags, high, cut>>

start(f) == IF "append" \in f_flags[f] THEN i_size ELSE f_pos[f]

\* vfs_write and ramfs_write, of count bytes b.  The end of the write is cut to
\* size_t where it is compared with the capacity, and so is the place in memory:
\* from 2^32 on a write lands near the start of the file, and i_size becomes
\* larger than what is allocated.  The file is not followed further then.
ramfs_write(f, count, b) ==
  LET pos    == start(f)
      end    == pos + count
      at     == pos % WORD
      newcap == Max({end, capacity * 2 + GROW}) % WORD
      grows  == end % WORD > capacity
      room   == IF grows THEN grown(newcap) ELSE data
  IN  /\ cut = {} /\ may_write(f)
      /\ grows => newcap <= HEAP
      /\ data' = [k \in 1 .. Len(room) |-> IF k \in at + 1 .. at + count THEN b ELSE room[k]]
      /\ f_pos' = [f_pos EXCEPT ![f] = end]
      /\ i_size' = Max({i_size, end})
      /\ high' = Max({high, end})
      /\ cut' = IF end >= WORD THEN {end} ELSE {}
      /\ got' = <<>>
      /\ UNCHANGED f_flags

\* vfs_write when krealloc fails: the position of an appending file has moved.
ramfs_write_nomem(f, count) ==
  /\ cut = {} /\ may_write(f) /\ (start(f) + count) % WORD > capacity
  /\ f_pos' = [f_pos EXCEPT ![f] = start(f)]
  /\ got' = <<>>
  /\ UNCHANGED <<data, i_size, f_flags, high, cut>>

\* ramfs_truncate, which may find no memory for a longer file.  A shorter one
\* keeps the bytes cut off, unless it is empty.  A negative size is a huge
\* size_t: krealloc fails, or its rounding wraps (Kheap) and it gives a block
\* without room, from which memset clears memory that is not the file's.
ramfs_truncate(n) ==
  LET size == n % WORD
  IN  /\ cut = {}
      /\ \/ /\ size > capacity => size <= HEAP
            /\ data' = IF n = 0 THEN <<>> ELSE IF size > capacity THEN grown(size) ELSE data
            /\ i_size' = n
            /\ high' = IF n = 0 THEN 0 ELSE Max({high, n})
            /\ UNCHANGED cut
         \/ size > capacity /\ UNCHANGED <<data, i_size, high, cut>>
         \/ n < 0 /\ cut' = {n} /\ UNCHANGED <<data, i_size, high>>
      /\ got' = <<>>
      /\ UNCHANGED <<f_pos, f_flags>>

\* vfs_lseek, to a position counted from the start, from here or from the end.
vfs_lseek(f, from, off) ==
  LET base == CASE from = "SEEK_SET" -> 0
                [] from = "SEEK_CUR" -> f_pos[f]
                [] from = "SEEK_END" -> i_size
  IN  /\ cut = {} /\ base + off <= MAX_POS
      /\ f_pos' = [f_pos EXCEPT ![f] = Max({base + off, 0})]
      /\ got' = <<>>
      /\ UNCHANGED <<data, i_size, f_flags, high, cut>>

\* fcntl's F_SETFL stores its argument, whatever it is.
fcntl_setfl(f, fl) ==
  /\ cut = {}
  /\ f_flags' = [f_flags EXCEPT ![f] = fl]
  /\ got' = <<>>
  /\ UNCHANGED <<data, i_size, f_pos, high, cut>>

Next ==
  \/ \E f \in File, n \in COUNTS :
       \/ ramfs_read(f, n)
       \/ \E b \in Byte : ramfs_write(f, n, b)
       \/ ramfs_write_nomem(f, n)
  \/ \E n \in SIZES : ramfs_truncate(signed(n))
  \/ \E f \in File :
       \/ \E fl \in Flags : fcntl_setfl(f, fl)
       \/ \E from \in {"SEEK_SET", "SEEK_CUR", "SEEK_END"}, off \in OFFSETS :
            vfs_lseek(f, from, signed(off))

Spec == Init /\ [][Next]_vars

-----------------------------------------------------------------------------
(* Properties.                                                             *)

\* The size of the file never exceeds what is allocated for it, and positions
\* are not negative.
TypeOK ==
  cut = {} =>
    /\ data \in Seq(Byte \cup {0})
    /\ high <= capacity /\ capacity <= HEAP
    /\ high \in Nat /\ i_size \in 0 .. high
    /\ f_pos \in [File -> 0 .. MAX_POS]
    /\ f_flags \in [File -> Flags]
    /\ got \in Seq(Byte \cup {0})

\* The bytes of the file.
contents == IF cut = {} THEN SubSeq(data, 1, i_size) ELSE <<>>

Bytes == INSTANCE FileBytes WITH bytes <- contents, pos <- f_pos

\* Types are right, and the file is the sequence of bytes that FileBytes
\* promises: what writes from several open files, appends, seeks past the end,
\* truncations and failed calls leave is in place, and a hole reads as zero
\* where the file has not been longer before.  It is so until a write ends at
\* 2^32 or beyond, or truncate is given a negative size.
IsFile == []TypeOK /\ Bytes!Spec

=============================================================================
