-------------------------------- MODULE Ata ---------------------------------
(***************************************************************************)
(* An ATA drive as a file, drivers/ata.c: reads and writes of any range,   *)
(* cut into sectors, where any transfer may end with an error or a         *)
(* time-out.  A call runs with interrupts off from its first sector to its *)
(* last: it is one step.                                                   *)
(***************************************************************************)
EXTENDS Integers, Sequences, FiniteSets, FiniteSetsExt

CONSTANTS
  SECTOR,    \* bytes of a sector, 512 in the code
  SECTORS,   \* size of the drive
  LBA28,     \* sectors that 28 bits can name
  COUNTS,    \* counts of the calls
  Byte       \* what is written; the drive is new and holds 0

ASSUME AtaConstants ==
  /\ {SECTOR, SECTORS, LBA28} \subseteq Nat \ {0}
  /\ COUNTS \subseteq Nat \ {0}
  /\ Byte \subseteq Nat \ {0}

VARIABLES
  disk,   \* sectors of bytes
  pos,    \* f_pos
  got,    \* what the latest read put in the caller's buffer
  call,   \* history: the latest call, and the byte of a write
  ret,    \* what the latest call returned, -1 for an error
  torn,   \* history: sectors of the latest write whose rest could not be read
  lost    \* history: sectors of the latest write that the drive did not store
          \* after it had taken the data

vars == <<disk, pos, got, call, ret, torn, lost>>

SIZE == SECTORS * SECTOR

Init ==
  /\ disk = [s \in 0 .. SECTORS - 1 |-> [o \in 0 .. SECTOR - 1 |-> 0]]
  /\ pos = 0
  /\ got = <<>>
  /\ call = <<"none", 0>>
  /\ ret = 0
  /\ torn = {} /\ lost = {}

-----------------------------------------------------------------------------
\* Faulty: sectors are counted from one.
ata_sector_from_one(lba) == (lba + 1) % LBA28

\* The sector that the task file registers name: bits 28 and up are not sent.
ata_sector(lba) == lba % LBA28

\* The turns of the loop for count bytes at p: position, sector, offset and
\* size of each chunk, by its number.
Turns(p, count) == ((p % SECTOR) + count + SECTOR - 1) \div SECTOR

\* Chunk k, k = 0 being the first: it begins at byte "at" of the request.
chunk(p, count, k) ==
  LET at  == IF k = 0 THEN 0 ELSE k * SECTOR - (p % SECTOR)
      off == (p + at) % SECTOR
  IN  [lba |-> (p + at) \div SECTOR, off |-> off,
       at |-> at, size |-> Min({SECTOR - off, count - at})]

\* The bytes moved when the first n turns succeed.
Moved(p, count, n) ==
  IF n = 0 THEN 0 ELSE LET c == chunk(p, count, n - 1) IN c.at + c.size

\* A call of n successful turns returns the bytes moved, or the error when
\* there are none; the position moves only if all turns succeed.
Ends(count, n) ==
  /\ ret' = IF n = 0 THEN -1 ELSE Moved(pos, count, n)
  /\ pos' = IF n = Turns(pos, count) THEN pos + count ELSE pos

\* The turns that may succeed before one fails, or all.
Successes(count) == 0 .. Turns(pos, count)

\* The drive refuses sectors it does not have: such requests are left out.
InDrive(count) == pos + count <= SIZE

ata_file_read(count) ==
  /\ InDrive(count)
  /\ \E n \in Successes(count) :
       /\ got' = [i \in 1 .. Moved(pos, count, n) |->
                    LET c == CHOOSE c \in {chunk(pos, count, k) : k \in 0 .. n - 1} :
                               i - 1 \in c.at .. c.at + c.size - 1
                    IN  disk[ata_sector(c.lba)][c.off + i - 1 - c.at]]
       /\ Ends(count, n)
       /\ call' = <<"read", 0>>
       /\ torn' = {} /\ lost' = {}
       /\ UNCHANGED disk

\* Faulty: the rest of the sector is cleared instead of read.
written_cleared(s, c, b, junk) ==
  [o \in 0 .. SECTOR - 1 |-> IF o \in c.off .. c.off + c.size - 1 THEN b ELSE 0]

\* Sector s after its chunk c is written.  When only a part is, the rest is
\* what was read before; if that read has failed, its result is not looked at
\* and the rest is whatever the buffer on the stack held.
written(s, c, b, junk) ==
  [o \in 0 .. SECTOR - 1 |->
     IF o \in c.off .. c.off + c.size - 1 THEN b
     ELSE IF junk = -1 THEN disk[s][o] ELSE junk]

\* The chunks that are part of a sector.
Partial(count) == {k \in 0 .. Turns(pos, count) - 1 : chunk(pos, count, k).size < SECTOR}

\* The sector of chunk k.
Sector(count, k) == ata_sector(chunk(pos, count, k).lba)

\* ata_write_sector looks at the status before the data words, and a sector may
\* be refused there; it does not after them, nor after the flush: what the drive
\* fails to store then, of the first n turns, counts as written.
ata_file_write(count, b) ==
  /\ InDrive(count)
  /\ \E n \in Successes(count), junk \in [Partial(count) -> {-1} \cup Byte] :
       \E unstored \in SUBSET (0 .. n - 1) :
         /\ disk' = [s \in 0 .. SECTORS - 1 |->
                       LET ks == {k \in (0 .. n - 1) \ unstored : Sector(count, k) = s}
                           k  == Max(ks)
                       IN  IF ks = {} THEN disk[s]
                           ELSE written(s, chunk(pos, count, k), b,
                                        IF k \in Partial(count) THEN junk[k] ELSE -1)]
         /\ Ends(count, n)
         /\ call' = <<"write", b>>
         /\ torn' = {Sector(count, k) : k \in {k \in Partial(count) : k < n /\ junk[k] # -1}}
         /\ lost' = {Sector(count, k) : k \in unstored}
         /\ got' = <<>>

vfs_lseek(p) ==
  /\ pos' = p
  /\ ret' = 0 /\ got' = <<>> /\ call' = <<"seek", 0>> /\ torn' = {} /\ lost' = {}
  /\ UNCHANGED disk

Next ==
  \/ \E count \in COUNTS : ata_file_read(count) \/ \E b \in Byte : ata_file_write(count, b)
  \/ \E p \in 0 .. SIZE : vfs_lseek(p)

Spec == Init /\ [][Next]_vars

-----------------------------------------------------------------------------
(* Properties.                                                             *)

\* Bytes, sectors and position are where the drive has them.
TypeOK ==
  /\ disk \in [0 .. SECTORS - 1 -> [0 .. SECTOR - 1 -> Byte \cup {0}]]
  /\ pos \in 0 .. SIZE
  /\ ret \in -1 .. Max(COUNTS)
  /\ call \in {"none", "read", "write", "seek"} \X (Byte \cup {0})
  /\ got \in Seq(Byte \cup {0})
  /\ {torn, lost} \subseteq SUBSET (0 .. SECTORS - 1)

\* The drive as one sequence of bytes.
Flat(d, p) == d[p \div SECTOR][p % SECTOR]

\* Types are right, and ata_file_read returns the bytes of the drive from the
\* position on, however the request is aligned and wherever a transfer failed.
ReadsExact ==
  /\ []TypeOK
  /\ [][call'[1] = "read" =>
          /\ Len(got') = Max({ret', 0})
          /\ \A i \in 1 .. Len(got') : got'[i] = Flat(disk, pos + i - 1)]_vars

\* ata_file_write: "read-modify-write".  However the request is aligned and
\* wherever the write of a sector failed, the bytes it reports are stored, and
\* all other bytes of the drive are kept, but for two errors it does not look
\* at, whose damage stays in their sector: the rest of a sector that could not
\* be read before is overwritten, and a sector that the drive fails to store
\* after it has taken the data keeps its bytes although they are reported.
WritesExact ==
  [][call'[1] = "write" =>
       \A p \in 0 .. SIZE - 1 :
         LET reported == p \in pos .. pos + ret' - 1
         IN  IF reported /\ p \div SECTOR \notin lost' THEN Flat(disk', p) = call'[2]
             ELSE \/ Flat(disk', p) = Flat(disk, p)
                  \/ ~reported /\ p \div SECTOR \in torn' \ lost']_vars

=============================================================================
