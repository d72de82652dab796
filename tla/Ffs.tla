-------------------------------- MODULE Ffs --------------------------------
(***************************************************************************)
(* The firmware file system of FwVolDxe, as pure operators on a volume.    *)
(*                                                                         *)
(* A volume is a function from positions to cells of eight bytes, the unit *)
(* every structure of the format is aligned to.  A file header is three    *)
(* cells (EFI_FFS_FILE_HEADER: two cells of GUID, one of checksum, type,   *)
(* attributes, size and state), or four when the size does not fit in 24   *)
(* bits (EFI_FFS_FILE_HEADER2).  The checksums are modelled by what they   *)
(* establish: a header is intact when its cells were written for the same  *)
(* header.  The erase polarity is 1, so an erased byte is 0xFF, and a      *)
(* state is the set of the bits that differ from the erased state.         *)
(***************************************************************************)
EXTENDS Integers, Sequences, FiniteSets, FiniteSetsExt

CONSTANTS
    N,              \* the length of the volume, in cells
    FvHdr,          \* the length of the firmware volume header
    BlockLen,       \* the length of a flash block
    MaxSmall,       \* the largest size a 24-bit size field holds
    Names,          \* the names of files
    Pad,            \* the name of pad files, the NULL GUID
    Data,           \* what a cell of file data may hold
    Nil             \* no value, no position

ASSUME SizesAssumption ==
    /\ N \in Nat /\ FvHdr \in Nat /\ BlockLen \in Nat /\ MaxSmall \in Nat
    /\ 0 < FvHdr /\ FvHdr < N
    /\ 0 < BlockLen /\ BlockLen <= N
    /\ 4 <= MaxSmall
ASSUME NilAssumption == Nil \notin Int /\ Nil \notin Names /\ Pad \notin Names

Pos == 0 .. N - 1

(* EFI_FFS_FILE_STATE, each bit by its rank; 7 and 8 are unused bits. *)
HEADER_CONSTRUCTION == 1
HEADER_VALID        == 2
DATA_VALID          == 3
MARKED_FOR_UPDATE   == 4
DELETED             == 5
HEADER_INVALID      == 6
Bits == 1 .. 8

Hdr == 3                                   \* sizeof (EFI_FFS_FILE_HEADER)
HdrLen(size) == IF size > MaxSmall THEN 4 ELSE Hdr
ErasedSize == MaxSmall + 1                 \* 0xFFFFFF, rounded up to a cell

-----------------------------------------------------------------------------
(* Cells.  GUIDs and data end in a zero byte: read as a state, all bits. *)

Headers == [name : Names \cup {Pad}, large : BOOLEAN, size : Nat]
Cell == [k : {"guid1", "guid2", "info", "ext"}, v : Headers, st : SUBSET Bits]
        \cup [k : {"erased", "fvh", "data", "junk"}, v : Data \cup {Nil}, st : SUBSET Bits]
Volume == [Pos -> Cell]

WithState(cell, st) == [k |-> cell.k, v |-> cell.v, st |-> st]
StateCell(st) == [k |-> "erased", v |-> Nil, st |-> st]
Erased == StateCell({})
FvHeaderCell == [k |-> "fvh", v |-> Nil, st |-> Bits]
DataCell(d) == [k |-> "data", v |-> d, st |-> Bits]
Header(name, size) == [name |-> name, large |-> size > MaxSmall, size |-> size]

HeaderCells(h, st) ==
    << [k |-> "guid1", v |-> h, st |-> Bits],
       [k |-> "guid2", v |-> h, st |-> Bits],
       [k |-> "info",  v |-> h, st |-> st] >>
    \o IF h.large THEN << [k |-> "ext", v |-> h, st |-> Bits] >> ELSE << >>
ErasedHeaderCells(size, st) ==
    << Erased, Erased, StateCell(st) >>
    \o IF size > MaxSmall THEN << Erased >> ELSE << >>

FileCells(h, st, content) ==
    HeaderCells(h, st) \o [j \in DOMAIN content |-> DataCell(content[j])]

(* CopyMem of cells into the volume held in memory. *)
CopyMem(vol, at, cells) ==
    [q \in Pos |-> IF q \in at .. at + Len(cells) - 1 THEN cells[q - at + 1]
                                                      ELSE vol[q]]
Slice(vol, at, len) == [j \in 1 .. len |-> vol[at + j - 1]]

-----------------------------------------------------------------------------
(* Headers as they are read. *)

State(vol, p) == IF p + 2 \in Pos THEN vol[p + 2].st ELSE {}

(* The state is changed with an exclusive or. *)
SetFileState(vol, p, bits) ==
    [vol EXCEPT ![p + 2] = WithState(@, (@.st \ bits) \cup (bits \ @.st))]

GetFileState(vol, p) == Max(State(vol, p) \cup {0})

IsBufferErased(vol, at, len) ==
    \A q \in at .. at + len - 1 : q \in Pos /\ vol[q] = Erased

(* IS_FFS_FILE2 and the size: those of an erased header are all ones.      *)
HasInfo(vol, p) == p + 2 \in Pos /\ vol[p + 2].k = "info"
IsFile2(vol, p) == IF HasInfo(vol, p) THEN vol[p + 2].v.large
                                      ELSE p + 2 \in Pos /\ vol[p + 2].k = "erased"
FileSize(vol, p) == IF HasInfo(vol, p) THEN vol[p + 2].v.size ELSE ErasedSize
FileHdr(vol, p) == IF IsFile2(vol, p) THEN 4 ELSE Hdr
IsPad(vol, p) == HasInfo(vol, p) /\ vol[p + 2].v.name = Pad
NameOf(vol, p) == IF vol[p].k = "guid1" THEN vol[p].v.name ELSE Nil

VerifyHeaderChecksum(vol, p) ==
    /\ vol[p].k = "guid1" /\ vol[p + 1].k = "guid2" /\ vol[p + 2].k = "info"
    /\ vol[p].v = vol[p + 2].v /\ vol[p + 1].v = vol[p + 2].v
    /\ vol[p + 2].v.large => /\ p + 3 \in Pos
                             /\ vol[p + 3].k = "ext"
                             /\ vol[p + 3].v = vol[p + 2].v

(* The check of the file checksum adds nothing: the checksum field is in   *)
(* the cell of the state, and no state of DATA_VALID or more is written    *)
(* before or without it.                                                   *)
IsValidFFSHeader(vol, p) ==
    /\ p \in Pos /\ p + 2 \in Pos
    /\ ~IsBufferErased(vol, p, Hdr)
    /\ GetFileState(vol, p) \in {HEADER_VALID, DATA_VALID, MARKED_FOR_UPDATE, DELETED}
    /\ VerifyHeaderChecksum(vol, p)

GetNextPossibleFileHeader(vol, p) ==
    IF IsValidFFSHeader(vol, p) THEN p + FileSize(vol, p)
                                ELSE p + FileHdr(vol, p)

(* Whether a file named as the one at p, in state bit, follows it.  Cells  *)
(* past the end of the volume hold no such file.                           *)
DuplicateFileExist(vol, p, bit) ==
    LET from[q \in 0 .. N + Hdr] ==
          /\ q + Hdr <= N
          /\ \/ /\ IsValidFFSHeader(vol, q)
                /\ NameOf(vol, q) = NameOf(vol, p)
                /\ GetFileState(vol, q) = bit
             \/ LET next == GetNextPossibleFileHeader(vol, q)
                IN  next > q /\ next <= N /\ from[next]
        next == GetNextPossibleFileHeader(vol, p)
    IN  next <= N /\ from[next]

(* What FvReadFile copies out of the file at p. *)
FileContent(vol, p) ==
    [j \in 1 .. FileSize(vol, p) - FileHdr(vol, p) |->
        LET q == p + FileHdr(vol, p) + j - 1
        IN  IF q \in Pos /\ vol[q].k = "data" THEN vol[q].v ELSE Nil]

-----------------------------------------------------------------------------
(* CalculatePadFileSize: the length of the pad file that must precede a    *)
(* file of this size at p for its data to be aligned.                      *)

Misaligned(q, align) == (align - (q % align)) % align
CalculatePadFileSize(p, size, align) ==
    LET data  == p + HdrLen(size)
        short == Misaligned(data, align)
    IN  IF short = 0 \/ short >= Hdr THEN short
                                     ELSE Hdr + Misaligned(data + Hdr, align)

(* The state byte of p is in the last block, where             *)
(* Buffer2LbaEntry finds no block.                                         *)
Buffer2LbaNeverFinds(p) == TRUE         \* a mistake, for the checks
Buffer2LbaFails(p) == p + 2 >= N - BlockLen
=============================================================================
