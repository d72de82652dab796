------------------------------ MODULE FwVolDxe ------------------------------
(***************************************************************************)
(* The firmware volume driver, Universal/FirmwareVolume/FwVolDxe: mounting *)
(* a volume, reading, creating, updating and deleting its files.           *)
(*                                                                         *)
(* One volume is in flash; the driver keeps a copy of it in memory (cache),*)
(* a list of free space, a list of files and the file that was used last.  *)
(* The driver runs alone, so a step goes from one write of the flash to    *)
(* the next: control (op.pc) names the write that is pending, and what the *)
(* code does when that write returns is the rest of the step.  A write may *)
(* complete, may fail after a part of it, or may be cut short by the loss  *)
(* of power, which leaves the flash and nothing else.  Operators marked as *)
(* a mistake are not part of the specification: each is what a neighbour   *)
(* must not be, and a property tells the two apart.                        *)
(***************************************************************************)
EXTENDS Ffs

CONSTANTS
    FvbOverwrites,  \* the block driver replaces bytes; or it only programs bits
    Images,         \* the volumes to start from
    Requests,       \* what a file of a call of FvWriteFile may be
    Calls,          \* the calls of FvWriteFile
    Aligns,         \* what the alignment of a file that asks for none may be
    Budgets         \* bounds: how many calls of FvWriteFile, failing writes
                    \* of the flash and losses of power there may be

VARIABLES
    flash,          \* the cells of the flash
    cache,          \* FvDevice->CachedFv
    free,           \* FvDevice->FreeSpaceHeader, start and length
    files,          \* FvDevice->FfsFileListHeader, the positions of headers
    cur,            \* FvDevice->CurrentFfsFile, or Nil
    ptr,            \* where FvCheck has come to
    op,             \* the call in progress
    accept,         \* history: what each name may read as
    left            \* what is left of the budget

vars == << flash, cache, free, files, cur, ptr, op, accept, left >>
lists == << free, files >>

(* A request: data << >> asks for deletion, align 0 for no alignment, and  *)
(* ok is FALSE when the type is one of the reserved ones.                  *)
Request == [name : Names, data : Seq(Data), align : Nat, ok : BOOLEAN]
Call == [reqs : Seq(Requests), reliable : BOOLEAN]
Budget == [writes : Nat, fails : Nat, losses : Nat]

ASSUME ParametersAssumption ==
    /\ FvbOverwrites \in BOOLEAN
    /\ Images \subseteq Volume
    /\ Requests \subseteq Request
    /\ Calls \subseteq Call
    /\ Aligns \subseteq Nat \ {0}
    /\ Budgets \subseteq Budget

(* The call in progress: its files, the one it has come to, which are new, *)
(* and what the functions it is in keep in their variables.                *)
Idle(pc) ==
    [pc |-> pc, reqs |-> << >>, i |-> 0, create |-> << >>, old |-> 0,
     reliable |-> FALSE, olds |-> << >>, pos |-> 0, pad |-> 0, len |-> 0, fl |-> 0,
     al |-> << >>, news |-> << >>]

-----------------------------------------------------------------------------
(* Looking files up, in a list of files with a current one.                *)

Listed(list, n) ==
    {j \in DOMAIN list : ~IsPad(cache, list[j]) /\ NameOf(cache, list[j]) = n}

(* FvGetNextFile, called until it returns n: the entry, or Nil. *)
SearchFile(n) == IF Listed(files, n) = {} THEN Nil ELSE files[Min(Listed(files, n))]

(* Every file it returns becomes the current one, the last if n is missing. *)
CurAfterSearch(c, n) ==
    LET seen == {j \in DOMAIN files : ~IsPad(cache, files[j])}
    IN  IF SearchFile(n) # Nil THEN SearchFile(n)
        ELSE IF seen = {} THEN c ELSE files[Max(seen)]

(* The current file is taken without a search if it has the name. *)
IsCurrent(c, n) == c # Nil /\ NameOf(cache, c) = n
Lookup(c, n) == IF IsCurrent(c, n) THEN c ELSE SearchFile(n)
CurAfterLookup(c, n) == IF IsCurrent(c, n) THEN c ELSE CurAfterSearch(c, n)

(* FvReadFile: the content of a name, << >> when it is not found. *)
ReadFile(n) == IF Lookup(cur, n) = Nil THEN << >> ELSE FileContent(cache, Lookup(cur, n))

(* The entries news in the place of entry j. *)
Splice(list, j, news) == SubSeq(list, 1, j - 1) \o news \o SubSeq(list, j + 1, Len(list))
Without(list, j) == Splice(list, j, << >>)

ShrinkBackwards(j, len) ==              \* a mistake, for the checks
    [free EXCEPT ![j] = [start |-> @.start - len, len |-> @.len - len]]
Shrink(j, len) ==
    [free EXCEPT ![j] = [start |-> @.start + len, len |-> @.len - len]]

-----------------------------------------------------------------------------
(* The file being written.                                                 *)

Req == op.reqs[op.i]
SizeOf(r) == IF Len(r.data) + Hdr > MaxSmall THEN Len(r.data) + 4 ELSE Len(r.data) + Hdr
AlignOf(r) == IF r.align = 0 THEN 1 ELSE r.align
HeaderOf(r) == Header(r.name, SizeOf(r))
HdrOf(r) == HdrLen(SizeOf(r))

Constructed == {HEADER_CONSTRUCTION}
HeaderValidTooEarly == Constructed \cup {HEADER_VALID, DATA_VALID}    \* a mistake
HeaderValid == Constructed \cup {HEADER_VALID}
DataValid   == HeaderValid \cup {DATA_VALID}

(* FvFillPadFile, in memory: the state bits are toggled where they are. *)
FillPadFile(vol, p, size) ==
    SetFileState(CopyMem(vol, p, HeaderCells(Header(Pad, size), State(vol, p))), p, DataValid)

(* FvFillFfsFile: the size is set in the target, which the buffer, its size *)
(* still erased, then overwrites.                                           *)
FillFfsFile(vol, p, r) ==
    LET h == [name |-> r.name, large |-> FALSE, size |-> ErasedSize]
    IN  CopyMem(vol, p, HeaderCells(h, DataValid)
                        \o [j \in 1 .. HdrOf(r) - Hdr |-> Erased]
                        \o [j \in DOMAIN r.data |-> DataCell(r.data[j])])

(* FvAdjustFfsFile: erased bytes after the file, where its size says. *)
AdjustFfsFile(vol, p, len) ==
    CopyMem(vol, p + FileSize(vol, p), [j \in 1 .. len |-> Erased])

WithPad(vol, p, size) == IF size = 0 THEN vol ELSE FillPadFile(vol, p, size)

(* The rest of a pad area becomes a pad file if it can hold a header. *)
WithTailAlways(vol, last, tail, len) ==  \* a mistake
    IF len > 0 THEN FillPadFile(vol, tail, len) ELSE vol
WithTail(vol, last, tail, len) ==
    IF len >= Hdr THEN FillPadFile(vol, tail, len)
    ELSE IF len > 0 THEN AdjustFfsFile(vol, last, len) ELSE vol
LeadEntry(p, size) == IF size = 0 THEN << >> ELSE << p >>
TailEntry(tail, len) == IF len >= Hdr THEN << tail >> ELSE << >>

(* The size of reqs laid out from start, each behind the pad it needs. *)
TotalSize(start, reqs, al) ==
    LET end[j \in 0 .. Len(reqs)] ==
          IF j = 0 THEN start
          ELSE end[j - 1] + SizeOf(reqs[j]) + CalculatePadFileSize(end[j - 1], SizeOf(reqs[j]), al[j])
    IN  end[Len(reqs)] - start

(* The area of the pad file at p, and the pad files and free spaces that   *)
(* can hold the requests.                                                  *)
PadArea(p) == p + FileHdr(cache, p)
IsFreePad(p) == IsPad(cache, p) /\ GetFileState(cache, p) = DATA_VALID
PadsFor(reqs, al) ==
    {j \in DOMAIN files :
        /\ IsFreePad(files[j])
        /\ TotalSize(PadArea(files[j]), reqs, al) <= FileSize(cache, files[j]) - FileHdr(cache, files[j])}
FreeFor(reqs, al) ==
    {j \in DOMAIN free : TotalSize(free[j].start, reqs, al) <= free[j].len}

-----------------------------------------------------------------------------
(* The flash.  A write is the position of its first cell and the cells, or *)
(* one state byte.                                                         *)

CellsWrite(at, cells) == [at |-> at, cells |-> cells, byte |-> FALSE]
StateWrite(at, st) == [at |-> at, cells |-> << StateCell(st) >>, byte |-> TRUE]
NoWrite == CellsWrite(0, << >>)

(* What a cell becomes.  Unless the block driver overwrites, programming   *)
(* only adds to the bits that differ from the erased state.                *)
Program(c, new) ==
    LET st == c.st \cup new.st
    IN  IF FvbOverwrites THEN new
        ELSE IF c.k = "erased" THEN WithState(new, st)
        ELSE IF new.k = "erased" \/ (new.k = c.k /\ new.v = c.v) THEN WithState(c, st)
        ELSE [k |-> "junk", v |-> Nil, st |-> st]
ProgramByte(c, st) == WithState(c, IF FvbOverwrites THEN st ELSE c.st \cup st)

(* UpdateHeaderBit writes the first byte of the volume when Buffer2Lba has *)
(* found no block.                                                         *)
FvcWriteState(p) == StateWrite(p + 2, State(cache, p))
UpdateHeaderBitAtHeader(p) == StateWrite(p, State(cache, p))    \* a mistake
UpdateHeaderBit(p) == StateWrite(IF Buffer2LbaFails(p) THEN 0 ELSE p + 2, State(cache, p))

(* The write that is in progress. *)
PendingWrite ==
    CASE op.pc \in {"pad1", "pad3"} -> FvcWriteState(op.pos)
      [] op.pc = "pad2" -> CellsWrite(op.pos, Slice(cache, op.pos, Hdr))
      [] op.pc = "new1" -> StateWrite(op.pos + 2, Constructed)
      [] op.pc = "new2" -> CellsWrite(op.pos, HeaderCells(HeaderOf(Req), Constructed))
      [] op.pc = "new3" -> StateWrite(op.pos + 2, HeaderValid)
      [] op.pc = "new4" -> CellsWrite(op.pos, FileCells(HeaderOf(Req), HeaderValid, Req.data))
      [] op.pc = "new5" -> StateWrite(op.pos + 2, DataValid)
      [] op.pc \in {"mark", "del", "delete"} -> FvcWriteState(op.old)
      [] op.pc \in {"in1", "in3"} -> FvcWriteState(op.pad)
      [] op.pc \in {"in2", "mp2"} -> CellsWrite(PadArea(op.pad), Slice(cache, PadArea(op.pad), op.len))
      [] op.pc = "mf1" -> CellsWrite(free[op.fl].start, Slice(cache, free[op.fl].start, op.len))
      [] op.pc = "scanmark" -> UpdateHeaderBit(ptr)
      [] op.pc \in {"mp1", "mp3"} -> UpdateHeaderBit(op.pad)
      [] op.pc \in {"mmark", "mdel"} -> UpdateHeaderBit(op.olds[op.i])
      [] OTHER -> NoWrite

(* The flash after the first n cells of the write. *)
Written(n) ==
    LET wr == PendingWrite
    IN  [q \in Pos |->
            IF q \notin wr.at .. wr.at + n - 1 THEN flash[q]
            ELSE IF wr.byte THEN ProgramByte(flash[q], wr.cells[1].st)
            ELSE Program(flash[q], wr.cells[q - wr.at + 1])]

(* FvcWrite refuses a write that goes past the end of the volume. *)
WriteFits == PendingWrite.at + Len(PendingWrite.cells) <= N

WriteOk ==
    /\ WriteFits
    /\ flash' = Written(Len(PendingWrite.cells))
    /\ UNCHANGED left
WriteFails ==
    \/ ~WriteFits /\ UNCHANGED << flash, left >>
    \/ /\ WriteFits /\ left.fails > 0
       /\ \E n \in 0 .. Len(PendingWrite.cells) - 1 : flash' = Written(n)
       /\ left' = [left EXCEPT !.fails = @ - 1]

-----------------------------------------------------------------------------
(* Mounting: FvCheck.                                                      *)

Goto(pc) == op' = [op EXCEPT !.pc = pc]

(* The call returns; what is read from now on is settled. *)
Settled(acc, n) == IF ReadFile(n)' \in acc[n] THEN {ReadFile(n)'} ELSE acc[n]
Return ==
    /\ op' = Idle("ready")
    /\ accept' = [n \in Names |-> Settled(accept, n)]
ReturnSuccess ==
    LET last(n) == Max({j \in DOMAIN op.reqs : op.reqs[j].name = n})
        written == {op.reqs[j].name : j \in DOMAIN op.reqs}
    IN  /\ op' = Idle("ready")
        /\ accept' = [n \in Names |-> IF n \in written THEN {op.reqs[last(n)].data}
                                       ELSE Settled(accept, n)]

Init ==
    /\ flash \in Images
    /\ cache = flash /\ free = << >> /\ files = << >> /\ cur = Nil /\ ptr = 0
    /\ op = Idle("off")
    /\ accept = [n \in Names |-> {}]
    /\ left \in Budgets

(* The header of the volume is verified, the volume copied to memory. *)
PowerOn ==
    /\ op.pc = "off"
    /\ cache' = flash /\ free' = << >> /\ files' = << >> /\ cur' = Nil /\ ptr' = FvHdr
    /\ op' = Idle(IF flash[0] = FvHeaderCell THEN "scan" ELSE "corrupt")
    /\ UNCHANGED << flash, accept, left >>

Rest == Min({N - ptr, Hdr})
ErasedAhead == ptr < N /\ IsBufferErased(cache, ptr, Rest)
HeaderAhead == ptr < N /\ ~ErasedAhead /\ Rest = Hdr
Corrupted ==
    /\ op' = Idle("corrupt")
    /\ UNCHANGED << flash, cache, lists, cur, ptr, accept, left >>

(* Erased space, up to end, is taken in chunks of a header. *)
ScanFree ==
    /\ op.pc = "scan" /\ ErasedAhead
    /\ \E end \in ptr .. N :
          /\ IsBufferErased(cache, ptr, end - ptr)
          /\ end < N => cache[end] # Erased
          /\ LET len == IF end = N THEN N - ptr ELSE Hdr * ((end - ptr) \div Hdr)
             IN  /\ free' = Append(free, [start |-> ptr, len |-> len])
                 /\ ptr' = ptr + len
    /\ UNCHANGED << flash, cache, files, cur, op, accept, left >>

(* A header that was never completed, or was invalidated, is skipped. *)
ScanSkip ==
    /\ op.pc = "scan" /\ HeaderAhead
    /\ ~IsValidFFSHeader(cache, ptr)
    /\ GetFileState(cache, ptr) \in {HEADER_INVALID, HEADER_CONSTRUCTION}
    /\ ptr' = ptr + FileHdr(cache, ptr)
    /\ UNCHANGED << flash, cache, lists, cur, op, accept, left >>
ScanBadHeader ==
    /\ op.pc = "scan" /\ HeaderAhead
    /\ ~IsValidFFSHeader(cache, ptr)
    /\ GetFileState(cache, ptr) \notin {HEADER_INVALID, HEADER_CONSTRUCTION}
    /\ Corrupted

(* IsValidFFSFile. *)
IsSuperseded(p) ==
    /\ GetFileState(cache, p) = MARKED_FOR_UPDATE
    /\ IsPad(cache, p) \/ DuplicateFileExist(cache, p, DATA_VALID)
IsValidFFSFileUnmarked(p) ==             \* a mistake
    \/ GetFileState(cache, p) = DELETED
    \/ /\ GetFileState(cache, p) = DATA_VALID
       /\ IsPad(cache, p) \/ ~DuplicateFileExist(cache, p, DATA_VALID)
IsValidFFSFile(p) ==
    \/ GetFileState(cache, p) \in {MARKED_FOR_UPDATE, DELETED}
    \/ /\ GetFileState(cache, p) = DATA_VALID
       /\ IsPad(cache, p) \/ ~DuplicateFileExist(cache, p, DATA_VALID)

ScanFile ==
    /\ op.pc = "scan" /\ HeaderAhead
    /\ IsValidFFSHeader(cache, ptr) /\ IsValidFFSFile(ptr) /\ ~IsSuperseded(ptr)
    /\ files' = IF GetFileState(cache, ptr) = DELETED THEN files ELSE Append(files, ptr)
    /\ ptr' = ptr + FileSize(cache, ptr)
    /\ UNCHANGED << flash, cache, free, cur, op, accept, left >>
ScanSuperseded ==
    /\ op.pc = "scan" /\ HeaderAhead
    /\ IsValidFFSHeader(cache, ptr) /\ IsSuperseded(ptr)
    /\ cache' = SetFileState(cache, ptr, {DELETED})
    /\ Goto("scanmark")
    /\ UNCHANGED << flash, lists, cur, ptr, accept, left >>
(* Whether the mark could be written is not looked at. *)
ScanMarked ==
    /\ op.pc = "scanmark"
    /\ WriteOk \/ WriteFails
    /\ ptr' = ptr + FileSize(cache, ptr)
    /\ Goto("scan")
    /\ UNCHANGED << cache, lists, cur, accept >>
ScanBadFile ==
    /\ op.pc = "scan" /\ HeaderAhead
    /\ IsValidFFSHeader(cache, ptr) /\ ~IsValidFFSFile(ptr)
    /\ Corrupted

(* At the first mount, what is read is what the volume holds. *)
ScanEnd ==
    /\ op.pc = "scan"
    /\ ptr >= N \/ (~ErasedAhead /\ Rest < Hdr)
    /\ UNCHANGED << flash, cache, lists, ptr, left >>
    /\ cur' = Nil
    /\ op' = Idle("ready")
    /\ accept' = [n \in Names |-> IF accept[n] = {} THEN {ReadFile(n)'} ELSE Settled(accept, n)]

(* The loss of power: the write in progress stops anywhere. *)
PowerLoss ==
    /\ op.pc # "off" /\ left.losses > 0
    /\ \E n \in 0 .. Len(PendingWrite.cells) :
          flash' = IF WriteFits THEN Written(n) ELSE flash
    /\ cache' = flash' /\ free' = << >> /\ files' = << >> /\ cur' = Nil /\ ptr' = 0
    /\ op' = Idle("off")
    /\ left' = [left EXCEPT !.losses = @ - 1]
    /\ UNCHANGED accept

-----------------------------------------------------------------------------
(* Reading, and the start of FvWriteFile.                                  *)

ReadFileAction(n) ==
    /\ op.pc = "ready"
    /\ cur' = CurAfterLookup(cur, n)
    /\ UNCHANGED << flash, cache, lists, ptr, op, accept, left >>

(* FvGetNextFile, with a key a former call returned. *)
GetNextFile ==
    /\ op.pc = "ready"
    /\ \E j \in DOMAIN files : ~IsPad(cache, files[j]) /\ cur' = files[j]
    /\ UNCHANGED << flash, cache, lists, ptr, op, accept, left >>

(* FvWriteFile, which looks up the files to delete, and then, unless there *)
(* are any, the files to write.                                            *)
WriteFile(call) ==
    /\ op.pc = "ready" /\ left.writes > 0
    /\ op' = [Idle("lookup") EXCEPT !.reqs = call.reqs, !.i = 1, !.reliable = call.reliable]
    /\ accept' = [n \in Names |-> accept[n] \cup
                     {call.reqs[j].data : j \in {k \in DOMAIN call.reqs : call.reqs[k].name = n}}]
    /\ left' = [left EXCEPT !.writes = @ - 1]
    /\ UNCHANGED << flash, cache, lists, cur, ptr >>

Deletes(reqs) == {j \in DOMAIN reqs : reqs[j].data = << >>}
Mixed(reqs) == Deletes(reqs) \notin {{}, DOMAIN reqs}
LookupTurn == op.pc = "lookup" /\ op.i <= Len(op.reqs)
LookupFile ==
    /\ LookupTurn
    /\ LET found == Lookup(cur, Req.name) # Nil
           looked == op.i \in Deletes(op.reqs) \/ Deletes(op.reqs) = {}
       IN  /\ op.i \in Deletes(op.reqs) => found
           /\ cur' = IF looked THEN CurAfterLookup(cur, Req.name) ELSE cur
           /\ op' = [op EXCEPT !.i = @ + 1, !.create = Append(@, looked /\ ~found)]
    /\ UNCHANGED << flash, cache, lists, ptr, accept, left >>
DeleteMissing ==
    /\ LookupTurn /\ op.i \in Deletes(op.reqs)
    /\ Lookup(cur, Req.name) = Nil
    /\ cur' = CurAfterSearch(cur, Req.name)
    /\ UNCHANGED << flash, cache, lists, ptr, left >>
    /\ Return
LookedUp ==
    /\ op.pc = "lookup" /\ op.i > Len(op.reqs) /\ ~Mixed(op.reqs)
    /\ op' = [op EXCEPT !.i = 1,
                        !.pc = IF op.reliable /\ Len(op.reqs) > 1 /\ Deletes(op.reqs) = {}
                               THEN "multi" ELSE "file"]
    /\ UNCHANGED << flash, cache, lists, cur, ptr, accept, left >>
(* A call with both files to delete and files to write is refused. *)
MixedRefused ==
    /\ op.pc = "lookup" /\ op.i > Len(op.reqs) /\ Mixed(op.reqs)
    /\ UNCHANGED << flash, cache, lists, cur, ptr, left >>
    /\ Return

(* The next file of the call. *)
NextFile == op' = [Idle("file") EXCEPT !.reqs = op.reqs, !.i = op.i + 1, !.create = op.create]
AllDone ==
    /\ op.pc = "file" /\ op.i > Len(op.reqs)
    /\ UNCHANGED << flash, cache, lists, cur, ptr, left >>
    /\ ReturnSuccess
FileTurn == op.pc = "file" /\ op.i <= Len(op.reqs)

(* Update and delete take the current file and forget it, or search. *)
TakeOld == cur' = IF IsCurrent(cur, Req.name) THEN Nil ELSE CurAfterSearch(cur, Req.name)
Old == Lookup(cur, Req.name)
OldFound ==
    /\ Old # Nil
    /\ Req.data = << >> => GetFileState(cache, Old) \notin {HEADER_INVALID, DELETED}
OldMissing ==
    /\ FileTurn /\ ~op.create[op.i] /\ ~OldFound
    /\ TakeOld /\ UNCHANGED << flash, cache, lists, ptr, left >>
    /\ Return

-----------------------------------------------------------------------------
(* FvDeleteFile.                                                           *)

DeleteStart ==
    /\ FileTurn /\ Req.data = << >> /\ OldFound
    /\ TakeOld
    /\ cache' = SetFileState(cache, Old, {DELETED})
    /\ op' = [op EXCEPT !.pc = "delete", !.old = Old]
    /\ UNCHANGED << flash, lists, ptr, accept, left >>
DeleteDoneKeepsCurrent ==                \* a mistake
    /\ op.pc = "delete" /\ WriteOk
    /\ \E j \in DOMAIN files : files[j] = op.old /\ files' = Without(files, j)
    /\ NextFile
    /\ UNCHANGED << cache, free, cur, ptr, accept >>
DeleteDone ==
    /\ op.pc = "delete" /\ WriteOk
    /\ cur' = Nil
    /\ \E j \in DOMAIN files : files[j] = op.old /\ files' = Without(files, j)
    /\ NextFile
    /\ UNCHANGED << cache, free, ptr, accept >>
DeleteFailedNotUndone ==                 \* a mistake
    /\ op.pc = "delete" /\ WriteFails
    /\ UNCHANGED << cache, lists, cur, ptr >>
    /\ Return
DeleteFailed ==
    /\ op.pc = "delete" /\ WriteFails
    /\ cache' = SetFileState(cache, op.old, {DELETED})
    /\ UNCHANGED << lists, cur, ptr >>
    /\ Return

-----------------------------------------------------------------------------
(* FvUpdateFile: mark the old file, create the new one, delete the old.    *)

UpdateStartWith(bits) ==                 \* mistakes
    /\ FileTurn /\ Req.data # << >> /\ ~op.create[op.i] /\ OldFound
    /\ TakeOld
    /\ cache' = SetFileState(cache, Old, bits)
    /\ op' = [op EXCEPT !.pc = "mark", !.old = Old]
    /\ UNCHANGED << flash, lists, ptr, accept, left >>
UpdateStartDeletes == UpdateStartWith({DELETED})
UpdateStartUnmarked == UpdateStartWith({})
UpdateStart ==
    /\ FileTurn /\ Req.data # << >> /\ ~op.create[op.i] /\ OldFound
    /\ TakeOld
    /\ cache' = SetFileState(cache, Old, {MARKED_FOR_UPDATE})
    /\ op' = [op EXCEPT !.pc = "mark", !.old = Old]
    /\ UNCHANGED << flash, lists, ptr, accept, left >>
Marked ==
    /\ op.pc = "mark" /\ WriteOk
    /\ Goto("create")
    /\ UNCHANGED << cache, lists, cur, ptr, accept >>
MarkFailed ==
    /\ op.pc = "mark" /\ WriteFails
    /\ cache' = SetFileState(cache, op.old, {MARKED_FOR_UPDATE})
    /\ UNCHANGED << lists, cur, ptr >>
    /\ Return

(* The creation was the end of it, or the old file is to be deleted: the   *)
(* list of files but for the old one, and what follows.                    *)
Remaining ==
    IF op.create[op.i] THEN {files}
    ELSE {Without(files, j) : j \in {k \in DOMAIN files : files[k] = op.old}}
Created(vol) ==
    IF op.create[op.i] THEN cache' = vol /\ NextFile
    ELSE cache' = SetFileState(vol, op.old, {DELETED}) /\ Goto("del")
OldDeleted ==
    /\ op.pc = "del" /\ WriteOk
    /\ NextFile
    /\ UNCHANGED << cache, lists, cur, ptr, accept >>
OldNotDeleted ==
    /\ op.pc = "del" /\ WriteFails
    /\ cache' = SetFileState(cache, op.old, {DELETED})
    /\ UNCHANGED << lists, cur, ptr >>
    /\ Return

-----------------------------------------------------------------------------
(* FvCreateNewFile, in free space.                                         *)

CreateStart ==
    /\ FileTurn /\ op.create[op.i]
    /\ Goto("create")
    /\ UNCHANGED << flash, cache, lists, cur, ptr, accept, left >>

InFree == FreeFor(<< Req >>, << AlignOf(Req) >>)
InPad == PadsFor(<< Req >>, << AlignOf(Req) >>)

(* A reserved type, or no room: FvUpdateFile leaves the old file marked. *)
CreateRefusedForType ==                  \* a mistake
    /\ op.pc = "create" /\ ~Req.ok
    /\ UNCHANGED << flash, cache, lists, cur, ptr, left >>
    /\ Return
CreateRefused ==
    /\ op.pc = "create" /\ (~Req.ok \/ (InFree = {} /\ InPad = {}))
    /\ UNCHANGED << flash, cache, lists, cur, ptr, left >>
    /\ Return

CreateInFree ==
    /\ op.pc = "create" /\ Req.ok /\ InFree # {}
    /\ UNCHANGED << flash, lists, cur, ptr, left >>
    /\ LET fl == Min(InFree)
           at == free[fl].start
           psz == CalculatePadFileSize(at, SizeOf(Req), AlignOf(Req))
       IN  IF psz = 0
           THEN /\ op' = [op EXCEPT !.pc = "new1", !.fl = fl, !.pos = at]
                /\ UNCHANGED << cache, accept >>
           ELSE IF IsBufferErased(cache, at, psz)
           THEN /\ op' = [op EXCEPT !.pc = "pad1", !.fl = fl, !.pos = at, !.len = psz]
                /\ cache' = SetFileState(cache, at, Constructed)
                /\ UNCHANGED accept
           ELSE UNCHANGED cache /\ Return

(* FvCreatePadFileInFreeSpace: the state, the header, and the state. *)
PadConstructed ==
    /\ op.pc = "pad1" /\ WriteOk
    /\ free' = Shrink(op.fl, Hdr)
    /\ cache' = CopyMem(cache, op.pos, HeaderCells(Header(Pad, op.len), State(cache, op.pos)))
    /\ Goto("pad2")
    /\ UNCHANGED << files, cur, ptr, accept >>
PadNotConstructed ==
    /\ op.pc = "pad1" /\ WriteFails
    /\ cache' = SetFileState(cache, op.pos, Constructed)
    /\ UNCHANGED << lists, cur, ptr >>
    /\ Return
PadWritten ==
    /\ op.pc = "pad2" /\ WriteOk
    /\ cache' = SetFileState(cache, op.pos, {HEADER_VALID, DATA_VALID})
    /\ Goto("pad3")
    /\ UNCHANGED << lists, cur, ptr, accept >>
PadValid ==
    /\ op.pc = "pad3" /\ WriteOk
    /\ free' = Shrink(op.fl, op.len - Hdr)
    /\ files' = Append(files, op.pos)
    /\ cur' = op.pos
    /\ op' = [op EXCEPT !.pc = "new1", !.pos = op.pos + op.len]
    /\ UNCHANGED << cache, ptr, accept >>
PadNotValid ==
    /\ op.pc = "pad3" /\ WriteFails
    /\ cache' = SetFileState(cache, op.pos, {HEADER_VALID, DATA_VALID})
    /\ UNCHANGED << lists, cur, ptr >>
    /\ Return

(* The file: its state, its header, HEADER_VALID, its data, DATA_VALID. *)
HeaderAllocated ==
    /\ op.pc = "new1" /\ WriteOk
    /\ cache' = CopyMem(cache, op.pos, ErasedHeaderCells(SizeOf(Req), Constructed))
    /\ free' = Shrink(op.fl, HdrOf(Req))
    /\ Goto("new2")
    /\ UNCHANGED << files, cur, ptr, accept >>
HeaderWritten ==
    /\ op.pc = "new2" /\ WriteOk
    /\ cache' = CopyMem(cache, op.pos, HeaderCells(HeaderOf(Req), Constructed))
    /\ Goto("new3")
    /\ UNCHANGED << lists, cur, ptr, accept >>
HeaderMadeValidOnly ==                   \* a mistake
    /\ op.pc = "new3" /\ WriteOk
    /\ cache' = CopyMem(cache, op.pos, HeaderCells(HeaderOf(Req), HeaderValid))
    /\ Goto("new4")
    /\ UNCHANGED << lists, cur, ptr, accept >>
HeaderMadeValid ==
    /\ op.pc = "new3" /\ WriteOk
    /\ cache' = CopyMem(cache, op.pos, HeaderCells(HeaderOf(Req), HeaderValid))
    /\ free' = Shrink(op.fl, SizeOf(Req) - HdrOf(Req))
    /\ Goto("new4")
    /\ UNCHANGED << files, cur, ptr, accept >>
DataWritten ==
    /\ op.pc = "new4" /\ WriteOk
    /\ cache' = CopyMem(cache, op.pos, FileCells(HeaderOf(Req), HeaderValid, Req.data))
    /\ Goto("new5")
    /\ UNCHANGED << lists, cur, ptr, accept >>
DataMadeValid ==
    /\ op.pc = "new5" /\ WriteOk
    /\ cur' = op.pos
    /\ \E list \in Remaining : files' = Append(list, op.pos)
    /\ Created(CopyMem(cache, op.pos, HeaderCells(HeaderOf(Req), DataValid)))
    /\ UNCHANGED << free, ptr, accept >>
(* What was written and taken from the free space stays so. *)
CreateFailed ==
    /\ op.pc \in {"pad2", "new1", "new2", "new3", "new4", "new5"} /\ WriteFails
    /\ UNCHANGED << cache, lists, cur, ptr >>
    /\ Return

-----------------------------------------------------------------------------
(* FvCreateNewFileInsidePadFile.                                           *)

CreateInPad ==
    /\ op.pc = "create" /\ Req.ok /\ InFree = {} /\ InPad # {}
    /\ LET pad == files[Min(InPad)]
       IN  /\ cache' = SetFileState(cache, pad, {MARKED_FOR_UPDATE})
           /\ op' = [op EXCEPT !.pc = "in1", !.pad = pad]
    /\ UNCHANGED << flash, lists, cur, ptr, accept, left >>
(* The length of the area is that of a pad file with a small header. *)
PadMarked ==
    /\ op.pc = "in1" /\ WriteOk
    /\ LET start == PadArea(op.pad)
           area == FileSize(cache, op.pad) - Hdr
           psz == CalculatePadFileSize(start, SizeOf(Req), AlignOf(Req))
           pos == start + psz
           end == pos + SizeOf(Req)
           tail == start + area - end
       IN  /\ cache' = WithTail(FillFfsFile(WithPad(cache, start, psz), pos, Req), pos, end, tail)
           /\ cur' = pos
           /\ op' = [op EXCEPT !.pc = "in2", !.len = area,
                               !.news = LeadEntry(start, psz) \o << pos >> \o TailEntry(end, tail)]
    /\ UNCHANGED << lists, ptr, accept >>
(* The bit that is toggled back is not the one that was toggled. *)
PadNotMarked ==
    /\ op.pc = "in1" /\ WriteFails
    /\ cache' = SetFileState(cache, op.pad, Constructed)
    /\ UNCHANGED << lists, cur, ptr >>
    /\ Return
AreaWritten ==
    /\ op.pc = "in2" /\ WriteOk
    /\ cache' = SetFileState(cache, op.pad, {HEADER_INVALID})
    /\ Goto("in3")
    /\ UNCHANGED << lists, cur, ptr, accept >>
PadReplaced ==
    /\ op.pc = "in3" /\ WriteOk
    /\ \E list \in Remaining : \E j \in DOMAIN list :
          list[j] = op.pad /\ files' = Splice(list, j, op.news)
    /\ Created(cache)
    /\ UNCHANGED << free, cur, ptr, accept >>
PadNotReplaced ==
    /\ op.pc = "in3" /\ WriteFails
    /\ cache' = SetFileState(cache, op.pad, {HEADER_INVALID})
    /\ cur' = Nil
    /\ UNCHANGED << lists, ptr >>
    /\ Return
(* The entries made for the new files are freed. *)
AreaFailedKeepsCurrent ==                \* a mistake
    /\ op.pc \in {"in2", "mp2", "mf1", "mp3"} /\ WriteFails
    /\ UNCHANGED << cache, lists, cur, ptr >>
    /\ Return
AreaFailed ==
    /\ op.pc \in {"in2", "mp2", "mf1", "mp3"} /\ WriteFails
    /\ cur' = Nil
    /\ UNCHANGED << cache, lists, ptr >>
    /\ Return

-----------------------------------------------------------------------------
(* FvCreateMultipleFiles: the reliable write of several files.             *)

Step(pc, i) == op' = [op EXCEPT !.pc = pc, !.i = i]

(* The files to be updated are marked, each toggling the bit. *)
MultiCreate ==
    /\ op.pc = "multi" /\ op.i <= Len(op.reqs) /\ op.create[op.i]
    /\ op' = [op EXCEPT !.i = @ + 1, !.olds = Append(@, 0)]
    /\ UNCHANGED << flash, cache, lists, cur, ptr, accept, left >>
MultiUpdate ==
    /\ op.pc = "multi" /\ op.i <= Len(op.reqs) /\ ~op.create[op.i]
    /\ SearchFile(Req.name) # Nil
    /\ cur' = SearchFile(Req.name)
    /\ cache' = SetFileState(cache, cur', {MARKED_FOR_UPDATE})
    /\ op' = [op EXCEPT !.pc = "mmark", !.olds = Append(@, cur')]
    /\ UNCHANGED << flash, lists, ptr, accept, left >>
MultiMarked ==
    /\ op.pc = "mmark" /\ WriteOk
    /\ Step("multi", op.i + 1)
    /\ UNCHANGED << cache, lists, cur, ptr, accept >>
(* No bit is toggled back, for this file or the pad file. *)
MultiFailed ==
    /\ op.pc \in {"mmark", "mp1", "mdel"} /\ WriteFails
    /\ UNCHANGED << cache, lists, cur, ptr >>
    /\ Return

(* A file that asks for no alignment has the one its uninitialised array   *)
(* element holds.                                                          *)
Alignments == {al \in [DOMAIN op.reqs -> (Aligns \cup {r.align : r \in Requests}) \ {0}] :
                \A j \in DOMAIN al :
                    IF op.reqs[j].align = 0 THEN al[j] \in Aligns ELSE al[j] = op.reqs[j].align}
MultiPlace == op.pc = "multi" /\ op.i > Len(op.reqs)
MultiNoRoom ==
    /\ MultiPlace
    /\ \E al \in Alignments : PadsFor(op.reqs, al) = {} /\ FreeFor(op.reqs, al) = {}
    /\ UNCHANGED << flash, cache, lists, cur, ptr, left >>
    /\ Return

MultiInPad ==
    /\ MultiPlace
    /\ \E al \in Alignments :
          /\ PadsFor(op.reqs, al) # {}
          /\ LET pad == files[Min(PadsFor(op.reqs, al))]
             IN  /\ cache' = SetFileState(cache, pad, {MARKED_FOR_UPDATE})
                 /\ op' = [op EXCEPT !.pc = "mp1", !.pad = pad, !.al = al]
    /\ UNCHANGED << flash, lists, cur, ptr, accept, left >>
MultiPadMarked ==
    /\ op.pc = "mp1" /\ WriteOk
    /\ op' = [op EXCEPT !.pc = "fillpad", !.i = 1, !.pos = PadArea(op.pad),
                        !.len = FileSize(cache, op.pad) - FileHdr(cache, op.pad)]
    /\ UNCHANGED << cache, lists, cur, ptr, accept >>
MultiInFree ==
    /\ MultiPlace
    /\ \E al \in Alignments :
          /\ PadsFor(op.reqs, al) = {} /\ FreeFor(op.reqs, al) # {}
          /\ LET fl == Min(FreeFor(op.reqs, al))
             IN  op' = [op EXCEPT !.pc = "fillfree", !.i = 1, !.pos = free[fl].start,
                                  !.fl = fl, !.al = al]
    /\ UNCHANGED << flash, cache, lists, cur, ptr, accept, left >>

(* The files are made in memory, one after the other, before anything of   *)
(* them is written; a reserved type is noticed on the way.                 *)
Filling == op.pc \in {"fillpad", "fillfree"} /\ op.i <= Len(op.reqs)
NextPad == CalculatePadFileSize(op.pos, SizeOf(Req), op.al[op.i])
FillNext ==
    /\ Filling /\ Req.ok
    /\ LET pos == op.pos + NextPad
       IN  /\ cache' = FillFfsFile(WithPad(cache, op.pos, NextPad), pos, Req)
           /\ op' = [op EXCEPT !.i = @ + 1, !.pos = pos + SizeOf(Req),
                               !.news = @ \o LeadEntry(op.pos, NextPad) \o << pos >>]
    /\ UNCHANGED << flash, lists, cur, ptr, accept, left >>
FillRefused ==
    /\ Filling /\ ~Req.ok
    /\ cache' = WithPad(cache, op.pos, NextPad)
    /\ UNCHANGED << flash, lists, cur, ptr, left >>
    /\ Return
(* The entry made last. *)
Newest == IF op.news = << >> THEN Nil ELSE op.news[Len(op.news)]

PadFilled ==
    /\ op.pc = "fillpad" /\ op.i > Len(op.reqs)
    /\ LET tail == PadArea(op.pad) + op.len - op.pos
       IN  /\ cache' = WithTail(cache, Newest, op.pos, tail)
           /\ op' = [op EXCEPT !.pc = "mp2", !.news = @ \o TailEntry(op.pos, tail)]
    /\ cur' = Newest
    /\ UNCHANGED << flash, lists, ptr, accept, left >>
MultiAreaWritten ==
    /\ op.pc = "mp2" /\ WriteOk
    /\ cache' = SetFileState(cache, op.pad, {HEADER_INVALID})
    /\ Goto("mp3")
    /\ UNCHANGED << lists, cur, ptr, accept >>
MultiPadInvalid ==
    /\ op.pc = "mp3" /\ WriteOk
    /\ Step("unlink", 1)
    /\ UNCHANGED << cache, lists, cur, ptr, accept >>
(* The entries of the old files are removed, and the new entries replace   *)
(* that of the pad file (in the code, the other way round).                *)
Unlink ==
    /\ op.pc = "unlink" /\ op.i <= Len(op.reqs)
    /\ IF op.create[op.i] THEN UNCHANGED files
       ELSE \E j \in DOMAIN files : files[j] = op.olds[op.i] /\ files' = Without(files, j)
    /\ Step("unlink", op.i + 1)
    /\ UNCHANGED << flash, cache, free, cur, ptr, accept, left >>
MultiPadReplaced ==
    /\ op.pc = "unlink" /\ op.i > Len(op.reqs)
    /\ \E j \in DOMAIN files : files[j] = op.pad /\ files' = Splice(files, j, op.news)
    /\ Step("multidel", 1)
    /\ UNCHANGED << flash, cache, free, cur, ptr, accept, left >>

(* In free space the files are written by one write, states and all. *)
FreeFilled ==
    /\ op.pc = "fillfree" /\ op.i > Len(op.reqs)
    /\ cur' = Newest
    /\ op' = [op EXCEPT !.pc = "mf1", !.len = op.pos - free[op.fl].start]
    /\ UNCHANGED << flash, cache, lists, ptr, accept, left >>
(* The loop that moves the new entries to the list of files follows the    *)
(* links of the list it appends to: it inserts the head of that list in    *)
(* itself, again and again, and never ends.                                *)
MultiFreeWritten ==
    /\ op.pc = "mf1" /\ WriteOk
    /\ free' = Shrink(op.fl, op.len)
    /\ files' = << >>
    /\ Goto("hang")
    /\ UNCHANGED << cache, cur, ptr, accept >>
(* The old files are deleted. *)
MultiDelete ==
    /\ op.pc = "multidel" /\ op.i <= Len(op.reqs)
    /\ IF op.create[op.i]
       THEN Step("multidel", op.i + 1) /\ UNCHANGED cache
       ELSE Goto("mdel") /\ cache' = SetFileState(cache, op.olds[op.i], {DELETED})
    /\ UNCHANGED << flash, lists, cur, ptr, accept, left >>
MultiDeleted ==
    /\ op.pc = "mdel" /\ WriteOk
    /\ Step("multidel", op.i + 1)
    /\ UNCHANGED << cache, lists, cur, ptr, accept >>
MultiDone ==
    /\ op.pc = "multidel" /\ op.i > Len(op.reqs)
    /\ UNCHANGED << flash, cache, lists, cur, ptr, left >>
    /\ ReturnSuccess

-----------------------------------------------------------------------------
Mount ==
    \/ PowerOn \/ ScanFree \/ ScanSkip \/ ScanBadHeader \/ ScanFile
    \/ ScanSuperseded \/ ScanMarked \/ ScanBadFile \/ ScanEnd
Ask ==
    \/ \E n \in Names : ReadFileAction(n)
    \/ GetNextFile
    \/ \E call \in Calls : WriteFile(call)
LookupFiles == LookupFile \/ DeleteMissing \/ LookedUp \/ MixedRefused
Delete == DeleteStart \/ DeleteDone \/ DeleteFailed
Update ==
    \/ UpdateStart \/ Marked \/ MarkFailed \/ OldDeleted \/ OldNotDeleted
Create ==
    \/ CreateStart \/ CreateRefused \/ CreateInFree \/ CreateFailed
    \/ PadConstructed \/ PadNotConstructed \/ PadWritten \/ PadValid \/ PadNotValid
    \/ HeaderAllocated \/ HeaderWritten \/ HeaderMadeValid \/ DataWritten \/ DataMadeValid
InsidePad ==
    \/ CreateInPad \/ PadMarked \/ PadNotMarked \/ AreaWritten
    \/ PadReplaced \/ PadNotReplaced \/ AreaFailed
Multiple ==
    \/ MultiCreate \/ MultiUpdate \/ MultiMarked \/ MultiFailed \/ MultiNoRoom
    \/ MultiInPad \/ MultiPadMarked \/ MultiInFree \/ FillNext \/ FillRefused
    \/ PadFilled \/ MultiAreaWritten \/ MultiPadInvalid \/ Unlink \/ MultiPadReplaced
    \/ FreeFilled \/ MultiFreeWritten
    \/ MultiDelete \/ MultiDeleted \/ MultiDone

(* The steps the driver takes by itself once it has been called. *)
Work == LookupFiles \/ AllDone \/ OldMissing \/ Delete \/ Update \/ Create \/ InsidePad \/ Multiple

Next == Mount \/ Ask \/ Work \/ PowerLoss

Spec == Init /\ [][Next]_vars
(* The driver is not preempted: a call and a mount run on. *)
FairSpec == Spec /\ WF_vars(Mount \/ Work)

-----------------------------------------------------------------------------
PCs == {"off", "scan", "scanmark", "corrupt", "ready", "lookup", "file", "delete", "mark",
        "create", "pad1", "pad2", "pad3", "new1", "new2", "new3", "new4", "new5",
        "in1", "in2", "in3", "del", "multi", "mmark", "mp1", "fillpad", "mp2", "mp3",
        "unlink", "fillfree", "mf1", "hang", "multidel", "mdel"}
Entry == [start : Nat, len : Int]
Content == Seq(Data \cup {Nil})

OpType ==
    [pc : PCs, reqs : Seq(Requests), i : Nat, create : Seq(BOOLEAN), old : Nat,
     reliable : BOOLEAN, olds : Seq(Nat), pos : Nat, pad : Nat, len : Int, fl : Nat,
     al : Seq(Nat \ {0}), news : Seq(Nat)]

TypeOK ==
    /\ flash \in Volume /\ cache \in Volume
    /\ free \in Seq(Entry) /\ files \in Seq(Nat)
    /\ cur \in Nat \cup {Nil} /\ ptr \in Nat
    /\ op \in OpType
    /\ accept \in [Names -> SUBSET Content]
    /\ left \in Budget

(* Where a call has come to: every function finds in its variables what    *)
(* it uses of them.                                                        *)
ForOneFile == {"delete", "mark", "create", "pad1", "pad2", "pad3", "new1", "new2", "new3",
               "new4", "new5", "in1", "in2", "in3", "del"}
InFreeSpace == {"pad1", "pad2", "pad3", "new1", "new2", "new3", "new4", "new5", "fillfree", "mf1"}
ForAllFiles == {"mp1", "fillpad", "mp2", "mp3", "unlink", "fillfree", "mf1", "multidel", "mdel"}
ProgressOK ==
    /\ op.pc \in ForOneFile \cup {"mmark", "mdel"} => op.i \in DOMAIN op.reqs
    /\ op.pc \in {"lookup", "file", "multi", "fillpad", "fillfree", "unlink", "multidel"} => op.i > 0
    /\ op.pc \in {"pad1", "pad2", "pad3"} => op.len >= Hdr
    /\ op.pc \in ForAllFiles \cup {"multi", "mmark"} => Len(op.reqs) > 0
    /\ op.pc = "lookup" => op.olds = << >>
    /\ op.pc = "multi" => Len(op.olds) = op.i - 1 /\ op.i <= Len(op.reqs) + 1
    /\ op.pc = "mmark" => Len(op.olds) = op.i
    /\ op.pc \in ForAllFiles => Len(op.olds) = Len(op.reqs)
    /\ op.pc \in {"mp1", "fillpad", "fillfree"} => Len(op.al) = Len(op.reqs)
    /\ op.pc \in {"fillpad", "fillfree"} => Len(op.news) >= op.i - 1
    /\ op.pc \in InFreeSpace => op.fl \in DOMAIN free
    /\ op.pc = "fillfree" => op.pos >= free[op.fl].start
    /\ op.pc = "mf1" => op.len >= 0

(* Where the current file is: among the entries that are to replace that   *)
(* of a pad file, or in the list of files.  After a reliable write into    *)
(* free space it is nowhere: that call never returns.                      *)
Entries(list) == {list[j] : j \in DOMAIN list}
Replacing == {"in2", "in3", "mp2", "mp3", "unlink"}
Astray == {"mf1", "hang"}
CurrentOK ==
    /\ op.pc \in Replacing => cur \in Entries(op.news)
    /\ op.pc \notin Replacing \cup Astray => cur \in Entries(files) \cup {Nil}

InService == op.pc = "ready"

(* The file that was used last is in the list of files whenever a call can *)
(* come: its entry was not freed while CurrentFfsFile still pointed to it  *)
(* (FvDeleteFile, the error paths of FwPadFile.c).                         *)
CurrentFileListed ==
    InService => cur \in Entries(files) \cup {Nil}

(* Whenever a call can come, a name reads as what the last successful call *)
(* wrote or, after calls that failed or were cut short, as what it read as *)
(* before or what one of them was writing; what was read once is settled.  *)
OldOrNew ==
    InService => \A n \in Names : ReadFile(n) \in accept[n]

(* A file no call ever named reads as it did at the first mount. *)
OthersKept ==
    InService => \A n \in Names \ {r.name : r \in Requests} : ReadFile(n) \in accept[n]

Extent(p) == p .. p + FileSize(cache, p) - 1
Whole(j) == files[j] + FileSize(cache, files[j]) <= N

(* No write, complete or not, touches the header or the data of a file in  *)
(* the list but for its state: new files, pad files and the area of a      *)
(* consumed pad file never overlap a file that can be read.                *)
LiveFilesUntouched ==
    [][\A j \in DOMAIN files :
          ~IsPad(cache, files[j]) /\ Whole(j) =>
             \A q \in Extent(files[j]) \ {files[j] + 2} : flash'[q] = flash[q]]_vars

(* Whenever a call can come, the free space the driver hands out next is   *)
(* erased in flash and apart from every file, also after calls that failed *)
(* half-way: CreateFailed leaves what was started outside of it.           *)
FreeSpaceErased ==
    InService =>
        \A i \in DOMAIN free :
           LET region == free[i].start .. free[i].start + free[i].len - 1
           IN  /\ \A q \in region : flash[q] = Erased /\ cache[q] = Erased
               /\ \A j \in DOMAIN files : region \cap Extent(files[j]) = {}

(* Whenever a call can come, the copy in memory of a listed file is what   *)
(* the flash holds: what a failed write left undone is undone in memory.   *)
(* Only the mark for update may differ, which an update repeated after one *)
(* that found no room toggles off.                                         *)
CacheMatchesFlash ==
    InService => \A j \in DOMAIN files : \A q \in Extent(files[j]) \cap Pos :
        /\ cache[q] = WithState(flash[q], cache[q].st)
        /\ cache[q].st \ {MARKED_FOR_UPDATE} = flash[q].st \ {MARKED_FOR_UPDATE}

IntactIn(bit) == {p \in 0 .. N - Hdr : VerifyHeaderChecksum(flash, p) /\ GetFileState(flash, p) = bit}

(* A mount gives the volume up only over a file whose header was made      *)
(* valid and whose data was not.                                           *)
CorruptOnlyIfTorn ==
    op.pc = "corrupt" => IntactIn(HEADER_VALID) # {}

(* A file in flash is in state DATA_VALID only when its data are there: a  *)
(* write cut short is not taken for a file.                                *)
DataOf(p) ==
    LET from == p + FileHdr(flash, p)
        next == p + FileSize(flash, p)
    IN  IF next <= N THEN from .. next - 1 ELSE {from}
ValidMeansWritten ==
    \A p \in IntactIn(DATA_VALID) :
        NameOf(flash, p) # Pad => \A q \in DataOf(p) : flash[q].k = "data"

(* No two valid copies of a file are ever in flash: the old one is marked  *)
(* for update before the new one is made, and stays so.                    *)
OneValidCopy ==
    \A p, q \in IntactIn(DATA_VALID) :
        NameOf(flash, p) = NameOf(flash, q) /\ NameOf(flash, p) # Pad => p = q

(* The header of the volume is never written. *)
VolumeHeaderIntact == \A q \in 0 .. FvHdr - 1 : flash[q] = FvHeaderCell

(* Every call of FvWriteFile returns, unless the power is lost. *)
CallsReturn == op.pc = "lookup" ~> op.pc \in {"ready", "off"}
=============================================================================
