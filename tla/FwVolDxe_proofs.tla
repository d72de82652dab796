--------------------------- MODULE FwVolDxe_proofs ---------------------------
(***************************************************************************)
(* Proofs about FwVolDxe, for volumes, calls and budgets of every size.    *)
(*                                                                         *)
(* TypeOK is not inductive: a function uses what earlier steps left in its *)
(* variables.  TypeOK with ProgressOK is.  The lemmas come first: what the *)
(* operators of the format return, types of what the steps compute, then   *)
(* one lemma for every group of actions.                                   *)
(***************************************************************************)
EXTENDS FwVolDxe, SequenceTheorems, WellFoundedInduction, TLAPS

-----------------------------------------------------------------------------
(* What the operators of the format return, for volumes of every size. *)

(* A set of natural numbers that is not empty has its smallest element. *)
LEMMA MinIsIn ==
    ASSUME NEW S \in SUBSET Nat, S # {}
    PROVE  Min(S) \in S /\ \A y \in S : Min(S) <= y
<1> DEFINE R == OpToRel(<, Nat)
<1>1. IsWellFoundedOn(R, Nat)
  BY NatLessThanWellFounded
<1>2. \A y, m \in Nat : << y, m >> \notin R => m <= y
  BY DEF OpToRel
<1> HIDE DEF R
<1>3. PICK m \in S : \A y \in S : ~ (<< y, m >> \in R)
  BY <1>1, WFMin, Zenon
<1>4. \A y \in S : m <= y
  BY <1>2, <1>3
<1> QED BY <1>4 DEF Min

(* A set of natural numbers up to k that is not empty has its largest. *)
LEMMA MaxIsIn ==
    ASSUME NEW k \in Nat, NEW S \in SUBSET (0 .. k), S # {}
    PROVE  Max(S) \in S /\ \A y \in S : Max(S) >= y
<1> DEFINE T == {k - y : y \in S}
<1>1. T \in SUBSET Nat /\ T # {}
  <2>1. T \in SUBSET Nat
    OBVIOUS
  <2>2. PICK y \in S : TRUE
    OBVIOUS
  <2>3. k - y \in T
    OBVIOUS
  <2> QED BY <2>1, <2>3
<1>2. Min(T) \in T /\ \A y \in T : Min(T) <= y
  BY <1>1, MinIsIn
<1>3. PICK m \in S : Min(T) = k - m
  BY <1>2
<1>4. \A y \in S : m >= y
  <2> TAKE y \in S
  <2>1. k - y \in T
    OBVIOUS
  <2>2. k - m <= k - y
    BY <1>2, <1>3, <2>1
  <2> QED BY <2>2
<1>5. \A x \in S : (\A y \in S : x >= y) => x = m
  BY <1>4
<1> QED BY <1>4, <1>5 DEF Max

-----------------------------------------------------------------------------
(* Cells. *)

LEMMA BitsTypes ==
    /\ HEADER_CONSTRUCTION \in Bits /\ HEADER_VALID \in Bits /\ DATA_VALID \in Bits
    /\ MARKED_FOR_UPDATE \in Bits /\ DELETED \in Bits /\ HEADER_INVALID \in Bits
BY DEF Bits, HEADER_CONSTRUCTION, HEADER_VALID, DATA_VALID, MARKED_FOR_UPDATE, DELETED,
       HEADER_INVALID

LEMMA WithStateType ==
    ASSUME NEW c \in Cell, NEW st \in SUBSET Bits
    PROVE  WithState(c, st) \in Cell
BY DEF WithState, Cell

LEMMA CellState ==
    ASSUME NEW c \in Cell
    PROVE  c.st \in SUBSET Bits
BY DEF Cell

LEMMA ErasedTypes ==
    /\ \A st \in SUBSET Bits : StateCell(st) \in Cell
    /\ Erased \in Cell
    /\ \A d \in Data : DataCell(d) \in Cell
BY DEF StateCell, Erased, DataCell, Cell

LEMMA StateType ==
    ASSUME NEW vol \in Volume, NEW p \in Int
    PROVE  State(vol, p) \in SUBSET Bits
BY CellState DEF State, Volume

(* Changing the state of a header leaves a volume. *)
LEMMA SetFileStateType ==
    ASSUME NEW vol \in Volume, NEW p \in Int, NEW bits \in SUBSET Bits
    PROVE  SetFileState(vol, p, bits) \in Volume
<1>1. CASE p + 2 \notin Pos
  BY <1>1 DEF SetFileState, Volume
<1>2. CASE p + 2 \in Pos
  <2>1. vol[p + 2] \in Cell
    BY <1>2 DEF Volume
  <2>2. vol[p + 2].st \in SUBSET Bits
    BY <2>1, CellState
  <2>3. WithState(vol[p + 2], (vol[p + 2].st \ bits) \cup (bits \ vol[p + 2].st)) \in Cell
    BY <2>1, <2>2, WithStateType
  <2> QED BY <2>3, <1>2 DEF SetFileState, Volume
<1> QED BY <1>1, <1>2

(* Copying cells leaves a volume. *)
LEMMA CopyMemType ==
    ASSUME NEW vol \in Volume, NEW at \in Int, NEW cells \in Seq(Cell)
    PROVE  CopyMem(vol, at, cells) \in Volume
<1>1. \A q \in Pos : q \in at .. at + Len(cells) - 1 => cells[q - at + 1] \in Cell
  BY DEF Pos
<1> QED BY <1>1 DEF CopyMem, Volume

-----------------------------------------------------------------------------
(* Headers and files. *)

LEMMA HeaderType ==
    ASSUME NEW name \in Names \cup {Pad}, NEW size \in Nat
    PROVE  /\ Header(name, size) \in Headers
           /\ HdrLen(size) \in 3 .. 4
BY SizesAssumption DEF Header, Headers, HdrLen, Hdr

LEMMA HeaderCellsType ==
    ASSUME NEW h \in Headers, NEW st \in SUBSET Bits
    PROVE  /\ HeaderCells(h, st) \in Seq(Cell)
           /\ Len(HeaderCells(h, st)) = IF h.large THEN 4 ELSE 3
<1> DEFINE cell(k, s) == [k |-> k, v |-> h, st |-> s]
<1>1. \A k \in {"guid1", "guid2", "info", "ext"} : \A s \in SUBSET Bits : cell(k, s) \in Cell
  BY DEF Cell
<1>2. << cell("guid1", Bits), cell("guid2", Bits), cell("info", st) >> \in Seq(Cell)
  BY <1>1
<1>3. << cell("ext", Bits) >> \in Seq(Cell)
  BY <1>1
<1> QED BY <1>2, <1>3 DEF HeaderCells

LEMMA ErasedHeaderCellsType ==
    ASSUME NEW size \in Nat, NEW st \in SUBSET Bits
    PROVE  ErasedHeaderCells(size, st) \in Seq(Cell)
<1>1. << Erased, Erased, StateCell(st) >> \in Seq(Cell) /\ << Erased >> \in Seq(Cell)
  BY ErasedTypes
<1> QED BY <1>1 DEF ErasedHeaderCells

LEMMA DataCellsType ==
    ASSUME NEW content \in Seq(Data)
    PROVE  /\ [j \in DOMAIN content |-> DataCell(content[j])] \in Seq(Cell)
           /\ Len([j \in DOMAIN content |-> DataCell(content[j])]) = Len(content)
<1>1. \A j \in DOMAIN content : DataCell(content[j]) \in Cell
  BY ErasedTypes
<1> QED BY <1>1

LEMMA ErasedCellsType ==
    ASSUME NEW n \in Int
    PROVE  [j \in 1 .. n |-> Erased] \in Seq(Cell)
<1>1. Erased \in Cell
  BY ErasedTypes
<1>2. CASE n \in Nat
  BY <1>1, <1>2
<1>3. CASE n \notin Nat
  <2>1. [j \in 1 .. n |-> Erased] = [j \in 1 .. 0 |-> Erased]
    BY <1>3
  <2> QED BY <2>1, <1>1
<1> QED BY <1>2, <1>3

LEMMA FileCellsType ==
    ASSUME NEW h \in Headers, NEW st \in SUBSET Bits, NEW content \in Seq(Data)
    PROVE  FileCells(h, st, content) \in Seq(Cell)
BY HeaderCellsType, DataCellsType DEF FileCells

(* Whatever is at p, its size and that of its header are numbers. *)
LEMMA FileSizeType ==
    ASSUME NEW vol \in Volume, NEW p \in Int
    PROVE  /\ FileSize(vol, p) \in Nat
           /\ FileHdr(vol, p) \in 3 .. 4
<1>1. FileHdr(vol, p) \in 3 .. 4
  BY DEF FileHdr, Hdr
<1>2. CASE HasInfo(vol, p)
  <2>1. vol[p + 2] \in Cell /\ vol[p + 2].k = "info"
    BY <1>2 DEF HasInfo, Volume
  <2>2. vol[p + 2].v.size \in Nat
    BY <2>1 DEF Cell, Headers
  <2> QED BY <1>1, <1>2, <2>2 DEF FileSize
<1>3. CASE ~HasInfo(vol, p)
  BY <1>1, <1>3, SizesAssumption DEF FileSize, ErasedSize
<1> QED BY <1>2, <1>3

(* What is read of a file is data and cells that hold none. *)
LEMMA FileContentType ==
    ASSUME NEW vol \in Volume, NEW p \in Int
    PROVE  FileContent(vol, p) \in Seq(Data \cup {Nil})
<1> DEFINE n == FileSize(vol, p) - FileHdr(vol, p)
           byte(j) == LET q == p + FileHdr(vol, p) + j - 1
                      IN  IF q \in Pos /\ vol[q].k = "data" THEN vol[q].v ELSE Nil
<1>1. n \in Int
  BY FileSizeType
<1>2. \A j \in 1 .. n : byte(j) \in Data \cup {Nil}
  <2> TAKE j \in 1 .. n
  <2> DEFINE q == p + FileHdr(vol, p) + j - 1
  <2>1. q \in Pos => vol[q] \in Cell
    BY DEF Volume
  <2>2. \A c \in Cell : c.k = "data" => c.v \in Data \cup {Nil}
    BY DEF Cell
  <2> QED BY <2>1, <2>2
<1>3. FileContent(vol, p) = [j \in 1 .. n |-> byte(j)]
  BY DEF FileContent
<1> HIDE DEF n, byte
<1>4. CASE n \in Nat
  BY <1>2, <1>3, <1>4
<1>5. CASE n \notin Nat
  <2>1. [j \in 1 .. n |-> byte(j)] = << >>
    BY <1>1, <1>5
  <2>2. << >> \in Seq(Data \cup {Nil})
    OBVIOUS
  <2> QED BY <2>1, <2>2, <1>3, Zenon
<1> QED BY <1>4, <1>5

(* The pad file before a file is absent or has room for its header. *)
LEMMA MisalignedType ==
    ASSUME NEW q \in Nat, NEW align \in Nat \ {0}
    PROVE  Misaligned(q, align) \in Nat
<1>1. \A n \in Int : n % align \in 0 .. align - 1
  OBVIOUS
<1>2. align - (q % align) \in Int
  BY <1>1
<1> QED BY <1>1, <1>2 DEF Misaligned

LEMMA CalculatePadFileSizeType ==
    ASSUME NEW p \in Nat, NEW size \in Nat, NEW align \in Nat \ {0}
    PROVE  /\ CalculatePadFileSize(p, size, align) \in Nat
           /\ CalculatePadFileSize(p, size, align) # 0 =>
                 CalculatePadFileSize(p, size, align) >= Hdr
<1>1. HdrLen(size) \in Nat
  BY DEF HdrLen, Hdr
<1>2. \A n \in Nat : Misaligned(n, align) \in Nat
  BY MisalignedType
<1> QED BY <1>1, <1>2 DEF CalculatePadFileSize, Hdr

-----------------------------------------------------------------------------
(* Requests and records of the call. *)

LEMMA RequestTypes ==
    ASSUME NEW r \in Requests
    PROVE  /\ r.name \in Names /\ r.data \in Seq(Data) /\ r.align \in Nat /\ r.ok \in BOOLEAN
           /\ SizeOf(r) \in Nat /\ AlignOf(r) \in Nat \ {0} /\ HdrOf(r) \in 3 .. 4
           /\ HeaderOf(r) \in Headers
           /\ HdrOf(r) <= SizeOf(r)
<1>1. r \in Request
  BY ParametersAssumption
<1>2. r.name \in Names /\ r.data \in Seq(Data) /\ r.align \in Nat /\ r.ok \in BOOLEAN
  BY <1>1 DEF Request
<1>3. SizeOf(r) \in Nat /\ AlignOf(r) \in Nat \ {0}
  BY <1>2 DEF SizeOf, AlignOf, Hdr
<1>4. HdrOf(r) \in 3 .. 4 /\ HeaderOf(r) \in Headers
  BY <1>2, <1>3, HeaderType DEF HdrOf, HeaderOf
<1>5. HdrOf(r) <= SizeOf(r)
  BY <1>2, SizesAssumption DEF HdrOf, HdrLen, SizeOf, Hdr
<1> QED BY <1>2, <1>3, <1>4, <1>5

LEMMA IdleType ==
    ASSUME NEW pc \in PCs
    PROVE  Idle(pc) \in OpType /\ Idle(pc).pc = pc
<1>1. << >> \in Seq(Requests) /\ << >> \in Seq(BOOLEAN) /\ << >> \in Seq(Nat)
      /\ << >> \in Seq(Nat \ {0}) /\ 0 \in Nat /\ 0 \in Int /\ FALSE \in BOOLEAN
  OBVIOUS
<1> QED BY <1>1, Zenon DEF Idle, OpType

LEMMA GotoType ==
    ASSUME op \in OpType, NEW pc \in PCs, Goto(pc)
    PROVE  /\ op' \in OpType /\ op'.pc = pc
           /\ op'.reqs = op.reqs /\ op'.i = op.i /\ op'.create = op.create /\ op'.old = op.old
           /\ op'.olds = op.olds /\ op'.pos = op.pos /\ op'.pad = op.pad /\ op'.len = op.len
           /\ op'.fl = op.fl /\ op'.al = op.al /\ op'.news = op.news
BY Zenon DEF Goto, OpType

LEMMA StepType ==
    ASSUME op \in OpType, NEW pc \in PCs, NEW i \in Nat, Step(pc, i)
    PROVE  /\ op' \in OpType /\ op'.pc = pc /\ op'.i = i
           /\ op'.reqs = op.reqs /\ op'.create = op.create /\ op'.old = op.old
           /\ op'.olds = op.olds /\ op'.pos = op.pos /\ op'.pad = op.pad /\ op'.len = op.len
           /\ op'.fl = op.fl /\ op'.al = op.al /\ op'.news = op.news
BY Zenon DEF Step, OpType

LEMMA NextFileType ==
    ASSUME op \in OpType, NextFile
    PROVE  op' \in OpType /\ op'.pc = "file" /\ op'.i = op.i + 1
<1>1. Idle("file") \in OpType
  BY IdleType DEF PCs
<1>2. op.i + 1 \in Nat /\ op.reqs \in Seq(Requests) /\ op.create \in Seq(BOOLEAN)
  BY DEF OpType
<1>3. Idle("file").pc = "file"
  BY DEF Idle
<1>4. op' = [Idle("file") EXCEPT !.reqs = op.reqs, !.i = op.i + 1, !.create = op.create]
  BY DEF NextFile
<1> QED BY <1>1, <1>2, <1>3, <1>4, Zenon DEF OpType

(* The field types of the call. *)
LEMMA OpFields ==
    ASSUME op \in OpType
    PROVE  /\ op.pc \in PCs /\ op.reqs \in Seq(Requests) /\ op.i \in Nat
           /\ op.create \in Seq(BOOLEAN) /\ op.old \in Nat /\ op.reliable \in BOOLEAN
           /\ op.olds \in Seq(Nat) /\ op.pos \in Nat /\ op.pad \in Nat /\ op.len \in Int
           /\ op.fl \in Nat /\ op.al \in Seq(Nat \ {0}) /\ op.news \in Seq(Nat)
BY Zenon DEF OpType

LEMMA ReqType ==
    ASSUME op \in OpType, op.i \in DOMAIN op.reqs
    PROVE  Req \in Requests
BY OpFields DEF Req

-----------------------------------------------------------------------------
(* Lists of files. *)

LEMMA SpliceType ==
    ASSUME NEW list \in Seq(Nat), NEW j \in DOMAIN list, NEW news \in Seq(Nat)
    PROVE  /\ Splice(list, j, news) \in Seq(Nat)
           /\ Without(list, j) \in Seq(Nat)
<1>1. SubSeq(list, 1, j - 1) \in Seq(Nat) /\ SubSeq(list, j + 1, Len(list)) \in Seq(Nat)
  OBVIOUS
<1> QED BY <1>1 DEF Splice, Without

LEMMA EntriesType ==
    ASSUME NEW p \in Nat, NEW size \in Int
    PROVE  LeadEntry(p, size) \in Seq(Nat) /\ TailEntry(p, size) \in Seq(Nat)
BY DEF LeadEntry, TailEntry

LEMMA ShrinkType ==
    ASSUME free \in Seq(Entry), NEW j \in DOMAIN free, NEW len \in Nat
    PROVE  Shrink(j, len) \in Seq(Entry) /\ DOMAIN Shrink(j, len) = DOMAIN free
<1>1. free[j] \in Entry
  OBVIOUS
<1>2. free[j].start \in Nat /\ free[j].len \in Int
  BY <1>1, Zenon DEF Entry
<1>3. free[j].start + len \in Nat /\ free[j].len - len \in Int
  BY <1>2
<1>4. [start |-> free[j].start + len, len |-> free[j].len - len] \in Entry
  BY <1>3, Zenon DEF Entry
<1> QED BY <1>4 DEF Shrink

(* Looking up finds a position of the list, or nothing. *)
LEMMA SearchType ==
    ASSUME files \in Seq(Nat), NEW c \in Nat \cup {Nil}, NEW n
    PROVE  /\ SearchFile(n) \in Nat \cup {Nil}
           /\ CurAfterSearch(c, n) \in Nat \cup {Nil}
           /\ Lookup(c, n) \in Nat \cup {Nil}
           /\ CurAfterLookup(c, n) \in Nat \cup {Nil}
<1>1. SearchFile(n) \in Nat \cup {Nil}
  <2>1. Listed(files, n) \in SUBSET DOMAIN files /\ Listed(files, n) \in SUBSET Nat
    BY DEF Listed
  <2>2. Listed(files, n) # {} => Min(Listed(files, n)) \in Listed(files, n)
    BY <2>1, MinIsIn
  <2> QED BY <2>1, <2>2 DEF SearchFile
<1>2. CurAfterSearch(c, n) \in Nat \cup {Nil}
  <2> DEFINE seen == {j \in DOMAIN files : ~IsPad(cache, files[j])}
  <2>1. seen \in SUBSET (0 .. Len(files)) /\ seen \in SUBSET DOMAIN files /\ Len(files) \in Nat
    OBVIOUS
  <2>2. seen # {} => Max(seen) \in seen
    BY <2>1, MaxIsIn
  <2>3. seen # {} => files[Max(seen)] \in Nat
    BY <2>1, <2>2
  <2> HIDE DEF seen
  <2> QED BY <1>1, <2>3 DEF CurAfterSearch, seen
<1> QED BY <1>1, <1>2 DEF Lookup, CurAfterLookup

(* What a name reads as is content. *)
LEMMA ReadFileType ==
    cache \in Volume /\ files \in Seq(Nat) /\ cur \in Nat \cup {Nil}
        => \A n \in Names : ReadFile(n) \in Content
<1> SUFFICES ASSUME cache \in Volume, files \in Seq(Nat), cur \in Nat \cup {Nil}, NEW n \in Names
             PROVE  ReadFile(n) \in Content
  OBVIOUS
<1>1. Lookup(cur, n) \in Nat \cup {Nil}
  BY SearchType
<1>2. CASE Lookup(cur, n) = Nil
  <2>1. << >> \in Content
    BY DEF Content
  <2> QED BY <1>2, <2>1 DEF ReadFile
<1>3. CASE Lookup(cur, n) # Nil
  <2>1. Lookup(cur, n) \in Int
    BY <1>1, <1>3
  <2>2. FileContent(cache, Lookup(cur, n)) \in Content
    BY <2>1, FileContentType DEF Content
  <2> QED BY <1>3, <2>2 DEF ReadFile
<1> QED BY <1>2, <1>3

LEMMA ReadFileTypeNext ==
    ASSUME cache' \in Volume, files' \in Seq(Nat), cur' \in Nat \cup {Nil}
    PROVE  \A n \in Names : ReadFile(n)' \in Content
<1>1. (cache \in Volume /\ files \in Seq(Nat) /\ cur \in Nat \cup {Nil})'
         => (\A n \in Names : ReadFile(n) \in Content)'
  BY ReadFileType, PTL
<1> QED BY <1>1

(* The end of a call. *)
LEMMA ReturnType ==
    ASSUME accept \in [Names -> SUBSET Content],
           cache' \in Volume, files' \in Seq(Nat), cur' \in Nat \cup {Nil}, Return
    PROVE  /\ op' \in OpType /\ op'.pc = "ready"
           /\ accept' \in [Names -> SUBSET Content]
<1>1. \A n \in Names : Settled(accept, n) \in SUBSET Content
  BY ReadFileTypeNext DEF Settled
<1>2. op' = Idle("ready") /\ "ready" \in PCs
  BY DEF Return, PCs
<1> QED BY <1>1, <1>2, IdleType DEF Return

LEMMA ReturnSuccessType ==
    ASSUME accept \in [Names -> SUBSET Content], op \in OpType,
           cache' \in Volume, files' \in Seq(Nat), cur' \in Nat \cup {Nil}, ReturnSuccess
    PROVE  /\ op' \in OpType /\ op'.pc = "ready"
           /\ accept' \in [Names -> SUBSET Content]
<1> DEFINE last(n) == Max({j \in DOMAIN op.reqs : op.reqs[j].name = n})
           written == {op.reqs[j].name : j \in DOMAIN op.reqs}
<1>1. \A n \in Names : Settled(accept, n) \in SUBSET Content
  BY ReadFileTypeNext DEF Settled
<1>2. \A n \in written : {op.reqs[last(n)].data} \in SUBSET Content
  <2> TAKE n \in written
  <2> DEFINE S == {j \in DOMAIN op.reqs : op.reqs[j].name = n}
  <2>1. S \in SUBSET (0 .. Len(op.reqs)) /\ Len(op.reqs) \in Nat /\ S # {}
    BY OpFields
  <2>2. Max(S) \in S
    BY <2>1, MaxIsIn
  <2>3. op.reqs[Max(S)] \in Requests
    <3>1. Max(S) \in DOMAIN op.reqs
      BY <2>2
    <3>2. op.reqs \in Seq(Requests)
      BY OpFields
    <3> HIDE DEF S
    <3> QED BY <3>1, <3>2
  <2>4. op.reqs[Max(S)].data \in Seq(Data)
    BY <2>3, RequestTypes
  <2>5. Seq(Data) \subseteq Content
    BY DEF Content
  <2> QED BY <2>4, <2>5
<1>3. op' = Idle("ready") /\ "ready" \in PCs
  BY DEF ReturnSuccess, PCs
<1>4. accept' = [n \in Names |-> IF n \in written THEN {op.reqs[last(n)].data}
                                                  ELSE Settled(accept, n)]
  BY DEF ReturnSuccess
<1> HIDE DEF last, written
<1> QED BY <1>1, <1>2, <1>3, <1>4, IdleType

-----------------------------------------------------------------------------
(* The write in progress. *)

GoodWrite(w) ==
    /\ w.at \in Int /\ Len(w.cells) \in Nat
    /\ \A j \in 1 .. Len(w.cells) : w.at + j - 1 \in Pos => w.cells[j] \in Cell
    /\ w.byte => w.cells[1].st \in SUBSET Bits

LEMMA StateWriteGood ==
    ASSUME NEW at \in Int, NEW st \in SUBSET Bits
    PROVE  GoodWrite(StateWrite(at, st))
<1>1. StateCell(st) \in Cell /\ StateCell(st).st = st
  BY ErasedTypes DEF StateCell
<1> QED BY <1>1 DEF GoodWrite, StateWrite

LEMMA CellsWriteGood ==
    ASSUME NEW at \in Int, NEW cells \in Seq(Cell)
    PROVE  GoodWrite(CellsWrite(at, cells))
BY DEF GoodWrite, CellsWrite

LEMMA SliceWriteGood ==
    ASSUME cache \in Volume, NEW at \in Int, NEW len \in Int
    PROVE  GoodWrite(CellsWrite(at, Slice(cache, at, len)))
<1>1. CASE len \in Nat
  <2>1. Len(Slice(cache, at, len)) = len
    BY <1>1 DEF Slice
  <2>2. \A j \in 1 .. len : at + j - 1 \in Pos => Slice(cache, at, len)[j] \in Cell
    BY DEF Slice, Volume
  <2> QED BY <1>1, <2>1, <2>2 DEF GoodWrite, CellsWrite
<1>2. CASE len \notin Nat
  <2>1. Slice(cache, at, len) = << >>
    BY <1>2 DEF Slice
  <2> QED BY <2>1 DEF GoodWrite, CellsWrite
<1> QED BY <1>1, <1>2

(* Every write that may be pending is one of cells, or of a state. *)
LEMMA PadAreaType ==
    ASSUME cache \in Volume, NEW p \in Nat
    PROVE  PadArea(p) \in Nat /\ PadArea(p) >= p
<1>1. FileHdr(cache, p) \in 3 .. 4
  BY FileSizeType
<1> QED BY <1>1 DEF PadArea

LEMMA HeaderStates ==
    /\ Constructed \in SUBSET Bits /\ HeaderValid \in SUBSET Bits /\ DataValid \in SUBSET Bits
BY BitsTypes DEF Constructed, HeaderValid, DataValid

LEMMA PendingWriteGood ==
    ASSUME TypeOK, ProgressOK
    PROVE  GoodWrite(PendingWrite)
<1>a. cache \in Volume /\ free \in Seq(Entry) /\ op \in OpType
  BY DEF TypeOK
<1>b. /\ op.pos \in Nat /\ op.pad \in Nat /\ op.old \in Nat /\ op.len \in Int
      /\ op.olds \in Seq(Nat) /\ ptr \in Nat
  BY <1>a, OpFields DEF TypeOK
<1>1. \A p \in Int : GoodWrite(FvcWriteState(p)) /\ GoodWrite(UpdateHeaderBit(p))
  <2> TAKE p \in Int
  <2>1. State(cache, p) \in SUBSET Bits
    BY <1>a, StateType
  <2> QED BY <2>1, StateWriteGood DEF FvcWriteState, UpdateHeaderBit
<1>2. \A at, len \in Int : GoodWrite(CellsWrite(at, Slice(cache, at, len)))
  BY <1>a, SliceWriteGood
<1>3. op.pc \in ForOneFile => Req \in Requests
  BY <1>a, ReqType DEF ProgressOK
<1>4. CASE op.pc \in {"pad1", "pad3"}
  BY <1>4, <1>b, <1>1 DEF PendingWrite
<1>5. CASE op.pc = "pad2"
  BY <1>5, <1>b, <1>2 DEF PendingWrite, Hdr
<1>6. CASE op.pc \in {"new1", "new3", "new5"}
  <2>1. op.pos + 2 \in Int
    BY <1>b
  <2>2. \A st \in {Constructed, HeaderValid, DataValid} : GoodWrite(StateWrite(op.pos + 2, st))
    BY <2>1, HeaderStates, StateWriteGood
  <2> QED BY <1>6, <2>2 DEF PendingWrite
<1>7. CASE op.pc = "new2"
  <2>1. HeaderCells(HeaderOf(Req), Constructed) \in Seq(Cell)
    BY <1>3, <1>7, RequestTypes, HeaderStates, HeaderCellsType DEF ForOneFile
  <2> QED BY <1>7, <1>b, <2>1, CellsWriteGood DEF PendingWrite
<1>8. CASE op.pc = "new4"
  <2>1. FileCells(HeaderOf(Req), HeaderValid, Req.data) \in Seq(Cell)
    BY <1>3, <1>8, RequestTypes, HeaderStates, FileCellsType DEF ForOneFile
  <2> QED BY <1>8, <1>b, <2>1, CellsWriteGood DEF PendingWrite
<1>9. CASE op.pc \in {"mark", "del", "delete"}
  BY <1>9, <1>b, <1>1 DEF PendingWrite
<1>10. CASE op.pc \in {"in1", "in3"}
  BY <1>10, <1>b, <1>1 DEF PendingWrite
<1>11. CASE op.pc \in {"in2", "mp2"}
  <2>1. \A p \in Nat : PadArea(p) \in Nat
    BY <1>a, PadAreaType
  <2>2. PadArea(op.pad) \in Int
    BY <1>b, <2>1
  <2> QED BY <1>11, <1>b, <1>2, <2>2 DEF PendingWrite
<1>12. CASE op.pc = "mf1"
  <2>1. op.fl \in DOMAIN free
    BY <1>12 DEF ProgressOK, InFreeSpace
  <2>2. free[op.fl] \in Entry
    BY <1>a, <2>1
  <2>3. free[op.fl].start \in Int
    BY <2>2 DEF Entry
  <2> QED BY <1>12, <1>b, <1>2, <2>3 DEF PendingWrite
<1>13. CASE op.pc = "scanmark"
  BY <1>13, <1>b, <1>1 DEF PendingWrite
<1>14. CASE op.pc \in {"mp1", "mp3"}
  BY <1>14, <1>b, <1>1 DEF PendingWrite
<1>15. CASE op.pc \in {"mmark", "mdel"}
  <2>1. op.i \in DOMAIN op.olds
    BY <1>15, <1>a, OpFields DEF ProgressOK, ForAllFiles
  <2>2. op.olds[op.i] \in Int
    BY <2>1, <1>b
  <2> QED BY <1>15, <1>1, <2>2 DEF PendingWrite
<1>16. GoodWrite(NoWrite)
  <2>1. << >> \in Seq(Cell) /\ 0 \in Int
    OBVIOUS
  <2> QED BY <2>1, CellsWriteGood DEF NoWrite
<1> QED
  BY <1>4, <1>5, <1>6, <1>7, <1>8, <1>9, <1>10, <1>11, <1>12, <1>13, <1>14, <1>15, <1>16
  DEF PendingWrite

(* A part of a write leaves a volume in flash. *)
LEMMA WrittenType ==
    ASSUME flash \in Volume, GoodWrite(PendingWrite), NEW n \in 0 .. Len(PendingWrite.cells)
    PROVE  Written(n) \in Volume
<1> DEFINE wr == PendingWrite
<1>1. \A c, new \in Cell : Program(c, new) \in Cell
  <2> TAKE c, new \in Cell
  <2>1. c.st \cup new.st \in SUBSET Bits
    BY CellState
  <2>2. [k |-> "junk", v |-> Nil, st |-> c.st \cup new.st] \in Cell
    BY <2>1 DEF Cell
  <2> QED BY <2>1, <2>2, WithStateType DEF Program
<1>2. \A c \in Cell, st \in SUBSET Bits : ProgramByte(c, st) \in Cell
  BY CellState, WithStateType DEF ProgramByte
<1>3. SUFFICES ASSUME NEW q \in Pos, q \in wr.at .. wr.at + n - 1
               PROVE  /\ ~wr.byte => Program(flash[q], wr.cells[q - wr.at + 1]) \in Cell
                      /\ wr.byte => ProgramByte(flash[q], wr.cells[1].st) \in Cell
  BY DEF Written, Volume
<1>4. flash[q] \in Cell
  BY DEF Volume
<1>5. ~wr.byte => wr.cells[q - wr.at + 1] \in Cell
  <2>1. wr.at \in Int /\ Len(wr.cells) \in Nat /\ n \in 0 .. Len(wr.cells) /\ q \in Int
    BY DEF GoodWrite, Pos
  <2>2. \A j \in 1 .. Len(wr.cells) : wr.at + j - 1 \in Pos => wr.cells[j] \in Cell
    BY DEF GoodWrite
  <2> HIDE DEF wr
  <2>3. q - wr.at + 1 \in 1 .. Len(wr.cells) /\ wr.at + (q - wr.at + 1) - 1 = q
    BY <1>3, <2>1
  <2> QED BY <1>3, <2>2, <2>3
<1>6. wr.byte => wr.cells[1].st \in SUBSET Bits
  BY DEF GoodWrite
<1> QED BY <1>1, <1>2, <1>4, <1>5, <1>6

LEMMA WriteType ==
    ASSUME TypeOK, ProgressOK, WriteOk \/ WriteFails
    PROVE  flash' \in Volume /\ left' \in Budget
<1>1. GoodWrite(PendingWrite)
  BY PendingWriteGood
<1>2. \A n \in 0 .. Len(PendingWrite.cells) : Written(n) \in Volume
  BY <1>1, WrittenType DEF TypeOK
<1>3. Len(PendingWrite.cells) \in 0 .. Len(PendingWrite.cells)
  BY <1>1 DEF GoodWrite
<1>4. flash' \in Volume
  BY <1>1, <1>2, <1>3 DEF WriteOk, WriteFails, TypeOK, GoodWrite
<1>5. left' \in Budget
  <2>1. CASE UNCHANGED left
    BY <2>1 DEF TypeOK
  <2>2. CASE left.fails > 0 /\ left' = [left EXCEPT !.fails = @ - 1]
    <3>1. left \in Budget
      BY DEF TypeOK
    <3>2. left.fails \in Nat
      BY <3>1, Zenon DEF Budget
    <3>3. left.fails - 1 \in Nat
      BY <2>2, <3>2
    <3> QED BY <2>2, <3>1, <3>3, Zenon DEF Budget
  <2> QED BY <2>1, <2>2 DEF WriteOk, WriteFails
<1> QED BY <1>4, <1>5

-----------------------------------------------------------------------------
(* Filling files in memory leaves a volume. *)

LEMMA FillPadFileType ==
    ASSUME NEW vol \in Volume, NEW p \in Int, NEW size \in Nat
    PROVE  FillPadFile(vol, p, size) \in Volume /\ WithPad(vol, p, size) \in Volume
<1>1. Header(Pad, size) \in Headers /\ State(vol, p) \in SUBSET Bits
  BY HeaderType, StateType
<1>2. HeaderCells(Header(Pad, size), State(vol, p)) \in Seq(Cell)
  BY <1>1, HeaderCellsType
<1>3. CopyMem(vol, p, HeaderCells(Header(Pad, size), State(vol, p))) \in Volume
  BY <1>2, CopyMemType
<1> QED BY <1>3, HeaderStates, SetFileStateType DEF FillPadFile, WithPad

LEMMA FillFfsFileType ==
    ASSUME NEW vol \in Volume, NEW p \in Int, NEW r \in Requests
    PROVE  FillFfsFile(vol, p, r) \in Volume
<1> DEFINE h == [name |-> r.name, large |-> FALSE, size |-> ErasedSize]
           ext == [j \in 1 .. HdrOf(r) - Hdr |-> Erased]
           data == [j \in DOMAIN r.data |-> DataCell(r.data[j])]
<1>1. h \in Headers
  BY RequestTypes, SizesAssumption DEF Headers, ErasedSize
<1>2. HeaderCells(h, DataValid) \in Seq(Cell)
  BY <1>1, HeaderStates, HeaderCellsType
<1>3. ext \in Seq(Cell)
  <2>1. HdrOf(r) - Hdr \in Int
    BY RequestTypes DEF Hdr
  <2> QED BY <2>1, ErasedCellsType
<1>4. data \in Seq(Cell)
  BY RequestTypes, DataCellsType
<1> HIDE DEF h, ext, data
<1>5. HeaderCells(h, DataValid) \o ext \o data \in Seq(Cell)
  BY <1>2, <1>3, <1>4
<1>6. CopyMem(vol, p, HeaderCells(h, DataValid) \o ext \o data) \in Volume
  BY <1>5, CopyMemType
<1> QED BY <1>6 DEF FillFfsFile, h, ext, data

LEMMA WithTailType ==
    ASSUME NEW vol \in Volume, NEW last \in Int, NEW tail \in Int, NEW len \in Int
    PROVE  WithTail(vol, last, tail, len) \in Volume
<1>1. len >= Hdr => FillPadFile(vol, tail, len) \in Volume
  BY FillPadFileType DEF Hdr
<1>2. AdjustFfsFile(vol, last, len) \in Volume
  <2>1. last + FileSize(vol, last) \in Int
    BY FileSizeType
  <2>2. [j \in 1 .. len |-> Erased] \in Seq(Cell)
    BY ErasedCellsType
  <2> QED BY <2>1, <2>2, CopyMemType DEF AdjustFfsFile
<1> QED BY <1>1, <1>2 DEF WithTail

-----------------------------------------------------------------------------
(* TypeOK and ProgressOK together are inductive. *)

IInv == TypeOK /\ ProgressOK

LEMMA InitIInv == Init => IInv
<1> SUFFICES ASSUME Init PROVE IInv
  OBVIOUS
<1>1. op \in OpType /\ op.pc = "off"
  BY IdleType DEF Init, PCs
<1>2. << >> \in Seq(Entry) /\ << >> \in Seq(Nat)
  OBVIOUS
<1>3. accept \in [Names -> SUBSET Content]
  BY DEF Init
<1>4. TypeOK
  BY <1>1, <1>2, <1>3, ParametersAssumption DEF Init, TypeOK
<1>5. ProgressOK
  BY <1>1 DEF ProgressOK, ForOneFile, ForAllFiles, InFreeSpace
<1> QED BY <1>4, <1>5 DEF IInv

(* In these states of control nothing is kept in the variables. *)
LEMMA AtRest ==
    op.pc \in {"off", "scan", "scanmark", "corrupt", "ready", "hang"} => ProgressOK
BY DEF ProgressOK, ForOneFile, ForAllFiles, InFreeSpace

LEMMA AtRestNext ==
    op'.pc \in {"off", "scan", "scanmark", "corrupt", "ready", "hang"} => ProgressOK'
BY DEF ProgressOK, ForOneFile, ForAllFiles, InFreeSpace

LEMMA PtrAdvance ==
    ASSUME TypeOK
    PROVE  /\ ptr + FileSize(cache, ptr) \in Nat
           /\ ptr + FileHdr(cache, ptr) \in Nat
<1>1. ptr \in Nat /\ cache \in Volume
  BY DEF TypeOK
<1>2. FileSize(cache, ptr) \in Nat /\ FileHdr(cache, ptr) \in 3 .. 4
  BY <1>1, FileSizeType
<1> QED BY <1>1, <1>2

LEMMA MountIInv ==
    ASSUME IInv, Mount
    PROVE  IInv'
<1> USE DEF IInv
<1>1. CASE PowerOn
  <2>1. op' \in OpType /\ op'.pc \in {"scan", "corrupt"}
    BY <1>1, IdleType DEF PowerOn, PCs
  <2>2. << >> \in Seq(Entry) /\ << >> \in Seq(Nat)
    OBVIOUS
  <2>3. TypeOK'
    BY <1>1, <2>1, <2>2, SizesAssumption DEF PowerOn, TypeOK
  <2> QED BY <2>1, <2>3, AtRestNext
<1>2. CASE ScanFree
  <2>1. PICK end \in ptr .. N :
          LET len == IF end = N THEN N - ptr ELSE Hdr * ((end - ptr) \div Hdr)
          IN  /\ free' = Append(free, [start |-> ptr, len |-> len])
              /\ ptr' = ptr + len
    BY <1>2 DEF ScanFree
  <2> DEFINE len == IF end = N THEN N - ptr ELSE Hdr * ((end - ptr) \div Hdr)
  <2>2. len \in Nat
    BY SizesAssumption DEF TypeOK, Hdr
  <2>3. [start |-> ptr, len |-> len] \in Entry
    BY <2>2 DEF Entry, TypeOK
  <2> HIDE DEF len
  <2>4. free' \in Seq(Entry) /\ ptr' \in Nat
    BY <2>1, <2>2, <2>3 DEF TypeOK, len
  <2>5. TypeOK' /\ op'.pc = "scan"
    BY <1>2, <2>4 DEF ScanFree, TypeOK
  <2> QED BY <2>5, AtRestNext
<1>3. CASE ScanSkip
  <2>1. TypeOK' /\ op'.pc = "scan"
    BY <1>3, PtrAdvance DEF ScanSkip, TypeOK, lists
  <2> QED BY <2>1, AtRestNext
<1>4. CASE ScanBadHeader \/ ScanBadFile
  <2>1. op' \in OpType /\ op'.pc = "corrupt"
    BY <1>4, IdleType DEF ScanBadHeader, ScanBadFile, Corrupted, PCs
  <2>2. TypeOK'
    BY <1>4, <2>1 DEF ScanBadHeader, ScanBadFile, Corrupted, TypeOK, lists
  <2> QED BY <2>1, <2>2, AtRestNext
<1>5. CASE ScanFile
  <2>1. TypeOK' /\ op'.pc = "scan"
    BY <1>5, PtrAdvance DEF ScanFile, TypeOK
  <2> QED BY <2>1, AtRestNext
<1>6. CASE ScanSuperseded
  <2>1. op' \in OpType /\ op'.pc = "scanmark"
    BY <1>6, GotoType DEF ScanSuperseded, PCs, TypeOK
  <2>2. cache' \in Volume
    BY <1>6, SetFileStateType, BitsTypes DEF ScanSuperseded, TypeOK
  <2>3. TypeOK'
    BY <1>6, <2>1, <2>2 DEF ScanSuperseded, TypeOK, lists
  <2> QED BY <2>1, <2>3, AtRestNext
<1>7. CASE ScanMarked
  <2>1. op' \in OpType /\ op'.pc = "scan"
    BY <1>7, GotoType DEF ScanMarked, PCs, TypeOK
  <2>2. flash' \in Volume /\ left' \in Budget
    BY <1>7, WriteType DEF ScanMarked
  <2>3. TypeOK'
    BY <1>7, <2>1, <2>2, PtrAdvance DEF ScanMarked, TypeOK, lists
  <2> QED BY <2>1, <2>3, AtRestNext
<1>8. CASE ScanEnd
  <2>1. op' \in OpType /\ op'.pc = "ready"
    BY <1>8, IdleType DEF ScanEnd, PCs
  <2>2. cache' \in Volume /\ files' \in Seq(Nat) /\ cur' \in Nat \cup {Nil}
    BY <1>8 DEF ScanEnd, TypeOK, lists
  <2>3. \A n \in Names : ReadFile(n)' \in Content
    BY <2>2, ReadFileTypeNext
  <2>4. accept' \in [Names -> SUBSET Content]
    BY <1>8, <2>3 DEF ScanEnd, TypeOK, Settled
  <2>5. TypeOK'
    BY <1>8, <2>1, <2>2, <2>4 DEF ScanEnd, TypeOK, lists
  <2> QED BY <2>1, <2>5, AtRestNext
<1> QED BY <1>1, <1>2, <1>3, <1>4, <1>5, <1>6, <1>7, <1>8 DEF Mount

LEMMA PowerLossIInv ==
    ASSUME IInv, PowerLoss
    PROVE  IInv'
<1> USE DEF IInv
<1>1. op' \in OpType /\ op'.pc = "off"
  BY IdleType DEF PowerLoss, PCs
<1>2. GoodWrite(PendingWrite)
  BY PendingWriteGood
<1>3. \A n \in 0 .. Len(PendingWrite.cells) : Written(n) \in Volume
  BY <1>2, WrittenType DEF TypeOK
<1>4. flash' \in Volume /\ cache' \in Volume
  BY <1>3 DEF PowerLoss, TypeOK
<1>5. << >> \in Seq(Entry) /\ << >> \in Seq(Nat)
  OBVIOUS
<1>6. left' \in Budget
  <2>1. left \in Budget /\ left.losses > 0 /\ left' = [left EXCEPT !.losses = @ - 1]
    BY DEF PowerLoss, TypeOK
  <2>2. left.losses \in Nat
    BY <2>1, Zenon DEF Budget
  <2>3. left.losses - 1 \in Nat
    BY <2>1, <2>2
  <2> QED BY <2>1, <2>3, Zenon DEF Budget
<1>7. TypeOK'
  BY <1>1, <1>4, <1>5, <1>6 DEF PowerLoss, TypeOK
<1> QED BY <1>1, <1>7, AtRestNext

(* A step that ends the call, or goes on to its next file. *)
LEMMA ReturnIInv ==
    ASSUME IInv, flash' \in Volume, left' \in Budget, cache' \in Volume, free' \in Seq(Entry),
           files' \in Seq(Nat), cur' \in Nat \cup {Nil}, ptr' = ptr, Return \/ ReturnSuccess
    PROVE  IInv'
<1>1. op' \in OpType /\ op'.pc = "ready" /\ accept' \in [Names -> SUBSET Content]
  BY ReturnType, ReturnSuccessType DEF IInv, TypeOK
<1>2. TypeOK'
  BY <1>1 DEF IInv, TypeOK
<1> QED BY <1>1, <1>2, AtRestNext DEF IInv

LEMMA AskIInv ==
    ASSUME IInv, Ask
    PROVE  IInv'
<1> USE DEF IInv
<1>1. ASSUME NEW n \in Names, ReadFileAction(n)
      PROVE  IInv'
  <2>1. cur' \in Nat \cup {Nil}
    BY <1>1, SearchType DEF ReadFileAction, TypeOK
  <2>2. TypeOK' /\ op' = op /\ free' = free
    BY <1>1, <2>1 DEF ReadFileAction, TypeOK, lists
  <2> QED BY <2>2 DEF ProgressOK
<1>2. CASE GetNextFile
  <2>1. cur' \in Nat \cup {Nil}
    BY <1>2 DEF GetNextFile, TypeOK
  <2>2. TypeOK' /\ op' = op /\ free' = free
    BY <1>2, <2>1 DEF GetNextFile, TypeOK, lists
  <2> QED BY <2>2 DEF ProgressOK
<1>3. ASSUME NEW call \in Calls, WriteFile(call)
      PROVE  IInv'
  <2>1. call.reqs \in Seq(Requests) /\ call.reliable \in BOOLEAN
    BY ParametersAssumption DEF Call
  <2>2. op' \in OpType /\ op'.pc = "lookup" /\ op'.i = 1 /\ op'.olds = << >>
    <3>1. Idle("lookup") \in OpType /\ "lookup" \in PCs
      BY IdleType DEF PCs
    <3>2. op' = [Idle("lookup") EXCEPT !.reqs = call.reqs, !.i = 1, !.reliable = call.reliable]
      BY <1>3 DEF WriteFile
    <3>3. Idle("lookup").pc = "lookup" /\ Idle("lookup").olds = << >> /\ 1 \in Nat
      BY DEF Idle
    <3> QED BY <2>1, <3>1, <3>2, <3>3, Zenon DEF OpType
  <2>3. \A j \in DOMAIN call.reqs : call.reqs[j].data \in Content
    <3> TAKE j \in DOMAIN call.reqs
    <3>1. call.reqs[j] \in Requests
      BY <2>1
    <3>2. call.reqs[j].data \in Seq(Data) /\ Seq(Data) \subseteq Content
      BY <3>1, RequestTypes DEF Content
    <3> QED BY <3>2
  <2>4. accept' \in [Names -> SUBSET Content]
    BY <1>3, <2>3 DEF WriteFile, TypeOK
  <2>5. left' \in Budget
    <3>1. left \in Budget /\ left.writes > 0 /\ left' = [left EXCEPT !.writes = @ - 1]
      BY <1>3 DEF WriteFile, TypeOK
    <3>2. left.writes \in Nat
      BY <3>1, Zenon DEF Budget
    <3>3. left.writes - 1 \in Nat
      BY <3>1, <3>2
    <3> QED BY <3>1, <3>3, Zenon DEF Budget
  <2>6. TypeOK'
    BY <1>3, <2>2, <2>4, <2>5 DEF WriteFile, TypeOK, lists
  <2> QED BY <2>2, <2>6 DEF ProgressOK, ForOneFile, ForAllFiles, InFreeSpace
<1> QED BY <1>1, <1>2, <1>3 DEF Ask

LEMMA LookupFilesIInv ==
    ASSUME IInv, LookupFiles
    PROVE  IInv'
<1> USE DEF IInv
<1>1. CASE LookupFile
  <2> DEFINE found == Lookup(cur, Req.name) # Nil
             looked == op.i \in Deletes(op.reqs) \/ Deletes(op.reqs) = {}
  <2>1. cur' \in Nat \cup {Nil}
    BY <1>1, SearchType DEF LookupFile, TypeOK
  <2>2. op' = [op EXCEPT !.i = @ + 1, !.create = Append(@, looked /\ ~found)]
    BY <1>1 DEF LookupFile
  <2>3. op.i + 1 \in Nat /\ op \in OpType /\ op.i > 0 /\ op.pc = "lookup"
    BY <1>1, OpFields DEF TypeOK, ProgressOK, LookupFile, LookupTurn
  <2>4. Append(op.create, looked /\ ~found) \in Seq(BOOLEAN)
    BY <2>3, OpFields
  <2> HIDE DEF found, looked
  <2>5. op' \in OpType /\ op'.pc = "lookup" /\ op'.i = op.i + 1 /\ op'.olds = op.olds
    BY <2>2, <2>3, <2>4, Zenon DEF OpType
  <2>6. TypeOK'
    BY <1>1, <2>1, <2>5 DEF LookupFile, TypeOK, lists
  <2> QED BY <2>3, <2>5, <2>6, OpFields DEF ProgressOK, ForOneFile, ForAllFiles, InFreeSpace
<1>2. CASE DeleteMissing
  <2>1. cur' \in Nat \cup {Nil}
    BY <1>2, SearchType DEF DeleteMissing, TypeOK
  <2> QED BY <1>2, <2>1, ReturnIInv DEF DeleteMissing, TypeOK, lists
<1>3. CASE LookedUp
  <2> DEFINE pc == IF op.reliable /\ Len(op.reqs) > 1 /\ Deletes(op.reqs) = {} THEN "multi" ELSE "file"
  <2>1. op' \in OpType /\ op'.pc = pc /\ op'.i = 1 /\ op'.reqs = op.reqs /\ op'.olds = op.olds
    <3>1. op \in OpType /\ pc \in PCs /\ 1 \in Nat
      BY DEF TypeOK, PCs
    <3>2. op' = [op EXCEPT !.i = 1, !.pc = pc]
      BY <1>3 DEF LookedUp
    <3> HIDE DEF pc
    <3> QED BY <3>1, <3>2, Zenon DEF OpType
  <2>2. TypeOK'
    BY <1>3, <2>1 DEF LookedUp, TypeOK, lists
  <2>3. op.olds = << >> /\ (pc = "multi" => Len(op.reqs) > 0)
    BY <1>3, OpFields DEF LookedUp, TypeOK, ProgressOK
  <2> QED BY <2>1, <2>2, <2>3 DEF ProgressOK, ForOneFile, ForAllFiles, InFreeSpace
<1>4. CASE MixedRefused
  BY <1>4, ReturnIInv DEF MixedRefused, TypeOK, lists
<1> QED BY <1>1, <1>2, <1>3, <1>4 DEF LookupFiles

(* The file to update or delete, found again. *)
LEMMA TakeOldType ==
    ASSUME TypeOK, TakeOld
    PROVE  cur' \in Nat \cup {Nil} /\ (OldFound => Old \in Nat)
BY SearchType DEF TypeOK, TakeOld, Old, OldFound

(* A file that is done with leads to the next. *)
LEMMA NextFileIInv ==
    ASSUME IInv, flash' \in Volume, left' \in Budget, cache' \in Volume, free' \in Seq(Entry),
           files' \in Seq(Nat), cur' \in Nat \cup {Nil}, ptr' = ptr, accept' = accept, NextFile
    PROVE  IInv'
<1>1. op' \in OpType /\ op'.pc = "file" /\ op'.i = op.i + 1 /\ op.i \in Nat
  BY NextFileType, OpFields DEF IInv, TypeOK
<1>2. TypeOK'
  BY <1>1 DEF IInv, TypeOK
<1> QED BY <1>1, <1>2 DEF IInv, ProgressOK, ForOneFile, ForAllFiles, InFreeSpace

(* A step within the work on one file, outside of the free space. *)
LEMMA OneFileIInv ==
    ASSUME IInv, flash' \in Volume, left' \in Budget, cache' \in Volume, free' \in Seq(Entry),
           files' \in Seq(Nat), cur' \in Nat \cup {Nil}, ptr' = ptr, accept' = accept,
           op' \in OpType, op'.pc \in ForOneFile \ InFreeSpace,
           op'.i = op.i, op'.reqs = op.reqs, op.i \in DOMAIN op.reqs
    PROVE  IInv'
<1>1. TypeOK'
  BY DEF IInv, TypeOK
<1>2. ProgressOK'
  BY DEF ProgressOK, ForOneFile, ForAllFiles, InFreeSpace
<1> QED BY <1>1, <1>2 DEF IInv

LEMMA StateChange ==
    ASSUME TypeOK, NEW p \in Nat
    PROVE  /\ SetFileState(cache, p, {MARKED_FOR_UPDATE}) \in Volume
           /\ SetFileState(cache, p, {DELETED}) \in Volume
           /\ SetFileState(cache, p, {HEADER_INVALID}) \in Volume
           /\ SetFileState(cache, p, Constructed) \in Volume
           /\ SetFileState(cache, p, {HEADER_VALID, DATA_VALID}) \in Volume
BY SetFileStateType, BitsTypes, HeaderStates DEF TypeOK

LEMMA FileTurnReq ==
    ASSUME IInv, FileTurn
    PROVE  op.i \in DOMAIN op.reqs
BY OpFields DEF IInv, TypeOK, FileTurn, ProgressOK

LEMMA DeleteIInv ==
    ASSUME IInv, Delete
    PROVE  IInv'
<1>1. TypeOK /\ op \in OpType
  BY DEF IInv, TypeOK
<1>2. CASE DeleteStart
  <2>1. cur' \in Nat \cup {Nil} /\ Old \in Nat
    BY <1>1, <1>2, TakeOldType DEF DeleteStart
  <2>2. cache' \in Volume
    BY <1>1, <1>2, <2>1, StateChange DEF DeleteStart
  <2>3. op' = [op EXCEPT !.pc = "delete", !.old = Old]
    BY <1>2 DEF DeleteStart
  <2>4. op' \in OpType /\ op'.pc = "delete" /\ op'.i = op.i /\ op'.reqs = op.reqs
    <3>1. "delete" \in PCs
      BY DEF PCs
    <3> QED BY <1>1, <2>1, <2>3, <3>1, Zenon DEF OpType
  <2>5. op.i \in DOMAIN op.reqs
    BY <1>2, FileTurnReq DEF DeleteStart
  <2> QED
    BY <1>1, <1>2, <2>1, <2>2, <2>4, <2>5, OneFileIInv
    DEF DeleteStart, TypeOK, lists, ForOneFile, InFreeSpace
<1>3. CASE DeleteDone
  <2>1. flash' \in Volume /\ left' \in Budget
    BY <1>1, <1>3, WriteType DEF DeleteDone, IInv
  <2>2. files' \in Seq(Nat)
    BY <1>1, <1>3, SpliceType DEF DeleteDone, TypeOK
  <2> QED BY <1>1, <1>3, <2>1, <2>2, NextFileIInv DEF DeleteDone, TypeOK
<1>4. CASE DeleteFailed
  <2>1. flash' \in Volume /\ left' \in Budget
    BY <1>1, <1>4, WriteType DEF DeleteFailed, IInv
  <2>2. cache' \in Volume
    BY <1>1, <1>4, StateChange, OpFields DEF DeleteFailed
  <2> QED BY <1>1, <1>4, <2>1, <2>2, ReturnIInv DEF DeleteFailed, TypeOK, lists
<1> QED BY <1>2, <1>3, <1>4 DEF Delete

LEMMA UpdateIInv ==
    ASSUME IInv, Update
    PROVE  IInv'
<1>1. TypeOK /\ op \in OpType
  BY DEF IInv, TypeOK
<1>2. CASE UpdateStart
  <2>1. cur' \in Nat \cup {Nil} /\ Old \in Nat
    BY <1>1, <1>2, TakeOldType DEF UpdateStart
  <2>2. cache' \in Volume
    BY <1>1, <1>2, <2>1, StateChange DEF UpdateStart
  <2>3. op' = [op EXCEPT !.pc = "mark", !.old = Old]
    BY <1>2 DEF UpdateStart
  <2>4. op' \in OpType /\ op'.pc = "mark" /\ op'.i = op.i /\ op'.reqs = op.reqs
    <3>1. "mark" \in PCs
      BY DEF PCs
    <3> QED BY <1>1, <2>1, <2>3, <3>1, Zenon DEF OpType
  <2>5. op.i \in DOMAIN op.reqs
    BY <1>2, FileTurnReq DEF UpdateStart
  <2> QED
    BY <1>1, <1>2, <2>1, <2>2, <2>4, <2>5, OneFileIInv
    DEF UpdateStart, TypeOK, lists, ForOneFile, InFreeSpace
<1>3. CASE Marked
  <2>1. flash' \in Volume /\ left' \in Budget
    BY <1>1, <1>3, WriteType DEF Marked, IInv
  <2>2. op' \in OpType /\ op'.pc = "create" /\ op'.i = op.i /\ op'.reqs = op.reqs
    BY <1>1, <1>3, GotoType DEF Marked, PCs
  <2>3. op.i \in DOMAIN op.reqs
    BY <1>3 DEF Marked, IInv, ProgressOK, ForOneFile
  <2> QED
    BY <1>1, <1>3, <2>1, <2>2, <2>3, OneFileIInv DEF Marked, TypeOK, lists, ForOneFile, InFreeSpace
<1>4. CASE MarkFailed
  <2>1. flash' \in Volume /\ left' \in Budget
    BY <1>1, <1>4, WriteType DEF MarkFailed, IInv
  <2>2. cache' \in Volume
    BY <1>1, <1>4, StateChange, OpFields DEF MarkFailed
  <2> QED BY <1>1, <1>4, <2>1, <2>2, ReturnIInv DEF MarkFailed, TypeOK, lists
<1>5. CASE OldDeleted
  <2>1. flash' \in Volume /\ left' \in Budget
    BY <1>1, <1>5, WriteType DEF OldDeleted, IInv
  <2> QED BY <1>1, <1>5, <2>1, NextFileIInv DEF OldDeleted, TypeOK, lists
<1>6. CASE OldNotDeleted
  <2>1. flash' \in Volume /\ left' \in Budget
    BY <1>1, <1>6, WriteType DEF OldNotDeleted, IInv
  <2>2. cache' \in Volume
    BY <1>1, <1>6, StateChange, OpFields DEF OldNotDeleted
  <2> QED BY <1>1, <1>6, <2>1, <2>2, ReturnIInv DEF OldNotDeleted, TypeOK, lists
<1> QED BY <1>2, <1>3, <1>4, <1>5, <1>6 DEF Update

-----------------------------------------------------------------------------
(* The creation of a file in free space. *)

OneFileInFree == ForOneFile \cap InFreeSpace

LEMMA InFreeIInv ==
    ASSUME IInv, flash' \in Volume, left' \in Budget, cache' \in Volume, free' \in Seq(Entry),
           files' \in Seq(Nat), cur' \in Nat \cup {Nil}, ptr' = ptr, accept' = accept,
           op' \in OpType, op'.pc \in OneFileInFree, op'.i \in DOMAIN op'.reqs,
           op'.fl \in DOMAIN free', op'.pc \in {"pad1", "pad2", "pad3"} => op'.len >= Hdr
    PROVE  IInv'
<1>1. TypeOK'
  BY DEF IInv, TypeOK
<1>2. ProgressOK'
  BY DEF ProgressOK, OneFileInFree, ForOneFile, ForAllFiles, InFreeSpace
<1> QED BY <1>1, <1>2 DEF IInv

(* A step that goes to another state of control and takes len of the free  *)
(* space.                                                                  *)
LEMMA InFreeGoto ==
    ASSUME IInv, op.pc \in OneFileInFree, WriteOk, cache' \in Volume, NEW len \in Nat,
           free' = free \/ free' = Shrink(op.fl, len), files' = files, cur' = cur, ptr' = ptr,
           accept' = accept, NEW pc \in PCs, pc \in OneFileInFree, Goto(pc),
           pc \in {"pad1", "pad2", "pad3"} => op.len >= Hdr
    PROVE  IInv'
<1>1. TypeOK /\ ProgressOK /\ op \in OpType
  BY DEF IInv, TypeOK
<1>2. op.fl \in DOMAIN free /\ op.i \in DOMAIN op.reqs
  BY <1>1 DEF ProgressOK, OneFileInFree
<1>3. /\ op' \in OpType /\ op'.pc = pc /\ op'.i = op.i /\ op'.reqs = op.reqs
      /\ op'.fl = op.fl /\ op'.len = op.len
  BY <1>1, GotoType
<1>4. free' \in Seq(Entry) /\ DOMAIN free' = DOMAIN free
  BY <1>1, <1>2, ShrinkType DEF TypeOK
<1>5. flash' \in Volume /\ left' \in Budget
  BY <1>1, WriteType
<1> QED BY <1>1, <1>2, <1>3, <1>4, <1>5, InFreeIInv DEF TypeOK

LEMMA InFreeFailed ==
    ASSUME IInv, WriteFails, cache' \in Volume, UNCHANGED << lists, cur, ptr >>, Return
    PROVE  IInv'
<1>1. flash' \in Volume /\ left' \in Budget
  BY WriteType DEF IInv
<1> QED BY <1>1, ReturnIInv DEF IInv, TypeOK, lists

(* What is put in memory for the file at op.pos. *)
LEMMA CopyHeader ==
    ASSUME TypeOK, op.i \in DOMAIN op.reqs
    PROVE  /\ \A st \in {Constructed, HeaderValid, DataValid} :
                 CopyMem(cache, op.pos, HeaderCells(HeaderOf(Req), st)) \in Volume
           /\ CopyMem(cache, op.pos, ErasedHeaderCells(SizeOf(Req), Constructed)) \in Volume
           /\ CopyMem(cache, op.pos, FileCells(HeaderOf(Req), HeaderValid, Req.data)) \in Volume
<1>1. Req \in Requests /\ op.pos \in Int /\ cache \in Volume
  BY ReqType, OpFields DEF TypeOK
<1>2. HeaderOf(Req) \in Headers /\ SizeOf(Req) \in Nat /\ Req.data \in Seq(Data)
  BY <1>1, RequestTypes
<1>3. \A st \in {Constructed, HeaderValid, DataValid} : HeaderCells(HeaderOf(Req), st) \in Seq(Cell)
  BY <1>2, HeaderStates, HeaderCellsType
<1>4. ErasedHeaderCells(SizeOf(Req), Constructed) \in Seq(Cell)
  BY <1>2, HeaderStates, ErasedHeaderCellsType
<1>5. FileCells(HeaderOf(Req), HeaderValid, Req.data) \in Seq(Cell)
  BY <1>2, HeaderStates, FileCellsType
<1> QED BY <1>1, <1>3, <1>4, <1>5, CopyMemType

LEMMA CreateInFreeIInv ==
    ASSUME IInv, CreateInFree
    PROVE  IInv'
<1>1. TypeOK /\ op \in OpType /\ op.i \in DOMAIN op.reqs
  BY DEF IInv, TypeOK, CreateInFree, ProgressOK, ForOneFile
<1>2. Req \in Requests
  BY <1>1, ReqType
<1> DEFINE fl == Min(InFree)
           at == free[fl].start
           psz == CalculatePadFileSize(at, SizeOf(Req), AlignOf(Req))
<1>3. fl \in DOMAIN free
  <2>1. InFree \in SUBSET DOMAIN free /\ InFree \in SUBSET Nat /\ InFree # {}
    BY <1>1 DEF CreateInFree, InFree, FreeFor, TypeOK
  <2> QED BY <2>1, MinIsIn
<1>4. at \in Nat
  <2>1. free[fl] \in Entry
    BY <1>1, <1>3 DEF TypeOK
  <2> QED BY <2>1, Zenon DEF Entry
<1>5. psz \in Nat /\ (psz # 0 => psz >= Hdr)
  BY <1>2, <1>4, RequestTypes, CalculatePadFileSizeType
<1>6. /\ UNCHANGED << flash, lists, cur, ptr, left >>
      /\ \/ /\ op' = [op EXCEPT !.pc = "new1", !.fl = fl, !.pos = at]
            /\ UNCHANGED << cache, accept >>
         \/ /\ psz # 0
            /\ op' = [op EXCEPT !.pc = "pad1", !.fl = fl, !.pos = at, !.len = psz]
            /\ cache' = SetFileState(cache, at, Constructed)
            /\ UNCHANGED accept
         \/ UNCHANGED cache /\ Return
  BY DEF CreateInFree
<1> HIDE DEF fl, at, psz
<1>7. fl \in Nat /\ "new1" \in PCs /\ "pad1" \in PCs
  BY <1>1, <1>3 DEF PCs, TypeOK
<1>8. CASE op' = [op EXCEPT !.pc = "new1", !.fl = fl, !.pos = at] /\ UNCHANGED << cache, accept >>
  <2>1. op' \in OpType /\ op'.pc = "new1" /\ op'.fl = fl /\ op'.i = op.i /\ op'.reqs = op.reqs
    BY <1>1, <1>4, <1>7, <1>8, Zenon DEF OpType
  <2> QED
    BY <1>1, <1>3, <1>6, <1>8, <2>1, InFreeIInv
    DEF TypeOK, lists, OneFileInFree, ForOneFile, InFreeSpace
<1>9. CASE /\ psz # 0
           /\ op' = [op EXCEPT !.pc = "pad1", !.fl = fl, !.pos = at, !.len = psz]
           /\ cache' = SetFileState(cache, at, Constructed)
           /\ UNCHANGED accept
  <2>1. /\ op' \in OpType /\ op'.pc = "pad1" /\ op'.fl = fl /\ op'.i = op.i
        /\ op'.reqs = op.reqs /\ op'.len = psz
    <3>1. psz \in Int
      BY <1>5
    <3> QED BY <1>1, <1>4, <1>7, <1>9, <3>1, Zenon DEF OpType
  <2>2. cache' \in Volume
    BY <1>1, <1>4, <1>9, StateChange
  <2> QED
    BY <1>1, <1>3, <1>5, <1>6, <1>9, <2>1, <2>2, InFreeIInv
    DEF TypeOK, lists, OneFileInFree, ForOneFile, InFreeSpace
<1>10. CASE UNCHANGED cache /\ Return
  BY <1>1, <1>6, <1>10, ReturnIInv DEF TypeOK, lists
<1> QED BY <1>6, <1>8, <1>9, <1>10

(* The end of a creation: the old entry goes, the old file is deleted. *)
LEMMA RemainingType ==
    ASSUME TypeOK, NEW list \in Remaining
    PROVE  list \in Seq(Nat)
BY SpliceType DEF TypeOK, Remaining

LEMMA CreatedIInv ==
    ASSUME IInv, WriteOk, op.i \in DOMAIN op.reqs, NEW vol \in Volume, free' = free,
           files' \in Seq(Nat), cur' \in Nat \cup {Nil}, ptr' = ptr, accept' = accept, Created(vol)
    PROVE  IInv'
<1>1. TypeOK /\ op \in OpType
  BY DEF IInv, TypeOK
<1>2. flash' \in Volume /\ left' \in Budget
  BY <1>1, WriteType DEF IInv
<1>3. CASE cache' = vol /\ NextFile
  BY <1>1, <1>2, <1>3, NextFileIInv DEF TypeOK
<1>4. CASE cache' = SetFileState(vol, op.old, {DELETED}) /\ Goto("del")
  <2>1. op.old \in Int
    BY <1>1, OpFields
  <2>2. cache' \in Volume
    BY <1>4, <2>1, SetFileStateType, BitsTypes
  <2>3. op' \in OpType /\ op'.pc = "del" /\ op'.i = op.i /\ op'.reqs = op.reqs
    BY <1>1, <1>4, GotoType DEF PCs
  <2> QED BY <1>1, <1>2, <2>2, <2>3, OneFileIInv DEF TypeOK, ForOneFile, InFreeSpace
<1> QED BY <1>3, <1>4 DEF Created

LEMMA CreateIInv ==
    ASSUME IInv, Create
    PROVE  IInv'
<1>1. TypeOK /\ op \in OpType /\ ProgressOK
  BY DEF IInv, TypeOK
<1>2. CASE CreateStart
  <2>1. op' \in OpType /\ op'.pc = "create" /\ op'.i = op.i /\ op'.reqs = op.reqs
    BY <1>1, <1>2, GotoType DEF CreateStart, PCs
  <2>2. op.i \in DOMAIN op.reqs
    BY <1>2, FileTurnReq DEF CreateStart
  <2> QED
    BY <1>1, <1>2, <2>1, <2>2, OneFileIInv DEF CreateStart, TypeOK, lists, ForOneFile, InFreeSpace
<1>3. CASE CreateRefused
  BY <1>1, <1>3, ReturnIInv DEF CreateRefused, TypeOK, lists
<1>4. CASE CreateInFree
  BY <1>4, CreateInFreeIInv
<1>5. CASE PadConstructed
  <2>1. op.len \in Nat /\ op.pos \in Int /\ op.len >= Hdr
    BY <1>1, <1>5, OpFields DEF PadConstructed, ProgressOK, Hdr
  <2>2. HeaderCells(Header(Pad, op.len), State(cache, op.pos)) \in Seq(Cell)
    BY <1>1, <2>1, HeaderType, StateType, HeaderCellsType DEF TypeOK
  <2>3. cache' \in Volume
    BY <1>1, <1>5, <2>1, <2>2, CopyMemType DEF PadConstructed, TypeOK
  <2> QED
    BY <1>5, <2>1, <2>3, InFreeGoto
    DEF PadConstructed, PCs, OneFileInFree, ForOneFile, InFreeSpace, Hdr
<1>6. CASE PadNotConstructed
  <2>1. cache' \in Volume
    BY <1>1, <1>6, StateChange, OpFields DEF PadNotConstructed
  <2> QED BY <1>6, <2>1, InFreeFailed DEF PadNotConstructed
<1>7. CASE PadWritten
  <2>1. cache' \in Volume
    BY <1>1, <1>7, StateChange, OpFields DEF PadWritten
  <2>2. op.len >= Hdr
    BY <1>1, <1>7 DEF PadWritten, ProgressOK
  <2> QED
    BY <1>7, <2>1, <2>2, InFreeGoto
    DEF PadWritten, PCs, OneFileInFree, ForOneFile, InFreeSpace, lists
<1>8. CASE PadValid
  <2>1. op.len - Hdr \in Nat /\ op.pos \in Nat /\ op.len \in Nat
    BY <1>1, <1>8, OpFields DEF PadValid, ProgressOK, Hdr
  <2>2. op.fl \in DOMAIN free /\ op.i \in DOMAIN op.reqs
    BY <1>1, <1>8 DEF PadValid, ProgressOK, InFreeSpace, ForOneFile
  <2>3. free' \in Seq(Entry) /\ DOMAIN free' = DOMAIN free
    BY <1>1, <1>8, <2>1, <2>2, ShrinkType DEF PadValid, TypeOK
  <2>4. files' \in Seq(Nat) /\ cur' \in Nat \cup {Nil}
    BY <1>1, <1>8, <2>1 DEF PadValid, TypeOK
  <2>5. op' \in OpType /\ op'.pc = "new1" /\ op'.fl = op.fl /\ op'.i = op.i /\ op'.reqs = op.reqs
    <3>1. "new1" \in PCs /\ op.pos + op.len \in Nat
      BY <2>1 DEF PCs
    <3>2. op' = [op EXCEPT !.pc = "new1", !.pos = op.pos + op.len]
      BY <1>8 DEF PadValid
    <3> QED BY <1>1, <3>1, <3>2, Zenon DEF OpType
  <2>6. flash' \in Volume /\ left' \in Budget
    BY <1>1, <1>8, WriteType DEF PadValid
  <2> QED
    BY <1>1, <1>8, <2>2, <2>3, <2>4, <2>5, <2>6, InFreeIInv
    DEF PadValid, TypeOK, OneFileInFree, ForOneFile, InFreeSpace
<1>9. CASE PadNotValid
  <2>1. cache' \in Volume
    BY <1>1, <1>9, StateChange, OpFields DEF PadNotValid
  <2> QED BY <1>9, <2>1, InFreeFailed DEF PadNotValid
<1>10. CASE HeaderAllocated \/ HeaderWritten \/ HeaderMadeValid \/ DataWritten \/ DataMadeValid
  <2>1. op.i \in DOMAIN op.reqs
    BY <1>1, <1>10
    DEF ProgressOK, ForOneFile, HeaderAllocated, HeaderWritten, HeaderMadeValid, DataWritten,
        DataMadeValid
  <2>2. HdrOf(Req) \in Nat /\ SizeOf(Req) - HdrOf(Req) \in Nat
    <3>1. Req \in Requests
      BY <1>1, <2>1, ReqType
    <3>2. HdrOf(Req) \in 3 .. 4 /\ SizeOf(Req) \in Nat /\ HdrOf(Req) <= SizeOf(Req)
      BY <3>1, RequestTypes
    <3> QED BY <3>2
  <2> USE DEF PCs, OneFileInFree, ForOneFile, InFreeSpace
  <2>3. CASE HeaderAllocated
    BY <1>1, <2>1, <2>2, <2>3, CopyHeader, InFreeGoto DEF HeaderAllocated
  <2>4. CASE HeaderWritten
    BY <1>1, <2>1, <2>4, CopyHeader, InFreeGoto DEF HeaderWritten, lists
  <2>5. CASE HeaderMadeValid
    BY <1>1, <2>1, <2>2, <2>5, CopyHeader, InFreeGoto DEF HeaderMadeValid
  <2>6. CASE DataWritten
    BY <1>1, <2>1, <2>6, CopyHeader, InFreeGoto DEF DataWritten, lists
  <2>7. CASE DataMadeValid
    <3>1. op.pos \in Nat
      BY <1>1, OpFields
    <3>2. files' \in Seq(Nat)
      BY <1>1, <2>7, <3>1, RemainingType DEF DataMadeValid
    <3>3. CopyMem(cache, op.pos, HeaderCells(HeaderOf(Req), DataValid)) \in Volume
      BY <1>1, <2>1, CopyHeader
    <3> QED BY <2>1, <2>7, <3>1, <3>2, <3>3, CreatedIInv DEF DataMadeValid
  <2> QED BY <1>10, <2>3, <2>4, <2>5, <2>6, <2>7
<1>11. CASE CreateFailed
  BY <1>1, <1>11, InFreeFailed DEF CreateFailed, TypeOK
<1> QED BY <1>2, <1>3, <1>4, <1>5, <1>6, <1>7, <1>8, <1>9, <1>10, <1>11 DEF Create

-----------------------------------------------------------------------------
(* The creation of a file in a pad file. *)

LEMMA PadsForType ==
    ASSUME files \in Seq(Nat), NEW reqs, NEW al, PadsFor(reqs, al) # {}
    PROVE  files[Min(PadsFor(reqs, al))] \in Nat
<1>1. PadsFor(reqs, al) \in SUBSET DOMAIN files /\ PadsFor(reqs, al) \in SUBSET Nat
  BY DEF PadsFor
<1>2. Min(PadsFor(reqs, al)) \in DOMAIN files
  BY <1>1, MinIsIn
<1> QED BY <1>2

LEMMA PadMarkedIInv ==
    ASSUME IInv, PadMarked
    PROVE  IInv'
<1>1. TypeOK /\ op \in OpType /\ ProgressOK /\ op.i \in DOMAIN op.reqs
  BY DEF IInv, TypeOK, PadMarked, ProgressOK, ForOneFile
<1>2. Req \in Requests
  BY <1>1, ReqType
<1> DEFINE start == PadArea(op.pad)
           area == FileSize(cache, op.pad) - Hdr
           psz == CalculatePadFileSize(start, SizeOf(Req), AlignOf(Req))
           pos == start + psz
           end == pos + SizeOf(Req)
           tail == start + area - end
           filled == FillFfsFile(WithPad(cache, start, psz), pos, Req)
           news == LeadEntry(start, psz) \o << pos >> \o TailEntry(end, tail)
<1>3. start \in Nat
  BY <1>1, OpFields, PadAreaType DEF TypeOK
<1>4. psz \in Nat /\ SizeOf(Req) \in Nat
  BY <1>2, <1>3, RequestTypes, CalculatePadFileSizeType
<1>5. area \in Int
  <2>1. cache \in Volume /\ op.pad \in Int
    BY <1>1, OpFields DEF TypeOK
  <2>2. FileSize(cache, op.pad) \in Nat
    BY <2>1, FileSizeType
  <2> QED BY <2>2 DEF Hdr
<1>6. /\ WriteOk
      /\ cache' = WithTail(filled, pos, end, tail)
      /\ cur' = pos
      /\ op' = [op EXCEPT !.pc = "in2", !.len = area, !.news = news]
      /\ UNCHANGED << lists, ptr, accept >>
  BY DEF PadMarked
<1>7. pos \in Nat /\ end \in Nat /\ tail \in Int
  BY <1>3, <1>4, <1>5
<1>8. filled \in Volume
  <2>1. WithPad(cache, start, psz) \in Volume
    BY <1>1, <1>3, <1>4, FillPadFileType DEF TypeOK
  <2> QED BY <1>2, <1>7, <2>1, FillFfsFileType
<1>9. news \in Seq(Nat)
  <2> HIDE DEF start, psz, pos, end, tail
  <2>1. psz \in Int
    BY <1>4
  <2>2. LeadEntry(start, psz) \in Seq(Nat) /\ TailEntry(end, tail) \in Seq(Nat)
    BY <1>3, <1>7, <2>1, EntriesType
  <2>3. << pos >> \in Seq(Nat)
    BY <1>7
  <2> QED BY <2>2, <2>3
<1> HIDE DEF start, area, psz, pos, end, tail, filled, news
<1>10. cache' \in Volume
  BY <1>6, <1>7, <1>8, WithTailType
<1>11. op' \in OpType /\ op'.pc = "in2" /\ op'.i = op.i /\ op'.reqs = op.reqs
  <2>1. "in2" \in PCs
    BY DEF PCs
  <2> QED BY <1>1, <1>5, <1>6, <1>9, <2>1, Zenon DEF OpType
<1>12. flash' \in Volume /\ left' \in Budget
  BY <1>1, <1>6, WriteType
<1> QED
  BY <1>1, <1>6, <1>7, <1>10, <1>11, <1>12, OneFileIInv DEF TypeOK, lists, ForOneFile, InFreeSpace

LEMMA InsidePadIInv ==
    ASSUME IInv, InsidePad
    PROVE  IInv'
<1>1. TypeOK /\ op \in OpType /\ ProgressOK
  BY DEF IInv, TypeOK
<1>2. CASE CreateInPad
  <2> DEFINE pad == files[Min(InPad)]
  <2>1. pad \in Nat
    BY <1>1, <1>2, PadsForType DEF CreateInPad, InPad, TypeOK
  <2>2. cache' = SetFileState(cache, pad, {MARKED_FOR_UPDATE}) /\ op' = [op EXCEPT !.pc = "in1", !.pad = pad]
    BY <1>2 DEF CreateInPad
  <2> HIDE DEF pad
  <2>3. cache' \in Volume
    BY <1>1, <2>1, <2>2, StateChange
  <2>4. op' \in OpType /\ op'.pc = "in1" /\ op'.i = op.i /\ op'.reqs = op.reqs
    <3>1. "in1" \in PCs
      BY DEF PCs
    <3> QED BY <1>1, <2>1, <2>2, <3>1, Zenon DEF OpType
  <2>5. op.i \in DOMAIN op.reqs
    BY <1>1, <1>2 DEF CreateInPad, ProgressOK, ForOneFile
  <2> QED
    BY <1>1, <1>2, <2>3, <2>4, <2>5, OneFileIInv
    DEF CreateInPad, TypeOK, lists, ForOneFile, InFreeSpace
<1>3. CASE PadMarked
  BY <1>3, PadMarkedIInv
<1>4. CASE PadNotMarked
  <2>1. cache' \in Volume
    BY <1>1, <1>4, StateChange, OpFields DEF PadNotMarked
  <2> QED BY <1>4, <2>1, InFreeFailed DEF PadNotMarked
<1>5. CASE AreaWritten
  <2>1. cache' \in Volume
    BY <1>1, <1>5, StateChange, OpFields DEF AreaWritten
  <2>2. flash' \in Volume /\ left' \in Budget
    BY <1>1, <1>5, WriteType DEF AreaWritten
  <2>3. op' \in OpType /\ op'.pc = "in3" /\ op'.i = op.i /\ op'.reqs = op.reqs
    BY <1>1, <1>5, GotoType DEF AreaWritten, PCs
  <2>4. op.i \in DOMAIN op.reqs
    BY <1>1, <1>5 DEF AreaWritten, ProgressOK, ForOneFile
  <2> QED
    BY <1>1, <1>5, <2>1, <2>2, <2>3, <2>4, OneFileIInv
    DEF AreaWritten, TypeOK, lists, ForOneFile, InFreeSpace
<1>6. CASE PadReplaced
  <2>1. op.i \in DOMAIN op.reqs
    BY <1>1, <1>6 DEF PadReplaced, ProgressOK, ForOneFile
  <2>2. files' \in Seq(Nat)
    BY <1>1, <1>6, RemainingType, SpliceType, OpFields DEF PadReplaced
  <2> QED BY <1>1, <1>6, <2>1, <2>2, CreatedIInv DEF PadReplaced, TypeOK
<1>7. CASE PadNotReplaced
  <2>1. cache' \in Volume
    BY <1>1, <1>7, StateChange, OpFields DEF PadNotReplaced
  <2>2. flash' \in Volume /\ left' \in Budget
    BY <1>1, <1>7, WriteType DEF PadNotReplaced
  <2> QED BY <1>1, <1>7, <2>1, <2>2, ReturnIInv DEF PadNotReplaced, TypeOK, lists
<1>8. CASE AreaFailed
  <2>1. flash' \in Volume /\ left' \in Budget
    BY <1>1, <1>8, WriteType DEF AreaFailed
  <2> QED BY <1>1, <1>8, <2>1, ReturnIInv DEF AreaFailed, TypeOK, lists
<1> QED BY <1>2, <1>3, <1>4, <1>5, <1>6, <1>7, <1>8 DEF InsidePad

-----------------------------------------------------------------------------
(* Several files at once. *)

(* A step within the work on several files. *)
LEMMA AllFilesIInv ==
    ASSUME IInv, flash' \in Volume, left' \in Budget, cache' \in Volume, free' \in Seq(Entry),
           files' \in Seq(Nat), cur' \in Nat \cup {Nil}, ptr' = ptr, accept' = accept,
           op' \in OpType, ProgressOK'
    PROVE  IInv'
BY DEF IInv, TypeOK

(* What the work on several files knows of its variables. *)
LEMMA AllFilesFacts ==
    ASSUME IInv
    PROVE  /\ op.pc \in ForAllFiles => Len(op.olds) = Len(op.reqs) /\ Len(op.reqs) > 0
           /\ op.pc = "multi" => /\ Len(op.olds) = op.i - 1 /\ op.i > 0
                                 /\ op.i <= Len(op.reqs) + 1 /\ Len(op.reqs) > 0
           /\ op.pc = "mmark" => /\ Len(op.olds) = op.i /\ Len(op.reqs) > 0
                                 /\ op.i \in DOMAIN op.reqs
           /\ Len(op.olds) \in Nat /\ Len(op.reqs) \in Nat /\ DOMAIN op.reqs = 1 .. Len(op.reqs)
<1>1. Len(op.olds) \in Nat /\ Len(op.reqs) \in Nat /\ DOMAIN op.reqs = 1 .. Len(op.reqs)
  BY OpFields DEF IInv, TypeOK
<1>2. ProgressOK
  BY DEF IInv
<1> QED BY <1>1, <1>2 DEF ProgressOK, ForAllFiles, ForOneFile

LEMMA MultiMarkIInv ==
    ASSUME IInv, MultiCreate \/ MultiUpdate \/ MultiMarked \/ MultiFailed \/ MultiNoRoom
    PROVE  IInv'
<1>1. TypeOK /\ op \in OpType /\ ProgressOK
  BY DEF IInv, TypeOK
<1>2. op.i \in Nat /\ op.olds \in Seq(Nat)
  BY <1>1, OpFields
<1>3. CASE MultiCreate
  <2>1. op' = [op EXCEPT !.i = @ + 1, !.olds = Append(@, 0)] /\ op.pc = "multi"
    BY <1>3 DEF MultiCreate
  <2>2. op.i + 1 \in Nat /\ Append(op.olds, 0) \in Seq(Nat) /\ Len(Append(op.olds, 0)) = Len(op.olds) + 1
    BY <1>2
  <2>3. /\ op' \in OpType /\ op'.pc = "multi" /\ op'.i = op.i + 1
        /\ op'.olds = Append(op.olds, 0) /\ op'.reqs = op.reqs
    BY <1>1, <2>1, <2>2, Zenon DEF OpType
  <2>a. op.i <= Len(op.reqs) /\ op.i > 0 /\ Len(op.olds) = op.i - 1 /\ Len(op.reqs) \in Nat
    BY <1>3, <2>1, AllFilesFacts DEF MultiCreate
  <2>4. ProgressOK'
    BY <1>2, <2>a, <2>2, <2>3 DEF ProgressOK, ForOneFile, ForAllFiles, InFreeSpace
  <2> QED BY <1>1, <1>3, <2>3, <2>4, AllFilesIInv DEF MultiCreate, TypeOK, lists
<1>4. CASE MultiUpdate
  <2>1. cur' \in Nat
    BY <1>1, <1>4, SearchType DEF MultiUpdate, TypeOK
  <2>2. op' = [op EXCEPT !.pc = "mmark", !.olds = Append(@, cur')] /\ op.pc = "multi" /\ op.i <= Len(op.reqs)
    BY <1>4 DEF MultiUpdate
  <2>3. Append(op.olds, cur') \in Seq(Nat) /\ Len(Append(op.olds, cur')) = Len(op.olds) + 1
    BY <1>2, <2>1
  <2>4. /\ op' \in OpType /\ op'.pc = "mmark" /\ op'.i = op.i
        /\ op'.olds = Append(op.olds, cur') /\ op'.reqs = op.reqs
    <3>1. "mmark" \in PCs
      BY DEF PCs
    <3> QED BY <1>1, <2>2, <2>3, <3>1, Zenon DEF OpType
  <2>5. ProgressOK'
    BY <1>2, <2>2, <2>3, <2>4, AllFilesFacts DEF ProgressOK, ForOneFile, ForAllFiles, InFreeSpace
  <2>6. cache' \in Volume
    BY <1>1, <1>4, <2>1, StateChange DEF MultiUpdate
  <2> QED BY <1>1, <1>4, <2>1, <2>4, <2>5, <2>6, AllFilesIInv DEF MultiUpdate, TypeOK, lists
<1>5. CASE MultiMarked
  <2>1. op.i + 1 \in Nat /\ Step("multi", op.i + 1) /\ op.pc = "mmark"
    BY <1>2, <1>5 DEF MultiMarked
  <2>2. op' \in OpType /\ op'.pc = "multi" /\ op'.i = op.i + 1 /\ op'.olds = op.olds /\ op'.reqs = op.reqs
    BY <1>1, <2>1, StepType DEF PCs
  <2>3. ProgressOK'
    BY <1>2, <2>1, <2>2, AllFilesFacts DEF ProgressOK, ForOneFile, ForAllFiles, InFreeSpace
  <2>4. flash' \in Volume /\ left' \in Budget
    BY <1>1, <1>5, WriteType DEF MultiMarked
  <2> QED BY <1>1, <1>5, <2>2, <2>3, <2>4, AllFilesIInv DEF MultiMarked, TypeOK, lists
<1>6. CASE MultiFailed
  <2>1. flash' \in Volume /\ left' \in Budget
    BY <1>1, <1>6, WriteType DEF MultiFailed
  <2> QED BY <1>1, <1>6, <2>1, ReturnIInv DEF MultiFailed, TypeOK, lists
<1>7. CASE MultiNoRoom
  BY <1>1, <1>7, ReturnIInv DEF MultiNoRoom, TypeOK, lists
<1> QED BY <1>3, <1>4, <1>5, <1>6, <1>7

LEMMA AlignmentsType ==
    ASSUME op \in OpType, NEW al \in Alignments
    PROVE  al \in Seq(Nat \ {0}) /\ Len(al) = Len(op.reqs)
<1>1. (Aligns \cup {r.align : r \in Requests}) \ {0} \subseteq Nat \ {0}
  BY ParametersAssumption, RequestTypes
<1>2. al \in [DOMAIN op.reqs -> (Aligns \cup {r.align : r \in Requests}) \ {0}]
  BY DEF Alignments
<1>3. op.reqs \in Seq(Requests)
  BY OpFields
<1>4. al \in [1 .. Len(op.reqs) -> Nat \ {0}] /\ Len(op.reqs) \in Nat
  BY <1>1, <1>2, <1>3
<1> QED BY <1>4

LEMMA PlaceFacts ==
    ASSUME IInv, MultiPlace
    PROVE  Len(op.olds) = Len(op.reqs) /\ Len(op.reqs) > 0 /\ Len(op.news) \in Nat
<1>1. op.i \in Nat /\ op.news \in Seq(Nat) /\ Len(op.reqs) \in Nat
  BY OpFields DEF IInv, TypeOK
<1>2. op.i > Len(op.reqs) /\ op.i <= Len(op.reqs) + 1 /\ Len(op.olds) = op.i - 1 /\ Len(op.reqs) > 0
  BY AllFilesFacts DEF MultiPlace
<1> QED BY <1>1, <1>2

LEMMA MultiPlaceIInv ==
    ASSUME IInv, MultiInPad \/ MultiPadMarked \/ MultiInFree
    PROVE  IInv'
<1>1. TypeOK /\ op \in OpType /\ ProgressOK
  BY DEF IInv, TypeOK
<1>2. CASE MultiInPad
  <2>1. PICK al \in Alignments :
          /\ PadsFor(op.reqs, al) # {}
          /\ cache' = SetFileState(cache, files[Min(PadsFor(op.reqs, al))], {MARKED_FOR_UPDATE})
          /\ op' = [op EXCEPT !.pc = "mp1", !.pad = files[Min(PadsFor(op.reqs, al))], !.al = al]
    BY <1>2 DEF MultiInPad
  <2> DEFINE pad == files[Min(PadsFor(op.reqs, al))]
  <2>2. pad \in Nat
    BY <1>1, <2>1, PadsForType DEF TypeOK
  <2>3. al \in Seq(Nat \ {0}) /\ Len(al) = Len(op.reqs)
    BY <1>1, AlignmentsType
  <2>4. op' \in OpType /\ op'.pc = "mp1" /\ op'.olds = op.olds /\ op'.reqs = op.reqs /\ op'.al = al
    <3>1. "mp1" \in PCs
      BY DEF PCs
    <3> HIDE DEF pad
    <3> QED BY <1>1, <2>1, <2>2, <2>3, <3>1, Zenon DEF OpType, pad
  <2>5. Len(op.olds) = Len(op.reqs) /\ Len(op.reqs) > 0
    BY <1>1, <1>2, PlaceFacts DEF MultiInPad
  <2>6. ProgressOK'
    BY <2>3, <2>4, <2>5 DEF ProgressOK, ForOneFile, ForAllFiles, InFreeSpace
  <2>7. cache' \in Volume
    BY <1>1, <2>1, <2>2, StateChange
  <2> QED BY <1>1, <1>2, <2>4, <2>6, <2>7, AllFilesIInv DEF MultiInPad, TypeOK, lists
<1>3. CASE MultiPadMarked
  <2> DEFINE area == FileSize(cache, op.pad) - FileHdr(cache, op.pad)
  <2>1. op' = [op EXCEPT !.pc = "fillpad", !.i = 1, !.pos = PadArea(op.pad), !.len = area]
    BY <1>3 DEF MultiPadMarked
  <2>2. PadArea(op.pad) \in Nat /\ area \in Int
    <3>1. op.pad \in Nat /\ cache \in Volume
      BY <1>1, OpFields DEF TypeOK
    <3>2. FileSize(cache, op.pad) \in Nat /\ FileHdr(cache, op.pad) \in 3 .. 4
      BY <3>1, FileSizeType
    <3> QED BY <3>1, <3>2, PadAreaType
  <2> HIDE DEF area
  <2>3. /\ op' \in OpType /\ op'.pc = "fillpad" /\ op'.i = 1 /\ op'.olds = op.olds
        /\ op'.reqs = op.reqs /\ op'.al = op.al /\ op'.news = op.news
    <3>1. "fillpad" \in PCs /\ 1 \in Nat
      BY DEF PCs
    <3> QED BY <1>1, <2>1, <2>2, <3>1, Zenon DEF OpType
  <2>4. op.pc = "mp1"
    BY <1>3 DEF MultiPadMarked
  <2>5. Len(op.news) \in Nat
    BY <1>1, OpFields
  <2>6. ProgressOK'
    BY <1>1, <2>3, <2>4, <2>5 DEF ProgressOK, ForOneFile, ForAllFiles, InFreeSpace
  <2>7. flash' \in Volume /\ left' \in Budget
    BY <1>1, <1>3, WriteType DEF MultiPadMarked
  <2> QED BY <1>1, <1>3, <2>3, <2>6, <2>7, AllFilesIInv DEF MultiPadMarked, TypeOK, lists
<1>4. CASE MultiInFree
  <2>1. PICK al \in Alignments :
          /\ FreeFor(op.reqs, al) # {}
          /\ op' = [op EXCEPT !.pc = "fillfree", !.i = 1,
                              !.pos = free[Min(FreeFor(op.reqs, al))].start,
                              !.fl = Min(FreeFor(op.reqs, al)), !.al = al]
    BY <1>4 DEF MultiInFree
  <2> DEFINE fl == Min(FreeFor(op.reqs, al))
  <2>2. fl \in DOMAIN free /\ fl \in Nat
    <3>1. FreeFor(op.reqs, al) \in SUBSET DOMAIN free /\ FreeFor(op.reqs, al) \in SUBSET Nat
      BY <1>1 DEF FreeFor, TypeOK
    <3> QED BY <2>1, <3>1, MinIsIn
  <2>3. free[fl].start \in Nat
    <3>1. free[fl] \in Entry
      BY <1>1, <2>2 DEF TypeOK
    <3> QED BY <3>1, Zenon DEF Entry
  <2>4. al \in Seq(Nat \ {0}) /\ Len(al) = Len(op.reqs)
    BY <1>1, AlignmentsType
  <2>5. /\ op' \in OpType /\ op'.pc = "fillfree" /\ op'.i = 1 /\ op'.olds = op.olds
        /\ op'.reqs = op.reqs /\ op'.al = al /\ op'.news = op.news /\ op'.fl = fl
        /\ op'.pos = free[fl].start
    <3>1. "fillfree" \in PCs /\ 1 \in Nat
      BY DEF PCs
    <3>2. op' = [op EXCEPT !.pc = "fillfree", !.i = 1, !.pos = free[fl].start, !.fl = fl, !.al = al]
      BY <2>1
    <3> HIDE DEF fl
    <3> QED BY <1>1, <2>2, <2>3, <2>4, <3>1, <3>2, Zenon DEF OpType
  <2>6. Len(op.olds) = Len(op.reqs) /\ Len(op.reqs) > 0 /\ Len(op.news) \in Nat
    BY <1>1, <1>4, PlaceFacts DEF MultiInFree
  <2>7. free' = free
    BY <1>4 DEF MultiInFree, lists
  <2> HIDE DEF fl
  <2>8. ProgressOK'
    BY <2>2, <2>3, <2>4, <2>5, <2>6, <2>7
    DEF ProgressOK, ForOneFile, ForAllFiles, InFreeSpace
  <2> QED BY <1>1, <1>4, <2>5, <2>8, AllFilesIInv DEF MultiInFree, TypeOK, lists
<1> QED BY <1>2, <1>3, <1>4

LEMMA FillIInv ==
    ASSUME IInv, FillNext \/ FillRefused
    PROVE  IInv'
<1>1. TypeOK /\ op \in OpType /\ ProgressOK /\ op.pc \in {"fillpad", "fillfree"} /\ op.i <= Len(op.reqs)
  BY DEF IInv, TypeOK, FillNext, FillRefused, Filling
<1>2. op.i \in DOMAIN op.reqs /\ op.i \in DOMAIN op.al /\ op.i \in Nat /\ op.news \in Seq(Nat) /\ op.pos \in Nat
  <2>1. /\ op.i \in Nat /\ op.news \in Seq(Nat) /\ op.pos \in Nat
        /\ op.reqs \in Seq(Requests) /\ op.al \in Seq(Nat \ {0})
    BY <1>1, OpFields
  <2>2. op.i > 0 /\ Len(op.al) = Len(op.reqs)
    BY <1>1 DEF ProgressOK
  <2> QED BY <1>1, <2>1, <2>2
<1>3. Req \in Requests /\ op.al[op.i] \in Nat \ {0}
  BY <1>1, <1>2, ReqType, OpFields
<1>4. SizeOf(Req) \in Nat
  BY <1>3, RequestTypes
<1>5. NextPad \in Nat
  BY <1>2, <1>3, <1>4, CalculatePadFileSizeType DEF NextPad
<1>6. WithPad(cache, op.pos, NextPad) \in Volume
  BY <1>1, <1>2, <1>5, FillPadFileType DEF TypeOK
<1>7. CASE FillRefused
  BY <1>1, <1>6, <1>7, ReturnIInv DEF FillRefused, TypeOK, lists
<1>8. CASE FillNext
  <2> DEFINE pos == op.pos + NextPad
             news == op.news \o LeadEntry(op.pos, NextPad) \o << pos >>
  <2>1. pos \in Nat
    BY <1>2, <1>5
  <2>2. cache' \in Volume
    BY <1>3, <1>6, <1>8, <2>1, FillFfsFileType DEF FillNext
  <2>3. op' = [op EXCEPT !.i = op.i + 1, !.pos = pos + SizeOf(Req), !.news = news]
    BY <1>8 DEF FillNext
  <2>4. news \in Seq(Nat) /\ Len(news) >= Len(op.news) + 1
    <3>1. \A p \in Nat : \A size \in Int : LeadEntry(p, size) \in Seq(Nat)
      BY EntriesType
    <3>2. NextPad \in Int
      BY <1>5
    <3> DEFINE lead == LeadEntry(op.pos, NextPad)
    <3>3. lead \in Seq(Nat) /\ op.news \in Seq(Nat)
      BY <1>2, <3>1, <3>2
    <3> HIDE DEF pos, lead
    <3>4. << pos >> \in Seq(Nat) /\ Len(<< pos >>) = 1
      BY <2>1
    <3>5. \A a, b \in Seq(Nat) :
            /\ a \o b \o << pos >> \in Seq(Nat)
            /\ Len(a \o b \o << pos >>) >= Len(a) + 1
      BY <2>1
    <3>6. /\ op.news \o lead \o << pos >> \in Seq(Nat)
          /\ Len(op.news \o lead \o << pos >>) >= Len(op.news) + 1
      BY <3>3, <3>5
    <3> QED BY <3>6 DEF lead
  <2>5. pos + SizeOf(Req) \in Nat /\ pos + SizeOf(Req) >= op.pos /\ op.i + 1 \in Nat
    BY <1>2, <1>4, <1>5, <2>1
  <2> HIDE DEF pos, news
  <2>6. /\ op' \in OpType /\ op'.pc = op.pc /\ op'.i = op.i + 1 /\ op'.olds = op.olds
        /\ op'.reqs = op.reqs /\ op'.al = op.al /\ op'.news = news /\ op'.fl = op.fl
        /\ op'.pos = pos + SizeOf(Req)
    BY <1>1, <2>3, <2>4, <2>5, Zenon DEF OpType
  <2>7. free' = free
    BY <1>8 DEF FillNext, lists
  <2>8. op.pc = "fillfree" => free[op.fl].start \in Nat /\ op.pos >= free[op.fl].start
    <3>1. op.pc = "fillfree" => op.fl \in DOMAIN free
      BY <1>1 DEF ProgressOK, InFreeSpace
    <3>2. op.pc = "fillfree" => free[op.fl] \in Entry
      BY <1>1, <3>1 DEF TypeOK
    <3>3. op.pc = "fillfree" => free[op.fl].start \in Nat
      BY <3>2, Zenon DEF Entry
    <3> QED BY <1>1, <3>3 DEF ProgressOK
  <2>9. Len(op.news) \in Nat /\ Len(news) \in Nat
    BY <1>2, <2>4
  <2>10. /\ Len(op.olds) = Len(op.reqs) /\ Len(op.reqs) > 0 /\ Len(op.al) = Len(op.reqs)
         /\ Len(op.news) >= op.i - 1
         /\ op.pc = "fillfree" => op.fl \in DOMAIN free
    BY <1>1 DEF ProgressOK, ForAllFiles, InFreeSpace
  <2>11. /\ Len(news) >= op.i + 1 - 1 /\ op.i + 1 > 0
         /\ op.pc = "fillfree" => pos + SizeOf(Req) >= free[op.fl].start
    <3>1. op.pc = "fillfree" => pos + SizeOf(Req) >= free[op.fl].start
      <4> DEFINE next == pos + SizeOf(Req)
                 start == free[op.fl].start
      <4>1. next \in Nat /\ next >= op.pos
        BY <2>5
      <4>2. op.pc = "fillfree" => start \in Nat /\ op.pos >= start
        BY <2>8
      <4> HIDE DEF next, start
      <4>3. op.pc = "fillfree" => next >= start
        BY <1>2, <4>1, <4>2
      <4> QED BY <4>3 DEF next, start
    <3>2. Len(news) >= Len(op.news) + 1
      BY <2>4
    <3>3. op.i + 1 > 0 /\ op.i + 1 - 1 = op.i
      BY <1>2
    <3>4. Len(news) >= op.i + 1 - 1
      BY <1>2, <2>9, <2>10, <3>2
    <3> QED BY <3>1, <3>3, <3>4
  <2>12. ProgressOK'
    <3>1. /\ Len(op'.news) >= op'.i - 1 /\ op'.i > 0
          /\ op'.pc = "fillfree" => op'.pos >= free'[op'.fl].start
      <4>1. op'.i = op.i + 1 /\ op'.news = news /\ op'.pos = pos + SizeOf(Req)
            /\ op'.fl = op.fl /\ op'.pc = op.pc
        BY <2>6
      <4>2. Len(op'.news) >= op'.i - 1
        <5>1. Len(op'.news) = Len(news)
          BY <4>1, Zenon
        <5>2. op'.i - 1 = op.i
          BY <1>2, <4>1
        <5>3. Len(news) >= op.i
          BY <1>2, <2>9, <2>11
        <5> QED BY <5>1, <5>2, <5>3
      <4>3. op'.i > 0
        BY <2>11, <4>1
      <4>4. op'.pc = "fillfree" => op'.pos >= free'[op'.fl].start
        BY <2>7, <2>11, <4>1, Zenon
      <4> QED BY <4>2, <4>3, <4>4
    <3>2. /\ Len(op'.olds) = Len(op'.reqs) /\ Len(op'.reqs) > 0 /\ Len(op'.al) = Len(op'.reqs)
          /\ op'.pc \in {"fillpad", "fillfree"}
          /\ op'.pc = "fillfree" => op'.fl \in DOMAIN free'
      BY <1>1, <2>6, <2>7, <2>10
    <3> QED BY <3>1, <3>2 DEF ProgressOK, ForOneFile, ForAllFiles, InFreeSpace
  <2> QED BY <1>1, <1>8, <2>2, <2>6, <2>12, AllFilesIInv DEF FillNext, TypeOK, lists
<1> QED BY <1>7, <1>8

LEMMA FilledIInv ==
    ASSUME IInv, PadFilled \/ FreeFilled
    PROVE  IInv'
<1>1. TypeOK /\ op \in OpType /\ ProgressOK /\ op.pc \in {"fillpad", "fillfree"} /\ op.i > Len(op.reqs)
  BY DEF IInv, TypeOK, PadFilled, FreeFilled
<1>2. /\ op.i \in Nat /\ op.news \in Seq(Nat) /\ op.pos \in Nat /\ op.pad \in Nat /\ op.len \in Int
      /\ Len(op.olds) = Len(op.reqs) /\ Len(op.reqs) > 0
  BY <1>1, OpFields, AllFilesFacts DEF ForAllFiles
<1>3. op.news # << >> /\ Newest \in Nat
  <2>1. Len(op.news) \in Nat /\ Len(op.news) > 0
    <3>1. Len(op.news) >= op.i - 1
      BY <1>1 DEF ProgressOK
    <3>2. Len(op.news) \in Nat /\ Len(op.reqs) \in Nat /\ op.i > Len(op.reqs) /\ Len(op.reqs) > 0
      BY <1>1, <1>2, OpFields
    <3> QED BY <1>2, <3>1, <3>2
  <2>2. op.news[Len(op.news)] \in Nat
    BY <1>2, <2>1
  <2> QED BY <2>1, <2>2 DEF Newest
<1>4. CASE PadFilled
  <2> DEFINE tail == PadArea(op.pad) + op.len - op.pos
  <2>1. tail \in Int
    <3>1. \A p \in Nat : PadArea(p) \in Nat
      BY <1>1, PadAreaType DEF TypeOK
    <3>2. PadArea(op.pad) \in Nat
      BY <1>2, <3>1
    <3> QED BY <1>2, <3>2
  <2>2. cache' \in Volume
    <3>1. cache' = WithTail(cache, Newest, op.pos, tail)
      BY <1>4 DEF PadFilled
    <3>2. cache \in Volume /\ Newest \in Int /\ op.pos \in Int
      BY <1>1, <1>2, <1>3 DEF TypeOK
    <3> HIDE DEF tail
    <3> QED BY <2>1, <3>1, <3>2, WithTailType
  <2>3. op' = [op EXCEPT !.pc = "mp2", !.news = op.news \o TailEntry(op.pos, tail)]
    BY <1>4 DEF PadFilled
  <2>4. op.news \o TailEntry(op.pos, tail) \in Seq(Nat)
    <3>1. \A p \in Nat : \A size \in Int : TailEntry(p, size) \in Seq(Nat)
      BY EntriesType
    <3> HIDE DEF tail
    <3>2. TailEntry(op.pos, tail) \in Seq(Nat)
      BY <1>2, <2>1, <3>1
    <3> QED BY <1>2, <3>2
  <2> HIDE DEF tail
  <2>5. op' \in OpType /\ op'.pc = "mp2" /\ op'.olds = op.olds /\ op'.reqs = op.reqs
    <3>1. "mp2" \in PCs
      BY DEF PCs
    <3> QED BY <1>1, <2>3, <2>4, <3>1, Zenon DEF OpType
  <2>6. ProgressOK'
    BY <1>2, <2>5 DEF ProgressOK, ForOneFile, ForAllFiles, InFreeSpace
  <2> QED BY <1>1, <1>3, <1>4, <2>2, <2>5, <2>6, AllFilesIInv DEF PadFilled, TypeOK, lists
<1>5. CASE FreeFilled
  <2>1. op' = [op EXCEPT !.pc = "mf1", !.len = op.pos - free[op.fl].start] /\ op.pc = "fillfree"
    BY <1>5 DEF FreeFilled
  <2>2. op.fl \in DOMAIN free /\ op.pos >= free[op.fl].start
    BY <1>1, <2>1 DEF ProgressOK, InFreeSpace
  <2>3. free[op.fl] \in Entry
    BY <1>1, <2>2 DEF TypeOK
  <2>4. free[op.fl].start \in Nat
    BY <2>3, Zenon DEF Entry
  <2>5. op.pos - free[op.fl].start \in Int /\ op.pos - free[op.fl].start >= 0
    BY <1>2, <2>2, <2>4
  <2>6. /\ op' \in OpType /\ op'.pc = "mf1" /\ op'.olds = op.olds /\ op'.reqs = op.reqs
        /\ op'.fl = op.fl /\ op'.len = op.pos - free[op.fl].start
    <3>1. "mf1" \in PCs
      BY DEF PCs
    <3> QED BY <1>1, <2>1, <2>5, <3>1, Zenon DEF OpType
  <2>7. free' = free
    BY <1>5 DEF FreeFilled, lists
  <2>8. ProgressOK'
    BY <1>2, <2>2, <2>5, <2>6, <2>7 DEF ProgressOK, ForOneFile, ForAllFiles, InFreeSpace
  <2> QED BY <1>1, <1>3, <1>5, <2>6, <2>8, AllFilesIInv DEF FreeFilled, TypeOK, lists
<1> QED BY <1>4, <1>5

(* A step that goes on in the states of control after the filling. *)
LEMMA AfterFill ==
    ASSUME IInv, op.pc \in ForAllFiles, op' \in OpType, op'.olds = op.olds, op'.reqs = op.reqs,
           op'.pc \in {"mp3", "unlink", "multidel", "mdel"},
           op'.pc \in {"unlink", "multidel"} => op'.i > 0,
           op'.pc = "mdel" => op'.i \in DOMAIN op.reqs
    PROVE  ProgressOK'
<1>1. Len(op.olds) = Len(op.reqs) /\ Len(op.reqs) > 0
  BY AllFilesFacts
<1> QED BY <1>1 DEF ProgressOK, ForOneFile, ForAllFiles, InFreeSpace

LEMMA MultiEndIInv ==
    ASSUME IInv, \/ MultiAreaWritten \/ MultiPadInvalid \/ Unlink \/ MultiPadReplaced
                 \/ MultiFreeWritten \/ MultiDelete \/ MultiDeleted \/ MultiDone
    PROVE  IInv'
<1>1. TypeOK /\ op \in OpType /\ ProgressOK
  BY DEF IInv, TypeOK
<1>2. op.i \in Nat /\ op.i + 1 \in Nat /\ 1 \in Nat /\ op.pad \in Nat /\ op.news \in Seq(Nat)
  BY <1>1, OpFields
<1>3. CASE MultiAreaWritten
  <2>1. op' \in OpType /\ op'.pc = "mp3" /\ op'.olds = op.olds /\ op'.reqs = op.reqs
    BY <1>1, <1>3, GotoType DEF MultiAreaWritten, PCs
  <2>2. ProgressOK'
    BY <1>3, <2>1, AfterFill DEF MultiAreaWritten, ForAllFiles
  <2>3. flash' \in Volume /\ left' \in Budget
    BY <1>1, <1>3, WriteType DEF MultiAreaWritten
  <2>4. cache' \in Volume
    BY <1>1, <1>2, <1>3, StateChange DEF MultiAreaWritten
  <2> QED BY <1>1, <1>3, <2>1, <2>2, <2>3, <2>4, AllFilesIInv DEF MultiAreaWritten, TypeOK, lists
<1>4. CASE MultiPadInvalid
  <2>1. op' \in OpType /\ op'.pc = "unlink" /\ op'.i = 1 /\ op'.olds = op.olds /\ op'.reqs = op.reqs
    BY <1>1, <1>2, <1>4, StepType DEF MultiPadInvalid, PCs
  <2>2. ProgressOK'
    BY <1>4, <2>1, AfterFill DEF MultiPadInvalid, ForAllFiles
  <2>3. flash' \in Volume /\ left' \in Budget
    BY <1>1, <1>4, WriteType DEF MultiPadInvalid
  <2> QED BY <1>1, <1>4, <2>1, <2>2, <2>3, AllFilesIInv DEF MultiPadInvalid, TypeOK, lists
<1>5. CASE Unlink
  <2>1. op' \in OpType /\ op'.pc = "unlink" /\ op'.i = op.i + 1 /\ op'.olds = op.olds /\ op'.reqs = op.reqs
    BY <1>1, <1>2, <1>5, StepType DEF Unlink, PCs
  <2>2. ProgressOK'
    BY <1>2, <1>5, <2>1, AfterFill DEF Unlink, ForAllFiles
  <2>3. files' \in Seq(Nat)
    BY <1>1, <1>5, SpliceType DEF Unlink, TypeOK
  <2> QED BY <1>1, <1>5, <2>1, <2>2, <2>3, AllFilesIInv DEF Unlink, TypeOK
<1>6. CASE MultiPadReplaced
  <2>1. op' \in OpType /\ op'.pc = "multidel" /\ op'.i = 1 /\ op'.olds = op.olds /\ op'.reqs = op.reqs
    BY <1>1, <1>2, <1>6, StepType DEF MultiPadReplaced, PCs
  <2>2. ProgressOK'
    BY <1>6, <2>1, AfterFill DEF MultiPadReplaced, ForAllFiles
  <2>3. files' \in Seq(Nat)
    BY <1>1, <1>2, <1>6, SpliceType DEF MultiPadReplaced, TypeOK
  <2> QED BY <1>1, <1>6, <2>1, <2>2, <2>3, AllFilesIInv DEF MultiPadReplaced, TypeOK
<1>7. CASE MultiFreeWritten
  <2>1. op' \in OpType /\ op'.pc = "hang"
    BY <1>1, <1>7, GotoType DEF MultiFreeWritten, PCs
  <2>2. ProgressOK'
    BY <2>1, AtRestNext
  <2>3. flash' \in Volume /\ left' \in Budget
    BY <1>1, <1>7, WriteType DEF MultiFreeWritten
  <2>4. op.fl \in DOMAIN free /\ op.len \in Nat
    BY <1>1, <1>7, OpFields DEF MultiFreeWritten, ProgressOK, InFreeSpace
  <2>5. free' \in Seq(Entry) /\ << >> \in Seq(Nat)
    BY <1>1, <1>7, <2>4, ShrinkType DEF MultiFreeWritten, TypeOK
  <2> QED BY <1>1, <1>7, <2>1, <2>2, <2>3, <2>5, AllFilesIInv DEF MultiFreeWritten, TypeOK
<1>8. CASE MultiDelete
  <2>1. op.pc = "multidel" /\ op.i \in DOMAIN op.reqs /\ op.i > 0 /\ op.i \in DOMAIN op.olds
    <3>1. op.pc = "multidel" /\ op.i <= Len(op.reqs)
      BY <1>8 DEF MultiDelete
    <3>2. op.i > 0 /\ Len(op.olds) = Len(op.reqs)
      BY <1>1, <3>1 DEF ProgressOK, ForAllFiles
    <3>3. op.reqs \in Seq(Requests) /\ op.olds \in Seq(Nat)
      BY <1>1, OpFields
    <3> QED BY <1>2, <3>1, <3>2, <3>3
  <2>2. op.olds[op.i] \in Nat
    <3>1. op.olds \in Seq(Nat)
      BY <1>1, OpFields
    <3> QED BY <2>1, <3>1
  <2>3. cache' \in Volume
    BY <1>1, <1>8, <2>2, StateChange DEF MultiDelete, TypeOK
  <2>4. /\ op' \in OpType /\ op'.pc \in {"multidel", "mdel"} /\ op'.olds = op.olds
        /\ op'.reqs = op.reqs /\ op'.i > 0 /\ (op'.pc = "mdel" => op'.i = op.i)
    BY <1>1, <1>2, <1>8, <2>1, StepType, GotoType DEF MultiDelete, PCs
  <2>5. ProgressOK'
    BY <2>1, <2>4, AfterFill DEF ForAllFiles
  <2> QED BY <1>1, <1>8, <2>3, <2>4, <2>5, AllFilesIInv DEF MultiDelete, TypeOK, lists
<1>9. CASE MultiDeleted
  <2>1. op' \in OpType /\ op'.pc = "multidel" /\ op'.i = op.i + 1 /\ op'.olds = op.olds /\ op'.reqs = op.reqs
    BY <1>1, <1>2, <1>9, StepType DEF MultiDeleted, PCs
  <2>2. ProgressOK'
    BY <1>2, <1>9, <2>1, AfterFill DEF MultiDeleted, ForAllFiles
  <2>3. flash' \in Volume /\ left' \in Budget
    BY <1>1, <1>9, WriteType DEF MultiDeleted
  <2> QED BY <1>1, <1>9, <2>1, <2>2, <2>3, AllFilesIInv DEF MultiDeleted, TypeOK, lists
<1>10. CASE MultiDone
  BY <1>1, <1>10, ReturnIInv DEF MultiDone, TypeOK, lists
<1> QED BY <1>3, <1>4, <1>5, <1>6, <1>7, <1>8, <1>9, <1>10

-----------------------------------------------------------------------------
(* The theorems. *)

LEMMA NextIInv == IInv /\ [Next]_vars => IInv'
<1> SUFFICES ASSUME IInv, [Next]_vars PROVE IInv'
  OBVIOUS
<1>1. CASE UNCHANGED vars
  BY <1>1 DEF vars, IInv, TypeOK, ProgressOK
<1>2. CASE AllDone
  BY <1>2, ReturnIInv DEF AllDone, IInv, TypeOK, lists
<1>3. CASE OldMissing
  <2>1. cur' \in Nat \cup {Nil}
    BY <1>3, TakeOldType DEF OldMissing, IInv
  <2> QED BY <1>3, <2>1, ReturnIInv DEF OldMissing, IInv, TypeOK, lists
<1>4. CASE Multiple
  BY <1>4, MultiMarkIInv, MultiPlaceIInv, FillIInv, FilledIInv, MultiEndIInv DEF Multiple
<1> QED
  BY <1>1, <1>2, <1>3, <1>4, MountIInv, AskIInv, PowerLossIInv, LookupFilesIInv, DeleteIInv,
     UpdateIInv, CreateIInv, InsidePadIInv
  DEF Next, Work

(* Every variable keeps its type, for every volume, every set of calls and *)
(* every budget of failed writes and losses of power: no step of the       *)
(* driver moves a file, a free space or a header to a negative position,   *)
(* or leaves anything but cells in flash or memory.                        *)
THEOREM TypeCorrect == Spec => []TypeOK
<1>1. IInv => TypeOK
  BY DEF IInv
<1> QED BY InitIInv, NextIInv, <1>1, PTL DEF Spec

-----------------------------------------------------------------------------
(* The current file is an entry of the list of files whenever a call can  *)
(* come.  CurrentOK says where it is between calls and within them; with   *)
(* the invariant above it is inductive.  First, the entries of lists.      *)

LEMMA AppendEntries ==
    ASSUME NEW list \in Seq(Nat), NEW e \in Nat
    PROVE  e \in Entries(Append(list, e)) /\ Entries(list) \subseteq Entries(Append(list, e))
<1>1. Len(Append(list, e)) = Len(list) + 1 /\ Len(list) \in Nat
      /\ DOMAIN Append(list, e) = 1 .. Len(list) + 1 /\ DOMAIN list = 1 .. Len(list)
  OBVIOUS
<1>2. Append(list, e)[Len(list) + 1] = e /\ Len(list) + 1 \in DOMAIN Append(list, e)
  BY <1>1
<1>3. \A j \in DOMAIN list : j \in DOMAIN Append(list, e) /\ Append(list, e)[j] = list[j]
  BY <1>1
<1> QED BY <1>2, <1>3 DEF Entries

LEMMA ConcatEntries ==
    ASSUME NEW a \in Seq(Nat), NEW b \in Seq(Nat)
    PROVE  /\ Entries(a) \subseteq Entries(a \o b)
           /\ Entries(b) \subseteq Entries(a \o b)
<1>1. \A j \in DOMAIN a : j \in DOMAIN (a \o b) /\ (a \o b)[j] = a[j]
  OBVIOUS
<1>2. \A j \in DOMAIN b : Len(a) + j \in DOMAIN (a \o b) /\ (a \o b)[Len(a) + j] = b[j]
  OBVIOUS
<1>3. Entries(a) \subseteq Entries(a \o b)
  BY <1>1 DEF Entries
<1>4. Entries(b) \subseteq Entries(a \o b)
  BY <1>2 DEF Entries
<1> QED BY <1>3, <1>4

(* What takes the place of an entry is in the list. *)
LEMMA SpliceEntries ==
    ASSUME NEW list \in Seq(Nat), NEW j \in DOMAIN list, NEW news \in Seq(Nat)
    PROVE  Entries(news) \subseteq Entries(Splice(list, j, news))
<1> DEFINE before == SubSeq(list, 1, j - 1)
           after == SubSeq(list, j + 1, Len(list))
<1>1. before \in Seq(Nat) /\ after \in Seq(Nat)
  OBVIOUS
<1> HIDE DEF before, after
<1>2. Entries(news) \subseteq Entries(before \o news)
  BY <1>1, ConcatEntries
<1>3. before \o news \in Seq(Nat)
  BY <1>1
<1>4. Entries(before \o news) \subseteq Entries((before \o news) \o after)
  BY <1>1, <1>3, ConcatEntries
<1> QED BY <1>2, <1>4 DEF Splice, before, after

(* A search leaves the current file where it was, or at an entry it found. *)
LEMMA SearchListed ==
    ASSUME files \in Seq(Nat), NEW c, NEW n
    PROVE  /\ SearchFile(n) \in Entries(files) \cup {Nil}
           /\ CurAfterSearch(c, n) \in Entries(files) \cup {c}
           /\ CurAfterLookup(c, n) \in Entries(files) \cup {c}
<1>1. SearchFile(n) \in Entries(files) \cup {Nil}
  <2>1. Listed(files, n) \in SUBSET DOMAIN files /\ Listed(files, n) \in SUBSET Nat
    BY DEF Listed
  <2>2. Listed(files, n) # {} => Min(Listed(files, n)) \in DOMAIN files
    BY <2>1, MinIsIn
  <2> QED BY <2>2 DEF SearchFile, Entries
<1>2. CurAfterSearch(c, n) \in Entries(files) \cup {c}
  <2> DEFINE seen == {j \in DOMAIN files : ~IsPad(cache, files[j])}
  <2>1. seen \in SUBSET (0 .. Len(files)) /\ seen \in SUBSET DOMAIN files /\ Len(files) \in Nat
    OBVIOUS
  <2>2. seen # {} => Max(seen) \in DOMAIN files
    BY <2>1, MaxIsIn
  <2>3. seen # {} => files[Max(seen)] \in Entries(files)
    BY <2>2 DEF Entries
  <2> HIDE DEF seen
  <2> QED BY <1>1, <2>3 DEF CurAfterSearch, seen
<1> QED BY <1>1, <1>2 DEF CurAfterLookup

-----------------------------------------------------------------------------
(* Steps that keep the current file in the list. *)

LEMMA Moved ==
    ASSUME op'.pc \notin Replacing, cur' \in Entries(files') \cup {Nil}
    PROVE  CurrentOK'
BY DEF CurrentOK

LEMMA Kept ==
    ASSUME CurrentOK, op.pc \notin Replacing \cup Astray, op'.pc \notin Replacing,
           cur' \in Entries(files) \cup {Nil, cur}, files' = files
    PROVE  CurrentOK'
<1>1. cur' \in Entries(files') \cup {Nil}
  BY DEF CurrentOK
<1> QED BY <1>1, Moved

LEMMA Returned ==
    /\ Return => op'.pc = "ready"
    /\ ReturnSuccess => op'.pc = "ready"
BY DEF Return, ReturnSuccess, Idle

LEMMA MountCurrent ==
    ASSUME IInv, CurrentOK, Mount
    PROVE  CurrentOK'
<1>0. op \in OpType /\ files \in Seq(Nat)
  BY DEF IInv, TypeOK
<1> USE DEF Replacing, Astray
<1>1. CASE PowerOn
  BY <1>1, Moved DEF PowerOn, Idle
<1>2. CASE ScanFree \/ ScanSkip
  BY <1>2, Kept DEF ScanFree, ScanSkip, lists
<1>3. CASE Corrupted /\ op.pc = "scan"
  BY <1>3, Kept DEF Corrupted, lists, Idle
<1>4. CASE ScanFile
  <2>1. ptr \in Nat /\ cur \in Entries(files) \cup {Nil}
    BY <1>4 DEF ScanFile, CurrentOK, IInv, TypeOK
  <2>2. cur' \in Entries(files') \cup {Nil}
    BY <1>0, <1>4, <2>1, AppendEntries DEF ScanFile
  <2> QED BY <1>4, <2>2, Moved DEF ScanFile
<1>5. CASE ScanSuperseded
  <2>1. op'.pc = "scanmark"
    BY <1>0, <1>5, GotoType DEF ScanSuperseded, PCs
  <2> QED BY <1>5, <2>1, Kept DEF ScanSuperseded, lists
<1>6. CASE ScanMarked
  <2>1. op'.pc = "scan"
    BY <1>0, <1>6, GotoType DEF ScanMarked, PCs
  <2> QED BY <1>6, <2>1, Kept DEF ScanMarked, lists
<1>7. CASE ScanEnd
  BY <1>7, Kept DEF ScanEnd, lists, Idle
<1> QED
  BY <1>1, <1>2, <1>3, <1>4, <1>5, <1>6, <1>7 DEF Mount, ScanBadHeader, ScanBadFile

LEMMA AskCurrent ==
    ASSUME IInv, CurrentOK, Ask
    PROVE  CurrentOK'
<1>0. op \in OpType /\ files \in Seq(Nat)
  BY DEF IInv, TypeOK
<1> USE DEF Replacing, Astray
<1>1. ASSUME NEW n \in Names, ReadFileAction(n) PROVE CurrentOK'
  BY <1>0, <1>1, SearchListed, Kept DEF ReadFileAction, lists
<1>2. CASE GetNextFile
  BY <1>2, Kept DEF GetNextFile, lists, Entries
<1>3. ASSUME NEW call \in Calls, WriteFile(call) PROVE CurrentOK'
  <2>1. op'.pc = "lookup"
    BY <1>3 DEF WriteFile, Idle
  <2> QED BY <1>3, <2>1, Kept DEF WriteFile, lists
<1> QED BY <1>1, <1>2, <1>3 DEF Ask

LEMMA TakeOldCurrent ==
    ASSUME files \in Seq(Nat), TakeOld
    PROVE  cur' \in Entries(files) \cup {Nil, cur}
BY SearchListed DEF TakeOld

LEMMA LookupCurrent ==
    ASSUME IInv, CurrentOK, LookupFiles \/ AllDone \/ OldMissing
    PROVE  CurrentOK'
<1>0. op \in OpType /\ files \in Seq(Nat)
  BY DEF IInv, TypeOK
<1> USE DEF Replacing, Astray
<1>1. CASE LookupFile
  <2>1. op.pc = "lookup" /\ op'.pc = op.pc
    BY <1>0, <1>1, Zenon DEF LookupFile, LookupTurn, OpType
  <2>2. cur' \in Entries(files) \cup {cur}
    BY <1>0, <1>1, SearchListed DEF LookupFile
  <2> QED BY <1>1, <2>1, <2>2, Kept DEF LookupFile, lists
<1>2. CASE DeleteMissing
  BY <1>0, <1>2, SearchListed, Returned, Kept DEF DeleteMissing, LookupTurn, lists
<1>3. CASE LookedUp
  <2>1. op.pc = "lookup" /\ op'.pc \in {"multi", "file"}
    BY <1>0, <1>3, Zenon DEF LookedUp, OpType
  <2> QED BY <1>3, <2>1, Kept DEF LookedUp, lists
<1>4. CASE MixedRefused
  BY <1>4, Returned, Kept DEF MixedRefused, lists
<1>5. CASE AllDone
  BY <1>5, Returned, Kept DEF AllDone, lists
<1>6. CASE OldMissing
  BY <1>0, <1>6, Returned, TakeOldCurrent, Kept DEF OldMissing, FileTurn, lists
<1> QED BY <1>1, <1>2, <1>3, <1>4, <1>5, <1>6 DEF LookupFiles

LEMMA OneFileCurrent ==
    ASSUME IInv, CurrentOK, Delete \/ Update
    PROVE  CurrentOK'
<1>0. op \in OpType /\ files \in Seq(Nat)
  BY DEF IInv, TypeOK
<1> USE DEF Replacing, Astray
<1>1. CASE DeleteStart
  <2>1. op.pc = "file" /\ op'.pc = "delete"
    BY <1>0, <1>1, Zenon DEF DeleteStart, FileTurn, OpType
  <2> QED BY <1>0, <1>1, <2>1, TakeOldCurrent, Kept DEF DeleteStart, lists
<1>2. CASE DeleteDone
  <2>1. op'.pc = "file"
    BY <1>0, <1>2, NextFileType DEF DeleteDone
  <2> QED BY <1>2, <2>1, Moved DEF DeleteDone
<1>3. CASE DeleteFailed
  BY <1>3, Returned, Kept DEF DeleteFailed, lists
<1>4. CASE UpdateStart
  <2>1. op.pc = "file" /\ op'.pc = "mark"
    BY <1>0, <1>4, Zenon DEF UpdateStart, FileTurn, OpType
  <2> QED BY <1>0, <1>4, <2>1, TakeOldCurrent, Kept DEF UpdateStart, lists
<1>5. CASE Marked
  <2>1. op'.pc = "create"
    BY <1>0, <1>5, GotoType DEF Marked, PCs
  <2> QED BY <1>5, <2>1, Kept DEF Marked, lists
<1>6. CASE MarkFailed
  BY <1>6, Returned, Kept DEF MarkFailed, lists
<1>7. CASE OldDeleted
  <2>1. op'.pc = "file"
    BY <1>0, <1>7, NextFileType DEF OldDeleted
  <2> QED BY <1>7, <2>1, Kept DEF OldDeleted, lists
<1>8. CASE OldNotDeleted
  BY <1>8, Returned, Kept DEF OldNotDeleted, lists
<1> QED BY <1>1, <1>2, <1>3, <1>4, <1>5, <1>6, <1>7, <1>8 DEF Delete, Update

(* The file was created: its entry is in the list and it is current. *)
LEMMA CreatedPc ==
    ASSUME op \in OpType, NEW vol, Created(vol)
    PROVE  op'.pc \in {"file", "del"}
BY NextFileType, GotoType DEF Created, PCs

LEMMA CreateCurrent ==
    ASSUME IInv, CurrentOK, Create
    PROVE  CurrentOK'
<1>0. TypeOK /\ op \in OpType /\ files \in Seq(Nat) /\ op.pos \in Nat
  BY OpFields DEF IInv, TypeOK
<1> USE DEF Replacing, Astray
<1>1. CASE CreateStart
  <2>1. op.pc = "file" /\ op'.pc = "create"
    BY <1>0, <1>1, GotoType DEF CreateStart, FileTurn, PCs
  <2> QED BY <1>1, <2>1, Kept DEF CreateStart, lists
<1>2. CASE CreateRefused
  BY <1>2, Returned, Kept DEF CreateRefused, lists
<1>3. CASE CreateInFree
  <2> DEFINE fl == Min(InFree)
             at == free[fl].start
             psz == CalculatePadFileSize(at, SizeOf(Req), AlignOf(Req))
  <2>1. op'.pc \in {"new1", "pad1", "ready"}
    <3>1. \/ op' = [op EXCEPT !.pc = "new1", !.fl = fl, !.pos = at]
          \/ op' = [op EXCEPT !.pc = "pad1", !.fl = fl, !.pos = at, !.len = psz]
          \/ Return
      BY <1>3 DEF CreateInFree
    <3> HIDE DEF fl, at, psz
    <3>2. \/ op'.pc = "new1" \/ op'.pc = "pad1" \/ Return
      BY <1>0, <3>1, Zenon DEF OpType
    <3> QED BY <3>2, Returned
  <2>2. op.pc = "create" /\ UNCHANGED << lists, cur >>
    BY <1>3 DEF CreateInFree
  <2> QED BY <2>1, <2>2, Kept DEF lists
<1>4. CASE PadConstructed
  <2>1. op'.pc = "pad2"
    BY <1>0, <1>4, GotoType DEF PadConstructed, PCs
  <2> QED BY <1>4, <2>1, Kept DEF PadConstructed
<1>5. CASE PadNotConstructed \/ PadNotValid
  BY <1>5, Returned, Kept DEF PadNotConstructed, PadNotValid, lists
<1>6. CASE PadWritten
  <2>1. op'.pc = "pad3"
    BY <1>0, <1>6, GotoType DEF PadWritten, PCs
  <2> QED BY <1>6, <2>1, Kept DEF PadWritten, lists
<1>7. CASE PadValid
  <2>1. op'.pc = "new1"
    BY <1>0, <1>7, Zenon DEF PadValid, OpType
  <2>2. cur' \in Entries(files')
    BY <1>0, <1>7, AppendEntries DEF PadValid
  <2> QED BY <2>1, <2>2, Moved
<1>8. CASE HeaderAllocated
  <2>1. op'.pc = "new2"
    BY <1>0, <1>8, GotoType DEF HeaderAllocated, PCs
  <2> QED BY <1>8, <2>1, Kept DEF HeaderAllocated
<1>9. CASE HeaderWritten
  <2>1. op'.pc = "new3"
    BY <1>0, <1>9, GotoType DEF HeaderWritten, PCs
  <2> QED BY <1>9, <2>1, Kept DEF HeaderWritten, lists
<1>10. CASE HeaderMadeValid
  <2>1. op'.pc = "new4"
    BY <1>0, <1>10, GotoType DEF HeaderMadeValid, PCs
  <2> QED BY <1>10, <2>1, Kept DEF HeaderMadeValid
<1>11. CASE DataWritten
  <2>1. op'.pc = "new5"
    BY <1>0, <1>11, GotoType DEF DataWritten, PCs
  <2> QED BY <1>11, <2>1, Kept DEF DataWritten, lists
<1>12. CASE DataMadeValid
  <2>1. op'.pc \in {"file", "del"}
    BY <1>0, <1>12, CreatedPc DEF DataMadeValid
  <2>2. PICK list \in Remaining : files' = Append(list, op.pos)
    BY <1>12 DEF DataMadeValid
  <2>3. list \in Seq(Nat)
    BY <1>0, RemainingType
  <2>4. cur' \in Entries(files')
    BY <1>0, <1>12, <2>2, <2>3, AppendEntries DEF DataMadeValid
  <2> QED BY <2>1, <2>4, Moved
<1>13. CASE CreateFailed
  BY <1>13, Returned, Kept DEF CreateFailed, lists
<1> QED
  BY <1>1, <1>2, <1>3, <1>4, <1>5, <1>6, <1>7, <1>8, <1>9, <1>10, <1>11, <1>12, <1>13 DEF Create

LEMMA PadMarkedCurrent ==
    ASSUME IInv, PadMarked
    PROVE  CurrentOK'
<1>1. IInv'
  BY PadMarkedIInv
<1>2. PICK start, psz, pos, end, tail, area :
        /\ pos = start + psz
        /\ start \in Nat /\ psz \in Nat /\ end \in Nat /\ tail \in Int /\ area \in Int
        /\ cur' = pos
        /\ op' = [op EXCEPT !.pc = "in2", !.len = area,
                            !.news = LeadEntry(start, psz) \o << pos >> \o TailEntry(end, tail)]
  <2>1. op \in OpType /\ cache \in Volume /\ op.pad \in Nat /\ op.i \in DOMAIN op.reqs
    BY OpFields DEF IInv, TypeOK, ProgressOK, ForOneFile, PadMarked
  <2>2. Req \in Requests
    BY <2>1, ReqType
  <2>3. FileSize(cache, op.pad) - Hdr \in Int
    <3>1. FileSize(cache, op.pad) \in Nat
      BY <2>1, FileSizeType
    <3> QED BY <3>1 DEF Hdr
  <2> DEFINE start == PadArea(op.pad)
             psz == CalculatePadFileSize(start, SizeOf(Req), AlignOf(Req))
             area == FileSize(cache, op.pad) - Hdr
  <2>4. start \in Nat
    BY <2>1, PadAreaType
  <2>5. psz \in Nat /\ SizeOf(Req) \in Nat
    BY <2>2, <2>4, RequestTypes, CalculatePadFileSizeType
  <2>6. /\ cur' = start + psz
        /\ op' = [op EXCEPT !.pc = "in2", !.len = area,
                            !.news = LeadEntry(start, psz) \o << start + psz >>
                                     \o TailEntry(start + psz + SizeOf(Req),
                                                  start + area - (start + psz + SizeOf(Req)))]
    BY DEF PadMarked
  <2>7. /\ start + psz + SizeOf(Req) \in Nat
        /\ start + area - (start + psz + SizeOf(Req)) \in Int
    BY <2>3, <2>4, <2>5
  <2> HIDE DEF start, psz, area
  <2> QED BY <2>3, <2>4, <2>5, <2>6, <2>7 DEF area
<1>3. LeadEntry(start, psz) \in Seq(Nat) /\ TailEntry(end, tail) \in Seq(Nat)
  BY <1>2, EntriesType
<1>4. << pos >> \in Seq(Nat) /\ pos \in Entries(<< pos >>)
  BY <1>2 DEF Entries
<1> DEFINE lead == LeadEntry(start, psz)
           rest == TailEntry(end, tail)
<1>5. lead \in Seq(Nat) /\ rest \in Seq(Nat)
  BY <1>3
<1> HIDE DEF lead, rest
<1>6. lead \o << pos >> \in Seq(Nat)
  BY <1>4, <1>5
<1>7. pos \in Entries(lead \o << pos >> \o rest)
  BY <1>4, <1>5, <1>6, ConcatEntries
<1>8. op'.pc = "in2" /\ op'.news = lead \o << pos >> \o rest
  <2>1. op \in OpType
    BY DEF IInv, TypeOK
  <2>2. op' = [op EXCEPT !.pc = "in2", !.len = area, !.news = lead \o << pos >> \o rest]
    BY <1>2 DEF lead, rest
  <2> QED BY <2>1, <2>2, Zenon DEF OpType
<1> QED BY <1>2, <1>7, <1>8 DEF CurrentOK, Replacing

LEMMA InsidePadCurrent ==
    ASSUME IInv, CurrentOK, InsidePad
    PROVE  CurrentOK'
<1>0. op \in OpType /\ TypeOK /\ files \in Seq(Nat) /\ op.news \in Seq(Nat)
  BY OpFields DEF IInv, TypeOK
<1>1. CASE CreateInPad
  <2>1. op.pc = "create" /\ op'.pc = "in1"
    BY <1>0, <1>1, Zenon DEF CreateInPad, OpType
  <2> QED BY <1>1, <2>1, Kept DEF CreateInPad, lists, Replacing, Astray
<1>2. CASE PadMarked
  BY <1>2, PadMarkedCurrent
<1>3. CASE PadNotMarked
  BY <1>3, Returned, Kept DEF PadNotMarked, lists, Replacing, Astray
<1>4. CASE AreaWritten
  <2>1. op'.pc = "in3" /\ op'.news = op.news
    BY <1>0, <1>4, GotoType DEF AreaWritten, PCs
  <2> QED BY <1>4, <2>1 DEF AreaWritten, CurrentOK, Replacing
<1>5. CASE PadReplaced
  <2>1. op'.pc \in {"file", "del"}
    BY <1>0, <1>5, CreatedPc DEF PadReplaced
  <2>2. PICK list \in Remaining : \E j \in DOMAIN list : files' = Splice(list, j, op.news)
    BY <1>5 DEF PadReplaced
  <2>3. list \in Seq(Nat)
    BY <1>0, RemainingType
  <2>4. Entries(op.news) \subseteq Entries(files')
    BY <1>0, <2>2, <2>3, SpliceEntries
  <2>5. cur' \in Entries(op.news)
    BY <1>5 DEF PadReplaced, CurrentOK, Replacing
  <2> QED BY <2>1, <2>4, <2>5, Moved DEF Replacing
<1>6. CASE PadNotReplaced \/ AreaFailed
  BY <1>6, Returned, Moved DEF PadNotReplaced, AreaFailed, Replacing
<1> QED BY <1>1, <1>2, <1>3, <1>4, <1>5, <1>6 DEF InsidePad

(* The last of the new entries, before the rest of the area gets one.      *)
LEMMA PadFilledCurrent ==
    ASSUME IInv, PadFilled
    PROVE  CurrentOK'
<1>1. op \in OpType /\ ProgressOK /\ op.pc = "fillpad" /\ op.i > Len(op.reqs) /\ TypeOK
  BY DEF IInv, TypeOK, PadFilled
<1>2. /\ op.i \in Nat /\ op.news \in Seq(Nat) /\ op.pos \in Nat /\ op.pad \in Nat /\ op.len \in Int
      /\ Len(op.reqs) \in Nat /\ Len(op.reqs) > 0 /\ Len(op.news) \in Nat
  BY <1>1, OpFields, AllFilesFacts DEF ForAllFiles
<1>3. Newest \in Entries(op.news)
  <2>1. Len(op.news) >= op.i - 1
    BY <1>1 DEF ProgressOK
  <2>2. Len(op.news) > 0 /\ Len(op.news) \in DOMAIN op.news
    BY <1>1, <1>2, <2>1
  <2> QED BY <2>2 DEF Newest, Entries
<1> DEFINE tail == PadArea(op.pad) + op.len - op.pos
           rest == TailEntry(op.pos, tail)
<1>4. rest \in Seq(Nat)
  <2>1. \A p \in Nat : PadArea(p) \in Nat
    BY <1>1, PadAreaType DEF TypeOK
  <2>2. PadArea(op.pad) \in Nat
    BY <1>2, <2>1
  <2>3. tail \in Int
    BY <1>2, <2>2
  <2> HIDE DEF tail
  <2>4. \A p \in Nat : \A size \in Int : TailEntry(p, size) \in Seq(Nat)
    BY EntriesType
  <2> QED BY <1>2, <2>3, <2>4
<1>5. op' = [op EXCEPT !.pc = "mp2", !.news = op.news \o rest] /\ cur' = Newest
  BY DEF PadFilled
<1> HIDE DEF tail, rest
<1>6. op'.pc = "mp2" /\ op'.news = op.news \o rest
  BY <1>1, <1>5, Zenon DEF OpType
<1>7. Entries(op.news) \subseteq Entries(op.news \o rest)
  BY <1>2, <1>4, ConcatEntries
<1> QED BY <1>3, <1>5, <1>6, <1>7 DEF CurrentOK, Replacing

LEMMA MultipleCurrent ==
    ASSUME IInv, CurrentOK, Multiple
    PROVE  CurrentOK'
<1>0. op \in OpType /\ TypeOK /\ ProgressOK /\ files \in Seq(Nat) /\ op.news \in Seq(Nat) /\ op.i + 1 \in Nat
  BY OpFields DEF IInv, TypeOK
<1>1. CASE MultiCreate
  <2>1. op.pc = "multi" /\ op'.pc = op.pc
    BY <1>0, <1>1, Zenon DEF MultiCreate, OpType
  <2> QED BY <1>1, <2>1, Kept DEF MultiCreate, lists, Replacing, Astray
<1>2. CASE MultiUpdate
  <2>1. op.pc = "multi" /\ op'.pc = "mmark"
    BY <1>0, <1>2, Zenon DEF MultiUpdate, OpType
  <2> QED BY <1>0, <1>2, <2>1, SearchListed, Kept DEF MultiUpdate, lists, Replacing, Astray
<1>3. CASE MultiMarked
  <2>1. op'.pc = "multi"
    BY <1>0, <1>3, StepType DEF MultiMarked, PCs
  <2> QED BY <1>3, <2>1, Kept DEF MultiMarked, lists, Replacing, Astray
<1>4. CASE MultiFailed
  BY <1>4, Returned, Kept DEF MultiFailed, lists, Replacing, Astray
<1>5. CASE MultiNoRoom
  BY <1>5, Returned, Kept DEF MultiNoRoom, MultiPlace, lists, Replacing, Astray
<1>6. CASE MultiInPad
  <2>1. op.pc = "multi" /\ op'.pc = "mp1"
    BY <1>0, <1>6, Zenon DEF MultiInPad, MultiPlace, OpType
  <2> QED BY <1>6, <2>1, Kept DEF MultiInPad, lists, Replacing, Astray
<1>7. CASE MultiPadMarked
  <2>1. op.pc = "mp1" /\ op'.pc = "fillpad"
    BY <1>0, <1>7, Zenon DEF MultiPadMarked, OpType
  <2> QED BY <1>7, <2>1, Kept DEF MultiPadMarked, lists, Replacing, Astray
<1>8. CASE MultiInFree
  <2>1. op.pc = "multi" /\ op'.pc = "fillfree"
    BY <1>0, <1>8, Zenon DEF MultiInFree, MultiPlace, OpType
  <2> QED BY <1>8, <2>1, Kept DEF MultiInFree, lists, Replacing, Astray
<1>9. CASE FillNext
  <2>1. op.pc \in {"fillpad", "fillfree"} /\ op'.pc = op.pc
    BY <1>0, <1>9, Zenon DEF FillNext, Filling, OpType
  <2> QED BY <1>9, <2>1, Kept DEF FillNext, lists, Replacing, Astray
<1>10. CASE FillRefused
  BY <1>10, Returned, Kept DEF FillRefused, Filling, lists, Replacing, Astray
<1>11. CASE PadFilled
  BY <1>11, PadFilledCurrent
<1>12. CASE MultiAreaWritten
  <2>1. op'.pc = "mp3" /\ op'.news = op.news
    BY <1>0, <1>12, GotoType DEF MultiAreaWritten, PCs
  <2> QED BY <1>12, <2>1 DEF MultiAreaWritten, CurrentOK, Replacing
<1>13. CASE MultiPadInvalid
  <2>1. op'.pc = "unlink" /\ op'.news = op.news
    BY <1>0, <1>13, StepType DEF MultiPadInvalid, PCs
  <2> QED BY <1>13, <2>1 DEF MultiPadInvalid, CurrentOK, Replacing
<1>14. CASE Unlink
  <2>1. op'.pc = "unlink" /\ op'.news = op.news
    BY <1>0, <1>14, StepType DEF Unlink, PCs
  <2> QED BY <1>14, <2>1 DEF Unlink, CurrentOK, Replacing
<1>15. CASE MultiPadReplaced
  <2>1. op'.pc = "multidel"
    BY <1>0, <1>15, StepType DEF MultiPadReplaced, PCs
  <2>2. Entries(op.news) \subseteq Entries(files')
    BY <1>0, <1>15, SpliceEntries DEF MultiPadReplaced
  <2>3. cur' \in Entries(op.news)
    BY <1>15 DEF MultiPadReplaced, CurrentOK, Replacing
  <2> QED BY <2>1, <2>2, <2>3, Moved DEF Replacing
<1>16. CASE FreeFilled
  <2>1. op'.pc = "mf1"
    BY <1>0, <1>16, Zenon DEF FreeFilled, OpType
  <2> QED BY <2>1 DEF CurrentOK, Replacing, Astray
<1>17. CASE MultiFreeWritten
  <2>1. op'.pc = "hang"
    BY <1>0, <1>17, GotoType DEF MultiFreeWritten, PCs
  <2> QED BY <2>1 DEF CurrentOK, Replacing, Astray
<1>18. CASE MultiDelete
  <2>1. op.pc = "multidel" /\ op'.pc \in {"multidel", "mdel"}
    BY <1>0, <1>18, StepType, GotoType DEF MultiDelete, PCs
  <2> QED BY <1>18, <2>1, Kept DEF MultiDelete, lists, Replacing, Astray
<1>19. CASE MultiDeleted
  <2>1. op'.pc = "multidel"
    BY <1>0, <1>19, StepType DEF MultiDeleted, PCs
  <2> QED BY <1>19, <2>1, Kept DEF MultiDeleted, lists, Replacing, Astray
<1>20. CASE MultiDone
  BY <1>20, Returned, Kept DEF MultiDone, lists, Replacing, Astray
<1> QED
  BY <1>1, <1>2, <1>3, <1>4, <1>5, <1>6, <1>7, <1>8, <1>9, <1>10, <1>11, <1>12, <1>13,
     <1>14, <1>15, <1>16, <1>17, <1>18, <1>19, <1>20
  DEF Multiple

-----------------------------------------------------------------------------
(* The theorem. *)

LEMMA InitCurrent == Init => CurrentOK
BY DEF Init, Idle, CurrentOK, Replacing

LEMMA NextCurrent == IInv /\ CurrentOK /\ [Next]_vars => CurrentOK'
<1> SUFFICES ASSUME IInv, CurrentOK, [Next]_vars PROVE CurrentOK'
  OBVIOUS
<1>1. CASE UNCHANGED vars
  BY <1>1 DEF vars, CurrentOK, Entries
<1>2. CASE PowerLoss
  BY <1>2, Moved DEF PowerLoss, Idle, Replacing
<1> QED
  BY <1>1, <1>2, MountCurrent, AskCurrent, LookupCurrent, OneFileCurrent, CreateCurrent,
     InsidePadCurrent, MultipleCurrent
  DEF Next, Work

(* Whenever a call can come, the file that was used last is nil or in the  *)
(* list of files: no path of FvDeleteFile, FvUpdateFile, FvCreateNewFile   *)
(* or the functions of FwPadFile.c, failed writes included, leaves         *)
(* CurrentFfsFile at an entry that was freed or removed.                   *)
THEOREM CurrentIsListed == Spec => []CurrentFileListed
<1>1. CurrentOK => CurrentFileListed
  BY DEF CurrentOK, CurrentFileListed, InService, Replacing, Astray
<1> QED BY InitIInv, InitCurrent, NextIInv, NextCurrent, <1>1, PTL DEF Spec
=============================================================================
