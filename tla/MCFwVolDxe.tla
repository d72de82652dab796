----------------------------- MODULE MCFwVolDxe -----------------------------
(***************************************************************************)
(* Small volumes and calls for model checking FwVolDxe.                    *)
(***************************************************************************)
EXTENDS FwVolDxe

CONSTANTS a, b, c, x, y, z

(* A volume with a header and these cells, erased after them. *)
Image(cells) ==
    [q \in 0 .. N - 1 |->
        IF q < FvHdr THEN FvHeaderCell
        ELSE IF q - FvHdr < Len(cells) THEN cells[q - FvHdr + 1] ELSE Erased]
File(n, data) ==
    LET size == IF Len(data) + Hdr > MaxSmall THEN Len(data) + 4 ELSE Len(data) + Hdr
    IN  FileCells(Header(n, size), DataValid, data)
PadFile(size) ==
    HeaderCells(Header(Pad, size), DataValid)
    \o [j \in 1 .. size - HdrLen(size) |-> Erased]

Write(n, data, align) == [name |-> n, data |-> data, align |-> align, ok |-> TRUE]
Remove(n) == Write(n, << >>, 0)
BadType(n) == [Write(n, << y >>, 0) EXCEPT !.ok = FALSE]
Together(reqs) == [reqs |-> reqs, reliable |-> TRUE]
InTurn(reqs) == [reqs |-> reqs, reliable |-> FALSE]
One(r) == InTurn(<< r >>)
RequestsOf(calls) == {call.reqs[1] : call \in calls} \cup {call.reqs[Len(call.reqs)] : call \in calls}

MCAligns == {1, 2}

(* Two files, free space behind them. *)
SingleImages == {Image(File(a, << x >>) \o File(b, << x >>))}
SingleCalls ==
    {One(Write(a, << y >>, 0)), One(Write(a, << z, z >>, 2)), One(Write(c, << y >>, 8)),
     One(Remove(a)), One(Remove(c)), One(BadType(b)),
     InTurn(<< Write(b, << z >>, 0), Write(c, << z >>, 0) >>),
     InTurn(<< Remove(b), Remove(b) >>), InTurn(<< Remove(a), Remove(b) >>),
     InTurn(<< Remove(a), Write(b, << z >>, 0) >>)}
SingleRequests == RequestsOf(SingleCalls)

(* A pad file between two files, free space behind them. *)
PadImage(size) == Image(File(a, << x >>) \o PadFile(size) \o File(b, << x >>))
PadImages == {PadImage(5), PadImage(13)}
(* And one with a header that was given up before it was written. *)
AbandonedImage == Image(<< Erased, Erased, StateCell(Constructed) >> \o File(a, << x >>))
PadsImages == PadImages \cup {AbandonedImage}
PadCalls ==
    {One(Write(a, << y >>, 2)), One(Write(c, << y, z >>, 0)), One(BadType(c)),
     Together(<< Write(a, << y >>, 2), Write(c, << z >>, 0) >>),
     Together(<< Write(a, << y >>, 0), BadType(c) >>),
     Together(<< Write(c, << y >>, 8), Write(a, << z, z, z, z, z, z, z >>, 0) >>)}
PadRequests == RequestsOf(PadCalls)

-----------------------------------------------------------------------------
(* The budgets of the runs: calls, failed writes, losses of power. *)
Allow(writes, fails, losses) == [writes |-> writes, fails |-> fails, losses |-> losses]
FailOrCrash == {Allow(3, 2, 0), Allow(2, 0, 2)}
FailAndCrash == {Allow(2, 1, 1)}
OneFail == {Allow(2, 1, 0)}
TwoCalls == {Allow(2, 0, 0)}
OneCall == {Allow(1, 0, 0)}
=============================================================================
