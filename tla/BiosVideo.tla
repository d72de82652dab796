------------------------------ MODULE BiosVideo ------------------------------
(***************************************************************************)
(* Graphics by INT 10h (BiosVideo.c): which modes of the VESA BIOS are     *)
(* offered to a monitor, how a mode is set and its buffers exchanged, and  *)
(* what the rectangles of Blt do to the screen, in a VESA mode with a copy *)
(* of the frame buffer in memory and in the planes of the VGA.             *)
(*                                                                         *)
(* A screen is drawn in few pixels: a mode has the numbers it reports (res)*)
(* and the pixels that are modelled (w, h, and line in memory).  Memory is *)
(* linear, so a rectangle that leaves a line goes on in the next one.      *)
(* A colour is blue, green, red; the screen of the VGA has 16 colours.     *)
(***************************************************************************)
EXTENDS Integers, Sequences, FiniteSets, SequencesExt

CONSTANTS
    VidMachines,  \* [compatible, pcdVbe, pcdVga, highest, vesa, override, edid, bios]
    VidVga,       \* the mode of CheckForVga: [num, res, w, h, line]
    VidByte,      \* pixels in a byte of a plane
    VidColours,   \* colours that are drawn with
    VidRects,     \* arguments of Blt: [sx, sy, dx, dy, w, h]
    VidDeltas,    \* pixels in a line of the caller's buffer; 0: as wide as the rectangle
    VidBudgets    \* bounds: [sets, blts, meanwhile, faults, stops]

ASSUME VidByteAssumption == VidByte \in Nat \ {0}

VARIABLES
    vidMachine,   \* what the machine, its monitor and the build are
    vidStage,     \* "none", "vbe" or "vga" (looked for), "gop", "text", "os"
    vidModes,     \* ModeData
    vidTries,     \* modes that are to be tried while VBE is looked for
    vidMode,      \* Mode->Mode, from 1; 0 is GRAPHICS_OUTPUT_INVALIDE_MODE_NUMBER
    vidHardware,  \* number of the mode the hardware is in
    vidSetting,   \* [mode, step]: SetModeWorker under way, or NotSetting
    vidBuffers,   \* LineBuffer, VgaFrameBuffer, VbeFrameBuffer: 0 is NULL,
                  \* -1 freed, else the mode it was allocated for
    vidScreen,    \* pixels in memory of the hardware
    vidShadow,    \* pixels in VbeFrameBuffer or VgaFrameBuffer
    vidWant,      \* history: the picture that callers have drawn
    vidGot,       \* history: the rectangle read last, and its pixels
    vidOdd,       \* history: a call was made whose picture is not defined here
    vidFaulty,    \* history: a mode could not be set, or a stop failed
    vidTrouble,   \* history: accesses that no one should make
    vidLeft       \* what is left of the budget

vidVars == <<vidMachine, vidStage, vidModes, vidTries, vidMode, vidHardware, vidSetting,
             vidBuffers, vidScreen, vidShadow, vidWant, vidGot, vidOdd, vidFaulty, vidTrouble,
             vidLeft>>
vidDevice == <<vidMachine, vidStage, vidModes, vidTries>>
vidPicture == <<vidScreen, vidShadow, vidWant, vidGot, vidOdd>>

----------------------------------------------------------------------------
(* The modes that are offered.                                              *)
CalculateEdidKey(res) == res[1] * 2 + res[2]

EstablishedTimings == <<<<800, 600>>, <<800, 600>>, <<640, 480>>, <<640, 480>>, <<640, 480>>,
                        <<640, 480>>, <<720, 400>>, <<720, 400>>, <<1280, 1024>>, <<1024, 768>>,
                        <<1024, 768>>, <<1024, 768>>, <<1024, 768>>, <<832, 624>>, <<800, 600>>,
                        <<800, 600>>, <<1152, 870>>>>
(* A standard timing: the two bytes.                                        *)
StandardTiming(b) ==
    LET x == b[1] * 8 + 248
    IN <<x, CASE b[2] \div 64 = 0 -> (x \div 16) * 10
              [] b[2] \div 64 = 1 -> (x \div 4) * 3
              [] b[2] \div 64 = 2 -> (x \div 5) * 4
              [] OTHER -> (x \div 16) * 9>>
(* Keys of the timings in the data of the monitor; none when the sum of its *)
(* bytes is wrong.                                                          *)
EdidTimings(edid) ==
    {EstablishedTimings[i] : i \in edid.established}
        \cup {StandardTiming(b) : b \in {t \in edid.standard : t[1] # 1 /\ t[2] # 1}}
        \cup edid.detailed
ParseEdidData(edid) ==
    IF edid.sum = 0 THEN {CalculateEdidKey(t) : t \in EdidTimings(edid)} ELSE {}
SearchEdidTiming(keys, res) == CalculateEdidKey(res) \in keys

Discovered(m) == ~m.override.there /\ m.edid.there
ActiveEdid(m) == IF m.override.there THEN m.override ELSE m.edid
EdidFound(m) == ActiveEdid(m).there
AlwaysOffered == {<<1024, 768>>, <<800, 600>>, <<640, 480>>}

UsableMode(b) ==
    /\ b.num >= 256 /\ b.found /\ b.color /\ b.graphics /\ b.linear
    /\ b.bits \in {24, 32}
    /\ b.base # 0
OffersMode(m, b) ==
    /\ UsableMode(b)
    /\ LET keys == IF EdidFound(m) THEN ParseEdidData(ActiveEdid(m)) ELSE {}
       IN (keys # {} /\ ~SearchEdidTiming(keys, b.res) /\ Discovered(m))
              => b.res \in AlwaysOffered
    /\ ~EdidFound(m) => b.res \in AlwaysOffered
OfferedModes(m) == IF m.vesa >= 2 THEN SelectSeq(m.bios, LAMBDA b : OffersMode(m, b)) ELSE <<>>

(* HighestResolutionMode and PreferMode                                     *)
IsLarger(r, s) == r[1] > s[1] \/ (r[1] = s[1] /\ r[2] > s[2])
HighestMode(modes) ==
    FoldLeft(LAMBDA best, i : IF best = 0 \/ IsLarger(modes[i].res, modes[best].res)
                              THEN i ELSE best, 0, [i \in DOMAIN modes |-> i])
PreferMode(m, modes) ==
    LET svga == SelectLastInSeq(modes, LAMBDA b : b.res = <<800, 600>>)
    IN IF m.highest THEN HighestMode(modes) ELSE IF svga = 0 THEN 1 ELSE svga

----------------------------------------------------------------------------
(* Modes and buffers.                                                       *)
Black == <<0, 0, 0>>
Memory(mode, value) == [a \in 0..(mode.line * mode.h - 1) |-> value]
Picture(mode, value) == [p \in (0..(mode.w - 1)) \X (0..(mode.h - 1)) |-> value]
IsVga(mode) == mode.num < 256
VidMode == vidModes[vidMode]
(* What memory holds that nobody has written.                               *)
Strange(mode) == IF IsVga(mode) THEN -1 ELSE <<-1, -1, -1>>
NotSetting == [mode |-> 0, step |-> "none"]
NoBuffers == [line |-> 0, vga |-> 0, vbe |-> 0]

(* FreePool of the buffers that are not NULL; the pointers stay.            *)
FreedBuffers(b) == [k \in DOMAIN b |-> IF b[k] = 0 THEN 0 ELSE -1]
FreeTrouble(b) == IF \E k \in DOMAIN b : b[k] = -1 THEN {"freed twice"} ELSE {}

BlackScreen(mode) ==
    /\ vidScreen' = Memory(mode, IF IsVga(mode) THEN 0 ELSE Black)
    /\ vidWant' = Picture(mode, IF IsVga(mode) THEN 0 ELSE Black)
    /\ vidGot' = <<>>

(* SetModeWorker: the old buffers go before there are new ones.             *)
SetModeWorker(n, left) ==
    LET freed == FreedBuffers(vidBuffers)
    IN /\ vidTrouble' = vidTrouble \cup FreeTrouble(vidBuffers)
       /\ \/ /\ vidBuffers' = [freed EXCEPT !.line = n]
             /\ vidSetting' = [mode |-> n, step |-> "buffer"]
             /\ vidLeft' = left
             /\ UNCHANGED vidFaulty
          \/ /\ left.faults > 0                              \* no LineBuffer
             /\ vidBuffers' = [freed EXCEPT !.line = 0]
             /\ vidSetting' = NotSetting /\ vidFaulty' = TRUE
             /\ vidLeft' = [left EXCEPT !.faults = @ - 1]

NewFrameBuffer ==
    LET mode == vidModes[vidSetting.mode]
        b == IF IsVga(mode) THEN "vga" ELSE "vbe"
    IN /\ vidSetting.step = "buffer"
       /\ \/ /\ vidBuffers' = [vidBuffers EXCEPT ![b] = vidSetting.mode]
             /\ vidSetting' = [vidSetting EXCEPT !.step = "int10"]
             /\ UNCHANGED <<vidFaulty, vidLeft>>
          \/ /\ vidLeft.faults > 0
             /\ vidBuffers' = [vidBuffers EXCEPT ![b] = 0]
             /\ vidSetting' = NotSetting /\ vidFaulty' = TRUE
             /\ vidLeft' = [vidLeft EXCEPT !.faults = @ - 1]
       /\ UNCHANGED <<vidDevice, vidMode, vidHardware, vidPicture, vidTrouble>>

(* INT 10h sets the mode and clears the screen.  What it answers is looked  *)
(* at for VBE only.                                                         *)
Int10SetMode ==
    LET mode == vidModes[vidSetting.mode]
    IN /\ vidSetting.step = "int10"
       /\ \/ /\ vidHardware' = mode.num /\ BlackScreen(mode)
             /\ vidShadow' = Memory(mode, Strange(mode))     \* AllocatePool
             /\ vidSetting' = [vidSetting EXCEPT !.step = IF IsVga(mode) THEN "mode" ELSE "read"]
             /\ vidOdd' = FALSE
             /\ UNCHANGED <<vidFaulty, vidLeft>>
          \/ /\ ~IsVga(mode) /\ vidLeft.faults > 0
             /\ vidSetting' = NotSetting /\ vidFaulty' = TRUE
             /\ vidLeft' = [vidLeft EXCEPT !.faults = @ - 1]
             /\ UNCHANGED <<vidHardware, vidPicture>>
       /\ UNCHANGED <<vidDevice, vidMode, vidBuffers, vidTrouble>>

ReadFrameBuffer ==
    /\ vidSetting.step = "read"
    /\ \/ /\ vidShadow' = vidScreen
          /\ vidSetting' = [vidSetting EXCEPT !.step = "mode"]
          /\ UNCHANGED <<vidFaulty, vidLeft>>
       \/ /\ vidLeft.faults > 0
          /\ vidSetting' = NotSetting /\ vidFaulty' = TRUE
          /\ vidLeft' = [vidLeft EXCEPT !.faults = @ - 1]
          /\ UNCHANGED vidShadow
    /\ UNCHANGED <<vidDevice, vidMode, vidHardware, vidBuffers, vidScreen, vidWant, vidGot, vidOdd,
                   vidTrouble>>

ModeIsSet ==
    /\ vidSetting.step = "mode"
    /\ vidMode' = vidSetting.mode /\ vidSetting' = NotSetting
    /\ IF vidStage \in {"vbe", "vga"}
       THEN vidStage' = "gop" /\ vidTries' = <<>>
       ELSE UNCHANGED <<vidStage, vidTries>>
    /\ UNCHANGED <<vidMachine, vidModes, vidHardware, vidBuffers, vidPicture, vidFaulty,
                   vidTrouble, vidLeft>>

----------------------------------------------------------------------------
(* Start: VBE, then VGA, then text.                                         *)
ModeTries(m, modes) == <<PreferMode(m, modes)>> \o [i \in DOMAIN modes |-> i]

LookForVga ==
    IF vidMachine.compatible /\ vidMachine.pcdVga
    THEN vidStage' = "vga" /\ vidModes' = <<VidVga>> /\ vidTries' = <<1>>
    ELSE vidStage' = "text" /\ vidModes' = <<>> /\ vidTries' = <<>>

(* VBE is not there, or something is short of memory: Done frees ModeData.  *)
BiosVideoCheckForVbe ==
    /\ vidStage = "none" /\ vidSetting = NotSetting
    /\ LET modes == OfferedModes(vidMachine)
       IN \/ /\ vidMachine.pcdVbe /\ modes # <<>>
             /\ vidStage' = "vbe" /\ vidModes' = modes /\ vidTries' = ModeTries(vidMachine, modes)
             /\ UNCHANGED vidLeft
          \/ /\ ~vidMachine.pcdVbe \/ modes = <<>>
             /\ LookForVga
             /\ UNCHANGED vidLeft
          \/ /\ vidMachine.pcdVbe /\ modes # <<>> /\ vidLeft.faults > 0
             /\ LookForVga
             /\ vidLeft' = [vidLeft EXCEPT !.faults = @ - 1]
    /\ vidMode' = 0 /\ vidFaulty' = FALSE /\ vidTrouble' = {}
    /\ UNCHANGED <<vidMachine, vidHardware, vidSetting, vidBuffers, vidPicture>>

TryMode ==
    /\ vidStage \in {"vbe", "vga"} /\ vidSetting = NotSetting /\ vidTries # <<>>
    /\ SetModeWorker(Head(vidTries), vidLeft)
    /\ vidTries' = Tail(vidTries)
    /\ UNCHANGED <<vidMachine, vidStage, vidModes, vidMode, vidHardware, vidPicture>>

(* No mode could be set.                                                    *)
NoMode ==
    /\ vidStage \in {"vbe", "vga"} /\ vidSetting = NotSetting /\ vidTries = <<>>
    /\ IF vidStage = "vbe" THEN LookForVga
       ELSE vidStage' = "text" /\ vidModes' = <<>> /\ vidTries' = <<>>
    /\ UNCHANGED <<vidMachine, vidMode, vidHardware, vidSetting, vidBuffers, vidPicture, vidFaulty,
                   vidTrouble, vidLeft>>

----------------------------------------------------------------------------
(* Rectangles.  Pixels are given for <<x, y>> within the rectangle.         *)
Inside(r) == (0..(r.w - 1)) \X (0..(r.h - 1))
FitsScreen(x, y, r, mode) == x + r.w <= mode.w /\ y + r.h <= mode.h
RowStart(x, y, mode) == y * mode.line + x
PixelAt(mem, a) == IF a \in DOMAIN mem THEN mem[a] ELSE Strange(VidMode)
CallersPixels(r, delta) ==
    [p \in Inside(r) |->
        LET k == (r.sy + p[2]) * (IF delta = 0 THEN r.w ELSE delta) + r.sx + p[1]
        IN VidColours[(k % Len(VidColours)) + 1]]

(* What a picture becomes.                                                  *)
PixelsOf(picture, r) == [p \in Inside(r) |-> picture[<<r.sx + p[1], r.sy + p[2]>>]]
DrawnOver(picture, r, pixels) ==
    [p \in DOMAIN picture |->
        LET q == <<p[1] - r.dx, p[2] - r.dy>>
        IN IF q \in Inside(r) THEN pixels[q] ELSE picture[p]]

(* A VESA mode: the copy in memory is drawn, and each row goes to the screen*)
(* from there.                                                              *)
CopyVideoBuffer(screen, shadow, a, n) ==
    [k \in DOMAIN screen |-> IF k \in a..(a + n - 1) THEN shadow[k] ELSE screen[k]]
VbeVideoToBltBuffer(r) ==
    [p \in Inside(r) |-> vidShadow[RowStart(r.sx + p[1], r.sy + p[2], VidMode)]]
RowsUp(r) == [i \in 1..r.h |-> i - 1]
RowOrderUp(r) == RowsUp(r)   \* a mistake: rows are overwritten before they are copied
RowOrder(r) == IF r.dy <= r.sy THEN RowsUp(r) ELSE Reverse(RowsUp(r))
VbeVideoToVideo(r) ==
    FoldLeft(LAMBDA m, i :
        LET to == RowStart(r.dx, r.dy + i, VidMode)
            from == RowStart(r.sx, r.sy + i, VidMode)
            shadow == [k \in DOMAIN m.shadow |->
                          IF k \in to..(to + r.w - 1) THEN PixelAt(m.shadow, from + k - to)
                          ELSE m.shadow[k]]
        IN [shadow |-> shadow, screen |-> CopyVideoBuffer(m.screen, shadow, to, r.w)],
        [shadow |-> vidShadow, screen |-> vidScreen], RowOrder(r))
VbeBufferToVideo(r, pixels) ==
    FoldLeft(LAMBDA m, j :
        LET to == RowStart(r.dx, r.dy + j, VidMode)
            shadow == [k \in DOMAIN m.shadow |->
                          IF k \in to..(to + r.w - 1) THEN pixels[<<k - to, j>>] ELSE m.shadow[k]]
        IN [shadow |-> shadow, screen |-> CopyVideoBuffer(m.screen, shadow, to, r.w)],
        [shadow |-> vidShadow, screen |-> vidScreen], RowsUp(r))
VbeVideoFill(r, c) ==
    LET rows == {RowStart(r.dx, r.dy + j, VidMode) : j \in 0..(r.h - 1)}
        shadow == [k \in DOMAIN vidShadow |->
                      IF \E a \in rows : k \in a..(a + r.w - 1) THEN c ELSE vidShadow[k]]
    IN [shadow |-> shadow,
        screen |-> FoldSet(LAMBDA a, s : CopyVideoBuffer(s, shadow, a, r.w), vidScreen, rows)]

----------------------------------------------------------------------------
(* The VGA: VidByte pixels have one address, and a mask selects among them. *)
LineBytes == VidMode.line \div VidByte
AllBits == 0..(VidByte - 1)
VgaConvertColor(c) ==
    (c[1] \div 128) + 2 * (c[2] \div 128) + 4 * (c[3] \div 128)
        + (IF c[1] + c[2] + c[3] > 384 THEN 8 ELSE 0)
(* mVgaColorToGraphicsOutputColor                                           *)
VgaConvertToGraphicsOutputColor(n) ==
    LET part(bit) == IF (n \div bit) % 2 = 1 THEN 152 ELSE 0
        bright(bit) == IF (n \div bit) % 2 = 1 THEN 255 ELSE 16
    IN IF n = 8 THEN <<16, 16, 16>>
       ELSE IF n = 13 THEN <<240, 16, 255>>
       ELSE IF n = 15 THEN <<255, 255, 255>>
       ELSE IF n < 8 THEN <<part(1), part(2), part(4)>>
       ELSE <<bright(1), bright(2), bright(4)>>

PlaneByte(x, y) == y * LineBytes + (x \div VidByte)
BytesAcross(x, w) == ((x + w - 1) \div VidByte) - (x \div VidByte) + 1
VgaReadBitPlanes(r) ==
    LET rows == {PlaneByte(r.sx, r.sy + j) : j \in 0..(r.h - 1)}
    IN [k \in DOMAIN vidShadow |->
           IF \E a \in rows : k \div VidByte \in a..(a + BytesAcross(r.sx, r.w) - 1)
           THEN PixelAt(vidScreen, k) ELSE vidShadow[k]]
VgaVideoToBltBuffer(r, shadow) ==
    [p \in Inside(r) |->
        VgaConvertToGraphicsOutputColor(shadow[RowStart(r.sx + p[1], r.sy + p[2], VidMode)])]

(* Whole bytes are copied row by row; any other rectangle is only read.     *)
IsAligned(r) == r.sx % VidByte = 0 /\ r.dx % VidByte = 0 /\ r.w % VidByte = 0
VgaVideoToVideo(r) ==
    FoldLeft(LAMBDA screen, i :
        LET to == PlaneByte(r.dx, r.dy + i) * VidByte
            from == PlaneByte(r.sx, r.sy + i) * VidByte
        IN [k \in DOMAIN screen |->
               IF k \in to..(to + r.w - 1) THEN PixelAt(screen, from + k - to) ELSE screen[k]],
        vidScreen, RowsUp(r))

LeftMask(x) == (x % VidByte)..(VidByte - 1)
RightMask(x) == 0..(x % VidByte)
(* Pixels that a fill writes, the left one of the first byte being 0.       *)
FillPattern(r) ==
    LET bytes0 == BytesAcross(r.dx, r.w) - 1
        left0 == IF bytes0 = 0 THEN LeftMask(r.dx) \cap RightMask(r.dx + r.w - 1)
                 ELSE LeftMask(r.dx)
        right0 == IF bytes0 = 0 THEN {} ELSE RightMask(r.dx + r.w - 1)
        start == IF left0 = AllBits THEN -1 ELSE 0
        bytes == bytes0 + (IF left0 = AllBits THEN 1 ELSE 0) + (IF right0 = AllBits THEN 1 ELSE 0)
        left == IF left0 = AllBits THEN {} ELSE left0
        right == IF right0 = AllBits THEN {} ELSE right0
    IN {start * VidByte + b : b \in left}
           \cup (((start + 1) * VidByte)..((start + bytes) * VidByte - 1))
           \cup {(start + bytes) * VidByte + b : b \in right}
VgaVideoFill(r, c) ==
    LET rows == {PlaneByte(r.dx, r.dy + j) * VidByte : j \in 0..(r.h - 1)}
    IN [k \in DOMAIN vidScreen |->
           IF \E a \in rows : k - a \in FillPattern(r) THEN VgaConvertColor(c) ELSE vidScreen[k]]

(* Pixels of a row that have the same place in their bytes are written      *)
(* together, and the address moves on where the mask wraps.                 *)
PlanePixel(r, j, p) ==
    LET fix == IF (r.dx % VidByte) + (p % VidByte) >= VidByte THEN 1 ELSE 0
    IN (PlaneByte(r.dx, r.dy + j) + fix + (p \div VidByte)) * VidByte + ((r.dx + p) % VidByte)
VgaBufferToVideo(r, pixels) ==
    [k \in DOMAIN vidScreen |->
        IF \E q \in Inside(r) : PlanePixel(r, q[2], q[1]) = k
        THEN VgaConvertColor(pixels[CHOOSE q \in Inside(r) : PlanePixel(r, q[2], q[1]) = k])
        ELSE vidScreen[k]]

----------------------------------------------------------------------------
(* Calls of Blt.                                                            *)
ShownAs(c) == IF IsVga(VidMode) THEN VgaConvertColor(c) ELSE c
ShownPixels(pixels) == [p \in DOMAIN pixels |-> ShownAs(pixels[p])]
(* Calls that have no defined picture, or that are known to draw none: the  *)
(* source reaches out of the screen; the VGA copies pixels that are not     *)
(* whole bytes, or downward over themselves; it fills one whole byte.       *)
OddCopy(r) ==
    \/ ~FitsScreen(r.sx, r.sy, r, VidMode)
    \/ IsVga(VidMode) /\ (~IsAligned(r)
           \/ (r.dy \in (r.sy + 1)..(r.sy + r.h - 1) /\ r.dx - r.sx \in (1 - r.w)..(r.w - 1)))
OddFill(r) == IsVga(VidMode) /\ r.w = VidByte /\ r.dx % VidByte = 0

BufferTrouble(k) ==
    IF vidBuffers[k] = 0 THEN {"null"}
    ELSE IF vidBuffers[k] = -1 THEN {"freed"}
    ELSE IF vidBuffers[k] # vidMode THEN {"other mode"} ELSE {}
BltTrouble(op) ==
    IF ~IsVga(VidMode) THEN BufferTrouble("vbe")
    ELSE CASE op = "fill" -> {}
           [] op = "draw" -> BufferTrouble("line")
           [] OTHER -> BufferTrouble("vga")

Drawn(m, want, odd) ==
    /\ vidShadow' = m.shadow /\ vidScreen' = m.screen /\ vidWant' = want
    /\ vidGot' = <<>>
    /\ vidOdd' = (vidOdd \/ odd)

(* The buffer or the hardware is not that of Mode->Mode: anything may come. *)
Unknown ==
    /\ vidScreen' = [a \in DOMAIN vidScreen |-> Strange(VidMode)]
    /\ vidShadow' = [a \in DOMAIN vidShadow |-> Strange(VidMode)]
    /\ vidGot' = <<>> /\ vidOdd' = TRUE
    /\ UNCHANGED vidWant

BltFill(r, c) ==
    /\ FitsScreen(r.dx, r.dy, r, VidMode)
    /\ Drawn(IF IsVga(VidMode) THEN [shadow |-> vidShadow, screen |-> VgaVideoFill(r, c)]
             ELSE VbeVideoFill(r, c),
             DrawnOver(vidWant, r, [p \in Inside(r) |-> ShownAs(c)]), OddFill(r))
BltDraw(r, pixels) ==
    /\ FitsScreen(r.dx, r.dy, r, VidMode)
    /\ Drawn(IF IsVga(VidMode) THEN [shadow |-> vidShadow, screen |-> VgaBufferToVideo(r, pixels)]
             ELSE VbeBufferToVideo(r, pixels),
             DrawnOver(vidWant, r, ShownPixels(pixels)), FALSE)
BltCopy(r) ==
    /\ FitsScreen(r.dx, r.dy, r, VidMode)
    /\ Drawn(IF ~IsVga(VidMode) THEN VbeVideoToVideo(r)
             ELSE IF IsAligned(r) THEN [shadow |-> vidShadow, screen |-> VgaVideoToVideo(r)]
             ELSE [shadow |-> VgaReadBitPlanes(r), screen |-> vidScreen],
             IF OddCopy(r) THEN vidWant ELSE DrawnOver(vidWant, r, PixelsOf(vidWant, r)),
             OddCopy(r))
BltRead(r) ==
    /\ FitsScreen(r.sx, r.sy, r, VidMode)
    /\ vidShadow' = IF IsVga(VidMode) THEN VgaReadBitPlanes(r) ELSE vidShadow
    /\ vidGot' = <<r, IF IsVga(VidMode) THEN VgaVideoToBltBuffer(r, vidShadow')
                  ELSE VbeVideoToBltBuffer(r)>>
    /\ UNCHANGED <<vidScreen, vidWant, vidOdd>>

BiosVideoGraphicsOutputBlt ==
    /\ vidStage = "gop" /\ vidSetting = NotSetting /\ vidLeft.blts > 0
    /\ \E op \in {"fill", "draw", "copy", "read"}, r \in VidRects :
           IF BltTrouble(op) = {} /\ vidHardware = VidMode.num
           THEN /\ CASE op = "fill" -> \E c \in ToSet(VidColours) : BltFill(r, c)
                     [] op = "draw" -> \E delta \in VidDeltas : BltDraw(r, CallersPixels(r, delta))
                     [] op = "copy" -> BltCopy(r)
                     [] OTHER -> BltRead(r)
                /\ UNCHANGED vidTrouble
           ELSE vidTrouble' = vidTrouble \cup BltTrouble(op) /\ Unknown
    /\ vidLeft' = [vidLeft EXCEPT !.blts = @ - 1]
    /\ UNCHANGED <<vidDevice, vidMode, vidHardware, vidSetting, vidBuffers, vidFaulty>>

(* An event draws while a mode is being set: Mode->Mode is still the old one*)
BltMeanwhile ==
    /\ vidStage = "gop" /\ vidSetting # NotSetting /\ vidLeft.meanwhile > 0
    /\ vidTrouble' = vidTrouble \cup {"interrupted"}
    /\ vidLeft' = [vidLeft EXCEPT !.meanwhile = @ - 1]
    /\ Unknown
    /\ UNCHANGED <<vidDevice, vidMode, vidHardware, vidSetting, vidBuffers, vidFaulty>>

(* The mode that is set already: the screen is filled, by the function for  *)
(* VESA modes whatever the mode is.                                         *)
SameMode ==
    LET all == [sx |-> 0, sy |-> 0, dx |-> 0, dy |-> 0, w |-> VidMode.w, h |-> VidMode.h]
    IN IF IsVga(VidMode)
       THEN vidTrouble' = vidTrouble \cup {"same mode"} /\ Unknown
       ELSE IF BufferTrouble("vbe") = {} /\ vidHardware = VidMode.num
       THEN BltFill(all, Black) /\ UNCHANGED vidTrouble
       ELSE vidTrouble' = vidTrouble \cup BufferTrouble("vbe") /\ Unknown

BiosVideoGraphicsOutputSetMode ==
    /\ vidStage = "gop" /\ vidSetting = NotSetting /\ vidLeft.sets > 0
    /\ \E n \in DOMAIN vidModes :
           IF n = vidMode
           THEN /\ SameMode
                /\ vidLeft' = [vidLeft EXCEPT !.sets = @ - 1]
                /\ UNCHANGED <<vidSetting, vidBuffers, vidFaulty>>
           ELSE SetModeWorker(n, [vidLeft EXCEPT !.sets = @ - 1]) /\ UNCHANGED vidPicture
    /\ UNCHANGED <<vidDevice, vidMode, vidHardware>>

----------------------------------------------------------------------------
(* Stop, text and the end of boot services.                                 *)
BiosVideoChildHandleUninstall ==
    /\ vidStage \in {"gop", "text"} /\ vidSetting = NotSetting /\ vidLeft.stops > 0
    /\ vidHardware' = 3
    /\ \/ /\ vidTrouble' = vidTrouble \cup FreeTrouble(vidBuffers)
          /\ vidBuffers' = NoBuffers /\ vidModes' = <<>> /\ vidMode' = 0 /\ vidStage' = "none"
          /\ vidScreen' = <<>> /\ vidShadow' = <<>> /\ vidWant' = <<>> /\ vidGot' = <<>>
          /\ vidOdd' = FALSE
          /\ vidLeft' = [vidLeft EXCEPT !.stops = @ - 1]
          /\ UNCHANGED vidFaulty
       \/ /\ vidLeft.faults > 0          \* somebody does not let go of the protocols
          /\ vidFaulty' = TRUE
          /\ vidLeft' = [vidLeft EXCEPT !.faults = @ - 1, !.stops = @ - 1]
          /\ UNCHANGED <<vidStage, vidModes, vidMode, vidBuffers, vidPicture, vidTrouble>>
    /\ UNCHANGED <<vidMachine, vidTries, vidSetting>>

VgaMiniPortSetMode ==
    /\ vidStage = "text" /\ vidHardware # 131
    /\ vidHardware' = 131
    /\ UNCHANGED <<vidDevice, vidMode, vidSetting, vidBuffers, vidPicture, vidFaulty, vidTrouble,
                   vidLeft>>

BiosVideoNotifyExitBootServices ==
    /\ vidStage \in {"gop", "text"} /\ vidSetting = NotSetting
    /\ vidStage' = "os" /\ vidHardware' = 131
    /\ UNCHANGED <<vidMachine, vidModes, vidTries, vidMode, vidSetting, vidBuffers, vidPicture,
                   vidFaulty, vidTrouble, vidLeft>>

VidInit ==
    /\ vidMachine \in VidMachines
    /\ vidStage = "none" /\ vidModes = <<>> /\ vidTries = <<>> /\ vidMode = 0
    /\ vidHardware = 3 /\ vidSetting = NotSetting /\ vidBuffers = NoBuffers
    /\ vidScreen = <<>> /\ vidShadow = <<>> /\ vidWant = <<>> /\ vidGot = <<>>
    /\ vidOdd = FALSE /\ vidFaulty = FALSE /\ vidTrouble = {}
    /\ vidLeft \in VidBudgets

VidNext ==
    \/ BiosVideoCheckForVbe \/ TryMode \/ NoMode
    \/ NewFrameBuffer \/ Int10SetMode \/ ReadFrameBuffer \/ ModeIsSet
    \/ BiosVideoGraphicsOutputSetMode \/ BiosVideoGraphicsOutputBlt \/ BltMeanwhile
    \/ BiosVideoChildHandleUninstall \/ VgaMiniPortSetMode \/ BiosVideoNotifyExitBootServices

----------------------------------------------------------------------------
VidTypeOK ==
    /\ vidStage \in {"none", "vbe", "vga", "gop", "text", "os"}
    /\ vidMode \in 0..Len(vidModes) /\ (vidStage = "gop" => vidMode # 0)
    /\ \A k \in DOMAIN vidBuffers : vidBuffers[k] \in Nat \cup {-1}
    /\ vidSetting = NotSetting \/ vidSetting.mode \in DOMAIN vidModes
    /\ DOMAIN vidShadow = DOMAIN vidScreen
    /\ vidOdd \in BOOLEAN /\ vidFaulty \in BOOLEAN
    /\ vidTrouble \subseteq {"freed twice", "freed", "null", "other mode", "interrupted",
                             "same mode"}

(* Unless a mode could not be set, or the driver not be stopped: no buffer  *)
(* is used or freed that is not there, but by an event that draws while a   *)
(* mode is set, or when the VGA is set to its mode again.  Between calls    *)
(* hardware, Mode and buffers are those of one mode; the copy of a VESA     *)
(* screen is what the screen shows; and the screen shows what was drawn,    *)
(* every pixel in its place and no other touched, whatever the overlap, and *)
(* that is read back.  A discovered monitor is offered no resolution that   *)
(* it did not name, but three; the largest of all is taken if any may be.   *)
VideoSound ==
    /\ vidTrouble \subseteq {"interrupted", "same mode"} \/ vidFaulty
    /\ vidStage = "gop" /\ vidSetting = NotSetting /\ ~vidFaulty =>
           /\ vidHardware = VidMode.num
           /\ vidBuffers = [line |-> vidMode, vga |-> IF IsVga(VidMode) THEN vidMode ELSE 0,
                            vbe |-> IF IsVga(VidMode) THEN 0 ELSE vidMode]
           /\ ~IsVga(VidMode) => vidShadow = vidScreen
           /\ ~vidOdd => \A p \in DOMAIN vidWant :
                  vidScreen[RowStart(p[1], p[2], VidMode)] = vidWant[p]
           /\ ~vidOdd /\ vidGot # <<>> => \A p \in DOMAIN vidGot[2] :
                  ShownPixels(vidGot[2])[p] = PixelsOf(vidWant, vidGot[1])[p]
    /\ vidStage \in {"vbe", "gop"} /\ Discovered(vidMachine) /\ vidMachine.edid.sum = 0 =>
           \A i \in DOMAIN vidModes :
               vidModes[i].res \in AlwaysOffered \cup EdidTimings(vidMachine.edid)
    /\ vidStage = "vbe" /\ Len(vidTries) > Len(vidModes) /\ vidMachine.highest =>
           \A i \in DOMAIN vidModes :
               ~IsLarger(vidModes[i].res, vidModes[Head(vidTries)].res)
=============================================================================
