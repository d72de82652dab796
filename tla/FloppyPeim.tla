---------------------------- MODULE FloppyPeim ----------------------------
(***************************************************************************)
(* The floppy disks that a recovery reads before DXE (IsaFloppyPei): up to  *)
(* two drives on one controller, no timer and no interrupt.  A drive is     *)
(* looked at again in every call; blocks are read by a batch per cylinder   *)
(* into pages that the 8237 reaches, then copied to the caller.             *)
(*                                                                         *)
(* A block is its disk and number; addresses and buffers count blocks.  A   *)
(* command may fail, and may leave the controller busy with it; then only a *)
(* reset helps.  Somebody may take out a disk, or put in another, between   *)
(* the steps of a call.                                                     *)
(***************************************************************************)
EXTENDS Integers, Sequences

CONSTANTS
    FpMachines,   \* what may be built: [drives, top]: the drives that are there, and
                  \*   the page below which AllocatePages starts
    FpDisks,      \* disks
    FpEndOfTrack, \* sectors in a track
    FpTracks,     \* MaxTrackNum + 1
    FpPage,       \* blocks in a page
    FpSegment,    \* blocks that one value of the page register reaches
    FpIsaPages,   \* ISA_MAX_MEMORY_ADDRESS, in pages
    FpFixed,      \* the page of last resort, 0x0f00000
    FpRequests,   \* arguments of FdcReadBlocks: [device, lba, blocks]
    FpBudgets     \* bounds: [calls, faults, swaps]

NoDiskette == "none"
NoMotor == -1
DevPositions == {0, 1}
DclBlock == 2 * FpEndOfTrack \* 0x30: the seek that tells about the change line
FpLastBlock == FpEndOfTrack * 2 * FpTracks - 1

VARIABLES
    fpMachine,  \* one of FpMachines; top goes down as pages are given out
    fpDisk,     \* drive -> the disk in it
    fpFdc,      \* the controller: [line, head, motor, busy]: drive -> DIR_DCL, drive ->
                \*   cylinder of its heads, the drive whose motor runs, MSR_CB
    fpInfo,     \* DeviceInfo[0 .. 1]: [pos, pcn, motor, needs]
    fpCount,    \* DeviceCount
    fpCall,     \* [at, device, lba, left, base, got]; in FdcEnumeration device is DevPos
    fpLeft,     \* what is left of the budget
    fpTrace     \* history of the call: [request, disk, status, hurt, crossed, stuck]: the
                \*   disk it found, what it returned, whether a fault or somebody met it,
                \*   whether a batch crossed a segment, and whether a fault that no reset
                \*   follows, or that meets the reset, left the controller busy
fpVars == <<fpMachine, fpDisk, fpFdc, fpInfo, fpCount, fpCall, fpLeft, fpTrace>>

NoInfo == [pos |-> 0, pcn |-> 0, motor |-> FALSE, needs |-> FALSE]
NoRead == [at |-> "idle", device |-> 1, lba |-> 0, left |-> 0, base |-> 0, got |-> <<>>]
NoTrace == [request |-> [device |-> 0, lba |-> 0, blocks |-> 0], disk |-> NoDiskette,
            status |-> "none", hurt |-> FALSE, crossed |-> FALSE, stuck |-> FALSE]

FpInit ==
    /\ fpMachine \in FpMachines
    /\ fpDisk \in [DevPositions -> {NoDiskette} \cup FpDisks]
    /\ fpDisk[0] = fpDisk[1] => fpDisk[0] = NoDiskette
    /\ fpFdc = [line |-> [p \in DevPositions |-> TRUE], head |-> [p \in DevPositions |-> 0],
                motor |-> NoMotor, busy |-> FALSE]
    /\ fpInfo = [d \in {1, 2} |-> NoInfo] /\ fpCount = 0
    /\ fpCall = [NoRead EXCEPT !.at = "detect", !.device = 0]
    /\ fpLeft \in FpBudgets /\ fpTrace = NoTrace

(***************************************************************************)
(* The functions below the calls.  Each maps a state of the controller and  *)
(* of one DeviceInfo, [fdc, info, ok, faults, present], to the states that  *)
(* it may return in.                                                        *)
(***************************************************************************)
With(info) == [fdc |-> fpFdc, info |-> info, ok |-> TRUE, faults |-> fpLeft.faults,
               present |-> FALSE]
Then(states, Next(_)) == UNION {IF s.ok THEN Next(s) ELSE {s} : s \in states}

PeimFailed(s) == [s EXCEPT !.ok = FALSE]
Faults(s) ==
    IF s.faults = 0 THEN {}
    ELSE {[PeimFailed(s) EXCEPT !.faults = @ - 1, !.fdc.busy = b] : b \in BOOLEAN}

\* A command goes to a controller that is not busy, and to a drive that is there.
Command(s, done) ==
    IF s.fdc.busy \/ s.info.pos \notin fpMachine.drives THEN {PeimFailed(s)}
    ELSE {done} \cup Faults(s)

\* Heads that step clear the change line when a disk is in.
StepTo(s, cylinder) ==
    LET p == s.info.pos
    IN  [s EXCEPT !.fdc.head[p] = cylinder, !.info.pcn = cylinder, !.info.needs = FALSE,
                  !.fdc.line[p] = @ /\ (s.fdc.head[p] = cylinder \/ fpDisk[p] = NoDiskette)]

Cylinder(lba) == (lba \div FpEndOfTrack) \div 2
Recalibrate(s) == Command(s, StepTo(s, 0))
Seek(s, lba) ==
    LET Move(r) ==
            IF r.info.pcn = Cylinder(lba) THEN {r}
            ELSE UNION {IF q.ok THEN {q} ELSE {q, [q EXCEPT !.info.needs = TRUE]} :
                            q \in Command(r, StepTo(r, Cylinder(lba)))}
    IN  Then(IF s.info.needs THEN Recalibrate(s) ELSE {s}, Move)

\* The motor of one drive runs; the other one stops.
MotorOn(s) ==
    IF s.info.motor THEN {s}
    ELSE IF s.fdc.busy THEN {PeimFailed(s)}
    ELSE {[s EXCEPT !.fdc.motor = s.info.pos, !.info.motor = TRUE]} \cup Faults(s)
MotorOff(s) ==
    IF s.info.motor THEN [s EXCEPT !.fdc.motor = NoMotor, !.info.motor = FALSE] ELSE s

PeimReset(s) ==
    LET reset == [s EXCEPT !.fdc.motor = NoMotor, !.fdc.busy = FALSE]
    IN  {reset} \cup Faults(reset)

PeimDisketChanged(s) ==
    LET line(r) == r.fdc.line[r.info.pos]
        Look(r) == {[r EXCEPT !.present = ~line(r)]}
    IN  IF ~line(s) THEN {[s EXCEPT !.present = TRUE]}
        ELSE Then(IF s.info.pcn # 0 THEN Recalibrate(s) ELSE Seek(s, DclBlock), Look)

\* However it goes, the motor is off behind it.
DiscoverFdcDevice(s) ==
    {MotorOff(r) : r \in Then(Then(MotorOn(s), Recalibrate), PeimDisketChanged)}

\* The state of a call after s, with DeviceInfo of device d.
Store(s, d) ==
    /\ fpFdc' = s.fdc /\ fpInfo' = [fpInfo EXCEPT ![d] = s.info]
    /\ fpLeft' = [fpLeft EXCEPT !.faults = s.faults]
Hurt(s) == fpTrace.hurt \/ s.faults # fpLeft.faults

(***************************************************************************)
(* FdcEnumeration: what is found is packed to the front.                    *)
(***************************************************************************)
DetectDrive ==
    LET p == fpCall.device
        info == [NoInfo EXCEPT !.pos = p, !.needs = TRUE]
        Discover(r) == DiscoverFdcDevice([r EXCEPT !.info = info])
    IN  /\ fpCall.at = "detect"
        /\ \E s \in Then(PeimReset(With(fpInfo[p + 1])), Discover) :
               /\ fpFdc' = s.fdc /\ fpLeft' = [fpLeft EXCEPT !.faults = s.faults]
               /\ fpCount' = IF s.ok THEN fpCount + 1 ELSE fpCount
               /\ fpInfo' = [d \in {1, 2} |->
                                IF d = p + 1 \/ (s.ok /\ d = fpCount + 1) THEN s.info
                                ELSE fpInfo[d]]
               /\ fpCall' = IF p = 0 THEN [fpCall EXCEPT !.device = 1]
                            ELSE [NoRead EXCEPT !.at =
                                     IF fpCount' = 0 THEN "none" ELSE "idle"]
               /\ fpTrace' = [fpTrace EXCEPT !.stuck = s.fdc.busy]
    /\ UNCHANGED <<fpMachine, fpDisk>>

(***************************************************************************)
(* The calls.                                                               *)
(***************************************************************************)
PeimAnswers(status) == fpCall' = [NoRead EXCEPT !.got = fpCall.got]
                  /\ fpTrace' = [fpTrace EXCEPT !.status = status]

FdcGetBlockDeviceMediaInfo ==
    /\ fpCall.at = "idle" /\ fpLeft.calls > 0
    /\ \E d \in 1..fpCount : \E s \in DiscoverFdcDevice(With(fpInfo[d])) :
           /\ fpFdc' = s.fdc /\ fpInfo' = [fpInfo EXCEPT ![d] = s.info]
           /\ fpLeft' = [fpLeft EXCEPT !.faults = s.faults, !.calls = @ - 1]
           /\ fpTrace' = [fpTrace EXCEPT !.stuck = s.fdc.busy]
    /\ UNCHANGED <<fpMachine, fpDisk, fpCount, fpCall>>

FdcReadBlocks ==
    /\ fpCall.at = "idle" /\ fpLeft.calls > 0
    /\ \E request \in FpRequests :
           /\ fpTrace' = [NoTrace EXCEPT !.request = request, !.hurt = fpTrace.stuck,
                                         !.stuck = fpTrace.stuck]
           /\ fpCall' = [NoRead EXCEPT !.at = "look", !.device = request.device,
                                       !.lba = request.lba, !.left = request.blocks]
    /\ fpLeft' = [fpLeft EXCEPT !.calls = @ - 1]
    /\ UNCHANGED <<fpMachine, fpDisk, fpFdc, fpInfo, fpCount>>

\* Pages are given out downwards and never returned; what the 8237 does not
\* reach, or nothing, is replaced by a fixed page.
AllocatePages(pages) ==
    IF pages <= fpMachine.top /\ fpMachine.top - pages < FpIsaPages
    THEN fpMachine.top - pages ELSE FpFixed

LookAtMedia ==
    LET d == fpCall.device
        pages == (fpCall.left + FpPage - 1) \div FpPage
    IN  /\ fpCall.at = "look"
        /\ IF d > fpCount
           THEN PeimAnswers("bad device") /\ UNCHANGED <<fpMachine, fpFdc, fpInfo, fpLeft>>
           ELSE \E s \in DiscoverFdcDevice(With(fpInfo[d])) :
                    /\ Store(s, d)
                    /\ \/ /\ ~s.ok /\ UNCHANGED fpMachine
                          /\ fpCall' = NoRead
                          /\ fpTrace' = [fpTrace EXCEPT !.status = "error", !.hurt = Hurt(s),
                                                        !.stuck = s.fdc.busy]
                       \/ /\ s.ok /\ ~s.present /\ PeimAnswers("no media") /\ UNCHANGED fpMachine
                       \/ /\ s.ok /\ s.present /\ UNCHANGED fpMachine
                          /\ fpCall.lba + fpCall.left - 1 \notin 0..FpLastBlock
                          /\ PeimAnswers("bad range")
                       \/ /\ s.ok /\ s.present
                          /\ fpCall.lba + fpCall.left - 1 \in 0..FpLastBlock
                          /\ fpMachine' = [fpMachine EXCEPT !.top =
                                              IF pages <= @ THEN @ - pages ELSE @]
                          /\ fpCall' = [fpCall EXCEPT !.at = "start",
                                                      !.base = AllocatePages(pages) * FpPage]
                          /\ fpTrace' = [fpTrace EXCEPT !.disk = fpDisk[s.info.pos]]
        /\ UNCHANGED <<fpDisk, fpCount>>

Setup(s) == IF s.fdc.busy THEN {PeimFailed(s)} ELSE {s} \cup Faults(s)
StartMotor ==
    /\ fpCall.at = "start"
    /\ \E s \in Then(MotorOn(With(fpInfo[fpCall.device])), Setup) :
           /\ Store(IF s.ok THEN s ELSE MotorOff(s), fpCall.device)
           /\ fpCall' = IF s.ok THEN [fpCall EXCEPT !.at = "batch"] ELSE NoRead
           /\ fpTrace' = IF s.ok THEN fpTrace
                         ELSE [fpTrace EXCEPT !.status = "error", !.hurt = Hurt(s),
                                              !.stuck = s.fdc.busy]
    /\ UNCHANGED <<fpMachine, fpDisk, fpCount>>

\* To the end of the cylinder.
GetTransferBlockCount(lba, blocks) ==
    LET head == (lba \div FpEndOfTrack) % 2
        rest == FpEndOfTrack * (2 - head) - (lba % FpEndOfTrack)
    IN  IF rest < blocks THEN rest ELSE blocks

\* Where the 8237 puts the block i of a batch: the page register does not count.
SetDMA(base, i) == FpSegment * (base \div FpSegment) + ((base + i) % FpSegment)

\* The heads must be over the cylinder of all the blocks, and the disk must turn;
\* otherwise the command is refused or never ends.
ReadDataSector(s, lba, n) ==
    LET p == s.info.pos
        Bad(r) == [PeimFailed(r) EXCEPT !.info.needs = TRUE]
        Transfer(r) ==
            IF r.fdc.busy THEN {PeimFailed(r)}
            ELSE IF \/ r.fdc.motor # p \/ fpDisk[p] = NoDiskette
                    \/ r.fdc.head[p] # Cylinder(lba) \/ Cylinder(lba + n - 1) # Cylinder(lba)
            THEN {Bad(r), [PeimFailed(r) EXCEPT !.fdc.busy = TRUE]}
            ELSE {r} \cup Faults(r) \cup {Bad(q) : q \in Faults(r)}
    IN  Then(Seek(s, lba), Transfer)

ReadBatch ==
    LET d == fpCall.device
        p == fpInfo[d].pos
        n == GetTransferBlockCount(fpCall.lba, fpCall.left)
        read == [i \in 1..n |->
                    IF SetDMA(fpCall.base, i - 1) = fpCall.base + i - 1
                    THEN <<fpDisk[p], fpCall.lba + i - 1>> ELSE <<"memory">>]
    IN  /\ fpCall.at = "batch" /\ fpCall.left > 0
        /\ \E s \in ReadDataSector(With(fpInfo[d]), fpCall.lba, n) :
               /\ Store(s, d)
               /\ fpCall' = IF s.ok
                            THEN [fpCall EXCEPT !.lba = @ + n, !.left = @ - n, !.got = @ \o read]
                            ELSE [fpCall EXCEPT !.at = "end"]
               /\ fpTrace' = [fpTrace EXCEPT
                      !.hurt = Hurt(s),
                      !.crossed = @ \/ SetDMA(fpCall.base, n - 1) # fpCall.base + n - 1]
        /\ UNCHANGED <<fpMachine, fpDisk, fpCount>>

EndRead ==
    LET d == fpCall.device
        off == MotorOff(With(fpInfo[d]))
    IN  /\ \/ /\ fpCall.at = "batch" /\ fpCall.left = 0
              /\ Store(off, d) /\ PeimAnswers("success")
           \/ /\ fpCall.at = "end"
              /\ \E s \in PeimReset(off) :
                     /\ Store(s, d)
                     /\ fpCall' = NoRead
                     /\ fpTrace' = [fpTrace EXCEPT !.status = "error", !.hurt = Hurt(s),
                            !.stuck = s.fdc.busy /\ s.faults # fpLeft.faults]
        /\ UNCHANGED <<fpMachine, fpDisk, fpCount>>

SwapDisk ==
    /\ fpLeft.swaps > 0 /\ fpLeft' = [fpLeft EXCEPT !.swaps = @ - 1]
    /\ \E p \in DevPositions : \E disk \in {NoDiskette} \cup FpDisks :
           /\ disk # fpDisk[p]
           /\ disk # NoDiskette => \A q \in DevPositions : fpDisk[q] # disk
           /\ fpDisk' = [fpDisk EXCEPT ![p] = disk]
           /\ fpFdc' = [fpFdc EXCEPT !.line[p] = TRUE]
    /\ fpTrace' = [fpTrace EXCEPT !.hurt = TRUE]
    /\ UNCHANGED <<fpMachine, fpInfo, fpCount, fpCall>>

FpNext ==
    \/ DetectDrive \/ FdcGetBlockDeviceMediaInfo \/ FdcReadBlocks \/ LookAtMedia
    \/ StartMotor \/ ReadBatch \/ EndRead \/ SwapDisk

(***************************************************************************)
(* Properties.                                                              *)
(***************************************************************************)
FpTypeOK ==
    /\ fpDisk \in [DevPositions -> {NoDiskette} \cup FpDisks]
    /\ fpFdc.motor \in {NoMotor} \cup DevPositions /\ fpFdc.busy \in BOOLEAN
    /\ \A p \in DevPositions : fpFdc.line[p] \in BOOLEAN /\ fpFdc.head[p] \in 0..(FpTracks - 1)
    /\ \A d \in {1, 2} : fpInfo[d].pos \in DevPositions /\ fpInfo[d].pcn \in 0..(FpTracks - 1)
    /\ fpCount \in 0..2
    /\ fpCall.at \in {"detect", "none", "idle", "look", "start", "batch", "end"}
    /\ fpCall.device \in 0..3 /\ fpCall.left \in Nat

\* A read that succeeds gave all its blocks, in order and from the disk that it
\* found, unless the disk was exchanged under it or a batch crossed a segment;
\* one that met neither a fault nor somebody fails only for its arguments or for
\* want of a disk, whatever calls failed before, unless the last of them left the
\* controller busy without a reset; and no motor runs between calls.
PeimReadsRight ==
    LET r == fpTrace.request
        back == fpCall.at = "idle" /\ fpTrace.status # "none"
    IN  /\ back /\ fpTrace.status = "success" /\ ~fpTrace.crossed /\ ~fpTrace.hurt =>
               fpCall.got = [i \in 1..r.blocks |-> <<fpTrace.disk, r.lba + i - 1>>]
        /\ back /\ fpTrace.status = "error" => fpTrace.hurt
        /\ fpCall.at \in {"idle", "none", "look"} => fpFdc.motor = NoMotor
=============================================================================
