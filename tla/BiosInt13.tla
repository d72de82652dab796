----------------------------- MODULE BiosInt13 -----------------------------
(***************************************************************************)
(* Block I/O on the disks of the legacy BIOS (BiosInt13.c): what a drive   *)
(* says of itself, and reading and writing by INT 13h, with the packets of *)
(* EDD 3.0, with those of EDD 1.1, or by cylinder, head and sector.         *)
(*                                                                         *)
(* All drives share one packet and one buffer below 1 MB, and no call holds*)
(* a lock or raises the TPL: a call made by an event may come between any  *)
(* two steps of another.  An INT 13h itself is not interrupted.  A medium  *)
(* may be exchanged at any time, and the BIOS tells it once.                *)
(*                                                                         *)
(* What a block holds is [medium, block]: the place it was meant for.      *)
(***************************************************************************)
EXTENDS Integers, Sequences, FiniteSets, SequencesExt

CONSTANTS
    I13Media,      \* geometry: <<[heads, sectors, cylinders, protected], ...>>
    I13Machines,   \* [extension, parameters, drives: <<set of media, ...>>]
    I13Heads,      \* values of the six bits of a head number
    I13Cylinders,  \* values of the ten bits of a cylinder number
    I13Chunk,      \* MAX_EDD11_XFER / BlockSize
    I13Garbage,    \* 0xaf in every byte: number of sectors, and size of a block
    I13Requests,   \* [op, lba, blocks, whole, null]
    I13Budgets     \* bounds: [calls, nested, swaps, errors, resets]

ASSUME I13BitsAssumption == I13Heads \in Nat \ {0} /\ I13Cylinders \in Nat \ {0}
ASSUME I13ChunkAssumption == I13Chunk \in Nat \ {0}

VARIABLES
    i13Machine,  \* what the BIOS supports and which media a drive takes
    i13Drives,   \* external: [medium (0: none), changed] of each drive
    i13Disk,     \* external: what the blocks of each medium hold
    i13Devs,     \* BIOS_BLOCK_IO_DEV of each drive
    i13Packet,   \* mEddBufferUnder1Mb
    i13Bounce,   \* mEdd11Buffer, in blocks
    i13Calls,    \* the calls in progress: the second one interrupts the first
    i13Done,     \* history: the call that returned last
    i13Left      \* what is left of the budget

i13Vars == <<i13Machine, i13Drives, i13Disk, i13Devs, i13Packet, i13Bounce, i13Calls, i13Done,
             i13Left>>
i13Shared == <<i13Packet, i13Bounce>>

DiskBlocks(m) == I13Media[m].heads * I13Media[m].sectors * I13Media[m].cylinders
Stray == [medium |-> 0, block |-> 0, sure |-> FALSE]
MeantFor(m, b) == [medium |-> m, block |-> b, sure |-> TRUE]

NothingDone == [there |-> FALSE, status |-> "none"]

----------------------------------------------------------------------------
(* What a drive says of itself.                                             *)

(* INT 13h, function 08: the head and cylinder numbers of the last track.   *)
(* The two upper bits of DH are taken as bits of the cylinder.              *)
Int13GetDeviceParameters(dev, m) ==
    LET head == I13Media[m].heads - 1
        cylinder == IF I13Media[m].cylinders < I13Cylinders THEN I13Media[m].cylinders - 1
                                                            ELSE I13Cylinders - 1
    IN [dev EXCEPT !.maxHead = head % I13Heads,
                   !.maxCylinder = (head \div I13Heads) * I13Cylinders + cylinder,
                   !.maxSector = I13Media[m].sectors]
ChsLastBlock(dev) == (dev.maxHead + 1) * dev.maxSector * (dev.maxCylinder + 1) - 1

(* INT 13h, function 48; what stays when the BIOS refuses is used as well.  *)
GetDriveParameters(bios, dev, m) ==
    IF bios.parameters THEN [dev EXCEPT !.lastBlock = DiskBlocks(m) - 1, !.blockSize = 1]
                       ELSE [dev EXCEPT !.lastBlock = I13Garbage - 1, !.blockSize = I13Garbage]

(* INT 13h, function 41, and with it the number of blocks and their size.   *)
Int13Extensions(bios, dev, m) ==
    IF bios.extension = "none"
    THEN [dev EXCEPT !.lastBlock = ChsLastBlock(dev), !.blockSize = 1]
    ELSE GetDriveParameters(bios, dev, m)

AccessBy(bios) == IF bios.extension \in {"edd11", "edd30"} THEN bios.extension ELSE "chs"

BiosInitBlockIo(bios, m, exchangeable) ==
    LET dev == [maxHead |-> 0, maxSector |-> 1, maxCylinder |-> 0, lastBlock |-> 0,
                blockSize |-> 1, mediaId |-> 0, readOnly |-> FALSE, present |-> TRUE,
                removable |-> bios.extension # "none" /\ (bios.parameters => exchangeable),
                known |-> m]
    IN Int13Extensions(bios, Int13GetDeviceParameters(dev, m), m)

I13Init ==
    /\ i13Machine \in I13Machines
    /\ i13Drives = [d \in DOMAIN i13Machine.drives |->
                        [medium |-> CHOOSE m \in i13Machine.drives[d] :
                                        \A o \in i13Machine.drives[d] : m <= o,
                         changed |-> FALSE]]
    /\ i13Disk = [m \in DOMAIN I13Media |-> [b \in 0..(DiskBlocks(m) - 1) |-> MeantFor(m, b)]]
    /\ i13Devs = [d \in DOMAIN i13Drives |->
                      BiosInitBlockIo(i13Machine, i13Drives[d].medium,
                                      Cardinality(i13Machine.drives[d]) > 1)]
    /\ i13Packet = [lba |-> 0, blocks |-> 0, owner |-> 0]
    /\ i13Bounce = <<>>
    /\ i13Calls = <<>>
    /\ i13Done = NothingDone
    /\ i13Left \in I13Budgets

----------------------------------------------------------------------------
(* One call.  It is at "chunk" before it fills the packet or the registers, *)
(* at "int" before the INT 13h and at "answer" after it.                    *)
Depth == Len(i13Calls)
Running == i13Calls[Depth]
RunningDev == i13Devs[Running.drive]
Go(call) == i13Calls' = [i13Calls EXCEPT ![Depth] = call]

Direct == AccessBy(i13Machine) = "edd30"
Bounced == AccessBy(i13Machine) = "edd11"
ByRegisters == AccessBy(i13Machine) = "chs"

(* The call that runs returns an error.                                     *)
Return(status) ==
    /\ i13Done' = [NothingDone EXCEPT !.status = status]
    /\ i13Calls' = Front(i13Calls)

(* Lba + Blocks - 1 is unsigned: no block at 0 is beyond every end.         *)
Beyond(dev, r) == r.lba + r.blocks = 0 \/ r.lba + r.blocks - 1 > dev.lastBlock
EntryChecks(dev, r, mediaId, beyondLast) ==
    IF mediaId # dev.mediaId THEN "MEDIA_CHANGED"
    ELSE IF r.lba > dev.lastBlock THEN beyondLast
    ELSE IF Beyond(dev, r) THEN "INVALID_PARAMETER"
    ELSE IF ~r.whole THEN "BAD_BUFFER_SIZE"
    ELSE IF r.null THEN "INVALID_PARAMETER" ELSE "SUCCESS"

(* History.  An event between the steps of a call: what that call has put   *)
(* below 1 MB is overwritten, unless it has not begun or has taken all of it.*)
(* A call that comes when another has the BIOS's one report of an exchange  *)
(* in hand still finds the old MediaId valid.                               *)
Unhandled(d) == \E k \in DOMAIN i13Calls : i13Calls[k].drive = d /\ i13Calls[k].answer = "changed"
Interrupted(calls) ==
    [k \in DOMAIN calls |-> [calls[k] EXCEPT !.disturbed = @ \/ calls[k].at # "chunk"]]

Begin(d, r, mediaId, beyondLast) ==
    LET dev == i13Devs[d]
        call == [drive |-> d, op |-> r.op, mediaId |-> mediaId, medium |-> dev.known,
                 lba |-> r.lba, todo |-> r.blocks, size |-> dev.blockSize, data |-> <<>>,
                 wrote |-> {}, at |-> "chunk", blocks |-> 0, chs |-> <<0, 0, 1>>, tries |-> 0,
                 answer |-> "none", disturbed |-> Unhandled(d) \/ dev.known = 0, asked |-> r]
        status == EntryChecks(dev, r, mediaId, beyondLast)
    IN IF status # "SUCCESS" \/ r.blocks = 0
       THEN /\ i13Done' = [NothingDone EXCEPT !.status = status]
            /\ UNCHANGED i13Calls
       ELSE /\ i13Calls' = Append(Interrupted(i13Calls), call)
            /\ UNCHANGED i13Done

(* ReadBlocks and WriteBlocks.  They differ in what they say of a block that*)
(* is beyond the last one, and in the steps that follow: the packet with the*)
(* caller's buffer, the packet with the buffer below 1 MB, or the registers *)
(* (FillPacket, FillRegisters, Transfer, CopiedOut, TriedAgain).            *)
Edd30BiosReadBlocks(d, r, mediaId) ==
    Direct /\ r.op = "read" /\ Begin(d, r, mediaId, "INVALID_PARAMETER")
Edd30BiosWriteBlocks(d, r, mediaId) ==
    Direct /\ r.op = "write" /\ Begin(d, r, mediaId, "DEVICE_ERROR")
Edd11BiosReadBlocks(d, r, mediaId) ==
    Bounced /\ r.op = "read" /\ Begin(d, r, mediaId, "INVALID_PARAMETER")
Edd11BiosWriteBlocks(d, r, mediaId) ==
    Bounced /\ r.op = "write" /\ Begin(d, r, mediaId, "INVALID_PARAMETER")
BiosReadLegacyDrive(d, r, mediaId) ==
    ByRegisters /\ r.op = "read" /\ Begin(d, r, mediaId, "INVALID_PARAMETER")
BiosWriteLegacyDrive(d, r, mediaId) ==
    ByRegisters /\ r.op = "write" /\ Begin(d, r, mediaId, "INVALID_PARAMETER")

\* A caller that holds the present MediaId, or the one before; the second call
\* comes from an event.
Call ==
    /\ IF i13Calls = <<>> THEN i13Left.calls > 0 ELSE Depth = 1 /\ i13Left.nested > 0
    /\ \E d \in DOMAIN i13Devs, r \in I13Requests, age \in {0, 1} :
            LET mediaId == i13Devs[d].mediaId - age
            IN /\ mediaId >= 0
               /\ \/ Edd30BiosReadBlocks(d, r, mediaId) \/ Edd30BiosWriteBlocks(d, r, mediaId)
                  \/ Edd11BiosReadBlocks(d, r, mediaId) \/ Edd11BiosWriteBlocks(d, r, mediaId)
                  \/ BiosReadLegacyDrive(d, r, mediaId) \/ BiosWriteLegacyDrive(d, r, mediaId)
    /\ i13Left' = IF i13Calls = <<>> THEN [i13Left EXCEPT !.calls = @ - 1]
                                    ELSE [i13Left EXCEPT !.nested = @ - 1]
    /\ UNCHANGED <<i13Machine, i13Drives, i13Disk, i13Devs, i13Shared>>

CallAt(step) == i13Calls # <<>> /\ Running.at = step

\* The data of the chunk, each block meant for where the caller wants it; one
\* whose size is not that of the sectors goes astray.
Outgoing(call, n) ==
    [i \in 1..n |-> IF call.size = 1 THEN MeantFor(call.medium, call.lba + i - 1) ELSE Stray]

\* By packet: with EDD 1.1 the data goes through the buffer below 1 MB.
Min2(a, b) == IF a < b THEN a ELSE b
FillPacket ==
    /\ CallAt("chunk") /\ ~ByRegisters
    /\ LET n == Min2(Running.todo, I13Chunk)
       IN /\ i13Packet' = [lba |-> Running.lba, blocks |-> n, owner |-> Depth]
          /\ IF Bounced /\ Running.op = "write"
             THEN i13Bounce' = Outgoing(Running, n)
             ELSE UNCHANGED i13Bounce
          /\ Go([Running EXCEPT !.at = "int", !.blocks = n])
    /\ UNCHANGED <<i13Machine, i13Drives, i13Disk, i13Devs, i13Done, i13Left>>

\* By registers: not beyond the end of a track; three tries.  Cylinder and head
\* are sent in ten and six bits.
Track(dev, lba) == lba \div dev.maxSector
ChsOf(dev, lba) ==
    <<(Track(dev, lba) \div (dev.maxHead + 1)) % I13Cylinders,
      (Track(dev, lba) % (dev.maxHead + 1)) % I13Heads,
      (lba % dev.maxSector) + 1>>
RestOfTrack(dev, lba) == dev.maxSector - (lba % dev.maxSector)
FillRegisters ==
    /\ CallAt("chunk") /\ ByRegisters
    /\ LET first == Running.tries = 0
           n == IF first THEN Min2(Running.todo, RestOfTrack(RunningDev, Running.lba))
                         ELSE Running.blocks
       IN /\ IF Running.op = "write" THEN i13Bounce' = Outgoing(Running, n)
                                     ELSE UNCHANGED i13Bounce
          /\ Go([Running EXCEPT !.at = "int", !.blocks = n,
                                !.chs = IF first THEN ChsOf(RunningDev, Running.lba) ELSE @,
                                !.tries = IF first THEN 3 ELSE @])
    /\ UNCHANGED <<i13Machine, i13Drives, i13Disk, i13Devs, i13Packet, i13Done, i13Left>>

----------------------------------------------------------------------------
(* INT 13h, functions 02, 03, 42 and 43.                                    *)
\* The blocks of medium m that the BIOS is told, by its real geometry.
ToldBlocks(m) ==
    LET lba == IF ~ByRegisters THEN i13Packet.lba
               ELSE (Running.chs[1] * I13Media[m].heads + Running.chs[2]) * I13Media[m].sectors
                        + Running.chs[3] - 1
        n == IF ~ByRegisters THEN i13Packet.blocks ELSE Running.blocks
    IN [i \in 1..n |-> lba + i - 1]

\* Where the data is: with EDD 3.0 in the buffer of the call that filled the
\* packet, else in the buffer below 1 MB.
InMemory(n) ==
    IF ~Direct THEN [i \in 1..n |-> IF i \in DOMAIN i13Bounce THEN i13Bounce[i] ELSE Stray]
    ELSE IF i13Packet.owner = Depth THEN Outgoing(Running, n) ELSE [i \in 1..n |-> Stray]
Sure(values) ==
    IF Running.disturbed \/ RunningDev.mediaId # Running.mediaId
    THEN [i \in DOMAIN values |-> [values[i] EXCEPT !.sure = FALSE]]
    ELSE values

Answered(answer) == [Running EXCEPT !.answer = answer, !.at = "answer"]

Transfer ==
    LET m == i13Drives[Running.drive].medium
        told == ToldBlocks(m)
        found == [i \in DOMAIN told |-> i13Disk[m][told[i]]]
        elsewhere == [i \in 1..Running.blocks |-> Stray]
        values == Sure(InMemory(Len(told)))
    IN IF Running.op = "read"
       THEN /\ i13Bounce' = IF Direct THEN i13Bounce ELSE found
            /\ Go([Answered("ok") EXCEPT
                      !.data = IF ~Direct THEN @
                               ELSE @ \o IF i13Packet.owner = Depth THEN found ELSE elsewhere])
            /\ UNCHANGED i13Disk
       ELSE /\ i13Disk' = [i13Disk EXCEPT ![m] =
                              [b \in DOMAIN @ |->
                                  IF \E i \in DOMAIN told : told[i] = b
                                  THEN values[CHOOSE i \in DOMAIN told : told[i] = b]
                                  ELSE @[b]]]
            /\ Go([Answered("ok") EXCEPT !.wrote = @ \cup Range(told)])
            /\ UNCHANGED i13Bounce

\* By registers, a transfer that would leave the track of its first sector fails.
InOneTrack(m) ==
    ByRegisters => Running.chs[3] + Running.blocks - 1 <= I13Media[m].sectors

\* Why the BIOS refuses: the medium was exchanged, which it says once; there
\* is none; it is write protected; it has no such block, or not in that track.
Refusal ==
    LET drive == i13Drives[Running.drive]
    IN CASE drive.changed -> "changed"
         [] ~drive.changed /\ drive.medium = 0 -> "no medium"
         [] OTHER ->
              IF Running.op = "write" /\ I13Media[drive.medium].protected THEN "protected"
              ELSE IF Range(ToldBlocks(drive.medium)) \subseteq DOMAIN i13Disk[drive.medium]
                         /\ InOneTrack(drive.medium)
                   THEN "none" ELSE "error"

(* A mutant: an exchange of the medium is taken for any other error.        *)
TriedAgainAlways(answer) == ByRegisters /\ Running.tries > 1
(* A refusal is tried again twice when the address is in the registers.     *)
TriedAgain(answer) == ByRegisters /\ Running.tries > 1 /\ answer # "changed"
Refused(answer) ==
    /\ Go(IF TriedAgain(answer) THEN [Running EXCEPT !.at = "chunk", !.tries = @ - 1]
          ELSE Answered(answer))
    /\ UNCHANGED <<i13Disk, i13Bounce>>

Int13 ==
    /\ CallAt("int")
    /\ \/ /\ Refusal = "none"
          /\ Transfer
          /\ UNCHANGED <<i13Drives, i13Left>>
       \/ /\ Refusal # "none"
          /\ Refused(Refusal)
          /\ i13Drives' = [i13Drives EXCEPT ![Running.drive].changed = FALSE]
          /\ UNCHANGED i13Left
       \/ /\ i13Left.errors > 0 /\ ~i13Drives[Running.drive].changed
          /\ Refused("error")
          /\ i13Left' = [i13Left EXCEPT !.errors = @ - 1]
          /\ UNCHANGED i13Drives
    /\ UNCHANGED <<i13Machine, i13Devs, i13Packet, i13Done>>

----------------------------------------------------------------------------
(* What a call makes of the answer.                                         *)
AnswerIn(answers) == CallAt("answer") /\ Running.answer \in answers
SetDev(dev) == i13Devs' = [i13Devs EXCEPT ![Running.drive] = dev]

\* What was read is copied out of the buffer below 1 MB.
CopiedOut(call) ==
    IF Direct \/ call.op = "write" THEN call.data
    ELSE call.data \o [i \in 1..call.blocks |->
                          IF i \in DOMAIN i13Bounce /\ call.size = 1 THEN i13Bounce[i] ELSE Stray]
ChunkDone ==
    /\ AnswerIn({"ok"})
    /\ SetDev([RunningDev EXCEPT !.present = TRUE,
                                 !.readOnly = IF Running.op = "write" THEN FALSE ELSE @])
    /\ LET next == [Running EXCEPT !.at = "chunk", !.tries = 0, !.data = CopiedOut(Running),
                                   !.lba = @ + Running.blocks, !.todo = @ - Running.blocks]
       IN IF next.todo > 0
          THEN Go(next) /\ UNCHANGED i13Done
          ELSE /\ i13Done' = [there |-> TRUE, status |-> "SUCCESS", call |-> next,
                              sameMedium |-> RunningDev.mediaId = Running.mediaId]
               /\ i13Calls' = Front(i13Calls)
    /\ UNCHANGED <<i13Machine, i13Drives, i13Disk, i13Shared, i13Left>>

Failing(dev) == [dev EXCEPT !.present = ~dev.removable]

\* The medium was exchanged: a new MediaId and, if the drive says what it has
\* now, its size; the protocol is installed again, so drivers look at it anew.
Renewed(dev, m) ==
    [Int13Extensions(i13Machine, Int13GetDeviceParameters(dev, m), m)
        EXCEPT !.mediaId = @ + 1, !.present = TRUE, !.readOnly = FALSE, !.known = m]
MediaChanged ==
    LET m == i13Drives[Running.drive].medium
    IN /\ AnswerIn({"changed"})
       /\ \/ /\ m # 0
             /\ SetDev(Renewed(RunningDev, m))
             /\ Return("MEDIA_CHANGED")
             /\ UNCHANGED i13Left
          \/ /\ m = 0 \/ i13Left.errors > 0
             /\ SetDev([Failing(RunningDev) EXCEPT !.mediaId = @ + 1, !.known = 0])
             /\ Return("DEVICE_ERROR")
             /\ i13Left' = IF m = 0 THEN i13Left ELSE [i13Left EXCEPT !.errors = @ - 1]
       /\ UNCHANGED <<i13Machine, i13Drives, i13Disk, i13Shared>>

Fail ==
    /\ AnswerIn({"error", "no medium", "protected"})
    /\ IF Running.answer = "protected"
       THEN SetDev([RunningDev EXCEPT !.present = TRUE, !.readOnly = TRUE])
            /\ Return("WRITE_PROTECTED")
       ELSE SetDev(Failing(RunningDev)) /\ Return("DEVICE_ERROR")
    /\ UNCHANGED <<i13Machine, i13Drives, i13Disk, i13Shared, i13Left>>

----------------------------------------------------------------------------
(* Reset: a failure counts only when AL, not AH, holds the status, and then *)
(* once more.                                                               *)
BiosBlockIoReset ==
    /\ i13Calls = <<>> /\ i13Left.resets > 0
    /\ \E d \in DOMAIN i13Devs, failures \in 0..2, al \in BOOLEAN :
            i13Done' = [NothingDone EXCEPT
                           !.status = IF failures = 2 /\ al THEN "DEVICE_ERROR" ELSE "SUCCESS"]
    /\ i13Left' = [i13Left EXCEPT !.resets = @ - 1]
    /\ UNCHANGED <<i13Machine, i13Drives, i13Disk, i13Devs, i13Shared, i13Calls>>

\* External: someone takes the medium out, or puts one in.
Swap ==
    /\ i13Left.swaps > 0
    /\ \E d \in DOMAIN i13Drives :
            /\ Cardinality(i13Machine.drives[d]) > 1
            /\ \E m \in (i13Machine.drives[d] \cup {0}) \ {i13Drives[d].medium} :
                    i13Drives' = [i13Drives EXCEPT ![d] = [medium |-> m, changed |-> TRUE]]
    /\ i13Left' = [i13Left EXCEPT !.swaps = @ - 1]
    /\ UNCHANGED <<i13Machine, i13Disk, i13Devs, i13Shared, i13Calls, i13Done>>

I13Next == Call \/ FillPacket \/ FillRegisters \/ Int13 \/ ChunkDone \/ MediaChanged \/ Fail
               \/ BiosBlockIoReset \/ Swap

----------------------------------------------------------------------------
(* Properties.                                                              *)
I13TypeOK ==
    /\ \A d \in DOMAIN i13Devs :
            /\ i13Devs[d].lastBlock \in Int /\ i13Devs[d].mediaId \in Nat
            /\ i13Devs[d].maxSector \in Nat \ {0}
    /\ Depth \in 0..2
    /\ i13Left \in [calls : Nat, nested : Nat, swaps : Nat, errors : Nat, resets : Nat]

\* What the registers and the record of a drive can express: its parameters
\* were told, and by registers also all of its heads and cylinders.
Expressible(m) ==
    /\ i13Machine.extension = "none" \/ i13Machine.parameters
    /\ ByRegisters =>
          I13Media[m].heads <= I13Heads /\ I13Media[m].cylinders <= I13Cylinders

(* A read or write that succeeded while no other call came between the     *)
(* preparation of a chunk and its end, and none noticed that the medium was *)
(* exchanged, has moved exactly the blocks it was asked for, all of the     *)
(* medium its MediaId stands for.                                           *)
MovedTrue ==
    i13Done.there =>
        LET call == i13Done.call
            asked == call.asked
            due == [i \in 1..asked.blocks |-> MeantFor(call.medium, asked.lba + i - 1)]
            noted == i13Done.sameMedium /\ call.medium # 0
        IN (noted /\ ~call.disturbed /\ Expressible(call.medium)) =>
              IF call.op = "read" THEN \A i \in DOMAIN due :
                                           due[i].medium = call.data[i].medium
                                               /\ due[i].block = call.data[i].block
              ELSE call.wrote = asked.lba..(asked.lba + asked.blocks - 1)

(* No block holds what was meant for another block or another medium,      *)
(* whatever is exchanged or fails in the middle of a call.                  *)
NothingAstray ==
    \A m \in DOMAIN i13Disk : Expressible(m) =>
        \A b \in DOMAIN i13Disk[m] : i13Disk[m][b].sure => i13Disk[m][b] = MeantFor(m, b)

(* Unless an exchange has yet to be noticed, the record of a drive that     *)
(* could be asked is that of the medium in it.                              *)
RecordAgrees ==
    \A d \in DOMAIN i13Devs :
        LET dev == i13Devs[d]
            m == i13Drives[d].medium
            pending == i13Drives[d].changed \/ Unhandled(d)
        IN (~pending /\ dev.known # 0 /\ m # 0 /\ Expressible(m)) =>
              /\ dev.known = m
              /\ dev.lastBlock = DiskBlocks(m) - 1
              /\ dev.readOnly => I13Media[m].protected

\* Disks by INT 13h: see the three definitions above.
DisksSound == MovedTrue /\ NothingAstray /\ RecordAgrees

=============================================================================
