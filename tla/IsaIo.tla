-------------------------------- MODULE IsaIo --------------------------------
(***************************************************************************)
(* EFI_ISA_IO_PROTOCOL of IsaIoDxe, and of IsaBusDxe, which has the same    *)
(* functions: access to the ports and the memory that ACPI lists for a      *)
(* device, and DMA through the 8237 controllers, which reach the memory     *)
(* below 16 MB and stay within 64 KB.  Memory above is mapped to a buffer   *)
(* below.  The device moves its data whenever its channel is not masked.    *)
(* Addresses count units of which a page, or a port, has one.               *)
(***************************************************************************)
EXTENDS Integers, SequencesExt

CONSTANTS
    IsaTop,       \* end of memory
    IsaFeatures,  \* values PcdIsaBusSupportedFeatures may have: sets
    IsaResources, \* what ACPI lists for the device: descriptors
    IsaAccesses,  \* [space, offset, width, count, fifo]
    IsaMaps,      \* [op, chan, attributes, host, n]
    IsaBudgets    \* bounds: calls, faults

VARIABLES
    isaPcd,       \* the features
    isaMem,       \* memory
    isaUsed,      \* pages that are allocated
    isaBuffers,   \* pages given to callers
    isaMaps,      \* the mappings there are, by channel
    isaAt,        \* the channel that is programmed, and the step
    isaDma,       \* the channels of the controllers
    isaDone,      \* the mapping that was undone last
    isaTouched,   \* history: [space, address] the device was accessed at
    isaHosts,     \* history: addresses a write was mapped for, or a buffer was at
    isaLeft       \* what is left of the budget

isaVars == <<isaPcd, isaMem, isaUsed, isaBuffers, isaMaps, isaAt, isaDma, isaDone, isaTouched,
             isaHosts, isaLeft>>
isaMapVars == <<isaMem, isaUsed, isaBuffers, isaMaps, isaAt, isaDma, isaDone, isaHosts>>

Base16MB == 10
Segment == 4    \* 64 KB
IsaSpan(first, n) == first..(first + n - 1)
IsaFault == isaLeft.faults > 0 /\ isaLeft' = [isaLeft EXCEPT !.faults = @ - 1]
IsaFine == UNCHANGED isaLeft
IsaCalled == isaAt.at = "idle" /\ isaLeft.calls > 0
             /\ isaLeft' = [isaLeft EXCEPT !.calls = @ - 1]

----------------------------------------------------------------------------
(* AcpiResourceToIsaResource: a mask of channels or interrupts becomes a    *)
(* range for each run of bits; a range of length 0 is none.                 *)
RunStarts(mask) == {b \in mask : b - 1 \notin mask}
RunEnd(mask, b) == CHOOSE e \in mask : e >= b /\ b..e \subseteq mask /\ e + 1 \notin mask
RunsOf(kind, mask) ==
    LET starts == SetToSortSeq(RunStarts(mask), <)
    IN  [i \in DOMAIN starts |-> [kind |-> kind, start |-> starts[i],
                                  end |-> RunEnd(mask, starts[i])]]
AcpiResourceToIsaResource(descriptor) ==
    IF descriptor.kind \in {"dma", "irq"} THEN RunsOf(descriptor.kind, descriptor.mask)
    ELSE IF descriptor.length = 0 THEN <<>>
    ELSE <<[kind |-> descriptor.kind, start |-> descriptor.base,
            end |-> descriptor.base + descriptor.length - 1]>>
InitializeIsaIoInstance ==
    FlattenSeq([i \in DOMAIN IsaResources |-> AcpiResourceToIsaResource(IsaResources[i])])
ResourceList == InitializeIsaIoInstance

(* ACPI lists ranges of addresses, and a call names an address, a width and *)
(* a count.                                                                 *)
ASSUME IsaRangesAssumption ==
    /\ \A r \in ToSet(ResourceList) : r.start \in Int /\ r.end \in Int
    /\ \A a \in IsaAccesses : a.offset \in Int /\ a.width \in Nat /\ a.count \in Nat

(* IsaIoVerifyAccess: the whole access lies within one range.  A FIFO is    *)
(* accessed at one address, however often.                                  *)
AccessEnd(a) == a.offset + (IF a.fifo THEN 1 ELSE a.count) * a.width - 1
IsaIoVerifyAccess(a) ==
    \E r \in ToSet(ResourceList) :
        r.kind = a.space /\ a.offset >= r.start /\ AccessEnd(a) <= r.end
Supported(a) == a.space = "memory" => "memory" \in isaPcd
Accessed(a) ==
    {[space |-> a.space, address |-> p] : p \in a.offset..AccessEnd(a)}
IsaIoAccess(a) ==   \* IsaIoIoRead, IsaIoIoWrite, IsaIoMemRead, IsaIoMemWrite, IsaIoCopyMem
    /\ IsaCalled
    /\ isaTouched' = IF Supported(a) /\ IsaIoVerifyAccess(a) THEN isaTouched \cup Accessed(a)
                     ELSE isaTouched
    /\ UNCHANGED <<isaPcd, isaMapVars>>

----------------------------------------------------------------------------
(* IsaIoMap.                                                                *)
Slave == {"SlaveRead", "SlaveWrite"}
Wide(chan) == chan >= 4
Masked == [masked |-> TRUE, mode |-> "none", base |-> 0, page |-> 0, left |-> 0]
IsaIdle == [at |-> "idle", chan |-> 0]
NoMapping == [op |-> "none", chan |-> 0, host |-> 0, n |-> 0, bytes |-> 0, dev |-> 0,
              bounced |-> FALSE, moved |-> 0, got |-> <<>>]
HostByte(a) == <<"host", a>>
BusMaster == {"BusMasterRead", "BusMasterWrite", "BusMasterCommonBuffer"}

(* A caller maps memory that there is, and words from an even address and   *)
(* in full.  A bus master programs no channel: its mapping is kept under    *)
(* the number of the cascade channel, which no slave has.                   *)
ASSUME IsaMapsAssumption ==
    /\ IsaTop \in Nat /\ Base16MB <= IsaTop
    /\ \A m \in IsaMaps :
           /\ m.op \in Slave \cup BusMaster
           /\ m.chan \in Nat /\ m.host \in Nat /\ m.n \in Nat \ {0}
           /\ m.host + m.n <= IsaTop
           /\ m.op \in BusMaster => m.chan = 4
           /\ m.op \in Slave /\ Wide(m.chan) => m.host % 2 = 0 /\ m.n % 2 = 0

IsaInit ==
    /\ isaPcd \in IsaFeatures
    /\ isaMem = [a \in 0..(IsaTop - 1) |-> HostByte(a)]
    /\ isaUsed = UNION {IsaSpan(m.host, m.n) : m \in IsaMaps}   \* the callers' buffers
    /\ isaBuffers = {}
    /\ isaMaps = [c \in 0..7 |-> NoMapping]
    /\ isaAt = IsaIdle
    /\ isaDma = [c \in 0..7 |-> Masked]
    /\ isaDone = NoMapping
    /\ isaTouched = {} /\ isaHosts = {}
    /\ isaLeft \in IsaBudgets

\* What the slave-only function and the other one take.
SlaveOnlyTakes(m) == m.op \in Slave /\ m.chan < 4
FullTakes(m) ==
    m.op \in Slave =>
        /\ m.chan # 4 /\ m.chan <= 7
        /\ "compatible" \in m.attributes /\ m.attributes \cap {"A", "B", "C"} = {}
        /\ IF Wide(m.chan) THEN "16" \in m.attributes /\ "8" \notin m.attributes
           ELSE "8" \in m.attributes /\ "16" \notin m.attributes
        /\ ("single" \in m.attributes) # ("demand" \in m.attributes)
MapTaken(m) == IF "slave only" \in isaPcd THEN SlaveOnlyTakes(m) ELSE FullTakes(m)
\* IsaIoMapFullSupport calls a slave's read and write those of a bus master.
OperationKept(op) ==
    IF "slave only" \in isaPcd THEN op
    ELSE CASE op = "SlaveRead" -> "BusMasterRead" [] op = "SlaveWrite" -> "BusMasterWrite"
           [] OTHER -> op
FromMemory(op) == op \in {"SlaveRead", "BusMasterRead"}

High(m) == m.host + m.n > Base16MB
\* AllocatePages (AllocateMaxAddress)
FreeRuns(n) == {b \in 0..(Base16MB - n) : IsaSpan(b, n) \cap isaUsed = {}}
Unclipped(m, dev) == m.n
MappedBytes(m, dev) == IF m.op \in Slave THEN Min({m.n, Segment - (dev % Segment)}) ELSE m.n
Mapped(m, dev, bounced) ==
    [op |-> OperationKept(m.op), chan |-> m.chan, host |-> m.host, n |-> MappedBytes(m, dev),
     bytes |-> m.n, dev |-> dev, bounced |-> bounced, moved |-> 0, got |-> <<>>]
Begins(m, mapping) ==
    /\ isaMaps' = [isaMaps EXCEPT ![m.chan] = mapping]
    /\ isaAt' = IF m.op \in Slave THEN [at |-> "mask", chan |-> m.chan] ELSE IsaIdle
    /\ isaHosts' = isaHosts \cup IsaSpan(mapping.dev, m.n)
                       \cup (IF FromMemory(m.op) THEN {} ELSE IsaSpan(m.host, m.n))
Copied(from, to, n) ==
    isaMem' = [a \in DOMAIN isaMem |->
                  IF a \in IsaSpan(to, n) THEN isaMem[from + (a - to)] ELSE isaMem[a]]
MapBounced(m) ==
    /\ High(m) /\ m.op # "BusMasterCommonBuffer"
    /\ \E b \in FreeRuns(m.n) :
           /\ Wide(m.chan) => b % 2 = 0   \* a page has an even address
           /\ isaUsed' = isaUsed \cup IsaSpan(b, m.n)
           /\ IF FromMemory(OperationKept(m.op)) THEN Copied(m.host, b, m.n)
              ELSE UNCHANGED isaMem
           /\ Begins(m, Mapped(m, b, TRUE))
MapDirect(m) ==
    /\ ~High(m)
    /\ Begins(m, Mapped(m, m.host, FALSE))
    /\ UNCHANGED <<isaUsed, isaMem>>
IsaIoMap(m) ==
    /\ IsaCalled /\ "dma" \in isaPcd /\ MapTaken(m)
    /\ isaMaps[m.chan] = NoMapping
    /\ \A c \in DOMAIN isaMaps :   \* the caller has not mapped its buffer yet
           IsaSpan(isaMaps[c].host, isaMaps[c].bytes) \cap IsaSpan(m.host, m.n) = {}
    /\ MapBounced(m) \/ MapDirect(m)
    /\ isaDone' = NoMapping
    /\ UNCHANGED <<isaPcd, isaBuffers, isaDma, isaTouched>>

(* The ports of the channel, one after the other.  A port that cannot be    *)
(* written ends the call with an error: the mapping is left behind, and the *)
(* channel as it is.                                                        *)
TheMap == isaMaps[isaAt.chan]
Port(step, next) ==
    /\ isaAt.at = step
    /\ \/ IsaFine /\ isaAt' = [isaAt EXCEPT !.at = next] /\ UNCHANGED isaMaps
       \/ IsaFault /\ isaAt' = IsaIdle /\ isaMaps' = [isaMaps EXCEPT ![isaAt.chan] = NoMapping]
    /\ UNCHANGED <<isaPcd, isaMem, isaUsed, isaBuffers, isaDone, isaTouched, isaHosts>>
WritesPort(field, value) ==
    isaDma' = IF isaAt'.at = "idle" THEN isaDma
              ELSE [isaDma EXCEPT ![isaAt.chan] = [@ EXCEPT ![field] = value]]
Direction == IF FromMemory(TheMap.op) THEN "MEM2IO" ELSE "IO2MEM"
Half(x) == IF Wide(isaAt.chan) THEN x \div 2 ELSE x
MaskChannel == Port("mask", "mode") /\ WritesPort("masked", TRUE)
WriteMode == Port("mode", "address") /\ WritesPort("mode", Direction)   \* and the flip-flop
WriteDmaAddress == Port("address", "page") /\ WritesPort("base", Half(TheMap.dev % Segment))
WriteDmaPage == Port("page", "count") /\ WritesPort("page", TheMap.dev \div Segment)
\* The count is one less than the transfers.
WriteDmaCount == Port("count", "unmask") /\ WritesPort("left", Half(TheMap.n - 1) + 1)
UnmaskChannel ==
    /\ Port("unmask", "done")
    /\ isaDma' = IF isaAt'.at = "idle" THEN isaDma
                 ELSE [isaDma EXCEPT ![isaAt.chan].masked = FALSE]
MapReturns ==
    /\ isaAt.at = "done" /\ isaAt' = IsaIdle
    /\ UNCHANGED <<isaPcd, isaMem, isaUsed, isaBuffers, isaMaps, isaDma, isaDone, isaTouched,
                   isaHosts>>
    /\ IsaFine

----------------------------------------------------------------------------
(* The 8237: one transfer of a channel that is not masked, at the address   *)
(* its registers say; the address wraps within 64 KB; the channel is masked *)
(* after the last.  The device asks from when its mapping is begun.         *)
Width(c) == IF Wide(c) THEN 2 ELSE 1
ChannelAddress(c) == isaDma[c].page * Segment + (isaDma[c].base * Width(c))
Requests(c) == isaMaps[c] # NoMapping /\ ~(isaAt.chan = c /\ isaAt.at = "mask")
DeviceByte(c, k) == <<"device", c, k>>
Advanced8237(c) ==
    isaDma' = [isaDma EXCEPT ![c].base = (@ + 1) % (Segment \div Width(c)),
                   ![c].left = @ - 1, ![c].masked = isaDma[c].left = 1]
DmaTransfer(c) ==
    LET a == ChannelAddress(c)
        at == IsaSpan(a, Width(c))
        k == isaMaps[c].moved
    IN  /\ Requests(c) /\ ~isaDma[c].masked /\ isaDma[c].left > 0
        /\ Advanced8237(c)
        /\ IF isaDma[c].mode = "IO2MEM"
           THEN /\ isaMem' = [x \in DOMAIN isaMem |->
                                IF x \in at THEN DeviceByte(c, k + (x - a)) ELSE isaMem[x]]
                /\ isaMaps' = [isaMaps EXCEPT ![c].moved = @ + Width(c)]
           ELSE /\ isaMaps' = [isaMaps EXCEPT ![c].moved = @ + Width(c),
                                   ![c].got = @ \o [i \in 1..Width(c) |-> isaMem[a + i - 1]]]
                /\ UNCHANGED isaMem
        /\ UNCHANGED <<isaPcd, isaUsed, isaBuffers, isaAt, isaDone, isaTouched, isaHosts, isaLeft>>
\* A bus master moves its data in order.
MasterTransfer(c) ==
    LET mapping == isaMaps[c]
        a == mapping.dev + mapping.moved
    IN  /\ c = 4 /\ mapping # NoMapping /\ mapping.moved < mapping.n
        /\ IF FromMemory(mapping.op)
           THEN /\ isaMaps' = [isaMaps EXCEPT ![c].moved = @ + 1,
                                   ![c].got = Append(@, isaMem[a])]
                /\ UNCHANGED isaMem
           ELSE /\ isaMaps' = [isaMaps EXCEPT ![c].moved = @ + 1]
                /\ isaMem' = [isaMem EXCEPT ![a] = DeviceByte(c, mapping.moved)]
        /\ UNCHANGED <<isaPcd, isaUsed, isaBuffers, isaAt, isaDma, isaDone, isaTouched, isaHosts,
                       isaLeft>>

(* IsaIoUnmap: data written by the device is copied to where the caller     *)
(* wants it, by the length that was asked for; the buffer is free.          *)
CopiesBack(mapping) == mapping.bounced /\ mapping.op = "BusMasterWrite"
IsaIoUnmap(c) ==
    LET mapping == isaMaps[c]
    IN  /\ isaAt.at = "idle" /\ mapping # NoMapping
        /\ isaMaps' = [isaMaps EXCEPT ![c] = NoMapping]
        /\ isaDone' = mapping
        /\ IF CopiesBack(mapping) THEN Copied(mapping.dev, mapping.host, mapping.bytes)
           ELSE UNCHANGED isaMem
        /\ isaUsed' = IF mapping.bounced THEN isaUsed \ IsaSpan(mapping.dev, mapping.bytes)
                      ELSE isaUsed
        /\ UNCHANGED <<isaPcd, isaBuffers, isaAt, isaDma, isaTouched, isaHosts, isaLeft>>

\* IsaIoAllocateBuffer, IsaIoFreeBuffer: pages for a bus master, below 16 MB.
BufferCalls == "dma" \in isaPcd /\ "slave only" \notin isaPcd
IsaIoAllocateBuffer ==
    /\ IsaCalled /\ BufferCalls
    /\ \E b \in FreeRuns(1) : isaUsed' = isaUsed \cup {b} /\ isaBuffers' = isaBuffers \cup {b}
    /\ isaDone' = NoMapping
    /\ UNCHANGED <<isaPcd, isaMem, isaMaps, isaAt, isaDma, isaTouched, isaHosts>>
IsaIoFreeBuffer ==
    /\ IsaCalled /\ BufferCalls
    /\ \E b \in isaBuffers : isaUsed' = isaUsed \ {b} /\ isaBuffers' = isaBuffers \ {b}
    /\ isaDone' = NoMapping
    /\ UNCHANGED <<isaPcd, isaMem, isaMaps, isaAt, isaDma, isaTouched, isaHosts>>

IsaNext ==
    \/ \E a \in IsaAccesses : IsaIoAccess(a)
    \/ \E m \in IsaMaps : IsaIoMap(m)
    \/ MaskChannel \/ WriteMode \/ WriteDmaAddress \/ WriteDmaPage \/ WriteDmaCount
    \/ UnmaskChannel \/ MapReturns
    \/ \E c \in 0..7 : DmaTransfer(c) \/ MasterTransfer(c) \/ IsaIoUnmap(c)
    \/ IsaIoAllocateBuffer \/ IsaIoFreeBuffer

IsaSpec == IsaInit /\ [][IsaNext]_isaVars

----------------------------------------------------------------------------
IsaTypeOK ==
    /\ isaUsed \cup isaHosts \subseteq 0..(IsaTop - 1)
    /\ \A c \in 0..7 : isaDma[c].left \in 0..Segment /\ isaDma[c].masked \in BOOLEAN
    /\ isaAt.chan \in 0..7

(* DMA moves data where it was mapped and nowhere else: no byte outside of  *)
(* the buffers of the mappings ever changes, whatever ports fail and        *)
(* whenever the device asks; when a mapping is undone its caller finds what *)
(* the device wrote, and the device got what was in the caller's buffer.    *)
(* (When only slaves are supported a write to memory above 16 MB is not     *)
(* copied back; that case is left out.)  No access leaves the ranges ACPI   *)
(* lists for the device.                                                    *)
DmaWhereMapped ==
    /\ \A a \in 0..(IsaTop - 1) \ isaHosts : isaMem[a] = HostByte(a)
    /\ isaDone # NoMapping /\ isaDone.moved > 0 =>
           IF FromMemory(isaDone.op)
           THEN \A k \in 1..Min({isaDone.moved, isaDone.n}) :
                    isaDone.got[k] = isaMem[isaDone.host + k - 1]
           ELSE isaDone.op # "SlaveWrite" \/ ~isaDone.bounced =>
                    \A k \in 0..(Min({isaDone.moved, isaDone.n}) - 1) :
                        isaMem[isaDone.host + k] = DeviceByte(isaDone.chan, k)
    /\ \A t \in isaTouched :
           \E r \in ToSet(ResourceList) : r.kind = t.space /\ t.address \in r.start..r.end
=============================================================================
