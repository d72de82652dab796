------------------------------- MODULE Snp16 -------------------------------
(***************************************************************************)
(* Snp16Dxe: EFI_SIMPLE_NETWORK_PROTOCOL on top of the 16 bit UNDI driver  *)
(* of a network card.  UNDI (external) has a queue of events, frames that  *)
(* came and transmissions that are over, and hands them out one by one to  *)
(* Undi16SimpleNetworkIsr; a call of it may fail.  Frames and the buffers  *)
(* of transmissions are numbered in their order.                           *)
(***************************************************************************)
EXTENDS Integers, Sequences, FiniteSets

CONSTANTS
    SnpFifoMax,   \* EFI_SIMPLE_NETWORK_MAX_TX_FIFO_SIZE
    SnpRequests,  \* the arguments of ReceiveFilters
    SnpMCastMax,  \* MaxMCastFilterCount
    SnpBudgets    \* bounds: frames, sends, calls that reset something, faults

\* The ring has a slot: the constant of the code is 64.
ASSUME SnpAssumption == SnpFifoMax \in Nat \ {0}

VARIABLES
    snpState,     \* Mode.State
    snpFilter,    \* Mode.ReceiveFilterSetting
    snpMCast,     \* Mode.MCastFilter
    snpAddr,      \* Mode.CurrentAddress
    snpFifo,      \* TxBufferFifo
    snpIsr,       \* Isr and IsrValid
    snpInt,       \* InterruptStatus
    undiOpen,     \* UNDI is open: it receives
    undiFilter,   \* the packet filter it was given
    undiEvents,   \* events that UNDI has not told yet
    undiSending,  \* transmissions that are not over
    snpPc,        \* the call that is in Undi16SimpleNetworkIsr, and its frame
    snpLeft,      \* what is left of the budget
    snpWire,      \* history: frames that UNDI has handed over
    snpTaken,     \* history: frames that Receive has returned
    snpSent,      \* history: how many buffers were transmitted
    snpRecycled,  \* history: buffers that GetStatus has returned
    snpTrouble    \* history: a call failed, or a reset lost what waited

undiVars == <<undiOpen, undiFilter, undiEvents, undiSending>>
snpMode == <<snpState, snpFilter, snpMCast, snpAddr>>
snpHistory == <<snpWire, snpTaken, snpSent, snpRecycled, snpTrouble>>
snpVars == <<snpMode, snpFifo, snpIsr, snpInt, undiVars, snpPc, snpLeft, snpHistory>>

NoFrame == 0
SnpIdle == [call |-> "none", reads |-> {}, small |-> FALSE, got |-> NoFrame]
NoIsr == [valid |-> FALSE, flag |-> "done", ok |-> TRUE, frame |-> NoFrame]

(* Undi16GetPacketFilterSetting *)
PacketFilter(setting) ==
    (IF setting \cap {"UNICAST", "MULTICAST"} # {} THEN {"DIRECTED"} ELSE {})
    \cup (IF "BROADCAST" \in setting THEN {"BRDCST"} ELSE {})
    \cup (IF setting \cap {"PROMISCUOUS", "PROMISCUOUS_MULTICAST"} # {} THEN {"PRMSCS"}
          ELSE {})

(* SimpleNetworkTransmitFifo: a ring that keeps one slot free. *)
EmptyFifo == [First |-> 0, Last |-> 0, Data |-> [i \in 0..SnpFifoMax - 1 |-> 0]]
FifoNext(i) == (i + 1) % SnpFifoMax
FifoFull(f) == FifoNext(f.Last) = f.First
FifoEmpty(f) == f.Last = f.First
FifoAddPast(f, b) == [f EXCEPT !.Data[f.Last] = b, !.Last = f.Last + 1]
FifoAdd(f, b) == [First |-> f.First, Last |-> FifoNext(f.Last),
                  Data |-> [f.Data EXCEPT ![f.Last] = b]]
FifoRemove(f) == [f EXCEPT !.First = FifoNext(f.First)]
FifoReset(f) == [First |-> 0, Last |-> 0, Data |-> f.Data]

SnpInit ==
    /\ snpState = "Stopped"
    /\ snpFilter = {} /\ snpMCast = {} /\ snpAddr = "permanent"
    /\ snpFifo = EmptyFifo
    /\ snpIsr = NoIsr
    /\ snpInt = {}
    /\ undiOpen = FALSE /\ undiFilter = {} /\ undiEvents = <<>> /\ undiSending = 0
    /\ snpPc = SnpIdle
    /\ snpLeft \in SnpBudgets
    /\ snpWire = <<>> /\ snpTaken = <<>> /\ snpSent = 0 /\ snpRecycled = <<>>
    /\ snpTrouble = FALSE

(* A fault is one of the calls of UNDI that fails.                         *)
Fault == snpLeft.faults > 0 /\ snpLeft' = [snpLeft EXCEPT !.faults = @ - 1]
Ready(state) == snpPc = SnpIdle /\ snpState = state
Counted == snpLeft.calls > 0 /\ snpLeft' = [snpLeft EXCEPT !.calls = @ - 1]
FailedCounted == /\ snpLeft.calls > 0 /\ snpLeft.faults > 0
                 /\ snpLeft' = [snpLeft EXCEPT !.calls = @ - 1, !.faults = @ - 1]

----------------------------------------------------------------------------
(* The card: a frame comes, a transmission is over.                        *)
FrameComes ==
    /\ undiOpen /\ undiFilter # {}
    /\ snpLeft.frames > 0
    /\ snpLeft' = [snpLeft EXCEPT !.frames = @ - 1]
    /\ undiEvents' = Append(undiEvents, "receive")
    /\ UNCHANGED <<snpMode, snpFifo, snpIsr, snpInt, undiOpen, undiFilter, undiSending,
                   snpPc, snpHistory>>
SendEnds ==
    /\ undiSending > 0
    /\ undiSending' = undiSending - 1
    /\ undiEvents' = Append(undiEvents, "transmit")
    /\ UNCHANGED <<snpMode, snpFifo, snpIsr, snpInt, undiOpen, undiFilter, snpPc,
                   snpLeft, snpHistory>>

(* UNDI is closed, or opened with a filter; it forgets its events.         *)
UndiCloses == undiOpen' = FALSE /\ undiEvents' = <<>> /\ undiSending' = 0
              /\ UNCHANGED undiFilter
UndiOpens(setting) ==
    undiOpen' = TRUE /\ undiFilter' = PacketFilter(setting)
    /\ undiEvents' = <<>> /\ undiSending' = 0

\* What waits in Isr and in the ring of buffers is lost.
Loses == snpTrouble' = (snpTrouble \/ snpIsr.valid \/ ~FifoEmpty(snpFifo))

----------------------------------------------------------------------------
SnpStart ==
    /\ Ready("Stopped")
    /\ \/ /\ Counted
          /\ snpState' = "Started" /\ snpFilter' = {} /\ snpMCast' = {}
       \/ FailedCounted /\ UNCHANGED <<snpState, snpFilter, snpMCast>>
    /\ UNCHANGED <<snpAddr, snpFifo, snpIsr, snpInt, undiVars, snpPc, snpHistory>>

SnpStop ==
    /\ Ready("Started")
    /\ Counted
    /\ snpState' = "Stopped"
    /\ UNCHANGED <<snpFilter, snpMCast, snpAddr, snpFifo, snpIsr, snpInt, undiVars, snpPc,
                   snpHistory>>

SnpInitialize ==
    /\ Ready("Started")
    /\ \/ /\ Counted
          /\ UndiOpens(snpFilter)
          /\ snpState' = "Initialized"
          /\ snpFifo' = FifoReset(snpFifo)
          /\ snpIsr' = [snpIsr EXCEPT !.valid = FALSE]
       \/ FailedCounted /\ UNCHANGED <<undiVars, snpState, snpFifo, snpIsr>>
    /\ UNCHANGED <<snpFilter, snpMCast, snpAddr, snpInt, snpPc, snpHistory>>

(* PxeUndiResetNic closes, resets and opens UNDI when the reset fails.     *)
SnpReset ==
    /\ Ready("Initialized")
    /\ Loses
    /\ \/ /\ Counted \/ FailedCounted
          /\ snpFifo' = FifoReset(snpFifo)
          /\ snpIsr' = [snpIsr EXCEPT !.valid = FALSE]
          /\ undiEvents' = <<>> /\ undiSending' = 0
          /\ \/ snpLeft'.faults = snpLeft.faults /\ UNCHANGED <<undiOpen, undiFilter>>
             \/ snpLeft'.faults < snpLeft.faults
                /\ undiOpen' = TRUE /\ undiFilter' = PacketFilter(snpFilter)
       \/ /\ FailedCounted
          /\ UndiCloses \/ UNCHANGED undiVars
          /\ UNCHANGED <<snpFifo, snpIsr>>
    /\ UNCHANGED <<snpMode, snpInt, snpPc, snpWire, snpTaken, snpSent, snpRecycled>>

SnpShutdown ==
    /\ Ready("Initialized")
    /\ Loses
    /\ snpIsr' = [snpIsr EXCEPT !.valid = FALSE]
    /\ \/ /\ Counted
          /\ UndiCloses
          /\ snpState' = "Started"
          /\ snpFifo' = FifoReset(snpFifo)
       \/ /\ FailedCounted
          /\ UndiCloses \/ UNCHANGED undiVars
          /\ UNCHANGED <<snpState, snpFifo>>
    /\ UNCHANGED <<snpFilter, snpMCast, snpAddr, snpInt, snpPc, snpWire, snpTaken, snpSent,
                   snpRecycled>>

(* The filter of Mode is changed once UNDI is open with it; the list of    *)
(* multicast addresses only when the new filter is of multicast.           *)
SnpReceiveFiltersEarly(r) ==
    LET new == (snpFilter \cup r.enable) \ r.disable
    IN  /\ Ready("Initialized")
        /\ r.enable # {} \/ r.disable # {} \/ r.reset
        /\ "MULTICAST" \in new => r.mcast # {} /\ Cardinality(r.mcast) <= SnpMCastMax
        /\ Loses
        /\ \/ /\ Counted
              /\ UndiOpens(new) \/ UNCHANGED undiVars
              /\ snpFilter' = new
              /\ snpMCast' = IF "MULTICAST" \in new THEN r.mcast ELSE snpMCast
              /\ snpFifo' = FifoReset(snpFifo)
              /\ snpIsr' = [snpIsr EXCEPT !.valid = FALSE]
           \/ /\ FailedCounted                   \* Close fails, or else Open does
              /\ \/ UNCHANGED <<undiVars, snpFifo>>
                 \/ UndiCloses /\ snpFifo' = FifoReset(snpFifo)
              /\ UNCHANGED <<snpFilter, snpMCast, snpIsr>>
        /\ UNCHANGED <<snpState, snpAddr, snpInt, snpPc, snpWire, snpTaken, snpSent,
                       snpRecycled>>
SnpReceiveFilters(r) ==
    LET new == (snpFilter \cup r.enable) \ r.disable
    IN  /\ Ready("Initialized")
        /\ r.enable # {} \/ r.disable # {} \/ r.reset
        /\ "MULTICAST" \in new => r.mcast # {} /\ Cardinality(r.mcast) <= SnpMCastMax
        /\ Loses
        /\ \/ /\ Counted
              /\ UndiOpens(new)
              /\ snpFilter' = new
              /\ snpMCast' = IF "MULTICAST" \in new THEN r.mcast ELSE snpMCast
              /\ snpFifo' = FifoReset(snpFifo)
              /\ snpIsr' = [snpIsr EXCEPT !.valid = FALSE]
           \/ /\ FailedCounted                   \* Close fails, or else Open does
              /\ \/ UNCHANGED <<undiVars, snpFifo>>
                 \/ UndiCloses /\ snpFifo' = FifoReset(snpFifo)
              /\ UNCHANGED <<snpFilter, snpMCast, snpIsr>>
        /\ UNCHANGED <<snpState, snpAddr, snpInt, snpPc, snpWire, snpTaken, snpSent,
                       snpRecycled>>

(* UNDI is closed and opened around the change; whether that worked is not *)
(* looked at.                                                              *)
SnpStationAddress(new) ==
    /\ Ready("Initialized")
    /\ new # snpAddr
    /\ UNCHANGED snpTrouble
    /\ \/ Counted /\ UndiOpens(snpFilter) /\ snpAddr' = new
       \/ FailedCounted /\ UndiOpens(snpFilter) /\ UNCHANGED snpAddr
       \/ FailedCounted /\ UndiCloses /\ snpAddr' = new
    /\ UNCHANGED <<snpState, snpFilter, snpMCast, snpFifo, snpIsr, snpInt, snpPc, snpWire,
                   snpTaken, snpSent, snpRecycled>>

SnpTransmit ==
    /\ Ready("Initialized")
    /\ snpLeft.sends > 0
    /\ ~FifoFull(snpFifo)
    /\ \/ /\ undiOpen
          /\ snpLeft' = [snpLeft EXCEPT !.sends = @ - 1]
          /\ undiSending' = undiSending + 1
          /\ snpSent' = snpSent + 1
          /\ snpFifo' = FifoAdd(snpFifo, snpSent + 1)
       \/ Fault /\ UNCHANGED <<undiSending, snpSent, snpFifo>>
    /\ UNCHANGED <<snpMode, snpIsr, snpInt, undiOpen, undiFilter, undiEvents, snpPc, snpWire,
                   snpTaken, snpRecycled, snpTrouble>>

----------------------------------------------------------------------------
(* Undi16SimpleNetworkIsr, called by GetStatus (which reads the interrupts, *)
(* a buffer, or both), Receive (whose buffer may be too small) and the      *)
(* notification of WaitForPacket.  It returns to the call: isr is what it   *)
(* leaves in Isr, int the interrupts by then, got the frame it copied.      *)
Returns(status, int, got) ==
    LET recycles == snpPc.call = "GetStatus" /\ status # "error" /\ "TxBuf" \in snpPc.reads
                    /\ ~FifoEmpty(snpFifo)
        received == snpPc.call = "Receive" /\ status = "success" /\ "RECEIVE" \in int
    IN  /\ snpPc' = SnpIdle
        /\ snpInt' = IF received THEN int \ {"RECEIVE"}
                     ELSE IF /\ snpPc.call = "GetStatus" /\ status # "error"
                             /\ "InterruptStatus" \in snpPc.reads
                     THEN {} ELSE int
        /\ snpTaken' = IF received THEN Append(snpTaken, got) ELSE snpTaken
        /\ snpFifo' = IF recycles THEN FifoRemove(snpFifo) ELSE snpFifo
        /\ snpRecycled' = IF recycles THEN Append(snpRecycled, snpFifo.Data[snpFifo.First])
                          ELSE snpRecycled

(* UNDI answers PROCESS and GET_NEXT with its next event; a frame is the    *)
(* next one of the wire.  When the call fails Isr still holds GET_NEXT,     *)
(* which is the number of OUT_RECEIVE, and no status of success.            *)
Event == IF undiEvents = <<>> THEN "done" ELSE Head(undiEvents)
UndiTells ==
    /\ snpIsr' = [valid |-> TRUE, flag |-> Event, ok |-> TRUE,
                  frame |-> IF Event = "receive" THEN Len(snpWire) + 1 ELSE NoFrame]
    /\ snpWire' = IF Event = "receive" THEN Append(snpWire, Len(snpWire) + 1) ELSE snpWire
    /\ undiEvents' = IF undiEvents = <<>> THEN <<>> ELSE Tail(undiEvents)
    /\ UNCHANGED <<snpLeft, snpTrouble>>
UndiTellsNot(flag, ok) ==
    /\ Fault
    /\ snpIsr' = [valid |-> TRUE, flag |-> flag, ok |-> ok, frame |-> NoFrame]
    /\ snpTrouble' = TRUE
    /\ UNCHANGED <<snpWire, undiEvents>>

(* What a call does before the loop of the Isr: START and PROCESS, unless   *)
(* there is something left of an earlier call.                              *)
SnpCalls(call, reads, small) ==
    LET pc == [call |-> call, reads |-> reads, small |-> small, got |-> NoFrame]
    IN  /\ Ready("Initialized")
        /\ snpPc' = pc
        /\ UNCHANGED <<snpMode, snpFifo, snpIsr, snpInt, undiVars, snpLeft, snpHistory>>
GetStatus(reads) == reads # {} /\ SnpCalls("GetStatus", reads, TRUE)
Receive(small) == SnpCalls("Receive", {}, small)
CheckForPacket == SnpCalls("CheckForPacket", {}, TRUE)

IsrStart ==
    /\ snpPc # SnpIdle /\ ~snpIsr.valid
    /\ \/ /\ undiEvents = <<>>                              \* OUT_NOT_OURS
          /\ Returns("success", snpInt, NoFrame)
          /\ UNCHANGED <<snpIsr, snpWire, undiEvents, snpLeft, snpTrouble>>
       \/ /\ Fault /\ snpTrouble' = TRUE
          /\ Returns("error", snpInt, NoFrame)
          /\ UNCHANGED <<snpIsr, snpWire, undiEvents>>
       \/ /\ undiEvents # <<>>
          /\ UndiTells \/ UndiTellsNot("done", FALSE) \/ UndiTellsNot("busy", TRUE)
          /\ UNCHANGED <<snpPc, snpInt, snpTaken, snpFifo, snpRecycled>>
    /\ UNCHANGED <<snpMode, undiOpen, undiFilter, undiSending, snpSent>>

(* GET_NEXT, after the event of the loop was taken.                        *)
GetNext(int, got) ==
    \/ /\ UndiTells \/ UndiTellsNot("busy", TRUE)
       /\ snpPc' = [snpPc EXCEPT !.got = got]
       /\ snpInt' = int
       /\ UNCHANGED <<snpTaken, snpFifo, snpRecycled>>
    \/ UndiTellsNot("receive", FALSE) /\ Returns("error", int, got)

IsrLoopOverwrites ==
    /\ snpPc # SnpIdle /\ snpIsr.valid
    /\ \/ /\ snpIsr.flag = "done"
          /\ snpIsr' = [snpIsr EXCEPT !.valid = FALSE]
          /\ Returns("success", snpInt, snpPc.got)
          /\ UNCHANGED <<snpWire, undiEvents, snpLeft, snpTrouble>>
       \/ /\ snpIsr.flag # "done" /\ ~snpIsr.ok
          /\ Returns("error", snpInt, snpPc.got)
          /\ UNCHANGED <<snpIsr, snpWire, undiEvents, snpLeft, snpTrouble>>
       \/ /\ snpIsr.flag = "busy" /\ snpIsr.ok
          /\ Returns("success", snpInt, snpPc.got)
          /\ UNCHANGED <<snpIsr, snpWire, undiEvents, snpLeft, snpTrouble>>
       \/ /\ snpIsr.flag = "transmit"
          /\ GetNext(snpInt \cup {"TRANSMIT"}, snpPc.got)
       \/ /\ snpIsr.flag = "receive" /\ snpIsr.ok /\ snpPc.small
          /\ Returns(IF snpPc.got # NoFrame THEN "success" ELSE "too small",
                     snpInt \cup {"RECEIVE"}, snpPc.got)
          /\ UNCHANGED <<snpIsr, snpWire, undiEvents, snpLeft, snpTrouble>>
       \/ /\ snpIsr.flag = "receive" /\ snpIsr.ok /\ ~snpPc.small
          /\ GetNext(snpInt \cup {"RECEIVE"}, snpIsr.frame)
    /\ UNCHANGED <<snpMode, undiOpen, undiFilter, undiSending, snpSent>>
IsrLoop ==
    /\ snpPc # SnpIdle /\ snpIsr.valid
    /\ \/ /\ snpIsr.flag = "done"
          /\ snpIsr' = [snpIsr EXCEPT !.valid = FALSE]
          /\ Returns("success", snpInt, snpPc.got)
          /\ UNCHANGED <<snpWire, undiEvents, snpLeft, snpTrouble>>
       \/ /\ snpIsr.flag # "done" /\ ~snpIsr.ok
          /\ Returns("error", snpInt, snpPc.got)
          /\ UNCHANGED <<snpIsr, snpWire, undiEvents, snpLeft, snpTrouble>>
       \/ /\ snpIsr.flag = "busy" /\ snpIsr.ok
          /\ Returns("success", snpInt, snpPc.got)
          /\ UNCHANGED <<snpIsr, snpWire, undiEvents, snpLeft, snpTrouble>>
       \/ /\ snpIsr.flag = "transmit"
          /\ GetNext(snpInt \cup {"TRANSMIT"}, snpPc.got)
       \/ /\ snpIsr.flag = "receive" /\ snpIsr.ok /\ (snpPc.got # NoFrame \/ snpPc.small)
          /\ Returns(IF snpPc.got # NoFrame THEN "success" ELSE "too small",
                     snpInt \cup {"RECEIVE"}, snpPc.got)
          /\ UNCHANGED <<snpIsr, snpWire, undiEvents, snpLeft, snpTrouble>>
       \/ /\ snpIsr.flag = "receive" /\ snpIsr.ok /\ snpPc.got = NoFrame /\ ~snpPc.small
          /\ GetNext(snpInt \cup {"RECEIVE"}, snpIsr.frame)
    /\ UNCHANGED <<snpMode, undiOpen, undiFilter, undiSending, snpSent>>

SnpNext ==
    \/ FrameComes \/ SendEnds
    \/ SnpStart \/ SnpStop \/ SnpInitialize \/ SnpReset \/ SnpShutdown
    \/ \E r \in SnpRequests : SnpReceiveFilters(r)
    \/ \E new \in {"permanent", "other"} : SnpStationAddress(new)
    \/ SnpTransmit
    \/ \E reads \in SUBSET {"InterruptStatus", "TxBuf"} : GetStatus(reads)
    \/ \E small \in BOOLEAN : Receive(small)
    \/ CheckForPacket
    \/ IsrStart \/ IsrLoop

SnpSpec == SnpInit /\ [][SnpNext]_snpVars

----------------------------------------------------------------------------
SnpTypeOK ==
    /\ snpState \in {"Stopped", "Started", "Initialized"}
    /\ snpAddr \in {"permanent", "other"}
    /\ snpFifo.First \in 0..SnpFifoMax - 1 /\ snpFifo.Last \in 0..SnpFifoMax - 1
    /\ DOMAIN snpFifo.Data = 0..SnpFifoMax - 1
    /\ snpIsr.valid \in BOOLEAN /\ snpIsr.ok \in BOOLEAN
    /\ snpIsr.flag \in {"done", "busy", "transmit", "receive"}
    /\ snpInt \subseteq {"RECEIVE", "TRANSMIT"}
    /\ undiOpen \in BOOLEAN /\ undiFilter \subseteq {"DIRECTED", "BRDCST", "PRMSCS"}
    /\ undiSending \in Nat
    /\ snpPc.call \in {"none", "GetStatus", "Receive", "CheckForPacket"}
    /\ snpTrouble \in BOOLEAN

(* The frames that UNDI has handed over and nobody has received: the one   *)
(* copied by the call that runs, the one left in Isr.                      *)
LeftInIsr == snpIsr.valid /\ snpIsr.flag = "receive" /\ snpIsr.ok
InHand == (IF snpPc.got = NoFrame THEN <<>> ELSE <<snpPc.got>>)
          \o (IF LeftInIsr THEN <<snpIsr.frame>> ELSE <<>>)
Increasing(s) == \A i, j \in DOMAIN s : i < j => s[i] < s[j]
FifoCount(f) == (f.Last + SnpFifoMax - f.First) % SnpFifoMax
FifoPlace(f, i) == (f.First + i - 1) % SnpFifoMax
FifoHolds(f) == [i \in 1..FifoCount(f) |-> f.Data[FifoPlace(f, i)]]
Buffers == snpRecycled \o FifoHolds(snpFifo)

(* Receive returns the frames in the order of the wire and none of them    *)
(* twice, whoever looked for them before it (GetStatus, WaitForPacket, a   *)
(* Receive whose buffer was too small); and none is lost unless a call of  *)
(* UNDI failed or the interface was reset while it waited.                 *)
FramesOnceInOrder ==
    /\ \A i, j \in DOMAIN snpTaken :
          i < j /\ snpTaken[i] # NoFrame /\ snpTaken[j] # NoFrame
              => snpTaken[i] < snpTaken[j]
    /\ ~snpTrouble => snpTaken \o InHand = snpWire

(* GetStatus recycles the buffers in the order in which Transmit took them *)
(* and none of them twice, although the ring that holds them wraps around; *)
(* every buffer is recycled or still held, unless the ring was emptied by  *)
(* a reset.                                                                *)
BuffersRecycledOnce ==
    /\ Increasing(Buffers)
    /\ ~snpTrouble => Buffers = [i \in 1..snpSent |-> i]

(* Frames in, buffers out: each once and in order.                         *)
FramesAndBuffersOnce == FramesOnceInOrder /\ BuffersRecycledOnce

(* While UNDI is open it filters as Mode says, after whatever resets,      *)
(* changes of the address and failed changes of the filter.                *)
FilterAgrees == undiOpen => undiFilter = PacketFilter(snpFilter)

\* Frames and buffers go once and in order, and Mode says what UNDI filters.
SnpSound == FramesAndBuffersOnce /\ FilterAgrees
=============================================================================
