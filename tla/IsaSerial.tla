----------------------------- MODULE IsaSerial -----------------------------
(***************************************************************************)
(* IsaSerialDxe: a UART behind two software FIFOs.  Every call runs at     *)
(* TPL_NOTIFY and polls the UART (IsaSerialReceiveTransmit), which changes *)
(* under it: bytes come, the transmitter becomes empty, the remote end is  *)
(* ready or is not.  Bytes that the callers write are numbered 1, 2, ...,  *)
(* those of the remote end -1, -2, ....  PcdIsaBusSerialUseHalfHandshake   *)
(* is FALSE, as in the package.                                            *)
(***************************************************************************)
EXTENDS Integers, SequencesExt

CONSTANTS
    SerFifoMax,   \* SERIAL_MAX_BUFFER_SIZE
    SerUartMax,   \* bytes that the UART holds
    SerTimeout,   \* stalls until a call times out
    SerControls,  \* the arguments of SetControl
    SerRates,     \* the baud rates that are set
    SerBudgets    \* bounds: bytes that come, bytes written, calls, faults

ASSUME SerAssumption ==
    /\ SerFifoMax \in Nat \ {0} /\ SerUartMax \in Nat /\ SerTimeout \in Nat
    /\ SerBudgets \subseteq [bytes : Nat, writes : Nat, calls : Nat, faults : Nat]

VARIABLES
    serIn,        \* the UART's receiver: bytes, and whether each is damaged
    serThre,      \* the UART's transmitter is empty
    serReady,     \* the remote end takes bytes: no carrier, or clear to send
    serRts,       \* request to send
    serRx,        \* Receive
    serTx,        \* Transmit
    serFlow,      \* HardwareFlowControl
    serLoop,      \* SoftwareLoopbackEnable
    serLine,      \* Mode.BaudRate and the divisor of the UART
    serPc,        \* the call that runs
    serLeft,      \* what is left of the budget
    serCame,      \* history: how many bytes came
    serNew,       \* history: how many bytes IsaSerialWrite was given
    serRead,      \* history: bytes that IsaSerialRead returned
    serWire,      \* history: bytes that were sent
    serLossy      \* history: a byte was damaged, overran a FIFO or was reset

serUart == <<serIn, serThre, serReady>>
serDev == <<serRx, serTx, serFlow, serLoop>>
serHistory == <<serCame, serNew, serRead, serWire, serLossy>>
serVars == <<serUart, serRts, serDev, serLine, serPc, serLeft, serHistory>>

SerIdle == [call |-> "none", phase |-> "", left |-> 0, waited |-> 0, first |-> FALSE, ok |-> TRUE]

(* The rate is rounded down to one of the table, then to what the divisor  *)
(* of the clock gives.                                                     *)
BaudTable == {50, 75, 110, 134, 150, 300, 600, 1200, 1800, 2000, 2400, 3600, 4800, 7200,
              9600, 19200, 38400, 57600, 115200}
Clock == 115200                               \* SERIAL_PORT_INPUT_CLOCK / 16
DivisorOf(rate) == LET r == Max({b \in BaudTable : b <= rate})
                   IN  (Clock + r - 1) \div r
LineOf(rate) == [baud |-> Clock \div DivisorOf(rate), divisor |-> DivisorOf(rate)]

SerInit ==
    /\ serIn = <<>> /\ serThre = TRUE /\ serReady = TRUE /\ serRts = FALSE
    /\ serRx = <<>> /\ serTx = <<>>
    /\ serFlow = FALSE /\ serLoop = FALSE
    /\ serLine = LineOf(115200)
    /\ serPc = SerIdle
    /\ serLeft \in SerBudgets
    /\ serCame = 0 /\ serNew = 0 /\ serRead = <<>> /\ serWire = <<>> /\ serLossy = FALSE

----------------------------------------------------------------------------
(* The UART and the remote end, which stops when it is asked to.  A byte   *)
(* that finds the receiver full is lost.                                   *)
ByteComes ==
    /\ serLeft.bytes > 0
    /\ serFlow => serRts
    /\ \E bad \in BOOLEAN :
           /\ bad => serLeft.faults > 0
           /\ serLeft' = [serLeft EXCEPT !.bytes = @ - 1, !.faults = IF bad THEN @ - 1 ELSE @]
           /\ serCame' = serCame + 1
           /\ IF Len(serIn) < SerUartMax
              THEN /\ serIn' = Append(serIn, [byte |-> - serCame', bad |-> bad])
                   /\ UNCHANGED serLossy
              ELSE serLossy' = TRUE /\ UNCHANGED serIn
    /\ UNCHANGED <<serThre, serReady, serRts, serDev, serLine, serPc, serNew, serRead, serWire>>

TransmitterEmpties ==
    /\ ~serThre /\ serThre' = TRUE
    /\ UNCHANGED <<serIn, serReady, serRts, serDev, serLine, serPc, serLeft, serHistory>>

RemoteChanges ==
    /\ serLeft.faults > 0 \/ ~serReady
    /\ serReady' = ~serReady
    /\ serLeft' = [serLeft EXCEPT !.faults = IF serReady THEN @ - 1 ELSE @]
    /\ UNCHANGED <<serIn, serThre, serRts, serDev, serLine, serPc, serHistory>>

----------------------------------------------------------------------------
(* IsaSerialReceiveTransmit.  It raises RTS when there is room, then goes  *)
(* round a loop whose steps take a byte or send one, and ends when it read *)
(* that the transmitter is busy or when nothing is left to send.           *)
Polls(pc) ==
    /\ serPc' = [pc EXCEPT !.phase = "poll", !.ok = TRUE]
    /\ serRts' = (serRts \/ (serFlow /\ ~serLoop /\ Len(serRx') < SerFifoMax))
AfterRound == serPc' = IF serThre /\ serTx' # <<>> THEN serPc ELSE [serPc EXCEPT !.phase = "done"]
Rounds == serPc.phase = "poll" /\ ~serLoop
TakesByte == serIn # <<>> /\ Len(serRx) < SerFifoMax

TakeByte ==
    /\ Rounds /\ TakesByte
    /\ serIn' = Tail(serIn)
    /\ IF Head(serIn).bad
       THEN serLossy' = TRUE /\ UNCHANGED <<serRx, serRts>>
       ELSE /\ serRx' = Append(serRx, Head(serIn).byte)
            /\ serRts' = (serRts /\ ~(serFlow /\ Len(serRx') = SerFifoMax))
            /\ UNCHANGED serLossy
    /\ UNCHANGED <<serThre, serReady, serTx, serFlow, serLoop, serLine, serLeft, serCame, serNew,
                   serRead, serWire>>
    /\ AfterRound

(* With flow control a byte waits for the remote end; when the wait is     *)
(* over the loop goes round again all the same.                            *)
SendByteKeeping ==
    /\ Rounds /\ ~TakesByte
    /\ serThre /\ serTx # <<>>
    /\ IF serFlow => serReady
       THEN /\ serWire' = Append(serWire, Head(serTx))
            /\ serThre' = FALSE /\ UNCHANGED serTx
       ELSE UNCHANGED <<serWire, serTx, serThre>>
    /\ UNCHANGED <<serIn, serReady, serRts, serRx, serFlow, serLoop, serLine, serLeft, serCame,
                   serNew, serRead, serLossy>>
    /\ AfterRound
SendByte ==
    /\ Rounds /\ ~TakesByte
    /\ serThre /\ serTx # <<>>
    /\ IF serFlow => serReady
       THEN /\ serWire' = Append(serWire, Head(serTx))
            /\ serTx' = Tail(serTx)
            /\ serThre' = FALSE
       ELSE UNCHANGED <<serWire, serTx, serThre>>
    /\ UNCHANGED <<serIn, serReady, serRts, serRx, serFlow, serLoop, serLine, serLeft, serCame,
                   serNew, serRead, serLossy>>
    /\ AfterRound

NothingToDo ==
    /\ Rounds /\ ~TakesByte
    /\ ~serThre \/ serTx = <<>>
    /\ serPc' = [serPc EXCEPT !.phase = "done"]
    /\ UNCHANGED <<serUart, serRts, serDev, serLine, serLeft, serHistory>>

(* Software loopback: the byte that finds Receive full is gone.            *)
LoopBack ==
    LET room == SerFifoMax - Len(serRx)
        fits == Len(serTx) <= room
    IN  /\ serPc.phase = "poll" /\ serLoop
        /\ serRx' = serRx \o (IF fits THEN serTx ELSE SubSeq(serTx, 1, room))
        /\ serTx' = IF fits THEN <<>> ELSE SubSeq(serTx, room + 2, Len(serTx))
        /\ serPc' = [serPc EXCEPT !.phase = "done", !.ok = fits]
        /\ serLossy' = (serLossy \/ ~fits)
        /\ UNCHANGED <<serUart, serRts, serFlow, serLoop, serLine, serLeft, serCame, serNew,
                       serRead, serWire>>

----------------------------------------------------------------------------
Called(call, left) == [SerIdle EXCEPT !.call = call, !.left = left, !.first = TRUE]
Counts == /\ serPc = SerIdle
          /\ serLeft.calls > 0
          /\ serLeft' = [serLeft EXCEPT !.calls = @ - 1]

IsaSerialWrite(n) ==
    /\ Counts
    /\ serNew + n <= serLeft.writes
    /\ serPc' = [Called("Write", n) EXCEPT !.phase = "add"]
    /\ UNCHANGED <<serUart, serRts, serDev, serLine, serHistory>>

(* IsaSerialFifoAdd refuses when Transmit is full of bytes of calls that   *)
(* timed out; that is not looked at.                                       *)
WriteAdds ==
    /\ serPc.phase = "add"
    /\ serNew' = serNew + 1
    /\ serTx' = IF Len(serTx) < SerFifoMax THEN Append(serTx, serNew') ELSE serTx
    /\ serLossy' = (serLossy \/ Len(serTx) = SerFifoMax)
    /\ UNCHANGED <<serUart, serRx, serFlow, serLoop, serLine, serLeft, serCame, serRead, serWire>>
    /\ Polls(serPc)

Waits ==
    /\ serPc.waited < SerTimeout
    /\ UNCHANGED <<serUart, serDev, serLine, serLeft, serHistory>>
    /\ Polls([serPc EXCEPT !.waited = @ + 1, !.first = FALSE])
TimesOut ==
    /\ serPc.waited >= SerTimeout
    /\ serPc' = SerIdle
    /\ UNCHANGED <<serUart, serRts, serDev, serLine, serLeft, serHistory>>

WriteChecks ==
    /\ serPc.phase = "done" /\ serPc.call = "Write"
    /\ \/ /\ serPc.ok /\ serTx = <<>>
          /\ serPc' = IF serPc.left = 1 THEN SerIdle
                      ELSE [serPc EXCEPT !.phase = "add", !.left = @ - 1, !.waited = 0]
          /\ UNCHANGED <<serUart, serRts, serDev, serLine, serLeft, serHistory>>
       \/ ~(serPc.ok /\ serTx = <<>>) /\ (Waits \/ TimesOut)

IsaSerialRead(n) ==
    /\ Counts
    /\ UNCHANGED <<serUart, serDev, serLine, serHistory>>
    /\ Polls(Called("Read", n))

(* The last byte is followed by one more poll.                             *)
ReadChecks ==
    /\ serPc.phase = "done" /\ serPc.call = "Read"
    /\ \/ /\ (serPc.first /\ ~serPc.ok) \/ serPc.left = 0
          /\ serPc' = SerIdle
          /\ UNCHANGED <<serUart, serRts, serDev, serLine, serLeft, serHistory>>
       \/ /\ ~(serPc.first /\ ~serPc.ok) /\ serPc.left > 0 /\ serRx # <<>>
          /\ serRead' = Append(serRead, Head(serRx))
          /\ serRx' = Tail(serRx)
          /\ IF serPc.left = 1 THEN Polls([serPc EXCEPT !.left = 0])
             ELSE /\ serPc' = [serPc EXCEPT !.left = @ - 1, !.waited = 0, !.first = FALSE]
                  /\ UNCHANGED serRts
          /\ UNCHANGED <<serUart, serTx, serFlow, serLoop, serLine, serLeft, serCame, serNew,
                         serWire, serLossy>>
       \/ /\ ~(serPc.first /\ ~serPc.ok) /\ serPc.left > 0 /\ serRx = <<>>
          /\ Waits \/ TimesOut

(* Two polls.                                                              *)
IsaSerialGetControl ==
    /\ Counts
    /\ UNCHANGED <<serUart, serDev, serLine, serHistory>>
    /\ Polls(Called("GetControl", 2))
GetControlChecks ==
    /\ serPc.phase = "done" /\ serPc.call = "GetControl"
    /\ UNCHANGED <<serUart, serDev, serLine, serLeft, serHistory>>
    /\ \/ serPc.left = 2 /\ Polls([serPc EXCEPT !.left = 1])
       \/ serPc.left = 1 /\ serPc' = SerIdle /\ UNCHANGED serRts

IsaSerialSetControl(control) ==
    /\ Counts
    /\ serRts' = ("rts" \in control)
    /\ serFlow' = ("flow" \in control)
    /\ serLoop' = ("loop" \in control)
    /\ UNCHANGED <<serUart, serRx, serTx, serLine, serPc, serHistory>>

IsaSerialSetAttributes(rate) ==
    /\ Counts
    /\ serLine' = LineOf(rate)
    /\ UNCHANGED <<serUart, serRts, serDev, serPc, serHistory>>

(* The attributes and the control of now are set again; when the device    *)
(* path cannot be installed again the FIFOs are left alone.                *)
IsaSerialReset ==
    /\ Counts
    /\ serIn' = <<>>
    /\ serLine' = LineOf(serLine.baud)
    /\ \/ serRts' = FALSE /\ serRx' = <<>> /\ serTx' = <<>>
       \/ serLine' # serLine /\ UNCHANGED <<serRts, serRx, serTx>>
    /\ serLossy' = TRUE
    /\ UNCHANGED <<serThre, serReady, serFlow, serLoop, serPc, serCame, serNew, serRead, serWire>>

SerNext ==
    \/ ByteComes \/ TransmitterEmpties \/ RemoteChanges
    \/ TakeByte \/ SendByte \/ NothingToDo \/ LoopBack
    \/ \E n \in 1..2 : IsaSerialWrite(n) \/ IsaSerialRead(n)
    \/ WriteAdds \/ WriteChecks \/ ReadChecks
    \/ IsaSerialGetControl \/ GetControlChecks
    \/ \E control \in SerControls : IsaSerialSetControl(control)
    \/ \E rate \in SerRates : IsaSerialSetAttributes(rate)
    \/ IsaSerialReset

SerSpec == SerInit /\ [][SerNext]_serVars

----------------------------------------------------------------------------
SerTypeOK ==
    /\ Len(serIn) <= SerUartMax /\ Len(serRx) <= SerFifoMax /\ Len(serTx) <= SerFifoMax
    /\ serThre \in BOOLEAN /\ serReady \in BOOLEAN /\ serRts \in BOOLEAN
    /\ serFlow \in BOOLEAN /\ serLoop \in BOOLEAN
    /\ serLine.divisor \in 1..65535 /\ serLine.baud = Clock \div serLine.divisor
    /\ serPc.call \in {"none", "Write", "Read", "GetControl"}
    /\ serPc.phase \in {"", "add", "poll", "done"}
    /\ serPc.left \in 0..2 /\ serPc.waited \in 0..SerTimeout
    /\ serNew \in Nat /\ serCame \in Nat /\ serLossy \in BOOLEAN

(* The bytes of the callers, and those of the remote end, in their order   *)
(* and none twice.                                                         *)
OldestFirst(s) ==
    \A i, j \in DOMAIN s : i < j =>
        /\ s[i] > 0 /\ s[j] > 0 => s[i] < s[j]
        /\ s[i] < 0 /\ s[j] < 0 => s[j] < s[i]
Pending == [i \in DOMAIN serIn |-> serIn[i].byte]
Inbound == serRead \o serRx \o Pending
Outbound == serWire \o serTx

(* A remote end that stops while RTS is off never overruns Receive: RTS is *)
(* off whenever Receive is full, unless a caller of SetControl raised it.  *)
NoRtsWhenFull == serFlow /\ ~serLoop /\ Len(serRx) = SerFifoMax => ~serRts

(* Whatever calls time out, and however flow control and loopback are      *)
(* switched between them, Read returns the bytes of the remote end, and    *)
(* those that were looped back, in their order and none twice, and the     *)
(* wire carries the bytes of Write in their order and none twice; and as   *)
(* long as no byte was damaged, found a FIFO full or was reset, every byte *)
(* is in exactly one place: the UART, a FIFO, the wire or a reader.        *)
BytesKept ==
    /\ OldestFirst(Inbound) /\ OldestFirst(Outbound)
    /\ ToSet(Inbound) \cap ToSet(Outbound) = {}
    /\ ~serLossy => ToSet(Inbound) \cup ToSet(Outbound) = (- serCame .. -1) \cup (1 .. serNew)

(* And the remote end is not asked for bytes there is no room for.         *)
BytesInOrder == BytesKept /\ NoRtsWhenFull
=============================================================================
