----------------------------- MODULE Ps2_proofs -----------------------------
(***************************************************************************)
(* Proofs about Ps2, for queues of every length, everything that is typed  *)
(* and every movement of the mouse.                                        *)
(*                                                                         *)
(* InputAsMade speaks of what the callers get; it is inductive with what   *)
(* lies before it.  KeysOK: the modifiers and locks of the driver are      *)
(* those that the codes mean which it took, and while the lights are set   *)
(* one key is still to be made.  StreamOK: the bytes of the mouse on their *)
(* way are numbered without a gap, up to the bytes that a packet under way *)
(* has; nothing else reads them while the packet is read.  AlignOK: as     *)
(* long as none is lost, the driver looks for a packet where one begins.   *)
(***************************************************************************)
EXTENDS Ps2, SequenceTheorems, TLAPS

-----------------------------------------------------------------------------
(* The invariant. *)

Chars == {"Pause", "/", "null", "*", "7", "Home", ".", "Delete", "A", "a", "?"}
KeyDatas == [char : Chars, locks : SUBSET Locks, mods : SUBSET ModKeys]
Meanings == [seen : Seq(Codes), mods : SUBSET ModKeys, locks : SUBSET Locks, partial : BOOLEAN,
             keys : Seq(KeyDatas)]
Bytes == [sync : BOOLEAN, dx : Int, packet : Nat, byte : 1 .. 3]
OutBytes == {Nothing} \cup [of : {"kbd"}, byte : Codes] \cup [of : {"aux"}, byte : Bytes]
            \cup [of : {"kbc"}, byte : Codes, on : SUBSET {"kbd", "aux"}]
KbdPcs == {"poll", "getchar", "led", "lights", "made", "pop", "drop", "byte", "restart"}
AuxPcs == {"first", "status", "data", "reset"}
Ps2Pcs == [pc : {"idle"} \cup KbdPcs \cup AuxPcs, ret : {"idle", "pop", "drop"},
           led : {"idle", "made"}, code : Seq(Codes)]

HwTypes ==
    /\ ps2Out \in OutBytes /\ ps2On \subseteq {"kbd", "aux"} /\ ps2Asked \in BOOLEAN
    /\ ps2Left \in [codes : Nat, packets : Nat, resets : Nat, faults : Nat]
    /\ ps2Pc \in Ps2Pcs
    /\ kbdLine \in Seq(Codes) /\ auxLine \in Seq(Bytes)

KbdTypes ==
    /\ kbdScan \in Seq(Codes) /\ Len(kbdScan) < KbdScanMax
    /\ kbdKeys \in Seq(KeyDatas) /\ Len(kbdKeys) < KbdKeyMax
    /\ kbdMods \subseteq ModKeys /\ kbdLocks \subseteq Locks /\ kbdLeds \subseteq Locks
    /\ kbdPartial \in BOOLEAN /\ kbdErr \in BOOLEAN
    /\ kbdMade \in Seq(KeyDatas) /\ kbdMeant \in Meanings

(* A key is still to be made of ps2Pc.code, when the lights are set.       *)
Pending == ps2Pc.pc = "made" \/ (ps2Pc.pc \in {"led", "lights"} /\ ps2Pc.led = "made")
(* A key whose codes are q ends the loop and counts.                       *)
Counts(q, key, partial) == EndsLoop(q) /\ (key.char # "null" \/ partial)
PendingKey == KeyData(ps2Pc.code, kbdMods, kbdLocks)
KeysMeant == IF Pending /\ (PendingKey.char # "null" \/ kbdPartial)
             THEN Append(kbdMade, PendingKey) ELSE kbdMade
KeysOK ==
    /\ kbdMeant.seen = <<>> /\ kbdMeant.mods = kbdMods /\ kbdMeant.locks = kbdLocks
    /\ kbdMeant.partial = kbdPartial
    /\ ps2Pc.pc # "restart" => kbdMeant.keys = KeysMeant
(* What waits in the queue are the last keys made.                         *)
QueueOK ==
    /\ Len(kbdKeys) <= Len(kbdMade)
    /\ \A i \in 1 .. Len(kbdKeys) : kbdKeys[i] = kbdMade[Len(kbdMade) - Len(kbdKeys) + i]

AuxTypes ==
    /\ auxX \in Int /\ auxMoved \in Int /\ auxGiven \in Int
    /\ auxChanged \in BOOLEAN /\ auxKbdWas \in BOOLEAN /\ auxLost \in BOOLEAN
    /\ auxPacket \in Seq(Bytes) /\ Len(auxPacket) <= 3
    /\ auxCaller \in {"idle", "changed", "enable"}

(* The bytes on their way are numbered down to those of the next packet.   *)
StreamOK ==
    /\ \A i \in 1 .. Len(auxLine) : NumberOf(auxLine[i]) = 3 * ps2Left.packets + Len(auxLine) - i
    /\ ps2Out.of = "aux" => NumberOf(ps2Out.byte) = 3 * ps2Left.packets + Len(auxLine)
(* The packet that is read goes on with the next byte that comes.          *)
Coming == 3 * ps2Left.packets + Len(auxLine) + (IF ps2Out.of = "aux" THEN 1 ELSE 0)
PacketOK ==
    /\ \A i \in 1 .. Len(auxPacket) - 1 : NumberOf(auxPacket[i + 1]) = NumberOf(auxPacket[i]) - 1
    /\ ps2Pc.pc \in {"status", "data"} =>
          Len(auxPacket) > 0 /\ NumberOf(auxPacket[Len(auxPacket)]) = Coming
    /\ ps2Pc.pc = "status" => "aux" \notin ps2On /\ ps2Out.of # "aux" /\ Len(auxPacket) = 1
(* Unless bytes were lost: the bytes of one packet, in their places, and    *)
(* what comes is the rest of it, or begins with a first byte.              *)
Reading == ps2Pc.pc \in {"status", "data"}
AlignOK ==
    ~auxLost =>
        /\ \A i \in 1 .. Len(auxPacket) :
              auxPacket[i].packet = auxPacket[1].packet /\ auxPacket[i].byte = i
        /\ ~Reading => \E k \in Nat : Coming = 3 * k
MotionOK == auxMoved = auxGiven + auxX /\ (auxX # 0 => auxChanged)

KbdInv == KbdTypes /\ KeysOK /\ QueueOK
AuxInv == AuxTypes /\ StreamOK /\ PacketOK /\ AlignOK /\ MotionOK
Ps2Inv == HwTypes /\ KbdInv /\ AuxInv

-----------------------------------------------------------------------------
(* Sequences. *)

LEMMA SeqOfLength ==
    ASSUME NEW S, NEW q \in Seq(S)
    PROVE  /\ Len(q) = 1 => q = <<q[1]>> /\ q[1] \in S
           /\ Len(q) = 2 => q = <<q[1], q[2]>> /\ q[1] \in S /\ q[2] \in S
           /\ Len(q) = 3 => q = <<q[1], q[2], q[3]>> /\ q[1] \in S /\ q[2] \in S /\ q[3] \in S
  OBVIOUS

LEMMA AppendedCodes ==
    ASSUME NEW a \in Codes, NEW b \in Codes, NEW c \in Codes
    PROVE  /\ Append(<<>>, a) = <<a>> /\ Append(<<a>>, b) = <<a, b>>
           /\ Append(<<a, b>>, c) = <<a, b, c>>
<1>1. Append(<<>>, a) = <<a>>
<2>1. <<>> \in Seq(Codes)
  OBVIOUS
<2>2. PICK t \in Seq(Codes) : t = Append(<<>>, a)
  BY <2>1, AppendProperties
<2>3. Len(t) = 1 /\ t[1] = a
  BY <2>2
<2> QED BY <2>2, <2>3, SeqOfLength
<1>2. Append(<<a>>, b) = <<a, b>>
<2>1. <<a>> \in Seq(Codes) /\ Len(<<a>>) = 1 /\ <<a>>[1] = a
  OBVIOUS
<2>2. PICK u \in Seq(Codes) : u = <<a>>
  BY <2>1
<2>3. PICK t \in Seq(Codes) : t = Append(u, b)
  BY AppendProperties
<2>4. Len(t) = 2 /\ t[1] = a /\ t[2] = b
  BY <2>1, <2>2, <2>3
<2>5. t = <<t[1], t[2]>>
  BY <2>4, SeqOfLength
<2> QED BY <2>2, <2>3, <2>4, <2>5, Zenon
<1>3. Append(<<a, b>>, c) = <<a, b, c>>
<2>1. <<a, b>> \in Seq(Codes) /\ Len(<<a, b>>) = 2 /\ <<a, b>>[1] = a /\ <<a, b>>[2] = b
  OBVIOUS
<2>2. PICK u \in Seq(Codes) : u = <<a, b>>
  BY <2>1
<2>3. PICK t \in Seq(Codes) : t = Append(u, c)
  BY AppendProperties
<2>4. Len(t) = 3 /\ t[1] = a /\ t[2] = b /\ t[3] = c
  BY <2>1, <2>2, <2>3
<2>5. t = <<t[1], t[2], t[3]>>
  BY <2>4, SeqOfLength
<2> QED BY <2>2, <2>3, <2>4, <2>5, Zenon
<1> QED BY <1>1, <1>2, <1>3

(* A queue that is full drops its oldest element. *)
LEMMA PushOK ==
    ASSUME NEW S, NEW q \in Seq(S), NEW e \in S, NEW max \in Nat \ {0, 1}, Len(q) < max
    PROVE  /\ Push(q, e, max) \in Seq(S) /\ Len(Push(q, e, max)) < max
           /\ \/ /\ Len(Push(q, e, max)) = Len(q) + 1
                 /\ \A i \in 1 .. Len(q) : Push(q, e, max)[i] = q[i]
              \/ /\ Len(Push(q, e, max)) = Len(q) /\ Len(q) > 0
                 /\ \A i \in 1 .. Len(q) - 1 : Push(q, e, max)[i] = q[i + 1]
           /\ Push(q, e, max)[Len(Push(q, e, max))] = e
<1>1. CASE Len(q) = max - 1
<2>1. q # <<>> /\ Len(q) \in Nat /\ Len(q) > 0
  BY <1>1
<2>2. Tail(q) \in Seq(S) /\ Len(Tail(q)) = Len(q) - 1
      /\ \A i \in 1 .. Len(q) - 1 : Tail(q)[i] = q[i + 1]
  BY <2>1
<2>3. Push(q, e, max) = Append(Tail(q), e)
  BY <1>1 DEF Push
<2>4. PICK t \in Seq(S) : t = Tail(q)
  BY <2>2
<2>5. /\ Append(t, e) \in Seq(S) /\ Len(Append(t, e)) = Len(t) + 1
      /\ \A i \in 1 .. Len(t) : Append(t, e)[i] = t[i]
      /\ Append(t, e)[Len(t) + 1] = e
  OBVIOUS
<2>6. Len(t) = Len(q) - 1 /\ Push(q, e, max) = Append(t, e)
  BY <2>2, <2>3, <2>4
<2> QED BY <1>1, <2>1, <2>2, <2>4, <2>5, <2>6
<1>2. CASE Len(q) # max - 1
<2>1. Push(q, e, max) = Append(q, e)
  BY <1>2 DEF Push
<2>2. /\ Append(q, e) \in Seq(S) /\ Len(Append(q, e)) = Len(q) + 1
      /\ \A i \in 1 .. Len(q) : Append(q, e)[i] = q[i]
      /\ Append(q, e)[Len(q) + 1] = e
  OBVIOUS
<2> QED BY <1>2, <2>1, <2>2
<1> QED BY <1>1, <1>2

-----------------------------------------------------------------------------
(* What codes mean. *)

LEMMA CodesTyped ==
    /\ Extended \in Codes /\ Pausing \in Codes /\ Answer \in Codes
    /\ Extended # Pausing
<1>1. \A k \in KeyNames : Down(k) \in Codes /\ Up(k) \in Codes /\ Down(k).key = k
  BY DEF Down, Up, Codes
<1>2. "E0" \in KeyNames /\ "E1" \in KeyNames /\ "none" \in KeyNames
  BY DEF KeyNames
<1>3. "E0" # "E1"
  OBVIOUS
<1> QED BY <1>1, <1>2, <1>3 DEF Extended, Pausing, Answer

LEMMA ModOfTyped == \A k, e0 : ModOf(k, e0) \in ModKeys \cup {"none"}
  BY DEF ModOf, ModKeys, CtrlKeys, ShiftKeys, AltKeys

LEMMA LockOfTyped == \A k, e0 : LockOf(k, e0) \in Locks \cup {"none"}
  BY DEF LockOf, Locks

LEMMA CharsTyped == \A q, mods, locks : CharOf(q, mods, locks) \in Chars
  BY DEF CharOf, Chars

LEMMA CodeTyped ==
    ASSUME NEW q, NEW mods \in SUBSET ModKeys, NEW locks \in SUBSET Locks
    PROVE  /\ Modified(mods, q) \in SUBSET ModKeys /\ Toggled(locks, q) \in SUBSET Locks
           /\ KeyData(q, mods, locks) \in KeyDatas
<1>1. Modified(mods, q) \in SUBSET ModKeys
<2> DEFINE m == ModOf(q[CodeLen(q)].key, CodeLen(q) = 2)
<2>1. m \in ModKeys \cup {"none"}
  BY ModOfTyped
<2>2. \/ Modified(mods, q) = mods
      \/ Modified(mods, q) = mods \cup ({m} \ {"none"})
      \/ Modified(mods, q) = mods \ {m}
  BY DEF Modified
<2> HIDE DEF m
<2> QED BY <2>1, <2>2
<1>2. Toggled(locks, q) \in SUBSET Locks
<2>1. Lock(q) \in Locks \cup {"none"}
  BY LockOfTyped DEF Lock
<2> QED BY <2>1 DEF Toggled
<1>3. KeyData(q, mods, locks) \in KeyDatas
<2>1. CharOf(q, mods, locks) \in Chars
  BY CharsTyped
<2>2. (IF Shifts(q) THEN mods \ ShiftKeys ELSE mods) \in SUBSET ModKeys
  OBVIOUS
<2> QED BY <2>1, <2>2 DEF KeyData, KeyDatas
<1> QED BY <1>1, <1>2, <1>3

(* What the reference makes of the codes of one key, read one by one, is   *)
(* what the driver does with them at once.                                 *)
LEMMA MeansOK ==
    ASSUME NEW r \in Meanings, r.seen = <<>>, NEW q \in Seq(Codes), q # <<>>, Len(q) = CodeLen(q)
    PROVE  Means(r, q) =
             [seen |-> <<>>, mods |-> Modified(r.mods, q), locks |-> Toggled(r.locks, q),
              partial |-> r.partial,
              keys |-> IF Counts(q, KeyData(q, Modified(r.mods, q), Toggled(r.locks, q)), r.partial)
                       THEN Append(r.keys, KeyData(q, Modified(r.mods, q), Toggled(r.locks, q)))
                       ELSE r.keys]
<1> DEFINE read(m) == [seen |-> <<>>, mods |-> Modified(m.mods, q), locks |-> Toggled(m.locks, q),
              partial |-> m.partial,
              keys |-> IF Counts(q, KeyData(q, Modified(m.mods, q), Toggled(m.locks, q)), m.partial)
                       THEN Append(m.keys, KeyData(q, Modified(m.mods, q), Toggled(m.locks, q)))
                       ELSE m.keys]
<1>1. CASE CodeLen(q) = 1
<2>1. q[1] # Extended /\ q[1] # Pausing
  BY <1>1 DEF CodeLen
<2>2. q = <<q[1]>>
  BY <1>1, SeqOfLength
<2>3. Append(r.seen, q[1]) = q /\ r.seen # <<Pausing>>
<3>1. Append(<<>>, q[1]) = <<q[1]>>
  BY <1>1, AppendedCodes, SeqOfLength
<3>2. <<>> # <<Pausing>>
  OBVIOUS
<3> QED BY <2>2, <3>1, <3>2, Zenon
<2>4. Meaning(r, q[1]) = read(r)
  BY <2>1, <2>3, Zenon DEF Meaning, Counts
<2>5. Means(r, q) = Meaning(r, q[1])
  BY <1>1 DEF Means
<2> QED BY <2>4, <2>5, Zenon
<1>2. CASE CodeLen(q) = 2
<2> DEFINE one == [r EXCEPT !.seen = <<Extended>>]
<2>1. q[1] = Extended
  BY <1>2 DEF CodeLen
<2>2. q = <<Extended, q[2]>>
  BY <1>2, <2>1, SeqOfLength
<2>3. Meaning(r, q[1]) = one
  BY <2>1 DEF Meaning
<2>4. /\ one.seen = <<Extended>> /\ one.mods = r.mods /\ one.locks = r.locks
      /\ one.partial = r.partial /\ one.keys = r.keys
  BY DEF Meanings
<2> HIDE DEF one
<2>5. Append(one.seen, q[2]) = q /\ one.seen # <<Pausing>> /\ one.seen # <<>>
<3>1. <<Extended>> # <<Pausing>> /\ <<Extended>> # <<>>
<4>1. <<Extended>>[1] = Extended /\ <<Pausing>>[1] = Pausing
  OBVIOUS
<4> QED BY <4>1, CodesTyped
<3>2. Append(<<Extended>>, q[2]) = <<Extended, q[2]>>
  BY <1>2, CodesTyped, AppendedCodes, SeqOfLength
<3> QED BY <2>2, <2>4, <3>1, <3>2, Zenon
<2>6. Meaning(one, q[2]) = read(one)
  BY <2>5, Zenon DEF Meaning, Counts
<2>7. Means(r, q) = Meaning(one, q[2])
  BY <1>2, <2>3 DEF Means
<2> QED BY <2>4, <2>6, <2>7, Zenon
<1>3. CASE CodeLen(q) = 3
<2> DEFINE one == [r EXCEPT !.seen = <<Pausing>>]
           two == [r EXCEPT !.seen = <<Pausing, q[2]>>]
<2>1. q[1] = Pausing
  BY <1>3 DEF CodeLen
<2>2. q = <<Pausing, q[2], q[3]>>
  BY <1>3, <2>1, SeqOfLength
<2>3. Meaning(r, q[1]) = one
  BY <2>1 DEF Meaning
<2>4. /\ one.seen = <<Pausing>> /\ one.seen # <<>>
      /\ two.seen = <<Pausing, q[2]>> /\ two.mods = r.mods /\ two.locks = r.locks
      /\ two.partial = r.partial /\ two.keys = r.keys
  BY DEF Meanings
<2>5. Meaning(one, q[2]) = two
<3>1. [one EXCEPT !.seen = <<Pausing, q[2]>>] = two
  BY DEF Meanings
<3> HIDE DEF one, two
<3> QED BY <2>4, <3>1, Zenon DEF Meaning
<2> HIDE DEF one, two
<2>6. Append(two.seen, q[3]) = q /\ two.seen # <<Pausing>> /\ two.seen # <<>>
<3>1. <<Pausing, q[2]>> # <<Pausing>> /\ <<Pausing, q[2]>> # <<>>
<4>1. Len(<<Pausing, q[2]>>) = 2 /\ Len(<<Pausing>>) = 1
  OBVIOUS
<4> QED BY <4>1
<3>2. Append(<<Pausing, q[2]>>, q[3]) = <<Pausing, q[2], q[3]>>
<4>1. q[2] \in Codes /\ q[3] \in Codes /\ Pausing \in Codes
  BY <1>3, CodesTyped, SeqOfLength
<4> QED BY <4>1, AppendedCodes, Zenon
<3> QED BY <2>2, <2>4, <3>1, <3>2, Zenon
<2>7. Meaning(two, q[3]) = read(two)
  BY <2>6, Zenon DEF Meaning, Counts
<2>8. Means(r, q) = Meaning(two, q[3])
  BY <1>3, <2>3, <2>5 DEF Means
<2> QED BY <2>4, <2>7, <2>8, Zenon
<1> QED BY <1>1, <1>2, <1>3 DEF CodeLen

-----------------------------------------------------------------------------
(* The initial states, and what a step leaves alone. *)

LEMMA Ps2InitOK == Ps2Init => Ps2Inv
<1> SUFFICES ASSUME Ps2Init PROVE Ps2Inv
  OBVIOUS
<1>1. ps2Left \in [codes : Nat, packets : Nat, resets : Nat, faults : Nat]
  BY Ps2Assumption DEF Ps2Init
<1>2. Ps2Idle \in Ps2Pcs /\ Ps2Idle.pc = "idle" /\ <<>> \in Seq(Codes)
<2>1. <<>> \in Seq(Codes)
  OBVIOUS
<2> QED BY <2>1 DEF Ps2Idle, Ps2Pcs
<1>3. HwTypes
<2>1. kbdLine \in Seq(Codes) /\ auxLine \in Seq(Bytes)
  BY DEF Ps2Init
<2>2. ps2Out \in OutBytes
  BY DEF Ps2Init, OutBytes
<2> QED BY <1>1, <1>2, <2>1, <2>2 DEF Ps2Init, HwTypes
<1>4. /\ kbdScan = <<>> /\ kbdKeys = <<>> /\ kbdMade = <<>> /\ kbdMods = {} /\ kbdLocks = {}
      /\ kbdPartial = FALSE /\ kbdErr = FALSE /\ kbdLeds = {} /\ kbdMeant = NoMeaning
      /\ ps2Pc.pc = "idle"
  BY <1>2 DEF Ps2Init
<1>5. KbdTypes
<2>1. <<>> \in Seq(Codes) /\ <<>> \in Seq(KeyDatas) /\ Len(<<>>) = 0
  OBVIOUS
<2>2. NoMeaning \in Meanings
  BY <2>1 DEF NoMeaning, Meanings
<2>3. KbdScanMax > 0 /\ KbdKeyMax > 0
  BY Ps2Assumption
<2> QED BY <1>4, <2>1, <2>2, <2>3 DEF KbdTypes
<1>6. KeysOK
  BY <1>4 DEF KeysOK, KeysMeant, Pending, NoMeaning
<1>7. QueueOK
  BY <1>4 DEF QueueOK
<1>8. /\ auxLine = <<>> /\ auxPacket = <<>> /\ ps2Out = Nothing /\ auxX = 0 /\ auxChanged = FALSE
      /\ auxKbdWas = FALSE /\ auxMoved = 0 /\ auxGiven = 0 /\ auxCaller = "idle"
      /\ auxLost = FALSE
  BY DEF Ps2Init
<1>9. AuxInv
<2>1. <<>> \in Seq(Bytes) /\ Len(<<>>) = 0 /\ Nothing.of = "nobody"
  BY DEF Nothing
<2>2. AuxTypes
<3>1. auxX \in Int /\ auxMoved \in Int /\ auxGiven \in Int
  BY <1>8
<3>2. auxChanged \in BOOLEAN /\ auxKbdWas \in BOOLEAN /\ auxLost \in BOOLEAN
  BY <1>8, Zenon
<3>3. auxPacket \in Seq(Bytes) /\ Len(auxPacket) <= 3
  BY <1>8, <2>1
<3>4. auxCaller \in {"idle", "changed", "enable"}
  BY <1>8
<3> QED BY <3>1, <3>2, <3>3, <3>4, Zenon DEF AuxTypes
<2>3. StreamOK
  BY <1>8, <2>1 DEF StreamOK
<2>4. PacketOK
  BY <1>4, <1>8, <2>1 DEF PacketOK
<2>5. AlignOK
<3>1. Coming = 3 * ps2Left.packets
  BY <1>1, <1>8, <2>1 DEF Coming
<3> QED BY <1>1, <1>8, <3>1 DEF AlignOK
<2>6. MotionOK
  BY <1>8 DEF MotionOK
<2> QED BY <2>2, <2>3, <2>4, <2>5, <2>6 DEF AuxInv
<1> QED BY <1>3, <1>5, <1>6, <1>7, <1>9 DEF Ps2Inv, KbdInv

KbdSame == UNCHANGED kbdState
(* A step of something else than the keyboard driver. *)
LEMMA KbdElsewhere ==
    ASSUME KbdInv, KbdSame,
           ps2Pc' = ps2Pc \/ (~Pending /\ ~Pending' /\ ps2Pc.pc # "restart")
    PROVE  KbdInv'
<1>1. UNCHANGED <<kbdScan, kbdKeys, kbdMods, kbdLocks, kbdPartial, kbdErr, kbdLeds, kbdMeant,
                  kbdMade>>
  BY DEF KbdSame, kbdState
<1>2. KbdTypes' /\ QueueOK'
  BY <1>1 DEF KbdInv, KbdTypes, QueueOK
<1>3. KeysOK'
<2>1. CASE ps2Pc' = ps2Pc
<3>1. KeysMeant' = KeysMeant
  BY <1>1, <2>1 DEF KeysMeant, Pending, PendingKey
<3> QED BY <1>1, <2>1, <3>1 DEF KbdInv, KeysOK
<2>2. CASE ~Pending /\ ~Pending' /\ ps2Pc.pc # "restart"
<3>1. KeysMeant = kbdMade /\ KeysMeant' = kbdMade
  BY <1>1, <2>2 DEF KeysMeant
<3> QED BY <1>1, <2>2, <3>1 DEF KbdInv, KeysOK
<2> QED BY <2>1, <2>2
<1> QED BY <1>2, <1>3 DEF KbdInv

AuxSame == /\ UNCHANGED auxMouse /\ auxLost' \in BOOLEAN
           /\ auxCaller' \in {"idle", "changed", "enable"}
           /\ auxLine' = auxLine /\ ps2Left'.packets = ps2Left.packets
(* No byte of the mouse was lost, or it is noted.                          *)
Noted == \/ auxLost'
         \/ auxLost' = auxLost /\ Coming' = Coming /\ (Reading => Reading')
(* A step that takes no byte of the mouse that a packet waits for.         *)
LEMMA AuxElsewhere ==
    ASSUME AuxInv, AuxSame, Noted,
           ps2Out' = ps2Out \/ ps2Out'.of # "aux",
           Reading' => ps2Pc'.pc = ps2Pc.pc /\ ps2On' \subseteq ps2On /\ Coming' = Coming
    PROVE  AuxInv'
<1>1. UNCHANGED <<auxX, auxChanged, auxPacket, auxKbdWas, auxMoved, auxGiven, auxLine,
                  ps2Left.packets>>
  BY DEF AuxSame, auxMouse
<1>2. AuxTypes'
<2>1. /\ auxCaller' \in {"idle", "changed", "enable"} /\ auxLost' \in BOOLEAN
  BY DEF AuxSame
<2> QED BY <1>1, <2>1 DEF AuxInv, AuxTypes
<1>3. MotionOK'
  BY <1>1 DEF AuxInv, MotionOK
<1>4. StreamOK'
  BY <1>1 DEF AuxInv, StreamOK
<1>5. PacketOK'
<2>1. \A i \in 1 .. Len(auxPacket') - 1 :
         NumberOf(auxPacket'[i + 1]) = NumberOf(auxPacket'[i]) - 1
  BY <1>1 DEF AuxInv, PacketOK
<2>2. ps2Pc'.pc \in {"status", "data"} =>
         Len(auxPacket') > 0 /\ NumberOf(auxPacket'[Len(auxPacket')]) = Coming'
  BY <1>1 DEF AuxInv, PacketOK, Reading
<2>3. ps2Pc'.pc = "status" => "aux" \notin ps2On' /\ ps2Out'.of # "aux" /\ Len(auxPacket') = 1
  BY <1>1 DEF AuxInv, PacketOK, Reading
<2> QED BY <2>1, <2>2, <2>3 DEF PacketOK
<1>6. AlignOK'
  BY <1>1 DEF AuxInv, AlignOK, Noted
<1> QED BY <1>2, <1>3, <1>4, <1>5, <1>6 DEF AuxInv

(* A step that leaves the bytes on their way alone; one that reads one.    *)
LEMMA NotedSame ==
    ASSUME AuxSame, auxLost' = auxLost, ps2Out' = ps2Out \/ (ps2Out.of # "aux" /\ ps2Out'.of # "aux"),
           Reading => Reading'
    PROVE  Noted /\ Coming' = Coming
  BY DEF AuxSame, Noted, Coming
LEMMA NotedLost ==
    ASSUME AuxInv, AuxSame, AuxLoses, ps2Out'.of # "aux", ~Reading
    PROVE  Noted
<1>1. CASE ps2Out.of = "aux"
  BY <1>1 DEF AuxLoses, Noted
<1>2. CASE ps2Out.of # "aux"
<2>1. auxLost' <=> auxLost
  BY <1>2 DEF AuxLoses
<2>2. Coming' = Coming
  BY <1>2 DEF AuxSame, Coming
<2>3. CASE auxLost'
  BY <2>3 DEF Noted
<2>4. CASE ~auxLost'
<3>1. auxLost = FALSE /\ auxLost' = FALSE
  BY <2>1, <2>4 DEF AuxInv, AuxTypes, AuxSame
<3> QED BY <2>2, <3>1 DEF Noted
<2> QED BY <2>3, <2>4
<1> QED BY <1>1, <1>2

(* The driver still looks for a packet where one begins. *)
LEMMA AlignKept ==
    ASSUME AlignOK, auxPacket' = auxPacket,
           auxLost' \/ (~auxLost /\ (Reading => Reading')),
           auxLost' \/ Coming' = Coming \/ \E k \in Nat : Coming' = 3 * k
    PROVE  AlignOK'
  BY DEF AlignOK

(* The place of what runs. *)
LEMMA PcTyped ==
    ASSUME ps2Pc \in Ps2Pcs
    PROVE  /\ ps2Pc.pc \in {"idle"} \cup KbdPcs \cup AuxPcs /\ ps2Pc.ret \in {"idle", "pop", "drop"}
           /\ ps2Pc.led \in {"idle", "made"} /\ ps2Pc.code \in Seq(Codes)
           /\ Ps2Idle \in Ps2Pcs /\ Ps2Idle.pc = "idle"
           /\ \A pc \in {"idle"} \cup KbdPcs \cup AuxPcs :
                 /\ [ps2Pc EXCEPT !.pc = pc] \in Ps2Pcs /\ [ps2Pc EXCEPT !.pc = pc].pc = pc
                 /\ [ps2Pc EXCEPT !.pc = pc].led = ps2Pc.led
                 /\ [ps2Pc EXCEPT !.pc = pc].code = ps2Pc.code
                 /\ [Ps2Idle EXCEPT !.pc = pc] \in Ps2Pcs /\ [Ps2Idle EXCEPT !.pc = pc].pc = pc
                 /\ [Ps2Idle EXCEPT !.pc = pc].led = "idle"
<1>1. <<>> \in Seq(Codes)
  OBVIOUS
<1>2. Ps2Idle \in Ps2Pcs /\ Ps2Idle.pc = "idle"
  BY <1>1 DEF Ps2Idle, Ps2Pcs
<1>3. Ps2Idle.led = "idle"
  BY DEF Ps2Idle
<1> QED BY <1>2, <1>3 DEF Ps2Pcs

LEMMA Returned ==
    ASSUME ps2Pc \in Ps2Pcs, Ps2Return
    PROVE  ps2Pc' \in Ps2Pcs /\ ps2Pc'.pc \in {"idle", "pop", "drop"}
<1>1. CASE ps2Pc.ret = "idle"
  BY <1>1, PcTyped DEF Ps2Return
<1>2. CASE ps2Pc.ret # "idle"
<2>1. ps2Pc' = [ps2Pc EXCEPT !.pc = ps2Pc.ret]
  BY <1>2 DEF Ps2Return, Ps2Goto
<2>2. ps2Pc.ret \in {"idle", "pop", "drop"}
  BY PcTyped
<2>3. ps2Pc.ret \in {"idle"} \cup KbdPcs \cup AuxPcs
  BY <2>2 DEF KbdPcs
<2> QED BY <2>1, <2>2, <2>3, PcTyped
<1> QED BY <1>1, <1>2

(* What is in the output buffer. *)
LEMMA OutTyped ==
    /\ Nothing \in OutBytes /\ Nothing.of = "nobody"
    /\ \A c \in Codes : [of |-> "kbd", byte |-> c] \in OutBytes
    /\ \A b \in Bytes : [of |-> "aux", byte |-> b] \in OutBytes
    /\ \A c \in Codes, on \in SUBSET {"kbd", "aux"} : [of |-> "kbc", byte |-> c, on |-> on] \in OutBytes
    /\ \A o \in OutBytes : /\ o.of \in {"nobody", "kbd", "aux", "kbc"}
                           /\ o.of = "aux" => o.byte \in Bytes
                           /\ o.of \in {"kbd", "kbc"} => o.byte \in Codes
                           /\ o.of = "nobody" <=> o = Nothing
  BY DEF Nothing, OutBytes

-----------------------------------------------------------------------------
(* The controller and the devices. *)

LEMMA KbdSendsOK == ASSUME Ps2Inv, KbdSends PROVE Ps2Inv'
<1>1. HwTypes'
<2>1. kbdLine \in Seq(Codes) /\ kbdLine # <<>>
  BY DEF Ps2Inv, HwTypes, KbdSends, Latch
<2>2. kbdLine[1] \in Codes /\ Tail(kbdLine) \in Seq(Codes)
  BY <2>1
<2>3. ps2Out' \in OutBytes
  BY <2>2, OutTyped DEF KbdSends, Latch
<2> QED BY <2>2, <2>3 DEF Ps2Inv, HwTypes, KbdSends
<1>2. KbdInv'
  BY KbdElsewhere DEF Ps2Inv, KbdSends, KbdSame
<1>3. AuxInv'
<2>1. AuxSame /\ ps2Pc' = ps2Pc /\ ps2On' = ps2On /\ auxLost' = auxLost
  BY DEF Ps2Inv, AuxInv, AuxTypes, KbdSends, AuxSame, auxState
<2>2. ps2Out.of # "aux" /\ ps2Out'.of # "aux"
  BY OutTyped DEF KbdSends, Latch
<2> QED BY <2>1, <2>2, NotedSame, AuxElsewhere DEF Ps2Inv, Reading
<1> QED BY <1>1, <1>2, <1>3 DEF Ps2Inv

LEMMA AnswersOK == ASSUME Ps2Inv, Answers PROVE Ps2Inv'
<1>1. HwTypes'
<2>1. ps2Out' \in OutBytes
  BY OutTyped, CodesTyped DEF Ps2Inv, HwTypes, Answers
<2> QED BY <2>1 DEF Ps2Inv, HwTypes, Answers
<1>2. KbdInv'
  BY KbdElsewhere DEF Ps2Inv, Answers, KbdSame
<1>3. AuxInv'
<2>1. AuxSame /\ ps2Pc' = ps2Pc /\ ps2On' = ps2On /\ auxLost' = auxLost
  BY DEF Ps2Inv, AuxInv, AuxTypes, Answers, AuxSame, auxState
<2>2. ps2Out.of # "aux" /\ ps2Out'.of # "aux"
  BY OutTyped DEF Answers
<2> QED BY <2>1, <2>2, NotedSame, AuxElsewhere DEF Ps2Inv, Reading
<1> QED BY <1>1, <1>2, <1>3 DEF Ps2Inv

LEMMA TypesOK == ASSUME Ps2Inv, Types PROVE Ps2Inv'
<1>1. HwTypes' /\ ps2Left'.packets = ps2Left.packets
<2>1. PICK s \in KbdStrokes : /\ Len(s) <= ps2Left.codes /\ kbdLine' = kbdLine \o s
                              /\ ps2Left' = [ps2Left EXCEPT !.codes = @ - Len(s)]
  BY DEF Types
<2>2. s \in Seq(Codes) /\ kbdLine \in Seq(Codes)
  BY Ps2Assumption DEF Ps2Inv, HwTypes
<2>3. kbdLine' \in Seq(Codes)
  BY <2>1, <2>2
<2>4. ps2Left.codes \in Nat /\ Len(s) \in Nat
  BY <2>2 DEF Ps2Inv, HwTypes
<2>5. ps2Left.codes - Len(s) \in Nat
  BY <2>1, <2>4
<2>6. ps2Left' \in [codes : Nat, packets : Nat, resets : Nat, faults : Nat]
      /\ ps2Left'.packets = ps2Left.packets
  BY <2>1, <2>5 DEF Ps2Inv, HwTypes
<2> QED BY <2>3, <2>6 DEF Ps2Inv, HwTypes, Types
<1>2. KbdInv'
  BY KbdElsewhere DEF Ps2Inv, Types, KbdSame
<1>3. AuxInv'
<2>1. AuxSame /\ ps2Pc' = ps2Pc /\ ps2On' = ps2On /\ auxLost' = auxLost /\ ps2Out' = ps2Out
  BY <1>1 DEF Ps2Inv, AuxInv, AuxTypes, Types, AuxSame, auxState
<2> QED BY <2>1, NotedSame, AuxElsewhere DEF Ps2Inv, Reading
<1> QED BY <1>1, <1>2, <1>3 DEF Ps2Inv

LEMMA AuxSendsOK == ASSUME Ps2Inv, AuxSends PROVE Ps2Inv'
<1>1. auxLine \in Seq(Bytes) /\ auxLine # <<>>
  BY DEF Ps2Inv, HwTypes, AuxSends, Latch
<1>2. /\ auxLine[1] \in Bytes /\ Tail(auxLine) \in Seq(Bytes) /\ Len(Tail(auxLine)) = Len(auxLine) - 1
      /\ Len(auxLine) \in Nat \ {0}
      /\ \A i \in 1 .. Len(auxLine) - 1 : Tail(auxLine)[i] = auxLine[i + 1]
  BY <1>1
<1>3. ps2Out' \in OutBytes /\ ps2Out'.of = "aux" /\ ps2Out'.byte = auxLine[1]
  BY <1>2, OutTyped DEF AuxSends, Latch
<1>4. auxLine' = Tail(auxLine) /\ ps2Left' = ps2Left /\ ps2Pc' = ps2Pc /\ ps2On' = ps2On
      /\ "aux" \in ps2On /\ ps2Out.of # "aux"
  BY OutTyped DEF AuxSends, Latch
<1>5. ps2Left.packets \in Nat
  BY DEF Ps2Inv, HwTypes
<1>6. HwTypes'
  BY <1>2, <1>3, <1>4 DEF Ps2Inv, HwTypes, AuxSends
<1>7. KbdInv'
  BY KbdElsewhere DEF Ps2Inv, AuxSends, KbdSame
<1>8. AuxTypes' /\ MotionOK' /\ auxPacket' = auxPacket /\ auxLost' = auxLost
  BY DEF Ps2Inv, AuxInv, AuxTypes, MotionOK, AuxSends, auxState, auxMouse
<1>9. StreamOK'
<2>1. \A i \in 1 .. Len(auxLine) : NumberOf(auxLine[i]) = 3 * ps2Left.packets + Len(auxLine) - i
  BY DEF Ps2Inv, AuxInv, StreamOK
<2>2. \A i \in 1 .. Len(auxLine) - 1 : NumberOf(Tail(auxLine)[i]) = 3 * ps2Left.packets + Len(auxLine) - (i + 1)
  BY <1>2, <2>1
<2>3. \A i \in 1 .. Len(auxLine') : NumberOf(auxLine'[i]) = 3 * ps2Left'.packets + Len(auxLine') - i
  BY <1>2, <1>4, <1>5, <2>2
<2>4. NumberOf(ps2Out'.byte) = 3 * ps2Left'.packets + Len(auxLine')
  BY <1>2, <1>3, <1>4, <1>5, <2>1
<2> QED BY <2>3, <2>4 DEF StreamOK
<1>10. PacketOK'
<2>1. Coming' = Coming
  BY <1>2, <1>3, <1>4, <1>5 DEF Coming
<2>2. ps2Pc.pc # "status"
  BY <1>4 DEF Ps2Inv, AuxInv, PacketOK
<2> QED BY <1>4, <1>8, <2>1, <2>2 DEF Ps2Inv, AuxInv, PacketOK
<1>11. AlignOK'
<2>1. Coming' = Coming
  BY <1>2, <1>3, <1>4, <1>5 DEF Coming
<2> QED BY <1>4, <1>8, <2>1 DEF Ps2Inv, AuxInv, AlignOK, Reading
<1> QED BY <1>6, <1>7, <1>8, <1>9, <1>10, <1>11 DEF Ps2Inv, AuxInv

LEMMA MovesOK == ASSUME Ps2Inv, Moves PROVE Ps2Inv'
<1>1. PICK p \in AuxPackets :
         auxLine' = auxLine \o [i \in 1 .. 3 |-> [sync |-> i \in p.sync, dx |-> p.dx,
                                                  packet |-> ps2Left.packets, byte |-> i]]
  BY DEF Moves
<1> DEFINE new == [i \in 1 .. 3 |-> [sync |-> i \in p.sync, dx |-> p.dx, packet |-> ps2Left.packets, byte |-> i]]
<1>2. /\ ps2Left \in [codes : Nat, packets : Nat, resets : Nat, faults : Nat]
      /\ ps2Left.packets \in Nat \ {0} /\ ps2Left' = [ps2Left EXCEPT !.packets = @ - 1]
      /\ auxLine \in Seq(Bytes) /\ Len(auxLine) \in Nat
  BY DEF Ps2Inv, HwTypes, Moves
<1>3. ps2Left'.packets = ps2Left.packets - 1 /\ ps2Left.packets - 1 \in Nat
      /\ ps2Left' \in [codes : Nat, packets : Nat, resets : Nat, faults : Nat]
  BY <1>2
<1>4. new \in Seq(Bytes) /\ Len(new) = 3 /\ \A i \in 1 .. 3 : NumberOf(new[i]) = 3 * ps2Left.packets - i
<2>1. p.dx \in Int
  BY Ps2Assumption
<2>2. \A i \in 1 .. 3 : [sync |-> i \in p.sync, dx |-> p.dx, packet |-> ps2Left.packets, byte |-> i] \in Bytes
<3>1. \A i \in 1 .. 3 : (i \in p.sync) \in BOOLEAN
  OBVIOUS
<3> QED BY <1>2, <2>1, <3>1 DEF Bytes
<2>3. new \in Seq(Bytes) /\ Len(new) = 3
  BY <2>2
<2>4. \A i \in 1 .. 3 : new[i].packet = ps2Left.packets /\ new[i].byte = i
  OBVIOUS
<2> QED BY <2>3, <2>4 DEF NumberOf
<1> HIDE DEF new
<1>5. /\ auxLine' \in Seq(Bytes) /\ Len(auxLine') = Len(auxLine) + 3
      /\ \A i \in 1 .. Len(auxLine) : auxLine'[i] = auxLine[i]
      /\ \A i \in 1 .. 3 : auxLine'[Len(auxLine) + i] = new[i]
<2>1. PICK t \in Seq(Bytes) : t = new
  BY <1>4
<2>2. auxLine' = auxLine \o t
  BY <1>1, <2>1 DEF new
<2>3. /\ auxLine \o t \in Seq(Bytes) /\ Len(auxLine \o t) = Len(auxLine) + Len(t)
      /\ \A i \in 1 .. Len(auxLine) : (auxLine \o t)[i] = auxLine[i]
      /\ \A i \in 1 .. Len(t) : (auxLine \o t)[Len(auxLine) + i] = t[i]
  BY <1>2
<2>4. Len(t) = 3
  BY <1>4, <2>1
<2> QED BY <2>1, <2>2, <2>3, <2>4
<1>6. HwTypes'
  BY <1>3, <1>5 DEF Ps2Inv, HwTypes, Moves
<1>7. KbdInv'
  BY KbdElsewhere DEF Ps2Inv, Moves, KbdSame
<1>8. AuxTypes' /\ MotionOK' /\ auxPacket' = auxPacket /\ auxLost' = auxLost
      /\ ps2Pc' = ps2Pc /\ ps2On' = ps2On /\ ps2Out' = ps2Out
  BY DEF Ps2Inv, AuxInv, AuxTypes, MotionOK, Moves, auxState, auxMouse
<1>9. PICK m \in Nat, l \in Nat : ps2Left'.packets = m /\ ps2Left.packets = m + 1
                                     /\ Len(auxLine) = l /\ Len(auxLine') = l + 3
<2>1. ps2Left.packets = (ps2Left.packets - 1) + 1
  BY <1>2
<2> QED BY <1>2, <1>3, <1>5, <2>1
<1>10. 3 * ps2Left'.packets + Len(auxLine') = 3 * ps2Left.packets + Len(auxLine)
  BY <1>9
<1>11. StreamOK'
<2>1. \A i \in 1 .. Len(auxLine) : NumberOf(auxLine'[i]) = 3 * ps2Left'.packets + Len(auxLine') - i
<3>1. \A i \in 1 .. Len(auxLine) : NumberOf(auxLine[i]) = 3 * ps2Left.packets + Len(auxLine) - i
  BY DEF Ps2Inv, AuxInv, StreamOK
<3>2. \A i \in 1 .. Len(auxLine) : 3 * ps2Left'.packets + Len(auxLine') - i
                                    = 3 * ps2Left.packets + Len(auxLine) - i
  BY <1>9
<3> QED BY <1>5, <3>1, <3>2
<2>2. \A i \in 1 .. 3 : NumberOf(auxLine'[Len(auxLine) + i])
                         = 3 * ps2Left'.packets + Len(auxLine') - (Len(auxLine) + i)
<3>1. \A i \in 1 .. 3 : 3 * ps2Left'.packets + Len(auxLine') - (Len(auxLine) + i)
                         = 3 * ps2Left.packets - i
  BY <1>9
<3> QED BY <1>4, <1>5, <3>1
<2>3. \A i \in 1 .. Len(auxLine') : i \in 1 .. Len(auxLine) \/ \E j \in 1 .. 3 : i = Len(auxLine) + j
<3> SUFFICES ASSUME NEW i \in 1 .. Len(auxLine'), i \notin 1 .. Len(auxLine)
             PROVE  \E j \in 1 .. 3 : i = Len(auxLine) + j
  OBVIOUS
<3>1. i - Len(auxLine) \in 1 .. 3 /\ i = Len(auxLine) + (i - Len(auxLine))
  BY <1>2, <1>5
<3> QED BY <3>1
<2>4. ps2Out'.of = "aux" => NumberOf(ps2Out'.byte) = 3 * ps2Left'.packets + Len(auxLine')
  BY <1>8, <1>10 DEF Ps2Inv, AuxInv, StreamOK
<2> QED BY <2>1, <2>2, <2>3, <2>4 DEF StreamOK
<1>12. PacketOK'
<2>1. Coming' = Coming
  BY <1>8, <1>10 DEF Coming
<2> QED BY <1>8, <2>1 DEF Ps2Inv, AuxInv, PacketOK
<1>13. AlignOK'
<2>1. Coming' = Coming
  BY <1>8, <1>10 DEF Coming
<2> QED BY <1>8, <2>1 DEF Ps2Inv, AuxInv, AlignOK, Reading
<1> QED BY <1>6, <1>7, <1>8, <1>11, <1>12, <1>13 DEF Ps2Inv, AuxInv

-----------------------------------------------------------------------------
(* The keyboard driver: the codes it polls. *)

(* What runs goes on somewhere else, and leaves the controller alone.      *)
LEMMA HwElsewhere ==
    ASSUME HwTypes, UNCHANGED <<ps2Hw, ps2Left>>, ps2Pc' \in Ps2Pcs
    PROVE  HwTypes'
  BY DEF HwTypes, ps2Hw

LEMMA AuxByKeyboard ==
    ASSUME AuxInv, UNCHANGED <<auxState, auxCaller, auxLine>>, ps2Left'.packets = ps2Left.packets,
           ps2Out' = ps2Out \/ (ps2Out.of # "aux" /\ ps2Out'.of # "aux"),
           ~Reading, ~Reading'
    PROVE  AuxInv'
<1>1. AuxSame /\ auxLost' = auxLost
  BY DEF AuxInv, AuxTypes, AuxSame, auxState
<1> QED BY <1>1, NotedSame, AuxElsewhere

(* A byte that may be one of the mouse is read and dropped.                *)
LEMMA AuxDropped ==
    ASSUME AuxInv, UNCHANGED <<auxMouse, auxCaller, auxLine>>, AuxLoses,
           ps2Left'.packets = ps2Left.packets, ps2Out'.of # "aux", ~Reading, ~Reading'
    PROVE  AuxInv'
<1>1. auxLost' \in BOOLEAN
  BY Zenon DEF AuxLoses
<1>2. AuxSame
  BY <1>1 DEF AuxInv, AuxTypes, AuxSame
<1> QED BY <1>2, NotedLost, AuxElsewhere

LEMMA KeyboardTimerHandlerOK ==
    ASSUME Ps2Inv, KbdTick \/ ReadKeyStroke \/ WaitForKey
    PROVE  Ps2Inv'
<1>1. PICK ret \in {"idle", "pop", "drop"} : KeyboardTimerHandler(ret)
  BY DEF KbdTick, ReadKeyStroke, WaitForKey
<1>2. ps2Pc.pc = "idle" /\ ps2Pc' = [Ps2Idle EXCEPT !.pc = "poll", !.ret = ret]
      /\ UNCHANGED <<ps2Hw, ps2Left, kbdState, auxState, auxCaller>>
  BY <1>1 DEF KeyboardTimerHandler, Ps2At
<1>3. ps2Pc' = [pc |-> "poll", ret |-> ret, led |-> "idle", code |-> <<>>]
  BY <1>2 DEF Ps2Idle
<1>4. ps2Pc' \in Ps2Pcs /\ ps2Pc'.pc = "poll" /\ ~Pending /\ ~Pending'
<2>1. <<>> \in Seq(Codes)
  OBVIOUS
<2>2. "poll" \in {"idle"} \cup KbdPcs \cup AuxPcs
  BY DEF KbdPcs
<2>3. ps2Pc' \in Ps2Pcs
  BY <1>3, <2>1, <2>2 DEF Ps2Pcs
<2>4. ps2Pc'.pc = "poll"
  BY <1>3
<2> QED BY <1>2, <2>3, <2>4 DEF Pending
<1>5. HwTypes'
  BY <1>2, <1>4, HwElsewhere DEF Ps2Inv
<1>6. KbdInv'
  BY <1>2, <1>4, KbdElsewhere DEF Ps2Inv, KbdSame
<1>7. AuxInv'
  BY <1>2, <1>4, AuxByKeyboard DEF Ps2Inv, ps2Hw, Reading
<1> QED BY <1>5, <1>6, <1>7 DEF Ps2Inv

LEMMA PollScanOK == ASSUME Ps2Inv, PollScan PROVE Ps2Inv'
<1>1. ps2Pc.pc = "poll" /\ ps2Pc' = ps2Pc /\ ps2Out'.of # "aux" /\ ps2Out' \in OutBytes
      /\ UNCHANGED <<kbdKeys, kbdMods, kbdLocks, kbdPartial, kbdErr, kbdLeds, kbdMeant, kbdMade>>
  BY OutTyped DEF PollScan, Ps2At
<1>2. HwTypes'
  BY <1>1 DEF Ps2Inv, HwTypes, PollScan
<1>3. kbdScan' \in Seq(Codes) /\ Len(kbdScan') < KbdScanMax
<2>1. PICK c \in Codes : c = ps2Out.byte
  BY OutTyped DEF Ps2Inv, HwTypes, PollScan
<2>2. kbdScan' = Push(kbdScan, c, KbdScanMax)
  BY <2>1 DEF PollScan
<2>3. kbdScan \in Seq(Codes) /\ Len(kbdScan) < KbdScanMax
  BY DEF Ps2Inv, KbdInv, KbdTypes
<2> QED BY <2>2, <2>3, PushOK, Ps2Assumption
<1>4. KbdInv'
<2>1. KbdTypes' /\ QueueOK'
  BY <1>1, <1>3 DEF Ps2Inv, KbdInv, KbdTypes, QueueOK
<2>2. KeysMeant = kbdMade /\ KeysMeant' = kbdMade'
  BY <1>1 DEF KeysMeant, Pending
<2> QED BY <1>1, <2>1, <2>2 DEF Ps2Inv, KbdInv, KeysOK
<1>5. AuxInv'
  BY <1>1, AuxByKeyboard DEF Ps2Inv, PollScan, Reading
<1> QED BY <1>2, <1>4, <1>5 DEF Ps2Inv

LEMMA PollEndsOK == ASSUME Ps2Inv, PollEnds PROVE Ps2Inv'
<1>1. ps2Pc.pc = "poll" /\ ps2Pc' = [ps2Pc EXCEPT !.pc = "getchar"]
      /\ UNCHANGED <<ps2Hw, ps2Left, kbdState, auxState, auxCaller>>
  BY DEF PollEnds, Ps2At, Ps2Goto
<1>2. ps2Pc' \in Ps2Pcs /\ ps2Pc'.pc = "getchar"
  BY <1>1, PcTyped DEF Ps2Inv, HwTypes, KbdPcs
<1>3. HwTypes'
  BY <1>1, <1>2, HwElsewhere DEF Ps2Inv
<1>4. KbdInv'
  BY <1>1, <1>2, KbdElsewhere DEF Ps2Inv, KbdSame, Pending
<1>5. AuxInv'
  BY <1>1, <1>2, AuxByKeyboard DEF Ps2Inv, ps2Hw, Reading
<1> QED BY <1>3, <1>4, <1>5 DEF Ps2Inv

LEMMA GetcharReturnsOK == ASSUME Ps2Inv, GetcharReturns PROVE Ps2Inv'
<1>1. ps2Pc.pc = "getchar" /\ UNCHANGED <<ps2Hw, ps2Left, kbdState, auxState, auxCaller>>
  BY DEF GetcharReturns, Ps2At
<1>2. ps2Pc' \in Ps2Pcs /\ ps2Pc'.pc \in {"idle", "pop", "drop"}
  BY Returned DEF GetcharReturns, Ps2Inv, HwTypes
<1>3. HwTypes'
  BY <1>1, <1>2, HwElsewhere DEF Ps2Inv
<1>4. KbdInv'
  BY <1>1, <1>2, KbdElsewhere DEF Ps2Inv, KbdSame, Pending
<1>5. AuxInv'
  BY <1>1, <1>2, AuxByKeyboard DEF Ps2Inv, ps2Hw, Reading
<1> QED BY <1>3, <1>4, <1>5 DEF Ps2Inv

-----------------------------------------------------------------------------
(* KeyGetchar makes a key. *)

LEMMA KeyPushed ==
    ASSUME KbdTypes, QueueOK, NEW k \in KeyDatas,
           kbdKeys' = Push(kbdKeys, k, KbdKeyMax), kbdMade' = Append(kbdMade, k)
    PROVE  /\ kbdKeys' \in Seq(KeyDatas) /\ Len(kbdKeys') < KbdKeyMax
           /\ kbdMade' \in Seq(KeyDatas) /\ QueueOK'
<1>1. kbdKeys \in Seq(KeyDatas) /\ Len(kbdKeys) < KbdKeyMax /\ kbdMade \in Seq(KeyDatas)
      /\ KbdKeyMax \in Nat \ {0, 1}
  BY Ps2Assumption DEF KbdTypes
<1>2. PICK p : p = Push(kbdKeys, k, KbdKeyMax)
  OBVIOUS
<1>3. /\ p \in Seq(KeyDatas) /\ Len(p) < KbdKeyMax /\ p[Len(p)] = k
      /\ \/ Len(p) = Len(kbdKeys) + 1 /\ \A i \in 1 .. Len(kbdKeys) : p[i] = kbdKeys[i]
         \/ /\ Len(p) = Len(kbdKeys) /\ Len(kbdKeys) > 0
            /\ \A i \in 1 .. Len(kbdKeys) - 1 : p[i] = kbdKeys[i + 1]
  BY <1>1, <1>2, PushOK
<1>4. PICK m : m = Append(kbdMade, k)
  OBVIOUS
<1>5. /\ m \in Seq(KeyDatas) /\ Len(m) = Len(kbdMade) + 1 /\ m[Len(kbdMade) + 1] = k
      /\ \A i \in 1 .. Len(kbdMade) : m[i] = kbdMade[i]
  BY <1>1, <1>4, AppendProperties
<1>6. /\ Len(kbdKeys) <= Len(kbdMade)
      /\ \A i \in 1 .. Len(kbdKeys) : kbdKeys[i] = kbdMade[Len(kbdMade) - Len(kbdKeys) + i]
  BY DEF QueueOK
<1>7. PICK a \in Nat, b \in Nat : a = Len(kbdMade) /\ b = Len(kbdKeys)
  BY <1>1
<1>8. Len(p) <= Len(m) /\ \A i \in 1 .. Len(p) : p[i] = m[Len(m) - Len(p) + i]
<2>1. CASE Len(p) = b + 1 /\ \A i \in 1 .. b : p[i] = kbdKeys[i]
<3>1. PICK d \in Int : d = a - b /\ d = Len(m) - Len(p)
<4>1. Len(m) = a + 1 /\ Len(p) = b + 1
  BY <1>5, <1>7, <2>1, Zenon
<4>2. a - b \in Int /\ a - b = Len(m) - Len(p)
  BY <4>1
<4> QED BY <4>2, Zenon
<3>2. ASSUME NEW i \in 1 .. b PROVE p[i] = m[d + i]
<4>1. d + i \in 1 .. a
  BY <1>6, <1>7, <3>1
<4>2. m[d + i] = kbdMade[d + i]
  BY <1>5, <1>7, <4>1, Zenon
<4>3. kbdKeys[i] = kbdMade[d + i]
  BY <1>6, <1>7, <3>1, Zenon
<4> QED BY <2>1, <4>2, <4>3, Zenon
<3>3. p[b + 1] = m[d + (b + 1)]
<4>1. d + (b + 1) = a + 1
  BY <3>1
<4> QED BY <1>3, <1>5, <1>7, <2>1, <4>1, Zenon
<3>4. \A i \in 1 .. b + 1 : i \in 1 .. b \/ i = b + 1
  OBVIOUS
<3>5. \A i \in 1 .. Len(p) : p[i] = m[d + i]
  BY <2>1, <3>2, <3>3, <3>4, Zenon
<3>6. Len(p) <= Len(m)
  BY <1>5, <1>6, <1>7, <2>1
<3> QED BY <3>1, <3>5, <3>6, Zenon
<2>2. CASE Len(p) = b /\ b > 0 /\ \A i \in 1 .. b - 1 : p[i] = kbdKeys[i + 1]
<3>1. PICK d \in Int : d = (a - b) + 1 /\ d = Len(m) - Len(p)
<4>1. Len(m) = a + 1 /\ Len(p) = b
  BY <1>5, <1>7, <2>2, Zenon
<4>2. (a - b) + 1 \in Int /\ (a - b) + 1 = Len(m) - Len(p)
  BY <4>1
<4> QED BY <4>2, Zenon
<3>2. ASSUME NEW i \in 1 .. b - 1 PROVE p[i] = m[d + i]
<4>1. d + i \in 1 .. a /\ i + 1 \in 1 .. b /\ d + i = (a - b) + (i + 1)
  BY <1>6, <1>7, <3>1
<4>2. m[d + i] = kbdMade[d + i]
  BY <1>5, <1>7, <4>1, Zenon
<4>3. kbdKeys[i + 1] = kbdMade[(a - b) + (i + 1)]
  BY <1>6, <1>7, <4>1, Zenon
<4> QED BY <2>2, <4>1, <4>2, <4>3, Zenon
<3>3. p[b] = m[d + b]
<4>1. d + b = a + 1
  BY <3>1
<4> QED BY <1>3, <1>5, <1>7, <2>2, <4>1, Zenon
<3>4. \A i \in 1 .. b : i \in 1 .. b - 1 \/ i = b
  OBVIOUS
<3>5. \A i \in 1 .. Len(p) : p[i] = m[d + i]
  BY <2>2, <3>2, <3>3, <3>4, Zenon
<3>6. Len(p) <= Len(m)
  BY <1>5, <1>6, <1>7, <2>2
<3> QED BY <3>1, <3>5, <3>6, Zenon
<2> QED BY <1>3, <1>7, <2>1, <2>2
<1> QED BY <1>2, <1>3, <1>4, <1>5, <1>8 DEF QueueOK

(* The outcomes of a key that ends the loop of KeyGetchar.                 *)
KeyStep(k) ==
    \/ ps2Pc' = [Ps2Idle EXCEPT !.pc = "restart"] /\ UNCHANGED <<kbdKeys, kbdMade>>
    \/ k.char = "null" /\ ~kbdPartial /\ Ps2Return /\ UNCHANGED <<kbdKeys, kbdMade>>
    \/ /\ k.char # "null" \/ kbdPartial
       /\ kbdKeys' = Push(kbdKeys, k, KbdKeyMax) /\ kbdMade' = Append(kbdMade, k)
       /\ Ps2Return

LEMMA KeyStepOK ==
    ASSUME HwTypes, KbdTypes, QueueOK, NEW k \in KeyDatas, KeyStep(k)
    PROVE  /\ ps2Pc' \in Ps2Pcs /\ ps2Pc'.pc \in {"idle", "pop", "drop", "restart"}
           /\ kbdKeys' \in Seq(KeyDatas) /\ Len(kbdKeys') < KbdKeyMax
           /\ kbdMade' \in Seq(KeyDatas) /\ QueueOK'
           /\ ps2Pc'.pc # "restart" =>
                 kbdMade' = IF k.char # "null" \/ kbdPartial THEN Append(kbdMade, k) ELSE kbdMade
<1>1. ps2Pc \in Ps2Pcs
  BY DEF HwTypes
<1>2. CASE UNCHANGED <<kbdKeys, kbdMade>>
<2>1. /\ kbdKeys' \in Seq(KeyDatas) /\ Len(kbdKeys') < KbdKeyMax
      /\ kbdMade' \in Seq(KeyDatas) /\ QueueOK'
  BY <1>2 DEF KbdTypes, QueueOK
<2>2. CASE ps2Pc' = [Ps2Idle EXCEPT !.pc = "restart"]
<3>1. "restart" \in {"idle"} \cup KbdPcs \cup AuxPcs
  BY DEF KbdPcs
<3>2. ps2Pc' \in Ps2Pcs /\ ps2Pc'.pc = "restart"
  BY <1>1, <2>2, <3>1, PcTyped
<3> QED BY <2>1, <3>2
<2>3. CASE k.char = "null" /\ ~kbdPartial /\ Ps2Return
<3>1. ps2Pc' \in Ps2Pcs /\ ps2Pc'.pc \in {"idle", "pop", "drop"}
  BY <1>1, <2>3, Returned
<3> QED BY <1>2, <2>1, <2>3, <3>1
<2>4. CASE kbdMade' = Append(kbdMade, k)
<3>1. kbdMade' = kbdMade /\ kbdMade \in Seq(KeyDatas) /\ Len(kbdMade) \in Nat
  BY <1>2 DEF KbdTypes
<3>2. Len(Append(kbdMade, k)) = Len(kbdMade) + 1
  BY <3>1, AppendProperties
<3>3. Len(kbdMade) # Len(kbdMade) + 1
  BY <3>1
<3> QED BY <2>4, <3>1, <3>2, <3>3, Zenon
<2> QED BY <2>2, <2>3, <2>4 DEF KeyStep
<1>3. CASE /\ k.char # "null" \/ kbdPartial
           /\ kbdKeys' = Push(kbdKeys, k, KbdKeyMax) /\ kbdMade' = Append(kbdMade, k)
           /\ Ps2Return
<2>1. ps2Pc' \in Ps2Pcs /\ ps2Pc'.pc \in {"idle", "pop", "drop"}
  BY <1>1, <1>3, Returned
<2>2. /\ kbdKeys' \in Seq(KeyDatas) /\ Len(kbdKeys') < KbdKeyMax
      /\ kbdMade' \in Seq(KeyDatas) /\ QueueOK'
  BY <1>3, KeyPushed
<2> QED BY <1>3, <2>1, <2>2, Zenon
<1> QED BY <1>2, <1>3 DEF KeyStep

LEMMA MakeKeySteps == \A q, mods, locks : MakeKey(q, mods, locks) => KeyStep(KeyData(q, mods, locks))
<1> SUFFICES ASSUME NEW q, NEW mods, NEW locks, MakeKey(q, mods, locks)
             PROVE  KeyStep(KeyData(q, mods, locks))
  OBVIOUS
<1> DEFINE restarts == /\ mods \cap CtrlKeys # {} /\ mods \cap AltKeys # {}
                       /\ q[CodeLen(q)].key = "Delete"
<1>1. CASE restarts
  BY <1>1, Zenon DEF MakeKey, KeyStep
<1>2. CASE ~restarts
<2>1. CASE KeyData(q, mods, locks).char = "null" /\ ~kbdPartial
  BY <1>2, <2>1, Zenon DEF MakeKey, KeyStep
<2>2. CASE ~(KeyData(q, mods, locks).char = "null" /\ ~kbdPartial)
  BY <1>2, <2>2, Zenon DEF MakeKey, KeyStep
<2> QED BY <2>1, <2>2
<1> QED BY <1>1, <1>2

LEMMA GetcharMakesOK == ASSUME Ps2Inv, GetcharMakes PROVE Ps2Inv'
<1>1. /\ ps2Pc.pc = "made" /\ MakeKey(ps2Pc.code, kbdMods, kbdLocks)
      /\ UNCHANGED <<ps2Hw, ps2Left, kbdScan, kbdMods, kbdLocks, kbdPartial, kbdErr, kbdLeds,
                     kbdMeant, auxState, auxCaller>>
  BY DEF GetcharMakes, Ps2At
<1>2. PICK k \in KeyDatas : k = PendingKey
  BY CodeTyped DEF PendingKey, Ps2Inv, KbdInv, KbdTypes
<1>3. KeyStep(k)
  BY <1>1, <1>2, MakeKeySteps DEF PendingKey
<1>4. /\ ps2Pc' \in Ps2Pcs /\ ps2Pc'.pc \in {"idle", "pop", "drop", "restart"}
      /\ kbdKeys' \in Seq(KeyDatas) /\ Len(kbdKeys') < KbdKeyMax
      /\ kbdMade' \in Seq(KeyDatas) /\ QueueOK'
      /\ ps2Pc'.pc # "restart" =>
            kbdMade' = IF k.char # "null" \/ kbdPartial THEN Append(kbdMade, k) ELSE kbdMade
  BY <1>3, KeyStepOK DEF Ps2Inv, KbdInv
<1>5. HwTypes'
  BY <1>1, <1>4, HwElsewhere DEF Ps2Inv
<1>6. KbdTypes'
  BY <1>1, <1>4 DEF Ps2Inv, KbdInv, KbdTypes
<1>7. KeysOK'
<2>1. Pending /\ ~Pending'
  BY <1>1, <1>4 DEF Pending
<2>2. KeysMeant = (IF k.char # "null" \/ kbdPartial THEN Append(kbdMade, k) ELSE kbdMade)
      /\ KeysMeant' = kbdMade'
  BY <1>2, <2>1, Zenon DEF KeysMeant
<2>3. kbdMeant.keys = KeysMeant
  BY <1>1 DEF Ps2Inv, KbdInv, KeysOK
<2>4. ps2Pc'.pc # "restart" => kbdMeant'.keys = KeysMeant'
  BY <1>1, <1>4, <2>2, <2>3, Zenon
<2> QED BY <1>1, <2>4 DEF Ps2Inv, KbdInv, KeysOK
<1>8. AuxInv'
  BY <1>1, <1>4, AuxByKeyboard DEF Ps2Inv, ps2Hw, Reading
<1> QED BY <1>4, <1>5, <1>6, <1>7, <1>8 DEF Ps2Inv, KbdInv

LEMMA GetcharTakesOK == ASSUME Ps2Inv, GetcharTakes PROVE Ps2Inv'
<1>1. PICK q : /\ q = SubSeq(kbdScan, 1, CodeLen(kbdScan))
               /\ kbdScan' = SubSeq(kbdScan, Len(q) + 1, Len(kbdScan))
               /\ kbdMeant' = Means(kbdMeant, q)
               /\ kbdMods' = Modified(kbdMods, q)
               /\ kbdLocks' = Toggled(kbdLocks, q)
               /\ IF Lock(q) # "none"
                  THEN /\ ps2Pc' = [ps2Pc EXCEPT !.pc = "led", !.led = "made", !.code = q]
                       /\ UNCHANGED <<kbdKeys, kbdMade>>
                  ELSE IF EndsLoop(q) THEN MakeKey(q, kbdMods', kbdLocks')
                  ELSE UNCHANGED <<ps2Pc, kbdKeys, kbdMade>>
  BY Zenon DEF GetcharTakes
<1>2. /\ ps2Pc.pc = "getchar" /\ Complete(kbdScan)
      /\ UNCHANGED <<ps2Hw, ps2Left, kbdPartial, kbdErr, kbdLeds, auxState, auxCaller>>
  BY DEF GetcharTakes, Ps2At
<1>3. /\ kbdScan \in Seq(Codes) /\ Len(kbdScan) < KbdScanMax /\ KbdScanMax \in Nat
      /\ kbdScan # <<>> /\ Len(kbdScan) >= CodeLen(kbdScan) /\ CodeLen(kbdScan) \in 1 .. 3
  BY <1>2, Ps2Assumption DEF Ps2Inv, KbdInv, KbdTypes, Complete, CodeLen
<1>4. /\ q \in Seq(Codes) /\ q # <<>> /\ Len(q) = CodeLen(q) /\ Len(q) \in 1 .. 3
      /\ kbdScan' \in Seq(Codes) /\ Len(kbdScan') < KbdScanMax
<2>1. PICK n \in 1 .. 3 : n = CodeLen(kbdScan)
  BY <1>3
<2>2. PICK l \in Nat : l = Len(kbdScan)
  BY <1>3
<2>3. n <= l /\ l < KbdScanMax
  BY <1>3, <2>1, <2>2
<2>4. /\ SubSeq(kbdScan, 1, n) \in Seq(Codes) /\ Len(SubSeq(kbdScan, 1, n)) = n
      /\ SubSeq(kbdScan, 1, n)[1] = kbdScan[1]
  BY <1>3, <2>1, <2>2, <2>3, SubSeqProperties
<2>5. q \in Seq(Codes) /\ Len(q) = n /\ q[1] = kbdScan[1]
  BY <1>1, <2>1, <2>4
<2>6. CodeLen(q) = CodeLen(kbdScan)
  BY <2>5, Zenon DEF CodeLen
<2>7. SubSeq(kbdScan, n + 1, l) \in Seq(Codes) /\ Len(SubSeq(kbdScan, n + 1, l)) = l - n
  BY <1>3, <2>1, <2>2, <2>3, SubSeqProperties
<2>8. kbdScan' = SubSeq(kbdScan, n + 1, l)
  BY <1>1, <2>2, <2>5
<2>9. l - n < KbdScanMax
  BY <1>3, <2>3
<2> QED BY <2>1, <2>5, <2>6, <2>7, <2>8, <2>9
<1>5. PICK mods \in SUBSET ModKeys, locks \in SUBSET Locks, key \in KeyDatas :
         /\ mods = Modified(kbdMods, q) /\ locks = Toggled(kbdLocks, q)
         /\ key = KeyData(q, mods, locks)
  BY CodeTyped DEF Ps2Inv, KbdInv, KbdTypes
<1>6. kbdMods' = mods /\ kbdLocks' = locks
  BY <1>1, <1>5
<1>7. /\ kbdMeant \in Meanings /\ kbdMeant.seen = <<>> /\ kbdMeant.mods = kbdMods
      /\ kbdMeant.locks = kbdLocks /\ kbdMeant.partial = kbdPartial /\ kbdMeant.keys = kbdMade
      /\ kbdPartial \in BOOLEAN /\ kbdMade \in Seq(KeyDatas)
<2>1. KeysMeant = kbdMade
  BY <1>2 DEF KeysMeant, Pending
<2> QED BY <1>2, <2>1 DEF Ps2Inv, KbdInv, KbdTypes, KeysOK
<1>8. PICK keys \in Seq(KeyDatas) :
         keys = IF Counts(q, key, kbdPartial) THEN Append(kbdMade, key) ELSE kbdMade
<2>1. Append(kbdMade, key) \in Seq(KeyDatas)
  BY <1>7, AppendProperties
<2> QED BY <1>7, <2>1
<1>9. kbdMeant' = [seen |-> <<>>, mods |-> mods, locks |-> locks, partial |-> kbdPartial,
                   keys |-> keys]
<2>1. kbdMeant' = Means(kbdMeant, q)
  BY <1>1, Zenon
<2>2. Means(kbdMeant, q) =
             [seen |-> <<>>, mods |-> Modified(kbdMeant.mods, q),
              locks |-> Toggled(kbdMeant.locks, q), partial |-> kbdMeant.partial,
              keys |-> IF Counts(q, KeyData(q, Modified(kbdMeant.mods, q),
                                            Toggled(kbdMeant.locks, q)), kbdMeant.partial)
                       THEN Append(kbdMeant.keys, KeyData(q, Modified(kbdMeant.mods, q),
                                                          Toggled(kbdMeant.locks, q)))
                       ELSE kbdMeant.keys]
  BY <1>4, <1>7, MeansOK
<2> QED BY <1>5, <1>7, <1>8, <2>1, <2>2, Zenon
<1>10. kbdMeant' \in Meanings
<2>1. <<>> \in Seq(Codes)
  OBVIOUS
<2> QED BY <1>7, <1>9, <2>1 DEF Meanings
<1>11. /\ ps2Pc' \in Ps2Pcs /\ ps2Pc'.pc \notin {"status", "data"}
       /\ kbdKeys' \in Seq(KeyDatas) /\ Len(kbdKeys') < KbdKeyMax
       /\ kbdMade' \in Seq(KeyDatas) /\ QueueOK'
       /\ ps2Pc'.pc # "restart" => KeysMeant' = keys
<2>1. CASE Lock(q) # "none"
<3>1. ps2Pc' = [ps2Pc EXCEPT !.pc = "led", !.led = "made", !.code = q]
      /\ UNCHANGED <<kbdKeys, kbdMade>>
  BY <1>1, <2>1
<3>2. ps2Pc' \in Ps2Pcs /\ ps2Pc'.pc = "led" /\ ps2Pc'.led = "made" /\ ps2Pc'.code = q
<4>1. "led" \in {"idle"} \cup KbdPcs \cup AuxPcs
  BY DEF KbdPcs
<4> QED BY <1>4, <3>1, <4>1 DEF Ps2Inv, HwTypes, Ps2Pcs
<3>3. EndsLoop(q)
<4>1. CodeLen(q) # 3 /\ q[CodeLen(q)].down /\ LockOf(q[CodeLen(q)].key, CodeLen(q) = 2) # "none"
  BY <2>1 DEF Lock
<4>2. q[CodeLen(q)].key \in {"CapsLock", "NumLock", "ScrollLock"}
  BY <4>1 DEF LockOf
<4> QED BY <4>1, <4>2 DEF EndsLoop
<3>4. Pending' /\ PendingKey' = key
  BY <1>1, <1>5, <3>2, Zenon DEF Pending, PendingKey
<3>5. KeysMeant' = keys
  BY <1>2, <1>8, <3>1, <3>3, <3>4, Zenon DEF KeysMeant, Counts
<3>6. /\ kbdKeys' \in Seq(KeyDatas) /\ Len(kbdKeys') < KbdKeyMax
      /\ kbdMade' \in Seq(KeyDatas) /\ QueueOK'
  BY <3>1 DEF Ps2Inv, KbdInv, KbdTypes, QueueOK
<3> QED BY <3>2, <3>5, <3>6
<2>2. CASE Lock(q) = "none" /\ EndsLoop(q)
<3>1. KeyStep(key)
  BY <1>1, <1>5, <1>6, <2>2, MakeKeySteps, Zenon
<3>2. /\ ps2Pc' \in Ps2Pcs /\ ps2Pc'.pc \in {"idle", "pop", "drop", "restart"}
      /\ kbdKeys' \in Seq(KeyDatas) /\ Len(kbdKeys') < KbdKeyMax
      /\ kbdMade' \in Seq(KeyDatas) /\ QueueOK'
      /\ ps2Pc'.pc # "restart" =>
            kbdMade' = IF key.char # "null" \/ kbdPartial THEN Append(kbdMade, key) ELSE kbdMade
  BY <3>1, KeyStepOK DEF Ps2Inv, KbdInv
<3>3. KeysMeant' = kbdMade'
  BY <3>2 DEF KeysMeant, Pending
<3>4. ps2Pc'.pc # "restart" => KeysMeant' = keys
  BY <1>8, <2>2, <3>2, <3>3, Zenon DEF Counts
<3> QED BY <3>2, <3>4
<2>3. CASE Lock(q) = "none" /\ ~EndsLoop(q)
<3>1. UNCHANGED <<ps2Pc, kbdKeys, kbdMade>>
  BY <1>1, <2>3
<3>2. KeysMeant' = kbdMade /\ keys = kbdMade
  BY <1>2, <1>8, <2>3, <3>1 DEF KeysMeant, Pending, Counts
<3>3. /\ kbdKeys' \in Seq(KeyDatas) /\ Len(kbdKeys') < KbdKeyMax
      /\ kbdMade' \in Seq(KeyDatas) /\ QueueOK'
  BY <3>1 DEF Ps2Inv, KbdInv, KbdTypes, QueueOK
<3>4. ps2Pc' \in Ps2Pcs /\ ps2Pc'.pc = "getchar"
  BY <1>2, <3>1 DEF Ps2Inv, HwTypes
<3> QED BY <3>2, <3>3, <3>4
<2> QED BY <2>1, <2>2, <2>3
<1>12. HwTypes'
  BY <1>2, <1>11, HwElsewhere DEF Ps2Inv
<1>13. KbdTypes'
<2>1. kbdMods' \subseteq ModKeys /\ kbdLocks' \subseteq Locks
  BY <1>6
<2> QED BY <1>2, <1>4, <1>10, <1>11, <2>1 DEF Ps2Inv, KbdInv, KbdTypes
<1>14. KeysOK'
  BY <1>2, <1>6, <1>9, <1>11 DEF KeysOK
<1>15. AuxInv'
  BY <1>2, <1>11, AuxByKeyboard DEF Ps2Inv, ps2Hw, Reading
<1> QED BY <1>11, <1>12, <1>13, <1>14, <1>15 DEF Ps2Inv, KbdInv

-----------------------------------------------------------------------------
(* The keyboard driver: the lights, and the callers. *)

LEMMA LedDiscardsOK == ASSUME Ps2Inv, LedDiscards PROVE Ps2Inv'
<1>1. /\ ps2Pc.pc \in {"led", "lights"} /\ ps2Out' = Nothing /\ AuxLoses /\ ps2Pc' = ps2Pc
      /\ UNCHANGED <<ps2On, ps2Asked, kbdLine, auxLine, ps2Left, kbdState, auxMouse, auxCaller>>
  BY DEF LedDiscards
<1>2. ps2Out' \in OutBytes /\ ps2Out'.of # "aux"
  BY <1>1, OutTyped
<1>3. HwTypes'
  BY <1>1, <1>2 DEF Ps2Inv, HwTypes
<1>4. KbdInv'
  BY <1>1, KbdElsewhere DEF Ps2Inv, KbdSame
<1>5. AuxInv'
  BY <1>1, <1>2, AuxDropped DEF Ps2Inv, Reading
<1> QED BY <1>3, <1>4, <1>5 DEF Ps2Inv

LEMMA LedGoesOnOK == ASSUME Ps2Inv, LedGoesOn PROVE Ps2Inv'
<1>1. /\ ps2Pc.pc \in {"led", "lights"} /\ ps2Out' = ps2Out
      /\ UNCHANGED <<ps2On, kbdLine, auxLine, kbdScan, kbdKeys, kbdMods, kbdLocks, kbdPartial,
                     kbdErr, kbdMeant, kbdMade, auxState, auxCaller>>
  BY DEF LedGoesOn
<1>2. ps2Asked' \in BOOLEAN /\ ps2Left'.packets = ps2Left.packets
      /\ ps2Left' \in [codes : Nat, packets : Nat, resets : Nat, faults : Nat]
<2>1. ps2Asked \in BOOLEAN /\ ps2Left \in [codes : Nat, packets : Nat, resets : Nat, faults : Nat]
  BY DEF Ps2Inv, HwTypes
<2>2. CASE UNCHANGED <<ps2Asked, ps2Left>>
  BY <2>1, <2>2
<2>3. CASE /\ ps2Left.faults > 0 /\ ps2Asked' = TRUE
           /\ ps2Left' = [ps2Left EXCEPT !.faults = @ - 1]
<3>1. ps2Left.faults - 1 \in Nat
  BY <2>1, <2>3
<3> QED BY <2>1, <2>3, <3>1
<2> QED BY <2>2, <2>3 DEF LedGoesOn
<1>3. /\ ps2Pc' \in Ps2Pcs /\ ps2Pc'.pc \in {"lights", "made", "idle"}
      /\ (Pending' <=> Pending) /\ (Pending => ps2Pc'.code = ps2Pc.code)
      /\ kbdLeds' \subseteq Locks
<2>1. ps2Pc \in Ps2Pcs /\ kbdLocks \subseteq Locks /\ kbdLeds \subseteq Locks
  BY DEF Ps2Inv, HwTypes, KbdInv, KbdTypes
<2>2. CASE ps2Pc.pc = "led"
<3>1. ps2Pc' = [ps2Pc EXCEPT !.pc = "lights"] /\ kbdLeds' = kbdLocks
  BY <2>2 DEF LedGoesOn, Ps2Goto
<3>2. "lights" \in {"idle"} \cup KbdPcs \cup AuxPcs
  BY DEF KbdPcs
<3>3. /\ ps2Pc' \in Ps2Pcs /\ ps2Pc'.pc = "lights" /\ ps2Pc'.led = ps2Pc.led
      /\ ps2Pc'.code = ps2Pc.code
  BY <2>1, <3>1, <3>2, PcTyped
<3> QED BY <2>1, <2>2, <3>1, <3>3 DEF Pending
<2>3. CASE ps2Pc.pc = "lights" /\ ps2Pc.led = "idle"
<3>1. ps2Pc' = Ps2Idle /\ kbdLeds' = kbdLeds
  BY <2>3 DEF LedGoesOn
<3>2. ps2Pc' \in Ps2Pcs /\ ps2Pc'.pc = "idle"
  BY <2>1, <3>1, PcTyped
<3> QED BY <2>1, <2>3, <3>1, <3>2 DEF Pending
<2>4. CASE ps2Pc.pc = "lights" /\ ps2Pc.led = "made"
<3>1. ps2Pc' = [ps2Pc EXCEPT !.pc = "made"] /\ kbdLeds' = kbdLeds
  BY <2>4 DEF LedGoesOn, Ps2Goto
<3>2. "made" \in {"idle"} \cup KbdPcs \cup AuxPcs
  BY DEF KbdPcs
<3>3. ps2Pc' \in Ps2Pcs /\ ps2Pc'.pc = "made" /\ ps2Pc'.code = ps2Pc.code
  BY <2>1, <3>1, <3>2, PcTyped
<3> QED BY <2>1, <2>4, <3>1, <3>3 DEF Pending
<2> QED BY <1>1, <2>1, <2>2, <2>3, <2>4, PcTyped
<1>4. HwTypes'
  BY <1>1, <1>2, <1>3 DEF Ps2Inv, HwTypes
<1>5. KbdTypes' /\ QueueOK'
  BY <1>1, <1>3 DEF Ps2Inv, KbdInv, KbdTypes, QueueOK
<1>6. KeysOK'
<2>1. Pending => PendingKey' = PendingKey
  BY <1>1, <1>3, Zenon DEF PendingKey
<2>2. KeysMeant' = KeysMeant
  BY <1>1, <1>3, <2>1, Zenon DEF KeysMeant
<2>3. kbdMeant.keys = KeysMeant
  BY <1>1 DEF Ps2Inv, KbdInv, KeysOK
<2> QED BY <1>1, <2>2, <2>3 DEF Ps2Inv, KbdInv, KeysOK
<1>7. AuxInv'
  BY <1>1, <1>2, <1>3, AuxByKeyboard DEF Ps2Inv, Reading
<1> QED BY <1>4, <1>5, <1>6, <1>7 DEF Ps2Inv, KbdInv

(* Keys leave the queue at its head. *)
LEMMA KeysLeave ==
    ASSUME KbdTypes, QueueOK, NEW n \in 1 .. Len(kbdKeys) + 1,
           kbdKeys' = SubSeq(kbdKeys, n, Len(kbdKeys)), kbdMade' = kbdMade
    PROVE  kbdKeys' \in Seq(KeyDatas) /\ Len(kbdKeys') < KbdKeyMax /\ QueueOK'
<1>1. kbdKeys \in Seq(KeyDatas) /\ Len(kbdKeys) < KbdKeyMax /\ kbdMade \in Seq(KeyDatas)
      /\ KbdKeyMax \in Nat
  BY Ps2Assumption DEF KbdTypes
<1>2. PICK b \in Nat, a \in Nat : b = Len(kbdKeys) /\ a = Len(kbdMade)
  BY <1>1
<1>3. n \in 1 .. b + 1 /\ b <= a /\ b < KbdKeyMax
  BY <1>1, <1>2 DEF QueueOK
<1>4. PICK t : t = SubSeq(kbdKeys, n, b)
  OBVIOUS
<1>5. /\ t \in Seq(KeyDatas) /\ Len(t) = b - n + 1
      /\ \A i \in 1 .. b - n + 1 : t[i] = kbdKeys[n + i - 1]
<2>1. \A i \in n .. b : kbdKeys[i] \in KeyDatas
  BY <1>1, <1>2, <1>3
<2>2. /\ SubSeq(kbdKeys, n, b) \in Seq(KeyDatas)
      /\ Len(SubSeq(kbdKeys, n, b)) = (IF n <= b THEN b - n + 1 ELSE 0)
      /\ \A i \in 1 .. b - n + 1 : SubSeq(kbdKeys, n, b)[i] = kbdKeys[n + i - 1]
  BY <1>3, <2>1, SubSeqProperties
<2>3. (IF n <= b THEN b - n + 1 ELSE 0) = b - n + 1
  BY <1>3
<2> QED BY <1>4, <2>2, <2>3, Zenon
<1>6. \A i \in 1 .. Len(t) : t[i] = kbdMade[a - Len(t) + i]
<2> SUFFICES ASSUME NEW i \in 1 .. Len(t) PROVE t[i] = kbdMade[a - Len(t) + i]
  OBVIOUS
<2>1. /\ i \in 1 .. b - n + 1 /\ n + i - 1 \in 1 .. b
      /\ a - Len(t) + i = a - b + (n + i - 1)
  BY <1>3, <1>5
<2>2. t[i] = kbdKeys[n + i - 1]
  BY <1>5, <2>1, Zenon
<2>3. kbdKeys[n + i - 1] = kbdMade[a - b + (n + i - 1)]
  BY <1>2, <2>1, Zenon DEF QueueOK
<2> QED BY <2>1, <2>2, <2>3, Zenon
<1>7. Len(t) <= a /\ Len(t) < KbdKeyMax
  BY <1>1, <1>3, <1>5
<1>8. kbdKeys' = t
  BY <1>2, <1>4
<1> QED BY <1>2, <1>5, <1>6, <1>7, <1>8 DEF QueueOK

LEMMA KeysTakenOK == ASSUME Ps2Inv, PopKey \/ DropKeys PROVE Ps2Inv'
<1>1. /\ ps2Pc.pc \in {"pop", "drop"} /\ ps2Pc' = Ps2Idle
      /\ UNCHANGED <<ps2Hw, ps2Left, kbdScan, kbdMods, kbdLocks, kbdPartial, kbdErr, kbdLeds,
                     kbdMeant, kbdMade, auxState, auxCaller>>
  BY DEF PopKey, DropKeys, Ps2At
<1>2. PICK n \in 1 .. Len(kbdKeys) + 1 : kbdKeys' = SubSeq(kbdKeys, n, Len(kbdKeys))
<2>1. kbdKeys \in Seq(KeyDatas) /\ Len(kbdKeys) \in Nat
  BY DEF Ps2Inv, KbdInv, KbdTypes
<2>2. CASE DropKeys
  BY <2>2 DEF DropKeys
<2>3. CASE PopKey /\ kbdKeys = <<>>
<3>1. Len(kbdKeys) = 0 /\ kbdKeys' = <<>>
  BY <2>3 DEF PopKey
<3>2. SubSeq(kbdKeys, 1, 0) = <<>>
  BY SubSeqEmpty
<3>3. 1 \in 1 .. Len(kbdKeys) + 1 /\ kbdKeys' = SubSeq(kbdKeys, 1, Len(kbdKeys))
  BY <3>1, <3>2
<3> QED BY <3>3
<2>4. CASE PopKey /\ kbdKeys # <<>>
<3>1. kbdKeys' = Tail(kbdKeys) /\ Len(kbdKeys) > 0
  BY <2>1, <2>4 DEF PopKey
<3>2. Tail(kbdKeys) = SubSeq(kbdKeys, 2, Len(kbdKeys)) /\ 2 \in 1 .. Len(kbdKeys) + 1
  BY <2>1, <3>1
<3> QED BY <3>1, <3>2
<2> QED BY <2>2, <2>3, <2>4
<1>3. kbdKeys' \in Seq(KeyDatas) /\ Len(kbdKeys') < KbdKeyMax /\ QueueOK'
  BY <1>1, <1>2, KeysLeave DEF Ps2Inv, KbdInv
<1>4. ps2Pc' \in Ps2Pcs /\ ps2Pc'.pc = "idle"
  BY <1>1, PcTyped DEF Ps2Inv, HwTypes
<1>5. HwTypes'
  BY <1>1, <1>4, HwElsewhere DEF Ps2Inv
<1>6. KbdTypes'
  BY <1>1, <1>3 DEF Ps2Inv, KbdInv, KbdTypes
<1>7. KeysOK'
<2>1. KeysMeant = kbdMade /\ KeysMeant' = kbdMade
  BY <1>1, <1>4 DEF KeysMeant, Pending
<2> QED BY <1>1, <2>1 DEF Ps2Inv, KbdInv, KeysOK
<1>8. AuxInv'
  BY <1>1, <1>4, AuxByKeyboard DEF Ps2Inv, ps2Hw, Reading
<1> QED BY <1>3, <1>5, <1>6, <1>7, <1>8 DEF Ps2Inv, KbdInv

(* A bound of the environment is used up by one. *)
LEMMA LeftOK ==
    ASSUME HwTypes,
           \/ ps2Left' = ps2Left
           \/ ps2Left.resets > 0 /\ ps2Left' = [ps2Left EXCEPT !.resets = @ - 1]
           \/ ps2Left.faults > 0 /\ ps2Left' = [ps2Left EXCEPT !.faults = @ - 1]
    PROVE  ps2Left' \in [codes : Nat, packets : Nat, resets : Nat, faults : Nat]
           /\ ps2Left'.packets = ps2Left.packets
<1>1. ps2Left \in [codes : Nat, packets : Nat, resets : Nat, faults : Nat]
  BY DEF HwTypes
<1>2. CASE ps2Left.resets > 0 /\ ps2Left' = [ps2Left EXCEPT !.resets = @ - 1]
<2>1. ps2Left.resets - 1 \in Nat
  BY <1>1, <1>2
<2> QED BY <1>1, <1>2, <2>1
<1>3. CASE ps2Left.faults > 0 /\ ps2Left' = [ps2Left EXCEPT !.faults = @ - 1]
<2>1. ps2Left.faults - 1 \in Nat
  BY <1>1, <1>3
<2> QED BY <1>1, <1>3, <2>1
<1> QED BY <1>1, <1>2, <1>3

LEMMA SetStateOK == ASSUME Ps2Inv, SetState PROVE Ps2Inv'
<1>1. /\ ps2Pc.pc = "idle" /\ ps2Pc' = [Ps2Idle EXCEPT !.pc = "led"]
      /\ ps2Left.resets > 0 /\ ps2Left' = [ps2Left EXCEPT !.resets = @ - 1]
      /\ UNCHANGED <<ps2Hw, kbdScan, kbdKeys, kbdMods, kbdErr, kbdLeds, kbdMade, auxState,
                     auxCaller>>
  BY DEF SetState, Ps2At
<1>2. ps2Pc' \in Ps2Pcs /\ ps2Pc'.pc = "led" /\ ps2Pc'.led = "idle"
<2>1. "led" \in {"idle"} \cup KbdPcs \cup AuxPcs
  BY DEF KbdPcs
<2> QED BY <1>1, <2>1, PcTyped DEF Ps2Inv, HwTypes
<1>3. ps2Left' \in [codes : Nat, packets : Nat, resets : Nat, faults : Nat]
      /\ ps2Left'.packets = ps2Left.packets
  BY <1>1, LeftOK DEF Ps2Inv
<1>4. HwTypes'
  BY <1>1, <1>2, <1>3 DEF Ps2Inv, HwTypes, ps2Hw
<1>5. PICK locks \in {{}, {"CapsLock"}}, partial \in BOOLEAN :
         /\ kbdLocks' = locks /\ kbdPartial' = partial
         /\ kbdMeant' = [kbdMeant EXCEPT !.locks = locks, !.partial = partial]
  BY DEF SetState
<1>6. locks \subseteq Locks
  BY DEF Locks
<1>7. /\ kbdMeant' \in Meanings /\ kbdMeant'.seen = kbdMeant.seen /\ kbdMeant'.mods = kbdMeant.mods
      /\ kbdMeant'.locks = locks /\ kbdMeant'.partial = partial /\ kbdMeant'.keys = kbdMeant.keys
<2>1. kbdMeant \in Meanings
  BY DEF Ps2Inv, KbdInv, KbdTypes
<2> QED BY <1>5, <1>6, <2>1 DEF Meanings
<1>8. KbdTypes' /\ QueueOK'
<2>1. kbdLocks' \subseteq Locks /\ kbdPartial' \in BOOLEAN
  BY <1>5, <1>6
<2> QED BY <1>1, <1>7, <2>1 DEF Ps2Inv, KbdInv, KbdTypes, QueueOK
<1>9. KeysOK'
<2>1. KeysMeant = kbdMade /\ KeysMeant' = kbdMade
  BY <1>1, <1>2 DEF KeysMeant, Pending
<2> QED BY <1>1, <1>5, <1>7, <2>1 DEF Ps2Inv, KbdInv, KeysOK
<1>10. AuxInv'
  BY <1>1, <1>2, <1>3, AuxByKeyboard DEF Ps2Inv, ps2Hw, Reading
<1> QED BY <1>4, <1>8, <1>9, <1>10 DEF Ps2Inv, KbdInv

(* What is on its way is read and dropped, a part of it or the whole.       *)
LEMMA AuxDrained ==
    ASSUME HwTypes, AuxInv, AuxLoses, auxPacket' = auxPacket, ps2Left'.packets = ps2Left.packets,
           ps2Out'.of # "aux", auxLine' = <<>> \/ auxLine' = auxLine, ~Reading, ~Reading'
    PROVE  StreamOK' /\ AlignOK'
<1>1. ps2Left.packets \in Nat /\ Len(<<>>) = 0
  BY DEF HwTypes
<1>2. StreamOK'
<2>1. CASE auxLine' = <<>>
  BY <1>1, <2>1 DEF StreamOK
<2>2. CASE auxLine' = auxLine
  BY <2>2 DEF AuxInv, StreamOK
<2> QED BY <2>1, <2>2
<1>3. auxLost' \/ (~auxLost /\ ps2Out.of # "aux")
  BY DEF AuxLoses
<1>4. auxLost' \/ Coming' = Coming \/ \E k \in Nat : Coming' = 3 * k
<2>1. CASE auxLine' = <<>>
<3>1. Coming' = 3 * ps2Left.packets
  BY <1>1, <2>1 DEF Coming
<3> QED BY <1>1, <3>1
<2>2. CASE auxLine' = auxLine
  BY <1>3, <2>2 DEF Coming
<2> QED BY <2>1, <2>2
<1> QED BY <1>2, <1>3, <1>4, AlignKept DEF AuxInv

LEMMA KeyboardEfiResetOK == ASSUME Ps2Inv, KeyboardEfiReset PROVE Ps2Inv'
<1>1. /\ ps2Pc.pc = "idle" /\ ps2Pc' = [ps2Pc EXCEPT !.pc = "byte"]
      /\ ps2Left.resets > 0 /\ ps2Left' = [ps2Left EXCEPT !.resets = @ - 1]
      /\ ps2Asked' = TRUE /\ AuxLoses /\ UNCHANGED <<ps2On, kbdState, auxMouse, auxCaller>>
  BY DEF KeyboardEfiReset, Ps2At, Ps2Goto
<1>2. ps2Pc' \in Ps2Pcs /\ ps2Pc'.pc = "byte"
<2>1. "byte" \in {"idle"} \cup KbdPcs \cup AuxPcs
  BY DEF KbdPcs
<2> QED BY <1>1, <2>1, PcTyped DEF Ps2Inv, HwTypes
<1>3. ps2Left' \in [codes : Nat, packets : Nat, resets : Nat, faults : Nat]
      /\ ps2Left'.packets = ps2Left.packets
  BY <1>1, LeftOK DEF Ps2Inv
<1>4. /\ ps2Out' = Nothing \/ ps2Out' = ps2Out
      /\ kbdLine' = <<>> \/ kbdLine' = kbdLine
      /\ auxLine' = <<>> \/ auxLine' = auxLine
      /\ ps2Out' = Nothing
  BY DEF KeyboardEfiReset
<1>5. HwTypes'
<2>1. ps2Out' \in OutBytes /\ kbdLine' \in Seq(Codes) /\ auxLine' \in Seq(Bytes)
<3>1. <<>> \in Seq(Codes) /\ <<>> \in Seq(Bytes)
  OBVIOUS
<3> QED BY <1>4, <3>1, OutTyped DEF Ps2Inv, HwTypes
<2> QED BY <1>1, <1>2, <1>3, <2>1 DEF Ps2Inv, HwTypes
<1>6. KbdInv'
  BY <1>1, <1>2, KbdElsewhere DEF Ps2Inv, KbdSame, Pending
<1>7. AuxInv'
<2>1. ps2Out'.of # "aux"
  BY <1>4, OutTyped
<2>2. StreamOK' /\ AlignOK'
  BY <1>1, <1>2, <1>3, <1>4, <2>1, AuxDrained DEF Ps2Inv, Reading, auxMouse
<2>3. MotionOK' /\ PacketOK'
  BY <1>1, <1>2 DEF Ps2Inv, AuxInv, MotionOK, PacketOK, auxMouse
<2>4. auxLost' \in BOOLEAN
  BY <1>1, Zenon DEF AuxLoses
<2>5. AuxTypes'
  BY <1>1, <2>4 DEF Ps2Inv, AuxInv, AuxTypes, auxMouse
<2> QED BY <2>2, <2>3, <2>5 DEF AuxInv
<1> QED BY <1>5, <1>6, <1>7 DEF Ps2Inv

LEMMA InitKeyboardOK == ASSUME Ps2Inv, InitKeyboard PROVE Ps2Inv'
<1>1. /\ ps2Pc.pc = "byte" /\ ps2Out' = Nothing /\ AuxLoses
      /\ UNCHANGED <<ps2Asked, kbdLine, auxLine, ps2Left, kbdErr, kbdLeds, auxMouse, auxCaller>>
      /\ kbdScan' = <<>> /\ kbdKeys' = <<>> /\ kbdMeant' = NoMeaning /\ kbdMade' = <<>>
      /\ kbdMods' = {} /\ kbdLocks' = {} /\ kbdPartial' = FALSE
  BY DEF InitKeyboard, Ps2At
<1>2. ps2On' \subseteq {"kbd", "aux"}
  BY DEF InitKeyboard
<1>3. ps2Pc' \in Ps2Pcs /\ ps2Pc'.pc \in {"led", "idle"} /\ ps2Pc'.led = "idle"
<2>1. PICK extended \in BOOLEAN :
         ps2Pc' = [Ps2Idle EXCEPT !.pc = IF extended THEN "led" ELSE "idle"]
  BY DEF InitKeyboard
<2>2. {"led", "idle"} \subseteq {"idle"} \cup KbdPcs \cup AuxPcs
  BY DEF KbdPcs
<2>3. PICK pc \in {"led", "idle"} : pc = IF extended THEN "led" ELSE "idle"
  OBVIOUS
<2>4. ps2Pc' = [Ps2Idle EXCEPT !.pc = pc]
  BY <2>1, <2>3
<2> QED BY <2>2, <2>4, PcTyped DEF Ps2Inv, HwTypes
<1>4. ps2Out' \in OutBytes /\ ps2Out'.of # "aux"
  BY <1>1, OutTyped
<1>5. HwTypes'
  BY <1>1, <1>2, <1>3, <1>4 DEF Ps2Inv, HwTypes
<1>6. KbdTypes'
<2>1. <<>> \in Seq(Codes) /\ <<>> \in Seq(KeyDatas) /\ Len(<<>>) = 0
  OBVIOUS
<2>2. NoMeaning \in Meanings
  BY <2>1 DEF NoMeaning, Meanings
<2>3. KbdScanMax > 0 /\ KbdKeyMax > 0
  BY Ps2Assumption
<2>4. kbdPartial' \in BOOLEAN
  BY <1>1, Zenon
<2> QED BY <1>1, <2>1, <2>2, <2>3, <2>4 DEF Ps2Inv, KbdInv, KbdTypes
<1>7. KeysOK' /\ QueueOK'
<2>1. KeysMeant' = <<>>
  BY <1>1, <1>3 DEF KeysMeant, Pending
<2>2. KeysOK'
  BY <1>1, <2>1 DEF KeysOK, NoMeaning
<2>3. QueueOK'
  BY <1>1 DEF QueueOK
<2> QED BY <2>2, <2>3
<1>8. AuxInv'
  BY <1>1, <1>3, <1>4, AuxDropped DEF Ps2Inv, Reading
<1> QED BY <1>5, <1>6, <1>7, <1>8 DEF Ps2Inv, KbdInv

LEMMA InitKeyboardFailsOK == ASSUME Ps2Inv, InitKeyboardFails PROVE Ps2Inv'
<1>1. /\ ps2Pc.pc = "byte" /\ ps2Pc' = Ps2Idle /\ kbdErr' = TRUE /\ ps2On' = ps2On \cup {"aux"}
      /\ ps2Left.faults > 0 /\ ps2Left' = [ps2Left EXCEPT !.faults = @ - 1]
      /\ UNCHANGED <<ps2Out, ps2Asked, kbdLine, auxLine, kbdScan, kbdKeys, kbdMods, kbdLocks,
                     kbdPartial, kbdLeds, kbdMeant, kbdMade, auxState, auxCaller>>
  BY DEF InitKeyboardFails, Ps2At
<1>2. ps2Pc' \in Ps2Pcs /\ ps2Pc'.pc = "idle"
  BY <1>1, PcTyped DEF Ps2Inv, HwTypes
<1>3. ps2Left' \in [codes : Nat, packets : Nat, resets : Nat, faults : Nat]
      /\ ps2Left'.packets = ps2Left.packets
  BY <1>1, LeftOK DEF Ps2Inv
<1>4. HwTypes'
  BY <1>1, <1>2, <1>3 DEF Ps2Inv, HwTypes
<1>5. KbdTypes' /\ QueueOK'
<2>1. kbdErr' \in BOOLEAN
  BY <1>1, Zenon
<2> QED BY <1>1, <2>1 DEF Ps2Inv, KbdInv, KbdTypes, QueueOK
<1>6. KeysOK'
<2>1. KeysMeant = kbdMade /\ KeysMeant' = kbdMade
  BY <1>1, <1>2 DEF KeysMeant, Pending
<2> QED BY <1>1, <2>1 DEF Ps2Inv, KbdInv, KeysOK
<1>7. AuxInv'
  BY <1>1, <1>2, <1>3, AuxByKeyboard DEF Ps2Inv, Reading
<1> QED BY <1>4, <1>5, <1>6, <1>7 DEF Ps2Inv, KbdInv

-----------------------------------------------------------------------------
(* The mouse driver. *)

(* No step of it makes a key. *)
LEMMA KbdByMouse ==
    ASSUME KbdInv, UNCHANGED kbdState, ps2Pc.pc \in {"idle"} \cup AuxPcs,
           ps2Pc'.pc \in {"idle"} \cup AuxPcs
    PROVE  KbdInv'
  BY KbdElsewhere DEF KbdSame, Pending, AuxPcs

LEMMA AuxPcTyped ==
    ASSUME ps2Pc \in Ps2Pcs
    PROVE  /\ Ps2Idle \in Ps2Pcs /\ Ps2Idle.pc = "idle"
           /\ \A pc \in {"first", "status", "data", "reset"} :
                 /\ [ps2Pc EXCEPT !.pc = pc] \in Ps2Pcs /\ [ps2Pc EXCEPT !.pc = pc].pc = pc
                 /\ [Ps2Idle EXCEPT !.pc = pc] \in Ps2Pcs /\ [Ps2Idle EXCEPT !.pc = pc].pc = pc
<1>1. \A pc \in {"first", "status", "data", "reset"} : pc \in {"idle"} \cup KbdPcs \cup AuxPcs
  BY DEF AuxPcs
<1> QED BY <1>1, PcTyped

LEMMA PollMouseOK == ASSUME Ps2Inv, PollMouse PROVE Ps2Inv'
<1>1. /\ ps2Pc.pc = "idle" /\ ps2Pc' = [Ps2Idle EXCEPT !.pc = "first"]
      /\ auxKbdWas' = FALSE /\ auxPacket' = <<>>
      /\ UNCHANGED <<ps2Hw, ps2Left, kbdState, auxX, auxChanged, auxMoved, auxGiven, auxLost,
                     auxCaller>>
  BY DEF PollMouse, Ps2At
<1>2. ps2Pc' \in Ps2Pcs /\ ps2Pc'.pc = "first"
  BY <1>1, AuxPcTyped DEF Ps2Inv, HwTypes
<1>3. HwTypes'
  BY <1>1, <1>2, HwElsewhere DEF Ps2Inv
<1>4. KbdInv'
  BY <1>1, <1>2, KbdByMouse DEF Ps2Inv, AuxPcs
<1>5. AuxTypes'
<2>1. auxKbdWas' \in BOOLEAN
  BY <1>1, Zenon
<2>2. auxPacket' \in Seq(Bytes) /\ Len(auxPacket') <= 3
  BY <1>1
<2> QED BY <1>1, <2>1, <2>2 DEF Ps2Inv, AuxInv, AuxTypes
<1>6. StreamOK' /\ MotionOK'
  BY <1>1 DEF Ps2Inv, AuxInv, StreamOK, MotionOK, ps2Hw
<1>7. PacketOK'
  BY <1>1, <1>2 DEF PacketOK
<1>8. AlignOK'
<2>1. Coming' = Coming /\ auxLost' = auxLost /\ auxPacket' = <<>>
  BY <1>1 DEF Coming, ps2Hw
<2> QED BY <1>1, <2>1 DEF Ps2Inv, AuxInv, AlignOK, Reading
<1> QED BY <1>3, <1>4, <1>5, <1>6, <1>7, <1>8 DEF Ps2Inv, AuxInv

LEMMA NoPacketOK == ASSUME Ps2Inv, NoPacket PROVE Ps2Inv'
<1>1. /\ ps2Pc.pc = "first" /\ ps2Pc' = Ps2Idle /\ ps2On' = ps2On \cup {"aux"}
      /\ UNCHANGED <<ps2Out, ps2Asked, kbdLine, auxLine, ps2Left, kbdState, auxState, auxCaller>>
  BY DEF NoPacket, Ps2At
<1>2. ps2Pc' \in Ps2Pcs /\ ps2Pc'.pc = "idle"
  BY <1>1, AuxPcTyped DEF Ps2Inv, HwTypes
<1>3. HwTypes'
  BY <1>1, <1>2 DEF Ps2Inv, HwTypes
<1>4. KbdInv'
  BY <1>1, <1>2, KbdByMouse DEF Ps2Inv, AuxPcs
<1>5. AuxInv'
  BY <1>1, <1>2, AuxByKeyboard DEF Ps2Inv, Reading
<1> QED BY <1>3, <1>4, <1>5 DEF Ps2Inv

LEMMA FirstByteOK == ASSUME Ps2Inv, FirstByte PROVE Ps2Inv'
<1>1. /\ ps2Pc.pc = "first" /\ ps2Out.of = "aux" /\ ps2Out' = Nothing /\ ps2On' = ps2On \ {"aux"}
      /\ UNCHANGED <<kbdLine, auxLine, ps2Left, kbdState, auxX, auxChanged, auxKbdWas, auxMoved,
                     auxGiven, auxCaller>>
  BY DEF FirstByte, Ps2At
<1>2. PICK b \in Bytes : b = ps2Out.byte
  BY <1>1, OutTyped DEF Ps2Inv, HwTypes
<1>3. ps2Out' \in OutBytes /\ ps2Out'.of # "aux"
  BY <1>1, OutTyped
<1>4. \/ /\ auxPacket' = <<b>> /\ ps2Asked' = TRUE /\ ps2Pc' = [ps2Pc EXCEPT !.pc = "status"]
         /\ auxLost' = (auxLost /\ b.byte # 1)
      \/ UNCHANGED <<auxPacket, ps2Asked, ps2Pc>> /\ auxLost' = TRUE
<2>1. CASE b.sync
  BY <1>2, <2>1 DEF FirstByte, Ps2Goto
<2>2. CASE ~b.sync
  BY <1>1, <1>2, <2>2 DEF FirstByte, AuxLoses
<2> QED BY <2>1, <2>2
<1>5. StreamOK' /\ NumberOf(b) = Coming'
<2>1. NumberOf(b) = 3 * ps2Left.packets + Len(auxLine)
  BY <1>1, <1>2 DEF Ps2Inv, AuxInv, StreamOK
<2>2. Coming' = 3 * ps2Left.packets + Len(auxLine)
<3>1. ps2Left.packets \in Nat /\ Len(auxLine) \in Nat
  BY DEF Ps2Inv, HwTypes
<3> QED BY <1>1, <1>3, <3>1 DEF Coming
<2> QED BY <1>1, <1>3, <2>1, <2>2 DEF Ps2Inv, AuxInv, StreamOK
<1>6. MotionOK'
  BY <1>1 DEF Ps2Inv, AuxInv, MotionOK
<1>7. CASE /\ auxPacket' = <<b>> /\ ps2Asked' = TRUE /\ ps2Pc' = [ps2Pc EXCEPT !.pc = "status"]
           /\ auxLost' = (auxLost /\ b.byte # 1)
<2>1. ps2Pc' \in Ps2Pcs /\ ps2Pc'.pc = "status"
  BY <1>7, AuxPcTyped DEF Ps2Inv, HwTypes
<2>2. ps2Asked' \in BOOLEAN
  BY <1>7, Zenon
<2>3. HwTypes'
  BY <1>1, <1>3, <2>1, <2>2 DEF Ps2Inv, HwTypes
<2>4. KbdInv'
  BY <1>1, <2>1, KbdByMouse DEF Ps2Inv, AuxPcs
<2>5. auxPacket' \in Seq(Bytes) /\ Len(auxPacket') = 1 /\ auxPacket'[1] = b
  BY <1>7
<2>6. AuxTypes'
<3>1. auxLost' \in BOOLEAN
  BY <1>7, Zenon
<3> QED BY <1>1, <2>5, <3>1 DEF Ps2Inv, AuxInv, AuxTypes
<2>7. PacketOK'
  BY <1>1, <1>3, <1>5, <2>1, <2>5 DEF PacketOK
<2>8. AlignOK'
<3>1. CASE auxLost'
  BY <3>1 DEF AlignOK
<3>2. CASE ~auxLost'
<4>1. b.byte = 1
<5>1. CASE auxLost
  BY <1>7, <3>2, <5>1
<5>2. CASE ~auxLost
<6>1. PICK k \in Nat : Coming = 3 * k
  BY <1>1, <5>2 DEF Ps2Inv, AuxInv, AlignOK, Reading
<6>2. Coming = Coming' + 1
<7>1. ps2Left.packets \in Nat /\ Len(auxLine) \in Nat
  BY DEF Ps2Inv, HwTypes
<7> QED BY <1>1, <1>3, <7>1 DEF Coming
<6>3. PICK p \in Nat, j \in 1 .. 3 : b.packet = p /\ b.byte = j
  BY DEF Bytes
<6>4. 3 * p - j = Coming'
  BY <1>5, <6>3 DEF NumberOf
<6>5. 3 * k = (3 * p - j) + 1
  BY <6>1, <6>2, <6>4
<6>6. j = 1
  BY <6>5
<6> QED BY <6>3, <6>6
<5> QED BY <5>1, <5>2
<4>2. \A i \in 1 .. Len(auxPacket') :
         auxPacket'[i].packet = auxPacket'[1].packet /\ auxPacket'[i].byte = i
  BY <2>5, <4>1
<4>3. Reading'
  BY <2>1 DEF Reading
<4> QED BY <4>2, <4>3 DEF AlignOK
<3> QED BY <3>1, <3>2
<2> QED BY <1>5, <1>6, <2>3, <2>4, <2>6, <2>7, <2>8 DEF Ps2Inv, AuxInv
<1>8. CASE UNCHANGED <<auxPacket, ps2Asked, ps2Pc>> /\ auxLost' = TRUE
<2>1. HwTypes'
  BY <1>1, <1>3, <1>8 DEF Ps2Inv, HwTypes
<2>2. KbdInv'
  BY <1>1, <1>8, KbdByMouse DEF Ps2Inv, AuxPcs
<2>3. AuxTypes' /\ PacketOK' /\ AlignOK'
<3>1. auxLost' \in BOOLEAN
  BY <1>8, Zenon
<3>2. AuxTypes'
  BY <1>1, <1>8, <3>1 DEF Ps2Inv, AuxInv, AuxTypes
<3>3. PacketOK'
  BY <1>1, <1>8 DEF Ps2Inv, AuxInv, PacketOK
<3>4. AlignOK'
  BY <1>8 DEF AlignOK
<3> QED BY <3>2, <3>3, <3>4
<2> QED BY <1>5, <1>6, <2>1, <2>2, <2>3 DEF Ps2Inv, AuxInv
<1> QED BY <1>4, <1>7, <1>8

LEMMA CheckKbStatusOK == ASSUME Ps2Inv, CheckKbStatus PROVE Ps2Inv'
<1>1. /\ ps2Pc.pc = "status" /\ ps2Pc' = [ps2Pc EXCEPT !.pc = "data"]
      /\ ps2On' = (ps2On \ {"kbd"}) \cup {"aux"}
      /\ UNCHANGED <<ps2Asked, kbdLine, auxLine, kbdState, auxX, auxChanged, auxPacket, auxMoved,
                     auxGiven, auxCaller>>
      /\ \/ /\ ps2Out' = Nothing /\ auxKbdWas' \in Says("kbd") /\ ps2Left' = ps2Left
            /\ AuxLoses
         \/ /\ ps2Left.faults > 0 /\ ps2Left' = [ps2Left EXCEPT !.faults = @ - 1]
            /\ UNCHANGED <<ps2Out, auxKbdWas, auxLost>>
  BY DEF CheckKbStatus, Ps2At, Ps2Goto
<1>2. ps2Pc' \in Ps2Pcs /\ ps2Pc'.pc = "data"
  BY <1>1, AuxPcTyped DEF Ps2Inv, HwTypes
<1>3. ps2Left' \in [codes : Nat, packets : Nat, resets : Nat, faults : Nat]
      /\ ps2Left'.packets = ps2Left.packets
  BY <1>1, LeftOK DEF Ps2Inv
<1>4. ps2Out.of # "aux" /\ ps2Out'.of # "aux" /\ ps2Out' \in OutBytes
<2>1. ps2Out.of # "aux" /\ ps2Out \in OutBytes
  BY <1>1 DEF Ps2Inv, HwTypes, AuxInv, PacketOK
<2> QED BY <1>1, <2>1, OutTyped
<1>5. auxKbdWas' \in BOOLEAN
<2>1. Says("kbd") \subseteq BOOLEAN
  BY Zenon DEF Says
<2>2. auxKbdWas \in BOOLEAN
  BY DEF Ps2Inv, AuxInv, AuxTypes
<2> QED BY <1>1, <2>1, <2>2
<1>6. HwTypes'
  BY <1>1, <1>2, <1>3, <1>4 DEF Ps2Inv, HwTypes
<1>7. KbdInv'
  BY <1>1, <1>2, KbdByMouse DEF Ps2Inv, AuxPcs
<1>8. AuxTypes' /\ MotionOK'
<2>1. auxLost' \in BOOLEAN
<3>1. CASE AuxLoses
  BY <3>1, Zenon DEF AuxLoses
<3>2. CASE auxLost' = auxLost
  BY <3>2 DEF Ps2Inv, AuxInv, AuxTypes
<3> QED BY <1>1, <3>1, <3>2
<2> QED BY <1>1, <1>5, <2>1 DEF Ps2Inv, AuxInv, AuxTypes, MotionOK
<1>9. StreamOK'
  BY <1>1, <1>3, <1>4 DEF Ps2Inv, AuxInv, StreamOK
<1>10. PacketOK'
<2>1. Coming' = Coming
  BY <1>1, <1>3, <1>4 DEF Coming
<2> QED BY <1>1, <1>2, <2>1 DEF Ps2Inv, AuxInv, PacketOK
<1>11. AlignOK'
<2>1. Coming' = Coming
  BY <1>1, <1>3, <1>4 DEF Coming
<2>2. auxLost' \/ ~auxLost
  BY <1>1 DEF AuxLoses
<2>3. Reading'
  BY <1>2 DEF Reading
<2> QED BY <1>1, <2>1, <2>2, <2>3, AlignKept DEF Ps2Inv, AuxInv
<1> QED BY <1>6, <1>7, <1>8, <1>9, <1>10, <1>11 DEF Ps2Inv, AuxInv

LEMMA DataByteOK == ASSUME Ps2Inv, DataByte PROVE Ps2Inv'
<1>1. /\ ps2Pc.pc = "data" /\ Len(auxPacket) < 3 /\ ps2Out.of = "aux"
      /\ auxPacket' = Append(auxPacket, ps2Out.byte) /\ ps2Out' = Nothing /\ ps2Pc' = ps2Pc
      /\ UNCHANGED <<ps2On, ps2Asked, kbdLine, auxLine, ps2Left, kbdState, auxX, auxChanged,
                     auxKbdWas, auxMoved, auxGiven, auxLost, auxCaller>>
  BY DEF DataByte, Ps2At
<1>2. PICK b \in Bytes : b = ps2Out.byte
  BY <1>1, OutTyped DEF Ps2Inv, HwTypes
<1>3. ps2Out' \in OutBytes /\ ps2Out'.of # "aux"
  BY <1>1, OutTyped
<1>4. HwTypes'
  BY <1>1, <1>3 DEF Ps2Inv, HwTypes
<1>5. KbdInv'
  BY <1>1, KbdByMouse DEF Ps2Inv, AuxPcs
<1>6. PICK l \in Nat : l = Len(auxPacket) /\ l > 0 /\ l < 3
  BY <1>1 DEF Ps2Inv, AuxInv, AuxTypes, PacketOK
<1>7. auxPacket \in Seq(Bytes)
  BY DEF Ps2Inv, AuxInv, AuxTypes
<1>8. PICK c \in Int : c = 3 * ps2Left.packets + Len(auxLine)
<2>1. ps2Left.packets \in Nat /\ Len(auxLine) \in Nat
  BY DEF Ps2Inv, HwTypes
<2> QED BY <2>1
<1>9. NumberOf(auxPacket[l]) = c + 1 /\ NumberOf(b) = c
<2>1. NumberOf(auxPacket[l]) = Coming
  BY <1>1, <1>6 DEF Ps2Inv, AuxInv, PacketOK
<2>2. Coming = c + 1
<3>1. ps2Left.packets \in Nat /\ Len(auxLine) \in Nat
  BY DEF Ps2Inv, HwTypes
<3> QED BY <1>1, <1>8, <3>1 DEF Coming
<2>3. NumberOf(b) = c
  BY <1>1, <1>2, <1>8 DEF Ps2Inv, AuxInv, StreamOK
<2> QED BY <2>1, <2>2, <2>3
<1>10. /\ auxPacket' \in Seq(Bytes) /\ Len(auxPacket') = l + 1 /\ auxPacket'[l + 1] = b
       /\ \A i \in 1 .. l : auxPacket'[i] = auxPacket[i]
  BY <1>1, <1>2, <1>6, <1>7, AppendProperties
<1>11. Coming' = c
<2>1. ps2Left.packets \in Nat /\ Len(auxLine) \in Nat
  BY DEF Ps2Inv, HwTypes
<2> QED BY <1>1, <1>3, <1>8, <2>1 DEF Coming
<1>12. AuxTypes' /\ MotionOK'
  BY <1>1, <1>6, <1>10 DEF Ps2Inv, AuxInv, AuxTypes, MotionOK
<1>13. StreamOK'
  BY <1>1, <1>3 DEF Ps2Inv, AuxInv, StreamOK
<1>14. PacketOK'
<2>1. \A i \in 1 .. l : NumberOf(auxPacket'[i + 1]) = NumberOf(auxPacket'[i]) - 1
<3> SUFFICES ASSUME NEW i \in 1 .. l PROVE NumberOf(auxPacket'[i + 1]) = NumberOf(auxPacket'[i]) - 1
  OBVIOUS
<3>1. CASE i = l
  BY <1>9, <1>10, <3>1
<3>2. CASE i # l
<4>1. i \in 1 .. l - 1 /\ i + 1 \in 1 .. l
  BY <3>2
<4>2. NumberOf(auxPacket[i + 1]) = NumberOf(auxPacket[i]) - 1
  BY <1>6, <4>1 DEF Ps2Inv, AuxInv, PacketOK
<4> QED BY <1>10, <4>1, <4>2
<3> QED BY <3>1, <3>2
<2>2. (l + 1) - 1 = l /\ l + 1 > 0
  OBVIOUS
<2> QED BY <1>1, <1>9, <1>10, <1>11, <2>1, <2>2 DEF PacketOK
<1>15. AlignOK'
<2>1. CASE auxLost
  BY <1>1, <2>1 DEF AlignOK
<2>2. CASE ~auxLost
<3>1. PICK p \in Nat : /\ auxPacket[1].packet = p
                        /\ \A i \in 1 .. l : auxPacket[i].packet = p /\ auxPacket[i].byte = i
<4>1. auxPacket[1] \in Bytes
  BY <1>6, <1>7, ElementOfSeq
<4>2. \A i \in 1 .. l : auxPacket[i].packet = auxPacket[1].packet /\ auxPacket[i].byte = i
  BY <1>6, <2>2 DEF Ps2Inv, AuxInv, AlignOK
<4> QED BY <4>1, <4>2 DEF Bytes
<3>2. PICK q \in Nat, j \in 1 .. 3 : b.packet = q /\ b.byte = j
  BY DEF Bytes
<3>3. 3 * p - l = c + 1 /\ 3 * q - j = c
<4>1. l \in 1 .. l
  BY <1>6
<4> QED BY <1>9, <3>1, <3>2, <4>1 DEF NumberOf
<3>4. q = p /\ j = l + 1
  BY <1>6, <3>3
<3>5. \A i \in 1 .. l + 1 : i \in 1 .. l \/ i = l + 1
  BY <1>6
<3>6. 1 \in 1 .. l
  BY <1>6
<3>7. \A i \in 1 .. l + 1 :
         auxPacket'[i].packet = auxPacket'[1].packet /\ auxPacket'[i].byte = i
  BY <1>10, <3>1, <3>2, <3>4, <3>5, <3>6, Zenon
<3>8. Reading'
  BY <1>1 DEF Reading
<3> QED BY <1>10, <3>7, <3>8 DEF AlignOK
<2> QED BY <2>1, <2>2
<1> QED BY <1>4, <1>5, <1>12, <1>13, <1>14, <1>15 DEF Ps2Inv, AuxInv

LEMMA DataLateOK == ASSUME Ps2Inv, DataLate PROVE Ps2Inv'
<1>1. /\ ps2Pc.pc = "data" /\ ps2Pc' = Ps2Idle
      /\ ps2On' = IF auxKbdWas THEN ps2On \cup {"kbd"} ELSE ps2On
      /\ \/ ps2Left' = ps2Left
         \/ ps2Left.faults > 0 /\ ps2Left' = [ps2Left EXCEPT !.faults = @ - 1]
      /\ UNCHANGED <<ps2Out, ps2Asked, kbdLine, auxLine, kbdState, auxMouse, auxCaller>>
      /\ auxLost' = TRUE
  BY DEF DataLate, Ps2At, EnableKb
<1>2. ps2Pc' \in Ps2Pcs /\ ps2Pc'.pc = "idle"
  BY <1>1, AuxPcTyped DEF Ps2Inv, HwTypes
<1>3. ps2Left' \in [codes : Nat, packets : Nat, resets : Nat, faults : Nat]
      /\ ps2Left'.packets = ps2Left.packets
  BY <1>1, LeftOK DEF Ps2Inv
<1>4. HwTypes'
  BY <1>1, <1>2, <1>3 DEF Ps2Inv, HwTypes
<1>5. KbdInv'
  BY <1>1, <1>2, KbdByMouse DEF Ps2Inv, AuxPcs
<1>6. AuxInv'
<2>1. AuxSame /\ Noted /\ ~Reading'
<3>1. auxLost' \in BOOLEAN /\ auxLost'
  BY <1>1, Zenon
<3>2. AuxSame
  BY <1>1, <1>3, <3>1 DEF Ps2Inv, AuxInv, AuxTypes, AuxSame
<3> QED BY <1>2, <3>1, <3>2 DEF Noted, Reading
<2> QED BY <1>1, <2>1, AuxElsewhere DEF Ps2Inv
<1> QED BY <1>4, <1>5, <1>6 DEF Ps2Inv

LEMMA ProcessPacketOK == ASSUME Ps2Inv, ProcessPacket PROVE Ps2Inv'
<1>1. /\ ps2Pc.pc = "data" /\ ps2Pc' = Ps2Idle /\ Len(auxPacket) = 3
      /\ ps2On' = IF auxKbdWas THEN ps2On \cup {"kbd"} ELSE ps2On
      /\ auxX' = auxX + auxPacket[2].dx /\ auxMoved' = auxMoved + auxPacket[2].dx
      /\ auxChanged' = TRUE
      /\ UNCHANGED <<ps2Out, ps2Asked, kbdLine, auxLine, ps2Left, kbdState, auxPacket, auxKbdWas,
                     auxGiven, auxLost, auxCaller>>
  BY DEF ProcessPacket, Ps2At, EnableKb
<1>2. ps2Pc' \in Ps2Pcs /\ ps2Pc'.pc = "idle"
  BY <1>1, AuxPcTyped DEF Ps2Inv, HwTypes
<1>3. HwTypes'
  BY <1>1, <1>2 DEF Ps2Inv, HwTypes
<1>4. KbdInv'
  BY <1>1, <1>2, KbdByMouse DEF Ps2Inv, AuxPcs
<1>5. PICK dx \in Int : dx = auxPacket[2].dx
<2>1. auxPacket[2] \in Bytes
<3>1. auxPacket \in Seq(Bytes) /\ 2 \in 1 .. Len(auxPacket)
  BY <1>1 DEF Ps2Inv, AuxInv, AuxTypes
<3> QED BY <3>1, ElementOfSeq
<2> QED BY <2>1 DEF Bytes
<1>6. auxX' = auxX + dx /\ auxMoved' = auxMoved + dx /\ auxX \in Int /\ auxMoved \in Int
      /\ auxGiven \in Int
  BY <1>1, <1>5 DEF Ps2Inv, AuxInv, AuxTypes
<1>7. AuxTypes'
<2>1. auxChanged' \in BOOLEAN
  BY <1>1, Zenon
<2>2. auxX' \in Int /\ auxMoved' \in Int /\ auxGiven' \in Int
  BY <1>1, <1>6
<2>3. /\ auxKbdWas' \in BOOLEAN /\ auxLost' \in BOOLEAN /\ auxPacket' \in Seq(Bytes) /\ Len(auxPacket') <= 3
      /\ auxCaller' \in {"idle", "changed", "enable"}
  BY <1>1 DEF Ps2Inv, AuxInv, AuxTypes
<2> QED BY <2>1, <2>2, <2>3 DEF AuxTypes
<1>8. MotionOK'
<2>1. auxMoved = auxGiven + auxX
  BY DEF Ps2Inv, AuxInv, MotionOK
<2>2. auxMoved' = auxGiven + auxX'
  BY <1>6, <2>1
<2> QED BY <1>1, <2>2 DEF MotionOK
<1>9. StreamOK' /\ PacketOK'
  BY <1>1, <1>2 DEF Ps2Inv, AuxInv, StreamOK, PacketOK
<1>10. AlignOK'
<2>1. CASE auxLost
  BY <1>1, <2>1 DEF AlignOK
<2>2. CASE ~auxLost
<3>1. PICK p \in Nat : auxPacket[3].packet = p /\ auxPacket[3].byte = 3
<4>1. auxPacket \in Seq(Bytes) /\ 3 \in 1 .. Len(auxPacket)
  BY <1>1 DEF Ps2Inv, AuxInv, AuxTypes
<4>2. auxPacket[3] \in Bytes
  BY <4>1, ElementOfSeq
<4> QED BY <2>2, <4>1, <4>2 DEF Ps2Inv, AuxInv, AlignOK, Bytes
<3>2. NumberOf(auxPacket[3]) = Coming
  BY <1>1 DEF Ps2Inv, AuxInv, PacketOK
<3>3. Coming' = Coming /\ Coming \in Nat
<4>1. ps2Left.packets \in Nat /\ Len(auxLine) \in Nat
  BY DEF Ps2Inv, HwTypes
<4>2. Coming \in Nat
  BY <4>1 DEF Coming
<4> QED BY <1>1, <4>2 DEF Coming
<3>4. 3 * p - 3 = Coming'
  BY <3>1, <3>2, <3>3 DEF NumberOf
<3>5. p - 1 \in Nat /\ Coming' = 3 * (p - 1)
  BY <3>3, <3>4
<3>6. \E k \in Nat : Coming' = 3 * k
  BY <3>5
<3> QED BY <1>1, <2>2, <3>6 DEF Ps2Inv, AuxInv, AlignOK
<2> QED BY <2>1, <2>2
<1> QED BY <1>3, <1>4, <1>7, <1>8, <1>9, <1>10 DEF Ps2Inv, AuxInv

LEMMA GetStateOK == ASSUME Ps2Inv, MouseGetState \/ GiveState \/ EnableAfterReset PROVE Ps2Inv'
<1>1. /\ ps2Pc.pc = "idle" /\ ps2Pc' = ps2Pc /\ ps2On' \subseteq {"kbd", "aux"}
      /\ UNCHANGED <<ps2Out, ps2Asked, kbdLine, auxLine, ps2Left, kbdState, auxPacket, auxKbdWas,
                     auxMoved, auxLost>>
      /\ auxCaller' \in {"idle", "changed"}
      /\ \/ UNCHANGED <<auxX, auxChanged, auxGiven>>
         \/ auxGiven' = auxGiven + auxX /\ auxX' = 0 /\ auxChanged' = FALSE
  BY DEF Ps2Inv, HwTypes, MouseGetState, GiveState, EnableAfterReset, Ps2At, ps2Hw, auxState, auxMouse
<1>2. HwTypes'
  BY <1>1 DEF Ps2Inv, HwTypes
<1>3. KbdInv'
  BY <1>1, KbdByMouse DEF Ps2Inv
<1>4. StreamOK' /\ PacketOK'
  BY <1>1 DEF Ps2Inv, AuxInv, StreamOK, PacketOK
<1>5. AuxTypes' /\ MotionOK'
<2>1. CASE UNCHANGED <<auxX, auxChanged, auxGiven>>
  BY <1>1, <2>1 DEF Ps2Inv, AuxInv, AuxTypes, MotionOK
<2>2. CASE auxGiven' = auxGiven + auxX /\ auxX' = 0 /\ auxChanged' = FALSE
<3>1. auxX \in Int /\ auxGiven \in Int /\ auxMoved = auxGiven + auxX
  BY DEF Ps2Inv, AuxInv, AuxTypes, MotionOK
<3>2. auxChanged' \in BOOLEAN
  BY <2>2, Zenon
<3>3. AuxTypes'
  BY <1>1, <2>2, <3>1, <3>2 DEF Ps2Inv, AuxInv, AuxTypes
<3>4. auxMoved' = auxGiven' + auxX' /\ auxX' = 0
  BY <1>1, <2>2, <3>1
<3> QED BY <3>3, <3>4 DEF MotionOK
<2> QED BY <1>1, <2>1, <2>2
<1>6. AlignOK'
<2>1. Coming' = Coming
  BY <1>1 DEF Coming
<2> QED BY <1>1, <2>1 DEF Ps2Inv, AuxInv, AlignOK, Reading
<1> QED BY <1>2, <1>3, <1>4, <1>5, <1>6 DEF Ps2Inv, AuxInv

LEMMA MouseResetOK == ASSUME Ps2Inv, MouseReset PROVE Ps2Inv'
<1>1. /\ ps2Pc.pc = "idle" /\ ps2Pc' = [Ps2Idle EXCEPT !.pc = "reset"]
      /\ ps2Left.resets > 0 /\ ps2Left' = [ps2Left EXCEPT !.resets = @ - 1]
      /\ auxX' = 0 /\ auxChanged' = FALSE /\ auxMoved' = auxGiven /\ ps2Out' = Nothing
      /\ ps2Asked' = TRUE /\ AuxLoses
      /\ UNCHANGED <<ps2On, kbdState, auxPacket, auxKbdWas, auxGiven, auxCaller>>
  BY DEF MouseReset, Ps2At
<1>2. /\ kbdLine' = <<>> \/ kbdLine' = kbdLine
      /\ auxLine' = <<>> \/ auxLine' = auxLine
  BY DEF MouseReset
<1>3. ps2Pc' \in Ps2Pcs /\ ps2Pc'.pc = "reset"
  BY <1>1, AuxPcTyped DEF Ps2Inv, HwTypes
<1>4. ps2Left' \in [codes : Nat, packets : Nat, resets : Nat, faults : Nat]
      /\ ps2Left'.packets = ps2Left.packets
  BY <1>1, LeftOK DEF Ps2Inv
<1>5. ps2Out' \in OutBytes /\ ps2Out'.of # "aux"
  BY <1>1, OutTyped
<1>6. HwTypes'
<2>1. kbdLine' \in Seq(Codes) /\ auxLine' \in Seq(Bytes)
<3>1. <<>> \in Seq(Codes) /\ <<>> \in Seq(Bytes)
  OBVIOUS
<3> QED BY <1>2, <3>1 DEF Ps2Inv, HwTypes
<2>2. ps2Asked' \in BOOLEAN
  BY <1>1, Zenon
<2> QED BY <1>1, <1>3, <1>4, <1>5, <2>1, <2>2 DEF Ps2Inv, HwTypes
<1>7. KbdInv'
  BY <1>1, <1>3, KbdByMouse DEF Ps2Inv, AuxPcs
<1>8. AuxTypes'
<2>1. auxChanged' \in BOOLEAN
  BY <1>1, Zenon
<2>2. auxLost' \in BOOLEAN
  BY <1>1, Zenon DEF AuxLoses
<2> QED BY <1>1, <2>1, <2>2 DEF Ps2Inv, AuxInv, AuxTypes
<1>9. MotionOK'
<2>1. auxGiven \in Int
  BY DEF Ps2Inv, AuxInv, AuxTypes
<2>2. auxMoved' = auxGiven' + auxX' /\ auxX' = 0
  BY <1>1, <2>1
<2> QED BY <2>2 DEF MotionOK
<1>10. StreamOK' /\ AlignOK'
  BY <1>1, <1>2, <1>3, <1>4, <1>5, AuxDrained DEF Ps2Inv, Reading
<1>11. PacketOK'
  BY <1>1, <1>3 DEF Ps2Inv, AuxInv, PacketOK
<1> QED BY <1>6, <1>7, <1>8, <1>9, <1>10, <1>11 DEF Ps2Inv, AuxInv

LEMMA MouseIsResetOK == ASSUME Ps2Inv, MouseIsReset PROVE Ps2Inv'
<1>1. /\ ps2Pc.pc = "reset" /\ ps2Pc' = Ps2Idle /\ ps2Out' = Nothing /\ ps2On' = ps2On \ {"kbd"}
      /\ UNCHANGED <<ps2Asked, kbdLine, auxLine, kbdState, auxMouse>> /\ AuxLoses
  BY DEF MouseIsReset, Ps2At
<1>2. auxCaller' \in {"enable", "idle"} \/ auxCaller' = auxCaller
  BY DEF MouseIsReset
<1>3. ps2Pc' \in Ps2Pcs /\ ps2Pc'.pc = "idle"
  BY <1>1, AuxPcTyped DEF Ps2Inv, HwTypes
<1>4. ps2Left' \in [codes : Nat, packets : Nat, resets : Nat, faults : Nat]
      /\ ps2Left'.packets = ps2Left.packets
<2>1. \/ ps2Left' = ps2Left
      \/ ps2Left.faults > 0 /\ ps2Left' = [ps2Left EXCEPT !.faults = @ - 1]
  BY DEF MouseIsReset
<2> QED BY <2>1, LeftOK DEF Ps2Inv
<1>5. ps2Out' \in OutBytes /\ ps2Out'.of # "aux"
  BY <1>1, OutTyped
<1>6. HwTypes'
  BY <1>1, <1>3, <1>4, <1>5 DEF Ps2Inv, HwTypes
<1>7. KbdInv'
  BY <1>1, <1>3, KbdByMouse DEF Ps2Inv, AuxPcs
<1>8. AuxInv'
<2>1. auxLost' \in BOOLEAN
  BY <1>1, Zenon DEF AuxLoses
<2>2. AuxSame
  BY <1>1, <1>2, <1>4, <2>1 DEF Ps2Inv, AuxInv, AuxTypes, AuxSame
<2>3. ~Reading /\ ~Reading'
  BY <1>1, <1>3 DEF Reading
<2>4. Noted
  BY <1>1, <1>5, <2>2, <2>3, NotedLost DEF Ps2Inv
<2> QED BY <1>5, <2>2, <2>3, <2>4, AuxElsewhere DEF Ps2Inv
<1> QED BY <1>6, <1>7, <1>8 DEF Ps2Inv

-----------------------------------------------------------------------------
(* The theorem. *)

LEMMA Ps2StepOK == ASSUME Ps2Inv, Ps2Next PROVE Ps2Inv'
  BY KbdSendsOK, AuxSendsOK, AnswersOK, TypesOK, MovesOK, KeyboardTimerHandlerOK, PollScanOK,
     PollEndsOK, GetcharReturnsOK, GetcharTakesOK, GetcharMakesOK, LedDiscardsOK, LedGoesOnOK,
     KeysTakenOK, SetStateOK, KeyboardEfiResetOK, InitKeyboardOK, InitKeyboardFailsOK,
     PollMouseOK, NoPacketOK, FirstByteOK, CheckKbStatusOK, DataByteOK, DataLateOK,
     ProcessPacketOK, GetStateOK, MouseResetOK, MouseIsResetOK DEF Ps2Next

LEMMA Ps2StutterOK == ASSUME Ps2Inv, UNCHANGED ps2Vars PROVE Ps2Inv'
<1>1. ps2Pc' = ps2Pc
      /\ UNCHANGED <<ps2Hw, ps2Left, kbdState, auxState, auxCaller>>
  BY DEF ps2Vars
<1>2. HwTypes'
<2>1. ps2Pc \in Ps2Pcs
  BY DEF Ps2Inv, HwTypes
<2> QED BY <1>1, <2>1, HwElsewhere DEF Ps2Inv
<1>3. KbdInv'
  BY <1>1, KbdElsewhere DEF Ps2Inv, KbdSame
<1>4. AuxInv'
<2>1. AuxSame /\ ps2Out' = ps2Out /\ ps2On' = ps2On /\ auxLost' = auxLost
  BY <1>1 DEF Ps2Inv, AuxInv, AuxTypes, AuxSame, auxState, ps2Hw
<2> QED BY <1>1, <2>1, NotedSame, AuxElsewhere DEF Ps2Inv, Reading
<1> QED BY <1>2, <1>3, <1>4 DEF Ps2Inv

LEMMA Ps2InvImplies == Ps2Inv => Ps2TypeOK /\ InputAsMade
<1> SUFFICES ASSUME Ps2Inv PROVE Ps2TypeOK /\ InputAsMade
  OBVIOUS
<1>1. Ps2TypeOK
<2>1. ps2Out = Nothing \/ ps2Out.of \in {"kbd", "aux", "kbc"}
  BY OutTyped DEF Ps2Inv, HwTypes
<2> QED BY <2>1 DEF Ps2TypeOK, Ps2Inv, HwTypes, KbdInv, KbdTypes, AuxInv, AuxTypes
<1>2. KeysAsTyped
<2> SUFFICES ASSUME ps2Pc.pc \notin {"led", "lights", "made", "restart"}
             PROVE  /\ kbdMade = kbdMeant.keys /\ Len(kbdKeys) <= Len(kbdMade)
                    /\ kbdKeys = SubSeq(kbdMade, Len(kbdMade) - Len(kbdKeys) + 1, Len(kbdMade))
  BY DEF KeysAsTyped
<2>1. kbdMade = kbdMeant.keys
  BY DEF Ps2Inv, KbdInv, KeysOK, KeysMeant, Pending
<2>2. kbdKeys \in Seq(KeyDatas) /\ kbdMade \in Seq(KeyDatas)
  BY DEF Ps2Inv, KbdInv, KbdTypes
<2>3. PICK a \in Nat, b \in Nat : a = Len(kbdMade) /\ b = Len(kbdKeys) /\ b <= a
  BY <2>2 DEF Ps2Inv, KbdInv, QueueOK
<2>4. PICK m \in Int : m = a - b + 1
  OBVIOUS
<2>5. PICK t : t = SubSeq(kbdMade, m, a)
  OBVIOUS
<2>6. /\ t \in Seq(KeyDatas) /\ Len(t) = b
      /\ \A i \in 1 .. b : t[i] = kbdMade[m + i - 1]
<3>1. \A i \in m .. a : kbdMade[i] \in KeyDatas
  BY <2>2, <2>3, <2>4
<3>2. /\ SubSeq(kbdMade, m, a) \in Seq(KeyDatas)
      /\ Len(SubSeq(kbdMade, m, a)) = (IF m <= a THEN a - m + 1 ELSE 0)
      /\ \A i \in 1 .. a - m + 1 : SubSeq(kbdMade, m, a)[i] = kbdMade[m + i - 1]
  BY <3>1, SubSeqProperties
<3>3. a - m + 1 = b /\ (IF m <= a THEN a - m + 1 ELSE 0) = b
  BY <2>3, <2>4
<3> QED BY <2>5, <3>2, <3>3, Zenon
<2>7. \A i \in 1 .. b : t[i] = kbdKeys[i]
<3> SUFFICES ASSUME NEW i \in 1 .. b PROVE t[i] = kbdKeys[i]
  OBVIOUS
<3>1. m + i - 1 = a - b + i
  BY <2>4
<3>2. kbdKeys[i] = kbdMade[a - b + i]
  BY <2>3, Zenon DEF Ps2Inv, KbdInv, QueueOK
<3> QED BY <2>6, <3>1, <3>2, Zenon
<2>8. t = kbdKeys
  BY <2>2, <2>3, <2>6, <2>7, SeqEqual
<2> QED BY <2>1, <2>3, <2>4, <2>5, <2>8, Zenon
<1>3. MotionWhole
  BY DEF Ps2Inv, AuxInv, PacketOK, AlignOK, MotionOK, MotionWhole
<1> QED BY <1>1, <1>2, <1>3 DEF InputAsMade

(* Whatever is typed and however the mouse is moved, for queues of every   *)
(* length: the keys that wait are the last of those that the codes mean    *)
(* which KeyGetchar took, in order, with their modifiers and locks, though *)
(* mouse and keyboard are read from one buffer and the codes come in       *)
(* parts.  What is taken for a packet of the mouse was sent one byte after *)
(* the other, and is one packet unless a byte was late or read by somebody *)
(* else since the last packet taken from its first byte; its caller is     *)
(* told every movement once.                                               *)
THEOREM Ps2Correct == Ps2Spec => [](Ps2TypeOK /\ InputAsMade)
<1>1. Ps2Inv /\ [Ps2Next]_ps2Vars => Ps2Inv'
  BY Ps2StepOK, Ps2StutterOK
<1> QED BY Ps2InitOK, Ps2InvImplies, <1>1, PTL DEF Ps2Spec
=============================================================================
