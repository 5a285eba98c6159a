----------------------------- MODULE UartProofs -----------------------------
(***************************************************************************)
(* Proofs about Uart, for every input and every set of bytes.  The main    *)
(* lemma is that Handshake, which ties the reader's place in its critical  *)
(* section to the register, the line status and the flag, is inductive.    *)
(***************************************************************************)
EXTENDS Uart, TLAPS

\* The emulator's thread never changes what the reader has established inside
\* its critical section.
InSection ==
  /\ rpc \in {"store", "flag", "ready"} => ~rx
  /\ rpc \in {"flag", "ready"} => rhr = byte
  /\ rpc = "ready" => interrupting \/ dpc # "run"

Handshake == InSection /\ DataIsSignalled /\ StatusStable

----------------------------------------------------------------------------

\* The actions keep the types of the variables.
THEOREM TypeCorrect == Spec => []TypeOK
<1>1. Init => TypeOK
  <2> <<>> \in Seq(Byte)
    OBVIOUS
  <2> QED
    BY ByteAssumption, InputAssumption DEF Init, TypeOK
<1>2. TypeOK /\ [Next]_vars => TypeOK'
  <2> SUFFICES ASSUME TypeOK, [Next]_vars PROVE TypeOK'
    OBVIOUS
  <2> USE DEF TypeOK, driver
  <2>1. CASE ReadStdin
    <3>1. source # <<>> => Head(source) \in Byte /\ Tail(source) \in Seq(Byte)
      OBVIOUS
    <3> QED
      BY <2>1, <3>1 DEF ReadStdin
  <2>2. CASE Lock \/ CheckRx \/ SpuriousWakeup
    BY <2>2 DEF Lock, CheckRx, SpuriousWakeup
  <2>3. CASE Store \/ SetFlag \/ SetRx
    BY <2>3 DEF Store, SetFlag, SetRx
  <2>4. CASE is_interrupting \/ PollDevice \/ read_LSR
    BY <2>4 DEF is_interrupting, PollDevice, read_LSR
  <2>5. CASE read_RHR
    <3>1. Append(received, rhr) \in Seq(Byte)
      OBVIOUS
    <3> QED
      BY <2>5, <3>1 DEF read_RHR
  <2>6. CASE UNCHANGED vars
    BY <2>6 DEF vars
  <2> QED
    BY <2>1, <2>2, <2>3, <2>4, <2>5, <2>6 DEF Next, Reader
<1> QED
  BY <1>1, <1>2, PTL DEF Spec

\* Handshake is inductive relative to the types.
LEMMA HandshakeStep == TypeOK /\ Handshake /\ [Next]_vars => Handshake'
<1> SUFFICES ASSUME TypeOK, Handshake, [Next]_vars PROVE Handshake'
  OBVIOUS
<1> USE DEF TypeOK, Handshake, InSection, DataIsSignalled, StatusStable, driver
<1>1. CASE ReadStdin
  BY <1>1 DEF ReadStdin
<1>2. CASE Lock \/ CheckRx \/ SpuriousWakeup
  BY <1>2 DEF Lock, CheckRx, SpuriousWakeup
<1>3. CASE Store \/ SetFlag \/ SetRx
  BY <1>3 DEF Store, SetFlag, SetRx
<1>4. CASE is_interrupting \/ PollDevice
  BY <1>4 DEF is_interrupting, PollDevice
<1>5. CASE read_LSR \/ read_RHR
  BY <1>5 DEF read_LSR, read_RHR, ReaderHolds
<1>6. CASE UNCHANGED vars
  BY <1>6 DEF vars
<1> QED
  BY <1>1, <1>2, <1>3, <1>4, <1>5, <1>6 DEF Next, Reader

\* Handshake holds in every reachable state.
LEMMA HandshakeHolds == Spec => [](TypeOK /\ Handshake)
<1>1. Init => Handshake
  BY DEF Init, Handshake, InSection, DataIsSignalled, StatusStable
<1> QED
  BY <1>1, TypeCorrect, HandshakeStep, PTL DEF Spec

\* A byte in the register is announced to a guest that waits for interrupts,
\* whatever the interleaving of the flag, which is outside the mutex, and the
\* line status, which is inside (the reader thread and is_interrupting).
THEOREM AlwaysSignalled == Spec => []DataIsSignalled
<1>1. TypeOK /\ Handshake => DataIsSignalled
  BY DEF Handshake
<1> QED
  BY <1>1, HandshakeHolds, PTL

\* What the guest read in the line status register holds until it reads the
\* byte.
THEOREM StatusIsStable == Spec => []StatusStable
<1>1. TypeOK /\ Handshake => StatusStable
  BY DEF Handshake
<1> QED
  BY <1>1, HandshakeHolds, PTL

----------------------------------------------------------------------------
(* Refinement.                                                             *)

\* A nonempty sequence is its head followed by its tail.
LEMMA HeadTail ==
  ASSUME NEW S, NEW s \in Seq(S), s # <<>>
  PROVE  <<Head(s)>> \o Tail(s) = s
OBVIOUS

\* Every step of the device is a step of the channel or leaves it unchanged.
LEMMA ChannelStep ==
  ASSUME TypeOK, Handshake, [Next]_vars
  PROVE  [Channel!Next]_(Channel!vars)
<1> DEFINE q == InRegister \o InHand
<1> USE DEF TypeOK, driver, Channel!vars
<1>1. CASE ReadStdin
  <2>1. rpc = "read" /\ rpc' = "lock" /\ UNCHANGED <<rx, rhr, received>>
    BY <1>1 DEF ReadStdin
  <2>2. q = InRegister /\ InRegister \in Seq(Byte) /\ Len(InRegister) < 2
    BY <2>1 DEF InRegister, InHand
  <2>3. q' = InRegister \o <<byte'>> /\ byte' \in Byte
    BY <1>1, <2>1 DEF InRegister, InHand, ReadStdin
  <2>4. q' = Append(InRegister, byte')
    BY <2>2, <2>3
  <2>5. CASE source # <<>>
    <3>1. byte' = Head(source) /\ source' = Tail(source)
      BY <1>1, <2>5 DEF ReadStdin
    <3> HIDE DEF q
    <3> QED
      BY <2>1, <2>2, <2>4, <2>5, <3>1 DEF Channel!Next, Channel!Take, q
  <2>6. CASE source = <<>>
    <3>1. Eof /\ UNCHANGED <<byte, source>>
      BY <1>1, <2>6 DEF ReadStdin
    <3> QED
      BY <2>1, <2>2, <2>4, <2>6, <3>1 DEF Channel!Next, Channel!Repeat
  <2> QED
    BY <2>5, <2>6
<1>2. CASE Lock \/ CheckRx \/ SpuriousWakeup \/ SetFlag
  BY <1>2 DEF Lock, CheckRx, SpuriousWakeup, SetFlag, InRegister, InHand
<1>3. CASE Store
  BY <1>3 DEF Store, InRegister, InHand, Handshake, InSection
<1>4. CASE SetRx
  <2>1. ~rx /\ rx' /\ rhr = byte /\ rpc = "ready" /\ rpc' = "read"
        /\ UNCHANGED <<rhr, byte, source, received>>
    BY <1>4 DEF SetRx, Handshake, InSection
  <2>2. q' = q
    BY <2>1 DEF InRegister, InHand
  <2> QED
    BY <2>1, <2>2
<1>5. CASE is_interrupting \/ PollDevice \/ read_LSR
  BY <1>5 DEF is_interrupting, PollDevice, read_LSR, InRegister, InHand
<1>6. CASE read_RHR
  <2>1. rx /\ ~rx' /\ received' = Append(received, rhr) /\ UNCHANGED <<source, byte, rhr>>
        /\ (rpc' = "read" <=> rpc = "read")
    BY <1>6 DEF read_RHR, Handshake, StatusStable
  <2>2. q = <<rhr>> \o InHand /\ InHand \in Seq(Byte)
    BY <2>1 DEF InRegister, InHand
  <2>3. q # <<>> /\ Head(q) = rhr /\ Tail(q) = InHand
    BY <2>2
  <2>4. q' = InHand
    BY <2>1 DEF InRegister, InHand
  <2> QED
    BY <2>1, <2>3, <2>4 DEF Channel!Next, Channel!Deliver
<1>7. CASE UNCHANGED vars
  BY <1>7 DEF vars, InRegister, InHand
<1> QED
  BY <1>1, <1>2, <1>3, <1>4, <1>5, <1>6, <1>7 DEF Next, Reader

\* The two threads implement a queue of at most two bytes: no byte is lost,
\* duplicated or reordered, and only the end of the input lets the reader
\* thread repeat a byte (the safety part of ImplementsChannel).
THEOREM RefinesChannel == Spec => Channel!Safety
<1>1. Init => Channel!Init
  BY DEF Init, Channel!Init, InRegister, InHand
<1>2. TypeOK /\ Handshake /\ [Next]_vars => [Channel!Next]_(Channel!vars)
  BY ChannelStep
<1> QED
  BY <1>1, <1>2, HandshakeHolds, PTL DEF Spec, Channel!Safety

----------------------------------------------------------------------------
(* Conservation.                                                           *)

\* Concatenation is associative.
LEMMA ConcatAssoc ==
  ASSUME NEW r \in Seq(Byte), NEW s \in Seq(Byte), NEW t \in Seq(Byte)
  PROVE  (r \o s) \o t = r \o (s \o t)
OBVIOUS

\* A step of the channel conserves the bytes.
LEMMA ChannelConserves ==
  ASSUME NEW r \in Seq(Byte), NEW q \in Seq(Byte), NEW s \in Seq(Byte)
  PROVE  /\ s # <<>> => (r \o Append(q, Head(s))) \o Tail(s) = (r \o q) \o s
         /\ q # <<>> => (Append(r, Head(q)) \o Tail(q)) \o s = (r \o q) \o s
<1>1. ASSUME s # <<>> PROVE (r \o Append(q, Head(s))) \o Tail(s) = (r \o q) \o s
  <2> DEFINE h == <<Head(s)>>
  <2>1. h \in Seq(Byte) /\ Tail(s) \in Seq(Byte) /\ h \o Tail(s) = s
    BY <1>1, HeadTail
  <2>2. Append(q, Head(s)) = q \o h
    BY <1>1
  <2> HIDE DEF h
  <2>3. r \o q \in Seq(Byte)
    OBVIOUS
  <2>4. r \o (q \o h) = (r \o q) \o h
    BY <2>1, ConcatAssoc
  <2>5. ((r \o q) \o h) \o Tail(s) = (r \o q) \o (h \o Tail(s))
    BY <2>1, <2>3, ConcatAssoc
  <2> QED
    BY <2>1, <2>2, <2>4, <2>5
<1>2. ASSUME q # <<>> PROVE (Append(r, Head(q)) \o Tail(q)) \o s = (r \o q) \o s
  <2> DEFINE h == <<Head(q)>>
  <2>1. h \in Seq(Byte) /\ Tail(q) \in Seq(Byte) /\ h \o Tail(q) = q
    BY <1>2, HeadTail
  <2>2. Append(r, Head(q)) = r \o h
    BY <1>2
  <2> HIDE DEF h
  <2>3. (r \o h) \o Tail(q) = r \o (h \o Tail(q))
    BY <2>1, ConcatAssoc
  <2> QED
    BY <2>1, <2>2, <2>3
<1> QED
  BY <1>1, <1>2

\* b is the input, followed by repetitions of the byte v if the input has ended
\* and src, what is left of it, is empty.
Extends(b, src, v) ==
  /\ Len(b) >= Len(Input)
  /\ ~Eof \/ src # <<>> => Len(b) = Len(Input)
  /\ \A i \in 1 .. Len(b) : b[i] = IF i <= Len(Input) THEN Input[i] ELSE v

\* What the guest has received, the register, the reader's hand and the rest of
\* the input make up the input in every reachable state, followed by
\* repetitions of its last byte if it has ended.
THEOREM NothingLost == Spec => []Conserved
<1> DEFINE q == InRegister \o InHand
           Sum == Extends((received \o q) \o source, source, byte)
<1>1. TypeOK => InRegister \in Seq(Byte) /\ InHand \in Seq(Byte) /\ q \in Seq(Byte)
  BY DEF TypeOK, InRegister, InHand
<1>2. Init => Sum
  <2> SUFFICES ASSUME Init PROVE Sum
    OBVIOUS
  <2>1. (received \o q) \o source = Input /\ source = Input
    BY InputAssumption DEF Init, InRegister, InHand
  <2> HIDE DEF q
  <2> QED
    BY <2>1, InputAssumption DEF Extends
<1>3. TypeOK /\ Handshake /\ Sum /\ [Next]_vars => Sum'
  <2> SUFFICES ASSUME TypeOK, Handshake, Sum, [Next]_vars PROVE Sum'
    OBVIOUS
  <2>1. [Channel!Next]_(Channel!vars)
    BY ChannelStep
  <2>2. received \in Seq(Byte) /\ source \in Seq(Byte) /\ q \in Seq(Byte) /\ byte \in Byte
    BY <1>1 DEF TypeOK
  <2> DEFINE b == (received \o q) \o source
  <2>3. Extends(b, source, byte) /\ b \in Seq(Byte)
    BY <2>2
  <2>4. CASE Channel!Take
    <3>1. source # <<>> /\ q' = Append(q, Head(source)) /\ source' = Tail(source)
          /\ received' = received
      BY <2>4 DEF Channel!Take
    <3>2. b' = b
      <4> HIDE DEF q
      <4> QED
        BY <2>2, <3>1, ChannelConserves
    <3> HIDE DEF b
    <3>3. Extends(b, source', byte')
      BY <2>3, <3>1, InputAssumption DEF Extends
    <3> QED
      BY <3>2, <3>3 DEF b
  <2>5. CASE Channel!Repeat
    <3>1. Eof /\ source = <<>> /\ q' = Append(q, byte) /\ UNCHANGED <<source, byte, received>>
      BY <2>5 DEF Channel!Repeat
    <3>2. b' = Append(b, byte)
      <4> HIDE DEF q
      <4>1. b = received \o q /\ b' = received \o Append(q, byte)
        BY <2>2, <3>1
      <4> QED
        BY <2>2, <4>1
    <3> HIDE DEF b
    <3>3. Extends(Append(b, byte), source, byte)
      BY <2>2, <2>3, <3>1, InputAssumption DEF Extends
    <3> QED
      BY <3>1, <3>2, <3>3 DEF b
  <2>6. CASE Channel!Deliver
    <3>1. q # <<>> /\ received' = Append(received, Head(q)) /\ q' = Tail(q)
          /\ source' = source /\ byte' = byte
      BY <2>6 DEF Channel!Deliver
    <3>2. b' = b
      <4> HIDE DEF q
      <4> QED
        BY <2>2, <3>1, ChannelConserves
    <3> QED
      BY <2>3, <3>1, <3>2
  <2>7. CASE UNCHANGED Channel!vars
    BY <2>7 DEF Channel!vars
  <2> QED
    BY <2>1, <2>4, <2>5, <2>6, <2>7 DEF Channel!Next
<1>4. TypeOK /\ Sum => Conserved
  <2> SUFFICES ASSUME TypeOK, Sum PROVE Conserved
    OBVIOUS
  <2>1. (received \o InRegister) \o InHand = received \o q
    BY <1>1, ConcatAssoc DEF TypeOK
  <2>2. Bytes = (received \o q) \o source
    BY <2>1 DEF Bytes
  <2> HIDE DEF q
  <2> QED
    BY <2>2 DEF Extends, Conserved
<1> HIDE DEF Sum
<1> QED
  BY <1>2, <1>3, <1>4, HandshakeHolds, PTL DEF Spec
=============================================================================
