--------------------------- MODULE BrowserProofs ---------------------------
(***************************************************************************)
(* The keys typed into the page reach the guest in order and once, however *)
(* many there are, however long a slice is and however rarely the UART     *)
(* looks for them.                                                         *)
(***************************************************************************)
EXTENDS Browser, TLAPS

\* TypeOK; the guest answers a byte only after it has received one.
Typed == TypeOK /\ (guest = "thr" => received # <<>>)

LEMMA TypedInit == Init => Typed
<1>1. 0 \in Byte /\ 0 \in 0 .. SliceTurns /\ 0 \in 0 .. ClockLimit
  BY BrowserAssumption DEF Byte
<1>2. <<>> \in Seq(Key) /\ <<>> \in Seq(Byte)
  OBVIOUS
<1> QED
  BY <1>1, <1>2 DEF Init, Typed, TypeOK

\* What the UART takes is a code, and a byte unless parsing it fails.
LEMMA InputType ==
  ASSUME Typed
  PROVE  /\ get_input \in Nat /\ (~ParseFails => get_input \in Byte)
         /\ buffer # <<>> => Tail(buffer) \in Seq(Key)
<1>1. buffer \in Seq(Key) /\ Key \subseteq Nat /\ ByteMax \in Nat
  BY BrowserAssumption DEF Typed, TypeOK
<1>2. buffer # <<>> => Head(buffer) \in Key /\ Tail(buffer) \in Seq(Key)
  BY <1>1
<1>3. get_input \in Nat
  BY <1>1, <1>2 DEF get_input
<1>4. ~ParseFails => get_input \in Byte
  BY <1>1, <1>3 DEF ParseFails, Byte
<1> QED
  BY <1>2, <1>3, <1>4

LEMMA TypedNext == Typed /\ [Next]_vars => Typed'
<1> SUFFICES ASSUME Typed, [Next]_vars PROVE Typed'
  OBVIOUS
<1>0. TypeOK /\ SliceTurns \in Nat \ {0} /\ ClockLimit \in Nat
  BY BrowserAssumption DEF Typed
<1>1. ASSUME NEW k \in Key, OnKey(k) PROVE Typed'
  <2>1. typed' \in Seq(Key) /\ buffer' \in Seq(Key)
    BY <1>0, <1>1 DEF OnKey, TypeOK
  <2> QED
    BY <1>0, <1>1, <2>1 DEF OnKey, Typed, TypeOK, uart, kernel
<1>2. CASE OnMessage
  <2>1. screen' \in Seq(Byte) /\ posted' \in Seq(Byte)
    BY <1>0, <1>2 DEF OnMessage, TypeOK
  <2> QED
    BY <1>0, <1>2, <2>1 DEF OnMessage, Typed, TypeOK, uart, kernel
<1>3. CASE emulator_start \/ resume
  BY <1>0, <1>3 DEF emulator_start, resume, Typed, TypeOK, page, uart, kernel
<1>4. CASE CountTurn
  <2>1. count' \in 0 .. SliceTurns /\ where' \in {"waiting", "check"}
    BY <1>0, <1>4 DEF CountTurn, TypeOK
  <2> QED
    BY <1>0, <1>4, <2>1 DEF CountTurn, Typed, TypeOK, page, uart, kernel
<1>5. CASE NoPoll
  BY <1>0, <1>5 DEF NoPoll, Typed, TypeOK, page, uart, kernel
<1>6. CASE PollPanics
  <2>1. buffer # <<>>
    BY <1>0, <1>6, BrowserAssumption DEF PollPanics, ParseFails, get_input
  <2> QED
    BY <1>0, <1>6, <2>1, InputType DEF PollPanics, Typed, TypeOK, kernel
<1>7. CASE Poll
  <2>1. clock' \in 0 .. ClockLimit
    BY <1>0, <1>7 DEF Poll, is_interrupting, Looks, TypeOK
  <2>2. buffer' \in Seq(Key)
    BY <1>0, <1>7, InputType DEF Poll, is_interrupting, TypeOK
  <2>3. rhr' \in Byte
    BY <1>0, <1>7, InputType DEF Poll, is_interrupting, Found, TypeOK
  <2>4. not_null' \in BOOLEAN /\ rx' \in BOOLEAN /\ seip' \in BOOLEAN /\ deferred' \in BOOLEAN
    BY <1>0, <1>7, Zenon DEF Poll, is_interrupting, Found, Looks, TypeOK
  <2>5. guest' \in {"early", "kernel", "lsr"} /\ where' = "execute"
    BY <1>7 DEF Poll, InterruptsOn
  <2>6. UNCHANGED <<typed, posted, screen, count, received>>
    BY <1>7 DEF Poll
  <2> QED
    BY <1>0, <2>1, <2>2, <2>3, <2>4, <2>5, <2>6 DEF Typed, TypeOK
<1>8. CASE Work \/ Unmask \/ read_LSR
  BY <1>0, <1>8 DEF Work, Unmask, read_LSR, Executed, Typed, TypeOK, uart
<1>9. CASE read_RHR
  <2>1. received' \in Seq(Byte) /\ received' # <<>>
    BY <1>0, <1>9 DEF read_RHR, TypeOK
  <2> QED
    BY <1>0, <1>9, <2>1 DEF read_RHR, Executed, Typed, TypeOK
<1>10. CASE write_THR
  <2>1. received \in Seq(Byte) /\ received # <<>>
    BY <1>0, <1>10 DEF write_THR, Typed, TypeOK
  <2>2. Last(received) \in Byte
    BY <2>1 DEF Last
  <2>3. posted' \in Seq(Byte)
    BY <1>0, <1>10, <2>2 DEF write_THR, TypeOK
  <2> QED
    BY <1>0, <1>10, <2>3 DEF write_THR, Executed, Typed, TypeOK, uart
<1>11. CASE FatalTrap
  BY <1>0, <1>11 DEF FatalTrap, Typed, TypeOK, page, uart, kernel
<1>12. CASE UNCHANGED vars
  BY <1>0, <1>12 DEF vars, Typed, TypeOK
<1> QED
  BY <1>1, <1>2, <1>3, <1>4, <1>5, <1>6, <1>7, <1>8, <1>9, <1>10, <1>11, <1>12
  DEF Next, Emulator, Check, Execute

\* The UART's register holds a byte also when the page queues keys that are not
\* bytes, its poll counter stays within its limit, and the slices end
\* (is_interrupting and emulator_start).
THEOREM TypeCorrect == Spec => []TypeOK
<1>1. Typed => TypeOK
  BY DEF Typed
<1> QED
  BY <1>1, TypedInit, TypedNext, PTL DEF Spec

----------------------------------------------------------------------------
(* Keys.                                                                   *)

\* Keys typed later change nothing of what the first n show.
LEMMA ShowsLonger ==
  ASSUME NEW out \in Seq(Nat), NEW s \in Seq(Nat), NEW k \in Nat, NEW n \in 0 .. Len(s),
         Shows(out, s, n)
  PROVE  Shows(out, Append(s, k), n)
<1> DEFINE t == Append(s, k)
<1>1. ASSUME NEW i \in 1 .. n PROVE t[i] = s[i]
  OBVIOUS
<1> HIDE DEF t
<1>2. PICK at \in [1 .. Len(out) -> 1 .. n] : Places(at, out, s, n)
  BY DEF Shows
<1>3. \A i \in 1 .. Len(out) : t[at[i]] = s[at[i]]
  BY <1>1, <1>2
<1>4. Places(at, out, t, n)
  BY <1>1, <1>2, <1>3 DEF Places
<1> QED
  BY <1>2, <1>4 DEF Shows, t

\* A key with the code 0 shows nothing.
LEMMA ShowsNothing ==
  ASSUME NEW out \in Seq(Nat), NEW s \in Seq(Nat), NEW n \in Nat, Shows(out, s, n), s[n + 1] = 0
  PROVE  Shows(out, s, n + 1)
<1>1. PICK at \in [1 .. Len(out) -> 1 .. n] : Places(at, out, s, n)
  BY DEF Shows
<1>2. at \in [1 .. Len(out) -> 1 .. n + 1]
  BY <1>1
<1>3. ASSUME NEW l \in 1 .. n + 1, s[l] # 0 PROVE \E i \in 1 .. Len(out) : at[i] = l
  <2>1. l \in 1 .. n
    BY <1>3
  <2> QED
    BY <1>1, <1>3, <2>1 DEF Places
<1>4. Places(at, out, s, n + 1)
  BY <1>1, <1>3 DEF Places
<1> QED
  BY <1>2, <1>4 DEF Shows

\* Any other key shows itself.
LEMMA ShowsKey ==
  ASSUME NEW out \in Seq(Nat), NEW s \in Seq(Nat), NEW n \in Nat, Shows(out, s, n), s[n + 1] # 0,
         s[n + 1] \in Nat
  PROVE  Shows(Append(out, s[n + 1]), s, n + 1)
<1>1. PICK at \in [1 .. Len(out) -> 1 .. n] : Places(at, out, s, n)
  BY DEF Shows
<1> DEFINE m == Len(out)
           more == Append(out, s[n + 1])
           to == [i \in 1 .. m + 1 |-> IF i = m + 1 THEN n + 1 ELSE at[i]]
<1>2. m \in Nat /\ Len(more) = m + 1 /\ more[m + 1] = s[n + 1]
      /\ \A i \in 1 .. m : more[i] = out[i]
  OBVIOUS
<1>3. /\ to[m + 1] = n + 1 /\ \A i \in 1 .. m : to[i] = at[i] /\ at[i] \in 1 .. n
      /\ \A i \in 1 .. m + 1 : i = m + 1 \/ i \in 1 .. m
  <2> HIDE DEF m
  <2>1. m + 1 \in 1 .. m + 1 /\ \A i \in 1 .. m : i \in 1 .. m + 1 /\ i # m + 1
    BY <1>2
  <2>2. \A i \in 1 .. m + 1 : i = m + 1 \/ i \in 1 .. m
    BY <1>2
  <2>3. \A i \in 1 .. m : at[i] \in 1 .. n
    BY <1>1 DEF m
  <2>4. to[m + 1] = n + 1
    BY <2>1
  <2>5. \A i \in 1 .. m : to[i] = at[i]
    BY <2>1
  <2> QED
    BY <2>2, <2>3, <2>4, <2>5
<1>4. to \in [1 .. m + 1 -> 1 .. n + 1]
  BY <1>1, <1>2
<1> HIDE DEF m, more, to
<1>5. ASSUME NEW i \in 1 .. m + 1, NEW j \in 1 .. m + 1, i < j PROVE to[i] < to[j]
  <2>1. i \in 1 .. m
    BY <1>2, <1>5
  <2>2. CASE j = m + 1
    BY <1>3, <2>1, <2>2
  <2>3. CASE j \in 1 .. m
    BY <1>1, <1>3, <1>5, <2>1, <2>3 DEF Places, m
  <2> QED
    BY <1>3, <2>2, <2>3
<1>6. ASSUME NEW i \in 1 .. m + 1 PROVE more[i] = s[to[i]] /\ s[to[i]] # 0
  BY <1>1, <1>2, <1>3 DEF Places, m
<1>7. ASSUME NEW l \in 1 .. n + 1, s[l] # 0 PROVE \E i \in 1 .. m + 1 : to[i] = l
  <2>1. CASE l = n + 1
    <3>1. m + 1 \in 1 .. m + 1
      BY <1>2
    <3> QED
      BY <1>3, <2>1, <3>1
  <2>2. CASE l # n + 1
    <3>1. l \in 1 .. n
      BY <2>2
    <3>2. PICK i \in 1 .. m : at[i] = l
      BY <1>1, <1>7, <3>1 DEF Places, m
    <3>3. i \in 1 .. m + 1 /\ to[i] = l
      BY <1>2, <1>3, <3>2
    <3> QED
      BY <3>3
  <2> QED
    BY <2>1, <2>2
<1>8. Places(to, more, s, n + 1)
  BY <1>2, <1>5, <1>6, <1>7 DEF Places
<1> QED
  BY <1>2, <1>4, <1>8 DEF Shows, more

\* KeysConserved; while the interrupt of every byte is taken at once, a byte is
\* in the register only while the guest's handler runs, and the handler reads
\* the register only when a byte is in it.
Kept ==
  /\ Typed
  /\ Len(buffer) <= Len(typed)
  /\ rx /\ ~deferred => guest \in {"lsr", "rhr"}
  /\ guest = "rhr" => rx
  /\ KeysConserved

LEMMA KeptInit == Init => Kept
<1> SUFFICES ASSUME Init PROVE Kept
  OBVIOUS
<1>1. /\ typed = <<>> /\ buffer = <<>> /\ received = <<>> /\ rx = FALSE /\ guest = "off"
      /\ InRegister = <<>>
  BY DEF Init, InRegister
<1>2. Len(typed) = 0 /\ Len(buffer) = 0 /\ Taken = 0 /\ received \o InRegister = <<>>
  BY <1>1 DEF Taken
<1> DEFINE at == [i \in 1 .. 0 |-> i]
<1>3. at \in [1 .. Len(<<>>) -> 1 .. 0] /\ Places(at, <<>>, typed, 0)
  BY DEF Places
<1>4. Shows(received \o InRegister, typed, Taken)
  BY <1>2, <1>3 DEF Shows
<1>5. KeysConserved
  BY <1>2, <1>4 DEF KeysConserved
<1> QED
  BY TypedInit, <1>1, <1>2, <1>5 DEF Kept

\* What the facts about Shows need of the state.
LEMMA Codes ==
  ASSUME Typed
  PROVE  /\ typed \in Seq(Nat) /\ buffer \in Seq(Nat) /\ received \in Seq(Nat)
         /\ rhr \in Nat /\ InRegister \in Seq(Nat) /\ received \o InRegister \in Seq(Nat)
<1>1. typed \in Seq(Nat) /\ buffer \in Seq(Nat)
  <2>1. ASSUME NEW s \in Seq(Key) PROVE s \in Seq(Nat)
    <3>1. Len(s) \in Nat /\ DOMAIN s = 1 .. Len(s) /\ \A i \in 1 .. Len(s) : s[i] \in Key
      OBVIOUS
    <3>2. \A i \in 1 .. Len(s) : s[i] \in Nat
      BY <3>1, BrowserAssumption
    <3> QED
      BY <3>1, <3>2
  <2>2. typed \in Seq(Key) /\ buffer \in Seq(Key)
    BY DEF Typed, TypeOK
  <2> QED
    BY <2>1, <2>2
<1>2. received \in Seq(Nat) /\ rhr \in Nat
  BY BrowserAssumption DEF Typed, TypeOK, Byte
<1>3. InRegister \in Seq(Nat)
  BY <1>2 DEF InRegister
<1> QED
  BY <1>1, <1>2, <1>3

\* A step that moves no key conserves them.
LEMMA NoKeyMoves ==
  ASSUME KeysConserved, UNCHANGED <<typed, buffer, received, rhr, rx, deferred>>,
         where = "panicked" => where' = "panicked"
  PROVE  KeysConserved'
BY DEF KeysConserved, InRegister, Taken

LEMMA KeptOnKey ==
  ASSUME Kept, NEW k \in Key, OnKey(k)
  PROVE  Kept'
<1>1. Typed /\ KeysConserved /\ k \in Nat /\ Len(buffer) <= Len(typed)
  BY BrowserAssumption DEF Kept
<1>2. Typed'
  BY <1>1, TypedNext DEF Next
<1>3. /\ typed' = Append(typed, k) /\ buffer' = Append(buffer, k)
      /\ UNCHANGED <<received, rhr, rx, deferred, where, guest>>
  BY DEF OnKey, uart, kernel
<1>4. typed \in Seq(Nat) /\ buffer \in Seq(Nat) /\ received \o InRegister \in Seq(Nat)
  BY <1>1, Codes
<1>5. Len(typed') = Len(typed) + 1 /\ Len(buffer') = Len(buffer) + 1
  BY <1>3, <1>4
<1>6. Taken' = Taken /\ Taken \in 0 .. Len(typed)
  BY <1>1, <1>4, <1>5 DEF Taken
<1>7. InRegister' = InRegister
  BY <1>3 DEF InRegister
<1>8. ASSUME ~deferred', where' # "panicked" PROVE KeysConserved'
  <2>1. /\ \A i \in 1 .. Len(buffer) : buffer[i] = typed[Taken + i]
        /\ Shows(received \o InRegister, typed, Taken)
    BY <1>1, <1>3, <1>8 DEF KeysConserved
  <2>2. ASSUME NEW i \in 1 .. Len(buffer') PROVE buffer'[i] = typed'[Taken' + i]
    <3>1. CASE i = Len(buffer) + 1
      <4>1. Taken + i = Len(typed) + 1
        BY <1>4, <3>1 DEF Taken
      <4> QED
        BY <1>3, <1>4, <1>6, <3>1, <4>1
    <3>2. CASE i \in 1 .. Len(buffer)
      <4>1. Taken + i \in 1 .. Len(typed)
        BY <1>1, <1>4, <3>2 DEF Taken
      <4>2. buffer'[i] = buffer[i] /\ typed'[Taken + i] = typed[Taken + i]
        BY <1>3, <1>4, <3>2, <4>1
      <4> QED
        BY <1>6, <2>1, <3>2, <4>2
    <3> QED
      BY <1>4, <1>5, <3>1, <3>2
  <2>3. Shows(received \o InRegister, typed', Taken)
    BY <1>1, <1>3, <1>4, <1>6, <2>1, ShowsLonger
  <2> QED
    BY <1>3, <1>6, <1>7, <2>2, <2>3 DEF KeysConserved
<1>9. KeysConserved'
  BY <1>8 DEF KeysConserved
<1> QED
  BY <1>2, <1>3, <1>4, <1>5, <1>9 DEF Kept

\* The guest takes the byte out of the register.
LEMMA KeptRead ==
  ASSUME Kept, read_RHR
  PROVE  Kept'
<1>1. Typed /\ KeysConserved /\ rx /\ Len(buffer) <= Len(typed)
  BY DEF Kept, read_RHR
<1>2. Typed'
  BY <1>1, TypedNext DEF Next, Emulator, Execute
<1>3. /\ received' = Append(received, rhr) /\ rx' = FALSE /\ where # "panicked"
      /\ UNCHANGED <<typed, buffer, deferred>> /\ guest' = "thr"
  BY DEF read_RHR, Executed
<1>4. received \in Seq(Nat) /\ rhr \in Nat
  BY <1>1, Codes
<1>5. InRegister = <<rhr>> /\ InRegister' = <<>>
  BY <1>1, <1>3 DEF InRegister
<1>6. Append(received, rhr) \o <<>> = received \o <<rhr>>
  BY <1>4
<1>7. (received \o InRegister)' = received \o InRegister
  BY <1>3, <1>5, <1>6
<1>8. KeysConserved'
  BY <1>1, <1>3, <1>7 DEF KeysConserved, Taken
<1> QED
  BY <1>1, <1>2, <1>3, <1>8 DEF Kept

\* The UART takes a key while the interrupt of the byte before it was taken, so
\* that the guest has read it.
LEMMA KeptPoll ==
  ASSUME Kept, Poll
  PROVE  Kept'
<1>1. Typed /\ KeysConserved /\ Len(buffer) <= Len(typed) /\ is_interrupting
  BY DEF Kept, Poll
<1>2. Typed'
  BY <1>1, TypedNext DEF Next, Emulator, Check
<1>3. /\ UNCHANGED <<typed, received>> /\ where = "check" /\ where' = "execute"
      /\ guest \in {"early", "kernel"} /\ guest' \in {"early", "kernel", "lsr"}
  BY DEF Poll, InterruptsOn
<1>4. /\ typed \in Seq(Nat) /\ buffer \in Seq(Nat) /\ received \in Seq(Nat)
      /\ received \o InRegister \in Seq(Nat)
  BY <1>1, Codes
<1>5. ASSUME ~deferred' PROVE ~deferred /\ ~rx /\ (Found => guest' = "lsr")
  <2>1. ~deferred /\ ~(Found /\ guest = "early")
    BY <1>5, Zenon DEF Poll
  <2>2. ~rx
    BY <1>3, <2>1 DEF Kept
  <2>3. Found => guest' = "lsr"
    BY <1>3, <2>1 DEF Poll
  <2> QED
    BY <2>1, <2>2, <2>3
<1>6. CASE ~Looks \/ buffer = <<>>
  <2>1. ~Found
    BY <1>6 DEF Found, get_input
  <2>2. UNCHANGED <<buffer, rhr>>
    BY <1>1, <1>6, <2>1 DEF is_interrupting
  <2>3. rx' = rx
    BY <1>1, <2>1, Zenon DEF is_interrupting, Typed, TypeOK
  <2>4. KeysConserved'
    <3> SUFFICES ASSUME ~deferred', where' # "panicked" PROVE KeysConserved'
      BY DEF KeysConserved
    <3>1. /\ \A i \in 1 .. Len(buffer) : buffer[i] = typed[Taken + i]
          /\ Shows(received \o InRegister, typed, Taken)
      BY <1>1, <1>3, <1>5 DEF KeysConserved
    <3>2. UNCHANGED <<Taken, InRegister, received, buffer, typed>>
      BY <1>3, <2>2, <2>3 DEF Taken, InRegister
    <3> QED
      BY <3>1, <3>2 DEF KeysConserved
  <2>5. rx' /\ ~deferred' => FALSE
    BY <1>5, <2>3
  <2> QED
    BY <1>1, <1>2, <1>3, <2>2, <2>4, <2>5 DEF Kept
<1>7. CASE Looks /\ buffer # <<>>
  <2>1. buffer' = Tail(buffer) /\ get_input = Head(buffer)
    BY <1>1, <1>7 DEF is_interrupting, get_input
  <2>2. /\ Len(buffer) \in Nat \ {0} /\ Len(buffer') = Len(buffer) - 1 /\ Head(buffer) = buffer[1]
        /\ \A i \in 1 .. Len(buffer') : buffer'[i] = buffer[i + 1] /\ i + 1 \in 1 .. Len(buffer)
    BY <1>4, <1>7, <2>1
  <2>3. Taken \in Nat /\ Taken' = Taken + 1 /\ Taken + 1 \in 1 .. Len(typed)
    BY <1>1, <1>3, <1>4, <2>2 DEF Taken
  <2>4. ASSUME ~deferred', where' # "panicked" PROVE KeysConserved'
    <3>1. /\ \A i \in 1 .. Len(buffer) : buffer[i] = typed[Taken + i]
          /\ Shows(received \o InRegister, typed, Taken)
      BY <1>1, <1>3, <1>5, <2>4 DEF KeysConserved
    <3>2. typed[Taken + 1] = Head(buffer)
      BY <2>2, <3>1
    <3>3. ASSUME NEW i \in 1 .. Len(buffer') PROVE buffer'[i] = typed'[Taken' + i]
      <4>1. buffer'[i] = buffer[i + 1] /\ buffer[i + 1] = typed[Taken + (i + 1)]
        BY <2>2, <3>1
      <4>2. Taken + (i + 1) = Taken' + i
        BY <2>2, <2>3
      <4> QED
        BY <1>3, <4>1, <4>2
    <3>4. InRegister = <<>> /\ received \o InRegister = received
      BY <1>4, <1>5, <2>4 DEF InRegister
    <3>5. Shows((received \o InRegister)', typed, Taken + 1)
      <4>1. CASE Head(buffer) = 0
        <5>1. ~Found
          BY <2>1, <4>1 DEF Found
        <5>2. ~rx'
          BY <1>1, <1>5, <2>4, <5>1, Zenon DEF is_interrupting
        <5>3. (received \o InRegister)' = received
          BY <1>3, <1>4, <5>2 DEF InRegister
        <5> QED
          BY <1>4, <2>3, <3>1, <3>2, <3>4, <4>1, <5>3, ShowsNothing
      <4>2. CASE Head(buffer) # 0
        <5>1. Found
          BY <1>7, <2>1, <4>2 DEF Found
        <5>2. rx' /\ rhr' = Head(buffer)
          BY <1>1, <2>1, <5>1 DEF is_interrupting
        <5>3. (received \o InRegister)' = received \o <<Head(buffer)>>
          BY <1>3, <5>2 DEF InRegister
        <5>4. received \o <<Head(buffer)>> = Append(received, Head(buffer)) /\ Head(buffer) \in Nat
          BY <1>4, <1>7
        <5>5. Shows(Append(received, typed[Taken + 1]), typed, Taken + 1)
          BY <1>4, <2>3, <3>1, <3>2, <3>4, <4>2, <5>4, ShowsKey
        <5> QED
          BY <3>2, <5>3, <5>4, <5>5
      <4> QED
        BY <4>1, <4>2
    <3> QED
      BY <1>3, <2>3, <3>3, <3>5 DEF KeysConserved
  <2>5. KeysConserved'
    BY <2>4 DEF KeysConserved
  <2>6. rx' /\ ~deferred' => guest' = "lsr"
    BY <1>1, <1>5, Zenon DEF is_interrupting
  <2>7. Len(buffer') <= Len(typed')
    BY <1>1, <1>3, <1>4, <2>2
  <2> QED
    BY <1>2, <1>3, <2>5, <2>6, <2>7 DEF Kept
<1> QED
  BY <1>6, <1>7

LEMMA KeptNext == Kept /\ [Next]_vars => Kept'
<1> SUFFICES ASSUME Kept, [Next]_vars PROVE Kept'
  OBVIOUS
<1>1. Typed /\ Typed' /\ KeysConserved /\ Len(buffer) <= Len(typed)
  BY TypedNext DEF Kept
<1>2. ASSUME NEW k \in Key, OnKey(k) PROVE Kept'
  BY <1>2, KeptOnKey
<1>3. CASE OnMessage \/ emulator_start \/ resume \/ CountTurn \/ NoPoll \/ FatalTrap \/ UNCHANGED vars
  <2>1. /\ UNCHANGED <<typed, buffer, received, rhr, rx, deferred, guest>>
        /\ where = "panicked" => where' = "panicked"
    BY <1>3 DEF OnMessage, emulator_start, resume, CountTurn, NoPoll, FatalTrap, vars, page, uart,
                kernel
  <2>2. KeysConserved'
    BY <1>1, <2>1, NoKeyMoves
  <2> QED
    BY <1>1, <2>1, <2>2 DEF Kept
<1>4. CASE Work \/ Unmask \/ read_LSR \/ write_THR
  <2>1. /\ UNCHANGED <<typed, buffer, received, rhr, rx, deferred>>
        /\ where = "execute"
        /\ guest # "rhr"
        /\ guest' = "rhr" => rx
        /\ guest = "lsr" /\ rx => guest' = "rhr"
    BY <1>4 DEF Work, Unmask, read_LSR, write_THR, Executed, uart
  <2>2. KeysConserved'
    BY <1>1, <2>1, NoKeyMoves
  <2> QED
    BY <1>1, <2>1, <2>2 DEF Kept
<1>5. CASE read_RHR
  BY <1>5, KeptRead
<1>6. CASE PollPanics
  <2>1. buffer # <<>> /\ buffer \in Seq(Nat) /\ typed \in Seq(Nat)
    BY <1>1, <1>6, Codes, BrowserAssumption DEF PollPanics, ParseFails, get_input
  <2>2. /\ buffer' = Tail(buffer) /\ where' = "panicked"
        /\ UNCHANGED <<typed, rx, deferred, guest>>
    BY <1>6 DEF PollPanics, kernel
  <2>3. Len(buffer') <= Len(typed')
    BY <1>1, <2>1, <2>2
  <2> QED
    BY <1>1, <2>2, <2>3 DEF Kept, KeysConserved
<1>7. CASE Poll
  BY <1>7, KeptPoll
<1> QED
  BY <1>2, <1>3, <1>4, <1>5, <1>6, <1>7 DEF Next, Emulator, Check, Execute

\* No key is lost, repeated or overtaken between the page and the guest while
\* the interrupt of every byte is taken at once (get_input, is_interrupting
\* and check_pending_interrupt).
THEOREM KeysReachGuest == Spec => []KeysConserved
<1>1. Kept => KeysConserved
  BY DEF Kept
<1> QED
  BY <1>1, KeptInit, KeptNext, PTL DEF Spec
=============================================================================
