----------------------------- MODULE Pins_proofs -----------------------------
(***************************************************************************)
(* Proofs about Pins, for whatever fields the uPP has, as long as they are  *)
(* none of those of the rate pins: every level that is written shows on its *)
(* pin, the pins show what was asked for last, and the uPP keeps its pins.  *)
(*                                                                          *)
(* The argument looks ahead: what is not set yet must be set by an access   *)
(* that the running routine has yet to make, and early enough.              *)
(***************************************************************************)
EXTENDS Pins, SequenceTheorems, TLAPS

Accesses == {Mux(p) : p \in Pins} \cup {Out(p) : p \in Pins} \cup {<<"upp">>}
              \cup UNION {{Put(p, l) : l \in Levels} : p \in Written}

\* The access a is among the first n of q.
Soon(q, n, a) == \E m \in 1 .. n : q[m] = a

\* The pin p is connected to the GPIO, or will be by the first n accesses to come.
WillConnect(p, n) == /\ mux[Field[p]] = "GPIO" \/ Soon(todo, n, Mux(p))
                     /\ p \in dir \/ Soon(todo, n, Out(p))

IsWrite(a) == a[1] = "write"

\* A pin is connected before a level is written to it.
WriteInv == \A n \in 1 .. Len(todo) : \A p \in Pins :
              IsWrite(todo[n]) /\ todo[n][2] = p => WillConnect(p, n - 1)

\* The pins of the rate and of the channel, and the levels asked of them.
SettingPins == {ChannelPin, 22, 144, 141, 142}
Wanted(p) == IF p = ChannelPin THEN channel
             ELSE IF p = 22 THEN (rate - 1) \div 8
             ELSE IF p = 144 THEN ((rate - 1) \div 4) % 2
             ELSE IF p = 141 THEN ((rate - 1) \div 2) % 2
             ELSE (rate - 1) % 2

\* From START on they are connected, or will be; what is still to be written to
\* them is the level asked for, and they have it if nothing is.
SettingInv ==
  phase = "started" =>
    /\ rate \in Rates
    /\ \A p \in SettingPins :
         /\ WillConnect(p, Len(todo))
         /\ \A n \in 1 .. Len(todo) : IsWrite(todo[n]) /\ todo[n][2] = p => todo[n][3] = Wanted(p)
         /\ \/ \E n \in 1 .. Len(todo) : IsWrite(todo[n]) /\ todo[n][2] = p
            \/ level[p] = Wanted(p)

\* The uPP has its pins, or will have them.
UppInv == phase = "started" => Soon(todo, Len(todo), <<"upp">>) \/ \A f \in UppFields : mux[f] = "UPP"

IInv == /\ TypeOK
        /\ todo \in Seq(Accesses) /\ (phase = "loop" => todo = <<>>)
        /\ WriteInv /\ SettingInv /\ UppInv

-----------------------------------------------------------------------------
(* The registers and the routines *)

\* The fields of the pins are fields, and none of them belongs to the uPP.
LEMMA FieldIs == \A p \in Pins : Field[p] \in Fields /\ Field[p] \notin UppFields
<1> SUFFICES ASSUME NEW p \in Pins PROVE Field[p] \in Fields /\ Field[p] \notin UppFields
  OBVIOUS
<1>1. Field[p] \in {<<1, 7>>, <<1, 6>>, <<1, 5>>, <<1, 2>>, <<1, 1>>, <<4, 3>>, <<4, 2>>,
                    <<18, 5>>, <<18, 4>>, <<18, 2>>}
  BY DEF Field, Pins
<1> HIDE DEF Pins
<1>2. Field[p] \in Fields
  BY <1>1 DEF Fields
<1>3. Field[p] \notin {18} \X {0, 1, 3, 6, 7}
  BY <1>1
<1> QED
  BY <1>2, <1>3, UppFieldsAssumption

\* An access by its kind.
LEMMA AccessIs ==
  ASSUME NEW a \in Accesses
  PROVE  \/ \E p \in Pins : a = Mux(p) /\ a[1] = "mux" /\ a[2] = p
         \/ \E p \in Pins : a = Out(p) /\ a[1] = "dir" /\ a[2] = p
         \/ a = <<"upp">> /\ a[1] = "upp"
         \/ \E p \in Written, l \in Levels : a = Put(p, l) /\ a[1] = "write" /\ a[2] = p /\ a[3] = l
<1>1. CASE a \in {Mux(p) : p \in Pins}
  BY <1>1 DEF Mux
<1>2. CASE a \in {Out(p) : p \in Pins}
  BY <1>2 DEF Out
<1>3. CASE a = <<"upp">>
  BY <1>3
<1>4. CASE a \in UNION {{Put(p, l) : l \in Levels} : p \in Written}
  BY <1>4 DEF Put
<1> QED
  BY <1>1, <1>2, <1>3, <1>4 DEF Accesses

LEMMA AccessTypes ==
  /\ \A p \in Pins : Mux(p) \in Accesses /\ Out(p) \in Accesses
  /\ <<"upp">> \in Accesses
  /\ \A p \in Written, l \in Levels : Put(p, l) \in Accesses
  BY DEF Accesses

LEMMA PinTypes == Written \subseteq Pins /\ SettingPins \subseteq Written
  BY DEF Written, Pins, SettingPins, LED1, LED2, ChannelPin

\* What follows another sequence, by its place.
LEMMA ConcatIs ==
  ASSUME NEW q \in Seq(Accesses), NEW r \in Seq(Accesses)
  PROVE  /\ q \o r \in Seq(Accesses) /\ Len(q \o r) = Len(q) + Len(r)
         /\ \A n \in 1 .. Len(q) : (q \o r)[n] = q[n]
         /\ \A n \in 1 .. Len(r) : (q \o r)[Len(q) + n] = r[n]
  OBVIOUS

\* The places of the writes of main, and of what they need.
LEMMA MainIs ==
  /\ Main \in Seq(Accesses) /\ Len(Main) = 10
  /\ Main[1] = Mux(1) /\ Main[2] = Mux(2) /\ Main[3] = Mux(3) /\ Main[4] = Mux(6)
  /\ Main[5] = Out(1) /\ Main[6] = Out(7) /\ Main[7] = Out(2) /\ Main[8] = Out(3)
  /\ Main[9] = Put(1, 0) /\ Main[10] = Put(3, 0)
<1> DEFINE q == GPIOInit
           r == <<Put(LED1, 0), Put(LED2, 0)>>
<1>1. /\ Mux(1) \in Accesses /\ Mux(2) \in Accesses /\ Mux(3) \in Accesses /\ Mux(6) \in Accesses
      /\ Out(1) \in Accesses /\ Out(7) \in Accesses /\ Out(2) \in Accesses /\ Out(3) \in Accesses
      /\ Put(1, 0) \in Accesses /\ Put(3, 0) \in Accesses
  BY AccessTypes DEF Pins, Written, LED1, LED2, Levels
<1>2. /\ q \in Seq(Accesses) /\ Len(q) = 8
      /\ q[1] = Mux(1) /\ q[2] = Mux(2) /\ q[3] = Mux(3) /\ q[4] = Mux(6)
      /\ q[5] = Out(1) /\ q[6] = Out(7) /\ q[7] = Out(2) /\ q[8] = Out(3)
  BY <1>1 DEF GPIOInit
<1>3. r \in Seq(Accesses) /\ Len(r) = 2 /\ r[1] = Put(1, 0) /\ r[2] = Put(3, 0)
  BY <1>1 DEF LED1, LED2
<1> HIDE DEF q, r
<1> DEFINE all == q \o r
<1>4. /\ all \in Seq(Accesses) /\ Len(all) = 10
      /\ \A n \in 1 .. 8 : all[n] = q[n]
      /\ \A n \in 1 .. 2 : all[8 + n] = r[n]
  <2>1. /\ all \in Seq(Accesses) /\ Len(all) = Len(q) + Len(r)
        /\ \A n \in 1 .. Len(q) : all[n] = q[n]
        /\ \A n \in 1 .. Len(r) : all[Len(q) + n] = r[n]
    BY <1>2, <1>3, ConcatIs
  <2> HIDE DEF all
  <2> QED
    BY <1>2, <1>3, <2>1
<1>5. Main = all
  BY DEF Main, q, r
<1> HIDE DEF all
<1>6. /\ all[1] = q[1] /\ all[2] = q[2] /\ all[3] = q[3] /\ all[4] = q[4]
      /\ all[5] = q[5] /\ all[6] = q[6] /\ all[7] = q[7] /\ all[8] = q[8]
      /\ all[9] = r[1] /\ all[10] = r[2]
  BY <1>4
<1> QED
  BY <1>2, <1>3, <1>4, <1>5, <1>6

\* The levels of a rate, the highest bit first.
LEMMA RateIs ==
  ASSUME NEW bits \in Seq(Levels), Len(bits) = 4
  PROVE  LET q == sampleRateControl(bits)
         IN  /\ q \in Seq(Accesses) /\ Len(q) = 4
             /\ q[1] = Put(22, bits[1]) /\ q[2] = Put(144, bits[2])
             /\ q[3] = Put(141, bits[3]) /\ q[4] = Put(142, bits[4])
<1>1. \A b \in 1 .. 4 : RatePins[b] \in Written /\ bits[b] \in Levels
  <2> SUFFICES ASSUME NEW b \in 1 .. 4 PROVE RatePins[b] \in Written /\ bits[b] \in Levels
    OBVIOUS
  <2>1. bits[b] \in Levels
    BY ElementOfSeq
  <2>2. RatePins[b] \in Written
    BY DEF RatePins, Written
  <2> QED
    BY <2>1, <2>2
<1>2. \A b \in 1 .. 4 : Put(RatePins[b], bits[b]) \in Accesses
  BY <1>1, AccessTypes
<1>3. sampleRateControl(bits) \in Seq(Accesses) /\ Len(sampleRateControl(bits)) = 4
  BY <1>2 DEF sampleRateControl
<1> QED
  BY <1>3 DEF sampleRateControl, RatePins

\* START gives the uPP its pins, then connects and sets those of rate and channel.
LEMMA SetupIs ==
  LET q == OmaplFpgauPPSetup
  IN  /\ q \in Seq(Accesses) /\ Len(q) = 16
      /\ q[1] = <<"upp">>
      /\ q[2] = Mux(142) /\ q[3] = Mux(141) /\ q[4] = Mux(144) /\ q[5] = Mux(22) /\ q[6] = Mux(21)
      /\ q[7] = Out(142) /\ q[8] = Out(141) /\ q[9] = Out(144) /\ q[10] = Out(22) /\ q[11] = Out(21)
      /\ q[12] = Put(21, 1) /\ q[13] = Put(22, 1) /\ q[14] = Put(144, 1)
      /\ q[15] = Put(141, 0) /\ q[16] = Put(142, 0)
<1> DEFINE u == <<<<"upp">>>>
           s == SampleRateChannelSelectGPIOInit
           c == selectADCChannel(1)
           r == sampleRateControl(<<1, 1, 0, 0>>)
<1>1. u \in Seq(Accesses) /\ Len(u) = 1 /\ u[1] = <<"upp">>
  BY AccessTypes
<1>2. /\ s \in Seq(Accesses) /\ Len(s) = 10
      /\ s[1] = Mux(142) /\ s[2] = Mux(141) /\ s[3] = Mux(144) /\ s[4] = Mux(22) /\ s[5] = Mux(21)
      /\ s[6] = Out(142) /\ s[7] = Out(141) /\ s[8] = Out(144) /\ s[9] = Out(22) /\ s[10] = Out(21)
  <2>1. /\ Mux(142) \in Accesses /\ Mux(141) \in Accesses /\ Mux(144) \in Accesses
        /\ Mux(22) \in Accesses /\ Mux(21) \in Accesses
        /\ Out(142) \in Accesses /\ Out(141) \in Accesses /\ Out(144) \in Accesses
        /\ Out(22) \in Accesses /\ Out(21) \in Accesses
    BY AccessTypes DEF Pins
  <2> QED
    BY <2>1 DEF SampleRateChannelSelectGPIOInit
<1>3. c \in Seq(Accesses) /\ Len(c) = 1 /\ c[1] = Put(21, 1)
  <2>1. Put(21, 1) \in Accesses
    BY AccessTypes DEF Written, ChannelPin, Levels
  <2> QED
    BY <2>1 DEF selectADCChannel, ChannelPin
<1>4. /\ r \in Seq(Accesses) /\ Len(r) = 4
      /\ r[1] = Put(22, 1) /\ r[2] = Put(144, 1) /\ r[3] = Put(141, 0) /\ r[4] = Put(142, 0)
  <2> DEFINE bits == <<1, 1, 0, 0>>
  <2>1. bits \in Seq(Levels) /\ Len(bits) = 4
        /\ bits[1] = 1 /\ bits[2] = 1 /\ bits[3] = 0 /\ bits[4] = 0
    BY DEF Levels
  <2> HIDE DEF bits
  <2>2. /\ sampleRateControl(bits) \in Seq(Accesses) /\ Len(sampleRateControl(bits)) = 4
        /\ sampleRateControl(bits)[1] = Put(22, bits[1]) /\ sampleRateControl(bits)[2] = Put(144, bits[2])
        /\ sampleRateControl(bits)[3] = Put(141, bits[3]) /\ sampleRateControl(bits)[4] = Put(142, bits[4])
    BY <2>1, RateIs
  <2>3. r = sampleRateControl(bits)
    BY DEF bits
  <2> HIDE DEF r
  <2> QED
    BY <2>1, <2>2, <2>3
<1> HIDE DEF u, s, c, r
<1> DEFINE us == u \o s
<1>5. /\ us \in Seq(Accesses) /\ Len(us) = 11 /\ us[1] = u[1]
      /\ \A n \in 1 .. 10 : us[1 + n] = s[n]
  <2>1. /\ us \in Seq(Accesses) /\ Len(us) = Len(u) + Len(s)
        /\ \A n \in 1 .. Len(u) : us[n] = u[n]
        /\ \A n \in 1 .. Len(s) : us[Len(u) + n] = s[n]
    <3>1. u \in Seq(Accesses) /\ s \in Seq(Accesses)
      BY <1>1, <1>2
    <3> QED
      BY <3>1, ConcatIs
  <2> HIDE DEF us
  <2> QED
    BY <1>1, <1>2, <2>1
<1> HIDE DEF us
<1> DEFINE usc == us \o c
<1>6. /\ usc \in Seq(Accesses) /\ Len(usc) = 12 /\ usc[11 + 1] = c[1]
      /\ \A n \in 1 .. 11 : usc[n] = us[n]
  <2>1. /\ usc \in Seq(Accesses) /\ Len(usc) = Len(us) + Len(c)
        /\ \A n \in 1 .. Len(us) : usc[n] = us[n]
        /\ \A n \in 1 .. Len(c) : usc[Len(us) + n] = c[n]
    BY <1>3, <1>5, ConcatIs
  <2> HIDE DEF usc
  <2> QED
    BY <1>3, <1>5, <2>1
<1> HIDE DEF usc
<1> DEFINE all == usc \o r
<1>7. /\ all \in Seq(Accesses) /\ Len(all) = 16
      /\ \A n \in 1 .. 12 : all[n] = usc[n]
      /\ \A n \in 1 .. 4 : all[12 + n] = r[n]
  <2>1. /\ all \in Seq(Accesses) /\ Len(all) = Len(usc) + Len(r)
        /\ \A n \in 1 .. Len(usc) : all[n] = usc[n]
        /\ \A n \in 1 .. Len(r) : all[Len(usc) + n] = r[n]
    BY <1>4, <1>6, ConcatIs
  <2> HIDE DEF all
  <2> QED
    BY <1>4, <1>6, <2>1
<1> HIDE DEF all
<1>8. /\ all[1] = <<"upp">>
      /\ all[2] = s[1] /\ all[3] = s[2] /\ all[4] = s[3] /\ all[5] = s[4] /\ all[6] = s[5]
      /\ all[7] = s[6] /\ all[8] = s[7] /\ all[9] = s[8] /\ all[10] = s[9] /\ all[11] = s[10]
      /\ all[12] = c[1] /\ all[13] = r[1] /\ all[14] = r[2] /\ all[15] = r[3] /\ all[16] = r[4]
  BY <1>1, <1>5, <1>6, <1>7
<1>9. OmaplFpgauPPSetup = all
  BY DEF OmaplFpgauPPSetup, all, usc, us, u, s, c, r
<1> QED
  BY <1>2, <1>3, <1>4, <1>7, <1>8, <1>9

\* The bits of a rate are those of its number less one.
LEMMA BitsIs ==
  ASSUME NEW r \in Rates
  PROVE  /\ Bits(r) \in Seq(Levels) /\ Len(Bits(r)) = 4
         /\ Bits(r)[1] = (r - 1) \div 8 /\ Bits(r)[2] = ((r - 1) \div 4) % 2
         /\ Bits(r)[3] = ((r - 1) \div 2) % 2 /\ Bits(r)[4] = (r - 1) % 2
         /\ 8 * ((r - 1) \div 8) + 4 * (((r - 1) \div 4) % 2) + 2 * (((r - 1) \div 2) % 2) + ((r - 1) % 2) = r - 1
<1>1. /\ (r - 1) \div 8 \in Levels /\ ((r - 1) \div 4) % 2 \in Levels
      /\ ((r - 1) \div 2) % 2 \in Levels /\ (r - 1) % 2 \in Levels
      /\ 8 * ((r - 1) \div 8) + 4 * (((r - 1) \div 4) % 2) + 2 * (((r - 1) \div 2) % 2) + ((r - 1) % 2) = r - 1
  BY DEF Rates, Levels
<1> QED
  BY <1>1 DEF Bits

-----------------------------------------------------------------------------
(* One access *)

\* The head of todo is carried out, the others move up by one place.
LEMMA TodoStep ==
  ASSUME todo \in Seq(Accesses), Access
  PROVE  /\ Len(todo) \in Nat \ {0} /\ todo[1] \in Accesses /\ Head(todo) = todo[1]
         /\ todo' \in Seq(Accesses) /\ Len(todo') = Len(todo) - 1
         /\ \A n \in 1 .. Len(todo) - 1 : todo'[n] = todo[n + 1]
<1>1. todo # <<>> /\ todo' = Tail(todo)
  BY DEF Access
<1> QED
  BY <1>1, HeadTailProperties, EmptySeq, ElementOfSeq

\* What it does to the registers.  No access to a multiplexer field of a pin
\* touches those of the uPP, and the access for the uPP no field of a pin.
LEMMA RegisterStep ==
  ASSUME TypeOK, todo \in Seq(Accesses), Access
  PROVE  /\ TypeOK'
         /\ \A p \in Pins : mux[Field[p]] = "GPIO" \/ todo[1] = Mux(p) => mux'[Field[p]] = "GPIO"
         /\ \A p \in Pins : p \in dir \/ todo[1] = Out(p) => p \in dir'
         /\ \A f \in UppFields : mux[f] = "UPP" \/ todo[1] = <<"upp">> => mux'[f] = "UPP"
         /\ \A p \in Written : level'[p] = IF IsWrite(todo[1]) /\ todo[1][2] = p THEN todo[1][3]
                                                                                ELSE level[p]
<1> DEFINE a == todo[1]
<1>1. a \in Accesses /\ Head(todo) = a /\ todo' \in Seq(Accesses)
  BY TodoStep
<1>2. /\ mux' = CASE a[1] = "mux" -> [mux EXCEPT ![Field[a[2]]] = "GPIO"]
                    [] a[1] = "upp" -> [f \in Fields |-> IF f \in UppFields THEN "UPP" ELSE mux[f]]
                    [] OTHER -> mux
      /\ dir' = IF a[1] = "dir" THEN dir \cup {a[2]} ELSE dir
      /\ level' = IF a[1] = "write" THEN [level EXCEPT ![a[2]] = a[3]] ELSE level
      /\ UNCHANGED <<phase, rate, channel>>
  BY <1>1 DEF Access
<1>3. \A n \in 1 .. Len(todo') : todo'[n][1] \in {"mux", "dir", "write", "upp"}
  <2> SUFFICES ASSUME NEW n \in 1 .. Len(todo')
               PROVE  todo'[n][1] \in {"mux", "dir", "write", "upp"}
    OBVIOUS
  <2>1. PICK q \in Seq(Accesses) : q = todo'
    BY <1>1
  <2>2. q[n] \in Accesses
    BY <2>1, ElementOfSeq
  <2>3. q[n][1] \in {"mux", "dir", "write", "upp"}
    BY <2>2, AccessIs
  <2> QED
    BY <2>1, <2>3
<1>4. /\ mux \in [Fields -> {"reset", "GPIO", "UPP"}] /\ dir \subseteq Pins
      /\ level \in [Written -> Levels]
      /\ phase' \in {"main", "loop", "started"}
      /\ rate' \in {0} \cup Rates /\ channel' \in {0, 1}
  BY <1>2 DEF TypeOK
<1> HIDE DEF a
<1> DEFINE Right == /\ mux' \in [Fields -> {"reset", "GPIO", "UPP"}]
                    /\ dir' \subseteq Pins /\ level' \in [Written -> Levels]
                    /\ \A p \in Pins : mux[Field[p]] = "GPIO" \/ a = Mux(p) => mux'[Field[p]] = "GPIO"
                    /\ \A p \in Pins : p \in dir \/ a = Out(p) => p \in dir'
                    /\ \A f \in UppFields : mux[f] = "UPP" \/ a = <<"upp">> => mux'[f] = "UPP"
                    /\ \A p \in Written : level'[p] = IF a[1] = "write" /\ a[2] = p THEN a[3]
                                                                                  ELSE level[p]
<1>5. UppFields \subseteq Fields
  BY UppFieldsAssumption DEF Fields
<1>6. \A p \in Pins : Mux(p)[1] = "mux" /\ Mux(p)[2] = p /\ Out(p)[1] = "dir" /\ Out(p)[2] = p
  BY DEF Mux, Out
<1>7. ASSUME NEW p \in Pins, a[1] = "mux", a[2] = p PROVE Right
  <2>1. mux' = [mux EXCEPT ![Field[p]] = "GPIO"] /\ dir' = dir /\ level' = level
    BY <1>2, <1>7
  <2>2. Field[p] \in Fields /\ Field[p] \notin UppFields
    BY <1>7, FieldIs
  <2>3. \A x \in Pins : Field[x] \in Fields
    BY FieldIs
  <2>4. a # <<"upp">> /\ \A x \in Pins : a # Out(x) /\ (a = Mux(x) => x = p)
    BY <1>6, <1>7
  <2>5. mux' \in [Fields -> {"reset", "GPIO", "UPP"}]
        /\ \A f \in Fields : mux'[f] = IF f = Field[p] THEN "GPIO" ELSE mux[f]
    BY <1>4, <2>1, <2>2
  <2> QED
    BY <1>4, <1>5, <1>7, <2>1, <2>2, <2>3, <2>4, <2>5
<1>8. ASSUME NEW p \in Pins, a[1] = "dir", a[2] = p PROVE Right
  <2>1. mux' = mux /\ dir' = dir \cup {p} /\ level' = level
    BY <1>2, <1>8
  <2>2. a # <<"upp">> /\ \A x \in Pins : a # Mux(x) /\ (a = Out(x) => x = p)
    BY <1>6, <1>8
  <2> QED
    BY <1>4, <1>8, <2>1, <2>2
<1>9. ASSUME a[1] = "upp" PROVE Right
  <2>1. /\ mux' = [f \in Fields |-> IF f \in UppFields THEN "UPP" ELSE mux[f]]
        /\ dir' = dir /\ level' = level
    BY <1>2, <1>9
  <2>2. \A x \in Pins : a # Mux(x) /\ a # Out(x) /\ Field[x] \in Fields /\ Field[x] \notin UppFields
    BY <1>6, <1>9, FieldIs
  <2> QED
    BY <1>4, <1>5, <1>9, <2>1, <2>2
<1>10. ASSUME NEW p \in Written, NEW l \in Levels, a[1] = "write", a[2] = p, a[3] = l PROVE Right
  <2>1. mux' = mux /\ dir' = dir /\ level' = [level EXCEPT ![p] = l]
    BY <1>2, <1>10
  <2>2. a # <<"upp">> /\ \A x \in Pins : a # Mux(x) /\ a # Out(x)
    BY <1>6, <1>10
  <2> QED
    BY <1>4, <1>10, <2>1, <2>2
<1>11. Right
  BY <1>1, <1>7, <1>8, <1>9, <1>10, AccessIs
<1>12. TypeOK'
  BY <1>3, <1>4, <1>11 DEF TypeOK
<1> QED
  BY <1>11, <1>12 DEF a, IsWrite

\* What was to come is done, or still to come.
LEMMA SoonStep ==
  ASSUME todo \in Seq(Accesses), Access, NEW n \in 1 .. Len(todo), NEW a, Soon(todo, n, a)
  PROVE  todo[1] = a \/ Soon(todo', n - 1, a)
<1>1. PICK m \in 1 .. n : todo[m] = a
  BY DEF Soon
<1>2. CASE m # 1
  <2>1. Len(todo) \in Nat
    BY TodoStep
  <2>2. m - 1 \in 1 .. n - 1 /\ m - 1 \in 1 .. Len(todo) - 1 /\ (m - 1) + 1 = m
    BY <1>2, <2>1
  <2>3. todo'[m - 1] = todo[m]
    BY <2>2, TodoStep
  <2> QED
    BY <1>1, <2>2, <2>3 DEF Soon
<1> QED
  BY <1>1, <1>2

LEMMA ConnectStep ==
  ASSUME TypeOK, todo \in Seq(Accesses), Access, NEW p \in Pins, NEW n \in 1 .. Len(todo),
         WillConnect(p, n)
  PROVE  WillConnect(p, n - 1)'
<1>1. mux'[Field[p]] = "GPIO" \/ Soon(todo', n - 1, Mux(p))
  BY RegisterStep, SoonStep DEF WillConnect
<1>2. p \in dir' \/ Soon(todo', n - 1, Out(p))
  BY RegisterStep, SoonStep DEF WillConnect
<1> QED
  BY <1>1, <1>2 DEF WillConnect

-----------------------------------------------------------------------------
(* The invariant *)

LEMMA InitInv == Init => IInv
<1> SUFFICES ASSUME Init PROVE IInv
  OBVIOUS
<1>1. /\ phase = "main" /\ todo = Main
      /\ mux \in [Fields -> {"reset", "GPIO", "UPP"}] /\ dir \subseteq Pins
      /\ level \in [Written -> Levels] /\ rate = 0 /\ channel = 0
  BY PinTypes DEF Init, Levels
<1> DEFINE q == Main
<1>2. /\ q \in Seq(Accesses) /\ Len(q) = 10
      /\ q[1] = Mux(1) /\ q[2] = Mux(2) /\ q[3] = Mux(3) /\ q[4] = Mux(6)
      /\ q[5] = Out(1) /\ q[6] = Out(7) /\ q[7] = Out(2) /\ q[8] = Out(3)
      /\ q[9] = Put(1, 0) /\ q[10] = Put(3, 0)
  BY MainIs
<1> HIDE DEF q
<1>3. \A n \in 1 .. 10 : q[n][1] \in {"mux", "dir", "write", "upp"} /\ (IsWrite(q[n]) => n = 9 \/ n = 10)
  <2> SUFFICES ASSUME NEW n \in 1 .. 10
               PROVE  q[n][1] \in {"mux", "dir", "write", "upp"} /\ (IsWrite(q[n]) => n = 9 \/ n = 10)
    OBVIOUS
  <2>1. n \in 1 .. 4 => q[n][1] = "mux"
    BY <1>2 DEF Mux
  <2>2. n \in 5 .. 8 => q[n][1] = "dir"
    BY <1>2 DEF Out
  <2>3. n = 9 \/ n = 10 => q[n][1] = "write"
    BY <1>2 DEF Put
  <2>4. n \in 1 .. 4 \/ n \in 5 .. 8 \/ n = 9 \/ n = 10
    OBVIOUS
  <2> QED
    BY <2>1, <2>2, <2>3, <2>4 DEF IsWrite
<1>4. TypeOK
  BY <1>1, <1>2, <1>3 DEF TypeOK, q
<1>5. WriteInv
  <2> SUFFICES ASSUME NEW n \in 1 .. Len(q), NEW p \in Pins, IsWrite(q[n]), q[n][2] = p
               PROVE  WillConnect(p, n - 1)
    BY <1>1 DEF WriteInv, q
  <2>1. CASE n = 9
    <3>1. p = 1 /\ n - 1 = 8
      BY <1>2, <2>1 DEF Put
    <3>2. Soon(q, 8, Mux(1)) /\ Soon(q, 8, Out(1))
      BY <1>2 DEF Soon
    <3> QED
      BY <1>1, <3>1, <3>2 DEF WillConnect, q
  <2>2. CASE n = 10
    <3>1. p = 3 /\ n - 1 = 9
      BY <1>2, <2>2 DEF Put
    <3>2. Soon(q, 9, Mux(3)) /\ Soon(q, 9, Out(3))
      BY <1>2 DEF Soon
    <3> QED
      BY <1>1, <3>1, <3>2 DEF WillConnect, q
  <2> QED
    BY <1>2, <1>3, <2>1, <2>2
<1>6. SettingInv /\ UppInv /\ (phase = "loop" => todo = <<>>)
  BY <1>1 DEF SettingInv, UppInv
<1> QED
  BY <1>1, <1>2, <1>4, <1>5, <1>6 DEF IInv, q

LEMMA AccessInv ==
  ASSUME IInv, Access
  PROVE  IInv'
<1>1. /\ TypeOK /\ todo \in Seq(Accesses) /\ WriteInv /\ SettingInv /\ UppInv
      /\ UNCHANGED <<phase, rate, channel>> /\ (phase = "loop" => todo = <<>>) /\ todo # <<>>
  BY DEF IInv, Access
<1>2. PICK N \in Nat \ {0} : N = Len(todo)
  BY <1>1, TodoStep
<1>3. /\ todo' \in Seq(Accesses) /\ Len(todo') = N - 1
      /\ \A n \in 1 .. N - 1 : n + 1 \in 1 .. N /\ todo'[n] = todo[n + 1]
  BY <1>1, <1>2, TodoStep
<1>4. WriteInv'
  <2> SUFFICES ASSUME NEW n \in 1 .. N - 1, NEW p \in Pins, IsWrite(todo'[n]), todo'[n][2] = p
               PROVE  WillConnect(p, n - 1)'
    BY <1>3 DEF WriteInv, IsWrite
  <2>1. n \in 1 .. N /\ n + 1 \in 1 .. N /\ (n + 1) - 1 = n /\ todo'[n] = todo[n + 1]
    BY <1>2, <1>3
  <2>2. WillConnect(p, n)
    BY <1>1, <1>2, <2>1 DEF WriteInv
  <2> QED
    BY <1>1, <1>2, <2>1, <2>2, ConnectStep
<1>5. SettingInv'
  <2> SUFFICES ASSUME phase = "started", NEW p \in SettingPins
               PROVE  /\ WillConnect(p, N - 1)'
                      /\ \A n \in 1 .. N - 1 : IsWrite(todo'[n]) /\ todo'[n][2] = p => todo'[n][3] = Wanted(p)
                      /\ \/ \E n \in 1 .. N - 1 : IsWrite(todo'[n]) /\ todo'[n][2] = p
                         \/ level'[p] = Wanted(p)
    BY <1>1, <1>3 DEF SettingInv, Wanted, IsWrite
  <2>1. p \in Pins /\ p \in Written
    BY PinTypes
  <2>2. /\ WillConnect(p, N)
        /\ \A n \in 1 .. N : IsWrite(todo[n]) /\ todo[n][2] = p => todo[n][3] = Wanted(p)
        /\ \/ \E n \in 1 .. N : IsWrite(todo[n]) /\ todo[n][2] = p
           \/ level[p] = Wanted(p)
    BY <1>1, <1>2 DEF SettingInv
  <2>3. WillConnect(p, N - 1)'
    <3>1. N \in 1 .. N
      BY <1>2
    <3> QED
      BY <1>1, <1>2, <2>1, <2>2, <3>1, ConnectStep
  <2>4. level'[p] = IF IsWrite(todo[1]) /\ todo[1][2] = p THEN todo[1][3] ELSE level[p]
    BY <1>1, <2>1, RegisterStep
  <2>5. \/ \E n \in 1 .. N - 1 : IsWrite(todo'[n]) /\ todo'[n][2] = p
        \/ level'[p] = Wanted(p)
    <3>1. CASE IsWrite(todo[1]) /\ todo[1][2] = p
      <4>1. 1 \in 1 .. N
        BY <1>2
      <4> QED
        BY <2>2, <2>4, <3>1, <4>1
    <3>2. CASE ~(IsWrite(todo[1]) /\ todo[1][2] = p)
      <4>1. CASE level[p] = Wanted(p)
        BY <2>4, <3>2, <4>1
      <4>2. ASSUME NEW n \in 1 .. N, IsWrite(todo[n]), todo[n][2] = p
            PROVE  \E m \in 1 .. N - 1 : IsWrite(todo'[m]) /\ todo'[m][2] = p
        <5>1. n # 1
          BY <3>2, <4>2
        <5>2. n - 1 \in 1 .. N - 1 /\ (n - 1) + 1 = n
          BY <1>2, <5>1
        <5> QED
          BY <1>3, <4>2, <5>2
      <4> QED
        BY <2>2, <4>1, <4>2
    <3> QED
      BY <3>1, <3>2
  <2> QED
    BY <1>3, <2>2, <2>3, <2>5
<1>6. UppInv'
  <2> SUFFICES ASSUME phase = "started"
               PROVE  Soon(todo', N - 1, <<"upp">>) \/ \A f \in UppFields : mux'[f] = "UPP"
    BY <1>1, <1>3 DEF UppInv
  <2>1. Soon(todo, N, <<"upp">>) \/ \A f \in UppFields : mux[f] = "UPP"
    BY <1>1, <1>2 DEF UppInv
  <2>2. Soon(todo, N, <<"upp">>) => todo[1] = <<"upp">> \/ Soon(todo', N - 1, <<"upp">>)
    <3>1. N \in 1 .. N
      BY <1>2
    <3> QED
      BY <1>1, <1>2, <3>1, SoonStep
  <2> QED
    BY <1>1, <2>1, <2>2, RegisterStep
<1>7. TypeOK'
  BY <1>1, RegisterStep
<1> QED
  BY <1>1, <1>3, <1>4, <1>5, <1>6, <1>7 DEF IInv

\* START: the uPP, the multiplexers, the directions, and then the levels.
LEMMA StartInv ==
  ASSUME IInv, OnStart
  PROVE  IInv'
<1> DEFINE q == OmaplFpgauPPSetup
<1>1. /\ TypeOK /\ phase' = "started" /\ todo' = q /\ rate' = 13 /\ channel' = 1
      /\ UNCHANGED <<mux, dir, level>>
  BY DEF IInv, OnStart
<1>2. /\ q \in Seq(Accesses) /\ Len(q) = 16
      /\ q[1] = <<"upp">>
      /\ q[2] = Mux(142) /\ q[3] = Mux(141) /\ q[4] = Mux(144) /\ q[5] = Mux(22) /\ q[6] = Mux(21)
      /\ q[7] = Out(142) /\ q[8] = Out(141) /\ q[9] = Out(144) /\ q[10] = Out(22) /\ q[11] = Out(21)
      /\ q[12] = Put(21, 1) /\ q[13] = Put(22, 1) /\ q[14] = Put(144, 1)
      /\ q[15] = Put(141, 0) /\ q[16] = Put(142, 0)
  BY SetupIs
<1> HIDE DEF q
<1>3. /\ q[12][2] = 21 /\ q[13][2] = 22 /\ q[14][2] = 144 /\ q[15][2] = 141 /\ q[16][2] = 142
      /\ q[12][3] = 1 /\ q[13][3] = 1 /\ q[14][3] = 1 /\ q[15][3] = 0 /\ q[16][3] = 0
      /\ \A n \in 12 .. 16 : q[n][1] = "write"
  BY <1>2 DEF Put
<1>4. \A n \in 1 .. 16 : q[n][1] \in {"mux", "dir", "write", "upp"} /\ (IsWrite(q[n]) => n \in 12 .. 16)
  <2> SUFFICES ASSUME NEW n \in 1 .. 16
               PROVE  q[n][1] \in {"mux", "dir", "write", "upp"} /\ (IsWrite(q[n]) => n \in 12 .. 16)
    OBVIOUS
  <2>1. n = 1 => q[n][1] = "upp"
    BY <1>2
  <2>2. n \in 2 .. 6 => q[n][1] = "mux"
    BY <1>2 DEF Mux
  <2>3. n \in 7 .. 11 => q[n][1] = "dir"
    BY <1>2 DEF Out
  <2>4. n = 1 \/ n \in 2 .. 6 \/ n \in 7 .. 11 \/ n \in 12 .. 16
    OBVIOUS
  <2> QED
    BY <1>3, <2>1, <2>2, <2>3, <2>4 DEF IsWrite
<1>5. \A p \in SettingPins, n \in 11 .. 16 : Soon(q, n, Mux(p)) /\ Soon(q, n, Out(p))
  <2> SUFFICES ASSUME NEW p \in SettingPins, NEW n \in 11 .. 16
               PROVE  Soon(q, n, Mux(p)) /\ Soon(q, n, Out(p))
    OBVIOUS
  <2>1. \A m \in 1 .. 11 : m \in 1 .. n
    OBVIOUS
  <2>2. p = 21 \/ p = 22 \/ p = 144 \/ p = 141 \/ p = 142
    BY DEF SettingPins, ChannelPin
  <2>3. \E m \in 1 .. 11 : q[m] = Mux(p)
    BY <1>2, <2>2
  <2>4. \E m \in 1 .. 11 : q[m] = Out(p)
    BY <1>2, <2>2
  <2> QED
    BY <2>1, <2>3, <2>4 DEF Soon
<1>6. TypeOK'
  BY <1>1, <1>2, <1>4 DEF TypeOK, Rates
<1>7. WriteInv'
  <2> SUFFICES ASSUME NEW n \in 1 .. 16, NEW p \in Pins, IsWrite(q[n]), q[n][2] = p
               PROVE  WillConnect(p, n - 1)'
    BY <1>1, <1>2 DEF WriteInv, IsWrite
  <2>1. n \in 12 .. 16 /\ n - 1 \in 11 .. 16
    BY <1>4
  <2>2. p \in SettingPins
    BY <1>3, <2>1 DEF SettingPins, ChannelPin
  <2>3. Soon(q, n - 1, Mux(p)) /\ Soon(q, n - 1, Out(p))
    BY <1>5, <2>1, <2>2
  <2> QED
    BY <1>1, <2>3 DEF WillConnect
<1>8. SettingInv'
  <2>1. /\ \A p \in SettingPins : WillConnect(p, 16)'
        /\ rate' \in Rates
    BY <1>1, <1>5 DEF WillConnect, Rates
  <2>2. /\ Wanted(21)' = 1 /\ Wanted(22)' = 1 /\ Wanted(144)' = 1 /\ Wanted(141)' = 0
        /\ Wanted(142)' = 0
    BY <1>1 DEF Wanted, ChannelPin
  <2>3. \A n \in 1 .. 16 : IsWrite(q[n]) => q[n][3] = Wanted(q[n][2])'
    BY <1>3, <1>4, <2>2
  <2>4. \A p \in SettingPins : \E n \in 1 .. 16 : IsWrite(q[n]) /\ q[n][2] = p
    BY <1>3 DEF SettingPins, ChannelPin, IsWrite
  <2> QED
    BY <1>1, <1>2, <2>1, <2>3, <2>4 DEF SettingInv
<1>9. UppInv'
  <2>1. Soon(q, 16, <<"upp">>)
    BY <1>2 DEF Soon
  <2> QED
    BY <1>1, <1>2, <2>1 DEF UppInv
<1> QED
  BY <1>1, <1>2, <1>6, <1>7, <1>8, <1>9 DEF IInv

\* Between two commands the pins of the settings are connected, and have what
\* was asked for.
LEMMA Settled ==
  ASSUME SettingInv, phase = "started", todo = <<>>, NEW p \in SettingPins
  PROVE  Connected(p) /\ level[p] = Wanted(p)
<1>1. Len(todo) = 0
  OBVIOUS
<1> QED
  BY <1>1 DEF SettingInv, WillConnect, Soon, Connected

\* A command to the converter: its writes find the pins connected, and change
\* the wanted level of those pins alone.
LEMMA CommandInv ==
  ASSUME IInv, phase = "started", todo = <<>>, UNCHANGED <<phase, mux, dir, level>>,
         NEW q \in Seq(Accesses), todo' = q, rate' \in Rates, channel' \in {0, 1},
         \A n \in 1 .. Len(q) : /\ IsWrite(q[n]) /\ q[n][2] \in SettingPins
                                /\ q[n][3] = Wanted(q[n][2])',
         \A p \in SettingPins : (\E n \in 1 .. Len(q) : q[n][2] = p) \/ Wanted(p)' = Wanted(p)
  PROVE  IInv'
<1>1. TypeOK /\ SettingInv /\ UppInv
  BY DEF IInv
<1>2. \A p \in SettingPins : mux[Field[p]] = "GPIO" /\ p \in dir /\ level[p] = Wanted(p)
  BY <1>1, Settled DEF Connected
<1>3. TypeOK'
  BY <1>1 DEF TypeOK, IsWrite
<1>4. \A p \in SettingPins, n \in 0 .. Len(q) : WillConnect(p, n)'
  BY <1>2 DEF WillConnect
<1>5. WriteInv'
  <2> SUFFICES ASSUME NEW n \in 1 .. Len(q), NEW p \in Pins, q[n][2] = p
               PROVE  WillConnect(p, n - 1)'
    BY DEF WriteInv, IsWrite
  <2>1. n - 1 \in 0 .. Len(q) /\ p \in SettingPins
    BY LenProperties
  <2> QED
    BY <1>4, <2>1
<1>6. SettingInv'
  <2> SUFFICES ASSUME NEW p \in SettingPins
               PROVE  /\ WillConnect(p, Len(q))'
                      /\ \A n \in 1 .. Len(q) : q[n][2] = p => q[n][3] = Wanted(p)'
                      /\ \/ \E n \in 1 .. Len(q) : q[n][2] = p
                         \/ level[p] = Wanted(p)'
    BY DEF SettingInv, IsWrite
  <2>1. Len(q) \in 0 .. Len(q)
    BY LenProperties
  <2> QED
    BY <1>2, <1>4, <2>1
<1>7. UppInv'
  <2>1. ~Soon(todo, Len(todo), <<"upp">>)
    BY DEF Soon
  <2> QED
    BY <1>1, <2>1 DEF UppInv
<1> QED
  BY <1>3, <1>5, <1>6, <1>7 DEF IInv

LEMMA ChannelInv ==
  ASSUME IInv, NEW c \in {0, 1}, OnChannel(c)
  PROVE  IInv'
<1> DEFINE q == selectADCChannel(c)
<1>1. /\ phase = "started" /\ todo = <<>> /\ todo' = q /\ channel' = c
      /\ UNCHANGED <<phase, mux, dir, level, rate>>
  BY DEF OnChannel
<1>2. q \in Seq(Accesses) /\ Len(q) = 1 /\ q[1] = Put(ChannelPin, c)
  <2>1. Put(ChannelPin, c) \in Accesses
    BY AccessTypes DEF Written, Levels
  <2> QED
    BY <2>1 DEF selectADCChannel
<1> HIDE DEF q
<1>3. q[1][1] = "write" /\ q[1][2] = ChannelPin /\ q[1][3] = c
  BY <1>2 DEF Put
<1>4. rate' \in Rates /\ channel' \in {0, 1}
  BY <1>1 DEF IInv, SettingInv
<1>5. \A n \in 1 .. Len(q) : IsWrite(q[n]) /\ q[n][2] \in SettingPins /\ q[n][3] = Wanted(q[n][2])'
  <2>1. \A n \in 1 .. Len(q) : n = 1
    BY <1>2
  <2>2. Wanted(ChannelPin)' = c /\ ChannelPin \in SettingPins
    BY <1>1 DEF Wanted, SettingPins
  <2> QED
    BY <1>3, <2>1, <2>2 DEF IsWrite
<1>6. \A p \in SettingPins : (\E n \in 1 .. Len(q) : q[n][2] = p) \/ Wanted(p)' = Wanted(p)
  <2>1. 1 \in 1 .. Len(q)
    BY <1>2
  <2>2. \A p \in SettingPins : p = ChannelPin \/ Wanted(p)' = Wanted(p)
    BY <1>1 DEF Wanted
  <2> QED
    BY <1>3, <2>1, <2>2
<1> QED
  BY <1>1, <1>2, <1>4, <1>5, <1>6, CommandInv

LEMMA RateInv ==
  ASSUME IInv, NEW r \in Rates, OnRate(r)
  PROVE  IInv'
<1> DEFINE bits == Bits(r)
           q == sampleRateControl(bits)
<1>1. /\ phase = "started" /\ todo = <<>> /\ todo' = q /\ rate' = r
      /\ UNCHANGED <<phase, mux, dir, level, channel>>
  BY DEF OnRate
<1>2. /\ bits \in Seq(Levels) /\ Len(bits) = 4
      /\ bits[1] = (r - 1) \div 8 /\ bits[2] = ((r - 1) \div 4) % 2
      /\ bits[3] = ((r - 1) \div 2) % 2 /\ bits[4] = (r - 1) % 2
  BY BitsIs
<1> HIDE DEF bits
<1>3. /\ q \in Seq(Accesses) /\ Len(q) = 4
      /\ q[1] = Put(22, bits[1]) /\ q[2] = Put(144, bits[2])
      /\ q[3] = Put(141, bits[3]) /\ q[4] = Put(142, bits[4])
  BY <1>2, RateIs
<1> HIDE DEF q
<1>4. /\ q[1][2] = 22 /\ q[2][2] = 144 /\ q[3][2] = 141 /\ q[4][2] = 142
      /\ q[1][3] = bits[1] /\ q[2][3] = bits[2] /\ q[3][3] = bits[3] /\ q[4][3] = bits[4]
      /\ q[1][1] = "write" /\ q[2][1] = "write" /\ q[3][1] = "write" /\ q[4][1] = "write"
  BY <1>3 DEF Put
<1>5. rate' \in Rates /\ channel' \in {0, 1}
  BY <1>1 DEF IInv, TypeOK
<1>6. /\ Wanted(22)' = bits[1] /\ Wanted(144)' = bits[2] /\ Wanted(141)' = bits[3]
      /\ Wanted(142)' = bits[4] /\ Wanted(ChannelPin)' = Wanted(ChannelPin)
  BY <1>1, <1>2 DEF Wanted, ChannelPin
<1>7. \A n \in 1 .. Len(q) : n = 1 \/ n = 2 \/ n = 3 \/ n = 4
  BY <1>3
<1>8. \A n \in 1 .. Len(q) : IsWrite(q[n]) /\ q[n][2] \in SettingPins /\ q[n][3] = Wanted(q[n][2])'
  BY <1>4, <1>6, <1>7 DEF IsWrite, SettingPins
<1>9. \A p \in SettingPins : (\E n \in 1 .. Len(q) : q[n][2] = p) \/ Wanted(p)' = Wanted(p)
  <2>1. 1 \in 1 .. Len(q) /\ 2 \in 1 .. Len(q) /\ 3 \in 1 .. Len(q) /\ 4 \in 1 .. Len(q)
    BY <1>3
  <2> QED
    BY <1>4, <1>6, <2>1 DEF SettingPins
<1> QED
  BY <1>1, <1>3, <1>5, <1>8, <1>9, CommandInv

LEMMA NextInv == IInv /\ [Next]_vars => IInv'
<1> SUFFICES ASSUME IInv, [Next]_vars PROVE IInv'
  OBVIOUS
<1>1. CASE Access
  BY <1>1, AccessInv
<1>2. CASE StartBios
  <2>1. /\ phase = "main" /\ todo = <<>> /\ phase' = "loop"
        /\ UNCHANGED <<todo, mux, dir, level, rate, channel>>
    BY <1>2 DEF StartBios
  <2>2. TypeOK' /\ WriteInv'
    BY <2>1 DEF IInv, TypeOK, WriteInv, IsWrite, WillConnect, Soon
  <2> QED
    BY <2>1, <2>2 DEF IInv, SettingInv, UppInv
<1>3. CASE OnStart
  BY <1>3, StartInv
<1>4. CASE \E c \in {0, 1} : OnChannel(c)
  BY <1>4, ChannelInv
<1>5. CASE \E r \in Rates : OnRate(r)
  BY <1>5, RateInv
<1>6. CASE UNCHANGED vars
  BY <1>6 DEF vars, IInv, TypeOK, WriteInv, SettingInv, UppInv, IsWrite, WillConnect, Soon, Wanted
<1> QED
  BY <1>1, <1>2, <1>3, <1>4, <1>5, <1>6 DEF Next

-----------------------------------------------------------------------------
(* The theorems *)

\* The inductive invariant.
THEOREM Invariance == Spec => []IInv
  BY InitInv, NextInv, PTL DEF Spec

\* Only pins that exist are connected, and each access is one of the four kinds.
THEOREM TypeCorrect == Spec => []TypeOK
<1>1. IInv => TypeOK
  BY DEF IInv
<1> QED
  BY <1>1, Invariance, PTL

\* Whatever the registers held when the DSP was loaded, a pin is connected to
\* the GPIO and an output by the time a level is written to it.
THEOREM EveryWriteShows == Spec => []WritesShow
<1>1. ASSUME IInv, todo # <<>>, Head(todo)[1] = "write" PROVE Connected(Head(todo)[2])
  <2>1. todo \in Seq(Accesses) /\ WriteInv
    BY <1>1 DEF IInv
  <2>2. 1 \in 1 .. Len(todo) /\ Head(todo) = todo[1] /\ todo[1] \in Accesses
    BY <1>1, <2>1, HeadTailProperties, EmptySeq, ElementOfSeq
  <2>3. todo[1][2] \in Pins
    BY <1>1, <2>2, AccessIs, PinTypes
  <2>4. WillConnect(todo[1][2], 1 - 1)
    BY <1>1, <2>1, <2>2, <2>3 DEF WriteInv, IsWrite
  <2> QED
    BY <2>2, <2>4 DEF WillConnect, Soon, Connected
<1>2. IInv => WritesShow
  BY <1>1 DEF WritesShow
<1> QED
  BY <1>2, Invariance, PTL

\* Between two commands the pins show the rate and the channel asked for last.
THEOREM PinsAreSet == Spec => []PinsShowSettings
<1>1. ASSUME IInv, phase = "started", todo = <<>>
      PROVE  /\ \A b \in 1 .. 4 : Connected(<<22, 144, 141, 142>>[b])
             /\ 8 * level[22] + 4 * level[144] + 2 * level[141] + level[142] = rate - 1
             /\ level[ChannelPin] = channel
  <2>1. rate \in Rates /\ \A p \in SettingPins : Connected(p) /\ level[p] = Wanted(p)
    BY <1>1, Settled DEF IInv, SettingInv
  <2>2. ChannelPin = 21 /\ {21, 22, 144, 141, 142} \subseteq SettingPins
    BY DEF SettingPins, ChannelPin
  <2>3. \A b \in 1 .. 4 : <<22, 144, 141, 142>>[b] \in SettingPins
    BY <2>2
  <2>4. /\ level[22] = (rate - 1) \div 8 /\ level[144] = ((rate - 1) \div 4) % 2
        /\ level[141] = ((rate - 1) \div 2) % 2 /\ level[142] = (rate - 1) % 2
        /\ level[ChannelPin] = channel
    BY <2>1, <2>2 DEF Wanted
  <2> QED
    BY <2>1, <2>3, <2>4, BitsIs
<1>2. IInv => PinsShowSettings
  BY <1>1 DEF PinsShowSettings
<1> QED
  BY <1>2, Invariance, PTL

\* After START the uPP keeps the fields that it was given.
THEOREM UppHasItsPins == Spec => []UppKeepsPins
<1>1. ASSUME IInv, phase = "started", todo = <<>> PROVE \A f \in UppFields : mux[f] = "UPP"
  <2>1. ~Soon(todo, Len(todo), <<"upp">>)
    BY <1>1 DEF Soon
  <2> QED
    BY <1>1, <2>1 DEF IInv, UppInv
<1>2. IInv => UppKeepsPins
  BY <1>1 DEF UppKeepsPins
<1> QED
  BY <1>2, Invariance, PTL
=============================================================================
