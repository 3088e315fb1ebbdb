-------------------------------- MODULE Pins ---------------------------------
(***************************************************************************)
(* The pins by which the DSP sets the converter: dsp/driver/setgpio.c, as   *)
(* main, START (OmaplFpgauPPSetup) and the commands of the message loop use *)
(* it.  A level that is written shows on a pin only if two other registers  *)
(* were set before: the multiplexer that connects the pin to the GPIO, and  *)
(* the direction.  Registers are written one access after the other, while  *)
(* the FPGA reads the pins.                                                 *)
(*                                                                          *)
(* A pin has the number the code gives it, 1 + 16 * bank + index.  A field  *)
(* of a multiplexer is named by its register and nibble.  The registers     *)
(* keep what they held when the DSP is loaded again.                        *)
(***************************************************************************)
EXTENDS Integers, Sequences

CONSTANT UppFields   \* fields of PINMUX18 that uPPPinMuxSetup gives to channel A

Rates == 1 .. 13
Levels == {0, 1}

LED1 == 1
LED2 == 3
ChannelPin == 21

\* Faulty variant: the lowest two bits are swapped.
RatePinsSwapped == <<22, 144, 142, 141>>

\* sampleRateControl writes bit 3 first.
RatePins == <<22, 144, 141, 142>>

Written == {LED1, LED2, ChannelPin, 22, 144, 141, 142}

\* GPIO0[0], [1], [2], [5], [6], GPIO1[4], [5] and GPIO8[12], [13], [15].
Pins == {1, 2, 3, 6, 7, 21, 22, 141, 142, 144}

\* Faulty variant: GPIO8[15] in the neighbouring field.
FieldShifted == [p \in Pins |->
  CASE p = 1 -> <<1, 7>> [] p = 2 -> <<1, 6>> [] p = 3 -> <<1, 5>> [] p = 6 -> <<1, 2>> [] p = 7 -> <<1, 1>>
    [] p = 21 -> <<4, 3>> [] p = 22 -> <<4, 2>>
    [] p = 141 -> <<18, 5>> [] p = 142 -> <<18, 4>> [] p = 144 -> <<18, 1>>]

\* The field that selects what a pin is for.
Field == [p \in Pins |->
  CASE p = 1 -> <<1, 7>> [] p = 2 -> <<1, 6>> [] p = 3 -> <<1, 5>> [] p = 6 -> <<1, 2>> [] p = 7 -> <<1, 1>>
    [] p = 21 -> <<4, 3>> [] p = 22 -> <<4, 2>>
    [] p = 141 -> <<18, 5>> [] p = 142 -> <<18, 4>> [] p = 144 -> <<18, 2>>]

Fields == {1, 4, 18} \X (0 .. 7)

\* They are none of those that channel B has, whose pins set the rate.
ASSUME UppFieldsAssumption == UppFields \subseteq {18} \X {0, 1, 3, 6, 7}

VARIABLES phase,           \* "main", "loop" before START, "started"
          todo,            \* the accesses the running routine has yet to make
          mux, dir, level, \* what a field selects, the outputs, the data register
          rate, channel    \* history: what was asked for last

vars == <<phase, todo, mux, dir, level, rate, channel>>

-----------------------------------------------------------------------------
(* The routines, as the sequences of their accesses *)

Mux(p) == <<"mux", p>>
Out(p) == <<"dir", p>>
Put(p, l) == <<"write", p, l>>

GPIOInit == <<Mux(1), Mux(2), Mux(3), Mux(6), Out(1), Out(7), Out(2), Out(3)>>

Main == GPIOInit \o <<Put(LED1, 0), Put(LED2, 0)>>

\* Faulty variant: GPIO1[5] is left out.
SampleRateChannelSelectGPIOInitShort ==
  <<Mux(142), Mux(141), Mux(144), Mux(21),
    Out(142), Out(141), Out(144), Out(22), Out(21)>>

\* Faulty variant: the direction of GPIO8[14] instead of GPIO8[15].
SampleRateChannelSelectGPIOInitOther ==
  <<Mux(142), Mux(141), Mux(144), Mux(22), Mux(21),
    Out(142), Out(141), Out(143), Out(22), Out(21)>>

SampleRateChannelSelectGPIOInit ==
  <<Mux(142), Mux(141), Mux(144), Mux(22), Mux(21),
    Out(142), Out(141), Out(144), Out(22), Out(21)>>

selectADCChannel(c) == <<Put(ChannelPin, c)>>

Bits(r) == <<(r - 1) \div 8, ((r - 1) \div 4) % 2, ((r - 1) \div 2) % 2, (r - 1) % 2>>
sampleRateControl(bits) == [b \in 1 .. 4 |-> Put(RatePins[b], bits[b])]

OmaplFpgauPPSetup == <<<<"upp">>>> \o SampleRateChannelSelectGPIOInit
                       \o selectADCChannel(1) \o sampleRateControl(<<1, 1, 0, 0>>)

-----------------------------------------------------------------------------
\* After a reset, or with what an earlier load of the DSP has left, which may
\* have been stopped between two writes.
Init == /\ phase = "main" /\ todo = Main
        /\ \/ /\ mux = [f \in Fields |-> "reset"]
              /\ dir = {} /\ level = [p \in Written |-> 0]
           \/ /\ mux = [f \in Fields |-> CASE f \in {Field[p] : p \in Pins \ {7}} -> "GPIO"
                                           [] f \in UppFields -> "UPP"
                                           [] OTHER -> "reset"]
              /\ dir = Pins \ {6} /\ level \in [Written -> Levels]
        /\ rate = 0 /\ channel = 0

\* One access: read-modify-write of a multiplexer or of the directions, or a
\* set or clear of one data bit.
Access ==
  /\ todo # <<>>
  /\ LET a == Head(todo)
     IN /\ mux' = CASE a[1] = "mux" -> [mux EXCEPT ![Field[a[2]]] = "GPIO"]
                    [] a[1] = "upp" -> [f \in Fields |-> IF f \in UppFields THEN "UPP"
                                                                         ELSE mux[f]]
                    [] OTHER -> mux
        /\ dir' = IF a[1] = "dir" THEN dir \cup {a[2]} ELSE dir
        /\ level' = IF a[1] = "write" THEN [level EXCEPT ![a[2]] = a[3]] ELSE level
  /\ todo' = Tail(todo)
  /\ UNCHANGED <<phase, rate, channel>>

\* main is done: the message loop waits for START, the host's first command.
StartBios == /\ phase = "main" /\ todo = <<>>
             /\ phase' = "loop"
             /\ UNCHANGED <<todo, mux, dir, level, rate, channel>>

OnStart == /\ phase = "loop"
           /\ phase' = "started"
           /\ todo' = OmaplFpgauPPSetup
           /\ rate' = 13 /\ channel' = 1
           /\ UNCHANGED <<mux, dir, level>>

OnChannel(c) == /\ phase = "started" /\ todo = <<>>
                /\ todo' = selectADCChannel(c)
                /\ channel' = c
                /\ UNCHANGED <<phase, mux, dir, level, rate>>

OnRate(r) == /\ phase = "started" /\ todo = <<>>
             /\ todo' = sampleRateControl(Bits(r))
             /\ rate' = r
             /\ UNCHANGED <<phase, mux, dir, level, channel>>

Next == \/ Access \/ StartBios \/ OnStart
        \/ \E c \in {0, 1} : OnChannel(c)
        \/ \E r \in Rates : OnRate(r)

Spec == Init /\ [][Next]_vars

-----------------------------------------------------------------------------
Connected(p) == mux[Field[p]] = "GPIO" /\ p \in dir

TypeOK == /\ phase \in {"main", "loop", "started"}
          /\ \A n \in 1 .. Len(todo) : todo[n][1] \in {"mux", "dir", "write", "upp"}
          /\ mux \in [Fields -> {"reset", "GPIO", "UPP"}]
          /\ dir \subseteq Pins
          /\ level \in [Written -> Levels]
          /\ rate \in {0} \cup Rates /\ channel \in {0, 1}

\* Every level that is written shows on its pin: whatever the registers held
\* before, the pin was connected to the GPIO and made an output by the routines
\* that ran earlier (setgpio.c 183-236, 239-285, uPP_Config.c 118-126).
WritesShow ==
  todo # <<>> /\ Head(todo)[1] = "write" => Connected(Head(todo)[2])

\* Between two commands the pins show the rate and the channel that were asked
\* for last: a command for one leaves the other alone, and no bit of the rate
\* goes to the pin of another (setgpio.c 222-227, 257-285; message_loop.c
\* 169-235).
PinsShowSettings ==
  phase = "started" /\ todo = <<>> =>
    /\ \A b \in 1 .. 4 : Connected(<<22, 144, 141, 142>>[b])
    /\ 8 * level[22] + 4 * level[144] + 2 * level[141] + level[142] = rate - 1
    /\ level[ChannelPin] = channel

\* The pins of uPP channel A stay with the uPP: making its neighbours in the same
\* register GPIO pins, after uPPPinMuxSetup, does not take them away
\* (uPP_Config.c 94, 118; setgpio.c 113-156).
UppKeepsPins == phase = "started" /\ todo = <<>> => \A f \in UppFields : mux[f] = "UPP"
=============================================================================
