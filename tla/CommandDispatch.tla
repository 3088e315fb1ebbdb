--------------------------- MODULE CommandDispatch ---------------------------
(***************************************************************************)
(* What a phone command does: PhoneCommand_Process turns a recognised word  *)
(* into the number of a message, the number crosses to the DSP in a queue,  *)
(* and the switch of message_loop_start turns it into a setting.  The       *)
(* commands of the enumeration MsgCmd and the coefficients of the filter    *)
(* share the one uint32_t of a message: coefficient k of the value v, in    *)
(* hundredths, travels as 1000 * (k + 1) + v.                               *)
(*                                                                          *)
(* Abstractions: how a word is found in the bytes is module CommandPath's;  *)
(* the number after "H0:" ... "H3:" is the integer that strtod and the      *)
(* conversion to int give; the writes to the four pins of a rate are one    *)
(* step; a coefficient is kept in hundredths; a number no case of the       *)
(* switch treats is Beyond.                                                 *)
(***************************************************************************)
EXTENDS Integers, Sequences, SequencesExt

CONSTANTS Hundredths,   \* the numbers the phone sends for a coefficient
          Window        \* bound: a word is recognised while fewer commands wait

ASSUME HundredthsAssumption == Hundredths \subseteq Int
ASSUME WindowAssumption == Window \in Nat /\ Window >= 1

VARIABLES word,    \* the word that was recognised, and its number if it has one
          cmdq,    \* the commands in the message queue of the DSP
          is_started, do_algorism, algorism_number, H,   \* state of the DSP
          channelPin, ratePins,                          \* its output pins
          asked    \* what the phone has asked for and has not got

dsp == <<is_started, do_algorism, algorism_number, H, channelPin, ratePins>>
vars == <<word, cmdq, dsp, asked>>

\* The enumeration MsgCmd, from 0.
MsgCmd == <<"START", "ENABLE_ALGORISM", "DISABLE_ALGORISM", "ALGORISM_DATA", "RAW_DATA",
            "CHA", "CHB", "ALGORISM1", "ALGORISM2",
            "RATE1", "RATE2", "RATE3", "RATE4", "RATE5", "RATE6", "RATE7",
            "RATE8", "RATE9", "RATE10", "RATE11", "RATE12", "RATE13",
            "RATE14", "RATE15", "RATE16", "RATE17", "RATE18">>
MSG_CMD(name) == (CHOOSE n \in 1 .. Len(MsgCmd) : MsgCmd[n] = name) - 1
FirstRate == MSG_CMD("RATE1")

\* uint32_t of an int.  A negative one wraps to a number above all that the DSP
\* tells apart, and Beyond stands for those numbers.
Beyond == 5001
Unsigned(n) == IF n \in 0 .. 5000 THEN n ELSE Beyond

\* The words the chain of tests knows; rates and coefficients by their place.
Rates == <<"RATEA", "RATEB", "RATEC", "RATED", "RATEE", "RATEF", "RATEG",
           "RATEH", "RATEI", "RATEJ", "RATEK", "RATEL", "RATEM">>
Coefficients == <<"H0:", "H1:", "H2:", "H3:">>
SwitchWords == {"ENALGO", "DISALGO", "CHA", "CHB", "FIR", "FFT"}
Words == SwitchWords \cup ToSet(Rates) \cup ToSet(Coefficients)

Nothing == <<"none", 0>>
HasNumber(w) == w \in ToSet(Coefficients)
Recognised == {r \in Words \X (Hundredths \cup {0}) :
                 IF HasNumber(r[1]) THEN r[2] \in Hundredths ELSE r[2] = 0}

-----------------------------------------------------------------------------
(* What each word asks for: values for some of the settings *)

Names == {"is_started", "do_algorism", "channel", "algorism_number", "rate"}
           \cup ToSet(Coefficients)

Place(seq, x) == (CHOOSE n \in 1 .. Len(seq) : seq[n] = x) - 1
Set(name, value) == [n \in {name} |-> value]

Meaning(w, v) ==
  CASE w = "ENALGO" -> Set("do_algorism", 1)
    [] w = "DISALGO" -> Set("do_algorism", 0)
    [] w = "CHA" -> Set("channel", 0)
    [] w = "CHB" -> Set("channel", 1)
    [] w = "FIR" -> Set("algorism_number", 1)
    [] w = "FFT" -> Set("algorism_number", 2)
    [] w \in ToSet(Rates) -> Set("rate", Place(Rates, w))
    [] HasNumber(w) -> Set(w, v)

\* START, which selects channel B and the highest rate too, and ENABLE.
Started == <<[is_started |-> 1, channel |-> 1, rate |-> 12], [do_algorism |-> 1]>>

\* App_exec has sent both when the phone is first listened to.
Init == /\ word = Nothing
        /\ cmdq = <<MSG_CMD("START"), MSG_CMD("ENABLE_ALGORISM")>>
        /\ is_started = 0 /\ do_algorism = 0 /\ algorism_number = 1
        /\ H = <<100, 0, 0, 0>>
        /\ channelPin = 0 /\ ratePins = <<0, 0, 0, 0>>
        /\ asked = Started

-----------------------------------------------------------------------------
(* phone_command_process_thread *)

Recognise == /\ word = Nothing
             /\ Len(asked) < Window
             /\ word' \in Recognised
             /\ asked' = Append(asked, Meaning(word'[1], word'[2]))
             /\ UNCHANGED <<cmdq, dsp>>

\* Faulty variant: the first coefficient is numbered 0.
CommandFromZero(w, v) ==
  CASE HasNumber(w) -> Unsigned(1000 * Place(Coefficients, w) + v)
    [] w \in ToSet(Rates) -> FirstRate + Place(Rates, w)
    [] OTHER -> MSG_CMD(CHOOSE name \in ToSet(MsgCmd) :
                          <<w, name>> \in {<<"ENALGO", "ENABLE_ALGORISM">>,
                                           <<"DISALGO", "DISABLE_ALGORISM">>,
                                           <<"CHA", "CHA">>, <<"CHB", "CHB">>,
                                           <<"FIR", "ALGORISM1">>, <<"FFT", "ALGORISM2">>})

\* The switch over the action.
Command(w, v) ==
  CASE HasNumber(w) -> Unsigned(1000 * (Place(Coefficients, w) + 1) + v)
    [] w \in ToSet(Rates) -> FirstRate + Place(Rates, w)
    [] OTHER -> MSG_CMD(CHOOSE name \in ToSet(MsgCmd) :
                          <<w, name>> \in {<<"ENALGO", "ENABLE_ALGORISM">>,
                                           <<"DISALGO", "DISABLE_ALGORISM">>,
                                           <<"CHA", "CHA">>, <<"CHB", "CHB">>,
                                           <<"FIR", "ALGORISM1">>, <<"FFT", "ALGORISM2">>})

Controler_send_cmd == /\ word # Nothing
                      /\ cmdq' = Append(cmdq, Command(word[1], word[2]))
                      /\ word' = Nothing
                      /\ UNCHANGED <<dsp, asked>>

-----------------------------------------------------------------------------
(* The message loop task: the switch over the command *)

\* message_loop_on_start sets the pins in OmaplFpgauPPSetup.
OnStart(c) == /\ c = MSG_CMD("START")
              /\ is_started' = 1
              /\ IF is_started = 0
                   THEN channelPin' = 1 /\ ratePins' = <<1, 1, 0, 0>>
                   ELSE UNCHANGED <<channelPin, ratePins>>
              /\ UNCHANGED <<do_algorism, algorism_number, H>>

OnEnableDisable(c) ==
  /\ c \in {MSG_CMD("ENABLE_ALGORISM"), MSG_CMD("DISABLE_ALGORISM")}
  /\ do_algorism' = IF is_started = 0 THEN do_algorism
                    ELSE IF c = MSG_CMD("ENABLE_ALGORISM") THEN 1 ELSE 0
  /\ UNCHANGED <<is_started, algorism_number, H, channelPin, ratePins>>

OnChannel(c) == /\ c \in {MSG_CMD("CHA"), MSG_CMD("CHB")}
                /\ channelPin' = c - MSG_CMD("CHA")
                /\ UNCHANGED <<is_started, do_algorism, algorism_number, H, ratePins>>

OnAlgorism(c) == /\ c \in {MSG_CMD("ALGORISM1"), MSG_CMD("ALGORISM2")}
                 /\ algorism_number' = c - MSG_CMD("ALGORISM1") + 1
                 /\ UNCHANGED <<is_started, do_algorism, H, channelPin, ratePins>>

\* sampleRateControl(bit3, bit2, bit1, bit0): RATE1 is 0000, RATE13 is 1100.
OnRate(c) ==
  /\ c \in FirstRate .. MSG_CMD("RATE13")
  /\ ratePins' = LET r == c - FirstRate
                 IN <<r \div 8, (r \div 4) % 2, (r \div 2) % 2, r % 2>>
  /\ UNCHANGED <<is_started, do_algorism, algorism_number, H, channelPin>>

OnCoefficient(c) ==
  /\ c \in 1000 .. 4999
  /\ H' = [H EXCEPT ![c \div 1000] = c % 1000]
  /\ UNCHANGED <<is_started, do_algorism, algorism_number, channelPin, ratePins>>

\* No case, or a default that finds no coefficient.
OnOther(c) == /\ c \in {MSG_CMD("ALGORISM_DATA"), MSG_CMD("RAW_DATA")}
                     \cup (MSG_CMD("RATE14") .. 999) \cup (5000 .. Beyond)
              /\ UNCHANGED dsp

Dispatch == /\ cmdq # <<>>
            /\ LET c == Head(cmdq)
               IN \/ OnStart(c) \/ OnEnableDisable(c) \/ OnChannel(c) \/ OnAlgorism(c)
                  \/ OnRate(c) \/ OnCoefficient(c) \/ OnOther(c)
            /\ cmdq' = Tail(cmdq)
            /\ asked' = Tail(asked)
            /\ UNCHANGED word

-----------------------------------------------------------------------------
Next == Recognise \/ Controler_send_cmd \/ Dispatch

SafeSpec == Init /\ [][Next]_vars

\* The phone need not send anything; the thread sends what it recognised, and
\* the message loop is the DSP's task of the highest priority.
Spec == SafeSpec /\ WF_vars(Controler_send_cmd) /\ WF_vars(Dispatch)

-----------------------------------------------------------------------------
(* Properties *)

SettingsNow ==
  [n \in Names |->
     CASE n = "is_started" -> is_started
       [] n = "do_algorism" -> do_algorism
       [] n = "channel" -> channelPin
       [] n = "algorism_number" -> algorism_number
       [] n = "rate" -> 8 * ratePins[1] + 4 * ratePins[2] + 2 * ratePins[3] + ratePins[4]
       [] OTHER -> H[Place(Coefficients, n) + 1]]

\* A coefficient from 0 to 9.99, or no coefficient.
InRange(change) == \A n \in DOMAIN change \cap ToSet(Coefficients) : change[n] \in 0 .. 999

Abstract == INSTANCE Settings
              WITH Changes <- {Meaning(r[1], r[2]) : r \in Recognised},
                   Clear <- InRange,
                   First <- Started,
                   Default <- [n \in Names |-> IF n = "H0:" THEN 100
                                               ELSE IF n = "algorism_number" THEN 1 ELSE 0],
                   settings <- SettingsNow

\* The path from the word to the DSP's state implements the abstract settings:
\* each command is carried out, once, in order, also between coefficients of any
\* sign and size.
ImplementsSettings == Abstract!Spec

\* "Sent FIR Coefficients H to DSP": the coefficient that is named gets the value
\* that was sent, and it is not taken for a command or for another coefficient.
CoefficientsArrive ==
  [][Dispatch => SettingsNow' = Abstract!Changed(SettingsNow, Head(asked))]_vars
=============================================================================
