----------------------- MODULE CommandDispatch_proofs -----------------------
(***************************************************************************)
(* Proofs about CommandDispatch, for every set of integers the phone may    *)
(* send as coefficients and every window: the path from a recognised word   *)
(* over the number of its message to the switch of the DSP implements the   *)
(* abstract settings, as far as safety goes.                                *)
(***************************************************************************)
EXTENDS CommandDispatch, SequenceTheorems, TLAPS

-----------------------------------------------------------------------------
(* The numbers of the enumeration, and the places of the words *)

LEMMA MsgNumbers ==
  /\ MSG_CMD("START") = 0 /\ MSG_CMD("ENABLE_ALGORISM") = 1
  /\ MSG_CMD("DISABLE_ALGORISM") = 2 /\ MSG_CMD("ALGORISM_DATA") = 3
  /\ MSG_CMD("RAW_DATA") = 4 /\ MSG_CMD("CHA") = 5 /\ MSG_CMD("CHB") = 6
  /\ MSG_CMD("ALGORISM1") = 7 /\ MSG_CMD("ALGORISM2") = 8
  /\ FirstRate = 9 /\ MSG_CMD("RATE13") = 21 /\ MSG_CMD("RATE14") = 22
<1>1. MSG_CMD("START") = 0 /\ MSG_CMD("ENABLE_ALGORISM") = 1
  BY DEF MSG_CMD, MsgCmd
<1>2. MSG_CMD("DISABLE_ALGORISM") = 2 /\ MSG_CMD("ALGORISM_DATA") = 3
  BY DEF MSG_CMD, MsgCmd
<1>3. MSG_CMD("RAW_DATA") = 4 /\ MSG_CMD("CHA") = 5
  BY DEF MSG_CMD, MsgCmd
<1>4. MSG_CMD("CHB") = 6 /\ MSG_CMD("ALGORISM1") = 7
  BY DEF MSG_CMD, MsgCmd
<1>5. MSG_CMD("ALGORISM2") = 8 /\ MSG_CMD("RATE1") = 9
  BY DEF MSG_CMD, MsgCmd
<1>6. MSG_CMD("RATE13") = 21 /\ MSG_CMD("RATE14") = 22
  BY DEF MSG_CMD, MsgCmd
<1> QED
  BY <1>1, <1>2, <1>3, <1>4, <1>5, <1>6 DEF FirstRate

LEMMA RatesAre ==
  /\ ToSet(Rates) = {"RATEA", "RATEB", "RATEC", "RATED", "RATEE", "RATEF", "RATEG",
                     "RATEH", "RATEI", "RATEJ", "RATEK", "RATEL", "RATEM"}
  /\ \A w \in ToSet(Rates) : Place(Rates, w) \in 0 .. 12
<1>1. DOMAIN Rates = 1 .. 13 /\ Len(Rates) = 13
  BY DEF Rates
<1>2. ToSet(Rates) = {"RATEA", "RATEB", "RATEC", "RATED", "RATEE", "RATEF", "RATEG",
                      "RATEH", "RATEI", "RATEJ", "RATEK", "RATEL", "RATEM"}
  BY <1>1 DEF Rates, ToSet
<1>3. \A w \in ToSet(Rates) : \E n \in 1 .. Len(Rates) : Rates[n] = w
  BY <1>1 DEF ToSet
<1> QED
  BY <1>1, <1>2, <1>3 DEF Place

LEMMA CoefficientsAre ==
  /\ ToSet(Coefficients) = {"H0:", "H1:", "H2:", "H3:"}
  /\ Place(Coefficients, "H0:") = 0 /\ Place(Coefficients, "H1:") = 1
  /\ Place(Coefficients, "H2:") = 2 /\ Place(Coefficients, "H3:") = 3
<1>1. DOMAIN Coefficients = 1 .. 4 /\ Len(Coefficients) = 4
  BY DEF Coefficients
<1>2. ToSet(Coefficients) = {"H0:", "H1:", "H2:", "H3:"}
  BY <1>1 DEF Coefficients, ToSet
<1>3. Place(Coefficients, "H0:") = 0 /\ Place(Coefficients, "H1:") = 1
  BY DEF Coefficients, Place
<1>4. Place(Coefficients, "H2:") = 2 /\ Place(Coefficients, "H3:") = 3
  BY DEF Coefficients, Place
<1> QED
  BY <1>2, <1>3, <1>4

-----------------------------------------------------------------------------
(* What a word asks for and the number that carries it *)

LEMMA Switch ==
  ASSUME NEW v
  PROVE  /\ Command("ENALGO", v) = 1 /\ Meaning("ENALGO", v) = Set("do_algorism", 1)
         /\ Command("DISALGO", v) = 2 /\ Meaning("DISALGO", v) = Set("do_algorism", 0)
         /\ Command("CHA", v) = 5 /\ Meaning("CHA", v) = Set("channel", 0)
         /\ Command("CHB", v) = 6 /\ Meaning("CHB", v) = Set("channel", 1)
         /\ Command("FIR", v) = 7 /\ Meaning("FIR", v) = Set("algorism_number", 1)
         /\ Command("FFT", v) = 8 /\ Meaning("FFT", v) = Set("algorism_number", 2)
<1>1. \A w \in SwitchWords : ~HasNumber(w) /\ w \notin ToSet(Rates)
  BY RatesAre, CoefficientsAre DEF SwitchWords, HasNumber
<1>2. {"ENABLE_ALGORISM", "DISABLE_ALGORISM", "CHA", "CHB", "ALGORISM1", "ALGORISM2"}
        \subseteq ToSet(MsgCmd)
  BY DEF MsgCmd, ToSet
<1> DEFINE pairs == {<<"ENALGO", "ENABLE_ALGORISM">>, <<"DISALGO", "DISABLE_ALGORISM">>,
                     <<"CHA", "CHA">>, <<"CHB", "CHB">>,
                     <<"FIR", "ALGORISM1">>, <<"FFT", "ALGORISM2">>}
           Name(w) == CHOOSE name \in ToSet(MsgCmd) : <<w, name>> \in pairs
<1>3. \A w \in SwitchWords : Command(w, v) = MSG_CMD(Name(w))
  BY <1>1 DEF Command
<1>4. Name("ENALGO") = "ENABLE_ALGORISM" /\ Name("DISALGO") = "DISABLE_ALGORISM"
  BY <1>2
<1>5. Name("CHA") = "CHA" /\ Name("CHB") = "CHB"
  BY <1>2
<1>6. Name("FIR") = "ALGORISM1" /\ Name("FFT") = "ALGORISM2"
  BY <1>2
<1> HIDE DEF Name
<1>7. /\ Command("ENALGO", v) = 1 /\ Command("DISALGO", v) = 2
      /\ Command("CHA", v) = 5 /\ Command("CHB", v) = 6
      /\ Command("FIR", v) = 7 /\ Command("FFT", v) = 8
  BY <1>3, <1>4, <1>5, <1>6, MsgNumbers DEF SwitchWords
<1> QED
  BY <1>1, <1>7 DEF Meaning, SwitchWords

LEMMA RateWord ==
  ASSUME NEW w \in ToSet(Rates), NEW v
  PROVE  /\ Command(w, v) = 9 + Place(Rates, w)
         /\ Meaning(w, v) = Set("rate", Place(Rates, w))
<1>1. ~HasNumber(w) /\ w \notin SwitchWords
  BY RatesAre, CoefficientsAre DEF SwitchWords, HasNumber
<1> QED
  BY <1>1, MsgNumbers DEF Command, Meaning, SwitchWords

LEMMA CoefficientWord ==
  ASSUME NEW w \in ToSet(Coefficients), NEW v \in Int
  PROVE  /\ Command(w, v) = Unsigned(1000 * (Place(Coefficients, w) + 1) + v)
         /\ Meaning(w, v) = Set(w, v)
         /\ Place(Coefficients, w) \in 0 .. 3
<1>1. HasNumber(w) /\ w \notin SwitchWords /\ w \notin ToSet(Rates)
  BY RatesAre, CoefficientsAre DEF SwitchWords, HasNumber
<1> QED
  BY <1>1, CoefficientsAre DEF Command, Meaning, SwitchWords

LEMMA NamesAre ==
  Names = {"is_started", "do_algorism", "channel", "algorism_number", "rate",
           "H0:", "H1:", "H2:", "H3:"}
BY CoefficientsAre DEF Names

-----------------------------------------------------------------------------
(* Settings and changes as functions *)

\* What Set names and the value it gives.
LEMMA SetIs ==
  ASSUME NEW name, NEW value
  PROVE  DOMAIN Set(name, value) = {name} /\ Set(name, value)[name] = value
BY DEF Set

\* A change of one setting took effect if that setting has its value and the
\* others have the values they had.
LEMMA OneSettingChanged ==
  ASSUME NEW s, NEW t, NEW name \in Names, NEW value,
         s = [n \in Names |-> s[n]], t = [n \in Names |-> t[n]],
         t[name] = value, \A n \in Names \ {name} : t[n] = s[n]
  PROVE  t = Abstract!Changed(s, Set(name, value))
<1>1. DOMAIN s = Names
  OBVIOUS
<1>2. ASSUME NEW n \in Names
      PROVE  t[n] = IF n \in DOMAIN Set(name, value) THEN Set(name, value)[n] ELSE s[n]
  <2>1. CASE n = name
    BY <2>1, SetIs
  <2>2. CASE n # name
    <3>1. n \notin DOMAIN Set(name, value) /\ t[n] = s[n]
      BY <2>2, SetIs
    <3> QED
      BY <3>1
  <2> QED
    BY <2>1, <2>2
<1>3. [n \in Names |-> t[n]] =
        [n \in Names |-> IF n \in DOMAIN Set(name, value)
                         THEN Set(name, value)[n] ELSE s[n]]
  BY <1>2, Zenon
<1> QED
  BY <1>1, <1>3 DEF Abstract!Changed

\* SettingsNow as a function of the variables it reads.
State(is, do, al, h, ch, rp) ==
  [n \in Names |->
     CASE n = "is_started" -> is
       [] n = "do_algorism" -> do
       [] n = "channel" -> ch
       [] n = "algorism_number" -> al
       [] n = "rate" -> 8 * rp[1] + 4 * rp[2] + 2 * rp[3] + rp[4]
       [] OTHER -> h[Place(Coefficients, n) + 1]]

LEMMA StateIs ==
  ASSUME NEW is, NEW do, NEW al, NEW h, NEW ch, NEW rp
  PROVE  LET s == State(is, do, al, h, ch, rp)
         IN  /\ s = [n \in Names |-> s[n]]
             /\ s["is_started"] = is /\ s["do_algorism"] = do /\ s["channel"] = ch
             /\ s["algorism_number"] = al
             /\ s["rate"] = 8 * rp[1] + 4 * rp[2] + 2 * rp[3] + rp[4]
             /\ s["H0:"] = h[1] /\ s["H1:"] = h[2] /\ s["H2:"] = h[3] /\ s["H3:"] = h[4]
<1> DEFINE s == State(is, do, al, h, ch, rp)
<1>1. s = [n \in Names |-> s[n]]
  BY Zenon DEF State
<1>2. /\ s["is_started"] = is /\ s["do_algorism"] = do /\ s["channel"] = ch
      /\ s["algorism_number"] = al
      /\ s["rate"] = 8 * rp[1] + 4 * rp[2] + 2 * rp[3] + rp[4]
  BY NamesAre DEF State
<1>3. s["H0:"] = h[Place(Coefficients, "H0:") + 1] /\ s["H1:"] = h[Place(Coefficients, "H1:") + 1]
  BY NamesAre DEF State
<1>4. s["H2:"] = h[Place(Coefficients, "H2:") + 1] /\ s["H3:"] = h[Place(Coefficients, "H3:") + 1]
  BY NamesAre DEF State
<1> QED
  BY <1>1, <1>2, <1>3, <1>4, CoefficientsAre

-----------------------------------------------------------------------------
(* Which changes a number carries *)

\* The number c of a message carries the change.  A coefficient out of range is
\* carried by any number; START, which is sent once, is treated apart.
Carries(c, change) ==
  \/ c = 1 /\ change = Set("do_algorism", 1)
  \/ c = 2 /\ change = Set("do_algorism", 0)
  \/ c \in {5, 6} /\ change = Set("channel", c - 5)
  \/ c \in {7, 8} /\ change = Set("algorism_number", c - 6)
  \/ c \in 9 .. 21 /\ change = Set("rate", c - 9)
  \/ \E v \in 0 .. 999 : \/ c = 1000 + v /\ change = Set("H0:", v)
                         \/ c = 2000 + v /\ change = Set("H1:", v)
                         \/ c = 3000 + v /\ change = Set("H2:", v)
                         \/ c = 4000 + v /\ change = Set("H3:", v)
  \/ c \in 0 .. Beyond /\ ~ InRange(change)

LEMMA UnsignedIsSame ==
  ASSUME NEW n \in 0 .. 5000
  PROVE  Unsigned(n) = n
BY DEF Unsigned

LEMMA UnsignedInRange ==
  ASSUME NEW v \in 0 .. 999
  PROVE  /\ Unsigned(1000 + v) = 1000 + v /\ Unsigned(2000 + v) = 2000 + v
         /\ Unsigned(3000 + v) = 3000 + v /\ Unsigned(4000 + v) = 4000 + v
<1>1. Unsigned(1000 + v) = 1000 + v
  <2>1. 1000 + v \in 0 .. 5000
    OBVIOUS
  <2> QED
    BY <2>1, UnsignedIsSame
<1>2. Unsigned(2000 + v) = 2000 + v
  <2>1. 2000 + v \in 0 .. 5000
    OBVIOUS
  <2> QED
    BY <2>1, UnsignedIsSame
<1>3. Unsigned(3000 + v) = 3000 + v
  <2>1. 3000 + v \in 0 .. 5000
    OBVIOUS
  <2> QED
    BY <2>1, UnsignedIsSame
<1>4. Unsigned(4000 + v) = 4000 + v
  <2>1. 4000 + v \in 0 .. 5000
    OBVIOUS
  <2> QED
    BY <2>1, UnsignedIsSame
<1> QED
  BY <1>1, <1>2, <1>3, <1>4

LEMMA UnsignedIs ==
  ASSUME NEW n \in Int
  PROVE  Unsigned(n) \in 0 .. Beyond
BY DEF Unsigned, Beyond

LEMMA CoefficientCarries ==
  ASSUME NEW w \in ToSet(Coefficients), NEW v \in Int
  PROVE  Carries(Command(w, v), Meaning(w, v))
<1> DEFINE number == 1000 * (Place(Coefficients, w) + 1) + v
<1>1. Command(w, v) = Unsigned(number) /\ Meaning(w, v) = Set(w, v)
  BY CoefficientWord
<1>2. number \in Int
  BY CoefficientWord
<1>3. CASE v \in 0 .. 999
  <2>1. CASE w = "H0:"
    <3>1. number = 1000 + v
      BY <2>1, CoefficientsAre
    <3>2. Command(w, v) = 1000 + v
      BY <1>1, <1>3, <3>1, UnsignedInRange
    <3>3. Meaning(w, v) = Set("H0:", v)
      BY <1>1, <2>1
    <3> QED
      BY <1>3, <3>2, <3>3 DEF Carries
  <2>2. CASE w = "H1:"
    <3>1. number = 2000 + v
      BY <2>2, CoefficientsAre
    <3>2. Command(w, v) = 2000 + v
      BY <1>1, <1>3, <3>1, UnsignedInRange
    <3>3. Meaning(w, v) = Set("H1:", v)
      BY <1>1, <2>2
    <3> QED
      BY <1>3, <3>2, <3>3 DEF Carries
  <2>3. CASE w = "H2:"
    <3>1. number = 3000 + v
      BY <2>3, CoefficientsAre
    <3>2. Command(w, v) = 3000 + v
      BY <1>1, <1>3, <3>1, UnsignedInRange
    <3>3. Meaning(w, v) = Set("H2:", v)
      BY <1>1, <2>3
    <3> QED
      BY <1>3, <3>2, <3>3 DEF Carries
  <2>4. CASE w = "H3:"
    <3>1. number = 4000 + v
      BY <2>4, CoefficientsAre
    <3>2. Command(w, v) = 4000 + v
      BY <1>1, <1>3, <3>1, UnsignedInRange
    <3>3. Meaning(w, v) = Set("H3:", v)
      BY <1>1, <2>4
    <3> QED
      BY <1>3, <3>2, <3>3 DEF Carries
  <2> QED
    BY <2>1, <2>2, <2>3, <2>4, CoefficientsAre
<1>4. CASE v \notin 0 .. 999
  <2> HIDE DEF number
  <2>1. Command(w, v) \in 0 .. Beyond
    BY <1>1, <1>2, UnsignedIs
  <2>2. w \in DOMAIN Set(w, v) \cap ToSet(Coefficients)
    BY SetIs
  <2>3. Set(w, v)[w] = v
    BY SetIs
  <2>4. ~ InRange(Set(w, v))
    BY <1>4, <2>2, <2>3 DEF InRange
  <2> QED
    BY <1>1, <2>1, <2>4 DEF Carries
<1> QED
  BY <1>3, <1>4

\* The thread sends a number that carries what the word asks for.
LEMMA WordCarries ==
  ASSUME NEW r \in Recognised
  PROVE  Carries(Command(r[1], r[2]), Meaning(r[1], r[2]))
<1>1. /\ r[1] \in SwitchWords \cup ToSet(Rates) \cup ToSet(Coefficients)
      /\ HasNumber(r[1]) => r[2] \in Int
  BY HundredthsAssumption DEF Recognised, Words
<1> DEFINE w == r[1]
           v == r[2]
<1>2. CASE w \in SwitchWords
  BY <1>2, Switch DEF SwitchWords, Carries
<1>3. CASE w \in ToSet(Rates)
  <2>1. Place(Rates, w) \in 0 .. 12
    BY <1>3, RatesAre
  <2>2. /\ 9 + Place(Rates, w) \in 9 .. 21
        /\ (9 + Place(Rates, w)) - 9 = Place(Rates, w)
    BY <2>1
  <2> QED
    BY <1>3, <2>2, RateWord DEF Carries
<1>4. CASE w \in ToSet(Coefficients)
  <2>1. v \in Int
    BY <1>1, <1>4 DEF HasNumber
  <2> QED
    BY <1>4, <2>1, CoefficientCarries
<1> QED
  BY <1>1, <1>2, <1>3, <1>4

-----------------------------------------------------------------------------
(* The invariant *)

DspType == /\ is_started \in {0, 1} /\ do_algorism \in {0, 1}
           /\ algorism_number \in {1, 2} /\ channelPin \in {0, 1}
           /\ H \in [1 .. 4 -> 0 .. 999]
           /\ ratePins \in [1 .. 4 -> {0, 1}]

AllChanges == {Meaning(r[1], r[2]) : r \in Recognised} \cup {Started[1], Started[2]}

TypeInv == /\ word \in Recognised \cup {Nothing}
           /\ cmdq \in Seq(0 .. Beyond)
           /\ asked \in Seq(AllChanges)
           /\ DspType

\* What was asked for is on its way, in order: the messages, then the word.
CarryInv ==
  /\ Len(asked) = Len(cmdq) + (IF word = Nothing THEN 0 ELSE 1)
  /\ \A n \in 1 .. Len(cmdq) :
       IF n = 1 /\ is_started = 0
         THEN cmdq[n] = 0 /\ asked[n] = Started[1]
         ELSE Carries(cmdq[n], asked[n])
  /\ word # Nothing => asked[Len(asked)] = Meaning(word[1], word[2])
  /\ is_started = 0 => cmdq # <<>>

IInv == TypeInv /\ CarryInv

-----------------------------------------------------------------------------
(* The step of the DSP *)

\* The switch takes one of its branches, and keeps the types of the settings.
Branch(c) == \/ OnStart(c) \/ OnEnableDisable(c) \/ OnChannel(c) \/ OnAlgorism(c)
             \/ OnRate(c) \/ OnCoefficient(c) \/ OnOther(c)

LEMMA BranchKeepsType ==
  ASSUME DspType, NEW c \in 0 .. Beyond, Branch(c)
  PROVE  DspType' /\ (is_started' = 0 => c # 0 /\ is_started = 0)
<1>1. CASE OnStart(c)
  BY <1>1 DEF OnStart, DspType
<1>2. CASE OnEnableDisable(c)
  BY <1>2, MsgNumbers DEF OnEnableDisable, DspType
<1>3. CASE OnChannel(c)
  BY <1>3, MsgNumbers DEF OnChannel, DspType
<1>4. CASE OnAlgorism(c)
  BY <1>4, MsgNumbers DEF OnAlgorism, DspType
<1>5. CASE OnRate(c)
  <2> DEFINE r == c - 9
  <2>1. c \in 9 .. 21 /\ ratePins' = <<r \div 8, (r \div 4) % 2, (r \div 2) % 2, r % 2>>
    BY <1>5, MsgNumbers DEF OnRate
  <2>2. r \in 0 .. 12
    BY <2>1
  <2>3. /\ r \div 8 \in {0, 1} /\ (r \div 4) % 2 \in {0, 1}
        /\ (r \div 2) % 2 \in {0, 1} /\ r % 2 \in {0, 1}
    BY <2>2
  <2> HIDE DEF r
  <2>4. ratePins' \in [1 .. 4 -> {0, 1}]
    BY <2>1, <2>3
  <2> QED
    BY <1>5, <2>1, <2>4 DEF OnRate, DspType
<1>6. CASE OnCoefficient(c)
  <2>1. c \div 1000 \in 1 .. 4 /\ c % 1000 \in 0 .. 999
    BY <1>6 DEF OnCoefficient
  <2>2. H' \in [1 .. 4 -> 0 .. 999]
    BY <1>6, <2>1 DEF OnCoefficient, DspType
  <2> QED
    BY <1>6, <2>2 DEF OnCoefficient, DspType
<1>7. CASE OnOther(c)
  BY <1>7, MsgNumbers DEF OnOther, dsp, DspType
<1> QED
  BY <1>1, <1>2, <1>3, <1>4, <1>5, <1>6, <1>7 DEF Branch

\* Long numerals are kept out of the sight of the first-order prover.
CoefficientNumbers == 1000 .. 4999
Index(c) == c \div 1000
Rest(c) == c % 1000

\* The number alone decides which branch the switch takes.
LEMMA BranchOf ==
  ASSUME NEW c \in 0 .. Beyond, Branch(c)
  PROVE  /\ c = 0 => OnStart(c)
         /\ c \in {1, 2} => OnEnableDisable(c)
         /\ c \in {5, 6} => OnChannel(c)
         /\ c \in {7, 8} => OnAlgorism(c)
         /\ c \in 9 .. 21 => OnRate(c)
         /\ c \in CoefficientNumbers => OnCoefficient(c)
<1>1. OnStart(c) => c = 0
  BY MsgNumbers DEF OnStart
<1>2. OnEnableDisable(c) => c \in {1, 2}
  BY MsgNumbers DEF OnEnableDisable
<1>3. OnChannel(c) => c \in {5, 6}
  BY MsgNumbers DEF OnChannel
<1>4. OnAlgorism(c) => c \in {7, 8}
  BY MsgNumbers DEF OnAlgorism
<1>5. OnRate(c) => c \in 9 .. 21
  BY MsgNumbers DEF OnRate
<1>6. OnCoefficient(c) => c \in 1000 .. 4999
  BY DEF OnCoefficient
<1>7. OnOther(c) => c \in {3, 4} \cup (22 .. 999) \cup (5000 .. Beyond)
  BY MsgNumbers DEF OnOther
<1>8. c = 0 => OnStart(c)
  BY <1>2, <1>3, <1>4, <1>5, <1>6, <1>7 DEF Branch
<1>9. c \in {1, 2} => OnEnableDisable(c)
  BY <1>1, <1>3, <1>4, <1>5, <1>6, <1>7 DEF Branch
<1>10. c \in {5, 6} => OnChannel(c)
  BY <1>1, <1>2, <1>4, <1>5, <1>6, <1>7 DEF Branch
<1>11. c \in {7, 8} => OnAlgorism(c)
  BY <1>1, <1>2, <1>3, <1>5, <1>6, <1>7 DEF Branch
<1>12. c \in 9 .. 21 => OnRate(c)
  BY <1>1, <1>2, <1>3, <1>4, <1>6, <1>7 DEF Branch
<1>13. c \in CoefficientNumbers => OnCoefficient(c)
  BY <1>1, <1>2, <1>3, <1>4, <1>5, <1>7 DEF Branch, CoefficientNumbers
<1> QED
  BY <1>8, <1>9, <1>10, <1>11, <1>12, <1>13, Zenon

LEMMA CoefficientBranch ==
  ASSUME NEW c \in 0 .. Beyond, Branch(c), c \in CoefficientNumbers
  PROVE  /\ H' = [H EXCEPT ![Index(c)] = Rest(c)]
         /\ UNCHANGED <<is_started, do_algorism, algorism_number, channelPin, ratePins>>
<1>1. OnCoefficient(c)
  BY BranchOf, Zenon
<1> QED
  BY <1>1 DEF OnCoefficient, Index, Rest

\* The four pins show the rate in binary.
LEMMA PinsShowRate ==
  ASSUME NEW r \in 0 .. 12
  PROVE  8 * (r \div 8) + 4 * ((r \div 4) % 2) + 2 * ((r \div 2) % 2) + (r % 2) = r
OBVIOUS

\* The settings before and after a step as functions of the variables.
LEMMA StateNow ==
  /\ SettingsNow = State(is_started, do_algorism, algorism_number, H, channelPin, ratePins)
  /\ SettingsNow' = State(is_started', do_algorism', algorism_number', H', channelPin',
                          ratePins')
BY DEF SettingsNow, State

\* The first START sets the DSP going on channel B at the highest rate.
LEMMA StartDoes ==
  ASSUME DspType, is_started = 0, Branch(0)
  PROVE  SettingsNow' = Abstract!Changed(SettingsNow, Started[1])
<1> DEFINE s == SettingsNow
           t == SettingsNow'
           change == [is_started |-> 1, channel |-> 1, rate |-> 12]
<1>1. /\ s = [n \in Names |-> s[n]] /\ t = [n \in Names |-> t[n]]
      /\ s["do_algorism"] = do_algorism /\ s["algorism_number"] = algorism_number
      /\ s["H0:"] = H[1] /\ s["H1:"] = H[2] /\ s["H2:"] = H[3] /\ s["H3:"] = H[4]
      /\ t["do_algorism"] = do_algorism' /\ t["algorism_number"] = algorism_number'
      /\ t["H0:"] = H'[1] /\ t["H1:"] = H'[2] /\ t["H2:"] = H'[3] /\ t["H3:"] = H'[4]
      /\ t["is_started"] = is_started' /\ t["channel"] = channelPin'
      /\ t["rate"] = 8 * ratePins'[1] + 4 * ratePins'[2] + 2 * ratePins'[3] + ratePins'[4]
  BY StateNow, StateIs
<1>2. /\ is_started' = 1 /\ channelPin' = 1 /\ ratePins' = <<1, 1, 0, 0>>
      /\ UNCHANGED <<do_algorism, algorism_number, H>>
  <2>1. 0 \in 0 .. Beyond
    BY DEF Beyond
  <2>2. OnStart(0)
    BY <2>1, BranchOf
  <2> QED
    BY <2>2 DEF OnStart
<1>3. /\ t["is_started"] = 1 /\ t["channel"] = 1 /\ t["rate"] = 12
      /\ \A n \in Names \ {"is_started", "channel", "rate"} : t[n] = s[n]
  BY <1>1, <1>2, NamesAre
<1> HIDE DEF s, t
<1>4. DOMAIN s = Names
  BY <1>1
<1>5. DOMAIN change = {"is_started", "channel", "rate"}
  OBVIOUS
<1>6. change["is_started"] = 1 /\ change["channel"] = 1 /\ change["rate"] = 12
  OBVIOUS
<1> HIDE DEF change
<1>7. \A n \in Names : t[n] = IF n \in DOMAIN change THEN change[n] ELSE s[n]
  BY <1>3, <1>5, <1>6
<1>8. t = [n \in Names |-> IF n \in DOMAIN change THEN change[n] ELSE s[n]]
  <2>1. [n \in Names |-> t[n]] =
          [n \in Names |-> IF n \in DOMAIN change THEN change[n] ELSE s[n]]
    BY <1>7, Zenon
  <2> QED
    BY <1>1, <2>1
<1>9. t = Abstract!Changed(s, change)
  BY <1>4, <1>8 DEF Abstract!Changed
<1> QED
  BY <1>9 DEF s, t, change, Started

\* Every later message does what the change it carries asks for, if that is clear.
LEMMA MessageDoes ==
  ASSUME DspType, is_started = 1, NEW c \in 0 .. Beyond, Branch(c),
         NEW change, Carries(c, change), InRange(change)
  PROVE  SettingsNow' = Abstract!Changed(SettingsNow, change)
<1> DEFINE s == SettingsNow
           t == SettingsNow'
           Coefficient(v) == \/ c = 1000 + v /\ change = Set("H0:", v)
                             \/ c = 2000 + v /\ change = Set("H1:", v)
                             \/ c = 3000 + v /\ change = Set("H2:", v)
                             \/ c = 4000 + v /\ change = Set("H3:", v)
<1>1. /\ s = [n \in Names |-> s[n]]
      /\ s["is_started"] = is_started /\ s["do_algorism"] = do_algorism
      /\ s["channel"] = channelPin /\ s["algorism_number"] = algorism_number
      /\ s["rate"] = 8 * ratePins[1] + 4 * ratePins[2] + 2 * ratePins[3] + ratePins[4]
      /\ s["H0:"] = H[1] /\ s["H1:"] = H[2] /\ s["H2:"] = H[3] /\ s["H3:"] = H[4]
  BY StateNow, StateIs
<1>2. /\ t = [n \in Names |-> t[n]]
      /\ t["is_started"] = is_started' /\ t["do_algorism"] = do_algorism'
      /\ t["channel"] = channelPin' /\ t["algorism_number"] = algorism_number'
      /\ t["rate"] = 8 * ratePins'[1] + 4 * ratePins'[2] + 2 * ratePins'[3] + ratePins'[4]
      /\ t["H0:"] = H'[1] /\ t["H1:"] = H'[2] /\ t["H2:"] = H'[3] /\ t["H3:"] = H'[4]
  BY StateNow, StateIs
<1> SUFFICES t = Abstract!Changed(s, change)
  OBVIOUS
<1> HIDE DEF s, t, Coefficient
<1>3. ASSUME NEW name \in Names, change = Set(name, t[name]),
             \A n \in Names \ {name} : t[n] = s[n]
      PROVE  t = Abstract!Changed(s, change)
  BY <1>1, <1>2, <1>3, OneSettingChanged
<1>4. CASE \/ c = 1 /\ change = Set("do_algorism", 1)
           \/ c = 2 /\ change = Set("do_algorism", 0)
  <2>1. /\ do_algorism' = IF c = 1 THEN 1 ELSE 0
        /\ UNCHANGED <<is_started, algorism_number, H, channelPin, ratePins>>
    BY <1>4, BranchOf, MsgNumbers DEF OnEnableDisable
  <2>2. \A n \in Names \ {"do_algorism"} : t[n] = s[n]
    BY <1>1, <1>2, <2>1, NamesAre
  <2>3. "do_algorism" \in Names /\ change = Set("do_algorism", t["do_algorism"])
    BY <1>2, <1>4, <2>1, NamesAre
  <2> QED
    BY <1>3, <2>2, <2>3, Zenon
<1>5. CASE c \in {5, 6} /\ change = Set("channel", c - 5)
  <2>1. /\ channelPin' = c - 5
        /\ UNCHANGED <<is_started, do_algorism, algorism_number, H, ratePins>>
    BY <1>5, BranchOf, MsgNumbers DEF OnChannel
  <2>2. \A n \in Names \ {"channel"} : t[n] = s[n]
    BY <1>1, <1>2, <2>1, NamesAre
  <2>3. "channel" \in Names /\ change = Set("channel", t["channel"])
    BY <1>2, <1>5, <2>1, NamesAre
  <2> QED
    BY <1>3, <2>2, <2>3, Zenon
<1>6. CASE c \in {7, 8} /\ change = Set("algorism_number", c - 6)
  <2>1. /\ algorism_number' = c - 6
        /\ UNCHANGED <<is_started, do_algorism, H, channelPin, ratePins>>
    BY <1>6, BranchOf, MsgNumbers DEF OnAlgorism
  <2>2. \A n \in Names \ {"algorism_number"} : t[n] = s[n]
    BY <1>1, <1>2, <2>1, NamesAre
  <2>3. "algorism_number" \in Names /\ change = Set("algorism_number", t["algorism_number"])
    BY <1>2, <1>6, <2>1, NamesAre
  <2> QED
    BY <1>3, <2>2, <2>3, Zenon
<1>7. CASE c \in 9 .. 21 /\ change = Set("rate", c - 9)
  <2> DEFINE r == c - 9
  <2>1. /\ ratePins' = <<r \div 8, (r \div 4) % 2, (r \div 2) % 2, r % 2>>
        /\ UNCHANGED <<is_started, do_algorism, algorism_number, H, channelPin>>
    BY <1>7, BranchOf, MsgNumbers DEF OnRate
  <2>2. r \in 0 .. 12 /\ change = Set("rate", r)
    BY <1>7
  <2> HIDE DEF r
  <2>3. t["rate"] = r
    BY <1>2, <2>1, <2>2, PinsShowRate
  <2>4. \A n \in Names \ {"rate"} : t[n] = s[n]
    BY <1>1, <1>2, <2>1, NamesAre
  <2> QED
    <3>1. "rate" \in Names /\ change = Set("rate", t["rate"])
      BY <2>2, <2>3, NamesAre
    <3> QED
      BY <1>3, <2>4, <3>1, Zenon
<1>8. CASE \E v \in 0 .. 999 : Coefficient(v)
  <2>1. PICK v \in 0 .. 999 : Coefficient(v)
    BY <1>8, Zenon
  <2>2. CASE c = 1000 + v /\ change = Set("H0:", v)
    <3>1. c \in CoefficientNumbers /\ Index(c) = 1 /\ Rest(c) = v
      BY <2>2 DEF CoefficientNumbers, Index, Rest
    <3>2. /\ H' = [H EXCEPT ![1] = v]
          /\ UNCHANGED <<is_started, do_algorism, algorism_number, channelPin, ratePins>>
      BY <3>1, CoefficientBranch
    <3>3. H'[1] = v /\ \A k \in (1 .. 4) \ {1} : H'[k] = H[k]
      BY <3>2 DEF DspType
    <3>4. t["H0:"] = v
      BY <1>2, <3>3
    <3>5. \A n \in Names \ {"H0:"} : t[n] = s[n]
      BY <1>1, <1>2, <3>2, <3>3, NamesAre
    <3> QED
      <4>1. "H0:" \in Names /\ change = Set("H0:", t["H0:"])
        BY <2>2, <3>4, NamesAre
      <4> QED
        BY <1>3, <3>5, <4>1, Zenon
  <2>3. CASE c = 2000 + v /\ change = Set("H1:", v)
    <3>1. c \in CoefficientNumbers /\ Index(c) = 2 /\ Rest(c) = v
      BY <2>3 DEF CoefficientNumbers, Index, Rest
    <3>2. /\ H' = [H EXCEPT ![2] = v]
          /\ UNCHANGED <<is_started, do_algorism, algorism_number, channelPin, ratePins>>
      BY <3>1, CoefficientBranch
    <3>3. H'[2] = v /\ \A k \in (1 .. 4) \ {2} : H'[k] = H[k]
      BY <3>2 DEF DspType
    <3>4. t["H1:"] = v
      BY <1>2, <3>3
    <3>5. \A n \in Names \ {"H1:"} : t[n] = s[n]
      BY <1>1, <1>2, <3>2, <3>3, NamesAre
    <3> QED
      <4>1. "H1:" \in Names /\ change = Set("H1:", t["H1:"])
        BY <2>3, <3>4, NamesAre
      <4> QED
        BY <1>3, <3>5, <4>1, Zenon
  <2>4. CASE c = 3000 + v /\ change = Set("H2:", v)
    <3>1. c \in CoefficientNumbers /\ Index(c) = 3 /\ Rest(c) = v
      BY <2>4 DEF CoefficientNumbers, Index, Rest
    <3>2. /\ H' = [H EXCEPT ![3] = v]
          /\ UNCHANGED <<is_started, do_algorism, algorism_number, channelPin, ratePins>>
      BY <3>1, CoefficientBranch
    <3>3. H'[3] = v /\ \A k \in (1 .. 4) \ {3} : H'[k] = H[k]
      BY <3>2 DEF DspType
    <3>4. t["H2:"] = v
      BY <1>2, <3>3
    <3>5. \A n \in Names \ {"H2:"} : t[n] = s[n]
      BY <1>1, <1>2, <3>2, <3>3, NamesAre
    <3> QED
      <4>1. "H2:" \in Names /\ change = Set("H2:", t["H2:"])
        BY <2>4, <3>4, NamesAre
      <4> QED
        BY <1>3, <3>5, <4>1, Zenon
  <2>5. CASE c = 4000 + v /\ change = Set("H3:", v)
    <3>1. c \in CoefficientNumbers /\ Index(c) = 4 /\ Rest(c) = v
      BY <2>5 DEF CoefficientNumbers, Index, Rest
    <3>2. /\ H' = [H EXCEPT ![4] = v]
          /\ UNCHANGED <<is_started, do_algorism, algorism_number, channelPin, ratePins>>
      BY <3>1, CoefficientBranch
    <3>3. H'[4] = v /\ \A k \in (1 .. 4) \ {4} : H'[k] = H[k]
      BY <3>2 DEF DspType
    <3>4. t["H3:"] = v
      BY <1>2, <3>3
    <3>5. \A n \in Names \ {"H3:"} : t[n] = s[n]
      BY <1>1, <1>2, <3>2, <3>3, NamesAre
    <3> QED
      <4>1. "H3:" \in Names /\ change = Set("H3:", t["H3:"])
        BY <2>5, <3>4, NamesAre
      <4> QED
        BY <1>3, <3>5, <4>1, Zenon
  <2> QED
    BY <2>1, <2>2, <2>3, <2>4, <2>5 DEF Coefficient
<1>9. \/ c = 1 /\ change = Set("do_algorism", 1)
      \/ c = 2 /\ change = Set("do_algorism", 0)
      \/ c \in {5, 6} /\ change = Set("channel", c - 5)
      \/ c \in {7, 8} /\ change = Set("algorism_number", c - 6)
      \/ c \in 9 .. 21 /\ change = Set("rate", c - 9)
      \/ \E v \in 0 .. 999 : Coefficient(v)
  BY Zenon DEF Carries, Coefficient
<1> QED
  BY <1>4, <1>5, <1>6, <1>7, <1>8, <1>9

-----------------------------------------------------------------------------
(* The invariant is inductive *)

LEMMA NothingIsNoWord == Nothing \notin Recognised
<1>1. "none" \notin Words
  BY RatesAre, CoefficientsAre DEF Words, SwitchWords
<1>2. \A r \in Recognised : r[1] \in Words
  BY DEF Recognised
<1>3. Nothing[1] = "none"
  BY DEF Nothing
<1> QED
  BY <1>1, <1>2, <1>3

LEMMA CarriedInRange ==
  ASSUME NEW c, NEW change, Carries(c, change)
  PROVE  c \in 0 .. Beyond
BY DEF Carries, Beyond

LEMMA InitInv == Init => IInv
<1> SUFFICES ASSUME Init PROVE IInv
  OBVIOUS
<1>1. cmdq = <<0, 1>> /\ asked = <<Started[1], Started[2]>>
  BY MsgNumbers DEF Init, Started
<1>2. DspType
  BY DEF Init, DspType
<1>3. TypeInv
  <2>1. 0 \in 0 .. Beyond /\ 1 \in 0 .. Beyond
    BY DEF Beyond
  <2>2. cmdq \in Seq(0 .. Beyond) /\ asked \in Seq(AllChanges)
    <3> HIDE DEF Beyond
    <3> QED
      BY <1>1, <2>1 DEF AllChanges
  <2> QED
    BY <1>2, <2>2 DEF Init, TypeInv
<1>4. CarryInv
  <2>1. Len(asked) = 2 /\ Len(cmdq) = 2 /\ word = Nothing /\ is_started = 0
    BY <1>1 DEF Init
  <2>2. cmdq[1] = 0 /\ asked[1] = Started[1]
    BY <1>1
  <2>3. Carries(cmdq[2], asked[2])
    <3>1. Started[2] = Set("do_algorism", 1)
      BY DEF Started, Set
    <3> QED
      BY <1>1, <3>1 DEF Carries
  <2>4. \A n \in 1 .. Len(cmdq) : IF n = 1 /\ is_started = 0
                                   THEN cmdq[n] = 0 /\ asked[n] = Started[1]
                                   ELSE Carries(cmdq[n], asked[n])
    BY <2>1, <2>2, <2>3
  <2>5. cmdq # <<>>
    BY <1>1
  <2> QED
    BY <2>1, <2>4, <2>5 DEF CarryInv
<1> QED
  BY <1>3, <1>4 DEF IInv

LEMMA RecogniseInv == IInv /\ Recognise => IInv'
<1> SUFFICES ASSUME IInv, Recognise PROVE IInv'
  OBVIOUS
<1> DEFINE M == Meaning(word'[1], word'[2])
<1>1. /\ word = Nothing /\ word' \in Recognised /\ asked' = Append(asked, M)
      /\ cmdq' = cmdq /\ is_started' = is_started
      /\ UNCHANGED <<do_algorism, algorism_number, H, channelPin, ratePins>>
  BY DEF Recognise, dsp
<1>2. asked \in Seq(AllChanges) /\ cmdq \in Seq(0 .. Beyond)
  BY DEF IInv, TypeInv
<1>3. M \in AllChanges
  BY <1>1 DEF AllChanges
<1> HIDE DEF M
<1>4. /\ asked' \in Seq(AllChanges) /\ Len(asked') = Len(asked) + 1
      /\ asked'[Len(asked) + 1] = M
      /\ \A n \in 1 .. Len(asked) : asked'[n] = asked[n]
  BY <1>1, <1>2, <1>3, AppendProperties
<1>5. TypeInv'
  BY <1>1, <1>4 DEF IInv, TypeInv, DspType
<1>6. CarryInv'
  <2>1. Len(asked) = Len(cmdq) /\ Len(cmdq) \in Nat
    BY <1>1, <1>2 DEF IInv, CarryInv
  <2>2. word' # Nothing
    BY <1>1, NothingIsNoWord
  <2>3. \A n \in 1 .. Len(cmdq) : asked'[n] = asked[n]
    BY <1>4, <2>1
  <2>4. \A n \in 1 .. Len(cmdq') : IF n = 1 /\ is_started' = 0
                                    THEN cmdq'[n] = 0 /\ asked'[n] = Started[1]
                                    ELSE Carries(cmdq'[n], asked'[n])
    BY <1>1, <2>3 DEF IInv, CarryInv
  <2>5. asked'[Len(asked')] = Meaning(word'[1], word'[2])
    BY <1>4 DEF M
  <2>6. is_started' = 0 => cmdq' # <<>>
    BY <1>1 DEF IInv, CarryInv
  <2> QED
    BY <1>1, <1>4, <2>1, <2>2, <2>4, <2>5, <2>6 DEF CarryInv
<1> QED
  BY <1>5, <1>6 DEF IInv

LEMMA SendInv == IInv /\ Controler_send_cmd => IInv'
<1> SUFFICES ASSUME IInv, Controler_send_cmd PROVE IInv'
  OBVIOUS
<1> DEFINE C == Command(word[1], word[2])
<1>1. /\ word # Nothing /\ word' = Nothing /\ cmdq' = Append(cmdq, C)
      /\ asked' = asked /\ is_started' = is_started
      /\ UNCHANGED <<do_algorism, algorism_number, H, channelPin, ratePins>>
  BY DEF Controler_send_cmd, dsp
<1>2. asked \in Seq(AllChanges) /\ cmdq \in Seq(0 .. Beyond) /\ word \in Recognised
  BY <1>1 DEF IInv, TypeInv
<1>3. Carries(C, asked[Len(asked)])
  BY <1>1, <1>2, WordCarries DEF IInv, CarryInv
<1> HIDE DEF C
<1>4. C \in 0 .. Beyond
  BY <1>3, CarriedInRange
<1>5. /\ cmdq' \in Seq(0 .. Beyond) /\ Len(cmdq') = Len(cmdq) + 1
      /\ cmdq'[Len(cmdq) + 1] = C
      /\ \A n \in 1 .. Len(cmdq) : cmdq'[n] = cmdq[n]
  BY <1>1, <1>2, <1>4, AppendProperties
<1>6. TypeInv'
  BY <1>1, <1>5 DEF IInv, TypeInv, DspType
<1>7. CarryInv'
  <2>1. Len(asked) = Len(cmdq) + 1 /\ Len(cmdq) \in Nat
    BY <1>1, <1>2 DEF IInv, CarryInv
  <2>2. is_started = 0 => Len(cmdq) # 0
    BY <1>2, EmptySeq DEF IInv, CarryInv
  <2>3. ASSUME NEW n \in 1 .. Len(cmdq')
        PROVE  IF n = 1 /\ is_started' = 0
                 THEN cmdq'[n] = 0 /\ asked'[n] = Started[1]
                 ELSE Carries(cmdq'[n], asked'[n])
    <3>1. CASE n \in 1 .. Len(cmdq)
      BY <1>1, <1>5, <3>1 DEF IInv, CarryInv
    <3>2. CASE n = Len(cmdq) + 1
      <4>1. Carries(cmdq'[n], asked'[n])
        BY <1>1, <1>3, <1>5, <2>1, <3>2
      <4>2. ~ (n = 1 /\ is_started' = 0)
        BY <1>1, <2>1, <2>2, <3>2
      <4> QED
        BY <4>1, <4>2
    <3> QED
      BY <1>5, <2>1, <3>1, <3>2
  <2>4. is_started' = 0 => cmdq' # <<>>
    BY <1>5, <2>1
  <2> QED
    BY <1>1, <1>5, <2>1, <2>3, <2>4 DEF CarryInv
<1> QED
  BY <1>6, <1>7 DEF IInv

\* The message at the head and the change it carries.
LEMMA DispatchHead ==
  ASSUME IInv, Dispatch
  PROVE  /\ Head(cmdq) \in 0 .. Beyond /\ Branch(Head(cmdq))
         /\ asked # <<>>
         /\ asked' = Tail(asked) /\ cmdq' = Tail(cmdq) /\ word' = word
         /\ Len(cmdq) \in Nat \ {0} /\ Len(asked) \in Nat \ {0}
         /\ IF is_started = 0 THEN Head(cmdq) = 0 /\ Head(asked) = Started[1]
                              ELSE Carries(Head(cmdq), Head(asked))
<1>1. /\ asked' = Tail(asked) /\ cmdq' = Tail(cmdq) /\ word' = word
      /\ cmdq # <<>> /\ Branch(Head(cmdq))
  BY DEF Dispatch, Branch
<1>2. asked \in Seq(AllChanges) /\ cmdq \in Seq(0 .. Beyond)
  BY DEF IInv, TypeInv
<1>3. Head(cmdq) \in 0 .. Beyond /\ Len(cmdq) \in Nat \ {0} /\ Head(cmdq) = cmdq[1]
  <2>1. Head(cmdq) \in 0 .. Beyond
    BY <1>1, <1>2, HeadTailProperties
  <2>2. Len(cmdq) \in Nat \ {0}
    BY <1>1, <1>2, EmptySeq, LenProperties
  <2>3. Head(cmdq) = cmdq[1]
    BY <1>1, <1>2
  <2> QED
    BY <2>1, <2>2, <2>3
<1>4. Len(asked) \in Nat \ {0}
  BY <1>2, <1>3 DEF IInv, CarryInv
<1>5. asked # <<>> /\ Head(asked) = asked[1]
  BY <1>2, <1>4
<1>6. 1 \in 1 .. Len(cmdq)
  BY <1>3
<1>7. IF is_started = 0 THEN cmdq[1] = 0 /\ asked[1] = Started[1]
                        ELSE Carries(cmdq[1], asked[1])
  BY <1>6 DEF IInv, CarryInv
<1> QED
  BY <1>1, <1>3, <1>4, <1>5, <1>7

LEMMA DispatchInv == IInv /\ Dispatch => IInv'
<1> SUFFICES ASSUME IInv, Dispatch PROVE IInv'
  OBVIOUS
<1>1. /\ asked' = Tail(asked) /\ cmdq' = Tail(cmdq) /\ word' = word
      /\ Len(cmdq) \in Nat \ {0} /\ Len(asked) \in Nat \ {0}
      /\ asked # <<>> /\ cmdq # <<>>
  BY DispatchHead DEF Dispatch
<1>2. asked \in Seq(AllChanges) /\ cmdq \in Seq(0 .. Beyond)
  BY DEF IInv, TypeInv
<1>3. DspType' /\ is_started' = 1
  <2>1. DspType' /\ (is_started' = 0 => Head(cmdq) # 0 /\ is_started = 0)
    BY DispatchHead, BranchKeepsType DEF IInv, TypeInv
  <2> QED
    BY <2>1, DispatchHead DEF DspType
<1>4. /\ cmdq' \in Seq(0 .. Beyond) /\ Len(cmdq') = Len(cmdq) - 1
      /\ \A n \in 1 .. Len(cmdq') : cmdq'[n] = cmdq[n + 1]
  BY <1>1, <1>2, HeadTailProperties
<1>5. /\ asked' \in Seq(AllChanges) /\ Len(asked') = Len(asked) - 1
      /\ \A n \in 1 .. Len(asked') : asked'[n] = asked[n + 1]
  BY <1>1, <1>2, HeadTailProperties
<1>6. TypeInv'
  BY <1>1, <1>3, <1>4, <1>5 DEF IInv, TypeInv
<1>7. CarryInv'
  <2>1. Len(asked) = Len(cmdq) + (IF word = Nothing THEN 0 ELSE 1)
    BY DEF IInv, CarryInv
  <2>2. Len(asked') = Len(cmdq') + (IF word' = Nothing THEN 0 ELSE 1)
    BY <1>1, <1>4, <1>5, <2>1
  <2>3. ASSUME NEW n \in 1 .. Len(cmdq')
        PROVE  Carries(cmdq'[n], asked'[n])
    <3>1. n + 1 \in 1 .. Len(cmdq) /\ n + 1 # 1
      BY <1>1, <1>4
    <3>2. Carries(cmdq[n + 1], asked[n + 1])
      BY <3>1 DEF IInv, CarryInv
    <3>3. n \in 1 .. Len(asked')
      <4>1. Len(cmdq') \in Nat /\ Len(cmdq') <= Len(asked') /\ Len(asked') \in Nat
        <5>1. Len(cmdq') \in Nat /\ Len(asked') \in Nat
          BY <1>1, <1>4, <1>5
        <5>2. Len(asked') = Len(cmdq') \/ Len(asked') = Len(cmdq') + 1
          BY <2>2
        <5> QED
          BY <5>1, <5>2
      <4> QED
        BY <4>1
    <3> QED
      BY <1>4, <1>5, <3>2, <3>3
  <2>4. ASSUME word' # Nothing
        PROVE  asked'[Len(asked')] = Meaning(word'[1], word'[2])
    <3>1. Len(asked') \in 1 .. Len(asked') /\ Len(asked') + 1 = Len(asked)
      BY <1>1, <1>5, <2>1, <2>4
    <3> QED
      BY <1>1, <1>5, <2>4, <3>1 DEF IInv, CarryInv
  <2> QED
    BY <1>3, <2>2, <2>3, <2>4 DEF CarryInv
<1> QED
  BY <1>6, <1>7 DEF IInv

LEMMA NextInv == IInv /\ [Next]_vars => IInv'
<1>1. IInv /\ UNCHANGED vars => IInv'
  BY DEF vars, dsp, IInv, TypeInv, CarryInv, DspType
<1> QED
  BY <1>1, RecogniseInv, SendInv, DispatchInv DEF Next

\* What was asked for is always on its way, in order, as messages that carry it.
THEOREM Invariance == SafeSpec => []IInv
BY InitInv, NextInv, PTL DEF SafeSpec

-----------------------------------------------------------------------------
(* The refinement *)

LEMMA InitRefines == Init => Abstract!Init
<1> SUFFICES ASSUME Init PROVE Abstract!Init
  OBVIOUS
<1>1. SettingsNow = [n \in Names |-> IF n = "H0:" THEN 100
                                     ELSE IF n = "algorism_number" THEN 1 ELSE 0]
  <2> DEFINE s == SettingsNow
             d == [n \in Names |-> IF n = "H0:" THEN 100
                                    ELSE IF n = "algorism_number" THEN 1 ELSE 0]
  <2>1. /\ s = [n \in Names |-> s[n]]
        /\ s["is_started"] = is_started /\ s["do_algorism"] = do_algorism
        /\ s["channel"] = channelPin /\ s["algorism_number"] = algorism_number
        /\ s["rate"] = 8 * ratePins[1] + 4 * ratePins[2] + 2 * ratePins[3] + ratePins[4]
        /\ s["H0:"] = H[1] /\ s["H1:"] = H[2] /\ s["H2:"] = H[3] /\ s["H3:"] = H[4]
    BY StateNow, StateIs
  <2> HIDE DEF s
  <2>2. \A n \in Names : s[n] = d[n]
    BY <2>1, NamesAre DEF Init
  <2>3. [n \in Names |-> s[n]] = d
    BY <2>2
  <2> QED
    BY <2>1, <2>3 DEF s
<1> QED
  BY <1>1 DEF Init, Abstract!Init

\* Dispatch carries out the oldest change, if it is clear.
LEMMA DispatchApplies ==
  ASSUME IInv, Dispatch, InRange(Head(asked))
  PROVE  SettingsNow' = Abstract!Changed(SettingsNow, Head(asked))
<1>1. DspType
  BY DEF IInv, TypeInv
<1>2. CASE is_started = 0
  <2>1. Branch(0) /\ Head(asked) = Started[1]
    BY <1>2, DispatchHead
  <2> QED
    BY <1>1, <1>2, <2>1, StartDoes
<1>3. CASE is_started # 0
  <2>1. is_started = 1
    BY <1>1, <1>3 DEF DspType
  <2>2. /\ Head(cmdq) \in 0 .. Beyond /\ Branch(Head(cmdq))
        /\ Carries(Head(cmdq), Head(asked))
    BY <1>3, DispatchHead
  <2> QED
    BY <1>1, <2>1, <2>2, MessageDoes
<1> QED
  BY <1>2, <1>3

LEMMA NextRefines == IInv /\ [Next]_vars => [Abstract!Next]_(Abstract!vars)
<1> SUFFICES ASSUME IInv, [Next]_vars PROVE [Abstract!Next]_(Abstract!vars)
  OBVIOUS
<1>1. CASE Recognise
  <2>1. /\ word' \in Recognised
        /\ asked' = Append(asked, Meaning(word'[1], word'[2]))
        /\ UNCHANGED dsp
    BY <1>1 DEF Recognise
  <2>2. SettingsNow' = SettingsNow
    BY <2>1 DEF SettingsNow, dsp
  <2>3. Meaning(word'[1], word'[2]) \in {Meaning(r[1], r[2]) : r \in Recognised}
    BY <2>1
  <2>4. Abstract!Ask(Meaning(word'[1], word'[2]))
    BY <2>1, <2>2 DEF Abstract!Ask
  <2> QED
    BY <2>3, <2>4 DEF Abstract!Next
<1>2. CASE Controler_send_cmd
  <2>1. asked' = asked /\ SettingsNow' = SettingsNow
    BY <1>2 DEF Controler_send_cmd, SettingsNow, dsp
  <2> QED
    BY <2>1 DEF Abstract!vars
<1>3. CASE Dispatch
  <2>1. Abstract!Done
    BY <1>3, DispatchHead DEF Abstract!Done
  <2>2. InRange(Head(asked)) => SettingsNow' = Abstract!Changed(SettingsNow, Head(asked))
    BY <1>3, DispatchApplies
  <2>3. Abstract!Apply
    BY <2>1, <2>2 DEF Abstract!Apply
  <2> QED
    BY <2>3 DEF Abstract!Next
<1>4. CASE UNCHANGED vars
  <2>1. asked' = asked /\ SettingsNow' = SettingsNow
    BY <1>4 DEF vars, SettingsNow, dsp
  <2> QED
    BY <2>1 DEF Abstract!vars
<1> QED
  BY <1>1, <1>2, <1>3, <1>4 DEF Next

\* Each command is carried out, once and in order: the path from the word to the
\* DSP's state implements the safety part of the abstract settings.
THEOREM SettingsImplemented == SafeSpec => Abstract!SafeSpec
<1>1. SafeSpec => []IInv
  BY Invariance
<1> QED
  BY <1>1, InitRefines, NextRefines, PTL DEF SafeSpec, Abstract!SafeSpec

-----------------------------------------------------------------------------
(* Coefficients in range *)

\* Every change asked for is clear.
ClearInv == \A n \in 1 .. Len(asked) : InRange(asked[n])

LEMMA MeaningInRange ==
  ASSUME Hundredths \subseteq 0 .. 999, NEW r \in Recognised
  PROVE  InRange(Meaning(r[1], r[2]))
<1>1. /\ r[1] \in SwitchWords \cup ToSet(Rates) \cup ToSet(Coefficients)
      /\ HasNumber(r[1]) => r[2] \in 0 .. 999
  <2>1. r[1] \in Words /\ (HasNumber(r[1]) => r[2] \in Hundredths)
    BY DEF Recognised
  <2> QED
    BY <2>1 DEF Words
<1>2. ASSUME NEW name, NEW value, name \in ToSet(Coefficients) => value \in 0 .. 999
      PROVE  InRange(Set(name, value))
  <2>1. DOMAIN Set(name, value) = {name} /\ Set(name, value)[name] = value
    BY SetIs
  <2>2. ASSUME NEW n \in DOMAIN Set(name, value) \cap ToSet(Coefficients)
        PROVE  Set(name, value)[n] \in 0 .. 999
    <3>1. n = name
      BY <2>1
    <3> QED
      BY <1>2, <2>1, <3>1
  <2> QED
    BY <2>2 DEF InRange
<1>3. CASE r[1] \in SwitchWords
  <2>1. PICK name \in {"do_algorism", "channel", "algorism_number"}, value \in 0 .. 2 :
          Meaning(r[1], r[2]) = Set(name, value)
    BY <1>3, Switch DEF SwitchWords
  <2>2. name \notin ToSet(Coefficients)
    BY CoefficientsAre
  <2> QED
    BY <1>2, <2>1, <2>2
<1>4. CASE r[1] \in ToSet(Rates)
  <2>1. Meaning(r[1], r[2]) = Set("rate", Place(Rates, r[1]))
    BY <1>4, RateWord
  <2>2. "rate" \notin ToSet(Coefficients)
    BY CoefficientsAre
  <2> QED
    BY <1>2, <2>1, <2>2
<1>5. CASE r[1] \in ToSet(Coefficients)
  <2>1. r[2] \in 0 .. 999
    BY <1>1, <1>5 DEF HasNumber
  <2>2. Meaning(r[1], r[2]) = Set(r[1], r[2])
    BY <1>5, <2>1, CoefficientWord
  <2> QED
    BY <1>2, <2>1, <2>2
<1> QED
  BY <1>1, <1>3, <1>4, <1>5

\* A coefficient from 0 to 9.99 arrives: it is not taken for a command or for
\* another coefficient.
THEOREM CoefficientsInRangeArrive ==
  ASSUME Hundredths \subseteq 0 .. 999
  PROVE  SafeSpec => CoefficientsArrive
<1>1. Init => ClearInv
  <2> SUFFICES ASSUME Init PROVE ClearInv
    OBVIOUS
  <2>1. asked = <<[is_started |-> 1, channel |-> 1, rate |-> 12], [do_algorism |-> 1]>>
    BY DEF Init, Started
  <2>2. InRange(asked[1]) /\ InRange(asked[2])
    BY <2>1, CoefficientsAre DEF InRange
  <2> QED
    BY <2>1, <2>2 DEF ClearInv
<1>2. IInv /\ ClearInv /\ [Next]_vars => ClearInv'
  <2> SUFFICES ASSUME IInv, ClearInv, [Next]_vars PROVE ClearInv'
    OBVIOUS
  <2>1. asked \in Seq(AllChanges)
    BY DEF IInv, TypeInv
  <2>2. CASE Recognise
    <3> DEFINE M == Meaning(word'[1], word'[2])
    <3>1. word' \in Recognised /\ asked' = Append(asked, M)
      BY <2>2 DEF Recognise
    <3>2. InRange(M) /\ M \in AllChanges
      BY <3>1, MeaningInRange DEF AllChanges
    <3> HIDE DEF M
    <3>3. /\ Len(asked') = Len(asked) + 1 /\ asked'[Len(asked) + 1] = M
          /\ \A n \in 1 .. Len(asked) : asked'[n] = asked[n]
      BY <2>1, <3>1, <3>2, AppendProperties
    <3>4. \A n \in 1 .. Len(asked') : n \in 1 .. Len(asked) \/ n = Len(asked) + 1
      BY <2>1, <3>3
    <3> QED
      BY <3>2, <3>3, <3>4 DEF ClearInv
  <2>3. CASE Controler_send_cmd \/ UNCHANGED vars
    BY <2>3 DEF Controler_send_cmd, vars, ClearInv
  <2>4. CASE Dispatch
    <3>1. asked' = Tail(asked) /\ asked # <<>>
      BY <2>4, DispatchHead
    <3>2. /\ Len(asked') = Len(asked) - 1 /\ Len(asked) \in Nat
          /\ \A n \in 1 .. Len(asked') : asked'[n] = asked[n + 1]
      BY <2>1, <3>1, HeadTailProperties, LenProperties
    <3>3. \A n \in 1 .. Len(asked') : n + 1 \in 1 .. Len(asked)
      BY <3>2
    <3> QED
      BY <3>2, <3>3 DEF ClearInv
  <2> QED
    BY <2>2, <2>3, <2>4 DEF Next
<1>3. IInv /\ ClearInv => [Dispatch => SettingsNow' =
                             Abstract!Changed(SettingsNow, Head(asked))]_vars
  <2> SUFFICES ASSUME IInv, ClearInv, Dispatch
               PROVE  SettingsNow' = Abstract!Changed(SettingsNow, Head(asked))
    OBVIOUS
  <2>1. asked \in Seq(AllChanges) /\ asked # <<>>
    BY DispatchHead DEF IInv, TypeInv
  <2>2. Head(asked) = asked[1] /\ 1 \in 1 .. Len(asked)
    BY <2>1, DispatchHead
  <2> QED
    BY <2>2, DispatchApplies DEF ClearInv
<1> QED
  BY <1>1, <1>2, <1>3, Invariance, PTL DEF SafeSpec, CoefficientsArrive

=============================================================================
