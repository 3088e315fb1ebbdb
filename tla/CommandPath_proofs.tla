------------------------- MODULE CommandPath_proofs -------------------------
(***************************************************************************)
(* Proofs about CommandPath, for all words, any padding, and every size of  *)
(* the queue, of the collecting buffer and of the window: the padding is    *)
(* never queued; until a byte finds the queue full, the index of the        *)
(* collecting buffer, which the code does not check, stays within it, and   *)
(* the commands sent are the received ones, in the order of their arrival.  *)
(*                                                                          *)
(* The argument follows the stream of the bytes between the two threads:    *)
(* those collected since the last command, the one in the collector's hand, *)
(* the queue, the one being queued, and those still to be queued.  No step  *)
(* but Judge and the end of a command changes it: it is the frames of the   *)
(* waiting words, one after the other, the youngest one perhaps cut off.    *)
(***************************************************************************)
EXTENDS CommandPath, SequenceTheorems, TLAPS

\* The assumptions are cited by name and read in full.
USE DEF WordsFit, SizesFit

Alphabet == Letters \cup Marks
Opt(b) == IF b = Nothing THEN <<>> ELSE <<b>>
Collected == [j \in 1 .. index |-> buf[j]]
Stream == Collected \o (Opt(out) \o (queue \o (Opt(in) \o todo)))

\* The last e bytes of s belong to a command that is not closed; before them
\* a Y follows, after every byte, within the size of the buffer, and each Y
\* closes a command: it comes after an L.
Framed(s, e) ==
  /\ s \in Seq(Alphabet) /\ e \in 0 .. Len(s)
  /\ \A p \in 1 .. Len(s) : s[p] = "Y" => p >= 2 /\ s[p-1] = "L"
  /\ \A p \in 1 .. Len(s) : p > Len(s) - e => s[p] # "Y"
  /\ \A p \in 0 .. Len(s) : p < Len(s) - e =>
       \E q \in p+1 .. p+BufSize : q <= Len(s) /\ s[q] = "Y"

\* The first k bytes of the datagram of w have been scanned.
Scanned(w, k) ==
  /\ receive_buff = [j \in 1 .. FrameLength(w) + Pad - k |-> Frame(w)[k + j]]
  /\ startRead = IF 2 <= k /\ k < FrameLength(w) THEN 1 ELSE 0
  /\ k = 1 => startReadFlag = 1
  /\ k = FrameLength(w) - 1 => stopReadFlag = 1

\* The bytes of that datagram that were handed on and are not closed.
Open(w, k) == IF 2 <= k /\ k < FrameLength(w) THEN k ELSE 0

ScanInv ==
  \/ /\ receive_buff = <<>> /\ startRead = 0
     /\ dropped = 0 => Framed(Stream, 0)
  \/ \E w \in Phrases : \E k \in 0 .. FrameLength(w) + Pad - 1 :
       /\ Scanned(w, k)
       /\ dropped = 0 => /\ Framed(Stream, Open(w, k))
                         /\ k = FrameLength(w) - 1 => Stream[Len(Stream)] = "L"

CollectInv ==
  /\ startProcess = 1 => index = 0 /\ out = Nothing
  /\ dropped = 0 => /\ index <= BufSize
                    /\ \A j \in 1 .. index : buf[j] \in Alphabet \ {"Y"}
                    /\ index > 0 => (startProcessFlag = 1 <=> buf[index] = "L")
                    /\ overrun = 0

IInv == TypeOK /\ ScanInv /\ CollectInv

\* The words whose bytes are in the stream, or still to be added to it: the
\* one that is being processed has left it.
Waiting == IF startProcess = 1 THEN Tail(pending) ELSE pending

\* The bytes, of the first k of a datagram, that are still to be handed on.
Missing(w, k) ==
  IF k < 2 THEN FrameLength(w) ELSE IF k < FrameLength(w) THEN FrameLength(w) - k ELSE 0

\* The stream s is the frames of the words ws, one after the other, without the
\* last d bytes; the frame of the i-th word starts after c[i] bytes.
Part(ws, d, i) == FrameLength(ws[i]) - (IF i = Len(ws) THEN d ELSE 0)
Cut(s, ws, d, c) ==
  /\ c[1] = 0 /\ c[Len(ws) + 1] = Len(s)
  /\ \A i, j \in 1 .. Len(ws) + 1 : i <= j => c[i] <= c[j]
  /\ \A i \in 1 .. Len(ws) :
       /\ Part(ws, d, i) \in Nat
       /\ c[i + 1] = c[i] + Part(ws, d, i)
       /\ \A j \in 1 .. Part(ws, d, i) : s[c[i] + j] = Frame(ws[i])[j]
Split(s, ws, d) ==
  /\ ws = <<>> => d = 0
  /\ \E c \in [1 .. Len(ws) + 1 -> 0 .. Len(s)] : Cut(s, ws, d, c)

\* The datagram being scanned is that of the youngest word.
InFlight(d) ==
  \/ receive_buff = <<>> /\ d = 0
  \/ \E w \in Phrases : \E k \in 0 .. FrameLength(w) + Pad - 1 :
       /\ Scanned(w, k) /\ d = Missing(w, k)
       /\ d > 0 => Waiting # <<>> /\ Waiting[Len(Waiting)] = w

\* The collecting buffer holds the frame of the word that is being processed,
\* and nothing behind what has been collected.
Holds(w) == \A j \in 1 .. BufSize : buf[j] = IF j <= FrameLength(w) THEN Frame(w)[j] ELSE Zero
BufInv == IF startProcess = 1 THEN pending # <<>> /\ Holds(Head(pending))
                              ELSE \A j \in index + 1 .. BufSize : buf[j] = Zero

OrderInv == dropped = 0 => /\ \E d \in Nat : InFlight(d) /\ Split(Stream, Waiting, d)
                           /\ BufInv

-----------------------------------------------------------------------------
(* Sequences *)

\* The bytes of a datagram, by their place.
LEMMA FrameIs ==
  ASSUME NEW w \in Phrases
  PROVE  /\ FrameLength(w) \in Nat /\ FrameLength(w) >= 5
         /\ Frame(w) \in Seq(Alphabet \cup {Zero}) /\ Len(Frame(w)) = FrameLength(w) + Pad
         /\ Frame(w)[1] = "X" /\ Frame(w)[2] = "Z"
         /\ \A j \in 3 .. FrameLength(w) - 2 : Frame(w)[j] \in Letters \cup {"L"}
         /\ \A j \in 1 .. Len(w) : Frame(w)[j + 2] = w[j]
         /\ Frame(w)[FrameLength(w) - 1] = "L" /\ Frame(w)[FrameLength(w)] = "Y"
         /\ \A j \in FrameLength(w) + 1 .. FrameLength(w) + Pad : Frame(w)[j] = Zero
<1> DEFINE open == <<"X", "Z">>
           close == <<"L", "Y">>
           pad == [j \in 1 .. Pad |-> Zero]
           All == Alphabet \cup {Zero}
<1>1. w \in Seq(Letters \cup {"L"}) /\ w # <<>> /\ Pad \in Nat \ {0}
  BY WordsAssumption, SizesAssumption DEF None
<1>2. w \in Seq(All) /\ Len(w) \in Nat /\ Len(w) >= 1
      /\ \A j \in 1 .. Len(w) : w[j] \in Letters \cup {"L"}
  BY <1>1 DEF Alphabet, Marks
<1>3. open \in Seq(All) /\ close \in Seq(All) /\ Len(open) = 2 /\ Len(close) = 2
  BY DEF Alphabet, Marks
<1>4. pad \in Seq(All) /\ Len(pad) = Pad /\ \A j \in 1 .. Pad : pad[j] = Zero
  BY <1>1
<1> HIDE DEF pad
<1>5. /\ open \o w \in Seq(All) /\ Len(open \o w) = Len(w) + 2
      /\ (open \o w)[1] = "X" /\ (open \o w)[2] = "Z"
      /\ \A j \in 3 .. Len(w) + 2 : (open \o w)[j] \in Letters \cup {"L"}
      /\ \A j \in 1 .. Len(w) : (open \o w)[j + 2] = w[j]
  BY <1>2, <1>3
<1> DEFINE front == open \o w
<1> HIDE DEF front
<1>6. /\ front \o close \in Seq(All) /\ Len(front \o close) = Len(w) + 4
      /\ \A j \in 1 .. Len(w) + 2 : (front \o close)[j] = front[j]
      /\ (front \o close)[Len(w) + 3] = "L" /\ (front \o close)[Len(w) + 4] = "Y"
  BY <1>2, <1>3, <1>5 DEF front
<1> DEFINE body == front \o close
<1> HIDE DEF body
<1>7. /\ body \o pad \in Seq(All) /\ Len(body \o pad) = Len(w) + 4 + Pad
      /\ \A j \in 1 .. Len(w) + 4 : (body \o pad)[j] = body[j]
      /\ \A j \in Len(w) + 5 .. Len(w) + 4 + Pad : (body \o pad)[j] = Zero
  <2>1. body \in Seq(All) /\ Len(body) = Len(w) + 4
    BY <1>6 DEF body
  <2>2. body \o pad \in Seq(All) /\ Len(body \o pad) = Len(w) + 4 + Pad
        /\ \A j \in 1 .. Len(w) + 4 : (body \o pad)[j] = body[j]
    BY <1>1, <1>2, <1>4, <2>1
  <2>3. ASSUME NEW j \in Len(w) + 5 .. Len(w) + 4 + Pad
        PROVE  (body \o pad)[j] = pad[j - (Len(w) + 4)] /\ j - (Len(w) + 4) \in 1 .. Pad
    BY <1>1, <1>2, <1>4, <2>1
  <2> QED
    BY <1>4, <2>2, <2>3
<1>8. Frame(w) = body \o pad
  BY DEF Frame, front, body, pad
<1> QED
  BY <1>1, <1>2, <1>5, <1>6, <1>7, <1>8 DEF FrameLength, front, body

\* Moving a byte from one part of the stream to the next.
LEMMA HeadFirst ==
  ASSUME NEW V, NEW s \in Seq(V), s # <<>>, NEW t \in Seq(V)
  PROVE  <<Head(s)>> \o (Tail(s) \o t) = s \o t
<1>1. Head(s) \in V /\ Tail(s) \in Seq(V) /\ <<Head(s)>> \in Seq(V)
  BY HeadTailProperties
<1>2. <<Head(s)>> \o Tail(s) = s
  BY <1>1, HeadTailProperties
<1> QED
  BY <1>1, <1>2, ConcatAssociative, SMTT(40)

LEMMA AppendLast ==
  ASSUME NEW V, NEW s \in Seq(V), NEW b \in V, NEW t \in Seq(V)
  PROVE  Append(s, b) \o t = s \o (<<b>> \o t)
<1>1. <<b>> \in Seq(V) /\ Append(s, b) = s \o <<b>>
  BY AppendIsConcat
<1> QED
  BY <1>1, ConcatAssociative, SMTT(40)

-----------------------------------------------------------------------------
(* Framed streams *)

\* A byte of an open command.
LEMMA FramedByte ==
  ASSUME NEW s, NEW e, Framed(s, e), NEW b \in Alphabet, b # "Y"
  PROVE  Framed(s \o <<b>>, e + 1)
<1> DEFINE t == s \o <<b>>
<1>1. /\ s \in Seq(Alphabet) /\ Len(s) \in Nat /\ e \in 0 .. Len(s)
      /\ t \in Seq(Alphabet) /\ Len(t) = Len(s) + 1
      /\ t[Len(s) + 1] = b /\ \A p \in 1 .. Len(s) : t[p] = s[p]
  BY DEF Framed
<1> HIDE DEF t
<1>2. \A p \in 1 .. Len(t) : t[p] = "Y" => p \in 1 .. Len(s) /\ p >= 2 /\ t[p-1] = "L"
  <2>1. \A p \in 1 .. Len(s) : s[p] = "Y" => p >= 2 /\ s[p-1] = "L"
    BY DEF Framed
  <2>2. ASSUME NEW p \in 1 .. Len(t), t[p] = "Y" PROVE p \in 1 .. Len(s) /\ s[p] = "Y"
    BY <1>1, <2>2
  <2>3. ASSUME NEW p \in 2 .. Len(s) PROVE p - 1 \in 1 .. Len(s)
    BY <1>1, <2>3
  <2> QED
    BY <1>1, <2>1, <2>2, <2>3
<1>3. \A p \in 1 .. Len(t) : p > Len(t) - (e + 1) => t[p] # "Y"
  BY <1>1 DEF Framed
<1>4. \A p \in 0 .. Len(t) : p < Len(t) - (e + 1) =>
        \E q \in p+1 .. p+BufSize : q <= Len(t) /\ t[q] = "Y"
  <2> SUFFICES ASSUME NEW p \in 0 .. Len(t), p < Len(t) - (e + 1)
               PROVE  \E q \in p+1 .. p+BufSize : q <= Len(t) /\ t[q] = "Y"
    OBVIOUS
  <2>1. p \in 0 .. Len(s) /\ p < Len(s) - e
    BY <1>1
  <2>2. PICK q \in p+1 .. p+BufSize : q <= Len(s) /\ s[q] = "Y"
    BY <2>1 DEF Framed
  <2> QED
    BY <1>1, <2>1, <2>2, SizesAssumption
<1> QED
  <2>1. Framed(t, e + 1)
    BY <1>1, <1>2, <1>3, <1>4 DEF Framed
  <2> QED
    BY <2>1 DEF t

\* The closing Y of a command that fits the buffer.
LEMMA FramedClose ==
  ASSUME NEW s, NEW e, Framed(s, e), e >= 1, s[Len(s)] = "L", e < BufSize
  PROVE  Framed(s \o <<"Y">>, 0)
<1> DEFINE t == s \o <<"Y">>
<1>1. /\ s \in Seq(Alphabet) /\ Len(s) \in Nat /\ e \in 0 .. Len(s)
      /\ t \in Seq(Alphabet) /\ Len(t) = Len(s) + 1
      /\ t[Len(s) + 1] = "Y" /\ \A p \in 1 .. Len(s) : t[p] = s[p]
  BY DEF Framed, Alphabet, Marks
<1> HIDE DEF t
<1>2. \A p \in 1 .. Len(t) : t[p] = "Y" => p >= 2 /\ t[p-1] = "L"
  <2>1. \A p \in 1 .. Len(s) : s[p] = "Y" => p >= 2 /\ s[p-1] = "L"
    BY DEF Framed
  <2>2. ASSUME NEW p \in 1 .. Len(s), t[p] = "Y" PROVE p >= 2 /\ t[p-1] = "L"
    <3>1. p >= 2 /\ s[p-1] = "L"
      BY <1>1, <2>1, <2>2
    <3>2. p - 1 \in 1 .. Len(s)
      BY <1>1, <3>1
    <3> QED
      BY <1>1, <3>1, <3>2
  <2>3. Len(s) >= 1 /\ t[Len(s)] = "L"
    BY <1>1
  <2>4. ASSUME NEW p \in 1 .. Len(t), p \notin 1 .. Len(s) PROVE p >= 2 /\ t[p-1] = "L"
    <3>1. p = Len(s) + 1 /\ p - 1 = Len(s)
      BY <1>1, <2>4
    <3> QED
      BY <2>3, <3>1
  <2> QED
    BY <2>2, <2>4
<1>3. \A p \in 0 .. Len(t) : p < Len(t) - 0 =>
        \E q \in p+1 .. p+BufSize : q <= Len(t) /\ t[q] = "Y"
  <2> SUFFICES ASSUME NEW p \in 0 .. Len(t), p < Len(t)
               PROVE  \E q \in p+1 .. p+BufSize : q <= Len(t) /\ t[q] = "Y"
    BY <1>1
  <2>1. CASE p < Len(s) - e
    <3>1. p \in 0 .. Len(s)
      BY <1>1
    <3>2. PICK q \in p+1 .. p+BufSize : q <= Len(s) /\ s[q] = "Y"
      BY <2>1, <3>1 DEF Framed
    <3> QED
      BY <1>1, <3>1, <3>2, SizesAssumption
  <2>2. CASE ~(p < Len(s) - e)
    <3>1. Len(s) + 1 \in p+1 .. p+BufSize
      BY <1>1, <2>2, SizesAssumption
    <3> QED
      BY <1>1, <3>1
  <2> QED
    BY <2>1, <2>2
<1> QED
  <2>1. Framed(t, 0)
    BY <1>1, <1>2, <1>3 DEF Framed
  <2> QED
    BY <2>1 DEF t

\* What follows a closed command.
LEMMA FramedRest ==
  ASSUME NEW c \in Seq(Alphabet), NEW r \in Seq(Alphabet), NEW e,
         Framed(c \o (<<"Y">> \o r), e)
  PROVE  /\ Framed(r, e)
         /\ e >= 1 => r[Len(r)] = (c \o (<<"Y">> \o r))[Len(c \o (<<"Y">> \o r))]
<1> DEFINE s == c \o (<<"Y">> \o r)
           m == Len(c) + 1
<1>1. /\ s \in Seq(Alphabet) /\ Len(s) = m + Len(r) /\ m \in Nat /\ m >= 1 /\ Len(r) \in Nat
      /\ s[m] = "Y" /\ \A p \in 1 .. Len(r) : s[m + p] = r[p]
  <2>1. <<"Y">> \o r \in Seq(Alphabet) /\ Len(<<"Y">> \o r) = Len(r) + 1
        /\ (<<"Y">> \o r)[1] = "Y" /\ \A p \in 1 .. Len(r) : (<<"Y">> \o r)[p + 1] = r[p]
    BY DEF Alphabet, Marks
  <2> DEFINE d == <<"Y">> \o r
  <2> HIDE DEF d
  <2>2. /\ c \o d \in Seq(Alphabet) /\ Len(c \o d) = Len(c) + Len(d)
        /\ \A p \in 1 .. Len(d) : (c \o d)[Len(c) + p] = d[p]
    BY <2>1 DEF d
  <2> QED
    BY <2>1, <2>2 DEF d
<1> HIDE DEF s, m
<1>2. Framed(s, e)
  BY DEF s
<1>3. e \in 0 .. Len(r)
  BY <1>1, <1>2 DEF Framed
<1>4. \A p \in 1 .. Len(r) : r[p] = "Y" => p >= 2 /\ r[p-1] = "L"
  <2> SUFFICES ASSUME NEW p \in 1 .. Len(r), r[p] = "Y" PROVE p >= 2 /\ r[p-1] = "L"
    OBVIOUS
  <2>1. m + p \in 1 .. Len(s) /\ s[m + p] = "Y"
    BY <1>1
  <2>2. s[(m + p) - 1] = "L"
    <3>1. \A n \in 1 .. Len(s) : s[n] = "Y" => n >= 2 /\ s[n-1] = "L"
      BY <1>2 DEF Framed
    <3> QED
      BY <2>1, <3>1
  <2>3. (m + p) - 1 = m + (p - 1) /\ p # 1
    BY <1>1, <2>2
  <2> QED
    BY <1>1, <2>2, <2>3
<1>5. \A p \in 1 .. Len(r) : p > Len(r) - e => r[p] # "Y"
  <2> SUFFICES ASSUME NEW p \in 1 .. Len(r), p > Len(r) - e PROVE r[p] # "Y"
    OBVIOUS
  <2>1. m + p \in 1 .. Len(s) /\ m + p > Len(s) - e
    BY <1>1, <1>3
  <2> QED
    BY <1>1, <1>2, <2>1 DEF Framed
<1>6. \A p \in 0 .. Len(r) : p < Len(r) - e =>
        \E q \in p+1 .. p+BufSize : q <= Len(r) /\ r[q] = "Y"
  <2> SUFFICES ASSUME NEW p \in 0 .. Len(r), p < Len(r) - e
               PROVE  \E q \in p+1 .. p+BufSize : q <= Len(r) /\ r[q] = "Y"
    OBVIOUS
  <2>1. m + p \in 0 .. Len(s) /\ m + p < Len(s) - e
    BY <1>1, <1>3
  <2>2. PICK q \in m+p+1 .. m+p+BufSize : q <= Len(s) /\ s[q] = "Y"
    BY <1>2, <2>1 DEF Framed
  <2>3. q - m \in p+1 .. p+BufSize /\ q - m \in 1 .. Len(r) /\ r[q - m] = "Y"
    BY <1>1, <2>2, SizesAssumption
  <2> QED
    BY <2>3
<1>7. e >= 1 => r[Len(r)] = s[Len(s)]
  BY <1>1, <1>3
<1>8. Framed(r, e)
  BY <1>3, <1>4, <1>5, <1>6 DEF Framed
<1> QED
  BY <1>7, <1>8 DEF s

-----------------------------------------------------------------------------
(* The stream *)

LEMMA NotBytes == Nothing \notin Alphabet /\ Zero \notin Alphabet
  BY WordsAssumption DEF Alphabet, Marks, Nothing, Zero

LEMMA StreamIs ==
  ASSUME TypeOK, CollectInv, dropped = 0
  PROVE  /\ Collected \in Seq(Alphabet) /\ Len(Collected) = index
         /\ Opt(out) \in Seq(Alphabet) /\ Opt(in) \in Seq(Alphabet)
         /\ queue \in Seq(Alphabet) /\ todo \in Seq(Alphabet)
         /\ Stream \in Seq(Alphabet)
<1>1. index \in Nat /\ \A j \in 1 .. index : buf[j] \in Alphabet
  BY DEF TypeOK, CollectInv
<1>2. Collected \in Seq(Alphabet) /\ Len(Collected) = index
  BY <1>1 DEF Collected
<1>3. Opt(out) \in Seq(Alphabet) /\ Opt(in) \in Seq(Alphabet)
  <2>1. ASSUME NEW b \in Alphabet \cup {Nothing} PROVE Opt(b) \in Seq(Alphabet)
    <3>1. <<>> \in Seq(Alphabet)
      OBVIOUS
    <3>2. b \in Alphabet => <<b>> \in Seq(Alphabet)
      OBVIOUS
    <3> QED
      BY <2>1, <3>1, <3>2, Zenon DEF Opt
  <2>2. out \in Alphabet \cup {Nothing} /\ in \in Alphabet \cup {Nothing}
    BY DEF TypeOK, Alphabet
  <2> QED
    BY <2>1, <2>2
<1>4. queue \in Seq(Alphabet) /\ todo \in Seq(Alphabet)
  BY DEF TypeOK, Alphabet
<1> QED
  BY <1>2, <1>3, <1>4, ConcatProperties DEF Stream

\* A byte handed to PhoneCommand_rx_enqueue.
LEMMA StreamCall ==
  ASSUME TypeOK, CollectInv, dropped = 0, CallEnqueue
  PROVE  Stream' = Stream
<1>1. in = Nothing /\ in' = Head(todo) /\ todo' = Tail(todo) /\ todo # <<>>
      /\ UNCHANGED <<queue, out, buf, index>>
  BY DEF CallEnqueue, Fifo!Offer, collector
<1>2. todo \in Seq(Alphabet) /\ Head(todo) \in Alphabet
  BY <1>1, StreamIs
<1>3. Head(todo) # Nothing
  BY <1>2, NotBytes
<1>4. Opt(in') \o todo' = Opt(in) \o todo
  <2>1. <<Head(todo)>> \o Tail(todo) = todo
    BY <1>1, <1>2, HeadTailProperties
  <2>2. <<>> \o todo = todo
    BY <1>2
  <2> QED
    BY <1>1, <1>3, <2>1, <2>2 DEF Opt
<1> QED
  BY <1>1, <1>4 DEF Stream, Collected

\* A byte that is queued.
LEMMA StreamPut ==
  ASSUME TypeOK, CollectInv, dropped = 0, Fifo!Put, UNCHANGED <<scanner, collector>>
  PROVE  Stream' = Stream
<1>1. in # Nothing /\ in' = Nothing /\ queue' = Append(queue, in)
      /\ UNCHANGED <<todo, out, buf, index>>
  BY DEF Fifo!Put, scanner, collector
<1>2. queue \in Seq(Alphabet) /\ todo \in Seq(Alphabet) /\ in \in Alphabet
  BY <1>1 DEF TypeOK, Alphabet
<1>3. queue' \o (Opt(in') \o todo') = queue \o (Opt(in) \o todo)
  <2>1. Append(queue, in) \o todo = queue \o (<<in>> \o todo)
    BY <1>2, AppendLast
  <2>2. <<>> \o todo = todo
    BY <1>2
  <2> QED
    BY <1>1, <2>1, <2>2 DEF Opt
<1> QED
  BY <1>1, <1>3 DEF Stream, Collected

\* A byte that is taken.
LEMMA StreamTake ==
  ASSUME TypeOK, CollectInv, dropped = 0, Dequeue
  PROVE  Stream' = Stream
<1>1. out = Nothing /\ out' = Head(queue) /\ queue' = Tail(queue) /\ queue # <<>>
      /\ UNCHANGED <<todo, in, buf, index>>
  BY DEF Dequeue, Fifo!Take, scanner, collector
<1>2. queue \in Seq(Alphabet) /\ Head(queue) \in Alphabet
      /\ Opt(in) \o todo \in Seq(Alphabet)
  BY <1>1, StreamIs, ConcatProperties
<1>3. Head(queue) # Nothing
  BY <1>2, NotBytes
<1> DEFINE rest == Opt(in) \o todo
<1>4. <<Head(queue)>> \o (Tail(queue) \o rest) = queue \o rest
  BY <1>1, <1>2, HeadFirst
<1>5. <<>> \o (queue \o rest) = queue \o rest
  <2>1. queue \o rest \in Seq(Alphabet)
    BY <1>2, ConcatProperties
  <2> QED
    BY <2>1
<1> QED
  BY <1>1, <1>3, <1>4, <1>5 DEF Stream, Collected, Opt

\* What Judge hands on is added to the stream.
LEMMA StreamJudge ==
  ASSUME TypeOK, CollectInv, dropped = 0, Judge, todo' \in Seq(Alphabet)
  PROVE  Stream' = Stream \o todo'
<1>1. todo = <<>> /\ in = Nothing /\ UNCHANGED <<in, queue, out, buf, index>>
  BY DEF Judge, collector
<1> DEFINE C == Collected
           O == Opt(out)
           t == todo'
<1>2. C \in Seq(Alphabet) /\ O \in Seq(Alphabet) /\ queue \in Seq(Alphabet) /\ t \in Seq(Alphabet)
  BY StreamIs
<1>3. Opt(in) = <<>> /\ Opt(in)' = <<>> /\ Collected' = C /\ Opt(out)' = O
  BY <1>1 DEF Opt, Collected
<1>4. Stream = C \o (O \o queue)
  BY <1>1, <1>2, <1>3 DEF Stream
<1>5. Stream' = C \o (O \o (queue \o t))
  <2>1. Stream' = C \o (O \o (queue \o (<<>> \o t)))
    BY <1>1, <1>3 DEF Stream
  <2>2. <<>> \o t = t
    BY <1>2
  <2> QED
    BY <2>1, <2>2
<1>6. (C \o (O \o queue)) \o t = C \o (O \o (queue \o t))
  <2>1. PICK c \in Seq(Alphabet) : c = C
    BY <1>2
  <2>2. PICK o \in Seq(Alphabet) : o = O
    BY <1>2
  <2>3. PICK q \in Seq(Alphabet) : q = queue
    BY <1>2
  <2>4. PICK r \in Seq(Alphabet) : r = t
    BY <1>2
  <2>5. PICK d \in Seq(Alphabet) : d = o \o q
    BY ConcatProperties
  <2>6. (c \o d) \o r = c \o (d \o r)
    BY ConcatAssociative, SMTT(40)
  <2>7. (o \o q) \o r = o \o (q \o r)
    BY ConcatAssociative, SMTT(40)
  <2> QED
    BY <2>1, <2>2, <2>3, <2>4, <2>5, <2>6, <2>7
<1>8. Stream' = Stream \o t
  BY <1>4, <1>5, <1>6
<1> QED
  BY <1>8 DEF t

\* A byte that is collected stays in the stream.
LEMMA StreamCollect ==
  ASSUME TypeOK, CollectInv, dropped = 0, index < BufSize, Collect, index' = index + 1
  PROVE  Stream' = Stream
<1>1. out # Nothing /\ out' = Nothing /\ Store(out) /\ UNCHANGED <<in, queue, todo>>
  BY DEF Collect, Fifo!Use, scanner
<1>2. out \in Alphabet /\ Collected \in Seq(Alphabet) /\ Len(Collected) = index /\ index \in Nat
      /\ queue \in Seq(Alphabet) /\ Opt(in) \in Seq(Alphabet) /\ todo \in Seq(Alphabet)
  BY <1>1, StreamIs DEF TypeOK, Alphabet
<1>3. \A j \in 1 .. index + 1 : buf'[j] = IF j = index + 1 THEN out ELSE buf[j]
  BY <1>1, <1>2, SizesAssumption DEF Store, TypeOK
<1>4. Collected' = Append(Collected, out)
  <2>1. Collected' = [j \in 1 .. index + 1 |-> IF j = index + 1 THEN out ELSE buf[j]]
    BY <1>3 DEF Collected
  <2>2. \A j \in 1 .. index : Collected[j] = buf[j]
    BY DEF Collected
  <2> HIDE DEF Collected
  <2>3. Append(Collected, out) \in Seq(Alphabet) /\ Len(Append(Collected, out)) = index + 1
        /\ \A j \in 1 .. index + 1 :
             Append(Collected, out)[j] = IF j = index + 1 THEN out ELSE buf[j]
    BY <1>2, <2>2
  <2>4. Append(Collected, out) = [j \in 1 .. index + 1 |-> Append(Collected, out)[j]]
    BY <2>3, LenProperties
  <2> QED
    BY <2>1, <2>3, <2>4
<1> DEFINE C == Collected
           rest == queue \o (Opt(in) \o todo)
<1>5. rest \in Seq(Alphabet)
  BY <1>2, ConcatProperties
<1>6. Stream = C \o (<<out>> \o rest)
  BY <1>1 DEF Stream, Opt
<1>7. Stream' = Append(C, out) \o rest
  <2>1. Stream' = Append(C, out) \o (<<>> \o rest)
    BY <1>1, <1>4 DEF Stream, Opt
  <2>2. <<>> \o rest = rest
    BY <1>5
  <2> QED
    BY <2>1, <2>2
<1>8. C \in Seq(Alphabet)
  BY <1>2 DEF C
<1>9. rest \in Seq(Alphabet)
  BY <1>5
<1>10. Append(C, out) \o rest = C \o (<<out>> \o rest)
  <2>1. PICK c \in Seq(Alphabet) : c = C
    BY <1>8
  <2>2. PICK r \in Seq(Alphabet) : r = rest
    BY <1>9
  <2>3. PICK b \in Alphabet : b = out
    BY <1>2
  <2>4. Append(c, b) \o r = c \o (<<b>> \o r)
    BY AppendLast
  <2> QED
    BY <2>1, <2>2, <2>3, <2>4
<1> QED
  BY <1>6, <1>7, <1>10

\* The byte that ends a command leaves with the bytes before it.
LEMMA StreamEnd ==
  ASSUME TypeOK, CollectInv, dropped = 0, Collect, index' = 0, out = "Y"
  PROVE  /\ Stream' \in Seq(Alphabet) /\ Collected \in Seq(Alphabet)
         /\ Stream = Collected \o (<<"Y">> \o Stream')
<1>1. out # Nothing /\ out' = Nothing /\ UNCHANGED <<in, queue, todo>>
  BY DEF Collect, Fifo!Use, scanner
<1>2. Collected \in Seq(Alphabet) /\ queue \in Seq(Alphabet)
      /\ Opt(in) \in Seq(Alphabet) /\ todo \in Seq(Alphabet)
  BY StreamIs
<1> DEFINE rest == queue \o (Opt(in) \o todo)
<1>3. rest \in Seq(Alphabet)
  BY <1>2, ConcatProperties
<1>4. Collected' = <<>>
  BY DEF Collected
<1>5. Stream' = rest
  <2>1. Stream' = <<>> \o (<<>> \o rest)
    BY <1>1, <1>4 DEF Stream, Opt
  <2>2. <<>> \o rest = rest
    BY <1>3
  <2> QED
    BY <2>1, <2>2
<1>6. Stream = Collected \o (<<"Y">> \o rest)
  BY <1>1 DEF Stream, Opt
<1> QED
  BY <1>2, <1>3, <1>5, <1>6

-----------------------------------------------------------------------------
(* The scanner *)

\* The datagram is scanned by the other actions neither further nor back, and
\* the end of the stream stays.
LEMMA ScanKept ==
  ASSUME ScanInv, UNCHANGED <<receive_buff, startReadFlag, startRead, stopReadFlag>>,
         dropped' = 0 =>
           /\ dropped = 0
           /\ \/ Stream' = Stream
              \/ \E c \in Seq(Alphabet) : /\ Stream' \in Seq(Alphabet)
                                          /\ Stream = c \o (<<"Y">> \o Stream')
  PROVE  ScanInv'
<1>1. ASSUME NEW e, Framed(Stream, e), dropped' = 0
      PROVE  /\ Framed(Stream', e)
             /\ e >= 1 => Stream'[Len(Stream')] = Stream[Len(Stream)]
  <2>1. CASE Stream' = Stream
    BY <1>1, <2>1
  <2>2. ASSUME NEW c \in Seq(Alphabet), Stream' \in Seq(Alphabet),
               Stream = c \o (<<"Y">> \o Stream')
        PROVE  /\ Framed(Stream', e)
               /\ e >= 1 => Stream'[Len(Stream')] = Stream[Len(Stream)]
    <3>1. PICK r \in Seq(Alphabet) : r = Stream'
      BY <2>2
    <3>2. Framed(c \o (<<"Y">> \o r), e)
      BY <1>1, <2>2, <3>1
    <3>3. Framed(r, e) /\ (e >= 1 => r[Len(r)] = (c \o (<<"Y">> \o r))[Len(c \o (<<"Y">> \o r))])
      BY <3>2, FramedRest
    <3> QED
      BY <2>2, <3>1, <3>3
  <2> QED
    BY <1>1, <2>1, <2>2
<1>2. CASE receive_buff = <<>> /\ startRead = 0 /\ (dropped = 0 => Framed(Stream, 0))
  BY <1>1, <1>2 DEF ScanInv
<1>3. ASSUME NEW w \in Phrases, NEW k \in 0 .. FrameLength(w) + Pad - 1, Scanned(w, k),
             dropped = 0 => /\ Framed(Stream, Open(w, k))
                            /\ k = FrameLength(w) - 1 => Stream[Len(Stream)] = "L"
      PROVE  ScanInv'
  <2>1. Scanned(w, k)'
    BY <1>3 DEF Scanned
  <2>2. k = FrameLength(w) - 1 => Open(w, k) >= 1
    BY FrameIs DEF Open
  <2>3. dropped' = 0 => /\ Framed(Stream', Open(w, k))
                        /\ k = FrameLength(w) - 1 => Stream'[Len(Stream')] = "L"
    BY <1>1, <1>3, <2>2
  <2> QED
    BY <2>1, <2>3 DEF ScanInv
<1> QED
  BY <1>2, <1>3 DEF ScanInv

\* What the scanner does with one byte of a datagram, by the place of the byte.
LEMMA JudgeStep ==
  ASSUME TypeOK, Judge, NEW w \in Phrases, NEW k \in 0 .. FrameLength(w) + Pad - 1, Scanned(w, k)
  PROVE  /\ Scanned(w, k + 1)' /\ todo' \in Seq(Alphabet)
         /\ k = 0 => todo' = <<>>
         /\ k = 1 => todo' = <<"X">> \o <<"Z">>
         /\ 2 <= k /\ k < FrameLength(w) - 1 =>
              /\ Frame(w)[k + 1] \in Alphabet /\ Frame(w)[k + 1] # "Y"
              /\ todo' = <<Frame(w)[k + 1]>>
              /\ k = FrameLength(w) - 2 => Frame(w)[k + 1] = "L"
         /\ k = FrameLength(w) - 1 => todo' = <<"Y">>
         /\ k >= FrameLength(w) => todo' = <<>>
         /\ k + 1 = FrameLength(w) + Pad => receive_buff' = <<>> /\ startRead' = 0
<1>1. receive_buff # <<>> /\ todo = <<>> /\ receive_buff' = Tail(receive_buff)
      /\ UNCHANGED dropped
  BY DEF Judge, received
<1> DEFINE F == FrameLength(w)
           b == Frame(w)[k + 1]
<1>4. /\ F \in Nat /\ F >= 5 /\ Pad \in Nat /\ Pad >= 1 /\ F <= BufSize /\ BufSize \in Nat
      /\ k \in 0 .. F + Pad - 1
      /\ k = 0 => b = "X"
      /\ k = 1 => b = "Z"
      /\ 2 <= k /\ k < F - 1 => b \in Letters \cup {"L"}
      /\ k = F - 2 => b = "L"
      /\ k = F - 1 => b = "Y"
      /\ k >= F => b = Zero
  <2>1. F \in Nat /\ F >= 5 /\ Pad \in Nat /\ Pad >= 1 /\ F <= BufSize /\ BufSize \in Nat
    BY FrameIs, SizesAssumption
  <2>2. /\ Frame(w)[1] = "X" /\ Frame(w)[2] = "Z"
        /\ \A j \in 3 .. F - 2 : Frame(w)[j] \in Letters \cup {"L"}
        /\ Frame(w)[F - 1] = "L" /\ Frame(w)[F] = "Y"
        /\ \A j \in F + 1 .. F + Pad : Frame(w)[j] = Zero
    BY FrameIs
  <2>3. k \in 0 .. F + Pad - 1
    OBVIOUS
  <2> HIDE DEF F
  <2>4. (k = 0 => b = "X") /\ (k = 1 => b = "Z") /\ (k = F - 2 => b = "L") /\ (k = F - 1 => b = "Y")
    BY <2>1, <2>2, <2>3
  <2>5. 2 <= k /\ k < F - 1 => b \in Letters \cup {"L"}
    <3>1. 2 <= k /\ k < F - 2 => k + 1 \in 3 .. F - 2
      BY <2>1, <2>3
    <3> QED
      BY <2>1, <2>2, <2>3, <2>4, <3>1
  <2>6. k >= F => b = Zero
    <3>1. k >= F => k + 1 \in F + 1 .. F + Pad
      BY <2>1, <2>3
    <3> QED
      BY <2>2, <3>1
  <2> QED
    BY <2>1, <2>3, <2>4, <2>5, <2>6
<1>5. Head(receive_buff) = b
      /\ receive_buff' = [j \in 1 .. F + Pad - (k + 1) |-> Frame(w)[(k + 1) + j]]
  <2>1. receive_buff = [j \in 1 .. F + Pad - k |-> Frame(w)[k + j]] /\ F + Pad - k \in Nat
    BY <1>4 DEF Scanned
  <2>2. receive_buff \in Seq(Letters \cup Marks \cup {Zero}) /\ Len(receive_buff) = F + Pad - k
    BY <2>1 DEF TypeOK
  <2>3. Head(receive_buff) = receive_buff[1] /\ receive_buff[1] = Frame(w)[k + 1]
    BY <1>4, <2>1, <2>2
  <2>4. /\ Tail(receive_buff) \in Seq(Letters \cup Marks \cup {Zero})
        /\ Len(Tail(receive_buff)) = F + Pad - (k + 1)
        /\ \A j \in 1 .. Len(Tail(receive_buff)) : Tail(receive_buff)[j] = receive_buff[j + 1]
    <3> DEFINE V == Letters \cup Marks \cup {Zero}
    <3>1. receive_buff \in Seq(V) /\ receive_buff # <<>>
      BY <1>1, <2>2
    <3> HIDE DEF V
    <3>2. /\ Tail(receive_buff) \in Seq(V)
          /\ Len(Tail(receive_buff)) = Len(receive_buff) - 1
          /\ \A j \in 1 .. Len(Tail(receive_buff)) : Tail(receive_buff)[j] = receive_buff[j + 1]
      BY <3>1, HeadTailProperties
    <3>3. Len(receive_buff) - 1 = F + Pad - (k + 1)
      BY <1>4, <2>2
    <3> QED
      BY <3>2, <3>3 DEF V
  <2>5. \A j \in 1 .. F + Pad - (k + 1) : receive_buff[j + 1] = Frame(w)[(k + 1) + j]
    <3> SUFFICES ASSUME NEW j \in 1 .. F + Pad - (k + 1)
                 PROVE  receive_buff[j + 1] = Frame(w)[(k + 1) + j]
      OBVIOUS
    <3>1. j + 1 \in 1 .. F + Pad - k /\ k + (j + 1) = (k + 1) + j
      BY <1>4
    <3> QED
      BY <2>1, <3>1
  <2>6. Tail(receive_buff) = [j \in 1 .. F + Pad - (k + 1) |-> Tail(receive_buff)[j]]
    BY <2>4, LenProperties
  <2> QED
    BY <1>1, <2>3, <2>4, <2>5, <2>6
<1> DEFINE opens == b = "Z" /\ startReadFlag = 1
           closes == b = "Y" /\ stopReadFlag = 1
<1>6. /\ startReadFlag' = IF b = "X" THEN 1 ELSE IF opens THEN startReadFlag ELSE 0
      /\ stopReadFlag' = IF b = "L" THEN 1 ELSE IF closes THEN stopReadFlag ELSE 0
      /\ startRead' = IF closes THEN 0 ELSE IF opens THEN 1 ELSE startRead
      /\ todo' = (IF opens THEN <<"X">> ELSE <<>>)
                 \o (IF closes THEN <<"Y">> ELSE <<>>)
                 \o (IF startRead' = 1 THEN <<b>> ELSE <<>>)
  BY <1>5 DEF Judge
<1>7. /\ startRead = IF 2 <= k /\ k < F THEN 1 ELSE 0
      /\ k = 1 => startReadFlag = 1
      /\ k = F - 1 => stopReadFlag = 1
  BY DEF Scanned
<1> HIDE DEF F, b
<1>8. b \in Letters \cup {"L"} => b \in Alphabet /\ b \notin {"X", "Y", "Z"}
  BY WordsAssumption DEF Alphabet, Marks
<1>9. Zero \notin {"X", "Y", "Z", "L"}
  BY DEF Zero
<1>10. /\ {"X", "Y", "Z", "L"} \subseteq Alphabet
       /\ <<>> \o <<>> = <<>>
       /\ \A a \in Alphabet : <<a>> \o <<>> = <<a>> /\ <<>> \o <<a>> = <<a>>
  BY DEF Alphabet, Marks
<1>11. /\ k = 0 => todo' = <<>>
       /\ k = 1 => todo' = <<"X">> \o <<"Z">>
       /\ 2 <= k /\ k < F - 1 => b \in Alphabet /\ b # "Y" /\ todo' = <<b>>
       /\ k = F - 1 => todo' = <<"Y">>
       /\ k >= F => todo' = <<>>
  <2>1. k = 0 => ~opens /\ ~closes /\ startRead' = 0
    BY <1>4, <1>6, <1>7
  <2>2. k = 1 => opens /\ ~closes /\ startRead' = 1
    BY <1>4, <1>6, <1>7
  <2>3. 2 <= k /\ k < F - 1 => b \in Alphabet /\ b # "Y" /\ ~opens /\ ~closes /\ startRead' = 1
    BY <1>4, <1>6, <1>7, <1>8
  <2>4. k = F - 1 => ~opens /\ closes /\ startRead' = 0
    BY <1>4, <1>6, <1>7
  <2>5. k >= F => ~opens /\ ~closes /\ startRead' = 0
    BY <1>4, <1>6, <1>7, <1>9
  <2> HIDE DEF opens, closes
  <2>6. todo' = (IF opens THEN <<"X">> ELSE <<>>)
                 \o (IF closes THEN <<"Y">> ELSE <<>>)
                 \o (IF startRead' = 1 THEN <<b>> ELSE <<>>)
    BY <1>6 DEF opens, closes
  <2>7. CASE k = 0
    BY <1>4, <1>10, <2>1, <2>6, <2>7
  <2>8. CASE k = 1
    BY <1>4, <1>10, <2>2, <2>6, <2>8
  <2>9. CASE 2 <= k /\ k < F - 1
    BY <1>4, <1>10, <2>3, <2>6, <2>9
  <2>10. CASE k = F - 1
    BY <1>4, <1>10, <2>4, <2>6, <2>10
  <2>11. CASE k >= F
    BY <1>4, <1>10, <2>5, <2>6, <2>11
  <2> QED
    BY <1>4, <2>7, <2>8, <2>9, <2>10, <2>11
<1>12. todo' \in Seq(Alphabet)
  <2>1. /\ <<>> \in Seq(Alphabet)
        /\ \A a \in Alphabet : <<a>> \in Seq(Alphabet)
    OBVIOUS
  <2>2. <<"X">> \o <<"Z">> \in Seq(Alphabet)
    BY <1>10, <2>1, ConcatProperties
  <2>3. k = 0 \/ k = 1 \/ (2 <= k /\ k < F - 1) \/ k = F - 1 \/ k >= F
    BY <1>4
  <2> QED
    BY <1>10, <1>11, <2>1, <2>2, <2>3
<1>13. startRead' = (IF 2 <= k + 1 /\ k + 1 < F THEN 1 ELSE 0)
  BY <1>4, <1>6, <1>7, <1>8, <1>9
<1>14. (k + 1 = 1 => startReadFlag' = 1) /\ (k + 1 = F - 1 => stopReadFlag' = 1)
  BY <1>4, <1>6
<1>15. Scanned(w, k + 1)'
  BY <1>5, <1>13, <1>14 DEF Scanned, F
<1>16. k + 1 = F + Pad => receive_buff' = <<>> /\ startRead' = 0
  BY <1>4, <1>5, <1>13
<1> QED
  BY <1>4, <1>11, <1>12, <1>15, <1>16 DEF F, b

\* One byte of a datagram and the frames of the stream.
LEMMA JudgeScan ==
  ASSUME TypeOK, ScanInv, CollectInv, Judge
  PROVE  ScanInv' /\ todo' \in Seq(Alphabet)
<1>1. receive_buff # <<>> /\ UNCHANGED dropped
  BY DEF Judge, received
<1>2. PICK w \in Phrases : \E k \in 0 .. FrameLength(w) + Pad - 1 :
        /\ Scanned(w, k)
        /\ dropped = 0 => /\ Framed(Stream, Open(w, k))
                          /\ k = FrameLength(w) - 1 => Stream[Len(Stream)] = "L"
  BY <1>1 DEF ScanInv
<1>3. PICK k \in 0 .. FrameLength(w) + Pad - 1 :
        /\ Scanned(w, k)
        /\ dropped = 0 => /\ Framed(Stream, Open(w, k))
                          /\ k = FrameLength(w) - 1 => Stream[Len(Stream)] = "L"
  BY <1>2
<1> DEFINE F == FrameLength(w)
           b == Frame(w)[k + 1]
<1>4. F \in Nat /\ F >= 5 /\ Pad \in Nat /\ Pad >= 1 /\ F <= BufSize /\ BufSize \in Nat
      /\ k \in 0 .. F + Pad - 1
  BY FrameIs, SizesAssumption
<1>5. /\ Scanned(w, k + 1)' /\ todo' \in Seq(Alphabet)
      /\ k = 0 => todo' = <<>>
      /\ k = 1 => todo' = <<"X">> \o <<"Z">>
      /\ 2 <= k /\ k < F - 1 => b \in Alphabet /\ b # "Y" /\ todo' = <<b>> /\ (k = F - 2 => b = "L")
      /\ k = F - 1 => todo' = <<"Y">>
      /\ k >= F => todo' = <<>>
      /\ k + 1 = F + Pad => receive_buff' = <<>> /\ startRead' = 0
  BY <1>3, JudgeStep
<1> HIDE DEF F, b
<1>6. {"X", "Z"} \subseteq Alphabet
  BY DEF Alphabet, Marks
<1>7. ASSUME dropped' = 0
       PROVE  /\ Framed(Stream', Open(w, k + 1))
              /\ k + 1 = F - 1 => Stream'[Len(Stream')] = "L"
  <2>1. dropped = 0 /\ Framed(Stream, Open(w, k)) /\ Stream' = Stream \o todo'
        /\ (k = F - 1 => Stream[Len(Stream)] = "L")
    BY <1>1, <1>3, <1>5, <1>7, StreamJudge DEF F
  <2>2. Stream \in Seq(Alphabet)
    BY <2>1 DEF Framed
  <2>3. CASE k = 0 \/ k >= F
    <3>1. Stream' = Stream
      BY <1>5, <2>1, <2>2, <2>3
    <3>2. Open(w, k) = 0 /\ Open(w, k + 1) = 0 /\ k + 1 # F - 1
      BY <1>4, <2>3 DEF Open, F
    <3> QED
      BY <2>1, <3>1, <3>2
  <2>4. CASE k = 1
    <3>1. Stream' = (Stream \o <<"X">>) \o <<"Z">>
      <4>1. <<"X">> \in Seq(Alphabet) /\ <<"Z">> \in Seq(Alphabet)
        BY <1>6
      <4>2. (Stream \o <<"X">>) \o <<"Z">> = Stream \o (<<"X">> \o <<"Z">>)
        BY <2>2, <4>1, ConcatAssociative, SMTT(40)
      <4> QED
        BY <1>5, <2>1, <2>4, <4>2
    <3>2. Open(w, k) = 0 /\ Open(w, k + 1) = 2 /\ k + 1 # F - 1
      BY <1>4, <2>4 DEF Open, F
    <3>3. Framed(Stream \o <<"X">>, 0 + 1)
      BY <1>6, <2>1, <3>2, FramedByte
    <3>4. Framed((Stream \o <<"X">>) \o <<"Z">>, (0 + 1) + 1)
      BY <1>6, <3>3, FramedByte
    <3> QED
      BY <3>1, <3>2, <3>4
  <2>5. CASE 2 <= k /\ k < F - 1
    <3>1. Stream' = Stream \o <<b>> /\ b \in Alphabet /\ b # "Y"
      BY <1>5, <2>1, <2>5
    <3>2. Open(w, k) = k /\ Open(w, k + 1) = k + 1
      BY <1>4, <2>5 DEF Open, F
    <3>3. Framed(Stream \o <<b>>, k + 1)
      BY <2>1, <3>1, <3>2, FramedByte
    <3>4. (Stream \o <<b>>)[Len(Stream \o <<b>>)] = b
      BY <2>2, <3>1
    <3>5. k + 1 = F - 1 => b = "L"
      BY <1>4, <1>5, <2>5
    <3> QED
      BY <3>1, <3>2, <3>3, <3>4, <3>5
  <2>6. CASE k = F - 1
    <3>1. Stream' = Stream \o <<"Y">>
      BY <1>5, <2>1, <2>6
    <3>2. Open(w, k) = k /\ Open(w, k + 1) = 0 /\ k + 1 # F - 1 /\ k >= 1 /\ k < BufSize
      BY <1>4, <2>6 DEF Open, F
    <3>3. Framed(Stream \o <<"Y">>, 0)
      BY <2>1, <2>6, <3>2, FramedClose
    <3> QED
      BY <3>1, <3>2, <3>3
  <2> QED
    BY <1>4, <2>3, <2>4, <2>5, <2>6
<1>8. CASE k + 1 < F + Pad
  <2>1. k + 1 \in 0 .. F + Pad - 1
    BY <1>4, <1>8
  <2> QED
    BY <1>5, <1>7, <2>1 DEF ScanInv, F
<1>9. CASE ~(k + 1 < F + Pad)
  <2>1. k + 1 >= F /\ F + Pad - (k + 1) = 0 /\ startRead' = 0 /\ Open(w, k + 1) = 0
    BY <1>4, <1>5, <1>9 DEF Open, F
  <2>2. receive_buff' = <<>>
    BY <1>4, <1>5, <1>9
  <2> QED
    BY <1>5, <1>7, <2>1, <2>2 DEF ScanInv
<1> QED
  BY <1>8, <1>9

\* A datagram that is being scanned has a byte left.
LEMMA ScannedBytes ==
  ASSUME NEW w \in Phrases, NEW k \in 0 .. FrameLength(w) + Pad - 1, Scanned(w, k)
  PROVE  receive_buff # <<>>
<1>1. FrameLength(w) \in Nat /\ Pad \in Nat
  BY FrameIs, SizesAssumption
<1>2. 1 \in 1 .. FrameLength(w) + Pad - k
  BY <1>1
<1>3. 1 \in DOMAIN receive_buff
  BY <1>2 DEF Scanned
<1> QED
  BY <1>3

\* A datagram that has just been received.
LEMMA ReceiveStep ==
  ASSUME ScanInv, Receive, NEW w \in Phrases, receive_buff' = Frame(w)
  PROVE  Scanned(w, 0)' /\ 0 \in 0 .. FrameLength(w) + Pad - 1
<1>1. receive_buff = <<>> /\ startRead' = startRead
  BY DEF Receive, scanner
<1>2. startRead = 0
  BY <1>1, ScannedBytes DEF ScanInv
<1>3. FrameLength(w) \in Nat /\ FrameLength(w) >= 5 /\ Pad \in Nat /\ Pad >= 1
      /\ Frame(w) \in Seq(Alphabet \cup {Zero}) /\ Len(Frame(w)) = FrameLength(w) + Pad
  BY FrameIs, SizesAssumption
<1>4. receive_buff' = [j \in 1 .. FrameLength(w) + Pad - 0 |-> Frame(w)[0 + j]]
  <2>1. \A j \in 1 .. FrameLength(w) + Pad : 0 + j = j
    OBVIOUS
  <2>2. Frame(w) = [j \in 1 .. FrameLength(w) + Pad |-> Frame(w)[j]]
    BY <1>3, LenProperties
  <2>3. FrameLength(w) + Pad - 0 = FrameLength(w) + Pad
    BY <1>3
  <2> QED
    BY <2>1, <2>2, <2>3
<1> QED
  BY <1>1, <1>2, <1>3, <1>4 DEF Scanned

-----------------------------------------------------------------------------
(* The collector *)

\* A byte is collected only where the buffer has room, and a Y only after an L.
LEMMA IndexWithin ==
  ASSUME TypeOK, ScanInv, CollectInv, dropped = 0, out # Nothing
  PROVE  index < BufSize /\ (out = "Y" => index > 0 /\ buf[index] = "L")
<1>1. PICK e : Framed(Stream, e) /\ e <= BufSize
  <2>1. CASE Framed(Stream, 0)
    BY <2>1, SizesAssumption
  <2>2. ASSUME NEW w \in Phrases, NEW k \in 0 .. FrameLength(w) + Pad - 1,
               Framed(Stream, Open(w, k))
        PROVE  Open(w, k) <= BufSize
    BY FrameIs, SizesAssumption DEF Open
  <2> QED
    BY <2>1, <2>2 DEF ScanInv
<1> DEFINE rest == queue \o (Opt(in) \o todo)
<1>2. /\ index \in Nat /\ BufSize \in Nat /\ Len(Stream) >= index + 1 /\ Len(Stream) \in Nat
      /\ Stream[index + 1] = out
      /\ \A j \in 1 .. index : Stream[j] = buf[j] /\ buf[j] # "Y"
  <2>1. Collected \in Seq(Alphabet) /\ Len(Collected) = index /\ index \in Nat
        /\ out \in Alphabet /\ rest \in Seq(Alphabet)
    BY StreamIs, ConcatProperties DEF TypeOK, Alphabet
  <2>2. Stream = Collected \o (<<out>> \o rest)
    BY DEF Stream, Opt
  <2>3. \A j \in 1 .. index : Collected[j] = buf[j] /\ buf[j] # "Y"
    BY DEF Collected, CollectInv
  <2>4. PICK c \in Seq(Alphabet) : c = Collected
    BY <2>1
  <2>5. PICK r \in Seq(Alphabet) : r = rest
    BY <2>1
  <2>6. /\ <<out>> \o r \in Seq(Alphabet) /\ Len(<<out>> \o r) = Len(r) + 1
        /\ (<<out>> \o r)[1] = out /\ Len(r) \in Nat
    BY <2>1
  <2>7. PICK d \in Seq(Alphabet) : d = <<out>> \o r
    BY <2>6
  <2>8. Len(c \o d) = Len(c) + Len(d) /\ (c \o d)[Len(c) + 1] = d[1]
        /\ \A j \in 1 .. Len(c) : (c \o d)[j] = c[j]
    BY <2>6, <2>7
  <2> QED
    BY <2>1, <2>2, <2>3, <2>4, <2>5, <2>6, <2>7, <2>8, SizesAssumption
<1>3. index < BufSize
  <2>1. e \in 0 .. Len(Stream)
    BY <1>1 DEF Framed
  <2>2. CASE 0 < Len(Stream) - e
    <3>1. PICK q \in 0 + 1 .. 0 + BufSize : q <= Len(Stream) /\ Stream[q] = "Y"
      BY <1>1, <1>2, <2>2 DEF Framed
    <3>2. q \notin 1 .. index
      BY <1>2, <3>1
    <3> QED
      BY <1>2, <3>1, <3>2
  <2>3. CASE ~(0 < Len(Stream) - e)
    BY <1>1, <1>2, <2>1, <2>3
  <2> QED
    BY <2>2, <2>3
<1>4. ASSUME out = "Y" PROVE index > 0 /\ buf[index] = "L"
  <2>1. \A p \in 1 .. Len(Stream) : Stream[p] = "Y" => p >= 2 /\ Stream[p-1] = "L"
    BY <1>1 DEF Framed
  <2>2. index + 1 >= 2 /\ Stream[(index + 1) - 1] = "L"
    BY <1>2, <1>4, <2>1
  <2>3. (index + 1) - 1 = index /\ index \in 1 .. index
    BY <1>2, <2>2
  <2> QED
    BY <1>2, <2>2, <2>3
<1> QED
  BY <1>3, <1>4

\* Hence nothing is stored behind the buffer.
LEMMA NoOverrun ==
  ASSUME TypeOK, ScanInv, CollectInv, Overrun
  PROVE  dropped # 0
<1> SUFFICES ASSUME dropped = 0 PROVE FALSE
  OBVIOUS
<1>1. out # Nothing /\ index >= BufSize
  BY DEF Overrun, Fifo!Use
<1>2. index < BufSize
  BY <1>1, IndexWithin
<1> QED
  BY <1>1, <1>2, SizesAssumption DEF TypeOK

LEMMA CollectKept ==
  ASSUME TypeOK, ScanInv, CollectInv, Collect
  PROVE  CollectInv'
<1>1. out # Nothing /\ out' = Nothing /\ Store(out) /\ dropped' = dropped /\ startProcess # 1
      /\ index \in Nat
  BY DEF Collect, Fifo!Use, received, CollectInv, TypeOK
<1>2. startProcess' = 1 => index' = 0
  BY <1>1 DEF Collect, TypeOK
<1>3. ASSUME dropped' = 0
      PROVE  /\ index' <= BufSize
             /\ \A j \in 1 .. index' : buf'[j] \in Alphabet \ {"Y"}
             /\ index' > 0 => (startProcessFlag' = 1 <=> buf'[index'] = "L")
             /\ overrun' = 0
  <2>1. index < BufSize /\ (out = "Y" => index > 0 /\ buf[index] = "L") /\ BufSize \in Nat
    BY <1>1, <1>3, IndexWithin, SizesAssumption
  <2>2. out = "Y" => startProcessFlag = 1
    BY <1>1, <1>3, <2>1 DEF CollectInv
  <2>3. out \in Alphabet
    BY <1>1 DEF TypeOK, Alphabet
  <2>4. CASE out = "Y"
    BY <1>1, <1>3, <2>1, <2>2, <2>4 DEF Collect, CollectInv
  <2>5. CASE out # "Y"
    <3>1. index' = index + 1
      BY <2>5 DEF Collect
    <3>2. startProcessFlag' = 1 <=> out = "L"
      BY <2>5 DEF Collect
    <3>3. \A j \in 1 .. index + 1 : buf'[j] = IF j = index + 1 THEN out ELSE buf[j]
      BY <1>1, <2>1 DEF Store, TypeOK
    <3>4. \A j \in 1 .. index : buf[j] \in Alphabet \ {"Y"}
      BY <1>1, <1>3 DEF CollectInv
    <3>5. overrun' = 0
      BY <1>1, <1>3 DEF Collect, CollectInv
    <3> QED
      BY <1>1, <2>1, <2>3, <2>5, <3>1, <3>2, <3>3, <3>4, <3>5
  <2> QED
    BY <2>4, <2>5
<1> QED
  BY <1>1, <1>2, <1>3 DEF CollectInv

-----------------------------------------------------------------------------
(* The invariant *)

LEMMA InitInv == Init => IInv
<1> SUFFICES ASSUME Init PROVE IInv
  OBVIOUS
<1>1. TypeOK
  BY SizesAssumption DEF Init, Fifo!Init, TypeOK, Blank, None
<1>2. CollectInv
  BY SizesAssumption DEF Init, Fifo!Init, CollectInv
<1>3. Stream = <<>>
  <2>1. Collected = <<>> /\ Opt(out) = <<>> /\ Opt(in) = <<>> /\ queue = <<>> /\ todo = <<>>
    BY DEF Init, Fifo!Init, Collected, Opt
  <2> QED
    BY <2>1 DEF Stream
<1>4. Framed(<<>>, 0)
  BY DEF Framed
<1> QED
  BY <1>1, <1>2, <1>3, <1>4 DEF IInv, ScanInv, Init

LEMMA NextType == IInv /\ [Next]_vars => TypeOK'
<1> SUFFICES ASSUME IInv, [Next]_vars PROVE TypeOK'
  OBVIOUS
<1> USE DEF IInv, scanner, collector, received
<1>1. CASE Receive
  <2>1. PICK w \in Phrases : receive_buff' = Frame(w) /\ pending' = Append(pending, w)
    BY <1>1 DEF Receive
  <2>2. receive_buff' \in Seq(Letters \cup Marks \cup {Zero})
    BY <2>1, FrameIs DEF Alphabet
  <2>3. pending' \in Seq(Phrases)
    BY <2>1, AppendProperties DEF TypeOK
  <2> QED
    BY <1>1, <2>2, <2>3 DEF Receive, TypeOK
<1>2. CASE Judge
  <2>1. todo' \in Seq(Letters \cup Marks)
    BY <1>2, JudgeScan DEF Alphabet
  <2>2. receive_buff' \in Seq(Letters \cup Marks \cup {Zero})
    BY <1>2, HeadTailProperties DEF Judge, TypeOK
  <2>3. {startReadFlag', startRead', stopReadFlag'} \subseteq {0, 1}
    BY <1>2 DEF Judge, TypeOK
  <2> QED
    BY <1>2, <2>1, <2>2, <2>3 DEF Judge, TypeOK
<1>3. CASE CallEnqueue
  <2>1. todo # <<>> /\ todo' = Tail(todo) /\ in' = Head(todo) /\ UNCHANGED <<queue, out>>
    BY <1>3 DEF CallEnqueue, Fifo!Offer
  <2>2. todo' \in Seq(Letters \cup Marks) /\ in' \in Letters \cup Marks
    BY <2>1, HeadTailProperties DEF TypeOK
  <2> QED
    BY <1>3, <2>1, <2>2 DEF CallEnqueue, TypeOK
<1>4. CASE Enqueue
  <2>1. queue' \in Seq(Letters \cup Marks) /\ in' = Nothing /\ out' = out /\ dropped' \in {0, 1}
    <3>1. CASE Fifo!Put /\ UNCHANGED dropped
      <4>1. in \in Letters \cup Marks
        BY <3>1 DEF Fifo!Put, TypeOK
      <4> QED
        BY <3>1, <4>1, AppendProperties DEF Fifo!Put, TypeOK
    <3>2. CASE Fifo!Drop /\ dropped' = 1
      BY <3>2 DEF Fifo!Drop, TypeOK
    <3> QED
      BY <1>4, <3>1, <3>2 DEF Enqueue
  <2> QED
    BY <1>4, <2>1 DEF Enqueue, TypeOK
<1>5. CASE Dequeue
  <2>1. queue # <<>> /\ out' = Head(queue) /\ queue' = Tail(queue) /\ in' = in
    BY <1>5 DEF Dequeue, Fifo!Take
  <2>2. queue' \in Seq(Letters \cup Marks) /\ out' \in Letters \cup Marks
    BY <2>1, HeadTailProperties DEF TypeOK
  <2> QED
    BY <1>5, <2>1, <2>2 DEF Dequeue, TypeOK
<1>6. CASE Collect
  <2>1. out \in Letters \cup Marks /\ out' = Nothing /\ Store(out) /\ UNCHANGED <<in, queue>>
    BY <1>6 DEF Collect, Fifo!Use, TypeOK
  <2>2. buf' \in [1 .. BufSize -> Letters \cup Marks \cup {Zero}]
    BY <2>1 DEF Store, TypeOK
  <2>3. {startProcess', startProcessFlag'} \subseteq {0, 1}
    BY <1>6 DEF Collect, TypeOK
  <2>4. index' \in 0 .. BufSize
    BY <1>6, <2>1, SizesAssumption DEF Collect, Store, TypeOK
  <2> QED
    BY <1>6, <2>1, <2>2, <2>3, <2>4 DEF Collect, TypeOK
<1>7. CASE Process
  <2>1. sent' \in Known \cup {None}
    BY <1>7 DEF Process, Known
  <2>2. pending' \in Seq(Phrases)
    BY <1>7, HeadTailProperties DEF Process, TypeOK
  <2>3. buf' \in [1 .. BufSize -> Letters \cup Marks \cup {Zero}]
    BY <1>7 DEF Process, Blank
  <2> QED
    BY <1>7, <2>1, <2>2, <2>3 DEF Process, TypeOK
<1>8. CASE Overrun
  BY <1>8 DEF Overrun, Fifo!Use, TypeOK
<1>9. CASE UNCHANGED vars
  BY <1>9 DEF vars, TypeOK
<1> QED
  BY <1>1, <1>2, <1>3, <1>4, <1>5, <1>6, <1>7, <1>8, <1>9
  DEF Next, Scan, PhoneCommand_Process

LEMMA NextCollect == IInv /\ [Next]_vars => CollectInv'
<1> SUFFICES ASSUME IInv, [Next]_vars PROVE CollectInv'
  OBVIOUS
<1> USE DEF IInv, scanner, collector, received
<1>1. CASE Receive
  BY <1>1 DEF Receive, CollectInv
<1>2. CASE Judge
  BY <1>2 DEF Judge, CollectInv
<1>3. CASE CallEnqueue
  BY <1>3 DEF CallEnqueue, Fifo!Offer, CollectInv
<1>4. CASE Enqueue
  BY <1>4 DEF Enqueue, Fifo!Put, Fifo!Drop, CollectInv
<1>5. CASE Dequeue
  BY <1>5 DEF Dequeue, CollectInv
<1>6. CASE Collect
  BY <1>6, CollectKept
<1>7. CASE Process
  BY <1>7, SizesAssumption DEF Process, CollectInv
<1>8. CASE Overrun
  BY <1>8, NoOverrun DEF Overrun, Fifo!Use, CollectInv
<1>9. CASE UNCHANGED vars
  BY <1>9 DEF vars, CollectInv
<1> QED
  BY <1>1, <1>2, <1>3, <1>4, <1>5, <1>6, <1>7, <1>8, <1>9
  DEF Next, Scan, PhoneCommand_Process

LEMMA NextScan == IInv /\ [Next]_vars => ScanInv'
<1> SUFFICES ASSUME IInv, [Next]_vars PROVE ScanInv'
  OBVIOUS
<1> USE DEF IInv, scanner, collector, received
<1>1. CASE Receive
  <2>1. PICK w \in Phrases : receive_buff' = Frame(w)
    BY <1>1 DEF Receive
  <2>2. receive_buff = <<>> /\ UNCHANGED <<startRead, dropped>> /\ Stream' = Stream
    BY <1>1 DEF Receive, Stream, Collected
  <2>3. FrameLength(w) \in Nat /\ FrameLength(w) >= 5 /\ Pad \in Nat /\ Pad >= 1
        /\ Frame(w) \in Seq(Alphabet \cup {Zero}) /\ Len(Frame(w)) = FrameLength(w) + Pad
    BY FrameIs, SizesAssumption
  <2>4. dropped = 0 => Framed(Stream, 0)
    BY <2>2, ScannedBytes DEF ScanInv
  <2>5. Scanned(w, 0)' /\ 0 \in 0 .. FrameLength(w) + Pad - 1
    BY <1>1, <2>1, ReceiveStep
  <2>6. Open(w, 0) = 0 /\ 0 # FrameLength(w) - 1
    BY <2>3 DEF Open
  <2> QED
    BY <2>2, <2>4, <2>5, <2>6 DEF ScanInv
<1>2. CASE Judge
  BY <1>2, JudgeScan
<1>3. CASE CallEnqueue
  <2>1. dropped' = 0 => dropped = 0 /\ Stream' = Stream
    BY <1>3, StreamCall DEF CallEnqueue
  <2> QED
    BY <1>3, <2>1, ScanKept DEF CallEnqueue
<1>4. CASE Enqueue
  <2>1. dropped' = 0 => dropped = 0 /\ Stream' = Stream
    BY <1>4, StreamPut DEF Enqueue
  <2> QED
    BY <1>4, <2>1, ScanKept DEF Enqueue
<1>5. CASE Dequeue
  <2>1. dropped' = 0 => dropped = 0 /\ Stream' = Stream
    BY <1>5, StreamTake DEF Dequeue
  <2> QED
    BY <1>5, <2>1, ScanKept DEF Dequeue
<1>6. CASE Collect
  <2>1. UNCHANGED <<receive_buff, startReadFlag, startRead, stopReadFlag, dropped>>
    BY <1>6 DEF Collect
  <2>2. ASSUME dropped = 0, out # "Y" PROVE Stream' = Stream
    <3>1. index' = index + 1 /\ out # Nothing
      BY <1>6, <2>2 DEF Collect, Fifo!Use
    <3>2. index < BufSize
      BY <2>2, <3>1, IndexWithin
    <3> QED
      BY <1>6, <2>2, <3>1, <3>2, StreamCollect
  <2>3. ASSUME dropped = 0, out = "Y"
        PROVE  /\ Collected \in Seq(Alphabet) /\ Stream' \in Seq(Alphabet)
               /\ Stream = Collected \o (<<"Y">> \o Stream')
    <3>1. out # Nothing
      BY <1>6 DEF Collect, Fifo!Use
    <3>2. index > 0 /\ buf[index] = "L"
      BY <2>3, <3>1, IndexWithin
    <3>3. startProcessFlag = 1
      BY <2>3, <3>2 DEF CollectInv
    <3>4. index' = 0
      BY <1>6, <2>3, <3>3 DEF Collect
    <3> QED
      BY <1>6, <2>3, <3>4, StreamEnd
  <2> QED
    BY <2>1, <2>2, <2>3, ScanKept
<1>7. CASE Process
  <2>1. UNCHANGED <<receive_buff, startReadFlag, startRead, stopReadFlag, dropped>>
    BY <1>7 DEF Process
  <2>2. Stream' = Stream
    <3>1. index = 0 /\ index' = 0 /\ UNCHANGED <<todo, in, queue, out>>
      BY <1>7 DEF Process, CollectInv
    <3>2. Collected = <<>> /\ Collected' = <<>>
      BY <3>1 DEF Collected
    <3> QED
      BY <3>1, <3>2 DEF Stream
  <2> QED
    BY <2>1, <2>2, ScanKept
<1>8. CASE Overrun
  <2>1. dropped # 0 /\ UNCHANGED <<receive_buff, startReadFlag, startRead, stopReadFlag, dropped>>
    BY <1>8, NoOverrun DEF Overrun
  <2> QED
    BY <2>1, ScanKept
<1>9. CASE UNCHANGED vars
  <2>1. Stream' = Stream
    BY <1>9 DEF vars, Stream, Collected
  <2> QED
    BY <1>9, <2>1, ScanKept DEF vars
<1> QED
  BY <1>1, <1>2, <1>3, <1>4, <1>5, <1>6, <1>7, <1>8, <1>9
  DEF Next, Scan, PhoneCommand_Process

-----------------------------------------------------------------------------
(* The words of the stream *)

\* A word whose frame is still missing as a whole.
LEMMA SplitReceive ==
  ASSUME NEW s \in Seq(Alphabet), NEW ws \in Seq(Phrases), NEW w \in Phrases, Split(s, ws, 0)
  PROVE  Split(s, Append(ws, w), FrameLength(w))
<1> DEFINE n == Len(ws)
           vs == Append(ws, w)
           d == FrameLength(w)
<1>1. PICK c \in [1 .. n + 1 -> 0 .. Len(s)] : Cut(s, ws, 0, c)
  BY DEF Split
<1>2. n \in Nat /\ Len(s) \in Nat /\ vs \in Seq(Phrases) /\ Len(vs) = n + 1
      /\ vs[n + 1] = w /\ \A i \in 1 .. n : vs[i] = ws[i] /\ ws[i] \in Phrases
  BY AppendProperties
<1>3. \A v \in Phrases : FrameLength(v) \in Nat
  BY FrameIs
<1> DEFINE e == [i \in 1 .. n + 2 |-> IF i = n + 2 THEN Len(s) ELSE c[i]]
<1>4. c[1] = 0 /\ c[n + 1] = Len(s) /\ \A i \in 1 .. n + 1 : c[i] \in 0 .. Len(s)
  BY <1>1, <1>2 DEF Cut
<1>5. e \in [1 .. n + 2 -> 0 .. Len(s)]
  BY <1>2, <1>4
<1>6. e[1] = 0 /\ e[n + 2] = Len(s) /\ \A i \in 1 .. n + 1 : e[i] = c[i]
  BY <1>2, <1>4
<1> HIDE DEF e, vs
<1>7. ASSUME NEW i \in 1 .. n + 2, NEW j \in 1 .. n + 2, i <= j PROVE e[i] <= e[j]
  <2>1. CASE j = n + 2
    <3>1. e[i] \in 0 .. Len(s) /\ e[j] = Len(s)
      BY <1>5, <1>6, <2>1
    <3> QED
      BY <1>2, <3>1
  <2>2. CASE j # n + 2
    <3>1. i \in 1 .. n + 1 /\ j \in 1 .. n + 1
      BY <1>2, <1>7, <2>2
    <3> QED
      BY <1>1, <1>6, <1>7, <3>1 DEF Cut
  <2> QED
    BY <2>1, <2>2
<1>8. ASSUME NEW i \in 1 .. n + 1
      PROVE  /\ Part(vs, d, i) \in Nat
             /\ e[i + 1] = e[i] + Part(vs, d, i)
             /\ \A j \in 1 .. Part(vs, d, i) : s[e[i] + j] = Frame(vs[i])[j]
  <2>1. CASE i = n + 1
    <3>1. Part(vs, d, i) = 0
      BY <1>2, <1>3, <2>1 DEF Part
    <3>2. e[i + 1] = Len(s) /\ e[i] = Len(s)
      <4>1. i + 1 = n + 2 /\ i \in 1 .. n + 1
        BY <1>2, <2>1
      <4> QED
        BY <1>4, <1>6, <2>1, <4>1
    <3> QED
      BY <1>2, <3>1, <3>2
  <2>2. CASE i # n + 1
    <3>1. i \in 1 .. n /\ i + 1 \in 1 .. n + 1 /\ i \in 1 .. n + 1
      BY <1>2, <2>2
    <3>2. Part(vs, d, i) = Part(ws, 0, i) /\ vs[i] = ws[i]
      <4>1. FrameLength(ws[i]) \in Nat
        BY <1>2, <1>3, <3>1
      <4> QED
        BY <1>2, <3>1, <4>1 DEF Part
    <3>3. e[i] = c[i] /\ e[i + 1] = c[i + 1]
      BY <1>6, <3>1
    <3> QED
      BY <1>1, <3>1, <3>2, <3>3 DEF Cut
  <2> QED
    BY <2>1, <2>2
<1>9. Cut(s, vs, d, e)
  <2>1. Len(vs) + 1 = n + 2
    BY <1>2
  <2> QED
    BY <1>2, <1>6, <1>7, <1>8, <2>1 DEF Cut
<1>10. vs # <<>>
  BY <1>2
<1>11. Split(s, vs, d)
  <2>1. Len(vs) + 1 = n + 2
    BY <1>2
  <2> QED
    BY <1>5, <1>9, <1>10, <2>1 DEF Split
<1> QED
  BY <1>11 DEF vs

\* The next byte of the youngest word.
LEMMA SplitByte ==
  ASSUME NEW s \in Seq(Alphabet), NEW ws \in Seq(Phrases), NEW d \in Nat, d >= 1,
         Split(s, ws, d), NEW b \in Alphabet,
         b = Frame(ws[Len(ws)])[FrameLength(ws[Len(ws)]) - d + 1]
  PROVE  Split(s \o <<b>>, ws, d - 1)
<1> DEFINE n == Len(ws)
           t == s \o <<b>>
           F == FrameLength(ws[n])
<1>1. PICK c \in [1 .. n + 1 -> 0 .. Len(s)] : Cut(s, ws, d, c)
  BY DEF Split
<1>2. n \in Nat /\ n >= 1 /\ Len(s) \in Nat /\ \A i \in 1 .. n : ws[i] \in Phrases
  BY EmptySeq DEF Split
<1>3. \A i \in 1 .. n : FrameLength(ws[i]) \in Nat
  BY <1>2, FrameIs
<1>4. Len(t) = Len(s) + 1 /\ t[Len(s) + 1] = b /\ \A p \in 1 .. Len(s) : t[p] = s[p]
  OBVIOUS
<1> HIDE DEF t
<1> DEFINE e == [i \in 1 .. n + 1 |-> IF i = n + 1 THEN Len(s) + 1 ELSE c[i]]
<1>5. c[1] = 0 /\ c[n + 1] = Len(s) /\ \A i \in 1 .. n + 1 : c[i] \in 0 .. Len(s)
  BY <1>1, <1>2 DEF Cut
<1>6. e \in [1 .. n + 1 -> 0 .. Len(t)] /\ e[1] = 0 /\ e[n + 1] = Len(t)
      /\ \A i \in 1 .. n : e[i] = c[i]
  BY <1>2, <1>4, <1>5
<1> HIDE DEF e
<1>7. ASSUME NEW i \in 1 .. n + 1, NEW j \in 1 .. n + 1, i <= j PROVE e[i] <= e[j]
  <2>1. CASE j = n + 1
    BY <1>2, <1>4, <1>6, <2>1
  <2>2. CASE j # n + 1
    <3>1. i \in 1 .. n /\ j \in 1 .. n
      BY <1>2, <1>7, <2>2
    <3> QED
      BY <1>1, <1>2, <1>6, <1>7, <3>1 DEF Cut
  <2> QED
    BY <2>1, <2>2
<1>8. ASSUME NEW i \in 1 .. n
      PROVE  /\ Part(ws, d - 1, i) \in Nat
             /\ e[i + 1] = e[i] + Part(ws, d - 1, i)
             /\ \A j \in 1 .. Part(ws, d - 1, i) : t[e[i] + j] = Frame(ws[i])[j]
  <2>1. /\ Part(ws, d, i) \in Nat /\ c[i + 1] = c[i] + Part(ws, d, i)
        /\ \A j \in 1 .. Part(ws, d, i) : s[c[i] + j] = Frame(ws[i])[j]
    BY <1>1 DEF Cut
  <2>2. i \in 1 .. n + 1 /\ i + 1 \in 1 .. n + 1 /\ FrameLength(ws[i]) \in Nat
    BY <1>2, <1>3
  <2>3. c[i] \in 0 .. Len(s) /\ c[i + 1] \in 0 .. Len(s)
    BY <1>5, <2>2
  <2>4. ASSUME NEW j \in 1 .. Part(ws, d, i) PROVE t[e[i] + j] = Frame(ws[i])[j]
    <3>1. c[i] + j \in 1 .. Len(s)
      BY <1>2, <2>1, <2>3
    <3> QED
      BY <1>4, <1>6, <2>1, <3>1
  <2>5. CASE i = n
    <3>1. Part(ws, d - 1, i) = Part(ws, d, i) + 1 /\ Part(ws, d, i) = F - d
      BY <2>2, <2>5 DEF Part
    <3>2. e[i] = c[i] /\ e[i + 1] = Len(s) + 1 /\ c[i + 1] = Len(s)
      BY <1>4, <1>5, <1>6, <2>5
    <3>3. t[c[i] + (Part(ws, d, i) + 1)] = Frame(ws[i])[Part(ws, d, i) + 1]
      <4>1. c[i] + (Part(ws, d, i) + 1) = Len(s) + 1
        BY <2>1, <2>3, <3>2
      <4>2. Part(ws, d, i) + 1 = F - d + 1
        BY <3>1
      <4> QED
        BY <1>4, <2>5, <4>1, <4>2
    <3>4. ASSUME NEW j \in 1 .. Part(ws, d, i) + 1 PROVE t[e[i] + j] = Frame(ws[i])[j]
      <4>1. CASE j = Part(ws, d, i) + 1
        BY <3>2, <3>3, <4>1
      <4>2. CASE j # Part(ws, d, i) + 1
        BY <2>1, <2>4, <4>2
      <4> QED
        BY <4>1, <4>2
    <3> QED
      BY <2>1, <2>3, <3>1, <3>2, <3>4
  <2>6. CASE i # n
    <3>1. Part(ws, d - 1, i) = Part(ws, d, i)
      BY <2>6 DEF Part
    <3>2. e[i] = c[i] /\ e[i + 1] = c[i + 1]
      BY <1>2, <1>6, <2>6
    <3> QED
      BY <2>1, <2>4, <3>1, <3>2
  <2> QED
    BY <2>5, <2>6
<1>9. Cut(t, ws, d - 1, e)
  BY <1>6, <1>7, <1>8 DEF Cut
<1>10. Split(t, ws, d - 1)
  BY <1>2, <1>6, <1>9 DEF Split
<1> QED
  BY <1>10 DEF t

\* The first Y of the stream closes the frame of the oldest word.
LEMMA SplitFirst ==
  ASSUME NEW c0 \in Seq(Alphabet), NEW r \in Seq(Alphabet), NEW ws \in Seq(Phrases), NEW d \in Nat,
         Split(c0 \o (<<"Y">> \o r), ws, d), \A j \in 1 .. Len(c0) : c0[j] # "Y"
  PROVE  /\ ws # <<>> /\ Len(c0) + 1 = FrameLength(ws[1])
         /\ \A j \in 1 .. Len(c0) : c0[j] = Frame(ws[1])[j]
         /\ Split(r, Tail(ws), d)
         /\ d > 0 => Tail(ws) # <<>> /\ Tail(ws)[Len(Tail(ws))] = ws[Len(ws)]
<1> DEFINE s == c0 \o (<<"Y">> \o r)
           m == Len(c0) + 1
           n == Len(ws)
           F == FrameLength(ws[1])
<1>1. /\ s \in Seq(Alphabet) /\ Len(s) = m + Len(r) /\ m \in Nat /\ m >= 1 /\ Len(r) \in Nat
      /\ s[m] = "Y" /\ \A p \in 1 .. Len(r) : s[m + p] = r[p]
      /\ \A p \in 1 .. Len(c0) : s[p] = c0[p]
  <2>1. <<"Y">> \o r \in Seq(Alphabet) /\ Len(<<"Y">> \o r) = Len(r) + 1
        /\ (<<"Y">> \o r)[1] = "Y" /\ \A p \in 1 .. Len(r) : (<<"Y">> \o r)[p + 1] = r[p]
    BY DEF Alphabet, Marks
  <2> DEFINE z == <<"Y">> \o r
  <2> HIDE DEF z
  <2>2. /\ c0 \o z \in Seq(Alphabet) /\ Len(c0 \o z) = Len(c0) + Len(z)
        /\ \A p \in 1 .. Len(z) : (c0 \o z)[Len(c0) + p] = z[p]
        /\ \A p \in 1 .. Len(c0) : (c0 \o z)[p] = c0[p]
    BY <2>1 DEF z
  <2> QED
    BY <2>1, <2>2 DEF z
<1>2. PICK c \in [1 .. n + 1 -> 0 .. Len(s)] : Cut(s, ws, d, c)
  BY DEF Split
<1>3. ws = <<>> => d = 0
  BY DEF Split
<1> HIDE DEF s
<1>4. /\ n \in Nat /\ (n = 0 <=> ws = <<>>) /\ \A i \in 1 .. n : ws[i] \in Phrases
      /\ c[1] = 0 /\ c[n + 1] = Len(s) /\ \A i \in 1 .. n + 1 : c[i] \in 0 .. Len(s)
  <2>1. n \in Nat /\ (n = 0 <=> ws = <<>>) /\ \A i \in 1 .. n : ws[i] \in Phrases
    BY EmptySeq
  <2> QED
    BY <1>2, <2>1 DEF Cut
<1>5. n >= 1
  BY <1>1, <1>4
<1>6. /\ F \in Nat /\ F >= 5 /\ Frame(ws[1])[F] = "Y"
      /\ \A j \in 1 .. F - 1 : Frame(ws[1])[j] # "Y"
  <2>1. ws[1] \in Phrases
    BY <1>4, <1>5
  <2>2. /\ F \in Nat /\ F >= 5 /\ Frame(ws[1])[F] = "Y" /\ Frame(ws[1])[F - 1] = "L"
        /\ Frame(ws[1])[1] = "X" /\ Frame(ws[1])[2] = "Z"
        /\ \A j \in 3 .. F - 2 : Frame(ws[1])[j] \in Letters \cup {"L"}
    BY <2>1, FrameIs
  <2>3. "Y" \notin Letters \cup {"L"}
    BY WordsAssumption DEF Marks
  <2> HIDE DEF F
  <2>4. \A j \in 1 .. F - 1 : j = 1 \/ j = 2 \/ j \in 3 .. F - 2 \/ j = F - 1
    BY <2>2
  <2> QED
    BY <2>2, <2>3, <2>4
<1> DEFINE P == Part(ws, d, 1)
<1>7. P \in Nat /\ c[2] = P /\ P <= Len(s) /\ \A j \in 1 .. P : s[j] = Frame(ws[1])[j]
  <2>1. /\ P \in Nat /\ c[1 + 1] = c[1] + P
        /\ \A j \in 1 .. P : s[c[1] + j] = Frame(ws[1])[j]
    BY <1>2, <1>4, <1>5 DEF Cut
  <2>2. c[2] \in 0 .. Len(s)
    BY <1>4, <1>5
  <2> QED
    BY <1>1, <1>4, <2>1, <2>2
<1>8. P = F - (IF n = 1 THEN d ELSE 0)
  BY DEF Part
<1> HIDE DEF P, F
<1>9. ~(n = 1 /\ d > 0)
  <2> SUFFICES ASSUME n = 1, d > 0 PROVE FALSE
    OBVIOUS
  <2>1. P = Len(s) /\ P <= F - 1
    BY <1>4, <1>6, <1>7, <1>8
  <2>2. m \in 1 .. P /\ m \in 1 .. F - 1
    BY <1>1, <1>6, <1>7, <2>1
  <2> QED
    BY <1>1, <1>6, <1>7, <2>2
<1>10. P = F
  BY <1>4, <1>5, <1>6, <1>8, <1>9
<1>11. m = F
  <2>1. CASE m < F
    <3>1. m \in 1 .. P /\ m \in 1 .. F - 1
      BY <1>1, <1>6, <1>10, <2>1
    <3> QED
      BY <1>1, <1>6, <1>7, <3>1
  <2>2. CASE m > F
    <3>1. F \in 1 .. Len(c0) /\ F \in 1 .. P
      BY <1>1, <1>6, <1>10, <2>2
    <3> QED
      BY <1>1, <1>6, <1>7, <3>1
  <2> QED
    BY <1>1, <1>6, <2>1, <2>2
<1>12. \A j \in 1 .. Len(c0) : c0[j] = Frame(ws[1])[j]
  <2>1. \A j \in 1 .. Len(c0) : j \in 1 .. P
    BY <1>1, <1>10, <1>11
  <2> QED
    BY <1>1, <1>7, <2>1
<1> DEFINE vs == Tail(ws)
           e == [i \in 1 .. n |-> c[i + 1] - F]
<1>13. /\ vs \in Seq(Phrases) /\ Len(vs) = n - 1 /\ \A i \in 1 .. n - 1 : vs[i] = ws[i + 1]
  BY <1>4, <1>5, HeadTailProperties
<1> HIDE DEF vs
<1>14. d > 0 => vs # <<>> /\ vs[Len(vs)] = ws[n]
  <2> SUFFICES ASSUME d > 0 PROVE vs # <<>> /\ vs[Len(vs)] = ws[n]
    OBVIOUS
  <2>1. n - 1 \in 1 .. n - 1 /\ (n - 1) + 1 = n
    BY <1>4, <1>5, <1>9
  <2>2. vs[n - 1] = ws[n]
    BY <1>13, <2>1
  <2> QED
    BY <1>13, <2>1, <2>2
<1>15. \A i \in 1 .. n : i + 1 \in 1 .. n + 1 /\ c[i + 1] \in F .. Len(s)
  <2> SUFFICES ASSUME NEW i \in 1 .. n PROVE i + 1 \in 1 .. n + 1 /\ c[i + 1] \in F .. Len(s)
    OBVIOUS
  <2>1. i + 1 \in 1 .. n + 1 /\ 2 \in 1 .. n + 1 /\ 2 <= i + 1
    BY <1>4, <1>5
  <2>2. c[2] <= c[i + 1] /\ c[i + 1] \in 0 .. Len(s)
    BY <1>2, <1>4, <2>1 DEF Cut
  <2> QED
    BY <1>1, <1>6, <1>7, <1>10, <2>1, <2>2
<1>16. /\ e \in [1 .. n -> 0 .. Len(r)]
       /\ e[1] = 0 /\ e[n] = Len(r) /\ \A i \in 1 .. n : c[i + 1] = e[i] + F
  <2>1. Len(s) = F + Len(r)
    BY <1>1, <1>11
  <2>2. ASSUME NEW i \in 1 .. n PROVE c[i + 1] - F \in 0 .. Len(r) /\ c[i + 1] = (c[i + 1] - F) + F
    BY <1>1, <1>6, <1>15, <2>1
  <2>3. c[1 + 1] - F = 0 /\ c[n + 1] - F = Len(r)
    <3>1. c[2] = F /\ c[n + 1] = F + Len(r)
      BY <1>4, <1>7, <1>10, <2>1
    <3> QED
      BY <1>1, <1>6, <3>1
  <2> QED
    BY <1>4, <1>5, <2>2, <2>3
<1> HIDE DEF e
<1>17. ASSUME NEW i \in 1 .. n, NEW j \in 1 .. n, i <= j PROVE e[i] <= e[j]
  <2>1. i + 1 \in 1 .. n + 1 /\ j + 1 \in 1 .. n + 1 /\ i + 1 <= j + 1
    BY <1>4, <1>17
  <2>2. c[i + 1] <= c[j + 1]
    BY <1>2, <2>1 DEF Cut
  <2>3. e[i] \in 0 .. Len(r) /\ e[j] \in 0 .. Len(r)
    BY <1>16
  <2>4. c[i + 1] = e[i] + F /\ c[j + 1] = e[j] + F
    BY <1>16
  <2> QED
    BY <1>1, <1>6, <2>2, <2>3, <2>4
<1>18. ASSUME NEW i \in 1 .. n - 1
       PROVE  /\ Part(vs, d, i) \in Nat
              /\ e[i + 1] = e[i] + Part(vs, d, i)
              /\ \A j \in 1 .. Part(vs, d, i) : r[e[i] + j] = Frame(vs[i])[j]
  <2>1. i \in 1 .. n /\ i + 1 \in 1 .. n /\ i + 1 \in 1 .. n + 1
    BY <1>4
  <2>2. vs[i] = ws[i + 1] /\ Part(vs, d, i) = Part(ws, d, i + 1)
    <3>1. vs[i] = ws[i + 1] /\ (i = n - 1 <=> i + 1 = n)
      BY <1>4, <1>13
    <3> QED
      BY <1>13, <3>1 DEF Part
  <2>3. /\ Part(vs, d, i) \in Nat /\ c[(i + 1) + 1] = c[i + 1] + Part(vs, d, i)
        /\ \A j \in 1 .. Part(vs, d, i) : s[c[i + 1] + j] = Frame(vs[i])[j]
    BY <1>2, <2>1, <2>2 DEF Cut
  <2>4. /\ e[i] \in 0 .. Len(r) /\ e[i + 1] \in 0 .. Len(r)
        /\ c[i + 1] = e[i] + F /\ c[(i + 1) + 1] = e[i + 1] + F
    BY <1>16, <2>1
  <2>5. e[i + 1] = e[i] + Part(vs, d, i)
    <3>1. e[i + 1] + F = (e[i] + F) + Part(vs, d, i)
      BY <2>3, <2>4, Zenon
    <3>2. e[i] \in Nat /\ e[i + 1] \in Nat /\ Part(vs, d, i) \in Nat /\ F \in Nat
      BY <1>1, <1>6, <2>3, <2>4
    <3>3. PICK x \in Nat, y \in Nat, p \in Nat, f \in Nat :
            x = e[i] /\ y = e[i + 1] /\ p = Part(vs, d, i) /\ f = F
      BY <3>2, Zenon
    <3>4. y + f = (x + f) + p
      BY <3>1, <3>3, Zenon
    <3>5. y = x + p
      BY <3>4
    <3> QED
      BY <3>3, <3>5, Zenon
  <2>6. ASSUME NEW j \in 1 .. Part(vs, d, i) PROVE r[e[i] + j] = Frame(vs[i])[j]
    <3>1. e[i] + j \in 1 .. Len(r)
      <4>1. \A x, y, p, l \in Nat : \A k \in 1 .. p : y = x + p /\ y <= l => x + k \in 1 .. l
        OBVIOUS
      <4>2. e[i] \in Nat /\ e[i + 1] \in Nat /\ e[i + 1] <= Len(r)
        BY <1>1, <2>4
      <4> QED
        BY <1>1, <2>3, <2>5, <4>1, <4>2, Zenon
    <3>2. c[i + 1] + j = m + (e[i] + j)
      BY <1>1, <1>11, <2>4
    <3> QED
      BY <1>1, <2>3, <3>1, <3>2
  <2> QED
    BY <2>3, <2>5, <2>6
<1>19. Cut(r, vs, d, e) /\ Len(vs) + 1 = n
  BY <1>4, <1>13, <1>16, <1>17, <1>18 DEF Cut
<1>20. vs = <<>> => d = 0
  BY <1>13, <1>14
<1>21. Split(r, vs, d)
  BY <1>16, <1>19, <1>20 DEF Split
<1> QED
  BY <1>4, <1>5, <1>11, <1>12, <1>14, <1>21 DEF F, vs

-----------------------------------------------------------------------------
(* The words in the buffer *)

\* In a buffer that holds the frame of w, w is the one known word that occurs.
LEMMA OccursIs ==
  ASSUME TypeOK, NEW w \in Phrases, Holds(w), NEW v \in Known
  PROVE  Occurs(v, buf) <=> v = w
<1> DEFINE F == FrameLength(w)
           N == Len(v)
<1>1. /\ w \in Seq(Letters \cup {"L"}) /\ Len(w) \in Nat /\ F = Len(w) + 4
      /\ F <= BufSize /\ BufSize \in Nat
  BY WordsAssumption, SizesAssumption DEF FrameLength
<1>2. v \in Phrases /\ v \in Seq(Letters \cup {"L"}) /\ N \in Nat /\ N >= 1
      /\ \A j \in 1 .. N : v[j] \in Letters \cup {"L"}
  <2>1. v \in Phrases /\ v \in Seq(Letters \cup {"L"}) /\ v # <<>>
    BY WordsAssumption DEF Phrases, None
  <2> QED
    BY <2>1
<1>3. buf \in Seq(Alphabet \cup {Zero}) /\ Len(buf) = BufSize
  BY <1>1 DEF TypeOK, Alphabet
<1>4. /\ buf[1] = "X" /\ buf[2] = "Z" /\ buf[F] = "Y" /\ buf[F - 1] = "L"
      /\ \A j \in 1 .. Len(w) : buf[j + 2] = w[j]
      /\ \A j \in F + 1 .. BufSize : buf[j] = Zero
  <2>1. /\ Frame(w)[1] = "X" /\ Frame(w)[2] = "Z" /\ Frame(w)[F] = "Y" /\ Frame(w)[F - 1] = "L"
        /\ \A j \in 1 .. Len(w) : Frame(w)[j + 2] = w[j]
    BY FrameIs
  <2>2. \A j \in 1 .. F : j \in 1 .. BufSize /\ buf[j] = Frame(w)[j]
    BY <1>1 DEF Holds
  <2>3. \A j \in F + 1 .. BufSize : buf[j] = Zero
    BY <1>1 DEF Holds
  <2> HIDE DEF F
  <2>4. 1 \in 1 .. F /\ 2 \in 1 .. F /\ F \in 1 .. F /\ F - 1 \in 1 .. F
        /\ \A j \in 1 .. Len(w) : j + 2 \in 1 .. F
    BY <1>1
  <2> QED
    BY <2>1, <2>2, <2>3, <2>4
<1>5. {"X", "Z", "Y", Zero} \cap (Letters \cup {"L"}) = {}
  BY WordsAssumption DEF Marks, Zero
<1> HIDE DEF F, N
<1>6. ASSUME v = w PROVE Occurs(v, buf)
  <2>1. 2 \in 0 .. Len(buf) - Len(v)
    BY <1>1, <1>3, <1>6
  <2>2. \A j \in 1 .. 2 : buf[j] # Zero
    BY <1>4 DEF Zero
  <2>3. SubSeq(buf, 2 + 1, 2 + Len(v)) = v
    <3>1. SubSeq(buf, 2 + 1, 2 + Len(w)) = [i \in 1 .. Len(w) |-> buf[i + 2]]
      <4>1. \A i \in 1 .. Len(w) : i + 2 = i + (2 + 1) - 1
        BY <1>1
      <4>2. /\ SubSeq(buf, 2 + 1, 2 + Len(w)) \in Seq(Alphabet \cup {Zero})
            /\ Len(SubSeq(buf, 2 + 1, 2 + Len(w))) = Len(w)
            /\ \A i \in 1 .. Len(w) : SubSeq(buf, 2 + 1, 2 + Len(w))[i] = buf[i + 2]
        BY <1>1, <1>3
      <4> DEFINE S == SubSeq(buf, 2 + 1, 2 + Len(w))
      <4>3. S = [i \in 1 .. Len(w) |-> S[i]]
        BY <4>2, LenProperties
      <4> HIDE DEF S
      <4>4. \A i \in 1 .. Len(w) : S[i] = buf[i + 2]
        BY <4>2 DEF S
      <4>5. S = [i \in 1 .. Len(w) |-> buf[i + 2]]
        BY <4>3, <4>4
      <4> QED
        BY <4>5 DEF S
    <3>2. w = [i \in 1 .. Len(w) |-> w[i]]
      BY <1>1, LenProperties
    <3> QED
      BY <1>4, <1>6, <3>1, <3>2
  <2> QED
    BY <2>1, <2>2, <2>3 DEF Occurs
<1>7. ASSUME Occurs(v, buf) PROVE v = w
  <2>1. PICK p \in 0 .. BufSize - N :
          /\ \A j \in 1 .. p : buf[j] # Zero
          /\ SubSeq(buf, p + 1, p + N) = v
    BY <1>3, <1>7 DEF Occurs, N
  <2>2. p \in Nat /\ p + N <= BufSize
    BY <1>1, <1>2, <2>1
  <2>3. \A i \in 1 .. N : buf[p + i] = v[i]
    <3>1. \A i \in 1 .. N : SubSeq(buf, p + 1, p + N)[i] = buf[p + i]
      BY <1>1, <1>2, <1>3, <2>2
    <3> QED
      BY <2>1, <3>1
  <2>4. \A i \in 1 .. N : p + i # 1 /\ p + i # 2 /\ p + i # F /\ ~(p + i > F)
    <3> SUFFICES ASSUME NEW i \in 1 .. N
                 PROVE  p + i # 1 /\ p + i # 2 /\ p + i # F /\ ~(p + i > F)
      OBVIOUS
    <3>1. buf[p + i] \in Letters \cup {"L"} /\ p + i \in 1 .. BufSize
      <4>1. buf[p + i] = v[i] /\ v[i] \in Letters \cup {"L"}
        BY <1>2, <2>3
      <4>2. p + i \in 1 .. BufSize
        BY <1>1, <1>2, <2>2
      <4> QED
        BY <4>1, <4>2, Zenon
    <3>2. p + i > F => p + i \in F + 1 .. BufSize
      BY <1>1, <3>1
    <3> QED
      BY <1>4, <1>5, <3>1, <3>2
  <2>5. p >= 2 /\ p + N <= F - 1
    <3>1. p # 0 /\ p # 1
      <4>1. 1 \in 1 .. N
        BY <1>2
      <4> QED
        BY <2>2, <2>4, <4>1
    <3>2. ~(p + N >= F)
      <4>1. N \in 1 .. N
        BY <1>2
      <4> QED
        BY <1>1, <1>2, <2>2, <2>4, <4>1
    <3> QED
      BY <1>1, <1>2, <2>2, <3>1, <3>2
  <2> DEFINE a == Append(w, "L")
             q == p - 2
  <2>6. /\ a \in Seq(Letters \cup {"L"}) /\ Len(a) = Len(w) + 1
        /\ \A j \in 1 .. Len(w) : a[j] = w[j]
        /\ a[Len(w) + 1] = "L"
    BY <1>1, AppendProperties
  <2>7. \A j \in 1 .. Len(w) + 1 : a[j] = buf[j + 2]
    <3> HIDE DEF a
    <3> SUFFICES ASSUME NEW j \in 1 .. Len(w) + 1 PROVE a[j] = buf[j + 2]
      OBVIOUS
    <3>1. CASE j = Len(w) + 1
      <4>1. j + 2 = F - 1
        BY <1>1, <3>1
      <4> QED
        BY <1>4, <2>6, <3>1, <4>1
    <3>2. CASE j # Len(w) + 1
      BY <1>1, <1>4, <2>6, <3>2
    <3> QED
      BY <3>1, <3>2
  <2> HIDE DEF a
  <2>8. q \in 0 .. Len(a) - N /\ q + 2 = p /\ q \in Nat /\ q + N <= Len(a) /\ Len(a) \in Nat
    BY <1>1, <1>2, <2>2, <2>5, <2>6
  <2> HIDE DEF q
  <2>9. \A j \in 1 .. q : a[j] # Zero
    <3> SUFFICES ASSUME NEW j \in 1 .. q PROVE a[j] # Zero
      OBVIOUS
    <3>1. j \in 1 .. Len(a)
      BY <1>2, <2>8
    <3>2. a[j] \in Letters \cup {"L"}
      BY <2>6, <3>1
    <3> QED
      BY <1>5, <3>2
  <2>10. SubSeq(a, q + 1, q + N) = v
    <3> DEFINE S == SubSeq(a, q + 1, q + N)
    <3>1. /\ S \in Seq(Letters \cup {"L"}) /\ Len(S) = N
          /\ \A i \in 1 .. N : S[i] = a[q + i]
      BY <1>2, <2>6, <2>8
    <3> HIDE DEF S
    <3>2. \A i \in 1 .. N : S[i] = v[i]
      <4> SUFFICES ASSUME NEW i \in 1 .. N PROVE S[i] = v[i]
        OBVIOUS
      <4>1. q + i \in 1 .. Len(w) + 1 /\ (q + i) + 2 = p + i
        BY <1>1, <1>2, <2>6, <2>8
      <4>2. a[q + i] = buf[p + i]
        BY <2>7, <4>1
      <4> QED
        BY <2>3, <3>1, <4>2
    <3>3. S = [i \in 1 .. N |-> S[i]] /\ v = [i \in 1 .. N |-> v[i]]
      BY <1>2, <3>1, LenProperties DEF N
    <3>4. S = v
      BY <3>2, <3>3
    <3> QED
      BY <3>4 DEF S
  <2>11. Occurs(v, a)
    BY <2>8, <2>9, <2>10 DEF Occurs, N
  <2> QED
    BY <2>11, WordsAssumption DEF a
<1> QED
  BY <1>6, <1>7

-----------------------------------------------------------------------------
(* The order of the words *)

\* What neither scans nor ends a command leaves the order of the words alone.
LEMMA OrderKept ==
  ASSUME OrderInv,
         UNCHANGED <<receive_buff, startReadFlag, startRead, stopReadFlag>>,
         UNCHANGED <<startProcess, pending, buf, index>>,
         dropped' = 0 => dropped = 0 /\ Stream' = Stream
  PROVE  OrderInv'
<1> SUFFICES ASSUME dropped' = 0
             PROVE  (\E d \in Nat : InFlight(d)' /\ Split(Stream', Waiting', d)) /\ BufInv'
  BY DEF OrderInv
<1>1. PICK d \in Nat : InFlight(d) /\ Split(Stream, Waiting, d)
  BY DEF OrderInv
<1>2. Waiting' = Waiting
  BY DEF Waiting
<1>3. InFlight(d)'
  BY <1>1, <1>2 DEF InFlight, Scanned
<1>4. BufInv'
  BY DEF OrderInv, BufInv, Holds
<1> QED
  BY <1>1, <1>2, <1>3, <1>4

LEMMA OrderReceive ==
  ASSUME TypeOK, ScanInv, CollectInv, OrderInv, Receive
  PROVE  OrderInv'
<1> SUFFICES ASSUME dropped' = 0
             PROVE  (\E d \in Nat : InFlight(d)' /\ Split(Stream', Waiting', d)) /\ BufInv'
  BY DEF OrderInv
<1>1. PICK w \in Phrases : receive_buff' = Frame(w) /\ pending' = Append(pending, w)
  BY DEF Receive
<1>2. /\ dropped = 0 /\ receive_buff = <<>> /\ Stream' = Stream
      /\ UNCHANGED <<startProcess, buf, index>>
  BY DEF Receive, Stream, Collected, collector
<1>3. PICK d \in Nat : InFlight(d) /\ Split(Stream, Waiting, d)
  BY <1>2 DEF OrderInv
<1>4. d = 0
  BY <1>2, <1>3, ScannedBytes DEF InFlight
<1>5. pending \in Seq(Phrases) /\ (startProcess = 1 => pending # <<>>)
  BY <1>2 DEF TypeOK, OrderInv, BufInv
<1>6. /\ Waiting \in Seq(Phrases) /\ Waiting' = Append(Waiting, w)
      /\ pending # <<>> => Head(pending') = Head(pending)
  <2>1. pending # <<>> => /\ Tail(pending) \in Seq(Phrases)
                          /\ Tail(Append(pending, w)) = Append(Tail(pending), w)
                          /\ Head(Append(pending, w)) = Head(pending)
    BY <1>5, AppendProperties, HeadTailProperties
  <2> QED
    BY <1>1, <1>2, <1>5, <2>1 DEF Waiting
<1>7. Stream \in Seq(Alphabet)
  BY <1>2, StreamIs
<1>8. Split(Stream, Append(Waiting, w), FrameLength(w))
  BY <1>3, <1>4, <1>6, <1>7, SplitReceive
<1>9. Split(Stream', Waiting', FrameLength(w)) /\ FrameLength(w) \in Nat
  BY <1>2, <1>6, <1>8, FrameIs
<1>10. InFlight(FrameLength(w))'
  <2>1. Scanned(w, 0)' /\ 0 \in 0 .. FrameLength(w) + Pad - 1 /\ FrameLength(w) = Missing(w, 0)
    BY <1>1, ReceiveStep DEF Missing
  <2>2. Waiting' # <<>> /\ Waiting'[Len(Waiting')] = w
    BY <1>6, AppendProperties
  <2> QED
    BY <2>1, <2>2 DEF InFlight
<1>11. BufInv'
  <2>1. BufInv
    BY <1>2 DEF OrderInv
  <2>2. pending' # <<>>
    BY <1>1, <1>5, AppendProperties
  <2> QED
    BY <1>2, <1>5, <1>6, <2>1, <2>2 DEF BufInv, Holds
<1> QED
  BY <1>9, <1>10, <1>11

\* A byte of the datagram of w continues the frame of the youngest word.
LEMMA OrderJudge ==
  ASSUME TypeOK, ScanInv, CollectInv, OrderInv, Judge
  PROVE  OrderInv'
<1> SUFFICES ASSUME dropped' = 0
             PROVE  (\E d \in Nat : InFlight(d)' /\ Split(Stream', Waiting', d)) /\ BufInv'
  BY DEF OrderInv
<1>1. dropped = 0 /\ receive_buff # <<>> /\ UNCHANGED <<startProcess, pending, buf, index>>
  BY DEF Judge, collector, received
<1>2. PICK d \in Nat : InFlight(d) /\ Split(Stream, Waiting, d)
  BY <1>1 DEF OrderInv
<1>3. PICK w \in Phrases : \E k \in 0 .. FrameLength(w) + Pad - 1 :
        /\ Scanned(w, k) /\ d = Missing(w, k)
        /\ d > 0 => Waiting # <<>> /\ Waiting[Len(Waiting)] = w
  BY <1>1, <1>2 DEF InFlight
<1>4. PICK k \in 0 .. FrameLength(w) + Pad - 1 :
        /\ Scanned(w, k) /\ d = Missing(w, k)
        /\ d > 0 => Waiting # <<>> /\ Waiting[Len(Waiting)] = w
  BY <1>3
<1> DEFINE F == FrameLength(w)
           b == Frame(w)[k + 1]
           ws == Waiting
<1>5. F \in Nat /\ F >= 5 /\ Pad \in Nat /\ Pad >= 1 /\ k \in 0 .. F + Pad - 1
      /\ Frame(w)[1] = "X" /\ Frame(w)[2] = "Z" /\ Frame(w)[F] = "Y"
  BY FrameIs, SizesAssumption
<1>6. /\ Scanned(w, k + 1)' /\ todo' \in Seq(Alphabet)
      /\ k = 0 => todo' = <<>>
      /\ k = 1 => todo' = <<"X">> \o <<"Z">>
      /\ 2 <= k /\ k < F - 1 => b \in Alphabet /\ todo' = <<b>>
      /\ k = F - 1 => todo' = <<"Y">>
      /\ k >= F => todo' = <<>>
      /\ k + 1 = F + Pad => receive_buff' = <<>>
  BY <1>4, JudgeStep
<1>7. Stream' = Stream \o todo' /\ Stream \in Seq(Alphabet)
  BY <1>1, <1>6, StreamJudge, StreamIs
<1>8. Waiting' = ws /\ ws \in Seq(Phrases)
  <2>1. pending \in Seq(Phrases) /\ (startProcess = 1 => pending # <<>>)
    BY <1>1 DEF TypeOK, OrderInv, BufInv
  <2>2. pending # <<>> => Tail(pending) \in Seq(Phrases)
    BY <2>1, HeadTailProperties
  <2> QED
    BY <1>1, <2>1, <2>2 DEF Waiting
<1>9. d > 0 => ws # <<>> /\ ws[Len(ws)] = w
  BY <1>4
<1>10. {"X", "Y", "Z"} \subseteq Alphabet
  BY DEF Alphabet, Marks
<1>11. d = IF k < 2 THEN F ELSE IF k < F THEN F - k ELSE 0
  BY <1>4 DEF Missing
<1> HIDE DEF F, b, ws
<1>12. Split(Stream', ws, Missing(w, k + 1)) /\ Missing(w, k + 1) \in Nat
  <2>1. CASE k = 0 \/ k >= F
    <3>1. Stream' = Stream
      BY <1>6, <1>7, <2>1
    <3>2. Missing(w, k + 1) = d
      BY <1>5, <1>11, <2>1 DEF Missing, F
    <3> QED
      BY <1>2, <3>1, <3>2 DEF ws
  <2>2. CASE k = 1
    <3>1. d = F /\ d > 0 /\ Missing(w, k + 1) = F - 2
      BY <1>5, <1>11, <2>2 DEF Missing, F
    <3>2. Stream' = (Stream \o <<"X">>) \o <<"Z">>
      <4>1. <<"X">> \in Seq(Alphabet) /\ <<"Z">> \in Seq(Alphabet)
        BY <1>10
      <4>2. (Stream \o <<"X">>) \o <<"Z">> = Stream \o (<<"X">> \o <<"Z">>)
        BY <1>7, <4>1, ConcatAssociative, SMTT(40)
      <4> QED
        BY <1>6, <1>7, <2>2, <4>2
    <3>3. ws[Len(ws)] = w /\ F - F + 1 = 1 /\ F - (F - 1) + 1 = 2
          /\ F - 1 \in Nat /\ F - 1 >= 1 /\ F >= 1 /\ (F - 1) - 1 = F - 2 /\ F - 2 \in Nat
      BY <1>5, <1>9, <3>1
    <3>4. Split(Stream, ws, F)
      BY <1>2, <3>1 DEF ws
    <3>5. "X" = Frame(ws[Len(ws)])[FrameLength(ws[Len(ws)]) - F + 1]
      BY <1>5, <3>3 DEF F
    <3>6. "Z" = Frame(ws[Len(ws)])[FrameLength(ws[Len(ws)]) - (F - 1) + 1]
      BY <1>5, <3>3 DEF F
    <3>7. Split(Stream \o <<"X">>, ws, F - 1)
      BY <1>5, <1>7, <1>8, <1>10, <3>3, <3>4, <3>5, SplitByte
    <3>8. Stream \o <<"X">> \in Seq(Alphabet)
      BY <1>7, <1>10
    <3>9. Split((Stream \o <<"X">>) \o <<"Z">>, ws, (F - 1) - 1)
      BY <1>8, <1>10, <3>3, <3>6, <3>7, <3>8, SplitByte
    <3> QED
      BY <3>1, <3>2, <3>3, <3>9
  <2>3. CASE 2 <= k /\ k < F
    <3>1. d = F - k /\ d > 0 /\ Missing(w, k + 1) = d - 1
      BY <1>5, <1>11, <2>3 DEF Missing, F
    <3>2. Stream' = Stream \o <<b>> /\ b \in Alphabet
      <4>1. CASE k = F - 1
        <5>1. b = "Y"
          BY <1>5, <4>1 DEF b
        <5> QED
          BY <1>6, <1>7, <1>10, <4>1, <5>1
      <4>2. CASE k # F - 1
        <5>1. 2 <= k /\ k < F - 1
          BY <1>5, <2>3, <4>2
        <5> QED
          BY <1>6, <1>7, <5>1
      <4> QED
        BY <4>1, <4>2
    <3>3. b = Frame(ws[Len(ws)])[FrameLength(ws[Len(ws)]) - d + 1]
      <4>1. F - d + 1 = k + 1
        BY <1>5, <3>1
      <4> QED
        BY <1>9, <3>1, <4>1 DEF F, b
    <3>4. Split(Stream, ws, d) /\ d >= 1 /\ d - 1 \in Nat
      BY <1>2, <3>1 DEF ws
    <3>5. Split(Stream \o <<b>>, ws, d - 1)
      BY <1>7, <1>8, <3>2, <3>3, <3>4, SplitByte
    <3> QED
      BY <3>1, <3>2, <3>4, <3>5
  <2> QED
    BY <1>5, <2>1, <2>2, <2>3
<1>13. InFlight(Missing(w, k + 1))'
  <2>1. CASE k + 1 = F + Pad
    BY <1>5, <1>6, <2>1 DEF InFlight, Missing, F
  <2>2. CASE k + 1 # F + Pad
    <3>1. k + 1 \in 0 .. F + Pad - 1
      BY <1>5, <2>2
    <3>2. Missing(w, k + 1) > 0 => d > 0
      BY <1>5, <1>11 DEF Missing, F
    <3> QED
      BY <1>6, <1>8, <1>9, <3>1, <3>2 DEF InFlight, F
  <2> QED
    BY <2>1, <2>2
<1>14. BufInv'
  BY <1>1 DEF OrderInv, BufInv, Holds
<1> QED
  BY <1>8, <1>12, <1>13, <1>14

\* A byte is collected; the one that ends a command takes the frame of the
\* oldest word out of the stream, into the buffer.
LEMMA OrderCollect ==
  ASSUME TypeOK, ScanInv, CollectInv, OrderInv, Collect
  PROVE  OrderInv'
<1> SUFFICES ASSUME dropped' = 0
             PROVE  (\E d \in Nat : InFlight(d)' /\ Split(Stream', Waiting', d)) /\ BufInv'
  BY DEF OrderInv
<1>1. /\ dropped = 0 /\ out # Nothing /\ Store(out) /\ startProcess = 0
      /\ UNCHANGED <<receive_buff, startReadFlag, startRead, stopReadFlag, pending>>
      /\ index \in Nat /\ BufSize \in Nat
  BY SizesAssumption DEF Collect, Fifo!Use, scanner, received, CollectInv, TypeOK
<1>2. PICK d \in Nat : InFlight(d) /\ Split(Stream, Waiting, d)
  BY <1>1 DEF OrderInv
<1>3. \A j \in index + 1 .. BufSize : buf[j] = Zero
  BY <1>1 DEF OrderInv, BufInv
<1>4. index < BufSize /\ (out = "Y" => index > 0 /\ buf[index] = "L")
  BY <1>1, IndexWithin
<1>5. Waiting = pending /\ pending \in Seq(Phrases)
  BY <1>1 DEF Waiting, TypeOK
<1>6. CASE out # "Y"
  <2>1. index' = index + 1 /\ startProcess' = 0
    BY <1>1, <1>6 DEF Collect
  <2>2. Stream' = Stream
    BY <1>1, <1>4, <2>1, StreamCollect
  <2>3. Waiting' = Waiting
    BY <1>1, <2>1 DEF Waiting
  <2>4. InFlight(d)'
    BY <1>1, <1>2, <2>3 DEF InFlight, Scanned
  <2>5. BufInv'
    <3>1. \A j \in index + 2 .. BufSize : buf'[j] = Zero
      BY <1>1, <1>3 DEF Store
    <3>2. \A j \in (index + 1) + 1 .. BufSize : buf'[j] = Zero
      BY <1>1, <3>1
    <3> QED
      BY <2>1, <3>2 DEF BufInv
  <2> QED
    BY <1>2, <2>2, <2>3, <2>4, <2>5
<1>7. CASE out = "Y"
  <2>1. startProcessFlag = 1
    BY <1>1, <1>4, <1>7 DEF CollectInv
  <2>2. index' = 0 /\ startProcess' = 1
    BY <1>7, <2>1 DEF Collect
  <2>3. /\ Stream' \in Seq(Alphabet) /\ Collected \in Seq(Alphabet)
        /\ Stream = Collected \o (<<"Y">> \o Stream')
    BY <1>1, <1>7, <2>2, StreamEnd
  <2>4. Len(Collected) = index /\ \A j \in 1 .. index : Collected[j] = buf[j] /\ buf[j] # "Y"
    <3>1. \A j \in 1 .. index : Collected[j] = buf[j]
      BY DEF Collected
    <3> QED
      BY <1>1, <3>1, StreamIs DEF CollectInv
  <2>5. PICK c0 \in Seq(Alphabet) : c0 = Collected
    BY <2>3
  <2>6. PICK r \in Seq(Alphabet) : r = Stream'
    BY <2>3
  <2>7. PICK ws \in Seq(Phrases) : ws = pending
    BY <1>5
  <2>8. Split(c0 \o (<<"Y">> \o r), ws, d) /\ \A j \in 1 .. Len(c0) : c0[j] # "Y"
    BY <1>2, <1>5, <2>3, <2>4, <2>5, <2>6, <2>7
  <2>9. /\ ws # <<>> /\ Len(c0) + 1 = FrameLength(ws[1])
        /\ \A j \in 1 .. Len(c0) : c0[j] = Frame(ws[1])[j]
        /\ Split(r, Tail(ws), d)
        /\ d > 0 => Tail(ws) # <<>> /\ Tail(ws)[Len(Tail(ws))] = ws[Len(ws)]
    BY <2>8, SplitFirst
  <2>10. Waiting' = Tail(pending)
    BY <1>1, <2>2 DEF Waiting
  <2>11. Split(Stream', Waiting', d)
    BY <2>6, <2>7, <2>9, <2>10
  <2>12. InFlight(d)'
    <3>1. d > 0 => Waiting' # <<>> /\ Waiting'[Len(Waiting')] = Waiting[Len(Waiting)]
      BY <1>5, <2>7, <2>9, <2>10
    <3> QED
      BY <1>1, <1>2, <3>1 DEF InFlight, Scanned
  <2>13. BufInv'
    <3> DEFINE w == Head(pending)
               F == FrameLength(w)
    <3>1. w = ws[1] /\ w \in Phrases /\ pending # <<>>
      BY <2>7, <2>9
    <3>2. F = index + 1 /\ Frame(w)[F] = "Y" /\ F \in Nat /\ F <= BufSize
      BY <1>1, <1>4, <2>4, <2>5, <2>9, <3>1, FrameIs
    <3>3. \A j \in 1 .. index : Frame(w)[j] = buf[j]
      BY <2>4, <2>5, <2>9, <3>1
    <3> HIDE DEF w, F
    <3>4. \A j \in 1 .. BufSize : buf'[j] = IF j <= F THEN Frame(w)[j] ELSE Zero
      <4> SUFFICES ASSUME NEW j \in 1 .. BufSize
                   PROVE  buf'[j] = IF j <= F THEN Frame(w)[j] ELSE Zero
        OBVIOUS
      <4>1. buf'[j] = IF j = index + 1 THEN out ELSE buf[j]
        BY <1>1 DEF Store, TypeOK
      <4>2. CASE j = index + 1
        BY <1>1, <1>7, <3>2, <4>1, <4>2
      <4>3. CASE j < index + 1
        <5>1. j \in 1 .. index
          BY <1>1, <4>3
        <5> QED
          BY <1>1, <3>2, <3>3, <4>1, <4>3, <5>1
      <4>4. CASE j > index + 1
        <5>1. j \in index + 1 .. BufSize
          BY <1>1, <4>4
        <5> QED
          BY <1>1, <1>3, <3>2, <4>1, <4>4, <5>1
      <4> QED
        BY <1>1, <4>2, <4>3, <4>4
    <3>5. Holds(w)'
      BY <1>1, <3>4 DEF Holds, F, w
    <3>6. pending' = pending
      BY <1>1
    <3> QED
      BY <2>2, <3>1, <3>5, <3>6 DEF BufInv, w
  <2> QED
    BY <2>11, <2>12, <2>13
<1> QED
  BY <1>6, <1>7

\* The word in the buffer is the oldest one; the command it is, or none, is sent.
LEMMA ProcessSends ==
  ASSUME TypeOK, OrderInv, Process, dropped = 0
  PROVE  /\ pending # <<>>
         /\ sent' = IF Head(pending) \in Known THEN Head(pending) ELSE None
<1> DEFINE w == Head(pending)
<1>1. startProcess = 1 /\ pending # <<>> /\ Holds(w)
  BY DEF Process, OrderInv, BufInv
<1>2. w \in Phrases
  BY <1>1, HeadTailProperties DEF TypeOK
<1> HIDE DEF w
<1>3. \A v \in Known : Occurs(v, buf) <=> v = w
  BY <1>1, <1>2, OccursIs
<1>4. ASSUME NEW n \in 1 .. Len(Words), First(n), sent' = Words[n]
      PROVE  sent' = IF w \in Known THEN w ELSE None
  <2>1. Words[n] \in Known /\ Occurs(Words[n], buf)
    BY <1>4 DEF First, Known
  <2>2. Words[n] = w
    BY <1>3, <2>1
  <2> QED
    BY <1>4, <2>1, <2>2
<1>5. ASSUME \A v \in Known : ~Occurs(v, buf), sent' = None
      PROVE  sent' = IF w \in Known THEN w ELSE None
  BY <1>3, <1>5
<1>6. sent' = IF w \in Known THEN w ELSE None
  BY <1>4, <1>5 DEF Process
<1> QED
  BY <1>1, <1>6 DEF w

LEMMA OrderProcess ==
  ASSUME TypeOK, CollectInv, OrderInv, Process
  PROVE  OrderInv'
<1> SUFFICES ASSUME dropped' = 0
             PROVE  (\E d \in Nat : InFlight(d)' /\ Split(Stream', Waiting', d)) /\ BufInv'
  BY DEF OrderInv
<1>1. /\ dropped = 0 /\ startProcess = 1 /\ startProcess' = 0 /\ buf' = Blank
      /\ index = 0 /\ index' = 0
      /\ UNCHANGED <<receive_buff, startReadFlag, startRead, stopReadFlag, todo, in, queue, out>>
  BY DEF Process, scanner, CollectInv
<1>2. PICK d \in Nat : InFlight(d) /\ Split(Stream, Waiting, d)
  BY <1>1 DEF OrderInv
<1>3. pending # <<>>
  BY <1>1 DEF OrderInv, BufInv
<1>4. Waiting' = Waiting
  BY <1>1, <1>3 DEF Waiting, Process
<1>5. Stream' = Stream
  <2>1. Collected = <<>> /\ Collected' = <<>>
    BY <1>1 DEF Collected
  <2> QED
    BY <1>1, <2>1 DEF Stream
<1>6. InFlight(d)'
  BY <1>1, <1>2, <1>4 DEF InFlight, Scanned
<1>7. BufInv'
  BY <1>1 DEF BufInv, Blank
<1> QED
  BY <1>2, <1>4, <1>5, <1>6, <1>7

LEMMA InitOrder == Init => OrderInv
<1> SUFFICES ASSUME Init PROVE OrderInv
  OBVIOUS
<1>1. Stream = <<>>
  <2>1. Collected = <<>> /\ Opt(out) = <<>> /\ Opt(in) = <<>> /\ queue = <<>> /\ todo = <<>>
    BY DEF Init, Fifo!Init, Collected, Opt
  <2> QED
    BY <2>1 DEF Stream
<1>2. Waiting = <<>> /\ InFlight(0)
  BY DEF Init, Waiting, InFlight
<1>3. Split(<<>>, <<>>, 0)
  <2> DEFINE c == [i \in 1 .. Len(<<>>) + 1 |-> 0]
  <2>1. Len(<<>>) = 0
    OBVIOUS
  <2>2. c \in [1 .. Len(<<>>) + 1 -> 0 .. Len(<<>>)] /\ \A i \in 1 .. 1 : c[i] = 0
    BY <2>1
  <2> HIDE DEF c
  <2>3. Cut(<<>>, <<>>, 0, c)
    BY <2>1, <2>2 DEF Cut
  <2> QED
    BY <2>2, <2>3 DEF Split
<1>4. BufInv
  BY SizesAssumption DEF Init, BufInv, Blank
<1> QED
  BY <1>1, <1>2, <1>3, <1>4 DEF OrderInv

LEMMA NextOrder == IInv /\ OrderInv /\ [Next]_vars => OrderInv'
<1> SUFFICES ASSUME IInv, OrderInv, [Next]_vars PROVE OrderInv'
  OBVIOUS
<1> USE DEF IInv, scanner, collector, received
<1>1. CASE Receive
  BY <1>1, OrderReceive
<1>2. CASE Judge
  BY <1>2, OrderJudge
<1>3. CASE CallEnqueue
  <2>1. dropped' = 0 => dropped = 0 /\ Stream' = Stream
    BY <1>3, StreamCall DEF CallEnqueue
  <2> QED
    BY <1>3, <2>1, OrderKept DEF CallEnqueue
<1>4. CASE Enqueue
  <2>1. dropped' = 0 => dropped = 0 /\ Stream' = Stream
    BY <1>4, StreamPut DEF Enqueue
  <2> QED
    BY <1>4, <2>1, OrderKept DEF Enqueue
<1>5. CASE Dequeue
  <2>1. dropped' = 0 => dropped = 0 /\ Stream' = Stream
    BY <1>5, StreamTake DEF Dequeue
  <2> QED
    BY <1>5, <2>1, OrderKept DEF Dequeue
<1>6. CASE Collect
  BY <1>6, OrderCollect
<1>7. CASE Process
  BY <1>7, OrderProcess
<1>8. CASE Overrun
  BY <1>8, NoOverrun DEF Overrun, OrderInv
<1>9. CASE UNCHANGED vars
  <2>1. Stream' = Stream
    BY <1>9 DEF vars, Stream, Collected
  <2> QED
    BY <1>9, <2>1, OrderKept DEF vars
<1> QED
  BY <1>1, <1>2, <1>3, <1>4, <1>5, <1>6, <1>7, <1>8, <1>9
  DEF Next, Scan, PhoneCommand_Process

-----------------------------------------------------------------------------
(* The theorems *)

LEMMA NextIInv == IInv /\ [Next]_vars => IInv'
  BY NextType, NextCollect, NextScan DEF IInv

\* The inductive invariant.
THEOREM Invariance == SafeSpec => []IInv
  BY InitInv, NextIInv, PTL DEF SafeSpec

\* The variables keep their types: the zero bytes that pad a datagram are
\* scanned and never queued, since its closing mark ends the reading.
THEOREM TypeCorrect == SafeSpec => []TypeOK
<1>1. IInv => TypeOK
  BY DEF IInv
<1> QED
  BY <1>1, Invariance, PTL

\* Nothing is stored behind the collecting buffer as long as the byte queue has
\* dropped nothing.
THEOREM BufferIsEnough == SafeSpec => []BufferSuffices
<1>1. IInv => BufferSuffices
  BY DEF IInv, TypeOK, CollectInv, BufferSuffices
<1> QED
  BY <1>1, Invariance, PTL
\* The words whose frames make up the stream are the received ones, in order.
THEOREM OrderInvariance == SafeSpec => []OrderInv
<1>1. OrderInv /\ IInv /\ [Next]_vars => OrderInv'
  BY NextOrder
<1> QED
  BY <1>1, InitOrder, Invariance, PTL DEF SafeSpec

\* As long as the byte queue has dropped nothing, each command is the oldest
\* word that was received and has not been processed; an unknown one sends none.
THEOREM CommandsInOrder == SafeSpec => SentInOrder
<1> DEFINE Right == /\ pending # <<>>
                    /\ sent' = IF Head(pending) \in Known THEN Head(pending) ELSE None
<1>1. ASSUME IInv, OrderInv, [Next]_vars, startProcess = 1, startProcess' = 0, dropped = 0
      PROVE  Right
  <2>1. CASE Process
    BY <1>1, <2>1, ProcessSends DEF IInv
  <2>2. CASE Collect
    BY <1>1, <2>2 DEF Collect, Fifo!Use, IInv, CollectInv
  <2>3. CASE Receive \/ Judge \/ CallEnqueue \/ Enqueue \/ Dequeue \/ Overrun \/ UNCHANGED vars
    BY <1>1, <2>3 DEF Receive, Judge, CallEnqueue, Enqueue, Dequeue, Overrun, vars, collector
  <2> QED
    BY <1>1, <2>1, <2>2, <2>3 DEF Next, Scan, PhoneCommand_Process
<1>2. IInv /\ OrderInv /\ [Next]_vars => [startProcess = 1 /\ startProcess' = 0 /\ dropped = 0 => Right]_vars
  BY <1>1
<1> QED
  BY <1>2, Invariance, OrderInvariance, PTL DEF SafeSpec, SentInOrder
=============================================================================
