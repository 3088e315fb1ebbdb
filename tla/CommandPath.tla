----------------------------- MODULE CommandPath -----------------------------
(***************************************************************************)
(* The way of a phone command over the host: a datagram XZ...LY, padded     *)
(* with zero bytes, is scanned byte by byte by judgeIsIphoneSendCommond;    *)
(* what lies between the marks goes into the byte queue; the phone command  *)
(* thread collects the bytes, recognises the closing LY a second time, and  *)
(* looks for the known words in what it has collected.                      *)
(*                                                                          *)
(* Four flags, two on each side, and a buffer that is cleared after use are *)
(* all the state that separates one command from the next.                  *)
(*                                                                          *)
(* Abstractions: the byte queue is the abstract ByteFifo that PhoneQueue    *)
(* implements (with the source's order of stores); a word is a sequence of  *)
(* letters, of which L and Y, X, Z are told apart because the scanners do;  *)
(* sending the command to the DSP is the value of sent; datagrams are       *)
(* well-formed, may be lost, repeated and reordered before they arrive, and *)
(* arrive only while fewer than Window of them are unprocessed (nothing in  *)
(* the code makes the phone wait).                                          *)
(*                                                                          *)
(* The index of the collecting buffer is not checked.  A byte stored behind *)
(* the buffer is undefined behaviour that the model does not follow: it     *)
(* ends there, with overrun = 1, and says nothing of what comes after.      *)
(***************************************************************************)
EXTENDS Integers, Sequences

CONSTANTS Words,     \* the known words, in the order in which they are tried
          Unknown,   \* other words the phone may send
          Letters,   \* the letters of the words other than L
          Pad,       \* zero bytes after LY: 256 bytes are scanned in the code
          Cap,       \* bytes the queue holds, 2047 in the code
          BufSize,   \* size of IPHONE_COMMOND_BUF, 256 in the code
          Window     \* bound: datagrams received and not processed

Marks == {"X", "Z", "L", "Y"}
Zero == "0"
Nothing == "none"
None == <<>>

Known == {Words[n] : n \in 1 .. Len(Words)}
Phrases == Known \cup Unknown
FrameLength(w) == Len(w) + 4

\* strstr: w occurs in s before its first zero.
Occurs(w, s) == \E p \in 0 .. Len(s) - Len(w) :
                   /\ \A j \in 1 .. p : s[j] # Zero
                   /\ SubSeq(s, p + 1, p + Len(w)) = w

\* The words contain no X, Y, Z, and no word contains another known one, not
\* even with the L of the closing mark: RATE would be taken for RATEL.
WordsFit ==
  /\ Letters \cap (Marks \cup {Zero, Nothing}) = {}
  /\ \A w \in Phrases : w # None /\ w \in Seq(Letters \cup {"L"})
  /\ \A v \in Known, w \in Phrases : v # w => ~Occurs(v, Append(w, "L"))

\* The queue and the collecting buffer hold the longest command.
SizesFit ==
  /\ Pad \in Nat \ {0} /\ Cap \in Nat /\ BufSize \in Nat /\ Window \in Nat \ {0}
  /\ \A w \in Phrases : FrameLength(w) <= Cap /\ FrameLength(w) <= BufSize

ASSUME WordsAssumption == WordsFit
ASSUME SizesAssumption == SizesFit

VARIABLES
  receive_buff,     \* Udp_Receive: the bytes still to be scanned
  startReadFlag, startRead, stopReadFlag,   \* startReadWifiCommondData(Flag) ...
  todo,             \* bytes the scanner is about to enqueue
  in, queue, out,   \* the byte queue
  startProcess, startProcessFlag,           \* startProcessWifiCommondData(Flag)
  buf, index,       \* IPHONE_COMMOND_BUF and its index
  overrun,          \* 1 once a byte was stored behind the buffer
  sent,             \* the last command handed to Controler_send_cmd
  pending,          \* received words that have not been processed, oldest first
  dropped           \* history: 1 once a byte found the queue full

scanner == <<receive_buff, startReadFlag, startRead, stopReadFlag, todo>>
collector == <<startProcess, startProcessFlag, buf, index, overrun, sent>>
received == <<pending, dropped>>
vars == <<scanner, in, queue, out, collector, received>>

Fifo == INSTANCE ByteFifo WITH Bytes <- Letters \cup Marks, NoByte <- Nothing

Blank == [j \in 1 .. BufSize |-> Zero]

Init == /\ receive_buff = <<>> /\ todo = <<>>
        /\ startReadFlag = 0 /\ startRead = 0 /\ stopReadFlag = 0
        /\ Fifo!Init
        /\ startProcess = 0 /\ startProcessFlag = 0
        /\ buf = Blank /\ index = 0 /\ overrun = 0
        /\ sent = None
        /\ pending = <<>> /\ dropped = 0

-----------------------------------------------------------------------------
(* wifi_receiver_thread *)

Frame(w) == <<"X", "Z">> \o w \o <<"L", "Y">> \o [j \in 1 .. Pad |-> Zero]

\* recvfrom returns a datagram.
Receive == /\ receive_buff = <<>> /\ todo = <<>> /\ in = Nothing
           /\ Len(pending) < Window
           /\ \E w \in Phrases : /\ receive_buff' = Frame(w)
                                 /\ pending' = Append(pending, w)
           /\ UNCHANGED <<startReadFlag, startRead, stopReadFlag, todo, in, queue, out,
                          collector, dropped>>

\* Faulty variant: the closing mark is enqueued, but reading does not stop.
JudgeGoesOn ==
  /\ receive_buff # <<>> /\ todo = <<>> /\ in = Nothing
  /\ LET b == Head(receive_buff)
         opens == b = "Z" /\ startReadFlag = 1
         closes == b = "Y" /\ stopReadFlag = 1
     IN /\ startReadFlag' = IF b = "X" THEN 1 ELSE IF opens THEN startReadFlag ELSE 0
        /\ stopReadFlag' = IF b = "L" THEN 1 ELSE IF closes THEN stopReadFlag ELSE 0
        /\ startRead' = IF opens THEN 1 ELSE startRead
        /\ todo' = (IF opens THEN <<"X">> ELSE <<>>)
                   \o (IF startRead' = 1 THEN <<b>> ELSE <<>>)
  /\ receive_buff' = Tail(receive_buff)
  /\ UNCHANGED <<in, queue, out, collector, received>>

\* judgeIsIphoneSendCommond for one byte: the flags first, then what it enqueues.
Judge ==
  /\ receive_buff # <<>> /\ todo = <<>> /\ in = Nothing
  /\ LET b == Head(receive_buff)
         opens == b = "Z" /\ startReadFlag = 1
         closes == b = "Y" /\ stopReadFlag = 1
     IN /\ startReadFlag' = IF b = "X" THEN 1 ELSE IF opens THEN startReadFlag ELSE 0
        /\ stopReadFlag' = IF b = "L" THEN 1 ELSE IF closes THEN stopReadFlag ELSE 0
        /\ startRead' = IF closes THEN 0 ELSE IF opens THEN 1 ELSE startRead
        /\ todo' = (IF opens THEN <<"X">> ELSE <<>>)
                   \o (IF closes THEN <<"Y">> ELSE <<>>)
                   \o (IF startRead' = 1 THEN <<b>> ELSE <<>>)
  /\ receive_buff' = Tail(receive_buff)
  /\ UNCHANGED <<in, queue, out, collector, received>>

\* PhoneCommand_rx_enqueue is called with the next of them ...
CallEnqueue == /\ todo # <<>>
               /\ Fifo!Offer(Head(todo))
               /\ todo' = Tail(todo)
               /\ UNCHANGED <<receive_buff, startReadFlag, startRead, stopReadFlag,
                              collector, received>>

\* ... and queues it, or drops it when the queue is full.
Enqueue == /\ \/ Fifo!Put /\ UNCHANGED dropped
              \/ Fifo!Drop /\ dropped' = 1
           /\ UNCHANGED <<scanner, collector, pending>>

Scan == Judge \/ CallEnqueue \/ Enqueue

-----------------------------------------------------------------------------
(* phone_command_process_thread *)

Dequeue == /\ startProcess = 0
           /\ Fifo!Take
           /\ UNCHANGED <<scanner, collector, received>>

Store(b) == /\ index < BufSize
            /\ buf' = [buf EXCEPT ![index + 1] = b]

\* Faulty variant: the index is not reset at the end of a command.
CollectGoesOn ==
  /\ Fifo!Use
  /\ Store(out)
  /\ index' = index + 1
  /\ \/ /\ out = "L"
        /\ startProcessFlag' = 1
        /\ UNCHANGED startProcess
     \/ /\ out = "Y" /\ startProcessFlag = 1
        /\ startProcess' = 1
        /\ UNCHANGED startProcessFlag
     \/ /\ out # "L" /\ ~(out = "Y" /\ startProcessFlag = 1)
        /\ startProcessFlag' = 0
        /\ startProcess' = 0
  /\ UNCHANGED <<scanner, overrun, sent, received>>

\* Faulty variant: a second L in a row takes the flag back.
CollectToggles ==
  /\ Fifo!Use
  /\ Store(out)
  /\ \/ /\ out = "L"
        /\ startProcessFlag' = 1 - startProcessFlag
        /\ index' = index + 1
        /\ UNCHANGED startProcess
     \/ /\ out = "Y" /\ startProcessFlag = 1
        /\ startProcess' = 1
        /\ index' = 0
        /\ UNCHANGED startProcessFlag
     \/ /\ out # "L" /\ ~(out = "Y" /\ startProcessFlag = 1)
        /\ startProcessFlag' = 0
        /\ startProcess' = 0
        /\ index' = index + 1
  /\ UNCHANGED <<scanner, overrun, sent, received>>

\* The byte is stored; L raises the flag, Y after it ends the command, and any
\* other byte clears both flags.
Collect ==
  /\ Fifo!Use
  /\ Store(out)
  /\ \/ /\ out = "L"
        /\ startProcessFlag' = 1
        /\ index' = index + 1
        /\ UNCHANGED startProcess
     \/ /\ out = "Y" /\ startProcessFlag = 1
        /\ startProcess' = 1
        /\ index' = 0
        /\ UNCHANGED startProcessFlag
     \/ /\ out # "L" /\ ~(out = "Y" /\ startProcessFlag = 1)
        /\ startProcessFlag' = 0
        /\ startProcess' = 0
        /\ index' = index + 1
  /\ UNCHANGED <<scanner, overrun, sent, received>>

\* Nothing checks the index.  Behind the buffer lies the index itself, whose own
\* increment is not ordered with the store of the byte, and behind it the heap:
\* what the byte becomes is undefined.
Overrun == /\ Fifo!Use
           /\ index >= BufSize
           /\ overrun' = 1
           /\ UNCHANGED <<scanner, startProcess, startProcessFlag, buf, index, sent,
                          received>>

\* The chain of tests: the first known word that occurs.
First(n) == Occurs(Words[n], buf) /\ \A m \in 1 .. n-1 : ~Occurs(Words[m], buf)

\* The command is looked up and sent, and the buffer is cleared.
Process == /\ startProcess = 1
           /\ \/ \E n \in 1 .. Len(Words) : First(n) /\ sent' = Words[n]
              \/ (\A w \in Known : ~Occurs(w, buf)) /\ sent' = None
           /\ startProcess' = 0
           /\ buf' = Blank
           /\ pending' = IF pending = <<>> THEN <<>> ELSE Tail(pending)
           /\ UNCHANGED <<scanner, in, queue, out, startProcessFlag, index, overrun,
                          dropped>>

PhoneCommand_Process == Dequeue \/ Collect \/ Overrun \/ Process

-----------------------------------------------------------------------------
\* The model ends with the first store behind the buffer.
Defined == overrun = 0

Next == Defined /\ (Receive \/ Scan \/ PhoneCommand_Process)

\* Both are SCHED_OTHER threads; the second one polls.
Fairness == WF_vars(Defined /\ Scan) /\ WF_vars(Defined /\ PhoneCommand_Process)

SafeSpec == Init /\ [][Next]_vars
Spec == SafeSpec /\ Fairness

-----------------------------------------------------------------------------
(* Properties *)

\* The padding of a datagram is scanned, and never queued.
TypeOK ==
  /\ receive_buff \in Seq(Letters \cup Marks \cup {Zero})
  /\ {startReadFlag, startRead, stopReadFlag} \subseteq {0, 1}
  /\ {startProcess, startProcessFlag} \subseteq {0, 1}
  /\ todo \in Seq(Letters \cup Marks) /\ queue \in Seq(Letters \cup Marks)
  /\ in \in Letters \cup Marks \cup {Nothing} /\ out \in Letters \cup Marks \cup {Nothing}
  /\ buf \in [1 .. BufSize -> Letters \cup Marks \cup {Zero}]
  /\ index \in 0 .. BufSize /\ overrun \in {0, 1}
  /\ sent \in Known \cup {None} /\ pending \in Seq(Phrases) /\ dropped \in {0, 1}

\* As long as the queue has held all the bytes, every command sent to the DSP is
\* the oldest received one that has not been sent: none is invented, merged with
\* its neighbour, repeated or overtaken.  An unknown word sends nothing.
SentInOrder ==
  [][(startProcess = 1 /\ startProcess' = 0 /\ dropped = 0) =>
        /\ pending # <<>>
        /\ sent' = IF Head(pending) \in Known THEN Head(pending) ELSE None]_vars

\* As long as the queue has held all the bytes, nothing is stored behind the
\* collecting buffer, though its index is not checked (phone_command.c 113).
BufferSuffices == overrun = 1 => dropped = 1

\* Every command that was received is sent in the end, or a byte was dropped.
EveryCommandSent == pending # <<>> ~> startProcess = 1 \/ dropped = 1

\* The byte queue is empty and a datagram has come.
FindsEmpty(w) == queue = <<>> /\ in = Nothing /\ out = Nothing /\ receive_buff = Frame(w)

\* Bytes that were dropped do not wedge the path.  A datagram that finds the queue
\* empty is recognised as a command, though the bytes of a cut one before it are
\* still in the buffer, if it fits behind them; and if none are, the word itself
\* is sent, whatever was lost before and however the flags were left.
Recovers ==
  /\ \A w \in Phrases :
       (FindsEmpty(w) /\ index + FrameLength(w) <= BufSize) ~> startProcess = 1
  /\ \A w \in Known :
       (FindsEmpty(w) /\ index = 0 /\ startProcess = 0) ~> sent = w
=============================================================================
