--------------------------- MODULE PhonePath_proofs ---------------------------
(***************************************************************************)
(* First, proofs about PhoneQueue, for every number of cells and every set  *)
(* of bytes.  With either order of the two stores the queue is type         *)
(* correct.  With the source's order the two threads never touch the same   *)
(* cell, only pushed bytes are popped, and the queue implements the safety  *)
(* part of ByteFifo.                                                        *)
(*                                                                          *)
(* Then, proofs about its composition with the scanner and the collector:   *)
(* the composition implements the safety part of CommandPath, so that what  *)
(* is proved of the commands there holds over this queue.  The queue needs  *)
(* that only bytes of commands are pushed, which is an invariant of         *)
(* CommandPath; that needs a FIFO, which the queue is under its invariant.  *)
(* So the two invariants are carried together.                              *)
(***************************************************************************)
EXTENDS PhonePath, SequenceTheorems, TLAPS

\* The order of the stores in the source.
SourceOrder == RearFirst = FALSE

\* The cells from front to the one before rear, around the end of the array.
InQueue(c) == IF front <= rear THEN front <= c /\ c < rear
                               ELSE front <= c \/ c < rear

\* What the pusher knows after its test: rear is as it read it, except after the
\* early store of rear; the queue was not full, and is not since front only
\* comes closer.
PushInv ==
  /\ ppc = "idle" => x = NoByte
  /\ ppc # "idle" => x \in Bytes
  /\ ppc \in {"store", "rear"} =>
       \/ cell = rear /\ front # Succ(rear)
       \/ RearFirst = TRUE /\ ppc = "store" /\ rear = Succ(cell)

\* What the popper knows after its test: the queue is not empty.
PopInv == cpc \in {"load", "front"} => front # rear

\* With the source's order every cell in the queue holds a pushed byte, the
\* one about to be queued too, and temp is the oldest of them.
ContentInv ==
  /\ \A c \in Cells : InQueue(c) => uart_buff[c] \in Bytes
  /\ ppc = "rear" => uart_buff[cell] = x
  /\ cpc = "front" => temp = uart_buff[front]
  /\ cpc = "return" => temp \in Bytes
  /\ cpc \in {"test", "load"} => temp = NoByte

IndexInv == TypeOK /\ PushInv /\ PopInv
IInv == IndexInv /\ ContentInv

-----------------------------------------------------------------------------
(* Arithmetic of the indices *)

\* The remainder by N of what sums and differences of two indices can be.
LEMMA Remainder ==
  ASSUME NEW a \in Int, -N < a, a < 2 * N
  PROVE  a % N = IF a < 0 THEN a + N ELSE IF a < N THEN a ELSE a - N
  BY NAssumption

\* The cell after the last one is the first one.
LEMMA SuccIs ==
  ASSUME NEW c \in Cells
  PROVE  Succ(c) = (IF c = N - 1 THEN 0 ELSE c + 1) /\ Succ(c) \in Cells
<1>1. c + 1 \in Int /\ -N < c + 1 /\ c + 1 < 2 * N
  BY NAssumption DEF Cells
<1>2. (c + 1) % N = IF c + 1 < N THEN c + 1 ELSE c + 1 - N
  BY <1>1, Remainder, NAssumption DEF Cells
<1> QED
  BY <1>2, NAssumption DEF Succ, Cells

-----------------------------------------------------------------------------
(* The indices, with either order of the stores *)

LEMMA InitIndex == Init => IndexInv
  BY NAssumption DEF Init, IndexInv, TypeOK, PushInv, PopInv, Cells

LEMMA NextIndex == IndexInv /\ [Next]_vars => IndexInv'
<1> SUFFICES ASSUME IndexInv, [Next]_vars PROVE IndexInv'
  OBVIOUS
<1> USE NAssumption DEF IndexInv, fields, pusher, popper
<1> DEFINE S == Succ(rear)
           C == Succ(cell)
           F == Succ(front)
<1>0. /\ S = (IF rear = N - 1 THEN 0 ELSE rear + 1) /\ S \in Cells
      /\ C = (IF cell = N - 1 THEN 0 ELSE cell + 1) /\ C \in Cells
      /\ F = (IF front = N - 1 THEN 0 ELSE front + 1) /\ F \in Cells
  BY SuccIs DEF TypeOK
<1>1. ASSUME NEW b \in Bytes, Call(b) PROVE IndexInv'
  BY <1>1 DEF Call, TypeOK, PushInv, PopInv, Succ
<1>2. CASE TestFull
  <2>1. CASE front = Succ(rear)
    BY <1>2, <2>1 DEF TestFull, TypeOK, PushInv, PopInv
  <2>2. CASE front # Succ(rear)
    BY <1>2, <2>2 DEF TestFull, TypeOK, PushInv, PopInv, Succ
  <2> QED
    BY <2>1, <2>2
<1>3. CASE StoreByte
  <2>1. TypeOK'
    BY <1>3, OrderAssumption DEF StoreByte, TypeOK, PushInv
  <2>2. PushInv' /\ PopInv'
    BY <1>3, OrderAssumption DEF StoreByte, TypeOK, PushInv, PopInv, Succ
  <2> QED
    BY <2>1, <2>2
<1>4. CASE StoreRear
  <2>1. cell = rear /\ front # S /\ x \in Bytes
    BY <1>4 DEF StoreRear, PushInv
  <2>2. rear' = C /\ UNCHANGED <<front, uart_buff, cell, popper>>
    BY <1>4 DEF StoreRear
  <2>3. TypeOK'
    BY <1>4, <2>2, <1>0, OrderAssumption DEF StoreRear, TypeOK
  <2>4. PopInv'
    BY <2>1, <2>2 DEF PopInv
  <2>5. PushInv'
    BY <1>4, <2>1, <2>2, OrderAssumption DEF StoreRear, PushInv, Succ
  <2> QED
    BY <2>3, <2>4, <2>5
<1>5. CASE TestEmpty \/ LoadByte \/ Return
  <2>1. PushInv' /\ PopInv'
    BY <1>5 DEF TestEmpty, LoadByte, Return, PushInv, PopInv, Succ
  <2>2. TypeOK'
    BY <1>5 DEF TestEmpty, LoadByte, Return, TypeOK
  <2> QED
    BY <2>1, <2>2
<1>6. CASE StoreFront
  <2>1. front # rear /\ front' = F /\ cpc' = "return" /\ UNCHANGED <<rear, uart_buff, pusher, temp>>
    BY <1>6 DEF StoreFront, PopInv
  <2>2. TypeOK'
    BY <2>1, <1>0 DEF TypeOK
  <2>3. F # S
    BY <2>1, <1>0 DEF TypeOK, Cells
  <2>4. Succ(rear') = S /\ Succ(cell') = C
    BY <2>1 DEF Succ
  <2>5. PushInv' /\ PopInv'
    BY <2>1, <2>3, <2>4 DEF PushInv, PopInv
  <2> QED
    BY <2>2, <2>5
<1>7. CASE UNCHANGED vars
  BY <1>7 DEF vars, TypeOK, PushInv, PopInv, Succ
<1> QED
  BY <1>1, <1>2, <1>3, <1>4, <1>5, <1>6, <1>7 DEF Next, Push, Pop

LEMMA IndexInvariance == SafeSpec => []IndexInv
  BY InitIndex, NextIndex, PTL DEF SafeSpec

\* Every index stays within the array and every variable has its type, whatever
\* the order of the stores.
THEOREM TypeCorrect == SafeSpec => []TypeOK
<1>1. IndexInv => TypeOK
  BY DEF IndexInv
<1> QED
  BY <1>1, IndexInvariance, PTL

\* With the source's order the cell that is being popped is not the one that is
\* being written: the early store of rear is what would let the popper in.
THEOREM CellsNotShared ==
  ASSUME SourceOrder
  PROVE  SafeSpec => []NoSharedCell
<1>1. IndexInv => NoSharedCell
  BY DEF SourceOrder, IndexInv, PushInv, PopInv, NoSharedCell
<1> QED
  BY <1>1, IndexInvariance, PTL

-----------------------------------------------------------------------------
(* The contents, with the source's order *)

LEMMA InitContent == Init => ContentInv
  BY NAssumption DEF Init, ContentInv, InQueue, Cells

LEMMA NextContent ==
  SourceOrder /\ IndexInv /\ ContentInv /\ [Next]_vars => ContentInv'
<1> SUFFICES ASSUME SourceOrder, IndexInv, ContentInv, [Next]_vars PROVE ContentInv'
  OBVIOUS
<1> USE NAssumption DEF IndexInv, fields, pusher, popper, SourceOrder
<1> DEFINE S == Succ(rear)
           F == Succ(front)
<1>0. /\ S = (IF rear = N - 1 THEN 0 ELSE rear + 1) /\ S \in Cells
      /\ F = (IF front = N - 1 THEN 0 ELSE front + 1) /\ F \in Cells
  BY SuccIs DEF TypeOK
<1>1. ASSUME NEW b \in Bytes, Call(b) PROVE ContentInv'
  BY <1>1 DEF Call, ContentInv, InQueue
<1>2. CASE TestFull
  BY <1>2 DEF TestFull, ContentInv, InQueue
<1>3. CASE StoreByte
  <2>1. cell = rear /\ x \in Bytes
    BY <1>3 DEF StoreByte, PushInv
  <2>2. uart_buff' = [uart_buff EXCEPT ![rear] = x] /\ ppc' = "rear" /\ x' = x
        /\ UNCHANGED <<front, rear, cell, cpc, temp>>
    BY <1>3, <2>1 DEF StoreByte
  <2>3. \A c \in Cells : InQueue(c)' <=> InQueue(c)
    BY <2>2 DEF InQueue
  <2>4. \A c \in Cells : InQueue(c) => c # rear
    BY DEF InQueue, TypeOK, Cells
  <2>5. cpc = "front" => front # rear
    BY DEF PopInv
  <2>6. \A c \in Cells : uart_buff'[c] = IF c = rear THEN x ELSE uart_buff[c]
    BY <2>2 DEF TypeOK
  <2>7. \A c \in Cells : InQueue(c)' => uart_buff'[c] \in Bytes
    BY <2>3, <2>4, <2>6 DEF ContentInv
  <2>8. uart_buff'[cell'] = x'
    BY <2>1, <2>2, <2>6 DEF TypeOK
  <2> QED
    BY <2>2, <2>5, <2>6, <2>7, <2>8 DEF ContentInv, TypeOK
<1>4. CASE StoreRear
  <2>1. cell = rear /\ front # S /\ x \in Bytes /\ uart_buff[rear] = x
    BY <1>4 DEF StoreRear, PushInv, ContentInv
  <2>2. rear' = S /\ ppc' = "idle" /\ UNCHANGED <<front, uart_buff, cell, cpc, temp>>
    BY <1>4, <2>1 DEF StoreRear
  <2>3. \A c \in Cells : InQueue(c)' => InQueue(c) \/ c = rear
    BY <2>1, <2>2, <1>0 DEF InQueue, TypeOK, Cells
  <2> QED
    BY <2>1, <2>2, <2>3 DEF ContentInv
<1>5. CASE TestEmpty
  BY <1>5 DEF TestEmpty, ContentInv, InQueue
<1>6. CASE LoadByte
  BY <1>6 DEF LoadByte, ContentInv, InQueue
<1>7. CASE StoreFront
  <2>1. front # rear /\ temp = uart_buff[front]
    BY <1>7 DEF StoreFront, PopInv, ContentInv
  <2>2. front' = F /\ cpc' = "return" /\ UNCHANGED <<rear, uart_buff, ppc, x, cell, temp>>
    BY <1>7 DEF StoreFront
  <2>3. InQueue(front) /\ front \in Cells
    BY <2>1 DEF InQueue, TypeOK, Cells
  <2>4. temp \in Bytes
    BY <2>1, <2>3 DEF ContentInv
  <2>5. \A c \in Cells : InQueue(c)' => InQueue(c)
    BY <2>1, <2>2, <1>0 DEF InQueue, TypeOK, Cells
  <2> QED
    BY <2>2, <2>4, <2>5 DEF ContentInv
<1>8. CASE Return
  BY <1>8 DEF Return, ContentInv, InQueue
<1>9. CASE UNCHANGED vars
  BY <1>9 DEF vars, ContentInv, InQueue
<1> QED
  BY <1>1, <1>2, <1>3, <1>4, <1>5, <1>6, <1>7, <1>8, <1>9 DEF Next, Push, Pop

LEMMA InitIInv == Init => IInv
  BY InitIndex, InitContent DEF IInv

LEMMA NextIInv == SourceOrder /\ IInv /\ [Next]_vars => IInv'
  BY NextIndex, NextContent DEF IInv

\* The inductive invariant: indices and contents.
THEOREM Invariance ==
  ASSUME SourceOrder
  PROVE  SafeSpec => []IInv
<1>1. IInv /\ [Next]_vars => IInv'
  BY NextIInv
<1> QED
  BY <1>1, InitIInv, PTL DEF SafeSpec

\* What is popped is a byte that was pushed, never what a cell held before.
THEOREM BytesPushed ==
  ASSUME SourceOrder
  PROVE  SafeSpec => []PopsPushedBytes
<1>1. IInv => PopsPushedBytes
  BY DEF IInv, ContentInv, PopsPushedBytes
<1> QED
  BY <1>1, Invariance, PTL

-----------------------------------------------------------------------------
(* The refinement *)

\* The number of cells from f to the one before r, and the j-th of them.
Count(f, r) == IF f <= r THEN r - f ELSE r - f + N
At(f, j) == IF f + j - 1 < N THEN f + j - 1 ELSE f + j - 1 - N

LEMMA CountIs ==
  ASSUME NEW f \in Cells, NEW r \in Cells
  PROVE  (r - f) % N = Count(f, r) /\ Count(f, r) \in 0 .. N-1
<1>1. r - f \in Int /\ -N < r - f /\ r - f < N
  BY NAssumption DEF Cells
<1>2. (r - f) % N = IF r - f < 0 THEN r - f + N
                    ELSE IF r - f < N THEN r - f ELSE r - f - N
  BY <1>1, NAssumption, Remainder
<1> QED
  BY <1>1, <1>2, NAssumption DEF Count, Cells

LEMMA AtIs ==
  ASSUME NEW f \in Cells, NEW r \in Cells, NEW j \in 1 .. Count(f, r)
  PROVE  /\ (f + j - 1) % N = At(f, j)
         /\ At(f, j) \in Cells /\ At(f, j) # r
<1>1. j \in Int /\ 1 <= j /\ j <= N - 1 /\ j <= Count(f, r) /\ f \in 0 .. N-1 /\ r \in 0 .. N-1
  BY CountIs, NAssumption DEF Cells
<1>2. f + j - 1 \in Int /\ -N < f + j - 1 /\ f + j - 1 < 2 * N /\ 0 <= f + j - 1
  BY <1>1, NAssumption
<1>3. PICK a \in Int : a = f + j - 1
  BY <1>2
<1>4. (f + j - 1) % N = At(f, j)
  <2>1. a % N = IF a < N THEN a ELSE a - N
    BY <1>2, <1>3, Remainder, NAssumption
  <2>2. (f + j - 1) % N = a % N
    BY <1>3
  <2>3. At(f, j) = IF a < N THEN a ELSE a - N
    BY <1>1, <1>3, NAssumption DEF At
  <2> QED
    BY <2>1, <2>2, <2>3, Zenon
<1>5. At(f, j) \in Cells /\ At(f, j) # r
  BY <1>1, NAssumption DEF At, Count, Cells
<1> QED
  BY <1>4, <1>5

\* The bytes between two indices, without the remainders.
LEMMA QueueIs ==
  ASSUME NEW f \in Cells, NEW r \in Cells, NEW m
  PROVE  [j \in 1 .. (r - f) % N |-> m[(f + j - 1) % N]]
           = [j \in 1 .. Count(f, r) |-> m[At(f, j)]]
  BY CountIs, AtIs

LEMMA SequenceIs ==
  ASSUME NEW V, NEW s \in Seq(V), NEW n, Len(s) = n
  PROVE  s = [j \in 1 .. n |-> s[j]]
  BY LenProperties

LEMMA InitFifo == Init => Fifo!Init
<1> SUFFICES ASSUME Init PROVE Fifo!Init
  OBVIOUS
<1>1. front \in Cells /\ rear \in Cells /\ front = 0 /\ rear = 0
  BY NAssumption DEF Init, Cells
<1>2. Queued = 0
  BY <1>1, CountIs DEF Queued, Count
<1>3. Queue = <<>>
  BY <1>2 DEF Queue
<1> QED
  BY <1>3 DEF Init, Fifo!Init, Taken

\* What each step is for the FIFO: the push that finds the queue full drops its
\* byte, StoreRear queues it, StoreFront takes one, and Return gives it up.
LEMMA FifoSteps ==
  ASSUME SourceOrder, IInv, IInv'
  PROVE  /\ \A b \in Bytes : Call(b) => Fifo!Offer(b)
         /\ TestFull => \/ ppc' = "idle" /\ Fifo!Drop
                        \/ ppc' # "idle" /\ UNCHANGED <<x, Queue, Taken>>
         /\ StoreByte => UNCHANGED <<x, Queue, Taken>>
         /\ StoreRear => Fifo!Put
         /\ TestEmpty \/ LoadByte => UNCHANGED <<x, Queue, Taken>>
         /\ StoreFront => Fifo!Take
         /\ Return => Fifo!Use
         /\ UNCHANGED vars => UNCHANGED <<x, Queue, Taken>>
<1> USE NAssumption DEF IInv, IndexInv, fields, pusher, popper, SourceOrder
<1> DEFINE S == Succ(rear)
           F == Succ(front)
           K == Count(front, rear)
           Value == Bytes \cup {NoByte}
<1>0. /\ S = (IF rear = N - 1 THEN 0 ELSE rear + 1) /\ S \in Cells
      /\ F = (IF front = N - 1 THEN 0 ELSE front + 1) /\ F \in Cells
  BY SuccIs DEF TypeOK
<1>a. front \in Cells /\ rear \in Cells /\ front' \in Cells /\ rear' \in Cells
      /\ uart_buff \in [Cells -> Value]
  BY DEF TypeOK
<1>b. front \in 0 .. N-1 /\ rear \in 0 .. N-1 /\ N \in Nat /\ N >= 2
  BY DEF TypeOK, Cells
<1>c. K \in 0 .. N-1
  BY <1>a, CountIs
<1>d. Queue = [j \in 1 .. K |-> uart_buff[At(front, j)]]
  BY <1>a, QueueIs DEF Queue, Queued
<1>e. Queue' = [j \in 1 .. Count(front', rear') |-> uart_buff'[At(front', j)]]
  BY <1>a, QueueIs DEF Queue, Queued
<1>f. Queue \in Seq(Value) /\ Len(Queue) = K
  <2>1. \A j \in 1 .. K : uart_buff[At(front, j)] \in Value
    BY <1>a, AtIs
  <2> QED
    BY <2>1, <1>c, <1>d
<1>g. UNCHANGED <<front, rear, uart_buff>> => Queue' = Queue
  BY DEF Queue, Queued
<1>1. ASSUME NEW b \in Bytes, Call(b) PROVE Fifo!Offer(b)
  <2>1. x = NoByte /\ x' = b /\ Queue' = Queue /\ Taken' = Taken
    BY <1>1, <1>g DEF Call, PushInv, Taken
  <2> QED
    BY <2>1 DEF Fifo!Offer, Queue, Taken
<1>2. ASSUME TestFull
      PROVE  \/ ppc' = "idle" /\ Fifo!Drop
             \/ ppc' # "idle" /\ UNCHANGED <<x, Queue, Taken>>
  <2>1. Queue' = Queue /\ Taken' = Taken /\ x \in Bytes
    BY <1>2, <1>g DEF TestFull, Taken, PushInv
  <2>2. CASE front = S
    <3>1. K = N - 1
      BY <2>2, <1>0, <1>b DEF Count
    <3>2. x # NoByte /\ x' = NoByte /\ Len(Queue) = N - 1
      BY <1>2, <2>1, <2>2, <3>1, <1>f, BytesAssumption DEF TestFull
    <3>3. Fifo!Drop
      BY <3>2, <2>1 DEF Fifo!Drop, Queue, Taken
    <3> QED
      BY <1>2, <2>2, <3>3 DEF TestFull
  <2>3. CASE front # S
    BY <1>2, <2>1, <2>3 DEF TestFull
  <2> QED
    BY <2>2, <2>3
<1>3. ASSUME StoreByte PROVE UNCHANGED <<x, Queue, Taken>>
  <2>1. x' = x /\ Taken' = Taken /\ front' = front /\ rear' = rear
        /\ uart_buff' = [uart_buff EXCEPT ![rear] = x]
    BY <1>3 DEF StoreByte, PushInv, Taken
  <2>2. \A j \in 1 .. K : uart_buff'[At(front, j)] = uart_buff[At(front, j)]
    BY <2>1, <1>a, AtIs
  <2>3. Queue' = Queue
    BY <2>1, <2>2, <1>d, <1>e
  <2> QED
    BY <2>1, <2>3
<1>4. ASSUME StoreRear PROVE Fifo!Put
  <2>1. front # S /\ x \in Bytes /\ uart_buff[rear] = x
    BY <1>4 DEF StoreRear, PushInv, ContentInv
  <2>2. rear' = S /\ x' = NoByte /\ Taken' = Taken /\ front' = front /\ uart_buff' = uart_buff
    BY <1>4 DEF StoreRear, PushInv, Taken
  <2>3. Count(front, S) = K + 1 /\ At(front, K + 1) = rear /\ K < N - 1
    BY <2>1, <1>0, <1>b DEF Count, At
  <2>4. Queue' = [j \in 1 .. K + 1 |-> uart_buff[At(front, j)]]
    BY <2>2, <2>3, <1>e
  <2>5. \A j \in 1 .. K : Queue[j] = uart_buff[At(front, j)]
    BY <1>d
  <2>6. \A j \in 1 .. K + 1 : uart_buff[At(front, j)] = IF j = K + 1 THEN x ELSE Queue[j]
    BY <2>1, <2>3, <2>5, <1>c
  <2>7. Queue' = [j \in 1 .. Len(Queue) + 1 |-> IF j = Len(Queue) + 1 THEN x ELSE Queue[j]]
    BY <2>4, <2>6, <1>f
  <2>8. Append(Queue, x) \in Seq(Value) /\ Len(Append(Queue, x)) = K + 1
        /\ \A j \in 1 .. K + 1 : Append(Queue, x)[j] = IF j = K + 1 THEN x ELSE Queue[j]
    BY <2>1, <1>c, <1>f
  <2>9. Append(Queue, x) = [j \in 1 .. K + 1 |-> Append(Queue, x)[j]]
    BY <2>8, SequenceIs
  <2>10. Queue' = Append(Queue, x)
    BY <2>7, <2>8, <2>9, <1>f
  <2> QED
    BY <2>1, <2>2, <2>3, <2>10, <1>f, BytesAssumption DEF Fifo!Put, Queue, Taken
<1>5. ASSUME TestEmpty PROVE UNCHANGED <<x, Queue, Taken>>
  BY <1>5, <1>g DEF TestEmpty, Taken
<1>6. ASSUME LoadByte PROVE UNCHANGED <<x, Queue, Taken>>
  BY <1>6, <1>g DEF LoadByte, Taken
<1>7. ASSUME StoreFront PROVE Fifo!Take
  <2>1. front # rear /\ temp = uart_buff[front] /\ Taken = NoByte
    BY <1>7 DEF StoreFront, PopInv, ContentInv, Taken
  <2>2. front' = F /\ x' = x /\ Taken' = temp /\ rear' = rear /\ uart_buff' = uart_buff
    BY <1>7 DEF StoreFront, Taken
  <2>3. Count(F, rear) = K - 1 /\ K >= 1 /\ At(front, 1) = front
    BY <2>1, <1>0, <1>b DEF Count, At
  <2>4. \A j \in 1 .. K - 1 : At(F, j) = At(front, j + 1)
    BY <1>0, <1>b, <1>c DEF At
  <2>5. Queue' = [j \in 1 .. K - 1 |-> uart_buff[At(front, j + 1)]]
    BY <2>2, <2>3, <2>4, <1>e
  <2>6. \A j \in 1 .. K - 1 : uart_buff[At(front, j + 1)] = Queue[j + 1]
    BY <1>c, <1>d
  <2>7. Queue # <<>> /\ Head(Queue) = temp
    BY <2>1, <2>3, <1>c, <1>d, <1>f
  <2>8. Tail(Queue) = [j \in 1 .. K - 1 |-> Queue[j + 1]]
    <3>1. Tail(Queue) \in Seq(Value) /\ Len(Tail(Queue)) = K - 1
          /\ \A j \in 1 .. Len(Tail(Queue)) : Tail(Queue)[j] = Queue[j + 1]
      BY <1>f, <2>7, HeadTailProperties
    <3>2. Tail(Queue) = [j \in 1 .. K - 1 |-> Tail(Queue)[j]]
      BY <3>1, SequenceIs
    <3> QED
      BY <3>1, <3>2
  <2>9. Queue' = Tail(Queue)
    BY <2>5, <2>6, <2>8
  <2> QED
    BY <2>1, <2>2, <2>7, <2>9 DEF Fifo!Take, Queue, Taken
<1>8. ASSUME Return PROVE Fifo!Use
  <2>1. x' = x /\ Queue' = Queue /\ Taken' = NoByte /\ Taken \in Bytes
    BY <1>8, <1>g DEF Return, Taken, ContentInv
  <2> QED
    BY <2>1, BytesAssumption DEF Fifo!Use, Queue, Taken
<1>9. ASSUME UNCHANGED vars PROVE UNCHANGED <<x, Queue, Taken>>
  BY <1>9, <1>g DEF vars, Taken
<1> QED
  BY <1>1, <1>2, <1>3, <1>4, <1>5, <1>6, <1>7, <1>8, <1>9

LEMMA NextFifo ==
  SourceOrder /\ IInv /\ IInv' /\ [Next]_vars => [Fifo!Next]_Fifo!vars
<1> SUFFICES ASSUME SourceOrder, IInv, IInv', [Next]_vars
             PROVE  Fifo!Next \/ UNCHANGED <<x, Queue, Taken>>
  BY DEF Fifo!vars, Queue, Taken
<1> QED
  BY FifoSteps DEF Next, Push, Pop, Fifo!Next

\* With the source's order the two functions implement the lossy FIFO: safety.
THEOREM QueueImplementsFifo ==
  ASSUME SourceOrder
  PROVE  SafeSpec => Fifo!SafeSpec
<1>1. IInv /\ IInv' /\ [Next]_vars => [Fifo!Next]_Fifo!vars
  BY NextFifo
<1> QED
  BY <1>1, InitFifo, Invariance, PTL DEF SafeSpec, Fifo!SafeSpec

-----------------------------------------------------------------------------
(* The composition *)

\* CommandPath with the queue as its FIFO, and what is proved of it.
CP == INSTANCE CommandPath_proofs WITH Cap <- N - 1, in <- x, queue <- Queue, out <- Taken

PathInv == IInv /\ CP!IInv

\* The constants fit for the second instance as for the first.
LEMMA SameConstants ==
  ASSUME PathConstants
  PROVE  /\ SourceOrder /\ Bytes = Letters \cup CP!Marks /\ NoByte = CP!Nothing
         /\ Path!Nothing = CP!Nothing /\ Path!Zero = CP!Zero /\ Path!None = CP!None
         /\ Path!Marks = CP!Marks
  BY DEF PathConstants, SourceOrder, CP!Marks, Path!Marks, CP!Nothing, Path!Nothing, CP!Zero,
     Path!Zero, CP!None, Path!None

\* The step of the whole is one of the queue or leaves that alone, and one of
\* the path of the commands or leaves that alone.
Splits == [Next]_vars /\ [CP!Next]_(CP!vars)

LEMMA QueueUnchanged == UNCHANGED vars => UNCHANGED <<x, Queue, Taken>>
  BY DEF vars, fields, pusher, popper, Queue, Queued, Taken

LEMMA Outside ==
  ASSUME PathConstants, Path!Defined, Receive \/ Judge \/ Process
  PROVE  Splits
<1> USE QueueUnchanged, SameConstants DEF Path!Defined
<1>1. UNCHANGED vars
  BY DEF Receive, Judge, Process, Path!Receive, Path!Judge, Path!Process, vars, fields,
     pusher, popper
<1>2. CASE Receive
  <2>1. CP!Receive
    BY <1>1, <1>2 DEF Receive, Path!Receive, CP!Receive, Path!Frame, CP!Frame, Path!Phrases,
       CP!Phrases, Path!Known, CP!Known, Path!collector, CP!collector
  <2> QED
    BY <1>1, <2>1 DEF Splits, CP!Next, CP!Defined
<1>3. CASE Judge
  <2>1. CP!Judge
    BY <1>1, <1>3 DEF Judge, Path!Judge, CP!Judge, Path!collector, CP!collector,
       Path!received, CP!received
  <2> QED
    BY <1>1, <2>1 DEF Splits, CP!Next, CP!Scan, CP!Defined
<1>4. CASE Process
  <2>1. CP!Process
    BY <1>1, <1>4 DEF Process, Path!Process, CP!Process, Path!scanner, CP!scanner,
       Path!First, CP!First, Path!Occurs, CP!Occurs, Path!Known, CP!Known, Path!Blank,
       CP!Blank
  <2> QED
    BY <1>1, <2>1 DEF Splits, CP!Next, CP!PhoneCommand_Process, CP!Defined
<1> QED
  BY <1>2, <1>3, <1>4

\* The assumptions of CommandPath, for the second instance.
LEMMA Assumptions == PathConstants => CP!WordsFit /\ CP!SizesFit
  BY SameConstants DEF PathConstants, CP!WordsFit, Path!WordsFit, CP!SizesFit, Path!SizesFit,
     CP!Phrases, Path!Phrases, CP!Known, Path!Known, CP!Occurs, Path!Occurs,
     CP!FrameLength, Path!FrameLength

LEMMA PushSplits ==
  ASSUME PathConstants, PathInv, Path!Defined, CallEnqueue \/ Enqueue
  PROVE  Splits
<1> USE SameConstants DEF PathInv, Path!Defined
<1>1. CASE CallEnqueue
  <2>1. Head(todo) \in Bytes
    <3>1. todo \in Seq(Bytes) /\ todo # <<>>
      BY <1>1 DEF CallEnqueue, Path!CallEnqueue, CP!IInv, CP!TypeOK
    <3> QED
      BY <3>1, HeadTailProperties
  <2>2. Next /\ UNCHANGED <<Queue, Taken>> /\ x = NoByte /\ x' = Head(todo)
    BY <1>1, <2>1 DEF CallEnqueue, Call, Next, fields, popper, Queue, Queued, Taken,
       IInv, IndexInv, PushInv
  <2>3. CP!CallEnqueue
    BY <1>1, <2>2 DEF CallEnqueue, Path!CallEnqueue, CP!CallEnqueue, CP!Fifo!Offer,
       Path!collector, CP!collector, Path!received, CP!received
  <2> QED
    BY <2>2, <2>3 DEF Splits, CP!Next, CP!Scan, CP!Defined
<1>2. CASE Enqueue
  <2>1. Next /\ UNCHANGED <<scanner, collector, pending>>
    BY <1>2 DEF Enqueue, Next
  <2>2. IInv'
    BY <2>1, NextIInv
  <2>3. CASE (TestFull /\ ppc' # "idle") \/ StoreByte
    <3>1. UNCHANGED <<x, Queue, Taken, dropped>>
      BY <1>2, <2>2, <2>3, FifoSteps DEF Enqueue, StoreByte
    <3>2. UNCHANGED CP!vars
      BY <2>1, <3>1 DEF CP!vars, scanner, CP!scanner, collector, CP!collector, CP!received
    <3> QED
      BY <2>1, <3>2 DEF Splits
  <2>4. CASE TestFull /\ ppc' = "idle"
    <3>1. Fifo!Drop /\ dropped' = 1
      BY <1>2, <2>2, <2>4, FifoSteps DEF Enqueue, TestFull
    <3>2. CP!Enqueue
      BY <2>1, <3>1 DEF CP!Enqueue, Fifo!Drop, CP!Fifo!Drop, Queue, Taken, scanner,
         CP!scanner, collector, CP!collector
    <3> QED
      BY <2>1, <3>2 DEF Splits, CP!Next, CP!Scan, CP!Defined
  <2>5. CASE StoreRear
    <3>1. Fifo!Put /\ UNCHANGED dropped
      BY <1>2, <2>2, <2>5, FifoSteps DEF Enqueue, StoreRear
    <3>2. CP!Enqueue
      BY <2>1, <3>1 DEF CP!Enqueue, Fifo!Put, CP!Fifo!Put, Queue, Taken, scanner,
         CP!scanner, collector, CP!collector
    <3> QED
      BY <2>1, <3>2 DEF Splits, CP!Next, CP!Scan, CP!Defined
  <2> QED
    BY <1>2, <2>3, <2>4, <2>5 DEF Enqueue, Push
<1> QED
  BY <1>1, <1>2

LEMMA PopSplits ==
  ASSUME PathConstants, PathInv, Path!Defined, Dequeue \/ Collect \/ Overrun
  PROVE  Splits
<1> USE SameConstants DEF PathInv, Path!Defined
<1>1. Next
  BY DEF Dequeue, Collect, Overrun, Next, Pop
<1>2. IInv'
  BY <1>1, NextIInv
<1>3. CASE Dequeue /\ (TestEmpty \/ LoadByte)
  <2>1. UNCHANGED <<x, Queue, Taken>>
    BY <1>2, <1>3, FifoSteps
  <2>2. UNCHANGED CP!vars
    BY <1>3, <2>1 DEF Dequeue, CP!vars, scanner, CP!scanner, collector, CP!collector,
       CP!received
  <2> QED
    BY <1>1, <2>2 DEF Splits
<1>4. CASE Dequeue /\ StoreFront
  <2>1. Fifo!Take
    BY <1>2, <1>4, FifoSteps
  <2>2. CP!Dequeue
    BY <1>4, <2>1 DEF Dequeue, CP!Dequeue, Fifo!Take, CP!Fifo!Take, Queue, Taken, scanner,
       CP!scanner, collector, CP!collector, CP!received
  <2> QED
    BY <1>1, <2>2 DEF Splits, CP!Next, CP!PhoneCommand_Process, CP!Defined
<1>5. CASE Collect
  <2>1. Fifo!Use /\ Taken = temp
    BY <1>2, <1>5, FifoSteps DEF Collect, Return, Taken
  <2>2. CP!Collect
    BY <1>5, <2>1 DEF Collect, Path!Collect, CP!Collect, Fifo!Use, CP!Fifo!Use, Queue, Taken,
       Path!Store, CP!Store, Path!scanner, CP!scanner, Path!received, CP!received
  <2> QED
    BY <1>1, <2>2 DEF Splits, CP!Next, CP!PhoneCommand_Process, CP!Defined
<1>6. CASE Overrun
  <2>1. Fifo!Use /\ Taken = temp
    BY <1>2, <1>6, FifoSteps DEF Overrun, Return, Taken
  <2>2. CP!Overrun
    BY <1>6, <2>1 DEF Overrun, Path!Overrun, CP!Overrun, Fifo!Use, CP!Fifo!Use, Queue, Taken,
       Path!scanner, CP!scanner, Path!received, CP!received
  <2> QED
    BY <1>1, <2>2 DEF Splits, CP!Next, CP!PhoneCommand_Process, CP!Defined
<1> QED
  BY <1>3, <1>4, <1>5, <1>6 DEF Dequeue

LEMMA PathStep ==
  ASSUME PathConstants, PathInv, [PathNext]_allVars
  PROVE  Splits /\ PathInv'
<1>1. Splits
  <2>1. CASE UNCHANGED allVars
    <3>1. UNCHANGED vars /\ UNCHANGED <<scanner, collector, pending, dropped>>
      BY <2>1 DEF allVars
    <3>2. UNCHANGED CP!vars
      BY <3>1, QueueUnchanged DEF CP!vars, scanner, CP!scanner, collector, CP!collector,
         CP!received
    <3> QED
      BY <3>1, <3>2 DEF Splits
  <2> QED
    BY <2>1, Outside, PushSplits, PopSplits DEF PathNext, Scan, PhoneCommand_Process
<1>2. IInv'
  BY <1>1, NextIInv, SameConstants DEF Splits, PathInv
<1>3. CP!IInv'
  BY <1>1, CP!NextIInv, Assumptions DEF Splits, PathInv
<1> QED
  BY <1>2, <1>3, <1>1 DEF PathInv

LEMMA SameInit == PathInit => CP!Init
  BY DEF PathInit, Abstract!Init, CP!Init, Abstract!Fifo!Init, CP!Fifo!Init, Abstract!Blank,
     CP!Blank, Abstract!Zero, CP!Zero, Abstract!None, CP!None, Abstract!Nothing, CP!Nothing

LEMMA InitPath == PathConstants /\ PathInit => PathInv
<1> SUFFICES ASSUME PathConstants, PathInit PROVE PathInv
  OBVIOUS
<1>1. CP!IInv
  BY SameInit, CP!InitInv, Assumptions
<1> QED
  BY <1>1, InitIInv DEF PathInit, PathInv

\* The two instances of CommandPath with the mapping are the same specification.
LEMMA SameNext == [CP!Next]_(CP!vars) => [Abstract!Next]_(Abstract!vars)
<1> USE DEF CP!None, Abstract!None, CP!Zero, Abstract!Zero, CP!Nothing, Abstract!Nothing,
        CP!Marks, Abstract!Marks, CP!scanner, Abstract!scanner, CP!collector,
        Abstract!collector, CP!received, Abstract!received, CP!Known, Abstract!Known
<1>1. CP!Receive => Abstract!Receive
  BY DEF CP!Receive, Abstract!Receive, CP!Frame, Abstract!Frame, CP!Phrases, Abstract!Phrases
<1>2. CP!Judge => Abstract!Judge
  BY DEF CP!Judge, Abstract!Judge
<1>3. CP!CallEnqueue => Abstract!CallEnqueue
  BY DEF CP!CallEnqueue, Abstract!CallEnqueue, CP!Fifo!Offer, Abstract!Fifo!Offer
<1>4. CP!Enqueue => Abstract!Enqueue
  BY DEF CP!Enqueue, Abstract!Enqueue, CP!Fifo!Put, Abstract!Fifo!Put, CP!Fifo!Drop,
     Abstract!Fifo!Drop
<1>5. CP!Dequeue => Abstract!Dequeue
  BY DEF CP!Dequeue, Abstract!Dequeue, CP!Fifo!Take, Abstract!Fifo!Take
<1>6. CP!Collect => Abstract!Collect
  BY DEF CP!Collect, Abstract!Collect, CP!Fifo!Use, Abstract!Fifo!Use, CP!Store,
     Abstract!Store
<1>7. CP!Process => Abstract!Process
  BY DEF CP!Process, Abstract!Process, CP!First, Abstract!First, CP!Occurs,
     Abstract!Occurs, CP!Blank, Abstract!Blank
<1>8. CP!Overrun => Abstract!Overrun
  BY DEF CP!Overrun, Abstract!Overrun, CP!Fifo!Use, Abstract!Fifo!Use
<1>9. UNCHANGED CP!vars => UNCHANGED Abstract!vars
  BY DEF CP!vars, Abstract!vars
<1> QED
  BY <1>1, <1>2, <1>3, <1>4, <1>5, <1>6, <1>7, <1>8, <1>9
     DEF CP!Next, Abstract!Next, CP!Defined, Abstract!Defined, CP!Scan, Abstract!Scan, CP!PhoneCommand_Process,
         Abstract!PhoneCommand_Process

-----------------------------------------------------------------------------
\* The two invariants, carried together, hold in every state of the whole.
THEOREM PathInvariance == PathConstants /\ SafePathSpec => []PathInv
<1> SUFFICES ASSUME PathConstants PROVE SafePathSpec => []PathInv
  OBVIOUS
<1>1. PathInit => PathInv
  BY InitPath
<1>2. PathInv /\ [PathNext]_allVars => PathInv'
  BY PathStep
<1> QED
  BY <1>1, <1>2, PTL DEF SafePathSpec

\* The queue of two indices and an array is, for the scanner and the collector,
\* the FIFO that CommandPath takes it for (PhoneCommand_rx_enqueue, _dequeue).
THEOREM PathImplementsCommandPath ==
  PathConstants /\ SafePathSpec => ImplementsCommandPath
<1> SUFFICES ASSUME PathConstants PROVE SafePathSpec => Abstract!SafeSpec
  BY DEF ImplementsCommandPath
<1>1. PathInit => Abstract!Init
  BY DEF PathInit
<1>2. PathInv /\ [PathNext]_allVars => [Abstract!Next]_(Abstract!vars)
  BY PathStep, SameNext DEF Splits
<1>3. SafePathSpec => []PathInv
  BY PathInvariance
<1> QED
  BY <1>1, <1>2, <1>3, PTL DEF SafePathSpec, Abstract!SafeSpec

\* ... and for the queue the two threads are what PhoneQueue takes them for: what
\* they push are bytes of the commands, never the padding of a datagram.
THEOREM PathImplementsQueue == PathConstants /\ SafePathSpec => SafeSpec
<1> SUFFICES ASSUME PathConstants PROVE SafePathSpec => SafeSpec
  OBVIOUS
<1>1. PathInit => Init
  BY DEF PathInit
<1>2. PathInv /\ [PathNext]_allVars => [Next]_vars
  BY PathStep DEF Splits
<1>3. SafePathSpec => []PathInv
  BY PathInvariance
<1> QED
  BY <1>1, <1>2, <1>3, PTL DEF SafePathSpec, SafeSpec

\* The commands sent to the DSP are the received ones, each once and in order,
\* over the queue as it is, as long as no byte finds it full.
THEOREM PathSentInOrder == PathConstants /\ SafePathSpec => CommandsInOrder
<1> SUFFICES ASSUME PathConstants PROVE SafePathSpec => CommandsInOrder
  OBVIOUS
<1>1. SafePathSpec => CP!SafeSpec
  <2>1. PathInit => CP!Init
    BY SameInit
  <2>2. PathInv /\ [PathNext]_allVars => [CP!Next]_(CP!vars)
    BY PathStep DEF Splits
  <2>3. SafePathSpec => []PathInv
    BY PathInvariance
  <2> QED
    BY <2>1, <2>2, <2>3, PTL DEF SafePathSpec, CP!SafeSpec
<1>2. CP!SafeSpec => CP!SentInOrder
  BY CP!CommandsInOrder, Assumptions
<1>3. CP!SentInOrder => Abstract!SentInOrder
  <2> DEFINE Processed == startProcess = 1 /\ startProcess' = 0 /\ dropped = 0
             Oldest(K, z) == /\ pending # <<>>
                             /\ sent' = IF Head(pending) \in K THEN Head(pending) ELSE z
  <2>1. [Processed => Oldest(CP!Known, CP!None)]_(CP!vars)
          => [Processed => Oldest(Abstract!Known, Abstract!None)]_(Abstract!vars)
    BY DEF CP!Known, Abstract!Known, CP!None, Abstract!None, CP!vars, Abstract!vars,
       CP!scanner, Abstract!scanner, CP!collector, Abstract!collector, CP!received,
       Abstract!received
  <2> QED
    BY <2>1, PTL DEF CP!SentInOrder, Abstract!SentInOrder
<1> QED
  BY <1>1, <1>2, <1>3 DEF CommandsInOrder

\* Nothing is stored behind IPHONE_COMMOND_BUF, whose index is not checked, as long as
\* no byte finds the queue, as it is, full (phone_command.c 113).
THEOREM PathBufferIsEnough == PathConstants /\ SafePathSpec => []CollectorSuffices
<1> SUFFICES ASSUME PathConstants PROVE SafePathSpec => []CollectorSuffices
  OBVIOUS
<1>1. PathInv => CollectorSuffices
  BY DEF PathInv, CP!IInv, CP!TypeOK, CP!CollectInv, CollectorSuffices
<1>2. SafePathSpec => []PathInv
  BY PathInvariance
<1> QED
  BY <1>1, <1>2, PTL
=============================================================================
