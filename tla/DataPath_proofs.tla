--------------------------- MODULE DataPath_proofs ---------------------------
(***************************************************************************)
(* Proofs about DataPath, for every ring size, heap size and command window *)
(* that satisfy its assumptions.                                            *)
(***************************************************************************)
EXTENDS DataPath, FiniteSetTheorems, TLAPS

\* What the priorities give: once the uPP task has left "acquire" the algorithm
\* task is blocked with nothing to do, so at most one block is between them.
Filtering == apc \in {"begin", "finish", "alloc", "put"}
SchedInv ==
  /\ upc = None <=> apc = None
  /\ upc = None <=> is_started = 0
  /\ upc \notin {None, "acquire"} => apc = "pend" /\ sem = 0
  /\ upc \notin {"acquire", "post"} => rawq = <<>>
  /\ upc = "post" => rawq = <<data>>
  /\ upc = "acquire" =>
       /\ Len(rawq) <= 1
       /\ rawq # <<>> => \/ apc = "pend" /\ sem = 1
                         \/ apc = "check" /\ sem = 0
       /\ rawq = <<>> => sem = 0
  /\ Filtering => rawq = <<>> /\ sem = 0
  /\ apc # "pend" => sem = 0
  /\ rawUsed = Len(rawq) + (IF apc \in {"begin", "finish"} THEN 1 ELSE 0)

\* Nothing is started before START, which is the first command in the queue.
StartInv ==
  is_started = 0 =>
    \/ mpc = "start" /\ cmdq = <<>> /\ lpc = "get"
    \/ mpc # "start" /\ cmdq # <<>> /\ Head(cmdq) = "START" /\ lpc = "get"
    \/ mpc # "start" /\ lpc = "dispatch" /\ lcmd = "START"

\* The ring never hands out a block twice.
RingInv ==
  /\ \A j, k \in 1 .. Len(valid) : j # k => valid[j] # valid[k]
  /\ \A j \in 1 .. Len(valid) : valid[j] # held
  /\ (upc \in {"dma", "wait", "release"} /\ data # NoSlot) =>
        data # held /\ \A j \in 1 .. Len(valid) : valid[j] # data
  /\ upc \in {"release", "import", "put", "post"} => data # NoSlot
  /\ upc = "sleep" => data = NoSlot
  /\ held # NoSlot <=> rpc \in {"offer", "decide", "release"}
  /\ rmsg # None <=> rpc \notin {None, "pop"}
  /\ mpc \in {"start", "enable", "receiver"} => rpc = None

\* Blocks of the ring and messages correspond one to one, in order: first the
\* message the receiver has popped, then the queued ones, then the block whose
\* message is still to be sent.
Popped == IF rpc = "acquire" THEN 1 ELSE 0
Unannounced == IF upc \in {"import", "post", "put"} \/ rawq # <<>> \/ Filtering
                 THEN 1 ELSE 0
Newest == valid[Len(valid)]
CountInv == Len(valid) = Popped + Len(dataq) + Unannounced
NamesInv ==
  /\ \A j \in 1 .. Len(dataq) : content[valid[j + Popped]] = Announced(dataq[j])
  /\ rpc = "acquire" => content[valid[1]] = Announced(rmsg)
  /\ MessageNamesBlock
PendingInv ==
  /\ upc = "release" => content[data] = "raw"
  /\ upc \in {"import", "post", "put"} => Newest = data /\ content[data] = "raw"
  /\ rawq # <<>> => Newest = rawq[1] /\ content[Newest] = "raw"
  /\ Filtering =>
       /\ Newest = raw
       /\ apc \in {"alloc", "put"} => content[raw] = "filtered"

\* The commands that can be waiting, and who holds the heap's messages.
HeapInv ==
  /\ HostSurvives /\ DspSurvives /\ NoMessageLost
  /\ Len(cmdq) <= CmdWindow
  /\ mpc = "start" => Len(cmdq) = 0
  /\ mpc = "enable" => Len(cmdq) <= 1

IInv == /\ TypeOK /\ SchedInv /\ StartInv /\ RingInv
        /\ CountInv /\ NamesInv /\ PendingInv /\ HeapInv /\ OnlySettledSent

-----------------------------------------------------------------------------
(* The scheduler and the queues *)

\* The uPP task runs only when the algorithm task has nothing to do.
LEMMA UppRuns ==
  ASSUME Runs("uPP")
  PROVE  apc \notin {"check", "begin", "finish", "alloc", "put"}
         /\ ~(apc = "pend" /\ sem > 0)
  BY DEF Runs, Ready, Tasks, Prio

LEMMA AlgoRuns ==
  ASSUME Runs("algorism")
  PROVE  apc \in {"check", "begin", "finish", "alloc", "put"}
         \/ (apc = "pend" /\ sem > 0)
  BY DEF Runs, Ready

LEMMA LoopRuns ==
  ASSUME Runs("loop")
  PROVE  lpc # "get" \/ cmdq # <<>>
  BY DEF Runs, Ready

\* What the queue operations do to the elements.
LEMMA Popping ==
  ASSUME NEW S, NEW s \in Seq(S), s # <<>>
  PROVE  /\ Len(s) \in Nat /\ Len(s) > 0
         /\ Head(s) \in S /\ Head(s) = s[1]
         /\ Tail(s) \in Seq(S) /\ Len(Tail(s)) = Len(s) - 1
         /\ \A j \in 1 .. Len(Tail(s)) : Tail(s)[j] = s[j + 1]
  OBVIOUS

LEMMA Pushing ==
  ASSUME NEW S, NEW s \in Seq(S), NEW e \in S
  PROVE  /\ Append(s, e) \in Seq(S) /\ Len(Append(s, e)) = Len(s) + 1
         /\ \A j \in 1 .. Len(s) : Append(s, e)[j] = s[j]
         /\ Append(s, e)[Len(s) + 1] = e
  OBVIOUS

-----------------------------------------------------------------------------
(* Room in the ring and in the heap *)

LEMMA DistinctBound ==
  ASSUME NEW S, IsFiniteSet(S), NEW n \in Nat, NEW f \in [1 .. n -> S],
         \A a, b \in 1 .. n : a # b => f[a] # f[b]
  PROVE  n <= Cardinality(S) /\ Cardinality(S) \in Nat
<1>1. Cardinality(S) \in Nat
  BY FS_CardinalityType
<1>2. IsFiniteSet(1 .. n) /\ Cardinality(1 .. n) = n
  BY FS_Interval
<1>3. ~(Cardinality(S) < n)
  BY <1>2, FS_PigeonHole
<1> QED
  BY <1>1, <1>3

\* The blocks in the ring and the one the host holds are different slots.
LEMMA RingBound ==
  ASSUME TypeOK, RingInv
  PROVE  /\ Cardinality(Slots) \in Nat
         /\ Len(valid) + (IF held # NoSlot THEN 1 ELSE 0) <= Cardinality(Slots)
<1> USE SlotsAssumption DEF TypeOK, RingInv
<1>1. Len(valid) \in Nat
  OBVIOUS
<1>2. CASE held = NoSlot
  <2>1. valid \in [1 .. Len(valid) -> Slots]
    OBVIOUS
  <2>2. \A a, b \in 1 .. Len(valid) : a # b => valid[a] # valid[b]
    OBVIOUS
  <2>3. Len(valid) <= Cardinality(Slots) /\ Cardinality(Slots) \in Nat
    BY <1>1, <2>1, <2>2, DistinctBound
  <2> QED
    BY <1>1, <1>2, <2>3
<1>3. CASE held # NoSlot
  <2> DEFINE n == Len(valid) + 1
             f == [j \in 1 .. n |-> IF j = n THEN held ELSE valid[j]]
  <2>1. n \in Nat /\ f \in [1 .. n -> Slots]
    BY <1>1, <1>3
  <2>2. \A a, b \in 1 .. n : a # b => f[a] # f[b]
    BY <1>1, <1>3
  <2>3. n <= Cardinality(Slots) /\ Cardinality(Slots) \in Nat
    <3> HIDE DEF n, f
    <3> QED
      BY <2>1, <2>2, DistinctBound
  <2> QED
    BY <1>3, <2>3
<1> QED
  BY <1>2, <1>3

\* Messages that carry data, and those that could still be allocated for the
\* block that is not announced yet, number at most one more than the blocks.
Data(x) == Len(dataq) + x + (IF rmsg # None THEN 1 ELSE 0)
LEMMA DataBound ==
  ASSUME TypeOK, RingInv, CountInv
  PROVE  /\ Unannounced \in {0, 1} /\ Popped \in {0, 1}
         /\ Data(Unannounced) <= Cardinality(Slots) + 1
         /\ Cardinality(Slots) \in Nat
<1>1. Unannounced \in {0, 1} /\ Popped \in {0, 1}
  BY DEF Unannounced, Popped
<1>2. Len(dataq) \in Nat /\ Len(valid) \in Nat
  BY DEF TypeOK
<1>3. (IF rmsg # None THEN 1 ELSE 0) <= Popped + (IF held # NoSlot THEN 1 ELSE 0) + 1
  BY DEF RingInv, Popped, TypeOK
<1>4. CASE rpc = "free"
  BY <1>1, <1>2, <1>4, RingBound DEF Data, CountInv, RingInv, Popped
<1>5. CASE rpc # "free"
  <2>1. (IF rmsg # None THEN 1 ELSE 0) <= Popped + (IF held # NoSlot THEN 1 ELSE 0)
    BY <1>5 DEF RingInv, Popped, TypeOK
  <2> QED
    BY <1>1, <1>2, <2>1, RingBound DEF Data, CountInv
<1> QED
  BY <1>1, <1>4, <1>5, RingBound

\* Every allocation finds room: a data message for the block that waits for
\* one, and a command while fewer than CmdWindow are queued.
LEMMA RoomForData ==
  ASSUME TypeOK, SchedInv, RingInv, CountInv, HeapInv,
         upc = "import" \/ apc = "alloc"
  PROVE  heap < HeapSlots
<1>1. Unannounced = 1 /\ apc # "put" /\ upc # "put"
  BY DEF Unannounced, SchedInv, Filtering, None
<1>2. heap <= Len(cmdq) + Len(dataq) + 1 + (IF rmsg # None THEN 1 ELSE 0)
  BY <1>1 DEF HeapInv, NoMessageLost, TypeOK
<1> QED
  BY <1>1, <1>2, DataBound, HeapAssumption, WindowAssumption
  DEF Data, HeapInv, TypeOK

LEMMA RoomForCommand ==
  ASSUME TypeOK, SchedInv, RingInv, CountInv, HeapInv, Len(cmdq) < CmdWindow
  PROVE  heap < HeapSlots
<1>1. (IF apc = "put" THEN 1 ELSE 0) + (IF upc = "put" THEN 1 ELSE 0) <= Unannounced
  BY DEF Unannounced, SchedInv, Filtering, None
<1>2. heap <= Len(cmdq) + 1 + Data(Unannounced)
  BY <1>1, DataBound DEF HeapInv, NoMessageLost, TypeOK, Data
<1> QED
  BY <1>2, DataBound, HeapAssumption, WindowAssumption DEF Data, TypeOK

\* The block a popped message announces is in the ring.
LEMMA BlockThere ==
  ASSUME TypeOK, CountInv, rpc = "acquire"
  PROVE  valid # <<>>
  BY DataBound DEF CountInv, Popped, Unannounced, TypeOK

\* What the steps that change the ring do to its blocks.
LEMMA Releasing ==
  ASSUME TypeOK, RingInv, UppRelease
  PROVE  /\ Len(valid') = Len(valid) + 1 /\ Len(valid) \in Nat
         /\ \A j \in 1 .. Len(valid) : valid'[j] = valid[j]
         /\ valid'[Len(valid) + 1] = data
<1>1. data \in Slots /\ valid \in Seq(Slots)
  BY DEF UppRelease, RingInv, TypeOK
<1>2. valid' = Append(valid, data)
  BY DEF UppRelease
<1> QED
  BY <1>1, <1>2, Pushing

LEMMA Acquiring ==
  ASSUME TypeOK, CountInv, RecvAcquire
  PROVE  /\ valid # <<>> /\ held' = valid[1] /\ held' \in Slots
         /\ Len(valid) \in Nat /\ Len(valid) > 0 /\ Len(valid') = Len(valid) - 1
         /\ \A j \in 1 .. Len(valid') : valid'[j] = valid[j + 1]
<1>1. valid # <<>> /\ valid \in Seq(Slots)
  BY BlockThere DEF RecvAcquire, TypeOK
<1>2. held' = Head(valid) /\ valid' = Tail(valid)
  BY <1>1 DEF RecvAcquire
<1> QED
  BY <1>1, <1>2, Popping

\* Where the blocks of the queued messages are in the ring.
LEMMA Places ==
  ASSUME TypeOK, CountInv
  PROVE  /\ Len(valid) \in Nat /\ Len(dataq) \in Nat
         /\ \A j \in 1 .. Len(dataq) : j + Popped \in 1 .. Len(valid)
         /\ \A j \in 1 .. Len(dataq) : Unannounced = 1 => j + Popped # Len(valid)
         /\ rpc = "acquire" =>
              1 \in 1 .. Len(valid) /\ (Unannounced = 1 => 1 # Len(valid))
         /\ Unannounced = 1 => Len(valid) \in 1 .. Len(valid)
<1>1. Len(valid) \in Nat /\ Len(dataq) \in Nat
  BY DEF TypeOK
<1>2. Popped \in {0, 1} /\ Unannounced \in {0, 1}
  BY DEF Popped, Unannounced
<1>3. rpc = "acquire" => Popped = 1
  BY DEF Popped
<1> QED
  BY <1>1, <1>2, <1>3 DEF CountInv

\* A new message announces the newest block.
LEMMA Announcing ==
  ASSUME TypeOK, CountInv, Unannounced = 1, NEW t \in Tags,
         content[valid[Len(valid)]] = Announced(t), NamesInv
  PROVE  \A j \in 1 .. Len(Append(dataq, t)) :
            content[valid[j + Popped]] = Announced(Append(dataq, t)[j])
<1> DEFINE q == Append(dataq, t)
<1>1. /\ Len(q) = Len(dataq) + 1 /\ q[Len(dataq) + 1] = t
      /\ \A j \in 1 .. Len(dataq) : q[j] = dataq[j]
  BY Pushing DEF TypeOK
<1>2. Len(dataq) \in Nat /\ Len(dataq) + 1 + Popped = Len(valid)
  BY DEF CountInv, TypeOK, Popped
<1>3. \A j \in 1 .. Len(dataq) : content[valid[j + Popped]] = Announced(dataq[j])
  BY DEF NamesInv
<1> HIDE DEF q
<1>4. ASSUME NEW j \in 1 .. Len(q) PROVE content[valid[j + Popped]] = Announced(q[j])
  <2>1. CASE j = Len(dataq) + 1
    BY <1>1, <1>2, <2>1
  <2>2. CASE j \in 1 .. Len(dataq)
    BY <1>1, <1>3, <2>2
  <2> QED
    BY <1>1, <1>2, <2>1, <2>2
<1> QED
  BY <1>4 DEF q

-----------------------------------------------------------------------------
(* The initial state *)

LEMMA InitIInv == Init => IInv
<1> SUFFICES ASSUME Init PROVE IInv
  OBVIOUS
<1> USE DEF Init, None, Channel!Init
<1>1. TypeOK
  <2>1. content \in [Slots -> Labels]
    BY DEF Labels
  <2> QED
    BY <2>1 DEF TypeOK, Cmds, Tags, Labels
<1>2. SchedInv
  BY DEF SchedInv, Filtering
<1>3. StartInv /\ RingInv
  BY DEF StartInv, RingInv
<1>4. CountInv /\ NamesInv /\ PendingInv
  BY DEF CountInv, NamesInv, PendingInv, MessageNamesBlock, Filtering, Popped,
         Unannounced
<1>5. HeapInv /\ OnlySettledSent
  BY WindowAssumption
  DEF HeapInv, HostSurvives, HostUp, DspSurvives, NoMessageLost, OnlySettledSent
<1> QED
  BY <1>1, <1>2, <1>3, <1>4, <1>5 DEF IInv

-----------------------------------------------------------------------------
(* One lemma per part of the invariant, one step per group of actions *)

LEMMA TypeStep == IInv /\ [Next]_vars => TypeOK'
<1> SUFFICES ASSUME IInv, [Next]_vars PROVE TypeOK'
  OBVIOUS
<1> USE DEF IInv, TypeOK, Cmds, Tags, Labels, None,
            ring, queues, loop, algo, upp, receiver, wifi
<1>1. CASE LoopGet
  BY <1>1, LoopRuns DEF LoopGet
<1>2. CASE LoopDispatch
  BY <1>2 DEF LoopDispatch, OnStart, OnEnable, OnDisable, OnConfig
<1>3. CASE LoopFree
  BY <1>3 DEF LoopFree, HeapInv, NoMessageLost
<1>4. CASE UppAcquire
  BY <1>4 DEF UppAcquire, Free
<1>5. CASE UppWake
  BY <1>5 DEF UppWake
<1>6. CASE UppTransfer
  BY <1>6 DEF UppTransfer
<1>7. CASE Isr
  BY <1>7 DEF Isr
<1>8. CASE UppCopy
  <2>1. content' \in [Slots -> Labels]
    BY <1>8 DEF UppCopy
  <2> QED
    BY <1>8, <2>1 DEF UppCopy
<1>9. CASE UppRelease
  BY <1>9 DEF UppRelease, RingInv
<1>10. CASE UppImport
  <2>1. data \in Slots
    BY <1>10 DEF UppImport, RingInv
  <2>2. rawUsed' \in Nat /\ heap' \in Nat
    BY <1>10, <2>1 DEF UppImport
  <2>4. Append(rawq, data) \in Seq(Slots)
    BY <2>1, Pushing
  <2>5. rawq' \in {rawq, Append(rawq, data)}
    BY <1>10 DEF UppImport
  <2>3. upc' \in {"post", "put", "fault"}
    BY <1>10 DEF UppImport
  <2>6. rawq' \in Seq(Slots)
    BY <2>4, <2>5
  <2> QED
    BY <1>10, <2>2, <2>3, <2>6 DEF UppImport
<1>11. CASE UppPost
  BY <1>11 DEF UppPost
<1>12. CASE UppPut
  BY <1>12 DEF UppPut
<1>13. CASE AlgoCheck
  <2>1. rawq # <<>> => Head(rawq) \in Slots /\ Tail(rawq) \in Seq(Slots)
    BY Popping
  <2>2. raw' \in Slots \cup {NoSlot} /\ rawq' \in Seq(Slots)
    BY <1>13, <2>1 DEF AlgoCheck
  <2>3. apc' \in {"pend", "begin"}
    BY <1>13 DEF AlgoCheck
  <2> QED
    BY <1>13, <2>2, <2>3 DEF AlgoCheck
<1>14. CASE AlgoPend
  BY <1>14, AlgoRuns DEF AlgoPend
<1>15. CASE AlgoBegin
  <2>1. content' \in [Slots -> Labels]
    BY <1>15 DEF AlgoBegin
  <2> QED
    BY <1>15, <2>1 DEF AlgoBegin
<1>16. CASE AlgoFinish
  <2>1. content' \in [Slots -> Labels]
    BY <1>16 DEF AlgoFinish
  <2>2. rawUsed' \in Nat
    BY <1>16 DEF AlgoFinish, SchedInv
  <2> QED
    BY <1>16, <2>1, <2>2 DEF AlgoFinish
<1>17. CASE AlgoAlloc
  BY <1>17 DEF AlgoAlloc
<1>18. CASE AlgoPut
  BY <1>18 DEF AlgoPut
<1>19. CASE MainStart
  <2>1. Append(cmdq, "START") \in Seq(Cmds)
    BY Pushing
  <2>2. cmdq' \in {cmdq, Append(cmdq, "START")}
    BY <1>19 DEF MainStart, SendCmd
  <2>3. heap' \in Nat
    BY <1>19 DEF MainStart, SendCmd
  <2>4. cmdq' \in Seq(Cmds)
    BY <2>1, <2>2
  <2>5. mpc' \in {"enable", "exited"} /\ dataq' = dataq
    BY <1>19 DEF MainStart, SendCmd
  <2> QED
    BY <1>19, <2>3, <2>4, <2>5 DEF MainStart
<1>20. CASE MainEnable
  <2>1. Append(cmdq, "ENABLE") \in Seq(Cmds)
    BY Pushing
  <2>2. cmdq' \in {cmdq, Append(cmdq, "ENABLE")}
    BY <1>20 DEF MainEnable, SendCmd
  <2>3. heap' \in Nat
    BY <1>20 DEF MainEnable, SendCmd
  <2>4. cmdq' \in Seq(Cmds)
    BY <2>1, <2>2
  <2>5. mpc' \in {"receiver", "exited"} /\ dataq' = dataq
    BY <1>20 DEF MainEnable, SendCmd
  <2> QED
    BY <1>20, <2>3, <2>4, <2>5 DEF MainEnable
<1>21. CASE MainReceiver
  BY <1>21 DEF MainReceiver
<1>22. CASE MainPhone
  BY <1>22 DEF MainPhone
<1>23. CASE PhoneCommand
  <2>1. PICK c \in PhoneCmds : SendCmd(c, "join")
    BY <1>23 DEF PhoneCommand
  <2>2. Append(cmdq, c) \in Seq(Cmds)
    BY PhoneAssumption, Pushing
  <2>3. cmdq' \in {cmdq, Append(cmdq, c)}
    BY <2>1 DEF SendCmd
  <2>4. heap' \in Nat /\ mpc' \in {"join", "exited"} /\ dataq' = dataq
    BY <2>1 DEF SendCmd
  <2>5. cmdq' \in Seq(Cmds)
    BY <2>2, <2>3
  <2> QED
    BY <1>23, <2>4, <2>5 DEF PhoneCommand
<1>24. CASE RecvPop
  BY <1>24 DEF RecvPop
<1>25. CASE RecvAcquire
  <2>3. valid # <<>> => Head(valid) \in Slots /\ Tail(valid) \in Seq(Slots)
    BY Popping
  <2>1. valid' \in Seq(Slots) /\ held' \in Slots \cup {NoSlot}
    BY <1>25, <2>3 DEF RecvAcquire
  <2>2. rpc' \in {"acquire", "offer"} /\ mpc' \in {mpc, "exited"}
    BY <1>25 DEF RecvAcquire
  <2> QED
    BY <1>25, <2>1, <2>2 DEF RecvAcquire
<1>26. CASE RecvOffer
  <2>1. held \in Slots
    BY <1>26 DEF RecvOffer, RingInv
  <2> QED
    BY <1>26, <2>1 DEF RecvOffer, Channel!Offer
<1>27. CASE RecvDecide
  BY <1>27 DEF RecvDecide, Channel!Accept, Channel!Refuse
<1>28. CASE RecvRelease
  <2>1. content' \in [Slots -> Labels]
    BY <1>28 DEF RecvRelease
  <2> QED
    BY <1>28, <2>1 DEF RecvRelease
<1>29. CASE RecvFree
  <2>1. heap' \in Nat
    BY <1>29 DEF RecvFree, HeapInv, NoMessageLost, RingInv
  <2> QED
    BY <1>29, <2>1 DEF RecvFree
<1>30. CASE WifiSender
  BY <1>30 DEF WifiSender, Channel!Collect, Channel!Deliver
<1>31. CASE UNCHANGED vars
  BY <1>31 DEF vars
<1> QED
  BY <1>1, <1>2, <1>3, <1>4, <1>5, <1>6, <1>7, <1>8, <1>9, <1>10, <1>11, <1>12,
     <1>13, <1>14, <1>15, <1>16, <1>17, <1>18, <1>19, <1>20, <1>21, <1>22, <1>23,
     <1>24, <1>25, <1>26, <1>27, <1>28, <1>29, <1>30, <1>31
  DEF Next, Loop, UPP, Algorism, Main, Receiver

LEMMA SchedStep == IInv /\ [Next]_vars => SchedInv'
<1> SUFFICES ASSUME IInv, [Next]_vars PROVE SchedInv'
  OBVIOUS
<1> USE DEF IInv, SchedInv, Filtering, None, ring, queues, loop, algo, upp
<1>1. CASE LoopDispatch
  BY <1>1 DEF LoopDispatch, OnStart, OnEnable, OnDisable, OnConfig
<1>2. CASE LoopGet \/ LoopFree
  BY <1>2 DEF LoopGet, LoopFree
<1>3. CASE UppAcquire
  BY <1>3, UppRuns DEF UppAcquire, TypeOK, HeapInv, DspSurvives
<1>4. CASE UppWake \/ UppTransfer \/ Isr \/ UppCopy \/ UppRelease
  BY <1>4 DEF UppWake, UppTransfer, Isr, UppCopy, UppRelease
<1>5. CASE UppImport
  <2>1. rawq = <<>> /\ apc = "pend" /\ sem = 0
    BY <1>5 DEF UppImport, TypeOK
  <2>2. CASE do_algorism # 0
    BY <1>5, <2>1, <2>2 DEF UppImport, TypeOK
  <2>3. CASE do_algorism = 0
    BY <1>5, <2>1, <2>3 DEF UppImport, TypeOK
  <2> QED
    BY <2>2, <2>3
<1>6. CASE UppPost
  <2>1. apc = "pend" /\ sem = 0 /\ rawq = <<data>> /\ Len(rawq) = 1
    BY <1>6 DEF UppPost
  <2> QED
    BY <1>6, <2>1 DEF UppPost, TypeOK
<1>14. CASE UppPut
  BY <1>14 DEF UppPut, TypeOK
<1>7. CASE AlgoCheck
  <2>1. CASE rawq = <<>>
    BY <1>7, <2>1 DEF AlgoCheck, TypeOK
  <2>2. CASE rawq # <<>>
    <3>1. upc = "acquire" /\ Len(rawq) = 1 /\ rawq' = <<>> /\ sem = 0
      BY <1>7, <2>2 DEF AlgoCheck, TypeOK
    <3> QED
      BY <1>7, <2>2, <3>1 DEF AlgoCheck, TypeOK
  <2> QED
    BY <2>1, <2>2
<1>8. CASE AlgoPend
  <2>1. upc = "acquire" /\ sem = 1
    BY <1>8, AlgoRuns DEF AlgoPend, TypeOK
  <2> QED
    BY <1>8, <2>1 DEF AlgoPend, TypeOK
<1>9. CASE AlgoBegin \/ AlgoFinish
  BY <1>9 DEF AlgoBegin, AlgoFinish, TypeOK
<1>10. CASE AlgoAlloc \/ AlgoPut
  BY <1>10 DEF AlgoAlloc, AlgoPut, TypeOK
<1>11. CASE Main \/ PhoneCommand
  BY <1>11 DEF Main, MainStart, MainEnable, MainReceiver, MainPhone, PhoneCommand
<1>12. CASE Receiver \/ WifiSender
  BY <1>12 DEF Receiver, RecvPop, RecvAcquire, RecvOffer, RecvDecide, RecvRelease,
               RecvFree, WifiSender
<1>13. CASE UNCHANGED vars
  BY <1>13 DEF vars
<1> QED
  BY <1>1, <1>2, <1>3, <1>4, <1>5, <1>6, <1>7, <1>8, <1>9, <1>10, <1>11, <1>12,
     <1>13, <1>14 DEF Next, Loop, UPP, Algorism

LEMMA StartStep == IInv /\ [Next]_vars => StartInv'
<1> SUFFICES ASSUME IInv, [Next]_vars PROVE StartInv'
  OBVIOUS
<1> USE DEF IInv, StartInv, ring, queues, loop, algo, upp
<1>1. CASE LoopGet
  BY <1>1, LoopRuns DEF LoopGet
<1>2. CASE LoopDispatch
  BY <1>2 DEF LoopDispatch, OnStart, OnEnable, OnDisable, OnConfig
<1>3. CASE LoopFree
  BY <1>3 DEF LoopFree
<1>4. CASE MainStart
  <2>1. heap < HeapSlots
    BY <1>4, RoomForCommand, WindowAssumption DEF MainStart, HeapInv
  <2>2. cmdq' = Append(cmdq, "START") /\ mpc' = "enable" /\ lpc' = lpc
    BY <1>4, <2>1 DEF MainStart, SendCmd
  <2>3. is_started = 0 => cmdq = <<>> /\ lpc = "get"
    BY <1>4 DEF MainStart
  <2>4. cmdq = <<>> => cmdq' # <<>> /\ Head(cmdq') = "START"
    BY <2>2
  <2> QED
    BY <1>4, <2>2, <2>3, <2>4 DEF MainStart
<1>5. CASE MainEnable
  <2>1. heap < HeapSlots
    BY <1>5, RoomForCommand, WindowAssumption DEF MainEnable, HeapInv, TypeOK
  <2>2. cmdq' = Append(cmdq, "ENABLE") /\ mpc' = "receiver" /\ lpc' = lpc
    BY <1>5, <2>1 DEF MainEnable, SendCmd
  <2>3. cmdq # <<>> => cmdq' # <<>> /\ Head(cmdq') = Head(cmdq)
    BY <2>2, Pushing, Popping DEF TypeOK, Cmds
  <2> QED
    BY <1>5, <2>2, <2>3 DEF MainEnable
<1>6. CASE PhoneCommand
  <2>1. heap < HeapSlots
    BY <1>6, RoomForCommand DEF PhoneCommand
  <2>2. PICK c \in PhoneCmds : SendCmd(c, "join")
    BY <1>6 DEF PhoneCommand
  <2>3. cmdq' = Append(cmdq, c) /\ mpc' = "join"
    BY <2>1, <2>2 DEF SendCmd
  <2>4. c \in Cmds
    BY PhoneAssumption DEF Cmds
  <2>5. cmdq # <<>> => cmdq' # <<>> /\ Head(cmdq') = Head(cmdq)
    BY <2>3, <2>4, Pushing, Popping DEF TypeOK
  <2> QED
    BY <1>6, <2>3, <2>5 DEF PhoneCommand
<1>7. CASE MainReceiver \/ MainPhone
  BY <1>7 DEF MainReceiver, MainPhone
<1>8. CASE UPP \/ UppWake \/ Isr \/ Algorism
  BY <1>8 DEF UPP, UppAcquire, UppWake, UppTransfer, Isr, UppCopy, UppRelease,
              UppImport, UppPost, UppPut, Algorism, AlgoCheck, AlgoPend, AlgoBegin,
              AlgoFinish, AlgoAlloc, AlgoPut
<1>9. CASE RecvAcquire
  BY <1>9, BlockThere DEF RecvAcquire
<1>10. CASE RecvPop \/ RecvOffer \/ RecvDecide \/ RecvRelease \/ RecvFree \/ WifiSender
  BY <1>10 DEF RecvPop, RecvOffer, RecvDecide, RecvRelease, RecvFree, WifiSender
<1>11. CASE UNCHANGED vars
  BY <1>11 DEF vars
<1> QED
  BY <1>1, <1>2, <1>3, <1>4, <1>5, <1>6, <1>7, <1>8, <1>9, <1>10, <1>11
  DEF Next, Loop, Main, Receiver

LEMMA RingStep == IInv /\ [Next]_vars => RingInv'
<1> SUFFICES ASSUME IInv, [Next]_vars PROVE RingInv'
  OBVIOUS
<1> USE DEF IInv, RingInv, ring, queues, loop, algo, upp, receiver
<1>1. CASE LoopDispatch
  BY <1>1 DEF LoopDispatch, OnStart, OnEnable, OnDisable, OnConfig, SchedInv, None
<1>2. CASE LoopGet \/ LoopFree
  BY <1>2 DEF LoopGet, LoopFree
<1>3. CASE UppAcquire
  <2>1. \A s \in Free : s # held /\ s \in Slots /\ \A j \in 1 .. Len(valid) : valid[j] # s
    BY DEF Free, Range, TypeOK
  <2> QED
    BY <1>3, <2>1, SlotsAssumption DEF UppAcquire
<1>4. CASE UppWake
  BY <1>4 DEF UppWake
<1>5. CASE UppTransfer \/ Isr
  BY <1>5 DEF UppTransfer, Isr
<1>6. CASE UppCopy
  BY <1>6 DEF UppCopy
<1>7. CASE UppRelease
  <2>2. /\ Len(valid') = Len(valid) + 1 /\ Len(valid) \in Nat
        /\ \A j \in 1 .. Len(valid) : valid'[j] = valid[j]
        /\ valid'[Len(valid) + 1] = data
    BY <1>7, Releasing
  <2>3. data # held /\ \A j \in 1 .. Len(valid) : valid[j] # data
    BY <1>7 DEF UppRelease
  <2>4. \A j \in 1 .. Len(valid') : j \in 1 .. Len(valid) \/ j = Len(valid) + 1
    BY <2>2
  <2>5. \A j, k \in 1 .. Len(valid') : j # k => valid'[j] # valid'[k]
    BY <2>2, <2>3, <2>4
  <2>6. \A j \in 1 .. Len(valid') : valid'[j] # held'
    BY <1>7, <2>2, <2>3, <2>4 DEF UppRelease
  <2> QED
    BY <1>7, <2>5, <2>6 DEF UppRelease
<1>8. CASE UppImport
  BY <1>8 DEF UppImport
<1>9. CASE UppPost \/ UppPut
  BY <1>9 DEF UppPost, UppPut
<1>10. CASE Algorism
  BY <1>10 DEF Algorism, AlgoCheck, AlgoPend, AlgoBegin, AlgoFinish, AlgoAlloc, AlgoPut
<1>11. CASE MainReceiver
  BY <1>11 DEF MainReceiver, None
<1>12. CASE MainStart \/ MainEnable \/ MainPhone \/ PhoneCommand
  BY <1>12 DEF MainStart, MainEnable, MainPhone, PhoneCommand, SendCmd
<1>13. CASE RecvPop
  <2>1. rmsg' \in Tags
    BY <1>13, Popping DEF RecvPop, TypeOK
  <2> QED
    BY <1>13, <2>1 DEF RecvPop, Tags, None
<1>14. CASE RecvAcquire
  <2>1. valid # <<>>
    BY <1>14, BlockThere DEF RecvAcquire
  <2>2. held' = valid[1]
    BY <1>14, Acquiring
  <2>3. /\ held' \in Slots /\ Len(valid') = Len(valid) - 1 /\ Len(valid) \in Nat
        /\ Len(valid) > 0 /\ \A j \in 1 .. Len(valid') : valid'[j] = valid[j + 1]
    BY <1>14, Acquiring
  <2>4. \A j \in 1 .. Len(valid') : j + 1 \in 1 .. Len(valid) /\ j + 1 # 1 /\ 1 \in 1 .. Len(valid)
    BY <2>3
  <2>5. \A j \in 1 .. Len(valid') : valid'[j] # held'
    BY <2>2, <2>3, <2>4
  <2>6. \A j, k \in 1 .. Len(valid') : j # k => valid'[j] # valid'[k]
    BY <2>3, <2>4
  <2>7. upc' = upc /\ data' = data /\ rpc' = "offer" /\ rmsg' = rmsg /\ mpc' = mpc
    BY <1>14, <2>1 DEF RecvAcquire
  <2>8. (upc \in {"dma", "wait", "release"} /\ data # NoSlot) =>
           data # held' /\ \A j \in 1 .. Len(valid') : valid'[j] # data
    BY <2>2, <2>3, <2>4
  <2>9. rpc = "acquire" /\ held' # NoSlot
    BY <1>14, <2>3, SlotsAssumption DEF RecvAcquire
  <2> QED
    BY <2>5, <2>6, <2>7, <2>8, <2>9 DEF None
<1>15. CASE RecvOffer \/ RecvDecide
  BY <1>15 DEF RecvOffer, RecvDecide, None
<1>16. CASE RecvRelease
  <2>1. \A j \in 1 .. Len(valid) : valid[j] \in Slots
    BY DEF TypeOK
  <2>2. \A j \in 1 .. Len(valid) : valid[j] # NoSlot
    BY <2>1, SlotsAssumption
  <2> QED
    BY <1>16, <2>2 DEF RecvRelease, None
<1>17. CASE RecvFree
  BY <1>17 DEF RecvFree, None
<1>18. CASE WifiSender \/ UNCHANGED vars
  BY <1>18 DEF WifiSender, vars
<1> QED
  BY <1>1, <1>2, <1>3, <1>4, <1>5, <1>6, <1>7, <1>8, <1>9, <1>10, <1>11, <1>12,
     <1>13, <1>14, <1>15, <1>16, <1>17, <1>18 DEF Next, Loop, UPP, Main, Receiver
LEMMA CountStep == IInv /\ [Next]_vars => CountInv'
<1> SUFFICES ASSUME IInv, [Next]_vars PROVE CountInv'
  OBVIOUS
<1> USE DEF IInv, CountInv, Popped, Unannounced, Filtering, None,
            ring, queues, loop, algo, upp, receiver, wifi
<1>1. CASE LoopGet \/ LoopFree
  BY <1>1 DEF LoopGet, LoopFree
<1>2. CASE LoopDispatch
  BY <1>2 DEF LoopDispatch, OnStart, OnEnable, OnDisable, OnConfig, SchedInv
<1>3. CASE UppAcquire \/ UppWake \/ UppTransfer \/ Isr \/ UppCopy
  BY <1>3 DEF UppAcquire, UppWake, UppTransfer, Isr, UppCopy
<1>4. CASE UppRelease
  <2>2. Len(valid') = Len(valid) + 1
    BY <1>4, Releasing
  <2>3. rawq = <<>> /\ apc = "pend"
    BY <1>4 DEF UppRelease, SchedInv
  <2> QED
    BY <1>4, <2>2, <2>3 DEF UppRelease, TypeOK
<1>5. CASE UppImport
  <2>1. heap < HeapSlots
    BY <1>5, RoomForData DEF UppImport
  <2>2. upc' \in {"post", "put"}
    BY <1>5, <2>1 DEF UppImport
  <2> QED
    BY <1>5, <2>2 DEF UppImport
<1>6. CASE UppPost
  <2>1. rawq = <<data>>
    BY <1>6 DEF UppPost, SchedInv
  <2>2. rawq # <<>>
    BY <2>1
  <2> QED
    BY <1>6, <2>2 DEF UppPost
<1>7. CASE UppPut
  <2>1. rawq = <<>> /\ apc = "pend"
    BY <1>7 DEF UppPut, SchedInv
  <2>2. Len(dataq') = Len(dataq) + 1
    BY <1>7, Pushing DEF UppPut, TypeOK, Tags
  <2> QED
    BY <1>7, <2>1, <2>2 DEF UppPut, TypeOK
<1>8. CASE AlgoCheck
  BY <1>8 DEF AlgoCheck, SchedInv, TypeOK
<1>9. CASE AlgoPend \/ AlgoBegin \/ AlgoFinish
  BY <1>9 DEF AlgoPend, AlgoBegin, AlgoFinish
<1>10. CASE AlgoAlloc
  <2>1. heap < HeapSlots
    BY <1>10, RoomForData DEF AlgoAlloc
  <2> QED
    BY <1>10, <2>1 DEF AlgoAlloc
<1>11. CASE AlgoPut
  <2>1. rawq = <<>> /\ upc = "acquire"
    BY <1>11 DEF AlgoPut, SchedInv
  <2>2. Len(dataq') = Len(dataq) + 1
    BY <1>11, Pushing DEF AlgoPut, TypeOK, Tags
  <2> QED
    BY <1>11, <2>1, <2>2 DEF AlgoPut, TypeOK
<1>12. CASE MainStart \/ MainEnable \/ PhoneCommand
  BY <1>12 DEF MainStart, MainEnable, PhoneCommand, SendCmd
<1>13. CASE MainReceiver \/ MainPhone
  BY <1>13 DEF MainReceiver, MainPhone, RingInv
<1>14. CASE RecvPop
  <2>1. Len(dataq') = Len(dataq) - 1
    BY <1>14, Popping DEF RecvPop, TypeOK
  <2> QED
    BY <1>14, <2>1 DEF RecvPop, TypeOK
<1>15. CASE RecvAcquire
  <2>1. valid # <<>>
    BY <1>15, BlockThere DEF RecvAcquire
  <2>2. Len(valid') = Len(valid) - 1
    BY <1>15, <2>1, Popping DEF RecvAcquire, TypeOK
  <2> QED
    BY <1>15, <2>1, <2>2 DEF RecvAcquire, TypeOK
<1>16. CASE RecvOffer \/ RecvDecide
  BY <1>16 DEF RecvOffer, RecvDecide
<1>17. CASE RecvRelease \/ RecvFree
  BY <1>17 DEF RecvRelease, RecvFree
<1>18. CASE WifiSender \/ UNCHANGED vars
  BY <1>18 DEF WifiSender, vars
<1> QED
  BY <1>1, <1>2, <1>3, <1>4, <1>5, <1>6, <1>7, <1>8, <1>9, <1>10, <1>11, <1>12,
     <1>13, <1>14, <1>15, <1>16, <1>17, <1>18
  DEF Next, Loop, UPP, Algorism, Main, Receiver

LEMMA Sending ==
  ASSUME TypeOK, NoMessageLost, Len(cmdq') = Len(cmdq) + 1, heap' = heap + 1,
         dataq' = dataq, lpc' = lpc, rmsg' = rmsg, apc' = apc, upc' = upc
  PROVE  NoMessageLost'
BY DEF TypeOK, NoMessageLost

LEMMA HeapStep == IInv /\ [Next]_vars => HeapInv'
<1> SUFFICES ASSUME IInv, [Next]_vars PROVE HeapInv'
  OBVIOUS
<1> USE WindowAssumption
    DEF IInv, HeapInv, HostSurvives, HostUp, DspSurvives, NoMessageLost, None,
        ring, queues, loop, algo, upp, receiver, wifi
<1>1. CASE LoopGet
  <2>1. Len(cmdq') = Len(cmdq) - 1 /\ Len(cmdq) \in Nat
    BY <1>1, LoopRuns, Popping DEF LoopGet, TypeOK
  <2>2. /\ lpc = "get" /\ lpc' = "dispatch" /\ heap' = heap /\ dataq' = dataq
        /\ rmsg' = rmsg /\ apc' = apc /\ upc' = upc /\ mpc' = mpc
    BY <1>1 DEF LoopGet
  <2>3. Len(dataq) \in Nat
    BY DEF TypeOK
  <2>4. heap = Len(cmdq') + 1 + Len(dataq) + (IF rmsg # None THEN 1 ELSE 0)
               + (IF apc = "put" THEN 1 ELSE 0) + (IF upc = "put" THEN 1 ELSE 0)
    BY <2>1, <2>2, <2>3
  <2>5. NoMessageLost'
    BY <2>1, <2>2, <2>3, <2>4
  <2>6. /\ Len(cmdq') <= CmdWindow /\ mpc' = "start" => Len(cmdq') = 0
        /\ mpc' = "enable" => Len(cmdq') <= 1
    BY <2>1, <2>2, <1>1, LoopRuns DEF LoopGet
  <2> QED
    BY <2>2, <2>5, <2>6
<1>2. CASE LoopDispatch
  BY <1>2 DEF LoopDispatch, OnStart, OnEnable, OnDisable, OnConfig, SchedInv
<1>3. CASE LoopFree
  BY <1>3 DEF LoopFree, TypeOK
<1>4. CASE UppAcquire \/ UppWake \/ UppTransfer \/ Isr \/ UppCopy
  BY <1>4 DEF UppAcquire, UppWake, UppTransfer, Isr, UppCopy
<1>5. CASE UppRelease \/ UppPost
  BY <1>5 DEF UppRelease, UppPost
<1>6. CASE UppImport
  <2>1. heap < HeapSlots
    BY <1>6, RoomForData DEF UppImport
  <2>2. NoMessageLost'
    BY <1>6, <2>1 DEF UppImport, TypeOK
  <2> QED
    BY <1>6, <2>1, <2>2 DEF UppImport
<1>7. CASE UppPut
  <2>2. Len(dataq') = Len(dataq) + 1
    BY <1>7, Pushing DEF UppPut, TypeOK, Tags
  <2> QED
    BY <1>7, <2>2 DEF UppPut, TypeOK
<1>8. CASE AlgoCheck \/ AlgoPend \/ AlgoBegin \/ AlgoFinish
  BY <1>8 DEF AlgoCheck, AlgoPend, AlgoBegin, AlgoFinish
<1>9. CASE AlgoAlloc
  <2>1. heap < HeapSlots
    BY <1>9, RoomForData DEF AlgoAlloc
  <2> QED
    BY <1>9, <2>1 DEF AlgoAlloc, TypeOK
<1>10. CASE AlgoPut
  <2>2. Len(dataq') = Len(dataq) + 1
    BY <1>10, Pushing DEF AlgoPut, TypeOK, Tags
  <2> QED
    BY <1>10, <2>2 DEF AlgoPut, TypeOK
<1>11. CASE MainStart
  <2>1. Len(cmdq) = 0
    BY <1>11 DEF MainStart
  <2>4. Len(cmdq) < CmdWindow
    BY <2>1
  <2>2. heap < HeapSlots
    BY <2>4, RoomForCommand
  <2>3. cmdq' = Append(cmdq, "START") /\ Len(cmdq') = 1
    BY <1>11, <2>1, <2>2, Pushing DEF MainStart, SendCmd, TypeOK, Cmds
  <2>5. /\ heap' = heap + 1 /\ mpc' = "enable" /\ dataq' = dataq /\ lpc' = lpc
        /\ rmsg' = rmsg /\ apc' = apc /\ upc' = upc
    BY <1>11, <2>2 DEF MainStart, SendCmd
  <2>7. Len(cmdq') = Len(cmdq) + 1
    BY <2>1, <2>3
  <2>8. TypeOK /\ NoMessageLost
    OBVIOUS
  <2>6. NoMessageLost'
    BY <2>5, <2>7, <2>8, Sending
  <2> QED
    BY <2>3, <2>5, <2>6
<1>12. CASE MainEnable
  <2>1. Len(cmdq) <= 1 /\ Len(cmdq) \in Nat
    BY <1>12 DEF MainEnable, TypeOK
  <2>2. heap < HeapSlots
    BY <2>1, RoomForCommand
  <2>3. Len(cmdq') = Len(cmdq) + 1
    BY <1>12, <2>1, <2>2, Pushing DEF MainEnable, SendCmd, TypeOK, Cmds
  <2> QED
    BY <1>12, <2>1, <2>2, <2>3 DEF MainEnable, SendCmd, TypeOK
<1>13. CASE PhoneCommand
  <2>1. Len(cmdq) < CmdWindow /\ Len(cmdq) \in Nat /\ mpc = "join"
    BY <1>13 DEF PhoneCommand, TypeOK
  <2>2. heap < HeapSlots
    BY <2>1, RoomForCommand
  <2>3. PICK c \in PhoneCmds : SendCmd(c, "join")
    BY <1>13 DEF PhoneCommand
  <2>4. c \in Cmds
    BY PhoneAssumption DEF Cmds
  <2>5. Len(cmdq') = Len(cmdq) + 1 /\ heap' = heap + 1 /\ mpc' = "join" /\ dataq' = dataq
    BY <2>2, <2>3, <2>4, Pushing DEF SendCmd, TypeOK
  <2> QED
    BY <1>13, <2>1, <2>5 DEF PhoneCommand, TypeOK
<1>14. CASE MainReceiver \/ MainPhone
  BY <1>14 DEF MainReceiver, MainPhone
<1>15. CASE RecvPop
  <2>3. Len(Tail(dataq)) = Len(dataq) - 1 /\ Head(dataq) \in Tags
    BY <1>15, Popping DEF RecvPop, TypeOK
  <2>1. Len(dataq') = Len(dataq) - 1 /\ rmsg' # None
    BY <1>15, <2>3 DEF RecvPop, Tags
  <2>2. rmsg = None
    BY <1>15 DEF RecvPop, RingInv
  <2> QED
    BY <1>15, <2>1, <2>2 DEF RecvPop, TypeOK
<1>16. CASE RecvAcquire
  BY <1>16, BlockThere DEF RecvAcquire
<1>17. CASE RecvOffer \/ RecvDecide
  BY <1>17 DEF RecvOffer, RecvDecide
<1>18. CASE RecvRelease
  BY <1>18 DEF RecvRelease
<1>19. CASE RecvFree
  BY <1>19 DEF RecvFree, TypeOK, RingInv
<1>20. CASE WifiSender \/ UNCHANGED vars
  BY <1>20 DEF WifiSender, vars
<1> QED
  BY <1>1, <1>2, <1>3, <1>4, <1>5, <1>6, <1>7, <1>8, <1>9, <1>10, <1>11, <1>12,
     <1>13, <1>14, <1>15, <1>16, <1>17, <1>18, <1>19, <1>20
  DEF Next, Loop, UPP, Algorism, Main, Receiver
LEMMA NamesStep == IInv /\ [Next]_vars => NamesInv'
<1> SUFFICES ASSUME IInv, [Next]_vars PROVE NamesInv'
  OBVIOUS
<1> USE DEF IInv, NamesInv, MessageNamesBlock, Popped, None,
            ring, queues, loop, algo, upp, receiver, wifi
<1> DEFINE V == 1 .. Len(valid)
<1>0. /\ Len(valid) \in Nat /\ Len(dataq) \in Nat
      /\ \A j \in 1 .. Len(dataq) : j + Popped \in V
      /\ \A j \in 1 .. Len(dataq) : Unannounced = 1 => j + Popped # Len(valid)
      /\ rpc = "acquire" => 1 \in V /\ (Unannounced = 1 => 1 # Len(valid))
      /\ Unannounced = 1 => Len(valid) \in V
  BY Places
<1>a. content \in [Slots -> Labels] /\ \A j \in V : valid[j] \in Slots
  BY DEF TypeOK
<1>1. CASE Loop \/ UppAcquire \/ UppWake \/ UppTransfer \/ Isr
  BY <1>1 DEF Loop, LoopGet, LoopDispatch, LoopFree,
              UppAcquire, UppWake, UppTransfer, Isr
<1>2. CASE UppCopy
  <2>1. CASE data = NoSlot
    BY <1>2, <2>1 DEF UppCopy
  <2>2. CASE data # NoSlot
    <3>1. data # held /\ \A j \in V : valid[j] # data
      BY <1>2, <2>2 DEF UppCopy, RingInv
    <3>2. content' = [content EXCEPT ![data] = "raw"]
      BY <1>2, <2>2 DEF UppCopy
    <3>3. held \in Slots => content'[held] = content[held]
      BY <3>1, <3>2, <1>a
    <3>4. \A j \in V : content'[valid[j]] = content[valid[j]]
      BY <3>1, <3>2, <1>a
    <3>5. /\ valid' = valid /\ dataq' = dataq /\ rpc' = rpc /\ rmsg' = rmsg
          /\ held' = held
      BY <1>2 DEF UppCopy
    <3>6. rpc \in {"offer", "decide", "release"} => held \in Slots
      BY DEF RingInv, TypeOK
    <3> QED
      BY <1>0, <3>3, <3>4, <3>5, <3>6 DEF Announced
  <2> QED
    BY <2>1, <2>2
<1>3. CASE UppRelease
  <2>1. \A j \in V : valid'[j] = valid[j]
    BY <1>3, Releasing
  <2>2. /\ dataq' = dataq /\ rpc' = rpc /\ rmsg' = rmsg /\ held' = held
        /\ content' = content
    BY <1>3 DEF UppRelease
  <2> QED
    BY <1>0, <2>1, <2>2 DEF Announced
<1>4. CASE UppImport \/ UppPost
  BY <1>4 DEF UppImport, UppPost
<1>5. CASE UppPut
  <2>1. Unannounced = 1 /\ content[valid[Len(valid)]] = "raw"
    BY <1>5 DEF UppPut, Unannounced, PendingInv, Newest
  <2>2. dataq' = Append(dataq, "RAW_DATA")
    BY <1>5 DEF UppPut
  <2>3. content[valid[Len(valid)]] = Announced("RAW_DATA")
    BY <2>1 DEF Announced
  <2>4. \A j \in 1 .. Len(dataq') :
           content[valid[j + Popped]] = Announced(dataq'[j])
    BY <2>1, <2>2, <2>3, Announcing DEF Tags
  <2>5. /\ valid' = valid /\ content' = content /\ rpc' = rpc /\ rmsg' = rmsg
        /\ held' = held
    BY <1>5 DEF UppPut
  <2> QED
    BY <2>4, <2>5 DEF Announced
<1>6. CASE AlgoCheck \/ AlgoPend \/ AlgoAlloc
  BY <1>6 DEF AlgoCheck, AlgoPend, AlgoAlloc
<1>7. CASE AlgoBegin \/ AlgoFinish
  <2>1. Unannounced = 1 /\ raw = valid[Len(valid)]
    BY <1>7 DEF AlgoBegin, AlgoFinish, Unannounced, Filtering, PendingInv, Newest
  <2>2. \E l \in Labels : content' = [content EXCEPT ![raw] = l]
    BY <1>7 DEF AlgoBegin, AlgoFinish, Labels
  <2>3. \A j, k \in V : j # k => valid[j] # valid[k]
    BY DEF RingInv
  <2>4. \A j \in V : j # Len(valid) => content'[valid[j]] = content[valid[j]]
    BY <1>0, <1>a, <2>1, <2>2, <2>3
  <2>5. held # raw
    BY <1>0, <2>1 DEF RingInv
  <2>6. held \in Slots => content'[held] = content[held]
    BY <1>a, <2>2, <2>5
  <2>7. /\ valid' = valid /\ dataq' = dataq /\ rpc' = rpc /\ rmsg' = rmsg
        /\ held' = held
    BY <1>7 DEF AlgoBegin, AlgoFinish
  <2>8. rpc \in {"offer", "decide", "release"} => held \in Slots
    BY DEF RingInv, TypeOK
  <2> QED
    BY <1>0, <2>1, <2>4, <2>6, <2>7, <2>8 DEF Announced
<1>8. CASE AlgoPut
  <2>1. Unannounced = 1 /\ content[valid[Len(valid)]] = "filtered"
    BY <1>8 DEF AlgoPut, Unannounced, Filtering, PendingInv, Newest
  <2>2. dataq' = Append(dataq, "ALGORISM_DATA")
    BY <1>8 DEF AlgoPut
  <2>3. content[valid[Len(valid)]] = Announced("ALGORISM_DATA")
    BY <2>1 DEF Announced
  <2>4. \A j \in 1 .. Len(dataq') :
           content[valid[j + Popped]] = Announced(dataq'[j])
    BY <2>1, <2>2, <2>3, Announcing DEF Tags
  <2>5. /\ valid' = valid /\ content' = content /\ rpc' = rpc /\ rmsg' = rmsg
        /\ held' = held
    BY <1>8 DEF AlgoPut
  <2> QED
    BY <2>4, <2>5 DEF Announced
<1>9. CASE MainReceiver
  BY <1>9 DEF MainReceiver, RingInv
<1>10. CASE MainStart \/ MainEnable \/ MainPhone \/ PhoneCommand
  BY <1>10 DEF MainStart, MainEnable, MainPhone, PhoneCommand, SendCmd
<1>11. CASE RecvPop
  <2>1. /\ dataq # <<>> /\ rmsg' = Head(dataq) /\ dataq' = Tail(dataq)
        /\ rpc = "pop" /\ rpc' = "acquire"
        /\ valid' = valid /\ content' = content /\ held' = held
    BY <1>11 DEF RecvPop
  <2>2. /\ Len(dataq) > 0 /\ rmsg' = dataq[1] /\ Len(dataq') = Len(dataq) - 1
        /\ \A j \in 1 .. Len(dataq') : dataq'[j] = dataq[j + 1]
    BY <2>1, Popping DEF TypeOK
  <2>3. content[valid[1]] = Announced(dataq[1])
    BY <1>0, <2>1, <2>2
  <2>4. \A j \in 1 .. Len(dataq') :
           content[valid[j + 1]] = Announced(dataq[j + 1])
    BY <1>0, <2>1, <2>2
  <2> QED
    BY <2>1, <2>2, <2>3, <2>4 DEF Announced
<1>12. CASE RecvAcquire
  <2>1. /\ held' = valid[1] /\ Len(valid') = Len(valid) - 1
        /\ \A j \in 1 .. Len(valid') : valid'[j] = valid[j + 1]
    BY <1>12, Acquiring
  <2>2. /\ rpc = "acquire" /\ rpc' = "offer" /\ dataq' = dataq /\ rmsg' = rmsg
        /\ content' = content
    BY <1>12, BlockThere DEF RecvAcquire
  <2>3. \A j \in 1 .. Len(dataq) : j \in 1 .. Len(valid') /\ j + 1 \in V
    BY <1>0, <2>1, <2>2
  <2>4. \A j \in 1 .. Len(dataq) : content[valid[j + 1]] = Announced(dataq[j])
    BY <2>2
  <2>5. \A j \in 1 .. Len(dataq) : content[valid'[j]] = Announced(dataq[j])
    BY <2>1, <2>3, <2>4
  <2>6. \A j \in 1 .. Len(dataq) : content'[valid'[j + Popped']] = Announced(dataq[j])
    BY <2>2, <2>5
  <2>7. content'[held'] = Announced(rmsg')
    BY <2>1, <2>2
  <2> QED
    BY <2>2, <2>6, <2>7 DEF Announced
<1>13. CASE RecvOffer \/ RecvDecide
  BY <1>13 DEF RecvOffer, RecvDecide
<1>14. CASE RecvRelease
  <2>1. content' = [content EXCEPT ![held] = "empty"]
    BY <1>14 DEF RecvRelease
  <2>2. \A j \in V : valid[j] # held
    BY DEF RingInv
  <2>3. \A j \in V : content'[valid[j]] = content[valid[j]]
    BY <1>a, <2>1, <2>2
  <2>4. /\ valid' = valid /\ dataq' = dataq /\ rpc = "release" /\ rpc' = "free"
        /\ rmsg' = rmsg
    BY <1>14 DEF RecvRelease
  <2> QED
    BY <1>0, <2>3, <2>4 DEF Announced
<1>15. CASE RecvFree \/ WifiSender \/ UNCHANGED vars
  BY <1>15 DEF RecvFree, WifiSender, vars
<1> QED
  BY <1>1, <1>2, <1>3, <1>4, <1>5, <1>6, <1>7, <1>8, <1>9, <1>10, <1>11, <1>12,
     <1>13, <1>14, <1>15
  DEF Next, UPP, Algorism, Main, Receiver
LEMMA PendingStep == IInv /\ [Next]_vars => PendingInv'
<1> SUFFICES ASSUME IInv, [Next]_vars PROVE PendingInv'
  OBVIOUS
<1> USE DEF IInv, PendingInv, Newest, Filtering, None,
            ring, queues, loop, algo, upp, receiver, wifi
<1>0. /\ Len(valid) \in Nat /\ Unannounced = 1 => Len(valid) \in 1 .. Len(valid)
      /\ Unannounced = 1 => valid[Len(valid)] \in Slots
  BY Places DEF TypeOK
<1>a. content \in [Slots -> Labels]
  BY DEF TypeOK
<1>1. CASE LoopGet \/ LoopFree
  BY <1>1 DEF LoopGet, LoopFree
<1>2. CASE LoopDispatch
  BY <1>2 DEF LoopDispatch, OnStart, OnEnable, OnDisable, OnConfig, SchedInv
<1>3. CASE UppAcquire \/ UppWake \/ UppTransfer \/ Isr
  BY <1>3 DEF UppAcquire, UppWake, UppTransfer, Isr
<1>4. CASE UppCopy
  <2>1. rawq = <<>> /\ apc = "pend" /\ rawq' = rawq /\ apc' = apc /\ data' = data
    BY <1>4 DEF UppCopy, SchedInv
  <2>2. CASE data = NoSlot
    BY <1>4, <2>1, <2>2 DEF UppCopy
  <2>3. CASE data # NoSlot
    <3>1. content' = [content EXCEPT ![data] = "raw"] /\ upc' = "release"
      BY <1>4, <2>3 DEF UppCopy
    <3>2. content'[data] = "raw"
      BY <1>a, <2>3, <3>1 DEF TypeOK
    <3> QED
      BY <2>1, <3>1, <3>2
  <2> QED
    BY <2>2, <2>3
<1>5. CASE UppRelease
  <2>1. Len(valid') = Len(valid) + 1 /\ valid'[Len(valid) + 1] = data
    BY <1>5, Releasing
  <2>2. rawq = <<>> /\ apc = "pend" /\ content[data] = "raw"
    BY <1>5 DEF UppRelease, SchedInv
  <2>3. /\ rawq' = rawq /\ apc' = apc /\ content' = content /\ data' = data
        /\ upc' = "import"
    BY <1>5 DEF UppRelease
  <2> QED
    BY <2>1, <2>2, <2>3
<1>6. CASE UppImport
  <2>1. rawq = <<>> /\ apc = "pend" /\ Newest = data /\ content[data] = "raw"
    BY <1>6 DEF UppImport, SchedInv
  <2>2. rawq' = <<>> \/ rawq' = <<data>>
    BY <1>6, <2>1 DEF UppImport
  <2>3. /\ valid' = valid /\ content' = content /\ data' = data /\ apc' = apc
        /\ upc' \in {"post", "put", "fault"}
    BY <1>6 DEF UppImport
  <2> QED
    BY <2>1, <2>2, <2>3
<1>7. CASE UppPost \/ UppPut
  BY <1>7 DEF UppPost, UppPut
<1>8. CASE AlgoCheck
  <2>1. CASE rawq = <<>>
    BY <1>8, <2>1 DEF AlgoCheck
  <2>2. CASE rawq # <<>>
    <3>1. upc = "acquire" /\ rawq' = <<>> /\ raw' = rawq[1] /\ apc' = "begin"
      BY <1>8, <2>2 DEF AlgoCheck, SchedInv, TypeOK
    <3>2. valid' = valid /\ upc' = upc
      BY <1>8 DEF AlgoCheck
    <3> QED
      BY <2>2, <3>1, <3>2
  <2> QED
    BY <2>1, <2>2
<1>9. CASE AlgoPend
  BY <1>9 DEF AlgoPend
<1>10. CASE AlgoBegin
  BY <1>10 DEF AlgoBegin, SchedInv
<1>11. CASE AlgoFinish
  <2>1. Unannounced = 1 /\ raw = valid[Len(valid)]
    BY <1>11 DEF AlgoFinish, Unannounced
  <2>2. content' = [content EXCEPT ![raw] = "filtered"]
    BY <1>11 DEF AlgoFinish
  <2>3. content'[raw] = "filtered"
    BY <1>0, <1>a, <2>1, <2>2
  <2>4. rawq = <<>> /\ upc = "acquire"
    BY <1>11 DEF AlgoFinish, SchedInv
  <2>5. /\ valid' = valid /\ rawq' = rawq /\ upc' = upc /\ raw' = raw
        /\ apc' = "alloc"
    BY <1>11 DEF AlgoFinish
  <2> QED
    BY <2>1, <2>3, <2>4, <2>5
<1>12. CASE AlgoAlloc
  BY <1>12 DEF AlgoAlloc
<1>13. CASE AlgoPut
  BY <1>13 DEF AlgoPut, SchedInv
<1>14. CASE Main \/ PhoneCommand
  BY <1>14 DEF Main, MainStart, MainEnable, MainReceiver, MainPhone, PhoneCommand,
               SendCmd
<1>15. CASE RecvPop \/ RecvOffer \/ RecvDecide \/ RecvFree
  BY <1>15 DEF RecvPop, RecvOffer, RecvDecide, RecvFree
<1>16. CASE RecvAcquire
  <2>1. /\ Len(valid') = Len(valid) - 1
        /\ \A j \in 1 .. Len(valid') : valid'[j] = valid[j + 1]
    BY <1>16, Acquiring
  <2>2. /\ content' = content /\ rawq' = rawq /\ upc' = upc /\ apc' = apc
        /\ raw' = raw /\ data' = data
    BY <1>16 DEF RecvAcquire
  <2>3. Unannounced = 1 => 1 # Len(valid)
    BY <1>16, Places DEF RecvAcquire
  <2>4. Unannounced = 1 => valid'[Len(valid')] = valid[Len(valid)]
    BY <1>0, <2>1, <2>3
  <2>5. upc \in {"import", "post", "put"} \/ rawq # <<>> \/ Filtering =>
           Unannounced = 1
    BY DEF Unannounced
  <2> QED
    BY <2>2, <2>4, <2>5
<1>17. CASE RecvRelease
  <2>1. content' = [content EXCEPT ![held] = "empty"]
    BY <1>17 DEF RecvRelease
  <2>2. Unannounced = 1 => valid[Len(valid)] # held
    BY <1>0 DEF RingInv
  <2>3. Unannounced = 1 => content'[valid[Len(valid)]] = content[valid[Len(valid)]]
    BY <1>0, <1>a, <2>1, <2>2
  <2>4. upc = "release" => content'[data] = content[data]
    BY <1>17, <1>a, <2>1 DEF RingInv, TypeOK
  <2>5. /\ rawq' = rawq /\ upc' = upc /\ apc' = apc /\ valid' = valid
        /\ raw' = raw /\ data' = data
    BY <1>17 DEF RecvRelease
  <2>6. upc \in {"import", "post", "put"} \/ rawq # <<>> \/ Filtering =>
           Unannounced = 1
    BY DEF Unannounced
  <2> QED
    BY <2>3, <2>4, <2>5, <2>6
<1>18. CASE WifiSender \/ UNCHANGED vars
  BY <1>18 DEF WifiSender, vars
<1> QED
  BY <1>1, <1>2, <1>3, <1>4, <1>5, <1>6, <1>7, <1>8, <1>9, <1>10, <1>11, <1>12,
     <1>13, <1>14, <1>15, <1>16, <1>17, <1>18
  DEF Next, Loop, UPP, Algorism, Receiver

LEMMA SettledStep == IInv /\ [Next]_vars => OnlySettledSent'
<1> SUFFICES ASSUME IInv, [Next]_vars PROVE OnlySettledSent'
  OBVIOUS
<1> USE DEF IInv, OnlySettledSent, wifi
<1>1. CASE RecvOffer
  <2>1. content[held] \in {"raw", "filtered"}
    BY <1>1 DEF RecvOffer, NamesInv, MessageNamesBlock, Announced
  <2> QED
    BY <1>1, <2>1 DEF RecvOffer, Channel!Offer
<1>2. CASE RecvDecide
  BY <1>2 DEF RecvDecide, Channel!Accept, Channel!Refuse
<1>3. CASE WifiSender
  BY <1>3 DEF WifiSender, Channel!Collect, Channel!Deliver
<1>4. CASE Loop
  BY <1>4 DEF Loop, LoopGet, LoopDispatch, LoopFree
<1>5. CASE UPP \/ UppWake \/ Isr \/ Algorism
  BY <1>5 DEF UPP, UppAcquire, UppWake, UppTransfer, Isr, UppCopy, UppRelease,
              UppImport, UppPost, UppPut, Algorism, AlgoCheck, AlgoPend, AlgoBegin,
              AlgoFinish, AlgoAlloc, AlgoPut
<1>6. CASE Main \/ PhoneCommand
  BY <1>6 DEF Main, MainStart, MainEnable, MainReceiver, MainPhone, PhoneCommand
<1>7. CASE RecvPop \/ RecvAcquire \/ RecvRelease \/ RecvFree
  BY <1>7 DEF RecvPop, RecvAcquire, RecvRelease, RecvFree
<1>8. CASE UNCHANGED vars
  BY <1>8 DEF vars
<1> QED
  BY <1>1, <1>2, <1>3, <1>4, <1>5, <1>6, <1>7, <1>8 DEF Next, Receiver

-----------------------------------------------------------------------------
(* The theorems *)

LEMMA NextIInv == IInv /\ [Next]_vars => IInv'
<1> SUFFICES ASSUME IInv, [Next]_vars PROVE IInv'
  OBVIOUS
<1> QED
  BY TypeStep, SchedStep, StartStep, RingStep, CountStep, NamesStep, PendingStep,
     HeapStep, SettledStep DEF IInv

\* IInv holds in every reachable state: it holds at first and every step of the
\* six tasks and threads preserves it.
THEOREM Invariance == SafeSpec => []IInv
BY InitIInv, NextIInv, PTL DEF SafeSpec

\* Every variable keeps its type: no count of messages, semaphore posts or Raw
\* records becomes negative and every queue holds blocks, commands or tags.
THEOREM TypeCorrect == SafeSpec => []TypeOK
BY Invariance, PTL DEF IInv

\* The block the receiver thread acquires from the ring is the one its message
\* announces, and it is finished.
THEOREM MessagesNameBlocks == SafeSpec => []MessageNamesBlock
BY Invariance, PTL DEF IInv, NamesInv

\* What goes to the phone is never an empty or a half filtered block.
THEOREM SettledSent == SafeSpec => []OnlySettledSent
BY Invariance, PTL DEF IInv

\* The host's LOG_FATALs, for a block missing from the ring and for a message
\* that cannot be allocated, are not reached.
THEOREM HostNeverExits == SafeSpec => []HostSurvives
BY Invariance, PTL DEF IInv, HeapInv

\* MessageQ_alloc does not fail on the DSP, where its result is not tested.
THEOREM DspNeverFaults == SafeSpec => []DspSurvives
BY Invariance, PTL DEF IInv, HeapInv

\* The workshop's queue holds one block at most, and no Raw record leaks.
THEOREM OneRaw == SafeSpec => []OneRawAtATime
<1>1. IInv => OneRawAtATime
  <2> SUFFICES ASSUME IInv PROVE OneRawAtATime
    OBVIOUS
  <2> USE DEF IInv, SchedInv, TypeOK
  <2>1. CASE upc = "post"
    <3>1. Len(rawq) = 1
      BY <2>1
    <3> QED
      BY <2>1, <3>1 DEF OneRawAtATime, None
  <2>2. CASE upc = "acquire"
    BY <2>2 DEF OneRawAtATime, None
  <2>3. CASE upc \notin {"post", "acquire"}
    BY <2>3 DEF OneRawAtATime, None
  <2> QED
    BY <2>1, <2>2, <2>3
<1> QED
  BY Invariance, <1>1, PTL

\* The messages allocated are those in a queue or in somebody's hand.
THEOREM NoLeak == SafeSpec => []NoMessageLost
BY Invariance, PTL DEF IInv, HeapInv

\* The DSP executes START before any command that needs it.
THEOREM StartIsFirst == SafeSpec => []StartedFirst
<1>1. IInv => StartedFirst
  BY DEF IInv, StartInv, StartedFirst, TypeOK
<1> QED
  BY Invariance, <1>1, PTL

\* Neither the uPP task nor the algorithm writes to a block while the host holds
\* it: the first writes to a block that is not in the ring, the second to the
\* newest block, whose message the receiver cannot have.
THEOREM HeldNotWritten == SafeSpec => HeldUntouched
<1>1. IInv /\ [Next]_vars =>
         [(held # NoSlot /\ held' = held) => content'[held] = content[held]]_vars
  <2> SUFFICES ASSUME IInv, [Next]_vars, held # NoSlot, held' = held
               PROVE  content'[held] = content[held]
    OBVIOUS
  <2> USE DEF IInv, ring
  <2>0. content \in [Slots -> Labels] /\ held \in Slots
    BY DEF TypeOK
  <2>1. CASE UppCopy
    <3>1. data # NoSlot => data # held
      BY <2>1 DEF UppCopy, RingInv
    <3> QED
      BY <2>0, <2>1, <3>1 DEF UppCopy
  <2>2. CASE AlgoBegin \/ AlgoFinish
    <3>1. raw = valid[Len(valid)] /\ Unannounced = 1
      BY <2>2 DEF AlgoBegin, AlgoFinish, PendingInv, Filtering, Newest, Unannounced
    <3>2. raw # held
      BY <3>1, Places DEF RingInv
    <3>3. \E l \in Labels : content' = [content EXCEPT ![raw] = l]
      BY <2>2 DEF AlgoBegin, AlgoFinish, Labels
    <3> QED
      BY <2>0, <3>2, <3>3
  <2>3. CASE RecvRelease
    BY <2>3 DEF RecvRelease
  <2>4. CASE Loop \/ Isr \/ UppWake
    BY <2>4 DEF Loop, LoopGet, LoopDispatch, LoopFree, Isr, UppWake
  <2>5. CASE UppAcquire \/ UppTransfer \/ UppRelease \/ UppImport \/ UppPost \/ UppPut
    BY <2>5 DEF UppAcquire, UppTransfer, UppRelease, UppImport, UppPost, UppPut
  <2>6. CASE AlgoCheck \/ AlgoPend \/ AlgoAlloc \/ AlgoPut
    BY <2>6 DEF AlgoCheck, AlgoPend, AlgoAlloc, AlgoPut
  <2>7. CASE Main \/ PhoneCommand
    BY <2>7 DEF Main, MainStart, MainEnable, MainReceiver, MainPhone, PhoneCommand
  <2>8. CASE RecvPop \/ RecvAcquire \/ RecvOffer \/ RecvDecide \/ RecvFree
    BY <2>8 DEF RecvPop, RecvAcquire, RecvOffer, RecvDecide, RecvFree
  <2>9. CASE WifiSender \/ UNCHANGED vars
    BY <2>9 DEF WifiSender, vars
  <2> QED
    BY <2>1, <2>2, <2>3, <2>4, <2>5, <2>6, <2>7, <2>8, <2>9
    DEF Next, UPP, Algorism, Receiver
<1> QED
  BY Invariance, <1>1, PTL DEF SafeSpec, HeldUntouched
=============================================================================
