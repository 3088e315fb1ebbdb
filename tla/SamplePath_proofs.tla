-------------------------- MODULE SamplePath_proofs --------------------------
(***************************************************************************)
(* First, proofs about SampleHandoff, for every block length N and every    *)
(* set of block contents: the handoff is type correct, the two threads      *)
(* exclude each other, every packet is one intact block, and the handoff    *)
(* implements the safety part of BlockChannel.                              *)
(*                                                                          *)
(* Then, proofs about its composition with the data path, for every size    *)
(* of the ring, the heap and the window: the composition implements the     *)
(* safety part of DataPath, and every packet is one whole, finished block.  *)
(* Neither component gives this alone.  The handoff needs that the block it *)
(* copies from does not change, which is an invariant of the data path; the *)
(* data path needs a channel, which the handoff is under its invariant.  So *)
(* the two invariants are carried together.                                 *)
(***************************************************************************)
EXTENDS SamplePath, Sequences, TLAPS

\* Who owns the buffer, from the program counters and the indices alone: a
\* filling receiver keeps rear = i below N and the sender away; otherwise the
\* buffer is empty or full; a draining sender keeps front = k.
OwnerInv ==
  /\ Filling => ~Draining /\ rear = i /\ i < N
  /\ (~Filling /\ rear # 0) => rear = N
  /\ Draining => rear # 0
  /\ spc \in {"poll", "rear", "send"} => front = 0
  /\ spc \in {"load", "advance"} => front = k /\ k < N
  /\ rpc \in {"front", "rear"} => data \in Blocks
  /\ (Filling \/ rear # 0) => samples \in Blocks

\* The cells below Stored hold the block being handed over, from the receiver's
\* first store to the sender's first clear ...
Stored == IF rpc = "store" THEN i ELSE IF rpc = "advance" THEN i + 1 ELSE rear
BufferInv ==
  spc \in {"poll", "load", "advance", "send"} =>
     \A j \in Index : j < Stored => sample_buff[j] = <<samples, j>>

\* ... and the cells below Loaded are in the sender's packet.
Loaded == CASE spc = "load" -> k
            [] spc = "advance" -> k + 1
            [] spc \in {"clear", "front", "rear"} -> N
            [] OTHER -> 0
DrainInv == \A j \in Index : j < Loaded => udpdata[j] = <<samples, j>>

IInv == TypeOK /\ OwnerInv /\ BufferInv /\ DrainInv /\ PacketIntact

-----------------------------------------------------------------------------
LEMMA InitIInv == Init => IInv
  BY NAssumption DEF Init, IInv, TypeOK, OwnerInv, BufferInv, Stored, DrainInv,
     Loaded, PacketIntact, Filling, Draining, Index, Cell, Zero

LEMMA OwnerStep == TypeOK /\ OwnerInv /\ [Next]_vars => OwnerInv'
<1> SUFFICES ASSUME TypeOK, OwnerInv, [Next]_vars PROVE OwnerInv'
  OBVIOUS
<1> USE NAssumption DEF TypeOK, OwnerInv, Filling, Draining,
                        wifisample, receiver, sender
<1>1. ASSUME NEW b \in Blocks, Pop(b) PROVE OwnerInv'
  BY <1>1 DEF Pop
<1>2. CASE Decide
  BY <1>2 DEF Decide, TestFront, TestRear
<1>3. CASE Fill
  BY <1>3 DEF Fill, StoreSample, AdvanceRear
<1>4. CASE Release
  BY <1>4 DEF Release
<1>5. CASE PollRear \/ LoadSample \/ ClearBuffer \/ Send
  BY <1>5 DEF PollRear, LoadSample, ClearBuffer, Send
<1>6. CASE AdvanceFront \/ ResetFront \/ ResetRear
  BY <1>6 DEF AdvanceFront, ResetFront, ResetRear
<1>7. CASE UNCHANGED vars
  BY <1>7 DEF vars
<1> QED
  BY <1>1, <1>2, <1>3, <1>4, <1>5, <1>6, <1>7 DEF Next, Sender

LEMMA TypeStep == TypeOK /\ OwnerInv /\ [Next]_vars => TypeOK'
<1> SUFFICES ASSUME TypeOK, OwnerInv, [Next]_vars PROVE TypeOK'
  OBVIOUS
<1> USE NAssumption DEF TypeOK, Index, wifisample, receiver, sender
<1>1. ASSUME NEW b \in Blocks, Pop(b) PROVE TypeOK'
  BY <1>1 DEF Pop
<1>2. CASE Decide
  BY <1>2 DEF Decide, TestFront, TestRear
<1>3. CASE StoreSample
  <2>1. i \in Index /\ rear = i /\ samples \in Blocks
    BY <1>3 DEF StoreSample, OwnerInv, Filling
  <2>2. <<samples, i>> \in Cell
    BY <2>1 DEF Cell
  <2> QED
    BY <1>3, <2>2 DEF StoreSample
<1>4. CASE AdvanceRear
  BY <1>4 DEF AdvanceRear, OwnerInv, Filling
<1>5. CASE LoadSample
  <2>1. front \in Index
    BY <1>5 DEF LoadSample, OwnerInv
  <2>2. sample_buff[front] \in Cell
    BY <2>1
  <2> QED
    BY <1>5, <2>2 DEF LoadSample
<1>6. CASE ClearBuffer
  <2>1. Zero \in Cell
    <3>1. 0 \in Index
      OBVIOUS
    <3> QED
      BY <3>1 DEF Zero, Cell
  <2>2. sample_buff' \in [Index -> Cell]
    BY <1>6, <2>1 DEF ClearBuffer
  <2> QED
    BY <1>6, <2>2 DEF ClearBuffer
<1>7. CASE AdvanceFront
  BY <1>7 DEF AdvanceFront, OwnerInv
<1>8. CASE PollRear \/ ResetFront \/ ResetRear \/ Send \/ Release
  BY <1>8 DEF PollRear, ResetFront, ResetRear, Send, Release
<1>9. CASE UNCHANGED vars
  BY <1>9 DEF vars
<1> QED
  BY <1>1, <1>2, <1>3, <1>4, <1>5, <1>6, <1>7, <1>8, <1>9
     DEF Next, Fill, Sender

LEMMA BufferStep == IInv /\ [Next]_vars => BufferInv'
<1> SUFFICES ASSUME IInv, [Next]_vars,
                    spc' \in {"poll", "load", "advance", "send"},
                    NEW j \in Index, j < Stored'
             PROVE  sample_buff'[j] = <<samples', j>>
  BY DEF BufferInv, Index
<1> USE NAssumption DEF IInv, Index, Stored, Filling, Draining,
                        wifisample, receiver, sender
<1>1. CASE TestRear
  <2>1. rear # 0
    BY <1>1 DEF TestRear
  <2> QED
    BY <1>1, <2>1 DEF TestRear, BufferInv
<1>2. CASE StoreSample
  <2>1. /\ sample_buff' = [sample_buff EXCEPT ![i] = <<samples, i>>]
        /\ j <= i /\ i \in Index /\ i \in Int /\ j \in Int
        /\ samples' = samples
    BY <1>2 DEF StoreSample, OwnerInv, TypeOK
  <2>2. CASE j = i
    BY <2>1, <2>2 DEF TypeOK
  <2>3. CASE j < i
    <3>1. sample_buff[j] = <<samples, j>>
      BY <1>2, <2>3 DEF StoreSample, BufferInv
    <3> QED
      BY <2>1, <2>3, <3>1 DEF TypeOK
  <2> QED
    BY <2>1, <2>2, <2>3
<1>3. CASE AdvanceRear
  BY <1>3 DEF AdvanceRear, BufferInv, OwnerInv, TypeOK
<1>4. CASE ResetRear
  BY <1>4 DEF ResetRear, OwnerInv, TypeOK
<1>5. CASE PollRear \/ LoadSample \/ AdvanceFront \/ Send
  BY <1>5 DEF PollRear, LoadSample, AdvanceFront, Send, BufferInv
<1>6. CASE ClearBuffer \/ ResetFront
  BY <1>6 DEF ClearBuffer, ResetFront
<1>7. CASE TestFront \/ Release \/ UNCHANGED vars \/ \E b \in Blocks : Pop(b)
  BY <1>7 DEF TestFront, Release, vars, Pop, BufferInv
<1> QED
  BY <1>1, <1>2, <1>3, <1>4, <1>5, <1>6, <1>7 DEF Next, Decide, Fill, Sender

LEMMA DrainStep == IInv /\ [Next]_vars => DrainInv'
<1> SUFFICES ASSUME IInv, [Next]_vars, NEW j \in Index, j < Loaded'
             PROVE  udpdata'[j] = <<samples', j>>
  BY DEF DrainInv, Index
<1> USE NAssumption DEF IInv, Index, Loaded, wifisample, receiver, sender
<1>1. CASE TestRear
  BY <1>1 DEF TestRear, OwnerInv, Draining, DrainInv, TypeOK
<1>2. CASE LoadSample
  <2>1. sample_buff[k] = <<samples, k>> /\ k \in Index
    BY <1>2 DEF LoadSample, OwnerInv, Draining, Filling, BufferInv, Stored, TypeOK
  <2>2. udpdata' = [udpdata EXCEPT ![k] = <<samples, k>>]
    BY <1>2, <2>1 DEF LoadSample, OwnerInv
  <2>3. j <= k /\ j \in Int /\ k \in Int
    BY <1>2 DEF LoadSample, TypeOK
  <2>4. CASE j = k
    BY <1>2, <2>2, <2>4 DEF LoadSample, TypeOK
  <2>5. CASE j < k
    BY <1>2, <2>1, <2>2, <2>5 DEF LoadSample, DrainInv, TypeOK
  <2> QED
    BY <2>3, <2>4, <2>5
<1>3. CASE AdvanceFront
  BY <1>3 DEF AdvanceFront, DrainInv, OwnerInv, TypeOK
<1>4. CASE PollRear \/ ResetRear \/ Send
  BY <1>4 DEF PollRear, ResetRear, Send
<1>5. CASE ClearBuffer \/ ResetFront
  BY <1>5 DEF ClearBuffer, ResetFront, DrainInv
<1>6. CASE TestFront \/ Fill \/ Release
  BY <1>6 DEF TestFront, Fill, StoreSample, AdvanceRear, Release, DrainInv
<1>7. CASE UNCHANGED vars \/ \E b \in Blocks : Pop(b)
  BY <1>7 DEF vars, Pop, DrainInv
<1> QED
  BY <1>1, <1>2, <1>3, <1>4, <1>5, <1>6, <1>7 DEF Next, Decide, Fill, Sender

LEMMA PacketStep == IInv /\ [Next]_vars => PacketIntact'
<1> SUFFICES ASSUME IInv, [Next]_vars, spc' = "send" PROVE PacketIntact'
  BY DEF PacketIntact
<1>1. CASE ResetRear
  <2>1. samples \in Blocks
    BY <1>1 DEF IInv, OwnerInv, Draining, ResetRear
  <2>2. \A j \in Index : udpdata[j] = <<samples, j>>
    BY <1>1, NAssumption DEF IInv, DrainInv, Loaded, ResetRear, Index
  <2>3. udpdata' = [j \in Index |-> <<samples, j>>]
    BY <1>1, <2>2 DEF IInv, TypeOK, ResetRear, sender
  <2> QED
    BY <2>1, <2>3 DEF PacketIntact
<1>2. CASE spc = "send" /\ UNCHANGED <<spc, udpdata>>
  BY <1>2 DEF IInv, PacketIntact
<1> QED
  BY <1>1, <1>2 DEF Next, Pop, Decide, TestFront, TestRear, Fill, StoreSample,
     AdvanceRear, Release, Sender, PollRear, LoadSample, AdvanceFront,
     ClearBuffer, ResetFront, Send, vars, sender

LEMMA NextIInv == IInv /\ [Next]_vars => IInv'
  BY OwnerStep, TypeStep, BufferStep, DrainStep, PacketStep DEF IInv

\* Every reachable state satisfies the inductive invariant.
THEOREM Invariance == SafeSpec => []IInv
  BY InitIInv, NextIInv, PTL DEF SafeSpec

\* The indices and the cells of wifisample keep their ranges.
THEOREM TypeCorrect == SafeSpec => []TypeOK
<1>1. IInv => TypeOK
  BY DEF IInv
<1> QED
  BY <1>1, Invariance, PTL

\* The receiver and the sender are never in the buffer together: the two
\* indices alone give the mutual exclusion the unused flag "protect" was for.
THEOREM Exclusion == SafeSpec => []NoSharedAccess
<1>1. IInv => NoSharedAccess
  BY DEF IInv, OwnerInv, NoSharedAccess
<1> QED
  BY <1>1, Invariance, PTL

\* Every packet given to Udp_Send is one whole block, in order.
THEOREM PacketsIntact == SafeSpec => []PacketIntact
<1>1. IInv => PacketIntact
  BY DEF IInv
<1> QED
  BY <1>1, Invariance, PTL

\* Neither thread indexes outside sample_buff.
THEOREM NoOverrun == SafeSpec => []InBounds
<1>1. IInv => InBounds
  BY NAssumption DEF IInv, TypeOK, OwnerInv, InBounds, Filling, Index
<1> QED
  BY <1>1, Invariance, PTL

-----------------------------------------------------------------------------
(* Refinement: each step of the handoff is a step of the channel or leaves   *)
(* it unchanged.  A refused block found the buffer occupied; the sender's    *)
(* reset of rear is the moment the block leaves the channel.                 *)
LEMMA InitChannel == Init => Channel!Init
  BY DEF Init, Channel!Init, Filling, Offered, Waiting, Outgoing

\* What each step of the handoff is for the channel.
LEMMA ChannelSteps ==
  ASSUME IInv
  PROVE  /\ \A b \in Blocks : Pop(b) => Channel!Offer(b)
         /\ TestFront => IF front = 0 THEN UNCHANGED Channel!vars ELSE Channel!Refuse
         /\ TestRear => IF rear = 0 THEN Channel!Accept ELSE Channel!Refuse
         /\ Fill \/ Release => UNCHANGED Channel!vars
         /\ Sender => UNCHANGED Channel!vars \/ Channel!Collect \/ Channel!Deliver
<1> USE NAssumption, BlocksAssumption
    DEF IInv, OwnerInv, Filling, Draining, wifisample, receiver, sender,
        Channel!vars, Offered, Waiting, Outgoing
<1>1. ASSUME NEW b \in Blocks, Pop(b) PROVE Channel!Offer(b)
  BY <1>1 DEF Pop, Channel!Offer
<1>2. ASSUME TestFront PROVE IF front = 0 THEN UNCHANGED Channel!vars ELSE Channel!Refuse
  <2>1. CASE front = 0
    BY <1>2, <2>1 DEF TestFront
  <2>2. CASE front # 0
    <3>1. rear # 0 /\ ~Filling
      BY <1>2, <2>2 DEF TestFront, TypeOK
    <3> QED
      BY <1>2, <2>2, <3>1 DEF TestFront, Channel!Refuse
  <2> QED
    BY <2>1, <2>2
<1>3. ASSUME TestRear PROVE IF rear = 0 THEN Channel!Accept ELSE Channel!Refuse
  <2>1. CASE rear = 0
    BY <1>3, <2>1 DEF TestRear, Channel!Accept
  <2>2. CASE rear # 0
    BY <1>3, <2>2 DEF TestRear, Channel!Refuse
  <2> QED
    BY <2>1, <2>2
<1>4. ASSUME StoreSample PROVE UNCHANGED Channel!vars
  BY <1>4 DEF StoreSample
<1>5. ASSUME AdvanceRear PROVE UNCHANGED Channel!vars
  BY <1>5 DEF AdvanceRear, TypeOK
<1>6. ASSUME Release PROVE UNCHANGED Channel!vars
  BY <1>6 DEF Release
<1>7. ASSUME PollRear PROVE UNCHANGED Channel!vars
  BY <1>7 DEF PollRear
<1>8. ASSUME LoadSample PROVE UNCHANGED Channel!vars
  BY <1>8 DEF LoadSample
<1>9. ASSUME AdvanceFront PROVE UNCHANGED Channel!vars
  BY <1>9 DEF AdvanceFront
<1>10. ASSUME ClearBuffer PROVE UNCHANGED Channel!vars
  BY <1>10 DEF ClearBuffer
<1>11. ASSUME ResetFront PROVE UNCHANGED Channel!vars
  BY <1>11 DEF ResetFront
<1>12. ASSUME ResetRear PROVE Channel!Collect
  <2>1. udpdata[0] = <<samples, 0>>
    BY <1>12 DEF ResetRear, DrainInv, Loaded, Index
  <2>2. rear # 0 /\ ~Filling /\ samples \in Blocks
    BY <1>12 DEF ResetRear
  <2>3. udpdata'[0][1] = samples
    BY <1>12, <2>1 DEF ResetRear
  <2> QED
    BY <1>12, <2>2, <2>3 DEF ResetRear, Channel!Collect
<1>13. ASSUME Send PROVE Channel!Deliver
  <2>1. udpdata[0][1] \in Blocks
    <3>1. PICK b \in Blocks : udpdata = [j \in Index |-> <<b, j>>]
      BY <1>13 DEF Send, PacketIntact
    <3> QED
      BY <3>1 DEF Index
  <2> QED
    BY <1>13, <2>1 DEF Send, Channel!Deliver
<1>14. Fill \/ Release => UNCHANGED Channel!vars
  BY <1>4, <1>5, <1>6 DEF Fill
<1>15. Sender => UNCHANGED Channel!vars \/ Channel!Collect \/ Channel!Deliver
  BY <1>7, <1>8, <1>9, <1>10, <1>11, <1>12, <1>13 DEF Sender
<1> QED
  BY <1>1, <1>2, <1>3, <1>14, <1>15

LEMMA NextChannel == IInv /\ [Next]_vars => [Channel!Next]_(Channel!vars)
<1>1. ASSUME UNCHANGED vars PROVE UNCHANGED Channel!vars
  BY <1>1 DEF vars, wifisample, receiver, sender, Channel!vars, Offered, Waiting, Outgoing, Filling
<1> QED
  BY <1>1, ChannelSteps DEF Next, Decide, Channel!Next

\* The handoff is a correct implementation of the one-block channel: blocks are
\* only refused while one occupies the buffer, and what is sent is what was
\* accepted, once and in order.
THEOREM HandoffImplementsChannel == SafeSpec => Channel!SafeSpec
<1>1. SafeSpec => []IInv
  BY Invariance
<1> QED
  BY <1>1, InitChannel, NextChannel, PTL DEF SafeSpec, Channel!SafeSpec

-----------------------------------------------------------------------------
(* The composition *)

\* The data path with the handoff as its channel, and what is proved of it.
DP == INSTANCE DataPath_proofs WITH data <- slot, rpc <- recv,
        offer <- Offered, waiting <- Waiting, outgoing <- Outgoing

\* Where the receiver is in the handoff, by where it is in the data path; in the
\* handoff its data is the block that is held, and it copies what is announced.
JoinInv == /\ rpc = "pop" <=> recv \notin {"decide", "release"}
           /\ rpc \in {"front", "rear"} <=> recv = "decide"
           /\ rpc # "pop" => data = content[held]
           /\ CopyIsAnnounced

PathInv == DP!IInv /\ IInv /\ JoinInv

\* The assumptions of DataPath, in the names of its instance.
LEMMA Assumptions ==
  /\ DP!IsFiniteSet(Slots) <=> IsFiniteSet(Slots)
  /\ DP!Cardinality(Slots) = Cardinality(Slots)
  BY DEF DP!IsFiniteSet, IsFiniteSet, DP!Cardinality, Cardinality

LEMMA RunsSame == ASSUME NEW t PROVE Path!Runs(t) <=> DP!Runs(t)
  BY DEF DP!Runs, Path!Runs, DP!Ready, Path!Ready, DP!Tasks, Path!Tasks,
     DP!Prio, Path!Prio, DP!None, Path!None

\* A step outside of the handoff that leaves the channel alone is a step of the
\* data path.
LEMMA OutsideSteps ==
  ASSUME UNCHANGED <<Offered, Waiting, Outgoing>>
  PROVE  /\ Path!Loop => DP!Loop
         /\ Path!UPP => DP!UPP
         /\ Path!UppWake => DP!UppWake
         /\ Path!Isr => DP!Isr
         /\ Path!Algorism => DP!Algorism
         /\ Path!Main => DP!Main
         /\ Path!PhoneCommand => DP!PhoneCommand
         /\ Path!RecvPop => DP!RecvPop
         /\ Path!RecvAcquire => DP!RecvAcquire
         /\ Path!RecvFree => DP!RecvFree
<1> USE RunsSame
    DEF DP!None, Path!None, DP!ring, Path!ring, DP!queues, Path!queues, DP!loop, Path!loop,
        DP!algo, Path!algo, DP!upp, Path!upp, DP!receiver, Path!receiver, DP!wifi, Path!wifi,
        DP!HostUp, Path!HostUp
<1>1. Path!Loop => DP!Loop
  BY DEF DP!Loop, Path!Loop, DP!LoopGet, Path!LoopGet, DP!LoopFree, Path!LoopFree,
     DP!LoopDispatch, Path!LoopDispatch, DP!OnStart, Path!OnStart, DP!OnEnable,
     Path!OnEnable, DP!OnDisable, Path!OnDisable, DP!OnConfig, Path!OnConfig
<1>2. Path!UPP => DP!UPP
  BY DEF Path!UPP, DP!UPP, Path!UppAcquire, DP!UppAcquire, Path!UppTransfer,
     DP!UppTransfer, Path!UppCopy, DP!UppCopy, Path!UppRelease, DP!UppRelease,
     Path!UppImport, DP!UppImport, Path!UppPost, DP!UppPost, Path!UppPut, DP!UppPut,
     Path!Free, DP!Free, Path!Acquired, DP!Acquired, Path!Range, DP!Range
<1>3. Path!UppWake => DP!UppWake
  BY DEF Path!UppWake, DP!UppWake
<1>4. Path!Isr => DP!Isr
  BY DEF Path!Isr, DP!Isr
<1>5. Path!Algorism => DP!Algorism
  BY DEF Path!Algorism, DP!Algorism, Path!AlgoCheck, DP!AlgoCheck, Path!AlgoPend,
     DP!AlgoPend, Path!AlgoBegin, DP!AlgoBegin, Path!AlgoFinish, DP!AlgoFinish,
     Path!AlgoAlloc, DP!AlgoAlloc, Path!AlgoPut, DP!AlgoPut
<1>6. Path!Main => DP!Main
  BY DEF Path!Main, DP!Main, Path!MainStart, DP!MainStart, Path!MainEnable,
     DP!MainEnable, Path!MainReceiver, DP!MainReceiver, Path!MainPhone, DP!MainPhone,
     Path!SendCmd, DP!SendCmd
<1>7. Path!PhoneCommand => DP!PhoneCommand
  BY DEF Path!PhoneCommand, DP!PhoneCommand, Path!SendCmd, DP!SendCmd
<1>8. Path!RecvPop => DP!RecvPop
  BY DEF Path!RecvPop, DP!RecvPop
<1>9. Path!RecvAcquire => DP!RecvAcquire
  BY DEF Path!RecvAcquire, DP!RecvAcquire
<1>10. Path!RecvFree => DP!RecvFree
  BY DEF Path!RecvFree, DP!RecvFree
<1> QED
  BY <1>1, <1>2, <1>3, <1>4, <1>5, <1>6, <1>7, <1>8, <1>9, <1>10

-----------------------------------------------------------------------------
(* The block the receiver copies from does not change *)

\* A step of the DSP leaves the block that is held as it is: the uPP task writes
\* to one that is not in the ring, the algorithm task to the newest of the ring.
LEMMA HeldStays ==
  ASSUME PathConstants, DP!IInv, held # NoSlot,
         Path!Loop \/ Path!UPP \/ Path!UppWake \/ Path!Isr \/ Path!Algorism
  PROVE  held' = held /\ content'[held] = content[held]
<1> USE DEF DP!IInv, Path!ring
<1>1. content \in [Slots -> DP!Labels] /\ held \in Slots
  BY DEF DP!TypeOK
<1>2. CASE Path!UppCopy
  <2>1. slot # NoSlot => slot # held
    BY <1>2 DEF Path!UppCopy, DP!RingInv
  <2> QED
    BY <1>1, <1>2, <2>1 DEF Path!UppCopy
<1>3. CASE Path!AlgoBegin \/ Path!AlgoFinish
  <2>1. raw = valid[Len(valid)] /\ DP!Unannounced = 1
    BY <1>3 DEF Path!AlgoBegin, Path!AlgoFinish, DP!PendingInv, DP!Filtering, DP!Newest,
       DP!Unannounced
  <2>2. raw # held
    BY <2>1, DP!Places, Assumptions DEF DP!RingInv, PathConstants
  <2>3. \E l \in Path!Labels : content' = [content EXCEPT ![raw] = l]
    BY <1>3 DEF Path!AlgoBegin, Path!AlgoFinish, Path!Labels
  <2> QED
    BY <1>1, <1>3, <2>2, <2>3 DEF Path!AlgoBegin, Path!AlgoFinish
<1>4. CASE Path!Loop \/ Path!Isr \/ Path!UppWake
  BY <1>4 DEF Path!Loop, Path!LoopGet, Path!LoopDispatch, Path!LoopFree, Path!Isr, Path!UppWake
<1>5. CASE \/ Path!UppAcquire \/ Path!UppTransfer \/ Path!UppRelease
           \/ Path!UppImport \/ Path!UppPost \/ Path!UppPut
  BY <1>5 DEF Path!UppAcquire, Path!UppTransfer, Path!UppRelease, Path!UppImport,
     Path!UppPost, Path!UppPut
<1>6. CASE Path!AlgoCheck \/ Path!AlgoPend \/ Path!AlgoAlloc \/ Path!AlgoPut
  BY <1>6 DEF Path!AlgoCheck, Path!AlgoPend, Path!AlgoAlloc, Path!AlgoPut
<1> QED
  BY <1>2, <1>3, <1>4, <1>5, <1>6 DEF Path!UPP, Path!Algorism

-----------------------------------------------------------------------------
(* Each step keeps the invariant and is a step of the data path *)

LEMMA PathUnchanged ==
  ASSUME UNCHANGED <<pathVars, Offered, Waiting, Outgoing>>
  PROVE  UNCHANGED DP!vars
  BY DEF pathVars, DP!vars, DP!ring, DP!queues, DP!loop, DP!algo, DP!upp, DP!receiver, DP!wifi

LEMMA HandoffUnchanged ==
  ASSUME UNCHANGED vars
  PROVE  UNCHANGED <<Offered, Waiting, Outgoing>>
  BY DEF vars, wifisample, receiver, sender, Offered, Waiting, Outgoing, Filling

\* The step of the whole is one of the data path or leaves that alone, and one
\* of the handoff or leaves that alone.
Splits == [DP!Next]_(DP!vars) /\ [Next]_vars

LEMMA DspSplits ==
  ASSUME PathConstants, PathInv, DspLoop \/ DspUPP \/ DspWake \/ DspIsr \/ DspAlgorism
  PROVE  Splits /\ JoinInv'
<1>1. /\ Path!Loop \/ Path!UPP \/ Path!UppWake \/ Path!Isr \/ Path!Algorism
      /\ DataFollows
  BY DEF DspLoop, DspUPP, DspWake, DspIsr, DspAlgorism
<1>2. UNCHANGED <<Path!wifi, Path!receiver>>
  BY <1>1 DEF Path!Loop, Path!UPP, Path!Algorism, Path!UppWake, Path!Isr,
     Path!LoopGet, Path!LoopDispatch, Path!LoopFree, Path!UppAcquire, Path!UppTransfer,
     Path!UppCopy, Path!UppRelease, Path!UppImport, Path!UppPost, Path!UppPut,
     Path!AlgoCheck, Path!AlgoPend, Path!AlgoBegin, Path!AlgoFinish, Path!AlgoAlloc,
     Path!AlgoPut
<1>3. rpc # "pop" => held # NoSlot
  BY DEF PathInv, JoinInv, DP!IInv, DP!RingInv
<1>4. data' = data
  <2>1. CASE rpc = "pop"
    BY <1>1, <2>1 DEF DataFollows
  <2>2. CASE rpc # "pop"
    <3>1. held' = held /\ content'[held] = content[held]
      BY <1>1, <1>3, <2>2, HeldStays DEF PathInv
    <3> QED
      BY <1>1, <2>2, <3>1 DEF DataFollows, PathInv, JoinInv
  <2> QED
    BY <2>1, <2>2
<1>5. UNCHANGED vars
  BY <1>2, <1>4 DEF vars, Path!wifi, wifisample, receiver, sender
<1>6. DP!Next
  BY <1>1, <1>5, HandoffUnchanged, OutsideSteps DEF DP!Next
<1>7. JoinInv'
  <2>1. rpc # "pop" => data' = content'[held']
    BY <1>1 DEF DataFollows
  <2> QED
    BY <1>2, <1>5, <2>1 DEF PathInv, JoinInv, CopyIsAnnounced, Filling, vars, wifisample,
       receiver, Path!receiver, Path!Announced
<1> QED
  BY <1>5, <1>6, <1>7 DEF Splits

LEMMA HostSplits ==
  ASSUME PathConstants, PathInv, HostMain \/ HostPhone \/ RecvGet
  PROVE  Splits /\ JoinInv'
<1>1. \/ Path!Main \/ Path!PhoneCommand
      \/ Path!RecvPop \/ Path!RecvAcquire \/ Path!RecvFree
  BY DEF HostMain, HostPhone, RecvGet
<1>2. UNCHANGED <<Path!wifi, data>>
  BY DEF HostMain, HostPhone, RecvGet, Path!Main, Path!MainStart, Path!MainEnable,
     Path!MainReceiver, Path!MainPhone, Path!PhoneCommand, Path!RecvPop,
     Path!RecvAcquire, Path!RecvFree
<1>3. UNCHANGED vars
  BY <1>2 DEF vars, Path!wifi, wifisample, receiver, sender
<1>4. DP!Next
  BY <1>1, <1>3, HandoffUnchanged, OutsideSteps DEF DP!Next, DP!Receiver
<1>5. JoinInv'
  <2> USE <1>3 DEF PathInv, JoinInv, CopyIsAnnounced, Filling, vars, wifisample, receiver,
                   Path!Announced
  <2>1. CASE Path!RecvPop \/ Path!RecvAcquire \/ Path!RecvFree
    BY <2>1 DEF Path!RecvPop, Path!RecvAcquire, Path!RecvFree, Path!ring
  <2>2. CASE Path!PhoneCommand \/ Path!MainStart \/ Path!MainEnable \/ Path!MainPhone
    BY <2>2 DEF Path!PhoneCommand, Path!MainStart, Path!MainEnable, Path!MainPhone,
       Path!receiver, Path!ring
  <2>3. CASE Path!MainReceiver
    BY <2>3 DEF Path!MainReceiver, Path!ring, DP!IInv, DP!RingInv, DP!None
  <2> QED
    BY <1>1, <2>1, <2>2, <2>3 DEF Path!Main
<1> QED
  BY <1>3, <1>4, <1>5 DEF Splits

\* The receiver at the handoff: it offers the block that is held, the channel
\* accepts or refuses it at the test, and the block goes back after the copy.
LEMMA RecvSplits ==
  ASSUME PathConstants, PathInv, RecvOffer \/ RecvDecide \/ RecvFill \/ RecvRelease
  PROVE  Splits /\ JoinInv'
<1> USE DEF PathInv, JoinInv, CopyIsAnnounced, Filling
<1> DEFINE rest == <<valid, cmdq, dataq, heap, is_started, do_algorism, lpc, lcmd, apc, raw,
                     rawq, sem, rawUsed, upc, slot, eow, mpc, rmsg>>
<1>1. CASE RecvOffer
  <2>1. content[held] \in Blocks
    BY <1>1 DEF RecvOffer, DP!IInv, DP!TypeOK, DP!RingInv, PathConstants, DP!Labels, Path!Labels
  <2>2. Channel!Offer(content[held]) /\ Next
    BY <1>1, <2>1, ChannelSteps DEF RecvOffer, Next
  <2>3. DP!RecvOffer
    BY <1>1, <2>2 DEF RecvOffer, Path!HostUp, DP!RecvOffer, DP!HostUp, Channel!Offer,
       DP!Channel!Offer, DP!ring, DP!queues, DP!loop, DP!algo, DP!upp, PathConstants,
       DP!None, Path!None
  <2>4. JoinInv'
    BY <1>1 DEF RecvOffer, Pop
  <2> QED
    BY <2>2, <2>3, <2>4 DEF Splits, DP!Next, DP!Receiver
<1>2. CASE RecvDecide
  <2>1. Next
    BY <1>2 DEF RecvDecide, Next
  <2>2. CASE TestFront /\ front = 0
    <3>1. UNCHANGED <<pathVars, Offered, Waiting, Outgoing>>
      BY <1>2, <2>2, ChannelSteps DEF RecvDecide, TestFront, Channel!vars, pathVars
    <3>2. JoinInv'
      BY <1>2, <2>2 DEF RecvDecide, TestFront
    <3> QED
      BY <2>1, <3>1, <3>2, PathUnchanged DEF Splits
  <2>3. CASE TestRear \/ (TestFront /\ front # 0)
    <3>1. rpc' \in {"store", "release"} /\ recv' = "release"
      BY <1>2, <2>3 DEF RecvDecide, TestFront, TestRear
    <3>2. Channel!Accept \/ Channel!Refuse
      BY <2>3, ChannelSteps
    <3>3. DP!RecvDecide
      BY <1>2, <3>1, <3>2 DEF RecvDecide, Path!HostUp, DP!RecvDecide, DP!HostUp,
         Channel!Accept, Channel!Refuse, DP!Channel!Accept, DP!Channel!Refuse, DP!ring,
         DP!queues, DP!loop, DP!algo, DP!upp, PathConstants, DP!None, Path!None
    <3>4. rpc' = "store" => samples' = data
      BY <2>3 DEF TestFront, TestRear
    <3>5. data = content[held] /\ content[held] = DP!Announced(rmsg)
      BY <1>2 DEF RecvDecide, DP!IInv, DP!NamesInv, DP!MessageNamesBlock
    <3>6. JoinInv'
      BY <1>2, <2>3, <3>1, <3>4, <3>5 DEF RecvDecide, TestFront, TestRear,
         DP!Announced, Path!Announced
    <3> QED
      BY <2>1, <3>3, <3>6 DEF Splits, DP!Next, DP!Receiver
  <2> QED
    BY <1>2, <2>2, <2>3 DEF RecvDecide, Decide
<1>3. CASE RecvFill
  <2>1. Next /\ UNCHANGED <<pathVars, Offered, Waiting, Outgoing>>
    BY <1>3, ChannelSteps DEF RecvFill, Next, Channel!vars
  <2>2. JoinInv'
    BY <1>3 DEF RecvFill, Fill, StoreSample, AdvanceRear, pathVars, Path!Announced
  <2> QED
    BY <2>1, <2>2, PathUnchanged DEF Splits
<1>4. CASE RecvRelease
  <2>1. Next /\ UNCHANGED <<Offered, Waiting, Outgoing>>
    BY <1>4, ChannelSteps DEF RecvRelease, Next, Channel!vars
  <2>2. DP!RecvRelease
    BY <1>4, <2>1 DEF RecvRelease, Path!HostUp, DP!RecvRelease, DP!HostUp,
       DP!queues, DP!loop, DP!algo, DP!upp, DP!wifi
  <2>3. JoinInv'
    BY <1>4 DEF RecvRelease, Release
  <2> QED
    BY <2>1, <2>2, <2>3 DEF Splits, DP!Next, DP!Receiver
<1> QED
  BY <1>1, <1>2, <1>3, <1>4

LEMMA SenderSplits ==
  ASSUME PathConstants, PathInv, WifiSender
  PROVE  Splits /\ JoinInv'
<1>1. Next /\ UNCHANGED <<pathVars, receiver>>
  BY DEF WifiSender, Next, Sender, PollRear, LoadSample, AdvanceFront, ClearBuffer,
     ResetFront, ResetRear, Send
<1>2. JoinInv'
  BY <1>1 DEF PathInv, JoinInv, CopyIsAnnounced, Filling, receiver, pathVars, Path!Announced
<1>3. \/ UNCHANGED <<Offered, Waiting, Outgoing>>
      \/ Channel!Collect \/ Channel!Deliver
  BY ChannelSteps DEF PathInv, WifiSender, Channel!vars
<1>4. CASE UNCHANGED <<Offered, Waiting, Outgoing>>
  BY <1>1, <1>2, <1>4, PathUnchanged DEF Splits
<1>5. CASE Channel!Collect \/ Channel!Deliver
  <2>1. DP!WifiSender
    BY <1>1, <1>5 DEF WifiSender, Path!HostUp, DP!WifiSender, DP!HostUp, Channel!Collect,
       Channel!Deliver, DP!Channel!Collect, DP!Channel!Deliver, DP!ring, DP!queues, DP!loop,
       DP!algo, DP!upp, DP!receiver, pathVars, PathConstants, DP!None, Path!None
  <2> QED
    BY <1>1, <1>2, <2>1 DEF Splits, DP!Next
<1> QED
  BY <1>3, <1>4, <1>5

LEMMA PathStep ==
  ASSUME PathConstants, PathInv, [PathNext]_allVars
  PROVE  Splits /\ PathInv'
<1>1. Splits /\ JoinInv'
  <2>1. CASE UNCHANGED allVars
    <3>1. UNCHANGED <<vars, pathVars>>
      BY <2>1 DEF allVars
    <3>2. UNCHANGED DP!vars
      BY <3>1, HandoffUnchanged, PathUnchanged
    <3>3. JoinInv'
      BY <3>1 DEF PathInv, JoinInv, CopyIsAnnounced, Filling, vars, wifisample, receiver,
         pathVars, Path!Announced
    <3> QED
      BY <3>1, <3>2, <3>3 DEF Splits
  <2> QED
    BY <2>1, DspSplits, HostSplits, RecvSplits, SenderSplits DEF PathNext, Receiver
<1>2. IInv'
  BY <1>1, NextIInv DEF Splits, PathInv
<1>3. DP!IInv'
  BY <1>1, DP!NextIInv, Assumptions DEF Splits, PathInv, PathConstants
<1> QED
  BY <1>1, <1>2, <1>3 DEF PathInv

LEMMA InitPath == PathConstants /\ PathInit => PathInv
<1> SUFFICES ASSUME PathConstants, PathInit PROVE PathInv
  OBVIOUS
<1>1. DP!Init
  BY DEF PathInit, Abstract!Init, DP!Init, Abstract!Channel!Init, DP!Channel!Init,
     Abstract!None, DP!None
<1>2. DP!IInv
  BY <1>1, DP!InitIInv, Assumptions DEF PathConstants
<1>3. IInv /\ rpc = "pop" /\ ~Filling
  BY InitIInv DEF PathInit, Init, Filling
<1>4. recv = "none"
  BY DEF PathInit, Abstract!Init, Abstract!None
<1> QED
  BY <1>2, <1>3, <1>4 DEF PathInv, JoinInv, CopyIsAnnounced

\* The two instances of DataPath with the mapping are the same specification.
LEMMA SameNext == [DP!Next]_(DP!vars) => [Abstract!Next]_(Abstract!vars)
<1> USE DEF DP!None, Abstract!None, DP!ring, Abstract!ring, DP!queues, Abstract!queues,
        DP!loop, Abstract!loop, DP!algo, Abstract!algo, DP!upp, Abstract!upp,
        DP!receiver, Abstract!receiver, DP!wifi, Abstract!wifi, DP!HostUp, Abstract!HostUp
<1>0. ASSUME NEW t PROVE DP!Runs(t) <=> Abstract!Runs(t)
  BY DEF DP!Runs, Abstract!Runs, DP!Ready, Abstract!Ready, DP!Tasks, Abstract!Tasks,
     DP!Prio, Abstract!Prio
<1>1. DP!Loop => Abstract!Loop
  BY <1>0 DEF DP!Loop, Abstract!Loop, DP!LoopGet, Abstract!LoopGet, DP!LoopFree,
     Abstract!LoopFree, DP!LoopDispatch, Abstract!LoopDispatch, DP!OnStart,
     Abstract!OnStart, DP!OnEnable, Abstract!OnEnable, DP!OnDisable, Abstract!OnDisable,
     DP!OnConfig, Abstract!OnConfig
<1>2. DP!UPP => Abstract!UPP
  BY <1>0 DEF DP!UPP, Abstract!UPP, DP!UppAcquire, Abstract!UppAcquire, DP!UppTransfer,
     Abstract!UppTransfer, DP!UppCopy, Abstract!UppCopy, DP!UppRelease,
     Abstract!UppRelease, DP!UppImport, Abstract!UppImport, DP!UppPost, Abstract!UppPost,
     DP!UppPut, Abstract!UppPut, DP!Free, Abstract!Free, DP!Acquired, Abstract!Acquired,
     DP!Range, Abstract!Range
<1>3. DP!UppWake => Abstract!UppWake
  BY DEF DP!UppWake, Abstract!UppWake
<1>4. DP!Isr => Abstract!Isr
  BY DEF DP!Isr, Abstract!Isr
<1>5. DP!Algorism => Abstract!Algorism
  BY <1>0 DEF DP!Algorism, Abstract!Algorism, DP!AlgoCheck, Abstract!AlgoCheck,
     DP!AlgoPend, Abstract!AlgoPend, DP!AlgoBegin, Abstract!AlgoBegin, DP!AlgoFinish,
     Abstract!AlgoFinish, DP!AlgoAlloc, Abstract!AlgoAlloc, DP!AlgoPut, Abstract!AlgoPut
<1>6. DP!Main => Abstract!Main
  BY DEF DP!Main, Abstract!Main, DP!MainStart, Abstract!MainStart, DP!MainEnable,
     Abstract!MainEnable, DP!MainReceiver, Abstract!MainReceiver, DP!MainPhone,
     Abstract!MainPhone, DP!SendCmd, Abstract!SendCmd
<1>7. DP!PhoneCommand => Abstract!PhoneCommand
  BY DEF DP!PhoneCommand, Abstract!PhoneCommand, DP!SendCmd, Abstract!SendCmd
<1>8. DP!Receiver => Abstract!Receiver
  BY DEF DP!Receiver, Abstract!Receiver, DP!RecvPop, Abstract!RecvPop, DP!RecvAcquire,
     Abstract!RecvAcquire, DP!RecvOffer, Abstract!RecvOffer, DP!RecvDecide,
     Abstract!RecvDecide, DP!RecvRelease, Abstract!RecvRelease, DP!RecvFree,
     Abstract!RecvFree, DP!Channel!Offer, Abstract!Channel!Offer, DP!Channel!Accept,
     Abstract!Channel!Accept, DP!Channel!Refuse, Abstract!Channel!Refuse
<1>9. DP!WifiSender => Abstract!WifiSender
  BY DEF DP!WifiSender, Abstract!WifiSender, DP!Channel!Collect, Abstract!Channel!Collect,
     DP!Channel!Deliver, Abstract!Channel!Deliver
<1>10. UNCHANGED DP!vars => UNCHANGED Abstract!vars
  BY DEF DP!vars, Abstract!vars
<1> QED
  BY <1>1, <1>2, <1>3, <1>4, <1>5, <1>6, <1>7, <1>8, <1>9, <1>10
     DEF DP!Next, Abstract!Next

-----------------------------------------------------------------------------
\* The two invariants, carried together, hold in every state of the whole.
THEOREM PathInvariance == PathConstants /\ PathSpec => []PathInv
<1> SUFFICES ASSUME PathConstants PROVE PathSpec => []PathInv
  OBVIOUS
<1>1. PathInit => PathInv
  BY InitPath
<1>2. PathInv /\ [PathNext]_allVars => PathInv'
  BY PathStep
<1> QED
  BY <1>1, <1>2, PTL DEF PathSpec

\* The handoff is a channel for the data path although its receiver copies out of
\* shared memory while the DSP runs on (sample_receiver.c 124-141): what is proved
\* of DataPath holds of the whole.
THEOREM PathImplementsDataPath == PathConstants /\ PathSpec => ImplementsDataPath
<1> SUFFICES ASSUME PathConstants PROVE PathSpec => Abstract!SafeSpec
  BY DEF ImplementsDataPath
<1>1. PathInit => Abstract!Init
  BY DEF PathInit
<1>2. PathInv /\ [PathNext]_allVars => [Abstract!Next]_(Abstract!vars)
  BY PathStep, SameNext DEF Splits
<1>3. PathSpec => []PathInv
  BY PathInvariance
<1> QED
  BY <1>1, <1>2, <1>3, PTL DEF PathSpec, Abstract!SafeSpec

\* ... and it is the handoff of SampleHandoff, which took the block to be constant.
THEOREM PathImplementsHandoff == PathConstants /\ PathSpec => SafeSpec
<1> SUFFICES ASSUME PathConstants PROVE PathSpec => SafeSpec
  OBVIOUS
<1>1. PathInit => Init
  BY DEF PathInit
<1>2. PathInv /\ [PathNext]_allVars => [Next]_vars
  BY PathStep DEF Splits
<1>3. PathSpec => []PathInv
  BY PathInvariance
<1> QED
  BY <1>1, <1>2, <1>3, PTL DEF PathSpec, SafeSpec

\* The receiver copies the block that its message announces, as announced, from
\* the test of the indices to the last sample (sample_receiver.c 130-138).
THEOREM CopiesAnnounced == PathConstants /\ PathSpec => []CopyIsAnnounced
<1> SUFFICES ASSUME PathConstants PROVE PathSpec => []CopyIsAnnounced
  OBVIOUS
<1>1. PathInv => CopyIsAnnounced
  BY DEF PathInv, JoinInv
<1>2. PathSpec => []PathInv
  BY PathInvariance
<1> QED
  BY <1>1, <1>2, PTL

\* Every packet that leaves is one finished block, whole and in order: the
\* priorities, the queues and the ring of data_path and the indices of the
\* handoff together (upp_task of ad_workshop.c to Udp_Send of wifi.c).
THEOREM WholeBlocksSent == PathConstants /\ PathSpec => []PhoneGetsWholeBlocks
<1> SUFFICES ASSUME PathConstants PROVE PathSpec => []PhoneGetsWholeBlocks
  OBVIOUS
<1>1. PathInv => PhoneGetsWholeBlocks
  <2> SUFFICES ASSUME PathInv, spc = "send" PROVE PhoneGetsWholeBlocks
    BY DEF PhoneGetsWholeBlocks
  <2>1. PICK b \in Blocks : udpdata = [j \in Index |-> <<b, j>>]
    BY DEF PathInv, IInv, PacketIntact
  <2>2. Outgoing = b
    BY <2>1, NAssumption DEF Outgoing, Index
  <2>3. b \in {"raw", "filtered"}
    BY <2>1, <2>2 DEF PathInv, DP!IInv, DP!OnlySettledSent, DP!None, PathConstants,
       Path!Labels, Path!None
  <2> QED
    BY <2>1, <2>3 DEF PhoneGetsWholeBlocks
<1>2. PathSpec => []PathInv
  BY PathInvariance
<1> QED
  BY <1>1, <1>2, PTL
=============================================================================
