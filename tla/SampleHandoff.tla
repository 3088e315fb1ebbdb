---------------------------- MODULE SampleHandoff ----------------------------
(***************************************************************************)
(* The handoff of sample blocks between two host threads, through the       *)
(* global SAMPLEQUEUE wifisample of host/app/sample_receiver.c.             *)
(*                                                                          *)
(* SampleReceiver_run fills wifisample.sample_buff only when it reads       *)
(* front = 0 and rear = 0; Wifi_sending polls rear, drains the buffer when  *)
(* it is full, and resets front and then rear.  No lock is taken: the two   *)
(* indices are the whole protocol.  The host is built with -O3; the object  *)
(* file keeps the source's order of the stores to sample_buff, front and    *)
(* rear, and re-reads rear on every poll, so every access is one step here. *)
(*                                                                          *)
(* Abstractions: a block is a member of Blocks and its i-th sample is the   *)
(* pair <<block, i>>; the pop of the DSP's message and the ring acquire     *)
(* that precede the handoff are the choice of a block (module DataPath has  *)
(* them); the conversion of a sample to ten characters keeps the sample.    *)
(* m_running stays 1: only the teardown after the joins of App_exec clears  *)
(* it, and those joins wait for these very threads.                         *)
(***************************************************************************)
EXTENDS Integers

CONSTANTS N,        \* samples per block, 1024 in the code
          Blocks,   \* the contents a block can have
          NoBlock   \* the content of a cell that holds no sample

ASSUME NAssumption == N \in Nat \ {0}
ASSUME BlocksAssumption == NoBlock \notin Blocks

VARIABLES front, rear,   \* wifisample.front, wifisample.rear
          sample_buff,   \* wifisample.sample_buff
          samples,       \* the receiver's copy of a block (samples[1024])
          data,          \* the block the receiver got from the ring
          i,             \* the receiver's loop counter
          udpdata,       \* the sender's local packet
          k,             \* the sender's loop counter
          rpc, spc       \* where receiver and sender are

wifisample == <<front, rear, sample_buff>>
receiver == <<samples, data, i, rpc>>
sender == <<udpdata, k, spc>>
vars == <<wifisample, receiver, sender>>

Index == 0 .. N-1
Cell == (Blocks \cup {NoBlock}) \X Index
Zero == <<NoBlock, 0>>

\* the first memset(sample_buff, 0, 1024) counts bytes: a quarter of the floats
Cleared == {j \in Index : j < N \div 4}

Init == /\ front = 0
        /\ rear = 0
        /\ sample_buff = [j \in Index |-> Zero]
        /\ samples = NoBlock
        /\ data = NoBlock
        /\ i = 0
        /\ udpdata = [j \in Index |-> Zero]
        /\ k = 0
        /\ rpc = "pop"
        /\ spc = "poll"

-----------------------------------------------------------------------------
(* The receiver thread, SampleReceiver_run *)

\* A message announced block b, and the ring gave it (lines 106-128).
Pop(b) == /\ rpc = "pop"
          /\ data' = b
          /\ rpc' = "front"
          /\ UNCHANGED <<wifisample, samples, i, sender>>

\* First half of the test of line 130.
TestFront == /\ rpc = "front"
             /\ rpc' = IF front = 0 THEN "rear" ELSE "release"
             /\ UNCHANGED <<wifisample, samples, data, i, sender>>

\* Faulty variant: only front is tested.
TestRearSkipped == /\ rpc = "rear"
                   /\ rpc' = "store" /\ samples' = data /\ i' = 0
                   /\ UNCHANGED <<wifisample, data, sender>>

\* Second half of the test; when it holds, the memcpy and the loop's start.
TestRear == /\ rpc = "rear"
            /\ IF rear = 0
                 THEN rpc' = "store" /\ samples' = data /\ i' = 0
                 ELSE rpc' = "release" /\ UNCHANGED <<samples, i>>
            /\ UNCHANGED <<wifisample, data, sender>>

\* wifisample_rx_enqueue, the store of the sample ...
StoreSample == /\ rpc = "store"
               /\ sample_buff' = [sample_buff EXCEPT ![rear] = <<samples, i>>]
               /\ rpc' = "advance"
               /\ UNCHANGED <<front, rear, samples, data, i, sender>>

\* Faulty variant: the loop ends one sample early.
AdvanceRearShort == /\ rpc = "advance"
                    /\ rear' = rear + 1
                    /\ i' = i + 1
                    /\ rpc' = IF i + 1 < N - 1 THEN "store" ELSE "release"
                    /\ UNCHANGED <<front, sample_buff, samples, data, sender>>

\* ... and the store of rear.
AdvanceRear == /\ rpc = "advance"
               /\ rear' = rear + 1
               /\ i' = i + 1
               /\ rpc' = IF i + 1 < N THEN "store" ELSE "release"
               /\ UNCHANGED <<front, sample_buff, samples, data, sender>>

\* RingIO_release and msg_free.
Release == /\ rpc = "release"
           /\ data' = NoBlock
           /\ rpc' = "pop"
           /\ UNCHANGED <<wifisample, samples, i, sender>>

Decide == TestFront \/ TestRear
Fill == StoreSample \/ AdvanceRear

-----------------------------------------------------------------------------
(* The sender thread, Wifi_sending *)

\* Faulty variant: the sender starts as soon as there is a sample.
PollRearEarly == /\ spc = "poll"
                 /\ rear > 0
                 /\ k' = 0
                 /\ spc' = "load"
                 /\ UNCHANGED <<wifisample, receiver, udpdata>>

PollRear == /\ spc = "poll"
            /\ rear = N
            /\ k' = 0
            /\ spc' = "load"
            /\ UNCHANGED <<wifisample, receiver, udpdata>>

\* wifisample_rx_dequeue, the load of a sample ...
LoadSample == /\ spc = "load"
              /\ udpdata' = [udpdata EXCEPT ![k] = sample_buff[front]]
              /\ spc' = "advance"
              /\ UNCHANGED <<wifisample, receiver, k>>

\* ... and the store of front.
AdvanceFront == /\ spc = "advance"
                /\ front' = front + 1
                /\ k' = k + 1
                /\ spc' = IF k + 1 < N THEN "load" ELSE "clear"
                /\ UNCHANGED <<rear, sample_buff, receiver, udpdata>>

ClearBuffer == /\ spc = "clear"
               /\ sample_buff' = [j \in Index |-> IF j \in Cleared THEN Zero
                                                  ELSE sample_buff[j]]
               /\ spc' = "front"
               /\ UNCHANGED <<front, rear, receiver, udpdata, k>>

\* Faulty variant: front is not reset.
ResetFrontForgets == /\ spc = "front"
                     /\ spc' = "rear"
                     /\ UNCHANGED <<wifisample, receiver, udpdata, k>>

ResetFront == /\ spc = "front"
              /\ front' = 0
              /\ spc' = "rear"
              /\ UNCHANGED <<rear, sample_buff, receiver, udpdata, k>>

ResetRear == /\ spc = "rear"
             /\ rear' = 0
             /\ spc' = "send"
             /\ UNCHANGED <<front, sample_buff, receiver, udpdata, k>>

\* Udp_Send copies udpdata and hands it to sendto.
Send == /\ spc = "send"
        /\ spc' = "poll"
        /\ UNCHANGED <<wifisample, receiver, udpdata, k>>

Sender == \/ PollRear
          \/ LoadSample
          \/ AdvanceFront
          \/ ClearBuffer
          \/ ResetFront
          \/ ResetRear
          \/ Send

-----------------------------------------------------------------------------
Next == \/ \E b \in Blocks : Pop(b)
        \/ Decide
        \/ Fill
        \/ Release
        \/ Sender

\* Both threads run under SCHED_OTHER: thread.c asks for SCHED_FIFO but leaves
\* the inherit-scheduler attribute at its default, so Linux ignores it, and a
\* thread that can run does.  Nothing is assumed of the arrival of blocks.
Fairness == /\ WF_vars(Decide \/ Fill \/ Release)
            /\ WF_vars(Sender)

SafeSpec == Init /\ [][Next]_vars
Spec == SafeSpec /\ Fairness

-----------------------------------------------------------------------------
(* Properties *)

TypeOK == /\ front \in 0 .. N
          /\ rear \in 0 .. N
          /\ sample_buff \in [Index -> Cell]
          /\ samples \in Blocks \cup {NoBlock}
          /\ data \in Blocks \cup {NoBlock}
          /\ i \in 0 .. N
          /\ udpdata \in [Index -> Cell]
          /\ k \in 0 .. N
          /\ rpc \in {"pop", "front", "rear", "store", "advance", "release"}
          /\ spc \in {"poll", "load", "advance", "clear", "front", "rear", "send"}

Filling == rpc \in {"store", "advance"}
Draining == spc \in {"load", "advance", "clear", "front", "rear"}

\* The two threads never work on the buffer at once, although neither takes a
\* lock (the variable "protect" that the file declares for it is unused).
NoSharedAccess == ~(Filling /\ Draining)

\* The packet handed to Udp_Send holds the samples of one block, all of them
\* and in order: no block is sent torn, shifted, partly cleared or mixed with
\* the next one.
PacketIntact ==
  spc = "send" => \E b \in Blocks : udpdata = [j \in Index |-> <<b, j>>]

\* No access leaves sample_buff: the enqueue and the dequeue check no bound,
\* only the protocol keeps rear and front below the array's length.
InBounds == /\ rpc = "store" => rear \in Index
            /\ spc = "load" => front \in Index /\ k \in Index

\* The handoff implements the one-block channel: a block is refused only while
\* an accepted one still occupies the buffer, what was accepted is what is
\* sent, once, and every accepted block is eventually sent.
Offered == IF rpc \in {"front", "rear"} THEN data ELSE NoBlock
Waiting == IF Filling \/ rear # 0 THEN samples ELSE NoBlock
Outgoing == IF spc = "send" THEN udpdata[0][1] ELSE NoBlock
Channel == INSTANCE BlockChannel WITH offer <- Offered, waiting <- Waiting, outgoing <- Outgoing
ImplementsChannel == Channel!Spec
=============================================================================
