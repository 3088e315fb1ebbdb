------------------------------ MODULE SamplePath ------------------------------
(***************************************************************************)
(* The data path with the handoff of the host as it is: DataPath composed   *)
(* with SampleHandoff, where DataPath alone has the BlockChannel.           *)
(*                                                                          *)
(* What neither module has by itself: the receiver thread copies a block    *)
(* out of shared memory while the DSP runs on.  SampleHandoff takes for     *)
(* granted that the block stays as it is from the message to the copy;      *)
(* DataPath takes for granted that the handoff is one step.  Here the       *)
(* receiver's data points into the ring, so that data follows whatever the  *)
(* DSP writes to that block.                                                *)
(*                                                                          *)
(* The variables and the steps of the two threads at the handoff are those  *)
(* of SampleHandoff; a block is the label DataPath gives to its content.    *)
(***************************************************************************)
EXTENDS SampleHandoff, FiniteSets

CONSTANTS Slots, NoSlot, HeapSlots, CmdWindow, PhoneCmds   \* as in DataPath

VARIABLES valid, held, content, cmdq, dataq, heap,   \* shared memory
          is_started, do_algorism, lpc, lcmd, apc, raw, rawq, sem, rawUsed, upc, eow,
          slot,        \* ad->data of the uPP task
          mpc,         \* main thread
          recv, rmsg   \* the receiver outside of the handoff, its message

\* The steps outside of the handoff.  In the place of the channel stands what they
\* leave unchanged: all of the handoff but data.
Path == INSTANCE DataPath WITH data <- slot, rpc <- recv,
          offer <- <<samples, i, rpc>>, waiting <- wifisample, outgoing <- sender

pathVars == <<valid, held, content, cmdq, dataq, heap, is_started, do_algorism, lpc,
              lcmd, apc, raw, rawq, sem, rawUsed, upc, slot, eow, mpc, recv, rmsg>>

-----------------------------------------------------------------------------
\* data points to the block that is held: it shows what the DSP writes there.
DataFollows == data' = IF rpc = "pop" THEN data ELSE content'[held']

DspLoop == Path!Loop /\ DataFollows
DspUPP == Path!UPP /\ DataFollows
DspWake == Path!UppWake /\ DataFollows
DspIsr == Path!Isr /\ DataFollows
DspAlgorism == Path!Algorism /\ DataFollows

HostMain == Path!Main /\ UNCHANGED data
HostPhone == Path!PhoneCommand /\ UNCHANGED data

\* The receiver before and after the handoff.
RecvGet == (Path!RecvPop \/ Path!RecvAcquire \/ Path!RecvFree) /\ UNCHANGED data

\* RingBuffer_acquired has given the block (lines 124-128); the test of line 130
\* follows.
RecvOffer == /\ Path!HostUp
             /\ recv = "offer"
             /\ Pop(content[held])
             /\ recv' = "decide"
             /\ UNCHANGED <<valid, held, content, cmdq, dataq, heap, is_started,
                            do_algorism, lpc, lcmd, apc, raw, rawq, sem, rawUsed, upc,
                            slot, eow, mpc, rmsg>>

\* The two reads of the test, and the copy out of the block when it holds.
RecvDecide == /\ Path!HostUp
              /\ recv = "decide"
              /\ Decide
              /\ recv' = IF rpc' = "rear" THEN "decide" ELSE "release"
              /\ UNCHANGED <<valid, held, content, cmdq, dataq, heap, is_started,
                             do_algorism, lpc, lcmd, apc, raw, rawq, sem, rawUsed, upc,
                             slot, eow, mpc, rmsg>>

RecvFill == Path!HostUp /\ Fill /\ UNCHANGED pathVars

\* RingIO_release, line 141.
RecvRelease == /\ Path!HostUp
               /\ recv = "release"
               /\ Release
               /\ content' = [content EXCEPT ![held] = "empty"]
               /\ held' = NoSlot
               /\ recv' = "free"
               /\ UNCHANGED <<valid, cmdq, dataq, heap, is_started, do_algorism, lpc, lcmd,
                              apc, raw, rawq, sem, rawUsed, upc, slot, eow, mpc, rmsg>>

Receiver == RecvGet \/ RecvOffer \/ RecvDecide \/ RecvFill \/ RecvRelease

WifiSender == Path!HostUp /\ Sender /\ UNCHANGED pathVars

\* With the handoff seen as a channel this is the data path.
Abstract == INSTANCE DataPath WITH data <- slot, rpc <- recv,
              offer <- Offered, waiting <- Waiting, outgoing <- Outgoing

PathInit == Init /\ Abstract!Init

PathNext == \/ DspLoop \/ DspUPP \/ DspWake \/ DspIsr \/ DspAlgorism
            \/ HostMain \/ HostPhone \/ Receiver \/ WifiSender

allVars == <<vars, pathVars>>

PathSpec == PathInit /\ [][PathNext]_allVars

-----------------------------------------------------------------------------
(* Properties *)

\* Values of the constants for which the two models fit together.
PathConstants == /\ Blocks = Path!Labels /\ NoBlock = Path!None
                 /\ IsFiniteSet(Slots) /\ NoSlot \notin Slots
                 /\ PhoneCmds \subseteq {"ENABLE", "DISABLE", "CONFIG"}
                 /\ CmdWindow \in Nat /\ CmdWindow >= 2
                 /\ HeapSlots \in Nat /\ HeapSlots >= Cardinality(Slots) + CmdWindow + 2

\* The receiver copies the block its message announces, and what it hands on is
\* what was announced: nothing the DSP does between the test of the indices and
\* the copy shows in it (sample_receiver.c 130-138).
CopyIsAnnounced == Filling => samples = Path!Announced(rmsg)

\* Every packet is the samples of one block, all of them and in order, and that
\* block was finished: raw or filtered, never half filtered or given back
\* already, from the uPP task on one processor to Udp_Send on the other.
PhoneGetsWholeBlocks ==
  spc = "send" => \E b \in {"raw", "filtered"} : udpdata = [j \in Index |-> <<b, j>>]

\* The handoff is a channel for the data path, and the data path leaves it the
\* block it copies from: all that DataPath says of the samples holds here.
ImplementsDataPath == Abstract!SafeSpec
=============================================================================
