-------------------------------- MODULE LinkTx --------------------------------
(***************************************************************************)
(* The rndis-tx thread of the link (link.rs: Tx, tx_loop, reap and          *)
(* recover_bulk_out, with packet::append): frames from the channel are      *)
(* packed into bulk transfers within the limits the device advertised, a    *)
(* bounded number of transfers is in flight, and a stalled endpoint is      *)
(* cleared.                                                                *)
(*                                                                         *)
(* A frame is its length.  The bulk OUT endpoint is Endpoint's.             *)
(***************************************************************************)
EXTENDS Naturals, Sequences, SequencesExt

CONSTANTS
  FrameLen,     \* lengths a frame may have
  Header,       \* DATA_HEADER_LEN
  Alignment,    \* limits.alignment
  MaxTransfer,  \* limits.max_transfer_size
  MaxPackets,   \* limits.max_packets
  MaxPacket,    \* the endpoint's max_packet_size
  TxDepth,      \* TX_DEPTH
  MaxQueue,     \* bound: frames waiting in the channel
  NoFrame       \* nothing in hand

ASSUME TxAssumption ==
  /\ FrameLen \subseteq Nat /\ NoFrame \notin FrameLen
  /\ Header \in Nat
  /\ {Alignment, MaxTransfer, MaxPackets, MaxPacket, TxDepth} \subseteq Nat \ {0}
  /\ MaxQueue \in Nat

VARIABLES
  pc, ret,          \* where the thread is, and where flush or reap returns to
  frames, hand,     \* the channel; the frame taken from it
  batch, batchLen,  \* the frames packed into tx.batch, and its length in bytes
  flight, halted,   \* transfers in flight, oldest first; the endpoint is halted
  drain,            \* waits left in recover_bulk_out
  linkStop, sending \* the shutdown flag; some FrameSender is left

batchVars == <<hand, batch, batchLen>>
usbVars   == <<flight, halted, drain>>
stopVars  == <<linkStop, sending>>
vars == <<pc, ret, frames, batchVars, usbVars, stopVars>>

E == INSTANCE Endpoint WITH Depth <- TxDepth, Failures <- {"error"}

-----------------------------------------------------------------------------
(* Packing                                                                 *)

\* body.next_multiple_of(alignment)
Aligned(n) == ((n + Alignment - 1) \div Alignment) * Alignment

\* fits(): looks at the frame before packet::append pads it.
Fits(f) ==
  /\ Len(batch) < MaxPackets
  /\ batchLen + Header + f <= MaxTransfer

\* push(), then the next frame if one is already queued, else the last flush.
Push ==
  /\ batch' = Append(batch, hand)
  /\ batchLen' = batchLen + Aligned(Header + hand)
  /\ IF frames = <<>>
     THEN hand' = NoFrame /\ pc' = "flush" /\ ret' = "loop" /\ UNCHANGED frames
     ELSE hand' = Head(frames) /\ frames' = Tail(frames) /\ pc' = "fill" /\ UNCHANGED ret

\* while !shutdown.  The flag is not looked at while frames keep coming.
Loop ==
  /\ pc = "loop"
  /\ IF linkStop THEN pc' = "reap" /\ ret' = "done" ELSE pc' = "recv" /\ UNCHANGED ret
  /\ UNCHANGED <<frames, batchVars, usbVars, stopVars>>

\* recv_timeout: a frame, or a timeout after which completions are reaped, or
\* every sender is gone.
Recv ==
  /\ pc = "recv"
  /\ \/ /\ frames # <<>>
        /\ hand' = Head(frames) /\ frames' = Tail(frames)
        /\ pc' = "fill" /\ UNCHANGED ret
     \/ /\ frames = <<>>
        /\ pc' = "reap" /\ ret' = IF sending THEN "loop" ELSE "done"
        /\ UNCHANGED <<frames, hand>>
  /\ UNCHANGED <<batch, batchLen, usbVars, stopVars>>

\* The first fits() in the inner loop.
Fill ==
  /\ pc = "fill"
  /\ IF Fits(hand) THEN Push
     ELSE pc' = "flush" /\ ret' = "refit" /\ UNCHANGED <<frames, batchVars>>
  /\ UNCHANGED <<usbVars, stopVars>>

\* Mutant: the frame that did not fit is dropped without a second look.
RefitDrops ==
  /\ pc = "refit"
  /\ hand' = NoFrame /\ pc' = "flush" /\ ret' = "loop"
  /\ UNCHANGED <<frames, batch, batchLen, usbVars, stopVars>>

\* The second fits(), after the flush: a frame that still does not fit is
\* dropped and the inner loop is left.
Refit ==
  /\ pc = "refit"
  /\ IF Fits(hand) THEN Push
     ELSE /\ hand' = NoFrame /\ pc' = "flush" /\ ret' = "loop"
          /\ UNCHANGED <<frames, batch, batchLen>>
  /\ UNCHANGED <<usbVars, stopVars>>

\* Mutant: no byte is added to a transfer that fills its last packet.
FlushUnterminated ==
  /\ pc = "flush"
  /\ pc' = IF batch = <<>> THEN ret ELSE "depth"
  /\ UNCHANGED <<ret, frames, batchVars, usbVars, stopVars>>

\* flush() up to its wait: one byte more rather than a zero-length packet.
Flush ==
  /\ pc = "flush"
  /\ pc' = IF batch = <<>> THEN ret ELSE "depth"
  /\ batchLen' = IF batch # <<>> /\ batchLen % MaxPacket = 0 THEN batchLen + 1 ELSE batchLen
  /\ UNCHANGED <<ret, frames, hand, batch, usbVars, stopVars>>

-----------------------------------------------------------------------------
(* The transfers in flight                                                 *)

\* Mutant: the wait for room does not look at the flag.
DepthWaitForever ==
  /\ pc = "depth" /\ Len(flight) >= TxDepth
  /\ IF E!Done THEN flight' = Tail(flight) ELSE UNCHANGED flight
  /\ UNCHANGED <<pc, ret, frames, batchVars, halted, drain, stopVars>>

\* flush() while TX_DEPTH transfers are in flight.  The results it sees, a
\* stall among them, are discarded; told to stop, it returns and keeps the batch.
DepthWait ==
  /\ pc = "depth" /\ Len(flight) >= TxDepth
  /\ \/ E!Done /\ flight' = Tail(flight) /\ UNCHANGED pc
     \/ ~E!Done /\ linkStop /\ pc' = ret /\ UNCHANGED flight
  /\ UNCHANGED <<ret, frames, batchVars, halted, drain, stopVars>>

\* flush() from there: submit the batch, then reap what is done.
Submit ==
  /\ pc = "depth" /\ Len(flight) < TxDepth
  /\ flight' = Append(flight, E!Submitted)
  /\ batch' = <<>> /\ batchLen' = 0
  /\ pc' = "reap"
  /\ UNCHANGED <<ret, frames, hand, halted, drain, stopVars>>

\* Mutant: a stall is treated as any other error.
ReapIgnoresStall ==
  /\ pc = "reap"
  /\ \/ ~E!Done /\ pc' = ret /\ UNCHANGED <<flight, drain>>
     \/ /\ E!Done
        /\ pc' = IF Head(flight) = "ok" THEN "reap" ELSE ret
        /\ flight' = Tail(flight)
        /\ UNCHANGED drain
  /\ UNCHANGED <<ret, frames, batchVars, halted, stopVars>>

\* reap(): take completions until one is missing or failed.  A stall starts
\* recover_bulk_out: cancel_all, then at most TX_DEPTH + 1 waits.
Reap ==
  /\ pc = "reap"
  /\ \/ ~E!Done /\ pc' = ret /\ UNCHANGED <<flight, drain>>
     \/ /\ E!Done /\ Head(flight) = "ok"
        /\ flight' = Tail(flight)
        /\ UNCHANGED <<pc, drain>>
     \/ /\ E!Done /\ Head(flight) \in {"cancelled", "error"}
        /\ flight' = Tail(flight)
        /\ pc' = ret
        /\ UNCHANGED drain
     \/ /\ E!Done /\ Head(flight) = "stall"
        /\ flight' = E!Cancelled(Tail(flight))
        /\ pc' = "drain" /\ drain' = TxDepth + 1
  /\ UNCHANGED <<ret, frames, batchVars, halted, stopVars>>

\* One wait of the drain: a completion, or DRAIN_TIMEOUT.
Drain ==
  /\ pc = "drain" /\ flight # <<>> /\ drain > 0
  /\ flight' = IF E!Done THEN Tail(flight) ELSE flight
  /\ drain' = drain - 1
  /\ UNCHANGED <<pc, ret, frames, batchVars, halted, stopVars>>

\* Mutant: the halt is cleared whether or not the queue has drained.
RecoverAnyway ==
  /\ pc = "drain" /\ (flight = <<>> \/ drain = 0)
  /\ halted' \in {FALSE, halted}
  /\ pc' = ret /\ drain' = 0
  /\ UNCHANGED <<ret, frames, batchVars, flight, stopVars>>

\* The end of recover_bulk_out: give up if the queue did not drain, else
\* clear_halt, which may fail.  Errors are only logged.
Recover ==
  /\ pc = "drain" /\ (flight = <<>> \/ drain = 0)
  /\ IF flight = <<>> THEN halted' \in {FALSE, halted} ELSE UNCHANGED halted
  /\ pc' = ret /\ drain' = 0
  /\ UNCHANGED <<ret, frames, batchVars, flight, stopVars>>

-----------------------------------------------------------------------------
(* The rest of the system                                                  *)

\* FrameSender::send by the reader, ARP or DHCP.
Send ==
  /\ Len(frames) < MaxQueue /\ sending
  /\ \E f \in FrameLen : frames' = Append(frames, f)
  /\ UNCHANGED <<pc, ret, batchVars, usbVars, stopVars>>

\* External: the endpoint completes a transfer.
Complete ==
  /\ E!Complete
  /\ UNCHANGED <<pc, ret, frames, batchVars, drain, stopVars>>

\* Link::shutdown sets the flag...
Stop ==
  /\ ~linkStop
  /\ linkStop' = TRUE
  /\ UNCHANGED <<pc, ret, frames, batchVars, usbVars, sending>>

\* ... and drops its sender.  The reader's went with the tunnel, before; the rx
\* thread's goes when that thread has seen the flag too.
SendersGone ==
  /\ linkStop /\ sending
  /\ sending' = FALSE
  /\ UNCHANGED <<pc, ret, frames, batchVars, usbVars, linkStop>>

Init ==
  /\ pc = "loop" /\ ret = "loop"
  /\ frames = <<>> /\ hand = NoFrame
  /\ batch = <<>> /\ batchLen = 0
  /\ flight = <<>> /\ halted = FALSE /\ drain = 0
  /\ linkStop = FALSE /\ sending = TRUE

Thread ==
  \/ Loop \/ Recv \/ Fill \/ Refit \/ Flush \/ DepthWait \/ Submit \/ Reap \/ Drain \/ Recover

Next == Thread \/ Send \/ Complete \/ Stop \/ SendersGone

Spec == Init /\ [][Next]_vars

\* The thread runs, and the other senders go once the link is told to stop.
\* Nothing is asked of the bus: a device may leave a transfer pending for ever.
FairSpec == Spec /\ WF_vars(Thread) /\ WF_vars(SendersGone)

\* A device that works: transfers complete and clear_halt does not fail for ever.
\* There is traffic too: frames that fit a transfer keep coming (a frame that does
\* not is dropped without a reap).
DeviceWorks ==
  /\ WF_vars(Complete)
  /\ SF_vars(Recover /\ ~halted')
  /\ SF_vars(Send /\ Header + Last(frames') <= MaxTransfer)

-----------------------------------------------------------------------------
(* Properties                                                              *)

\* flush() hands the batch to the endpoint.
Submits == pc = "depth" /\ pc' = "reap"

\* What is submitted carries no more packets than the device takes, ends in a
\* short packet (link.rs:228), and exceeds the size the device takes by less
\* than a padding and the terminating byte.
TransferBounded ==
  [][Submits => /\ Len(batch) <= MaxPackets
                /\ MaxPacket > 1 => batchLen % MaxPacket # 0
                /\ batchLen <= MaxTransfer + Alignment]_vars

\* Everything accepted from the channel and not yet submitted, oldest first.
Unsent == batch \o (IF hand = NoFrame THEN <<>> ELSE <<hand>>) \o frames

\* Frames leave in the order they were queued, a whole batch at a time.  One is
\* dropped only if no transfer could carry it, or when told to stop: flushing a
\* full batch never costs the frame that did not fit (tx_loop).
FramesKeptInOrder ==
  [][\/ Submits /\ Unsent = batch \o Unsent'
     \/ ~Submits /\ IsPrefix(Unsent, Unsent')
     \/ /\ hand # NoFrame /\ hand' = NoFrame
        /\ Header + hand > MaxTransfer \/ linkStop
        /\ Unsent' = batch \o frames]_vars

\* The endpoint is used as it requires (Endpoint; usb/backend.rs:72): never more
\* than TX_DEPTH transfers in flight, cancel_all only after a stall, every
\* transfer taken back in order, and the halt cleared only with none pending,
\* even when the drain timed out.
EndpointContract == E!Spec

\* With a device that works a halted endpoint is cleared, even though the wait for
\* room discards stalls: the next reap meets another (link.rs:321).
HaltCleared == DeviceWorks => (halted ~> (~halted \/ linkStop))

\* The thread ends once told to, also while it waits for room that a hung device
\* never makes (link.rs:237).  The inner loop
\* does not look at the flag: this rests on the senders ending.
StopEndsThread == linkStop ~> pc = "done"

\* README.md:100: "`muta` batches only up to the advertised limit": no transfer
\* is longer than what the device said it accepts (rndis/control.rs:45).
WithinAdvertisedSize == [][Submits => batchLen <= MaxTransfer]_vars
=============================================================================
