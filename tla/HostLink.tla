------------------------------ MODULE HostLink ------------------------------
(***************************************************************************)
(* How the hub hands its blocks of data to the application processor: the  *)
(* exchange of packets in os/core/hostIntf.c, and the two buffers that     *)
(* os/core/nanohubCommand.c fills ahead for NANOHUB_REASON_READ_EVENT.     *)
(*                                                                         *)
(* The receiver, the sender's completion and the wake line interrupt the   *)
(* main loop, one at a time and to their end; `main' says where the main   *)
(* loop stands.  The transport is a struct HostIntfComm that receives one  *)
(* packet each time it is armed and sends a packet as a whole, as          *)
(* hostIntfSpi.c does.  The host is outside of the repository: it raises   *)
(* the wake line, waits for WAKE_COMPLETE, sends a request, and repeats it *)
(* under the same sequence number until it has the response.  It reads     *)
(* when NANOHUB_INT_WAKEUP tells it to.  Blocks are those of               *)
(* hostIntfAddBlock, which fillBuffer never puts into one packet.          *)
(***************************************************************************)
EXTENDS Naturals, Sequences, SequencesExt

CONSTANTS
  MaxBlocks,  \* bound on the blocks added
  MaxFaults,  \* bound on lost packets, errors of the transport, early timeouts,
              \* failed osDefer calls and busy times
  None

ASSUME HostLinkAssumption == MaxBlocks \in Nat /\ MaxFaults \in Nat

VARIABLES
  outQ,      \* mOutputQ, its length being mWakeupBlocks
  buffers,   \* mTxCurr, mTxNext with their lengths, mTxWakeCnt[0]
  prefetch,  \* mPrefetchActive, mPrefetchTx
  intr,      \* NANOHUB_INT_WAKEUP in mInterrupt
  main,      \* the main loop: where it is in nanohubPrefetchTx, and its locals
  defers,    \* the callbacks osDefer put into the event queue
  rx,        \* armed, mRxIdle, mWakeActive, mActiveWrite, mRestartRx, mBusy
             \* and NANOHUB_INT_WAKE_COMPLETE
  tx,        \* mTxRetrans.seq (0: forgotten), mRxCmd # NULL, mTxBuf, mTxSize
  air,       \* what txPacket is sending, and the callback it was given
  host,      \* the host: where it is, its sequence number, if that is open
  req,       \* the sequence number of a request on its way
  got,       \* what the host has received
  added,     \* history: all blocks added, in that order
  promised,  \* history: the last of them that came with an interrupt
  ackFailed, \* history: an acknowledgement was answered with an error
  faults     \* how many faults there were

queue == <<outQ, buffers, prefetch, intr, defers>>
vars == <<outQ, buffers, prefetch, intr, main, defers, rx, tx, air, host, req,
          got, added, promised, ackFailed, faults>>

Seqs == {1, 2}
Empty == <<>>
Rest == [at |-> "rest", notify |-> FALSE, wake |-> 0]
Packet(kind, seq, data) == [kind |-> kind, seq |-> seq, data |-> data]
Sending(packet, done) == [packet |-> packet, done |-> done]

Larger(a, b) == IF a < b THEN b ELSE a

Init ==
  /\ outQ = Empty
  /\ buffers = [curr |-> Empty, next |-> Empty, wake |-> 0]
  /\ prefetch = [active |-> FALSE, tx |-> FALSE]
  /\ intr = FALSE
  /\ main = Rest
  /\ defers = Empty
  /\ rx = [armed |-> TRUE, idle |-> FALSE, wake |-> FALSE, write |-> FALSE,
           restart |-> FALSE, busy |-> FALSE, complete |-> FALSE]
  /\ tx = [seq |-> 0, cmd |-> FALSE, buf |-> Packet("none", 0, Empty), size |-> "none"]
  /\ air = None
  /\ host = [at |-> "off", seq |-> 1, open |-> FALSE]
  /\ req = 0
  /\ got = Empty
  /\ added = Empty
  /\ promised = 0
  /\ ackFailed = FALSE
  /\ faults = 0

Fault == faults < MaxFaults /\ faults' = faults + 1

-----------------------------------------------------------------------------
\* The buffers: nanohubCommand.c

\* fillBuffer(buf, totLength, &wakeup): the first block if there is none yet,
\* and one more block into mTxNext, which the count includes.
Filled(have, wake) ==
  LET taken == IF have = Empty /\ outQ # Empty THEN 1 ELSE 0
      left == Len(outQ) - taken
  IN [buf  |-> have \o SubSeq(outQ, 1, taken),
      next |-> IF left > 0 THEN <<outQ[taken + 1]>> ELSE Empty,
      wake |-> IF left = 0 THEN 0 ELSE IF taken = 1 THEN left ELSE wake,
      queue |-> SubSeq(outQ, taken + 2, Len(outQ))]

\* updateInterrupts
Updated(wake) == wake > 0

\* hostIntfAddBlock from a handler of the main loop, with or without interrupt.
Add(notify) ==
  /\ main = Rest
  /\ Len(added) < MaxBlocks
  /\ outQ' = Append(outQ, Len(added) + 1)
  /\ added' = Append(added, Len(added) + 1)
  /\ promised' = IF notify THEN Len(added) + 1 ELSE promised
  /\ main' = [at |-> "check", notify |-> notify, wake |-> Len(outQ) + 1]
  /\ UNCHANGED <<buffers, prefetch, intr, defers, rx, tx, air, host, req, got,
                 ackFailed, faults>>

Go(label) == main' = [main EXCEPT !.at = label]
OutsideMain == <<defers, rx, host, req, got, added, promised, ackFailed, faults>>

\* nanohubPrefetchTx: nobody has to know now, or the flag goes up.
Check ==
  /\ main.at = "check"
  /\ main' = IF ~main.notify /\ ~intr THEN Rest
             ELSE [main EXCEPT !.at = "begin", !.wake = Larger(@, buffers.wake)]
  /\ UNCHANGED <<outQ, buffers, prefetch, intr, tx, air>> /\ UNCHANGED OutsideMain

Begin ==
  /\ main.at = "begin"
  /\ prefetch' = [prefetch EXCEPT !.active = TRUE]
  /\ intr' = (intr \/ main.notify)
  /\ Go("move")
  /\ UNCHANGED <<outQ, buffers, tx, air>> /\ UNCHANGED OutsideMain

\* mTxCurr takes what mTxNext has; mTxNextLength is cleared in a second step.
Move ==
  /\ main.at = "move"
  /\ IF buffers.curr = Empty /\ buffers.next # Empty
     THEN buffers' = [buffers EXCEPT !.curr = buffers.next] /\ Go("moved")
     ELSE Go("fill") /\ UNCHANGED buffers
  /\ UNCHANGED <<outQ, prefetch, intr, tx, air>> /\ UNCHANGED OutsideMain

Moved ==
  /\ main.at = "moved"
  /\ buffers' = [buffers EXCEPT !.next = Empty]
  /\ Go("fill")
  /\ UNCHANGED <<outQ, prefetch, intr, tx, air>> /\ UNCHANGED OutsideMain

\* With interrupts off.
Fill ==
  /\ main.at = "fill"
  /\ LET f == Filled(buffers.curr, main.wake)
     IN IF buffers.next = Empty
        THEN /\ outQ' = f.queue
             /\ buffers' = [curr |-> f.buf, next |-> f.next, wake |-> f.wake]
             /\ main' = [main EXCEPT !.at = "release", !.wake = f.wake]
        ELSE Go("release") /\ UNCHANGED <<outQ, buffers>>
  /\ UNCHANGED <<prefetch, intr, tx, air>> /\ UNCHANGED OutsideMain

Release ==
  /\ main.at = "release"
  /\ prefetch' = [prefetch EXCEPT !.active = FALSE]
  /\ Go("answer")
  /\ UNCHANGED <<outQ, buffers, intr, tx, air>> /\ UNCHANGED OutsideMain

Response(data) == Packet("payload", tx.seq, data)

\* A read came meanwhile and was left to us: hostIntfTxAck, interrupts off.
Answer ==
  /\ main.at = "answer"
  /\ IF prefetch.tx
     THEN /\ tx' = [tx EXCEPT !.buf = Response(buffers.curr), !.size = "payload"]
          /\ air' = Sending(tx'.buf, "payload")
          /\ prefetch' = [prefetch EXCEPT !.tx = FALSE]
          /\ buffers' = [buffers EXCEPT !.curr = Empty]
          /\ Go("update")
     ELSE main' = Rest /\ UNCHANGED <<tx, air, prefetch, buffers>>
  /\ UNCHANGED <<outQ, intr>> /\ UNCHANGED OutsideMain

Update ==
  /\ main.at = "update"
  /\ intr' = Updated(buffers.wake)
  /\ IF buffers.next # Empty THEN Go("move") ELSE main' = Rest
  /\ UNCHANGED <<outQ, buffers, prefetch, tx, air>> /\ UNCHANGED OutsideMain

\* nanohubPrefetchTxDefer
PrefetchDefer ==
  /\ main = Rest /\ defers # Empty /\ Head(defers) = "prefetch"
  /\ defers' = Tail(defers)
  /\ main' = [at |-> "check", notify |-> FALSE, wake |-> 0]
  /\ UNCHANGED <<outQ, buffers, prefetch, intr, rx, tx, air, host, req, got, added,
                 promised, ackFailed, faults>>

\* hostIntfGenerateResponse with readEvent: what is in mTxCurr, or else the
\* block in mTxNext and the queue.
GenerateResponse ==
  /\ main = Rest /\ defers # Empty /\ Head(defers) = "response"
  /\ defers' = Tail(defers)
  /\ IF buffers.curr # Empty
     THEN /\ tx' = [tx EXCEPT !.buf = Response(buffers.curr), !.size = "payload"]
          /\ buffers' = [buffers EXCEPT !.curr = Empty]
          /\ intr' = Updated(buffers.wake)
          /\ UNCHANGED outQ
     ELSE LET f == Filled(buffers.next, buffers.wake)
          IN /\ tx' = [tx EXCEPT !.buf = Response(f.buf), !.size = "payload"]
             /\ buffers' = [curr |-> Empty, next |-> f.next, wake |-> f.wake]
             /\ outQ' = f.queue
             /\ intr' = (f.buf # Empty /\ Updated(f.wake))
  /\ air' = Sending(tx'.buf, "payload")
  /\ UNCHANGED <<prefetch, main, rx, host, req, got, added, promised, ackFailed, faults>>

-----------------------------------------------------------------------------
\* The exchange: hostIntf.c

\* osDefer with urgent set goes to the front of the queue.
Urgent(cb) == defers' = <<cb>> \o defers

\* hostIntfTxComplete
TxCompleted(clear, restart) ==
  [rx EXCEPT !.complete = restart \/ (@ /\ ~clear /\ rx.wake),
             !.write = FALSE, !.restart = FALSE,
             !.armed = restart, !.idle = ~restart]

\* readEventFast: left to the main loop, answered at once from mTxCurr, or
\* acknowledged and answered later.
ReadEventFast ==
  \/ /\ prefetch.active
     /\ prefetch' = [prefetch EXCEPT !.tx = TRUE]
     /\ tx' = [tx EXCEPT !.seq = req, !.cmd = TRUE]
     /\ UNCHANGED <<buffers, intr, defers, air, faults>>
  \/ /\ ~prefetch.active /\ buffers.curr # Empty
     /\ LET answer == Packet("payload", req, buffers.curr)
        IN /\ tx' = [seq |-> req, cmd |-> TRUE, buf |-> answer, size |-> "payload"]
           /\ air' = Sending(answer, "payload")
     /\ buffers' = [buffers EXCEPT !.curr = Empty]
     /\ intr' = Updated(buffers.wake)
     /\ \/ Urgent("prefetch") /\ UNCHANGED faults
        \/ Fault /\ UNCHANGED defers
     /\ UNCHANGED prefetch
  \/ /\ ~prefetch.active /\ buffers.curr = Empty
     /\ LET ack == Packet("ack", req, Empty)
        IN /\ tx' = [seq |-> req, cmd |-> TRUE, buf |-> ack, size |-> "ack"]
           /\ air' = Sending(ack, "ack")
     /\ UNCHANGED <<buffers, prefetch, intr, defers, faults>>

\* Mutant of Known: no sequence number is compared.
KnownNever == FALSE

\* mTxRetrans.seqMatch
Known == tx.seq = req

\* The request of the sequence number mTxRetrans holds is not executed again.
Retransmit ==
  /\ Known
  /\ tx' = [tx EXCEPT !.cmd = TRUE]
  /\ air' = Sending(IF tx.size = tx.buf.kind THEN tx.buf
                    ELSE Packet("cut", req, Empty), "payload")
  /\ UNCHANGED <<buffers, prefetch, intr, defers, faults>>

NakBusy ==
  /\ ~Known /\ rx.busy
  /\ tx' = [tx EXCEPT !.cmd = FALSE, !.size = "nak"]
  /\ air' = Sending(Packet("nak", req, Empty), "ack")
  /\ UNCHANGED <<buffers, prefetch, intr, defers, faults>>

Execute == ~Known /\ ~rx.busy /\ ReadEventFast

\* hostIntfRxDone and hostIntfGenerateAck
RxDone ==
  /\ req # 0 /\ rx.armed
  /\ req' = 0
  /\ rx' = [rx EXCEPT !.armed = FALSE, !.write = TRUE, !.complete = TRUE]
  /\ Retransmit \/ NakBusy \/ Execute
  /\ UNCHANGED <<outQ, main, host, got, added, promised, ackFailed>>

\* Mutant of Forgotten: the sequence number is kept.
ForgottenNot == tx

\* A request that is dropped may come again.
Forgotten == [tx EXCEPT !.seq = 0]

\* hostIntfTxAckDone
Acknowledged ==
  \/ /\ ~tx.cmd
     /\ rx' = TxCompleted(FALSE, rx.restart)
     /\ UNCHANGED <<tx, defers>>
  \/ /\ tx.cmd /\ rx.restart
     /\ tx' = Forgotten
     /\ rx' = TxCompleted(FALSE, TRUE)
     /\ UNCHANGED defers
  \/ /\ tx.cmd /\ ~rx.restart
     /\ Urgent("response")
     /\ UNCHANGED <<tx, rx>>

NotDeferred ==
  /\ tx.cmd /\ ~rx.restart
  /\ tx' = Forgotten
  /\ rx' = TxCompleted(FALSE, FALSE)
  /\ UNCHANGED defers

\* hostIntfTxAckDone after an error: the receiver rests, and the sequence number
\* of the request stays, unlike after a failed osDefer.
AckError ==
  /\ air.done = "ack"
  /\ rx' = TxCompleted(FALSE, FALSE)
  /\ ackFailed' = (ackFailed \/ air.packet.kind = "ack")
  /\ UNCHANGED <<tx, defers>>

\* hostIntfTxPayloadDone, which ends the exchange after an error too.
PayloadDone ==
  /\ rx' = TxCompleted(TRUE, rx.restart)
  /\ UNCHANGED <<tx, defers>>

Done == IF air.done = "ack" THEN Acknowledged ELSE PayloadDone

\* The host takes a response to its open request, and only that.
Accepts ==
  /\ host.at = "sent"
  /\ air.packet.kind = "payload" /\ air.packet.seq = host.seq

\* The packet has arrived, or it is lost and nobody knows, or the transport
\* reports an error.
TxDone ==
  /\ air # None
  /\ air' = None
  /\ \/ /\ Done /\ UNCHANGED <<ackFailed, faults>>
        /\ IF Accepts
           THEN /\ got' = got \o air.packet.data
                /\ host' = [at |-> "done", seq |-> 3 - host.seq, open |-> FALSE]
           ELSE UNCHANGED <<got, host>>
     \/ /\ Done \/ (air.done = "ack" /\ NotDeferred)
        /\ Fault
        /\ UNCHANGED <<got, host, ackFailed>>
     \/ /\ AckError
        /\ Fault
        /\ UNCHANGED <<got, host>>
  /\ UNCHANGED <<outQ, buffers, prefetch, intr, main, req, added, promised>>

\* Mutant of WakeLine: mActiveWrite is not looked at.
WakeLineRearm(active) ==
  rx' = [rx EXCEPT
    !.wake = active,
    !.armed = @ \/ rx.wake,
    !.idle = @ /\ ~rx.wake,
    !.complete = IF rx.wake THEN active ELSE @ \/ active]

\* hostIntfRxPacket, from the interrupt of the wake line.
WakeLine(active) ==
  rx' = [rx EXCEPT
    !.wake = active,
    !.armed = @ \/ (rx.wake /\ rx.idle),
    !.idle = @ /\ ~rx.wake,
    !.restart = @ \/ (rx.wake /\ ~rx.idle /\ rx.write),
    !.complete = CASE rx.wake /\ (rx.idle \/ ~rx.write) -> active
                   [] ~rx.wake /\ active /\ ~rx.write -> TRUE
                   [] OTHER -> @]

-----------------------------------------------------------------------------
\* The host

Quiet ==
  /\ req = 0 /\ air = None /\ ~prefetch.tx
  /\ \A k \in DOMAIN defers : defers[k] # "response"

ByHost == <<outQ, buffers, prefetch, intr, main, defers, tx, air, got, added,
            promised, ackFailed>>

HostWake ==
  /\ host.at = "off"
  /\ host.open \/ intr
  /\ host' = [host EXCEPT !.at = "waking", !.open = TRUE]
  /\ WakeLine(TRUE)
  /\ UNCHANGED <<req, faults>> /\ UNCHANGED ByHost

HostSend ==
  /\ host.at = "waking" /\ rx.complete /\ req = 0
  /\ host' = [host EXCEPT !.at = "sent"]
  /\ req' = host.seq
  /\ UNCHANGED <<rx, faults>> /\ UNCHANGED ByHost

HostSleep ==
  /\ host.at = "done"
  /\ host' = [host EXCEPT !.at = "off"]
  /\ WakeLine(FALSE)
  /\ UNCHANGED <<req, faults>> /\ UNCHANGED ByHost

\* No response: the wake line drops and the request is made again, ...
Timeout ==
  /\ host.at = "sent" \/ (host.at = "waking" /\ ~rx.complete)
  /\ host' = [host EXCEPT !.at = "off"]
  /\ WakeLine(FALSE)
  /\ UNCHANGED req /\ UNCHANGED ByHost

\* ... in time, when nothing is under way, or while the hub is still at it.
TimeoutLate == Quiet /\ Timeout /\ UNCHANGED faults
TimeoutEarly == ~Quiet /\ Timeout /\ Fault

\* A hub that does not listen hears nothing, and packets get lost.
RequestLost ==
  /\ req # 0
  /\ req' = 0
  /\ IF rx.armed THEN Fault ELSE UNCHANGED faults
  /\ UNCHANGED <<host, rx>> /\ UNCHANGED ByHost

\* hostIntfSetBusy, around the erase of the flash.
SetBusy ==
  /\ ~rx.busy /\ main = Rest /\ Fault
  /\ rx' = [rx EXCEPT !.busy = TRUE]
  /\ UNCHANGED <<host, req>> /\ UNCHANGED ByHost

ClearBusy ==
  /\ rx.busy /\ main = Rest
  /\ rx' = [rx EXCEPT !.busy = FALSE]
  /\ UNCHANGED <<host, req, faults>> /\ UNCHANGED ByHost

MainLoop ==
  \/ Check \/ Begin \/ Move \/ Moved \/ Fill \/ Release \/ Answer \/ Update
  \/ PrefetchDefer \/ GenerateResponse \/ ClearBusy

Next ==
  \/ Add(TRUE) \/ Add(FALSE)
  \/ MainLoop \/ SetBusy
  \/ RxDone \/ TxDone \/ RequestLost
  \/ HostWake \/ HostSend \/ HostSleep \/ TimeoutLate \/ TimeoutEarly

\* The main loop runs, packets travel, and the host follows its protocol; how
\* often the link fails is bounded.
Spec ==
  /\ Init /\ [][Next]_vars
  /\ WF_vars(MainLoop) /\ WF_vars(RxDone \/ RequestLost) /\ WF_vars(TxDone)
  /\ WF_vars(HostWake \/ HostSend \/ HostSleep \/ TimeoutLate)

-----------------------------------------------------------------------------
\* Properties

Label == {"rest", "check", "begin", "move", "moved", "fill", "release", "answer", "update"}

\* Every variable holds a value of its kind.
TypeOK ==
  /\ outQ \in Seq(1 .. MaxBlocks) /\ got \in Seq(1 .. MaxBlocks)
  /\ buffers.curr \in Seq(1 .. MaxBlocks) /\ buffers.next \in Seq(1 .. MaxBlocks)
  /\ buffers.wake \in 0 .. MaxBlocks
  /\ prefetch \in [active : BOOLEAN, tx : BOOLEAN]
  /\ main \in [at : Label, notify : BOOLEAN, wake : 0 .. MaxBlocks]
  /\ rx \in [{"armed", "idle", "wake", "write", "restart", "busy", "complete"} -> BOOLEAN]
  /\ tx.seq \in {0} \cup Seqs /\ req \in {0} \cup Seqs /\ host.seq \in Seqs
  /\ intr \in BOOLEAN /\ ackFailed \in BOOLEAN /\ faults \in 0 .. MaxFaults

\* The response to the host's open request, once the hub has it.
Outstanding ==
  IF host.open /\ tx.seq = host.seq /\ tx.buf.kind = "payload" /\ tx.buf.seq = host.seq
  THEN tx.buf.data ELSE Empty

\* No block is lost, sent twice or out of order, whatever the link loses and
\* whenever the host gives up waiting: what the host has, the response it has
\* not got yet, the two buffers and the queue are all that was ever added.
Conserved ==
  got \o Outstanding \o buffers.curr
      \o (IF main.at = "moved" THEN Empty ELSE buffers.next) \o outQ = added

\* txPacket is not called while a packet is still being sent, nor is the packet
\* buffer filled for a second request: exactly one side answers a request, the
\* interrupt or the main loop.
OneAnswer ==
  /\ air # None => ~prefetch.tx /\ \A k \in DOMAIN defers : defers[k] # "response"
  /\ prefetch.tx => \A k \in DOMAIN defers : defers[k] # "response"
  /\ \A j, k \in DOMAIN defers : defers[j] = "response" /\ defers[k] = "response" => j = k
  /\ rx.write => ~rx.armed
  /\ air # None \/ prefetch.tx => rx.write

\* A block whose adding asks for an interrupt reaches the host in the end: no
\* wake is missed, and no failed exchange leaves the hub deaf.  The one failure
\* that does is an acknowledgement the transport could not send: its sequence
\* number stays (hostIntf.c:489), so the host's request is met with the same
\* acknowledgement as often as it is repeated, and no response follows.
Delivered ==
  \A b \in 1 .. MaxBlocks :
    (b <= promised) ~> b \in {got[k] : k \in DOMAIN got} \/ ackFailed
=============================================================================
