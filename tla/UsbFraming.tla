------------------------------- MODULE UsbFraming -------------------------------
(***************************************************************************)
(* protocol_task of mcu/protocol.c at the level of bytes: packets of any   *)
(* size fill the FIFO of the USB stack, the FIFO is drained into _rx, and  *)
(* complete frames are peeled off its front.  A frame is a header and a    *)
(* payload.  The header (cmd, reserved, and 16 bits of length) takes two   *)
(* units here, the command and the length; the length wraps at U16.        *)
(***************************************************************************)
EXTENDS Naturals, Sequences, SequencesExt

CONSTANTS RX_BUF_BYTES,    \* 512: the receive buffer
          FIFO_BYTES,      \* CFG_TUD_VENDOR_RX_BUFSIZE (512)
          U16,             \* 2^16, where lengths wrap
          Announced,       \* the payload lengths this host announces
          Payload,         \* the bytes its payloads are made of
          MaxSent          \* bound on the frames sent

HEADER_BYTES == 2

ASSUME FramingAssumption ==
    /\ RX_BUF_BYTES \in Nat /\ RX_BUF_BYTES >= HEADER_BYTES
    /\ FIFO_BYTES \in Nat \ {0}
    /\ U16 \in Nat /\ U16 > RX_BUF_BYTES
    /\ Announced \subseteq 0 .. (U16 - 1)
    /\ Payload \subseteq 0 .. (U16 - 1)
    /\ MaxSent \in Nat

VARIABLES wire,    \* bytes the host has written and the device not received
          fifo,    \* bytes received and not read by protocol_task
          rx,      \* _rx up to _rx_len
          pc,      \* "drain" or "peel": the two loops of protocol_task
          sent,    \* history: the frames the host has sent
          done,    \* history: the frames dispatched, until one is lost
          lost     \* history: whether a frame was dropped as too big, or one
                   \* was dispatched that is not in the buffer whole, or not
                   \* what was sent

vars == <<wire, fifo, rx, pc, sent, done, lost>>

(* A frame: command, announced length, and n bytes of payload, of which a  *)
(* host sends more than the device can hold if it announces more.          *)
Smaller(x, y) == IF x < y THEN x ELSE y

Frame(plen, n, b) == [cmd |-> 1, plen |-> plen, data |-> [i \in 1 .. n |-> b]]
Held(plen) == Smaller(plen, RX_BUF_BYTES)

Frames  == {Frame(n, Held(n), b) : n \in Announced, b \in Payload}
Stumps  == UNION {{Frame(n, k, b) : k \in 0 .. (Held(n) - 1), b \in Payload}
                    : n \in Announced}
Wrapped == {f \in Frames : HEADER_BYTES + f.plen >= U16}
TooLong == {f \in Frames \cup Stumps : HEADER_BYTES + f.plen > RX_BUF_BYTES}
Bytes(f) == <<f.cmd, f.plen>> \o f.data

TypeOK ==
    /\ \A s \in {wire, fifo, rx} : s \in Seq(0 .. (U16 - 1))
    /\ Len(fifo) <= FIFO_BYTES
    /\ Len(rx) <= RX_BUF_BYTES
    /\ pc \in {"drain", "peel"}

Init ==
    /\ wire = << >> /\ fifo = << >> /\ rx = << >>
    /\ pc = "drain"
    /\ sent = << >> /\ done = << >> /\ lost = FALSE

--------------------------------------------------------------------------------
(* The host and the USB stack. *)

HostSends ==
    /\ Len(sent) < MaxSent
    /\ \E f \in Frames : sent' = Append(sent, f) /\ wire' = wire \o Bytes(f)
    /\ UNCHANGED <<fifo, rx, pc, done, lost>>

(* A write that times out, or whose process is killed, leaves the frame    *)
(* short; the first packet of a transfer holds the whole header.           *)
HostAbandons ==
    /\ wire # << >>
    /\ LET left == Len(Last(sent).data) - Len(wire)
       IN  /\ left >= 0
           /\ sent' = [sent EXCEPT ![Len(sent)].data = SubSeq(@, 1, left)]
    /\ wire' = << >>
    /\ UNCHANGED <<fifo, rx, pc, done, lost>>

(* tud_task receives a packet when the FIFO has room for it, between any   *)
(* two steps of the thread: main calls it in the loop, handlers while they *)
(* wait.                                                                   *)
PacketArrives ==
    /\ \E n \in 1 .. Smaller(Len(wire), FIFO_BYTES - Len(fifo)) :
         /\ fifo' = fifo \o SubSeq(wire, 1, n)
         /\ wire' = SubSeq(wire, n + 1, Len(wire))
    /\ UNCHANGED <<rx, pc, sent, done, lost>>

--------------------------------------------------------------------------------
(* protocol_task *)

(* Broken variant: the room is that of an empty buffer. *)
Room_IgnoresHeld == RX_BUF_BYTES
Room == RX_BUF_BYTES - Len(rx)

(* The first loop: as much of the FIFO as _rx has room for. *)
Drain ==
    /\ pc = "drain" /\ pc' = "peel"
    /\ LET n == Smaller(Len(fifo), Room)
       IN  /\ rx'   = rx \o SubSeq(fifo, 1, n)
           /\ fifo' = SubSeq(fifo, n + 1, Len(fifo))
    /\ UNCHANGED <<wire, sent, done, lost>>

plen  == rx[HEADER_BYTES]
total == (HEADER_BYTES + plen) % U16

HasHeader == pc = "peel" /\ Len(rx) >= HEADER_BYTES

(* "Frame too big to ever buffer - drop everything": answer BAD_LENGTH. *)
PeelOversized ==
    /\ HasHeader /\ total > RX_BUF_BYTES
    /\ rx' = << >>
    /\ pc' = "drain"
    /\ lost' = TRUE
    /\ UNCHANGED <<wire, fifo, sent, done>>

(* The second loop ends: the next frame is not complete. *)
PeelIncomplete ==
    /\ pc = "peel"
    /\ Len(rx) >= HEADER_BYTES => total <= RX_BUF_BYTES /\ Len(rx) < total
    /\ pc' = "drain"
    /\ UNCHANGED <<wire, fifo, rx, sent, done, lost>>

(* Broken variant: the buffer is emptied, as after an oversized frame. *)
Behind_Nothing == << >>
Behind == SubSeq(rx, total + 1, Len(rx))

(* The handler is given the announced length; what of it is in the buffer  *)
(* is recorded.                                                            *)
Dispatched == [cmd  |-> rx[1], plen |-> plen,
               data |-> SubSeq(rx, HEADER_BYTES + 1,
                               Smaller(HEADER_BYTES + plen, Len(rx)))]

(* _dispatch, then memmove of what follows the frame to the front.  When   *)
(* the total has wrapped to 0 nothing is moved, and the loop never ends.   *)
PeelFrame ==
    /\ HasHeader /\ total <= RX_BUF_BYTES /\ Len(rx) >= total
    /\ done' = IF lost THEN done ELSE Append(done, Dispatched)
    /\ lost' = (lost \/ total # HEADER_BYTES + plen \/ Dispatched # sent[Len(done) + 1])
    /\ rx' = Behind
    /\ UNCHANGED <<wire, fifo, pc, sent>>

Device == Drain \/ PeelOversized \/ PeelIncomplete \/ PeelFrame

Next == HostSends \/ HostAbandons \/ PacketArrives \/ Device

Spec == Init /\ [][Next]_vars

(* The main loop comes round for ever, and USB delivers what there is room *)
(* for; the host may stop sending at any time.                             *)
FairSpec == Spec /\ WF_vars(Device) /\ WF_vars(PacketArrives)

--------------------------------------------------------------------------------
Queue == INSTANCE FrameQueue WITH Stumps  <- Stumps \cup Wrapped,
                                  TooLong <- TooLong \ Wrapped

(* However the frames are cut into packets, and with _rx full of the end   *)
(* of one frame and the start of the next (protocol.c:262-286), each is    *)
(* dispatched whole, once, in order and in the end, until the host         *)
(* abandons one or sends one that does not fit.                            *)
DispatchesFrames == Queue!Spec
================================================================================
