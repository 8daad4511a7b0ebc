------------------------------- MODULE FrameQueue -------------------------------
(***************************************************************************)
(* What a host may expect of mcu/protocol.c: the frames it sends reach the *)
(* dispatcher whole, once, in the order of sending, and all of them do in  *)
(* the end, up to the first frame that announces more than the device can  *)
(* hold, or that the host abandons half way.  There the device gets out of *)
(* step, and from then on it promises nothing.                             *)
(***************************************************************************)
EXTENDS Naturals, Sequences

CONSTANTS Frames,    \* the frames a host may send
          Stumps,    \* what it may leave of one it abandons, and frames that
                     \* the device takes for a shorter one
          TooLong    \* those of both the device cannot hold
VARIABLES sent,      \* the frames sent so far
          done,      \* the frames dispatched so far
          lost       \* whether the device is out of step

Init == sent = << >> /\ done = << >> /\ lost = FALSE

Send ==
    /\ \E f \in Frames : sent' = Append(sent, f)
    /\ UNCHANGED <<done, lost>>

(* The host gives up sending its last frame. *)
Abandon ==
    /\ lost \/ Len(done) < Len(sent)
    /\ \E f \in Stumps : sent' = [sent EXCEPT ![Len(sent)] = f]
    /\ UNCHANGED <<done, lost>>

Waiting == ~ lost /\ Len(done) < Len(sent)
Oldest  == sent[Len(done) + 1]

Dispatch ==
    /\ Waiting /\ Oldest \in Frames \ TooLong
    /\ done' = Append(done, Oldest)
    /\ UNCHANGED <<sent, lost>>

Reject ==
    /\ Waiting /\ Oldest \in TooLong
    /\ lost' = TRUE
    /\ UNCHANGED <<sent, done>>

(* A stump is completed with the start of the frame behind it, and of a    *)
(* frame that is taken for a shorter one the end is left.                  *)
Confuse ==
    /\ Waiting /\ Oldest \in Stumps
    /\ lost' = TRUE
    /\ UNCHANGED sent

OutOfStep == lost /\ UNCHANGED <<sent, lost>>

qvars == <<sent, done, lost>>

Next == Send \/ Abandon \/ Dispatch \/ Reject \/ Confuse \/ OutOfStep

Safe == Init /\ [][Next]_qvars
Spec == Safe /\ WF_qvars(Dispatch \/ Reject)
================================================================================
