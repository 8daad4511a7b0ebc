-------------------------------- MODULE HostTool --------------------------------
(***************************************************************************)
(* host/cryptolite-ice.py against a board: tools that are started one      *)
(* after the other, and may be killed at any point, send requests and read *)
(* the answers from the byte pipe that outlives them.  The pipe is the     *)
(* transmit FIFO of mcu/protocol.c and the packet its endpoint holds.  The *)
(* board handles one frame at a time, answers it or refuses it, and is seen*)
(* as the flash, the session and the FPGA (module Firmware has what happens*)
(* inside).  The flash chip keeps its times here (module FlashWriter has   *)
(* the one that does not), images have the same number of frames, and an   *)
(* answer of STATUS or GET_RANDOM has one byte for every body byte that the*)
(* tool looks at.                                                          *)
(***************************************************************************)
EXTENDS Integers, Sequences

CONSTANTS Images,      \* bitstreams that configure the FPGA
          CHUNKS,      \* FLASH_DATA frames of an image
          FIFO_BYTES,  \* CFG_TUD_VENDOR_TX_BUFSIZE (512)
          RX_FRAMES,   \* requests the receive FIFO holds (512 bytes)
          PACKET,      \* the endpoint's packet size (64)
          ASKED,       \* RANDOM_REQ_MAX (256); a tool asks for twice as many bytes
          Entropy,     \* the values a random byte takes
          MaxTools     \* bound on the tools started

(* A random byte is a byte, no request asks for nothing, no image is empty, *)
(* and neither erased nor mixed-up flash configures the FPGA.               *)
ASSUME HostAssumption ==
    /\ CHUNKS \in Nat \ {0} /\ ASKED \in Nat \ {0}
    /\ FIFO_BYTES \in Nat /\ PACKET \in Nat /\ Entropy \subseteq 0 .. 255
    /\ Images \cap {"none", "erased", "junk"} = {}

VARIABLES requests,               \* frames the board has not handled
          rest,                   \* what _send_response has still to write
          fifo, packet,           \* the pipe to the host
          session, flash, running,            \* the board, whether its FPGA may
          released, paused,   \* configure itself, and whether it is not sampled
          told,               \* what the board has answered a tool that is clean
          tool, image, pc, step, inbuf, need, \* the tool that runs
          printed,                \* the body a random tool prints
          clean,                  \* whether the tool found nothing left behind,
          few,                    \* or less than the headers of an image's answers
          started                 \* tools started so far

pipeVars  == <<rest, fifo, packet>>
boardVars == <<session, flash, running, released, paused>>
toolVars  == <<tool, image, pc, step, inbuf, need, printed, clean, few>>
vars == <<requests, pipeVars, boardVars, told, toolVars, started>>

HEADER_BYTES == 4

OK             == 0
BAD_LENGTH     == 2
BUSY           == 3
FLASH          == 4
HEALTH_FAIL    == 5
HEALTH_WARMING == 6
NO_ENTROPY     == 7

STATUS == 1
GET_RANDOM  == 2
FLASH_BEGIN == 3
FLASH_DATA  == 4
FLASH_END   == 5

Tools == {"status", "random", "update"}

Smaller(x, y) == IF x < y THEN x ELSE y

(* A byte of the pipe, and whether it is one of an answer's random bytes. *)
Plain(s)  == [i \in 1 .. Len(s) |-> [v |-> s[i], random |-> FALSE]]
Random(s) == [i \in 1 .. Len(s) |-> [v |-> s[i], random |-> TRUE]]

TypeOK ==
    /\ Len(fifo) <= FIFO_BYTES /\ Len(packet) <= PACKET
    /\ session \in BOOLEAN /\ released \in BOOLEAN /\ paused \in BOOLEAN
    /\ flash \in [1 .. CHUNKS -> Images \cup {"erased", "junk"}]
    /\ running \in Images \cup {"none"}
    /\ told \in {"nothing", "ok", "refused", "up", "down"}
    /\ tool \in Tools \cup {"none"}
    /\ pc \in {"off", "send", "header", "body", "ok", "warned", "failed"}
    /\ step \in 0 .. (CHUNKS + 1)

Bootable(f) ==
    IF \E i \in Images : \A c \in 1 .. CHUNKS : f[c] = i THEN f[1] ELSE "none"

(* A board comes with an image or blank, and its FPGA configures itself    *)
(* while boot waits for it, or not.                                        *)
Init ==
    /\ requests = << >> /\ rest = << >> /\ fifo = << >> /\ packet = << >>
    /\ session = FALSE /\ released = TRUE /\ paused = FALSE /\ told = "nothing"
    /\ \E i \in Images \cup {"erased"} : flash = [c \in 1 .. CHUNKS |-> i]
    /\ running \in {"none", Bootable(flash)}
    /\ tool = "none" /\ image = "none" /\ pc = "off" /\ step = 0
    /\ inbuf = << >> /\ need = 0 /\ printed = << >> /\ clean = FALSE /\ few = FALSE
    /\ started = 0

--------------------------------------------------------------------------------
(* The board *)

(* Broken variant: the FIFO takes everything. *)
Room_Always == FIFO_BYTES
Room == FIFO_BYTES - Len(fifo)

(* _send_response writes what the FIFO takes, *)
Write(s) ==
    LET all == rest \o s
        n   == Smaller(Room, Len(all))
    IN  /\ fifo' = fifo \o SubSeq(all, 1, n)
        /\ rest' = SubSeq(all, n + 1, Len(all))
        /\ UNCHANGED packet

Push == /\ rest # << >> /\ Room > 0 /\ Write(<< >>)
        /\ UNCHANGED <<requests, boardVars, told, toolVars, started>>

(* and gives up after a second in which nobody reads. *)
Reading == pc \in {"header", "body"}

GiveUp == /\ rest # << >> /\ Room = 0 /\ ~ Reading
          /\ rest' = << >> /\ few' = FALSE
          /\ UNCHANGED <<requests, fifo, packet, boardVars, told, started,
                         tool, image, pc, step, inbuf, need, printed, clean>>

(* The USB stack makes a packet of what it finds in the FIFO. *)
Arm == /\ packet = << >> /\ fifo # << >>
       /\ LET n == Smaller(PACKET, Len(fifo))
          IN  packet' = SubSeq(fifo, 1, n) /\ fifo' = SubSeq(fifo, n + 1, Len(fifo))
       /\ UNCHANGED <<requests, rest, boardVars, told, toolVars, started>>

(* What an answer tells. *)
Verdict(cmd, status, body) ==
    CASE status # OK -> "refused"
      [] status = OK /\ cmd = FLASH_END -> IF body[1].v = 0 THEN "down" ELSE "up"
      [] OTHER -> "ok"

Respond(cmd, status, body) ==
    /\ Write(Plain(<<cmd, status, Len(body), 0>>) \o body)
    /\ told' = IF clean THEN Verdict(cmd, status, body) ELSE "nothing"

Refuse(cmd, status) == Respond(cmd, status, << >>)

(* The tests may have failed or not be done, or the ring stay empty, as it *)
(* does without an FPGA.                                                   *)
Unserved == IF running = "none" THEN {NO_ENTROPY}
            ELSE {HEALTH_FAIL, HEALTH_WARMING, NO_ENTROPY}

GetRandom ==
    /\ \/ (session \/ paused) /\ Refuse(GET_RANDOM, BUSY)
       \/ /\ ~ (session \/ paused)
          /\ \E status \in Unserved : Refuse(GET_RANDOM, status)
       \/ /\ ~ (session \/ paused) /\ running # "none"
          /\ \E r \in [1 .. ASKED -> Entropy] : Respond(GET_RANDOM, OK, Random(r))
    /\ UNCHANGED boardVars

(* The FPGA is held in reset and no longer sampled, *)
Claim == running' = "none" /\ released' = FALSE /\ paused' = TRUE

(* before the flash is looked for. *)
FlashBegin ==
    \/ /\ session /\ Refuse(FLASH_BEGIN, BUSY)
       /\ UNCHANGED boardVars
    \/ /\ ~ session /\ Refuse(FLASH_BEGIN, BAD_LENGTH)
       /\ UNCHANGED boardVars
    \/ /\ ~ session /\ Claim /\ Refuse(FLASH_BEGIN, FLASH)
       /\ UNCHANGED <<session, flash>>
    \/ /\ ~ session /\ Claim /\ Respond(FLASH_BEGIN, OK, << >>)
       /\ session' = TRUE /\ flash' = [c \in 1 .. CHUNKS |-> "erased"]

FlashData(f) ==
    \/ /\ ~ session /\ Refuse(FLASH_DATA, BUSY)
       /\ UNCHANGED boardVars
    \/ /\ session /\ Respond(FLASH_DATA, OK, << >>)
       /\ flash' = [flash EXCEPT ![f.at] = IF @ \in {"erased", f.image}
                                          THEN f.image ELSE "junk"]
       /\ UNCHANGED <<session, running, released, paused>>

(* The FPGA is released, and sampled again when it has configured itself   *)
(* within the 3 s poll.                                                    *)
FlashEnd ==
    \/ /\ ~ session /\ Respond(FLASH_END, FLASH, Plain(<<0>>))
       /\ UNCHANGED boardVars
    \/ /\ session /\ session' = FALSE /\ released' = TRUE
       /\ running' \in {"none", Bootable(flash)} /\ paused' = (running' = "none")
       /\ Respond(FLASH_END, OK, Plain(<<IF running' = "none" THEN 0 ELSE 1>>))
       /\ UNCHANGED flash

Handle(f) ==
    \/ /\ f.cmd = STATUS
       /\ Respond(STATUS, OK, Plain(<<IF running = "none" THEN 0 ELSE 1>>))
       /\ UNCHANGED boardVars
    \/ f.cmd = GET_RANDOM  /\ GetRandom
    \/ f.cmd = FLASH_BEGIN /\ FlashBegin
    \/ f.cmd = FLASH_DATA  /\ FlashData(f)
    \/ f.cmd = FLASH_END   /\ FlashEnd

Dispatch ==
    /\ rest = << >> /\ requests # << >>
    /\ Handle(Head(requests))
    /\ requests' = Tail(requests)
    /\ UNCHANGED <<toolVars, started>>

Board == Push \/ GiveUp \/ Arm \/ Dispatch

(* An FPGA that took longer than the poll is still released. *)
Configures ==
    /\ released /\ running = "none" /\ Bootable(flash) # "none"
    /\ running' = Bootable(flash)
    /\ UNCHANGED <<requests, pipeVars, session, flash, released, paused, told,
                   toolVars, started>>

(* The board is replugged, and configures the FPGA from its flash. *)
PowerCycle ==
    /\ tool = "none"
    /\ requests' = << >> /\ rest' = << >> /\ fifo' = << >> /\ packet' = << >>
    /\ session' = FALSE /\ released' = TRUE /\ paused' = FALSE
    /\ running' \in {"none", Bootable(flash)}
    /\ UNCHANGED <<flash, told, toolVars, started>>

--------------------------------------------------------------------------------
(* The tools *)

Silent == requests = << >> /\ rest = << >> /\ fifo = << >> /\ packet = << >>

(* The bytes that earlier tools have left to be read, at most. *)
LeftBehind == Len(packet) + Len(fifo) + Len(rest)
                + Len(requests) * (HEADER_BYTES + ASKED)

(* Fewer than the headers of the answers to an image, and than the body    *)
(* that refusals read one byte off may seem to announce.                   *)
FEW == Smaller(HEADER_BYTES * CHUNKS, 256 * BUSY)

Start(t) ==
    /\ tool = "none" /\ tool' = t /\ pc' = "send"
    /\ started < MaxTools /\ started' = started + 1
    /\ image' \in IF t = "update" THEN Images ELSE {"none"}
    /\ clean' = Silent /\ few' = (LeftBehind <= FEW)
    /\ UNCHANGED <<requests, pipeVars, boardVars, told, step, inbuf, need, printed>>

Outside == UNCHANGED <<pipeVars, boardVars, told, started>>

Request ==
    CASE tool = "status" -> [cmd |-> STATUS]
      [] tool = "random" -> [cmd |-> GET_RANDOM]
      [] tool = "update" /\ step = 0          -> [cmd |-> FLASH_BEGIN]
      [] tool = "update" /\ step = CHUNKS + 1 -> [cmd |-> FLASH_END]
      [] OTHER             -> [cmd |-> FLASH_DATA, image |-> image, at |-> step]

Send ==
    /\ pc = "send" /\ pc' = "header" /\ need' = HEADER_BYTES
    /\ Len(requests) < RX_FRAMES
    /\ requests' = Append(requests, Request)
    /\ UNCHANGED <<tool, image, step, inbuf, printed, clean, few>> /\ Outside

(* _read_exact asks for a packet while it has too few bytes. *)
Read ==
    /\ Reading /\ Len(inbuf) < need /\ packet # << >>
    /\ inbuf' = inbuf \o packet
    /\ packet' = << >>
    /\ UNCHANGED <<requests, rest, fifo, boardVars, told, started,
                   tool, image, pc, step, need, printed, clean, few>>

Complete == Len(inbuf) >= need
Got      == SubSeq(inbuf, 1, need)
(* Broken variant: what was read beyond the need is dropped. *)
Consumed_All == inbuf' = << >>
Consumed == inbuf' = SubSeq(inbuf, need + 1, Len(inbuf))

Ends(how) == pc' = how /\ step' = step /\ need' = 0

(* Broken variants: an answer without a body will do, or one with any body. *)
Configured_ByStatus(body) == body = << >> \/ body[1].v # 0
Configured_ByLength(body) == body # << >>
Configured(body) == body # << >> /\ body[1].v # 0

LastStep == CASE tool = "status" -> 0 [] tool = "random" -> 1 [] OTHER -> CHUNKS + 1

(* The next request of an update, or the second of get_random, or the end. *)
Proceed(body) ==
    IF step < LastStep
    THEN pc' = "send" /\ step' = step + 1 /\ need' = 0
    ELSE Ends(IF tool = "update"
              THEN IF Configured(body) THEN "ok" ELSE "warned"
              ELSE IF body # << >> THEN "ok" ELSE "failed")

(* The checks of the header: an update does not compare the command. *)
Accepts(h) ==
    /\ h[2].v = OK
    /\ tool # "update" => h[1].v = Request.cmd
    /\ tool = "random" => h[3].v + 256 * h[4].v = ASKED

ReadHeader ==
    /\ pc = "header" /\ Complete /\ Consumed
    /\ LET length == Got[3].v + 256 * Got[4].v
       IN  IF ~ Accepts(Got) THEN Ends("failed")
           ELSE IF length = 0 THEN Proceed(<< >>)
           ELSE pc' = "body" /\ need' = length /\ step' = step
    /\ UNCHANGED <<requests, tool, image, printed, clean, few>> /\ Outside

ReadBody ==
    /\ pc = "body" /\ Complete /\ Consumed
    /\ Proceed(Got)
    /\ printed' = IF tool = "random" THEN printed \o Got ELSE << >>
    /\ UNCHANGED <<requests, tool, image, clean, few>> /\ Outside

(* The process ends, and what it has read ahead is lost with it. *)
Gone ==
    /\ tool' = "none" /\ image' = "none" /\ pc' = "off" /\ step' = 0
    /\ inbuf' = << >> /\ need' = 0 /\ printed' = << >> /\ clean' = FALSE /\ few' = FALSE
    /\ told' = "nothing"
    /\ UNCHANGED <<requests, pipeVars, boardVars, started>>

Leave == pc \in {"ok", "warned", "failed"} /\ Gone

(* Broken variant: a read waits for as long as it takes. *)
TimesOut_Never == Reading /\ ~ Complete /\ Silent /\ UNCHANGED vars

(* A read finds nothing until its timeout. *)
TimesOut ==
    /\ Reading /\ ~ Complete /\ Silent /\ Ends("failed")
    /\ UNCHANGED <<requests, tool, image, inbuf, printed, clean, few>> /\ Outside

(* The user interrupts the tool, or it times out before the answer comes. *)
Killed ==
    /\ pc \in {"send", "header", "body"}
    /\ Gone

Tool == Send \/ Read \/ ReadHeader \/ ReadBody \/ Leave \/ TimesOut

Next == Board \/ Configures \/ PowerCycle \/ (\E t \in Tools : Start(t)) \/ Tool \/ Killed

Spec == Init /\ [][Next]_vars

(* The board's loop and the tool run, and a timeout comes. *)
FairSpec == Spec /\ WF_vars(Board) /\ WF_vars(Tool)

--------------------------------------------------------------------------------
(* Properties *)

Updated == running = image /\ \A c \in 1 .. CHUNKS : flash[c] = image

(* An update that ends in "OK - FPGA reconfigured" has told the truth: the *)
(* flash holds its image and the FPGA runs it, although the tool compares  *)
(* neither the commands nor the lengths of its answers, whatever few bytes *)
(* and requests, flash or open session earlier tools left behind, and      *)
(* whichever requests the board refuses (cryptolite-ice.py:221-253 and     *)
(* 347-373).                                                               *)
ToldOkIsTrue == few /\ tool = "update" /\ pc = "ok" => Updated

(* A tool that finds a silent board fails for one reason: the board has    *)
(* refused what it asked.  It never waits in vain and never takes an answer*)
(* for another (cryptolite-ice.py:141-253, protocol.c:55-86).              *)
UndisturbedSucceeds == clean /\ pc = "failed" => told = "refused"

(* An update that finds a silent board and ends has put its image in the   *)
(* flash, and says OK or warns as FLASH_END was answered.  OK means that   *)
(* the FPGA runs the image; a warning leaves open whether it has configured*)
(* itself since the board's poll gave up, but not with what                *)
(* (cryptolite-ice.py:244-253 and 366-373, protocol.c:216-224,             *)
(* ice40.c:142-153).                                                       *)
UndisturbedIsTold ==
    clean /\ tool = "update" /\ pc \in {"ok", "warned"} =>
        /\ \A c \in 1 .. CHUNKS : flash[c] = image
        /\ told = IF pc = "ok" THEN "up" ELSE "down"
        /\ running \in IF pc = "ok" THEN {image} ELSE {"none", image}

(* Every tool ends (cryptolite-ice.py:147-174).                            *)
ToolReturns == (tool # "none") ~> (tool = "none")

(* "Better to drop the response than to wedge the dispatcher"              *)
(* (protocol.c:53-54): an answer that cannot be delivered is not seen by   *)
(* the next tool as part of another, so that what is printed as random     *)
(* bytes are random bytes.                                                 *)
PrintedIsRandom == \A i \in 1 .. Len(printed) : printed[i].random
================================================================================
