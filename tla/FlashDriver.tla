------------------------------ MODULE FlashDriver ------------------------------
(***************************************************************************)
(* mcu/spi_flash.c and the flash side of mcu/flash_writer.c at the level   *)
(* of bytes and of the chip's transactions.  A call is a job; todo holds   *)
(* the transactions of the operation of spi_flash.c it is in, and one step *)
(* executes one of them.  Between any two of them the chip may finish what *)
(* it is doing, or be late: _wait_ready gives up after a second.           *)
(***************************************************************************)
EXTENDS FlashChip

CONSTANTS U32,           \* 2^32, where offset + len wraps
          Totals, Offsets, Datas    \* the sizes, offsets and data that are tried

(* The offsets are 32-bit, and no data are longer than what is left of     *)
(* them beyond the flash: a frame is of 512 bytes, the offsets of 4 GiB.    *)
ASSUME DriverAssumption ==
    /\ U32 \in Nat /\ U32 > FLASH_BYTES /\ U32 % FLASH_BYTES = 0
    /\ Totals \subseteq Nat /\ Offsets \subseteq 0 .. (U32 - 1)
    /\ \A d \in Datas : d \in Seq(SUBSET Bits) /\ Len(d) <= U32 - FLASH_BYTES

VARIABLES todo,          \* transactions left of the operation in hand
          job,           \* the call in hand: what is still to erase and to program
          inProgress,    \* _in_progress
          totalSize,     \* _total_size
          resp,          \* what the last call returned
          region,        \* history: the addresses the last erasing call was about
          trust,         \* history: "full", or what it does is sure only outside
                         \* of region ("region"), or nowhere ("none")
          written        \* history: the last flash_write, until something follows it

histVars   == <<region, trust, written>>
driverVars == <<todo, job, inProgress, totalSize, resp, histVars>>
vars       == <<chipVars, driverVars>>

Call(kind) == [kind |-> kind, erase |-> 0, end |-> 0, at |-> 0, data |-> << >>]
NoJob      == Call("none")
Idle       == job.kind = "none"

Transaction(op) == [op |-> op, at |-> 0, data |-> << >>]

TypeOK ==
    /\ ChipTypeOK
    /\ Len(todo) <= 5
    /\ job.kind \in {"none", "begin", "data", "write", "block", "verify"}
    /\ job.at < U32 /\ job.erase <= FLASH_BYTES /\ job.end <= FLASH_BYTES
    /\ inProgress \in BOOLEAN /\ totalSize \in 0 .. FLASH_BYTES
    /\ trust \in {"full", "region", "none"}

Init ==
    /\ ChipInit
    /\ todo = << >> /\ job = NoJob /\ resp = "none"
    /\ inProgress = FALSE /\ totalSize = 0
    /\ region = {} /\ trust = "full" /\ written = NoJob

Smaller(x, y) == IF x < y THEN x ELSE y

RoundUp(a) == ((a + SECTOR - 1) \div SECTOR) * SECTOR
RoundDown(a) == (a \div SECTOR) * SECTOR

--------------------------------------------------------------------------------
(* The operations of spi_flash.c, as transactions. *)

(* Broken variant: no wait for the end of the operation. *)
Modify_NoWait(t) == <<Transaction("WRITE_ENABLE"), t>>

Modify(t) == <<Transaction("WRITE_ENABLE"), t, Transaction("WAIT_READY")>>

(* Broken variant: the flash is not woken from deep power down. *)
flash_init_Asleep == [i \in 1 .. 4 |-> Transaction("JEDEC")]
flash_init == <<Transaction("RELEASE")>> \o [i \in 1 .. 4 |-> Transaction("JEDEC")]
flash_unprotect == Modify(Transaction("WRITE_STATUS"))

flash_erase(op, at) == Modify([Transaction(op) EXCEPT !.at = at])

flash_write_page(at, d) ==
    Modify([op |-> "PROGRAM", at |-> at, data |-> SubSeq(d, 1, Smaller(Len(d), PAGE))])

(* Broken variant: a chunk is cut to the size of a page, not to its end. *)
PageRoom_Whole(a) == PAGE
PageRoom(a) == PAGE - (a % PAGE)

--------------------------------------------------------------------------------
(* Calls: flash_writer_begin, _data and _end, *)

Refuse(status) ==
    /\ Idle /\ resp' = status
    /\ UNCHANGED <<chipVars, todo, job, inProgress, totalSize, histVars>>

Begin(total) ==
    \/ inProgress /\ Refuse("BUSY")
    \/ ~ inProgress /\ total \notin 1 .. FLASH_BYTES /\ Refuse("RANGE")
    \/ /\ Idle /\ ~ inProgress /\ total \in 1 .. FLASH_BYTES
       /\ job'  = [Call("begin") EXCEPT !.end = total]
       /\ todo' = flash_init
       /\ resp' = "none"
       /\ UNCHANGED <<chipVars, inProgress, totalSize, histVars>>

InRange(offset, d) == (offset + Len(d)) % U32 <= totalSize

Data(offset, d) ==
    \/ ~ inProgress /\ Refuse("NOT_BEGUN")
    \/ inProgress /\ ~ InRange(offset, d) /\ Refuse("RANGE")
    \/ /\ Idle /\ inProgress /\ InRange(offset, d)
       /\ job'   = [Call("data") EXCEPT !.at = offset, !.data = d]
       /\ trust' = IF offset + Len(d) >= U32 THEN "none" ELSE trust
       /\ resp'  = "none"
       /\ UNCHANGED <<chipVars, todo, inProgress, totalSize, region, written>>

(* The FPGA that is rebooted reads the flash and may put it to sleep. *)
End ==
    \/ ~ inProgress /\ Refuse("NOT_BEGUN")
    \/ /\ Idle /\ inProgress /\ inProgress' = FALSE
       /\ resp' = "OK"
       /\ asleep' \in {asleep, present /\ ~ busy}
       /\ UNCHANGED <<mem, wel, locked, busy, present, todo, job, totalSize, histVars>>

(* and flash_write, flash_erase_block and flash_verify, by a caller that   *)
(* has the flash awake, outside of a session.  From an address inside a    *)
(* page flash_write programs across the ends of pages.                     *)
DriverFree == Idle /\ ~ inProgress /\ Listening

Write(at, d) ==
    /\ DriverFree /\ at + Len(d) <= FLASH_BYTES
    /\ job' = [Call("write") EXCEPT !.erase = RoundDown(at), !.end = at + Len(d),
                                    !.at = at, !.data = d]
    /\ todo' = flash_unprotect
    /\ region' = {x \in Addr : x >= RoundDown(at) /\ x < RoundUp(at + Len(d))}
    /\ trust' = IF at % PAGE = 0 THEN "full" ELSE "region"
    /\ written' = [Call("verify") EXCEPT !.at = at, !.data = d]
    /\ resp' = "none"
    /\ UNCHANGED <<chipVars, inProgress, totalSize>>

EraseBlock(at) ==
    /\ DriverFree /\ at < FLASH_BYTES /\ ~ locked
    /\ job' = Call("block")
    /\ todo' = flash_erase("ERASE_BLOCK", at)
    /\ region' = Unit(BLOCK, at) /\ trust' = "full" /\ written' = NoJob
    /\ resp' = "none"
    /\ UNCHANGED <<chipVars, inProgress, totalSize>>

(* Right after a flash_write, of what it was given. *)
Verify ==
    /\ Idle /\ ~ inProgress /\ written # NoJob
    /\ job' = written
    /\ resp' = "none"
    /\ UNCHANGED <<chipVars, todo, inProgress, totalSize, histVars>>

--------------------------------------------------------------------------------
(* The next transaction. *)

Do(op) == todo # << >> /\ Head(todo).op = op

Release ==
    /\ Do("RELEASE") /\ todo' = Tail(todo)
    /\ ReleasePowerDown
    /\ UNCHANGED <<job, inProgress, totalSize, resp, histVars>>

(* flash_init finds the identification, bit-banged or in a later attempt   *)
(* by PIO: the protection is removed and the erasing begins.               *)
JedecFound ==
    /\ Do("JEDEC") /\ Listening
    /\ todo' = flash_unprotect
    /\ region' = {x \in Addr : x < RoundUp(job.end)}
    /\ trust' = "full" /\ written' = NoJob
    /\ UNCHANGED <<chipVars, job, inProgress, totalSize, resp>>

JedecMissed ==
    /\ Do("JEDEC") /\ ~ Listening /\ todo' = Tail(todo)
    /\ IF Len(todo) > 1 THEN UNCHANGED <<job, resp>>
       ELSE job' = NoJob /\ resp' = "FLASH_ID"
    /\ UNCHANGED <<chipVars, inProgress, totalSize, histVars>>

Enable ==
    /\ Do("WRITE_ENABLE") /\ todo' = Tail(todo)
    /\ WriteEnable
    /\ UNCHANGED <<job, inProgress, totalSize, resp, histVars>>

Command ==
    /\ \E op \in {"WRITE_STATUS", "ERASE_SECTOR", "ERASE_BLOCK", "PROGRAM"} : Do(op)
    /\ todo' = Tail(todo)
    /\ Execute(Head(todo))
    /\ UNCHANGED <<job, inProgress, totalSize, resp, histVars>>

(* _wait_ready: the busy bit is seen clear, *)
Ready ==
    /\ Do("WAIT_READY") /\ ~ busy /\ todo' = Tail(todo)
    /\ UNCHANGED <<chipVars, job, inProgress, totalSize, resp, histVars>>

(* Broken variant: the wait has no limit. *)
WaitRunsOut_Spins == Do("WAIT_READY") /\ busy /\ UNCHANGED vars

(* or a second has passed, and the caller goes on as if it were. *)
WaitRunsOut ==
    /\ Do("WAIT_READY") /\ busy /\ todo' = Tail(todo)
    /\ trust' = IF trust = "none" THEN "none" ELSE "region"
    /\ UNCHANGED <<chipVars, job, inProgress, totalSize, resp, region, written>>

--------------------------------------------------------------------------------
(* The loops over sectors and pages, when an operation is over. *)

SectorsLeft == {x \in Addr : job.kind \in {"begin", "write"}
                              /\ x >= job.erase /\ x < RoundUp(job.end)}

Erasing     == todo = << >> /\ SectorsLeft # {}
Programming == todo = << >> /\ SectorsLeft = {} /\ job.kind \in {"data", "write"}
                            /\ job.data # << >>
Reading     == job.kind = "verify" /\ job.data # << >>

NextSector ==
    /\ Erasing
    /\ todo' = flash_erase("ERASE_SECTOR", job.erase)
    /\ job'  = [job EXCEPT !.erase = @ + SECTOR]
    /\ UNCHANGED <<chipVars, inProgress, totalSize, resp, histVars>>

(* flash_writer_data cuts at the ends of pages, flash_write and            *)
(* flash_verify at multiples of a page from their first address.           *)
ChunkLen == Smaller(Len(job.data), IF job.kind = "data" THEN PageRoom(job.at) ELSE PAGE)

(* Broken variant: the next address is that of the next page. *)
Rest_NextPage == [job EXCEPT !.at   = @ + PAGE,
                             !.data = SubSeq(@, ChunkLen + 1, Len(@))]
Rest == [job EXCEPT !.at   = (@ + ChunkLen) % U32,
                    !.data = SubSeq(@, ChunkLen + 1, Len(@))]

NextChunk ==
    /\ Programming
    /\ todo' = flash_write_page(job.at, SubSeq(job.data, 1, ChunkLen))
    /\ job'  = Rest
    /\ UNCHANGED <<chipVars, inProgress, totalSize, resp, histVars>>

(* A chunk is read back; a chip that does not listen reads as zeros. *)
ReadChunk ==
    LET got(i) == IF Listening THEN mem[job.at + i - 1] ELSE {}
    IN  /\ Reading
        /\ IF \A i \in 1 .. ChunkLen : got(i) = job.data[i]
           THEN job' = Rest /\ UNCHANGED resp
           ELSE job' = NoJob /\ resp' = "DIFFERS"
        /\ UNCHANGED <<chipVars, todo, inProgress, totalSize, histVars>>

Returns ==
    /\ todo = << >> /\ ~ Idle /\ ~ Erasing /\ ~ Programming /\ ~ Reading
    /\ inProgress' = (inProgress \/ job.kind = "begin")
    /\ totalSize'  = IF job.kind = "begin" THEN job.end ELSE totalSize
    /\ resp' = "OK"
    /\ job' = NoJob
    /\ UNCHANGED <<chipVars, todo, histVars>>

--------------------------------------------------------------------------------
Driver ==
    \/ Release \/ JedecFound \/ JedecMissed \/ Enable \/ Command
    \/ Ready \/ WaitRunsOut \/ NextSector \/ NextChunk \/ ReadChunk \/ Returns

Caller ==
    \/ End \/ Verify
    \/ \E total \in Totals : Begin(total)
    \/ \E at \in Offsets : EraseBlock(at)
    \/ \E at \in Offsets, d \in Datas : Data(at, d) \/ Write(at, d)

Next == Driver \/ Caller \/ (ChipFinishes /\ UNCHANGED driverVars)

Spec == Init /\ [][Next]_vars

(* The driver is code that runs; the chip may be busy for ever. *)
FairSpec == Spec /\ WF_vars(Driver)

--------------------------------------------------------------------------------
(* The flash as the call in hand will leave it. *)
Modifying == {"ERASE_SECTOR", "ERASE_BLOCK", "PROGRAM"}
Starting  == \E i \in DOMAIN todo : todo[i].op \in {"RELEASE", "JEDEC"}
Opening   == job.kind = "begin" /\ ~ Starting

AfterTodo == IF \E i \in DOMAIN todo : todo[i].op \in Modifying
             THEN Effect(CHOOSE t \in {todo[i] : i \in DOMAIN todo} : t.op \in Modifying)
             ELSE mem

Eventual ==
    [x \in Addr |->
        LET c == IF x \in SectorsLeft /\ ~ Starting THEN Bits ELSE AfterTodo[x]
            i == x - job.at + 1
        IN  IF job.kind \in {"data", "write"} /\ i \in DOMAIN job.data
            THEN c \cap job.data[i] ELSE c]

Session == INSTANCE FlashSession
             WITH content <- Eventual, open <- inProgress \/ Opening,
                  size <- IF Opening THEN job.end ELSE totalSize

(* The transactions of flash_writer.c:47-82 and spi_flash.c:230-281, with  *)
(* the waits between them and however the pages cut the data, erase and    *)
(* program what the calls announce and nothing else; when a wait of        *)
(* _wait_ready runs out (spi_flash.c:154), the rest of the flash is safe.  *)
ImplementsSession == Session!Spec

(* spi_flash.c:203-216: a flash that is there is found, asleep or not; it  *)
(* is missed only if a wait has run out on it before.                      *)
PresentChipIsFound == resp = "FLASH_ID" => ~ present \/ trust # "full"

(* What flash_write has written to the start of a page on, flash_verify    *)
(* (spi_flash.c:283) finds, unless a wait has run out.                     *)
WrittenVerifies == resp = "DIFFERS" => trust # "full"

(* Every call returns, even when the chip never does (spi_flash.c:154). *)
CallsReturn == ~ Idle ~> Idle

================================================================================
