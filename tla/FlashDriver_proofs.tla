--------------------------- MODULE FlashDriver_proofs ---------------------------
(***************************************************************************)
(* The driver of the flash, mcu/spi_flash.c under mcu/flash_writer.c, does *)
(* what FlashSession promises, for every geometry of the chip, every size, *)
(* every offset and every data: the effect of the calls, transaction by    *)
(* transaction, is the one they announce.                                  *)
(*                                                                         *)
(* The invariant has five parts: the types, with the shapes of todo; the   *)
(* stages of a call; what the driver knows of the chip while no wait has   *)
(* run out on it; where an operation may strike; and what flash_write has  *)
(* left for flash_verify to find.                                          *)
(***************************************************************************)
EXTENDS FlashDriver, SequenceTheorems, TLAPS

(* An operation that changes the chip is a write enable, the command and a *)
(* wait; an identification is a release and four attempts to read it.      *)
EnableStep == Transaction("WRITE_ENABLE")
WaitStep   == Transaction("WAIT_READY")
JedecStep  == Transaction("JEDEC")
StatusStep == Transaction("WRITE_STATUS")

Commands == [op : {"WRITE_STATUS"} \cup Modifying, at : Int, data : Seq(SUBSET Bits)]

Jedecs(k)   == [i \in 1 .. k |-> JedecStep]
Enabling(t) == todo = <<EnableStep, t, WaitStep>>
Sending(t)  == todo = <<t, WaitStep>>
Pending(t)  == Enabling(t) \/ Sending(t)
Waiting     == todo = <<WaitStep>>
Identifying == \E k \in 1 .. 4 : todo = Jedecs(k)

InShape == \/ todo = << >> \/ todo = flash_init \/ Identifying
           \/ (\E t \in Commands : Pending(t)) \/ Waiting

Jobs == [kind  : {"none", "begin", "data", "write", "block", "verify"},
         erase : 0 .. FLASH_BYTES, end : 0 .. FLASH_BYTES,
         at    : 0 .. (U32 - 1),   data : Seq(SUBSET Bits)]

Typed ==
    /\ mem \in [Addr -> SUBSET Bits]
    /\ wel \in BOOLEAN /\ locked \in BOOLEAN /\ asleep \in BOOLEAN
    /\ busy \in BOOLEAN /\ present \in BOOLEAN
    /\ job \in Jobs /\ job.erase % SECTOR = 0
    /\ written \in Jobs /\ written.erase % SECTOR = 0
    /\ inProgress \in BOOLEAN /\ totalSize \in 0 .. FLASH_BYTES
    /\ trust \in {"full", "region", "none"} /\ region \subseteq Addr
    /\ InShape

Stages ==
    /\ Idle => todo = << >>
    /\ ~ Idle => resp = "none"
    /\ job.kind = "begin" => ~ inProgress /\ job.end >= 1
    /\ job.kind \in {"write", "block", "verify"} => ~ inProgress
    /\ job.kind = "data" => inProgress
    /\ job.kind = "verify" => todo = << >>
    /\ Starting => job.kind = "begin" /\ job.erase = 0

(* While no wait has run out on it, the chip listens when it must. *)
Changing == inProgress \/ Opening \/ job.kind \in {"write", "block"}

Answering ==
    /\ ~ (busy /\ asleep)
    /\ Identifying => ~ asleep
    /\ trust = "full" =>
         /\ busy => Waiting
         /\ Changing \/ written # NoJob => present /\ ~ asleep
         /\ Changing => ~ locked \/ Pending(StatusStep)
         /\ \A t \in Commands : Sending(t) => wel

(* Commands strike inside the region, which is made of whole sectors. *)
Touched(t) ==
    {x \in Addr : \/ t.op = "ERASE_SECTOR" /\ x \in Unit(SECTOR, t.at)
                  \/ t.op = "ERASE_BLOCK"  /\ x \in Unit(BLOCK, t.at)
                  \/ t.op = "PROGRAM"      /\ x \in Unit(PAGE, t.at)}

Sectored(R) == \A x \in R : \A y \in Addr : x \div SECTOR = y \div SECTOR => y \in R

Below(a) == {x \in Addr : x < RoundUp(a)}

Aimed ==
    /\ Sectored(region)
    /\ ~ Starting => SectorsLeft \subseteq region
    /\ inProgress => region = Below(totalSize)
    /\ Opening => region = Below(job.end)
    /\ job.kind = "write" => /\ job.at + Len(job.data) = job.end
                             /\ \A x \in Addr : x >= job.at /\ x < job.end => x \in region
    /\ job.kind = "write" /\ trust = "full" /\ job.data # << >> => job.at % PAGE = 0
    /\ trust # "none" =>
         /\ job.kind = "data" => job.at + Len(job.data) <= totalSize
         /\ \A t \in Commands : Pending(t) => Touched(t) \subseteq region

(* What a flash_write has written is there, or will be. *)
Found(c) ==
    \A i \in 1 .. Len(written.data) : c[written.at + i - 1] = written.data[i]

Kept ==
    /\ inProgress \/ Opening \/ job.kind = "block" => written = NoJob
    /\ written # NoJob => /\ written.kind = "verify"
                          /\ written.at + Len(written.data) <= FLASH_BYTES
                          /\ trust = "full" => Found(Eventual)
    /\ job.kind = "verify" =>
         /\ written # NoJob
         /\ \E n \in 0 .. Len(written.data) :
              /\ job.at = written.at + n /\ Len(job.data) = Len(written.data) - n
              /\ \A i \in 1 .. Len(job.data) : job.data[i] = written.data[n + i]

IInv == Typed /\ Stages /\ Answering /\ Aimed /\ Kept
                          /\ PresentChipIsFound /\ WrittenVerifies
--------------------------------------------------------------------------------
(* Arithmetic of units.  A division is where the multiples are. *)
LEMMA DivBounds ==
    ASSUME NEW a \in Int, NEW n \in Nat \ {0}
    PROVE  /\ a \div n \in Int /\ a % n \in 0 .. (n - 1)
           /\ n * (a \div n) <= a /\ a < n * (a \div n) + n
           /\ a % n = a - n * (a \div n)
OBVIOUS

LEMMA TimesLess ==
    ASSUME NEW n \in Nat \ {0}, NEW p \in Int, NEW q \in Int
    PROVE  (n * p < n * q) <=> p < q
OBVIOUS

(* Which multiples of n lie at or below a. *)
LEMMA DivAtLeast ==
    ASSUME NEW a \in Int, NEW n \in Nat \ {0}, NEW k \in Int
    PROVE  a \div n >= k <=> a >= n * k
<1>1. PICK q : q = a \div n  OBVIOUS
<1>2. q \in Int /\ n * q <= a /\ a < n * q + n  BY <1>1, DivBounds
<1>3. n * (q + 1) = n * q + n  BY <1>2
<1>4. n * k \in Int /\ n * q \in Int /\ n * (q + 1) \in Int  BY <1>2
<1>5. CASE k <= q
  <2>1. ~ (n * q < n * k)  BY <1>2, <1>5, TimesLess
  <2> QED  BY <1>1, <1>2, <1>4, <1>5, <2>1
<1>6. CASE q < k
  <2>1. ~ (n * k < n * (q + 1))  BY <1>2, <1>6, TimesLess
  <2> QED  BY <1>1, <1>2, <1>3, <1>4, <1>6, <2>1
<1> QED  BY <1>2, <1>5, <1>6

LEMMA DivOfMultiple ==
    ASSUME NEW n \in Nat \ {0}, NEW k \in Int
    PROVE  (n * k) \div n = k /\ (n * k) % n = 0
<1>1. PICK a : a = n * k  OBVIOUS
<1>2. a \in Int /\ a >= n * k /\ ~ (a >= n * (k + 1))
  <2>1. n * (k + 1) = n * k + n /\ n * k \in Int  OBVIOUS
  <2> QED  BY <1>1, <2>1
<1>3. a \div n >= k /\ ~ (a \div n >= k + 1)  BY <1>2, DivAtLeast
<1>4. a \div n = k /\ a % n = a - n * (a \div n)  BY <1>2, <1>3, DivBounds
<1> QED  BY <1>1, <1>2, <1>4

LEMMA DivNext ==
    ASSUME NEW a \in Int, NEW n \in Nat \ {0}
    PROVE  (a + n) \div n = (a \div n) + 1
<1>1. PICK q, r : q = a \div n /\ r = (a + n) \div n  OBVIOUS
<1>2. q \in Int /\ r \in Int  BY <1>1, DivBounds
<1>3. ASSUME NEW k \in Int  PROVE r >= k <=> q >= k - 1
  <2>1. n * (k - 1) = n * k - n /\ n * k \in Int  OBVIOUS
  <2>2. r >= k <=> a + n >= n * k  BY <1>1, DivAtLeast
  <2>3. q >= k - 1 <=> a >= n * (k - 1)  BY <1>1, DivAtLeast
  <2> QED  BY <2>1, <2>2, <2>3
<1>4. r >= q + 1 /\ q >= r - 1  BY <1>2, <1>3
<1> QED  BY <1>1, <1>2, <1>4

(* Addresses of one unit are of one of the larger units it divides. *)
LEMMA UnitsNest ==
    ASSUME NEW n \in Nat \ {0}, NEW c \in Nat \ {0}, NEW x \in Int, NEW y \in Int,
           x \div n = y \div n
    PROVE  x \div (n * c) = y \div (n * c)
<1>1. PICK m : m = n * c  OBVIOUS
<1>2. m \in Nat \ {0}
  <2>1. n * 0 < n * c  BY TimesLess
  <2>2. n * 0 = 0 /\ n * c \in Int  OBVIOUS
  <2> QED  BY <1>1, <2>1, <2>2
<1>3. ASSUME NEW k \in Int  PROVE x \div m >= k <=> y \div m >= k
  <2>1. PICK j : j = c * k  OBVIOUS
  <2>2. j \in Int /\ m * k = n * j  BY <1>1, <2>1
  <2>3. x >= n * j <=> y >= n * j  BY <2>2, DivAtLeast
  <2> QED  BY <1>2, <2>2, <2>3, DivAtLeast
<1>4. x \div m \in Int /\ y \div m \in Int  BY <1>2, DivBounds
<1>5. x \div m >= y \div m /\ y \div m >= x \div m  BY <1>3, <1>4
<1> QED  BY <1>1, <1>4, <1>5

(* The geometry, as multiples. *)
LEMMA Geometry ==
    /\ PAGE \in Nat \ {0} /\ SECTOR \in Nat \ {0} /\ BLOCK \in Nat \ {0}
    /\ FLASH_BYTES \in Nat \ {0}
    /\ \E c \in Nat \ {0} : SECTOR = PAGE * c
    /\ \E c \in Nat \ {0} : BLOCK = SECTOR * c
    /\ \E c \in Nat \ {0} : FLASH_BYTES = SECTOR * c
<1>1. /\ PAGE \in Nat \ {0} /\ SECTOR \in Nat \ {0} /\ BLOCK \in Nat \ {0}
      /\ FLASH_BYTES \in Nat \ {0}
      /\ SECTOR % PAGE = 0 /\ BLOCK % SECTOR = 0 /\ FLASH_BYTES % BLOCK = 0
  BY GeometryAssumption
<1>2. ASSUME NEW n \in Nat \ {0}, NEW m \in Nat \ {0}, m % n = 0
      PROVE  \E c \in Nat \ {0} : m = n * c
  <2>1. PICK c : c = m \div n  OBVIOUS
  <2>2. c \in Int /\ m = n * c  BY <1>2, <2>1, DivBounds
  <2>3. n * 0 = 0 /\ (n * 0 < n * c <=> 0 < c)  BY <2>2, TimesLess
  <2>4. 0 < c  BY <2>2, <2>3
  <2> QED  BY <2>2, <2>4
<1>3. PICK c \in Nat \ {0} : BLOCK = SECTOR * c  BY <1>1, <1>2
<1>4. PICK d \in Nat \ {0} : FLASH_BYTES = BLOCK * d  BY <1>1, <1>2
<1>5. PICK e : e = c * d  OBVIOUS
<1>6. e \in Nat \ {0}
  <2>1. c * 0 < c * d  BY TimesLess
  <2>2. c * 0 = 0 /\ c * d \in Nat  OBVIOUS
  <2> QED  BY <1>5, <2>1, <2>2
<1>7. FLASH_BYTES = SECTOR * e  BY <1>1, <1>3, <1>4, <1>5
<1> QED  BY <1>1, <1>2, <1>3, <1>6, <1>7

(* What RoundUp and RoundDown bound: whole sectors. *)
LEMMA RoundUpIs ==
    ASSUME NEW a \in Int
    PROVE  /\ RoundUp(a) \in Int /\ RoundUp(a) % SECTOR = 0 /\ a <= RoundUp(a)
           /\ a <= FLASH_BYTES => RoundUp(a) <= FLASH_BYTES
           /\ \A x \in Int : x < RoundUp(a) <=> x \div SECTOR <= (a - 1) \div SECTOR
<1>1. PICK n : n = SECTOR  OBVIOUS
<1>2. n \in Nat \ {0}  BY <1>1, Geometry
<1>3. PICK q : q = (a + n - 1) \div n  OBVIOUS
<1>4. q \in Int /\ q = ((a - 1) \div n) + 1 /\ (a - 1) \div n \in Int
  <2>1. PICK b : b = a - 1  OBVIOUS
  <2>2. b \in Int /\ b + n = a + n - 1  BY <2>1, <1>2
  <2>3. (b + n) \div n = (b \div n) + 1 /\ b \div n \in Int  BY <2>2, <1>2, DivNext, DivBounds
  <2>4. q = (b \div n) + 1  BY <2>2, <2>3, <1>3
  <2> QED  BY <2>1, <2>3, <2>4
<1>5. RoundUp(a) = n * q
  <2>1. RoundUp(a) = q * n  BY <1>1, <1>3 DEF RoundUp
  <2>2. q * n = n * q  BY <1>2, <1>4
  <2> QED  BY <2>1, <2>2
<1>6. n * q \in Int /\ (n * q) % n = 0  BY <1>2, <1>4, DivOfMultiple
<1>7. a <= n * q
  <2>1. a + n - 1 \in Int /\ a + n - 1 < n * q + n  BY <1>2, <1>3, DivBounds
  <2> QED  BY <2>1, <1>2, <1>6
<1>8. ASSUME a <= FLASH_BYTES  PROVE n * q <= FLASH_BYTES
  <2>1. PICK c \in Nat \ {0} : FLASH_BYTES = n * c  BY <1>1, Geometry
  <2>2. n * (c + 1) = n * c + n /\ n * c \in Int  BY <1>2
  <2>3. a + n - 1 \in Int /\ ~ (a + n - 1 >= n * (c + 1))  BY <1>2, <1>8, <2>1, <2>2
  <2>4. ~ (q >= c + 1)  BY <1>2, <1>3, <2>3, DivAtLeast
  <2>5. ~ (c < q)  BY <1>4, <2>4
  <2>6. ~ (n * c < n * q)  BY <1>2, <1>4, <2>5, TimesLess
  <2> QED  BY <2>1, <2>2, <2>6, <1>6
<1>9. ASSUME NEW x \in Int  PROVE x < n * q <=> x \div n <= (a - 1) \div n
  <2>1. x \div n >= q <=> x >= n * q  BY <1>2, <1>4, DivAtLeast
  <2>2. x \div n \in Int  BY <1>2, DivBounds
  <2> QED  BY <2>1, <2>2, <1>4, <1>6
<1> QED  BY <1>1, <1>5, <1>6, <1>7, <1>8, <1>9

LEMMA RoundDownIs ==
    ASSUME NEW a \in Nat
    PROVE  /\ RoundDown(a) \in 0 .. a /\ RoundDown(a) % SECTOR = 0
           /\ \A x \in Int : x >= RoundDown(a) <=> x \div SECTOR >= a \div SECTOR
<1>1. PICK n : n = SECTOR  OBVIOUS
<1>2. n \in Nat \ {0}  BY <1>1, Geometry
<1>3. PICK q : q = a \div n  OBVIOUS
<1>4. q \in Int /\ n * q <= a  BY <1>2, <1>3, DivBounds
<1>5. RoundDown(a) = n * q  BY <1>1, <1>2, <1>3, <1>4 DEF RoundDown
<1>6. n * q \in Int /\ (n * q) % n = 0  BY <1>2, <1>4, DivOfMultiple
<1>7. 0 <= n * q
  <2>1. n * 0 = 0 /\ a >= n * 0  BY <1>2
  <2>2. q >= 0  BY <1>2, <1>3, <2>1, DivAtLeast
  <2>3. ~ (n * q < n * 0)  BY <1>2, <1>4, <2>2, TimesLess
  <2> QED  BY <2>1, <2>3, <1>6
<1>8. \A x \in Int : x >= n * q <=> x \div n >= q  BY <1>2, <1>4, DivAtLeast
<1> QED  BY <1>1, <1>3, <1>4, <1>5, <1>6, <1>7, <1>8

(* From one multiple of a sector to the next. *)
LEMMA SectorStep ==
    ASSUME NEW e \in Int, e % SECTOR = 0
    PROVE  /\ (e + SECTOR) % SECTOR = 0
           /\ \A x \in Int : x \div SECTOR = e \div SECTOR <=> x >= e /\ x < e + SECTOR
           /\ \A m \in Int : m % SECTOR = 0 /\ e < m => e + SECTOR <= m
<1>1. PICK n : n = SECTOR  OBVIOUS
<1>2. n \in Nat \ {0}  BY <1>1, Geometry
<1>3. PICK q : q = e \div n  OBVIOUS
<1>4. q \in Int /\ e = n * q  BY <1>1, <1>2, <1>3, DivBounds
<1>5. n * (q + 1) = e + n  BY <1>2, <1>4
<1>6. (e + n) % n = 0  BY <1>2, <1>4, <1>5, DivOfMultiple
<1>7. ASSUME NEW x \in Int  PROVE x \div n = q <=> x >= e /\ x < e + n
  <2>1. /\ x \div n >= q <=> x >= n * q
        /\ x \div n >= q + 1 <=> x >= n * (q + 1)
    BY <1>2, <1>4, DivAtLeast
  <2>2. x \div n \in Int  BY <1>2, DivBounds
  <2> QED  BY <2>1, <2>2, <1>2, <1>4, <1>5
<1>8. ASSUME NEW m \in Int, m % n = 0, e < m  PROVE e + n <= m
  <2>1. PICK k : k = m \div n  OBVIOUS
  <2>2. k \in Int /\ m = n * k  BY <1>2, <1>8, <2>1, DivBounds
  <2>3. q < k  BY <1>2, <1>4, <1>8, <2>2, TimesLess
  <2>4. ~ (n * k < n * (q + 1))  BY <1>2, <1>4, <2>2, <2>3, TimesLess
  <2> QED  BY <1>2, <1>5, <2>2, <2>4
<1> QED  BY <1>1, <1>3, <1>6, <1>7, <1>8

LEMMA SmallModulus ==
    ASSUME NEW x \in Int, NEW n \in Nat \ {0}
    PROVE  /\ 0 <= x /\ x < n => x % n = x
           /\ 0 - n <= x /\ x < 0 => x % n = x + n
OBVIOUS

(* Where the bytes of a chunk that ends in its page go. *)
LEMMA InsideAPage ==
    ASSUME NEW x \in Int, NEW a \in Int, NEW c \in Nat, (a % PAGE) + c <= PAGE
    PROVE  /\ x \div PAGE = a \div PAGE /\ ((x - a) % PAGE) + 1 \in 1 .. c
              => ((x - a) % PAGE) + 1 = x - a + 1
           /\ x - a + 1 \in 1 .. c
              => x \div PAGE = a \div PAGE /\ ((x - a) % PAGE) + 1 = x - a + 1
<1>1. PICK n, r, s, q, p : /\ n = PAGE /\ r = a % n /\ s = x % n
                           /\ q = a \div n /\ p = x \div n
  OBVIOUS
<1>2. n \in Nat \ {0}  BY <1>1, Geometry
<1>3. /\ q \in Int /\ p \in Int /\ r \in 0 .. (n - 1) /\ s \in 0 .. (n - 1)
      /\ r = a - n * q /\ s = x - n * p
  BY <1>1, <1>2, DivBounds
<1>4. r + c <= n  BY <1>1
<1>5. ASSUME p = q, ((x - a) % n) + 1 \in 1 .. c  PROVE ((x - a) % n) + 1 = x - a + 1
  <2>1. x - a = s - r
    <3>1. n * q \in Int  BY <1>2, <1>3
    <3> QED  BY <3>1, <1>3, <1>5
  <2>2. PICK y : y = x - a  OBVIOUS
  <2>3. y \in Int /\ y = s - r /\ 0 - n <= y /\ y < n  BY <2>1, <2>2, <1>2, <1>3
  <2>4. CASE 0 <= y
    BY <2>2, <2>3, <2>4, <1>2, SmallModulus
  <2>5. CASE y < 0
    <3>1. y % n = y + n  BY <2>3, <2>5, <1>2, SmallModulus
    <3>2. y + n + 1 <= c  BY <3>1, <2>2, <1>5
    <3> QED  BY <3>2, <2>3, <1>2, <1>3, <1>4
  <2> QED  BY <2>3, <2>4, <2>5
<1>6. ASSUME x - a + 1 \in 1 .. c  PROVE p = q /\ ((x - a) % n) + 1 = x - a + 1
  <2>1. PICK y : y = x - a  OBVIOUS
  <2>2. y \in Int /\ 0 <= y /\ y < c /\ y < n  BY <2>1, <1>2, <1>3, <1>4, <1>6
  <2>3. y % n = y  BY <2>2, <1>2, SmallModulus
  <2>4. n * (q + 1) = n * q + n /\ n * q \in Int  BY <1>2, <1>3
  <2>5. x >= n * q /\ ~ (x >= n * (q + 1))
    BY <2>1, <2>2, <2>4, <1>2, <1>3, <1>4
  <2>6. p >= q /\ ~ (p >= q + 1)  BY <2>5, <1>1, <1>2, <1>3, DivAtLeast
  <2> QED  BY <2>1, <2>3, <2>6, <1>3
<1> QED  BY <1>1, <1>5, <1>6

--------------------------------------------------------------------------------
(* The regions. *)
LEMMA UnitIs ==
    ASSUME NEW n, NEW a \in Addr
    PROVE  Unit(n, a) = {x \in Addr : x \div n = a \div n}
<1>1. a \in Int /\ 0 <= a /\ a < FLASH_BYTES  BY Geometry DEF Addr
<1>2. a % FLASH_BYTES = a  BY <1>1, Geometry, SmallModulus
<1> QED  BY <1>2 DEF Unit

LEMMA SectorUnit ==
    ASSUME NEW a \in Addr, a % SECTOR = 0
    PROVE  Unit(SECTOR, a) = {x \in Addr : x >= a /\ x < a + SECTOR}
<1>1. a \in Int /\ \A x \in Addr : x \in Int  BY Geometry DEF Addr
<1>2. \A x \in Addr : x \div SECTOR = a \div SECTOR <=> x >= a /\ x < a + SECTOR
  BY <1>1, SectorStep
<1> QED  BY <1>2, UnitIs

LEMMA SectorsAreUnits ==
    ASSUME NEW lo \in Nat, NEW hi \in Int
    PROVE  {x \in Addr : x >= RoundDown(lo) /\ x < RoundUp(hi)} = Session!Units(SECTOR, lo, hi)
<1>1. \A x \in Addr : x \in Int  BY Geometry DEF Addr
<1>2. \A x \in Addr : (x >= RoundDown(lo) /\ x < RoundUp(hi))
                        <=> (x \div SECTOR >= lo \div SECTOR
                             /\ x \div SECTOR <= (hi - 1) \div SECTOR)
  BY <1>1, RoundUpIs, RoundDownIs
<1> QED  BY <1>2 DEF Session!Units, Session!Addr, Addr

LEMMA BelowIsUnits ==
    ASSUME NEW hi \in Int
    PROVE  Below(hi) = Session!Units(SECTOR, 0, hi)
<1>1. \A x \in Addr : x \in Int /\ x >= 0  BY Geometry DEF Addr
<1>2. RoundDown(0) = 0  BY RoundDownIs
<1>3. Below(hi) = {x \in Addr : x >= RoundDown(0) /\ x < RoundUp(hi)}
  BY <1>1, <1>2 DEF Below
<1> QED  BY <1>3, SectorsAreUnits

LEMMA BlockIsUnits ==
    ASSUME NEW a \in Addr
    PROVE  Unit(BLOCK, a) = Session!Units(BLOCK, a, a + 1)
<1>1. a \in Int /\ (a + 1) - 1 = a /\ \A x \in Addr : x \in Int  BY Geometry DEF Addr
<1>2. a \div BLOCK \in Int /\ \A x \in Addr : x \div BLOCK \in Int
  BY <1>1, Geometry, DivBounds
<1>3. \A x \in Addr : x \div BLOCK = a \div BLOCK
                        <=> x \div BLOCK >= a \div BLOCK /\ x \div BLOCK <= a \div BLOCK
  BY <1>2
<1> QED  BY <1>1, <1>3, UnitIs DEF Session!Units, Session!Addr, Addr

LEMMA SectoredRange ==
    ASSUME NEW lo \in Nat, NEW hi \in Int
    PROVE  Sectored({x \in Addr : x >= RoundDown(lo) /\ x < RoundUp(hi)})
<1>1. \A x \in Addr : x \in Int  BY Geometry DEF Addr
<1>2. \A x \in Addr : (x >= RoundDown(lo) /\ x < RoundUp(hi))
                        <=> (x \div SECTOR >= lo \div SECTOR
                             /\ x \div SECTOR <= (hi - 1) \div SECTOR)
  BY <1>1, RoundUpIs, RoundDownIs
<1> QED  BY <1>2 DEF Sectored

LEMMA SectoredBelow ==
    ASSUME NEW hi \in Int  PROVE Sectored(Below(hi))
<1>1. \A x \in Addr : x \in Int  BY Geometry DEF Addr
<1>2. \A x \in Addr : x < RoundUp(hi) <=> x \div SECTOR <= (hi - 1) \div SECTOR
  BY <1>1, RoundUpIs
<1> QED  BY <1>2 DEF Sectored, Below

LEMMA SectoredBlock ==
    ASSUME NEW a \in Addr  PROVE Sectored(Unit(BLOCK, a))
<1>1. \A x \in Addr : x \in Int  BY Geometry DEF Addr
<1>2. PICK c \in Nat \ {0} : BLOCK = SECTOR * c  BY Geometry
<1>3. ASSUME NEW x \in Addr, NEW y \in Addr, x \div SECTOR = y \div SECTOR
      PROVE  x \div BLOCK = y \div BLOCK
  <2>1. x \in Int /\ y \in Int /\ SECTOR \in Nat \ {0}  BY <1>1, Geometry
  <2>2. x \div (SECTOR * c) = y \div (SECTOR * c)  BY <2>1, <1>3, UnitsNest
  <2> QED  BY <2>2, <1>2
<1> QED  BY <1>3, UnitIs DEF Sectored

(* The sector and the page of an address of the region are in the region. *)
LEMMA UnitInRegion ==
    ASSUME NEW R, R \subseteq Addr, Sectored(R), NEW a \in R
    PROVE  Unit(SECTOR, a) \subseteq R /\ Unit(PAGE, a) \subseteq R
<1>1. a \in Addr /\ \A x \in Addr : x \in Int  BY Geometry DEF Addr
<1>2. PICK c \in Nat \ {0} : SECTOR = PAGE * c  BY Geometry
<1>3. ASSUME NEW x \in Addr, x \div PAGE = a \div PAGE
      PROVE  x \div SECTOR = a \div SECTOR
  <2>1. x \in Int /\ a \in Int /\ PAGE \in Nat \ {0}  BY <1>1, Geometry
  <2>2. x \div (PAGE * c) = a \div (PAGE * c)  BY <2>1, <1>3, UnitsNest
  <2> QED  BY <2>2, <1>2
<1>4. \A x \in Addr : x \div SECTOR = a \div SECTOR => x \in R  BY <1>1 DEF Sectored
<1> QED  BY <1>1, <1>3, <1>4, UnitIs

--------------------------------------------------------------------------------
(* What the transactions left will make of a memory m. *)
Struck(m, t) ==
    CASE t.op = "ERASE_SECTOR" -> [x \in Addr |-> IF x \in Unit(SECTOR, t.at) THEN Bits ELSE m[x]]
      [] t.op = "ERASE_BLOCK"  -> [x \in Addr |-> IF x \in Unit(BLOCK, t.at) THEN Bits ELSE m[x]]
      [] t.op = "PROGRAM"      ->
           [x \in Addr |-> LET i == ((x - t.at) % PAGE) + 1
                           IN  IF x \in Unit(PAGE, t.at) /\ i \in DOMAIN t.data
                               THEN m[x] \cap t.data[i] ELSE m[x]]
      [] OTHER                 -> m

StartingIn(td) == \E i \in DOMAIN td : td[i].op \in {"RELEASE", "JEDEC"}

AfterOn(m, td) ==
    IF \E i \in DOMAIN td : td[i].op \in Modifying
    THEN Struck(m, CHOOSE t \in {td[i] : i \in DOMAIN td} : t.op \in Modifying)
    ELSE m

LeftOf(j) == {x \in Addr : j.kind \in {"begin", "write"} /\ x >= j.erase /\ x < RoundUp(j.end)}
LeftIn(td, j) == IF StartingIn(td) THEN {} ELSE LeftOf(j)

View(a, L, j) ==
    [x \in Addr |->
        LET c == IF x \in L THEN Bits ELSE a[x]
            i == x - j.at + 1
        IN  IF j.kind \in {"data", "write"} /\ i \in DOMAIN j.data THEN c \cap j.data[i] ELSE c]

LEMMA StruckIs == /\ \A t : Effect(t) = Struck(mem, t)
                  /\ \A t : Effect(t)' = Struck(mem', t)
BY DEF Effect, Struck, ErasedIn, ProgrammedAt

LEMMA EventualIs ==
    /\ Eventual  = View(AfterOn(mem, todo), LeftIn(todo, job), job)
    /\ Eventual' = View(AfterOn(mem', todo'), LeftIn(todo', job'), job')
<1>1. SectorsLeft = LeftOf(job) /\ SectorsLeft' = LeftOf(job')  BY DEF SectorsLeft, LeftOf
<1>2. (Starting <=> StartingIn(todo)) /\ (Starting' <=> StartingIn(todo'))
  BY DEF Starting, StartingIn
<1>3. AfterTodo = AfterOn(mem, todo) /\ AfterTodo' = AfterOn(mem', todo')
  BY DEF AfterTodo, AfterOn, Effect, Struck, ErasedIn, ProgrammedAt
<1>4. Eventual = View(AfterOn(mem, todo), LeftIn(todo, job), job)
  BY <1>1, <1>2, <1>3 DEF Eventual, View, LeftIn
<1>5. Eventual' = View(AfterOn(mem', todo'), LeftIn(todo', job'), job')
  BY <1>1, <1>2, <1>3 DEF Eventual, View, LeftIn
<1> QED  BY <1>4, <1>5

(* The shapes of todo, one by one. *)
LEMMA TailIs ==
    ASSUME NEW S, NEW s \in Seq(S), NEW u \in Seq(S), s # << >>, Len(u) = Len(s) - 1,
           \A i \in 1 .. Len(u) : u[i] = s[i + 1]
    PROVE  Tail(s) = u
<1>1. /\ Tail(s) \in Seq(S) /\ Len(Tail(s)) = Len(s) - 1
      /\ \A i \in 1 .. Len(Tail(s)) : Tail(s)[i] = s[i + 1]
  BY HeadTailProperties
<1>2. \A i \in 1 .. Len(u) : Tail(s)[i] = u[i]  BY <1>1
<1> QED  BY <1>1, <1>2, SeqEqual

LEMMA NothingLeft ==
    /\ ~ StartingIn(<< >>)
    /\ \A m : AfterOn(m, << >>) = m
BY DEF StartingIn, AfterOn

LEMMA FromInit ==
    /\ flash_init # << >> /\ Head(flash_init) = Transaction("RELEASE")
    /\ Tail(flash_init) = Jedecs(4)
    /\ StartingIn(flash_init)
    /\ \A m : AfterOn(m, flash_init) = m
<1>1. PICK r, js : r = Transaction("RELEASE") /\ js = Jedecs(4)  OBVIOUS
<1>2. js = [i \in 1 .. 4 |-> JedecStep]  BY <1>1 DEF Jedecs
<1>3. flash_init = <<r>> \o js  BY <1>1, <1>2 DEF flash_init, JedecStep
<1>4. js \in Seq({JedecStep}) /\ Len(js) = 4  BY <1>2
<1>5. Len(<<r>> \o js) = 5 /\ (<<r>> \o js)[1] = r
      /\ \A i \in 2 .. 5 : (<<r>> \o js)[i] = JedecStep
  BY <1>2, <1>4
<1>6. Tail(<<r>> \o js) = js
  <2>1. PICK s : s = <<r>> \o js  OBVIOUS
  <2>2. s \in Seq({r, JedecStep}) /\ js \in Seq({r, JedecStep})  BY <2>1, <1>2
  <2>3. Len(js) = Len(s) - 1 /\ s # << >> /\ \A i \in 1 .. Len(js) : js[i] = s[i + 1]
    BY <2>1, <1>2, <1>4, <1>5
  <2> QED  BY <2>1, <2>2, <2>3, TailIs
<1>7. r.op = "RELEASE" /\ JedecStep.op = "JEDEC"  BY <1>1 DEF Transaction, JedecStep
<1>8. DOMAIN flash_init = 1 .. 5
  <2>1. <<r>> \o js \in Seq({r, JedecStep})  BY <1>2
  <2>2. DOMAIN (<<r>> \o js) = 1 .. Len(<<r>> \o js)  BY <2>1
  <2> QED  BY <2>2, <1>3, <1>5
<1>9. \A i \in 1 .. 5 : flash_init[i].op \in {"RELEASE", "JEDEC"}
  BY <1>3, <1>5, <1>7
<1>10. StartingIn(flash_init)  BY <1>8, <1>9 DEF StartingIn
<1>11. \A m : AfterOn(m, flash_init) = m  BY <1>8, <1>9 DEF AfterOn, Modifying
<1> QED  BY <1>1, <1>3, <1>4, <1>5, <1>6, <1>10, <1>11

LEMMA FromJedecs ==
    ASSUME NEW k \in 1 .. 4
    PROVE  /\ Jedecs(k) # << >> /\ Head(Jedecs(k)) = JedecStep /\ Len(Jedecs(k)) = k
           /\ k = 1 => Tail(Jedecs(k)) = << >>
           /\ k > 1 => Tail(Jedecs(k)) = Jedecs(k - 1)
           /\ StartingIn(Jedecs(k))
           /\ \A m : AfterOn(m, Jedecs(k)) = m
<1>1. PICK js : js = Jedecs(k)  OBVIOUS
<1>2. js = [i \in 1 .. k |-> JedecStep]  BY <1>1 DEF Jedecs
<1>3. js \in Seq({JedecStep}) /\ Len(js) = k /\ DOMAIN js = 1 .. k  BY <1>2
<1>4. js # << >> /\ Head(js) = JedecStep  BY <1>2, <1>3
<1>5. ASSUME k = 1  PROVE Tail(js) = << >>
  <2>1. Tail(js) \in Seq({JedecStep}) /\ Len(Tail(js)) = 0
    BY <1>3, <1>4, <1>5, HeadTailProperties
  <2> QED  BY <2>1, EmptySeq
<1>6. ASSUME k > 1  PROVE Tail(js) = Jedecs(k - 1)
  <2>1. PICK u : u = Jedecs(k - 1)  OBVIOUS
  <2>2. u \in Seq({JedecStep}) /\ Len(u) = k - 1 /\ \A i \in 1 .. (k - 1) : u[i] = JedecStep
    BY <2>1, <1>6 DEF Jedecs
  <2>3. \A i \in 1 .. Len(u) : u[i] = js[i + 1]  BY <2>2, <1>2
  <2> QED  BY <2>1, <2>2, <2>3, <1>3, <1>4, TailIs
<1>7. \A i \in 1 .. k : js[i].op = "JEDEC"  BY <1>2 DEF JedecStep, Transaction
<1>8. StartingIn(js)  BY <1>3, <1>7 DEF StartingIn
<1>9. \A m : AfterOn(m, js) = m  BY <1>3, <1>7 DEF AfterOn, Modifying
<1> QED  BY <1>1, <1>3, <1>4, <1>5, <1>6, <1>8, <1>9

LEMMA Ops ==
    /\ EnableStep.op = "WRITE_ENABLE" /\ WaitStep.op = "WAIT_READY" /\ JedecStep.op = "JEDEC"
    /\ Transaction("RELEASE").op = "RELEASE"
    /\ StatusStep.op = "WRITE_STATUS" /\ StatusStep \in Commands
    /\ \A t \in Commands : /\ t.op \in {"WRITE_STATUS", "ERASE_SECTOR", "ERASE_BLOCK", "PROGRAM"}
                           /\ t.op \notin Modifying => \A m : Struck(m, t) = m
BY DEF EnableStep, WaitStep, JedecStep, StatusStep, Transaction, Commands, Modifying, Struck

LEMMA FromEnabling ==
    ASSUME NEW t \in Commands
    PROVE  /\ <<EnableStep, t, WaitStep>> # << >>
           /\ Head(<<EnableStep, t, WaitStep>>) = EnableStep
           /\ Tail(<<EnableStep, t, WaitStep>>) = <<t, WaitStep>>
           /\ ~ StartingIn(<<EnableStep, t, WaitStep>>)
           /\ \A m : AfterOn(m, <<EnableStep, t, WaitStep>>) = Struck(m, t)
<1>1. PICK e, w : e = EnableStep /\ w = WaitStep  OBVIOUS
<1>2. PICK s : s = <<e, t, w>>  OBVIOUS
<1>3. s # << >> /\ Head(s) = e /\ Tail(s) = <<t, w>>  BY <1>2
<1>4. DOMAIN s = 1 .. 3 /\ s[1] = e /\ s[2] = t /\ s[3] = w  BY <1>2
<1>5. e.op = "WRITE_ENABLE" /\ w.op = "WAIT_READY"  BY <1>1, Ops
<1>6. t.op \in {"WRITE_STATUS", "ERASE_SECTOR", "ERASE_BLOCK", "PROGRAM"}  BY Ops
<1>7. ~ StartingIn(s)  BY <1>4, <1>5, <1>6 DEF StartingIn
<1>8. ASSUME NEW m  PROVE AfterOn(m, s) = Struck(m, t)
  <2>1. CASE t.op \in Modifying
    <3>1. \A u \in {s[i] : i \in DOMAIN s} : u.op \in Modifying <=> u = t
      BY <2>1, <1>4, <1>5 DEF Modifying
    <3>2. t \in {s[i] : i \in DOMAIN s}  BY <1>4
    <3>3. (CHOOSE u \in {s[i] : i \in DOMAIN s} : u.op \in Modifying) = t  BY <3>1, <3>2
    <3>4. \E i \in DOMAIN s : s[i].op \in Modifying  BY <2>1, <1>4
    <3> QED  BY <3>3, <3>4 DEF AfterOn
  <2>2. CASE t.op \notin Modifying
    <3>1. \A i \in DOMAIN s : s[i].op \notin Modifying  BY <2>2, <1>4, <1>5 DEF Modifying
    <3> QED  BY <2>2, <3>1, Ops DEF AfterOn
  <2> QED  BY <2>1, <2>2
<1> QED  BY <1>1, <1>2, <1>3, <1>7, <1>8

LEMMA FromSending ==
    ASSUME NEW t \in Commands
    PROVE  /\ <<t, WaitStep>> # << >>
           /\ Head(<<t, WaitStep>>) = t /\ Tail(<<t, WaitStep>>) = <<WaitStep>>
           /\ ~ StartingIn(<<t, WaitStep>>)
           /\ \A m : AfterOn(m, <<t, WaitStep>>) = Struck(m, t)
<1>1. PICK w : w = WaitStep  OBVIOUS
<1>2. PICK s : s = <<t, w>>  OBVIOUS
<1>3. s # << >> /\ Head(s) = t /\ Tail(s) = <<w>>  BY <1>2
<1>4. DOMAIN s = 1 .. 2 /\ s[1] = t /\ s[2] = w  BY <1>2
<1>5. w.op = "WAIT_READY"  BY <1>1, Ops
<1>6. t.op \in {"WRITE_STATUS", "ERASE_SECTOR", "ERASE_BLOCK", "PROGRAM"}  BY Ops
<1>7. ~ StartingIn(s)  BY <1>4, <1>5, <1>6 DEF StartingIn
<1>8. ASSUME NEW m  PROVE AfterOn(m, s) = Struck(m, t)
  <2>1. CASE t.op \in Modifying
    <3>1. \A u \in {s[i] : i \in DOMAIN s} : u.op \in Modifying <=> u = t
      BY <2>1, <1>4, <1>5 DEF Modifying
    <3>2. t \in {s[i] : i \in DOMAIN s}  BY <1>4
    <3>3. (CHOOSE u \in {s[i] : i \in DOMAIN s} : u.op \in Modifying) = t  BY <3>1, <3>2
    <3>4. \E i \in DOMAIN s : s[i].op \in Modifying  BY <2>1, <1>4
    <3> QED  BY <3>3, <3>4 DEF AfterOn
  <2>2. CASE t.op \notin Modifying
    <3>1. \A i \in DOMAIN s : s[i].op \notin Modifying  BY <2>2, <1>4, <1>5 DEF Modifying
    <3> QED  BY <2>2, <3>1, Ops DEF AfterOn
  <2> QED  BY <2>1, <2>2
<1> QED  BY <1>1, <1>2, <1>3, <1>7, <1>8

LEMMA FromWaiting ==
    /\ <<WaitStep>> # << >> /\ Head(<<WaitStep>>) = WaitStep /\ Tail(<<WaitStep>>) = << >>
    /\ ~ StartingIn(<<WaitStep>>)
    /\ \A m : AfterOn(m, <<WaitStep>>) = m
<1>1. PICK w : w = WaitStep  OBVIOUS
<1>2. w.op = "WAIT_READY"  BY <1>1, Ops
<1>3. <<w>> # << >> /\ Head(<<w>>) = w /\ Tail(<<w>>) = << >>  OBVIOUS
<1>4. DOMAIN <<w>> = {1} /\ <<w>>[1] = w  OBVIOUS
<1>5. ~ StartingIn(<<w>>)  BY <1>2, <1>4 DEF StartingIn
<1>6. \A m : AfterOn(m, <<w>>) = m  BY <1>2, <1>4 DEF AfterOn, Modifying
<1> QED  BY <1>1, <1>3, <1>5, <1>6

(* A shape has one command at most, and its head tells which it is. *)
PendingIn(td, t) == td = <<EnableStep, t, WaitStep>> \/ td = <<t, WaitStep>>

LEMMA NoneToCome ==
    ASSUME NEW td, td = << >> \/ td = <<WaitStep>> \/ StartingIn(td)
    PROVE  \A t \in Commands : ~ PendingIn(td, t)
<1> SUFFICES ASSUME NEW t \in Commands, PendingIn(td, t)  PROVE FALSE
  OBVIOUS
<1>1. ~ StartingIn(td)  BY FromEnabling, FromSending DEF PendingIn
<1>2. PICK e, w : e = EnableStep /\ w = WaitStep  OBVIOUS
<1>3. td = <<e, t, w>> \/ td = <<t, w>>  BY <1>2 DEF PendingIn
<1>4. Len(td) \in {2, 3}  BY <1>3
<1>5. td = << >> \/ td = <<w>>  BY <1>1, <1>2
<1>6. Len(td) \in {0, 1}  BY <1>5
<1> QED  BY <1>4, <1>6

LEMMA OneToCome ==
    ASSUME NEW td, NEW t \in Commands, PendingIn(td, t)
    PROVE  /\ ~ StartingIn(td) /\ td # << >> /\ td # <<WaitStep>>
           /\ \A u \in Commands : PendingIn(td, u) => u = t
           /\ \A u \in Commands : td = <<EnableStep, t, WaitStep>> => td # <<u, WaitStep>>
           /\ \A m : AfterOn(m, td) = Struck(m, t)
<1>1. ~ StartingIn(td) /\ \A m : AfterOn(m, td) = Struck(m, t)
  BY FromEnabling, FromSending DEF PendingIn
<1>2. PICK e, w : e = EnableStep /\ w = WaitStep  OBVIOUS
<1>3. td = <<e, t, w>> \/ td = <<t, w>>  BY <1>2 DEF PendingIn
<1>4. td # << >> /\ td # <<w>>  BY <1>3
<1>5. ASSUME NEW u \in Commands, td = <<e, u, w>> \/ td = <<u, w>>  PROVE u = t
  <2>1. CASE td = <<e, t, w>>
    <3>1. Len(td) = 3 /\ td[2] = t  BY <2>1
    <3>2. td = <<e, u, w>>  BY <3>1, <1>5
    <3> QED  BY <3>1, <3>2
  <2>2. CASE td = <<t, w>>
    <3>1. Len(td) = 2 /\ td[1] = t  BY <2>2
    <3>2. td = <<u, w>>  BY <3>1, <1>5
    <3> QED  BY <3>1, <3>2
  <2> QED  BY <2>1, <2>2, <1>3
<1>6. ASSUME NEW u \in Commands, td = <<e, t, w>>  PROVE td # <<u, w>>
  <2>1. Len(td) = 3  BY <1>6
  <2> QED  BY <2>1
<1> QED  BY <1>1, <1>2, <1>4, <1>5, <1>6 DEF PendingIn

LEMMA PendingIs ==
    /\ \A t : Pending(t) <=> PendingIn(todo, t)
    /\ \A t : Pending(t)' <=> PendingIn(todo', t)
    /\ Starting <=> StartingIn(todo)
    /\ Starting' <=> StartingIn(todo')
BY DEF Pending, PendingIn, Enabling, Sending, Starting, StartingIn

LEMMA AtHead ==
    ASSUME InShape
    PROVE  /\ Do("RELEASE") => todo = flash_init
           /\ Do("JEDEC") => \E k \in 1 .. 4 : todo = Jedecs(k)
           /\ Do("WRITE_ENABLE") => \E t \in Commands : todo = <<EnableStep, t, WaitStep>>
           /\ (\E op \in {"WRITE_STATUS", "ERASE_SECTOR", "ERASE_BLOCK", "PROGRAM"} : Do(op))
                 => \E t \in Commands : todo = <<t, WaitStep>>
           /\ Do("WAIT_READY") => todo = <<WaitStep>>
<1>1. CASE todo = << >>
  BY <1>1 DEF Do
<1>2. CASE todo = flash_init
  <2>1. Head(todo).op = "RELEASE"  BY <1>2, FromInit, Ops
  <2> QED  BY <1>2, <2>1 DEF Do
<1>3. CASE Identifying
  <2>1. PICK k \in 1 .. 4 : todo = Jedecs(k)  BY <1>3 DEF Identifying
  <2>2. Head(todo).op = "JEDEC"  BY <2>1, FromJedecs, Ops
  <2> QED  BY <2>1, <2>2 DEF Do
<1>4. ASSUME NEW t \in Commands, Enabling(t)  
      PROVE  todo = <<EnableStep, t, WaitStep>> /\ Head(todo).op = "WRITE_ENABLE"
  BY <1>4, FromEnabling, Ops DEF Enabling
<1>5. ASSUME NEW t \in Commands, Sending(t)
      PROVE  /\ todo = <<t, WaitStep>>
             /\ Head(todo).op \in {"WRITE_STATUS", "ERASE_SECTOR", "ERASE_BLOCK", "PROGRAM"}
  BY <1>5, FromSending, Ops DEF Sending
<1>6. CASE \E t \in Commands : Pending(t)
  <2>1. PICK t \in Commands : Enabling(t) \/ Sending(t)  BY <1>6 DEF Pending
  <2>2. CASE Enabling(t)  BY <2>2, <1>4 DEF Do
  <2>3. CASE Sending(t)  BY <2>3, <1>5 DEF Do
  <2> QED  BY <2>1, <2>2, <2>3
<1>7. CASE Waiting
  <2>1. todo = <<WaitStep>> /\ Head(todo).op = "WAIT_READY"  BY <1>7, FromWaiting, Ops DEF Waiting
  <2> QED  BY <2>1 DEF Do
<1> QED  BY <1>1, <1>2, <1>3, <1>6, <1>7 DEF InShape

--------------------------------------------------------------------------------
(* The initial states, and what every transaction leaves as it is. *)
SessionStep == Session!Next \/ UNCHANGED Session!svars

LEMMA NoJobIs == NoJob \in Jobs /\ NoJob.kind = "none" /\ NoJob.erase = 0 /\ NoJob.end = 0
                 /\ NoJob.data = << >>
BY Geometry, DriverAssumption DEF NoJob, Call, Jobs

LEMMA SameView ==
    ASSUME AfterOn(mem', todo') = AfterOn(mem, todo), Starting' <=> Starting, job' = job
    PROVE  Eventual' = Eventual
BY EventualIs, PendingIs DEF LeftIn

LEMMA InitHolds ==
    ASSUME Init  PROVE IInv /\ Session!Init
<1>1. /\ todo = << >> /\ job = NoJob /\ resp = "none" /\ inProgress = FALSE /\ totalSize = 0
      /\ region = {} /\ trust = "full" /\ written = NoJob
      /\ mem = [x \in Addr |-> {}] /\ wel = FALSE /\ busy = FALSE
      /\ locked \in BOOLEAN /\ asleep \in BOOLEAN /\ present \in BOOLEAN
  BY DEF Init, ChipInit
<1>2. ~ Starting /\ ~ Waiting /\ ~ Identifying /\ \A t \in Commands : ~ Pending(t)
  <2>1. ~ StartingIn(todo)  BY <1>1, NothingLeft
  <2>2. \A t \in Commands : ~ PendingIn(todo, t)  BY <1>1, NoneToCome
  <2>3. todo # <<WaitStep>>  BY <1>1, FromWaiting
  <2> QED  BY <2>1, <2>2, <2>3, PendingIs, FromJedecs DEF Waiting, Identifying
<1>3. SectorsLeft = {}  BY <1>1, NoJobIs DEF SectorsLeft
<1>4. Typed
  <2>1. 0 % SECTOR = 0  BY Geometry, SmallModulus
  <2>2. mem \in [Addr -> SUBSET Bits] /\ totalSize \in 0 .. FLASH_BYTES  BY <1>1, Geometry
  <2> QED  BY <1>1, <2>1, <2>2, NoJobIs DEF Typed, InShape
<1>5. Stages  BY <1>1, <1>2, NoJobIs DEF Stages, Idle
<1>6. Answering
  BY <1>1, <1>2, NoJobIs DEF Answering, Changing, Opening, Pending
<1>7. Aimed  BY <1>1, <1>2, <1>3, NoJobIs DEF Aimed, Opening, Sectored
<1>8. Kept  BY <1>1, NoJobIs DEF Kept
<1>9. Eventual \in [Addr -> SUBSET Bits]
  <2>1. AfterOn(mem, todo) = mem /\ LeftIn(todo, job) = {}
    BY <1>1, <1>2, NothingLeft, PendingIs, NoJobIs DEF LeftIn, LeftOf
  <2>2. Eventual = [x \in Addr |-> mem[x]]
    BY <1>1, <2>1, NoJobIs, EventualIs DEF View
  <2> QED  BY <1>1, <2>2
<1> QED
  BY <1>1, <1>2, <1>4, <1>5, <1>6, <1>7, <1>8, <1>9, NoJobIs
     DEF IInv, PresentChipIsFound, WrittenVerifies, Session!Init, Session!Addr, Addr, Opening

(* A step about one transaction: the call and the session stay. *)
Onward ==
    /\ job' = job
    /\ UNCHANGED <<inProgress, totalSize, resp, region, written, present>>
    /\ mem' \in [Addr -> SUBSET Bits]
    /\ wel' \in BOOLEAN /\ locked' \in BOOLEAN /\ asleep' \in BOOLEAN /\ busy' \in BOOLEAN
    /\ InShape' /\ (Starting' <=> Starting)
    /\ Idle \/ job.kind = "verify" => todo' = << >>
    /\ \A t \in Commands : Pending(t)' => Pending(t)
    /\ trust' \in {"full", "region", "none"}
    /\ trust' # "none" => trust # "none"
    /\ trust' = "full" => trust = "full" /\ Eventual' = Eventual

LEMMA OnwardHolds ==
    ASSUME IInv, Onward
    PROVE  /\ Typed' /\ Stages' /\ Aimed' /\ Kept'
           /\ PresentChipIsFound' /\ WrittenVerifies'
           /\ (Opening' <=> Opening)
<1>1. /\ job' = job /\ inProgress' = inProgress /\ totalSize' = totalSize /\ resp' = resp
      /\ region' = region /\ written' = written /\ present' = present
      /\ Starting' <=> Starting
  BY DEF Onward
<1>2. Opening' = Opening /\ SectorsLeft' = SectorsLeft /\ (Idle' <=> Idle)
  BY <1>1 DEF Opening, SectorsLeft, Idle
<1>3. Typed'  BY <1>1 DEF IInv, Typed, Onward
<1>4. Stages'  BY <1>1, <1>2 DEF IInv, Stages, Onward
<1>5. Aimed'
  <2>1. ASSUME trust' # "none", NEW t \in Commands, Pending(t)'
        PROVE  Touched(t)' \subseteq region'
    <3>1. Touched(t)' = Touched(t)  BY DEF Touched, Unit
    <3>2. Touched(t) \subseteq region  BY <2>1 DEF IInv, Aimed, Onward
    <3> QED  BY <3>1, <3>2, <1>1
  <2>2. Below(totalSize)' = Below(totalSize) /\ Below(job.end)' = Below(job.end)
        /\ Sectored(region)'
    BY <1>1 DEF IInv, Aimed, Below, Sectored
  <2>3. trust' = "full" => trust = "full"  BY DEF Onward
  <2>4. trust' # "none" => trust # "none"  BY DEF Onward
  <2> QED  BY <1>1, <1>2, <2>1, <2>2, <2>3, <2>4 DEF IInv, Aimed
<1>6. Kept'
  <2>1. trust' = "full" /\ trust = "full" /\ Found(Eventual) => Found(Eventual)'
    BY <1>1 DEF Onward, Found
  <2>2. trust' = "full" => trust = "full"  BY DEF Onward
  <2> QED  BY <1>1, <1>2, <2>1, <2>2 DEF IInv, Kept
<1>7. PresentChipIsFound' /\ WrittenVerifies'
  BY <1>1 DEF IInv, Onward, PresentChipIsFound, WrittenVerifies
<1> QED  BY <1>2, <1>3, <1>4, <1>5, <1>6, <1>7

(* What such steps are for the session. *)
LEMMA SessionStutters ==
    ASSUME Eventual' = Eventual, Opening' <=> Opening, Opening => job'.end = job.end,
           UNCHANGED <<inProgress, totalSize, region, trust>>
    PROVE  SessionStep
BY DEF SessionStep, Session!svars

LEMMA SessionDrifts ==
    ASSUME trust # "full",
           trust = "region" => \A x \in Addr \ region : Eventual'[x] = Eventual[x],
           Opening' <=> Opening, Opening => job'.end = job.end,
           UNCHANGED <<inProgress, totalSize, region, trust>>
    PROVE  SessionStep
<1>1. Session!Drift  BY DEF Session!Drift, Session!Addr, Addr
<1> QED  BY <1>1 DEF SessionStep, Session!Next

LEMMA SessionDistrusts ==
    ASSUME trust' \in {"region", "none"}, Eventual' = Eventual,
           Opening' <=> Opening, Opening => job'.end = job.end,
           UNCHANGED <<inProgress, totalSize, region>>
    PROVE  SessionStep
<1>1. Session!Distrust  BY DEF Session!Distrust
<1> QED  BY <1>1 DEF SessionStep, Session!Next

--------------------------------------------------------------------------------
(* The transactions, one by one. *)
Holds == IInv' /\ SessionStep

LEMMA ReleaseHolds ==
    ASSUME IInv, Release  PROVE Holds
<1>1. todo = flash_init /\ todo' = Jedecs(4)
  BY AtHead, FromInit DEF Release, IInv, Typed
<1>2. /\ UNCHANGED <<mem, wel, locked, busy, present, job, inProgress, totalSize, resp, region,
                     trust, written>>
      /\ asleep' = (asleep /\ busy)
  BY DEF Release, ReleasePowerDown, histVars
<1>3. Starting /\ Starting' /\ Identifying'
  BY <1>1, FromInit, FromJedecs, PendingIs DEF Identifying
<1>4. \A t \in Commands : ~ Pending(t)'  BY <1>3, PendingIs, NoneToCome
<1>5. AfterOn(mem', todo') = mem /\ AfterOn(mem, todo) = mem
  BY <1>1, <1>2, FromInit, FromJedecs
<1>6. Eventual' = Eventual  BY <1>2, <1>3, <1>5, SameView
<1>7. job.kind = "begin"  BY <1>3 DEF IInv, Stages
<1>8. Onward
  BY <1>2, <1>3, <1>4, <1>6, <1>7 DEF Onward, IInv, Typed, InShape, Idle
<1>9. /\ Typed' /\ Stages' /\ Aimed' /\ Kept' /\ PresentChipIsFound' /\ WrittenVerifies'
      /\ (Opening' <=> Opening)
  BY <1>8, OnwardHolds
<1>10. Answering'
  <2>1. ~ asleep'  BY <1>2 DEF IInv, Answering
  <2>2. ~ Waiting  BY <1>3, PendingIs, FromWaiting DEF Waiting
  <2>3. trust' = "full" => ~ busy'  BY <1>2, <2>2 DEF IInv, Answering
  <2>4. ~ Changing'  BY <1>2, <1>3, <1>7 DEF IInv, Stages, Changing, Opening
  <2>5. \A t \in Commands : ~ Sending(t)'  BY <1>4 DEF Pending
  <2>6. trust' = "full" /\ written' # NoJob' => present'
    BY <1>2 DEF IInv, Answering, NoJob, Call
  <2> QED  BY <2>1, <2>3, <2>4, <2>5, <2>6 DEF Answering
<1>11. SessionStep  BY <1>2, <1>6, <1>9, SessionStutters
<1> QED  BY <1>9, <1>10, <1>11 DEF Holds, IInv

LEMMA ReadyHolds ==
    ASSUME IInv, Ready  PROVE Holds
<1>1. todo = <<WaitStep>> /\ todo' = << >>
  BY AtHead, FromWaiting DEF Ready, IInv, Typed
<1>2. UNCHANGED <<mem, wel, locked, busy, asleep, present, job, inProgress, totalSize, resp,
                  region, trust, written>> /\ ~ busy
  BY DEF Ready, histVars, chipVars
<1>3. ~ Starting /\ ~ Starting'  BY <1>1, FromWaiting, NothingLeft, PendingIs
<1>4. \A t \in Commands : ~ Pending(t)' /\ ~ Pending(t)  BY <1>1, PendingIs, NoneToCome
<1>5. AfterOn(mem', todo') = mem /\ AfterOn(mem, todo) = mem
  BY <1>1, <1>2, FromWaiting, NothingLeft
<1>6. Eventual' = Eventual  BY <1>2, <1>3, <1>5, SameView
<1>8. Onward
  BY <1>1, <1>2, <1>3, <1>4, <1>6 DEF Onward, IInv, Typed, InShape
<1>9. /\ Typed' /\ Stages' /\ Aimed' /\ Kept' /\ PresentChipIsFound' /\ WrittenVerifies'
      /\ (Opening' <=> Opening)
  BY <1>8, OnwardHolds
<1>10. Answering'
  <2>1. ~ Identifying'  BY <1>1, FromJedecs DEF Identifying
  <2>2. Changing' = Changing /\ StatusStep \in Commands
    BY <1>2, <1>9, Ops DEF Changing
  <2>3. \A t \in Commands : ~ Sending(t)'  BY <1>4 DEF Pending
  <2> QED  BY <1>2, <1>4, <2>1, <2>2, <2>3 DEF IInv, Answering, NoJob, Call
<1>11. SessionStep  BY <1>2, <1>6, <1>9, SessionStutters
<1> QED  BY <1>9, <1>10, <1>11 DEF Holds, IInv

LEMMA WaitRunsOutHolds ==
    ASSUME IInv, WaitRunsOut  PROVE Holds
<1>1. todo = <<WaitStep>> /\ todo' = << >>
  BY AtHead, FromWaiting DEF WaitRunsOut, IInv, Typed
<1>2. /\ UNCHANGED <<mem, wel, locked, busy, asleep, present, job, inProgress, totalSize, resp,
                     region, written>>
      /\ trust' = IF trust = "none" THEN "none" ELSE "region"
  BY DEF WaitRunsOut, chipVars
<1>3. ~ Starting /\ ~ Starting'  BY <1>1, FromWaiting, NothingLeft, PendingIs
<1>4. \A t \in Commands : ~ Pending(t)' /\ ~ Pending(t)  BY <1>1, PendingIs, NoneToCome
<1>5. AfterOn(mem', todo') = mem /\ AfterOn(mem, todo) = mem
  BY <1>1, <1>2, FromWaiting, NothingLeft
<1>6. Eventual' = Eventual  BY <1>2, <1>3, <1>5, SameView
<1>8. Onward
  BY <1>1, <1>2, <1>3, <1>4, <1>6 DEF Onward, IInv, Typed, InShape
<1>9. /\ Typed' /\ Stages' /\ Aimed' /\ Kept' /\ PresentChipIsFound' /\ WrittenVerifies'
      /\ (Opening' <=> Opening)
  BY <1>8, OnwardHolds
<1>10. Answering'
  <2>1. ~ Identifying'  BY <1>1, FromJedecs DEF Identifying
  <2> QED  BY <1>2, <2>1 DEF IInv, Answering
<1>11. SessionStep  BY <1>2, <1>6, <1>9, SessionDistrusts
<1> QED  BY <1>9, <1>10, <1>11 DEF Holds, IInv

LEMMA ChipFinishesHolds ==
    ASSUME IInv, ChipFinishes, UNCHANGED driverVars  PROVE Holds
<1>2. /\ UNCHANGED <<mem, wel, locked, asleep, present, todo, job, inProgress, totalSize, resp,
                     region, trust, written>>
      /\ ~ busy'
  BY DEF ChipFinishes, driverVars, histVars
<1>3. Starting' <=> Starting  BY <1>2 DEF Starting
<1>4. \A t \in Commands : (Pending(t)' <=> Pending(t)) /\ (Sending(t)' <=> Sending(t))
  BY <1>2 DEF Pending, Enabling, Sending
<1>5. Eventual' = Eventual  BY <1>2, <1>3, SameView
<1>6. InShape' /\ busy' \in BOOLEAN /\ (Identifying' <=> Identifying)
  <2>1. (Waiting' <=> Waiting) /\ (Identifying' <=> Identifying)
    BY <1>2 DEF Waiting, Identifying
  <2>2. InShape'  BY <1>2, <1>4, <2>1 DEF InShape, IInv, Typed
  <2> QED  BY <2>1, <2>2 DEF ChipFinishes
<1>8. Onward
  BY <1>2, <1>3, <1>4, <1>5, <1>6 DEF Onward, IInv, Typed, Stages, Idle
<1>9. /\ Typed' /\ Stages' /\ Aimed' /\ Kept' /\ PresentChipIsFound' /\ WrittenVerifies'
      /\ (Opening' <=> Opening)
  BY <1>8, OnwardHolds
<1>10. Answering'
  <2>1. Changing' = Changing /\ StatusStep \in Commands
    BY <1>2, <1>9, Ops DEF Changing
  <2> QED  BY <1>2, <1>4, <1>6, <2>1 DEF IInv, Answering
<1>11. SessionStep  BY <1>2, <1>5, <1>9, SessionStutters
<1> QED  BY <1>9, <1>10, <1>11 DEF Holds, IInv

(* Without data to program and sectors to erase, the flash will stay. *)
LEMMA PlainView ==
    ASSUME NEW m \in [Addr -> SUBSET Bits], NEW j, j.kind \notin {"data", "write"} \/ j.data = << >>
    PROVE  View(m, {}, j) = m
<1>1. View(m, {}, j) = [x \in Addr |-> m[x]]
  <2>1. DOMAIN << >> = {}  OBVIOUS
  <2> QED  BY <2>1 DEF View
<1> QED  BY <1>1

LEMMA JedecMissedHolds ==
    ASSUME IInv, JedecMissed  PROVE Holds
<1>1. PICK k \in 1 .. 4 : todo = Jedecs(k)
  BY AtHead DEF JedecMissed, IInv, Typed
<1>2. /\ UNCHANGED <<mem, wel, locked, busy, asleep, present, inProgress, totalSize, region,
                     trust, written>>
      /\ ~ Listening /\ todo' = Tail(todo)
      /\ IF k > 1 THEN UNCHANGED <<job, resp>> ELSE job' = NoJob /\ resp' = "FLASH_ID"
  BY <1>1, FromJedecs DEF JedecMissed, histVars, chipVars
<1>3. Starting /\ ~ Waiting /\ Identifying
  BY <1>1, FromJedecs, FromWaiting, PendingIs DEF Waiting, Identifying
<1>4. job.kind = "begin" /\ ~ inProgress /\ ~ Opening
  BY <1>3 DEF IInv, Stages, Opening
<1>5. ~ asleep /\ (trust = "full" => ~ busy)  BY <1>3 DEF IInv, Answering
<1>6. AfterOn(mem, todo) = mem /\ mem \in [Addr -> SUBSET Bits]
  BY <1>1, FromJedecs DEF IInv, Typed
<1>7. CASE k > 1
  <2>1. todo' = Jedecs(k - 1) /\ k - 1 \in 1 .. 4  BY <1>1, <1>2, <1>7, FromJedecs
  <2>2. UNCHANGED <<job, resp>>  BY <1>2, <1>7
  <2>3. Starting' /\ Identifying' /\ ~ Waiting'
    BY <2>1, FromJedecs, FromWaiting, PendingIs DEF Identifying, Waiting
  <2>4. \A t \in Commands : ~ Pending(t)'  BY <2>3, PendingIs, NoneToCome
  <2>5. AfterOn(mem', todo') = mem  BY <2>1, <1>2, FromJedecs
  <2>6. Eventual' = Eventual  BY <1>3, <1>6, <2>2, <2>3, <2>5, SameView
  <2>7. Onward
    BY <1>2, <1>3, <1>4, <2>2, <2>3, <2>4, <2>6 DEF Onward, IInv, Typed, InShape, Idle
  <2>8. /\ Typed' /\ Stages' /\ Aimed' /\ Kept' /\ PresentChipIsFound' /\ WrittenVerifies'
        /\ (Opening' <=> Opening)
    BY <2>7, OnwardHolds
  <2>9. Answering'
    <3>1. ~ Changing'  BY <1>2, <1>4, <2>2, <2>8 DEF Changing
    <3>2. \A t \in Commands : ~ Sending(t)'  BY <2>4 DEF Pending
    <3> QED  BY <1>2, <1>5, <3>1, <3>2 DEF IInv, Answering
  <2>10. SessionStep  BY <1>2, <2>2, <2>6, <2>8, SessionStutters
  <2> QED  BY <2>8, <2>9, <2>10 DEF Holds, IInv
<1>8. CASE k = 1
  <2>1. todo' = << >>  BY <1>1, <1>2, <1>8, FromJedecs
  <2>2. job' = NoJob /\ resp' = "FLASH_ID"  BY <1>2, <1>8
  <2>3. ~ Starting' /\ ~ Identifying' /\ \A t \in Commands : ~ Pending(t)'
    BY <2>1, NothingLeft, FromJedecs, NoneToCome, PendingIs DEF Identifying
  <2>4. SectorsLeft' = {} /\ ~ Opening'  BY <2>2, NoJobIs DEF SectorsLeft, Opening
  <2>5. Eventual' = Eventual
    <3>1. LeftIn(todo', job') = {} /\ LeftIn(todo, job) = {}
      BY <1>3, <2>2, <2>3, NoJobIs, PendingIs DEF LeftIn, LeftOf
    <3>2. AfterOn(mem', todo') = mem  BY <1>2, <2>1, NothingLeft
    <3>3. View(mem, {}, job) = mem /\ View(mem, {}, NoJob) = mem
      BY <1>4, <1>6, NoJobIs, PlainView
    <3> QED  BY <1>6, <2>2, <3>1, <3>2, <3>3, EventualIs
  <2>6. Typed'
    <3>1. 0 % SECTOR = 0  BY Geometry, SmallModulus
    <3>2. InShape'  BY <2>1 DEF InShape
    <3> QED  BY <1>2, <2>2, <3>1, <3>2, NoJobIs DEF IInv, Typed
  <2>7. Stages'  BY <1>2, <1>4, <2>1, <2>2, <2>3, NoJobIs DEF Stages, Idle
  <2>8. Answering'
    <3>1. ~ Changing'  BY <1>2, <1>4, <2>2, <2>4, NoJobIs DEF Changing
    <3>2. \A t \in Commands : ~ Sending(t)'  BY <2>3 DEF Pending
    <3> QED  BY <1>2, <1>5, <2>3, <3>1, <3>2 DEF IInv, Answering
  <2>9. Aimed'
    <3>1. Sectored(region)'  BY <1>2 DEF IInv, Aimed, Sectored
    <3> QED  BY <1>2, <1>4, <2>2, <2>3, <2>4, <3>1, NoJobIs DEF Aimed
  <2>10. Kept'
    <3>1. Found(Eventual) => Found(Eventual)'  BY <1>2, <2>5 DEF Found
    <3> QED  BY <1>2, <1>4, <2>2, <2>4, <3>1, NoJobIs DEF IInv, Kept
  <2>11. PresentChipIsFound' /\ WrittenVerifies'
    BY <1>2, <1>5, <2>2 DEF IInv, Typed, PresentChipIsFound, WrittenVerifies, Listening
  <2>12. SessionStep  BY <1>2, <1>4, <2>4, <2>5, SessionStutters
  <2> QED  BY <2>6, <2>7, <2>8, <2>9, <2>10, <2>11, <2>12 DEF Holds, IInv
<1> QED  BY <1>7, <1>8

(* What is under way when there are transactions left of an operation. *)
LEMMA Underway ==
    ASSUME IInv, ~ Starting, todo # << >>
    PROVE  Changing /\ ~ Idle /\ job.kind # "verify"
BY DEF IInv, Typed, Jobs, Stages, Changing, Opening, Idle

LEMMA Protecting ==
    /\ flash_unprotect = <<EnableStep, StatusStep, WaitStep>>
    /\ \A op, at : flash_erase(op, at)
         = <<EnableStep, [op |-> op, at |-> at, data |-> << >>], WaitStep>>
    /\ \A at, d : flash_write_page(at, d)
         = <<EnableStep, [op |-> "PROGRAM", at |-> at,
                          data |-> SubSeq(d, 1, Smaller(Len(d), PAGE))], WaitStep>>
BY DEF flash_unprotect, flash_erase, flash_write_page, Modify, EnableStep, StatusStep, WaitStep,
       Transaction

LEMMA JedecFoundHolds ==
    ASSUME IInv, JedecFound  PROVE Holds
<1>1. PICK k \in 1 .. 4 : todo = Jedecs(k)
  BY AtHead DEF JedecFound, IInv, Typed
<1>2. /\ UNCHANGED <<mem, wel, locked, busy, asleep, present, job, inProgress, totalSize, resp>>
      /\ Listening
      /\ todo' = <<EnableStep, StatusStep, WaitStep>>
      /\ region' = Below(job.end) /\ trust' = "full" /\ written' = NoJob
  BY Protecting DEF JedecFound, chipVars, Below
<1>3. Starting  BY <1>1, FromJedecs, PendingIs
<1>4. /\ job.kind = "begin" /\ ~ inProgress /\ ~ Opening /\ job.erase = 0 /\ ~ Idle
      /\ job.end \in 1 .. FLASH_BYTES /\ resp = "none"
  <2>1. job.end \in 0 .. FLASH_BYTES  BY DEF IInv, Typed, Jobs
  <2>2. /\ job.kind = "begin" /\ ~ inProgress /\ ~ Opening /\ job.erase = 0 /\ ~ Idle
        /\ job.end >= 1 /\ resp = "none"
    BY <1>3 DEF IInv, Stages, Opening, Idle
  <2> QED  BY <2>1, <2>2, Geometry
<1>5. /\ ~ Starting' /\ todo' # << >> /\ todo' # <<WaitStep>>
      /\ \A t \in Commands : Pending(t)' => t = StatusStep
      /\ \A t \in Commands : ~ Sending(t)'
      /\ Pending(StatusStep)'
      /\ \A m : AfterOn(m, todo') = m
  <2>1. PendingIn(todo', StatusStep) /\ StatusStep \in Commands  BY <1>2, Ops DEF PendingIn
  <2>2. \A m : Struck(m, StatusStep) = m  BY Ops DEF Modifying
  <2>3. \A t \in Commands : todo' # <<t, WaitStep>>  BY <2>1, <1>2, OneToCome
  <2> QED  BY <2>1, <2>2, <2>3, OneToCome, PendingIs DEF Sending
<1>6. Opening'  BY <1>2, <1>4, <1>5 DEF Opening
<1>7. SectorsLeft' = Below(job.end) /\ LeftOf(job) = Below(job.end)
  <2>1. \A x \in Addr : x >= 0  BY Geometry DEF Addr
  <2> QED  BY <1>2, <1>4, <2>1 DEF SectorsLeft, LeftOf, Below
<1>8. Typed'
  <2>1. InShape'
    BY <1>2, Ops DEF InShape, Pending, Enabling
  <2>2. region' \subseteq Addr  BY <1>2 DEF Below
  <2>3. 0 % SECTOR = 0  BY Geometry, SmallModulus
  <2> QED  BY <1>2, <2>1, <2>2, <2>3, NoJobIs DEF IInv, Typed
<1>9. Stages'  BY <1>2, <1>4, <1>5 DEF Stages, Idle
<1>10. Answering'
  <2>1. ~ Identifying'  BY <1>5, FromJedecs, PendingIs DEF Identifying
  <2> QED  BY <1>2, <1>5, <2>1 DEF Answering, Listening, IInv, Typed
<1>11. Aimed'
  <2>1. Sectored(region)'
    <3>1. Sectored(Below(job.end))  BY <1>4, SectoredBelow
    <3> QED  BY <3>1, <1>2 DEF Sectored
  <2>2. Touched(StatusStep)' = {}
    BY Ops DEF Touched
  <2>3. Below(job.end)' = Below(job.end)  BY <1>2 DEF Below
  <2> QED  BY <1>2, <1>4, <1>5, <1>7, <2>1, <2>2, <2>3 DEF Aimed
<1>12. Kept'  BY <1>2, <1>4 DEF Kept
<1>13. PresentChipIsFound' /\ WrittenVerifies'
  BY <1>2, <1>4 DEF PresentChipIsFound, WrittenVerifies
<1>14. mem \in [Addr -> SUBSET Bits]  BY DEF IInv, Typed
<1>15. Eventual = mem
  <2>1. AfterOn(mem, todo) = mem /\ LeftIn(todo, job) = {}
    BY <1>1, <1>3, FromJedecs, PendingIs DEF LeftIn
  <2> QED  BY <1>4, <1>14, <2>1, PlainView, EventualIs
<1>16. Eventual' = [x \in Addr |-> IF x \in Below(job.end) THEN Bits ELSE mem[x]]
  <2>1. AfterOn(mem', todo') = mem /\ LeftIn(todo', job') = Below(job.end)
    BY <1>2, <1>5, <1>7, PendingIs DEF LeftIn
  <2> QED  BY <1>2, <1>4, <2>1, EventualIs DEF View
<1>17. Session!Begin
  <2>1. Below(job.end) = Session!Units(SECTOR, 0, job.end)  BY <1>4, BelowIsUnits
  <2>2. Eventual' = Session!Wiped(Eventual, region')
    BY <1>2, <1>15, <1>16 DEF Session!Wiped, Session!Addr, Addr
  <2>3. Opening' = TRUE  BY <1>6 DEF Opening
  <2> QED  BY <1>2, <1>4, <2>1, <2>2, <2>3 DEF Session!Begin
<1>18. SessionStep  BY <1>17 DEF SessionStep, Session!Next
<1> QED  BY <1>8, <1>9, <1>10, <1>11, <1>12, <1>13, <1>18 DEF Holds, IInv

LEMMA EnableHolds ==
    ASSUME IInv, Enable  PROVE Holds
<1>1. PICK t \in Commands : todo = <<EnableStep, t, WaitStep>>
  BY AtHead DEF Enable, IInv, Typed
<1>2. /\ UNCHANGED <<mem, locked, busy, asleep, present, job, inProgress, totalSize, resp,
                     region, trust, written>>
      /\ wel' = (wel \/ Listening) /\ todo' = <<t, WaitStep>>
  BY <1>1, FromEnabling DEF Enable, WriteEnable, histVars
<1>3. PendingIn(todo, t) /\ PendingIn(todo', t)  BY <1>1, <1>2 DEF PendingIn
<1>4. /\ ~ Starting /\ ~ Starting' /\ todo # << >> /\ ~ Waiting
      /\ AfterOn(mem, todo) = AfterOn(mem', todo')
      /\ \A u \in Commands : (Pending(u)' <=> Pending(u))
  BY <1>2, <1>3, OneToCome, PendingIs DEF Waiting
<1>5. Changing /\ ~ Idle /\ job.kind # "verify"  BY <1>4, Underway
<1>6. Eventual' = Eventual  BY <1>2, <1>4, SameView
<1>7. Onward
  <2>1. InShape'  BY <1>2 DEF InShape, Pending, Sending
  <2> QED  BY <1>2, <1>4, <1>5, <1>6, <2>1 DEF Onward, IInv, Typed, Listening
<1>8. /\ Typed' /\ Stages' /\ Aimed' /\ Kept' /\ PresentChipIsFound' /\ WrittenVerifies'
      /\ (Opening' <=> Opening)
  BY <1>7, OnwardHolds
<1>9. Answering'
  <2>1. ~ Identifying'  BY <1>4, FromJedecs, PendingIs DEF Identifying
  <2>2. trust = "full" => ~ busy /\ Listening /\ (~ locked \/ Pending(StatusStep)')
    BY <1>4, <1>5, Ops DEF IInv, Answering, Listening
  <2>3. trust = "full" => wel'  BY <1>2, <2>2
  <2>4. trust = "full" => present' /\ ~ asleep'
    BY <1>2, <2>2 DEF Listening
  <2> QED  BY <1>2, <2>1, <2>2, <2>3, <2>4 DEF IInv, Answering
<1>10. SessionStep  BY <1>2, <1>6, <1>8, SessionStutters
<1> QED  BY <1>8, <1>9, <1>10 DEF Holds, IInv

(* What a command does to a memory, and where. *)
LEMMA StruckWhere ==
    ASSUME NEW m \in [Addr -> SUBSET Bits], NEW t \in Commands
    PROVE  /\ Struck(m, t) \in [Addr -> SUBSET Bits]
           /\ \A x \in Addr \ Touched(t) : Struck(m, t)[x] = m[x]
<1>1. CASE t.op = "ERASE_SECTOR"
  <2>1. Struck(m, t) = [x \in Addr |-> IF x \in Unit(SECTOR, t.at) THEN Bits ELSE m[x]]
    BY <1>1 DEF Struck
  <2> QED  BY <1>1, <2>1 DEF Touched
<1>2. CASE t.op = "ERASE_BLOCK"
  <2>1. Struck(m, t) = [x \in Addr |-> IF x \in Unit(BLOCK, t.at) THEN Bits ELSE m[x]]
    BY <1>2 DEF Struck
  <2> QED  BY <1>2, <2>1 DEF Touched
<1>3. CASE t.op = "PROGRAM"
  <2>1. Struck(m, t) = [x \in Addr |-> LET i == ((x - t.at) % PAGE) + 1
                                       IN  IF x \in Unit(PAGE, t.at) /\ i \in DOMAIN t.data
                                           THEN m[x] \cap t.data[i] ELSE m[x]]
    BY <1>3 DEF Struck
  <2>2. \A x \in Addr : m[x] \subseteq Bits  OBVIOUS
  <2> QED  BY <1>3, <2>1, <2>2 DEF Touched
<1>4. CASE t.op = "WRITE_STATUS"
  BY <1>4, Ops DEF Modifying
<1> QED  BY <1>1, <1>2, <1>3, <1>4, Ops

LEMMA ViewWhere ==
    ASSUME NEW a, NEW b, NEW L, NEW M, NEW j, NEW x \in Addr, a[x] = b[x], x \in L <=> x \in M
    PROVE  View(a, L, j)[x] = View(b, M, j)[x]
BY DEF View

LEMMA CommandHolds ==
    ASSUME IInv, Command  PROVE Holds
<1>1. PICK t \in Commands : todo = <<t, WaitStep>>
  BY AtHead DEF Command, IInv, Typed
<1>2. /\ UNCHANGED <<job, inProgress, totalSize, resp, region, trust, written>>
      /\ todo' = <<WaitStep>> /\ Execute(t)
  BY <1>1, FromSending DEF Command, histVars
<1>3. PendingIn(todo, t) /\ Sending(t)  BY <1>1 DEF PendingIn, Sending
<1>4. /\ ~ Starting /\ ~ Starting' /\ todo # << >> /\ ~ Waiting /\ Waiting'
      /\ AfterOn(mem, todo) = Struck(mem, t) /\ AfterOn(mem', todo') = mem'
      /\ Pending(t) /\ \A u \in Commands : ~ Pending(u)' /\ (Pending(u) => u = t)
  BY <1>2, <1>3, OneToCome, PendingIs, FromWaiting, NoneToCome DEF Waiting
<1>5. Changing /\ ~ Idle /\ job.kind # "verify"  BY <1>4, Underway
<1>6. /\ present' = present /\ asleep' = asleep
      /\ mem' \in {mem, Struck(mem, t)}
      /\ Listening /\ wel => mem' = IF locked THEN mem ELSE Struck(mem, t)
      /\ Listening /\ wel => locked' = (locked /\ t.op # "WRITE_STATUS")
      /\ busy' => busy \/ Listening
      /\ wel' \in BOOLEAN /\ locked' \in BOOLEAN /\ asleep' \in BOOLEAN /\ busy' \in BOOLEAN
  BY <1>2, StruckIs DEF Execute, chipVars, IInv, Typed
<1>7. mem \in [Addr -> SUBSET Bits] /\ mem' \in [Addr -> SUBSET Bits]
  BY <1>6, StruckWhere DEF IInv, Typed
<1>8. ASSUME trust = "full"
      PROVE  Listening /\ ~ locked' /\ mem' = Struck(mem, t) /\ Eventual' = Eventual
  <2>1. present /\ ~ asleep /\ ~ busy /\ wel /\ (~ locked \/ Pending(StatusStep))
    BY <1>3, <1>4, <1>5, <1>8 DEF IInv, Answering
  <2>2. Listening  BY <2>1 DEF Listening
  <2>3. locked => t = StatusStep  BY <2>1, <1>4, Ops
  <2>4. locked => Struck(mem, t) = mem /\ t.op = "WRITE_STATUS"
    BY <2>3, Ops DEF Modifying
  <2>5. ~ locked' /\ mem' = Struck(mem, t)  BY <2>1, <2>2, <2>4, <1>6
  <2>6. Eventual' = Eventual  BY <2>5, <1>2, <1>4, SameView
  <2> QED  BY <2>2, <2>5, <2>6
<1>9. Onward
  <2>1. InShape'  BY <1>4 DEF InShape
  <2> QED  BY <1>2, <1>4, <1>5, <1>6, <1>7, <1>8, <2>1 DEF Onward, IInv, Typed
<1>10. /\ Typed' /\ Stages' /\ Aimed' /\ Kept' /\ PresentChipIsFound' /\ WrittenVerifies'
       /\ (Opening' <=> Opening)
  BY <1>9, OnwardHolds
<1>11. Answering'
  <2>1. ~ Identifying'  BY <1>4, FromJedecs, PendingIs DEF Identifying
  <2>2. \A u \in Commands : ~ Sending(u)'  BY <1>4 DEF Pending
  <2>3. ~ (busy' /\ asleep')  BY <1>6 DEF IInv, Answering, Listening
  <2> QED  BY <1>2, <1>4, <1>6, <1>8, <2>1, <2>2, <2>3 DEF Answering, Listening
<1>12. SessionStep
  <2>1. CASE trust = "full"
    BY <2>1, <1>2, <1>8, <1>10, SessionStutters
  <2>2. CASE trust # "full"
    <3>1. ASSUME trust = "region", NEW x \in Addr \ region  PROVE Eventual'[x] = Eventual[x]
      <4>1. x \notin Touched(t)  BY <3>1, <1>4 DEF IInv, Aimed
      <4>2. mem'[x] = Struck(mem, t)[x]  BY <4>1, <1>6, <1>7, StruckWhere
      <4>3. LeftIn(todo', job') = LeftIn(todo, job)
        BY <1>2, <1>4, PendingIs DEF LeftIn
      <4>4. View(mem', LeftIn(todo, job), job)[x] = View(Struck(mem, t), LeftIn(todo, job), job)[x]
        BY <4>2, ViewWhere
      <4> QED  BY <4>3, <4>4, <1>2, <1>4, EventualIs
    <3> QED  BY <2>2, <3>1, <1>2, <1>10, SessionDrifts
  <2> QED  BY <2>1, <2>2
<1> QED  BY <1>10, <1>11, <1>12 DEF Holds, IInv

--------------------------------------------------------------------------------
(* The calls. *)
LEMMA AtRest ==
    ASSUME IInv, todo = << >>
    PROVE  /\ ~ Starting /\ ~ Waiting /\ ~ Identifying
           /\ \A t \in Commands : ~ Pending(t) /\ ~ Sending(t)
           /\ \A m : AfterOn(m, todo) = m
           /\ SectorsLeft = {} /\ (job.kind \notin {"data", "write"} \/ job.data = << >>)
                 => Eventual = mem
           /\ job.kind \in {"none", "block", "verify"} => Eventual = mem /\ ~ Opening
<1>1. ~ Starting /\ \A m : AfterOn(m, todo) = m  BY NothingLeft, PendingIs
<1>2. ~ Waiting /\ ~ Identifying  BY FromWaiting, FromJedecs DEF Waiting, Identifying
<1>3. \A t \in Commands : ~ Pending(t) /\ ~ Sending(t)  BY NoneToCome, PendingIs DEF Pending
<1>4. ASSUME SectorsLeft = {}, job.kind \notin {"data", "write"} \/ job.data = << >>
      PROVE  Eventual = mem
  <2>1. LeftIn(todo, job) = {}  BY <1>4 DEF LeftIn, LeftOf, SectorsLeft
  <2>2. mem \in [Addr -> SUBSET Bits]  BY DEF IInv, Typed
  <2> QED  BY <1>1, <1>4, <2>1, <2>2, PlainView, EventualIs
<1>5. ASSUME job.kind \in {"none", "block", "verify"}  PROVE SectorsLeft = {} /\ ~ Opening
  BY <1>5 DEF SectorsLeft, Opening
<1>6. job.kind \in {"none", "block", "verify"} => job.kind \notin {"data", "write"}  OBVIOUS
<1> QED  BY <1>1, <1>2, <1>3, <1>4, <1>5, <1>6

LEMMA AtCall ==
    ASSUME IInv, Idle
    PROVE  /\ todo = << >> /\ Eventual = mem /\ ~ Opening /\ ~ Starting
           /\ mem \in [Addr -> SUBSET Bits]
BY AtRest DEF IInv, Typed, Stages, Idle

LEMMA RefuseHolds ==
    ASSUME IInv, UNCHANGED <<chipVars, todo, job, inProgress, totalSize, histVars>>,
           resp' = resp \/ (Idle /\ resp' \in {"BUSY", "RANGE", "NOT_BEGUN"})
    PROVE  Holds
<1>1. UNCHANGED <<mem, wel, locked, asleep, busy, present, todo, job, inProgress, totalSize,
                  region, trust, written>>
  BY DEF chipVars, histVars
<1>2. (Starting' <=> Starting) /\ (Opening' <=> Opening) /\ SectorsLeft' = SectorsLeft
  BY <1>1 DEF Starting, Opening, SectorsLeft
<1>3. Eventual' = Eventual  BY <1>1, <1>2, SameView
<1>4. \A t \in Commands : (Pending(t)' <=> Pending(t)) /\ (Sending(t)' <=> Sending(t))
                          /\ Touched(t)' = Touched(t)
  BY <1>1 DEF Pending, Enabling, Sending, Touched, Unit
<1>5. (Waiting' <=> Waiting) /\ (Identifying' <=> Identifying)
  BY <1>1 DEF Waiting, Identifying
<1>6. Typed'  BY <1>1, <1>4, <1>5 DEF IInv, Typed, InShape
<1>7. Stages'  BY <1>1, <1>2 DEF IInv, Stages, Idle
<1>8. Answering'
  <2>1. Changing' <=> Changing  BY <1>1, <1>2 DEF Changing
  <2> QED  BY <1>1, <1>4, <1>5, <2>1, Ops DEF IInv, Answering
<1>9. Aimed'
  <2>1. Below(totalSize)' = Below(totalSize) /\ Below(job.end)' = Below(job.end)
        /\ (Sectored(region)' <=> Sectored(region))
    BY <1>1 DEF Below, Sectored
  <2> QED  BY <1>1, <1>2, <1>4, <2>1 DEF IInv, Aimed
<1>10. Kept'
  <2>1. Found(Eventual)' <=> Found(Eventual)  BY <1>1, <1>3 DEF Found
  <2> QED  BY <1>1, <1>2, <2>1 DEF IInv, Kept
<1>11. PresentChipIsFound' /\ WrittenVerifies'
  BY <1>1 DEF IInv, PresentChipIsFound, WrittenVerifies
<1>12. SessionStep  BY <1>1, <1>2, <1>3, SessionStutters
<1> QED  BY <1>6, <1>7, <1>8, <1>9, <1>10, <1>11, <1>12 DEF Holds, IInv

LEMMA EndHolds ==
    ASSUME IInv, End  PROVE Holds
<1>1. CASE ~ inProgress /\ Refuse("NOT_BEGUN")  BY <1>1, RefuseHolds DEF Refuse
<1>2. CASE ~ (~ inProgress /\ Refuse("NOT_BEGUN"))
  <2>1. /\ UNCHANGED <<mem, wel, locked, busy, present, todo, job, totalSize,
                       region, trust, written>>
        /\ Idle /\ inProgress /\ inProgress' = FALSE /\ resp' = "OK"
        /\ asleep' \in {asleep, present /\ ~ busy}
    BY <1>2 DEF End, histVars
  <2>2. (Starting' <=> Starting) /\ (Opening' <=> Opening) /\ SectorsLeft' = SectorsLeft
    BY <2>1 DEF Starting, Opening, SectorsLeft
  <2>3. Eventual' = Eventual  BY <2>1, <2>2, SameView
  <2>4. todo = << >> /\ todo' = << >> /\ ~ Opening  BY <2>1, AtCall
  <2>5. ~ Identifying' /\ \A t \in Commands : ~ Pending(t)' /\ ~ Sending(t)'
    BY <2>4, FromJedecs, NoneToCome, PendingIs DEF Identifying, Pending
  <2>6. Typed'
    BY <2>1, <2>4 DEF IInv, Typed, InShape
  <2>7. Stages'  BY <2>1, <2>2 DEF IInv, Stages, Idle
  <2>8. written = NoJob  BY <2>1 DEF IInv, Kept
  <2>9. Answering'
    <3>1. ~ Changing'  BY <2>1, <2>2, <2>4 DEF Changing, Idle
    <3>2. ~ (busy' /\ asleep')  BY <2>1 DEF IInv, Answering, Typed
    <3>3. ~ (written' # NoJob')  BY <2>1, <2>8 DEF NoJob, Call
    <3>4. trust' = "full" /\ busy' => Waiting'
      BY <2>1, AtRest, <2>4 DEF IInv, Answering
    <3> QED  BY <2>5, <3>1, <3>2, <3>3, <3>4 DEF Answering
  <2>10. Aimed'
    <3>1. Sectored(region)' <=> Sectored(region)  BY <2>1 DEF Sectored
    <3> QED  BY <2>1, <2>2, <2>4, <2>5, <3>1 DEF IInv, Aimed, Idle
  <2>11. Kept'  BY <2>1, <2>4, <2>8 DEF Kept, NoJob, Call, Idle
  <2>12. PresentChipIsFound' /\ WrittenVerifies'
    BY <2>1 DEF PresentChipIsFound, WrittenVerifies
  <2>13. Session!End
    BY <2>1, <2>2, <2>3, <2>4 DEF Session!End, Opening
  <2>14. SessionStep  BY <2>13 DEF SessionStep, Session!Next
  <2> QED  BY <2>6, <2>7, <2>9, <2>10, <2>11, <2>12, <2>14 DEF Holds, IInv
<1> QED  BY <1>1, <1>2

LEMMA BeginHolds ==
    ASSUME IInv, NEW total \in Totals, Begin(total)  PROVE Holds
<1>1. CASE \E status \in {"BUSY", "RANGE"} : Refuse(status)  BY <1>1, RefuseHolds DEF Refuse
<1>2. CASE ~ \E status \in {"BUSY", "RANGE"} : Refuse(status)
  <2>1. /\ UNCHANGED <<mem, wel, locked, asleep, busy, present, inProgress, totalSize,
                       region, trust, written>>
        /\ Idle /\ ~ inProgress /\ total \in 1 .. FLASH_BYTES
        /\ job' = [Call("begin") EXCEPT !.end = total]
        /\ todo' = flash_init /\ resp' = "none"
    BY <1>2 DEF Begin, chipVars, histVars
  <2>2. todo = << >> /\ Eventual = mem /\ ~ Opening /\ mem \in [Addr -> SUBSET Bits]
    BY <2>1, AtCall
  <2>3. /\ job'.kind = "begin" /\ job'.erase = 0 /\ job'.end = total /\ job' \in Jobs
        /\ job'.data = << >>
    <3>1. job' = [kind |-> "begin", erase |-> 0, end |-> total, at |-> 0, data |-> << >>]
      BY <2>1 DEF Call
    <3>2. total \in 0 .. FLASH_BYTES /\ 0 \in 0 .. FLASH_BYTES /\ 0 \in 0 .. (U32 - 1)
      BY <2>1, Geometry, DriverAssumption
    <3> QED  BY <3>1, <3>2 DEF Jobs
  <2>4. /\ Starting' /\ ~ Waiting' /\ ~ Opening'
        /\ \A t \in Commands : ~ Pending(t)' /\ ~ Sending(t)'
        /\ AfterOn(mem', todo') = mem
    BY <2>1, FromInit, FromWaiting, NoneToCome, PendingIs DEF Waiting, Pending, Opening
  <2>5. ~ Identifying'
    <3>1. Head(todo').op = "RELEASE"  BY <2>1, FromInit, Ops
    <3>2. \A k \in 1 .. 4 : Head(Jedecs(k)).op = "JEDEC"  BY FromJedecs, Ops
    <3>3. \A k \in 1 .. 4 : todo' # Jedecs(k)  BY <3>1, <3>2
    <3> QED  BY <3>3 DEF Identifying
  <2>6. Eventual' = Eventual
    <3>1. LeftIn(todo', job') = {}  BY <2>4, PendingIs DEF LeftIn
    <3>2. View(mem, {}, job') = mem  BY <2>2, <2>3, PlainView
    <3> QED  BY <2>2, <2>4, <3>1, <3>2, EventualIs
  <2>7. Typed'
    <3>1. 0 % SECTOR = 0  BY Geometry, SmallModulus
    <3>2. InShape'  BY <2>1 DEF InShape
    <3> QED  BY <2>1, <2>3, <3>1, <3>2 DEF IInv, Typed
  <2>8. Stages'  BY <2>1, <2>3 DEF Stages, Idle
  <2>9. Answering'
    <3>1. ~ Changing'  BY <2>1, <2>3, <2>4 DEF Changing
    <3>2. trust' = "full" => ~ busy'  BY <2>1, <2>2, AtRest DEF IInv, Answering
    <3> QED  BY <2>1, <2>4, <2>5, <3>1, <3>2 DEF IInv, Answering, NoJob, Call
  <2>10. Aimed'
    <3>1. Sectored(region)' <=> Sectored(region)  BY <2>1 DEF Sectored
    <3> QED  BY <2>1, <2>3, <2>4, <3>1 DEF IInv, Aimed
  <2>11. Kept'
    <3>1. Found(Eventual)' <=> Found(Eventual)  BY <2>1, <2>6 DEF Found
    <3> QED  BY <2>1, <2>3, <2>4, <3>1 DEF IInv, Kept, NoJob, Call
  <2>12. PresentChipIsFound' /\ WrittenVerifies'
    BY <2>1 DEF PresentChipIsFound, WrittenVerifies
  <2>13. SessionStep  BY <2>1, <2>2, <2>4, <2>6, SessionStutters
  <2> QED  BY <2>7, <2>8, <2>9, <2>10, <2>11, <2>12, <2>13 DEF Holds, IInv
<1> QED  BY <1>1, <1>2

LEMMA VerifyHolds ==
    ASSUME IInv, Verify  PROVE Holds
<1>1. /\ UNCHANGED <<mem, wel, locked, asleep, busy, present, todo, inProgress, totalSize,
                     region, trust, written>>
      /\ Idle /\ ~ inProgress /\ written # NoJob /\ job' = written /\ resp' = "none"
  BY DEF Verify, chipVars, histVars
<1>2. todo = << >> /\ todo' = << >> /\ Eventual = mem /\ ~ Opening /\ mem \in [Addr -> SUBSET Bits]
  BY <1>1, AtCall
<1>3. written.kind = "verify" /\ written \in Jobs /\ written.erase % SECTOR = 0
  BY <1>1 DEF IInv, Typed, Kept
<1>4. /\ ~ Starting' /\ ~ Opening' /\ SectorsLeft' = {} /\ ~ Identifying'
      /\ \A t \in Commands : ~ Pending(t)' /\ ~ Sending(t)'
      /\ AfterOn(mem', todo') = mem
  BY <1>1, <1>2, <1>3, NothingLeft, FromJedecs, NoneToCome, PendingIs
     DEF Pending, Opening, Identifying, SectorsLeft
<1>5. Eventual' = Eventual
  <2>1. LeftIn(todo', job') = {}  BY <1>4, <1>1, <1>3 DEF LeftIn, LeftOf
  <2>2. View(mem, {}, job') = mem  BY <1>1, <1>2, <1>3, PlainView
  <2> QED  BY <1>2, <1>4, <2>1, <2>2, EventualIs
<1>6. Typed'  BY <1>1, <1>2, <1>3 DEF IInv, Typed, InShape
<1>7. Stages'  BY <1>1, <1>2, <1>3, <1>4 DEF Stages, Idle
<1>8. Answering'
  <2>1. ~ Changing'  BY <1>1, <1>3, <1>4 DEF Changing
  <2>2. trust' = "full" => ~ busy'  BY <1>1, <1>2, AtRest DEF IInv, Answering
  <2> QED  BY <1>1, <1>4, <2>1, <2>2 DEF IInv, Answering, NoJob, Call
<1>9. Aimed'
  <2>1. Sectored(region)' <=> Sectored(region)  BY <1>1 DEF Sectored
  <2> QED  BY <1>1, <1>3, <1>4, <2>1 DEF IInv, Aimed
<1>10. Kept'
  <2>1. Found(Eventual)' <=> Found(Eventual)  BY <1>1, <1>5 DEF Found
  <2>2. /\ 0 \in 0 .. Len(written.data) /\ written.at = written.at + 0
        /\ Len(written.data) = Len(written.data) - 0
        /\ \A i \in 1 .. Len(written.data) : written.data[i] = written.data[0 + i]
    BY <1>3 DEF Jobs
  <2> QED  BY <1>1, <1>3, <1>4, <2>1, <2>2 DEF IInv, Kept, NoJob, Call
<1>11. PresentChipIsFound' /\ WrittenVerifies'
  BY <1>1 DEF PresentChipIsFound, WrittenVerifies
<1>12. SessionStep  BY <1>1, <1>2, <1>4, <1>5, SessionStutters
<1> QED  BY <1>6, <1>7, <1>8, <1>9, <1>10, <1>11, <1>12 DEF Holds, IInv

LEMMA Operands ==
    /\ \A a \in Offsets : a \in 0 .. (U32 - 1) /\ a \in Nat
    /\ \A d \in Datas : /\ d \in Seq(SUBSET Bits) /\ Len(d) \in Nat /\ DOMAIN d = 1 .. Len(d)
                        /\ \A i \in 1 .. Len(d) : d[i] \subseteq Bits
                        /\ Len(d) <= U32 - FLASH_BYTES
    /\ U32 \in Nat \ {0} /\ FLASH_BYTES \in Nat \ {0} /\ FLASH_BYTES < U32
<1>1. /\ U32 \in Nat /\ U32 > FLASH_BYTES /\ Offsets \subseteq 0 .. (U32 - 1)
      /\ \A d \in Datas : d \in Seq(SUBSET Bits) /\ Len(d) <= U32 - FLASH_BYTES
  BY DriverAssumption
<1>2. FLASH_BYTES \in Nat \ {0}  BY Geometry
<1>3. \A d \in Seq(SUBSET Bits) : /\ Len(d) \in Nat /\ DOMAIN d = 1 .. Len(d)
                                  /\ \A i \in 1 .. Len(d) : d[i] \subseteq Bits
  OBVIOUS
<1> QED  BY <1>1, <1>2, <1>3

LEMMA DataHolds ==
    ASSUME IInv, NEW offset \in Offsets, NEW d \in Datas, Data(offset, d)  PROVE Holds
<1>1. CASE \E status \in {"NOT_BEGUN", "RANGE"} : Refuse(status)  BY <1>1, RefuseHolds DEF Refuse
<1>2. CASE ~ \E status \in {"NOT_BEGUN", "RANGE"} : Refuse(status)
  <2>1. /\ UNCHANGED <<mem, wel, locked, asleep, busy, present, todo, inProgress, totalSize,
                       region, written>>
        /\ Idle /\ inProgress /\ (offset + Len(d)) % U32 <= totalSize
        /\ job' = [Call("data") EXCEPT !.at = offset, !.data = d]
        /\ trust' = IF offset + Len(d) >= U32 THEN "none" ELSE trust
        /\ resp' = "none"
    BY <1>2 DEF Data, InRange, chipVars
  <2>2. /\ todo = << >> /\ todo' = << >> /\ Eventual = mem /\ ~ Opening
        /\ mem \in [Addr -> SUBSET Bits]
    BY <2>1, AtCall
  <2>3. /\ offset \in 0 .. (U32 - 1) /\ d \in Seq(SUBSET Bits) /\ Len(d) \in Nat
        /\ DOMAIN d = 1 .. Len(d) /\ Len(d) <= U32 - FLASH_BYTES
        /\ U32 \in Nat \ {0} /\ FLASH_BYTES \in Nat \ {0} /\ FLASH_BYTES < U32
    BY Operands
  <2>4. job' = [kind |-> "data", erase |-> 0, end |-> 0, at |-> offset, data |-> d]
    BY <2>1 DEF Call
  <2>5. job' \in Jobs /\ job'.kind = "data" /\ job'.erase = 0 /\ job'.at = offset /\ job'.data = d
    <3>1. 0 \in 0 .. FLASH_BYTES  BY <2>3
    <3> QED  BY <2>3, <2>4, <3>1 DEF Jobs
  <2>6. /\ ~ Starting' /\ ~ Opening' /\ SectorsLeft' = {} /\ ~ Identifying'
        /\ \A t \in Commands : ~ Pending(t)' /\ ~ Sending(t)'
        /\ AfterOn(mem', todo') = mem
    BY <2>1, <2>2, <2>5, NothingLeft, FromJedecs, NoneToCome, PendingIs
       DEF Pending, Opening, Identifying, SectorsLeft
  <2>7. Eventual' = [x \in Addr |-> IF x - offset + 1 \in DOMAIN d
                                    THEN mem[x] \cap d[x - offset + 1] ELSE mem[x]]
    <3>1. LeftIn(todo', job') = {}  BY <2>5, <2>6 DEF LeftIn, LeftOf
    <3> QED  BY <2>5, <2>6, <3>1, EventualIs DEF View
  <2>8. trust' # "none" => offset + Len(d) <= totalSize /\ trust' = trust
    <3>1. PICK s : s = offset + Len(d)  OBVIOUS
    <3>2. s \in Int /\ 0 <= s  BY <3>1, <2>3
    <3>3. s < U32 => s % U32 = s  BY <3>2, <2>3, SmallModulus
    <3>4. CASE s >= U32  BY <3>1, <3>4, <2>1
    <3>5. CASE s < U32
      <4>1. ~ (s >= U32)  BY <3>2, <3>5, <2>3
      <4> QED  BY <4>1, <3>1, <3>3, <3>5, <2>1
    <3> QED  BY <3>2, <3>4, <3>5, <2>3
  <2>9. Typed'
    <3>1. 0 % SECTOR = 0  BY Geometry, SmallModulus
    <3>2. InShape'  BY <2>2 DEF InShape
    <3> QED  BY <2>1, <2>5, <3>1, <3>2 DEF IInv, Typed
  <2>10. Stages'  BY <2>1, <2>2, <2>5, <2>6 DEF Stages, Idle
  <2>11. Answering'
    <3>1. trust' = "full" => trust = "full" /\ ~ busy'
      BY <2>1, <2>2, AtRest DEF IInv, Answering
    <3>2. Changing  BY <2>1 DEF Changing
    <3>3. ~ Pending(StatusStep)  BY <2>2, AtRest, Ops
    <3> QED  BY <2>1, <2>6, <3>1, <3>2, <3>3 DEF IInv, Answering
  <2>12. Aimed'
    <3>1. Sectored(region)' <=> Sectored(region)  BY <2>1 DEF Sectored
    <3>2. Below(totalSize)' = Below(totalSize)  BY <2>1 DEF Below
    <3> QED  BY <2>1, <2>5, <2>6, <2>8, <3>1, <3>2 DEF IInv, Aimed
  <2>13. Kept'
    <3>1. written = NoJob  BY <2>1 DEF IInv, Kept
    <3> QED  BY <2>1, <2>5, <3>1 DEF Kept, NoJob, Call
  <2>14. PresentChipIsFound' /\ WrittenVerifies'
    BY <2>1 DEF PresentChipIsFound, WrittenVerifies
  <2>15. SessionStep
    <3>1. CASE offset + Len(d) < U32
      <4>1. trust' = trust /\ offset + Len(d) <= totalSize
        <5>1. ~ (offset + Len(d) >= U32)  BY <2>3, <3>1
        <5>2. (offset + Len(d)) % U32 = offset + Len(d)
          <6>1. PICK s : s = offset + Len(d)  OBVIOUS
          <6>2. s \in Int /\ 0 <= s /\ s < U32  BY <6>1, <2>3, <3>1
          <6> QED  BY <6>1, <6>2, <2>3, SmallModulus
        <5> QED  BY <5>1, <5>2, <2>1
      <4>2. Eventual' = Session!Burnt(Eventual, offset, d)
        BY <2>2, <2>7 DEF Session!Burnt, Session!Addr, Addr
      <4>3. Session!Data(offset, d)
        BY <2>1, <2>2, <2>6, <4>1, <4>2 DEF Session!Data
      <4>4. \E a \in Offsets, e \in Datas : Session!Data(a, e) \/ Session!Write(a, e)
        BY <4>3
      <4> QED  BY <4>4 DEF SessionStep, Session!Next
    <3>2. CASE ~ (offset + Len(d) < U32)
      <4>1. trust' = "none"
        <5>1. PICK s, u : s = offset + Len(d) /\ u = U32  OBVIOUS
        <5>2. s \in Int /\ u \in Int /\ ~ (s < u)  BY <5>1, <2>3, <3>2
        <5>3. s >= u  BY <5>2
        <5> QED  BY <5>1, <5>3, <2>1
      <4>2. \A x \in Addr : ~ (x - offset + 1 \in DOMAIN d)
        BY <2>3, <3>2 DEF Addr
      <4>3. Eventual' = [x \in Addr |-> mem[x]]  BY <2>7, <4>2
      <4>4. Eventual' = Eventual  BY <2>2, <4>3
      <4> QED  BY <2>1, <2>2, <2>6, <4>1, <4>4, SessionDistrusts
    <3> QED  BY <3>1, <3>2
  <2> QED  BY <2>9, <2>10, <2>11, <2>12, <2>13, <2>14, <2>15 DEF Holds, IInv
<1> QED  BY <1>1, <1>2

LEMMA WriteHolds ==
    ASSUME IInv, NEW at \in Offsets, NEW d \in Datas, Write(at, d)  PROVE Holds
<1>1. PICK e, lo, hi : e = at + Len(d) /\ lo = RoundDown(at) /\ hi = RoundUp(e)  OBVIOUS
<1>2. /\ UNCHANGED <<mem, wel, locked, asleep, busy, present, inProgress, totalSize>>
      /\ Idle /\ ~ inProgress /\ Listening /\ e <= FLASH_BYTES
      /\ job' = [Call("write") EXCEPT !.erase = lo, !.end = e, !.at = at, !.data = d]
      /\ todo' = <<EnableStep, StatusStep, WaitStep>>
      /\ region' = {x \in Addr : x >= lo /\ x < hi}
      /\ trust' = IF at % PAGE = 0 THEN "full" ELSE "region"
      /\ written' = [Call("verify") EXCEPT !.at = at, !.data = d]
      /\ resp' = "none"
  BY <1>1, Protecting DEF Write, DriverFree, chipVars
<1>3. /\ Eventual = mem /\ ~ Opening /\ mem \in [Addr -> SUBSET Bits]
  BY <1>2, AtCall
<1>4. /\ at \in 0 .. (U32 - 1) /\ at \in Nat /\ d \in Seq(SUBSET Bits) /\ Len(d) \in Nat
      /\ DOMAIN d = 1 .. Len(d) /\ \A i \in 1 .. Len(d) : d[i] \subseteq Bits
      /\ FLASH_BYTES \in Nat \ {0} /\ FLASH_BYTES < U32 /\ U32 \in Nat \ {0}
  BY Operands
<1>5. e \in 0 .. FLASH_BYTES /\ at <= e /\ at <= FLASH_BYTES  BY <1>1, <1>2, <1>4
<1>6. lo \in 0 .. at /\ lo % SECTOR = 0 /\ hi \in Int /\ e <= hi
  <2>1. lo \in 0 .. at /\ lo % SECTOR = 0  BY <1>1, <1>4, RoundDownIs
  <2>2. e \in Int  BY <1>5
  <2>3. hi \in Int /\ e <= hi  BY <1>1, <2>2, RoundUpIs
  <2> QED  BY <2>1, <2>3
<1>7. /\ job'.kind = "write" /\ job'.erase = lo /\ job'.end = e /\ job'.at = at
      /\ job'.data = d
      /\ written'.kind = "verify" /\ written'.erase = 0 /\ written'.at = at
      /\ written'.data = d
      /\ job' \in Jobs /\ written' \in Jobs
  <2>1. /\ job' = [kind |-> "write", erase |-> lo, end |-> e, at |-> at, data |-> d]
        /\ written' = [kind |-> "verify", erase |-> 0, end |-> 0, at |-> at, data |-> d]
    BY <1>2 DEF Call
  <2>2. 0 \in 0 .. FLASH_BYTES /\ lo \in 0 .. FLASH_BYTES  BY <1>4, <1>5, <1>6
  <2> QED  BY <1>4, <1>5, <2>1, <2>2 DEF Jobs
<1>9. /\ ~ Starting' /\ todo' # << >> /\ todo' # <<WaitStep>>
      /\ \A t \in Commands : Pending(t)' => t = StatusStep
      /\ \A t \in Commands : ~ Sending(t)'
      /\ Pending(StatusStep)'
      /\ \A m : AfterOn(m, todo') = m
  <2>1. PendingIn(todo', StatusStep) /\ StatusStep \in Commands  BY <1>2, Ops DEF PendingIn
  <2>2. \A m : Struck(m, StatusStep) = m  BY Ops DEF Modifying
  <2>3. \A t \in Commands : todo' # <<t, WaitStep>>  BY <2>1, <1>2, OneToCome
  <2> QED  BY <2>1, <2>2, <2>3, OneToCome, PendingIs DEF Sending
<1>10. ~ Opening' /\ ~ Identifying'
  BY <1>7, <1>9, FromJedecs, PendingIs DEF Opening, Identifying
<1>11. SectorsLeft' = region' /\ LeftIn(todo', job') = region'
  <2>1. RoundUp(job'.end) = hi  BY <1>1, <1>7
  <2>2. SectorsLeft' = region'
    BY <1>2, <1>7, <2>1 DEF SectorsLeft
  <2>3. LeftOf(job') = region'  BY <1>2, <1>7, <2>1 DEF LeftOf
  <2> QED  BY <2>2, <2>3, <1>9, PendingIs DEF LeftIn
<1>12. Eventual' = [x \in Addr |->
           LET c == IF x \in region' THEN Bits ELSE mem[x]
           IN  IF x - at + 1 \in DOMAIN d THEN c \cap d[x - at + 1] ELSE c]
  <2>1. AfterOn(mem', todo') = mem  BY <1>2, <1>9
  <2> QED  BY <1>7, <1>11, <2>1, EventualIs DEF View
<1>13. \A x \in Addr : x >= at /\ x < e => x \in region'
  <2>1. \A x \in Addr : x \in Int  BY <1>4 DEF Addr
  <2> QED  BY <1>2, <1>4, <1>5, <1>6, <2>1
<1>14. Typed'
  <2>1. 0 % SECTOR = 0  BY Geometry, SmallModulus
  <2>2. InShape'
    BY <1>2, Ops DEF InShape, Pending, Enabling
  <2>3. trust' \in {"full", "region", "none"} /\ region' \subseteq Addr  BY <1>2
  <2>4. /\ mem' \in [Addr -> SUBSET Bits] /\ wel' \in BOOLEAN /\ locked' \in BOOLEAN
        /\ asleep' \in BOOLEAN /\ busy' \in BOOLEAN /\ present' \in BOOLEAN
        /\ inProgress' \in BOOLEAN /\ totalSize' \in 0 .. FLASH_BYTES
    BY <1>2 DEF IInv, Typed
  <2>5. job'.erase % SECTOR = 0 /\ written'.erase % SECTOR = 0  BY <1>6, <1>7, <2>1
  <2> QED  BY <1>7, <2>2, <2>3, <2>4, <2>5 DEF Typed
<1>23. inProgress' = inProgress /\ ~ inProgress /\ resp' = "none"  BY <1>2
<1>15. Stages'  BY <1>23, <1>7, <1>9 DEF Stages, Idle
<1>16. Answering'  BY <1>2, <1>9, <1>10 DEF Answering, Listening
<1>17. Aimed'
  <2>1. Sectored(region)'
    <3>1. Sectored({x \in Addr : x >= RoundDown(at) /\ x < RoundUp(e)})
      <4>1. e \in Int  BY <1>5
      <4> QED  BY <1>4, <4>1, SectoredRange
    <3> QED  BY <3>1, <1>1, <1>2 DEF Sectored
  <2>2. Touched(StatusStep)' = {}  BY Ops DEF Touched
  <2>3. job'.at + Len(job'.data) = job'.end  BY <1>1, <1>7
  <2>4. trust' = "full" => job'.at % PAGE = 0  BY <1>2, <1>7
  <2>5. \A t \in Commands : Pending(t)' => Touched(t)' \subseteq region'  BY <1>9, <2>2
  <2>6. \A x \in Addr : x >= job'.at /\ x < job'.end => x \in region'  BY <1>7, <1>13
  <2> QED  BY <1>23, <1>7, <1>9, <1>10, <1>11, <2>1, <2>3, <2>4, <2>5, <2>6 DEF Aimed
<1>18. Kept'
  <2>1. Found(Eventual)'
    <3>1. ASSUME NEW i \in 1 .. Len(d)  PROVE Eventual'[at + i - 1] = d[i]
      <4>1. PICK x : x = at + i - 1  OBVIOUS
      <4>2. x \in Addr /\ x >= at /\ x < e /\ x - at + 1 = i
        BY <4>1, <1>1, <1>4, <1>5 DEF Addr
      <4>3. x \in region'  BY <4>2, <1>13
      <4>4. Eventual'[x] = Bits \cap d[i]  BY <4>2, <4>3, <1>4, <1>12
      <4> QED  BY <4>1, <4>4, <1>4
    <3> QED  BY <3>1, <1>7 DEF Found
  <2>2. written'.at + Len(written'.data) <= FLASH_BYTES  BY <1>1, <1>2, <1>7
  <2> QED  BY <1>23, <1>7, <1>10, <2>1, <2>2 DEF Kept
<1>19. PresentChipIsFound' /\ WrittenVerifies'
  BY <1>2 DEF PresentChipIsFound, WrittenVerifies
<1>20. Session!Write(at, d)
  <2>1. region' = Session!Units(SECTOR, at, at + Len(d))
    <3>1. e \in Int  BY <1>5
    <3> QED  BY <1>1, <1>2, <1>4, <3>1, SectorsAreUnits
  <2>2. Eventual' = Session!Burnt(Session!Wiped(Eventual, region'), at, d)
    <3>1. PICK c : c = Session!Wiped(Eventual, region')  OBVIOUS
    <3>2. c = [x \in Addr |-> IF x \in region' THEN Bits ELSE mem[x]]
      BY <3>1, <1>3 DEF Session!Wiped, Session!Addr, Addr
    <3>3. \A x \in Addr : Eventual'[x] = IF x - at + 1 \in DOMAIN d THEN c[x] \cap d[x - at + 1]
                                         ELSE c[x]
      BY <3>2, <1>12
    <3>4. Eventual' = [x \in Addr |-> Eventual'[x]]  BY <1>12
    <3>5. Session!Burnt(c, at, d)
            = [x \in Addr |-> IF x - at + 1 \in DOMAIN d THEN c[x] \cap d[x - at + 1] ELSE c[x]]
      BY DEF Session!Burnt, Session!Addr, Addr
    <3> QED  BY <3>1, <3>3, <3>4, <3>5
  <2> QED  BY <1>2, <1>3, <1>10, <2>1, <2>2 DEF Session!Write
<1>21. \E a \in Offsets, b \in Datas : Session!Data(a, b) \/ Session!Write(a, b)  BY <1>20
<1>22. SessionStep  BY <1>21 DEF SessionStep, Session!Next
<1> QED  BY <1>14, <1>15, <1>16, <1>17, <1>18, <1>19, <1>22 DEF Holds, IInv

LEMMA EraseBlockHolds ==
    ASSUME IInv, NEW at \in Offsets, EraseBlock(at)  PROVE Holds
<1>1. PICK t : t = [op |-> "ERASE_BLOCK", at |-> at, data |-> << >>]  OBVIOUS
<1>2. /\ UNCHANGED <<mem, wel, locked, asleep, busy, present, inProgress, totalSize>>
      /\ Idle /\ ~ inProgress /\ Listening /\ ~ locked /\ at < FLASH_BYTES
      /\ job' = Call("block") /\ todo' = <<EnableStep, t, WaitStep>>
      /\ region' = Unit(BLOCK, at) /\ trust' = "full" /\ written' = NoJob
      /\ resp' = "none"
  BY <1>1, Protecting DEF EraseBlock, DriverFree, chipVars
<1>3. /\ Eventual = mem /\ ~ Opening /\ mem \in [Addr -> SUBSET Bits]
  BY <1>2, AtCall
<1>4. at \in Addr /\ at \in Int  BY <1>2, Operands DEF Addr
<1>5. t \in Commands /\ t.op = "ERASE_BLOCK" /\ t.at = at
  <2>1. << >> \in Seq(SUBSET Bits)  OBVIOUS
  <2> QED  BY <2>1, <1>1, <1>4 DEF Commands, Modifying
<1>6. job' = [kind |-> "block", erase |-> 0, end |-> 0, at |-> 0, data |-> << >>]
  BY <1>2 DEF Call
<1>7. job' \in Jobs
  <2>1. 0 \in 0 .. FLASH_BYTES /\ 0 \in 0 .. (U32 - 1)  BY Operands
  <2> QED  BY <1>6, <2>1 DEF Jobs
<1>8. /\ ~ Starting' /\ todo' # << >> /\ todo' # <<WaitStep>>
      /\ \A u \in Commands : Pending(u)' => u = t
      /\ \A u \in Commands : ~ Sending(u)'
      /\ \A m : AfterOn(m, todo') = Struck(m, t)
  <2>1. PendingIn(todo', t)  BY <1>2 DEF PendingIn
  <2>2. \A u \in Commands : todo' # <<u, WaitStep>>  BY <2>1, <1>2, <1>5, OneToCome
  <2> QED  BY <2>1, <2>2, <1>5, OneToCome, PendingIs DEF Sending
<1>9. ~ Opening' /\ ~ Identifying' /\ SectorsLeft' = {}
  BY <1>6, <1>8, FromJedecs, PendingIs DEF Opening, Identifying, SectorsLeft
<1>10. Typed'
  <2>1. 0 % SECTOR = 0  BY Geometry, SmallModulus
  <2>2. InShape'  BY <1>2, <1>5 DEF InShape, Pending, Enabling
  <2>3. region' \subseteq Addr  BY <1>2 DEF Unit
  <2> QED  BY <1>2, <1>6, <1>7, <2>1, <2>2, <2>3, NoJobIs DEF IInv, Typed
<1>11. Stages'  BY <1>2, <1>6, <1>8 DEF Stages, Idle
<1>12. Answering'  BY <1>2, <1>8, <1>9 DEF Answering, Listening
<1>13. Aimed'
  <2>1. Sectored(region)'
    <3>1. Sectored(Unit(BLOCK, at))  BY <1>4, SectoredBlock
    <3> QED  BY <3>1, <1>2 DEF Sectored, Unit
  <2>2. Touched(t)' \subseteq region'  BY <1>2, <1>5 DEF Touched, Unit
  <2> QED  BY <1>2, <1>6, <1>8, <1>9, <2>1, <2>2 DEF Aimed
<1>14. Kept'  BY <1>2, <1>6, <1>9 DEF Kept, NoJob, Call
<1>15. PresentChipIsFound' /\ WrittenVerifies'
  BY <1>2 DEF PresentChipIsFound, WrittenVerifies
<1>16. Eventual' = [x \in Addr |-> IF x \in region' THEN Bits ELSE mem[x]]
  <2>1. LeftIn(todo', job') = {}  BY <1>8, <1>6 DEF LeftIn, LeftOf
  <2>2. AfterOn(mem', todo') = [x \in Addr |-> IF x \in region' THEN Bits ELSE mem[x]]
    BY <1>2, <1>5, <1>8 DEF Struck
  <2>3. View(AfterOn(mem', todo'), {}, job') = [x \in Addr |-> AfterOn(mem', todo')[x]]
    BY <1>6 DEF View
  <2> QED  BY <2>1, <2>2, <2>3, EventualIs
<1>17. Session!EraseBlock(at)
  <2>1. region' = Session!Units(BLOCK, at, at + 1)  BY <1>2, <1>4, BlockIsUnits
  <2>2. Eventual' = Session!Wiped(Eventual, region')
    BY <1>3, <1>16 DEF Session!Wiped, Session!Addr, Addr
  <2> QED  BY <1>2, <1>3, <1>9, <2>1, <2>2 DEF Session!EraseBlock
<1>18. \E a \in Offsets : Session!EraseBlock(a)  BY <1>17
<1>19. SessionStep  BY <1>18 DEF SessionStep, Session!Next
<1> QED  BY <1>10, <1>11, <1>12, <1>13, <1>14, <1>15, <1>19 DEF Holds, IInv

--------------------------------------------------------------------------------
(* The loops. *)
LEMMA ViewAgrees ==
    ASSUME NEW a, NEW b, NEW L, NEW M, NEW j, NEW k,
           k.kind = j.kind, k.at = j.at, k.data = j.data,
           \A x \in Addr : (IF x \in L THEN Bits ELSE a[x]) = (IF x \in M THEN Bits ELSE b[x])
    PROVE  View(a, L, j) = View(b, M, k)
BY DEF View

LEMMA NextSectorHolds ==
    ASSUME IInv, NextSector  PROVE Holds
<1>1. PICK e, hi, t : /\ e = job.erase /\ hi = RoundUp(job.end)
                      /\ t = [op |-> "ERASE_SECTOR", at |-> job.erase, data |-> << >>]
  OBVIOUS
<1>2. /\ UNCHANGED <<mem, wel, locked, asleep, busy, present, inProgress, totalSize, resp,
                     region, trust, written>>
      /\ todo = << >> /\ SectorsLeft # {}
      /\ todo' = <<EnableStep, t, WaitStep>>
      /\ job' = [job EXCEPT !.erase = @ + SECTOR]
  BY <1>1, Protecting DEF NextSector, Erasing, chipVars, histVars
<1>3. /\ job \in Jobs /\ e \in 0 .. FLASH_BYTES /\ e % SECTOR = 0
      /\ job.end \in 0 .. FLASH_BYTES /\ SECTOR \in Nat \ {0}
      /\ mem \in [Addr -> SUBSET Bits] /\ region \subseteq Addr
  BY <1>1, Geometry DEF IInv, Typed, Jobs
<1>4. job.kind \in {"begin", "write"} /\ SectorsLeft = {x \in Addr : x >= e /\ x < hi}
  BY <1>1, <1>2 DEF SectorsLeft
<1>5. hi \in Int /\ hi % SECTOR = 0 /\ hi <= FLASH_BYTES
  <2>1. job.end \in Int /\ job.end <= FLASH_BYTES  BY <1>3
  <2> QED  BY <1>1, <2>1, RoundUpIs
<1>6. e \in Addr /\ e + SECTOR <= hi /\ (e + SECTOR) % SECTOR = 0
  <2>1. PICK x \in Addr : x >= e /\ x < hi  BY <1>2, <1>4
  <2>2. x \in Int /\ e \in Int  BY <1>3, Geometry DEF Addr
  <2>3. e < hi  BY <2>1, <2>2, <1>5
  <2>4. e + SECTOR <= hi /\ (e + SECTOR) % SECTOR = 0
    <3>1. (e + SECTOR) % SECTOR = 0 /\ \A m \in Int : m % SECTOR = 0 /\ e < m => e + SECTOR <= m
      BY <2>2, <1>3, SectorStep
    <3> QED  BY <3>1, <2>3, <1>5
  <2>5. e \in Addr
    <3>1. e \in Int /\ 0 <= e /\ hi \in Int /\ e < FLASH_BYTES /\ FLASH_BYTES \in Int
      BY <2>2, <2>3, <1>3, <1>5, Geometry
    <3> QED  BY <3>1 DEF Addr
  <2> QED  BY <2>4, <2>5
<1>7. /\ job' \in Jobs /\ job'.erase = e + SECTOR /\ job'.kind = job.kind /\ job'.end = job.end
      /\ job'.at = job.at /\ job'.data = job.data
  <2>1. e + SECTOR \in 0 .. FLASH_BYTES
    <3>1. PICK n, f, y : n = SECTOR /\ f = FLASH_BYTES /\ y = e + n  OBVIOUS
    <3>2. n \in Nat /\ f \in Nat /\ e \in Nat  BY <3>1, <1>3, Geometry
    <3>3. hi \in Int /\ hi <= f /\ y <= hi  BY <3>1, <1>5, <1>6
    <3>4. y \in 0 .. f  BY <3>1, <3>2, <3>3
    <3> QED  BY <3>1, <3>4
  <2> QED  BY <1>1, <1>2, <1>3, <2>1 DEF Jobs
<1>8. t \in Commands /\ t.op = "ERASE_SECTOR" /\ t.at = e
  <2>1. << >> \in Seq(SUBSET Bits) /\ e \in Int  BY <1>3
  <2> QED  BY <1>1, <2>1 DEF Commands, Modifying
<1>9. /\ ~ Starting' /\ todo' # << >> /\ todo' # <<WaitStep>>
      /\ \A u \in Commands : (Pending(u)' => u = t) /\ ~ Sending(u)'
      /\ \A m : AfterOn(m, todo') = Struck(m, t)
  <2>1. PendingIn(todo', t)  BY <1>2 DEF PendingIn
  <2>2. \A u \in Commands : todo' # <<u, WaitStep>>  BY <2>1, <1>2, <1>8, OneToCome
  <2> QED  BY <2>1, <2>2, <1>8, OneToCome, PendingIs DEF Sending
<1>10. ~ Starting /\ ~ Waiting /\ ~ Pending(StatusStep) /\ \A m : AfterOn(m, todo) = m
  BY <1>2, AtRest, Ops
<1>11. ~ Identifying'  BY <1>9, FromJedecs, PendingIs DEF Identifying
<1>12. (Opening' <=> Opening) /\ (Changing' <=> Changing) /\ Changing
  BY <1>2, <1>4, <1>7, <1>9, <1>10 DEF Opening, Changing
<1>13. SectorsLeft' = {x \in Addr : x >= e + SECTOR /\ x < hi}
  <2>1. RoundUp(job'.end) = hi  BY <1>1, <1>7
  <2> QED  BY <1>4, <1>7, <2>1 DEF SectorsLeft
<1>14. /\ LeftIn(todo, job) = SectorsLeft /\ LeftIn(todo', job') = SectorsLeft'
  BY <1>9, <1>10, PendingIs DEF LeftIn, LeftOf, SectorsLeft
<1>15. Eventual' = Eventual
  <2>1. Struck(mem, t) = [x \in Addr |-> IF x \in Unit(SECTOR, e) THEN Bits ELSE mem[x]]
    BY <1>8 DEF Struck
  <2>2. Unit(SECTOR, e) = {x \in Addr : x >= e /\ x < e + SECTOR}
    BY <1>3, <1>6, SectorUnit
  <2>3. ASSUME NEW x \in Addr
        PROVE  (IF x \in SectorsLeft' THEN Bits ELSE Struck(mem, t)[x])
                  = (IF x \in SectorsLeft THEN Bits ELSE mem[x])
    <3>1. x \in Int  BY Geometry DEF Addr
    <3>2. x \in SectorsLeft <=> x \in SectorsLeft' \/ x \in Unit(SECTOR, e)
      BY <3>1, <2>2, <1>3, <1>4, <1>5, <1>6, <1>13
    <3>3. Struck(mem, t)[x] = IF x \in Unit(SECTOR, e) THEN Bits ELSE mem[x]  BY <2>1
    <3> QED  BY <3>2, <3>3
  <2>4. View(Struck(mem, t), SectorsLeft', job') = View(mem, SectorsLeft, job)
    BY <2>3, <1>7, ViewAgrees
  <2> QED  BY <2>4, <1>2, <1>9, <1>10, <1>14, EventualIs
<1>16. Typed'
  <2>1. InShape'  BY <1>2, <1>8 DEF InShape, Pending, Enabling
  <2> QED  BY <1>2, <1>6, <1>7, <2>1 DEF IInv, Typed
<1>17. Stages'
  BY <1>2, <1>4, <1>7, <1>9 DEF IInv, Stages, Idle
<1>18. Answering'
  <2>1. trust = "full" => ~ busy /\ present /\ ~ asleep /\ ~ locked
    BY <1>10, <1>12 DEF IInv, Answering
  <2> QED  BY <2>1, <1>2, <1>9, <1>11 DEF IInv, Answering
<1>19. Aimed'
  <2>1. (Sectored(region)' <=> Sectored(region)) /\ Below(totalSize)' = Below(totalSize)
        /\ Below(job.end)' = Below(job.end)
    BY <1>2, <1>7 DEF Sectored, Below
  <2>2. SectorsLeft \subseteq region  BY <1>10 DEF IInv, Aimed
  <2>3. SectorsLeft' \subseteq region'
    <3>1. \A x \in Addr : x \in Int  BY Geometry DEF Addr
    <3>2. \A x \in Addr : x >= e + SECTOR => x >= e  BY <3>1, <1>3
    <3> QED  BY <3>2, <2>2, <1>2, <1>4, <1>13
  <2>4. Touched(t)' \subseteq region'
    <3>1. e \in region
      <4>1. e < hi  BY <1>3, <1>5, <1>6
      <4> QED  BY <4>1, <1>4, <1>6, <2>2, <1>3
    <3>2. Unit(SECTOR, e) \subseteq region
      <4>1. Sectored(region)  BY DEF IInv, Aimed
      <4> QED  BY <3>1, <4>1, <1>3, UnitInRegion
    <3> QED  BY <3>2, <1>2, <1>8 DEF Touched, Unit
  <2> QED  BY <1>2, <1>7, <1>9, <1>12, <2>1, <2>3, <2>4 DEF IInv, Aimed
<1>20. Kept'
  <2>1. Found(Eventual)' <=> Found(Eventual)  BY <1>2, <1>15 DEF Found
  <2> QED  BY <1>2, <1>4, <1>7, <1>12, <2>1 DEF IInv, Kept, NoJob, Call
<1>21. PresentChipIsFound' /\ WrittenVerifies'
  BY <1>2 DEF IInv, PresentChipIsFound, WrittenVerifies
<1>22. SessionStep  BY <1>2, <1>7, <1>12, <1>15, SessionStutters
<1> QED  BY <1>16, <1>17, <1>18, <1>19, <1>20, <1>21, <1>22 DEF Holds, IInv

LEMMA ReturnsHolds ==
    ASSUME IInv, Returns  PROVE Holds
<1>1. /\ UNCHANGED <<mem, wel, locked, asleep, busy, present, todo, region, trust, written>>
      /\ todo = << >> /\ ~ Idle /\ SectorsLeft = {}
      /\ job.kind \in {"data", "write"} => job.data = << >>
      /\ inProgress' = (inProgress \/ job.kind = "begin")
      /\ totalSize' = IF job.kind = "begin" THEN job.end ELSE totalSize
      /\ resp' = "OK" /\ job' = NoJob
  BY DEF Returns, Erasing, Programming, chipVars, histVars
<1>2. /\ ~ Starting /\ ~ Waiting /\ ~ Pending(StatusStep) /\ Eventual = mem
      /\ mem \in [Addr -> SUBSET Bits]
  BY <1>1, AtRest, Ops DEF IInv, Typed
<1>3. /\ ~ Starting' /\ ~ Opening' /\ SectorsLeft' = {} /\ ~ Identifying'
      /\ \A t \in Commands : ~ Pending(t)' /\ ~ Sending(t)'
      /\ AfterOn(mem', todo') = mem
  BY <1>1, NoJobIs, NothingLeft, FromJedecs, NoneToCome, PendingIs
     DEF Pending, Opening, Identifying, SectorsLeft
<1>4. (job.kind = "begin" <=> Opening) /\ (inProgress' <=> inProgress \/ Opening)
  BY <1>1, <1>2 DEF Opening
<1>5. job \in Jobs /\ job.end \in 0 .. FLASH_BYTES /\ inProgress \in BOOLEAN
  BY DEF IInv, Typed, Jobs
<1>6. Eventual' = Eventual
  <2>1. LeftIn(todo', job') = {}  BY <1>3, <1>1, NoJobIs DEF LeftIn, LeftOf
  <2>2. View(mem, {}, NoJob) = mem  BY <1>2, NoJobIs, PlainView
  <2> QED  BY <1>1, <1>2, <1>3, <2>1, <2>2, EventualIs
<1>7. Typed'
  <2>1. 0 % SECTOR = 0  BY Geometry, SmallModulus
  <2>2. InShape'  BY <1>1 DEF InShape
  <2>3. totalSize' \in 0 .. FLASH_BYTES /\ inProgress' \in BOOLEAN
    BY <1>1, <1>5 DEF IInv, Typed
  <2> QED  BY <1>1, <2>1, <2>2, <2>3, NoJobIs DEF IInv, Typed
<1>8. Stages'  BY <1>1, <1>3, NoJobIs DEF Stages, Idle
<1>9. Answering'
  <2>1. Changing' => Changing  BY <1>1, <1>3, <1>4, NoJobIs DEF Changing
  <2> QED  BY <2>1, <1>1, <1>2, <1>3 DEF IInv, Answering, NoJob, Call
<1>10. Aimed'
  <2>1. Sectored(region)' <=> Sectored(region)  BY <1>1 DEF Sectored
  <2>2. inProgress' => region' = Below(totalSize)'
    <3>1. CASE job.kind = "begin"
      <4>1. Below(totalSize)' = Below(job.end)  BY <1>1, <3>1 DEF Below
      <4> QED  BY <4>1, <3>1, <1>1, <1>4 DEF IInv, Aimed
    <3>2. CASE job.kind # "begin"
      <4>1. Below(totalSize)' = Below(totalSize)  BY <1>1, <3>2 DEF Below
      <4> QED  BY <4>1, <3>2, <1>1 DEF IInv, Aimed
    <3> QED  BY <3>1, <3>2
  <2> QED  BY <1>1, <1>3, <2>1, <2>2, NoJobIs DEF IInv, Aimed
<1>11. Kept'
  <2>1. Found(Eventual)' <=> Found(Eventual)  BY <1>1, <1>6 DEF Found
  <2> QED  BY <1>1, <1>3, <1>4, <2>1, NoJobIs DEF IInv, Kept, NoJob, Call
<1>12. PresentChipIsFound' /\ WrittenVerifies'
  BY <1>1 DEF PresentChipIsFound, WrittenVerifies
<1>13. SessionStep
  <2>1. (inProgress' \/ Opening') = (inProgress \/ Opening)
    BY <1>3, <1>4, <1>5 DEF Opening
  <2>2. (IF Opening' THEN job'.end ELSE totalSize') = (IF Opening THEN job.end ELSE totalSize)
    BY <1>1, <1>3, <1>4
  <2> QED  BY <1>1, <1>6, <2>1, <2>2 DEF SessionStep, Session!svars
<1> QED  BY <1>7, <1>8, <1>9, <1>10, <1>11, <1>12, <1>13 DEF Holds, IInv

(* A chunk is cut from the front of the data, at a page's end or its size. *)
LEMMA ChunkIs ==
    ASSUME IInv, job.data # << >>
    PROVE  /\ ChunkLen \in 1 .. Len(job.data) /\ ChunkLen <= PAGE
           /\ job.kind = "data" => (job.at % PAGE) + ChunkLen <= PAGE
           /\ job.kind # "data" /\ ChunkLen < Len(job.data) => ChunkLen = PAGE
<1>1. PICK n, a, l, r : n = PAGE /\ a = job.at /\ l = Len(job.data) /\ r = a % n  OBVIOUS
<1>2. job.data \in Seq(SUBSET Bits) /\ job.at \in 0 .. (U32 - 1)  BY DEF IInv, Typed, Jobs
<1>3. n \in Nat \ {0} /\ a \in Int /\ l \in Nat \ {0} /\ U32 \in Nat
  <2>1. l \in Nat \ {0}  BY <1>1, <1>2, EmptySeq
  <2> QED  BY <2>1, <1>1, <1>2, Geometry, Operands
<1>4. r \in 0 .. (n - 1)  BY <1>1, <1>3, DivBounds
<1>5. PICK m : m = IF job.kind = "data" THEN n - r ELSE n  OBVIOUS
<1>6. m \in 1 .. n  BY <1>3, <1>4, <1>5
<1>7. ChunkLen = IF l < m THEN l ELSE m
  BY <1>1, <1>5 DEF ChunkLen, Smaller, PageRoom
<1>8. ChunkLen \in 1 .. l /\ ChunkLen <= m /\ (ChunkLen < l => ChunkLen = m)
  BY <1>3, <1>6, <1>7
<1>9. job.kind = "data" => r + ChunkLen <= n  BY <1>3, <1>4, <1>5, <1>8
<1>10. job.kind # "data" => m = n  BY <1>5
<1>11. ChunkLen <= n  BY <1>3, <1>6, <1>8
<1> QED  BY <1>1, <1>8, <1>9, <1>10, <1>11

LEMMA RestIs ==
    ASSUME IInv, job.data # << >>
    PROVE  /\ Rest \in Jobs /\ Rest.kind = job.kind /\ Rest.erase = job.erase /\ Rest.end = job.end
           /\ Rest.at = (job.at + ChunkLen) % U32
           /\ Len(Rest.data) = Len(job.data) - ChunkLen
           /\ \A i \in 1 .. (Len(job.data) - ChunkLen) : Rest.data[i] = job.data[ChunkLen + i]
           /\ job.at + Len(job.data) <= FLASH_BYTES => Rest.at = job.at + ChunkLen
<1>1. PICK c, d : c = ChunkLen /\ d = job.data  OBVIOUS
<1>2. job \in Jobs /\ d \in Seq(SUBSET Bits) /\ job.at \in 0 .. (U32 - 1)
  BY <1>1 DEF IInv, Typed, Jobs
<1>3. c \in 1 .. Len(d) /\ Len(d) \in Nat  BY <1>1, <1>2, ChunkIs
<1>4. PICK s : s = SubSeq(d, c + 1, Len(d))  OBVIOUS
<1>5. /\ s \in Seq(SUBSET Bits) /\ Len(s) = Len(d) - c
      /\ \A i \in 1 .. (Len(d) - c) : s[i] = d[c + i]
  BY <1>2, <1>3, <1>4
<1>6. PICK a : a = (job.at + c) % U32  OBVIOUS
<1>7. a \in 0 .. (U32 - 1)
  <2>1. job.at + c \in Int /\ U32 \in Nat \ {0}  BY <1>2, <1>3, Operands
  <2> QED  BY <2>1, <1>6, DivBounds
<1>8. Rest = [job EXCEPT !.at = a, !.data = s]  BY <1>1, <1>4, <1>6 DEF Rest
<1>9. /\ Rest \in Jobs /\ Rest.kind = job.kind /\ Rest.erase = job.erase /\ Rest.end = job.end
      /\ Rest.at = a /\ Rest.data = s
  BY <1>2, <1>5, <1>7, <1>8 DEF Jobs
<1>10. ASSUME job.at + Len(d) <= FLASH_BYTES  PROVE a = job.at + c
  <2>1. PICK x : x = job.at + c  OBVIOUS
  <2>2. x \in Int /\ 0 <= x /\ x < U32 /\ U32 \in Nat \ {0}
    BY <2>1, <1>2, <1>3, <1>10, Operands
  <2> QED  BY <2>1, <2>2, <1>6, SmallModulus
<1> QED  BY <1>1, <1>5, <1>6, <1>9, <1>10

LEMMA ReadChunkHolds ==
    ASSUME IInv, ReadChunk  PROVE Holds
<1>1. /\ UNCHANGED <<mem, wel, locked, asleep, busy, present, todo, inProgress, totalSize,
                     region, trust, written>>
      /\ job.kind = "verify" /\ job.data # << >>
      /\ IF \A i \in 1 .. ChunkLen : (IF Listening THEN mem[job.at + i - 1] ELSE {}) = job.data[i]
         THEN job' = Rest /\ resp' = resp ELSE job' = NoJob /\ resp' = "DIFFERS"
  BY DEF ReadChunk, Reading, chipVars, histVars
<1>2. todo = << >> /\ todo' = << >> /\ ~ inProgress  BY <1>1 DEF IInv, Stages
<1>3. Eventual = mem /\ ~ Opening /\ ~ Starting /\ ~ Waiting /\ mem \in [Addr -> SUBSET Bits]
  BY <1>1, <1>2, AtRest DEF IInv, Typed
<1>4. /\ Rest \in Jobs /\ Rest.kind = "verify" /\ Rest.erase = job.erase
      /\ Rest.at = (job.at + ChunkLen) % U32 /\ Len(Rest.data) = Len(job.data) - ChunkLen
      /\ \A i \in 1 .. (Len(job.data) - ChunkLen) : Rest.data[i] = job.data[ChunkLen + i]
      /\ job.at + Len(job.data) <= FLASH_BYTES => Rest.at = job.at + ChunkLen
      /\ ChunkLen \in 1 .. Len(job.data)
  BY <1>1, RestIs, ChunkIs
<1>5. /\ job' \in Jobs /\ job'.kind \in {"none", "verify"} /\ job'.erase % SECTOR = 0
      /\ job' = Rest \/ job' = NoJob
  <2>1. 0 % SECTOR = 0  BY Geometry, SmallModulus
  <2>2. job.erase % SECTOR = 0  BY DEF IInv, Typed
  <2> QED  BY <2>1, <2>2, <1>1, <1>4, NoJobIs
<1>6. /\ ~ Starting' /\ ~ Opening' /\ SectorsLeft' = {} /\ ~ Identifying'
      /\ \A t \in Commands : ~ Pending(t)' /\ ~ Sending(t)'
      /\ AfterOn(mem', todo') = mem
  BY <1>1, <1>2, <1>5, NothingLeft, FromJedecs, NoneToCome, PendingIs
     DEF Pending, Opening, Identifying, SectorsLeft
<1>7. Eventual' = Eventual
  <2>1. LeftIn(todo', job') = {}  BY <1>5, <1>6 DEF LeftIn, LeftOf
  <2>2. View(mem, {}, job') = mem  BY <1>3, <1>5, PlainView
  <2> QED  BY <1>3, <1>6, <2>1, <2>2, EventualIs
<1>8. PICK n \in 0 .. Len(written.data) :
            /\ job.at = written.at + n /\ Len(job.data) = Len(written.data) - n
            /\ \A i \in 1 .. Len(job.data) : job.data[i] = written.data[n + i]
  BY <1>1 DEF IInv, Kept
<1>9. /\ written # NoJob /\ written.at + Len(written.data) <= FLASH_BYTES
      /\ trust = "full" => Found(Eventual)
  BY <1>1 DEF IInv, Kept
<1>10. /\ Len(written.data) \in Nat /\ written.at \in Nat /\ Len(job.data) \in Nat
       /\ FLASH_BYTES \in Nat
  <2>1. job \in Jobs /\ written \in Jobs  BY DEF IInv, Typed
  <2>2. /\ job.data \in Seq(SUBSET Bits) /\ written.data \in Seq(SUBSET Bits)
        /\ written.at \in 0 .. (U32 - 1)
    BY <2>1 DEF Jobs
  <2>3. written.at \in Nat  BY <2>2, Operands
  <2>4. Len(job.data) \in Nat /\ Len(written.data) \in Nat  BY <2>2
  <2> QED  BY <2>3, <2>4, Geometry
<1>11. trust = "full" => job' = Rest /\ resp' = resp
  <2> SUFFICES ASSUME trust = "full"  PROVE job' = Rest /\ resp' = resp
    OBVIOUS
  <2>1. Listening  BY <1>3, <1>9 DEF IInv, Answering, Listening
  <2>2. ASSUME NEW i \in 1 .. ChunkLen  PROVE mem[job.at + i - 1] = job.data[i]
    <3>1. n + i \in 1 .. Len(written.data) /\ i \in 1 .. Len(job.data)
      BY <1>4, <1>8, <1>10
    <3>2. mem[written.at + (n + i) - 1] = written.data[n + i]
      BY <3>1, <1>3, <1>9 DEF Found
    <3>3. written.at + (n + i) - 1 = job.at + i - 1  BY <1>4, <1>8, <1>10
    <3> QED  BY <3>1, <3>2, <3>3, <1>8
  <2> QED  BY <2>1, <2>2, <1>1
<1>12. Typed'
  <2>1. InShape'  BY <1>2 DEF InShape
  <2> QED  BY <1>1, <1>5, <2>1 DEF IInv, Typed
<1>13. Stages'
  <2>1. job' = Rest => resp' = "none"
    <3>1. resp = "none"  BY <1>1 DEF IInv, Stages, Idle
    <3>2. Rest # NoJob  BY <1>4, NoJobIs
    <3> QED  BY <3>1, <3>2, <1>1
  <2> QED  BY <2>1, <1>1, <1>2, <1>4, <1>5, <1>6, NoJobIs DEF Stages, Idle
<1>14. Answering'
  <2>1. ~ Changing'  BY <1>1, <1>2, <1>5, <1>6 DEF Changing
  <2> QED  BY <2>1, <1>1, <1>3, <1>6 DEF IInv, Answering, NoJob, Call
<1>15. Aimed'
  <2>1. Sectored(region)' <=> Sectored(region)  BY <1>1 DEF Sectored
  <2> QED  BY <1>1, <1>2, <1>5, <1>6, <2>1 DEF IInv, Aimed
<1>16. Kept'
  <2>1. Found(Eventual)' <=> Found(Eventual)  BY <1>1, <1>7 DEF Found
  <2>2. ASSUME job'.kind = "verify"
        PROVE  \E k \in 0 .. Len(written'.data) :
                  /\ job'.at = written'.at + k /\ Len(job'.data) = Len(written'.data) - k
                  /\ \A i \in 1 .. Len(job'.data) : job'.data[i] = written'.data[k + i]
    <3>1. job' = Rest  BY <2>2, <1>5, NoJobIs
    <3>2. PICK k, c : k = n + c /\ c = ChunkLen  OBVIOUS
    <3>3. k \in 0 .. Len(written.data)
      <4>1. PICK l, v : l = Len(job.data) /\ v = Len(written.data)  OBVIOUS
      <4>2. n \in 0 .. v /\ l = v - n /\ c \in 1 .. l /\ v \in Nat
        BY <4>1, <3>2, <1>4, <1>8, <1>10
      <4>3. n + c \in 0 .. v  BY <4>2
      <4> QED  BY <4>1, <4>3, <3>2
    <3>4. job.at + Len(job.data) <= FLASH_BYTES  BY <1>8, <1>9, <1>10
    <3>5. Rest.at = written.at + k  BY <3>2, <3>4, <1>4, <1>8, <1>10
    <3>6. Len(Rest.data) = Len(written.data) - k  BY <3>2, <1>4, <1>8, <1>10
    <3>7. ASSUME NEW i \in 1 .. Len(Rest.data)  PROVE Rest.data[i] = written.data[k + i]
      <4>1. i \in 1 .. (Len(job.data) - c) /\ c + i \in 1 .. Len(job.data)
            /\ n + (c + i) = k + i
        BY <3>2, <1>4, <1>8, <1>10
      <4>2. Rest.data[i] = job.data[c + i]  BY <4>1, <3>2, <1>4
      <4>3. job.data[c + i] = written.data[n + (c + i)]  BY <4>1, <1>8
      <4> QED  BY <4>1, <4>2, <4>3
    <3> QED  BY <3>1, <3>3, <3>5, <3>6, <3>7, <1>1
  <2> QED  BY <1>1, <1>2, <1>5, <1>6, <1>9, <2>1, <2>2 DEF IInv, Kept, NoJob, Call
<1>17. PresentChipIsFound' /\ WrittenVerifies'
  BY <1>1, <1>11 DEF IInv, PresentChipIsFound, WrittenVerifies
<1>18. SessionStep  BY <1>1, <1>3, <1>6, <1>7, SessionStutters
<1> QED  BY <1>12, <1>13, <1>14, <1>15, <1>16, <1>17, <1>18 DEF Holds, IInv

(* What programming the first chunk of data, and the rest later, makes.    *)
LEMMA ChunkThenRest ==
    ASSUME NEW m \in [Addr -> SUBSET Bits], NEW j \in Jobs, NEW k \in Jobs, NEW t \in Commands,
           NEW c \in Nat,
           j.kind \in {"data", "write"}, k.kind = j.kind, j.at \in Addr, c <= Len(j.data),
           (j.at % PAGE) + c <= PAGE, k.at = j.at + c,
           Len(k.data) = Len(j.data) - c,
           \A i \in 1 .. (Len(j.data) - c) : k.data[i] = j.data[c + i],
           t.op = "PROGRAM", t.at = j.at, Len(t.data) = c,
           \A i \in 1 .. c : t.data[i] = j.data[i]
    PROVE  View(Struck(m, t), {}, k) = View(m, {}, j)
<1>1. PICK a, d, n : a = j.at /\ d = j.data /\ n = Len(j.data)  OBVIOUS
<1>2. /\ a \in Int /\ n \in Nat /\ DOMAIN d = 1 .. n /\ DOMAIN k.data = 1 .. (n - c)
      /\ DOMAIN t.data = 1 .. c
  <2>1. d \in Seq(SUBSET Bits) /\ k.data \in Seq(SUBSET Bits) /\ t.data \in Seq(SUBSET Bits)
    BY <1>1 DEF Jobs, Commands
  <2>2. a \in Int  BY <1>1, Geometry DEF Addr
  <2> QED  BY <2>1, <2>2, <1>1
<1>3. Struck(m, t) = [x \in Addr |-> LET i == ((x - a) % PAGE) + 1
                                     IN  IF x \in Unit(PAGE, a) /\ i \in 1 .. c
                                         THEN m[x] \cap t.data[i] ELSE m[x]]
  BY <1>1, <1>2 DEF Struck
<1>4. ASSUME NEW x \in Addr
      PROVE  Struck(m, t)[x] = IF x - a + 1 \in 1 .. c THEN m[x] \cap d[x - a + 1] ELSE m[x]
  <2>1. x \in Int /\ a \in Addr  BY <1>1, Geometry DEF Addr
  <2>2. PICK i : i = ((x - a) % PAGE) + 1  OBVIOUS
  <2>3. x \in Unit(PAGE, a) <=> x \div PAGE = a \div PAGE  BY <2>1, UnitIs
  <2>4. /\ x \in Unit(PAGE, a) /\ i \in 1 .. c => i = x - a + 1
        /\ x - a + 1 \in 1 .. c => x \in Unit(PAGE, a) /\ i = x - a + 1
    <3>1. (a % PAGE) + c <= PAGE  BY <1>1
    <3> QED  BY <2>1, <2>2, <2>3, <1>2, <3>1, InsideAPage
  <2>5. Struck(m, t)[x] = IF x \in Unit(PAGE, a) /\ i \in 1 .. c
                          THEN m[x] \cap t.data[i] ELSE m[x]
    BY <1>3, <2>2
  <2>6. CASE x - a + 1 \in 1 .. c
    <3>1. x \in Unit(PAGE, a) /\ i = x - a + 1 /\ i \in 1 .. c  BY <2>4, <2>6
    <3>2. t.data[i] = d[i]  BY <3>1, <1>1
    <3> QED  BY <2>5, <2>6, <3>1, <3>2
  <2>7. CASE x - a + 1 \notin 1 .. c
    <3>1. ~ (x \in Unit(PAGE, a) /\ i \in 1 .. c)  BY <2>4, <2>7
    <3> QED  BY <2>5, <2>7, <3>1
  <2> QED  BY <2>6, <2>7
<1>5. ASSUME NEW x \in Addr  PROVE View(Struck(m, t), {}, k)[x] = View(m, {}, j)[x]
  <2>1. PICK y : y = x - a + 1  OBVIOUS
  <2>2. x \in Int /\ y \in Int /\ x - k.at + 1 = y - c
    <3>1. x \in Int /\ k.at = a + c  BY <1>1, Geometry DEF Addr
    <3> QED  BY <3>1, <2>1, <1>2
  <2>3. View(m, {}, j)[x] = IF y \in 1 .. n THEN m[x] \cap d[y] ELSE m[x]
    BY <2>1, <1>1, <1>2 DEF View
  <2>4. View(Struck(m, t), {}, k)[x] = IF y - c \in 1 .. (n - c)
                                       THEN Struck(m, t)[x] \cap k.data[y - c]
                                       ELSE Struck(m, t)[x]
    BY <2>2, <1>2 DEF View
  <2>5. Struck(m, t)[x] = IF y \in 1 .. c THEN m[x] \cap d[y] ELSE m[x]  BY <2>1, <1>4
  <2>6. c <= n  BY <1>1
  <2>7. CASE y \in 1 .. c
    <3>1. y \in 1 .. n /\ ~ (y - c \in 1 .. (n - c))  BY <2>2, <2>6, <2>7, <1>2
    <3> QED  BY <2>3, <2>4, <2>5, <2>7, <3>1
  <2>8. CASE y \in (c + 1) .. n
    <3>1. y \in 1 .. n /\ y \notin 1 .. c /\ y - c \in 1 .. (n - c) /\ c + (y - c) = y
      BY <2>2, <2>6, <2>8, <1>2
    <3>2. k.data[y - c] = d[y]
      <4>1. k.data[y - c] = j.data[c + (y - c)]  BY <3>1, <1>1
      <4> QED  BY <4>1, <3>1, <1>1
    <3> QED  BY <2>3, <2>4, <2>5, <3>1, <3>2
  <2>9. CASE y \notin 1 .. n
    <3>1. y \notin 1 .. c /\ ~ (y - c \in 1 .. (n - c))  BY <2>2, <2>6, <2>9, <1>2
    <3> QED  BY <2>3, <2>4, <2>5, <2>9, <3>1
  <2> QED  BY <2>2, <2>6, <2>7, <2>8, <2>9, <1>2
<1>6. /\ View(Struck(m, t), {}, k) = [x \in Addr |-> View(Struck(m, t), {}, k)[x]]
      /\ View(m, {}, j) = [x \in Addr |-> View(m, {}, j)[x]]
  BY DEF View
<1> QED  BY <1>5, <1>6

(* Wherever the chunk starts, only the region sees a difference.           *)
LEMMA OutsideTheChunk ==
    ASSUME NEW m \in [Addr -> SUBSET Bits], NEW j \in Jobs, NEW k \in Jobs, NEW t \in Commands,
           NEW R, NEW x \in Addr, x \notin R, Touched(t) \subseteq R,
           \A y \in Addr : y >= j.at /\ y < j.at + Len(j.data) => y \in R,
           NEW c \in Nat, k.kind = j.kind, k.at = j.at + c, Len(k.data) = Len(j.data) - c
    PROVE  View(Struck(m, t), {}, k)[x] = View(m, {}, j)[x]
<1>1. PICK a, n, b : a = j.at /\ n = Len(j.data) /\ b = k.at  OBVIOUS
<1>2. /\ a \in Int /\ n \in Nat /\ b \in Int /\ x \in Int
      /\ DOMAIN j.data = 1 .. n /\ DOMAIN k.data = 1 .. (n - c)
  <2>1. j.data \in Seq(SUBSET Bits) /\ k.data \in Seq(SUBSET Bits)
        /\ j.at \in 0 .. (U32 - 1) /\ k.at \in 0 .. (U32 - 1)
    BY DEF Jobs
  <2>2. a \in Int /\ b \in Int  BY <2>1, <1>1, Operands
  <2>3. x \in Int  BY Geometry DEF Addr
  <2> QED  BY <2>1, <2>2, <2>3, <1>1
<1>3. ~ (x >= a /\ x < a + n)  BY <1>1
<1>4. b = a + c  BY <1>1
<1>5. x - a + 1 \notin 1 .. n /\ x - b + 1 \notin 1 .. (n - c)
  <2>1. PICK y : y = x - a  OBVIOUS
  <2>2. y \in Int /\ ~ (y >= 0 /\ y < n)  BY <2>1, <1>2, <1>3
  <2>3. x - b + 1 = y - c + 1  BY <2>1, <1>2, <1>4
  <2>4. y + 1 \notin 1 .. n /\ y - c + 1 \notin 1 .. (n - c)  BY <2>2, <1>2
  <2> QED  BY <2>1, <2>3, <2>4
<1>6. Struck(m, t)[x] = m[x]
  <2>1. x \notin Touched(t)  OBVIOUS
  <2> QED  BY <2>1, StruckWhere
<1> QED  BY <1>1, <1>2, <1>5, <1>6 DEF View

LEMMA NextChunkHolds ==
    ASSUME IInv, NextChunk  PROVE Holds
<1>1. PICK c, ck, t : /\ c = ChunkLen /\ ck = SubSeq(job.data, 1, c)
                      /\ t = [op |-> "PROGRAM", at |-> job.at,
                              data |-> SubSeq(ck, 1, Smaller(Len(ck), PAGE))]
  OBVIOUS
<1>2. /\ UNCHANGED <<mem, wel, locked, asleep, busy, present, inProgress, totalSize, resp,
                     region, trust, written>>
      /\ todo = << >> /\ SectorsLeft = {} /\ job.kind \in {"data", "write"} /\ job.data # << >>
      /\ todo' = <<EnableStep, t, WaitStep>>
      /\ job' = Rest
  BY <1>1, Protecting DEF NextChunk, Programming, chipVars, histVars
<1>3. /\ job \in Jobs /\ job.data \in Seq(SUBSET Bits) /\ job.at \in 0 .. (U32 - 1)
      /\ Len(job.data) \in Nat
      /\ mem \in [Addr -> SUBSET Bits] /\ region \subseteq Addr
      /\ totalSize \in 0 .. FLASH_BYTES /\ job.end \in 0 .. FLASH_BYTES
      /\ trust \in {"full", "region", "none"}
  BY DEF IInv, Typed, Jobs
<1>4. c \in 1 .. Len(job.data) /\ c <= PAGE /\ c \in Nat  BY <1>1, <1>2, <1>3, ChunkIs
<1>5. job.at \in Nat /\ job.at \in Int  BY <1>3, Operands
<1>6. /\ job' \in Jobs /\ job'.kind = job.kind /\ job'.erase = job.erase /\ job'.end = job.end
      /\ Len(job'.data) = Len(job.data) - c
      /\ \A i \in 1 .. (Len(job.data) - c) : job'.data[i] = job.data[c + i]
      /\ job.at + Len(job.data) <= FLASH_BYTES => job'.at = job.at + c
  BY <1>1, <1>2, RestIs
<1>7. /\ ck \in Seq(SUBSET Bits) /\ Len(ck) = c /\ \A i \in 1 .. c : ck[i] = job.data[i]
  BY <1>1, <1>3, <1>4
<1>8. t.data = ck
  <2>1. Smaller(Len(ck), PAGE) = c
    <3>1. PAGE \in Nat  BY Geometry
    <3> QED  BY <3>1, <1>4, <1>7 DEF Smaller
  <2>2. SubSeq(ck, 1, c) = ck  BY <1>7
  <2> QED  BY <1>1, <2>1, <2>2
<1>9. t \in Commands /\ t.op = "PROGRAM" /\ t.at = job.at
  <2>1. t = [op |-> "PROGRAM", at |-> job.at, data |-> ck]  BY <1>1, <1>8
  <2> QED  BY <2>1, <1>5, <1>7 DEF Commands, Modifying
<1>10. /\ ~ Starting' /\ todo' # << >> /\ todo' # <<WaitStep>>
       /\ \A u \in Commands : (Pending(u)' => u = t) /\ ~ Sending(u)'
       /\ \A m : AfterOn(m, todo') = Struck(m, t)
  <2>1. PendingIn(todo', t)  BY <1>2 DEF PendingIn
  <2>2. \A u \in Commands : todo' # <<u, WaitStep>>  BY <2>1, <1>2, <1>9, OneToCome
  <2> QED  BY <2>1, <2>2, <1>9, OneToCome, PendingIs DEF Sending
<1>11. ~ Starting /\ ~ Waiting /\ ~ Pending(StatusStep) /\ \A m : AfterOn(m, todo) = m
  BY <1>2, AtRest, Ops
<1>12. /\ ~ Identifying' /\ ~ Opening' /\ ~ Opening /\ SectorsLeft' = {} /\ Changing
  <2>1. ~ Identifying'  BY <1>10, FromJedecs, PendingIs DEF Identifying
  <2>2. ~ Opening' /\ ~ Opening  BY <1>2, <1>6 DEF Opening
  <2>sectors. SectorsLeft' = SectorsLeft  BY <1>6 DEF SectorsLeft
  <2>4. Changing  BY <1>2 DEF IInv, Stages, Changing
  <2> QED  BY <2>1, <2>2, <2>sectors, <2>4, <1>2
<1>13. /\ Eventual = View(mem, {}, job) /\ Eventual' = View(Struck(mem, t), {}, job')
  <2>1. LeftIn(todo, job) = {} /\ LeftIn(todo', job') = {}
    BY <1>2, <1>12, PendingIs DEF LeftIn, LeftOf, SectorsLeft
  <2> QED  BY <2>1, <1>2, <1>10, <1>11, EventualIs
<1>14. ASSUME trust # "none"
       PROVE  /\ job.at + Len(job.data) <= FLASH_BYTES /\ job.at \in Addr
              /\ job'.at = job.at + c
              /\ \A y \in Addr : y >= job.at /\ y < job.at + Len(job.data) => y \in region
              /\ job.kind = "data" => job.at + Len(job.data) <= totalSize
              /\ Touched(t) \subseteq region
  <2>1. PICK a, n : a = job.at /\ n = Len(job.data)  OBVIOUS
  <2>2. a \in Nat /\ n \in Nat /\ n >= 1  BY <2>1, <1>3, <1>4, <1>5
  <2>3. ASSUME job.kind = "data"  PROVE a + n <= totalSize /\ region = Below(totalSize)
    BY <2>1, <2>3, <1>14 DEF IInv, Aimed, Stages
  <2>4. ASSUME job.kind = "write"
        PROVE  a + n = job.end /\ \A y \in Addr : y >= a /\ y < a + n => y \in region
    BY <2>1, <2>4 DEF IInv, Aimed
  <2>5. FLASH_BYTES \in Nat  BY Geometry
  <2>6. a + n <= FLASH_BYTES  BY <2>2, <2>3, <2>4, <2>5, <1>2, <1>3
  <2>7. a \in Addr  BY <2>2, <2>5, <2>6 DEF Addr
  <2>8. \A y \in Addr : y >= a /\ y < a + n => y \in region
    <3>1. CASE job.kind = "data"
      <4>1. \A y \in Addr : y \in Int  BY Geometry DEF Addr
      <4>2. totalSize \in Int /\ RoundUp(totalSize) \in Int /\ totalSize <= RoundUp(totalSize)
        <5>1. totalSize \in Int  BY <1>3
        <5> QED  BY <5>1, RoundUpIs
      <4>3. \A y \in Addr : y < a + n => y < RoundUp(totalSize)
        <5>1. a + n <= totalSize  BY <3>1, <2>3
        <5> QED  BY <5>1, <4>1, <4>2, <2>2
      <4> QED  BY <4>3, <3>1, <2>3 DEF Below
    <3> QED  BY <3>1, <2>4, <1>2
  <2>9. a \in region  BY <2>2, <2>7, <2>8
  <2>10. Touched(t) \subseteq region
    <3>1. Sectored(region)  BY DEF IInv, Aimed
    <3>2. Unit(PAGE, a) \subseteq region  BY <3>1, <2>9, <1>3, UnitInRegion
    <3> QED  BY <3>2, <2>1, <1>9 DEF Touched
  <2> QED  BY <2>1, <2>3, <2>6, <2>7, <2>8, <2>10, <1>6
<1>15. ASSUME trust = "full"  PROVE Eventual' = Eventual
  <2>1. (job.at % PAGE) + c <= PAGE
    <3>1. CASE job.kind = "data"  BY <3>1, <1>1, <1>2, ChunkIs
    <3>2. CASE job.kind = "write"
      <4>1. job.at % PAGE = 0  BY <3>2, <1>2, <1>15 DEF IInv, Aimed
      <4>2. PAGE \in Int  BY Geometry
      <4> QED  BY <4>1, <4>2, <1>4
    <3> QED  BY <3>1, <3>2, <1>2
  <2>2. job.at \in Addr /\ job'.at = job.at + c  BY <1>14, <1>15
  <2>3. c <= Len(job.data) /\ Len(t.data) = c /\ \A i \in 1 .. c : t.data[i] = job.data[i]
    BY <1>3, <1>4, <1>7, <1>8
  <2>4. View(Struck(mem, t), {}, job') = View(mem, {}, job)
    BY <2>1, <2>2, <2>3, <1>2, <1>3, <1>4, <1>6, <1>9, ChunkThenRest
  <2> QED  BY <2>4, <1>13
<1>16. Typed'
  <2>1. InShape'  BY <1>2, <1>9 DEF InShape, Pending, Enabling
  <2> QED  BY <1>2, <1>6, <2>1 DEF IInv, Typed
<1>17. Stages'
  BY <1>2, <1>6, <1>10 DEF IInv, Stages, Idle
<1>18. Answering'
  <2>1. trust = "full" => ~ busy /\ present /\ ~ asleep /\ ~ locked
    BY <1>11, <1>12 DEF IInv, Answering
  <2> QED  BY <2>1, <1>2, <1>10, <1>12 DEF IInv, Answering
<1>19. Aimed'
  <2>1. Sectored(region)' /\ Below(totalSize)' = Below(totalSize)
    BY <1>2 DEF IInv, Aimed, Sectored, Below
  <2>2. inProgress' => region' = Below(totalSize)'  BY <1>2, <2>1 DEF IInv, Aimed
  <2>3. PICK a, n, b, p : a = job.at /\ n = Len(job.data) /\ b = job'.at /\ p = Len(job'.data)
    OBVIOUS
  <2>4. a \in Nat /\ n \in Nat /\ c \in Nat /\ p = n - c
        /\ (trust # "none" => b = a + c)
    BY <2>3, <1>3, <1>4, <1>5, <1>6, <1>14
  <2>5. ASSUME job'.kind = "write"
        PROVE  /\ b + p = job'.end
               /\ \A x \in Addr : x >= b /\ x < job'.end => x \in region'
    <3>1. a + n = job.end /\ \A x \in Addr : x >= a /\ x < job.end => x \in region
      BY <2>3, <2>5, <1>6 DEF IInv, Aimed
    <3>2. a + n <= FLASH_BYTES  BY <3>1, <1>3
    <3>3. b = a + c  BY <2>3, <3>2, <1>6
    <3>4. b + p = job.end  BY <3>1, <3>3, <2>4
    <3>5. \A x \in Addr : x \in Int  BY Geometry DEF Addr
    <3>6. \A x \in Addr : x >= b /\ x < job.end => x \in region
      BY <3>1, <3>3, <3>5, <2>4
    <3> QED  BY <3>4, <3>6, <1>2, <1>6
  <2>6. ASSUME job'.kind = "write", trust' = "full", job'.data # << >>  PROVE b % PAGE = 0
    <3>1. a % PAGE = 0 /\ job.kind = "write"
      BY <2>3, <2>6, <1>2, <1>6 DEF IInv, Aimed
    <3>2. p # 0
      <4>1. job'.data \in Seq(SUBSET Bits)  BY <1>6 DEF Jobs
      <4> QED  BY <4>1, <2>3, <2>6, EmptySeq
    <3>3. c < n  BY <3>2, <2>3, <2>4, <1>4
    <3>4. c = PAGE  BY <3>1, <3>3, <2>3, <1>1, <1>2, ChunkIs
    <3>5. b = a + PAGE  BY <3>4, <2>4, <2>6, <1>2
    <3>6. (a + PAGE) % PAGE = 0
      <4>1. PICK g, q : g = PAGE /\ q = a \div g  OBVIOUS
      <4>2. g \in Nat \ {0} /\ a \in Int  BY <4>1, <2>4, Geometry
      <4>3. q \in Int /\ a = g * q  BY <4>1, <4>2, <3>1, DivBounds
      <4>4. g * (q + 1) = a + g  BY <4>2, <4>3
      <4>5. (g * (q + 1)) % g = 0  BY <4>2, <4>3, DivOfMultiple
      <4> QED  BY <4>1, <4>4, <4>5
    <3> QED  BY <3>5, <3>6
  <2>7. ASSUME trust' # "none", job'.kind = "data"  PROVE b + p <= totalSize'
    <3>1. a + n <= totalSize  BY <2>3, <2>7, <1>2, <1>6, <1>14
    <3>2. b + p = a + n  BY <2>4, <2>7, <1>2
    <3> QED  BY <3>1, <3>2, <1>2
  <2>8. ASSUME trust' # "none", NEW u \in Commands, Pending(u)'
        PROVE  Touched(u)' \subseteq region'
    <3>1. u = t  BY <2>8, <1>10
    <3>2. Touched(t) \subseteq region  BY <2>8, <1>2, <1>14
    <3> QED  BY <3>1, <3>2, <1>2 DEF Touched, Unit
  <2> QED  BY <2>1, <2>2, <2>3, <2>5, <2>6, <2>7, <2>8, <1>12 DEF Aimed
<1>20. Kept'
  <2>1. trust = "full" => (Found(Eventual)' <=> Found(Eventual))  BY <1>2, <1>15 DEF Found
  <2> QED  BY <1>2, <1>6, <1>12, <2>1 DEF IInv, Kept, NoJob, Call
<1>21. PresentChipIsFound' /\ WrittenVerifies'
  BY <1>2 DEF IInv, PresentChipIsFound, WrittenVerifies
<1>22. SessionStep
  <2>1. CASE trust = "full"
    BY <2>1, <1>2, <1>12, <1>15, SessionStutters
  <2>2. CASE trust # "full"
    <3>1. ASSUME trust = "region", NEW x \in Addr \ region  PROVE Eventual'[x] = Eventual[x]
      <4>1. /\ job'.at = job.at + c /\ Touched(t) \subseteq region
            /\ \A y \in Addr : y >= job.at /\ y < job.at + Len(job.data) => y \in region
        BY <3>1, <1>14
      <4>2. View(Struck(mem, t), {}, job')[x] = View(mem, {}, job)[x]
        BY <4>1, <1>3, <1>4, <1>6, <1>9, OutsideTheChunk
      <4> QED  BY <4>2, <1>13
    <3> QED  BY <2>2, <3>1, <1>2, <1>12, SessionDrifts
  <2> QED  BY <2>1, <2>2
<1> QED  BY <1>16, <1>17, <1>18, <1>19, <1>20, <1>21, <1>22 DEF Holds, IInv

--------------------------------------------------------------------------------
LEMMA StepHolds == IInv /\ [Next]_vars => Holds
<1> SUFFICES ASSUME IInv, [Next]_vars  PROVE Holds
  OBVIOUS
<1>1. CASE Driver
  BY <1>1, ReleaseHolds, JedecFoundHolds, JedecMissedHolds, EnableHolds, CommandHolds,
     ReadyHolds, WaitRunsOutHolds, NextSectorHolds, NextChunkHolds, ReadChunkHolds,
     ReturnsHolds DEF Driver
<1>2. CASE Caller
  <2>1. CASE End \/ Verify  BY <2>1, EndHolds, VerifyHolds
  <2>2. ASSUME NEW total \in Totals, Begin(total)  PROVE Holds  BY <2>2, BeginHolds
  <2>3. ASSUME NEW at \in Offsets, EraseBlock(at)  PROVE Holds  BY <2>3, EraseBlockHolds
  <2>4. ASSUME NEW at \in Offsets, NEW d \in Datas, Data(at, d) \/ Write(at, d)  PROVE Holds
    BY <2>4, DataHolds, WriteHolds
  <2> QED  BY <1>2, <2>1, <2>2, <2>3, <2>4 DEF Caller
<1>3. CASE ChipFinishes /\ UNCHANGED driverVars
  BY <1>3, ChipFinishesHolds
<1>4. CASE UNCHANGED vars
  BY <1>4, RefuseHolds DEF vars, driverVars
<1> QED  BY <1>1, <1>2, <1>3, <1>4 DEF Next

LEMMA InvariantHolds == Spec => []IInv
<1>1. Init => IInv  BY InitHolds
<1>2. IInv /\ [Next]_vars => IInv'  BY StepHolds DEF Holds
<1> QED  BY <1>1, <1>2, PTL DEF Spec

(* No operation of spi_flash.c has more than five transactions left, and   *)
(* the job, the session and the chip stay in their types.                  *)
THEOREM TypeCorrect == Spec => []TypeOK
<1>1. IInv => TypeOK
  <2> SUFFICES ASSUME IInv  PROVE TypeOK
    OBVIOUS
  <2>1. Len(todo) <= 5
    <3>1. ASSUME NEW e, NEW t, NEW w  PROVE Len(<<e, t, w>>) = 3 /\ Len(<<t, w>>) = 2
      OBVIOUS
    <3>2. CASE todo = flash_init
      <4>1. Len(<<Transaction("RELEASE")>> \o [i \in 1 .. 4 |-> Transaction("JEDEC")]) = 5
        <5>1. PICK r, j : r = Transaction("RELEASE") /\ j = Transaction("JEDEC")  OBVIOUS
        <5>2. Len(<<r>> \o [i \in 1 .. 4 |-> j]) = 5  OBVIOUS
        <5> QED  BY <5>1, <5>2
      <4> QED  BY <3>2, <4>1 DEF flash_init
    <3>3. CASE Identifying
      <4>1. PICK k \in 1 .. 4 : todo = Jedecs(k)  BY <3>3 DEF Identifying
      <4> QED  BY <4>1, FromJedecs
    <3>4. ASSUME NEW t \in Commands, Pending(t)  PROVE Len(todo) \in {2, 3}
      BY <3>1, <3>4 DEF Pending, Enabling, Sending
    <3>5. CASE todo = << >>
      <4>1. Len(<< >>) = 0  OBVIOUS
      <4> QED  BY <3>5, <4>1
    <3>6. CASE Waiting
      <4>1. PICK w : w = WaitStep  OBVIOUS
      <4>2. Len(<<w>>) = 1  OBVIOUS
      <4> QED  BY <3>6, <4>1, <4>2 DEF Waiting
    <3>7. InShape  BY DEF IInv, Typed
    <3>8. CASE \E t \in Commands : Pending(t)
      <4>1. PICK n : n = Len(todo)  OBVIOUS
      <4>2. n \in {2, 3}  BY <4>1, <3>4, <3>8
      <4>3. n <= 5  BY <4>2
      <4> QED  BY <4>1, <4>3
    <3> QED  BY <3>2, <3>3, <3>5, <3>6, <3>7, <3>8 DEF InShape
  <2>2. /\ job.kind \in {"none", "begin", "data", "write", "block", "verify"}
        /\ job.at < U32 /\ job.erase <= FLASH_BYTES /\ job.end <= FLASH_BYTES
    <3>1. job \in Jobs  BY DEF IInv, Typed
    <3>2. /\ job.kind \in {"none", "begin", "data", "write", "block", "verify"}
          /\ job.at \in 0 .. (U32 - 1) /\ job.erase \in 0 .. FLASH_BYTES
          /\ job.end \in 0 .. FLASH_BYTES
      BY <3>1 DEF Jobs
    <3> QED  BY <3>2, Operands
  <2>3. ChipTypeOK  BY DEF IInv, Typed, ChipTypeOK
  <2> QED  BY <2>1, <2>2, <2>3 DEF IInv, Typed, TypeOK
<1> QED  BY <1>1, InvariantHolds, PTL

(* spi_flash.c:203-216: flash_init misses only a chip that is not there,   *)
(* or on which an earlier wait has run out, whatever the calls before it.  *)
THEOREM PresentChipAlwaysFound == Spec => []PresentChipIsFound
<1>1. IInv => PresentChipIsFound  BY DEF IInv
<1> QED  BY <1>1, InvariantHolds, PTL

(* What flash_write has written from the start of a page, flash_verify     *)
(* (spi_flash.c:283) finds, unless a wait has run out, for every geometry  *)
(* and every length: the sectors, pages and chunks of the two add up.      *)
THEOREM WrittenAlwaysVerifies == Spec => []WrittenVerifies
<1>1. IInv => WrittenVerifies  BY DEF IInv
<1> QED  BY <1>1, InvariantHolds, PTL

(* The transactions of flash_writer.c:47-82 and spi_flash.c:230-281 erase  *)
(* and program what the calls announce and nothing else, for every         *)
(* geometry, size, offset and data, with the chip as late as it likes.     *)
THEOREM Implements == Spec => ImplementsSession
<1>1. Init => Session!Init  BY InitHolds
<1>2. IInv /\ [Next]_vars => [Session!Next]_(Session!svars)  BY StepHolds DEF Holds, SessionStep
<1> QED
  BY <1>1, <1>2, InvariantHolds, PTL DEF Spec, ImplementsSession, Session!Spec
================================================================================
