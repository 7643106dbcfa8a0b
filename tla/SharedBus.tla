------------------------------ MODULE SharedBus ------------------------------
(***************************************************************************)
(* The running microcontroller's bus, cycle by cycle: the core's data and  *)
(* instruction ports, a core2wb converter on each, the shared-bus          *)
(* interconnect and the acknowledge timing of the six slaves.  The boot    *)
(* loader, the third and first master, is off the bus by then.             *)
(*                                                                         *)
(* A request stands for the address, write enable, select and data lines   *)
(* that go with it; its tag tells it from the other requests under way.    *)
(* A wire or register that may hold a request is a set of at most one.     *)
(***************************************************************************)
EXTENDS Integers, Sequences

CONSTANTS
  NUM_REQS,            \* fetches the prefetch buffer keeps outstanding (2)
  FetchFrom,           \* slaves instructions are fetched from
  Access,              \* accesses the program makes: subset of [to, we, full]
  Misaligned           \* those of them that the core may split in two

Slave == {"imem", "dmem", "gpio", "i2c", "pit", "uart"}
Master == {"data", "instr"}
Kind == [to : Slave, we : BOOLEAN, full : BOOLEAN]     \* full: all four byte selects
DEPTH == NUM_REQS + 1                                  \* words of the fetch FIFO
Tags == DEPTH + 1
Request == [to : Slave, we : BOOLEAN, full : BOOLEAN, tag : 0 .. Tags - 1]

ASSUME BusAssumption ==
  /\ NUM_REQS \in Nat \ {0}
  /\ FetchFrom \subseteq {"imem", "dmem"}
  /\ Access \subseteq Kind
  /\ \A a \in Access : a.full \/ a.we           \* reads select the whole word
  /\ Misaligned \subseteq {a \in Access : a.to \in {"imem", "dmem"}}

VARIABLES
  lsu,                 \* load/store unit: see LsuState
  line,                \* the request last put on the data port's address lines
  fifo,                \* fetched and not yet executed: half words
  pend,                \* per master: the request waiting for its grant
  out,                 \* per master: the requests granted and not yet answered
  counts,              \* core2wb.counts, per master
  gnt1, ss1,           \* interconnect: master and slave of the last request
  ack,                 \* per slave: the request it acknowledges in this cycle
  err,                 \* the request the GPIO answers with an error
  uart_r,              \* UART: r_wb_ack, the first of its two cycles
  rsp,                 \* per master: the answer it was given in the last cycle
  i2c_wr,              \* the write the I2C master performed in the last cycle
  errors               \* accesses that ended in an error so far

vars == <<lsu, line, fifo, pend, out, counts, gnt1, ss1, ack, err, uart_r, rsp, i2c_wr, errors>>

(***************************************************************************)
(* WAIT_RESP is the unit's IDLE with the instruction decoder waiting for   *)
(* the answer; a request that waits for its grant is in pend.              *)
(***************************************************************************)
LsuState ==
  {"IDLE", "WAIT_GNT_MIS", "WAIT_RVALID_MIS", "WAIT_RVALID_MIS_GNTS_DONE", "WAIT_RESP"}

------------------------------------------------------------------------------
(***************************************************************************)
(* The core's ports.  The load/store unit issues one access at a time and  *)
(* pushes the second half of a misaligned one right after the first; the   *)
(* prefetch buffer issues fetches as long as it has room for the answers.  *)
(***************************************************************************)
Tagged(a, used) == [to |-> a.to, we |-> a.we, full |-> a.full, tag |-> (used + 1) % Tags]
LastTag(S) == IF S = {} THEN 0 ELSE (CHOOSE r \in S : TRUE).tag

DataRequests ==
  IF pend["data"] # {} THEN {pend["data"]}
  ELSE IF lsu = "WAIT_RVALID_MIS" THEN {{Tagged(r, r.tag) : r \in line}}
  ELSE IF lsu = "IDLE" /\ fifo > 0 THEN {{}} \cup {{Tagged(a, LastTag(line))} : a \in Access}
  ELSE {{}}

NewAccess(req) == lsu = "IDLE" /\ req["data"] # {}
Words == (fifo + 1) \div 2
FetchTag == IF out["instr"] = <<>> THEN LastTag(rsp["instr"]) ELSE out["instr"][Len(out["instr"])].tag

Room_FetchedOnly == Words < DEPTH
Room == Words + Len(out["instr"]) < DEPTH

\* A branch empties the FIFO and fetches in the same cycle: it needs no room.
FetchRequests ==
  IF pend["instr"] # {} THEN {pend["instr"]}
  ELSE IF Len(out["instr"]) < NUM_REQS /\ (Room \/ lsu = "IDLE")
  THEN {{}} \cup {{Tagged([to |-> s, we |-> FALSE, full |-> TRUE], FetchTag)} : s \in FetchFrom}
  ELSE {{}}

NeedsBranch(req) == pend["instr"] = {} /\ req["instr"] # {} /\ ~Room

------------------------------------------------------------------------------
(***************************************************************************)
(* core2wb and the interconnect.  Nothing stalls: the master that has the  *)
(* bus is granted.                                                         *)
(***************************************************************************)
Cyc_RequestOnly(req, m) == req[m] # {}
Cyc(req, m) == req[m] # {} \/ counts[m] > 0

Gnt_InstrFirst(req) == IF Cyc(req, "instr") THEN "instr" ELSE IF Cyc(req, "data") THEN "data" ELSE "none"
Gnt(req) == IF Cyc(req, "data") THEN "data" ELSE IF Cyc(req, "instr") THEN "instr" ELSE "none"

Strobed(req) == IF Gnt(req) = "none" THEN {} ELSE req[Gnt(req)]

(***************************************************************************)
(* What the shared address, write enable and data lines show.  The core    *)
(* executes nothing else before a load or store is answered, so the data   *)
(* port's lines stay put after the grant; the instruction port's move on.  *)
(***************************************************************************)
Lines(req) ==
  IF Gnt(req) = "data" /\ req["data"] = {} THEN line ELSE Strobed(req)

Acked(m) == gnt1 = m /\ \E s \in Slave : ack[s] # {}
Failed(m) == gnt1 = m /\ err # {}
RValid(req, m) == Cyc(req, m) /\ (Acked(m) \/ Failed(m))

(***************************************************************************)
(* Read data comes from the slave of the last request.  The PIT has no     *)
(* data register: it answers with what the address lines select now.       *)
(***************************************************************************)
Answer(req) ==
  IF ss1 = "none" THEN {}
  ELSE IF ss1 = "pit" THEN Lines(req)
  ELSE IF ss1 = "gpio" THEN ack["gpio"] \cup err ELSE ack[ss1]

CountStep_PairCountedUp(req) ==
  counts' = [m \in Master |->
    IF req[m] # {} /\ Gnt(req) = m THEN counts[m] + 1
    ELSE IF Cyc(req, m) /\ Acked(m) THEN counts[m] - 1 ELSE counts[m]]
CountStep_NeverDown(req) ==
  counts' = [m \in Master |->
    IF req[m] # {} /\ Gnt(req) = m /\ counts[m] < 1 THEN counts[m] + 1 ELSE counts[m]]
CountStep(req) ==
  counts' = [m \in Master |->
    LET answered == Cyc(req, m) /\ Acked(m) IN
      IF req[m] # {} /\ Gnt(req) = m
      THEN IF answered THEN counts[m] ELSE counts[m] + 1
      ELSE IF answered THEN counts[m] - 1 ELSE counts[m]]

RouteStep(req) ==
  \/ /\ Strobed(req) # {}
     /\ gnt1' = Gnt(req)
     /\ \E r \in Strobed(req) : ss1' = r.to
  \/ Strobed(req) = {} /\ UNCHANGED <<gnt1, ss1>>

------------------------------------------------------------------------------
(***************************************************************************)
(* The slaves' acknowledges.  SRAM and PIT: the next cycle.  I2C and GPIO: *)
(* the next cycle, unless they acknowledge in this one.  UART: two cycles  *)
(* later.  The GPIO answers an access to part of a word with an error.     *)
(***************************************************************************)
To(req, s) == {r \in Strobed(req) : r.to = s}

GpioAck(req) == IF ack["gpio"] = {} /\ err = {} THEN {r \in To(req, "gpio") : r.full} ELSE {}

AckStep(req) ==
  /\ ack' = [s \in Slave |->
               IF s \in {"imem", "dmem", "pit"} THEN To(req, s)
               ELSE IF s = "i2c" THEN (IF ack["i2c"] = {} THEN To(req, "i2c") ELSE {})
               ELSE IF s = "gpio" THEN GpioAck(req)
               ELSE IF Gnt(req) # "none" THEN uart_r ELSE {}]
  /\ err' = IF err = {} THEN {r \in To(req, "gpio") : ~r.full} ELSE {}
  /\ uart_r' = To(req, "uart")

(***************************************************************************)
(* The I2C master writes in the cycle of its acknowledge whatever the      *)
(* lines show then, if they show a write.                                  *)
(***************************************************************************)
I2cWriteStep(req) == i2c_wr' = IF ack["i2c"] # {} THEN {r \in Lines(req) : r.we} ELSE {}

------------------------------------------------------------------------------
(***************************************************************************)
(* The core's registers.                                                   *)
(***************************************************************************)
LsuStep(req, split) ==
  LET granted == Gnt(req) = "data" IN
  \/ /\ NewAccess(req)
     /\ split => \E r \in req["data"] : [to |-> r.to, we |-> r.we, full |-> r.full] \in Misaligned
     /\ lsu' = IF ~split THEN "WAIT_RESP"
               ELSE IF granted THEN "WAIT_RVALID_MIS" ELSE "WAIT_GNT_MIS"
  \/ /\ lsu # "IDLE" /\ ~split
     /\ lsu' = IF lsu = "WAIT_GNT_MIS" THEN (IF granted THEN "WAIT_RVALID_MIS" ELSE lsu)
               ELSE IF RValid(req, "data") THEN (IF lsu = "WAIT_RESP" THEN "IDLE" ELSE "WAIT_RESP")
               ELSE IF lsu = "WAIT_RVALID_MIS" /\ granted THEN "WAIT_RVALID_MIS_GNTS_DONE" ELSE lsu
  \/ lsu = "IDLE" /\ ~NewAccess(req) /\ ~split /\ UNCHANGED lsu

PortStep(req) ==
  /\ line' = IF req["data"] # {} THEN req["data"] ELSE line
  /\ pend' = [m \in Master |-> IF Gnt(req) = m THEN {} ELSE req[m]]
  /\ rsp' = [m \in Master |-> IF RValid(req, m) THEN Answer(req) ELSE {}]
  /\ out' = [m \in Master |->
       LET left == IF RValid(req, m) /\ out[m] # <<>> THEN Tail(out[m]) ELSE out[m]
       IN  IF req[m] # {} /\ Gnt(req) = m THEN Append(left, CHOOSE r \in req[m] : TRUE) ELSE left]

(***************************************************************************)
(* An instruction is one or two half words.  One that accesses memory is   *)
(* taken from the FIFO when it issues its request; while none waits for an *)
(* answer others are taken, and a branch takes all there is.  A fetch that *)
(* a branch overtook is dropped (keep is FALSE).  A bus error traps, which *)
(* empties the FIFO too.                                                   *)
(***************************************************************************)
FifoStep(req, take, keep) ==
  /\ take \in IF NewAccess(req) THEN 1 .. 2 ELSE IF lsu = "IDLE" THEN {0, 1, 2, fifo} ELSE {0}
  /\ take <= fifo
  /\ keep => RValid(req, "instr")
  /\ NeedsBranch(req) => take = fifo /\ ~keep /\ ~NewAccess(req)
  /\ fifo' = IF Failed("data") THEN 0 ELSE fifo - take + (IF keep THEN 2 ELSE 0)

Cycle(req, split, take, keep) ==
  /\ LsuStep(req, split)
  /\ FifoStep(req, take, keep)
  /\ PortStep(req)
  /\ CountStep(req)
  /\ RouteStep(req)
  /\ AckStep(req)
  /\ I2cWriteStep(req)
  /\ errors' = IF Failed("data") THEN errors + 1 ELSE errors

Init ==
  /\ lsu = "IDLE" /\ line = {} /\ fifo = 0
  /\ pend = [m \in Master |-> {}] /\ out = [m \in Master |-> <<>>]
  /\ counts = [m \in Master |-> 0]
  /\ gnt1 = "none" /\ ss1 = "none"
  /\ ack = [s \in Slave |-> {}] /\ err = {} /\ uart_r = {}
  /\ rsp = [m \in Master |-> {}] /\ i2c_wr = {} /\ errors = 0

Next ==
  \E d \in DataRequests, i \in FetchRequests :
    \E split, keep \in BOOLEAN, take \in 0 .. fifo :
      Cycle([m \in Master |-> IF m = "data" THEN d ELSE i], split, take, keep)

Spec == Init /\ [][Next]_vars

\* The clock runs.
FairSpec == Spec /\ WF_vars(Next)

------------------------------------------------------------------------------
Optional(S) == S \subseteq Request /\ \A q, r \in S : q = r

(***************************************************************************)
(* Types and bounds: the counts of core2wb stay far from the width of      *)
(* their register, and the fetch FIFO never overflows.                     *)
(***************************************************************************)
TypeOK ==
  /\ lsu \in LsuState
  /\ fifo \in 0 .. 2 * DEPTH
  /\ \A m \in Master : /\ Optional(pend[m]) /\ Optional(rsp[m])
                       /\ out[m] \in Seq(Request) /\ Len(out[m]) <= NUM_REQS
  /\ counts \in [Master -> 0 .. NUM_REQS]
  /\ gnt1 \in Master \cup {"none"} /\ ss1 \in Slave \cup {"none"}
  /\ \A s \in Slave : Optional(ack[s])
  /\ errors \in 0 .. 1 /\ Optional(line) /\ Optional(err) /\ Optional(uart_r) /\ Optional(i2c_wr)

(***************************************************************************)
(* A converter's count is the number of its port's unanswered requests,    *)
(* and of the errors, which it does not count down.  It is all that keeps  *)
(* the bus cycle, and so the grant, until the answer.                      *)
(***************************************************************************)
CountsExact ==
  \A m \in Master : counts[m] = Len(out[m]) + (IF m = "data" THEN errors ELSE 0)

(***************************************************************************)
(* Every answer goes to the port that asked, is the answer of its oldest   *)
(* request and carries the data of the slave and register asked for,       *)
(* although slaves take one or two cycles, the other port may have taken   *)
(* the bus meanwhile, and the interconnect remembers one request only.     *)
(***************************************************************************)
AnswersInOrder ==
  [][\A m \in Master : rsp'[m] # {} => out[m] # <<>> /\ rsp'[m] = {out[m][1]}]_<<rsp, out>>

(***************************************************************************)
(* The I2C master, which looks at the bus one cycle after the request,     *)
(* writes what the request said: not less, and nothing for a read.         *)
(***************************************************************************)
I2cWritesWhatWasAsked ==
  [][ack["i2c"] # {} => i2c_wr' = {r \in ack["i2c"] : r.we}]_vars

(***************************************************************************)
(* Loads and stores are answered, and instruction fetches are granted      *)
(* although the data port always goes first: it runs out of instructions.  *)
(* (After an error the data port's count keeps the bus for good, and the   *)
(* core fetches nothing any more.)                                         *)
(***************************************************************************)
AccessesEnd == lsu # "IDLE" ~> lsu = "IDLE"
FetchesGranted == pend["instr"] # {} ~> pend["instr"] = {} \/ errors > 0
==============================================================================
