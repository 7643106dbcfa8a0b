--------------------------- MODULE SharedBusProofs ---------------------------
(***************************************************************************)
(* Proofs about the running microcontroller's bus, for any program, any    *)
(* set of slaves instructions come from and any number of fetches that the *)
(* prefetch buffer may keep outstanding.                                   *)
(***************************************************************************)
EXTENDS SharedBus, TLAPS

------------------------------------------------------------------------------
(***************************************************************************)
(* The inductive invariant.  Although the interconnect remembers one       *)
(* request only and slaves take one or two cycles, at most one request is  *)
(* ever under way: each one before it is answered in the cycle in which    *)
(* the next one may be granted.                                            *)
(***************************************************************************)
Fetch == {r \in Request : r.to \in FetchFrom /\ ~r.we /\ r.full}
Data == {r \in Request : [to |-> r.to, we |-> r.we, full |-> r.full] \in Access}
Split == {r \in Data : [to |-> r.to, we |-> r.we, full |-> r.full] \in Misaligned}
NoAck == [s \in Slave |-> {}]

\* Where a request is: at the slave that acknowledges it in this cycle, at the GPIO
\* that answers with an error, or in the first of the UART's two cycles.
Acking(r) == ack = [NoAck EXCEPT ![r.to] = {r}] /\ err = {} /\ uart_r = {}
Failing(r) == ack = NoAck /\ err = {r} /\ uart_r = {} /\ r.to = "gpio"
InUart(r) == ack = NoAck /\ err = {} /\ uart_r = {r} /\ r.to = "uart"

\* The interconnect's registers are those of the request that is under way.
UnderWay(m, r) ==
  /\ out = [n \in Master |-> IF n = m THEN <<r>> ELSE <<>>]
  /\ gnt1 = m /\ ss1 = r.to
  /\ Acking(r) \/ Failing(r) \/ InUart(r)

DataUnderWay == \E r \in Data : UnderWay("data", r) /\ line = {r} /\ (lsu = "WAIT_RVALID_MIS" => r \in Split)
FetchUnderWay == \E r \in Fetch : UnderWay("instr", r) /\ Acking(r)
Quiet == out = [n \in Master |-> <<>>] /\ ack = NoAck /\ err = {} /\ uart_r = {}

\* The load/store unit waits if and only if its access is under way, and is never
\* kept from the bus.
LsuInv ==
  /\ lsu \in {"IDLE", "WAIT_RESP", "WAIT_RVALID_MIS"}
  /\ lsu = "IDLE" => Quiet \/ FetchUnderWay
  /\ lsu # "IDLE" => DataUnderWay
  /\ pend["data"] = {}

\* After a bus error the core is idle for good.
ErrorInv == errors \in 0 .. 1 /\ (errors = 1 => Quiet /\ gnt1 = "data" /\ lsu = "IDLE" /\ fifo = 0)

\* The prefetch buffer asked for no more than it has room for.
Asked == IF pend["instr"] = {} THEN 0 ELSE 1
FifoInv == Words + Len(out["instr"]) + Asked <= DEPTH

Optionals == {S \in SUBSET Request : \A q, r \in S : q = r}
Shape ==
  /\ fifo \in Nat /\ line \in Optionals
  /\ pend \in [Master -> Optionals] /\ pend["instr"] \subseteq Fetch
  /\ rsp \in [Master -> Optionals] /\ i2c_wr \in Optionals
  /\ gnt1 \in Master \cup {"none"} /\ ss1 \in Slave \cup {"none"}

Counts == counts = [m \in Master |-> Len(out[m]) + (IF m = "data" THEN errors ELSE 0)]

Inv == Shape /\ LsuInv /\ ErrorInv /\ FifoInv /\ Counts

------------------------------------------------------------------------------
(***************************************************************************)
(* Requests.                                                               *)
(***************************************************************************)

\* The member of a set of one, and sequences of one request.
LEMMA Singles ==
  ASSUME NEW r
  PROVE  /\ (CHOOSE x \in {r} : TRUE) = r
         /\ Tail(<<r>>) = <<>> /\ Append(<<>>, r) = <<r>> /\ <<r>> # <<>> /\ <<r>>[1] = r
         /\ Len(<<r>>) = 1 /\ Len(<<>>) = 0
<1>1. (CHOOSE x \in {r} : TRUE) \in {r}
  <2>1. \E x \in {r} : TRUE OBVIOUS
  <2> QED BY <2>1
<1>2. Tail(<<r>>) = <<>> /\ Append(<<>>, r) = <<r>> /\ <<r>> # <<>> /\ <<r>>[1] = r OBVIOUS
<1>3. Len(<<r>>) = 1 /\ Len(<<>>) = 0 OBVIOUS
<1> QED BY <1>1, <1>2, <1>3

\* A tag is a tag.
LEMMA TaggedType ==
  ASSUME NEW a, a.to \in Slave, a.we \in BOOLEAN, a.full \in BOOLEAN, NEW n \in Nat
  PROVE  /\ Tagged(a, n) \in Request
         /\ Tagged(a, n).to = a.to /\ Tagged(a, n).we = a.we /\ Tagged(a, n).full = a.full
<1>1. Tags \in Nat /\ Tags > 0 BY BusAssumption DEF Tags, DEPTH
<1>2. (n + 1) % Tags \in 0 .. Tags - 1 BY <1>1
<1> QED BY <1>2 DEF Tagged, Request

\* The last tag on a port's lines.
LEMMA LastTagType ==
  ASSUME NEW S \in Optionals
  PROVE  LastTag(S) \in Nat
<1>1. CASE S = {} BY <1>1 DEF LastTag
<1>2. CASE S # {}
  <2>1. PICK r \in S : TRUE BY <1>2
  <2>2. S = {r} /\ r \in Request BY <2>1 DEF Optionals
  <2>3. LastTag(S) = r.tag BY <2>2, Singles DEF LastTag
  <2>4. Tags \in Nat BY BusAssumption DEF Tags, DEPTH
  <2>5. r.tag \in 0 .. Tags - 1 BY <2>2 DEF Request
  <2> QED BY <2>3, <2>4, <2>5
<1> QED BY <1>1, <1>2

\* What the load/store unit may request, and when.
LEMMA DataRequest ==
  ASSUME Inv, NEW d \in DataRequests, d # {}
  PROVE  /\ \E r \in Data : d = {r} /\ (lsu = "WAIT_RVALID_MIS" => r \in Split)
         /\ (lsu = "IDLE" /\ fifo > 0) \/ lsu = "WAIT_RVALID_MIS"
<1> USE DEF Inv
<1>1. pend["data"] = {} BY DEF LsuInv
<1>2. CASE lsu = "WAIT_RVALID_MIS"
  <2>1. PICK q \in Split : line = {q} BY <1>2 DEF LsuInv, DataUnderWay
  <2>2. d = {Tagged(q, q.tag)} BY <1>1, <1>2, <2>1 DEF DataRequests
  <2>3. q \in Request /\ q \in Data BY <2>1 DEF Split, Data
  <2>4. q.tag \in Nat BY <2>3, BusAssumption DEF Request, Tags, DEPTH
  <2>5. q.to \in Slave /\ q.we \in BOOLEAN /\ q.full \in BOOLEAN BY <2>3 DEF Request
  <2>6. Tagged(q, q.tag) \in Split BY <2>1, <2>3, <2>4, <2>5, TaggedType DEF Split, Data
  <2> QED BY <1>2, <2>2, <2>6 DEF Split
<1>3. CASE lsu # "WAIT_RVALID_MIS"
  <2>1. lsu = "IDLE" /\ fifo > 0 BY <1>1, <1>3 DEF DataRequests
  <2>2. PICK a \in Access : d = {Tagged(a, LastTag(line))}
    BY <1>1, <1>3, <2>1 DEF DataRequests
  <2>3. LastTag(line) \in Nat BY LastTagType DEF Shape
  <2>4. a \in Kind BY BusAssumption
  <2>5. a.to \in Slave /\ a.we \in BOOLEAN /\ a.full \in BOOLEAN
        /\ a = [to |-> a.to, we |-> a.we, full |-> a.full]
    BY <2>4 DEF Kind
  <2>6. Tagged(a, LastTag(line)) \in Data BY <2>3, <2>5, TaggedType DEF Data
  <2> QED BY <1>3, <2>1, <2>2, <2>6
<1> QED BY <1>2, <1>3

\* What the prefetch buffer may request.
LEMMA FetchRequest ==
  ASSUME Inv, NEW i \in FetchRequests, i # {}
  PROVE  \E r \in Fetch : i = {r}
<1> USE DEF Inv
<1>1. CASE pend["instr"] # {}
  <2>1. i = pend["instr"] /\ i \in Optionals /\ i \subseteq Fetch
    BY <1>1 DEF FetchRequests, Shape, Master
  <2> QED BY <2>1 DEF Optionals
<1>2. CASE pend["instr"] = {}
  <2> DEFINE a(s) == [to |-> s, we |-> FALSE, full |-> TRUE]
  <2>1. PICK s \in FetchFrom : i = {Tagged(a(s), FetchTag)} BY <1>2 DEF FetchRequests
  <2>2. FetchTag \in Nat
    <3>1. CASE out["instr"] = <<>>
      BY <3>1, LastTagType DEF FetchTag, Shape, Master
    <3>2. CASE out["instr"] # <<>>
      <4>1. FetchUnderWay BY <3>2 DEF LsuInv, Quiet, DataUnderWay, UnderWay, Master
      <4>2. PICK r \in Fetch : out["instr"] = <<r>>
        BY <4>1 DEF FetchUnderWay, UnderWay, Master
      <4>3. FetchTag = r.tag BY <3>2, <4>2, Singles DEF FetchTag
      <4> QED BY <4>3, BusAssumption DEF Fetch, Request, Tags, DEPTH
    <3> QED BY <3>1, <3>2
  <2>3. a(s).to \in Slave /\ a(s).we \in BOOLEAN /\ a(s).full \in BOOLEAN
        /\ a(s).to = s /\ ~a(s).we /\ a(s).full
    BY BusAssumption DEF Slave
  <2> HIDE DEF a
  <2>4. Tagged(a(s), FetchTag) \in Fetch BY <2>2, <2>3, TaggedType DEF Fetch
  <2> QED BY <2>1, <2>4
<1> QED BY <1>1, <1>2

------------------------------------------------------------------------------
(***************************************************************************)
(* The slaves and the interconnect in one cycle.                           *)
(***************************************************************************)

\* Who is answered in a cycle: the master whose request a slave acknowledges or the
\* GPIO refuses, and nobody else.
LEMMA Answered ==
  ASSUME NEW m \in Master, NEW r \in Request
  PROVE  /\ Quiet => \A n \in Master : ~Acked(n) /\ ~Failed(n)
         /\ UnderWay(m, r) /\ Acking(r) => \A n \in Master : (Acked(n) <=> n = m) /\ ~Failed(n)
         /\ UnderWay(m, r) /\ Failing(r) => \A n \in Master : ~Acked(n) /\ (Failed(n) <=> n = m)
         /\ UnderWay(m, r) /\ InUart(r) => \A n \in Master : ~Acked(n) /\ ~Failed(n)
<1>1. r.to \in Slave BY DEF Request
<1>2. Quiet => \A n \in Master : ~Acked(n) /\ ~Failed(n) BY DEF Quiet, Acked, Failed, NoAck
<1>3. UnderWay(m, r) /\ Acking(r) => \A n \in Master : (Acked(n) <=> n = m) /\ ~Failed(n)
  <2> SUFFICES ASSUME UnderWay(m, r), Acking(r), NEW n \in Master
               PROVE  (Acked(n) <=> n = m) /\ ~Failed(n)
    OBVIOUS
  <2>1. ack[r.to] = {r} BY <1>1 DEF Acking, NoAck
  <2>2. \E s \in Slave : ack[s] # {} BY <1>1, <2>1
  <2> QED BY <2>2 DEF UnderWay, Acking, Acked, Failed
<1>4. UnderWay(m, r) /\ Failing(r) => \A n \in Master : ~Acked(n) /\ (Failed(n) <=> n = m)
  BY DEF UnderWay, Failing, Acked, Failed, NoAck
<1>5. UnderWay(m, r) /\ InUart(r) => \A n \in Master : ~Acked(n) /\ ~Failed(n)
  BY DEF InUart, Acked, Failed, NoAck
<1> QED BY <1>2, <1>3, <1>4, <1>5

\* The slave a request is strobed to takes it, if it does not just acknowledge
\* another one.
LEMMA Accepted ==
  ASSUME NEW req, NEW r \in Request, Strobed(req) = {r}, err = {}, uart_r = {},
         r.to \in {"i2c", "gpio"} => ack[r.to] = {}, AckStep(req)
  PROVE  /\ Acking(r)' \/ Failing(r)' \/ InUart(r)'
         /\ r.to \in {"imem", "dmem"} => Acking(r)'
<1>1. r.to \in Slave BY DEF Request
<1>2. \A s \in Slave : To(req, s) = IF s = r.to THEN {r} ELSE {} BY DEF To
<1>3. uart_r' = IF r.to = "uart" THEN {r} ELSE {} BY <1>2 DEF AckStep, Slave
<1>4. err' = IF r.to = "gpio" /\ ~r.full THEN {r} ELSE {}
  <2>1. To(req, "gpio") = IF r.to = "gpio" THEN {r} ELSE {} BY <1>2 DEF Slave
  <2> QED BY <2>1 DEF AckStep
<1>5. GpioAck(req) = IF r.to = "gpio" /\ r.full THEN {r} ELSE {}
  <2>1. To(req, "gpio") = IF r.to = "gpio" THEN {r} ELSE {} BY <1>2 DEF Slave
  <2>2. r.to = "gpio" => ack["gpio"] = {} OBVIOUS
  <2> QED BY <2>1, <2>2 DEF GpioAck
<1>6. DOMAIN ack' = Slave BY DEF AckStep
<1>7. \A s \in Slave : ack'[s] =
         IF s = r.to /\ s # "uart" /\ ~(s = "gpio" /\ ~r.full) THEN {r} ELSE {}
  <2> SUFFICES ASSUME NEW s \in Slave
               PROVE  ack'[s] = IF s = r.to /\ s # "uart" /\ ~(s = "gpio" /\ ~r.full)
                                THEN {r} ELSE {}
    OBVIOUS
  <2>1. CASE s \in {"imem", "dmem", "pit"} BY <1>2, <2>1 DEF AckStep
  <2>2. CASE s = "i2c" BY <1>2, <2>2 DEF AckStep
  <2>3. CASE s = "gpio" BY <1>5, <2>3 DEF AckStep
  <2>4. CASE s = "uart" BY <2>4 DEF AckStep
  <2> QED BY <2>1, <2>2, <2>3, <2>4 DEF Slave
<1>8. ack' = [s \in Slave |-> ack'[s]] BY DEF AckStep
<1>9. CASE r.to = "uart"
  <2>1. ack' = NoAck BY <1>6, <1>7, <1>8, <1>9 DEF NoAck
  <2> QED BY <1>3, <1>4, <1>9, <2>1 DEF InUart
<1>10. CASE r.to = "gpio" /\ ~r.full
  <2>1. ack' = NoAck BY <1>6, <1>7, <1>8, <1>10 DEF NoAck
  <2> QED BY <1>3, <1>4, <1>10, <2>1 DEF Failing
<1>11. CASE r.to # "uart" /\ ~(r.to = "gpio" /\ ~r.full)
  <2>1. \A s \in Slave : ack'[s] = IF s = r.to THEN {r} ELSE {} BY <1>7, <1>11
  <2>2. [NoAck EXCEPT ![r.to] = {r}] = [s \in Slave |-> IF s = r.to THEN {r} ELSE {}]
    BY DEF NoAck
  <2>3. ack' = [NoAck EXCEPT ![r.to] = {r}] BY <1>8, <2>1, <2>2
  <2> QED BY <1>3, <1>4, <1>11, <2>3 DEF Acking
<1> QED BY <1>9, <1>10, <1>11

\* Without a strobe nothing new gets under way; the UART goes on.
LEMMA NotStrobed ==
  ASSUME NEW req, Strobed(req) = {}, AckStep(req)
  PROVE  /\ err' = {} /\ uart_r' = {}
         /\ uart_r = {} => ack' = NoAck
         /\ \A r : uart_r = {r} /\ r.to = "uart" /\ Gnt(req) # "none" => Acking(r)'
<1>1. \A s \in Slave : To(req, s) = {} BY DEF To
<1>2. err' = {} /\ uart_r' = {} /\ GpioAck(req) = {} BY <1>1 DEF AckStep, GpioAck, Slave
<1>3. \A s \in Slave : ack'[s] = IF s = "uart" /\ Gnt(req) # "none" THEN uart_r ELSE {}
  BY <1>1, <1>2 DEF AckStep, Slave
<1>4. ack' = [s \in Slave |-> ack'[s]] BY DEF AckStep
<1>5. uart_r = {} => ack' = NoAck BY <1>3, <1>4 DEF NoAck
<1>6. ASSUME NEW r, uart_r = {r}, r.to = "uart", Gnt(req) # "none"
      PROVE  Acking(r)'
  <2>1. [NoAck EXCEPT !["uart"] = {r}] = [s \in Slave |-> IF s = "uart" THEN {r} ELSE {}]
    BY DEF NoAck
  <2>2. ack' = [s \in Slave |-> IF s = "uart" THEN {r} ELSE {}] BY <1>3, <1>4, <1>6
  <2> QED BY <1>2, <1>6, <2>1, <2>2 DEF Acking
<1> QED BY <1>2, <1>5, <1>6

------------------------------------------------------------------------------
(***************************************************************************)
(* The three situations the bus can be in.                                 *)
(***************************************************************************)
Idle == Quiet /\ lsu = "IDLE" /\ counts["data"] = errors /\ counts["instr"] = 0
Fetching(r) ==
  /\ UnderWay("instr", r) /\ Acking(r) /\ r \in Fetch
  /\ lsu = "IDLE" /\ errors = 0 /\ counts["data"] = 0 /\ counts["instr"] = 1
Accessing(r) ==
  /\ UnderWay("data", r) /\ line = {r} /\ r \in Data /\ errors = 0
  /\ lsu = "WAIT_RESP" \/ (lsu = "WAIT_RVALID_MIS" /\ r \in Split)
  /\ counts["data"] = 1 /\ counts["instr"] = 0

\* Either nothing is under way, or a fetch, or a load or store.
LEMMA Situation ==
  ASSUME Inv
  PROVE  Idle \/ (\E r : Fetching(r)) \/ (\E r : Accessing(r))
<1> USE DEF Inv
<1>1. errors \in 0 .. 1 /\ (errors = 1 => Quiet) BY DEF ErrorInv
<1>2. counts["data"] = Len(out["data"]) + errors /\ counts["instr"] = Len(out["instr"])
  BY <1>1 DEF Counts, Master
<1>3. CASE lsu = "IDLE" /\ Quiet
  <2>1. out["data"] = <<>> /\ out["instr"] = <<>> BY <1>3 DEF Quiet, Master
  <2> QED BY <1>1, <1>2, <1>3, <2>1, Singles DEF Idle
<1>4. CASE lsu = "IDLE" /\ FetchUnderWay
  <2>1. PICK r \in Fetch : UnderWay("instr", r) /\ Acking(r) BY <1>4 DEF FetchUnderWay
  <2>2. out["data"] = <<>> /\ out["instr"] = <<r>> BY <2>1 DEF UnderWay, Master
  <2>3. ~Quiet BY <2>2, Singles DEF Quiet, Master
  <2>4. errors = 0 BY <1>1, <2>3
  <2> QED BY <1>2, <1>4, <2>1, <2>2, <2>4, Singles DEF Fetching
<1>5. CASE lsu # "IDLE"
  <2>1. PICK r \in Data : UnderWay("data", r) /\ line = {r}
                          /\ (lsu = "WAIT_RVALID_MIS" => r \in Split)
    BY <1>5 DEF LsuInv, DataUnderWay
  <2>2. out["data"] = <<r>> /\ out["instr"] = <<>> BY <2>1 DEF UnderWay, Master
  <2>3. ~Quiet BY <2>2, Singles DEF Quiet, Master
  <2>4. errors = 0 BY <1>1, <2>3
  <2>5. lsu = "WAIT_RESP" \/ lsu = "WAIT_RVALID_MIS" BY <1>5 DEF LsuInv
  <2> QED BY <1>2, <2>1, <2>2, <2>4, <2>5, Singles DEF Accessing
<1> QED BY <1>3, <1>4, <1>5 DEF LsuInv

\* Fetches, and both halves of a misaligned access, go to memory.
LEMMA ToMemory ==
  /\ \A r \in Fetch : r \in Request /\ r.to \in {"imem", "dmem"}
  /\ \A r \in Split : r \in Data /\ r.to \in {"imem", "dmem"}
  /\ \A r \in Data : r \in Request
<1>1. \A r \in Fetch : r \in Request /\ r.to \in {"imem", "dmem"} BY BusAssumption DEF Fetch
<1>2. \A r \in Data : r \in Request BY DEF Data
<1>3. \A r \in Split : r \in Data /\ r.to \in {"imem", "dmem"} BY BusAssumption DEF Split
<1> QED BY <1>1, <1>2, <1>3

\* The access to memory that is under way is being acknowledged.
LEMMA MemoryAcks ==
  ASSUME NEW m, NEW r, UnderWay(m, r), r.to \in {"imem", "dmem"}
  PROVE  Acking(r)
BY DEF UnderWay, Failing, InUart

\* A request that is granted is under way afterwards, if all earlier ones are answered
\* in that cycle.
LEMMA Granted ==
  ASSUME NEW req, NEW m \in Master, NEW r \in Request, req[m] = {r}, Gnt(req) = m,
         \A n \in Master : out[n] = <<>> \/ (RValid(req, n) /\ \E q : out[n] = <<q>>),
         err = {}, uart_r = {}, r.to \in {"i2c", "gpio"} => ack[r.to] = {},
         PortStep(req), RouteStep(req), AckStep(req)
  PROVE  UnderWay(m, r)' /\ (r.to \in {"imem", "dmem"} => Acking(r)')
<1>1. Strobed(req) = {r} BY DEF Strobed, Master
<1>2. gnt1' = m /\ ss1' = r.to BY <1>1 DEF RouteStep
<1>3. /\ Acking(r)' \/ Failing(r)' \/ InUart(r)'
      /\ r.to \in {"imem", "dmem"} => Acking(r)'
  BY <1>1, Accepted
<1>4. out' = [n \in Master |-> IF n = m THEN <<r>> ELSE <<>>]
  <2>1. out' = [n \in Master |-> out'[n]] BY DEF PortStep
  <2>2. ASSUME NEW n \in Master PROVE out'[n] = IF n = m THEN <<r>> ELSE <<>>
    <3> DEFINE left == IF RValid(req, n) /\ out[n] # <<>> THEN Tail(out[n]) ELSE out[n]
    <3>1. left = <<>>
      <4>1. CASE out[n] = <<>> BY <4>1
      <4>2. CASE RValid(req, n) /\ \E q : out[n] = <<q>>
        <5>1. PICK q : out[n] = <<q>> BY <4>2
        <5>2. Tail(<<q>>) = <<>> /\ <<q>> # <<>> BY Singles
        <5> QED BY <4>2, <5>1, <5>2
      <4> QED BY <4>1, <4>2
    <3>2. out'[n] = IF req[n] # {} /\ Gnt(req) = n THEN Append(left, CHOOSE x \in req[n] : TRUE)
                    ELSE left
      BY DEF PortStep
    <3> HIDE DEF left
    <3>3. CASE n = m
      <4>1. out'[n] = Append(<<>>, CHOOSE x \in {r} : TRUE) BY <3>1, <3>2, <3>3
      <4> QED BY <4>1, <3>3, Singles
    <3>4. CASE n # m BY <3>1, <3>2, <3>4
    <3> QED BY <3>3, <3>4
  <2> QED BY <2>1, <2>2
<1> QED BY <1>2, <1>3, <1>4 DEF UnderWay

\* When no request is granted, answers take theirs off the list.
LEMMA NotGranted ==
  ASSUME NEW req, Strobed(req) = {}, PortStep(req), RouteStep(req), AckStep(req)
  PROVE  /\ gnt1' = gnt1 /\ ss1' = ss1
         /\ out' = [n \in Master |-> IF RValid(req, n) /\ out[n] # <<>> THEN Tail(out[n]) ELSE out[n]]
<1>1. gnt1' = gnt1 /\ ss1' = ss1 BY DEF RouteStep
<1>2. \A n \in Master : ~(req[n] # {} /\ Gnt(req) = n) BY DEF Strobed, Master
<1>3. out' = [n \in Master |-> out'[n]] BY DEF PortStep
<1>4. \A n \in Master :
        out'[n] = IF RValid(req, n) /\ out[n] # <<>> THEN Tail(out[n]) ELSE out[n]
  BY <1>2 DEF PortStep
<1> QED BY <1>1, <1>3, <1>4

------------------------------------------------------------------------------
(***************************************************************************)
(* Answers.                                                                *)
(***************************************************************************)

\* While the load/store unit waits for an answer, its port requests nothing and has
\* the bus, so that the address lines still show its access.
LEMMA LinesStay ==
  ASSUME Inv, NEW req, req["data"] \in DataRequests, NEW r, Accessing(r),
         r.to \notin {"imem", "dmem"}
  PROVE  lsu = "WAIT_RESP" /\ req["data"] = {} /\ Gnt(req) = "data" /\ Lines(req) = {r}
<1>1. lsu = "WAIT_RESP" BY ToMemory DEF Accessing
<1>2. pend["data"] = {} BY DEF Inv, LsuInv
<1>3. req["data"] = {} BY <1>1, <1>2 DEF DataRequests
<1>4. Gnt(req) = "data" BY DEF Accessing, Gnt, Cyc
<1> QED BY <1>1, <1>3, <1>4 DEF Lines, Accessing

\* A port that is answered has one request outstanding and is given its answer.
LEMMA AnswerRight ==
  ASSUME Inv, NEW req, req["data"] \in DataRequests, NEW m \in Master, RValid(req, m)
  PROVE  \E q \in Request : out[m] = <<q>> /\ Answer(req) = {q}
<1>0. Acked(m) \/ Failed(m) BY DEF RValid
<1>1. CASE Idle
  <2>1. PICK r0 \in Request : TRUE
    <3>1. 0 \in 0 .. Tags - 1 BY BusAssumption DEF Tags, DEPTH
    <3>2. [to |-> "imem", we |-> FALSE, full |-> TRUE, tag |-> 0] \in Request
      BY <3>1 DEF Request, Slave
    <3> QED BY <3>2
  <2> QED BY <1>0, <1>1, <2>1, Answered DEF Idle
<1>2. ASSUME NEW r, Fetching(r)
      PROVE  \E q \in Request : out[m] = <<q>> /\ Answer(req) = {q}
  <2>1. r \in Request /\ r.to \in {"imem", "dmem"} BY <1>2, ToMemory DEF Fetching
  <2>2. "instr" \in Master BY DEF Master
  <2>3. m = "instr" BY <1>0, <1>2, <2>1, <2>2, Answered DEF Fetching
  <2>4. out[m] = <<r>> /\ ss1 = r.to BY <1>2, <2>3 DEF Fetching, UnderWay
  <2>5. ack[r.to] = {r} BY <1>2, <2>1 DEF Fetching, Acking, NoAck, Slave
  <2>6. Answer(req) = {r} BY <2>1, <2>4, <2>5 DEF Answer
  <2> QED BY <2>1, <2>4, <2>6
<1>3. ASSUME NEW r, Accessing(r)
      PROVE  \E q \in Request : out[m] = <<q>> /\ Answer(req) = {q}
  <2>1. r \in Request /\ r.to \in Slave BY <1>3, ToMemory DEF Accessing, Request
  <2>2. "data" \in Master BY DEF Master
  <2>3. UnderWay("data", r) /\ (Acking(r) \/ Failing(r) \/ InUart(r))
    BY <1>3 DEF Accessing, UnderWay
  <2>4. m = "data" /\ ~(UnderWay("data", r) /\ InUart(r))
    BY <1>0, <2>1, <2>2, <2>3, Answered
  <2>5. out[m] = <<r>> /\ ss1 = r.to BY <2>2, <2>3, <2>4 DEF UnderWay
  <2>6. CASE Acking(r)
    <3>1. ack[r.to] = {r} /\ err = {} BY <2>1, <2>6 DEF Acking, NoAck
    <3>2. r.to = "pit" => Lines(req) = {r} BY <1>3, LinesStay
    <3>3. Answer(req) = {r} BY <2>1, <2>5, <3>1, <3>2 DEF Answer, Slave
    <3> QED BY <2>1, <2>5, <3>3
  <2>7. CASE Failing(r)
    <3>1. ack["gpio"] = {} /\ err = {r} /\ r.to = "gpio" BY <2>7 DEF Failing, NoAck, Slave
    <3>2. Answer(req) = {r} BY <2>5, <3>1 DEF Answer
    <3> QED BY <2>1, <2>5, <3>2
  <2> QED BY <2>3, <2>4, <2>6, <2>7
<1> QED BY <1>1, <1>2, <1>3, Situation

\* The lines show the request that the I2C master acknowledges.
LEMMA I2cSees ==
  ASSUME Inv, NEW req, req["data"] \in DataRequests, ack["i2c"] # {}
  PROVE  Lines(req) = ack["i2c"] /\ \E r \in Request : ack["i2c"] = {r}
<1>1. ~Idle BY DEF Idle, Quiet, NoAck, Slave
<1>2. ASSUME NEW r, Fetching(r) PROVE FALSE
  BY <1>2, ToMemory DEF Fetching, Acking, NoAck, Slave
<1>3. PICK r : Accessing(r) BY <1>1, <1>2, Situation
<1>4. Acking(r) /\ r.to = "i2c" /\ r \in Request
  BY <1>3, ToMemory DEF Accessing, UnderWay, Acking, Failing, InUart, NoAck, Slave
<1>5. ack["i2c"] = {r} BY <1>4 DEF Acking, NoAck, Slave
<1>6. Lines(req) = {r} BY <1>3, <1>4, LinesStay
<1> QED BY <1>4, <1>5, <1>6

------------------------------------------------------------------------------
(***************************************************************************)
(* The steps.                                                              *)
(***************************************************************************)

\* A load or store is granted at once, whatever fetch is under way.
LEMMA AccessStep ==
  ASSUME Inv, NEW req, req["data"] \in DataRequests, req["data"] # {},
         NEW split, NEW take, NEW keep, Cycle(req, split, take, keep)
  PROVE  /\ LsuInv' /\ errors = 0 /\ errors' = 0 /\ out'["instr"] = <<>>
         /\ Gnt(req) = "data"
<1> USE DEF Cycle
<1>1. PICK r \in Data : req["data"] = {r} /\ (lsu = "WAIT_RVALID_MIS" => r \in Split)
  BY DataRequest
<1>2. (lsu = "IDLE" /\ fifo > 0) \/ lsu = "WAIT_RVALID_MIS" BY DataRequest
<1>3. Gnt(req) = "data" BY DEF Gnt, Cyc
<1>4. r \in Request BY <1>1, ToMemory
<1> DEFINE Free ==
      /\ errors = 0 /\ ~Failed("data") /\ err = {} /\ uart_r = {}
      /\ r.to \in {"i2c", "gpio"} => ack[r.to] = {}
      /\ \A n \in Master : out[n] = <<>> \/ (RValid(req, n) /\ \E q : out[n] = <<q>>)
      /\ lsu = "WAIT_RVALID_MIS" => RValid(req, "data")
<1>5. Free
  <2>1. CASE Idle
    <3>1. errors = 0 BY <1>2, <2>1 DEF Inv, ErrorInv, Idle
    <3> QED BY <1>2, <2>1, <3>1 DEF Idle, Quiet, NoAck, Slave, Failed
  <2>2. ASSUME NEW q, Fetching(q) PROVE Free
    <3>1. q \in Request /\ q.to \in {"imem", "dmem"} BY <2>2, ToMemory DEF Fetching
    <3>2. "instr" \in Master /\ "data" \in Master BY DEF Master
    <3>3. Acked("instr") /\ ~Failed("data") BY <2>2, <3>1, <3>2, Answered DEF Fetching
    <3>4. RValid(req, "instr") BY <2>2, <3>3 DEF RValid, Cyc, Fetching
    <3>5. out["instr"] = <<q>> /\ out["data"] = <<>> BY <2>2, <3>2 DEF Fetching, UnderWay
    <3>6. err = {} /\ uart_r = {} /\ ack["i2c"] = {} /\ ack["gpio"] = {}
      BY <2>2, <3>1 DEF Fetching, Acking, NoAck, Slave
    <3>7. \A n \in Master : out[n] = <<>> \/ (RValid(req, n) /\ \E x : out[n] = <<x>>)
      BY <3>4, <3>5 DEF Master
    <3> QED BY <1>2, <2>2, <3>3, <3>6, <3>7 DEF Fetching
  <2>3. ASSUME NEW q, Accessing(q) PROVE Free
    <3>1. lsu = "WAIT_RVALID_MIS" /\ q \in Split BY <1>2, <2>3 DEF Accessing
    <3>2. q \in Request /\ q.to \in {"imem", "dmem"} BY <3>1, ToMemory
    <3>3. "instr" \in Master /\ "data" \in Master BY DEF Master
    <3>4. UnderWay("data", q) /\ Acking(q) BY <2>3, <3>2, MemoryAcks DEF Accessing
    <3>5. Acked("data") /\ ~Failed("data") BY <3>2, <3>3, <3>4, Answered
    <3>6. RValid(req, "data") BY <3>5 DEF RValid, Cyc
    <3>7. out["instr"] = <<>> /\ out["data"] = <<q>> BY <3>3, <3>4 DEF UnderWay
    <3>8. err = {} /\ uart_r = {} /\ ack["i2c"] = {} /\ ack["gpio"] = {}
      BY <3>2, <3>4 DEF Acking, NoAck, Slave
    <3>9. \A n \in Master : out[n] = <<>> \/ (RValid(req, n) /\ \E x : out[n] = <<x>>)
      BY <3>6, <3>7 DEF Master
    <3> QED BY <2>3, <3>5, <3>6, <3>8, <3>9 DEF Accessing
  <2> QED BY <2>1, <2>2, <2>3, Situation
<1>6. UnderWay("data", r)'
  BY <1>1, <1>3, <1>4, <1>5, Granted DEF Master
<1>7. line' = {r} /\ pend'["data"] = {} BY <1>1, <1>3 DEF PortStep, Master
<1>8. lsu' = "WAIT_RESP" \/ (lsu' = "WAIT_RVALID_MIS" /\ r \in Split)
  <2>1. CASE lsu = "IDLE"
    <3>1. NewAccess(req) BY <2>1 DEF NewAccess
    <3>3. split => r \in Split BY <1>1, <2>1, <3>1 DEF LsuStep, Split
    <3>4. lsu' = IF ~split THEN "WAIT_RESP" ELSE "WAIT_RVALID_MIS"
      BY <1>3, <2>1, <3>1 DEF LsuStep
    <3> QED BY <3>3, <3>4
  <2>2. CASE lsu = "WAIT_RVALID_MIS"
    BY <1>3, <1>5, <2>2 DEF LsuStep, NewAccess
  <2> QED BY <1>2, <2>1, <2>2
<1>9. DataUnderWay' BY <1>1, <1>6, <1>7, <1>8 DEF DataUnderWay
<1>10. out'["instr"] = <<>> BY <1>6 DEF UnderWay, Master
<1>11. errors' = 0 BY <1>5
<1> QED BY <1>3, <1>5, <1>7, <1>8, <1>9, <1>10, <1>11 DEF LsuInv

\* While a load or store waits: it is answered, or it is in the UART's first cycle.
LEMMA WaitStep ==
  ASSUME Inv, NEW req, req["data"] \in DataRequests, req["data"] = {},
         NEW r, Accessing(r),
         NEW split, NEW take, NEW keep, Cycle(req, split, take, keep)
  PROVE  LsuInv' /\ ErrorInv' /\ out'["instr"] = <<>> /\ Gnt(req) = "data"
<1> USE DEF Cycle
<1>1. Gnt(req) = "data" /\ Strobed(req) = {} BY DEF Accessing, Gnt, Cyc, Strobed
<1>2. pend["data"] = {} BY DEF Inv, LsuInv
<1>3. lsu = "WAIT_RESP"
  <2>1. line = {r} BY DEF Accessing
  <2>2. lsu = "WAIT_RVALID_MIS" => req["data"] = {Tagged(r, r.tag)}
    BY <1>2, <2>1 DEF DataRequests
  <2> QED BY <2>2 DEF Accessing
<1>4. r \in Request /\ r \in Data /\ errors = 0 /\ UnderWay("data", r)
  BY ToMemory DEF Accessing
<1>5. "data" \in Master /\ "instr" \in Master BY DEF Master
<1>6. pend'["data"] = {} /\ line' = line BY <1>1, <1>5 DEF PortStep
<1>7. out["data"] = <<r>> /\ out["instr"] = <<>> /\ gnt1 = "data"
  BY <1>4, <1>5 DEF UnderWay
<1>8. /\ gnt1' = gnt1 /\ ss1' = ss1
      /\ out' = [n \in Master |-> IF RValid(req, n) /\ out[n] # <<>> THEN Tail(out[n]) ELSE out[n]]
  BY <1>1, NotGranted
<1>9. out'["instr"] = <<>> BY <1>5, <1>7, <1>8
<1>10. err' = {} /\ uart_r' = {} /\ (uart_r = {} => ack' = NoAck) BY <1>1, NotStrobed
<1>11. lsu' = IF RValid(req, "data") THEN "IDLE" ELSE "WAIT_RESP"
  BY <1>1, <1>3 DEF LsuStep, NewAccess
<1>12. CASE Acking(r) \/ Failing(r)
  <2>1. Acked("data") \/ Failed("data") BY <1>4, <1>5, <1>12, Answered
  <2>2. RValid(req, "data") BY <2>1 DEF RValid, Cyc, Accessing
  <2>3. out'["data"] = <<>> BY <1>5, <1>7, <1>8, <2>2, Singles
  <2>4. out' = [n \in Master |-> <<>>]
    <3>1. \A n \in Master : out'[n] = <<>> BY <1>9, <2>3 DEF Master
    <3>2. out' = [n \in Master |-> out'[n]] BY <1>8
    <3> QED BY <3>1, <3>2
  <2>5. uart_r = {} BY <1>12 DEF Acking, Failing
  <2>6. Quiet' BY <1>10, <2>4, <2>5 DEF Quiet
  <2>7. LsuInv' BY <1>6, <1>11, <2>2, <2>6 DEF LsuInv
  <2>8. errors' = 0 \/ (errors' = 1 /\ fifo' = 0) BY <1>4 DEF FifoStep
  <2>9. ErrorInv' BY <1>7, <1>8, <1>11, <2>2, <2>6, <2>8 DEF ErrorInv
  <2> QED BY <1>1, <1>9, <2>7, <2>9
<1>13. CASE InUart(r)
  <2>1. \A n \in Master : ~Acked(n) /\ ~Failed(n) BY <1>4, <1>5, <1>13, Answered
  <2>2. \A n \in Master : ~RValid(req, n) BY <2>1 DEF RValid
  <2>3. lsu' = "WAIT_RESP" /\ errors' = 0 BY <1>4, <1>5, <1>11, <2>1, <2>2
  <2>4. out' = out
    <3>1. out = [n \in Master |-> out[n]] BY <1>4 DEF UnderWay
    <3> QED BY <1>8, <2>2, <3>1
  <2>5. Acking(r)' BY <1>1, <1>13, NotStrobed DEF InUart
  <2>6. UnderWay("data", r)' BY <1>4, <1>8, <2>4, <2>5 DEF UnderWay
  <2>7. DataUnderWay' BY <1>4, <1>6, <2>3, <2>6 DEF DataUnderWay, Accessing
  <2>8. LsuInv' BY <1>6, <2>3, <2>7 DEF LsuInv
  <2>9. ErrorInv' BY <2>3 DEF ErrorInv
  <2> QED BY <1>1, <1>9, <2>8, <2>9
<1> QED BY <1>4, <1>12, <1>13 DEF UnderWay

\* The load/store unit does nothing: what is under way is a fetch, which is answered.
LEMMA FetchAnswered ==
  ASSUME Inv, NEW req, Idle \/ \E r : Fetching(r)
  PROVE  /\ \A n \in Master : out[n] = <<>> \/ (RValid(req, n) /\ \E q : out[n] = <<q>>)
         /\ err = {} /\ uart_r = {} /\ ~Failed("data") /\ lsu = "IDLE" /\ out["data"] = <<>>
<1>1. CASE Idle BY <1>1 DEF Idle, Quiet, Failed, Master
<1>2. ASSUME NEW r, Fetching(r)
      PROVE  /\ \A n \in Master : out[n] = <<>> \/ (RValid(req, n) /\ \E q : out[n] = <<q>>)
             /\ err = {} /\ uart_r = {} /\ ~Failed("data") /\ lsu = "IDLE" /\ out["data"] = <<>>
  <2>1. r \in Request BY <1>2, ToMemory DEF Fetching
  <2>2. "instr" \in Master /\ "data" \in Master BY DEF Master
  <2>3. Acked("instr") /\ ~Failed("data") BY <1>2, <2>1, <2>2, Answered DEF Fetching
  <2>4. RValid(req, "instr") BY <1>2, <2>3 DEF RValid, Cyc, Fetching
  <2>5. out["instr"] = <<r>> /\ out["data"] = <<>> BY <1>2, <2>2 DEF Fetching, UnderWay
  <2>6. \A n \in Master : out[n] = <<>> \/ (RValid(req, n) /\ \E x : out[n] = <<x>>)
    BY <2>4, <2>5 DEF Master
  <2> QED BY <1>2, <2>3, <2>5, <2>6 DEF Fetching, Acking
<1> QED BY <1>1, <1>2

\* The prefetch buffer has the bus to itself, or nobody uses it.
LEMMA FetchStep ==
  ASSUME Inv, NEW req, req["data"] = {}, req["instr"] \in FetchRequests,
         Idle \/ \E r : Fetching(r),
         NEW split, NEW take, NEW keep, Cycle(req, split, take, keep)
  PROVE  /\ LsuInv' /\ ErrorInv'
         /\ Len(out'["instr"]) = IF req["instr"] # {} /\ Gnt(req) = "instr" THEN 1 ELSE 0
<1> USE DEF Cycle
<1>0. "data" \in Master /\ "instr" \in Master BY DEF Master
<1>1. /\ \A n \in Master : out[n] = <<>> \/ (RValid(req, n) /\ \E q : out[n] = <<q>>)
      /\ err = {} /\ uart_r = {} /\ ~Failed("data") /\ lsu = "IDLE" /\ out["data"] = <<>>
  BY FetchAnswered
<1>2. pend'["data"] = {} BY <1>0 DEF PortStep
<1>3. lsu' = "IDLE" /\ errors' = errors BY <1>1 DEF LsuStep, NewAccess
<1>4. CASE req["instr"] # {} /\ Gnt(req) = "instr"
  <2>1. PICK r \in Fetch : req["instr"] = {r} BY <1>4, FetchRequest
  <2>2. r \in Request /\ r.to \in {"imem", "dmem"} BY <2>1, ToMemory
  <2>3. UnderWay("instr", r)' /\ Acking(r)' BY <1>0, <1>1, <1>4, <2>1, <2>2, Granted
  <2>4. FetchUnderWay' BY <2>1, <2>3 DEF FetchUnderWay
  <2>5. LsuInv' BY <1>2, <1>3, <2>4 DEF LsuInv
  <2>6. errors = 0
    <3>1. CASE Idle
      <4>1. counts["data"] = errors /\ ~(counts["data"] > 0) BY <1>4, <3>1 DEF Idle, Gnt, Cyc
      <4> QED BY <4>1 DEF Inv, ErrorInv
    <3>2. CASE \E q : Fetching(q) BY <3>2 DEF Fetching
    <3> QED BY <3>1, <3>2
  <2>7. ErrorInv' BY <1>3, <2>6 DEF ErrorInv
  <2>8. Len(out'["instr"]) = 1 BY <1>0, <2>3, Singles DEF UnderWay
  <2> QED BY <1>4, <2>5, <2>7, <2>8
<1>5. CASE ~(req["instr"] # {} /\ Gnt(req) = "instr")
  <2>1. Strobed(req) = {} BY <1>5 DEF Strobed, Gnt
  <2>2. /\ gnt1' = gnt1 /\ ss1' = ss1
        /\ out' = [n \in Master |-> IF RValid(req, n) /\ out[n] # <<>> THEN Tail(out[n]) ELSE out[n]]
    BY <2>1, NotGranted
  <2>3. \A n \in Master : out'[n] = <<>> BY <1>1, <2>2, Singles
  <2>4. out' = [n \in Master |-> <<>>]
    <3>1. out' = [n \in Master |-> out'[n]] BY <2>2
    <3> QED BY <2>3, <3>1
  <2>5. Quiet' BY <1>1, <2>1, <2>4, NotStrobed DEF Quiet
  <2>6. LsuInv' BY <1>2, <1>3, <2>5 DEF LsuInv
  <2>7. ErrorInv'
    <3>1. errors \in 0 .. 1 BY DEF Inv, ErrorInv
    <3>2. CASE errors = 1
      <4>1. Quiet /\ gnt1 = "data" /\ fifo = 0 BY <3>2 DEF Inv, ErrorInv
      <4>2. ~RValid(req, "instr") BY <4>1 DEF RValid, Acked, Failed, Quiet, NoAck
      <4>3. ~keep /\ take = 0 BY <1>1, <4>1, <4>2 DEF FifoStep, NewAccess
      <4>4. fifo' = 0 BY <1>1, <4>1, <4>3 DEF FifoStep
      <4> QED BY <1>3, <2>2, <2>5, <3>1, <4>1, <4>4 DEF ErrorInv
    <3>3. CASE errors # 1 BY <1>3, <3>1, <3>3 DEF ErrorInv
    <3> QED BY <3>2, <3>3
  <2>8. Len(out'["instr"]) = 0 BY <1>0, <2>3, Singles
  <2> QED BY <1>5, <2>6, <2>7, <2>8
<1> QED BY <1>4, <1>5

\* One step of the whole: the fetches that were asked for before are answered or wait.
LEMMA StepFlow ==
  ASSUME Inv, NEW req, req["data"] \in DataRequests, req["instr"] \in FetchRequests,
         NEW split, NEW take, NEW keep, Cycle(req, split, take, keep)
  PROVE  /\ LsuInv' /\ ErrorInv'
         /\ Len(out'["instr"]) + Asked' = IF req["instr"] = {} THEN 0 ELSE 1
<1>0. pend'["instr"] = IF Gnt(req) = "instr" THEN {} ELSE req["instr"]
  BY DEF Cycle, PortStep, Master
<1>1. CASE req["data"] # {}
  <2>1. /\ LsuInv' /\ errors' = 0 /\ out'["instr"] = <<>> /\ Gnt(req) = "data"
    BY <1>1, AccessStep
  <2>2. ErrorInv' BY <2>1 DEF ErrorInv
  <2> QED BY <1>0, <2>1, <2>2, Singles DEF Asked
<1>2. ASSUME req["data"] = {}, NEW r, Accessing(r)
      PROVE  /\ LsuInv' /\ ErrorInv'
             /\ Len(out'["instr"]) + Asked' = IF req["instr"] = {} THEN 0 ELSE 1
  <2>1. LsuInv' /\ ErrorInv' /\ out'["instr"] = <<>> /\ Gnt(req) = "data"
    BY <1>2, WaitStep
  <2> QED BY <1>0, <2>1, Singles DEF Asked
<1>3. CASE req["data"] = {} /\ (Idle \/ \E r : Fetching(r))
  <2>1. /\ LsuInv' /\ ErrorInv'
        /\ Len(out'["instr"]) = IF req["instr"] # {} /\ Gnt(req) = "instr" THEN 1 ELSE 0
    BY <1>3, FetchStep
  <2> QED BY <1>0, <2>1 DEF Asked
<1> QED BY <1>1, <1>2, <1>3, Situation

\* The lengths of a list that loses its only member or gains one.
LEMMA Lengths ==
  ASSUME NEW s, s = <<>> \/ \E q : s = <<q>>, NEW r
  PROVE  Len(Append(s, r)) = Len(s) + 1 /\ (s # <<>> => Len(Tail(s)) = 0 /\ Len(s) = 1)
         /\ (s # <<>> => Len(Append(Tail(s), r)) = 1) /\ Len(s) \in 0 .. 1
<1>1. CASE s = <<>> BY <1>1
<1>2. CASE \E q : s = <<q>>
  <2>1. PICK q : s = <<q>> BY <1>2
  <2>2. s \in Seq({q, r}) BY <2>1
  <2>3. Tail(s) = <<>> /\ Len(s) = 1 BY <2>1
  <2>4. Len(Append(s, r)) = Len(s) + 1 BY <2>2
  <2> QED BY <2>1, <2>3, <2>4
<1> QED BY <1>1, <1>2

\* A count goes up with a grant and down with an acknowledge, and not with an error.
LEMMA CountsKept ==
  ASSUME Inv, NEW req, req["data"] \in DataRequests,
         NEW split, NEW take, NEW keep, Cycle(req, split, take, keep)
  PROVE  Counts'
<1> USE DEF Cycle
<1>0. "data" \in Master /\ "instr" \in Master BY DEF Master
<1>1. errors \in 0 .. 1 BY DEF Inv, ErrorInv
<1> DEFINE Facts(n) ==
      /\ out[n] = <<>> \/ \E q : out[n] = <<q>>
      /\ Acked(n) \/ Failed(n) => out[n] # <<>>
      /\ Failed(n) => n = "data" /\ ~Acked(n)
<1>2. ASSUME NEW n \in Master PROVE Facts(n)
  <2>1. CASE Idle BY <2>1 DEF Idle, Quiet, Acked, Failed, NoAck
  <2>2. ASSUME NEW r, Fetching(r) PROVE Facts(n)
    <3>1. r \in Request BY <2>2, ToMemory DEF Fetching
    <3>2. (Acked(n) <=> n = "instr") /\ ~Failed(n) BY <1>0, <2>2, <3>1, Answered DEF Fetching
    <3>3. out[n] = IF n = "instr" THEN <<r>> ELSE <<>> BY <2>2 DEF Fetching, UnderWay
    <3> QED BY <3>2, <3>3, Singles
  <2>3. ASSUME NEW r, Accessing(r) PROVE Facts(n)
    <3>1. r \in Request BY <2>3, ToMemory DEF Accessing
    <3>2. /\ Acked(n) \/ Failed(n) => n = "data"
          /\ Failed(n) => ~Acked(n)
      BY <1>0, <2>3, <3>1, Answered DEF Accessing, UnderWay
    <3>3. out[n] = IF n = "data" THEN <<r>> ELSE <<>> BY <2>3 DEF Accessing, UnderWay
    <3> QED BY <3>2, <3>3, Singles
  <2> QED BY <2>1, <2>2, <2>3, Situation
<1> DEFINE e(n) == IF n = "data" THEN errors ELSE 0
<1> DEFINE f(n) == IF Failed(n) THEN 1 ELSE 0
<1>3. ASSUME NEW n \in Master
      PROVE  counts'[n] = Len(out'[n]) + e(n) + f(n)
  <2> DEFINE up == req[n] # {} /\ Gnt(req) = n
  <2> DEFINE new == CHOOSE x \in req[n] : TRUE
  <2>1. counts[n] = Len(out[n]) + e(n) BY DEF Inv, Counts
  <2>2. e(n) \in 0 .. 1 BY <1>1
  <2>3. counts'[n] = IF up THEN IF Cyc(req, n) /\ Acked(n) THEN counts[n] ELSE counts[n] + 1
                     ELSE IF Cyc(req, n) /\ Acked(n) THEN counts[n] - 1 ELSE counts[n]
    BY DEF CountStep
  <2>4. out'[n] = IF RValid(req, n) /\ out[n] # <<>>
                  THEN IF up THEN Append(Tail(out[n]), new) ELSE Tail(out[n])
                  ELSE IF up THEN Append(out[n], new) ELSE out[n]
    BY DEF PortStep
  <2>5. out[n] # <<>> => Cyc(req, n)
    <3>1. out[n] # <<>> => Len(out[n]) = 1 BY <1>2, Lengths
    <3> QED BY <2>1, <2>2, <3>1 DEF Cyc
  <2>6. (RValid(req, n) /\ out[n] # <<>>) <=> Acked(n) \/ Failed(n)
    BY <1>2, <2>5 DEF RValid
  <2>7. Cyc(req, n) /\ Acked(n) <=> Acked(n) BY <1>2, <2>5
  <2>8. /\ Len(Append(out[n], new)) = Len(out[n]) + 1 /\ Len(out[n]) \in 0 .. 1
        /\ out[n] # <<>> => Len(Tail(out[n])) = 0 /\ Len(out[n]) = 1
                            /\ Len(Append(Tail(out[n]), new)) = 1
    BY <1>2, Lengths
  <2>9. Facts(n) BY <1>2
  <2> HIDE DEF up, new, e
  <2>10. CASE Acked(n)
    <3>1. out[n] # <<>> /\ f(n) = 0 BY <2>9, <2>10
    <3> QED BY <2>1, <2>2, <2>3, <2>4, <2>6, <2>7, <2>8, <2>10, <3>1
  <2>11. CASE ~Acked(n) /\ Failed(n)
    <3>1. out[n] # <<>> /\ f(n) = 1 BY <2>9, <2>11
    <3> QED BY <2>1, <2>2, <2>3, <2>4, <2>6, <2>7, <2>8, <2>11, <3>1
  <2>12. CASE ~Acked(n) /\ ~Failed(n)
    <3>1. f(n) = 0 BY <2>12
    <3> QED BY <2>1, <2>2, <2>3, <2>4, <2>6, <2>7, <2>8, <2>12, <3>1
  <2> QED BY <2>10, <2>11, <2>12
<1>4. ASSUME NEW n \in Master
      PROVE  /\ e(n) + f(n) = IF n = "data" THEN errors' ELSE 0
             /\ Len(out'[n]) \in Int /\ e(n) \in Int /\ f(n) \in Int
  <2>1. n # "data" => ~Failed(n) BY <1>2
  <2>2. errors' = IF Failed("data") THEN errors + 1 ELSE errors OBVIOUS
  <2>3. Len(out'[n]) \in Int
    <3> DEFINE new == CHOOSE x \in req[n] : TRUE
    <3>1. /\ Len(Append(out[n], new)) = Len(out[n]) + 1 /\ Len(out[n]) \in 0 .. 1
          /\ out[n] # <<>> => Len(Tail(out[n])) = 0 /\ Len(out[n]) = 1
                              /\ Len(Append(Tail(out[n]), new)) = 1
      BY <1>2, Lengths
    <3>2. \/ out'[n] = out[n] \/ out'[n] = Append(out[n], new)
          \/ out[n] # <<>> /\ (out'[n] = Tail(out[n]) \/ out'[n] = Append(Tail(out[n]), new))
      BY DEF PortStep
    <3> HIDE DEF new
    <3> QED BY <3>1, <3>2
  <2> QED BY <1>1, <2>1, <2>2, <2>3
<1>5. counts' = [n \in Master |-> counts'[n]] BY DEF CountStep
<1>6. \A n \in Master : counts'[n] = Len(out'[n]) + (IF n = "data" THEN errors' ELSE 0)
  <2> HIDE DEF e, f
  <2> QED BY <1>3, <1>4
<1> QED BY <1>5, <1>6 DEF Counts

\* Half words and the words that hold them.
LEMMA Halves ==
  ASSUME NEW f \in Nat
  PROVE  /\ (f + 1) \div 2 \in Nat /\ f <= 2 * ((f + 1) \div 2)
         /\ \A g \in Nat : /\ g <= f => (g + 1) \div 2 <= (f + 1) \div 2
                          /\ g <= f + 2 => (g + 1) \div 2 <= ((f + 1) \div 2) + 1
<1>1. (f + 1) \div 2 \in Int OBVIOUS
<1>2. 2 * ((f + 1) \div 2) <= f + 1 /\ f + 1 < 2 * ((f + 1) \div 2) + 2 OBVIOUS
<1>3. ASSUME NEW g \in Nat
      PROVE  /\ g <= f => (g + 1) \div 2 <= (f + 1) \div 2
             /\ g <= f + 2 => (g + 1) \div 2 <= ((f + 1) \div 2) + 1
  <2>1. (g + 1) \div 2 \in Int OBVIOUS
  <2>2. 2 * ((g + 1) \div 2) <= g + 1 OBVIOUS
  <2> QED BY <1>1, <1>2, <2>1, <2>2
<1> QED BY <1>1, <1>2, <1>3

\* The FIFO has room for what has been asked for, also when a branch empties it and
\* asks for more in the same cycle.
LEMMA FifoKept ==
  ASSUME Inv, NEW req, req["data"] \in DataRequests, req["instr"] \in FetchRequests,
         NEW split, NEW take \in 0 .. fifo, NEW keep, Cycle(req, split, take, keep)
  PROVE  fifo' \in Nat /\ FifoInv'
<1> DEFINE n == IF req["instr"] = {} THEN 0 ELSE 1
<1>1. Len(out'["instr"]) + Asked' = n /\ n \in 0 .. 1 BY StepFlow
<1>2. fifo \in Nat /\ take \in Nat /\ take <= fifo BY DEF Inv, Shape
<1>3. DEPTH \in Nat /\ DEPTH >= 2 BY BusAssumption DEF DEPTH
<1>4. Len(out["instr"]) \in 0 .. 1 /\ (RValid(req, "instr") => Len(out["instr"]) = 1)
  <2>0. "instr" \in Master BY DEF Master
  <2>1. out["instr"] = <<>> \/ \E q : out["instr"] = <<q>>
    BY <2>0, Situation DEF Idle, Quiet, Fetching, Accessing, UnderWay
  <2>2. RValid(req, "instr") => \E q : out["instr"] = <<q>> BY <2>0, AnswerRight
  <2>3. CASE out["instr"] = <<>>
    <3>1. Len(out["instr"]) = 0 BY <2>3, Singles
    <3>2. ~RValid(req, "instr") BY <2>2, <2>3, Singles
    <3> QED BY <3>1, <3>2
  <2>4. ASSUME NEW q, out["instr"] = <<q>> PROVE Len(out["instr"]) = 1 BY <2>4, Singles
  <2> QED BY <2>1, <2>3, <2>4
<1>5. Words + Len(out["instr"]) + Asked <= DEPTH /\ Words \in Nat /\ Asked \in 0 .. 1
  <2>1. Words \in Nat BY <1>2, Halves DEF Words
  <2>2. Asked \in 0 .. 1 BY DEF Asked
  <2> QED BY <2>1, <2>2 DEF Inv, FifoInv
<1>6. fifo' = IF Failed("data") THEN 0 ELSE fifo - take + (IF keep THEN 2 ELSE 0)
  BY DEF Cycle, FifoStep
<1>7. fifo' \in Nat BY <1>2, <1>6
<1>8. fifo' = 0 \/ (fifo' <= fifo + (IF keep THEN 2 ELSE 0) /\ ~NeedsBranch(req))
  BY <1>2, <1>6 DEF Cycle, FifoStep
<1> DEFINE l == Len(out["instr"])
<1>9. (keep => l = 1) /\ l \in 0 .. 1 BY <1>4 DEF Cycle, FifoStep
<1>10. CASE fifo' = 0
  <2>1. Words' = 0 BY <1>10 DEF Words
  <2>2. Words' + n <= DEPTH BY <1>1, <1>3, <2>1
  <2> QED BY <1>1, <1>7, <2>1, <2>2 DEF FifoInv, DEPTH
<1>11. CASE fifo' <= fifo + (IF keep THEN 2 ELSE 0) /\ ~NeedsBranch(req)
  <2>1. Words' \in Nat /\ Words' <= Words + (IF keep THEN 1 ELSE 0)
    <3>1. Words' \in Nat BY <1>7, Halves DEF Words
    <3>2. keep => Words' <= Words + 1 BY <1>2, <1>7, <1>11, Halves DEF Words
    <3>3. ~keep => Words' <= Words BY <1>2, <1>7, <1>11, Halves DEF Words
    <3> QED BY <1>5, <3>1, <3>2, <3>3
  <2>2. Words' <= Words + l /\ l \in Nat /\ Words \in Nat
    <3> HIDE DEF l
    <3> QED BY <1>5, <1>9, <2>1
  <2>3. Words + Len(out["instr"]) + n <= DEPTH
    <3>1. CASE n = 0
      <4>1. Len(out["instr"]) \in Nat /\ Words \in Nat /\ Asked \in Nat BY <1>4, <1>5
      <4> HIDE DEF n
      <4> QED BY <1>3, <1>5, <3>1, <4>1
    <3>2. CASE n = 1 /\ pend["instr"] # {}
      <4>1. Asked = 1 BY <3>2 DEF Asked
      <4> QED BY <1>3, <1>4, <1>5, <3>2, <4>1
    <3>3. CASE n = 1 /\ pend["instr"] = {}
      <4>1. Room BY <1>11, <3>3 DEF NeedsBranch
      <4>2. Words + Len(out["instr"]) < DEPTH BY <4>1 DEF Room
      <4> HIDE DEF n
      <4> QED BY <1>3, <1>4, <1>5, <3>3, <4>2
    <3> QED BY <1>1, <3>1, <3>2, <3>3
  <2>4. Words' + n <= DEPTH
    <3>1. Words + l + n <= DEPTH BY <2>3
    <3>2. n \in Nat /\ DEPTH \in Nat /\ Words' \in Nat BY <1>1, <1>3, <2>1
    <3>3. \A a, b, c, d, e \in Nat : a <= b + c /\ b + c + d <= e => a + d <= e OBVIOUS
    <3> HIDE DEF n, l
    <3> QED BY <2>2, <3>1, <3>2, <3>3
  <2>5. Words' + (Len(out'["instr"]) + Asked') <= DEPTH BY <1>1, <2>4
  <2>6. Asked' \in 0 .. 1 BY DEF Asked
  <2>7. Len(out'["instr"]) \in Int
    <3>1. "instr" \in Master BY DEF Master
    <3>2. Counts' BY CountsKept
    <3>3. LsuInv' BY StepFlow
    <3>4. out'["instr"] = <<>> \/ \E q : out'["instr"] = <<q>>
      BY <3>1, <3>3 DEF LsuInv, Quiet, FetchUnderWay, DataUnderWay, UnderWay
    <3> QED BY <3>4, Singles
  <2> QED BY <1>7, <2>1, <2>5, <2>6, <2>7 DEF FifoInv, DEPTH
<1> QED BY <1>7, <1>8, <1>10, <1>11

\* What the wires and registers hold are requests, at most one each.
LEMMA ShapeKept ==
  ASSUME Inv, NEW req, req["data"] \in DataRequests, req["instr"] \in FetchRequests,
         NEW split, NEW take \in 0 .. fifo, NEW keep, Cycle(req, split, take, keep)
  PROVE  Shape'
<1> USE DEF Cycle
<1>0. "data" \in Master /\ "instr" \in Master BY DEF Master
<1>1. fifo' \in Nat BY FifoKept
<1>2. \A r \in Request : {r} \in Optionals /\ {} \in Optionals BY DEF Optionals
<1>3. {} \in Optionals BY DEF Optionals
<1>4. req["data"] \in Optionals
  <2>1. req["data"] # {} => \E r \in Request : req["data"] = {r} BY DataRequest, ToMemory
  <2> QED BY <1>2, <1>3, <2>1
<1>5. req["instr"] \in Optionals /\ req["instr"] \subseteq Fetch
  <2>1. req["instr"] # {} => \E r \in Fetch : req["instr"] = {r} BY FetchRequest
  <2>2. \A r \in Fetch : {r} \in Optionals BY <1>2, ToMemory
  <2> QED BY <1>3, <2>1, <2>2
<1>6. line' \in Optionals BY <1>4 DEF PortStep, Inv, Shape
<1>7. pend' \in [Master -> Optionals] /\ pend'["instr"] \subseteq Fetch
  <2>1. \A m \in Master : req[m] \in Optionals BY <1>4, <1>5 DEF Master
  <2>2. pend' = [m \in Master |-> IF Gnt(req) = m THEN {} ELSE req[m]] BY DEF PortStep
  <2>3. pend' \in [Master -> Optionals] BY <1>3, <2>1, <2>2
  <2> QED BY <1>0, <1>5, <2>2, <2>3
<1>8. rsp' \in [Master -> Optionals]
  <2>1. \A m \in Master : RValid(req, m) => Answer(req) \in Optionals
    BY <1>2, AnswerRight
  <2>2. rsp' = [m \in Master |-> IF RValid(req, m) THEN Answer(req) ELSE {}] BY DEF PortStep
  <2> QED BY <1>3, <2>1, <2>2
<1>9. i2c_wr' \in Optionals
  <2>1. CASE ack["i2c"] = {} BY <1>3, <2>1 DEF I2cWriteStep
  <2>2. CASE ack["i2c"] # {}
    <3>1. PICK r \in Request : Lines(req) = {r} BY <2>2, I2cSees
    <3> QED BY <2>2, <3>1 DEF I2cWriteStep, Optionals
  <2> QED BY <2>1, <2>2
<1>10. gnt1' \in Master \cup {"none"} /\ ss1' \in Slave \cup {"none"}
  <2>1. CASE Strobed(req) = {} BY <2>1 DEF RouteStep, Inv, Shape
  <2>2. CASE Strobed(req) # {}
    <3>1. Gnt(req) \in Master BY <2>2 DEF Strobed, Gnt, Master
    <3>2. \A r \in Strobed(req) : r.to \in Slave
      BY <1>4, <1>5 DEF Strobed, Gnt, Optionals, Request
    <3> QED BY <2>2, <3>1, <3>2 DEF RouteStep
  <2> QED BY <2>1, <2>2
<1> QED BY <1>1, <1>6, <1>7, <1>8, <1>9, <1>10 DEF Shape

------------------------------------------------------------------------------
\* At most one request is under way, and all registers agree about which.
THEOREM Invariant == Spec => []Inv
<1>1. Init => Inv
  <2> SUFFICES ASSUME Init PROVE Inv OBVIOUS
  <2>1. {} \in Optionals BY DEF Optionals
  <2>2. Shape BY <2>1 DEF Init, Shape, Master
  <2>3. Quiet BY DEF Init, Quiet, NoAck
  <2>4. LsuInv BY <2>3 DEF Init, LsuInv, Master
  <2>5. ErrorInv BY DEF Init, ErrorInv
  <2>6. Len(out["instr"]) = 0 /\ Len(out["data"]) = 0 BY Singles DEF Init, Master
  <2>7. FifoInv
    <3>1. Words = 0 /\ Asked = 0 BY DEF Init, Words, Asked, Master
    <3> QED BY <2>6, <3>1, BusAssumption DEF FifoInv, DEPTH
  <2>8. Counts
    <3>1. counts = [m \in Master |-> 0] /\ errors = 0 BY DEF Init
    <3>2. \A m \in Master : 0 = Len(out[m]) + (IF m = "data" THEN errors ELSE 0)
      BY <2>6, <3>1 DEF Master
    <3> QED BY <3>1, <3>2 DEF Counts
  <2> QED BY <2>2, <2>4, <2>5, <2>7, <2>8 DEF Inv
<1>2. Inv /\ [Next]_vars => Inv'
  <2> SUFFICES ASSUME Inv, [Next]_vars PROVE Inv' OBVIOUS
  <2>1. CASE Next
    <3>1. PICK d \in DataRequests, i \in FetchRequests :
            \E split, keep \in BOOLEAN, take \in 0 .. fifo :
              Cycle([m \in Master |-> IF m = "data" THEN d ELSE i], split, take, keep)
      BY <2>1 DEF Next
    <3> DEFINE req == [m \in Master |-> IF m = "data" THEN d ELSE i]
    <3>2. PICK split, keep \in BOOLEAN, take \in 0 .. fifo : Cycle(req, split, take, keep)
      BY <3>1
    <3>3. req["data"] = d /\ req["instr"] = i BY DEF Master
    <3> HIDE DEF req
    <3>4. Shape' /\ FifoInv' BY <3>2, <3>3, ShapeKept, FifoKept
    <3>5. LsuInv' /\ ErrorInv' BY <3>2, <3>3, StepFlow
    <3>6. Counts' BY <3>2, <3>3, CountsKept
    <3> QED BY <3>4, <3>5, <3>6 DEF Inv
  <2>2. CASE UNCHANGED vars
    BY <2>2 DEF Inv, Shape, LsuInv, ErrorInv, FifoInv, Counts, Asked, Words, Quiet,
       FetchUnderWay, DataUnderWay, UnderWay, Acking, Failing, InUart, vars
  <2> QED BY <2>1, <2>2
<1> QED BY <1>1, <1>2, PTL DEF Spec

\* What the wires and registers hold, that core2wb's counts stay far from the width of
\* their register, and that the fetch FIFO never overflows, for any number of fetches
\* the prefetch buffer may keep outstanding.
THEOREM TypeCorrect == Spec => []TypeOK
<1>1. Inv => TypeOK
  <2> SUFFICES ASSUME Inv PROVE TypeOK OBVIOUS
  <2>0. "data" \in Master /\ "instr" \in Master BY DEF Master
  <2>1. lsu \in LsuState BY DEF Inv, LsuInv, LsuState
  <2>2. \A S \in Optionals : Optional(S) BY DEF Optionals, Optional
  <2>3. \A r \in Request : Optional({r}) BY DEF Optional
  <2>4. Optional({}) BY DEF Optional
  <2>5. NUM_REQS \in Nat /\ NUM_REQS >= 1 /\ DEPTH \in Nat BY BusAssumption DEF DEPTH
  <2>6. ASSUME NEW m \in Master
        PROVE  /\ out[m] \in Seq(Request) /\ Len(out[m]) <= NUM_REQS /\ Len(out[m]) \in 0 .. 1
               /\ out[m] # <<>> => errors = 0
    <3>1. out[m] = <<>> \/ \E r \in Request : out[m] = <<r>> /\ errors = 0
      BY Situation, ToMemory DEF Idle, Quiet, Fetching, Accessing, UnderWay
    <3>2. CASE out[m] = <<>> BY <2>5, <3>2
    <3>3. ASSUME NEW r \in Request, out[m] = <<r>>, errors = 0
          PROVE  /\ out[m] \in Seq(Request) /\ Len(out[m]) <= NUM_REQS /\ Len(out[m]) \in 0 .. 1
                 /\ out[m] # <<>> => errors = 0
      <4>1. Len(out[m]) = 1 BY <3>3, Singles
      <4>2. out[m] \in Seq(Request) BY <3>3
      <4> QED BY <2>5, <3>3, <4>1, <4>2
    <3> QED BY <3>1, <3>2, <3>3
  <2>7. fifo \in 0 .. 2 * DEPTH
    <3>1. fifo \in Nat /\ Words \in Nat /\ fifo <= 2 * Words BY Halves DEF Inv, Shape, Words
    <3>2. Len(out["instr"]) \in Nat BY <2>0, <2>6
    <3>3. Asked \in Nat BY DEF Asked
    <3>4. Words + Len(out["instr"]) + Asked <= DEPTH BY DEF Inv, FifoInv
    <3>5. \A a, b, c, d \in Nat : a + b + c <= d => 2 * a <= 2 * d OBVIOUS
    <3>6. 2 * Words <= 2 * DEPTH BY <2>5, <3>1, <3>2, <3>3, <3>4, <3>5
    <3> QED BY <2>5, <3>1, <3>6
  <2>8. counts \in [Master -> 0 .. NUM_REQS]
    <3>1. \A m \in Master : Len(out[m]) + (IF m = "data" THEN errors ELSE 0) \in 0 .. NUM_REQS
      <4> SUFFICES ASSUME NEW m \in Master
                   PROVE  Len(out[m]) + (IF m = "data" THEN errors ELSE 0) \in 0 .. NUM_REQS
        OBVIOUS
      <4>1. errors \in 0 .. 1 BY DEF Inv, ErrorInv
      <4>2. CASE out[m] = <<>>
        <5>1. Len(out[m]) = 0 BY <4>2, Singles
        <5> QED BY <2>5, <4>1, <5>1
      <4>3. CASE out[m] # <<>>
        <5>1. Len(out[m]) \in 0 .. 1 /\ errors = 0 BY <2>6, <4>3
        <5>2. Len(out[m]) + (IF m = "data" THEN errors ELSE 0) = Len(out[m]) BY <5>1
        <5>3. \A k \in 0 .. 1 : k \in 0 .. NUM_REQS BY <2>5
        <5> QED BY <5>1, <5>2, <5>3
      <4> QED BY <4>2, <4>3
    <3> QED BY <3>1 DEF Inv, Counts
  <2>9. (\A s \in Slave : Optional(ack[s])) /\ Optional(err) /\ Optional(uart_r)
    <3>1. CASE Idle BY <2>4, <3>1 DEF Idle, Quiet, NoAck
    <3>2. ASSUME NEW r \in Request, Acking(r) \/ Failing(r) \/ InUart(r)
          PROVE  (\A s \in Slave : Optional(ack[s])) /\ Optional(err) /\ Optional(uart_r)
      BY <2>3, <2>4, <3>2 DEF Acking, Failing, InUart, NoAck
    <3> QED BY <3>1, <3>2, Situation, ToMemory DEF Fetching, Accessing, UnderWay
  <2>10. /\ gnt1 \in Master \cup {"none"} /\ ss1 \in Slave \cup {"none"}
         /\ Optional(line) /\ Optional(i2c_wr)
         /\ \A m \in Master : Optional(pend[m]) /\ Optional(rsp[m])
    BY <2>2 DEF Inv, Shape
  <2>11. errors \in 0 .. 1 BY DEF Inv, ErrorInv
  <2> QED BY <2>1, <2>6, <2>7, <2>8, <2>9, <2>10, <2>11 DEF TypeOK
<1> QED BY <1>1, Invariant, PTL

\* A converter's count is the number of its port's unanswered requests, and of the
\* errors, which it does not count down.
THEOREM CountsCorrect == Spec => []CountsExact
<1>1. Inv => CountsExact BY DEF Inv, Counts, CountsExact
<1> QED BY <1>1, Invariant, PTL

\* Every answer goes to the port that asked, is the answer of its oldest request and
\* carries the data of the slave and register asked for.
THEOREM AnswersCorrect == Spec => AnswersInOrder
<1> DEFINE A == \A m \in Master : rsp'[m] # {} => out[m] # <<>> /\ rsp'[m] = {out[m][1]}
<1>1. Inv /\ [Next]_vars => [A]_<<rsp, out>>
  <2> SUFFICES ASSUME Inv, Next PROVE A BY DEF vars
  <2>1. PICK d \in DataRequests, i \in FetchRequests :
          \E split, keep \in BOOLEAN, take \in 0 .. fifo :
            Cycle([m \in Master |-> IF m = "data" THEN d ELSE i], split, take, keep)
    BY DEF Next
  <2> DEFINE req == [m \in Master |-> IF m = "data" THEN d ELSE i]
  <2>2. PortStep(req) BY <2>1 DEF Cycle
  <2>3. req["data"] = d BY DEF Master
  <2> HIDE DEF req
  <2>4. ASSUME NEW m \in Master, rsp'[m] # {}
        PROVE  out[m] # <<>> /\ rsp'[m] = {out[m][1]}
    <3>1. RValid(req, m) /\ rsp'[m] = Answer(req) BY <2>2, <2>4 DEF PortStep
    <3>2. PICK q \in Request : out[m] = <<q>> /\ Answer(req) = {q} BY <2>3, <3>1, AnswerRight
    <3> QED BY <3>1, <3>2, Singles
  <2> QED BY <2>4
<1> HIDE DEF A
<1>2. Spec => [][A]_<<rsp, out>> BY <1>1, Invariant, PTL DEF Spec
<1> QED BY <1>2, PTL DEF AnswersInOrder, A

\* The I2C master, which looks at the bus one cycle after the request, writes what the
\* request said.
THEOREM I2cCorrect == Spec => I2cWritesWhatWasAsked
<1> DEFINE A == ack["i2c"] # {} => i2c_wr' = {r \in ack["i2c"] : r.we}
<1>1. Inv /\ [Next]_vars => [A]_vars
  <2> SUFFICES ASSUME Inv, Next, ack["i2c"] # {}
               PROVE  i2c_wr' = {r \in ack["i2c"] : r.we}
    OBVIOUS
  <2>1. PICK d \in DataRequests, i \in FetchRequests :
          \E split, keep \in BOOLEAN, take \in 0 .. fifo :
            Cycle([m \in Master |-> IF m = "data" THEN d ELSE i], split, take, keep)
    BY DEF Next
  <2> DEFINE req == [m \in Master |-> IF m = "data" THEN d ELSE i]
  <2>2. I2cWriteStep(req) BY <2>1 DEF Cycle
  <2>3. req["data"] = d BY DEF Master
  <2> HIDE DEF req
  <2>4. Lines(req) = ack["i2c"] BY <2>3, I2cSees
  <2> QED BY <2>2, <2>4 DEF I2cWriteStep
<1> HIDE DEF A
<1>2. Spec => [][A]_vars BY <1>1, Invariant, PTL DEF Spec
<1> QED BY <1>2, PTL DEF I2cWritesWhatWasAsked, A

\* The prefetch buffer's room for several outstanding fetches, and the load/store
\* unit's states for a grant or an answer that comes late, are never needed on this
\* bus: of both ports together, one request is under way at most.
OneUnderWay == Len(out["data"]) + Len(out["instr"]) <= 1

\* At most one request of the whole core is granted and not yet answered.
THEOREM OneAtATime == Spec => []OneUnderWay
<1>1. Inv => OneUnderWay
  <2> SUFFICES ASSUME Inv PROVE OneUnderWay OBVIOUS
  <2>0. "data" \in Master /\ "instr" \in Master BY DEF Master
  <2>1. \/ out["data"] = <<>> /\ out["instr"] = <<>>
        \/ out["data"] = <<>> /\ \E r : out["instr"] = <<r>>
        \/ out["instr"] = <<>> /\ \E r : out["data"] = <<r>>
    BY <2>0, Situation DEF Idle, Quiet, Fetching, Accessing, UnderWay
  <2>2. \/ Len(out["data"]) = 0 /\ Len(out["instr"]) = 0
        \/ Len(out["data"]) = 0 /\ Len(out["instr"]) = 1
        \/ Len(out["instr"]) = 0 /\ Len(out["data"]) = 1
    BY <2>1, Singles, Zenon
  <2>3. 0 + 0 <= 1 /\ 0 + 1 <= 1 /\ 1 + 0 <= 1 OBVIOUS
  <2> QED BY <2>2, <2>3, Zenon DEF OneUnderWay
<1> QED BY <1>1, Invariant, PTL
==============================================================================
