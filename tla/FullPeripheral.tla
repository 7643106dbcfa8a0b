--------------------------- MODULE FullPeripheral ---------------------------
(***************************************************************************)
(* The test program test/full_peripheral: it waits for a button and for    *)
(* the timer, writes two bytes to the EEPROM, reads them back and compares *)
(* them, and shows on the pins how far it got.  The I2C driver's blocking  *)
(* transfers run on the I2C master, and the EEPROM is the boot EEPROM,     *)
(* with its write cycle.                                                   *)
(*                                                                         *)
(* As in I2cDriver, byte i of a transfer is i: the program writes bytes 3  *)
(* and 4 at the address that bytes 1 and 2 make up, sends bytes 1 and 2    *)
(* again to set the address, and reads.  The interrupts of the GPIO and of *)
(* the timer, which Gpio and Timer model, are single steps here.           *)
(***************************************************************************)
EXTENDS I2cDriver, Eeprom

CONSTANT MaxPresses    \* bound: falling edges of pin 8

VARIABLES
  test_state,
  g_GPIO_int_status,   \* its bit for pin 8
  g_TIMER_int_status,
  gpio_int, timer_on,  \* CTRL of the GPIO enables interrupts; the timer counts
  OUT,                 \* output pins that are high
  presses

appVars == <<test_state, g_GPIO_int_status, g_TIMER_int_status, gpio_int, timer_on, OUT, presses>>
fpVars == <<vars, eeVars, appVars>>

Device == EEPROM_ADDR_PLUS_W_BIT
DataAddr == (Radix + 2) % EepromBytes

ASSUME FullPeripheralAssumption ==
  /\ Byte = EepByte /\ Radix > 4 /\ {2, 4} \subseteq Sizes /\ MaxPresses \in Nat
  /\ Device \in Devices /\ EEPROM_ADDR_PLUS_R_BIT = Device + 1
  /\ EepromBytes > Radix + 3

------------------------------------------------------------------------------
(***************************************************************************)
(* main.  A case of the switch is a step; a transfer takes many.           *)
(***************************************************************************)
cpuRest == <<arg, n, State, IT, buf, calls>>
Becomes(s) == test_state' = s
NoCall == To("main", "ready", None) /\ UNCHANGED cpuRest

Transfer(d, size) ==
  /\ StartCall("main", [mode |-> "blocking", dir |-> d, dev |-> Device, size |-> size])
  /\ UNCHANGED appVars

StartTest ==
  /\ test_state = "START" /\ Becomes("WAIT_GPIO_8_IRQ") /\ NoCall
  /\ gpio_int' = TRUE
  /\ UNCHANGED <<g_GPIO_int_status, g_TIMER_int_status, timer_on, OUT, presses>>

WaitGpio ==
  /\ test_state = "WAIT_GPIO_8_IRQ" /\ g_GPIO_int_status /\ Becomes("SET_GPIO_0") /\ NoCall
  /\ g_GPIO_int_status' = FALSE /\ gpio_int' = FALSE
  /\ UNCHANGED <<g_TIMER_int_status, timer_on, OUT, presses>>

SetTimer ==
  /\ test_state = "SET_TIMER" /\ Becomes("WAIT_TIMER_IRQ") /\ NoCall
  /\ timer_on' = TRUE
  /\ UNCHANGED <<g_GPIO_int_status, g_TIMER_int_status, gpio_int, OUT, presses>>

WaitTimer ==
  /\ test_state = "WAIT_TIMER_IRQ" /\ g_TIMER_int_status /\ Becomes("SET_GPIO_1") /\ NoCall
  /\ g_TIMER_int_status' = FALSE /\ timer_on' = FALSE
  /\ UNCHANGED <<g_GPIO_int_status, gpio_int, OUT, presses>>

\* TEST_STATE_SET_GPIO_0 to _4: the state, its pin, and the state that follows.
SetGpioStates ==
  {<<"SET_GPIO_0", 0, "SET_TIMER">>, <<"SET_GPIO_1", 1, "I2C_WRITE_TO_EEPROM">>,
   <<"SET_GPIO_2", 2, "I2C_READ_FROM_EEPROM">>, <<"SET_GPIO_3", 3, "CHECK_RW_DATA">>,
   <<"SET_GPIO_4", 4, "FINISH">>}

SetGpio ==
  \E s \in SetGpioStates :
    /\ test_state = s[1] /\ Becomes(s[3]) /\ NoCall
    /\ OUT' = IF s[2] = 0 THEN {0} ELSE OUT \cup {s[2]}
    /\ UNCHANGED <<g_GPIO_int_status, g_TIMER_int_status, gpio_int, timer_on, presses>>

Goes(s) ==
  /\ Becomes(s) /\ NoCall
  /\ UNCHANGED <<g_GPIO_int_status, g_TIMER_int_status, gpio_int, timer_on, OUT, presses>>

WriteToEeprom ==
  /\ test_state = "I2C_WRITE_TO_EEPROM"
  /\ \/ calls = 0 /\ Transfer("tx", 4)
     \/ calls = 1 /\ Transfer("tx", 2)
     \/ calls = 2 /\ Goes("SET_GPIO_2")

ReadFromEeprom ==
  /\ test_state = "I2C_READ_FROM_EEPROM"
  /\ \/ calls = 2 /\ Transfer("rx", 2)
     \/ calls = 3 /\ Goes("SET_GPIO_3")

\* When a byte differs the program stops here.
CheckData == test_state = "CHECK_RW_DATA" /\ buf = <<3, 4>> /\ Goes("SET_GPIO_4")

MainTest ==
  /\ At("main", "ready")
  /\ StartTest \/ WaitGpio \/ SetGpio \/ SetTimer \/ WaitTimer
     \/ WriteToEeprom \/ ReadFromEeprom \/ CheckData

DriverStep == (InitStep \/ BlockingStep) /\ UNCHANGED appVars

(***************************************************************************)
(* Interrupts.  Pin 8 may bounce: its handler may run again before main    *)
(* has disabled the interrupt.  The timer's handler stops the timer.       *)
(***************************************************************************)
gpio_handler ==
  /\ gpio_int /\ presses < MaxPresses /\ presses' = presses + 1
  /\ g_GPIO_int_status' = TRUE
  /\ UNCHANGED <<pc, cpuRest, test_state, g_TIMER_int_status, gpio_int, timer_on, OUT>>

TIMER_IRQHandler ==
  /\ timer_on /\ timer_on' = FALSE
  /\ g_TIMER_int_status' = TRUE
  /\ UNCHANGED <<pc, cpuRest, test_state, g_GPIO_int_status, gpio_int, OUT, presses>>

Handlers == bus' = None /\ (gpio_handler \/ TIMER_IRQHandler)

------------------------------------------------------------------------------
(***************************************************************************)
(* The wires.  slave is the busy bit of the I2C master: between START and  *)
(* STOP it is not idle.                                                    *)
(***************************************************************************)
Busy(ev) ==
  /\ slave' = CASE ev = "start" -> "address" [] ev = "stop" -> "idle" [] OTHER -> slave
  /\ UNCHANGED <<sel, got, nxt, sda, refusals, refused>>

Devices_Step(core_ack, wr_done) ==
  /\ I2cStep(core_ack, EepTx, ee_sda, WriteAdr, WriteDat)
  /\ EepStep(BusEvent(core_ack), sr, wr_done)
  /\ Busy(BusEvent(core_ack))

CoreMoves == NoAccess /\ (MainTest \/ DriverStep \/ Handlers)
CoreWaits == CpuWaits /\ UNCHANGED appVars

\* The boot loader has left the EEPROM at rest or, with write-back, in the write cycle
\* of its last page.
FpInit ==
  /\ Init
  /\ ee_st = "off" /\ ee_act \in {0} \cup (IF BOOT_WRITEBACK THEN {1} ELSE {})
  /\ ee_ptr = 0 /\ ee_buf = NoBytes /\ ee_sda = 1 /\ ee_mem = EepromInit
  /\ test_state = "START" /\ g_GPIO_int_status = FALSE /\ g_TIMER_int_status = FALSE
  /\ gpio_int = FALSE /\ timer_on = FALSE /\ OUT = {} /\ presses = 0

FpNext ==
  \/ \E core_ack, wr_done \in Bit : CoreMoves /\ Devices_Step(core_ack, wr_done)
  \/ \E core_ack, wr_done \in Bit : CoreWaits /\ Devices_Step(core_ack, wr_done)

FpSpec == FpInit /\ [][FpNext]_fpVars

\* The clock runs, the core makes progress, an I2C phase and a write cycle end, and
\* somebody presses the button; the timer is shown to expire in Timer.
FpFairSpec ==
  /\ FpSpec /\ WF_fpVars(FpNext)
  /\ WF_fpVars(\E c, w \in Bit : NoAccess /\ (MainTest \/ DriverStep) /\ Devices_Step(c, w))
  /\ WF_fpVars(\E w \in Bit : c_state # "IDLE" /\ (CoreMoves \/ CoreWaits) /\ Devices_Step(1, w))
  /\ WF_fpVars(\E c \in Bit : ee_act = 1 /\ (CoreMoves \/ CoreWaits) /\ Devices_Step(c, 1))
  /\ WF_fpVars(\E c, w \in Bit : NoAccess /\ presses = 0 /\ bus' = None /\ gpio_handler /\ Devices_Step(c, w))
  /\ WF_fpVars(\E c, w \in Bit : NoAccess /\ bus' = None /\ TIMER_IRQHandler /\ Devices_Step(c, w))

------------------------------------------------------------------------------
(***************************************************************************)
(* Properties.                                                             *)
(***************************************************************************)

\* When the program compares, it has read back what it wrote, and the EEPROM holds it:
\* the transfer that sets the address was not taken while the write cycle of the first
\* one still ran, and nothing else in the EEPROM changed.
ReadsBack ==
  test_state = "CHECK_RW_DATA" =>
    /\ buf = <<3, 4>>
    /\ ee_mem = [EepromInit EXCEPT ![DataAddr] = 3, ![DataAddr + 1] = 4]

\* The program gets to its end, where pin 4 is high, however often the EEPROM refuses
\* its address.
TestPasses == <>(test_state = "FINISH" /\ OUT = 0 .. 4)
==============================================================================
