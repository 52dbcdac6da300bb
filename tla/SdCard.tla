------------------------------- MODULE SdCard -------------------------------
(***************************************************************************)
(* The SD card driver: initialisation of the host controller and the card  *)
(* during boot, then read_block and write_block, each a command followed   *)
(* by a transfer through the controller's buffer.  The driver polls; every *)
(* polling loop gives up after MAX_ITERATIONS.                             *)
(*                                                                         *)
(* The host controller and the card are hardware, modelled from what the   *)
(* driver reads and writes: they answer late or not at all, and they may   *)
(* report an error.  Two assumptions: they err only while they execute a   *)
(* command, fetch, program or are busy, not while the driver empties or    *)
(* fills the buffer; and a block is programmed as a whole or not at all.   *)
(*                                                                         *)
(* send_sd_command and its callers check sending_command_valid up to three *)
(* times before the command is written; with nothing in flight nothing can *)
(* change between the last check and the write, so one check stands for    *)
(* them.                                                                   *)
(***************************************************************************)
EXTENDS Pci, Sequences

CONSTANTS Data,             \* contents of a block
          c_size,           \* C_SIZE of the card's CSD register
          MAX_ITERATIONS,
          Word              \* 2^32 in the code: the width of the argument

SD_BLOCK_SIZE == 512

\* C_SIZE counts units of 1024 blocks, and a card has at most 2^32 blocks.
ASSUME CardAssumption ==
  /\ c_size \in Nat
  /\ Word \in Nat
  /\ (c_size + 1) * 1024 <= Word
ASSUME IterationAssumption == MAX_ITERATIONS \in Nat \ {0}
ASSUME DataAssumption == Data # {}

total_blocks == c_size + 1

\* The block numbers that pass the check in read_block and write_block.
Block == 0..total_blocks

\* Mutant of Argument: the argument has two values.
ArgumentShort(block) == (block * SD_BLOCK_SIZE) % 1024

\* The argument of commands 17 and 24, a u32.
Argument(block) == (block * SD_BLOCK_SIZE) % Word

\* The commands of send_sd_reset_commands, in order.
ResetCommands == <<0, 8, 55, 41, 0, 8, 55, 41, 2, 3, 9, 13, 7>>

\* The commands by what the controller does for them: "select" (7) answers and
\* stays busy, "read" (17) and "write" (24) go on to a data transfer.
Command(index) == IF index = 7 THEN "select" ELSE "plain"

VARIABLES
  \* the driver
  pc,
  step,        \* the command of ResetCommands to be sent
  iter,        \* loop counter of the polling loops
  call,        \* the read_block or write_block in progress
  answer,      \* of the latest call
  SD_CARD,     \* the global is Some
  devices,     \* the PCI devices that answer
  command,     \* the PCI command registers
  \* the controller and the card
  err,         \* the error status register is not 0
  done,        \* the command complete bit of the status register
  cmd,         \* the command being executed: "command inhibit (CMD)"
  dat,         \* the data line: "command inhibit (DAT)" unless it is "idle"
  buffer,
  argument,    \* the argument of the command executed last
  card         \* the medium

pci == <<devices, command>>
driver == <<pc, step, iter, call, answer, SD_CARD, pci>>
controller == <<err, done, cmd, dat, buffer, argument, card>>
vars == <<pc, step, iter, call, answer, SD_CARD, devices, command, err, done, cmd,
          dat, buffer, argument, card>>

\* Stands for data that is never looked at.
AnyData == CHOOSE d \in Data : TRUE

Flag == {"MEMORY_SPACE", "BUS_MASTER"}

\* The host controller's PCI function answers to accesses over memory space.
Reachable ==
  \E d \in find_sd_card(devices) : command[CommandRegister(d)] = Flag

TypeOK ==
  /\ pc \in {"find", "map", "reset", "interrupts", "power", "clock", "timeouts",
             "idle", "send", "check", "complete", "buffer", "transfer", "panic"}
  /\ step \in 1..Len(ResetCommands)
  /\ iter \in 0..MAX_ITERATIONS
  /\ call \in [op : {"read", "write"}, block : Block, data : Data]
  /\ answer \in {<<"none">>, <<"error">>} \cup ({"read", "write"} \X Block \X Data)
  /\ SD_CARD \in BOOLEAN
  /\ devices \subseteq Device
  /\ command \in [{CommandRegister(d) : d \in Device} -> SUBSET Flag]
  /\ err \in BOOLEAN /\ done \in BOOLEAN
  /\ cmd \in {"none", "plain", "select", "read", "write"}
  /\ dat \in {"idle", "busy", "fetch", "readable", "accept", "writable", "program"}
  /\ buffer \in Data
  /\ argument \in {Argument(b) : b \in Block}
  /\ card \in [{Argument(b) : b \in Block} -> Data]
  /\ pc \notin {"find", "map", "panic"} => Reachable
  /\ pc \in {"idle", "buffer", "transfer"} => SD_CARD

\* Firmware may have used the controller before: its status registers hold anything.
Init ==
  /\ pc = "find"
  /\ step = 1
  /\ iter = 0
  /\ call = [op |-> "read", block |-> 0, data |-> AnyData]
  /\ answer = <<"none">>
  /\ SD_CARD = FALSE
  /\ devices \in SUBSET Device
  /\ \E flags \in {{}, Flag} :
       command = [r \in {CommandRegister(d) : d \in Device} |-> flags]
  /\ err \in BOOLEAN /\ done \in BOOLEAN
  /\ cmd = "none"
  /\ dat = "idle"
  /\ buffer = AnyData
  /\ argument = Argument(0)
  /\ card \in [{Argument(b) : b \in Block} -> Data]

-----------------------------------------------------------------------------
(* The controller and the card (external)                                  *)

\* The command is answered: its complete bit is set and its data phase begins.
Respond ==
  /\ cmd # "none"
  /\ cmd' = "none"
  /\ done' = TRUE
  /\ dat' = CASE cmd = "plain" -> dat
              [] cmd = "select" -> "busy"
              [] cmd = "read" -> "fetch"
              [] cmd = "write" -> "accept"
  /\ UNCHANGED <<driver, err, buffer, argument, card>>

\* The buffer holds the block (BufferReadEnable).
Fetched ==
  /\ dat = "fetch"
  /\ dat' = "readable"
  /\ buffer' = card[argument]
  /\ UNCHANGED <<driver, err, done, cmd, argument, card>>

\* The buffer can take a block (BufferWriteEnable).
Accepting ==
  /\ dat = "accept"
  /\ dat' = "writable"
  /\ UNCHANGED <<driver, err, done, cmd, buffer, argument, card>>

\* The card has stored the block.
Programmed ==
  /\ dat = "program"
  /\ dat' = "idle"
  /\ card' = [card EXCEPT ![argument] = buffer]
  /\ UNCHANGED <<driver, err, done, cmd, buffer, argument>>

Ready ==
  /\ dat = "busy"
  /\ dat' = "idle"
  /\ UNCHANGED <<driver, err, done, cmd, buffer, argument, card>>

\* Time-out, CRC or other error, before or after the response; nothing clears the
\* error register but a software reset.
Error ==
  /\ cmd # "none" \/ dat \in {"busy", "fetch", "accept", "program"}
  /\ err' = TRUE
  /\ done' \in {done, TRUE}
  /\ cmd' = "none"
  /\ dat' = "idle"
  /\ UNCHANGED <<driver, buffer, argument, card>>

Controller == Respond \/ Fetched \/ Accepting \/ Programmed \/ Ready \/ Error

-----------------------------------------------------------------------------
(* Initialisation, by devices::init on the bootstrap processor             *)

\* An operation ends with an error.  During boot devices::init unwraps it; later
\* it is the caller's IOError.
Fail ==
  /\ pc' = IF SD_CARD THEN "idle" ELSE "panic"
  /\ answer' = IF SD_CARD THEN <<"error">> ELSE answer

\* walk_pci_bus and find_sd_card; then the card's memory space is switched off.
Find ==
  /\ pc = "find"
  /\ \/ /\ find_sd_card(devices) = {}
        /\ pc' = "panic"
        /\ UNCHANGED command
     \/ \E d \in find_sd_card(devices) :
          /\ command' = [command EXCEPT ![CommandRegister(d)] = @ \ {"MEMORY_SPACE"}]
          /\ pc' = "map"
  /\ UNCHANGED <<step, iter, call, answer, SD_CARD, devices, controller>>

\* The page of the base address register is made accessible, uncached, or that
\* fails: update_flags returns an error, the translation an invalid frame.  Then
\* the memory space is switched on.
MapBar ==
  /\ pc = "map"
  /\ \/ pc' = "panic" /\ UNCHANGED command
     \/ \E d \in find_sd_card(devices) :
          /\ command' = [command EXCEPT ![CommandRegister(d)] = Flag]
          /\ pc' = "reset"
  /\ UNCHANGED <<step, iter, call, answer, SD_CARD, devices, controller>>

\* One iteration of a polling loop that has not found what it waits for; after
\* the last one the function returns SDTimeout.
Again ==
  \/ /\ iter < MAX_ITERATIONS
     /\ iter' = iter + 1
     /\ UNCHANGED <<pc, answer>>
  \/ /\ iter = MAX_ITERATIONS
     /\ Fail
     /\ UNCHANGED iter

\* software_reset_sd_card: the reset clears the controller's registers, and the
\* driver polls until the reset bit is 0.
SoftwareReset ==
  /\ pc = "reset"
  /\ \/ /\ iter < MAX_ITERATIONS
        /\ pc' = "interrupts"
        /\ iter' = 0
        /\ err' = FALSE
        /\ done' = FALSE
        /\ UNCHANGED answer
     \/ Again /\ UNCHANGED <<err, done>>
  /\ UNCHANGED <<step, call, SD_CARD, pci, cmd, dat, buffer, argument, card>>

\* Mutant of sending_command_valid: a data transfer does not inhibit commands.
sending_command_valid_cmd == ~err /\ cmd = "none"

\* check_no_errors, then the two inhibit bits of the present state register.  The
\* third test, of CommandNotIssuedError, has its operands the other way round: it
\* holds for no value of the register in which the card is reported present.
sending_command_valid == ~err /\ cmd = "none" /\ dat = "idle"

\* enable_sd_card_interrupts: four registers, with a check after each.
EnableInterrupts ==
  /\ pc = "interrupts"
  /\ \/ sending_command_valid /\ pc' = "power" /\ UNCHANGED answer
     \/ ~sending_command_valid /\ Fail
  /\ UNCHANGED <<step, iter, call, SD_CARD, pci, controller>>

\* power_on_sd_card, which fails when the controller offers no voltage.
PowerOn ==
  /\ pc = "power"
  /\ \/ pc' = "clock" /\ UNCHANGED answer
     \/ Fail
  /\ UNCHANGED <<step, iter, call, SD_CARD, pci, controller>>

\* set_sd_clock polls until the internal clock is stable.
SetClock ==
  /\ pc = "clock"
  /\ \/ iter < MAX_ITERATIONS /\ pc' = "timeouts" /\ iter' = 0 /\ UNCHANGED answer
     \/ Again
  /\ UNCHANGED <<step, call, SD_CARD, pci, controller>>

\* enable_timeouts, and reset_sd_card goes on to send_sd_reset_commands.
EnableTimeouts ==
  /\ pc = "timeouts"
  /\ \/ sending_command_valid /\ pc' = "send" /\ UNCHANGED answer
     \/ ~sending_command_valid /\ Fail
  /\ UNCHANGED <<step, iter, call, SD_CARD, pci, controller>>

-----------------------------------------------------------------------------
(* read_block, write_block and the commands                                *)

\* read_block and write_block refuse a block number above total_blocks.
Call(op, block, data) ==
  /\ pc = "idle"
  /\ \/ /\ block <= total_blocks
        /\ call' = [op |-> op, block |-> block, data |-> data]
        /\ pc' = "send"
        /\ UNCHANGED answer
     \/ block > total_blocks /\ Fail /\ UNCHANGED call
  /\ UNCHANGED <<step, iter, SD_CARD, pci, controller>>

\* send_sd_command: the checks, and the write of the command register.
Send ==
  /\ pc = "send"
  /\ \/ /\ sending_command_valid
        /\ cmd' = IF SD_CARD THEN call.op ELSE Command(ResetCommands[step])
        /\ argument' = IF SD_CARD THEN Argument(call.block) ELSE argument
        /\ pc' = "check"
        /\ UNCHANGED answer
     \/ ~sending_command_valid /\ Fail /\ UNCHANGED <<cmd, argument>>
  /\ UNCHANGED <<step, iter, call, SD_CARD, pci, err, done, dat, buffer, card>>

\* check_no_errors right after the command.
Check ==
  /\ pc = "check"
  /\ \/ ~err /\ pc' = "complete" /\ iter' = 0 /\ UNCHANGED answer
     \/ err /\ Fail /\ UNCHANGED iter
  /\ UNCHANGED <<step, call, SD_CARD, pci, controller>>

\* The command of the sequence is complete: the next one follows, or the global is
\* set.  After command 9, get_full_sd_card_info asserts the version of the CSD.
AfterReset ==
  \/ /\ step < Len(ResetCommands)
     /\ step' = step + 1
     /\ pc' = "send"
     /\ UNCHANGED SD_CARD
  \/ /\ ResetCommands[step] = 9
     /\ pc' = "panic"
     /\ UNCHANGED <<step, SD_CARD>>
  \/ /\ step = Len(ResetCommands)
     /\ SD_CARD' = TRUE
     /\ pc' = "idle"
     /\ UNCHANGED step

\* The loop of send_sd_command: the complete bit, which the driver clears.
Complete ==
  /\ pc = "complete"
  /\ \/ /\ iter < MAX_ITERATIONS /\ done
        /\ done' = FALSE
        /\ iter' = 0
        /\ \/ SD_CARD /\ pc' = "buffer" /\ UNCHANGED <<step, SD_CARD>>
           \/ ~SD_CARD /\ AfterReset
        /\ UNCHANGED answer
     \/ /\ iter < MAX_ITERATIONS => ~done
        /\ Again
        /\ UNCHANGED <<step, SD_CARD, done>>
  /\ UNCHANGED <<call, pci, err, cmd, dat, buffer, argument, card>>

\* What the loops of read_sd_card and write_sd_card wait for.
BufferEnabled == dat = IF call.op = "read" THEN "readable" ELSE "writable"

\* Mutant of BufferWait: the loop has no limit.
BufferWaitForever ==
  /\ pc = "buffer"
  /\ \/ BufferEnabled /\ pc' = "transfer"
     \/ ~BufferEnabled /\ UNCHANGED pc
  /\ UNCHANGED <<step, iter, call, answer, SD_CARD, pci, controller>>

\* Mutant of BufferWait: one iteration too many.
BufferWaitOnceMore ==
  /\ pc = "buffer"
  /\ \/ iter <= MAX_ITERATIONS /\ BufferEnabled /\ pc' = "transfer" /\ UNCHANGED <<iter, answer>>
     \/ iter <= MAX_ITERATIONS /\ ~BufferEnabled /\ iter' = iter + 1 /\ UNCHANGED <<pc, answer>>
     \/ iter > MAX_ITERATIONS /\ Fail /\ UNCHANGED iter
  /\ UNCHANGED <<step, call, SD_CARD, pci, controller>>

BufferWait ==
  /\ pc = "buffer"
  /\ \/ /\ iter < MAX_ITERATIONS /\ BufferEnabled
        /\ pc' = "transfer"
        /\ UNCHANGED <<iter, answer>>
     \/ /\ iter < MAX_ITERATIONS => ~BufferEnabled
        /\ Again
  /\ UNCHANGED <<step, call, SD_CARD, pci, controller>>

\* The 128 words of the buffer are read: the block is the answer.
TransferRead ==
  /\ pc = "transfer" /\ call.op = "read"
  /\ answer' = <<"read", call.block, buffer>>
  /\ dat' = "idle"
  /\ pc' = "idle"
  /\ UNCHANGED <<step, iter, call, SD_CARD, pci, err, done, cmd, buffer, argument, card>>

\* The 128 words are written to the buffer.  The driver does not wait for the card.
TransferWrite ==
  /\ pc = "transfer" /\ call.op = "write"
  /\ buffer' = call.data
  /\ answer' = <<"write", call.block, call.data>>
  /\ dat' = "program"
  /\ pc' = "idle"
  /\ UNCHANGED <<step, iter, call, SD_CARD, pci, err, done, cmd, argument, card>>

Driver ==
  \/ Find \/ MapBar \/ SoftwareReset \/ EnableInterrupts \/ PowerOn \/ SetClock
  \/ EnableTimeouts \/ Send \/ Check \/ Complete \/ BufferWait \/ TransferRead
  \/ TransferWrite

\* The file system's calls, one block number beyond the last included.
FileSystem ==
  \E op \in {"read", "write"}, block \in 0..total_blocks + 1, data \in Data :
    Call(op, block, data)

Next == Driver \/ FileSystem \/ Controller

Spec == Init /\ [][Next]_vars

\* The driver executes.  Nothing is assumed of the hardware.
FairSpec == Spec /\ WF_vars(Driver)

-----------------------------------------------------------------------------
(* Properties                                                              *)

\* While send_sd_command polls, a complete bit that is set is that of the command
\* it has just written: the bit left by a command that timed out never is.
FreshCompletion == pc = "complete" /\ done => cmd = "none"

\* Every polling loop gives up: initialisation ends, and so does every read_block
\* and write_block, whatever the controller does.
CallsReturn == pc \notin {"idle", "panic"} ~> pc \in {"idle", "panic"}

\* What the card holds, once the write in the buffer has reached it.
Content == [b \in Block |-> IF dat = "program" /\ argument = Argument(b)
                            THEN buffer ELSE card[Argument(b)]]
Medium == [b \in Block |-> card[Argument(b)]]

Promised == INSTANCE BlockDevice
  WITH content <- Content, medium <- Medium, broken <- err, answer <- answer

\* The driver is a block device, as the file system understands it: reads return
\* what the answered writes have stored, blocks are independent of each other, a
\* call that fails changes nothing, and answered writes reach the card in order.
ImplementsBlockDevice == Promised!Spec
=============================================================================
