---------------------------- MODULE SdCardProofs ----------------------------
(***************************************************************************)
(* Theorems about SdCard and Pci, for any card that the argument register  *)
(* can address, any contents, any limit of the polling loops and any       *)
(* devices on the PCI buses.                                               *)
(***************************************************************************)
EXTENDS SdCard, TLAPS

-----------------------------------------------------------------------------
(* Addresses                                                               *)

\* get_pci_addres: registers of PCI functions that differ have addresses that
\* differ, within the 32 bits of the address port when the enable bit is bit 31.
THEOREM ConfigAddressesDistinct ==
  ASSUME NEW b1, NEW d1, NEW f1, NEW o1, ValidRegister(b1, d1, f1, o1),
         NEW b2, NEW d2, NEW f2, NEW o2, ValidRegister(b2, d2, f2, o2)
  PROVE  /\ get_pci_addres(b1, d1, f1, o1) = get_pci_addres(b2, d2, f2, o2)
              => <<b1, d1, f1, o1>> = <<b2, d2, f2, o2>>
         /\ get_pci_addres(b1, d1, f1, o1) < 2 * CONFIG_ENABLE
<1>1. /\ b1 \in Int /\ 0 <= b1 /\ b1 <= 255 /\ d1 \in Int /\ 0 <= d1 /\ d1 <= 31
      /\ f1 \in Int /\ 0 <= f1 /\ f1 <= 7 /\ o1 \in Int /\ 0 <= o1 /\ o1 <= 255
  BY DEF ValidRegister
<1>2. /\ b2 \in Int /\ 0 <= b2 /\ b2 <= 255 /\ d2 \in Int /\ 0 <= d2 /\ d2 <= 31
      /\ f2 \in Int /\ 0 <= f2 /\ f2 <= 7 /\ o2 \in Int /\ 0 <= o2 /\ o2 <= 255
  BY DEF ValidRegister
<1> QED
  BY <1>1, <1>2, EnableAssumption DEF get_pci_addres

\* The argument of a read or write command does not overflow, lies on the card
\* (which has (c_size + 1) * 1024 blocks), and tells the blocks apart, also for
\* block number total_blocks, which read_block and write_block let through.
THEOREM ArgumentsOnCard ==
  ASSUME NEW b \in Block
  PROVE  /\ Argument(b) = b * SD_BLOCK_SIZE
         /\ Argument(b) < (c_size + 1) * 1024
         /\ \A c \in Block : Argument(c) = Argument(b) => c = b
<1>1. \A c \in Block : c \in Nat /\ c * 512 < Word /\ c * 512 < (c_size + 1) * 1024
  BY CardAssumption DEF Block, total_blocks
<1>2. \A n \in Nat : n < Word => n % Word = n
  BY CardAssumption
<1>3. \A c \in Block : Argument(c) = c * 512
  BY <1>1, <1>2 DEF Argument, SD_BLOCK_SIZE
<1> QED
  BY <1>1, <1>3 DEF SD_BLOCK_SIZE

-----------------------------------------------------------------------------
(* Type correctness                                                        *)

\* Of the commands of the reset sequence, the last one alone leaves the card busy.
LEMMA ResetSequence ==
  /\ Len(ResetCommands) = 13
  /\ \A i \in 1..12 : Command(ResetCommands[i]) = "plain"
  /\ Command(ResetCommands[13]) = "select"
  BY DEF ResetCommands, Command

\* Every step of the driver and of the controller keeps the state well typed: no
\* loop counter exceeds its limit, and once the registers of the controller are
\* used, its PCI function answers over memory space.
THEOREM TypeCorrect == Spec => []TypeOK
<1> USE DataAssumption, IterationAssumption, CardAssumption, ResetSequence
<1>1. Init => TypeOK
  <2> SUFFICES ASSUME Init PROVE TypeOK
    OBVIOUS
  <2>1. 0 \in Block
    BY DEF Block, total_blocks
  <2>2. AnyData \in Data
    BY Zenon DEF AnyData
  <2>3. call \in [op : {"read", "write"}, block : Block, data : Data]
    BY <2>1, <2>2 DEF Init
  <2>4. argument \in {Argument(b) : b \in Block}
    BY <2>1 DEF Init
  <2>5. command \in [{CommandRegister(d) : d \in Device} -> SUBSET Flag]
    BY DEF Init
  <2>6. pc = "find" /\ 1 \in 1..13 /\ 0 \in 0..MAX_ITERATIONS
    BY DEF Init
  <2> QED
    BY Zenon, <2>2, <2>3, <2>4, <2>5, <2>6 DEF Init, TypeOK
<1>2. TypeOK /\ [Next]_vars => TypeOK'
  <2> SUFFICES ASSUME TypeOK, [Next]_vars
               PROVE  TypeOK'
    OBVIOUS
  <2> USE DEF TypeOK, pci, driver, controller, Fail, Again, Reachable
  <2> DEFINE Registers == {CommandRegister(d) : d \in Device}
  <2>1. CASE Find
    <3>1. command' \in [Registers -> SUBSET Flag]
      <4>1. command' = command
            \/ \E r \in Registers : command' = [command EXCEPT ![r] = @ \ {"MEMORY_SPACE"}]
        BY Zenon, <2>1 DEF Find, find_sd_card
      <4> HIDE DEF Registers
      <4>2. ASSUME NEW r \in Registers,
                   command' = [command EXCEPT ![r] = @ \ {"MEMORY_SPACE"}]
            PROVE  command' \in [Registers -> SUBSET Flag]
        <5>1. command \in [Registers -> SUBSET Flag]
          BY Zenon DEF Registers
        <5>2. command[r] \ {"MEMORY_SPACE"} \in SUBSET Flag
          BY <5>1
        <5> QED
          BY <4>2, <5>1, <5>2
      <4>3. command' = command => command' \in [Registers -> SUBSET Flag]
        BY Zenon DEF Registers
      <4> QED
        BY <4>1, <4>2, <4>3
    <3>2. pc' \in {"map", "panic"}
          /\ UNCHANGED <<step, iter, call, answer, SD_CARD, devices, controller>>
      BY Zenon, <2>1 DEF Find
    <3> QED
      BY <3>1, <3>2
  <2>2. CASE MapBar
    <3>1. /\ pc' \in {"reset", "panic"}
          /\ UNCHANGED <<step, iter, call, answer, SD_CARD, devices, controller>>
      BY Zenon, <2>2 DEF MapBar
    <3>2. CASE pc' = "panic"
      BY <2>2, <3>1, <3>2 DEF MapBar
    <3>3. CASE pc' = "reset"
      <4>1. PICK d \in find_sd_card(devices) :
              command' = [command EXCEPT ![CommandRegister(d)] = Flag]
        BY Zenon, <2>2, <3>3 DEF MapBar
      <4>2. d \in Device
        BY <4>1 DEF find_sd_card
      <4>3. command' \in [Registers -> SUBSET Flag] /\ command'[CommandRegister(d)] = Flag
        BY <4>1, <4>2
      <4>4. Reachable'
        BY <3>1, <4>1, <4>3
      <4> QED
        BY <3>1, <3>3, <4>3, <4>4
    <3> QED
      BY <3>1, <3>2, <3>3
  <2>3. CASE SoftwareReset
    <3>1. /\ pc = "reset" /\ pc' \in {"reset", "interrupts", "idle", "panic"}
          /\ pc' = "idle" => SD_CARD
          /\ answer' \in {answer, <<"error">>}
          /\ err' \in BOOLEAN /\ done' \in BOOLEAN
      BY Zenon, <2>3 DEF SoftwareReset
    <3>2. iter' \in 0..MAX_ITERATIONS
      BY <2>3 DEF SoftwareReset
    <3>3. UNCHANGED <<step, call, SD_CARD, pci, cmd, dat, buffer, argument, card>>
      BY <2>3 DEF SoftwareReset
    <3> QED
      BY <3>1, <3>2, <3>3
  <2>4. CASE EnableInterrupts \/ PowerOn \/ EnableTimeouts
    BY <2>4 DEF EnableInterrupts, PowerOn, EnableTimeouts
  <2>5. CASE SetClock
    BY <2>5 DEF SetClock
  <2>6. CASE Send
    BY <2>6 DEF Send
  <2>7. CASE Check
    BY <2>7 DEF Check
  <2>8. CASE Complete
    <3>1. step' \in 1..13 /\ iter' \in 0..MAX_ITERATIONS
      BY <2>8 DEF Complete, AfterReset
    <3>2. /\ SD_CARD' \in BOOLEAN /\ done' \in BOOLEAN
          /\ pc' \in {"send", "panic", "idle", "buffer", "complete"}
          /\ pc' \in {"idle", "buffer"} => SD_CARD'
          /\ answer' \in {answer, <<"error">>}
      BY Zenon, <2>8 DEF Complete, AfterReset
    <3>3. UNCHANGED <<call, pci, err, cmd, dat, buffer, argument, card>>
      BY <2>8 DEF Complete
    <3> QED
      BY <2>8, <3>1, <3>2, <3>3 DEF Complete
  <2>9. CASE BufferWait
    BY <2>9 DEF BufferWait
  <2>10. CASE TransferRead \/ TransferWrite
    BY <2>10 DEF TransferRead, TransferWrite
  <2>11. CASE FileSystem
    <3>1. PICK op \in {"read", "write"}, block \in 0..total_blocks + 1, data \in Data :
            Call(op, block, data)
      BY <2>11 DEF FileSystem
    <3>2. block <= total_blocks => block \in Block
      BY DEF Block, total_blocks
    <3>3. call' \in [op : {"read", "write"}, block : Block, data : Data]
      BY <3>1, <3>2 DEF Call
    <3>4. /\ pc' \in {"send", "idle", "panic"} /\ answer' \in {answer, <<"error">>}
          /\ pc = "idle" /\ (pc' = "idle" => SD_CARD)
          /\ UNCHANGED <<step, iter, SD_CARD, pci, controller>>
      BY <3>1 DEF Call
    <3> QED
      BY <3>3, <3>4
  <2>12. CASE Respond \/ Accepting \/ Ready \/ Error
    <3>1. /\ cmd' \in {cmd, "none"}
          /\ dat' \in {"idle", "busy", "fetch", "readable", "accept", "writable", "program"}
          /\ UNCHANGED <<driver, buffer, argument, card>>
      BY Zenon, <2>12 DEF Respond, Accepting, Ready, Error
    <3>2. err' \in BOOLEAN /\ done' \in BOOLEAN
      BY Zenon, <2>12 DEF Respond, Accepting, Ready, Error
    <3> QED
      BY <3>1, <3>2
  <2>13. CASE Fetched \/ Programmed
    BY <2>13 DEF Fetched, Programmed
  <2>14. CASE UNCHANGED vars
    BY <2>14 DEF vars
  <2> QED
    BY <2>1, <2>2, <2>3, <2>4, <2>5, <2>6, <2>7, <2>8, <2>9, <2>10, <2>11, <2>12,
       <2>13, <2>14 DEF Next, Driver, Controller
<1> QED
  BY <1>1, <1>2, PTL DEF Spec

-----------------------------------------------------------------------------
(* The driver's invariant                                                  *)

\* The data phases in which the controller waits for the driver, or soon will.
Open == {"fetch", "readable", "accept", "writable"}

\* What the driver's few checks amount to.  An error leaves nothing in flight.
\* A command is in flight only while the data line is idle.  A complete bit that
\* is set belongs to the latest command, and once the driver has given that
\* command up, its open data phase, or the error, inhibits the next one.
SdInv ==
  /\ err => cmd = "none" /\ dat = "idle"
  /\ cmd # "none" => dat = "idle"
  /\ dat = "readable" => buffer = card[argument]
  /\ pc \in {"check", "complete"} /\ done => cmd = "none"
  /\ ~SD_CARD =>
       /\ answer = <<"none">>
       /\ pc # "panic" /\ step < Len(ResetCommands) => cmd \in {"none", "plain"} /\ dat = "idle"
       /\ pc \notin {"check", "complete", "panic"} => cmd = "none" /\ dat = "idle"
       /\ pc \notin {"find", "map", "reset", "check", "complete", "panic"} => ~done
  /\ SD_CARD =>
       /\ pc \in {"idle", "send", "check", "complete", "buffer", "transfer"}
       /\ cmd \in {"none", "read", "write"}
       /\ pc \in {"idle", "send"} /\ done => err \/ cmd # "none" \/ dat \in Open
       /\ pc \in {"check", "complete"} /\ done => err \/ dat \in Open
       /\ pc \in {"buffer", "transfer"} => cmd = "none" /\ (done => err)
       /\ pc \notin {"idle", "send"} => argument = Argument(call.block)
       /\ pc = "transfer" => BufferEnabled

\* SdInv is inductive, given TypeOK.
LEMMA SdInvStep ==
  ASSUME TypeOK, SdInv, [Next]_vars
  PROVE  SdInv'
<1> USE ResetSequence DEF TypeOK, SdInv, Open, pci, driver, controller, BufferEnabled,
                         Fail
<1>1. CASE Find \/ MapBar
  <2>1. /\ pc \in {"find", "map"} /\ pc' \in {"map", "reset", "panic"}
        /\ UNCHANGED <<step, call, answer, SD_CARD, controller>>
    BY Zenon, <1>1 DEF Find, MapBar
  <2> QED
    BY <2>1
<1>2. CASE SoftwareReset \/ SetClock
  BY <1>2 DEF SoftwareReset, SetClock, Again
<1>3. CASE EnableInterrupts \/ PowerOn \/ EnableTimeouts
  BY <1>3 DEF EnableInterrupts, PowerOn, EnableTimeouts
<1>4. CASE Send
  BY <1>4 DEF Send, sending_command_valid
<1>5. CASE Check
  BY <1>5 DEF Check
<1>6. CASE Complete
  BY <1>6 DEF Complete, AfterReset, Again
<1>7. CASE BufferWait
  BY <1>7 DEF BufferWait, Again
<1>8. CASE TransferRead
  BY <1>8 DEF TransferRead
<1>9. CASE TransferWrite
  BY <1>9 DEF TransferWrite
<1>10. CASE FileSystem
  BY <1>10 DEF FileSystem, Call
<1>11. CASE Respond
  BY <1>11 DEF Respond
<1>12. CASE Fetched
  BY <1>12 DEF Fetched
<1>13. CASE Accepting
  BY <1>13 DEF Accepting
<1>14. CASE Programmed
  BY <1>14 DEF Programmed
<1>15. CASE Ready
  BY <1>15 DEF Ready
<1>16. CASE Error
  BY <1>16 DEF Error
<1>17. CASE UNCHANGED vars
  BY <1>17 DEF vars
<1> QED
  BY Zenon, <1>1, <1>2, <1>3, <1>4, <1>5, <1>6, <1>7, <1>8, <1>9, <1>10, <1>11, <1>12,
     <1>13, <1>14, <1>15, <1>16, <1>17 DEF Next, Driver, Controller

\* SdInv always holds.
THEOREM SdInvariant == Spec => []SdInv
<1>1. Init => SdInv
  BY DEF Init, SdInv
<1>2. TypeOK /\ SdInv /\ [Next]_vars => SdInv'
  BY SdInvStep
<1> QED
  BY <1>1, <1>2, TypeCorrect, PTL DEF Spec

\* send_sd_command never takes the complete bit of an earlier command for that of
\* its own: a command that timed out inhibits every later one.
THEOREM CompletionsFresh == Spec => []FreshCompletion
<1>1. SdInv => FreshCompletion
  BY DEF SdInv, FreshCompletion
<1> QED
  BY <1>1, SdInvariant, PTL

-----------------------------------------------------------------------------
(* The driver implements a block device                                    *)

\* The blocks and the medium as the block device sees them do not change when
\* the registers they are made of do not.
LEMMA SameBlocks ==
  ASSUME UNCHANGED card,
         \/ dat # "program" /\ dat' # "program"
         \/ UNCHANGED <<dat, buffer, argument>>
  PROVE  UNCHANGED <<Content, Medium>>
  BY DEF Content, Medium

\* Every step of the driver and the controller is a step of a block device or
\* leaves its state alone: the commands, the polling, the time-outs and the late
\* answers of the controller do not show, but for calls that fail.
THEOREM DriverImplementsBlockDevice == Spec => ImplementsBlockDevice
<1> DEFINE Same == UNCHANGED <<Content, Medium, err, answer>>
           Abstract == Promised!Next \/ Same
<1>1. TypeOK /\ Init => Promised!Init
  <2> SUFFICES ASSUME TypeOK, Init PROVE Promised!Init
    OBVIOUS
  <2>1. Content = Medium
    BY DEF Init, Content, Medium
  <2>2. Medium \in [Block -> Data]
    BY DEF TypeOK, Medium
  <2> QED
    BY Zenon, <2>1, <2>2 DEF Init, Promised!Init
<1>2. TypeOK /\ SdInv /\ [Next]_vars => [Promised!Next]_<<Content, Medium, err, answer>>
  <2> SUFFICES ASSUME TypeOK, SdInv, [Next]_vars
               PROVE  Abstract
    OBVIOUS
  <2> USE DEF TypeOK, SdInv, pci, driver, controller
  <2>1. ASSUME Fail, UNCHANGED controller
        PROVE  Abstract
    <3>1. UNCHANGED <<Content, Medium>>
      BY <2>1, SameBlocks
    <3>2. answer' = <<"error">> \/ answer' = answer
      BY <2>1 DEF Fail
    <3> QED
      BY <2>1, <3>1, <3>2 DEF Promised!Next, Promised!Fail
  <2>2. ASSUME UNCHANGED <<controller, answer>>
        PROVE  Abstract
    BY <2>2, SameBlocks
  <2>3. CASE Find \/ MapBar
    BY <2>2, <2>3 DEF Find, MapBar
  <2>4. CASE SoftwareReset
    <3>1. ~SD_CARD /\ answer = <<"none">>
      BY <2>4 DEF SoftwareReset
    <3>2. UNCHANGED <<Content, Medium>>
      BY <2>4, SameBlocks DEF SoftwareReset
    <3>3. answer' = answer /\ (err' = FALSE \/ err' = err)
      BY <2>4, <3>1 DEF SoftwareReset, Again, Fail
    <3> QED
      BY <3>1, <3>2, <3>3 DEF Promised!Next, Promised!Reset
  <2>5. CASE EnableInterrupts \/ PowerOn \/ EnableTimeouts \/ Check
    BY <2>1, <2>2, <2>5 DEF EnableInterrupts, PowerOn, EnableTimeouts, Check
  <2>6. CASE SetClock \/ BufferWait
    BY <2>1, <2>2, <2>6 DEF SetClock, BufferWait, Again
  <2>7. CASE Send
    <3>1. CASE sending_command_valid
      <4>1. dat = "idle" /\ UNCHANGED <<card, dat, err, answer>>
        BY <2>7, <3>1 DEF Send, sending_command_valid
      <4>2. UNCHANGED <<Content, Medium>>
        BY <4>1, SameBlocks
      <4> QED
        BY <4>1, <4>2
    <3>2. CASE ~sending_command_valid
      BY <2>1, <2>7, <3>2 DEF Send
    <3> QED
      BY <3>1, <3>2
  <2>8. CASE Complete
    <3>1. UNCHANGED <<Content, Medium, err>>
      BY <2>8, SameBlocks DEF Complete
    <3>2. answer' = answer \/ answer' = <<"error">>
      BY <2>8 DEF Complete, Again, Fail
    <3> QED
      BY <3>1, <3>2 DEF Promised!Next, Promised!Fail
  <2>9. CASE TransferRead
    <3>1. /\ dat = "readable" /\ ~err /\ dat' = "idle"
          /\ argument = Argument(call.block) /\ buffer = card[argument]
          /\ call.block \in Block
          /\ answer' = <<"read", call.block, buffer>>
          /\ UNCHANGED <<card, err>>
      BY <2>9 DEF TransferRead, BufferEnabled
    <3>2. UNCHANGED <<Content, Medium>>
      BY <3>1, SameBlocks
    <3>3. Content[call.block] = buffer
      BY <3>1 DEF Content
    <3>4. Promised!Read(call.block)
      BY <3>1, <3>2, <3>3 DEF Promised!Read
    <3> QED
      BY <3>1, <3>4 DEF Promised!Next
  <2>10. CASE TransferWrite
    <3>1. /\ dat = "writable" /\ ~err /\ dat' = "program"
          /\ argument = Argument(call.block) /\ argument' = argument
          /\ call.block \in Block /\ call.data \in Data
          /\ buffer' = call.data
          /\ answer' = <<"write", call.block, call.data>>
          /\ UNCHANGED <<card, err>>
      BY <2>10 DEF TransferWrite, BufferEnabled
    <3>2. Content = Medium /\ Medium' = Medium
      BY <3>1 DEF Content, Medium
    <3>3. Content' = [b \in Block |-> IF b = call.block THEN call.data ELSE Content[b]]
      <4>1. \A b \in Block : argument' = Argument(b) <=> b = call.block
        BY <3>1, ArgumentsOnCard
      <4> QED
        BY <3>1, <4>1 DEF Content
    <3>4. Content' = [Content EXCEPT ![call.block] = call.data]
      BY Zenon, <3>1, <3>3 DEF Content
    <3>5. Promised!Write(call.block, call.data)
      BY <3>1, <3>2, <3>4 DEF Promised!Write
    <3> QED
      BY <3>1, <3>5 DEF Promised!Next
  <2>11. CASE FileSystem
    BY <2>1, <2>2, <2>11 DEF FileSystem, Call
  <2>12. CASE Respond \/ Fetched \/ Accepting \/ Ready
    <3>1. /\ dat # "program" /\ dat' # "program"
          /\ UNCHANGED <<card, err, answer>>
      BY <2>12 DEF Respond, Fetched, Accepting, Ready
    <3> QED
      BY <3>1, SameBlocks
  <2>13. CASE Programmed
    <3>1. /\ dat = "program" /\ dat' = "idle"
          /\ card' = [card EXCEPT ![argument] = buffer]
          /\ UNCHANGED <<err, answer, argument, buffer>>
      BY <2>13 DEF Programmed
    <3>2. \A b \in Block : card'[Argument(b)] =
            IF argument = Argument(b) THEN buffer ELSE card[Argument(b)]
      BY <3>1
    <3>3. Content' = Content /\ Medium' = Content
      BY <3>1, <3>2 DEF Content, Medium
    <3> QED
      BY <3>1, <3>3 DEF Promised!Next, Promised!Settle
  <2>14. CASE Error
    <3>1. err' = TRUE /\ dat' = "idle" /\ UNCHANGED <<card, answer>>
      BY <2>14 DEF Error
    <3>2. Content' = Medium /\ Medium' = Medium
      BY <3>1 DEF Content, Medium
    <3> QED
      BY <3>1, <3>2 DEF Promised!Next, Promised!Break
  <2>15. CASE UNCHANGED vars
    BY <2>2, <2>15 DEF vars
  <2> QED
    BY <2>3, <2>4, <2>5, <2>6, <2>7, <2>8, <2>9, <2>10, <2>11, <2>12,
       <2>13, <2>14, <2>15 DEF Next, Driver, Controller
<1> QED
  BY <1>1, <1>2, TypeCorrect, SdInvariant, PTL
     DEF Spec, ImplementsBlockDevice, Promised!Spec, Promised!vars
=============================================================================
