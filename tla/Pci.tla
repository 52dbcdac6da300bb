--------------------------------- MODULE Pci ---------------------------------
(***************************************************************************)
(* PCI configuration space as devices/pci.rs reaches it: the address that  *)
(* selects a register of a device, the walk over all buses, and the search *)
(* for the SD host controller among the devices found.  Only the bootstrap *)
(* processor uses it, during boot.                                         *)
(***************************************************************************)
EXTENDS Integers

CONSTANTS Device,         \* the devices there may be on the buses: records of
                          \* bus, device and the class triple
          CONFIG_ENABLE   \* the enable bit of an address, 1 << 31 in the code

ASSUME EnableAssumption == CONFIG_ENABLE \in Nat /\ CONFIG_ENABLE >= 16777216
ASSUME DeviceAssumption ==
  /\ \A d \in Device : d.bus \in 0..255 /\ d.device \in 0..31
  /\ \A d, e \in Device : d.bus = e.bus /\ d.device = e.device => d = e

\* The asserts of get_pci_addres, and the widths of its arguments.
ValidRegister(bus, device, function, offset) ==
  /\ bus \in 0..255
  /\ device \in 0..31
  /\ function \in 0..7
  /\ offset \in 0..255 /\ offset % 4 = 0

\* The fields of an address have no bit in common, so | is +.
get_pci_addres(bus, device, function, offset) ==
  CONFIG_ENABLE + bus * 65536 + device * 2048 + function * 256 + offset

\* The command register of a device, at offset 4 of function 0.
CommandRegister(d) == get_pci_addres(d.bus, d.device, 0, 4)

\* walk_pci_bus lists every device that answers, d before e.
walk_pci_bus(d, e) == d.bus < e.bus \/ (d.bus = e.bus /\ d.device < e.device)

SD_CLASS_CODE == 8
SD_SUB_CLASS == 5
SD_NO_DMA_INTERFACE == 0
SD_DMA_INTERFACE == 1

IsSdCard(d) ==
  /\ d.class_code = SD_CLASS_CODE
  /\ d.subclass = SD_SUB_CLASS
  /\ d.programming_interface \in {SD_NO_DMA_INTERFACE, SD_DMA_INTERFACE}

\* The first SD host controller among the devices that answer: a set of one
\* device, or empty (None).
find_sd_card(devices) ==
  {d \in devices : /\ IsSdCard(d)
                   /\ \A e \in devices : IsSdCard(e) => e = d \/ walk_pci_bus(d, e)}
=============================================================================
