----------------------------- MODULE XhciDriver -----------------------------
(***************************************************************************)
(* Driver::new and Driver::handle_interrupt of src/driver.rs, composed    *)
(* with the command ring (CommandRing.tla) and the event ring             *)
(* (EventRing.tla), and run against an xHC.                                *)
(*                                                                         *)
(* Driver::new is a strictly sequential bring-up; pc names the step it is *)
(* at.  Registers are abstracted to whether software has programmed them *)
(* (the set "programmed"), except those the xHC acts on, which are kept   *)
(* as their bits and written by read-modify-write: USBCMD, CONFIG, CRCR,  *)
(* ERSTSZ, ERSTBA, ERDP (with EHB) and the doorbell.  Also kept: the       *)
(* scratchpad count, how much of each scratchpad buffer is cleared, the   *)
(* DCBAA length, and the rings.                                            *)
(*                                                                         *)
(* The xHC (xHCI 4.2, 4.9, 4.17; not code of this repository) completes   *)
(* the reset, starts when Run/Stop is set, executes the command once the  *)
(* command doorbell is rung, posts its Command Completion Event when the   *)
(* event ring has room with respect to ERDP, and asserts an interrupt     *)
(* while ERDP lags its enqueue pointer and EHB is clear.  With            *)
(* SpuriousInterrupts the handler may also run with no interrupt of this *)
(* controller pending (a shared legacy INTx line).  With IntxPin the      *)
(* interrupt is signalled on the INTx pin, which the xHC drives while     *)
(* IMAN.IP (and IE, INTE) are set; with MSI/MSI-X the xHC clears IP       *)
(* itself when the message is written (xHCI 5.5.2.1).  With PortEvents    *)
(* the running xHC may also post one Port Status Change Event (a device   *)
(* found attached when the controller starts, xHCI 4.19).                 *)
(***************************************************************************)
EXTENDS Naturals, Sequences, SequencesExt, Bitwise

CONSTANTS
  CmdRingLen,          \* CommandRing2::new(256, ...) in the driver
  EvRingLen,           \* EventRing2::new(256, ...) in the driver
  ScratchHiValues,     \* HCSPARAMS2 Max Scratchpad Buffers Hi (bits 25:21) to try
  ScratchLoValues,     \* HCSPARAMS2 Max Scratchpad Buffers Lo (bits 31:27) to try
  InitHalted,          \* the HCHalted values the controller may be found in
  SpuriousInterrupts,  \* the handler may be entered with nothing pending
  IntxPin,             \* interrupts are delivered on the legacy INTx pin, not MSI
  PortEvents,          \* the xHC may post a Port Status Change Event
  MaxSlotsValues       \* HCSPARAMS1.MaxSlots values to try

ASSUME /\ CmdRingLen >= 2 /\ EvRingLen >= 2
       /\ ScratchHiValues \subseteq 0 .. 31 /\ ScratchLoValues \subseteq 0 .. 31
       /\ InitHalted \subseteq BOOLEAN /\ InitHalted # {}
       /\ SpuriousInterrupts \in BOOLEAN /\ IntxPin \in BOOLEAN /\ PortEvents \in BOOLEAN
       /\ MaxSlotsValues \subseteq 1 .. 255 /\ MaxSlotsValues # {}

VARIABLES
  hcsParams2,    \* the controller's HCSPARAMS2 scratchpad fields [hi, lo] (read-only)
  maxSlots,      \* HCSPARAMS1.MaxSlots (read-only)
  config,        \* the CONFIG register (MaxSlotsEn in bits 7:0)
  dcbaaLen,      \* entries of the DCBAA allocated (0 before it is)
  erstEntry,     \* ring_segment_size of the ERST entry (0 before it is written)
  erstsz,        \* the ERSTSZ register
  hwEvSegSize,   \* the event ring segment size the xHC took when ERSTBA was written (0: not armed)
  pc,            \* the step of Driver::new; "running" once it has returned
  halted,        \* USBSTS.HCHalted
  usbcmd,        \* USBCMD: R/S (bit 0), HCRST (bit 1), INTE (bit 2)
  cnr,           \* USBSTS.CNR (controller not ready)
  programmed,    \* registers and tables software has programmed
  dcbaa0,        \* DCBAA entry 0: "unset", "zero" or "scratchpad"
  scratchZeroed, \* bytes cleared in each scratchpad buffer set up so far
  doorbell,      \* the DoorbellRegister values written to doorbell 0, in order
  cmdRing, cmdEnq, cmdPcs, cmdDeq, cmdCcs, enqResult,   \* CommandRing2
  hwCmdDeq, hwCmdCcs,                                   \* xHC command ring state
  slotIds,       \* Slot IDs the xHC assigned by Enable Slot commands
  submitted, acked, executed,                           \* command history
  evSlots, evDeq, evCcs, erdpReg,                       \* EventRing2 and ERDP
  hwEvEnq, hwEvPcs, produced, posted, evType,           \* xHC event ring state
  consumed,      \* history: ids of the events handle_interrupt consumed
  ehb,           \* ERDP.EHB (event handler busy)
  ip,            \* IMAN.IP (interrupt pending)
  irq,           \* an interrupt of this controller is pending delivery
  hstep,         \* handle_interrupt: "idle" or "advance" (events peeked)
  hcount,        \* handle_interrupt: events.len() of its peek
  panicked       \* the driver has panicked

regVars   == <<maxSlots, config, dcbaaLen, erstEntry, erstsz, hwEvSegSize>>
bringVars == <<regVars, hcsParams2, pc, halted, usbcmd, cnr, programmed, dcbaa0, scratchZeroed, doorbell>>
cmdVars   == <<cmdRing, cmdEnq, cmdPcs, cmdDeq, cmdCcs, enqResult,
               hwCmdDeq, hwCmdCcs, slotIds, submitted, acked, executed>>
evVars    == <<evSlots, evDeq, evCcs, erdpReg, hwEvEnq, hwEvPcs, produced, posted,
               evType, consumed>>
intVars   == <<ehb, ip, irq, hstep, hcount, panicked>>
vars == <<bringVars, cmdVars, evVars, intVars>>

CR == INSTANCE CommandRing WITH
        RingLen <- CmdRingLen, MaxCmds <- 1,
        ring <- cmdRing, enqueue_pointer <- cmdEnq, producer_cycle_state <- cmdPcs,
        dequeue_pointer <- cmdDeq, consumer_cycle_state <- cmdCcs,
        enqResult <- enqResult, hwDeq <- hwCmdDeq, hwCcs <- hwCmdCcs,
        events <- <<>>, submitted <- submitted, acked <- acked, executed <- executed

ER == INSTANCE EventRing WITH
        RingLen <- EvRingLen, MaxEvents <- 2,
        slots <- evSlots, dequeue_pointer <- evDeq, consumer_cycle_state <- evCcs,
        erdp <- erdpReg, panicked <- panicked, hwEnq <- hwEvEnq, hwPcs <- hwEvPcs,
        produced <- produced, consumed <- consumed

PAGE_SIZE == 4096

(* Mutant: the 10-bit field reassembled as xHCI 5.3.4 defines it, with    *)
(* the clearing length of the scratchpad loop left as it is.               *)
MaxScratchpadBuffersTenBit(hi, lo) == hi * 32 + lo

(* HcsParams2::max_scratchpad_buffers: lo | (hi << 4), in u8 arithmetic.  *)
MaxScratchpadBuffers(hi, lo) == lo | ((hi * 16) % 256)

ScratchpadCount == MaxScratchpadBuffers(hcsParams2.hi, hcsParams2.lo)

(* event_ring.mem.phys_addr, 64-byte aligned (XHCI_EVENT_RING_SEGMENTS_   *)
(* ALIGNMENT); TRBs are 16 bytes.                                          *)
EvRingBase == 4096

Bit(w, i) == (w \div 2^i) % 2
SetBit(w, i, b) == w - Bit(w, i) * 2^i + (IF b THEN 2^i ELSE 0)

(* UsbCmd: run_stop 0, host_controller_reset 1, interrupter_enable 2.    *)
(* Driver::new writes it by read-modify-write (update), one bit at a time. *)
RS == 0
HCRST == 1
INTE == 2
UsbCmdBit(w, i) == Bit(w, i) = 1
(* Mutant: the register written with write() instead of update().         *)
SetUsbCmdBitWrite(w, i) == 2^i

SetUsbCmdBit(w, i) == SetBit(w, i, TRUE)

(* Erdp: desi 2..0, event_handler_busy 3, and the dequeue pointer in      *)
(* 63..4, which set_event_ring_dequeue_pointer stores shifted right by 4. *)
ErdpDequeuePointer(w) == (w \div 16) * 16
SetErdpDequeuePointer(w, addr) == (w % 16) + (addr \div 16) * 16
SetEventHandlerBusy(w, b) == SetBit(w, 3, b)

(* ERDP as software reads it: the pointer last written, EHB as the xHC    *)
(* holds it, DESI 0 (one segment).                                         *)
ErdpRead == SetEventHandlerBusy(EvRingBase + 16 * erdpReg, ehb)

(* The xHC on a write w of ERDP: the dequeue pointer is taken, and EHB,   *)
(* being RW1C, is cleared by writing 1 and left alone by writing 0.        *)
ErdpWritten(w) ==
  /\ erdpReg' = (ErdpDequeuePointer(w) - EvRingBase) \div 16
  /\ ehb' = (ehb /\ Bit(w, 3) = 0)

-----------------------------------------------------------------------------
(* CommandRing2's ring_mem.phys_addr, 64-byte aligned.                    *)
CmdRingBase == 8192

(* Crcr: ring_cycle_state 0, cs 1, ca 2, crr 3, and the command ring      *)
(* pointer in 63..6, which set_command_ring_ptr stores shifted right by 6. *)
CrcrPointer(w) == (w \div 64) * 64
SetCommandRingPtr(w, addr) == (w % 64) + (addr \div 64) * 64
(* Mutant: CRCR updated with the pointer only, RCS left as read.          *)
SetRingCycleStateDropped(w, b) == w
SetRingCycleState(w, b) == SetBit(w, 0, b)

(* CRCR as software reads it: the pointer field reads as 0 (xHCI 5.4.5)   *)
(* and the ring is stopped, so RCS, CS and CA read 0.                      *)
CrcrRead == 0

(* The xHC on a write w of CRCR while the ring is stopped: its dequeue     *)
(* pointer and consumer cycle state are loaded from the pointer and RCS.   *)
CrcrWritten(w) ==
  /\ hwCmdDeq' = (CrcrPointer(w) - CmdRingBase) \div 16
  /\ hwCmdCcs' = (Bit(w, 0) = 1)

(* HcsParams1::max_slots is bits 7:0; ConfigureRegister::max_slots_en     *)
(* likewise, written by read-modify-write (update).                         *)
MaxSlotsEn(w) == w % 256
SetMaxSlotsEn(w, v) == (w \div 256) * 256 + (v % 256)

(* dcbaa_len = max_slots as usize + 1 (xHCI 6.1).                           *)
DcbaaLen(m) == m + 1

(* The Event Ring Segment Table's physical address, 64-byte aligned.      *)
ErstBase == 12288

(* Erstsz: erstsz 15..0.  Erstba: the table address in 63..6, stored       *)
(* shifted right by 6 by set_erstba.  Both are written by update().        *)
Erstsz(w) == w % 2^16
(* Mutant: the update closure returns the register unchanged.              *)
SetErstszUnchanged(w, v) == w

SetErstsz(w, v) == (w \div 2^16) * 2^16 + (v % 2^16)
ErstbaPtr(w) == (w \div 64) * 64
SetErstba(w, addr) == (w % 64) + (addr \div 64) * 64

(* The xHC on a write w of ERSTBA (xHCI 4.9.4): it reads ERSTSZ entries of *)
(* the table at ErstbaPtr(w) and arms the event ring with the first        *)
(* segment.  A zero ERSTSZ, or a table at another address (memory the      *)
(* driver did not fill), arms no ring of the driver's.                     *)
ErstbaWritten(w) ==
  hwEvSegSize' = IF Erstsz(erstsz) >= 1 /\ ErstbaPtr(w) = ErstBase THEN erstEntry ELSE 0

(* The controller as the driver finds it: reset not in progress, possibly *)
(* still running (firmware handoff) or not yet ready; nothing programmed. *)
Init ==
  /\ hcsParams2 \in [hi : ScratchHiValues, lo : ScratchLoValues]
  /\ maxSlots \in MaxSlotsValues
  /\ config = 0
  /\ dcbaaLen = 0
  /\ slotIds = {}
  /\ erstEntry = 0
  /\ erstsz = 0
  /\ hwEvSegSize = 0
  /\ pc = "reset"
  /\ halted \in InitHalted
  /\ usbcmd = IF halted THEN 0 ELSE 1
  /\ cnr \in BOOLEAN
  /\ programmed = {}
  /\ dcbaa0 = "unset"
  /\ scratchZeroed = <<>>
  /\ doorbell = <<>>
  /\ CR!Init
  /\ ER!Init
  /\ posted = <<>>
  /\ evType = <<>>
  /\ ehb = FALSE
  /\ ip = FALSE
  /\ irq = FALSE
  /\ hstep = "idle"
  /\ hcount = 0

(* Steps of Driver::new that program one register or table and go on.     *)
Program(from, item, to) ==
  /\ pc = from
  /\ pc' = to
  /\ programmed' = programmed \cup {item}
  /\ UNCHANGED <<regVars, hcsParams2, halted, usbcmd, cnr, dcbaa0, scratchZeroed, doorbell,
                 cmdVars, evVars, intVars>>

(* Set USBCMD.HCRST.                                                       *)
ResetController ==
  /\ pc = "reset"
  /\ pc' = "wait"
  /\ usbcmd' = SetUsbCmdBit(usbcmd, HCRST)
  /\ UNCHANGED <<regVars, hcsParams2, halted, cnr, programmed, dcbaa0, scratchZeroed, doorbell,
                 cmdVars, evVars, intVars>>

(* The busy-wait loop: leave it once HCRST and CNR both read 0; until     *)
(* then the loop only re-reads the registers.                             *)
WaitReset ==
  /\ pc = "wait"
  /\ ~UsbCmdBit(usbcmd, HCRST) /\ ~cnr
  /\ pc' = "config"
  /\ UNCHANGED <<regVars, hcsParams2, halted, usbcmd, cnr, programmed, dcbaa0, scratchZeroed, doorbell,
                 cmdVars, evVars, intVars>>

(* CONFIG.MaxSlotsEn := HCSPARAMS1.MaxSlots, by read-modify-write.        *)
ProgramConfig ==
  /\ pc = "config"
  /\ pc' = "dcbaa"
  /\ programmed' = programmed \cup {"CONFIG"}
  /\ config' = SetMaxSlotsEn(config, maxSlots)
  /\ UNCHANGED <<maxSlots, dcbaaLen, erstEntry, erstsz, hwEvSegSize, hcsParams2, halted, usbcmd, cnr, dcbaa0, scratchZeroed,
                 doorbell, cmdVars, evVars, intVars>>

(* Allocate the DCBAA (MaxSlots + 1 entries) and zero it.                  *)
AllocDcbaa ==
  /\ pc = "dcbaa"
  /\ pc' = "scratch"
  /\ dcbaaLen' = DcbaaLen(maxSlots)
  /\ dcbaa0' = "zero"
  /\ UNCHANGED <<maxSlots, config, erstEntry, erstsz, hwEvSegSize, hcsParams2, halted, usbcmd, cnr, programmed, scratchZeroed, doorbell,
                 cmdVars, evVars, intVars>>

(* With a nonzero Max Scratchpad Buffers: allocate the scratchpad array   *)
(* and point DCBAA entry 0 at it; otherwise skip to DCBAAP.               *)
AllocScratchpadArray ==
  /\ pc = "scratch"
  /\ IF ScratchpadCount # 0
     THEN pc' = "scratchbuf" /\ dcbaa0' = "scratchpad"
     ELSE pc' = "dcbaap" /\ UNCHANGED dcbaa0
  /\ UNCHANGED <<regVars, hcsParams2, halted, usbcmd, cnr, programmed, scratchZeroed, doorbell,
                 cmdVars, evVars, intVars>>

(* One iteration of the loop over the scratchpad array: allocate a page,  *)
(* clear it through a byte slice of length scratchpad_array_size, and     *)
(* store its address in the entry.                                         *)
SetupScratchpadBuffer ==
  /\ pc = "scratchbuf"
  /\ scratchZeroed' = Append(scratchZeroed, ScratchpadCount * 8)
  /\ pc' = IF Len(scratchZeroed) + 1 = ScratchpadCount THEN "dcbaap" ELSE "scratchbuf"
  /\ UNCHANGED <<regVars, hcsParams2, halted, usbcmd, cnr, programmed, dcbaa0, doorbell,
                 cmdVars, evVars, intVars>>

ProgramDcbaap == Program("dcbaap", "DCBAAP", "cmdring")

(* CommandRing2::new: the ring is laid out as CR!Init has it, and CRCR is *)
(* updated with the ring base and RCS = initial_cycle_state (true).        *)
NewCommandRing ==
  /\ pc = "cmdring"
  /\ pc' = "evring"
  /\ programmed' = programmed \cup {"CRCR"}
  /\ CrcrWritten(SetRingCycleState(SetCommandRingPtr(CrcrRead, CmdRingBase), TRUE))
  /\ UNCHANGED <<regVars, hcsParams2, halted, usbcmd, cnr, dcbaa0, scratchZeroed, doorbell,
                 cmdRing, cmdEnq, cmdPcs, cmdDeq, cmdCcs, enqResult, slotIds, submitted,
                 acked, executed, evVars, intVars>>

(* EventRing2::new: the ring is laid out as ER!Init has it.                *)
NewEventRing == Program("evring", "EVRING", "erst")

(* The single ERST entry: event ring base and ring_segment_size =          *)
(* event_ring.len() as u16.                                                *)
WriteErst ==
  /\ pc = "erst"
  /\ pc' = "erstsz"
  /\ programmed' = programmed \cup {"ERST"}
  /\ erstEntry' = EvRingLen % 2^16
  /\ UNCHANGED <<maxSlots, config, dcbaaLen, erstsz, hwEvSegSize, hcsParams2, halted, usbcmd,
                 cnr, dcbaa0, scratchZeroed, doorbell, cmdVars, evVars, intVars>>

(* ERSTSZ := event_ring_segment_table_len (1), by read-modify-write.       *)
ProgramErstsz ==
  /\ pc = "erstsz"
  /\ pc' = "erdp"
  /\ programmed' = programmed \cup {"ERSTSZ"}
  /\ erstsz' = SetErstsz(erstsz, 1)
  /\ UNCHANGED <<maxSlots, config, dcbaaLen, erstEntry, hwEvSegSize, hcsParams2, halted, usbcmd,
                 cnr, dcbaa0, scratchZeroed, doorbell, cmdVars, evVars, intVars>>

(* update_erdp: read ERDP, set the dequeue pointer to the event ring base *)
(* and write it back.                                                      *)
ProgramErdp ==
  /\ pc = "erdp"
  /\ pc' = "erstba"
  /\ programmed' = programmed \cup {"ERDP"}
  /\ ErdpWritten(SetErdpDequeuePointer(ErdpRead, EvRingBase))
  /\ UNCHANGED <<regVars, hcsParams2, halted, usbcmd, cnr, dcbaa0, scratchZeroed, doorbell, cmdVars,
                 evSlots, evDeq, evCcs, hwEvEnq, hwEvPcs, produced, posted, evType,
                 consumed, ip, irq, hstep, hcount, panicked>>

(* ERSTBA := the table's address, by read-modify-write of the reset value *)
(* 0; the write arms the event ring.                                        *)
ProgramErstba ==
  /\ pc = "erstba"
  /\ pc' = "inte"
  /\ programmed' = programmed \cup {"ERSTBA"}
  /\ ErstbaWritten(SetErstba(0, ErstBase))
  /\ UNCHANGED <<maxSlots, config, dcbaaLen, erstEntry, erstsz, hcsParams2, halted, usbcmd,
                 cnr, dcbaa0, scratchZeroed, doorbell, cmdVars, evVars, intVars>>

ProgramInte ==
  /\ pc = "inte"
  /\ pc' = "iman"
  /\ usbcmd' = SetUsbCmdBit(usbcmd, INTE)
  /\ UNCHANGED <<regVars, hcsParams2, halted, cnr, programmed, dcbaa0, scratchZeroed, doorbell,
                 cmdVars, evVars, intVars>>

ProgramIman == Program("iman", "IE", "runstop")

ProgramRunStop ==
  /\ pc = "runstop"
  /\ pc' = "enqueue"
  /\ usbcmd' = SetUsbCmdBit(usbcmd, RS)
  /\ UNCHANGED <<regVars, hcsParams2, halted, cnr, programmed, dcbaa0, scratchZeroed, doorbell,
                 cmdVars, evVars, intVars>>

(* try_enqueue(enable_slot_command_trb()).expect(...): the ring is empty. *)
EnqueueEnableSlot ==
  /\ pc = "enqueue"
  /\ pc' = "doorbell"
  /\ CR!TryEnqueueOk
  /\ UNCHANGED <<regVars, hcsParams2, halted, usbcmd, cnr, programmed, dcbaa0, scratchZeroed, doorbell,
                 slotIds,
                 evVars, intVars>>

(* Mutant: the doorbell written with a device-slot target.                 *)
DoorbellTargetWrong == 1

(* HostControllerDoorbellTarget::CommandDoorbell.                          *)
DoorbellTarget == 0

(* DoorbellRegister: db_target 7..0, db_stream_id 31..16.                 *)
DbTarget(w) == w % 256
SetDbTarget(w, t) == (w \div 256) * 256 + (t % 256)

(* Ring doorbell 0 with the command target; the extended-capability walk  *)
(* that follows only reads, and Driver::new returns.                       *)
RingCommandDoorbell ==
  /\ pc = "doorbell"
  /\ pc' = "running"
  /\ doorbell' = Append(doorbell, SetDbTarget(0, DoorbellTarget))
  /\ UNCHANGED <<regVars, hcsParams2, halted, usbcmd, cnr, programmed, dcbaa0, scratchZeroed,
                 cmdVars, evVars, intVars>>

-----------------------------------------------------------------------------
(* The types of the event TRBs the model's xHC posts (XhciTrbType).      *)
CmdCompletionEvent == 33
PortStatusChangeEvent == 34

(* Mutant: process_event without its trb_type check.                       *)
IsCommandCompletionAny(type) == TRUE

(* process_event's guard: trb_type() == XhciTrbType::CmdCompletionEvent.   *)
IsCommandCompletion(type) == type = CmdCompletionEvent

(* The events handle_interrupt's peek returns, by id.                      *)
PeekedIds == [j \in 1 .. Len(ER!Peek.idx) |-> evSlots[ER!Peek.idx[j]].ev]

(* handle_interrupt's first loop: process_event on every peeked event.  A  *)
(* completion moves the command ring's dequeue pointer (ProcessedBy), any  *)
(* other event leaves it; n counts the completions processed.              *)
ProcessEvents(ids) ==
  LET step(acc, id) ==
        IF IsCommandCompletion(evType[id])
        THEN LET q == CR!ProcessedBy(acc.dequeue_pointer, acc.consumer_cycle_state,
                                     posted[id])
             IN [dequeue_pointer |-> q.dequeue_pointer,
                 consumer_cycle_state |-> q.consumer_cycle_state, n |-> acc.n + 1]
        ELSE acc
  IN FoldLeft(step, [dequeue_pointer |-> cmdDeq, consumer_cycle_state |-> cmdCcs,
                     n |-> 0], ids)

(* handle_interrupt is entered: an interrupt was delivered, or (shared     *)
(* line) one of another device.                                            *)
HandlerEntered ==
  /\ pc = "running" /\ hstep = "idle" /\ ~panicked
  /\ irq \/ SpuriousInterrupts

(* handle_interrupt, first part: peek the event ring, the first loop, and  *)
(* the second loop finding only Command Completion Events.  The peeked     *)
(* count is kept for the advance.                                          *)
HandleInterruptProcess ==
  /\ HandlerEntered
  /\ ER!Peek.ok
  /\ \A j \in DOMAIN PeekedIds : evType[PeekedIds[j]] = CmdCompletionEvent
  /\ LET r == ProcessEvents(PeekedIds)
     IN /\ cmdDeq' = r.dequeue_pointer
        /\ cmdCcs' = r.consumer_cycle_state
        /\ acked' = acked + r.n
  /\ consumed' = consumed \o PeekedIds
  /\ hcount' = Len(PeekedIds)
  /\ irq' = FALSE
  /\ hstep' = "advance"
  /\ UNCHANGED <<bringVars, cmdRing, cmdEnq, cmdPcs, enqResult, hwCmdDeq, hwCmdCcs,
                 slotIds, submitted, executed, evSlots, evDeq, evCcs, erdpReg, hwEvEnq,
                 hwEvPcs, produced, posted, evType, ehb, ip, panicked>>

(* handle_interrupt, first part, when the second loop meets an event that *)
(* is not a Command Completion Event: the first loop has run, then         *)
(* panic!().                                                               *)
HandleInterruptRejects ==
  /\ HandlerEntered
  /\ ER!Peek.ok
  /\ \E j \in DOMAIN PeekedIds : evType[PeekedIds[j]] # CmdCompletionEvent
  /\ LET r == ProcessEvents(PeekedIds)
     IN /\ cmdDeq' = r.dequeue_pointer
        /\ cmdCcs' = r.consumer_cycle_state
        /\ acked' = acked + r.n
  /\ panicked' = TRUE
  /\ UNCHANGED <<bringVars, cmdRing, cmdEnq, cmdPcs, enqResult, hwCmdDeq, hwCmdCcs,
                 slotIds, submitted, executed, evVars, ehb, ip, irq, hstep, hcount>>

(* Mutant: ERDP not rewritten by the advance (only EHB is cleared).        *)
ErdpAfterAdvanceStale == erdpReg

(* The ERDP value advance_dequeue_pointer writes.                          *)
ErdpAfterAdvance == ER!WrappingAddCustom(evDeq, hcount, EvRingLen)

(* handle_interrupt, second part: advance_dequeue_pointer(events.len()):  *)
(* a fresh peek bounds the count, the dequeue pointer moves, ERDP gets    *)
(* the new address by a read-modify-write with event_handler_busy set,   *)
(* which clears EHB.                                                       *)
HandleInterruptAdvance ==
  /\ hstep = "advance" /\ ~panicked
  /\ ER!Peek.ok
  /\ hcount <= Len(ER!Peek.idx)
  /\ evDeq' = ER!WrappingAddCustom(evDeq, hcount, EvRingLen)
  /\ ErdpWritten(SetEventHandlerBusy(
                   SetErdpDequeuePointer(ErdpRead, EvRingBase + 16 * ErdpAfterAdvance),
                   TRUE))
  /\ hstep' = "idle"
  /\ UNCHANGED <<bringVars, cmdVars, evSlots, evCcs, hwEvEnq, hwEvPcs, produced,
                 posted, evType, consumed, ip, irq, hcount, panicked>>

(* Either peek of handle_interrupt panics on its slice range.              *)
HandleInterruptPanics ==
  /\ ~panicked
  /\ HandlerEntered \/ hstep = "advance"
  /\ ~ER!Peek.ok
  /\ panicked' = TRUE
  /\ UNCHANGED <<bringVars, cmdVars, evVars, ehb, ip, irq, hstep, hcount>>

-----------------------------------------------------------------------------
(* The xHC finishes a reset: HCRST and CNR clear, the controller halted.  *)
HwFinishReset ==
  /\ UsbCmdBit(usbcmd, HCRST)
  /\ usbcmd' = 0 /\ cnr' = FALSE /\ halted' = TRUE
  /\ UNCHANGED <<regVars, hcsParams2, pc, programmed, dcbaa0, scratchZeroed, doorbell,
                 cmdVars, evVars, intVars>>

(* A controller found not ready becomes ready.                             *)
HwBecomeReady ==
  /\ cnr /\ ~UsbCmdBit(usbcmd, HCRST)
  /\ cnr' = FALSE
  /\ UNCHANGED <<regVars, hcsParams2, pc, halted, usbcmd, programmed, dcbaa0, scratchZeroed, doorbell,
                 cmdVars, evVars, intVars>>

(* Run/Stop set: the controller leaves the halted state.                   *)
HwRun ==
  /\ UsbCmdBit(usbcmd, RS) /\ halted
  /\ halted' = FALSE
  /\ UNCHANGED <<regVars, hcsParams2, pc, usbcmd, cnr, programmed, dcbaa0, scratchZeroed, doorbell,
                 cmdVars, evVars, intVars>>

(* The running xHC, its command doorbell rung, executes the valid command *)
(* TRB at its dequeue pointer and posts the completion event into the     *)
(* armed event ring, if the ring is not full with respect to ERDP.  The   *)
(* command is Enable Slot: the xHC assigns a free slot of 1..MaxSlotsEn    *)
(* and reports its ID in the completion.  No Slots Available (ID 0) would *)
(* need every enabled slot taken, which the one command of Driver::new     *)
(* with MaxSlotsEn = MaxSlots >= 1 cannot reach.                           *)
HwExecuteCommand ==
  /\ ~halted /\ hwEvSegSize # 0
  /\ \E j \in DOMAIN doorbell : DbTarget(doorbell[j]) = DoorbellTarget
  /\ hwCmdDeq # CmdRingLen - 1
  /\ cmdRing[hwCmdDeq].cycle = hwCmdCcs
  /\ (hwEvEnq + 1) % hwEvSegSize # erdpReg
  /\ executed' = Append(executed, cmdRing[hwCmdDeq].cmd)
  /\ \E id \in (1 .. MaxSlotsEn(config)) \ slotIds : slotIds' = slotIds \cup {id}
  /\ hwCmdDeq' = hwCmdDeq + 1
  /\ evSlots' = [evSlots EXCEPT ![hwEvEnq] = [cycle |-> hwEvPcs, ev |-> produced + 1]]
  /\ posted' = Append(posted, hwCmdDeq)
  /\ evType' = Append(evType, CmdCompletionEvent)
  /\ hwEvEnq' = (hwEvEnq + 1) % hwEvSegSize
  /\ hwEvPcs' = IF hwEvEnq + 1 = hwEvSegSize THEN ~hwEvPcs ELSE hwEvPcs
  /\ produced' = produced + 1
  /\ UNCHANGED <<bringVars, cmdRing, cmdEnq, cmdPcs, cmdDeq, cmdCcs, enqResult,
                 hwCmdCcs, submitted, acked, evDeq, evCcs, erdpReg, consumed, intVars>>

(* Interrupter 0 asserts an interrupt: events lie between ERDP and the    *)
(* enqueue pointer, interrupts are enabled and EHB is clear; EHB and      *)
(* IMAN.IP are set.  Under MSI/MSI-X the xHC clears IP again once the     *)
(* message is written; on the INTx pin IP stays set until software        *)
(* writes 1 to it.                                                         *)
HwAssertInterrupt ==
  /\ UsbCmdBit(usbcmd, INTE) /\ "IE" \in programmed /\ ~halted
  /\ erdpReg # hwEvEnq
  /\ ~ehb
  /\ ehb' = TRUE
  /\ ip' = IntxPin
  /\ irq' = TRUE
  /\ UNCHANGED <<bringVars, cmdVars, evVars, hstep, hcount, panicked>>

(* The INTx pin is level-triggered: while IP, IE and INTE are set it is   *)
(* asserted, and the platform delivers the interrupt again.                *)
HwIntxLevel ==
  /\ IntxPin /\ ip /\ UsbCmdBit(usbcmd, INTE) /\ "IE" \in programmed
  /\ ~irq
  /\ irq' = TRUE
  /\ UNCHANGED <<bringVars, cmdVars, evVars, ehb, ip, hstep, hcount, panicked>>

(* The running xHC posts a Port Status Change Event (once) into the armed *)
(* event ring, if it is not full with respect to ERDP.  Its pointer field *)
(* names no command; posted records 0 for it.                              *)
HwPostPortStatusChange ==
  /\ PortEvents /\ ~halted /\ hwEvSegSize # 0
  /\ PortStatusChangeEvent \notin Range(evType)
  /\ (hwEvEnq + 1) % hwEvSegSize # erdpReg
  /\ evSlots' = [evSlots EXCEPT ![hwEvEnq] = [cycle |-> hwEvPcs, ev |-> produced + 1]]
  /\ posted' = Append(posted, 0)
  /\ evType' = Append(evType, PortStatusChangeEvent)
  /\ hwEvEnq' = (hwEvEnq + 1) % hwEvSegSize
  /\ hwEvPcs' = IF hwEvEnq + 1 = hwEvSegSize THEN ~hwEvPcs ELSE hwEvPcs
  /\ produced' = produced + 1
  /\ UNCHANGED <<bringVars, cmdVars, evDeq, evCcs, erdpReg, consumed, intVars>>

-----------------------------------------------------------------------------
BringUp ==
  \/ ResetController \/ WaitReset \/ ProgramConfig \/ AllocDcbaa
  \/ AllocScratchpadArray \/ SetupScratchpadBuffer \/ ProgramDcbaap
  \/ NewCommandRing \/ NewEventRing \/ WriteErst \/ ProgramErstsz
  \/ ProgramErdp \/ ProgramErstba \/ ProgramInte \/ ProgramIman
  \/ ProgramRunStop \/ EnqueueEnableSlot \/ RingCommandDoorbell

Handler ==
  \/ HandleInterruptProcess \/ HandleInterruptRejects \/ HandleInterruptAdvance
  \/ HandleInterruptPanics

Hardware ==
  \/ HwFinishReset \/ HwBecomeReady \/ HwRun \/ HwExecuteCommand \/ HwAssertInterrupt
  \/ HwIntxLevel \/ HwPostPortStatusChange

Next == BringUp \/ Handler \/ Hardware

(* Driver::new runs to completion once called; the xHC makes progress;    *)
(* the interrupt handler runs when an interrupt is delivered and, having *)
(* peeked, finishes.  Spurious entries are not assumed to happen.         *)
Fairness ==
  /\ WF_vars(BringUp)
  /\ WF_vars(Hardware)
  /\ WF_vars(HandleInterruptProcess /\ irq)
  /\ WF_vars(HandleInterruptRejects /\ irq)
  /\ WF_vars(HandleInterruptAdvance)
  /\ WF_vars(HandleInterruptPanics)

Spec == Init /\ [][Next]_vars /\ Fairness

-----------------------------------------------------------------------------
(* Types; a scratchpad buffer is cleared through a slice that stays      *)
(* within its PAGE_SIZE allocation.                                         *)
TypeOK ==
  /\ pc \in {"reset", "wait", "config", "dcbaa", "scratch", "scratchbuf", "dcbaap",
             "cmdring", "evring", "erst", "erstsz", "erdp", "erstba", "inte",
             "iman", "runstop", "enqueue", "doorbell", "running"}
  /\ halted \in BOOLEAN /\ usbcmd \in 0 .. 7 /\ cnr \in BOOLEAN
  /\ programmed \subseteq {"CONFIG", "DCBAAP", "CRCR", "EVRING", "ERST", "ERSTSZ",
                           "ERDP", "ERSTBA", "IE"}
  /\ dcbaa0 \in {"unset", "zero", "scratchpad"}
  /\ config \in 0 .. 255 /\ dcbaaLen \in 0 .. 256 /\ slotIds \subseteq 1 .. 255
  /\ erstEntry \in 0 .. 2^16 - 1 /\ erstsz \in Nat /\ hwEvSegSize \in 0 .. 2^16 - 1
  /\ scratchZeroed \in Seq(0 .. PAGE_SIZE)
  /\ doorbell \in Seq(Nat)
  /\ CR!TypeOK
  /\ ER!TypeOK
  /\ posted \in Seq(0 .. CmdRingLen - 1)
  /\ evType \in Seq({CmdCompletionEvent, PortStatusChangeEvent})
  /\ ehb \in BOOLEAN /\ ip \in BOOLEAN /\ irq \in BOOLEAN
  /\ hstep \in {"idle", "advance"} /\ hcount \in 0 .. EvRingLen

(* handle_interrupt never panics: each time it is entered it peeks and    *)
(* advances the event ring without an out-of-order slice range.            *)
NoPanic == ~panicked

(* Bring-up ends with the enable-slot command executed, its completion    *)
(* event consumed by handle_interrupt and fed to the command ring, ERDP   *)
(* caught up with the xHC and EHB cleared, and it stays so.               *)
EnableSlotCompletes ==
  <>[](/\ pc = "running" /\ executed = <<1>> /\ acked = 1
       /\ cmdDeq = cmdEnq /\ erdpReg = hwEvEnq /\ ~ehb)

(* Every scratchpad buffer handed to the xHC has been cleared in full     *)
(* (xHCI 4.20 step 4b, quoted at the loop in Driver::new).                *)
ScratchpadBuffersCleared ==
  \A j \in 1 .. Len(scratchZeroed) : scratchZeroed[j] >= PAGE_SIZE

(* process_event acts only on Command Completion Events: software never   *)
(* counts more command completions than commands the xHC executed, even   *)
(* when other events (a Port Status Change) share the event ring.         *)
CompletionsOnlyFromCommands == acked <= Len(executed)

(* Once its events are handled the controller stops interrupting:         *)
(* eventually no interrupt is pending delivery ever again, although       *)
(* handle_interrupt never writes IMAN.IP (src/interrupter_regs.rs).        *)
InterruptsSubside == <>[]~irq

(* Driver::new sets USBCMD.HCRST only while USBSTS.HCHalted reads 1: the  *)
(* HCRST documentation (src/operational_regs.rs, "Software shall not set  *)
(* this bit to '1' when the HCHalted (HCH) bit in the USBSTS register is   *)
(* a '0'") forbids resetting a controller that firmware left running.     *)
ResetOnlyWhenHalted ==
  [][~UsbCmdBit(usbcmd, HCRST) /\ UsbCmdBit(usbcmd', HCRST) => halted]_vars
====
