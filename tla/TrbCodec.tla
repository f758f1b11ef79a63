------------------------------ MODULE TrbCodec ------------------------------
(***************************************************************************)
(* The TRB codec: src/trb.rs, src/trb_type.rs, src/enable_slot_command_   *)
(* trb.rs and src/command_completion_trb.rs, and the places the rings use *)
(* them (src/command_ring.rs).                                             *)
(*                                                                         *)
(* A TRB is [parameter, status, control] with the 32-bit control dword    *)
(* kept as a number; the bitfield getters and setters are bit arithmetic  *)
(* on it, so a setter that disturbs a neighbouring field shows.            *)
(*                                                                         *)
(* The state is one slot of each kind of traffic: the command TRB that    *)
(* try_enqueue wrote last, the Link TRB at the end of the command ring,   *)
(* the event TRB the xHC wrote last, and what the last                     *)
(* XhciCommandCompletionEventTrb::try_from made of one of them.  The xHC  *)
(* side (which event it writes) is the environment.                        *)
(***************************************************************************)
EXTENDS Naturals

CONSTANTS
  RingBase,    \* ring_mem.phys_addr of the command ring (64-byte aligned)
  RingLen,     \* command ring length in TRBs
  OtherEvents  \* types of non-completion events the xHC may post

ASSUME RingBase % 64 = 0 /\ RingLen >= 2

VARIABLES
  cmdTrb,    \* the command TRB try_enqueue last wrote
  linkTrb,   \* the Link TRB in the last slot of the command ring
  evTrb,     \* the event TRB the xHC last wrote
  sent,      \* what the xHC meant by evTrb: [kind |-> "cc", index] or [kind |-> "other", type]
  converted, \* which TRB was last given to try_from: "none", "cmd", "link" or "ev"
  result     \* what try_from returned: [ok |-> TRUE, index] or [ok |-> FALSE, tag]

vars == <<cmdTrb, linkTrb, evTrb, sent, converted, result>>

-----------------------------------------------------------------------------
(* The bitfield! accessors of a field hi..lo of a 32-bit dword: the getter *)
(* shifts and masks, the setter clears the field and ors in the value      *)
(* truncated to the field.                                                 *)
Bits(w, hi, lo) == (w \div 2^lo) % 2^(hi - lo + 1)
SetBits(w, hi, lo, v) == w - Bits(w, hi, lo) * 2^lo + (v % 2^(hi - lo + 1)) * 2^lo

B2N(b) == IF b THEN 1 ELSE 0

(* AnyTrbControl (and LinkTrbControl): cycle_bit 0, toggle_cycle 1,        *)
(* trb_type 15..10.                                                        *)
CycleBit(w) == Bits(w, 0, 0) = 1
ToggleCycle(w) == Bits(w, 1, 1) = 1
TrbType(w) == Bits(w, 15, 10)

(* Mutant: set_cycle_bit writing the whole dword.                          *)
SetCycleBitWord(w, b) == B2N(b)

SetCycleBit(w, b) == SetBits(w, 0, 0, B2N(b))
SetToggleCycle(w, b) == SetBits(w, 1, 1, B2N(b))
SetTrbType(w, t) == SetBits(w, 15, 10, t)

(* XhciTrbType, the discriminants of Table 6-91.                           *)
XhciTrbType ==
  [Reserved |-> 0, Normal |-> 1, SetupStage |-> 2, DataStage |-> 3, StatusStage |-> 4,
   Isoch |-> 5, Link |-> 6, EventData |-> 7, Noop |-> 8, EnableSlotCmd |-> 9,
   DisableSlotCmd |-> 10, AddressDeviceCmd |-> 11, ConfigureEndpointCmd |-> 12,
   EvaluateContextCmd |-> 13, ResetEndpointCmd |-> 14, StopEndpointCmd |-> 15,
   SetTrDequeuePtrCmd |-> 16, ResetDeviceCmd |-> 17, ForceEventCmd |-> 18,
   NegotiateBandwidthCmd |-> 19, SetLatencyToleranceValueCmd |-> 20,
   GetPortBandwidthCmd |-> 21, ForceHeaderCmd |-> 22, NoopCmd |-> 23,
   GetExtendedPropertyCmd |-> 24, SetExtendedPropertyCmd |-> 25,
   TransferEvent |-> 32, CmdCompletionEvent |-> 33, PortStatusChangeEvent |-> 34,
   BandwidthRequestEvent |-> 35, DoorbellEvent |-> 36, HostControllerEvent |-> 37,
   DeviceNotificationEvent |-> 38, MfindexWrapEvent |-> 39]

(* The "Command Ring : yes" and "Event Ring : yes" rows of its docs.       *)
AllowedOnCommandRing == {XhciTrbType.Link} \cup (XhciTrbType.EnableSlotCmd .. XhciTrbType.SetExtendedPropertyCmd)
AllowedOnEventRing == XhciTrbType.TransferEvent .. XhciTrbType.MfindexWrapEvent

ASSUME OtherEvents \subseteq AllowedOnEventRing \ {XhciTrbType.CmdCompletionEvent}

(* LinkTrb::new(next_trb_phys_addr, cycle_bit, toggle_cycle).              *)
LinkTrbNew(addr, cycle, toggle) ==
  [parameter |-> addr, status |-> 0,
   control |-> SetTrbType(SetToggleCycle(SetCycleBit(0, cycle), toggle), XhciTrbType.Link)]

(* enable_slot_command_trb().                                              *)
EnableSlotCommandTrb ==
  [parameter |-> 0, status |-> 0, control |-> SetTrbType(0, XhciTrbType.EnableSlotCmd)]

(* Mutant: command_trb_pointer without the shift back by 4.                *)
CommandTrbPointerUnshifted(p) == p \div 2^4

(* CommandTrbPointer::command_trb_pointer: bits 63..4 of the u64 (all of  *)
(* them above bit 3), shifted back by 4.                                   *)
CommandTrbPointer(p) == (p \div 2^4) * 2^4

(* XhciCommandCompletionEventTrb::try_from, and process_event's command   *)
(* index (command_trb_pointer - ring base) / 16 on success.               *)
TryFromCompletion(trb) ==
  IF TrbType(trb.control) = XhciTrbType.CmdCompletionEvent
  THEN [ok |-> TRUE, index |-> (CommandTrbPointer(trb.parameter) - RingBase) \div 16]
  ELSE [ok |-> FALSE, tag |-> TrbType(trb.control)]

(* The event TRB as the xHC lays it out (6.4.2.2 and the other event      *)
(* TRBs share the control layout of CommandCompletionEventControl): the   *)
(* pointer field, completion code 1 (Success) in status 31..24, the type  *)
(* and the cycle bit.                                                      *)
EventTrb(pointer, type, cycle) ==
  [parameter |-> pointer, status |-> SetBits(0, 31, 24, 1),
   control |-> SetTrbType(SetCycleBit(0, cycle), type)]

-----------------------------------------------------------------------------
(* CommandRing2::new writes the Link TRB to the ring base with cycle bit  *)
(* 1 and toggle_cycle; nothing else is written yet.                        *)
Init ==
  /\ cmdTrb = [parameter |-> 0, status |-> 0, control |-> 0]
  /\ linkTrb = LinkTrbNew(RingBase, TRUE, TRUE)
  /\ evTrb = [parameter |-> 0, status |-> 0, control |-> 0]
  /\ sent = [kind |-> "none"]
  /\ converted = "none"
  /\ result = [ok |-> FALSE, tag |-> 0]

(* try_enqueue(enable_slot_command_trb()): trb.control.set_cycle_bit(pcs) *)
(* and the store into the ring.                                            *)
EnqueueEnableSlot ==
  \E pcs \in BOOLEAN :
    /\ cmdTrb' = [EnableSlotCommandTrb EXCEPT !.control = SetCycleBit(@, pcs)]
    /\ converted' = "none"
    /\ UNCHANGED <<linkTrb, evTrb, sent, result>>

(* try_enqueue at the wrap: ring[len - 1].control.set_cycle_bit(pcs).     *)
WrapLink ==
  \E pcs \in BOOLEAN :
    /\ linkTrb' = [linkTrb EXCEPT !.control = SetCycleBit(@, pcs)]
    /\ converted' = "none"
    /\ UNCHANGED <<cmdTrb, evTrb, sent, result>>

(* The xHC completes the command in slot i: the event's pointer is the    *)
(* 16-byte aligned address of that TRB.                                    *)
XhcPostCompletion ==
  \E i \in 0 .. RingLen - 2, c \in BOOLEAN :
    /\ evTrb' = EventTrb(RingBase + 16 * i, XhciTrbType.CmdCompletionEvent, c)
    /\ sent' = [kind |-> "cc", index |-> i]
    /\ converted' = "none"
    /\ UNCHANGED <<cmdTrb, linkTrb, result>>

(* The xHC posts another kind of event (a port status change, ...).       *)
XhcPostOther ==
  \E t \in OtherEvents, c \in BOOLEAN :
    /\ evTrb' = EventTrb(0, t, c)
    /\ sent' = [kind |-> "other", type |-> t]
    /\ converted' = "none"
    /\ UNCHANGED <<cmdTrb, linkTrb, result>>

(* Software converts one of the TRBs with try_from (process_event and     *)
(* handle_interrupt do so for events; spec 8 also converts a Link TRB).   *)
(* A write to a TRB above clears "converted": the result is of the TRB    *)
(* as it was converted.                                                    *)
Convert ==
  \E which \in {"cmd", "link", "ev"} :
    /\ result' = TryFromCompletion(CASE which = "cmd"  -> cmdTrb
                                     [] which = "link" -> linkTrb
                                     [] which = "ev"   -> evTrb)
    /\ converted' = which
    /\ UNCHANGED <<cmdTrb, linkTrb, evTrb, sent>>

Next == EnqueueEnableSlot \/ WrapLink \/ XhcPostCompletion \/ XhcPostOther \/ Convert

Spec == Init /\ [][Next]_vars

-----------------------------------------------------------------------------
Trb == [parameter : Nat, status : Nat, control : Nat]

TypeOK ==
  /\ cmdTrb \in Trb /\ linkTrb \in Trb /\ evTrb \in Trb
  /\ converted \in {"none", "cmd", "link", "ev"}
  /\ result \in [ok : {TRUE}, index : Nat] \cup [ok : {FALSE}, tag : 0 .. 63]

(* try_from accepts exactly the Command Completion Events: for one the    *)
(* decoded command index is the slot whose command the xHC completed;     *)
(* any other TRB is rejected with the type it was written with (the Link  *)
(* TRB with WrongType(6), spec 8; the enable-slot command with 9).        *)
TryFromDecodesExactly ==
  /\ converted = "ev" /\ sent.kind = "cc" => result = [ok |-> TRUE, index |-> sent.index]
  /\ converted = "ev" /\ sent.kind = "other" => result = [ok |-> FALSE, tag |-> sent.type]
  /\ converted = "link" => result = [ok |-> FALSE, tag |-> XhciTrbType.Link]
  /\ converted = "cmd" /\ cmdTrb.control # 0 =>
       result = [ok |-> FALSE, tag |-> XhciTrbType.EnableSlotCmd]
=============================================================================
