----------------------------- MODULE ExtCapWalk -----------------------------
(***************************************************************************)
(* The walk over the xHCI extended capabilities at the end of Driver::new *)
(* (src/extended_capabilities.rs, and the loop at src/driver.rs 311-316). *)
(*                                                                         *)
(* The list lives in the xHC's MMIO space: HCCPARAMS1.xECP is the dword   *)
(* offset of its first entry, each entry's Next Capability Pointer the     *)
(* dword offset of the next one relative to it, 0 ending the list.  The   *)
(* iterator keeps the offset of the entry it reads next as a u16           *)
(* (Option<NonZero<u16>>, 0 here standing for None) and advances it with  *)
(* checked_add(...).expect(...).  The loop logs every entry that is a     *)
(* Supported Protocol capability.                                          *)
(*                                                                         *)
(* The list is the environment, chosen in Init: a sequence of entries     *)
(* [id, next]; entry k lies at ChainOffset(k).  The walk is checked       *)
(* against that reference definition.                                      *)
(***************************************************************************)
EXTENDS Integers, Sequences, SequencesExt

CONSTANTS
  XecpValues,  \* HCCPARAMS1.xECP values (dwords) the controller may report
  NextValues,  \* nonzero Next Capability Pointer values (dwords) of an entry
  CapIds,      \* Capability IDs of the entries
  MaxCaps      \* the longest list the controller may have

ASSUME /\ XecpValues \subseteq 0 .. 2^16 - 1
       /\ NextValues \subseteq 1 .. 255
       /\ MaxCaps >= 1

VARIABLES
  xecp,      \* HCCPARAMS1.xECP
  caps,      \* the list as the xHC lays it out, first entry first
  ptr,       \* XhciExtendedCapabilitiesIterator.ptr, 0 for None
  logged,    \* dword offsets of the capabilities the loop has logged
  panicked   \* the expect of checked_add has panicked

vars == <<xecp, caps, ptr, logged, panicked>>

U16 == 2^16

(* XhciExtendedCapabilityPointerRegister: capability_id 7..0 and          *)
(* next_xhci_extended_capability_ptr 15..8.                                *)
Reg == [id : CapIds, next : {0} \cup NextValues]

(* Well-formed lists: only the last entry has a zero next pointer.         *)
Lists ==
  UNION {{s \in [1 .. n -> Reg] : \A k \in 1 .. n : s[k].next = 0 <=> k = n} :
         n \in 1 .. MaxCaps}

(* The dword offset of entry k of the list.                                 *)
RECURSIVE ChainOffset(_)
ChainOffset(k) == IF k = 1 THEN xecp ELSE ChainOffset(k - 1) + caps[k - 1].next

(* The register the iterator reads at dword offset o (bar0 + o * 4).  Off *)
(* the list it reads as zero; only a wrong walk goes there.                *)
MemAt(o) ==
  IF \E k \in DOMAIN caps : ChainOffset(k) = o
  THEN caps[CHOOSE k \in DOMAIN caps : ChainOffset(k) = o]
  ELSE [id |-> 0, next |-> 0]

(* Mutant: the next pointer taken as an absolute offset.                   *)
AbsoluteNext(a, b) == b

(* Mutant: wrapping_add instead of checked_add.                            *)
WrappingAddU16(a, b) == (a + b) % U16

(* u16::checked_add: -1 stands for None.                                   *)
CheckedAddU16(a, b) == IF a + b < U16 THEN a + b ELSE -1

SUPPORTED_PROTOCOL == 2

(* supported_protocol(): Some exactly for capability_id 0x2.               *)
IsSupportedProtocol(reg) == reg.id = SUPPORTED_PROTOCOL

(* The filter_map and log of the loop in Driver::new.                      *)
Logged(reg, offset) ==
  IF IsSupportedProtocol(reg) THEN Append(logged, offset) ELSE logged

-----------------------------------------------------------------------------
(* XhciExtendedCapabilitiesIterator::new: ptr := NonZero::new(xECP).       *)
Init ==
  /\ xecp \in XecpValues
  /\ caps \in IF xecp = 0 THEN {<<>>} ELSE Lists
  /\ ptr = xecp
  /\ logged = <<>>
  /\ panicked = FALSE

(* Iterator::next and the loop body: read the entry at ptr, advance ptr   *)
(* by its next pointer (None when that is 0), and log the entry if it is  *)
(* a Supported Protocol capability.                                        *)
WalkStep ==
  /\ ptr # 0 /\ ~panicked
  /\ LET reg == MemAt(ptr)
         np  == CheckedAddU16(ptr, reg.next)
     IN /\ reg.next = 0 \/ np # -1
        /\ ptr' = IF reg.next = 0 THEN 0 ELSE np
        /\ logged' = Logged(reg, ptr)
  /\ UNCHANGED <<xecp, caps, panicked>>

(* Iterator::next when checked_add overflows: expect panics.               *)
WalkOverflows ==
  /\ ptr # 0 /\ ~panicked
  /\ LET reg == MemAt(ptr)
     IN reg.next # 0 /\ CheckedAddU16(ptr, reg.next) = -1
  /\ panicked' = TRUE
  /\ UNCHANGED <<xecp, caps, ptr, logged>>

Next == WalkStep \/ WalkOverflows

(* The loop runs to completion once Driver::new reaches it.                *)
Spec == Init /\ [][Next]_vars /\ WF_vars(Next)

-----------------------------------------------------------------------------

(* What a correct walk logs: the offsets of the Supported Protocol        *)
(* entries, in list order; and whether the list runs past the u16 offsets. *)
Protocols ==
  LET s == SelectSeq([k \in DOMAIN caps |-> k], LAMBDA k : IsSupportedProtocol(caps[k]))
  IN [j \in DOMAIN s |-> ChainOffset(s[j])]

Overflows == \E k \in DOMAIN caps : ChainOffset(k) >= U16

(* Bound for the state space: a wrong walk could log without end.          *)
LogBound == Len(logged) <= MaxCaps

(* When the loop of Driver::new ends, it has logged exactly the Supported *)
(* Protocol capabilities of the controller's list, in order; the iterator *)
(* panics (checked_add's expect) exactly when the list runs past the       *)
(* 16-bit dword offsets it keeps.                                           *)
WalkMatchesList ==
  /\ ptr = 0 /\ ~panicked => ~Overflows /\ logged = Protocols
  /\ panicked => Overflows

(* The walk ends: the loop of Driver::new does not spin on the list.       *)
WalkEnds == <>(ptr = 0 \/ panicked)
=============================================================================
