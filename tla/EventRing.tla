----------------------------- MODULE EventRing -----------------------------
(***************************************************************************)
(* The event ring of src/event_ring.rs (EventRing2) together with the xHC *)
(* that produces into it.                                                  *)
(*                                                                         *)
(* Software is the consumer.  peek scans from its dequeue pointer for     *)
(* slots whose cycle bit equals its consumer cycle state and returns them *)
(* as (up to) two slices; advance_dequeue_pointer bounds the advance by a *)
(* fresh peek, moves the dequeue pointer with wrapping_add_custom and      *)
(* publishes it in ERDP.                                                   *)
(*                                                                         *)
(* The xHC (xHCI 4.9.4, not code of this repository) is the environment:  *)
(* it writes an event TRB with its producer cycle state at its enqueue     *)
(* pointer, toggles the producer cycle state when it wraps, and treats the *)
(* ring as full when advancing its enqueue pointer would reach the ERDP    *)
(* value software last published.                                         *)
(*                                                                         *)
(* A Rust panic (a slice index out of order) is the value "panicked"; the *)
(* driver stops there.                                                     *)
(***************************************************************************)
EXTENDS Naturals, Sequences, FiniteSetsExt

CONSTANTS
  RingLen,    \* ring.len(): number of event TRB slots (one segment)
  MaxEvents   \* bound on the number of events the xHC posts

ASSUME RingLen >= 2 /\ MaxEvents >= 1

VARIABLES
  slots,                 \* slot -> [cycle, ev]; ev is the id of the event stored (0: none)
  dequeue_pointer,       \* EventRing2.dequeue_pointer
  consumer_cycle_state,  \* EventRing2.consumer_cycle_state
  erdp,                  \* slot index published in the ERDP register
  panicked,              \* software has panicked
  hwEnq,                 \* the xHC's event ring enqueue pointer
  hwPcs,                 \* the xHC's producer cycle state
  produced,              \* history: number of events the xHC posted
  consumed               \* history: ids of the events software consumed, in order

swVars == <<dequeue_pointer, consumer_cycle_state, erdp, panicked, consumed>>
hwVars == <<slots, hwEnq, hwPcs, produced>>
vars == <<swVars, hwVars>>

Slots == 0 .. RingLen - 1
Trb == [cycle : BOOLEAN, ev : 0 .. MaxEvents]

(* The slot indices of ring[a..b], a <= b.                                 *)
Span(a, b) == [k \in 1 .. b - a |-> a + k - 1]

(* Bound on the length of the consumed history: a replaying consumer      *)
(* would otherwise consume forever.                                        *)
ConsumeBound == MaxEvents + RingLen

-----------------------------------------------------------------------------
(* EventRing2::new: all slots zeroed (cycle 0), consumer cycle state true; *)
(* the driver's update_erdp then publishes the ring base in ERDP.         *)
Init ==
  /\ slots = [i \in Slots |-> [cycle |-> FALSE, ev |-> 0]]
  /\ dequeue_pointer = 0
  /\ consumer_cycle_state = TRUE
  /\ erdp = 0
  /\ panicked = FALSE
  /\ hwEnq = 0
  /\ hwPcs = TRUE
  /\ produced = 0
  /\ consumed = <<>>

(* peek.  The first loop enumerates ring[dequeue_pointer..], so its i is  *)
(* relative to the dequeue pointer, and returns ring[dequeue_pointer..i]; *)
(* a range whose start exceeds its end panics.  The second loop           *)
(* enumerates ring[..dequeue_pointer] against the toggled cycle state;     *)
(* when neither loop finds a mismatch every slot is returned.              *)
(* Result: [ok, idx], idx the slot indices of the returned SplitSlice.     *)
Peek ==
  LET dp   == dequeue_pointer
      tail == {i \in 0 .. RingLen - 1 - dp : slots[dp + i].cycle # consumer_cycle_state}
      head == {i \in 0 .. dp - 1 : slots[i].cycle # ~consumer_cycle_state}
  IN  IF tail # {}
      THEN IF dp <= Min(tail) THEN [ok |-> TRUE, idx |-> Span(dp, Min(tail))]
                                 ELSE [ok |-> FALSE, idx |-> <<>>]
      ELSE IF head # {}
      THEN [ok |-> TRUE, idx |-> Span(dp, RingLen) \o Span(0, Min(head))]
      ELSE [ok |-> TRUE, idx |-> Span(dp, RingLen) \o Span(0, dp)]

(* Mutant: len_left_to_advance not decremented by the amount taken.      *)
WrappingAddNoDecrement(position, advance_len, ring_size) ==
  LET amount == IF ring_size - position < advance_len THEN ring_size - position
                                                      ELSE advance_len
      new    == position + amount
  IN  IF new = ring_size THEN advance_len ELSE new

(* wrapping_add_custom: advance position by advance_len on a ring of      *)
(* ring_size slots without relying on overflow.                            *)
WrappingAddCustom(position, advance_len, ring_size) ==
  LET amount == IF ring_size - position < advance_len THEN ring_size - position
                                                      ELSE advance_len
      new    == position + amount
  IN  IF new = ring_size THEN advance_len - amount ELSE new

(* Mutant: advance_dequeue_pointer without its assert; the client may     *)
(* advance past what peek showed it.                                       *)
ConsumeAndAdvanceUnchecked(k) ==
  /\ ~panicked
  /\ Peek.ok
  /\ Len(consumed) + k <= ConsumeBound
  /\ LET n == IF k <= Len(Peek.idx) THEN k ELSE Len(Peek.idx)
     IN consumed' = consumed \o [j \in 1 .. n |-> slots[Peek.idx[j]].ev]
  /\ dequeue_pointer' = WrappingAddCustom(dequeue_pointer, k, RingLen)
  /\ erdp' = WrappingAddCustom(dequeue_pointer, k, RingLen)
  /\ UNCHANGED <<consumer_cycle_state, panicked, hwVars>>

(* A client of the ring (Driver::handle_interrupt is one) peeks, consumes *)
(* the first k events it was shown and calls advance_dequeue_pointer(k).  *)
(* advance_dequeue_pointer re-runs peek, asserts k is within it, moves the *)
(* dequeue pointer and writes its address to ERDP (with EHB).  The        *)
(* consumer cycle state is left as it is.                                  *)
ConsumeAndAdvance(k) ==
  /\ ~panicked
  /\ Peek.ok
  /\ k <= Len(Peek.idx)
  /\ Len(consumed) + k <= ConsumeBound
  /\ consumed' = consumed \o [j \in 1 .. k |-> slots[Peek.idx[j]].ev]
  /\ dequeue_pointer' = WrappingAddCustom(dequeue_pointer, k, RingLen)
  /\ erdp' = WrappingAddCustom(dequeue_pointer, k, RingLen)
  /\ UNCHANGED <<consumer_cycle_state, panicked, hwVars>>

(* peek panics: "slice index starts at dequeue_pointer but ends at i".     *)
PeekPanics ==
  /\ ~panicked
  /\ ~Peek.ok
  /\ panicked' = TRUE
  /\ UNCHANGED <<dequeue_pointer, consumer_cycle_state, erdp, consumed, hwVars>>

-----------------------------------------------------------------------------
(* The xHC posts an event unless the ring is full with respect to ERDP.    *)
HwPostEvent ==
  /\ produced < MaxEvents
  /\ (hwEnq + 1) % RingLen # erdp
  /\ slots' = [slots EXCEPT ![hwEnq] = [cycle |-> hwPcs, ev |-> produced + 1]]
  /\ hwEnq' = (hwEnq + 1) % RingLen
  /\ hwPcs' = IF hwEnq + 1 = RingLen THEN ~hwPcs ELSE hwPcs
  /\ produced' = produced + 1
  /\ UNCHANGED swVars

Next ==
  \/ \E k \in 0 .. RingLen : ConsumeAndAdvance(k)
  \/ PeekPanics
  \/ HwPostEvent

Spec == Init /\ [][Next]_vars

-----------------------------------------------------------------------------
TypeOK ==
  /\ slots \in [Slots -> Trb]
  /\ dequeue_pointer \in Slots
  /\ consumer_cycle_state \in BOOLEAN
  /\ erdp \in Slots
  /\ panicked \in BOOLEAN
  /\ hwEnq \in Slots
  /\ hwPcs \in BOOLEAN
  /\ produced \in 0 .. MaxEvents
  /\ consumed \in Seq(0 .. MaxEvents)

(* The events not consumed yet, in the order the xHC posted them.          *)
PendingIds == [k \in 1 .. produced - Len(consumed) |-> Len(consumed) + k]

(* peek returns, without panicking, exactly the events the xHC posted and *)
(* software has not consumed, in order (spec 4.3 and 8, "peek/advance     *)
(* round-trip").                                                           *)
PeekIsExact ==
  /\ Peek.ok
  /\ [j \in 1 .. Len(Peek.idx) |-> slots[Peek.idx[j]].ev] = PendingIds

(* Software consumes every event the xHC posted exactly once and in order: *)
(* a slot it already consumed never looks new again after a wrap.         *)
ConsumedExactlyOnceInOrder ==
  \A j \in 1 .. Len(consumed) : consumed[j] = j

(* wrapping_add_custom, as advance_dequeue_pointer calls it from every    *)
(* dequeue pointer the ring reaches, agrees with (position + advance_len)  *)
(* mod ring_size for every advance up to a full wrap (spec 8).             *)
WrappingAddIsModulo ==
  \A a \in 0 .. RingLen :
    WrappingAddCustom(dequeue_pointer, a, RingLen) = (dequeue_pointer + a) % RingLen

(* No event is lost: every event the xHC posted is either consumed or     *)
(* still in its slot, i.e. the ERDP software publishes never lets the xHC *)
(* overwrite an event software has not consumed.                          *)
NoEventLost ==
  \A id \in 1 .. produced :
    (\E j \in 1 .. Len(consumed) : consumed[j] = id) \/ (\E s \in Slots : slots[s].ev = id)
=============================================================================
