---------------------------- MODULE CommandRing ----------------------------
(***************************************************************************)
(* The command ring of src/command_ring.rs (CommandRing2) together with   *)
(* the xHC that consumes it.                                               *)
(*                                                                         *)
(* Software is the producer: try_enqueue stamps a TRB with the producer    *)
(* cycle state and, when the enqueue pointer reaches the Link TRB, copies  *)
(* the producer cycle state into the Link TRB and toggles it.  Software    *)
(* learns the consumer's position only from Command Completion Events:    *)
(* process_event moves its dequeue pointer one past the completed command *)
(* and toggles its copy of the consumer cycle state when the new index is *)
(* numerically below the old one.                                          *)
(*                                                                         *)
(* The xHC (xHCI 4.9.2/4.9.3, not code of this repository) is the         *)
(* environment: it executes a TRB whose cycle bit equals its Consumer      *)
(* Cycle State, posts one completion event per command, in order, and     *)
(* follows the Link TRB (toggle-cycle set) as a step of its own.  The      *)
(* event ring is abstracted here to a reliable FIFO of completed slot      *)
(* indices; EventRing.tla and XhciDriver.tla model it in full.             *)
(***************************************************************************)
EXTENDS Naturals, Sequences

CONSTANTS
  RingLen,  \* ring.len(): number of TRB slots, the last one is the Link TRB
  MaxCmds   \* bound on the number of commands the client submits

ASSUME RingLen >= 2 /\ MaxCmds >= 1

VARIABLES
  ring,                  \* slot -> [cycle, cmd]; cmd is the id of the command stored (0: none)
  enqueue_pointer,       \* CommandRing2.enqueue_pointer
  producer_cycle_state,  \* CommandRing2.producer_cycle_state
  dequeue_pointer,       \* CommandRing2.dequeue_pointer (software's view of the xHC)
  consumer_cycle_state,  \* CommandRing2.consumer_cycle_state (software's view of the xHC)
  enqResult,             \* result of the last try_enqueue: "None", "Ok" or "IsFull"
  hwDeq,                 \* the xHC's Command Ring Dequeue Pointer (slot index)
  hwCcs,                 \* the xHC's Consumer Cycle State
  events,                \* completion events not yet processed: completed slot indices, in order
  submitted,             \* history: number of commands successfully enqueued
  acked,                 \* history: number of completion events processed by software
  executed               \* history: ids of the commands the xHC executed, in order

swVars == <<ring, enqueue_pointer, producer_cycle_state, dequeue_pointer,
            consumer_cycle_state, enqResult>>
hwVars == <<hwDeq, hwCcs, events>>
histVars == <<submitted, acked, executed>>
vars == <<swVars, hwVars, histVars>>

LinkIdx == RingLen - 1
Slots == 0 .. LinkIdx
Trb == [cycle : BOOLEAN, cmd : 0 .. MaxCmds]

-----------------------------------------------------------------------------
(* Mutant: new without the fill(MaybeUninit::zeroed()) of the ring        *)
(* memory; the slots keep whatever cycle bit the allocation held.          *)
InitUnzeroed ==
  /\ ring \in {r \in [Slots -> Trb] : r[LinkIdx].cycle /\ \A i \in Slots : r[i].cmd = 0}
  /\ enqueue_pointer = 0
  /\ producer_cycle_state = TRUE
  /\ dequeue_pointer = 0
  /\ consumer_cycle_state = TRUE
  /\ enqResult = "None"
  /\ hwDeq = 0
  /\ hwCcs = TRUE
  /\ events = <<>>
  /\ submitted = 0
  /\ acked = 0
  /\ executed = <<>>

(* CommandRing2::new: all slots zeroed (cycle 0), the last one a Link TRB  *)
(* with cycle bit = initial cycle state (true) and toggle_cycle; CRCR is   *)
(* programmed with the ring base and RCS = true, which is where the xHC    *)
(* starts consuming.                                                       *)
Init ==
  /\ ring = [i \in Slots |-> [cycle |-> i = LinkIdx, cmd |-> 0]]
  /\ enqueue_pointer = 0
  /\ producer_cycle_state = TRUE
  /\ dequeue_pointer = 0
  /\ consumer_cycle_state = TRUE
  /\ enqResult = "None"
  /\ hwDeq = 0
  /\ hwCcs = TRUE
  /\ events = <<>>
  /\ submitted = 0
  /\ acked = 0
  /\ executed = <<>>

(* Mutant: the "cycle states agree" comparison made strict.               *)
CanEnqueueStrict ==
  IF consumer_cycle_state = producer_cycle_state
  THEN enqueue_pointer > dequeue_pointer
  ELSE enqueue_pointer < dequeue_pointer

(* try_enqueue's can_enqueue.                                              *)
CanEnqueue ==
  IF consumer_cycle_state = producer_cycle_state
  THEN enqueue_pointer >= dequeue_pointer
  ELSE enqueue_pointer < dequeue_pointer

(* Mutant: the wrap test compares with ring.len() instead of len() - 1.   *)
WrapsAtLen(next) == next = RingLen

(* try_enqueue: the enqueue pointer has reached the Link TRB.              *)
WrapsAt(next) == next = LinkIdx

(* try_enqueue, Ok branch: publish the TRB with the producer cycle state, *)
(* advance, and on reaching the Link TRB hand it the producer cycle state, *)
(* toggle the producer cycle state and restart at slot 0.                  *)
TryEnqueueOk ==
  /\ submitted < MaxCmds
  /\ CanEnqueue
  /\ LET next    == enqueue_pointer + 1
         wraps   == WrapsAt(next)
         written == [ring EXCEPT ![enqueue_pointer] =
                        [cycle |-> producer_cycle_state, cmd |-> submitted + 1]]
     IN /\ ring' = IF wraps
                   THEN [written EXCEPT ![LinkIdx].cycle = producer_cycle_state]
                   ELSE written
        /\ enqueue_pointer' = IF wraps THEN 0 ELSE next
        /\ producer_cycle_state' = IF wraps THEN ~producer_cycle_state
                                            ELSE producer_cycle_state
  /\ enqResult' = "Ok"
  /\ submitted' = submitted + 1
  /\ UNCHANGED <<dequeue_pointer, consumer_cycle_state, hwVars, acked, executed>>

(* try_enqueue, Err(IsFull) branch: nothing is written.                    *)
TryEnqueueFull ==
  /\ submitted < MaxCmds
  /\ ~CanEnqueue
  /\ enqResult' = "IsFull"
  /\ UNCHANGED <<ring, enqueue_pointer, producer_cycle_state, dequeue_pointer,
                 consumer_cycle_state, hwVars, histVars>>

(* Mutant: the wrap check dropped, the cycle state is never toggled.       *)
ProcessedByNoWrap(d, c, index) ==
  [dequeue_pointer |-> index + 1, consumer_cycle_state |-> c]

(* process_event on a Command Completion Event for the command in slot     *)
(* index, from dequeue pointer d and consumer cycle state c.  The index is *)
(* (command_trb_pointer - ring base) / 16, exact since the xHC reports the *)
(* 16-byte aligned address it fetched.  The new dequeue pointer is one    *)
(* past the command; when it is numerically below the old one the xHC     *)
(* must have looped, so the consumer cycle state is toggled.              *)
ProcessedBy(d, c, index) ==
  LET new == index + 1
  IN  [dequeue_pointer      |-> new,
       consumer_cycle_state |-> IF new < d THEN ~c ELSE c]

(* process_event for the oldest completion event not yet processed.       *)
ProcessEvent ==
  /\ events # <<>>
  /\ LET r == ProcessedBy(dequeue_pointer, consumer_cycle_state, Head(events))
     IN /\ dequeue_pointer' = r.dequeue_pointer
        /\ consumer_cycle_state' = r.consumer_cycle_state
  /\ events' = Tail(events)
  /\ acked' = acked + 1
  /\ UNCHANGED <<ring, enqueue_pointer, producer_cycle_state, enqResult,
                 hwDeq, hwCcs, submitted, executed>>

-----------------------------------------------------------------------------
(* The xHC executes the command TRB at its dequeue pointer when the TRB's *)
(* cycle bit matches its consumer cycle state, and posts its completion.  *)
HwExecute ==
  /\ hwDeq # LinkIdx
  /\ ring[hwDeq].cycle = hwCcs
  /\ executed' = Append(executed, ring[hwDeq].cmd)
  /\ events' = Append(events, hwDeq)
  /\ hwDeq' = hwDeq + 1
  /\ UNCHANGED <<swVars, hwCcs, submitted, acked>>

(* The xHC follows a valid Link TRB back to the ring base and, since      *)
(* toggle_cycle is set, toggles its consumer cycle state.                  *)
HwFollowLink ==
  /\ hwDeq = LinkIdx
  /\ ring[LinkIdx].cycle = hwCcs
  /\ hwDeq' = 0
  /\ hwCcs' = ~hwCcs
  /\ UNCHANGED <<swVars, events, histVars>>

Next ==
  \/ TryEnqueueOk
  \/ TryEnqueueFull
  \/ ProcessEvent
  \/ HwExecute
  \/ HwFollowLink

Spec == Init /\ [][Next]_vars

-----------------------------------------------------------------------------
TypeOK ==
  /\ ring \in [Slots -> Trb]
  /\ enqueue_pointer \in 0 .. LinkIdx - 1
  /\ producer_cycle_state \in BOOLEAN
  /\ dequeue_pointer \in Slots
  /\ consumer_cycle_state \in BOOLEAN
  /\ enqResult \in {"None", "Ok", "IsFull"}
  /\ hwDeq \in Slots
  /\ hwCcs \in BOOLEAN
  /\ events \in Seq(0 .. LinkIdx - 1)
  /\ submitted \in 0 .. MaxCmds
  /\ acked \in 0 .. MaxCmds
  /\ executed \in Seq(0 .. MaxCmds)

(* try_enqueue's fullness test, computed from two indices and two cycle   *)
(* states, answers exactly "fewer than Len - 1 commands are outstanding"   *)
(* as far as the completion events processed so far tell.                  *)
FullnessMatchesOutstanding ==
  CanEnqueue <=> (submitted - acked < LinkIdx)

(* A position on the ring as a point of the two-lap cycle the cycle bit   *)
(* distinguishes; the Link slot is the same point as slot 0 of the next   *)
(* lap.                                                                    *)
Position(d, c) ==
  IF d = LinkIdx THEN (IF c THEN LinkIdx ELSE 0)
                 ELSE (IF c THEN 0 ELSE LinkIdx) + d

(* process_event keeps (dequeue_pointer, consumer_cycle_state) exactly     *)
(* the xHC's (dequeue pointer, CCS) minus the completions still in flight: *)
(* the "new index below old index" test detects every wrap of the xHC.     *)
SoftwareDequeueTracksHardware ==
  (Position(dequeue_pointer, consumer_cycle_state) + Len(events)) % (2 * LinkIdx)
    = Position(hwDeq, hwCcs)

(* The comment in process_event: the dequeue pointer may rest on the Link *)
(* TRB, "we can't assume that the xHC processed the Link TRB and we        *)
(* shouldn't overwrite it until we're sure".  While the xHC stands on the  *)
(* Link TRB, its cycle bit still tells the xHC to follow it.               *)
LinkCycleIntactUntilFollowed ==
  hwDeq = LinkIdx => ring[LinkIdx].cycle = hwCcs

-----------------------------------------------------------------------------
(* Refinement mapping: the commands accepted and not yet executed are the *)
(* queue's pending commands; the commands the xHC executed are its done.  *)
Queue == INSTANCE CommandQueue WITH
           Capacity <- LinkIdx,
           pending  <- [k \in 1 .. submitted - Len(executed) |-> Len(executed) + k],
           done     <- executed

(* The command ring implements a FIFO queue of capacity len - 1: the xHC  *)
(* executes exactly the commands try_enqueue accepted, each once, oldest  *)
(* first, and try_enqueue never accepts a command into a full ring: it    *)
(* neither overwrites a slot the xHC has not executed nor leaves a stale   *)
(* slot looking valid.                                                     *)
CommandQueueRefined == Queue!Spec
=============================================================================
