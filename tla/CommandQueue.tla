---------------------------- MODULE CommandQueue ----------------------------
(***************************************************************************)
(* What the command ring promises its client (xHCI 3.3: "Commands are     *)
(* executed by the xHC in the order that they are placed on the Command   *)
(* Ring"): a bounded FIFO queue.  A command is accepted only while fewer  *)
(* than Capacity accepted commands wait to be executed, and the xHC       *)
(* executes the waiting commands one at a time, oldest first, each once.  *)
(* Commands are numbered 1, 2, ... in the order they are accepted.        *)
(***************************************************************************)
EXTENDS Naturals, Sequences

CONSTANTS
  Capacity,  \* how many accepted commands may wait at once
  MaxCmds    \* bound on the number of commands accepted

VARIABLES
  pending,   \* accepted, not yet executed, oldest first
  done       \* executed, in execution order

vars == <<pending, done>>

Init ==
  /\ pending = <<>>
  /\ done = <<>>

(* The client's command is accepted into a queue that has room.            *)
Accept ==
  /\ Len(done) + Len(pending) < MaxCmds
  /\ Len(pending) < Capacity
  /\ pending' = Append(pending, Len(done) + Len(pending) + 1)
  /\ UNCHANGED done

(* The xHC executes the oldest waiting command.                            *)
Execute ==
  /\ pending # <<>>
  /\ done' = Append(done, Head(pending))
  /\ pending' = Tail(pending)

Next == Accept \/ Execute

Spec == Init /\ [][Next]_vars

TypeOK ==
  /\ pending \in Seq(1 .. MaxCmds)
  /\ done \in Seq(1 .. MaxCmds)
=============================================================================
