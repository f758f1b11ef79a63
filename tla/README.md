# TLA+ models of ez_xhci

This directory holds the model-checking development for `ez_xhci`, a `no_std` Rust
driver for an xHCI USB host controller. The modules are written from the code
under `src/`. The host controller (the "xHC") is not code of this repository. It
is modelled as the environment, following the xHCI specification sections the
code itself quotes: 4.2, 4.9.2 to 4.9.4, 4.17 and 5.3.4.

## 1. The system

| Part | Source | State | Operations |
|------|--------|-------|------------|
| Command ring | `command_ring.rs` | TRB slots (last one a Link TRB), `enqueue_pointer`, `producer_cycle_state`, software's view of the xHC (`dequeue_pointer`, `consumer_cycle_state`) | `new`, `try_enqueue` (Ok / `IsFull`), `process_event` |
| Event ring | `event_ring.rs` | TRB slots, `dequeue_pointer`, `consumer_cycle_state` | `new`, `update_erdp`, `peek` (may panic), `advance_dequeue_pointer`, `wrapping_add_custom` |
| Driver | `driver.rs` | register blocks, both rings | `Driver::new` (a sequential bring-up), `handle_interrupt` |
| Scratchpad decode | `capability_regs.rs` | HCSPARAMS2 (read-only) | `max_scratchpad_buffers` |
| Doorbell, ERST entry | `doorbell.rs`, `erst.rs` | register and table layouts | one write each in `Driver::new` |
| TRB codec | `trb.rs`, `trb_type.rs`, `command_completion_trb.rs`, `enable_slot_command_trb.rs` | none (values) | bitfield getters and setters, `LinkTrb::new`, `enable_slot_command_trb`, `TryFrom` type check, pointer field |
| Register layouts | `operational_regs.rs`, `interrupter_regs.rs`, `runtime_regs.rs`, `mmio.rs`, `extended_capabilities.rs` | MMIO layouts; IMAN.IP/IE, ERDP.EHB, HCRST semantics | none besides reads and the writes of `Driver::new` |

How the parts interact:

- Software produces into the command ring and the xHC consumes it.
- The xHC produces into the event ring and software consumes it.
- The cycle bit of each TRB is the only synchronisation between the two.
- Software learns the xHC's command-ring position only from Command Completion Events.
- The xHC learns software's event-ring position only from ERDP.
- ERDP also carries EHB. The interrupter asserts an interrupt only while EHB is clear, and software clears EHB by writing 1 to it.

The behaviours that make the system hard:

- **The two rings run concurrently with the hardware.** This covers wraps of each ring, the Link TRB handover, ring-full back-pressure through ERDP, and software's stale view of the xHC's position.
- **`handle_interrupt` peeks twice.** Once to process the events, and again inside `advance_dequeue_pointer`. The xHC may post events in between.
- **The reset handshake is an unbounded busy-wait.**
- **The interrupt handler may run when it has nothing to do.** This happens on a shared legacy INTx line, or when it is re-entered.
- **Interrupt delivery differs between MSI and the INTx pin.** Under MSI the xHC clears IMAN.IP itself; on the level-triggered pin it stays set until software writes 1 to it, which `handle_interrupt` never does.
- **The xHC posts events nobody asked for.** A Port Status Change Event arrives once the controller runs with a device attached.

## 2. Modules

### `CommandRing.tla`: `CommandRing2` against an xHC consumer

Software variables keep the field names of `CommandRing2`. The xHC side is:

- `hwDeq`, `hwCcs`: its dequeue pointer and consumer cycle state.
- `events`: a FIFO of completed slot indices, standing in for the event ring.

`submitted`, `acked` and `executed` are history.

| Action | Code |
|--------|------|
| `Init` | `CommandRing2::new`: zeroed ring, Link TRB with cycle 1 and toggle-cycle set, CRCR with RCS = 1 |
| `TryEnqueueOk`, `TryEnqueueFull` | the two branches of `try_enqueue`, including the wrap that copies the producer cycle state into the Link TRB and toggles it |
| `ProcessEvent` | `process_event` via `ProcessedBy`: the "new index < old index" wrap heuristic |
| `HwExecute`, `HwFollowLink` | xHC (4.9.2/4.9.3) |

Properties:

- `CommandQueueRefined`: the ring implements the abstract queue of `CommandQueue.tla` (below), through the refinement mapping `Queue == INSTANCE CommandQueue WITH Capacity <- len - 1, pending <- the commands submitted and not yet executed (numbers Len(executed)+1 .. submitted), done <- executed`. Every accepted command is executed once, in order, and at most `len - 1` wait at once.
- `FullnessMatchesOutstanding`: `can_enqueue` is true exactly when fewer than `len - 1` commands are outstanding, as far as the processed events tell.
- `SoftwareDequeueTracksHardware`: software's (dequeue, CCS), advanced by the completions in flight, is the xHC's position on the two-lap cycle.
- `LinkCycleIntactUntilFollowed`: while the xHC stands on the Link TRB, software has not flipped its cycle bit. This is the rule `process_event`'s own comment states.

### `CommandQueue.tla`: what the command ring promises

The abstract specification, from xHCI 3.3 as `process_event` quotes it ("Commands are executed by the xHC in the order that they are placed on the Command Ring"). It is a bounded FIFO: `Accept` appends the next command number while fewer than `Capacity` wait, and `Execute` moves the oldest waiting command to `done`. It models no code and has no map entries. `CommandRing` is checked against it as a `PROPERTY`.

### `TrbCodec.tla`: the TRB encodings

A TRB is `[parameter, status, control]`, with the 32-bit control dword kept as a number. The `bitfield!` getters and setters are bit arithmetic on it (`Bits`, `SetBits`), so a setter that disturbs a neighbouring field shows.

The state is one TRB of each kind of traffic:

- the command TRB `try_enqueue` wrote last (`EnqueueEnableSlot`: `enable_slot_command_trb` and `set_cycle_bit`);
- the Link TRB in the last slot (`Init`: `LinkTrb::new` in `CommandRing2::new`; `WrapLink`: the cycle-bit rewrite at the wrap);
- the event TRB the xHC wrote last (`XhcPostCompletion`, `XhcPostOther`, the environment);
- what `XhciCommandCompletionEventTrb::try_from`, with `process_event`'s index computation, made of one of them (`Convert`).

Properties:

`try_from` has no caller in `src/`: `process_event` checks `trb_type()` and uses `transmute_ref!`, which agrees with `try_from` on the accepted events. The rejection cases check `try_from` as spec 8 describes it.

- `TryFromDecodesExactly`: `try_from` accepts exactly the Command Completion Events and decodes the slot the xHC completed. Anything else is rejected with the type it was written with.

### `EventRing.tla`: `EventRing2` against an xHC producer

Variables keep the field names of `EventRing2`. `erdp` is the published ERDP slot. `panicked` records a Rust panic. The xHC side is `hwEnq` and `hwPcs`.

| Action | Code |
|--------|------|
| `Init` | `EventRing2::new` and `update_erdp` |
| `Peek` | `peek`, exactly as written: its first loop's `i` is relative to `dequeue_pointer` |
| `ConsumeAndAdvance(k)` | a client consuming `k` peeked events, then `advance_dequeue_pointer(k)`: its assert, `wrapping_add_custom`, and the ERDP write |
| `PeekPanics` | the slice-range panic of `peek` |
| `HwPostEvent` | xHC (4.9.4): posts an event unless the ring is full with respect to ERDP |

Properties:

- `WrappingAddIsModulo`: `wrapping_add_custom` is checked against `(p + a) % L` at every dequeue pointer reached, for every `a` in `0..L`.
- `NoEventLost`: no event is overwritten before it is consumed.
- `PeekIsExact`: peek returns exactly the pending events.
- `ConsumedExactlyOnceInOrder`: each event is consumed once, in order.

### `XhciDriver.tla`: `Driver::new` and `handle_interrupt`, composing both rings

The command ring and the event ring are composed with `INSTANCE ... WITH`:

- `CR` is the command ring, with the xHC's command completions delivered through the event ring.
- `ER` is the event ring, with `MaxEvents = 1`.

`pc` is the step of `Driver::new`. One action models each step: `ResetController`, `WaitReset`, `ProgramConfig`, `AllocDcbaa`, `AllocScratchpadArray`, `SetupScratchpadBuffer` (one loop iteration), `ProgramDcbaap`, `NewCommandRing`, `NewEventRing`, `WriteErst`, `ProgramErstsz`, `ProgramErdp`, `ProgramErstba`, `ProgramInte`, `ProgramIman`, `ProgramRunStop`, `EnqueueEnableSlot` and `RingCommandDoorbell`.

Registers are abstracted to the set `programmed`. The exceptions are the data a property reads:

- USBCMD, held as its low bits (`usbcmd`: R/S bit 0, HCRST bit 1, INTE bit 2), and HCHalted and CNR;
- HCSPARAMS1.MaxSlots (chosen in `Init`), CONFIG and the DCBAA length;
- the HCSPARAMS2 scratchpad halves (chosen in `Init`);
- the bytes cleared per scratchpad buffer;
- CRCR, ERSTSZ, the ERST entry's segment size and ERSTBA;
- ERDP and EHB;
- the doorbell register.

These registers are modelled at bit level, because the driver writes them with `update()`, a read-modify-write, and the xHC acts on the bits:

- `SetUsbCmdBit` sets one bit of the value read, so the HCRST, INTE and R/S steps each keep the bits an earlier step set. The xHC's rules read the bits with `UsbCmdBit`.
- `ErdpRead` is the register as read: the dequeue pointer in bits 63:4 and EHB in bit 3. `ErdpWritten` is the write: it takes the new pointer, and EHB is RW1C, so writing 1 clears it and writing 0 leaves it. `ProgramErdp` (`update_erdp`) writes back the EHB it read; `HandleInterruptAdvance` writes 1.
- `NewCommandRing` writes CRCR with the ring base (bits 63:6) and RCS. `CrcrWritten` is the xHC loading its dequeue pointer and consumer cycle state from them. Without RCS the enable-slot TRB is never valid to the xHC.
- `ProgramConfig` sets CONFIG.MaxSlotsEn from HCSPARAMS1.MaxSlots. `AllocDcbaa` sizes the DCBAA with `DcbaaLen` (`max_slots + 1`). When the xHC executes the Enable Slot command, it assigns a free Slot ID of 1..MaxSlotsEn (`slotIds`).
- `WriteErst` stores `ring_segment_size = len as u16` in the ERST entry, and `ProgramErstsz` sets ERSTSZ to 1. `ErstbaWritten` is the xHC arming the event ring when ERSTBA is written: it reads ERSTSZ and the table at the address written. The xHC posts events only into an armed ring, and wraps at the size it read (`hwEvSegSize`). The order ERST, ERSTSZ, ERSTBA therefore matters in the model as it does on the xHC.
- `RingCommandDoorbell` writes a `DoorbellRegister` with `db_target` in bits 7:0. The xHC executes only after a write whose target is the command doorbell.

`handle_interrupt` is split into actions, because the xHC may act between the two peeks:

- `HandleInterruptProcess` peeks and folds `process_event` over the events with `FoldLeft` (`ProcessEvents`). A completion moves the command ring's dequeue pointer; any other event type is skipped, as `process_event`'s type check does. The second loop then finds only completions.
- `HandleInterruptRejects` is the same first loop followed by the `panic!()` of the second loop on an event of another type.
- `HandleInterruptAdvance` is `advance_dequeue_pointer`.
- `HandleInterruptPanics` is a panic of either peek.

The xHC actions are:

- `HwFinishReset`, `HwBecomeReady` and `HwRun`;
- `HwExecuteCommand`;
- `HwAssertInterrupt` (4.17: assert only while ERDP lags the enqueue pointer and EHB is clear). It sets EHB and IMAN.IP; under MSI (`IntxPin = FALSE`) IP is cleared again by the message write.
- `HwIntxLevel`: on the INTx pin, the interrupt is delivered again while IP, IE and INTE are set.
- `HwPostPortStatusChange` (with `PortEvents`): one Port Status Change Event, type 34, into the armed event ring.

`evType` records the type of each posted event.

Properties:

- `NoPanic`: `handle_interrupt` never panics.
- `EnableSlotCompletes`: liveness. Bring-up ends with the enable-slot command executed, its completion consumed, ERDP caught up and EHB clear.
- `InterruptsSubside`: liveness. Eventually no interrupt is pending delivery ever again.
- `CompletionsOnlyFromCommands`: software never counts more command completions than commands the xHC executed, whatever other events share the ring.
- `ScratchpadBuffersCleared`: every scratchpad buffer is cleared in full.
- `ResetOnlyWhenHalted`: an action property. HCRST goes from 0 to 1 only in a step taken while HCHalted is 1, as the HCRST documentation in `operational_regs.rs` requires.
- `TypeOK`: includes the bound that each clearing slice stays within its page.

### `ExtCapWalk.tla`: the extended-capabilities walk

`XhciExtendedCapabilitiesIterator` and the loop at the end of `Driver::new` that logs every Supported Protocol capability.

- The list of capabilities is the environment, chosen in `Init` as a sequence of `[id, next]` entries. xECP is chosen from `XecpValues`.
- `ptr` is the iterator's `Option<NonZero<u16>>`, with 0 for `None`. `logged` holds the offsets the loop logged. `panicked` records the `expect` of `checked_add`.
- `WalkStep` is one `next()` and its loop body. `WalkOverflows` is `next()` when `checked_add` returns `None`.
- `ChainOffset` is the reference definition, written with `RECURSIVE`: the offset of entry k is xECP plus the next pointers of the entries before it.

Properties:

- `WalkMatchesList`: when the walk ends, it has logged exactly the Supported Protocol entries, in list order, and it panics exactly when the list runs past the u16 offsets.
- `WalkEnds`: liveness. The walk ends.

## 3. Runs

All runs are listed in `PROJECT.json`.

| Run | cfg | Expect | What it shows |
|-----|-----|--------|---------------|
| cr_safety | `CommandRing.cfg` | pass | 4 slots, 7 commands (two wraps of the ring). The ring refines the FIFO queue, and fullness and dequeue tracking hold. |
| cr_link | `CommandRingLink.cfg` | violation | 3 slots, 5 commands: `try_enqueue` flips the Link TRB while the xHC stands on it, and the xHC is stranded. |
| er_safety | `EventRing.cfg` | pass | 4 slots, 8 events: wrap arithmetic is correct and no event is overwritten. |
| er_peek | `EventRingPeek.cfg` | violation | `peek` under-reports or panics once the dequeue pointer is nonzero. In the driver, this is the panic of a second `handle_interrupt`. |
| er_replay | `EventRingReplay.cfg` | violation | 2 slots, 4 events: the untoggled CCS replays consumed events after a wrap. |
| trb_codec | `TrbCodec.cfg` | pass | Ring base 64, 4 slots, other events of types 32, 34 and 37: the Link and command TRBs stay well formed, and `try_from` decodes exactly. |
| driver | `XhciDriver.cfg` | pass | Controller found halted or running, ready or not, with 0 to 3 scratchpad buffers (Hi in {0, 16}) and MaxSlots 1 or 2, under MSI. No panic, the enable-slot command completes, and interrupts subside. |
| driver_foreign_events | `XhciDriverForeignEvents.cfg` | pass | Port Status Change Events, the INTx pin and a shared line together: `process_event` counts only completions of executed commands. |
| driver_intx | `XhciDriverIntx.cfg` | violation | On the INTx pin IMAN.IP is never cleared: the handler is entered again until its peek panics, with the interrupt pending forever. |
| driver_reset | `XhciDriverReset.cfg` | violation | On a controller found running, the first step of `Driver::new` sets HCRST while HCHalted is 0, against the HCRST documentation at `operational_regs.rs:61-63`. |
| driver_scratch_clear | `XhciDriverScratchClear.cfg` | violation | One scratchpad buffer: only 8 of its 4096 bytes are cleared. |
| ext_walk | `ExtCapWalk.cfg` | pass | Lists of 1 to 3 entries with Supported Protocol and other capabilities. The walk logs exactly the Supported Protocol entries and ends; it panics only on a list that runs past offset 65535. |

Two defects and one design decision are documented here rather than checked by a run, because the project is limited to twelve runs:

- A Port Status Change Event makes the first `handle_interrupt` that sees it reach `panic!()` (`driver.rs:339`). The spec (7(c)) makes any event other than a command completion fatal in this design, so this is intended behaviour, not a defect. It is reachable with `PortEvents = TRUE` and `NoPanic`.
- On a 2-slot command ring, `process_event` never detects the xHC's wrap (the new dequeue pointer is always 1), so `try_enqueue` reports `IsFull` forever after two commands. The driver uses 256 slots.
- `max_scratchpad_buffers` (`capability_regs.rs:68`) computes `lo | ((hi << 4) as u8)`. The 10-bit count is `(Hi << 5) | Lo`, so Hi = 1 gives 16 or 17 buffers where 32 or 33 are required. `XhciDriver` models the code's decode in `MaxScratchpadBuffers`.

Every property of a passing run has a mutant in `PROJECT.json`: a plausible bug in a mapped definition, which TLC must catch. Examples are a dropped zero-fill of the ring (which breaks the refinement), a `set_cycle_bit` that overwrites the whole control dword, `command_trb_pointer` without its shift back, `process_event` without its type check, a strict comparison in `can_enqueue`, a missing wrap toggle in `process_event`, a missing decrement in `wrapping_add_custom`, a dropped assert in `advance_dequeue_pointer`, a stale ERDP after an advance, the wrong doorbell target, a CRCR update without RCS, an ERSTSZ update that stores nothing, and the 10-bit scratchpad decode without a matching fix of the clearing length.

### Bounds

The driver uses rings of 256 slots. The models use 2 to 4 slots. The code has no constant that depends on the length except `len - 1` for the Link TRB, so what matters is:

- how many times a ring wraps;
- whether the pointers can meet.

With 4 slots and 7 commands (or 8 events), each ring wraps at least twice. The full and empty states and the Link TRB handover all occur. The 3-slot command ring of `cr_link` is the smallest where the Link TRB is rewritten under the xHC. The 2-slot event ring of `er_replay` is the smallest where a wrap replays consumed events. The 2-slot command-ring defect (a missed wrap) has no run and is documented above.

The driver run issues one command, as `Driver::new` does. Scratchpad counts cover the zero branch, the loop, and a nonzero Hi half. The event ring holds at most two events: the completion and one Port Status Change Event, which is enough to put a foreign event before or after the completion. MaxSlots 1 and 2 make the assigned Slot ID both the only slot and the last of several. No Slots Available cannot occur with the single Enable Slot command of `Driver::new`, so the completion code the driver ignores is always Success here.

`ExtCapWalk` uses xECP in {0, 16, 65400} and next pointers in {1, 16, 255}. Zero is the empty list. From 65400, one step of 255 stays below 65536 and the next overflows, so `checked_add` both succeeds and fails. Lists of up to three entries give both orders of Supported Protocol and other capabilities.

An 8-slot command ring with 15 commands passes the `CommandRing` properties in about a second. It is not the configured instance, because the mutant that leaves the ring memory unzeroed multiplies the initial states and does not finish within the time limit at 8 slots.

`TrbCodec` uses a 64-byte-aligned ring base. Its completions name every command slot, so `command_trb_pointer`'s shift and the subtraction of the base both matter.

### Fairness

`XhciDriver` assumes weak fairness on:

- the bring-up steps, since `Driver::new` runs to completion once called;
- the xHC, since a working controller finishes its reset and executes a rung command (this includes re-delivery on the INTx pin, which is level-triggered); this assumption is why no run reaches the hazard of a reset that never finishes, on which `Driver::new`'s wait loop has no timeout;
- handler entry while an interrupt is pending, since the platform delivers it;
- the second half of the handler, since it runs on the same call.

Spurious handler entries are allowed but never assumed.

`ExtCapWalk` assumes weak fairness on the walk, since the loop runs to completion once `Driver::new` reaches it. The ring modules check only safety and assume no fairness.

`CHECK_DEADLOCK FALSE` is used because the system really does stop:

- Bring-up ends in an idle driver waiting for interrupts.
- A panic stops the driver.
- The bounded histories run out.

## 4. Not modelled, and why

- **TRB codec inside the rings.** The ring modules abstract a TRB to its cycle bit and an id; `TrbCodec` checks the encodings on their own.
- **Register layouts.** Beyond USBCMD, CONFIG, CRCR, ERSTSZ, ERSTBA, ERDP and the doorbell, the layouts are bitfield declarations with no behaviour. The register semantics that matter (HCHalted, CNR, IMAN) are the environment's rules in `XhciDriver`.
- **The allocator.** An external collaborator, assumed infallible.
- **Completion codes.** The driver never reads them. The model's xHC assigns a Slot ID, but its only failure, No Slots Available, cannot happen for the single Enable Slot command of `Driver::new`. This is listed as a hazard for code that issues more commands.
- **`DoorbellManager`.** Never called: `Driver::new` writes the doorbell register itself, and that write is modelled.
- **Interrupts during `Driver::new` or a nested `handle_interrupt`.** Both are excluded by the caller's precondition (the doc comments at `driver.rs:22` and `driver.rs:328`), which the code does not enforce. The model lets an interrupt become pending during `Driver::new` but enters the handler only after it returns, and never re-enters the handler.

## 5. Possible extensions

1. **The spec 8 end-to-end scenario.** An 8-slot ring with 7 enqueues, then `IsFull`, 7 completions, and space reclaimed. It passes, but see Bounds for why it is not the configured instance.
2. **An abstract event-queue specification** for `EventRing`, on the configurations where the code is correct.
