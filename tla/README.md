# Verification of wasm-nes

`wasm-nes` is a NES emulator written in Rust (`src/backend`), compiled to
WebAssembly and driven by a page written in TypeScript (`src/frontend`). This
directory holds TLA+ models of it, the TLC configurations that check them on
small instances, and TLAPS proofs of what holds for every instance.

Check a model with `tlc -config MCDmc.cfg MCDmc.tla`, a proof with
`tlapm DmcProofs.tla`. Line numbers refer to the repository this directory lies
in; `PROJECT.json` maps every definition to the lines it models, and names the
mutant of the code that each property catches.

## 1. The system

The page calls `cycle` until a frame is complete, hands the samples the APU made
to an audio worklet, and asks the browser for the next animation frame. One
`cycle` is one dot of the PPU. Every third one is also a CPU cycle, which either
moves a sprite DMA on or runs the CPU, and then clocks the APU, reads the byte
the delta modulation channel (DMC) asks for and passes its interrupt to the CPU.
The backend is single-threaded: what interleaves is the components *within* a
cycle, by dividers, stalls and a single interrupt slot, and the program that
reaches their registers in any cycle. The frontend has real concurrency: the
audio thread, the loading of the worklet, and the browser's callbacks.

| component | source | state | operations | what is hard | correct when |
|---|---|---|---|---|---|
| cycle loop | `emulator.rs` | dividers, sample accumulator | `cycle`, `reset`, `read` | order of DMA, CPU, APU, fetch, interrupt in one cycle | DMA copies a page in order and in time; the DMC is fed; the CPU comes back; samples come in exact number |
| CPU | `cpu/` | registers, `cycles`, one `interrupt` slot | `cycle`, `interrupt_request`, instructions | three kinds of interrupt share a slot; an unsigned countdown; a stack page that wraps; flags handed from instruction to instruction | what is pushed comes back; numbers of several bytes come out right; an interrupt requested is entered or masked |
| bus, sprite DMA | `bus/` | RAM, `dma` | `read`, `write`, DMA steps | parity of the clock against the raster | see cycle loop |
| DMC | `apu/dmc.rs` | reader, one-byte buffer, shift register | register writes, `cycle_timer`, `complete_fetch` | registers rewritten in mid-sample; address wrap; loop | each sample is played whole, in order, as it was when it started |
| APU frame counter, counters of the channels | `apu/apu.rs`, `pulse.rs`, `noise.rs`, `triangle.rs` | mode, frame, flag, lengths, envelopes | `cycle`, `$4000`-`$4017`, `reset` | mode, inhibit and read in the cycle a sequence ends; three registers share a flag | the flag comes when it should and only then; notes end |
| pulse sweep, sequencers, noise register | same | dividers, period, shift register | clocks, `$4001`-`$4003`, `$400E` | the sweep and the program write the same period | the period keeps its bits, a sweep ends, the noise never dies |
| mixer, filters | `apu/apu.rs` | floats | - | rounding | - |
| PPU raster | `ppu/ppu.rs` | dot, scanline, parity, flags | `cycle`, `$2000`-`$2002` | the skipped dot; NMI | - |
| PPU background | `ppu/ppu.rs` | two address registers, latches, shift registers | `cycle`, `$2000`, `$2005`-`$2007` | written in mid-frame; fetched 8-16 dots ahead; two wraps with carries | the picture is the part of the nametables asked for |
| PPU sprites | `ppu/ppu.rs` | OAM, secondary OAM, eight slots of registers | evaluation, fetch, drawing, flags | empty slots keep what was in them; filled while drawn from | a line shows its first eight sprites, the first of them in front |
| PPU memory, palette | `ppu/` | nametables, palette, address, read buffer | `$2000`, `$2006`, `$2007` | a buffer one read behind; banks and mirroring change under it | a byte is where it was written, under each of its addresses |
| cartridge, mappers | `cartridge/` | bank registers, serial port of mapper 1 | `read_prg`, `write_prg`, `read_chr`, ... | a load of five writes interrupted | the register set is the one named by the fifth write, with the bits of all five |
| controller | `input/controller.rs` | state, shift, strobe | `read`, `write`, `update` | page updates between strobe and reads | the eight bits read are of one moment, unless a state is loaded between them |
| saved state | `emulator.rs` | - | `save_state`, `load_state` | made and loaded in the middle of anything | a restored machine keeps the promises of the saved one |
| page audio | `frontend/audio.ts` | pending chunks, port, ring | `queue`, `start`, `onmessage`, `process` | worklet loads late or never; two threads; overflow, underrun | no sample lost, repeated or reordered but the oldest on overflow |
| page main loop | `frontend/index.ts`, `hooks.ts` | `#rafHandle`, clock of a loop | `start`, `stop`, callback | start and stop from inside a callback; dropped refreshes | running means scheduled; stop stops; the loop keeps pace |
| clock, debugger, logs, panics, page shell, tools, examples | `clock/`, `debug/`, `util/`, `tools/` | - | - | - | - |

`PROJECT.json` lists these components with their status, and under `hazards`
what in them is hard to test, each at its line.

## 2. The modules

| module | models | extends |
|---|---|---|
| `DmcUnit` | `Dmc` as a record, an operator for each method | - |
| `SampleWalk`, `SamplePlayer` | abstract: what the DMC promises, without registers or timers | - |
| `Dmc` | the unit under register writes in every cycle; refines `SamplePlayer` | `DmcUnit` |
| `PpuUnit` | the raster as a record | - |
| `Emulator` | the cycle loop, with CPU slot and sprite DMA | `DmcUnit`, `PpuUnit` |
| `CpuUnit` | registers, flags, stack and RAM, an operator for each instruction, interrupt and reset | - |
| `ControllerUnit` | a controller | - |
| `Mmc1Unit` | serial port and registers of mapper 1 | - |
| `SerialPort` | abstract: registers set by so many bits, most recent last, and kept in saved states | - |
| `Console` | the instructions of a program at work on RAM, controllers and mapper 1, with interrupts, key presses and saved states in between; refines `SerialPort` | `CpuUnit`, `ControllerUnit`, `Mmc1Unit` |
| `PpuAddress` | the arithmetic of the address registers | - |
| `PpuBackground` | the background from scroll registers to pixels | `PpuUnit`, `PpuAddress` |
| `PpuPicture` | sprites over that background, dot by dot | `PpuBackground` |
| `VideoMemory` | abstract: chips, the wiring that says which cell is behind an address, a pointer and the byte read ahead | - |
| `PpuMemory` | `$2000`, `$2006` and `$2007` under six mappers, and saved states; refines `VideoMemory` | - |
| `ApuUnit` | frame counter, length counters, envelope, linear counter | - |
| `Apu` | the APU under register accesses in every cycle | `ApuUnit` |
| `PulseUnit`, `NoiseUnit` | period, sweep and sequencer of a pulse; shift register of the noise | - |
| `Sound` | both under register writes at any clock, and the sample accumulator of the cycle loop | `PulseUnit`, `NoiseUnit` |
| `AudioFifo` | abstract: a queue that drops its oldest element when full | - |
| `AudioRing` | the ring buffer of the worklet | - |
| `AudioStream` | page, port and worklet; the ring refines `AudioFifo` | `AudioRing` |
| `RafLoop` | the main loop and the browser that calls it back | - |
| `MC*` | instances for TLC | the module named |
| `*Proofs` | theorems | the module named, TLAPS |
| `PageProofs`, `SoundProofs` | theorems about `AudioStream` and `RafLoop`; about `Sound` and `Apu` | both |

Stateful Rust structs are records and their methods operators from record to
record, with the names of the source (`write_ctrl(dmc, data)`), so that the same
unit is run alone and inside the cycle loop. A module with variables has one
action for each path through a handler. Operators with the comment `mutant` are
plausible errors of the code; no specification uses them.

How code and model correspond, where it is not obvious:

- **`Emulator`.** A step is a call of `cycle`. `DotOnly` is a dot without a CPU
  cycle; `DmaAlign`, `DmaRead` and `DmaWrite` are the branches of the DMA;
  `Busy`, `TakeInterrupt`, `IgnoreIrq` and the instructions are those of
  `Cpu::cycle`. All of them but the first end in `CpuDot`: clock the DMC, serve
  its reader at the price of a stall, hand its interrupt on. An instruction is
  its number of cycles and its one effect on the rest of the machine; an effect
  happens, as in the code, in the instruction's first cycle. `Reset` and
  `PageReadsStatus` are the page's, between two cycles.
- **`Dmc`.** `turn` splits a CPU cycle into the CPU's write, the clock and the
  fetch. `SamplePlayer` sees the script (addresses left to read), the byte
  waiting, the moves left of the byte being played, and the level.
- **`Console`.** A step is an instruction, the entering of an interrupt, or an
  event from outside: a request, a key, a saved state made or loaded. Memory
  outside RAM is not data: at any place of its code a program executes any of
  the instructions it consists of (`Programs`), with any of its operands, and
  jumps within its code. Three histories say what a reader of the program
  expects: `frames`, what is on the stack; `chain`, the integer that a sequence
  of `ADC`s, `SBC`s, shifts or rotations works out byte by byte; and `polled`,
  the buttons a controller was strobed with. A saved state takes all three with
  it, as the program in it would. Of a controller the code saves the buttons
  alone, so that a poll that comes back with a state need not be the one the
  shift register is in the middle of: it is then `torn`, and `PadReport` is
  silent about it until the next strobe. What `save_state` writes and
  `load_state` reads is `SavedMachine` and `LoadState`, of CPU, RAM, controllers
  and mapper.
- **`PpuBackground`.** A step is a dot or one access of the program between two
  dots. The data of a tile is replaced by where it was fetched from, so that a
  pixel shows which tile, row and column it is from. `camera` is the position
  that the reloads have taken over from `asked`, the position the registers'
  documentation gives the writes; neither is read by the model's actions.
- **`PpuPicture`.** The same dot, with the sprites' part of it: clearing the
  secondary OAM, evaluation, the fetch of one slot, the pixel and its priority,
  and the flags. `scene` is what a behaviour's program has set up (heights,
  masks, patterns), `front` the sprite in front at the last pixel. OAM is
  filled as a whole in the vertical blank. `left` stands for both of the bits
  that clip the left columns, on or off together.
- **`PpuMemory`.** A step is one access. A cell is a chip and an index, so that
  two addresses that share a byte map to one cell. The five writes that set a
  register of mapper 1 are one step here, since `Console` has them one by one.
  `VideoMemory` is not the code's arithmetic: its windows are numbers of banks of
  4K and its ROM cannot be written. The accesses for which the code differs are
  the action `Divergent`, which `MemoryRefines` leaves out (section 6).
- **`Apu`.** A step is a CPU cycle with at most one register access before the
  clock. Both pulses and the noise have the same length counter and envelope
  code, so one tone channel stands for the three of them.
- **`Sound`.** A step is a clock or a write. Pulse, noise and accumulator share
  no state, so a behaviour looks at one of them (`part`).
- **`AudioStream`.** Each thread runs its handlers to their end; the steps of a
  handler (`Store`, `PutOut`, one sample each) interleave with the other thread.
  Samples are numbers in the order they were queued. Statistics, the analyser
  and the volume are left out.
- **`RafLoop`.** A loop is the closure that one `start` makes. `RunFrame` runs a
  frame and then code of the user (`hook`), which may call `start` and `stop`.
  Time is kept as each loop's lag, from which
  `targetFrames - framesRun = floor(lag / FRAME) + 1` follows.

## 3. The runs

| run | instance | states | asks |
|---|---|---|---|
| `dmc` | 2-bit bytes, 2 rates, 4 sample addresses, lengths 1 and 3 | 201,152 | refinement of `SamplePlayer`, no starvation, flag only after the end, settling |
| `emulator_dma` | pages of 2 bytes, 1-bit sample bytes at 3 cycles a bit, stall 1 | 275,918 | DMA order, contents, length and end; the CPU is not held up for ever |
| `emulator_irq` | as before, pages at rest, interrupts on | 498,876 | an IRQ has its flag; a finished sample reaches the slot |
| `console` | 16 programs, stack page of 6 bytes, 2 buttons, registers of 3 bits | 182,012 | the stack brings back what was pushed, numbers of two bytes come out right, a controller reports one moment unless a load comes between, refinement of `SerialPort` |
| `ppu` | 2 x 2 tiles of 3 x 3 pixels, four nametables, 2 slots, 3 sprites | 733,598 | every pixel of background and, outside the clipped columns, of sprites comes from where it should; the flags; uploads are not disturbed |
| `ppu_memory` | regions of 8, 4 x 2 and 4 bytes, six mappers | 836,477 | refinement of `VideoMemory` but for `Divergent`; no index out of range but in a doubled window |
| `apu` | 5 steps, length 1, volume 1 | 125,551 | frame flag and its return; notes and envelopes come to their end |
| `sound` | periods below 16; 15 bits of noise; 7 dots a second | 284,917 | a sweep ends within its bits, the noise never dies, samples come in exact number |
| `audio_stream` | ring of 3, blocks of 2, chunks of 1, 2 and 4, 6 samples | 1,575 | order and completeness, refinement of `AudioFifo`, draining |
| `raf_loop` | 2 loops, frame of 2 ticks, refreshes of 2, 3 and 5, one suspension of 13 | 22,439 | running is scheduled, stop is final, keeping pace |
| `emulator_masked`, `raf_cancel` | | | one finding each, section 6 |

**Why the bounds are enough.** Each instance is small in the constants and
complete in the cases: it keeps every relation between constants that the code
depends on (they are the modules' ASSUMEs), and every branch is reached.

- `dmc`: the sample memory wraps in the middle of a three-byte sample; a bit
  takes one cycle or two.
- `emulator_*`: a page of two bytes has a first, a last and a wrapping OAM
  address, and both parities of the clock; `WORD = 6` lets a stall saturate.
- `console`: the stack of six bytes wraps inside a frame of three; code lies
  around the end of a page of memory, so that a return address carries;
  bytes are zero, all ones, and those at which signs and carries change; two
  buttons are a first and a last one; of three bits one is neither. Each
  program is one question, so that its instructions come in any order without
  all of them multiplying: `Nesting` and `Masking` interrupts, `Pulling` and
  `Moving` the stack, `Sums`, `Shifts`, `Broken` and `Between` numbers of two
  bytes and what may come between their bytes, `Flagging`, `Logic` and
  `Counting` what must not come between them, `Polling` and `Resuming` the
  controllers, `Banking` and `Turning` the mapper, and `Keeping`, `Resuming`
  and `Turning` saved states. `Resuming` is a strobe and a read after it, with
  saves, loads and presses at any point, so that a load also comes after a read
  and the register stays where the read left it.
- `ppu`: it wraps in both directions, with tiles straddled by the fine scroll,
  and a program that scrolls in the vertical blank and in the middle of line 2.
  A line has room for two sprites and there are three, of five kinds: in front
  and behind, flipped either way, overlapping, with holes, low and tall, and
  one on no line of the picture. The sprites of a frame leave their registers to
  the next. A behaviour has a program that scrolls or one that loads sprites
  (`scrolls`).
- `ppu_memory`: addresses are at the ends of the regions, the steps cross from
  one region into the next, by one and by a row; each half of a pattern table
  holds its own number, so that a wrong bank shows; banks are odd, so that a
  large window differs from a small one, and 1 and 3: of an 8K window of mapper 1
  the first is where it should be and the second behind the end of the chip. Four
  cartridges have CHR ROM, which the program writes all the same, two have RAM;
  the screens of mapper 1 are the vertical ones and the upper one.
- `apu`: every step of both sequences, each next to the other.
- `sound`: the smallest period that sounds is 4 of 16, so that a sweep in
  either direction takes several steps; of 7 dots a second 1 to 7 are sampled,
  which divide it and do not.
- `audio_stream`: a chunk of four overflows a ring of three by itself, and a
  block of two drains it.
- `raf_loop`: a suspension (13) exceeds what one callback makes up for
  (3 frames of 2), so catching up takes several.

Bounds on the behaviours, all of them constants of the modules: `LAST_SAMPLE`
(samples queued), `Loops`, `SUSPENSIONS`, `MAX_LAG`, `MAX_AHEAD` (main loop),
`Moments`, `Tables`, `Masks`, `ScrollXs`, `ScrollYs`, `AddressBytes`, `UPLOADS`,
`Scenes` (when and with what the registers of the PPU are used; once on,
rendering stays on), `Effects` and `InstructionCycles` (what the program of a run
of `Emulator` does), `Programs` (of `Console`: instructions, operands, and `room`,
how much they put on the stack), `OPERATIONS` and `WRITES` (accesses of
`PpuMemory`, six of which at most one writes), `LAST_DOT` of `Sound`.
`MAX_LAG` disables a refresh and `MAX_AHEAD` a frame; with the refreshes of
`MCSlow` neither is reached, and liveness is not bought by them.

**What is assumed of a program.** Registers are written at any time unless a
bound says otherwise. Two assumptions go further. In `Console` a program pulls
what it pushed, in the order of a stack, does not overfill it, and moves the
stack pointer while nothing is on it: that is what makes "what was pushed" mean
anything. In `PpuMemory` a program does not access the PPU beyond `$3FFF`, the
end of the space, and asks for banks that its cartridge has
(`CartridgeAssumption`). Banks are counted there as the hardware counts them, in
4K for mapper 1, so that the cartridges whose upper banks the code misses are
among those it speaks of. A number beyond the chip is left out, and so is a
mapper 1 with the 8K of RAM asked for a bank above them. Section 6 says what the
code does otherwise.

**Fairness, and why the code justifies it.** `Emulator`: `WF(Cycle)`, because a
running page calls `cycle` a frame at a time (`index.ts`, `rafCallback`). `Dmc`
and `Apu` inherit it: each of the turns of a cycle is taken. So does `Sound`:
timers are clocked by cycles, half frames by the frame counter, which goes on
(`FlagComesAgain`). Nothing is assumed of the program: writes, instructions and
resets are never fair. `AudioStream`: strong fairness of `Receive` and `Process`,
because the audio thread serves both its message and its render queue and
neither can keep the other waiting for ever (weak fairness would not do: each is
disabled while the other's handler runs), weak fairness of the loops inside a
handler; nothing is assumed of `Start`, `Ready` or `Queue`. `RafLoop`: the
browser goes on refreshing a page in which a frame is requested, and callbacks
run to their end (section 5 on exceptions). `CatchesUp` takes refreshes to be slower than a frame and, on
average, faster than `MAX_CATCHUP` frames, as any display that can show the
picture is. `Console` and the PPU have safety properties only.

**What the properties mean to the code.** Each is explained where it is defined.
The ones a reader should start with: `PlaysSamples` (whatever is written to the
registers, a sample that started is played whole), `DmaCopiesPage` and `DmaTime`
(512 cycles and one or two), `DmcNeverStarved` (reads keep up through DMA,
interrupts and stalls), `ComesBack` (through interrupts, a wrapping stack and
saved states), `WideNumbers` (carry and overflow make one number of several
bytes), `PadReport` and `SerialRefines` (protocols of several accesses that
something comes between), `ShowsThePicture` (two address registers, two latches
and a pipeline of three tiles amount to one formula of the pixel's place),
`SpritesShown` (evaluation, slots and latches amount to "the first eight in the
order of OAM"), `FlagsTell` (in three parts, each with the reason for its
premise), `MemoryRefines` (banks, mirrors and a late buffer amount to cells and
wires), `FlagAtTheEnd` with `FlagComesAgain` (the frame flag neither
too often nor too rarely), `NothingLost` (the way of the sound) and
`RunningIsScheduled` with `StopsForGood` (the handle protocol).

## 4. The proofs

TLAPS proves these for every value of the constants that satisfies the ASSUMEs
of the modules: every word size, page size, latency, rate table, capacity,
sequence of steps, set of programs.

- **`DmcProofs`** (lemmas about the unit in `DmcUnitProofs`): `DmcTypeCorrect`,
  `DmcFed`, `DmcFlag`. The three properties together are inductive. The point is
  that a rate of at least one cycle a bit and a reader served in each cycle
  leave no cycle in which the output unit empties the buffer and the reader does
  not fill it again. `DmcPlaysSamples`, that the unit implements `SamplePlayer`,
  needs in addition that the registers hold a start and a length that can be
  written (`Registered`). Two facts about operators carry it: what is left of a
  sample after a byte is the sample that starts at the next address, around the
  end of memory too (`WalkedOn`, `WalkTail`), and the bits left of a halved byte
  are those from the second on (`BitHalved`). That a power of two doubles, which
  the provers do not know, is shown by counting subsets (`PowerDoubles`).
- **`EmulatorProofs`**: `EmulatorTypeCorrect`, `EmulatorDmaInOrder`,
  `EmulatorDmaCopiesPage`, `EmulatorDmaTime`, `EmulatorDmcFed`,
  `EmulatorIrqExplained`. The inductive invariant adds three conjuncts. *The
  pace*: the cycles stolen so far are two for each byte copied plus the wait,
  according to the phase the parity of the clock stands for; without it the
  length of a DMA is not a fact about a step. *Freshness*: in a write phase the
  read buffer holds the byte of the current count; without it what a write
  copies is unknown. *Nothing pending*: the DMC's request is handed on in the
  cycle that raised it, so a request in the slot has its flag up. The last also
  gives `EmulatorIrqReachesCpu`: only the CPU part of a dot raises the flag, and
  the same part puts the request into the slot, whatever was in it.
- **`ConsoleProofs`**. Of an instruction: what it does to the registers' widths;
  `StatusComesBack`, the byte of the status that `PHP`, `BRK` or an interrupt
  pushes turns back into that status, though two of its bits are no flags;
  `AdcAdds` and `SbcSubtracts`, for every operand: result and carry are the sum
  or the difference, and the overflow flag says whether the signed one fits.
  Of programs: `ConsolePadReport`, whose invariant adds types only: a poll that
  comes back with a state is torn or the one the shift register is in; `ConsoleTypeCorrect`, and
  `ConsoleSerialRefines`, that mapper 1 implements `SerialPort`. The invariant
  speaks of the machine and of the saved one alike, or nothing could be said
  after loading; of the load register it says that a marker is in it.
  - `ConsoleStackHolds` and `ConsoleComesBack`. The invariant is that each frame
    is one the code pushes and that memory above the stack pointer, modulo the
    page, holds the bytes of the frames, for the machine and the saved one. The
    work is in the positions: a push of three bytes writes below all of them,
    around the end of the page, as long as the frames fit it.
  - `ConsoleWideNumbers`. The property speaks of the program that is running; the
    invariant of every program that an interrupt has put aside as well, in a
    frame of the stack or in the saved machine, together with the flags it will
    get back. A chain is an integer of as many bytes as were worked out, and the
    step is that one more byte makes the carry the part that does not fit
    (`NextByte`), from below for sums and shifts to the left, from above for
    shifts to the right (`UpwardsIs`, `DownwardsIs`).
- **`PpuMemoryProofs`**: `MemoryTypeCorrect`, and `MemoryKeepsPromise`, that the
  PPU's memory implements `VideoMemory` but for the accesses of `Divergent`. The
  invariant is that the machine and the saved state are each one of a cartridge
  that was put in, set to banks it has counted in 4K, and that an index was out
  of range only in a doubled window. The work is the map from addresses to cells
  (`CellIsPlace`): the region an address lies in, the mirrors of nametables and
  palette, and the windows are first shown to be those of the abstract wiring, by
  cases of the regions and the mappers (moduli by lemmas about multiples), each
  with the exception it has; an access that is not divergent is then one step of
  the promise. Of the divergent ones nothing is claimed but that what follows
  them is a step of the promise again.
- **`SoundProofs`**: `SoundTypeCorrect`, by which the period keeps its bits under
  every sweep and write and the noise register never comes to its dead state 0
  (its oldest bit returns at the top, in either mode), and `SoundKeepsTime`:
  the number of samples is the quotient of dots times rate by the dots of a
  second, and the accumulator is its remainder, in the saved state too.
- **`PageProofs`**, of the sound: `StreamTypeCorrect`, `StreamRingConsistent` and
  `StreamDropsOldest`, that the ring implements the queue: initial states map to
  initial states, and `Store` to a `Push` of the queue and `PutOut` to
  `Hear` or `HearNothing`. Arithmetic modulo a capacity that is not a number is
  beyond the provers, so it is done by cases in two lemmas about positions
  (`FromPosition`, `FromApart`). `StreamNothingLost` adds that nothing reaches
  the worklet before it is ready and that nothing stays in the list after; what
  is on the way is then what is owed (`Owed`), to which a step adds at the end
  or from which it takes at the front. What `FlattenSeq` makes of one more chunk
  at either end (`FlattenAppend`, `FlattenCons`) is shown by a least
  counterexample (`LeastNat`), since induction theorems cannot be applied.
- **`PageProofs`**, of the main loop: `LoopRunningIsScheduled` and
  `LoopOneHandleEach` (no loop is called back twice in an animation frame). The
  invariant has both: a start takes a loop that has no request, a callback ends
  without one, and so a loop and a handle belong together. That bounding the
  handles disables nothing is `FreshIsFree`, by counting. The two parts of the
  page share no state, each has its own specification (`Spec`, `LoopSpec`).
- **`PictureProofs`**: `PictureShown`, that the background is where the scroll
  registers put it, and `UploadsStayInOrder`; both from `PipelineCorrect`. Its
  invariant says, for each dot of a line (`Pipeline`), how far the address is
  ahead of the line it fetches for, which fields of the latches belong to that
  tile and which to the one before, and how many cells of the shift register are
  loaded and from where; of the row, from which dot of the pre-render line on it
  is the camera's. The property alone says nothing about the fifteen dots
  before a pixel. Two thirds of the work are lemmas about the operators: an
  address is uniquely made of its fields (`IsAddress`, `FieldsOf`), so that
  `x_increment`, `y_increment`, the reloads and the register writes are what they
  do to fields, around circles of `2 * COLS` columns and `2 * HEIGHT` rows. The
  step is by cases of the dot (`Places`): pixels, reload, pause, prefetch.
- **`PictureProofs`**, of the sprites: `SpritesAreShown` and `FlagsAreRight`. Two
  invariants follow a sprite from OAM to the screen. `EvaluationCorrect`: of the
  sprites examined so far, secondary OAM holds the first that are on the line,
  in order (`Examining`), and nothing changes it in the blank; the overflow flag
  is up if a line before was crowded or this one is already (`Overflows`).
  `RegistersCorrect`: from its fetch on, a slot's registers carry their sprite as
  far as the line has come, nearer by so many dots or with as many cells drawn
  out (`Carries`), and a slot that nothing was fetched into keeps leftovers that
  end within the line (`Fits`). The leftovers are why the invariant is about every
  slot: in the pre-render line the slots get what the last line of the picture
  has found, so a sprite of the last line shows on the first of the next frame
  too, and `Tidy` leaves that one line of such a scene out. Columns that are to be clipped
  are left out of the properties and not of the invariants, since the code clips
  nothing but hits. The slots are counted
  (`Ranks`): that of a sprite is given by the number of sprites of the line
  before it in OAM, so that the first opaque slot belongs to the first opaque
  sprite. Assumed of the constants are what the dots
  of `cycle` have in common, that a line examines at least as many sprites as
  OAM has, and that the picture has more than one row of tiles, since OAM at
  power-on puts all sprites on its first lines, which are not to be its last.
  The theorem is, like the run, about programs that load OAM in the blank.
- **`SoundProofs`**, of `Apu`: `ApuTypeCorrect` (the frame stays below its last step,
  including when the mode changes to the shorter sequence in its middle, which
  would stop the counter for good if the frame were kept), `ApuInhibited` and
  `ApuFlagAtTheEnd`. The invariant is types, frame and flag together; its step
  is proved in two parts, since a cycle is one register access, which keeps the
  invariant and never raises the flag, followed by one clock, which does so at
  the last step only.

Proved and not checked by a run, since what a run would check follows from it or
is simpler: the types of `Dmc` and `AudioStream`, `DmaInOrder`,
`InhibitedIsDown`, `OneHandleEach`, `Registered`, and the invariants of the
picture.

Every invariant and every action property that a run checks is proved, and every
refinement. Model-checked only: liveness (`Settles`, `DmaEnds`, `CpuComesBack`,
`Drains`, `CatchesUp`, `StopsForGood`, `FlagComesAgain`, `NotesEnd`,
`EnvelopeRuns`, `SweepEnds`, `HissesOn`), which TLAPS does not prove.

## 5. What the models leave out

- Addressing modes and the table of opcodes: an instruction of `Console` has an
  operand or one cell of RAM, and its length. Cycles of instructions are those
  of `InstructionCycles` in `Emulator` and none in `Console`.
- Windows of PRG, whose address computation has the form of those of CHR.
- Colours, and sound levels but those of the DMC and the envelope; mixer and
  filters are arithmetic on floats. The sequencer of the triangle.
- A tile's two bits of pattern are one choice of solid or not, and a slot of
  sprites is fetched at one dot. `$2004` and the DMA into OAM are in `Emulator`.
- A DMA page is RAM or ROM: reading a page of registers would have effects of
  its own, which are not modelled.
- `cycles`, a 32-bit word in WebAssembly, is a word of `WORD` values.
- `$4015` read through the CPU is modelled in `Apu` (frame flag) and the DMC's
  bits of it in `Dmc`, each on its own. A read of `$4016` is its bit only.
- Of saved states: what they keep of the CPU, RAM, controllers and mapper 1 is
  in `Console`, of the PPU's memory in `PpuMemory`, of the sample clock in
  `Sound`. Of the raster, the DMC and the DMA they copy each field; of the APU
  and the pipelines of the PPU they keep little (section 6). A file of another
  version or length is input handling.
- `RafLoop` leaves out rendering, input and watches. The panic hook is a `stop`
  from inside a callback. Code of the user is assumed not to throw: an exception
  of the emulator is caught (`index.ts:184`), one of `onCycle` is not
  (`index.ts:187`) and ends the callback before it asks for the next frame
  (`index.ts:92`). The page is then running by its handle with nothing scheduled:
  `RunningIsScheduled` does not speak of that.
- The place `BRK` returns to is the code's, three bytes behind the opcode
  (`instruction.rs:725`); `StackHolds` and `ComesBack` say that it is kept, not
  that it is the place a two-byte `BRK` of the hardware would return to.
- Not modelled at all, with the reason, in `PROJECT.json`: mixer, filters and
  clocks (floats), debugger, logs, tools and page shell (no state of their own).

## 6. Findings

Each is a run whose property states what a line of the repository says, and TLC
shows the code doing otherwise:

1. `emulator_masked`: *"Maskable interrupt"* (`interrupt.rs:10`). A masked IRQ
   returns without setting `cycles`, which are then decremented from zero
   (`cpu.rs:100`): a panic in a debug build, 2^32 cycles of a stopped CPU (some
   forty minutes) in a release build.
2. `raf_cancel`: *"Don't run another frame if it has been canceled in the mean
   time"* (`hooks.ts:85`). The check asks whether any handle is set: after a stop
   and a start inside a callback the stopped loop goes on beside the new one,
   and the new one's handle is lost.

Seen while modelling, without a run of their own.

*CPU and controllers.* The interrupt slot is overwritten (`cpu.rs:152`): a DMC
interrupt that arrives while an NMI waits replaces it and, masked, is dropped as
well. Indexed-indirect addressing adds one to X in eight bits
(`instruction.rs:449`), a panic of a debug build at 255.

*Saved states* (`emulator.rs:183`, *"Save complete emulator state as a binary
blob"*). Of a controller only the buttons are saved (`emulator.rs:264` and 390),
not the shift register and the strobe, so that a program restored in the middle
of its eight reads goes on with bits of another moment: `PadReport` is about
polls that no loading tears. Also left out: the frame counter and the channels of
the APU but for the DMC, of that `irq_enable`, `loop_flag` and `timer_reload`,
and the PPU's latches and shift registers. A state of the older format leaves the
DMC as the running machine has it (`emulator.rs:369`).

*Sprites*, and what `SpritesShown` and `FlagsTell` do about it:

- The left columns are never clipped: *"Enable background on leftmost 8 pixels of
  screen"* and *"Enable sprites on leftmost 8 pixels of screen"* (`ppu.rs:36-37`)
  are asked by the hit only, which is clipped when both are down (`ppu.rs:483`),
  and not, as *"Left-edge clipping occurs when $2001 is not $1E"*
  (`ppu_sprite_hit/readme.txt:62`) has it, when either is; the model has them up
  or down together. Columns with the bits down are outside both properties.
- Sprites stand one pixel left of their x, where *"Sprite should hit left side of
  bg tile"* (`ppu_sprite_hit/readme.txt:28`) has them at x. `EARLY` of
  `PpuPicture` names that offset: the place is the code's and not a promise. Those
  over the right edge leave pixels to later lines, those on the last line to the
  first line of the next frame; a tall sprite flips each half by itself. `Tidy`
  says which sprites `SpritesShown` speaks of.
- The overflow flag is raised with rendering off too, against *"Shouldn't set flag
  when $2001=$00"* (`ppu_sprite_overflow/readme.txt:11`) and *"Shouldn't be set
  when all rendering is off"* (`sprite_overflow_tests/readme.txt:24`). It counts
  the sprites of a line exactly, where the hardware's search goes astray behind
  the eighth (`ppu_sprite_overflow/readme.txt:54-63`). `FlagsTell` speaks of
  frames with rendering on from their start, and of lines on which the two agree.
- A slot of sprite zero that is drawn out is still taken for a hit when another
  sprite has an opaque pixel (`ppu.rs:469`, against *"Should always miss other
  sprites"*, `ppu_sprite_hit/readme.txt:16`). That a hit has a cause is said
  where no other sprite shows.

*Video memory*, the accesses that `MemoryRefines` leaves out or the model does
not make:

- With an 8K window of mapper 1 the code multiplies a number of banks of 4K by 8K
  (`_001.rs:25`, against the test that *"steps through all the PRG and CHR bank
  numbers in each window"*, `holy-mapperel-bin-0.02/README.md:128-129`): every
  other bank of 8K is shown, and the upper half of the numbers is out of range,
  which ends the program. The large window of PRG does the same (`_001.rs:59`).
  A bank beyond the chip is not wrapped by any mapper.
- CHR ROM can be written (*"No distinction between CHR ROM and RAM"*,
  `cartridge.rs:71`), against *"CHR ROM on mapper 3 (CNROM boards) must not be
  writable"* (`ppu_read_buffer/readme.txt:509-512`).
- The upper one-screen mirroring (`mirroring.rs:16`) uses the memory of the lower
  (`ppu.rs:743`). Of mapper 7 the code takes a set bit for the lower screen and a
  clear one for the header's mirroring (`_007.rs:48`), and so does `Wired`.
- The upper bits of an address are not ignored throughout (`ppu.rs:599` and 687,
  against `ppu_read_buffer/readme.txt:337`): past `$3FFF` mappers get an index out
  of range. The model stops there.
- A read of the palette leaves the palette's byte in the buffer, not the
  nametable's (`ppu_read_buffer/readme.txt:371`); `VideoMemory` leaves it open.

*APU.* `enable` sets `length_enabled` whatever the halt bit says
(`pulse.rs:193`, against `apu_test/readme.txt:17`); `$4000` lets a channel that
`$4015` has disabled load its length again (`pulse.rs:153`, against
`apu_test/readme.txt:16`); the APU powers up in five-step mode (`apu.rs:115`,
against `apu_reset/readme.txt:33`); the DMC goes silent at the second byte
boundary after a disable when a byte is in the buffer, where the comment says
the next (`dmc.rs:101-103`).

*Page.* On a display that refreshes faster than 60.0988 Hz the loop runs ahead of
the clock (`index.ts:84`, against the remark at `index.ts:71`).

## 7. Plan

Done, in this order: DMC, cycle loop, audio path, main loop, frame counter,
background; then the console of CPU, controllers, mapper 1 and saved states,
sprites, the PPU's memory, sweep, noise and sample clock; with proofs of
all their safety properties.

Left, in the order of what it would show:

1. `Console` with two mappers of more than one window of PRG, and the APU's
   registers in a saved state, so that what is left out becomes a property of
   the sound.
2. The sequencer of the triangle and the levels of the channels, up to the
   mixer.
