# Formal models of nesl

nesl is a NES emulator driven by a Lua script: the script loads a rom, sets
buttons, advances frame by frame, hooks memory, saves states, reads memory and
takes screenshots.  `src/nesl.cpp` and `src/nesl/` are the program and its Lua
functions; `src/nes_emu/` is the emulator (a version of blargg's Nes_Emu);
`src/fex/` reads files.

Everything runs on one thread.  What makes the program hard is not parallelism
but laziness and re-entry.  The PPU, the sound unit and the mapper are run only
when the CPU touches them, from times the CPU has cached; the CPU itself looks for
interrupts only when its clock reaches a cached limit; and a script's hook runs in
the middle of all this and may call back into it.  Most of the models here are of
this kind: a component that is *lazy*, beside the one that does everything on time,
and the claim that nobody can tell them apart.

Paths below are relative to the repository.  Names of definitions ending in
`_Something` (`HookNumber_Skips`, `Judge_NextLine`) are mutated forms: each is what
the definition before or after it would be with a plausible bug, no specification
uses it, and it is there to show that the properties notice the bug.

## 1. Inventory

| Component | State | Operations | What is hard | Correct when | Model |
|---|---|---|---|---|---|
| Memory hooks, `src/nesl/memory.cpp` | per-address tables of hook numbers, vector of hooks, totals, Lua registry, CPU tracing flag | `memory.registerexec`, `registerwrite`, trace callback | overlapping, repeated, wrapped ranges; two numberings that drift apart | totals count the tables, tracing is on iff something is hooked, an access calls what was asked for at its address | `MemoryHooks` |
| Script frame loop, `src/nesl/emu.cpp`, `savestates.cpp`, `src/nesl.cpp` | `deadframes`, `frame_count`, hooks, C stack | `emu.frameadvance`, resets, `loadrom`, `savestate.save/load`, `emu.register*` | hooks re-enter the loop; errors unwind it, in the middle of a frame too | requests are kept, counters agree with what was emulated | `FrameLoop`, `Session` |
| Screenshots, `src/nesl/screenshots.cpp` | pending flag, path, `host_pixels`, archive | `gui.savescreenshot`, `savescreenshotas`, tar open/close | request and picture are a frame apart; an error between | the picture asked for is written; nothing draws into a buffer nobody saves | `FrameLoop`, `Session` |
| CPU and emulation loop, `Nes_Core.cpp`, `Nes_CpuRun.h`, `Nes_Cpu.h` | clock, limits, I flag, delayed CLI and SEI | `emulate_frame_`, `run`, `irq_changed`, `event_changed` | cached limit; effects one instruction late; frames end inside an instruction | an IRQ is taken exactly when the 6502's rule says so; NMI once; frames end | `EmulateFrame` |
| CPU instructions, `Nes_CpuRun.h`, `Nes_Cpu.cpp` | `a`, `x`, `y`, `sp`, `pc`; flags packed in `c`, `nz`, `status` | a case per opcode, `vector_interrupt` | a packing every instruction must keep; accesses that have effects | equals a 6502 with plain flags, in registers, accesses and clocks | `Cpu` |
| CPU memory map, `nes_cpu_io.*` | page table of code | `map_code`, `cpu_read`, `cpu_write` | — | — | banks in `Boards`; each handler in its part |
| Sound unit, `Nes_Apu.cpp`, `Nes_Oscs.cpp`, `apu_state.cpp` | frame counter, DMC, cached IRQ times | register writes, `$4015` read, `run_until`, `end_frame`, state | closed-form predictions; DMC ahead of the rest | equals the unit run cycle by cycle; IRQ neither missed nor spurious | `Apu` |
| MMC3, `Nes_Mmc3.cpp` | counter, latch, IRQ flags, cached scanline time; bank registers | register writes, `a12_clocked`, `next_irq`, `end_frame`, reset, save, load | prediction in closed form; a state without the time | equals a counter clocked line by line | `Mmc3`, `Boards` |
| PPU registers and background timing, `Nes_Ppu.cpp`, `Nes_Ppu_Impl.cpp` | addresses, latch, phase, next line and blank times | `$2000`–`$2007`, `render_bg_until`, `begin_frame`, `end_frame` | an access that forgets to catch up, or whose catching up does nothing | each line is drawn from the address it began with | `PpuScroll` |
| PPU memory, `Nes_Ppu_Impl.cpp/.h` | CHR, nametables, page map, decoded tiles and their marks | `$2007`, `set_chr_bank`, mirroring, `open_chr`, `reset`, save, load | a decoded tile out of date; a buffer used twice | nothing stale is drawn; a state brings all back | `PpuMemory` |
| Sprite 0 hit, `Nes_Ppu.cpp`, `Nes_Ppu_Rendering.cpp` | lines drawn, hit found, time of the next check | `$2002` reads, `render_bg_until`, `check_sprite_hit`, `update_sprite_hit` | lines drawn in chunks and ahead of time; polls that are skipped | a poll sees the hit from its pixel's clock on | `SpriteHit` |
| Background and sprite pixels, `Nes_Ppu_Bg.h`, `Nes_Ppu_Sprites.h` | host pixels | drawing of tiles, sprites, overflow search | — | layout | no |
| Cartridge boards (mappers), `misc_mappers.cpp`, `Nes_Mmc1.cpp`, `Mapper_*.cpp`, `Mmc24.cpp` | registers; the memory map they make; IRQ counters | `write`, `reset_state`, `apply_mapping`, `run_until`, `next_irq` | only what a write changed is updated; counters in closed form; a state holds no map | the map follows from the registers; timers as if counted each cycle | `Boards`, `CycleIrq` |
| Cartridge, rom and patch, `Nes_Cart.cpp`, `src/nesl.cpp`, `src/nesl/rom.cpp` | rom buffer, PRG, CHR | `loadRomFile`, `load_ines`, `apply_ips_to_*`, `rom.readbyte` | sizes at a boundary; one step of several failing | a failed load leaves a usable machine | not yet |
| Save states, `Nes_State.cpp`, `Nes_File.cpp`, `nes_data.*` | block file, validity flags | `read`, `write`, `set_nes_state` | unknown, short, missing blocks | what was written is read back | no: the program keeps states in memory only |
| Joypads, `joypad.cpp`, `Nes_Core.cpp` I/O | buttons set, strobe, shift registers | `joypad.set/get`, `$4016` | buttons are copied before a hook can set them | a frame sees the buttons set for it | not yet |
| Archive and exit, `screenshots.cpp`, `src/nesl.cpp` | tar stream | open, close, save, SIGINT, exit | a signal between two writes; exits that skip the close | the archive is complete at exit | `Session` |
| Sound output: buffers, synthesis, expansion sound | — | — | `enable_sound(false)`: never run | — | no |
| NTSC filter, Game Genie codes (`nes_ntsc*`, `nes_util.*`) | — | — | not called by the program | — | no |
| Lua, microtar, stb_image_write (`lib/`), `lua_bitops.cpp` | — | — | third-party | — | no, external |

How they interact.  The script calls `emu.frameadvance`; it calls the before-hook,
then `Nes_Emu::emulate_frame`, which runs `Nes_Core::emulate_frame_`; the CPU runs up
to a limit, and its accesses reach the PPU, the sound unit and the mapper, which
bring themselves up to the access' time, and report a changed interrupt time through
`irq_changed` and a changed event through `event_changed`.  A traced CPU calls the
memory hooks before each instruction and write.  After the frame the screenshot is
written and the after-hook is called.  States are copied out of and into all
components in a fixed order, mapper last.

`PROJECT.json` lists the hazards at their lines, with the property that watches
each, or why none does yet.

## 2. Modules

| Module | Role |
|---|---|
| `MemoryHooks`, `MCMemoryHooks`, `ScriptProofs` | hook tables; instance; proofs |
| `ScanlineCounter` | abstract: a counter clocked once a line |
| `Mmc3`, `MCMmc3`, `Mmc3Proofs` | the lazy counter, which implements it; proofs |
| `Boards`, `MCBoards`, `BoardsProofs` | registers and memory maps of 18 boards; proofs |
| `CycleIrq`, `MCCycleIrq`, `CycleIrqProofs` | the IRQ timers of FME-7, Namco 106 and VRC6; proofs |
| `FrameLoop` | the loop a script drives |
| `Session`, `ScriptProofs` | a run of the program: the frame loop, the archive, roms that fail, the ways out; proofs about both |
| `Apu`, `MCApu`, `ApuProofs` | sound unit interrupts; proofs |
| `InterruptRule` | abstract: when a 6502 takes an interrupt |
| `EmulateFrame`, `MCEmulateFrame`, `EmulateFrameProofs` | the emulation loop, which implements it; proofs |
| `Bytes` | bytes of `Width` bits |
| `PlainCpu` | abstract: the 6502 with a flag for every flag |
| `Cpu`, `MCCpu` | the instructions on packed flags, which implement it |
| `PpuScroll`, `MCPpuScroll`, `PpuProofs` | addresses and lazy rendering; proofs |
| `SpriteHit`, `MCSpriteHit`, `SpriteHitProofs` | the sprite 0 hit; proofs |
| `PpuMemory`, `MCPpuMemory`, `PpuProofs` | pages, tiles, states; proofs |

`MCSession.cfg` checks `Session` directly; `FrameLoop` has no run of its own, for every step of it
is a step of `Session`.

The components meet at a few interfaces, and the models are cut there.  The CPU and the
interrupt sources meet at "the time of the next IRQ": `Mmc3`, `CycleIrq` and `Apu` show that what a
source announces is when its flag really rises (`CpuToldInTime`, `TimerToldInTime`,
`NeverMissed`, `NeverSpurious`), and `EmulateFrame` assumes just this of `irqDue` and shows what the CPU
makes of it.  The PPU's registers and its memory meet at the page a line is drawn
from: `PpuScroll` shows which address a line is drawn from, `PpuMemory` what an address
shows.  A mapper's registers and its counter share nothing but `reset_state` and the state they
are saved in, and so `Boards` has the one, `Mmc3` and `CycleIrq` have the other.

### MemoryHooks

State: `regs` is `hookregistrations`, two adjacent rows of one array; `hooks` the vector of
registry reference and count; `total` the two totals; `slot` the Lua registry, with
the free list `luaL_ref` and `luaL_unref` keep in slot 0; `tracing` the CPU's flag; `call` what
the last traced access called.  `Register` and `Unregister` are the two branches of
`memory_registerhook`, `Access` what `memory_tracecb` does on a fetch or a write: both use type
0, so a write looks in the exec table and the write table is never read.  Ghosts: `asked`, the exec callback
a script last asked for at each address, of the whole range it named (from the start, as long as the length says);
`missed`, the addresses at which a range asked for and the range laid down differ; and `freed`, whether a slot was ever
given back.

Two habits of the code are kept as they are: `hooks[hook_idx]` is the hook *after*
the one meant, and what lies past the vector is any value of `Junk`; the hook
number is used as registry reference.  `TableSize` scales 0xFFFF, including that
the tables are one entry short of the address space and 0xFFFF falls on 0.

* `memory_hooks` (`TableSize` 2, so three addresses; starts 1 and 2, lengths −1, 1, 2, three hooks, two
  interchangeable callbacks): with three hooks, ranges can overlap, be replaced and be
  taken out in every order, and the last can wrap.  `EntriesNameHooks`: an entry is 0
  or the number of a hook in the vector.  `TracingIffHooked`: the CPU traces iff an exec
  entry is set.  `CallsWhatWasAsked`: until a slot was freed, an access calls the callback last asked
  for at its address, or nothing where none was, and never what is no function; but for the addresses in `missed` and for
  0xFFFF, which looks at another's entry.  It stops when all hooks are used
  (deadlock is off: a script that registers no more only runs).

What `missed` leaves out is the code's own: the last address of every range, and so the only one of length 1, calls
nothing of it.

### Mmc3 and ScanlineCounter

`ScanlineCounter` clocks the counter at every line.  `Mmc3` keeps what the code keeps:
`irq_ctr`, the latch, `enabled`, `flag` and `next_time`, up to which the lines
have been counted; `run_until` counts the ones due in a loop, `next_irq` predicts in
closed form, and the CPU holds the prediction it was last told.

A state holds the registers but not `next_time`, and a load or a reset sets that to the first
line and tells the CPU nothing; both happen between frames, where nothing has been counted yet.

* `mmc3` (latches 0 and 2, three lines a frame, five dots a line, three dots a cycle, a cycle of
  overshoot): `PredictionExact` compares the closed form with the loop at every state;
  `CpuToldInTime`: whenever the flag is up the CPU was told a time not later; and
  `LazyIsScanline`, the refinement: after running the lines due, the lazy counter is the one
  clocked on time, through resets and loaded states too.  Latch 0 and reload in the middle of a
  count happen within three lines, from 2 the counter passes 1; more lines repeat them.  Five dots
  are not a multiple of three, so that lines fall on all three phases of a cycle.  `TimeAssumption` has
what the argument needs of the real sizes: a line (341 dots) is longer than a cycle (3), and an
overshoot shorter than the time to the first line.

### Boards

What a game's writes make of the memory map.  Boards keep a register or more, and update of the
map what a write changed; a state holds the registers alone.  `regs` is the registered state of
the mapper, `map` the banks of the four pages of the CPU and the eight of the tiles (and the
second set MMC2 and MMC4 have), the name tables and what is at `$6000`.  `ApplyMapping`
is every board's `apply_mapping`, the actions `Write…` are the `write` functions, and `LoadedMap`
has the whole order in which a loaded state sets the map: PPU, SRAM, `default_reset_state`,
and `apply_mapping` twice.

* `boards` (18 boards, PRG of 128K and CHR of 64K, three mirrorings, two or three register writes
  out of three to six bytes each, which differ in each bit some board looks at): `MapFollowsRegisters`: updating only
  what changed leaves the map that `apply_mapping` makes of the registers, whatever was
  written before; `LoadRestores`: a loaded state brings back the map it was saved with, whatever
  was in place.  Two writes are enough for one that depends on what another left; those boards with a single
  register have three.

The properties except what does not hold, which `Decides` and `Seen` name:

* `Mapper_87` intercepts writes at `$6000`, and its `apply_mapping` calls `write`, which is empty
  (`misc_mappers.cpp:116`, where `Nes_Mapper.h:161` asks that a state's mapping be applied): a
  loaded state keeps the tiles of the game's last bank of page 0.
* Namco 106 mirrors by a bit of a bank register and by four registers of their own; the
  last write counts, `apply_mapping` always takes the first after the others.
* `lrom_readable` is set by an FME-7 with ROM at `$6000` and cleared by a full reset only: later,
  unmapped memory reads as filler instead of the open bus.

A bank wraps by the number of banks of its size; a PRG ROM smaller than a bank has none, and
`bank %= bank_count` divides by zero (`Nes_Mapper.cpp:136`).  `BoardAssumption` keeps to sizes with whole banks.

### CycleIrq

One record for the three timers that count cycles, with `run_until` and `next_irq` of each: FME-7
counts down through zero, Namco 106 up to its top, VRC6 keeps the time of its next expiry.  Beside it
`live` counts every cycle.  An FME-7's IRQ is due when the count passes zero, and the code
may notice it at zero or after, so `live` has an IRQ that *must* and one that *may* be pending.

* `cycle_irq` (counters of two two-bit bytes, frames of 7 cycles with 2 of overshoot, interrupts
  of 2 cycles, VRC6 delays 3 and 6): `TimerExact`: a timer, whenever it is run, agrees with `live`;
  `TimerToldInTime`: the CPU was told of no later time than the IRQ's.  The counters wrap
  within three frames.

The ghosts mark what the code leaves out.  `told`: writing an FME-7's count moves its IRQ and
tells the CPU nothing.  `exact`: a Namco 106 is not run before its count is written or read, so cycles
from before the write count from the new value; and VRC6's `$F002` can enable a timer
whose expiry is of long ago.  At a frame's end the mappers go back by the time run and the
CPU by the frame's length (`Nes_Core.cpp:549`), so that all three count the overshoot twice: `live` does so as well,
and the properties show that nothing else is wrong.

### FrameLoop

One thread with a stack: `stack` holds the C calls that wait for script code, and the
script code that runs is the one above the top.  Every API function that changes the
counters or the screenshot request is an action; `frameadvance` is cut where it calls
out: before-hook, `emulate_frame`, screenshot, after-hook; `softreset` where its frame is emulated (`SoftReset`,
`SoftResetDone`).  In the middle of either frame a memory hook may ask for a
screenshot, set hooks or fail (`HookError`), and its error leaves the call half done: a soft reset
that failed has reset the machine and set neither `frame_count` nor `deadframes` (`origin` "half").
A hook of `callhook` that fails and one that returns are the same
step, since `callhook` drops the error.  A picture is written (`ShotFrame`), or its `.bmp` cannot be opened and
the error comes once `host_pixels` is cleared (`ShotNotWritten`), or its extension is unknown and the error
comes before that (`ShotError`).  `SaveScreenshotFails` is the call whose argument is no string: the
request is set and the path is the one before, at first the empty one.

`PixelsOnlyForShots`: the emulator draws into the screenshot buffer only while a frame with a
request runs, or after a memory hook's error or an unknown extension unwound one.  `RequestKept`: a request made outside
a frame that will be saved stays pending, under its path, until it is written, over soft resets too, unless a memory hook
asked again in the middle of such a frame.  `ResetsAgree`: after both resets, a soft one whose frame came to its end,
frames counted and frames emulated differ by the dead frames the reset implies.
`frame_count` is therefore not the number of frames emulated: dead frames count too.
They are checked in the run of `Session`.

### Session

`Session` extends `FrameLoop` to a run of the program.  It starts with a rom or without one.  Its steps are those of the
loop, of a machine with a cartridge or without one; what screenshots do with the archive, to which `gui.screenshotarchive`
and SIGINT may do something at any time; and the ends: `emu.exit`, whose hook runs on top of whatever
called it, the end of the script, a script error, and a crash.  An archive is `none`, `open` or
`bad`: one that could not be opened stays set.  Three things crash (`Crash`): a call that needs a cartridge where there
is none (`NeedsCart`); a picture under a path without a dot, a `.bin` without an archive, and any that goes to a `bad`
archive (`ShotCrashes`); and closing a `bad` one (`CloseCrashes`).

* `session` (the empty path and paths with a known, an unknown and an archive-only extension, the before-hook,
  two nested calls, three frames counted): the three properties of `FrameLoop`, and
  `CrashesOnlyAfterErrors`: the ways to crash are the script's that loaded no rom, or
  went on after a rom or an archive failed, SIGINT in an access to the archive, and a picture whose path has no dot or
  is a `.bin` without an archive.  Two nested calls
  are a hook in a frame of a hook; three frames are enough for a dead frame, a live one and a counted one
  after a soft reset; the other hooks differ from the before-hook only in where they are called, and those places
  are steps whether a hook is set or not.  Half of the runs (`scope` "states") have saved states
  and no archives, the other half ("ends") archives, failures and ends, which have nothing to do
  with saved states; nothing changes `scope`.

`ScriptError` leaves an open archive open, as the code does.  The repository's `README.md:35` says that it closes when
the program ends; nothing here claims it.

### Apu

One record holds the fields of `Nes_Apu` and its DMC that bear on interrupts; the
operators are the functions of the code, from `RecalcIrq` to `LoadState`.  Sound is off in
this program, so the DMC is silent when run and the other channels have no part.
A CPU access happens at a cycle of its own; `Tick` passes a cycle, and ghosts tell how long
the line has been up.

* `apu` (frame period 4, two-bit bytes, samples of one and two bytes, frames of 4
  cycles with 1 of overshoot): `LazyIsCycleByCycle`: running at once to a time gives what
  running cycle by cycle gives, so that when the CPU happens to look makes no difference;
  `NeverMissed`: while the line is up the CPU has been told within three cycles;
  `NeverSpurious`: it is not told of an IRQ that is not there, but after a `$4010` write that
  dropped the flag and left the announcement (`dropped`); `LoadRestores`: a state saved and loaded between frames brings
  the unit back.  The periods are short so that the frame counter's four steps and a sample's
  end cross frame ends in every order.  `FrameAssumption` asks that an instruction be shorter than a
  frame and `no_irq` later than any time a unit can announce, as `LONG_MAX / 2 + 1` is.
* `apu_missed` refutes what `Nes_Apu.h` says of `earliest_irq`, that a pending IRQ is always
  announced: after a state was loaded the frame counter's is not (`stale`).

### EmulateFrame and InterruptRule

`InterruptRule` is the rule of the 6502: an IRQ is taken after an instruction if the
line is up and I is clear, where CLI, SEI and PLP act one instruction late.  It tells an IRQ from an
NMI, so that the emulator may take neither for the other.
`EmulateFrame` has the loop of `emulate_frame_` (`TakeNmi`, `TakeIrq`, `TakeNone`, the ways
out), an instruction of each kind that moves a limit, and the flag and NMI of the PPU.
An instruction takes a length of `Lengths`; `EarliestEvent` may fall at any time before
the true event, which stands for DMC reads and single-instruction mode.

* `emulate_frame` (12 cycles, blank over at 4, instructions of 2 and 3 cycles, the IRQ now or
  2 later): `ThreeExtraSuffice`: no frame leaves the loop by its guard against a fourth
  extra instruction while more were wanted; `TakenByRule`: the refinement; `NmiNotTwice`;
  `FramesEnd`: every frame ends.  Twelve cycles hold four to six instructions, so that a
  delayed CLI or SEI, an NMI and an IRQ meet at a frame's end in all orders.  `TimeAssumption` asks that an
  instruction be at most a quarter of a frame, and fit between the blank's end and the frame's: a frame has
  29780 or 29781 cycles and the longest instruction 8.

Fairness is `WF_vars(Next)`: there is one thread, and it goes on while it can.

### Cpu, PlainCpu and Bytes

`PlainCpu` is the 6502 as its manual has it: a set of flags, a stack pointer of one byte, and
an addressing mode that gives an address, the accesses made on the way and a clock for each
access.  `Cpu` is what `Nes_Cpu::run` has instead: Z when the low byte of `nz` is zero, N in
either of two of its bits, C in a bit of `c`, V and I in `status`, the page inside `sp`, a
table of clocks, and reads of its own only where they have effects.  The operators are named for
the macros and the instructions; several opcodes that share code share one.  `ran` and
`access` say which instruction ran and which operand was fetched, so that the abstract machine
must match that one.  Bytes have `Width` bits with C, Z and I at the bottom and V and N
at the top, as in the status byte; the widths in the code's masks scale with it.

* `cpu` (bytes of five bits, five operand bytes, two instructions from states with all flags clear
  or set): the first instruction leaves a packing of its own kind, the second uses it, so
  that every producer meets every consumer.  `RunsLikeA6502` is the refinement.  The operands
  have pages inside and outside the register range, an index that crosses into and out of
  it, offsets forwards and backwards over a page, and the program counter starts beside the
  end of memory.  With one instruction instead of two, all 32 operand bytes were tried too.

The model is of the untraced run.  In `run_trace` the macro that writes evaluates its data
twice, and a read-modify-write has its read there: a script that traces makes `INC $2007`
read twice.

### PpuScroll

The lazy state is the code's (`vram_addr`, `frame_phase`, `scanline_time`, `hblank_time`,
`scanline_count`, `next_bg_time`), a record passed through operators named for the
functions, and `next_sprites_time`: `render_until` (`RenderUntil`) draws the background and then the sprites as
far, and after that does nothing until the next line.  A `$2000` or `$2001` write that changes a bit of the
sprites asks `render_until` and nobody else, so a load, line or blank that is due may stay undone when the
nametable or the background bit changes.  Sprite memory, DMA and bank switches catch up and change no address
(`OtherAccess`), but they use up the turn.

Beside the lazy state run ghosts: `live`, the address of a PPU on time, and `begun`, the
addresses of lines it has begun.  `exact` says that since the address was loaded no access has used or changed it, or
what it moves by, where the code had not caught up.  A `$2007` write that finds something due ends it
(`cpu_write_2007` never catches up), and so does a `$2000` or `$2001` write whose `render_until` had no turn, or a `$2007`
access or background switch that finds the column off between a line and its blank.  A frame that loads the
address with the background on begins anew.

* `ppu_scroll` (2 columns, 4 rows of which 3 visible, 4 fine lines, 3 lines of 4 clocks, three
  accesses a run; scrolls whose second line is in the next nametable, or whose third wraps in the rows out of sight; `$2000` selects
  the far nametable, `$2006` one or the other): `LinesRight`: a line drawn late, in a batch, is drawn from the
  address it began with; `VerticalRight`: the vertical position is that of a PPU on time; `RisesClocked`: the
  mapper hears every rise of bit 12 in that PPU's address.  These three are said while `exact` holds, and
  `LinesRight` not of a frame's first line when an access fell between the dot and that line (`FirstMissed`: the code then waits for
  the first blank).  `EveryLine`, the batches add up to the picture, is said of all
  runs.  Three accesses are enough for one that sets a scroll, one that disturbs and one that
  observes.

So a script of writes that the properties leave out is this: `$2001` from `$1E` to `$00` before the blank of a line, and from
`$00` to `$1E` after it and before the next.  The first write uses up the turn, the second leaves the blank undone, and
the blank is made later with the background on: the address moves down a line it should not.

`Nes_Mapper.h:78` says that `a12_clocked` is "called when bit 12 … changes from 0 to 1";
`write_2007` returns the bits that changed, so a `$2007` write that carries out of the
bit, a fall, is reported too.  The model has the code's behaviour, and `RisesClocked`
claims the one direction that holds.

Fairness is `WF_vars(Tick \/ NextFrame)`: time passes whatever the program does; no access
is forced.

### SpriteHit

Bit 6 of `$2002`.  `ppu` has what the code keeps of the search: the lines drawn, the pixel found, the time
before which polls are answered without a look.  `CheckSpriteHit` is the search in a
chunk of lines, `UpdateSpriteHit` the drawing ahead of time that a poll may cause, `ReadStatus` the three
ways a poll is answered.  Background and sprite are sets of opaque pixels.

* `sprite_hit` (five lines of five pixels, sprites of two by two, four pictures, seven sprites, one write a frame, the
  frame at every third of a cycle): `HitOnTime`: in the frames named below a poll sees the hit from its pixel's clock on, not before and not a
  clock after, whatever was polled and drawn before, with a picture asked for or not.  Sprites of two rows
  can be cut by a chunk, and lie on the lines at both ends and in the middle.

`Searchable` and `steady` limit it, in the run and in the theorem, to sprites that are not flipped and whose tile is followed by
a blank one, and to frames in which neither the sprite nor `$2001` changes after the first line or poll; beyond these it does
not hold.  A flipped sprite is tested, in a chunk that begins inside it, with
the wrong rows, and the first opaque line is taken from the sprite as it is not flipped; a chunk that begins
below the sprite tests it with the rows after its tile in the cache; and after a change of sprite or `$2001` in
mid-picture polls are skipped up to a time that belonged to the earlier one.

### PpuMemory

Pattern pages and nametables hold one value each; a cartridge has ROM or RAM pages, a
mirroring and a mapper kind (none, MMC1, MMC3, MMC5).  The cache is `tiles`, with
`marked` and the flag `any_tiles_modified`; `DrawScanlines` decodes what is marked
and draws.  `SaveState`, `LoadState`, `Reset` and `Open` are whole, and so is the order: the
PPU's part first, the mapper's last.

* `ppu_memory` (NROM with RAM, MMC1 with three pages of ROM, NROM with four screens; two
  writes; a state is loaded into any cartridge, as in the code): `CacheCurrent`: a page whose tiles are out of date is marked and the flag is up;
  `DrawnRight`: what is drawn from is decoded from the pages then mapped; `RoundTrip`:
  loading what was saved from the same cartridge brings all memory back.

`RoundTrip` is checked for boards whose states can be saved whole.  It is false of four screens
with CHR RAM, for which an assertion of `save_state` fails (`Nes_Ppu_Impl.cpp:188`), and of MMC5,
which can use the extra nametables without the fourth screen `save_state` looks for.  MMC3 with CHR RAM can
switch its banks, which `set_chr_bank` asks about in a comment; then `$2007` reads what is mapped and
writes what is not.

## 3. Where the code differs from what is said of it

Found while modelling.  The first is a run that TLC refutes; the others are left out of a
property by a named condition, or the code's behaviour is simply what the model has.

* A loaded state leaves the sound unit's times as they were (`apu_state.cpp:121`; `Nes_Apu.h:79`): run `apu_missed`.
* `memory.registerexec` of length *n* hooks *n* − 1 addresses, and of the default length none (`memory.cpp:72`; the
  comment is at `:31`).
* `README.md:35` says that an archive closes when the program ends; at a script error it does not
  (`nesl.cpp:189`).
* A `$2001` write that changes sprite and background bits together may leave what was due for after the change
  (`Nes_Ppu.cpp:511`, where `:514` gives the reason to draw first).
* A hook on writes is never called: a write looks in the exec table (`Nes_CpuRun.h:20`).
* A traced CPU forgets the IRQ time at every instruction (`Nes_CpuRun.h:14`; `Nes_Cpu.h:53`): after CLI a due
  IRQ comes at the next event.  It also evaluates what it writes twice: `INC $2007` reads twice.
* An archive that fails to open stays set (`screenshots.cpp:243`); a screenshot's path without a dot crashes the frame it
  is taken in (`screenshots.cpp:101`), and a failed call of `gui.savescreenshotas` may ask for one (`:233`).
* Without a rom `emu.frameadvance`, the resets and states crash, though `README.md:13` allows to start without one.
* A `loadrom` that fails after the file was read has already removed the cartridge (`Nes_Emu.cpp:186`).
* `Nes_Mapper.h:78` says that `a12_clocked` is called when the bit rises; a fall by a `$2007` write is reported too.
* The boards, timers, sprite hits and PPU states listed with their modules above.
* Not modelled, but read: a rom of exactly 10 MB is terminated one byte past its buffer (`nesl.cpp:74`, `:81`); `rom.cpp`
  compares addresses with the length off by one (lines 5, 13, 24); the ninth read of `$4016` gives 0, on
  the console 1; `mmc24_enabled` is never cleared (`Nes_Ppu_Impl.cpp:145`), and the latches of MMC2 and MMC4 are neither
  saved nor reset.

## 4. Proofs

TLAPS proves the following for every value of the constants that satisfies the named
assumptions (`SizeAssumption` and so on, in the modules).  Each proof is an inductive invariant
(`IInv`), checked by TLC on the module's run before it was proved, and what follows from it.

* `ScriptProofs`, about `MemoryHooks`: type correctness, `TracingIffHooked`, `EntriesNameHooks`,
  `CountsExact`, that the totals count the entries, and `CallsWhatWasAsked`.
  The heart of the third is a lemma on cardinalities: assigning a hook to a range adds to the nonzero
  entries of a row those of the range that were zero.  For the last, until a slot was freed the slots
  are as many as the hooks, so the number a hook gets is the reference its callback gets (`SlotsFollowHooks`); and each
  entry of the exec table leads to the callback asked for (`EntriesLead`), but where the ranges differ.
  The tables and the frame loop stand in one module, for which the tables' specification is
  `HooksSpec` and its invariant `HooksIInv`; neither's proofs use the other.
* `ScriptProofs`, about `FrameLoop`: type correctness, `RequestKept`, `PixelsOnlyForShots`, `ResetsAgree`, for
  any depth of re-entry.  `IInv` adds what the stack says: a frame in progress with a
  screenshot has the pixels attached, a saved frame count agrees with its dead frames
  (`SavedAgrees`), which a loaded state needs, and while a soft reset's frame runs on top the machine
  is one just reset (`SoftResets`), whatever its memory hooks do.  `SessionIsFrameLoop`: a session's specification implies the
  frame loop's, so all of that holds of a session (`SessionKeeps`).  About the session itself,
  `CrashesOnlyAfterErrors`, from an invariant that adds that a machine without
  a cartridge means that no rom was ever in or an error was caught, and an archive that could not be opened that
  one was caught (`Excused`).
* `PpuProofs`, about `PpuScroll`: `LinesRight`, `VerticalRight`, `EveryLine`, `RisesClocked`, for name tables, lines and
  frames of any size.  The invariant is one relation between the lazy state and the ghosts (`Good`): the lazy
  state has one of four shapes (before the picture; waiting for its first blank; between a blank and a line;
  between a line and its blank), what it did was due (`InTime`), and the address of the PPU on time is its own, loaded
  if the load has come and moved down by the blanks since (`LiveIs`), as are those of the lines begun
  (`LinesOf`).  `Below` moves down by a batch in closed form, and `BelowIs` shows that *n* + 1 lines down is
  a line further than *n* (`CarryIs` counts the wraps of fine y and of the visible rows).  So catching
  up at any time gives the address on time and draws the lines begun (`CatchesUp`, from one lemma for each of the
  loads, blanks and batches that may be due), a clock that passes keeps the relation (`ClockIs`), and an access
  that catches up starts afresh (`Accessed`).  One that does not, and changes what the address depends on, leaves the shape
  and the number of lines owed, and `exact` false (`Unknown`): of the address itself nothing is proved from there to
  the next load.  The proof needs a row out of sight, `Visible < Rows`, as
  the name tables have (30 of 32): with none TLC finds `VerticalRight` violated.
* `PpuProofs`, about `PpuMemory`: type correctness, `CacheCurrent`, `DrawnRight`, for any cartridges and
  pages.  `CacheCurrent` is inductive with the type invariant; `DrawnRight` is an action
  property that follows from it.  The two halves stand in one module, for which those of `PpuMemory`'s names that
  `PpuScroll` has too are `MemorySpec`, `ReadMemory` and so on; neither half's proofs use the other.
* `EmulateFrameProofs`: type correctness, `ThreeExtraSuffice`, `NmiNotTwice`, and the refinement
  `TakenByRule`.  Each extra pass takes a quarter of a frame at most (`ClockBounds`), so that three of them
  end before the next blank; `RunInv` relates the cached limit to the flag, the IRQ time and the
  end of the run, with the three ways in which the IRQ time may differ from the interrupt's.  There is a lemma
  for every action: it keeps the invariant, and is a step of the rule or leaves the rule alone.
* `Mmc3Proofs`: type correctness, `PredictionExact`, `CpuToldInTime`, and the refinement
  `LazyIsScanline`.  `Passed(t)` counts the lines behind at a time, which makes the loop of `run_until` a
  number of clocks; clocking *k* lines goes on from any registers it has reached, commutes with one more clock,
  and raises the flag after just the lines `next_irq` computes.
* `CycleIrqProofs`: type correctness, `TimerExact`, `TimerToldInTime`.  A timer run some cycles ago `Follows` the
  one that counted every cycle; one cycle keeps this, for each chip, so any number does.
* `BoardsProofs`: type correctness, `MapFollowsRegisters`, `LoadRestores`, for 18 boards.  The invariant does not
  compare the map with what `apply_mapping` makes of it, but with a description of each part in terms of the
  registers alone (`Follows`).  Every write keeps it, updating what it updates; `apply_mapping` makes it of the
  map at power up and of one that has it already, which is what a load's second application needs; and two maps that follow the
  same registers look the same.

* `ApuProofs`: type correctness, `NeverSpurious`, `NeverMissed`, `LoadRestores`, `LazyIsCycleByCycle`.  Bits that end one by one are a
  number of them (`BitRunIs`), and so are the turns of `run_until_`'s loop (`FrameRunIs`): running the unit to a time ends the
  sample iff `SampleEnd` has come and raises the frame flag iff `FrameTime` has (`RunUntil_Right`).  The invariant
  says that the DMC's prediction is exact, that `earliest_irq_` is no earlier than an
  interrupt (`Sound`) and early enough for each (`Announced`), and how long ago one came up when the line has been up
  `waited` cycles (`Since`).  There is a lemma for what each register write, `run`, `end_frame`, reset and load
  keep of it.  That running at once is running cycle by cycle (`RunIsCycles`, for any unit that keeps the
  invariant and any later time) goes by induction on the time: run to a cycle more, the unit is one `Cycle` on
  (`RunNext`).  For the DMC this is `DmcNext`: a bit more or none is over (`BitsNext`), and the jump over a silent
  stretch counts the same bits (`SilentBits`).  For the frame counter the two loops of `run_until_` are followed turn by
  turn: an event at the last cycle falls to the later run alone (`Ahead`, `AheadTurn`).
* `SpriteHitProofs`: `HitOnTime`, for any screen, pictures, sprites and times.  The invariant says what the state of
  the search means: the pixel found is the first that sprite and background share, none found yet means that none is on
  a line drawn, and -1 that there is none (`FoundRight`); a flag that is up has its pixel behind it, and one that is
  down stays right until the next check (`FlagRight`).  `HitsAreShared` shows that a search of a chunk of lines meets
  just what is shared there, wherever the chunk begins, and `DrawRight` that chunks follow on each other, with the
  picture drawn or not; `NeededReaches`, that a look draws far enough for every hit that may be due; `JudgeRight` and
  `UpdateRight`, that it leaves the next check no later than a hit; `ReadRight`, that so the polls answered without a look
  are right.  Only `Searchable` sprites in `steady` frames come into it, as in the property, but the types, and
  that a check is later than 0 once the frame's flag is read, hold of all, which is what a write to a sprite or to
  `$2001` before the first line needs.

Theorems by induction on a number of lines, cycles, bits or registers go through two lemmas, `Least` and `Induction`, which
state induction for a set of numbers, so that they can be cited for any formula.

Only model-checked: liveness (`FramesEnd`) and everything that rests on
`ENABLED`, which the prover does not handle; `RoundTrip` of `PpuMemory`, which is false of boards
outside the run's `Carts`; and `Cpu` with its refinement, whose bitwise operations are sums over sets of bits
(`Bytes`), so that each instruction would need an induction over the bits of a byte.

## 5. Limits of the models

* Memory hooks do not re-enter the emulator from the middle of an instruction.  The code
  lets them (and `savestate.load` there leaves `addr_inc` and CPU locals stale); `FrameLoop` lets
  them do everything else.
* DMC reads steal cycles in the console; the emulator's wait states are left out, and slices
  of the CPU end anywhere instead.
* Rendering up to two lines ahead for sprite 0 is in `SpriteHit` and left out of `PpuScroll`; the
  latches of MMC2 and MMC4 and sprite memory are left out of `PpuMemory`.
* Loading a state object that nothing was saved to reads flags nobody set; the model loads
  only what was saved.
* No allocation fails, in `FrameLoop` and `Session` too, and errors of writing that the code does not look at are none.
* `Session` has no errors a script does not notice: a call that fails and is not caught is `ScriptError`,
  one that is caught leaves `caught`.  Of a run in which SIGINT hit an access to the archive it
  says only that it may go on or crash.

Not modelled, and why: MMC5, which has two counters, an extra RAM and its own name tables, is
planned.  States as files, Game Genie codes, the NTSC filter and everything behind a sound
output are not reached from `main`.  Lua, microtar and stb_image_write, half of the repository's
lines, are third-party.  What draws pixels is arithmetic on layout, with no state but the picture.

## 6. Plan

Done: hooks, MMC3 with its states, frame loop, sound unit, CPU loop, PPU addresses, PPU memory, CPU
instructions, the archive and the ways out, boards and their states, cycle timers, sprite hit.
Next:

1. Proofs: type correctness of `Cpu`.
2. `Joypad`: buttons from `joypad.set` through the hooks to the `$4016` shift registers.
3. `RomLoad`: `loadRomFile` to `load_ines` step by step, beyond the success or failure that
   `Session` has.
4. `Latches`: MMC2 and MMC4 tile latches across frames, states and cartridges; MMC5.
5. A composition of `EmulateFrame` with `Mmc3`, `CycleIrq` and `Apu` as sources, in place of the
   assumed `irqDue`.
