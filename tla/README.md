# A TLA+ verification of the Arqui_TPE kernel

Arqui_TPE is a 64-bit kernel for a course on computer architecture: a keyboard,
screen, speaker and clock driver, an `int 0x80` system call layer, two exception
handlers, and one user program, a shell with a ball game called Pongis. It runs
on one processor, in one address space and with one stack. There are no
processes: all concurrency is between code and the interrupts that may fall
between its instructions. What the kernel and the game draw, how the game's
state follows from frame to frame, how a program is packed and started, and what
the disk tool does to an image, are sequential, and hard for other reasons:
long histories, limits, and state that is kept where one would compute it anew.

File names below are relative to the repository's root; `src/` is omitted.

## 1. Inventory

| Component | State | Operations | Talks to |
|---|---|---|---|
| Keyboard ring buffer, `Kernel/keyboardDriver.c` | `buf`, `head`, `tail` | store (tail of `kbd_get_key`), `kbd_has_char`, `kbd_get_char`, `kbd_reset_buff` | filled by IRQ1, emptied by system calls |
| Scan code decoder, same file | `shift`, `caps`, `extended`, `key_state`, two constant tables | `kbd_get_key`, `kbd_is_key_down` | called by `irqDispatcher`, reads `pressedKey` |
| Register snapshot, same file and `Kernel/asm/interrupts.asm` | `reg_array`, `escPressedFlag`, `registers_formatted`, `buff_reg` | `saveRegisters`, `format_registers`, `copy_regs` | written by the ESC interrupt and by exceptions, read by `SYS_REGS` and by the exception handlers |
| Interrupt entry, `Kernel/asm/interrupts.asm`, `irqDispatcher.c` | the stack, `aux`, `pressedKey` | `_irq00Handler`, `_irq01Handler`, `_int80Handler`, `_exception0Handler`, `_exception6Handler` | everything |
| Descriptor table, `Kernel/idtLoader.c` | the IDT, the PIC masks | `load_idt` | run once before the user program |
| System call dispatcher, `Kernel/sysCallDispatcher.c` | none | `sysCallDispatcher`, `sys_read`, `sys_write` | every driver |
| Exceptions, `Kernel/exceptionDispatcher.c` | none | `zero_division`, `invalid_opcode` | screen, snapshot; then the user program starts again |
| Timer, `Kernel/time.c` | `ticks` | `timer_handler`, `sleep` | IRQ0, the speaker |
| Speaker, `Kernel/soundDriver.c` | PIT channel 2, bits 0 and 1 of port 0x61 | `beep` (`play_sound` has no caller) | the timer |
| Clock, `Kernel/time_display.c`, `asm/time.asm` | the static string | `getTime`, `read_RTC` | the RTC, the screen |
| Screen, `Kernel/videoDriver.c` | cursor, zoom, colours, the frame buffer | characters, scroll, zoom, cursor, rectangle, circle, pixel | system calls, exceptions |
| Boot and packer, `Kernel/kernel.c`, `moduleLoader.c`, `Toolchain/ModulePacker`, `Userland/_loader.c` | the packed image, memory, two BSSs | `checkFiles`, `buildImage`, `loadModules`, `clearBSS`, `_start` | the packer runs at build time, the rest once; `_start` again after an exception |
| Shell, `Userland/shell.c`, `commands.c`, `_loader.c` | the command line, `first_run`, the zoom to go back to | read a line, dispatch it, nine commands, screens that wait for `c` | system calls, the game |
| User library, `Userland/libc.c`, `asm/libasm.asm` | none | system call stubs, strings, numbers, waits | the kernel |
| Pongis, `Userland/pongis/` | the game state, phase, level, display flags, the bodies | menu, input, physics, rendering | system calls |
| Game mathematics, `Userland/pongis/math.c` | none | `sqrtf`, `int_sqrt`, `roundf` | the game |
| BMFS, `Bootloader/BMFS/bmfs.c` | the disk image: marker, directory, blocks | list, format, initialize, create, read, write, delete | the host's files; `initialize` makes the image of the system |
| Pure64, under `Bootloader/` | the boot state | reads the image to memory | vendored |

What is hard about it:

- *Interleaving.* Gates are interrupt gates, so a handler and a system call run
  with interrupts disabled, until one of them executes `sti`. `sys_read`,
  `sleep` and the exception handlers do, and from then on share `head`, `tail`,
  `ticks`, `reg_array` and `rax` with the handlers.
- *Lost wake-ups.* `while (!ready) { sti; hlt; }` can stop the processor on an
  event that has just happened.
- *Limits.* The ring buffer wraps and overruns; `ticks` wraps; the PIT takes
  sixteen bits; the clock has midnight and a time zone.
- *Sequences.* Scan codes arrive a byte at a time, with prefixes, repeats and
  two shift keys; an exception abandons its stack and starts the program again;
  the console keeps a cursor through changes of zoom; the directory of a disk is
  what all creations and deletions left.
- *Repair instead of redrawing.* A frame of the game erases what moved and
  repairs what that damaged; flags remember what is on the screen.
- *Crashes.* The disk tool may be killed between two writes, or fail in one of
  the dozen steps of `initialize`; `first_run` and the zoom survive an exception.

What makes each component correct:

- buffer: a FIFO that never blocks and drops its oldest character when full;
- decoder: agrees with the keyboard about which keys are down, and types what
  was meant when the key was pressed;
- reads: no zero byte, no lost wake-up, no wait after `SYS_KEY_READY` said yes;
- entry code: registers, stack and arguments survive every nesting;
- snapshot: `regs` shows the latest one, an exception shows its own;
- beep and sleep: the right tone, the right length, always an end;
- clock: a time that was, in the right zone;
- console: a grid of characters, pixel by pixel; writing keeps the cursor on the
  screen; shapes end where the screen does;
- screens: every text is in its line and on the screen, from every zoom;
- boot: each module arrives whole at its address before BSS is cleared over it;
- shell: the command that runs is the line as typed and corrected; the prompt comes
  back, with the user's zoom;
- game: phases, levels, flags and screen agree; keys answer what they were typed
  at; bodies do not pass through each other; the field shows where they are;
- disk tool: files keep apart and are not lost, read back what was written, and a
  success hides no failure but those the code cannot see.

## 2. The modules

| Module | Models | Checked by | Proved in |
|---|---|---|---|
| `LossyQueue` | what the buffer promises, abstractly | `MCKernel` | `KeyboardBuffer_proofs` |
| `KeyboardBuffer` | the ring buffer, implements `LossyQueue` | `MCKernel` | `KeyboardBuffer_proofs` |
| `KeyTables` | the two scan code tables, whole | | |
| `Keyboard` | `kbd_get_key`, over `KeyboardBuffer` | `MCKeyboard` | `Keyboard_proofs` |
| `SysRead` | `sys_read`, one memory access at a time, over `KeyboardBuffer` | `MCSysRead` | `SysRead_proofs` |
| `Context` | the entry and exit code of `interrupts.asm` | `MCKernel`, `MCContext` | `Kernel_proofs` |
| `RegisterDump` | snapshot, `SYS_REGS`, exception handlers | `MCKernel`, `MCRegisterDump` | `Kernel_proofs` |
| `Beep` | `beep`, `sleep`, `timer_handler` | `MCKernel`, `MCBeep` | `Kernel_proofs` |
| `Clock` | `getTime` | `MCKernel`, `MCClock` | `Kernel_proofs` |
| `TextGrid` | what the console promises at one zoom, abstractly | | |
| `Console` | `vd_put_char` and all it draws, zoom, cursor, clear; implements `TextGrid` | `MCDisplay` | `Display_proofs` |
| `Shapes` | rectangles, circles and `SYS_PUT_PIXEL` | `MCDisplay` | `Display_proofs` |
| `Screens` | the screens of the shell and the game, over `Console` | `MCDisplay` | `Display_proofs` |
| `Shell` | the user program: line, commands, restart | `MCPrograms` | `Programs_proofs` |
| `Levels` | the table of levels, and when a level can be played | `MCPrograms` | `Programs_proofs` |
| `Pongis` | menu, phases, flags, keys, over `Levels` | `MCPrograms` | `Programs_proofs` |
| `Physics` | a frame of the bodies, over `Levels` | `MCPrograms`, `MCPhysics` | `Programs_proofs` |
| `Field` | the picture of a frame | `MCPrograms` | `Programs_proofs` |
| `Bmfs` | the disk tool | `MCImages`, `MCBmfs` | `Bmfs_proofs` |
| `BootImage` | packer, loader, start of the program | `MCImages` | `BootImage_proofs` |

`Keyboard` and `SysRead` both extend `KeyboardBuffer`: the first puts the decoder
in front of the buffer and takes characters out in one step, the second takes
the reading side apart and lets scan codes that store a given character, or
none, arrive. `Context` says what registers and snapshot hold when a handler
returns, `RegisterDump` what happens to the snapshot afterwards. `Screens` runs
its scripts on the cursor of `Console`, with its operators for every character.
`Pongis` leaves to a choice who touches the ball in a frame and whether it falls
in the hole; `Physics` says where the bodies go, `Field` what is drawn of them.
`MCKernel` instantiates `Context`, `Beep` and `Clock` with constants of its own,
given values in the configuration, so that the theorems about the three hold for
every value.

How the parts correspond to the code:

- **KeyboardBuffer.** `buf`, `head`, `tail` are the static variables; `got` is
  the result of the last `kbd_get_char`. `StoreChar` is the end of `kbd_get_key`
  with the drop of the oldest character; `GetCharEmpty` and `GetChar` are the two
  ways through `kbd_get_char`; `ResetBuff` is `kbd_reset_buff`.
- **Keyboard.** One action per way through `kbd_get_key`; their disjunction has
  its name. `Irq1` reads one byte and runs it; the snapshot the ESC interrupt also
  takes is in `Context` and `RegisterDump`. The physical keyboard is `Press`,
  `Release` and the queue `wire`: set 1 codes, a make code repeated while a key
  is held, 0xE0 before extended keys, bytes kept in order. `held`, `rolled`,
  `capsOn` and the sets carried on the wire only record what the user did.
- **SysRead.** `pc` names the next memory access of `sys_read`, `kbd_has_char` or
  `kbd_get_char`; `hreg`, `treg` and `creg` are the registers that hold what was
  loaded. `head` and `tail` are volatile, so each mention of them is one access.
  `iflag` is the interrupt flag; `Irq0` and `Irq1` run whole handlers.
- **Context.** A register value is a tag that names its owner. The macros are
  operators on registers and stack, in the order of the source; the six moves of
  `_int80Handler` are a chain, each on the registers the one before left. Handlers
  of the two IRQs run with interrupts disabled and are one action each. The exits of
  a system call and of an exception may run with interrupts enabled and go one
  instruction at a time: `StoreResult`, fifteen `RestoreRegister`, `ReloadResult`;
  fifteen `UnwindRegister`, which take the processor's frame and ten words of the
  program's, and the seven instructions of `FrameCode`. `iretq` takes whatever five
  words it finds, and `pc` is "lost" if they are not a frame. `expected` is what the
  running code counts on; `tainted` follows an `rax` that an ESC interrupt changed,
  into `aux` and the frame.
- **RegisterDump.** A snapshot is its number. `SysRegs` is `copy_regs` with
  interrupts disabled, `StartDump`, `FormatEntry`, `EndFormat` and `PrintDump`
  are the same routine in an exception handler, where ESC may come at each load
  of `reg_array`.
- **Beep.** `test`, `hlt`, `halted` are the places of `sleep`'s loop. `elapsed`
  counts timer pulses since the call. With interrupts enabled a pending one is
  taken before the next instruction.
- **Clock.** `now` is the RTC; its registers are read in BCD.
- **Console.** `console` is the cursor, the zoom and the frame buffer, by offset:
  the frame buffer is linear, so what is drawn past the right edge is at the left
  of the next line of pixels. `vd_put_char` is one operator, the composition of
  its erase or move, its glyph, its wrap and its scroll, in that order; `Write`
  is a character of `SYS_WRITE`, which runs with interrupts disabled.
- **Shapes.** `painted` is what the last call wrote, as offsets.
- **Screens.** A screen is a sequence of calls with the arguments the source
  computes from the mode; a text is written a character at a time. `Script` is
  which screen is opened, `StartZooms` from which zooms the program can open it.
  `top` follows the scrolls, so it says where the first line went.
- **Shell.** `command` and `len` are the buffer and the index of `shell`, `line` is
  what was typed, less what was taken back; what the screen shows of it is the
  matter of `Console`. `ReadLetter`, `ReadBackspace` and `ReadEnd` are the ways round its loop. Each
  command is an action; an exception leads to `Start`, which is `_start` with
  the head of `shell`: BSS is cleared, `first_run` is in `.data` and is not.
  `UntilC` and `Wake` are `hltUntil_c`.
- **Pongis.** `pc` goes through a frame in the order of the loop of `pongis`:
  input, physics, draining of the keys, rendering, wait. A key carries, as
  history, the picture it was typed at. `Garbage` is what the stack holds where
  `state` is not initialised.
- **Physics.** The bodies are on one horizontal line, where every operation of the
  code keeps them: a normal with `dy = 0` has `ny = 0`. `update_physics` applies
  its parts in the order of the source; velocities are any the limits allow,
  since what accelerations and bounces make of them is left out. Floats are fixed
  point with 500 to the pixel. Compared with the floats of the code over every
  distance of the game, a rounded push differs by a pixel at six: a player and
  the ball at 9, 11 and 13, an obstacle at 21 and 34 of 75, and at 21 of 85.
- **Field.** `pixels` is the field's part of the screen; a frame is a sequence of
  circles, each over the ones before, in the order of `render_playing`.
- **Bmfs.** `job` is the command that runs; each write to the image is a step, and
  `Killed` may fall between two. `Create` is `create` with its copy, its sort and its
  search. A block holds the file that was written and one of `Contents`, so that two
  writes of one file are told apart: `write` copies over the old data in place, and
  `wrote` records what the last finished one put there and whether one was cut short
  since. In `initialize` every call may fail, `job.err` is the error indicator of the
  image's stream, and `job.missed` records the failures whose result is thrown away:
  the writes of `format`, an MBR still in the stream's buffer, the rest of the zeros
  at `rewind`, a file that cannot be read, the flush in `fclose`.
- **BootImage.** A file is a sequence of cells that name where they come from, so
  "byte for byte" is equality. `write_file` is a turn of its loop; `Boot` is what
  Pure64 does, seen from the kernel; addresses are relative to the kernel's.

## 3. What the runs show

Parts that share no state are checked in one run: `subject`, chosen at the start,
is the one that runs, the others rest, and the state spaces add.

| Run | Result |
|---|---|
| `keyboard` | with no byte on the way, the driver agrees with the keyboard about keys, shift, Caps Lock and prefix (`DriverAgreesWithKeyboard`); each byte types what was meant, or nothing (`TypesWhatWasMeant`) |
| `sys_read` | a read returns no zero byte (`NeverReadsNul`), does not wait after a yes from `SYS_KEY_READY` (`NoWaitAfterReady`), takes characters out as the queue does (`ReadsAreQueueSteps`), and gets a waiting character in the end (`WaitingCharIsRead`) |
| `kernel` | the buffer implements the lossy queue (`BufferIsLossyQueue`, `BufInv`); interrupted between any two instructions, code keeps its registers but for an `rax` that met an ESC, and its stack (`CodeGoesOn`), the chain of moves loses no argument (`ArgumentsArrive`), snapshots are exact; `regs` shows the latest snapshot and an exception nothing older than itself; a beep has its tone, its length to a tick (`BeepsAsAsked`) and an end; the time shown is the zone's without an update among the reads, and never before the call with one (`ShownTimeIsRight`) |
| `display` | the pixels show a text grid (`PixelsShowTextGrid`, the refinement of `TextGrid`); writing keeps the cursor on the screen at every zoom, and one glyph brings it back from where a zoom or a program left it; shapes end at the edges; every screen's text is in its line and on the screen (`TextsAreSeen`) and clear of its pictures (`PicturesAreWhole`) |
| `programs` | shell: what is compared with the commands is the line as typed and corrected, whatever the buffer held before (`DispatchSeesTheLine`), the zoom and the welcome are right at every prompt (`PromptIsAsLeft`), every screen is left with `c` and every exception comes back (`BackToPrompt`). Game: screen, phase, level and count agree (`FrameShowsPhase`), the winner named is the one who touched last, keys answer what they were typed at, `c` ends the game from every phase (`QuitWorks`), a ball in the hole is announced. Bodies: nobody passes through a player or an obstacle, and the ball stays in sight and is not carried over a hole; every pixel of the field shows what is on top there (`FieldShowsBodies`) |
| `images` | a file reads back what its last finished write put there, and behind an overwrite that was killed halfway blocks of the two writes but of no other file (`ReadsWhatWasWritten`); a success of `initialize` means marker and system files are there, but for the failures it cannot see, which the property names (`SuccessMeansComplete`), and the size is the one asked for; a file is created in free blocks, and none is lost, if no deleted entry is left (`CreatesInFreeBlocks`); the program starts with every module and both BSSs in place (`ProgramStartsAsBuilt`) |
| `context_esc` | **violated**: code interrupted by ESC goes on with SS in `rax` |
| `register_dump_esc` | **violated**: ESC during an exception's dump replaces the registers it shows |
| `beep_seconds` | **violated**: `sleep` counts ticks, its comment says seconds |
| `clock_torn` | **violated**: an update between two reads shows a time that never was |
| `bmfs_share` | **violated**: with a deleted entry in the directory, a file is created over another |
| `physics_push` | **violated**: a ball 27 of 30 pixels from a player is pushed by 2 and not by 3, and still overlaps it: six Newton steps make 27.48 of the root of 729 |

The violated properties say what a comment or a document says; the property
quotes it and `PROJECT.json` names the place.

Observations met while modelling, that no run is spent on:

- *An overrun inside `kbd_get_char`.* If the buffer overruns between the load of
  `buf[tail]` and the second load of `tail`, the character returned is one the
  overrun has dropped, and the one after it is skipped. With 128 cells this
  takes 127 unread characters and the next key within a few instructions.
  `ReadsAreQueueSteps` sets it apart with `raced`.
- *Two shift keys.* With both held, releasing one clears the single flag.
  `Keyboard` accepts either reading until both are up, and shows that nothing
  is left over then.
- *Backspace at the left margin.* The comment of `Kernel/videoDriver.c:112` moves
  to the end of the previous line. The cursor is put one cell beyond it, where
  the wrap test sends it back to where it was; the space drawn there blanks the
  start of two lines of text. `TextGrid` has this as `Smudge`.
- *`vd_set_cursor` takes pixels*, its header (`videoDriver.h:57-59`) says cells.
- *A larger zoom near the bottom.* `vd_set_zoom` scrolls by the old cell before it
  sets the new one, so the first glyph is partly drawn below the screen; the
  character after it scrolls (`OneGlyphBringsCursorBack`).
- *The border is cut in some modes.* `draw_welcome` draws a dot of 64 pixels at every
  multiple of 128 up to the right edge, with no test of its end: where the width is 1
  to 63 above such a multiple (1680, for one) the last dot is cut. At 1024 it is not.
- *`wait_next_tick` returns on any interrupt*, a key's included, where
  `libc.h:52` says "block until next timer IRQ (60 fps target)". `Wake` lets it.
- *The number given to `zoom` wraps*: 4294967299 sets the zoom to 3, where the
  user manual, section 3.7, says other values than 1 to 10 are ignored. `Wrapped`
  has the wrap; `PromptIsAsLeft` is checked with numbers that fit.
- *ESC while an exception's exit builds its frame* (`Kernel/asm/interrupts.asm:100-105`).
  Interrupts are enabled there. Between the load of `rax` with the stack base or the
  address of the program and its push, the handler leaves SS in `rax`, and `iretq`
  goes to a wrong stack or a wrong address. `Context` reaches the place "lost", and
  `StackBalanced` allows it for this reason only. An ESC anywhere else in the exit
  does no harm.
- *A full directory* (`Bootloader/BMFS/bmfs.c:698-704`). With no entry free but a
  deleted first one, `create` takes that one, believes it to be the end of the
  directory (`num_used_entries` is still 0) and marks the second as the end: every
  file behind it is lost. `sound` goes false there; `CreatesInFreeBlocks` says that it
  does not without a deleted entry.
- *`initialize` reports success though something is missing*: the marker, if its write
  failed (`bmfs.c:264` is not checked) and no loader is given, since only the loops
  over loader and kernel ask `ferror(disk)`; a loader or kernel that could not be
  read, since they ask it of the wrong stream (`bmfs.c:522`, `550`); whatever was
  still in the stream's buffer when `fclose` failed (`bmfs.c:575`). So does `format`,
  which reports nothing. The end of the zeros may be lost at `rewind`, which clears
  the error: the image is then short.
- *An overwrite is in place* (`bmfs.c:782-791`): killed halfway it leaves a file of the
  old size with blocks of both writes.
- *The last level shows four of its seven obstacles*: its count is taken from the array
  of the level before (`level.c:157`). What remains can be played, which is all that
  `LevelsArePlayable` asks.
- *Two players can squeeze the ball*: pushed by one onto or through the other, it
  leaves on the far side. `KeepsSides` speaks of the ball with one player only.
- *A player can push the ball onto the middle of a small obstacle*, where it has no
  normal and is not put out again. With an obstacle of radius 20, as on level 5, TLC
  reaches it when a player at full speed follows the ball into the obstacle: the
  player's push is applied to a ball that is already some way in. `CourtsAssumption`
  begins at 21, and from there on `ObstaclesLetNobodyThrough` proves that it cannot
  happen.

Every property has a mutant: a definition of the model changed as a plausible
bug would change the code, kept beside the original and marked `Mutant of`. Each
makes its property fail.

### Bounds

| Bound | Value | Why it is enough |
|---|---|---|
| `BufSize` (128 in the code) | 4, 2, 3 | full, overrun and wrap need all cells once; the buffer theorems hold for every size from 2 |
| `Chars` | 3, the tables' own, 2 | the buffer never looks at a character; a read distinguishes the newline |
| `Keys` in `Keyboard` | 6 | one key per way through `kbd_get_key`: a letter, both shifts, Caps Lock, an arrow, and E0 35, whose code alone would print |
| `MaxWire` | 2, 1 | a prefix and its code; in `SysRead` only whether a byte waits matters |
| `MaxBurst` | 1 | keyboard interrupts between two instructions; less than the free cells, as a millisecond per byte against 128 cells justifies |
| `Counts` | 1, 2 | `getChar` asks for one; two exercises the loop |
| `Gens` | 2 | the same code before and after it reloads its registers |
| `Entries` | 3 | first, middle and last turn of the loop over twenty |
| `MaxSnapshots` | 5 | the property compares a snapshot with the previous ones |
| `TickRange` (2^64) | 10 | more than the longest wait, so every wait meets the wrap |
| `Durations` | 50, 150, 400 ms | no tick, a few, and the longest the user programs use |
| `Seconds`, `Minutes` | 12 in `kernel`, 60 in `clock_torn` | both digits of a BCD field change; all 24 hours are there |
| mode, glyph, zooms of the cursor and the screens | the real ones | the screens were also run at 1100 x 768, 1280 x 1024, 1920 x 1080 and 2048 x 2048; their theorems are for every mode from the real one up |
| `Cursors` | the seven the programs set | with every place characters lead to from them |
| `GridWidth`, `GridHeight`, `GlyphWidth`, `GlyphHeight`, `GridZoom` | 5 x 7, 2 x 2, 1 | three lines of two cells, and a column and a line of pixels to spare; the theorem is for every size |
| `GridCursors` | `Corners`: the first cell and the last | a cursor set to and fro across the screen |
| shapes | the real mode, coordinates -4 to 2, 764 to 770 and 1021 to 1026, sizes to 4 | inside, over each edge, and off the screen |
| `MAX_CMD_LENGTH` (256) | 3 | an empty, a full and an overfull line; a longer one behind a shorter |
| `Word` | one or two letters, some the beginning of others | what the comparison can confuse |
| `MaxKeys`, `ShellKeys` | 2, 1 | in the game a key waits behind another, so that the keys left over by a screen are there for the next; the shell reads all alike |
| `MaxTouches` | 2 | the count changes twice: the second is not the first |
| levels | all nine | |
| `Courts`, the scenes of `Physics` | lines of 100 and 190 pixels, real radii and speeds | a body is never further from the next than a frame, a wall is always near; the obstacle is one of level 2's |
| `BallSpeeds`, `PlayerSpeeds` | beyond both limits, and 0 | what the limits cut, and rest |
| `Fields`, the scenes of `Field` | a line of 11 pixels with two players, a field of 7 x 5 with one | every overlap of hole, bodies and obstacle, on and over the edge; radii 1 and 2 |
| `Names`, `Contents`, `DirSize`, `HostBlocks` | 3, 2, 3, 6 | a full directory, a gap between two files, an old and a new content, and a disk of each size from none |
| `TornFiles`, `FormatEntries` | 1, 1 | a file whose overwriting was killed touches no other; a format anew does the same whatever entries it finds, and the failures on its way would be multiplied by all of them |
| `Radix`, `Kilo`, `Modulus` | 3, 4, 64 | products overflow with and without a unit, as those of 64 bits do |
| `BUFFER_SIZE` (128), binaries | 2, 1 to 4 | short of, at, and behind the end of one and two buffers |
| `Alignment`, `BssSize` | 2, 3 | the BSS begins at the payload or one before it, and reaches into the first module |

### Fairness

`SysRead` and `Beep` assume that the processor executes instructions, that the
timer never stops, and that an interrupt that stays pending and enabled is taken:
weak fairness of the kernel's steps, of the timer's pulse and of the two
interrupts. Channel 0 of the PIT free-runs and `load_idt` leaves IRQ0 unmasked.

`Pongis` assumes weak fairness of the program's steps and of the timer, and strong
fairness of `LevelEnds`: the loop that empties the buffer takes microseconds and
keys come milliseconds apart, so it finds the buffer empty at some of the many
times it is. `Shell` assumes weak fairness of the program.

Nobody is obliged to type, to make a call or to release a key.

## 4. What is proved

A run shows a property on the values of its configuration; the theorems below
hold for every value of the constants that satisfies the assumptions named. Each
invariant was checked by TLC on the run's instance before it was proved.

| Module | Theorems (without `Holds`: the property) | For every |
|---|---|---|
| `KeyboardBuffer_proofs` | `BufInvariant`, `BufferImplementsQueue` | buffer size from 2, set of characters |
| `Keyboard_proofs` | `DriverAgreesWithKeyboard`, `TypesWhatWasMeant` | pair of tables, set of keys, number of bytes on the way |
| `SysRead_proofs` | `WaitingCharsAreTyped`, `NeverReadsNul`, `NoWaitAfterReady`, `ReadsAreQueueSteps` | buffer size, burst of interrupts short of a bufferful |
| `Kernel_proofs` | `RegsShowsLatestSnapshot`, `DumpIsNotOlder`, `CodeGoesOn`, `ArgumentsArrive`, `SnapshotIsExact`, `BeepsAsAsked`, `ShownTimeIsRight` | number of entries and of snapshots; depth of nesting; frequency, duration, range of `ticks`; length of a minute and an hour to 60 |
| `Display_proofs` | `CursorInvariant`, `WritingStaysOnScreen`, `OneGlyphBringsCursorBack`, `ShapesAreClipped`, `PixelsShowTextGrid`; `TextsAreSeen`, `PicturesAreWhole` | mode, glyph, range of zooms, cursors but those in the corner; place and size of a shape; for the grid, screen, glyph and zoom; for the screens, mode from 1024 x 768 up, zoom they are opened with, texts of those lengths |
| `Programs_proofs` | `FrameShowsPhase`, `WinnerTouchedLast`, `LevelsArePlayable`, `KeysAnswerWhatWasShown`; `DispatchSeesTheLine`, `PromptIsAsLeft`; `FieldShowsBodies`; `NobodyPassesThrough`, `ObstaclesLetNobodyThrough`, `BallIsNeverLost` | number of keys and touches; length of the line, alphabet, commands, range of zooms; field, hole, obstacles, radii and ways of the bodies; width of the line, number and place of obstacles, speeds |
| `Bmfs_proofs` | `ReadsWhatWasWritten`, `SuccessMeansComplete`, `SizeIsWhatWasAsked`, `CreatesInFreeBlocks` | names, contents, directory size, disk size; size arguments, base, unit and width of their numbers |
| `BootImage_proofs` | `ProgramStartsAsBuilt` | binaries, number of modules to two, packer's buffer, alignment, BSS, memory map |

The arguments, and what had to be added to each property to make it inductive:

- **Ring buffer.** `BufInv` is inductive: without the typed characters nothing
  would say that what `kbd_get_char` takes is one. The refinement sends the cells
  from `tail` up to `head`, modulo `BufSize`, to the queue; a store appends, and
  drops the head first if the buffer was full (`PutContents`), a take drops the
  head (`GetContents`).
- **Decoder.** The driver lags behind the keyboard by the bytes on the wire, so
  nothing about its flags alone is inductive. `WireInv` says that there is a way
  of driver states through those bytes, each storing what its key was pressed
  for, that ends in agreement. A key pressed appends a state, a byte handled takes
  the first away. `RolledInv` says that two shift keys are not down unnoticed.
- **Read.** Each access of a read gets what it can rely on. `TailBehind` bounds
  how far interrupts can push `head` past the value loaded, hence `MaxBurst`
  less than the free cells. An overrun during a read breaks the agreement of
  registers and buffer, but then every cell has been written (`AllTyped`), so
  even the raced character is a typed one.
- **Register dump.** `ArrayInv` has the array always whole, as ESC and exceptions
  run with interrupts disabled. `registers_formatted` is set for the length of one
  copy only, which is why `regs` never shows an older text.
- **Entry code.** `CallInv` gives the stack of a system call at each of its
  instructions: over the program's words (`Base`) the caller's registers in push order,
  less those already popped (`CallStack`), with the result in `aux` meanwhile.
  `popState` undoes `pushState` (`PopUndoesPush`), so an interrupt in between changes
  nothing but `rax` behind an ESC. `ExceptionInv` counts down the fifteen words that
  the exception's exit pops, and then gives the height of the frame before each
  instruction (`Height`), with the words that are there in their places (`FrameInv`);
  `IretqInv` has what `iretq` finds. `ShuffleOrders` takes the chain of moves apart,
  one at a time. The labels of `format_registers` are matched with the words
  `saveRegisters` reads out of registers and stack (`SnapshotWords`).
- **Speaker.** `LengthInv` counts: pulses since the call are the ticks counted plus
  the pending one, and at most one more than `sleep` waits for, in two of its
  three places only if it came since the last halt. `MaskInv` starts the count:
  interrupts are off until the first `hlt`. `DivisorFits` is the reason for the
  lower limit of 20 Hz: 1193180 / 20 is less than 65536.
- **Clock.** `ReadsInv`: what `getTime` holds is the time of the call, or the
  clock's since it advanced, and the minute is not older than the second. The rest
  is arithmetic of times: `FieldsOfTime` and `TimeHasFields` take a time apart and
  together, `NextTime` says which fields an update changes, `ReadAhead` that the
  mixture is nought, one, a minute or an hour ahead.
- **Console.** A character moves the cursor in three steps, each with a lemma. The
  strengthening is `NotInCorner`: a cell that reaches over the right and the lower
  edge at once would be wrapped and not scrolled.
- **Text grid.** The refinement goes from pixels to cells to actions. `DrawnPixel`
  gives the pixel drawn at each place, those beyond the right edge included, which
  come out a line lower; `DrawnCell`, `NextLine` and `MarginSmudged` make of it what
  the cells show, where a blank pixel is enough to refute a letter (`SpoiltCell`)
  and the first dot tells glyphs apart (`OneGlyph`). The strengthening (`AtCell`) is
  that the cursor is at a cell and that the lines of pixels below the last cell are
  blank: a scroll takes them into the last line. A backspace at the left margin
  draws behind the last cell of the line above; what of it lies beyond the edge
  falls on the first cells of two lines, and only on pixels it blanks.
- **Screens.** A *layout* of a script is the place of the cursor behind each of its
  calls (`Path`), with what must be true there for the call to do no harm (`Laid`): a
  text fits between the cursor and the edge with a cell to spare, a line break has a
  line below it or may scroll, a shape is on the screen. It is arithmetic on whole
  texts and lines, in terms of the mode, and is put together call by call (`Leads`,
  `Joined`); `ScriptsLead` says that every screen has one, from every zoom it can be
  opened with. `ScreenInv` then says that the driver, a character at a time, is where
  the layout of its script is (`Stands`): `CharacterStep`, `BreakStep` and `OtherSteps`
  take `vd_put_char` through its wrap and its scroll and find that neither happens but
  where the layout has it. The menu may scroll: `set_zoom` breaks the line
  in the zoom before, so with the user's zoom `z` the title begins at line `16 * z` and
  the cursor ends at `16 * z + 624`, which needs a scroll from zoom 7 on at 768 lines.
  So a place of the layout also has a line `low` above which no text is, and every
  scroll moves it up; that it does not get above the screen is in the layout too. Neither property is inductive without the
  layout: that a text ends before the edge depends on where the calls before it left
  the cursor, and the zoom.
- **Pongis.** Every place of the frame says which flags, picture and count belong to
  the phase there. Phase and flags change at different places of the frame, so the
  properties hold at its end and the invariant at all of them.
- **Shapes.** No invariant is needed, as each call draws from nothing: a clamped
  side is the part of the side on the screen (`ClampKeepsScreen`), and the test
  for a circle that misses the screen spares none that does not (`CircleDrawn`).
- **Shell.** `LineInv` says, for the line as far as it is read, that the buffer up to
  `len` and the line typed and corrected are the same letters; the NUL at `len` is then
  the first, since no letter is one, whatever lies behind it (`TextIsLine`).
  `ZoomInv` says where the user's zoom is kept at each place: in the driver, or in
  `prev_zoom` during help and game. A command that sets the zoom needs that the
  value the code computes is the number typed: values on the way are no larger
  than the last one, so if that fits in an int none wraps (`FittingNumber`).
- **Picture of a level.** `PictureInv` says that before the first frame there is the
  hole and nothing else, afterwards what is on top. Circles drawn one sequence after
  another (`PaintTwo`) give the color a frame leaves at each point (`PaintFrame`).
  What needs an argument is where a body was wiped out: the frame draws the hole
  again only if a body's old circle overlapped it, and circles with a point in common
  do, since the distance of their centres is at most the sum of the radii
  (`CommonPoint`, from `CauchySchwarz`).
- **Bodies.** What is needed of the square root comes from `NewtonStep`: a step of
  Newton's method stays at or above the root and halves what it is too large by,
  so after six the root of `d * d` is never below `d`, and up to 31 hardly above
  (`DistanceBounds`). So a push never overshoots, and from close by it is nearly
  whole (`BallIsPushed`, `PlayersArePushed`, `OutOfOne`). `BodiesInv` holds between
  frames: on its side of each obstacle the ball is 28 from the middle or further and
  a player 38, a lone player is 27 from the ball, and two players without obstacles,
  taken back to the field, are 15 apart. The properties alone are not inductive: a
  ball a pixel short of a player's centre would be moved past it and leave at the
  far side. The distances are those that survive a frame: a player's 38 is at worst
  31 after its move, 11 after the push of the other, all on one side, and the
  obstacle makes 38 of it; the ball's 28 is 13, then 1, then 28. Obstacles are taken
  one after the other, and none pushes a body to the next (`OutOfThem`, from
  `BlocksApart`). `Separate` is for two players that have obstacles: one of them
  stands between the two, and so it does ever after.
- **BMFS.** `FilesInv`: live entries have distinct names and blocks apart from each
  other, each file created and not deleted has one (`AllThere`), and its blocks hold
  the data of the last finished write, or, if one was cut short since, data of its own
  all the same (`HoldsOwn`). `WriteInv` covers the time between the data and the
  directory entry. `MakeInv` relates, at each step of `initialize`, the result so far
  to what is on the image: while it is success, what is missing was missed where the
  code does not look, or the error indicator is set and a loader is still to come,
  whose loop asks it; so no failure is forgotten by a later success.
  `SizeInv` adds the size. A number that fits in the width is read exactly
  (`ParsesSize`): the values on the way are no larger, so each product is larger than
  its factor and the test for overflow lets it pass. The tests are no more than that:
  a product may overflow and still be larger, so nothing is claimed of a number that
  does not fit.
- **Packer and start.** `MachineInv` gives, for each place of the packer, the layout
  of the file so far (`Base`, `Packed`, `Begun`): a head or a buffer appended leaves
  it as it is, and a file ends when less than a buffer was read, even if that is
  nothing. The boot loader takes the layout to memory (`Loaded`), and each module
  copied and BSS cleared leaves the ones before alone (`Placed`), since they lie
  apart (`FilesApart`, `Addresses`). `Loaded` ends with `clearBSS`, which may clear
  packed modules: the proof needs that all are copied by then.

What the theorems assume, all of it evaluated by the runs:

- `KeysAssumption`, `TablesAssumption`: what the code of `kbd_get_key` takes from
  its tables and set 1: shift and Caps Lock have no character, and no key has code
  0x60, whose make code would be the prefix.
- `CursorsAssumption`: no program sets the cursor where its cell would reach over
  both edges. The proof attempt found the need: from there a glyph is wrapped to a
  line that is still below the screen. No caller of `SYS_SET_CURSOR` does it.
- `BeepAssumption`: no wait is as long as the range of `ticks`. `ClockAssumption`:
  a field has two digits. `GensAssumption`, `DumpAssumption`, `BufSizeAssumption`,
  `NulAssumption`, `ConsoleAssumption`, `PongisAssumption`, `BmfsAssumption`: sizes
  are not zero, types of the parameters, that two cells and two lines fit on the
  screen at every zoom, that a base and a K are more than one, and that the marks of
  the end and of a deleted entry are no names, no contents and not the same. `SysReadAssumption`: `MaxBurst` is less than the free cells.
- `ShellAssumption`: the three keys that are no letters are apart from them, a digit
  is worth 0 to 9, the zoom range begins at 1 or above (a line with no number counts
  as 0), and the buffer has a place. `ShapesAssumption`: places are integers, sizes
  naturals. `FieldsAssumption`: a field has a first player and a ball, and perhaps a
  second player; points are integers, radii naturals.
- `GridAssumption`: the lines of pixels lie one behind the other (`clear_screen` clears
  width times height pixels from the start of the frame buffer, so it takes them to),
  two cells of at least two lines of pixels fit each way, the programs' cursors are at
  cells, and a blank pixel and a damaged cell are told from the dots of a letter and
  from a space. The zoom is one, as what was written at another is no text of this
  grid. A cursor off the cells is not in it, nor is one in `TextGrid`: the
  properties of the cursor are for those.
- `BootAssumption`: at most two modules, and the memory map: the kernel with its BSS,
  and all that is packed behind it, end before the first module's address, the
  program with its BSS before the second's. Nothing in the code checks it: with the
  kernel at 1 MiB and the modules at 4 and 5 MiB it is met as long as the kernel's
  image stays below three MiB and the program below one.
- `CourtsAssumption`: an obstacle is larger than a player and at most five times its
  radius, and a player fits between it and a wall; the middle of the next is at least
  three radii of a player behind its rim. The obstacles of radius 30, 40 and 65 are
  among these; those of 20 and less in levels 4, 5, 6 and the table of level 8 are not,
  and for those `ObstaclesHold` is false: see the observations.
- `NobodyPassesThroughHolds` has the hypothesis `Separate` on the first state: where
  there are two players and obstacles, an obstacle is between the players. TLC finds
  it true of every state of the run. Without it, two players pressed against the same
  side of an obstacle remain: the inner one is pushed back towards the outer one, and
  an invariant would have to relate their distance to the depth of the inner one for
  each radius. `ObstaclesLetNobodyThrough` and `BallIsNeverLostHolds` need no such
  hypothesis.
- `ScreensAssumption`: the mode is at least 1024 x 768, the size the layouts were made
  for, and not higher than wide; glyphs are 8 x 16 and the zooms the screens ask for
  exist; the counter's band is no higher than the screen; and the width is not 1 to 63
  above a multiple of 128 (see the observations). `TextsAssumption`: the lengths of the
  texts, from the largest zoom to the smallest; it holds of the texts of the source.
- `PromptIsAsLeftHolds` has the hypothesis `[]NumbersFit`: a number typed after `zoom`
  is less than half the range of an int. It does not hold without: see the
  observations.
- `LevelsArePlayableHolds` has the hypothesis that each row of the table of levels
  is playable; the run evaluates it on the nine rows, the theorem says that the
  game is in no other.
- `CreatesInFreeBlocksHolds` is for any order `qsort` may leave: `Sorted` is any
  rearrangement of the directory in which no entry comes before a lesser one.

The string of `SYS_WRITE`, the number after `zoom` and the sizes of the disk tool are
recursive functions; that each of their values has the defining property is proved
with the least counterexample (`WritesExists`, `LeastNatural`, `SetInduction`,
`Recursion`), as the induction theorems of the library take an operator and cannot be
used here.

Only model-checked:

- liveness: `WaitingCharIsRead`, `BeepEnds`, `QuitWorks`, `HoleIsAnnounced`,
  `BackToPrompt`. Fairness and `ENABLED` are out of the prover's reach;
- the six violations, which are counterexamples.

Every safety invariant and action property of the passing runs is a theorem.

## 5. Plan

1. *Done.* Keyboard buffer with its refinement and proofs; decoder; interrupted
   read; entry code; register dump; beep and sleep; clock.
2. *Done.* Console with its refinement, shapes, screens; shell; game: levels,
   phases, bodies, picture; disk tool; packer and start of the machine.
3. *Done.* Proofs of the decoder, the read, the dump, the entry code, the speaker,
   the clock, the cursor, the refinement of `TextGrid`, the shapes, the game's
   phases, the shell, the picture, the disk, and the packer and start of the machine.
4. *Done.* Proofs of the bodies, from the square root up; proofs of the screens, from
   the layouts.
5. What could still be generalised: two players on one side of an obstacle, and
   obstacles smaller than a player.

## 6. Not modelled

- Pure64: vendored assembly. What it does for the kernel is `Boot` of `BootImage`.
- `idtLoader.c`: straight-line setup. What it decides, interrupt gates and the two
  unmasked lines, is built into `SysRead`, `Context` and `Beep`.
- The font, colours and wording of messages: data.
- How the velocities of the game come about, and movement off a line: floats whose
  states no small instance covers. Obstacles of radius 65 (level 7) and more than
  one obstacle in reach are in the proofs of `Physics` only, and two players on one
  side of an obstacle in neither the proofs nor the run.
- `itoa`, `atoi` and the formatting of numbers: what is printed is abstracted to
  the value it shows.
- `play_sound`, `ticks_elapsed`, `seconds_elapsed`, `get_ticks` and the single
  field accessors of the clock: no caller.
- The option parsers of the packer and of the disk tool; writes of the packer that
  fail, which it does not look at; writes and reads of the commands `create`, `read`,
  `write` and `delete` of the disk tool that fail, which it does not look at either:
  they may be killed between two of them. Those of `initialize` and `format` do fail.
- Lost or garbled scan codes, and programs that execute `cli`: nothing in the code
  handles them.
