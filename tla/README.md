# TLA+ models of the ESP32 standalone VGA Lua computer

The program turns an ESP32 with VGA, a PS/2 keyboard and an SD card into a
computer that boots into a Lua prompt. Everything that is its own is one file,
`src/esp32lua/esp32lua.ino` (line numbers below without a file are of that
file); the rest of `src/esp32lua/` is the Lua 5.5 interpreter it is built with,
`src/SD-Card/` holds the Lua libraries and programs of the card.

## 1. The system

`setup()` (4022–4135) runs once, allocates the PSRAM buffers and starts one
task, `luaComputerTask` (3868–4018), pinned to core 1. This task registers the
Lua functions, runs `/lua/init.lua` and then loops: collect a line or a function
key, execute it as a Lua chunk, print the error, prompt again. All commands,
the editor and every Lua program run *inside* that task, called by each other.
The only concurrency is with the tasks of the FabGL library (keyboard and
terminal), which fill the terminal's input queue while the task reads it.
There are no locks; the state shared between commands is global variables.

| component | state | operations | lines | module |
|---|---|---|---|---|
| Full-screen editor | `textBuffer`, `textLen`, `topIndex`, `leftColumn`, cursor, mark and clipboard, last search term | one per key, menu, search dialog | 1646–1677, 1740–2317 | `Editor`, `TextEdit` |
| Window manager | `windowManager[8]` with copies of the screen, `Window_aktiv`, the frame buffer | open, update, close, draw | 167–190, 960–1121 | `Windows` |
| Allocator of the Lua state | `luaCurrentMemoryUsage`, the heap | grow, shrink, free; Lua's emergency collection | 103, 3459–3502, `lmem.c` | `PsramAllocator` |
| Key decoder | the terminal's input queue, where the reader is in an escape sequence | `inchar`, `inkey`, `waitkey` | 348–512, 3367–3457 | `KeyInput` |
| Run and edit session | the card's files, `currentWorkDir`, `currentEditingFilename`, `fehlerZeile`, nested calls | F1–F4, `run`, `edit`, save, end of a program, power loss | 516–565, 1646–1731, 1798–1827, 3960–4018 | `Session` |
| SD files and directories | the card, `currentWorkDir`, `openFiles[4]` | cd, copy, rename, remove, mkdir, open, read, seek, write, close, … | 2335–3136 | `SdFiles` |
| Collector | colors, ages, the lists of objects, gray lists | a step, a full or emergency collection, barriers, finalizers | `lgc.c` | `LuaGC` |
| Tables | array, hash of chained nodes, hint of the length | get, set, next, `#`, rehash | `ltable.c` | `LuaTable`, `LuaMap` |
| `table.sort` | the table, the scans of a partition | one comparison | `ltablib.c` 230–430 | `LuaSort` |
| Compiler | the function being compiled: code, registers, scopes, pending jumps | one per production of the grammar | `lparser.c`, `lcode.c` | `LuaParser`, `LuaCode` |
| Virtual machine | stack, calls, upvalues, variables to be closed | one per kind of instruction | `lvm.c`, `ldo.c`, `lfunc.c`, `ltm.c` | `LuaVM`, `LuaValues` |
| Precompiled chunks | the bytes, the strings known so far | dump, load | `ldump.c`, `lundump.c` | `LuaDump` |
| Patterns | position, captures, what gsub builds | find, match, gmatch, gsub | `lstrlib.c` | `LuaPattern` |
| Calls, errors, coroutines | C stack, `CallInfo` lists, `nCcalls`, thread states | call, pcall, error, yield, resume, close | `ldo.c`, `lstate.c`, `lcorolib.c` | `LuaCalls`, `LuaActivations` |
| Pictures, screenshots | files | bmpLoad, bmpSave, jpg, F10 | 1125–1550 | no |
| GPIO/UEXT, sound, clock, firmware update | hardware and libraries | | 3166–3360, 3505–3862 | no |
| Prompt line, startup | one local string; run once | | 3940–4000, 4022–4135 | no |

How they interact. The prompt and the editor read keys from `inchar`; programs
also from `inkey`. `run` and `edit` load files into the editor's `textBuffer`
and execute it; the program may call `run` and `edit` again. The editor hands
the text back for saving through the same globals, and the error line of the
last program back to the next editor through `fehlerZeile`. Windows and all
drawing share the frame buffer. All Lua memory comes from the allocator, all
buffers of the program from the same PSRAM heap.

Inside the interpreter the compiler hands functions to the machine (or to
`string.dump`), the machine keeps its values in tables and runs its calls in
threads; all of them allocate, and an allocation may run a step of the
collector, or all of it when memory is short. So the collector sees any state
of the others, which is what makes barriers, weak tables and dead keys of
tables hard.

What is hard in this code, and what makes each part correct:

* *Editor*: unsigned positions that are changed by some keys and checked by
  others; positions that outlive the text they were taken from. Correct: never
  an index outside the buffers, the text changes by exactly what was typed, the
  cursor is visible, the search visits every hit.
* *Windows*: stacked copies of a shared screen, slots that are reused or half
  written when a Lua error is raised in the middle of a command. Correct: the
  background comes back.
* *Allocator*: a counter that must equal the truth over any history of growing,
  shrinking, refusals and clamping. Correct: exact counter, limit kept, no
  refusal that a collection would have avoided.
* *Keys*: bytes of a key arrive while they are read, and ESC is told from the
  beginning of a key by time. Correct: every key once, in order, no wait
  without end.
* *Session*: a pointer into garbage-collected memory, shared buffers in nested
  calls, two writes per save, power loss. Correct: the title names the edited
  file, files hold what was saved, the error line is the right one.

* *SD files*: a handle is the number of a slot; programs end without closing;
  the working directory is a string. Correct: a handle keeps its file, the
  directory is where `sd.cd` went, a command changes the files it names and no
  other.
* *Collector*: its steps and the program's interleave, in three modes. Correct:
  nothing in use is freed, garbage is, finalizers get garbage only.
* *Tables*: nodes move on insertion, a rehash may fail halfway, a traversal goes
  on from a key that is gone. Correct: a table is a map and `#` a border.
* *Sorting*: it is driven by a function of the program. Correct: it sorts, keeps
  every element, and ends.
* *Compiler and machine*: registers, jumps and upvalues that must agree between
  the two. Correct: a program does what its text says.
* *Chunks*: dumper and loader number strings independently. Correct: what is
  loaded is what was dumped.
* *Patterns*: backtracking over captures. Correct: the match is the one the
  pattern describes.
* *Calls*: an error, a yield and the closing of variables cut through Lua and C
  functions alike. Correct: the innermost `pcall` gets the error, everything on
  the way is closed once, a coroutine goes on where it was.

The full list of hazards, each at its line, with the properties that cover it
or the reason why none does, is in `PROJECT.json`.

## 2. Modules

| module | what it is |
|---|---|
| `Editor` | the editor, one action per key |
| `TextEdit` | what an editor promises: a bounded sequence, a cursor, a clipboard |
| `MCEditor` | instances for TLC |
| `Extrema`, `EditorProofs` | minimum and maximum of a set of numbers; the editor's properties and its refinement proved |
| `Windows`, `MCWindows`, `WindowsProofs` | the window manager, instances, proofs |
| `PsramAllocator`, `LuaGC` | the allocator; the collector |
| `LuaMemoryProofs` | proofs about both, each on its own |
| `LuaTable`, `LuaMap` | tables, and the map they promise to be |
| `LuaSort`, `LuaSortProofs` | `table.sort`, proofs |
| `MCPsram` | instances of these four, each in behaviours of its own |
| `KeyInput`, `MCKeyInput`, `KeyInputProofs` | the key decoder, instances, proofs |
| `Session`, `SdFiles`, `MCSession` | run and edit; the sd library; instances of both |
| `CardProofs` | proofs about both: what is left on the card |
| `LuaValues` | values and their operations, for compiler and machine |
| `LuaCode`, `LuaParser` | the code generator, and the parser that drives it |
| `LuaVM` | the virtual machine |
| `LuaMeaning` | what a program means, on its syntax tree |
| `LuaDump` | precompiled chunks |
| `LuaPattern` | pattern matching, and what a pattern means |
| `LuaCalls`, `LuaActivations` | calls, errors and coroutines, and what they promise |
| `LuaCallsProofs` | proofs about `LuaCalls` |
| `MCPrograms`, `MCLua` | programs to compile and run; instances of the Lua modules |

Components that share a run do not interact in it. `MCPsram`, `MCSession` and
`MCLua` choose one of them at the start (`part`), the others stay as they
started; each component's next-state relation is the one of its module. Where
one component depends on another, the model of the first has the other's part
in it: `Session` collects, `LuaTable` has the collector clear keys and refuse
memory, `LuaGC` has a program that creates, links and drops objects,
`PsramAllocator` has the emergency collection.

Every module of the system says in comments named "a slip" which near-miss
variant of an operator would break which property; these definitions are used
by no specification and serve to show that the properties can fail.

### Editor

State: the globals of lines 97–113 plus the loop's `cursorPos`. `mode` says what
the loop waits for. `Open` is `lua_cmd_edit`'s loading (CR dropped, cut to the
buffer) with the jump to the error line; each `Key…` action is a branch of the
key loop *with* the vertical and horizontal scroll checks and the
synchronisation at the loop's end. The buffer is memory (`Memmove`, `Memcpy`,
stale bytes behind `textLen`), since a cursor behind the text reads them. A
`memmove` with a length that wrapped around is the mode "fault", from which
only a restart leads away. Drawing and the status line are left out.

`Editor` implements `TextEdit` (`ImplementsTextEdit`, a refinement with the
buffer's first `textLen` bytes as the text): every key inserts or deletes one
contiguous piece, at the cursor or where the copied block stands.

### Windows

A pixel shows a color or a piece of a window `<<slot, text>>`; a slot's copy is
a function from its region to pixels. The layout of a window's text is
abstracted to the region it fills and, for texts that do not fit, the pixels
beside it (`Overflow`): line 1089 draws titles unclipped. `OpenAborted` is the
Lua error in the middle of reading the arguments. `base`, `order` and `orderly`
are history: the screen without windows, the stack of windows, and whether the
programs kept to the rule of the comment at line 74 (close the topmost first).
Scrolling and clearing a screen that shows windows are not modelled.

### PsramAllocator

Blocks are sets of bytes, so that sharing and leaks are visible. The allocator's
function is `Grant` and `Free`; `Ask`, `Try`, `StartEmergency`, `EmergencyFree`,
`EndEmergency` and `Deny` are the protocol of `lmem.c` around it: a refused
first try, a full collection that calls the allocator for every dead block, one
second try. The collector is the set of blocks nothing refers to. `heap_caps`
may refuse at any time (fragmentation, other buffers).

### KeyInput

The terminal sends a key as one to five bytes, `Send` byte by byte;
`inchar`/`inkey` is a state machine whose places are the points where the code
waits for a byte. `EscapeTimeout` is the 10 ms (5 ms) after ESC. `inkey` waits
for some bytes and only asks for others (`DigitMissing`). The keyboard and the
terminal's encoding are external. `Prompt` says that bytes of one key follow
each other faster than the timeout; `Patient` that the user does not type ahead
of an ESC nobody has read (a key behind it would be taken for a continuation;
a hazard without a property, as the bytes do not tell the two apart).

### Session

`frames` is the C stack of `run` and `edit` calls. A frame of `edit` goes
through the editor, the menu's write (truncate, write), `lua_cmd_edit`'s own
second write and the program; each open may fail, each write may fall short, and
`Crash` may come between any two. The name pointer is a record of the name, the
frame whose argument it is, and whether the string was freed; a collection may
free it once its frame has returned. `asked`, `harmed` and `lastError` are
history. What programs do to files through the `sd` library is left out.

A program ends well or with one of the errors it has in `Endings`. An error
message is the sequence of what `toInt()` makes of the texts between its colons
(`Messages`). One raised in a program starts with the position `luaL_where` puts in
front, the program's first line (`FirstLine`, which may have colons itself) and the
line number; the program may be the one that ends or another one, whose function it
called. Any other error (`NoChunk`: `error(x, 0)`, an error value that is no string,
want of memory) says anything, with any number of colons. `Reported` is then what
the code makes of it: 1 if there are fewer than two colons, and otherwise whatever
stands between the first two, any integer.

### SdFiles

The card is a function from places to files and directories; paths are
sequences of names and slashes, so that doubled slashes, upward and absolute
steps can be told apart. `Cd` builds the working directory the way the code
does, with the test whether the card has the directory. `OpenFile`,
`Read`, `Write`, `Seek` and `CloseFile` work on the slots; `Unmount` makes the
open ones stale, `ProgramEnds` leaves them. `Copy` removes a target that is a file,
after which it may fail to open and be gone, and may write any beginning of the
source, as its `write` is not looked at; a directory is accepted as source, and has
nothing to read. `sd.rename` moves directories with what is below them, `sd.open`
opens directories too. `held`, `leftOpen` and `there` are
history: who has which handle, and where the user went. Listings (`ls`, `cat`,
`hexmon`, `readline`) change nothing and are left out.

### LuaGC

The lists of `lgc.c` are sets; `list[o]` is the one an object is in, `color`,
`age` and `grays` are what the collector knows about it. `SingleStep` is the
state machine of `singlestep`, cut where the code may return to the program;
the atomic phase is a chain of actions during which `goal` keeps the program
out. The program (`Mutator`) creates objects of several kinds, stores them with
the barrier of the object's kind, drops references, sets finalizers and
resurrects objects out of weak tables. Sizes and debts, which decide *when* a step
or a change of mode happens, are replaced by "at any time".

### LuaTable and LuaMap

`t` has the array, the nodes with their `next` offsets, the place from which
free nodes are sought, and the hint of the length. `luaH_set` is insertion with
the colliding node moved (`insertkey`), `rehash` counts and reinserts, and gets
no memory for the array or the hash (`nomemory`) or all it wants. `ClearKeys` is
the collector's `clearkey`. `LuaTable` implements `LuaMap` (a map and a traversal) with
`map <- Contents(t)`.

### LuaSort

One action per comparison: `CompareEnds`, `PivotLow`, `PivotHigh`, `ScanUp`,
`ScanDown`; what follows without asking the program is part of the action. The
recursion is the list `todo` of parts, the pivot of large parts any element of
the two middle quarters. `AnyAnswer` is a comparison that answers anything at
any time.

### LuaValues, LuaCode, LuaParser, LuaVM and LuaMeaning

`LuaParser` takes syntax trees and has one operator per function of `lparser.c`;
those of `lcode.c` are in `LuaCode`. Both take the function being compiled
and return it as it is after the call. Expressions under work are a stack in
it, jump lists are sets of instructions. The scanner, line information and the limits on
registers, constants and jumps are left out; numbers are integers.
`LuaVM` runs what comes out: one action per kind of instruction, on a stack that
keeps its garbage, with upvalues, variable arguments, to-be-closed variables and
integer `for` loops with their precomputed count. Tables have metamethods only
for what the log shows: the machine records in `out` which one was called with what.
`LuaMeaning` is no translation: it says what a program means with cells
and scopes, without registers, jumps or upvalues. `CompiledRunsAsWritten`
compares the two.

### LuaDump

A chunk is a sequence of bytes, where a datum of several bytes is its value and
fillers, so that alignment and truncation are what they are. Strings, sizes and
integers go through the variable-length code, with the sign folded in. The loader may keep the
buffer (`fixed`), the writer may stop at any byte.

### LuaPattern

`match` and its helpers are recursive operators named as in `lstrlib.c`, on
strings with positions; `find`, `gmatch` and `gsub` are actions, one per place
where a match is tried. `request` says what is called. The part of the module
from "What a pattern means" on is no translation: it takes the pattern
as items and describes the match as the preferred vector of lengths.

One thing seen on the way: `gsub` with a replacement that contains only `%0`
never asks for the captures, so that the unfinished pattern `(a` is accepted there
while `find`, `match` and `gmatch` call it malformed. The requests use
replacements that ask for a capture.

### LuaCalls and LuaActivations

The C stack is a sequence of C functions (`call`, `protected`, `execute`, `close`,
`unroll`, and C functions of Lua); an error or a yield cuts it at the innermost
`luai_try`. Each thread has its `CallInfo` list, its list of variables to be
closed and its status. Lua functions choose freely what they do, `MaxChoices`
times in all, and then return. `shown` is history: what a program can tell from
the state, computed at each step, which `LuaActivations` is compared with
(`Shown`, `Mapped`, `Mode` compute it and translate nothing). In
`LuaActivations` there is no C stack: a thread is a stack of activations with
their open variables.

## 3. What TLC checks

| run | shows | bounds |
|---|---|---|
| `editor_blocks` | `IndicesInBuffer`, `OnlyPageKeysLeaveText`, `ImplementsTextEdit` | buffer of 5 bytes, clipboard of 4, two files (one too long, with CR), all keys except printable ones and search |
| `editor_view` | `TypeOK`, `ColumnVisible`, `LineKeysKeepRowVisible`, `SearchVisitsNextHit` | buffer of 6, window of 2 by 2, pages of 2 lines, typing, two search terms, an error in line 3 |
| `editor_shrunk_text` | *violated*: `EnterShiftsText` (comment at 2222) | buffer 5 |
| `editor_upward_mark` | *violated*: `CopyFromBottomToTop` (comments at 1850, 1864) | buffer 7 |
| `windows_background` | `TypeOK`, `FlagTellsWindows`, `BackgroundRestored` | two slots, two pixels, a region inside the other, a text that fits and one that does not, two colors |
| `windows_update_lower` | *violated*: `LowerWindowRestored` (comment at 74) | two slots |
| `psram`, allocator | `TypeOK`, `UsageExact`, `WithinLimit`, `DeniedOnlyWhenFull`, `EveryRequestAnswered` | three addresses, four bytes, limit 3, type codes 0 and 2 |
| `psram`, collector | `NoDanglingReference`, `FinalizesGarbage`, `GarbageIsFreed` | two or three objects of seven combinations of kinds, one entry each, stacks of 1 to 3 values |
| `psram`, table | `TableIsMap`, `LengthIsBorder`, `CollidingNodeAtHome` | keys 1, 2, 3 and a string, created with array and hash of (0,0), (4,0), (0,4), (2,2) |
| `psram`, length | `LengthIsBorder`, `TableIsMap`, `CollidingNodeAtHome` | keys 1 to 6, 8, 9 and 15 = `MAXINT`, created with (8,0), (0,8), (2,8), (4,4), random numbers 0 to 7; keys go to the hash in increasing order and stay there, those of the array come and go |
| `psram`, sort | `SortOrders`, `SortEnds` | tables of 1, 2, 3 and 7 elements, two ranks, or any answer; parts of more than `RANLIMIT` = 4 take random pivots, `Skew` = 1 |
| `keys_read` | `TypeOK`, `DeliveredInOrder`, `EveryKeyDelivered`, `InkeyReturns` | three keys out of ten, one of every kind of sequence |
| `keys_poll_function` | *violated*: `OnlyPressedKeys` (comment at 348) | two keys |
| `session`, session | `TypeOK`, `TitleNamesFile`, `FilesKeepSavedText`, `ErrorLineKnown` | two files, a relative and an absolute name, two directories, two programs that fail and the empty one, nesting 2, an unfinished write leaves the file empty; a program fails in its own text or the other one's, with a message of one colon, or has `:-1:` in its first line |
| `session`, sd | `HandlesKeepTheirFile`, `WorkDirFollowsCd`, `OnlyNamedFilesChange` | two slots, a directory, a file or directory in it and one above it, files of at most one byte, relative, absolute, upward and doubled-slash arguments |
| `lua`, program | `CompiledRunsAsWritten`, `ReturnLeavesNothingOpen` | the programs of `MCPrograms`; `OFFSET_sC` 2, `MAXARG_C` 5, `OFFSET_sBx` 3, `MAXINDEXRK` 2 |
| `lua`, chunk | `UndumpRestores` | functions with two inner ones that share strings, constants of every kind; integers of base 4, `INT_MAX` 15, words of 4 bytes |
| `lua`, pattern | `MatchesAsPatternSays` | every suffix on five classes, captures, positions, back references, balances, frontiers, anchors, eleven malformed patterns, five texts of up to 7 characters; `MAXCCALLS` 6, `LUA_MAXCAPTURES` 3 |
| `lua`, calls | `CallsKeepActivations`, `CountsMatchStack` | two threads, six choices, `LUAI_MAXCCALLS` 4, `ERRORCCALLS` 6 |
| `session_last_file` | *violated*: `LastFileStarted` (comment at 58) | the same |

Why the bounds are enough. The editor's branches compare positions with the
text's end, the buffer's end, line ends and the window; 5 or 6 bytes give texts
with empty, first, last and several lines, a full buffer, and blocks that just
fit or do not. Windows interact in pairs through one shared pixel; the proof
covers any number. Three blocks suffice for one to grow while one is garbage and
one is in use, and four bytes over a limit of 3 let both the limit and the heap
refuse. Three keys give a sequence behind and in front of another with one
between. Two nested calls are the file manager and the program it starts.

A collector needs a black object, a white one it comes to refer to, and one more
that is weak, gray again or to be finalized; three objects give these, and each
program of `MCPsram` is a combination in which different lists meet. Four keys
in a table of at most four nodes collide, move, and fill it; a third power of
two would repeat the second. For `#` this is too little, so part `length` has larger
tables. With eight places in the array the hint may be more than four
(`maxvicinity`) away from the border on either side, so that both searches by halves
are reached. With `MAXINT` = 15 the search in the hash doubles its upper bound twice
from 2 (to 4 or 5, then 8 to 11) in a table without an array and once from 6 behind an
array of four, and then meets the largest integer, present or absent; keys 7 and 10 to
14 are gaps. The random numbers up to 7 have all the bits that an array of eight, four
or two takes for the first step, and those left for the doublings; in tables of each of
these sizes, and without an array, some of them find different borders. Seven elements give a partition with parts on both
sides, of which one is long enough for a random pivot. The limits of
instructions are so small that operands of both sides of each of them occur in
the programs: `OFFSET_sC` = 2 and `MAXARG_C` = 5 make 3 an immediate and 4 a
constant, `MAXINDEXRK` = 2 the third constant no operand, `MAX_FSTACK` = 85
has constructors stored after ten items, or after each where many variables are
in registers. Bases and limits of chunks are small
for the same reason: integers of one, two and three bytes. In patterns,
`MAXCCALLS` = 6 makes some of the patterns too complex and others just not. Six choices allow a `pcall` in a coroutine that yields out of a
closing function called by an error, which is the longest path a line of
`ldo.c` handles on its own.

Symmetry (`windows_background`): colors and slots are interchangeable. Its
`VIEW` drops the history variables once a program broke the rules, after which
no property reads them.

The violated properties are findings (see `PROJECT.json`): a memmove of almost
4 GB after page keys on a shrunk text, an upward block that loses its first and
last line, a stale window below another, tails of function keys returned as
keys by `inkey`, and F2/F3 reading a file name from freed memory.

Fairness. `PsramAllocator`: an allocation is one call of a C function, hence
weak fairness of its steps together; the program's requests have none.
`LuaGC`: a program that goes on allocating has the collector do its steps (debt
drives `luaC_step`), hence weak fairness of `SingleStep`; the program's actions
have none, and `GarbageIsFreed` is about programs that do not restart the
cycle with full collections or changes of mode for ever. `LuaSort`: sorting is
one call of a C function.
`KeyInput`: the terminal's task sends what it began (`WF(Send)`), and the reading
task, which loops at the prompt, goes on (`WF(Reader)`); keys are pressed or
not. The other modules state no liveness. Deadlock is checked except in
`KeyInput`, where the bound on the number of keys ends the typing.

## 4. What is proved

With TLAPS, for every value of the constants under the `ASSUME`s of the module
(each run's module extends them, so TLC evaluates them on the instances).

**Editor** (`EditorProofs`). Assumed: both buffers have at least two bytes, the
screen four rows and one column.

* `EditorTypeCorrect`, `EditorMemorySafe`: the conjunction of `TypeOK` and
  `IndicesInBuffer` is inductive. Neither alone is: the range of the cursor
  after a scan over the buffer needs the types, and `leftColumn` needs the column
  of a cursor inside the buffer. Lemmas bound each scan (`LineStart`, `LineEnd`,
  `ContextTop`, …) and the memory operators; then there is one lemma per key.
* `EditorImplementsTextEdit`: the byte-moving editor implements `TextEdit`. A
  text is cut into pieces by position (`TxtPieces`), each `memmove`/`memcpy` is
  shown to exchange, insert or remove one piece whatever the stale bytes behind
  `textLen` are, and each key maps to a step of `TextEdit` or to a stutter; a
  cursor behind the text maps to the fault.
* `EditorOnlyPageKeysLeave`, `EditorRowVisible`, `EditorColumnVisible`,
  `EditorSearchNext`: action properties, from the same invariant. The last needs
  that a search term is not empty while a repeated search is possible
  (`TermAsked`), which is inductive by itself; the row needs how many line ends
  lie between the cursor and the first line shown, before and after a key.

**Window manager** (`WindowsProofs`).

* `WindowsTypeCorrect`, `WindowsRestoreBackground`: `BackgroundRestored` is not
  inductive, since what closing a window restores is its copy. The invariant
  says in addition that, while the rules are kept, `order` lists exactly the open
  windows once, each of them has a copy, and each pixel of a copy not covered by
  a window below is the pixel of `base` (`CopiesHoldBase`). For any number of
  slots and any regions.
* `WindowsFlagExact`: `FlagTellsWindows` with the types is inductive, an
  aborted `openWindow` and the reuse of a slot included.

**Allocator** (`LuaMemoryProofs`).

* `PsramTypeCorrect`, `PsramUsageExact`, `PsramWithinLimit`: the invariant adds
  that blocks share no byte and that a pending request carries the true old
  size; then the clamp at line 3467 is never taken and each step moves the
  counter and the cardinality of the occupied bytes alike.
* `PsramDeniesOnlyWhenFull`: what is refused for the limit does not fit beside
  the live blocks, because the second try comes after a collection that left no
  garbage (`CollectedBeforeRetry`), and then the counter is what is alive.

**Key decoder** (`KeyInputProofs`). Assumed: the keyboard sends each key as
one of the VT100 sequences that the tables know (`Encodings`), or as itself.

* `KeysTypeCorrect`: with what the digits read so far can be at each point of
  the decoder (`ReaderOK`), the types and the count of screenshots are inductive.
* `KeysInOrder`, for `Prompt` and `Patient` (section 2): `DeliveredInOrder`
  alone knows nothing of the bytes on their way. The invariant says of the bytes
  taken for the current key, those in the queue and those still to be sent,
  one behind the other, that they spell the pressed keys behind the delivered ones
  (`Spells`), and that nothing follows an ESC (`EscapeLast`). For any number of
  keys, in the queue or not.

**Run, edit and the card** (`CardProofs`). Assumed of `Session`: names resolve
to paths, programs have a first line and end well or with an error message; of `SdFiles`: at least one slot, and that the
root, slashes and `..` are not names of files.

* `SessionTypeCorrect`, `SessionTitleRight`, `SessionKeepsFiles`,
  `SessionErrorLine`: one invariant, for any depth of programs that call `run()`
  and `edit()`. The invariants checked by TLC need each other and two facts more:
  a frame about to write holds the text that was asked to be saved
  (`SavesWhatWasAsked`), and the error reported last is one (`ErrorTyped`). What
  `Reported` makes of a message is the lemma `ReportsLine`.
* `SdHandlesGood`: `HandlesKeepTheirFile` with the types of disk and slots.

**table.sort** (`LuaSortProofs`). `SortIsRight`: the elements stay a
permutation and the scans in their part whatever the function answers; if it is
an order, the "invalid order function" error never occurs and the table ends
sorted. The invariant (`PartsInOrder`) says that two positions are in order
unless one part that is still to be sorted holds both, that parts lie apart, and
for each question of the partition what is known of the elements the scans have
passed (`HeadInOrder`). For every length, pivot and `RANLIMIT` from 4 on.

**Collector** (`LuaMemoryProofs`). `GcNoDangling`, `GcFinalizesGarbage`, from the
invariant `GcInv` (`GcInvariant`): for any number of objects, references and
programs, in both modes. `NoDanglingReference` is far from inductive: the
invariant has the tricolor invariant with its exception for objects that are
still to be traversed (`Propagating`), what a weak table in each list may still
refer to (`Finished`, `InAtomic`), where dead objects can be while lists are
swept (`DeadOnlyInSweep`, `Closed`), that what the sweep has passed is new and white
(`SweptIsNew`), and the ages between and during young collections
(`BetweenYoung`, `InYoung`). TLC checked `GcInv` before it was proved. The proof
found an error of the model that the runs did not: an ephemeron whose white key
became marked by its own traversal was dropped from the list of ephemerons.
`traverseephemeron` judges a key when it visits the entry, which may be before
another entry marks it, and so does `Traverse` now (`ListAfter`).

**Calls, errors and coroutines** (`LuaCallsProofs`). Assumed: the limit of error
handling is above `LUAI_MAXCCALLS` (`lstate.c` 134: 220 and 200).

* `CountsMatchAlways`: `CountsMatchStack`, for any number of threads, any limits and
  any nesting of calls, errors, yields, resumes and closing. The code subtracts on
  returns what it added at the call, but an error or a yield returns from nothing:
  it sets `nCcalls` to what a `luaD_rawrunprotected` saved, which may have been
  changed since, by a thread that closes itself, or belongs to another thread than
  the one that goes on.
* `CallsInvariant`: the inductive invariant `CallsInv` (`Sound` and `CountedUp`). It
  says which frame may lie on which of the C stack (`Grammar`), that a thread which
  let another one run is not on the stack above that (`Apart`), that what every
  protected call saved and every waiting thread holds are the counts of the stack
  below it (`CountsKept`), which threads can be on the stack (`ThreadsRun`), where each frame
  stands in the list of `CallInfo` of its thread, lower frames lower
  (`LevelsIn`, `LevelsGrow`), and that a C function that calls back is on the stack and
  above every `pcall` a coroutine may recover to (`CallbacksRun`, `Entries`). The last
  gives the claim about coroutines that yielded: they leave the C stack as far as the
  `lua_resume`, and a thread that counts no call that cannot yield has no such
  function there. What lies under a thread that closes itself is never
  returned to (`Live`), and its count of calls that cannot yield starts anew. Each
  operator that changes the state has one lemma (`PushSound`, `CutSound`, `DropSound` for
  the three ways the C stack changes), each action another. TLC
  checked `CallsInv` for two threads before it was proved. To state it, C
  functions and `ccall` keep their local `ci` in the model, as `precallC` does: the
  return drops that entry and all above it.

Only model-checked:

* Liveness, which is beyond this prover: `EveryRequestAnswered`,
  `EveryKeyDelivered`, `InkeyReturns`, `GarbageIsFreed`, `SortEnds`.
* What rests on recursion over data, whose induction principle the provers cannot
  instantiate: `WorkDirFollowsCd` and `OnlyNamedFilesChange`, which needs it (paths of
  any length), `TableIsMap`,
  `LengthIsBorder` and `CollidingNodeAtHome` (chains of nodes, rehashing), and
  `CompiledRunsAsWritten`, `ReturnLeavesNothingOpen`, `UndumpRestores` and
  `MatchesAsPatternSays`: `LuaCode`, `LuaParser`, `LuaMeaning`, `LuaDump` and
  `LuaPattern` are recursive operators on syntax trees, functions and patterns, and
  the runs compare them with a definition of what they should compute, for
  bounded inputs.
* The refinement `CallsKeepActivations` of `LuaCalls`: `Mapped` filters the list of calls
  and the variables to be closed of each thread, and its step for an error
  compares all of them.

## 5. Plan

Done, in this order: `Editor` (the largest state and the memory safety of the
machine), `Windows`, `PsramAllocator`, `KeyInput`, `Session`, then `SdFiles`,
`LuaGC`, `LuaTable`, `LuaSort`, the compiler with the virtual machine, `LuaDump`,
`LuaPattern` and `LuaCalls`; then the proofs of section 4.

Next, proofs:

1. `LuaCalls`: `CallsKeepActivations`, from `CallsInv` and an invariant that orders the
   variables to be closed with the entries of the list of calls.
2. `LuaTable`: `CollidingNodeAtHome`, first for one insertion (`insertkey`), where
   it needs that a free node has no value and that a key whose node is not at home
   collides with one that is; the chains of nodes need a rank that falls along them.

## 6. Not modelled

* Drawing commands, sound, clock, GPIO and the firmware update are single calls
  into libraries or hardware that hold the state. Pictures and screenshots are
  arithmetic on file contents.
* The prompt's line is one local string; startup runs once before anything can
  interleave.
* `wildcard_match` and the listings of the sd library print what the card holds
  and change nothing.
* Of the interpreter: floats and conversions between numbers and strings, the
  scanner (`llex.c`), line information and the debug library, hooks, message
  handlers (`xpcall`) and error values, the growth of the stack, metatables
  other than those `LuaVM` logs, the limits on registers, constants and jump
  distances. The C interface (`lapi.c`, `lauxlib.c`) pushes and pops single
  values in front of the functions modelled here; the calls that transfer
  control are in `LuaCalls`. `os`, `io`, `math`, `utf8` and `package` are calls
  into the C library or functions of one value. Of the string library, `format`,
  `pack`, `unpack`, `rep`, `sub` and `byte` convert one text.
* Example programs, sensor drivers and the libraries on the card are Lua
  programs, each independent of the others; the manual is documentation.
