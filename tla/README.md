# A TLA+ development of the stage0-pe32 bootstrap chain

stage0-pe32 brings up a C toolchain on 32-bit Windows from one small hand-written
program. Each link of the chain is assembled by the link below it, and each is written
twice: as annotated hex (`x86/*.hex0`, `*.hex1`, `*.hex2`, `*.M1`), and as the Python
generator that lays those files out (`x86/Development/gen_*.py`). The generators hold the
programs instruction by instruction and are what the modules here are translated from.

The modules are TLA+; `*.cfg` files are TLC configurations; modules named `*Proofs` hold
theorems that TLAPS checks. `PROJECT.json` maps every definition to the source lines it
stands for.

## 1. Inventory

### Components

| component | source | state it keeps | operations |
|---|---|---|---|
| **hex0** | `gen_hex0.py` | a pending nibble, two handles | read a byte, classify, print, end |
| **hex1** | `gen_hex1.py` | `ip`, toggle, 256 one-character labels | first pass, rewind, second pass |
| **hex0 and hex1 simulators** | `stage0asm.py`, `assemble_hex0`, `assemble_hex1` | the Python walks' locals | one walk; for hex1, done twice |
| **hex2** | `gen_hex2.py` | `ip`, toggle, accumulator, label table (names in 64-byte fields, addresses) | `first_pass`, `store_label`, `rewind_input`, `second_pass`, `store_pointer`, `get_target` |
| **hex2 simulator** | `pe32hdr.py`, `assemble_hex2` | the Python walk's locals | one walk, done twice |
| **catm** | `gen_catm.py` | `g_handle`, `in_handle`, `out_handle`, a 64K buffer | next input, copy, close, finish |
| **command line** | `stage0asm.py`, `emit_next_token` | the command line, cut in place; a read and a write cursor | one call returns one argument |
| shared plumbing | `pe32shared.py`, `ntdll-i386.hex2` | `g_handle`, slots of ntdll routines | `resolve_all`, `open_argv`, `fgetc`, `fputc`, `exit_ok` |
| **M0** | `gen_m0.py` | a linked list of tokens in an arena | tokenize, reverse, six passes over the list |
| cc_x86 | `cc_x86.M1` | upstream's C compiler, ported | reader, declarations, expressions |
| **libc startup** | `libc-core.M1` | argv, envp, path and heap regions past `PE_end`; scratch words for the file calls | `_start`, `__open`, `__close`, `__lseek`, byte and block reads and writes |
| **fork** | `libc-core.M1` `_start_park`, `__fork_setjmp`, the words at the end; M2libc's `process.c` | two words in the image (`__fork_child_flag`, `__fork_parked`), saved EIP and ESP | spawn, flag, park, copy, redirect, release |
| POSIX layer | M2libc (a submodule, empty here) | not in the repository | only its tests are |
| PE header, Asm, checkers | `gen_header.py`, `stage0asm.py`, `pe32emit.py`, `check_*.py` | none at run time | build-time layout and text |
| build script | `mescc-tools-mini.cmd` | files on disk | one command after another, each with `\|\| goto :fail` |

Bold components are modelled in this development; section 7 says what is not and why.

### How they interact

* **Files.** Every link reads the file the one below it wrote. A link that writes a wrong
  byte and exits 0 corrupts everything above it, and nothing compares: the properties of
  hex2 and M0 are about bytes for that reason.
* **The command line.** Windows hands a program one string. Every program of the chain
  splits it with `next_token`; programs built on libc are started by `__spawn`, which joins
  one. The two halves have to be inverse to each other.
* **Simulation.** The generators check what they emit by assembling it with
  `assemble_hex0`, `assemble_hex1` or `assemble_hex2`, so an input on which one differs from
  the real program passes the check and fails in the chain.
* **The seed.** hex0 assembles hex1, hex1 assembles hex2, hex2 links the rest. hex0 has to
  reproduce itself byte for byte, which is why it and the programs up to catm keep an
  `open_file` that does not look at a status.
* **Processes.** `fork` starts the program's own file again and overwrites the new process
  while the process is executing its startup. Two threads, one handshake of two words.

### What is hard

Concurrency is in two places. In `fork` it is all that matters: the copy runs its own startup
beside a parent that writes into it. And the processes fork and spawn leave behind share
their files, positions and all, which a seek reads and sets in two calls. The rest is one thread
that never waits, and what is hard is agreement over a long sequence of steps: two passes
of hex2, and two of hex1, that must count alike, a handle that means another file later, five passes of M0 that must add up to one reading, a cursor
that writes behind another one in the same string, a table at its limit, arithmetic at
widths of one, two and four bytes. `PROJECT.json` lists each hazard at its line.

### What makes each component correct

* hex0: it writes what `assemble_hex0` says, from the first byte on; it ends.
* hex1: a pointer leads to the bytes after its label, wherever labels, comments and the end
  of the file fall; without labels and pointers it is hex0; it writes what `assemble_hex1` says.
* catm: the output holds, argument by argument, bytes of the file the argument stands for, in
  order and none twice, and none of another origin; no other file is changed; it ends.
* hex2: every label's address is where the bytes after it land; a displacement is measured
  from the end of its pointer; an undefined name never ends with status 0; a failing status
  has a reason; every input ends.
* hex2 simulator: it emits what hex2 emits and refuses what hex2 refuses.
* command line: nothing unread is overwritten; the arguments are those of
  `CommandLineToArgvW`; what `__spawn` joins comes apart the same.
* M0: the output is what the file means when it is read once from start to end; a text of
  any length leaves the list in one piece; an immediate is its number, little-endian, in its width.
* libc startup: what main is given as argv and envp is the command line and the environment,
  and stays so while paths are opened and blocks allocated. Its file calls are those of a file
  several processes may share: a transfer moves the common position once, a seek measures
  from where the file is, a failing call changes nothing.
* fork: a copy never runs the program as a second original; what is overwritten stands
  still; image and stack belong to one moment; every call comes back; to a program it is
  one atomic step.

## 2. Plan

In order, each step with its checks and proofs before the next:

1. **Done.** `Hex2` (the linker), `Hex2Sim` (its simulator beside it), `Hex2Proofs`.
2. **Done.** `ForkSpec` (what fork promises), `Fork` (how it is done, refining
   `ForkSpec`), `ForkProofs`.
3. **Done.** `NextToken` (splitting), `CommandLine` (the rule and the joining half),
   `NextTokenProofs`.
4. **Done.** `M0` (the passes), `M0Meaning` (the one reading), `M0Proofs`; `M0Arena` (where
   the list is kept while texts run past their room), proved about in `M0Proofs` as well.
5. **Done.** `LibcStart` (the areas past `PE_end` that `_start`, `__open` and malloc share),
   `LibcStartProofs`, for any sizes of the areas.
6. **Done.** `Hex0` and `Hex1` (the seed's loop; hex1's two passes), `Stage0Sim` (both beside
   `assemble_hex0` and `assemble_hex1`), `Hex1Proofs`.
7. **Done.** `ConcatSpec` (what catm promises), `Catm` (handles, failures and all, refining
   it), `CatmProofs`.
8. **Done.** `FileSpec` (a file several processes share), `FileIO` (libc's calls over ntdll's,
   any of which may fail, refining it), `FileIOProofs`.
9. cc_x86's reader: its characters, tokens and line comments; `resolve_all`.
10. **Done.** Proofs of what the programs compute: hex2, hex1 and hex0 beside their
    simulators, the splitting beside the rule and the joining, M0 beside its one reading and
    its numbers, what a missing input, or one that cannot be converted, costs catm. Every safety invariant and every refinement
    the passing runs check is now a theorem.
11. Proofs: the displacement `store_pointer` writes (`Hex2`).

The abstract specifications are `ForkSpec` (an atomic fork), `ConcatSpec` (concatenation) and
`FileSpec` (a file with a position in common).

## 3. The modules

### Hex2: the linker

One item of the input (a digit, a label, a pointer, anything ignored) is one turn of the
loop of `first_pass` or `second_pass`, and one action: `StoreLabel`, `CountPointer`,
`CountDigit`, `IgnoreFirst` in the first pass, `DropLabel`, `StorePointer`, `HoldDigit`,
`PrintByte`, `IgnoreSecond` in the second, `RewindInput` between them and `Finish` after
them. `StoreLabel` includes the copying of the name out of `tok` before the count is
tested, and `StorePointer` the advance of `ip` before either lookup, because the code does
them in that order and leaves them done when it then exits.

A name is the sequence of 64-byte fields its characters fill, so a name of one field is
one that fits, and a name of two fields lies across its own field and the next label's, as
it does in memory. `names` has one field more than the table for the last label's tail.
`get_target` compares characters and does not know about fields; `Matches` does not either.

`out` is the sequence of writes and `written` the length of the file. `mark` and `defs` are
history variables: `ip` and `toggle` as the first pass met each item, and the item that
filled each field. They are read by properties and the invariant, never by an action.

Of the calls made to Windows only the sign of NtReadFile's status is looked at. `readable`
and `writable` say of each file whether calls on it still succeed: a file that could not be
opened starts without it, and `LoseInput` and `LoseOutput` (external) take it away at any step,
for good. A read that fails is the end of the input, a write that fails leaves the output as
it is, and a rewind that fails is an input lost before the second pass. `BreakOff` is the input
ending inside a pointer: `consume_token` takes the end of file for the end of the name, so
the pointer is resolved by as much of the name, or of its base, as was read (`Broken`).
The constant `Cuts` gives the names a name may be cut to. What else breaks off leaves nothing
behind: a label is dropped by the second pass, and when the first pass loses the input the
second has nothing to read and never looks into the table. A label that breaks off in a full
table ends with status 2, as it does when it is read to its end.

Two-byte and one-byte values are kept modulo their width. A four-byte difference is kept
as the signed number it stands for, which is exact as long as an image is below 2^31 bytes.

### Hex2Sim: the simulator

`AssembleHex2(p)` is `assemble_hex2`: `Walk` is its inner function, a fold over the items.
`Agrees` compares its outcome with the linker's. The Python dictionary is a function from
names to addresses, and `Assign` is its assignment, as it is in `Stage0Sim`.

### Fork and ForkSpec

A process has a thread (where it stands, EAX, whether it is inside a system call), an image,
a stack and the handles the kernel holds for it. The child's half (`LoaderInit`, `StartUp`,
`LeaveKernel`, `FlagTest`, `Park`, and `CallFork` for `__fork_setjmp`) is translated from
`libc-core.M1`. The parent's half is `fork` in M2libc's `process.c`, which the repository
names and uses but does not contain; it is modelled from the comments beside the words it
shares with `_start` and from the repository's README, and marked external in
`PROJECT.json`. Each remote call is a step of its own, so every interleaving with the
child's startup is explored, and with `Unsteady` any of them may fail and any process may
be killed at any point.

Stacks have committed pages and a guard page, because fork's copy overwrites the child's
guard page and has to commit the whole reservation first. The reservation is the constant
`Pages`; `README.md` of the repository calls it 2MB while the header `gen_header.py` writes
says 64MB, and nothing in the model depends on which.

`ForkSpec` is a program's view: one step makes a child that has everything its parent had,
apart from what fork returned. `AbsState` and `AbsLog` map the states of `Fork` to it; the
child comes into being when it is released.

### NextToken and CommandLine

`NextToken` is the loop of `next_token`, one action per turn, in its three versions (spaces;
spaces and tabs; with quoting and backslashes). The string is cut in place: `mem` is the
memory, `line` the history of what Windows gave. `argv` collects where each argument
starts. A run of backslashes is one action, since the code counts it first and then emits.

`CommandLine` states the rule by position in the line, with no cursor and no state
(`Argv`), and the joining half that `__spawn` has (`Join`; M2libc, external). `Ascending`
says by counting which position is the n-th of a set. What `__spawn` is given are strings, so
`ArgLists` is assumed to hold sequences of sequences of characters.

### M0, M0Meaning and M0Arena

`M0` is the program in passes: the tokenizer's actions (`SkipBlank`, `SkipComment`,
`StoreAtom`, `StoreString`, `EndOfFile`), `ReverseList`, then `IdentifyOther`,
`IdentifyMacro` and `Fault` for `Identify_Macros`, `LineMacro` (one step per token, each
with its `Set_Expression`), and one step for each of the passes that look at every token on
its own (`ProcessString`, `EvalImmediates`, `PreserveOther`, `PrintHex`). `list` is the
linked list from `head` on; a token has its type, text and expression. `Fault` is the read
through a NULL `NEXT` when a `DEFINE` is one of the last two tokens.

Characters are byte values, because numbers and their hex are what two of the properties
are about. `NumerateString` and `ExpressNumber` translate those routines with their sign,
their order of tests and their wrap at a word; `LONG` is the bytes of a word, 4 in the code.

`M0Meaning` reads the tokens once, in order, with the definitions so far (`Meaning`, by the
functions `Learn`, `ReadToken` and `After`), and says what a number's digits stand for
(`Positional`) and what its bytes are (`LittleEndian`), without the code's accumulator.

`M0Arena` follows the memory behind the list until `Reverse_List`: `mem` is what has been
written past the end of the file, `malloc_ptr` the allocator's cursor, `cells` the address of
each token. One token is one action (`StoreToken`): two blocks, NEXT, the text, TEXT, and for
a string TYPE. The text has room for `STRSZ` bytes and is written for as long as it is;
its terminator, an atom's TYPE and every EXPRESSION are never written, because `malloc`'s
memory is expected to be zero. A byte is zero, a character, or part of a word. `M0`'s actions
are taken whole, so `M0` says what is in the file, and `M0Arena` for which tokens the list in
memory says the same when the passes begin.

### LibcStart

The memory past the end of the image, byte by byte. What a byte holds is what was last
written there: part of the k-th argument or entry, part of a pointer to an address, part of
a path or of a block, or zero. `LibcInit` is what malloc gives before the arguments are
stored, with the cursors `_start_main` then sets; `StoreArgument` and `StoreEntry` are one
turn of the two loops, pointer and string together; `ArgumentsDone` and `EnvironmentDone`
write the NULLs. A program then opens paths (`Open`, whose widening is two bytes a
character) and allocates (`Malloc`, M2libc, external), in any order. No action tests a
bound, because the code tests none, so every overflow is in the model. `argsEnd`, `envEnd`
and `pathEnd` are history: how far each kind of string came.

The six areas start at constants, in the order of the code's offsets. Strings are lengths,
and characters ASCII: a UTF-16 unit whose low byte is zero would end a string early.

### FileIO and FileSpec

Several processes run the same libc and have the same files open under the same handles, as
fork and spawn leave them; each has its own image, so its own `words` (`__handle`, `__bufptr`,
`__buflen`, `__filepos`, `__stdinfo_eof`) and its own three standard handles (`slots`). The
position of a file and what is in it are the I/O manager's and there is one of each. Each
routine that makes one call to ntdll is one action (`ReadByte`, `WriteByte`, `ReadBlock`,
`WriteBlock`, `Close`); `__lseek` is two, because it makes two calls and another process may
run between them: `SeekSet`, `SeekCur` and `SeekEnd` end where the position is about to be
set, `SetPosition` sets it. `Dup2` is what M2libc does with `__stdslot` (external). ntdll's
own calls (`NtRead`, `NtWrite` and their failures) are external, modelled from how they are
called, with no offset: a read past the end fails, a write past it fills the gap with zeros.

`Queried` is what a word holds after `fn_queryinfo`: the low half of the answer, or, when
the call fails, what it held before, since the status is not looked at. A position below
zero becomes one near `Word`, because the high half is always set to 0. Files in `Failing` may fail any
call at any time, as pipes and consoles do for seeks; calls on a closed handle always fail.
A handle whose number is given out again after a close is not in this model (it is in `Catm`).

`FileSpec` is what a program may count on: a transfer is one step at the shared position, a
seek is a `Look` and a `Move`. `Seeking` maps the words of a process between the two to what
it looked for and saw. That a seek is not atomic is part of `FileSpec` and not hidden by it: with a file
in common, even asking for the position (offset 0 from where it is) sets it.

### Hex0, Hex1 and Stage0Sim

One call of `read_byte`, with what the program does to its answer, is one action; `at` says
which of the calls comes next (the loop's, the one for the character after a sigil, the one
in a comment), so the end of the file can be met at each. `Hex0`: `Ignore`, `HoldDigit`,
`PrintByte`, `BeginComment`, `InComment`, `CommentEnds`, `Done`. `Hex1`: `Dispatch`,
`CountDigit`, `StoreLabel`, `CountPointer`, `CommentFirst` in the first pass,
`DispatchSecond`, `BeginPointer` and `StorePointer` (the `ip` is advanced before the
character is read), `DropName`, `HoldDigit`, `PrintByte`, `CommentSecond` in the second,
`RewindInput` and `Finish`. The end-of-file marker -4 is not a character, and the code does
not test for it behind a sigil. After a `':'` it names the slot 16 bytes before the table,
which lies across `ip` and `toggle`; `RewindInput` resets both, in the same action. After a
`'%'` the same four bytes are read as an address (`DanglingPointer`, `BelowTable`).

No status but the sign of NtReadFile's is looked at. A file that cannot be opened
(`readable`, `writable` false from `Open` on) or is lost later (`LoseInput`, `LoseOutput`,
external) is one that no call succeeds on any more: reads are the end of the file, writes
and the rewind do nothing, and the exit status is 0. A loss is permanent, as it is in hex2: a
single read or write that fails between others that succeed is not modelled in these three
(it is in `Catm`), and what is said of losses does not speak of it. Both arguments are given. One that RtlDosPathNameToNtPathName_U cannot convert is covered where it matters
here: `open_file` then opens what `nt_path` held, nothing for the input (`readable` false), and
for the output the input's own path, which sharing refuses while the input is open
(`writable` false; if the input could not be opened, nothing is read and nothing written).
hex2 opens its two files in the same order.

`lands` and `rels` are history, as is `mark`: where the output stood at each character's
last label in the second pass, and what each pointer came to. `Stage0Sim` adds `tool`, which
of the two programs runs, and translates the two Python assemblers as folds over the input,
with the dictionary of `assemble_hex1` as a function (`Assign`).

### Catm and ConcatSpec

A step is one turn of the copying loop (a read and the write after it), or the opening or
closing of a file. `handles` is the process's handle table: file, right and position; a
handle that is closed may be given out again. `Opens` and `Closes` are NtCreateFile and
NtClose, `Shareable` is what FILE_SHARE_READ allows, and `MayFail` a read or write that
fails once. `OpenedHandle` is the return value of `open_file` without `check_status`, that
is `g_handle` in either case: 0 before anything has been opened, then the last handle that
was. A write that fails leaves a hole; a read that fails ends the input.

`nt_path` is the other word that may be stale. `open_file` ignores the result of
RtlDosPathNameToNtPathName_U, so for an argument that cannot be converted (`NoPath`: one that
is empty, as `next_token` makes of `""`, or too long, or whose conversion fails for any other
reason) `NtPath` is the path converted before, and NtCreateFile opens that file again: with
`catm out a ""` the output holds `a` twice. Before any conversion it is empty, and nothing
is opened. A command line without an output is one whose output cannot be converted.

Which files exist, what is in them, the command line and whether the output can be opened
are chosen in `Init`.

`ConcatSpec` takes a piece of the current argument's file or passes over it, and turns to the
next argument; `lost` remembers that something was passed over. `Catm` maps to it the input's
position, the output, and for each argument the file it stands for (`Named`: its own, or that
of the last argument before it that could be converted) as it stands; the output itself,
named as an input, has nothing in it by then. `Named` looks at the command line only, `nt_path`
is what the steps made of it. So each file's bytes are written at most once for each argument
that stands for it. `WhatMissingCosts` compares the output with the files that are there
(`Present`), joined.

## 4. The runs

| run | specification and bounds | question |
|---|---|---|
| `hex2` | `FairSpec`; every input of up to 4 items out of 10 kinds; a table of 3 fields; either file refused or lost at any step | do the two passes agree, are addresses and statuses right, does the simulator agree, what does a loss leave |
| `hex2_longname` | names of two fields | is an undefined name always fatal (violated) |
| `hex2_simulator` | any input of up to 3 items | does the simulator resolve "exactly as the ported hex2 does" (violated) |
| `fork` | `FairSpec`; 3 processes, forks nested or in a row, any failure, any death | is the handshake safe, does it end, is it `ForkSpec` |
| `cmdline` | `FairSpec`; every line of up to 6 characters, and every line `__spawn` writes for one argument of up to 3, alone or beside a fixed one | is splitting right and the inverse of joining |
| `m0` | `ArenaSpec`; every file of up to 4 pieces out of 11, every prefixed number of up to 4 characters, some at the wrap, atoms and strings of up to 91 characters with up to two tokens behind them; words of 3 bytes, room for 8 characters | do the passes give the file's meaning, what does an overlong text spoil |
| `m0_bare` | numbers without a prefix, prefixed text in lower-case hex | is anything else passed through (violated) |
| `hex1` | `OneSpec`; hex0 and hex1, every input of up to 4 pieces out of 9 (a digit, two digits, a label, a pointer, a sigil alone, both comment signs, a new line); either file refused or lost at any step | do pointers hit their labels, do the programs write what their simulators do, is hex1 hex0 without labels, do they end |
| `catm` | `FairSpec`; up to 3 inputs out of 3 paths, the output among them, any argument one that cannot be converted, each file missing, empty or up to 3 bytes long; a buffer of 2, handles 1 and 2, up to 2 failing reads or writes | does catm concatenate, does it touch another file, what does a missing file or an argument that cannot be converted cost, does it end |
| `libcstart` | `Spec`; areas of 6 or 12 bytes, three pointers each; up to 4 arguments and 3 entries, of up to 3 characters | do argv, envp and the heap keep apart, as far as their own limits go |
| `libcstart_full` | the same, up to 3 arguments and 3 entries | do the limits the file states suffice (violated) |
| `file` | `Spec`; 2 processes, 2 files of 3 bytes in common, one of them failing at will; 3 calls, reads and writes of 1 and 2 bytes, offsets -1 and 2; a word wraps at 6 | are the calls `FileSpec`'s |

### What the passing runs show

* `hex2`. `IpIsFilePosition`: in the second pass `ip` is the end of the file. `LabelLands`:
  the first pass's address of a name is where the second pass gets to its first definition,
  though one counts a byte at its first digit and the other at its second, whatever splits
  a byte in between. `UndefinedIsFatal`, `FailureIsDeserved`: the status says what
  happened; an exit of 0 vouches for the names up to the item an input was lost at, and for
  no more. `AgreesOnPlain`: on inputs such as the generators write, the simulator is the
  linker; after a loss the output is the beginning of what the simulator emits, but for the one
  pointer that broke off, so no loss shifts or changes a byte before it. `Termination`, whatever
  is lost. Four items are enough for a label inside a byte, a label and two
  pointers of different widths, a name defined twice and used, and a table one over its limit.
* `fork`. `OnlyReleasedRunMain`, `StillWhileCopied`, `HalvesAgree`, `DescriptorsOpen` and
  `StackGrows` are the promises the comments in `libc-core.M1` and the README's account of
  fork make; `ForkComesBack` is its liveness; `ImplementsFork` is refinement of
  `ForkSpec`. Three processes give a child that forks in its turn and two siblings; a third
  page is one more than a copy needs to lose its guard page.
* `cmdline`. `UnreadIntact`: the write cursor never spoils what is still to be read.
  `ArgvIsRight`: the arguments are the rule's. `SpawnRoundTrip`: joined and split is the
  identity. `PlainAgrees`: the two versions without escapes follow the same rule on lines
  that only quote whole arguments, which is what the build script writes. `Termination`.
  Six characters hold two arguments with a run of two backslashes before a quote.
* `m0`. `MacroScope`: a token has the expression of the last definition of its name before
  it, and of no other. `OneReading`: the output is the meaning of the file, and a fault
  happens only for a definition that is cut off. `ImmediateIsExact`: a prefixed number is
  written as that number modulo its width. Four pieces hold a definition, a redefinition and
  a use before, between or after them. Words are three bytes in this run because TLC's own
  integers have 32 bits; the wrap is then at 2^24, and the sources hold numbers on both
  sides of it. `ListIsKept`: whatever lengths the texts have, NEXT and TEXT of every token stay
  right, since both are written after all that could reach them; and a token is whole if its
  own text leaves room for the terminator and no text read before it gets as far as its TYPE.
  The texts end just before, in and just past the first fields of one and of both of the
  tokens behind them.
* `libcstart`. `ArgumentsIntact`: a command line that fits stays whatever the environment and
  the paths do. `EnvironmentIntact`: an environment that fits stays while the paths do.
  `HeapIntact`: blocks given out before and after the arguments are stored keep what was
  written. Two arguments just fit; a third and a fourth, or longer strings, overflow the
  pointers or the strings, and the longest path overflows its buffer. Its type invariant is
  proved and not run, as is that of `catm`.
* `file`. `ImplementsFile` is refinement of `FileSpec`: bytes, counts and positions are right
  for every interleaving of two processes, a write behind the end leaves zeros and not what
  was there, `SEEK_END` measures from the size and not from the last position, and a failing
  call leaves every file alone. Three calls are enough for a seek by one process with a
  transfer by the other in between, for a query that fails after a seek of another file,
  and for a write behind the end that is read back. Data is two bytes and a file three, so a transfer of
  two may be whole, short, or end the file; with a word of 6 the offset -1 wraps.
* `hex1`. `PointersHit`: a pointer leads from its end to where the bytes after the
  character's last label are, a label inside a byte being after that byte. `SeedAsSimulated`
  and `AsSimulated`: the programs write what `assemble_hex0` and `assemble_hex1` do, and
  after a loss the beginning of it, but for the one pointer whose name could not be read.
  Four pieces hold a label inside a byte, a label
  given twice with a pointer between or after, a comment the file ends in, and a sigil at the end.
  `AsSimulated` leaves out two kinds of input. On a sigil with nothing after it
  `assemble_hex1` raises IndexError. For a label between the two digits of a byte hex1 counts
  that byte before the label and `assemble_hex1` after it, although its docstring says
  "exactly as the ported hex1 does" (`stage0asm.py:258-259`); no file of the chain has one.
* `catm`. `ImplementsConcat` is refinement of `ConcatSpec`, whatever fails.
  `OnlyTheOutput`: a handle closed too early may come to stand for an input, and that input is still not written to.
  `WhatMissingCosts`: if the first input cannot be opened or converted (`nt_path` is then the
  output's), `in_handle` is the output's handle, `close_input` closes it, and the output stays
  empty whatever follows; any later one that is missing costs only itself, and any later one that
  cannot be converted is the file before it once more. The banner of `gen_catm.py` says
  "argv[2...]     paths, read in order and appended to it", which is so of those that can be
  converted. The exit status is 0 in each case, so that a build script's `|| goto :fail`
  behind hex0, hex1 or catm is never taken. Two handles are enough: catm
  never has more than two open, and the third file opened must then use a number again. A
  buffer of 2 bytes makes a file of 3 take two turns, with a short one at the end.

### What the violated runs show

* `hex2_longname`: `store_label` copies 64 or more characters past the name's field, where
  the next label overwrites the tail. `get_target` then finds a name that no label
  defines, and hex2 exits 0, while `gen_hex2.py` says "An undefined label is fatal".
* `hex2_simulator`: `assemble_hex2` looks up a pointer's base only where it will use it, and
  treats an empty base name as none. hex2 looks up every base. Its docstring says "exactly
  as the ported hex2 does".
* `m0_bare`: `Eval_Immediates` takes the first character as the width prefix without
  testing it, so `:0` or `E8` outside quotes is replaced by a byte, while the banner says
  anything else is passed through. Nor is a prefixed text that is no number: it gives 0, and
  the caller accepts 0 if the first digit is `0`, so `%0a` is written as four zero bytes,
  though the entry for `numerate_string` says the caller can tell the two apart.
* `libcstart_full`: an array with as many pointers as it has slots has no slot for its NULL,
  which is written over the first string. The head of `libc-core.M1` says "more than 256
  arguments" and "more than 1024 entries" are what runs past an area; 256 and 1024 already do.
  (Its limit for a path, 2048 characters, is on the other side: the buffer holds 16384 with the NUL.)

Two smaller facts met on the way. `ImmediateIsExact` is worded around one: a value that is
0 modulo 2^32 and does not start with the digit 0, such as `!-0`, is passed through as text. And
what a seek answers (`to` in `FileSpec`) is where it meant to go: on a file that has no position, or
whose query failed, no file is there, though `libc-core.M1:594` says "Returns the new
position in EAX" and line 649 "Which is where we now are". `FileSpec` therefore takes any place
for the base of such a seek, and no property says what it was.

## 5. Fairness

`Termination` of the splitting and of catm assumes `WF_vars(Next)`, and that of hex0, hex1
and hex2 `WF` of the program's own steps (losing a file is not promised): one thread that
never waits on anything runs until it exits. `fork` assumes that the scheduler runs every thread
that can run (`WF` of what a thread has begun), and that a parent that cannot go on, because
there is no process to be had or its child has died, is told so by the call it makes. What
a program chooses to do (fork again, open, end) and arbitrary failures are not promised.

`CHECK_DEADLOCK` is off where the system ends: the programs exit.

## 6. What is proved

All for arbitrary values of the constants.

* `Hex2Proofs`: `TypeCorrect`, `IpTracksFile`, `LabelsLand`, and `UndefinedNeverResolves`
  (assuming that no name is longer than a field, `Full = {}`; the run `hex2_longname` shows
  the assumption is needed). The inductive invariant adds to the properties: `Chain`, by
  how much `ip` and `toggle` move from each item to the next in the first pass; `Lockstep`,
  that the second pass stands where the first one stood at the same item, up to the byte
  that is half read; and `Filled`, what each field of the table holds and which label put it
  there. Each holds as long as what it speaks of is not lost: a lost input ends `Chain` and
  `Lockstep`, a lost output only the equation of `ip` and the length of the file; what remains
  of `UndefinedIsFatal` then is the names up to the loss. Neither pass's property is inductive
  alone: `LabelLands` needs to know what the other pass counted, many steps ago, at the same
  place.
  `FailuresDeserved` (`FailureIsDeserved`): a failing status has its reason in the input.
  `PortAgrees` (`AgreesOnPlain`): on plain input the linker writes what the simulator
  emits, refuses what it refuses, and writes a beginning of it after a loss. The
  simulator is a fold over the whole input, the linker a step at a time, so the invariant
  (`Sim`) states what the simulator's second walk has come to at the items read so far:
  `Beside` (what has been written is what has been emitted) and, once a file is lost,
  `Astray` (it begins what is emitted). The first walk is compared with the history the first
  pass keeps (`Along`, `HalfMarked`), so the table is the Python dictionary (`Dictionary`) and
  every pointer has the same target (`SameTargets`).
* `ForkProofs`: `TypeCorrect`, `CopiesStayOut`, `CopiesAreStill`, `StackMatchesImage`,
  `DescriptorsStayOpen`, `StackAlwaysGrows` and `ForkImplementsForkSpec`, for any number of processes and forks, any failure and any
  death. The invariant describes a process not yet released by its stage (`Unmade`,
  `Stage`), says that each has exactly one live parent making it or none (`Owner`), and
  that a released one has nothing of the handshake left over. For the descriptors it adds
  that a child being made holds all its parent does (`Inherits`), for the parent opens
  nothing until it is done; for the stacks, that one without a guard page is committed
  whole (`Room`). The refinement maps `Release`
  to the abstract fork, `Fail` to a failed fork, `End` to the end of a process, and every
  other step to a stutter.
* `NextTokenProofs`: `CursorsOnTheLine` and `NeverCutsAhead`, for every line and version.
  The invariant adds that the write cursor trails the read cursor.
  `ArgumentsAreTheRules` (`ArgvIsRight`): the shared `next_token` splits every line as the
  rule does. The rule speaks of sets of positions and of nothing that is remembered; the
  invariant (`ByTheRule`) ties the cursors to it by counting. The write cursor stands as far
  behind the beginning of the argument as characters of it survive up to the read cursor, and
  each survivor is stored at its count (`Compact`); each argument begun is in `argv` at its
  count (`Recorded`) and, once finished, reads as the rule's up to its terminator (`DoneAt`).
  `PlainLinesAgree` (`PlainAgrees`): so do the two versions without escapes on lines whose
  quotes are around whole arguments; there an argument is a piece of the line as it stands
  (`Whole`, from `Begin`, listed in `Returned`).
  `WhatIsJoinedArrives` (`SpawnRoundTrip`): whatever list `__spawn` joins comes back. It
  is a fact about the rule alone, `Argv(Join(args)) = args`, and does not depend on the
  program. `Layout` says where each piece of a flattened sequence stands, `Shown` puts each
  character of an argument at its place in the line. A backslash is followed by a run up to a
  quote in the line exactly if `Join` doubled it (`BeforeDoubled`, from the end backwards),
  an even number of backslashes stands before each place where that matters (`EvenBehind`,
  forwards), so only the last character of each spelling survives (`LastSurvives`) and only
  the quotes around the argument delimit (`QuotesDelimit`).
* `M0Proofs`: `TypesOK` (`TypeOK`): every text and expression is of its type in every pass,
  a file offers only characters, and a token is not empty (`Solid`); the folds an expression
  is made by give sequences of characters (`DigitsType`, `FlatType`).
  `MacrosInScope`, for every file. The invariant says that before the macros are
  applied every token has no expression (`FreshToken`), and that after n of them the list
  is in `Scope` up to n, which is `MacroScope` at the last one.
  `PassesAreOneReading` (`OneReading`): the passes write the meaning of the file, and stop at
  a fault only where a definition is cut off. Between the passes the invariant relates list and file:
  while the macros are identified, what is still to be looked at is the file's own rest, and
  what has been gives the lines and names of the reading so far (`Level`, `Known`);
  afterwards the whole list gives the reading's lines (`Rendered`), and each of the later
  passes leaves its tokens in a form of its own (`Stringed`, `Evaluated`, `Preserved`).
  `NumbersAreExact` (`ImmediateIsExact`): an immediate is its number modulo its width, in
  little-endian bytes, for any word and any digits. The accumulator of `NumerateString`,
  which wraps at every digit, is the positional value modulo a word (`DigitsAre`), the
  bytes `ExpressNumber` takes off sum to the value modulo their weight (`OutsAre`, `SumIs`), and a
  width's weight divides a word's (`WeightDivides`).
  And `ListKept` (`ListIsKept`), for every file and any room. Blocks are given out
  upwards (`Blocks`), and nothing has been written past `malloc_ptr` but the ends of texts
  (`Written`), so a new token finds zero wherever no earlier text reached. The lemmas say what
  a write leaves alone (`Grown`, `OldKept`). `ArenaFollowsM0` (`ArenaSpec => Spec`) carries
  what is proved of `M0` over.
* `LibcStartProofs`: `TypeCorrect`, `ArgumentsStay`, `EnvironmentStays` and `HeapStays`, for
  every layout in the right order and every input. The lemmas say what a write leaves alone
  (`FillAt`, `PutAt`), that strings in bytes left alone stay stored (`StoredKept`,
  `ArrayKept`), and that a write past them stores one more (`PutStores`). The invariant
  follows the cursors through the two loops (`ArgumentsSoFar`, `EntriesSoFar`): as long as
  they are inside their areas, all strings so far are stored and the heap is untouched. The
  properties speak of `main` only and are not inductive without it.

* `Hex1Proofs`: `TypeCorrect`, and `PointersAreRight` (`PointersHit`) for every input over
  any set of bytes. The first pass is a walk of its registers over the input (`After`, one byte),
  which `mark` keeps (`FirstWalk`, `Walk`). The second pass does the same walk seen through
  `Follow`: its `ip` is behind by one while half a byte is held and ahead by four while a
  pointer waits for its name, and the places its labels land at (`lands`) stand for the
  table (`Lockstep`). So both end with the same table, and `Hit` says every pointer leads
  where the table says. A loss breaks the lockstep for good, which is why the property
  speaks of whole runs.
  `SeedAgrees` (`SeedAsSimulated`) and `LinkerAgrees` (`AsSimulated`): hex0 and hex1 write
  what `assemble_hex0` and `assemble_hex1` do, and a beginning of it after a loss. As for hex2,
  the invariants (`Seed`, `Sim`) give the value of the Python fold at the character read next.
  `EitherIsSound` carries `TypeOK` and `PointersHit` over to `OneSpec`, the specification the run checks.
* `FileIOProofs`: `TypeCorrect` and `CallsImplementFileSpec` (`ImplementsFile`), for any
  processes, files, failures, data and word. The invariant is the type invariant: what a
  seek has to remember between its calls is in the words of one image, which no other
  process writes. The lemmas say what a read takes and a write leaves, byte by byte
  (`GotIs`, `WrittenIs`), and match each call to a step of `FileSpec` (`ReadStep` to `MoveStep`).
* `CatmProofs`: `TypeCorrect`, `WritesOnlyTheOutput` (`OnlyTheOutput`) and `Implements`
  (`ImplementsConcat`), for any files, any command line, arguments that cannot be converted
  included, any buffer, any set of handles and any number of failures. `Tracked` says that `nt_path`,
  converted for this argument or kept from another, is what `Named` reads off the command line. The invariant says which handles can be open: a handle open
  for writing is the output's (`Writers`), so whatever `out_handle` has come to stand for, a
  write reaches the output or nothing; one open for reading is `in_handle`'s, during an
  input (`Readers`); and `in_handle` is the input's, or stale, and then either nothing is
  there to be read or the output was closed before a byte was written (`Current`,
  `Untouched`), so that the output read as an input is the nothing `ConcatSpec` takes it for.
  `MissingCosts` (`WhatMissingCosts`): `InOrder` says that as long as nothing has been passed over the
  output is the inputs read so far, joined; `Cost` says why nothing is passed over unless a call
  fails or the first input is missing, and that in the second case `in_handle` is the output's handle
  until it is closed, and no handle for writing is left.

The technique common to the folds: a fold or a recursive function is not defined for the
prover by its equation, so its existence is proved first, by climbing through the numbers up
to a bound (`Climb`, from the well-foundedness of the naturals), and then what it gives one
step further. No induction theorem with an operator for a parameter is needed.

Assumptions are the named ones beside each module's CONSTANTS; TLC evaluates them in the runs.

### What is model-checked only

Liveness: `Termination` (of hex2, of hex0 and hex1, of catm, of the splitting) and
`ForkComesBack`. They rest on fairness and so on ENABLED, which the prover does not
handle. The violated runs are counterexamples and have nothing to prove.

## 7. What is not modelled, and why

* The rest of the shared plumbing (`resolve_all`, `fgetc`, `fputc` and the exits): planned in
  part (section 2).
* In libc, `__exit` and `__ntdll`, `__teb` and `__peb`, which give out one address each, and
  `__open` beyond its buffer: what `open_file` does with a handle, and with a name it cannot
  convert, is in `Catm`. libc's copy tests NtCreateFile's status but not the conversion either, so
  there too such a name opens the file named before it.
* The build script is a list of commands, each of which stops it at a failing status; hex0,
  hex1 and catm never give one. The comparison of the new hex0 with the seed that its first
  comment asks for is not made in it.
* In catm, the memory ntdll allocates for each path (the buffer of `nt_path`), which the program
  never frees.
* In M0, what the passes make of a token that an overlong text has spoiled (`M0Arena` says which
  tokens those can be), the opening of the files, and calls that fail.
* cc_x86: the compiler's own grammar is upstream's, and 4,900 lines of it; its reader is planned.
* The POSIX layer is M2libc's and not in the repository. The fork described in the README
  through `RtlCloneUserProcess` is not modelled; the copying fork is.
* PE header, `Asm`, `pe32emit` and the checkers have no state at run time. They lay out
  constants and text, and stop with an assertion when what they wrote does not read back.
