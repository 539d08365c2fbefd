# Specifications of the CS229 assignments

TLA+ models of the programs under `src/`, checked with TLC, and theorems about
them checked with TLAPS. The repository holds six assignments in C, C++ and
x86-64 assembly. The last one, a calculator that several clients use at once
over TCP, is where the hard behaviour is, and comes first here.

## 1. The system

| component | source | state | operations | interacts with |
|---|---|---|---|---|
| shared calculator | `csf_assign06/calc.cpp` | `map<string,int>`, a mutex | `calc_eval` (and create, destroy) | called by every thread of the server |
| concurrent server | `csf_assign06/calcServer.c` | `client_conn[]`, `maxfd`, the globals `shutdown_volatile`, `cnt`, `semaphore`, a `struct Client` per connection | accept loop of `main`; `worker`, `chat_with_client` per client | kernel sockets and descriptors; calculator; clients |
| sequential server and calculator | `csf_assign05` | the map; one session at a time | as above, without threads | clients, one after the other |
| robust I/O | `csapp.c` | `rio_t` buffers | `rio_readlineb`, `rio_readnb`, `rio_writen`, wrappers | between the servers and the sockets |
| interactive calculator | `csf_assign05/calcInteractive.c` (the same in `csf_assign06`) | one session on the terminal | read, evaluate, print | calculator, robust I/O |
| cache simulator | `csf_assign03/cache.c`, `main.c` | sets of blocks with tags, valid and dirty bits, two time stamps; counters | one per line of the trace | reads a trace |
| arbitrary precision integers | `csf_assign01/apint.c` | a vector of 64-bit limbs and its length | add, sub, compare, shift, conversions | called by clients |
| postfix calculator, C and assembly | `csf_assign02` | a stack of 20 longs | push, pop, tokenise, evaluate | two implementations of one specification |
| image processor | `csf_assign04/imgproc.c`, `image.c` | loaded plugins, an image, plugin arguments | load, parse, transform, write, clean up | `dlopen`ed plugins, pnglite |
| image plugins | `csf_assign04/{expose,mirrorh,mirrorv,swapbg,tile}.c` | none | `parse_arguments`, `transform_image` | image processor |
| pnglite | `csf_assign04/pnglite.c` | `png_t`: header, read buffer, inflated data, zlib stream | open, read a file chunk by chunk, inflate, unfilter; write a file; close | images; zlib, stdio, malloc |
| `tctest` | `csf_assign05/tctest.{h,c}` (the same in 1 and 2) | counters, the line of the last ASSERT, a jump buffer, the signal mask | TEST, ASSERT, FAIL, the signal handler | the unit tests |
| unit tests | `csf_assign05/calcTest.c`, `csf_assign02/cTests.c`, `csf_assign01/apintTests.c` | a fixture, the replaced `exit` of `cTests.c` with its own jump buffer | the tests | tctest, calculators, big integers |

What is hard in each, and what has to hold:

- **Calculator.** Threads interleave inside `evalExpr`; an assignment reads and
  writes; a failed assignment falls through to a second evaluation of the line;
  one of the two exits unlocks in a place of its own; `stoi` throws out of it.
  It must look like one atomic object, and never leave the mutex taken behind
  a call that returns.
- **Server.** `main` polls with `select` while threads close descriptors that
  the kernel hands to the next client at once; a connection passes from the
  table to a thread that is already running when the table is cleared; `cnt` is
  counted without protection; `shutdown_volatile` and `cnt` are read one after
  the other; the semaphore admits `MAX_FD` threads; clients close, reset, and
  send lines that end the process. Sessions must not mix, each line must be
  answered in order by the session it came from, no client may starve another,
  no slot may be lost.
- **Cache.** A long run of hits, misses and evictions must keep each block once,
  evict by the policy, and charge for exactly the words that move.
- **Big integers.** Carries and borrows over limbs, lengths without leading
  zeros, shifts by multiples of 64.
- **Postfix.** Stack limits tested in time; division that traps; the assembly
  must do what the C does, with its locals side by side in one frame.
- **Image processor.** Whatever fails, what was acquired is released once.
- **Robust I/O.** Short counts, interruptions, lines longer than the buffer.
- **pnglite.** Data come in any number of chunks, the read buffer is replaced when
  one is longer, every call may fail with some blocks allocated, and hardly any
  result of a read is looked at: a file that is damaged or cut short must give
  an error and no wrong picture, nothing may stay allocated, and the loop over
  chunks must end.
- **Unit tests.** Code under test that crashes, exits or answers wrongly is left by a
  jump out of a signal handler or out of `exit`. The run has to survive it, count each
  failure once, and blame an assertion of the test that failed.

`PROJECT.json` lists every component with its status, and the hazards line by
line with the properties that cover them.

## 2. Modules

| module | what it is |
|---|---|
| `Calc` | the evaluator: tokens, `getVal`, `evalOp`, `evalOpr`, `evalExpr` as operators on a store, with C's `int` at a parameterised width |
| `AtomicCalc` | abstract: a calculator whose calls take effect at one instant between call and return |
| `CalcMutex` | `calc_eval` by many threads: lock, the two reads, the assignment, the fall-through and the two unlocks as steps of their own |
| `CalcRequests` | the lines of a session |
| `CalcService` | abstract: what each client is promised, over all sessions |
| `CalcServer` | `main`, `worker`, `chat_with_client`, with descriptors, sockets and clients |
| `Cache` | the simulator: parsing of the organisation, `is_hit`, `evict`, the handlers, one action per way through them |
| `CachePolicy` | abstract: each set a queue of memory blocks, a set of unsaved blocks, a price per word moved |
| `CInts` | C integers of a parameterised width: wrapping, truncating division, what traps |
| `PostfixChars`, `PostfixCalc` | the postfix calculator in C: `eval` with the functions it calls |
| `PostfixMeaning` | abstract: what an expression means, by reading it once from left to right |
| `PostfixAsm` | the same in assembly, over the words of the frame and from label to label |
| `ApInt` | the big integers: each function of `apint.c` on vectors of limbs, and a caller who chains them |
| `BigIntegers` | abstract: variables that hold integers |
| `Numerals` | what a sequence of digits or limbs stands for: Horner's rule |
| `Image` | pixels, PNG data, the arguments and the transforms of the five plugins |
| `Pictures` | abstract: what the plugins' descriptions say of a picture as rows of pixels |
| `ImgProc` | one run of the image processor, in which every call may fail, with what it holds at the time |
| `Rio` | robust I/O: `rio_t`, `rio_read`, `rio_readlineb`, `rio_writen`, the connection they work on, and the clients |
| `SeqServer` | the server of assignment 5 (`open_listenfd`, `main`, `chat_with_client`) and the interactive calculator, over `Rio` and `Calc` |
| `CalcSessions` | abstract: what a client of either program is promised, as lines and replies |
| `PngUnits` | what a PNG file consists of |
| `Pnglite` | reading and writing of a file, with what is allocated at the time; the filters (`png_unfilter`) on one line |
| `PngFormat` | abstract: the files that stand for a picture, by an encoder with every filter and any division of the data among chunks of any types |
| `PngFiles` | abstract: what the files of a picture by any encoder have in common, and which files can be told from them |
| `TcTest` | the macros of `tctest.h` and the signal handler, as steps of a test program |
| `CalcTest`, `CTests` | the tests of `calcTest.c`, and those of `cTests.c` that call one function at a time |
| `UnitTests` | the two test programs: `TcTest` on the models of the code they test, which may be broken |
| `MCCalcMutex`, `MCCalcServer`, `MCCache`, `MCPostfix`, `MCApInt`, `MCImgProc`, `MCPnglite`, `MCSeqServer` | instances for TLC |
| `CalcMutexProofs`, `CalcServerProofs`, `CacheProofs`, `PostfixProofs`, `ApIntProofs`, `ImgProcProofs`, `SeqServerProofs`, `PngliteProofs` | theorems, each module with the lemmas it needs about the operators of its model |

### Calculator

A line is a sequence of tokens; the classes are those that the code's tests on
characters can tell apart (`Dash` is `-` alone, which `isNumeric` accepts and
`stoi` rejects; `BadNum` stands for `--1`; `Junk` for a token that is neither
alphabetic nor numeric). An `int` runs from `IntMin` to `IntMax`; sums,
differences and products wrap, which is what the `-O0` build does, and
`INT_MIN / -1` traps. An exception of `stoi` crosses C frames, so it ends the
process: the outcome `Abort`.

In `CalcMutex` a thread's `pc` is its place in `evalExpr`: `Call` enters,
`Lock` is `pthread_mutex_lock` with the test on the first two tokens, `First`
and `Second` are the two `getVal` calls of `evalOpr` (the second with
`evalOp`), `Assign` stores and goes to the early unlock, `Fallback` starts again
on the whole line, `Finish` and `Unlock` lead out. The map is read in each of
these steps afresh, so the mutex does the work and not the model.

### Server

`CalcServer` runs one evaluation as one step; `CalcMutex` is the reason this
is allowed. Everything else that another thread could see in between is a step
of its own: the two reads of the loop condition, the test of
`shutdown_volatile` before `Accept`, `pthread_create` and the line after it that
clears the table, `P`, the load and the store of `cnt++` and `cnt--`, close, free
and `V`. `owner` is the kernel's descriptor table: `AcceptClient` takes the
lowest free one, `Close` frees it. `heap` is the life of `struct Client`.
A client may connect, send, close, or reset at any time; `EndProcess` is every
way the process ends (`Accept` without descriptors, `select` or `pthread_create` failing, an
exception, a trap, SIGPIPE, return from `main`).

### Cache

`Organisations` is what `parse_args` accepts of the arguments. One action per way
through `main`'s loop body: load hit or miss, store hit, store miss with and
without allocation, and a line of another type, for which `is_hit` has already
stamped the block. `ts` is incremented with the line, `Loaded` and `Touch` write
the new value. Counters have no width (see the hazards). For `RefinesPolicy`, the queue of a set is its valid blocks
as memory blocks (`Held`), sorted by the stamp that the policy goes by (`Sorted`): the order of `CachePolicy` is kept by
moving, that of the program by numbers.

### Postfix calculators

Both evaluate one string, whose characters are their codes, with one step per call
and per round of a loop. In `PostfixCalc` the C locals are variables. In
`PostfixAsm` they are the words of one frame (`S`, `Count`, the stack,
`Tmp`, `Right`, `Left`), which the assembly functions write through pointers:
nothing in the model keeps a push from running into `Tmp`, only the test of
`stackPush` does. Words never written hold anything in `Garbage`. Actions bear the
names of the labels. `InC` reads the C variables off the frame and the
registers; the assembly's steps that the C has no name for (tests, jumps,
moves between words) are stutters. `PostfixMeaning` has no program in it: its recursive function `Reading`
gives, for each number of characters, the values and the number under way, or the first error. `EvaluatesPostfix` says that
the assembly ends with that, and `RefinesC` takes it over to the C.

### Big integers

A limb has `LimbDigits` hexadecimal digits of `HexBits` bits each: 16 and 4 in the
program, 2 and 1 in the runs, and every carry, borrow, mask and shift count is
taken from the two constants. `reg` is a caller's variables; an action calls one function and keeps its
result. `Garbage` is what `realloc` may leave in words that are
never written. `Avoid` names what the caller stays away from: the differences
that lose a limb (the third disagreement below) and the shifts that leave a gap (met on the way, below). The integer that
a representation stands for is the refinement mapping to `BigIntegers`.

### Image processor

`pc` goes through `main`, `loadPlugins`, `img_read_png`, `transform_image`,
`img_write_png`, `destroyPlugins`. `life` is a ledger the program does not have:
each of the directory, the plugin list, the PNG structure, its pixels, the
arguments and the two images is free or held, and `Touch` marks it "wrong" when a step
uses it after its release, releases it twice or acquires it again. A call fails
in the model where the code looks at its result. `Leaks` says exactly
what is not released on some ways out: the arguments, which `transform_image`
would have freed, when the image cannot be read; and the file that pnglite
opened, when its header is no PNG header. `img_write_png` tests the result of
`png_set_data`, which reports no failure of a write: the output file is complete or `Partial`, and the program
cannot tell which (met on the way, below). Exits through `printErr` before the clean-up
leave it to the end of the process. Factors are fractions, whose products with a component truncate as
the conversion from `double` does; a negative tile count wraps modulo `UintMax + 1`, to a number that is
small in the runs and so huge in the program that the loops over tiles practically never
end.

### Sequential server

`Rio` has a byte stream per client and the three places a byte goes through:
`buf` (the unread part of `rio_buf`), `line` (`linebuf` as far as it is filled),
`out` (what `rio_writen` still has to write). `read` may return and `write` may take
any number of bytes from one up; `EINTR` changes nothing and is no step. A byte is a
token, a newline or a carriage return, so a line is cut between tokens only.
`SeqServer` adds `open_listenfd` over a list of addresses, each of which may fail in
`socket`, `bind` or `close`, and the loop of sessions. `main` does not look at what `open_listenfd`
returns: `Accept` on an invalid descriptor ends the process (`AcceptInvalid`).
The mapping to `CalcSessions` puts the three places together: what is still to be
answered is `line`, `buf` and the stream; what was said is what
the client has and `out`.

`program` tells the server from the interactive calculator, which is the same loop
(`Chatting`) on a terminal that is there from the start: one `Chat` in place of
`open_listenfd` and `Accept`, no `shutdown` command, and the end of the process after
the session. The terminal is a client that types ahead.

### pnglite

A file is a sequence of units: words of four bytes, chunk types, headers, check sums,
and the symbols of compressed data, each of which stands for some bytes. A call of
`file_read` takes whole units or comes to the end. zlib is external: `Inflate` takes symbols as long as there is room
for their bytes and reports the end, noise, or lack of room. A file under
test comes with the picture it stands for (`meant`) and whether it is whole (`sound`); `failed` notes that a call
pnglite depends on has failed. `heap` is a ledger of what is allocated; `Alloc` and
`Free` note a misuse. `Garbage` is what fresh memory
holds. `pc` goes through `png_open_file_read`, the loop of `png_get_data`
(one action for each way through `png_process_chunk` and each function below it), the clean-up behind it, the
lines of `png_unfilter` and `png_close_file`; or through
`png_set_data`, whose file is then read. Sizes are of a width, `UIntSize`, as the code's are unsigned; headers and pictures are
those whose products it holds (`SizesFit`, section 5). On the way out the disk may fill up at any write,
which pnglite never notices. 16-bit samples are swapped in place before
the filter is undone, as the code does on a little-endian machine.

### Unit tests

A test is a sequence of statements: an ASSERT with its line and the call it makes, a
plain call, and for `cTests.c` `expectedExit = 1` and a call that is to exit. The lines
and the expected values are those of the sources; two consecutive ASSERTs on one call
(for success and for the result) are one entry. The calls are evaluated by `Calc` and by the
operators of `PostfixChars`. In place of what the model computes, a call may raise a
signal, give a wrong answer, exit or fail to exit, up to `MaxFaults` times. A signal enters
`tctest_signal_handler` with the signal blocked, and the jump restores the mask that
`sigsetjmp(tctest_env, 1)` saved. `SIGILL`
is not in the handler's list and ends the run. `exit` of `cTests.c` jumps to `exitBuf` once any
test has set `expectedExit`, which none resets: a later test that exits jumps to a
frame that is gone (`stray`), and `EveryTestCounted` promises nothing from there on.

## 3. What TLC checks

| run | bounds | shows |
|---|---|---|
| `calc_mutex` | 3 threads, 2 calls each, 6 lines (plain, assignment, increment, failing assignment, failing, throwing), 3-bit ints | types; mutual exclusion; a value read stays right until it is used; no increment is lost; the mutex implements `AtomicCalc`; every call returns |
| `server_sessions` | 2 clients, one with 2 lines and one with 1 (an assignment or shutdown), 2 descriptors beside the listening one | types, `Ownership`, `SpawnedOnce`, that sessions implement `CalcService`, and that all a client has sent is answered whatever the other client does |
| `server_turns` | 3 clients, 1 line each (an assignment, a throwing line, quit, shutdown); 1 descriptor beside the listening one, 2 slots; symmetry of clients | descriptors reused at once, `Accept` out of them, threads that wait in `P`: slots are accounted for on every way out of a session, and sessions implement `CalcService` |
| `server_destroy` | 2 clients | expected violation, see below |
| `server_shutdown` | 2 clients | expected violation, see below |
| `cache` | 4 organisations (one set or more, one block or more, tags without bits), all 6 policies, 4 blocks of memory, traces of 5 lines | tags unique, stamps ordered, the oldest goes, and the simulator implements `CachePolicy`, cycles included |
| `postfix` | strings of up to 5 characters out of 6 (space, `-`, `/`, two digits, one that is no token) and some longer ones, a stack of 2, 3-bit longs | the frame keeps its types, the assembly implements the C, both compute what a direct reading of the expression gives, every string is dealt with |
| `apint` | 2 variables, up to 3 limbs of 2 digits of one bit, 3 words, 10 strings with leading zeros and signs, shifts by 0 to 5 | limbs fit, one representation per number, `compare`, `get_bits`, `highest_bit_set` and `format_as_hex` right, every chain of calls computes with integers |
| `apint_sub` | the same, all differences | expected violation, see below |
| `imgproc` | 16 files (up to 4 by 3 pixels; with and without alpha, grey, 16 bits), 5 plugin directories, 8 argument lists, all plugins | nothing is used after its release, nothing forgotten; the index arithmetic of the plugins covers the picture once; status 0 means the right output |
| `pnglite` | pictures of 2 by 2 (8 and 16 bits), 1 by 3 and 2 by 1, every pair of filters, 1 to 3 chunks of data, 0 to 2 others at either end or one in between; files cut short at every unit, damaged or with a unit lost; 11 odd files with right check sums; 6 refused headers; bytes of 8 values, unsigneds of 1024 | nothing used after it is freed, nothing forgotten; no wrong picture from a file that is cut or damaged; complete files are decoded; every call ends |
| `sequential` | server and interactive calculator: 2 clients, 6 scripts, a line buffer of 4 bytes, a read buffer of 3, up to 2 addresses. Unit tests: both programs, `cTests` also with the name of a test, 2 faults in the code under test, 2 signals | no descriptor left open, sessions implement `CalcSessions`, everyone is served; every test is counted once, and a crash is blamed on the right test |

Every property of a passing run has a seeded fault in `PROJECT.json`: an
operator such as `LockWithoutMutex` or `EvictNewest`, which stands before the
definition it replaces and breaks the property.

Why the bounds suffice. Races on the calculator involve two threads and a
third that waits; two calls per thread give stores that a later call finds. The
server's races are between `main`, a thread and its successor on the same
descriptor: one descriptor and two or three clients give all of them, the
second line of one client makes a session go round its loop, behind an answer to the other. In a set of two blocks, five lines are enough to fill
it, use the older block, evict and come back, which is where LRU and FIFO part. Five characters fill
a stack of two and overflow it, leave too many or too few values, and apply an operator
to the result of another; three bits make two digits overflow and reach
the least number divided by -1 in the longer strings. Three limbs have a lowest, a
highest and one between them, which is what carries, gaps and dropped limbs need; shifts by up to 5 cross
two limb limits. Pictures of 1 to 4 by 1 to 3 pixels are divided with and without remainder, by more than
they have, and have single rows and columns. Read and line buffers of different lengths, both
shorter than some scripts, put the end of either buffer at every place of a line; two clients are
a session and its successor. A picture of two by two pixels has the four cases of a filter (first line or not, first
pixel or not), and neighbours that are equally near for Paeth's. Chunks of different lengths in either
order make the read buffer grow or suffice. Two faults are a failed test and a later one that meets
what the first has left behind: the mask, the line, the jump buffers. The test suites
are those of the sources, on ints of 12 bits, which all their results fit in.

Fairness. `calc_mutex` assumes that a thread that can go on does, which is the
scheduler's part; each thread makes finitely many calls, so nobody is
overtaken for ever at the mutex. `postfix` and `pnglite` assume that the one thread goes on: there is
nobody it could wait for. `FairSpec` of the server assumes weak fairness of
the main thread and of each worker, and nothing of clients: they may stop in the
middle of a session. A thread that waits in `P` needs no more than that either: at most `MAX_FD - 1`
threads have a descriptor, so when no slot is free some thread holds one after
closing its connection. It has only `cnt--` and `V` ahead of it, which no client
can delay, and there are finitely many clients to overtake the waiting thread.
`EveryLineAnswered` is checked in `server_sessions`, with a descriptor for each client: while one waits for its
answers, the other may stay connected and idle for ever, be between its two lines, or go. The property gives up when the
process ends, after a shutdown, and on a client that leaves, which it may do with lines unread; no client
of that run quits, as what comes behind a quit is not answered. No thread waits in `P` there: there are three
slots and two clients. That a waiting thread gets its turn rests on the argument above and on `SlotAccounting`,
which `server_turns` checks with three threads for two slots: all slots that are not free are held by threads before their `V`.
`FairSpec` of the sequential server is weak fairness of its one thread, without the
failures of `accept` and SIGPIPE, which need not happen. One session can hold up all others
for ever there, so `EveryoneServed` has a premise: every client that comes
closes its connection at some time or loses it. The unit tests carry no liveness.

### Disagreements found

1. `server_destroy`: `main` leaves its loop when it reads `cnt = 0` after a
   shutdown, and destroys the calculator with its mutex. A thread is counted only
   at line 171, by itself; one that was just spawned evaluates on freed memory. The README of
   the assignment says that the shared data was made safe by the mutex.
2. `server_shutdown`: `cnt++` and `cnt--` are not atomic and run in
   several threads, as the semaphore admits `MAX_FD` of them. A lost decrement leaves `cnt`
   positive and the server polls for ever after a shutdown; `shutdown_volatile` is
   there "to signal a shutdown".
3. `apint_sub`: the loop of `apint_sub` that drops leading zero limbs (lines
   224-228) counts every zero limb above the lowest one, and does not stop at the
   first that is not zero. A difference with a zero limb below its top limb loses
   the top limb. The comments ask for subtraction and a "reduction of length as
   appropriate". `apint_add` has the same outcome for operands of different signs.

Met on the way and not stated as runs:

- Shifts that leave a gap: `apint_lshift_n` "shifts ApInt left by given number of bits"
  (apint.c:324). Shifted by more whole limbs than it has, a number is moved up and its
  old limbs are cleared (lines 346-349); the limbs between are never written, and hold what `realloc` left.
  Zero shifted by whole limbs gets leading zero limbs. `LeavesGap` names these shifts, and the run `apint` stays away from them.
- Half a file that counts as written: `img_write_png` "returns 1 if the PNG file was written successfully, 0 otherwise"
  (image.h:53). It tests what `png_set_data` returns (image.c:141), but that ignores the results of `png_write_ihdr`
  and `png_write_idats` (pnglite.c:828-829) and gives `PNG_NO_ERROR` whatever the disk does. `ImgProc` has the outcome, `Partial`; `OutputRight` is
  about outputs that are complete.
- pnglite accepts a stream that stops before its end, and a file without any data chunk:
  the picture then holds what the memory held. Neither a chunk's type nor the chunks
  it skips are checked against a check sum. The files of `NeverWrong` are cut or damaged
  where one stands against it; what a right file with odd contents gives is left open.
- After the first test of `cTests.c` that expects an exit, an unexpected one is
  no longer reported (`stray` above).

## 4. What is proved

For every value of the constants: any number of threads or clients (finite for the
concurrent server, whose slots are counted), any lines and requests, any int width, any
descriptor limit above one, any buffers and addresses, any cache organisation that `parse_args` lets
through, any strings and stack size, limbs of any width and numbers of any length, any plugin
directories, arguments and pictures, any files that pnglite can be given and any failures. Of pictures and PNG headers, any
whose sizes an unsigned of `UIntSize` values holds (`SizesFit`).
The assumptions are those named in the modules (`IntAssumption`,
`CalcAssumption`, `MutexAssumption`, `RequestsAssumption`, `ServerAssumption`,
`CacheAssumption`, `PostfixAssumption`, `GarbageAssumption`, `ApIntAssumption`, `ImageAssumption`,
`ImgProcAssumption`, `RioAssumption`, `SeqServerAssumption`, `SuitesAssumption`, `ByteAssumption`, `PngliteAssumption`);
TLC evaluates each of them in a run. They give the constants their types: scripts are sequences of
bytes, the files of the image processor have rows that fit their width and height,
those of pnglite are sequences of units whose sizes fit, and whose lengths and pictures are of their type, ints are wide enough for what `calcTest.c`
expects (`SuitesAssumption`: every statement of the two test programs finds what it asks for in the model of the code), and values such as
`Null`, which stand for nothing, are none of the things they stand beside. Some theorems ask for more, and state it as a hypothesis of their own: three about big integers, that the caller
is `Careful`, `Avoid = {"sub", "shift"}`, as in the run `apint`; `NoIncrementLost`, that the lines are `OnlyCounted`; and four about
pnglite, that the files to be read are `FilesClear` or `EncoderFiles`. That the lines and files of the runs are so is evaluated by TLC
(`MCCalcMutexAssumption`, `MCPngliteAssumption`).

- **`CalcMutexProofs`**: `TypeCorrect`, `Exclusion`, `NothingStale`,
  `Linearizable`, `NoIncrementLost`. Wrapping and division stay within the type (`WrapType`, `QuotientType`, from the bound
  `DivBound` on quotients), and so does evaluation. `MutualExclusion` alone is not inductive, and the refinement
  needs to know what a thread in the middle has seen. `IInv` adds
  `SoFar`: for each point between lock and unlock, what the thread holds in
  locals equals what `evalExpr` computes from the store as it is now, which
  others cannot change because of the lock; and `RestOfAssignment`: a thread that works on
  the rest of a line has an assignment. The step to the outcome then maps to
  `AtomicCalc`'s evaluation, every other step to a call, a return or a stutter.
  `NoIncrementLost` counts with a history variable what test_server_concurrent_stress.sh counts at the end: after every step
  `a` is the number of increments stored since the last reset, wrapped (`StrictCount`). The lines of `MCCalcMutex` are one instance; the
  theorem asks of any lines that they change `a` by an increment or a reset only (`OnlyCounted`, in the run by
  `MCCalcMutexAssumption`). `SoFar` says that the sum about to be stored is that of `a` as it is now, and `WrapAgain`
  that a wrapped count plus one, wrapped, is the next count wrapped; it needs that quotient and remainder are the only ones.
- **`CalcServerProofs`**: `TypeCorrect`, `OneOwner`, `SlotsAccounted`,
  `OneThread`, `ImplementsService`. `Ownership` needs `Links`: an entry of `client_conn` without a
  thread holds the connection accepted on that descriptor, a connection still
  queued has neither structure nor thread, the queue has no duplicates, and the
  entry being cleared belongs to a thread. With it, closing a descriptor cannot
  take it from another thread, and an accepted descriptor cannot overwrite an
  entry. `TypeOK` is not inductive without `SlotAccounting`: that `V` stays
  within `MAX_FD` follows from counting the threads that hold a slot. The refinement also needs
  `Asked`: `shutdown_volatile` is set, and `main` is on its way out, only when some client's line asked for it,
  and the line a thread is about to act on is of the kind that `ReadLine` found.
  What `CalcService` has of a session is what the thread has taken and not answered, with what
  has arrived behind it, so `ReadLine` is a stutter and `Evaluate` the step.
- **`SeqServerProofs`**: `NothingLeftOpen`, `ImplementsSessions`, `CountsEveryTest`, `BlamesItsOwn`. `Descriptors` says nothing of the places inside
  `open_listenfd`; `Open` adds what is open there, and `Places` that the interactive program, for
  which other descriptors are right, never gets there. For the refinement `IServe` adds that
  there is one session at a time, of a client that came and had none before (`OneSession`); that a line under
  way has no end before its last byte, and that a reply is to be written only while there is a client (`Reading`); and why
  a session is over (`Closing`). Fetching, taking and writing bytes move a boundary within one sequence, which `BytesMove`
  and `PieceFollows` show from the associativity of `\o`; `WholeFirst` and `PartFirst` make
  the line that was collected the first line of what the client had sent.
  `CountsEveryTest` and `BlamesItsOwn` are about the unit tests, for any signals and any number of faults, wherever they
  strike. `Counted` says that a failed test leaves nothing behind: the mask is empty again, the fixture of the next test
  is its own (`LeftBefore` is what the statements up to one leave), `executed` and `failures` follow `test` and `broken`. It is void once
  a stale `exitBuf` was used. `Blamed` holds even then.
- **`CacheProofs`**: `NoDuplicates`, `StampsOrder`, `OldestGoes`, `TypeCorrect`, `ImplementsPolicy`. `Stamps` and
  `UniqueTags` are inductive with the shape of the state; every action changes one block at most, and
  `ChangeKeeps` covers them all. `OldestGoes` uses that `evict` finds a least
  stamp (`EvictRight`) and that stamps differ. `TypeCorrect` has to know that a tag fits the bits
  that index and offset leave, which are laws of powers of two. The prover has none; here they
  come from counting: 2^n is the number of subsets of n things, and a subset of a sum is one of each part (`PowerSum`).
  The mapping of `ImplementsPolicy` is itself a sorting. That each set has one (`Sortable`) is inductive next to
  `IInv`, and as stamps differ there is no other (`OneSorting`), so it is enough to show one for the new state: the old
  queue with a block taken out (`SortsWithout`), and with the one stamped last put behind the others (`SortsAppend`). Use, fill and eviction
  are made of these (`TouchQueue`, `FillQueue`). A hit of the program is a place of the abstract
  queue because index and tag give the memory block back (`AddressSplit`), and prices agree because a block is a whole number
  of words (`WholeWords`, `CountsAccess`).
- **`PostfixProofs`**: `TypeCorrect`, `Implements`, `EndsWithMeaning`. `FrameOK` gives each word of the
  frame its use; it is inductive only with `Tokens`: that what `tokenType` found out still
  holds when the token is consumed, and that a NULL pointer is never
  followed. `Write` and `LongWords` say what a store leaves alone, and
  `SameOperators` that the C version's instance computes with the same functions. Each assembly step then
  maps to one C step or to none. For `EndsWithMeaning` the invariant `Meant` says at each place of the program that what has been
  read so far means what the frame and the registers hold: the values are the words of the stack, the number under way is in
  `rax`, an operator that was read and not applied is the step between two readings. The program reduces a number to the
  width of a long after every digit and the reading after the last one, which is the same
  (`WrapAgain`, `DigitsWrap`); and an error ends the reading whatever comes behind it (`FirstError`, `NoError`).
- **`ApIntProofs`**: `TypeCorrect`, `OneRepresentation`, `ImplementsIntegers`, `AnswersMatch`. The loops go up from the lowest
  limb with a carry or a borrow, while a number is worth what Horner's rule makes of it from the top
  (`Numeral`). `Tops` names what the limbs from each place on are worth; `Added` and `Subtracted` put the
  carry into the place below it, and the equation then holds in each place if a single round is
  right (`AddRound`, `SubRound`), wrapping included. For a difference the last borrow has to be 0, which follows when
  the first number is `Above` the second: it has the greater limb in the highest place where they
  differ. `apint_compare` decides just this (`CompareSameSign`) for numbers in their one
  representation (`Proper`: no zero limb at the top, no negative zero), so `OneRepresentation` is not a by-product
  but what the right order of the operands in `apint_sub` rests on. `ShortenedRight` says when
  the loop that drops limbs drops leading zeros only: when no zero limb has another one above it that is not 0, which
  is what `Careful` asks of differences. `ShiftInsideRight` and `ShiftLimbsRight` are the two halves of the shift,
  `ChunksRight` the cutting of digits into limbs from the right. `AnswersMatch` is about one state and needs the
  representation only: an `Above` number is greater (`AboveGreater`), which makes `apint_compare` right, and `PlaceSplit`
  divides a magnitude at a limb, which makes the bits of a limb and the highest bit right. The digits of all limbs, each padded to its
  width, make one numeral (`DigitsAre`, `JoinsInLine`); what `apint_create_from_hex` makes of it has the same value, and
  two `Proper` numbers of one value are one number (`OneNumber`).
- **`ImgProcProofs`**: `NothingTwice`, `NothingForgotten`, `TypeCorrect`, `EveryPixelOnce`, `PicturesRight`. `IInv` says what the
  ledger holds at each place of the program (`HeldAt`), how the plugin list, the
  handles and `closed` go together (`Handles`), and which arguments and images exist how
  far into the work (`Stages`); `Fates` is the one for the clean-up, where what is
  held depends on where the program came from, which `args`, `in` and `png` tell.
  `Going`, `Cleaning` and `Exiting` are the three kinds of step. `Contents` adds that
  each image fills its array and that a plugin has its own arguments. `WritesOnce` follows from arithmetic: a place has one
  row and column (`RowOf`, `RowOnly`), and a place of an edge is in one tile and at one place of it (`PieceOf`,
  `PieceOnly`). `Results` adds where the images came from, so that `OutputRight` is left with one lemma for each plugin: the
  loops' result as rows (`RowsIn`) is what `Pictures` says. For `tile`, whose description puts pieces side by side,
  `PiecesJoin` and `RepeatedIs` show that piece after piece begins where the loop has it.
- **`PngliteProofs`**: `MemoryIsKept`, `DecodesPictures`, `DecodedIsMeant`, `SoundIsDecoded`, `EncodedFiles`,
  `EncodedAreDecoded`. `Memory` says for each place of the program which blocks are
  allocated and which pointer holds them, that the read buffer is at least as long as the chunk being
  read into it, and what may stay behind on which way out. Next to it `FlattenType` and `InflateType` keep
  the data that `Inflate` gives within what there is room for: the prover has to know what the length of the
  output is to know that no line is filtered outside it. `DecodesPictures` is about what the caller has after a success: if the header is that of a
  picture and the inflated data are its lines, each under any of the five filters (`Inflated`), it is the
  picture, for 8 and 16 bits, `rgb` and `rgba`, any size that fits and any number of values of a byte. `UnfilterInverts` is the
  byte that each filter gives back (`PaethNearest`: the distances that `png_paeth` compares find the neighbour that the format
  takes), by the least byte of a line at which it would not, as each depends on those to the left. With 16 bits
  `pnglite` swaps the bytes of a line once it is restored, while the line below looks at the swapped ones:
  `Place` is where a byte of the format is in memory, and `PlaceKeeps` says that a distance of whole pixels is the same
  in both orders. `LineRestored` is then one line, `OneMoreLine` the step, `AllLines` the whole picture, and `Decoding` what
  has been restored at each place of the program.

  `DecodedIsMeant` and `SoundIsDecoded` are about whole calls, under the hypothesis `FilesClear` on the constant
  `Files`: a file that stands for a picture, or is to be accepted, is a laid one (`LaidAs`), as a whole or cut short anywhere, or
  it can be told from one (`SpoiltAs`). Laid is a file with the picture's header, any number of chunks of any type, and
  compressed data that are divided among the IDAT chunks anyhow and stand for the picture's lines under any filters. Of
  spoilt files the header is not accepted, or no reader who goes by the lengths comes to an IEND without meeting an IDAT chunk
  whose check sum is wrong; a length that is no number may be read as any. Files that stand for nothing are free. Written
  files need no hypothesis: `WrittenLaid` and `PicturesAre` show that what `png_set_data` writes is laid. The invariant has two halves. `Tracked` says, for
  a laid file, how many chunks have been taken (`Taken`), that what `inflate` has given is what the data up to there stand for, and that a
  result other than success comes only of a failed call or a file that is not sound; `Writing` says for each place of the writer what is on the disk.
  `Spoilt` says that the reader is at one of the places that can be come to, so that it never takes the last chunk for read.

  `EncodedFiles` is about `PngFormat`'s encoder: what it makes of any picture with a pixel, with any of the five filters for each
  line and its data divided in any way among chunks with others between them, is laid, and so is what is left of it when it is
  cut short. With it `EncodedAreDecoded` says what is meant without a word about chunks' places: each such file is decoded to its picture, and none
  that is cut or can be told from one is taken for another. Its hypothesis, `EncoderFiles`, is that every file that stands for something
  was made so, with some filters and some division, or can be told from one; for all such files of the run TLC evaluates with which
  (`Plans`), or where a reader may come to (`Reached`). The proof has two parts. `CompressedStands` follows the symbols of the compressed data, which are not one to a
  line, by what `FlattenSeq` does with one sequence more; `FlatInPlace` and `ChunkPlaced` say where the chunks are in the file.
  Of the numbers of filters only bytes are meant (`Filters \cap Byte`), as there may be fewer values of a byte than filters.

How far these proofs go without induction. The library's induction theorems take a
predicate as a parameter, which no installed prover can instantiate. `LeastNumber`, proved from the
well-foundedness of `<` on the naturals, takes a set instead: where something fails for a number, it fails for a least one. `UpTo` puts it
as a rule: a set with 0 in it, and with each number whose predecessor is in it, has all numbers up to n. `RecursionExists` then shows that
the recursive functions of the models (carries, Horner's rule, `FlattenSeq`, the reading of an expression) exist and go by their steps.
`LeastNumber` also finds the first place in which two sortings would differ.

Only model-checked:

- all liveness: `EveryCallReturns`, `EveryLineAnswered`, `Terminates`, `Returns` and `EveryoneServed` need fairness and ENABLED.
- that the files of the run `pnglite` are the encoder's or can be told from those (`MCPngliteAssumption`), which the theorems take as
  `FilesClear` or `EncoderFiles`.
- `NoUseAfterDestroy`, `ShutdownEnds` and `SubtractsRight`, which are violated, as said in section 3.

## 5. Abstractions and what is left out

- Memory is sequentially consistent: `volatile` gives no more than program
  order, but each shared global is one aligned int. A load and a store of `cnt`
  are separate steps.
- `malloc` and `calloc` succeed, as the code assumes; in `Pnglite` each call may fail.
- The postfix calculators' longs wrap, as the builds do, although the overflow of a `long` is
  undefined in C. The machine stack below `eval`'s frame, its alignment, and what printf and exit do
  with a message are left out.
- `MAX_FD` is taken as the process's descriptor limit as well; with a higher
  limit `client_conn[clientfd]` would be out of range (a hazard). The descriptors below
  `listenfd` are left out.
- `select` also watches for writability; a descriptor that is readable is
  writable too, as nothing was written to it yet, so `wfds` never delays a
  client. It makes the loop poll, which the model does as well.
- In `CalcServer` a line is one unit of input: how bytes become lines is modelled
  in `Rio`. `Reply` never blocks: clients are taken to read what they are sent, or to go. Replies are not kept as text; `CalcService` fixes their order and outcome.
- After `calc_destroy`, evaluation is undefined: any answer, or the end of the process.
- The organisation of a cache fits an address: `parse_args` does not check that,
  and `bitmask` would shift by an undefined count.

- A client of the sequential server sends what it has to send at once; when the connection is reset,
  bytes that were not read are lost. The arguments of the program are right, and the
  exits of lines 15 and 19 are left out.
- `rio_readn`, `rio_readnb` and `open_clientfd` are not modelled: no program here calls them. The rest of
  `csapp.c` wraps system calls and ends the process when they fail.
- Files with 16 bits to a component are read by the model as the code reads them, but
  `OutputRight` is about files with eight, which `image.h` asks for.
- The products of a picture's sizes, in pnglite (pnglite.c:483, 571, 819) and in image.c (71-74, 127), are of unsigneds, and the code does not test
  whether they wrap. The models stop short of that: in `Pnglite`, headers that the code takes and pictures that it is given are such that no product wraps
  (`SizesFit`); in `Image` and `ImgProc` sizes are naturals, which is the same for pictures within that bound. What is checked and proved of
  pictures and files is about those.
- `SoundDecoded` is about files without empty IDAT chunks, which the format allows and on which the code gives up (`inflate` makes no progress).
- For `ImgProc`, pnglite is a call that succeeds or fails; `Pnglite` models what is inside.
  `png_error_string`, `png_print_info` and memory functions of the caller's are left out: the program does not
  use them. A check sum is taken to tell apart whatever it is computed from.
- The tests of `skipws`, `consumeInt`, `consumeOp` and `eval` in `cTests.c` are left out: they read strings, and
  the run `postfix` has all short ones. `apintTests.c` is not modelled: it compares hexadecimal
  strings of up to 80 digits with results that `apint` checks against integers for
  every operation. The line of two ASSERTs that are one entry is that of the first.

## 6. Plan

Done: all components of the table but those of section 5, and the theorems of section 4.
Still to do: `calc_eval` inside `CalcServer` as the steps of `CalcMutex`, instead of one step
justified by `Linearizable`.
