# A verification of Konoha2

TLA+ models of the runtime of the Konoha scripting language, the TLC runs that check them on small
instances, and theorems the TLA+ proof system checks for every value of the constants. All paths below are
relative to the root of the repository, which holds it under `src/`.

## 1. The system

Konoha2 is an embeddable interpreter in C: a *context* is one thread with a VM stack, a table of modules and
a heap. A script is read in chunks, tokenised, parsed into a block of statements, type checked, compiled to
instructions and run, statement by statement; objects live in a garbage-collected heap. There is one thread:
what makes the code hard is not parallelism but nesting. Evaluation loads packages that evaluate scripts,
methods are compiled when they are first called, allocation collects garbage at any point, exceptions
(`longjmp`) skip the ends of whatever was active, and several stacks and buffers are shared by all of them.
Only child processes and the timer that limits them run at the same time as the interpreter.

| component | state it keeps | operations | interacts with | what makes it hard | module |
|---|---|---|---|---|---|
| bitmap heap, `src/src/gc/bmgc.h` | per size class: segments, allocation pointer, free list; per segment: two bitmap levels, live count | allocate, mark, sweep, expand, exit | every allocation; tracing | lazy sweep, cached counts, sentinels, a collection in the middle of an allocation | `BMHeap`, `ObjHeap` |
| tracing, `bmgc.h`, `konoha2.c` | mark stack, reference buffer | trace roots, mark, scan | reftrace functions of all classes | ring that grows, cycles, capacity kept from earlier | `Marker` |
| object properties, `klibexec.h` | a small hash table per object | set, get, remove, rehash | syntax trees keep their children in it | windows, boxed and unboxed key of one symbol, lost entries | `KVProto` |
| hash maps and symbols, `klibexec.h` | arena of entries, buckets, free list, list of names | get or add a name | parser, classes, packages | arena moves with pointers in it, colliding hash codes | `KMap`, `Symbols` |
| packages and constants, `sugar.c`, `struct.h` | table of packages; per name space a sorted table of constants; classes | import, load, merge, look up | `KMap`, scripts that import others | nested imports, partial failure, keys with flags | `Package` |
| arrays and write buffers, `klibexec.h` | one growing array, positions in it | open, write, format, top, free | reader, tokenizer, messages | nesting, growth, text read while written | `Kwb` |
| script reader, tokenizer, `sugar.c`, `token.h` | position, chunk in the shared buffer, line | read a chunk, tokenise | write buffers, the statements of a chunk | text in a buffer that is written meanwhile | `Reader` |
| script evaluation, `sugar.c`, `tycheck.h`, `klibexec.h` | jump buffer, type checker's frame, gcstack, VM stack pointer, write buffer | load, evaluate, check, run, call, compile lazily, raise | all of the above | nesting, exceptions that skip frames | `Eval` |
| code generator, `asm.c` | control-flow graph, incoming counts | emit, strip, join, lay out, thread | virtual machine | graph rewriting in place | `Codegen`, `Script` |
| child processes, `konoha.subproc` | per object: child, modes, streams; timer, handlers | fg, bg, exec, communicate, wait, kill | kernel, terminal | signals between any two calls, identifiers used again | `Subproc` |
| parser, `ast.h` | token lists, trees | select a statement, make trees, find the operator | syntax table | precedence and grouping by index ranges | planned |
| syntax tables, `struct.h` | per name space: syntaxes, parent | look up, redefine, import | parser, packages | inheritance by copy | planned |
| classes and methods, `datatype.h` | class table, parameters, methods | define, instantiate generics, look up | type checker | ids, chains of similar classes | planned |
| virtual machine, `vm.h`, `minivm.h` | frames on the VM stack | call, return, raise | `Eval` | frame slots, stack limit | planned |
| `msgc.c` | arenas, free lists | allocate, mark, sweep, extend | as the bitmap heap | free lists' tails, counts | planned |
| context and modules, `konoha2.c` | module tables | start, register, exit | all | order of exit | planned |
| logger, command line, class libraries, `classicvm`, `src/old` | | | | input and output, bindings, legacy | not modelled |

What makes each of them correct:

- **heap**: no reachable object is finalised or its block handed out again; every object is finalised once by
  the end; bitmaps, counts, pointers and lists agree; a segment has one owner; an allocation that made the
  collector run finds a block.
- **tracing**: marking ends with exactly the reachable objects; the mark stack never overflows.
- **properties**: a set is seen under its key and no other; a removed key has no value.
- **maps, symbols**: one name, one code, for ever; the arena is exactly the free list and the buckets.
- **packages, constants**: a package is loaded once; an import is seen; a name that is found stays so.
- **write buffers**: what is written is what is read, in every open buffer; no byte outside of the array.
- **reader, tokenizer**: the tokens of a chunk are those of its text; every chunk is read to its end.
- **evaluation**: a raise goes to the innermost active evaluation; a frame, however it ends, takes nothing
  from an outer one; the type checker works on its own frame.
- **code generator**: the code evaluates what the statements say, in that order, for all outcomes of tests.
- **child processes**: no timer outlives its wait; a late child is stopped, and no other process; a child
  stays within reach of its object; a stream that is used is that of the child.
- **planned parts**: a table answers as its abstract map; a return finds the frame of its call; no free slot
  of an arena is lost.

`PROJECT.json` lists the hazards at their lines, with the properties that would catch them.

## 2. The models

Each action is one function (or the part of it up to the next point where other code runs), named after it.
Comments in the modules give the abstraction; `PROJECT.json` maps each definition to its lines. Definitions
with an underscore suffix after the name of another one (`Load_again`, `Restore_keep`) are *faults*: what a
plausible mistake would make of that definition. No specification uses them; they show that the properties
notice.

### BMHeap: the bitmap heap (and ObjHeap, what it promises)

A block is a pair of segment and index, a bitmap the set of its marked indexes. `p[k]` is the
`AllocationPointer` of size class `k`, `segmentList` the pool, `seglist` and `freelist` the class's segments,
`bm0`/`bm1` the two bitmap levels, `live_count` the cached counts. Segment lists are sets: which one is taken
first is left open. `pc` is where the interpreter stands: running, about to retry an allocation, giving a new
block its class (`init`), collecting (`clear`, `mark`), or ended: `oom` (no block after a collection),
`memalign` (expansion failed), `stray` (the allocation pointer left the heap), `exit`.

| code | action |
|---|---|
| `bm_malloc_internal`, `tryAlloc`, `findNextFreeBlock`, `nextSegment`, `newSegment` | `AllocHere`, `AllocNext`, `AllocFreeSegment`, `AllocNewSegment`, `AllocFail`, `AllocNull` under `tryAlloc` |
| `new_Object` | `new_Object` |
| `MODGC_gc_invoke`, `bmgc_gc_init` | `SystemGc`, `GcInit` |
| `bmgc_gc_mark`, `mark_ostack`, `bitmap_mark` | `Mark` (one object), `MarkingDone` |
| `bmgc_gc_sweep`, `rearrangeSegList`, `fetchSegment`, `HeapManager_expandHeap` | `Sweep`, `SweepExpand`, `SweepAbort` |
| the program forgets an object | `Drop` |
| `BMGC_exit` | `BMGC_exit` |

`deferred_sweep` is part of handing out a block, as in the code. `MCBMHeap` states that BMHeap implements
`ObjHeap`, which knows only which blocks hold objects and which are reachable.

### Marker: tracing

The graph (`field`), the roots, the reference buffer `stack->ref`, the mark stack with its capacity, the mark
bits. The program changes the graph between collections (`New`, `Refer`, `Overwrite`, `Hold`, `Assign`,
`Release`); `GcInit`, `MarkRef`, `Reftrace`, `MarkDone` and `Sweep` are one collection. BMHeap takes from it
that exactly the reachable objects are marked.

### KVProto: properties of an object

Open addressing in a window of `KVPROTO_DELTA` slots that does not wrap. `Set` is `kvproto_set` with every
rehash it makes, `Remove` is `KObject_removeKey`, which clears the boxed and the unboxed entry. The table's
size, the modulus and the windows are those of the code. A rehash drops an entry whose new window is full of
other keys, which takes more than `KVPROTO_DELTA` entries: `SetIsSeen` says that this is the only way in which a
set loses a value, and that the key then has none, instead of an older one.

### KMap, Symbols and Package: interned names, packages, constants

`Getcode` is `Kmap_getcode` with the look-up, `Kmap_newentry` (growth of the arena, move of the pointers,
rehash) and `Kmap_add`. Pointers are indexes into the arena. `Symbols` is what it promises: a name keeps the
code it was first given, and codes are given in order. `Kmap_remove` has no caller and is left out.

`Package` composes it with what uses the names: `packageMapNO`, the name spaces with their sorted tables of
constants (`cl`), the class table `ca`, and the stack of active imports. An import asks the table of
packages (`Found`) or loads: `Load` opens the file and makes a name space, `initPackage` defines classes and
constants after what the glue requires, the script imports others (`ImportNext`), fails (`ScriptFails`) or
ends (`ScriptEnds`), which enters the package in the table, and then it exports. A name without a file
raises (`NotFound`), which ends the innermost script and all that hangs on it. Merging a table is
`mergeConstData` with the check for conflicts, the sort, whose order of equal keys is open, and the binary
search the check uses. Which package requires, imports and exports what is a constant; that none imports
itself is `AcyclicAssumption`, since two that import each other load each other without end. That a glue
defines each class once is `GlueAssumption`; its constants may repeat, since those of `konoha.socket` do.

### Kwb and Reader: write buffers, reader and tokenizer

`Kwb` has the array byte by byte, as the properties are about bytes; `wb` is the stack of open buffers, each
with its position and, for the properties, the text its owner wrote. `Write` is `Kwb_write`, `Printf` is
`Kwb_vprintf` with both calls of `vsnprintf` and its truncation, `Top` is `Kwb_top` with the zero, `Free` is
`Kwb_free`.

`Reader` composes it with those who share the array. The reader is one action per byte, in the loop
(`readchunk`, `readquote`, `readcomment`) it is in. `ChunkRead` ends the text with a zero and decides: skip
a blank chunk, refuse a script of another program, or tokenise. The tokenizer reads `Source`, the string
that is in the array *now*. A token that needs no buffer is one step (`Lexeme`, with one definition per
handler of the matrix); a literal is collected byte by byte in a buffer behind the chunk (`LiteralOpen`,
`LiteralByte`, `LiteralClose`, `LiteralEnd`), in a block too, where no token is made of it. When the array
was moved, what the tokenizer reads next was freed: the model ends there (`ReadFreed`), for nothing is known
of what follows. Then statements nest, grow and free buffers of their own, or are left by an exception with
buffers open, and the chunk is freed.

What the tokenizer should have made of a chunk is defined from its text alone, without an array, a position or
a level: `Begins` are the positions at which lexemes begin, one where the other ends, `Nesting` counts the
braces before a position, `InBlock` says from it what lies in a block, and `TokensOf` lists the tokens of the
`Outermost` lexemes and blocks in their order. Bytes are those of `ByteAssumption`. The module has
recursive functions where the code loops (`CommentEnd`, `Begin`) and no recursive operator, so that it can be
proved about.

### Eval: evaluations, frames and exceptions

`stk` is the C stack; a frame records what its function saved at entry. Sizes stand for the shared stacks:
what matters is who restores them to what. Loading, evaluating, checking, running, calling and compiling
nest as the code allows. Streams differ in what they push on the gcstack: the script of the command line
(`load`) and a package do, `K.load` and the script a package exports (`stream`) do not. A method is called by
code that runs and, as the handler of a syntax, by the type checker. `Raise` is `Kraise` and the `longjmp`: the frames above the handler are gone,
`Restore` is what the handler writes back. `RaiseLost` is a raise without a handler.

### Script and Codegen: from statements to threaded code

`Script` is the specification: a method is a sequence of statements (calls, `if`, loops, `break`,
`continue`, `return` with a value or not, blocks, errors the checker reported; conditions with `&&` and `||`), and it evaluates its calls and tests, the
*leaves*, in the order the statements say, for any outcomes of the tests. An expression that has a block in it
is that block and the call behind it; an error raises, and nothing follows. `Codegen` is what the compiler
does: `Assemble` builds the graph of basic blocks (`BLOCK_asm` and the functions it calls), `Strip0` and
`Strip1` skip empty blocks and join others in place, `Size` sums the instructions, `Copy` lays them out,
sets the jumps and threads them, and `VirtualMachine_run` executes the code. The graph functions recurse
over the graph as the C functions do, with their visited flags and counts.

### Subproc: child processes

`sub[o]` is the `subprocData_t` of an object, `pc` the next system call of the interpreter in `knh_wait` and
the methods around it, one action each. Children end, stop and go on, the timer fires (`Alarm`), the terminal
interrupts and the kernel gives free identifiers to others at any time between two calls. `Alarm` while the
wait is active is the `siglongjmp` out of the handler: after `waitpid` has reaped the child or before.

## 3. The runs

| run | instance | states | what it shows |
|---|---|---|---|
| `bmheap` | one class, segments of two words of two bits (header, two objects, sentinel), a pool of two segments and an expansion by one | 126,086 | bitmaps, counts, pointer and lists agree; a retried allocation finds a block; it implements `ObjHeap`; collections end |
| `bmheap_two_klasses` | two classes that compete for one pool of three segments, the level-1 sentinel of one class a bit low | 181,790 | segments keep one owner; no reachable object is freed or unmarked |
| `bmheap_stale_pointer` | two classes, exact sentinels | violation | an allocation leaves its segment, see 4 |
| `marker` | three objects, up to five references, two roots, a mark stack of two slots | 255,380 | marking is exact and ends, the stack grows in time |
| `kvproto` | windows of three, two symbols with both keys, two rehashes, one of which may drop a key | 21,356 | entries stay in their windows; a set changes one key, others are lost to a full window only |
| `kvproto_stale` | the real window of seven, two symbols | violation | a removed key is back, see 4 |
| `packages` | seven names whose hash codes collide in full and in 4, 9 and 19 buckets, five files, five name spaces, two growths of the map | 35,842 | names keep their codes while the map grows under nested imports; packages are loaded once; imports are seen |
| `reader` | files of up to four bytes of six kinds, of five bytes of five kinds, and eighteen longer ones; an array of three bytes that doubles; an outer stream | 257,539 | tokens are those of the text, the array moves only for a long line, lines agree, everything is read to its end; open buffers keep their text |
| `eval` | seven frames, three roots, one variable, two texts | 5,794,140 | handlers, restored stacks, the checker's frame |
| `eval_assert` | the same kind of instance | violation | see 4 |
| `subproc` | one object, two identifiers, two streams whose mode changes | 720,254 | the timer ends with its wait, late children stop, children and streams stay known; waits end |
| `codegen` | 2,600 methods: every pair of short statements, and every one in a branch or a loop; returned values and errors in all of these places; as a constructor or not | 152,517 | the code runs as written, and comes to the next leaf; counts, sizes, assertions and threading are right |

Why the bounds are enough. Two bits a word give every case of the search: a block in the word, in the next
one, behind a full summary, at the sentinel; a segment that is full, half dead, dead; a pool that is used up
and expanded. The code has 64 bits and segments of 32 to 2048 blocks; nothing depends on the width but the
position of sentinels. Three objects make cycles, sharing, repetition and a stack that doubles. The windows and
moduli of `kvproto` are chosen so that keys share windows before and after the rehash. The arena of
`packages` starts with 3 entries and 4 buckets (83 in the code), so that the fourth and the seventh name make
it grow while imports are active; the files have a diamond, a failing script, a missing package at second
hand, two classes of one name, a boxed constant and one that is listed twice. Six kinds of bytes make every pair of neighbours the reader and
the tokenizer tell apart, and the longer files the rest: comments in comments and in literals, escapes, braces
at the begin of a line; an array of three bytes puts growth before, in and behind a literal. Seven frames hold
a stream, evaluation, statement, call and an inner stream, evaluation and statement: the shortest nesting in
which an exception of the inner one meets the frames of the outer, and one more level of nesting repeats it.
Two process identifiers are a child and one that is given to somebody else. Exhausting a cap only disables the
action that would exceed it. Deadlock is allowed where the program ends (`exit`, `abort`) or a bound is reached.

Fairness. `BMHeap` has weak fairness of `Collect`, `Marker` of `Trace`, `Reader` of `Reading`, `Codegen` of
the machine: each is one loop on the only thread, which nothing can interrupt, so that it is never left
standing. `Subproc` has it of the steps of `knh_wait`, for the same reason, and of `Alarm`, because the kernel
delivers the signal of a timer that runs. Nothing else is fair: a program need not allocate, evaluate or end,
and a child need not exit. The type invariants of `eval`, `marker`, `subproc`, of the heap and of write buffers
are proved and not part of the runs.

## 4. What the code does differently from what it says

Three runs end in a counterexample to what an assertion or a test of the repository states.

- `bmheap_stale_pointer`: a class with one segment that runs out while the pool is used up keeps, over the
  collection, an allocation pointer with an empty mask; the retry returns the address behind the segment,
  against the assertion that a block lies in its heap (`bmgc.h:1406`).
- `kvproto_stale`: a key that is set again before an older entry of it, in a slot a removal freed, is back
  after it is removed; the test of the table says that a removed key is gone.
- `eval_assert`: a raise in a nested evaluation leaves the type checker's frame pointer at a dead frame; the
  frame that ends next fails its assertion (`tycheck.h:43`).

Other facts are part of the models, and the conditions of properties name them.

- Heap: the level-1 sentinel of class 9 lies two bits too low, that of class 10 one bit. Blocks in their last words are not found
  again by a descending search, and an allocation may fail after a collection, so `RetrySucceeds` is checked
  and proved with exact sentinels only. Expanding the heap overwrites the list of free segments; no segment is lost,
  since the heap is expanded only when a class found that list empty.
- Reader: a literal that makes the array grow frees the text the tokenizer reads (`MovedByLongLine` says when
  that can happen). One that the end of the file leaves open, without a newline, reads what it writes until
  that happens, or, in a block, until what it reads ends it (the condition of `TokensOfChunk`). A brace as the last byte of the file fails the tokenizer's assertion of progress
  (`token.h:446`, the condition of `Progresses`). `readchunk` does not take the byte behind a literal or a comment
  as the previous one, so that a chunk may end after a line that is only a literal.
- Properties: `kvproto_findset` drops an entry that finds its window in the larger table full (the exception of
  `SetIsSeen`, which the run `kvproto` reaches). With the window of the code nine properties are enough, set in
  this order: 1, 2, 26, 52, 77, 78, 101, 103, 127; 26 is lost.
- Write buffers: a format that is longer than the array and starts behind other text is cut though the array was
  expanded, because the size asked for leaves out the bytes in front (`MaxPrint < InitMax`, see 5). In an array of
  four bytes, one byte and a format of seven are enough.
- Packages: two that import each other load without end; the file of one that loads stays open; a constant with
  the flag `FN_BOXED` in its key is not found by `checkConflictedConst` and is entered again by every merge, which
  changes nothing unless two packages give it different values (the condition of `NamesKept`). No package of the
  repository has such a constant; the interface of glues offers them (`KDEFINE_TEXT_CONST`). A class of a package
  that is loaded again after its script failed is defined twice; `konoha.socket` lists `MSG_OOB` twice (`socket_glue.h:684` and `687`), and the first constants of an empty
  name space are not checked (the exceptions of `TwiceOnlyReloaded`).
- Code generator: a statement behind a `break`, `continue` or `return` in the same block crashes it
  (`CrashBehindJump`); a constructor with branches has code that is not threaded (the condition of `Threaded`).
- Child processes: the one look at a killed child does not wait, so it may stay a zombie; communicate may wait
  for, and kill, a process that was given the identifier of a child that was reaped.

## 5. The proofs

Theorems hold for every value of the constants that satisfies the named assumptions of the module.

Induction over data. The provers have no induction rule to instantiate; what takes its place is that every
set of natural numbers that is not empty has a least element (`LeastOf`, from the library's theorem that `<`
is well-founded on the naturals): the least number at which a claim fails is taken to a contradiction. That a
recursive function (a chain that is followed, a table that is copied entry by entry) is what its equation says
is proved the same way: by the least number from which no such function exists (`WalkExists`, `CopyExists`,
`GrowthExists`).

**`BMHeap_proofs`**: `TypeCorrect`, and `SegmentsOwnedOnce`. Ownership alone is not inductive: an expansion
could bring a segment that somebody owns. `OwnershipInv` adds that all that is owned or in the pool was mapped
by an expansion so far; pools are disjoint (`PoolAssumption`), so the next one is new. The first segments
exist because a pool has one for each class (`FiniteAssumption`). One lemma per group of actions: allocation
moves a segment from the pool to one class; sweeping only splits a class's segments; expansion replaces the
pool.

The theorems about the bitmaps, `CountsAreExact`, `SummaryIsSound`, `LiveStaysInHeap`, `LiveStaysAllocated`,
`OnlyLowFails`, `RetryFindsBlock` and the refinement `HeapKeepsPromise` (of `ObjHeap`), are stated as
`Spec /\ []TwoSegments => ...`: no collection is made for a sub-heap with a single segment. The run
`bmheap_stale_pointer` shows that each of them needs a hypothesis of this kind, and `bmheap` that it still
covers allocations, collections and expansions of every other kind. They come from one inductive invariant,
`HeapInv`: counts are the numbers of marked blocks (`Counted`), no level-1 bit of an unused segment was ever
set (`Unwritten`), a full word is recorded while objects are marked and from the pointer on between collections
(`Summary`), the pointer names its block and has an empty mask only while the collection that fills its
sub-heap runs (`Aimed`), objects lie in blocks (`Placed`), what is reachable is marked between collections
(`Kept`), and a retry finds something (`Ready`). `Aimed` is where `TwoSegments` is used: it makes the sweep
reset the pointer of the class that waits. `SentinelAssumption`, that no level-1 sentinel lies above the
last word, holds for the sizes of the code; `RetryFindsBlock` needs sentinels that hide no word
(`SearchExact`), and `OnlyLowFails` says that others are the only reason for a retry to fail.

**`Marker_proofs`**: `TypeCorrect`, `ScannedOnce` (nothing is pushed twice in a collection, or without its
mark bit), `StackNeverFull` (the push that would fill the ring doubles it first), and `MarkingExact`, for any
graph and number of collections. The argument is that of tri-colour marking:
`TriColour` says that marked objects are reachable, roots are marked or in the buffer, and the references of a
marked object are marked or in the buffer unless it is still on the stack. When buffer and stack are empty
the marked set is closed under references and holds the roots, so it holds the reachable set, which is the
least such set.

**`Eval_proofs`**: `TypeCorrect`; `RaiseIsCaughtInnermost` (the jump buffer, and the one every evaluation
saved, is that of the next outer evaluation: inductive as it stands); `RaiseLostOutside`, from it;
`OuterFramesKeepTheirs`, strengthened by `Ordered`: what an outer frame relies on is also below what every inner
frame saved, so that restoring from any of them, as a raise does, takes nothing away; `CheckerNotOuter`: the
checker's frame pointer may be stale but never points below the frame that checks. `GenvInv` says the same
of every frame's saved pointer, which is what a frame that ends writes back.

**`Reader_proofs`**: of `Kwb`, `NothingOverruns`, `TextKept`, `CleanBehind` and `TypeCorrect`, under
`MaxPrint < InitMax`: a format produces less than a new array has. That condition is not an accident: without it
the statements are false, and with it one doubling always makes room, because the room that was missing is less
than the array is long. The invariant `IInv` joins the four with `Ordered` (open buffers lie one behind the
other), so that a write behind the last one leaves the others' bytes alone.

Of `Reader`, under the same condition, every safety property the run checks, for all files, sizes and
statements: `ReaderTextKept`, `TokenizerProgresses`, `LinesCounted`, `MovedOnlyByLongLine` and
`TokensAreTheTexts`. They rest on `BaseInv`, which adds to `IInv` what is open in which phase
(`Height`), how a chunk ends (`ChunkEnds`) and where the tokenizer is (`Placed`); from it follows that `Source`,
read out of the array, is `Body`, the chunk's text (`SourceIs`), and what the byte at any position is
while a literal is collected behind that text (`ReadAt`). The lexeme that is being read began at some `a`, where
no variable of the program points any more when it is a literal; `Begun` says what holds of it. While
a literal is read inside of the text (`Inside`) what was collected is the beginning of its value; when it has run
over the end of a file without a newline it reads what it wrote (`Beyond`), and no quote in that can
close it, because every quote collected is behind a backslash (`Quoting`). So every step of the tokenizer reads
on (`Stays`), passes exactly the lexeme the text has at `a` (`Passes`), or is at a brace or at the end
(`TokenStep`), and each theorem is an induction over these few cases. `LinesCounted`: what the tokenizer counted
and what is left of the chunk make what the reader counted (`Counted`), unless there is an error.
`MovedOnlyByLongLine`: a literal has no newline in it and is not longer than what was read of it (`RoomInv`).
`TokensAreTheTexts`: the tokens so far are those the text has before `a`, or before the outermost block `a` lies
in (`ToldOf`, with the level as the difference of two nestings), and the newline behind a block that is not
closed is told twice. The lemmas about texts (`BeginsFacts`, `NestingStep`, `OutsidePasses`, `WithinEnds` and
those beside them) say that a lexeme never begins in another and that nesting changes at braces only.

**`KMap_proofs`** and **`Package_proofs`**: `EntriesAreListedOnce` (the arena is the free list and the
buckets, each entry once), `NamesKeepTheirCodes` (the map implements `Symbols`) and `PackagesLoadOnce`, from
`AcyclicAssumption` and `PackageAssumption`. `Shape` says what the map is for a list of names: entry `i` has the
`i`-th name, its code and hash code, and points to the last entry before it in the same bucket; a bucket
starts with its last entry; the free list is the rest in order. So the chain of a bucket reaches
exactly the entries of the bucket, downwards, and the free list upwards (`BucketChain`, `FreeChain`,
`Partition`), and the look-up finds a name exactly if it is in the list (`CodesAre`). `Stored` shows that a
new name extends the list whether or not the arena grows, with the pointers moved and the buckets rehashed.
`MapInv` adds that the list has each name once. The table of packages is entered when a script ends, long after it
was asked, so that the invariant must exclude that the same package was loaded in between. `StackOK` says
that each import on the stack is used by the one below it; with acyclicity all names on the stack differ
(`Distinct`); `OnceInv` adds that a package being loaded is not in the table.

The tables of constants: `ImportsAreSeen`, `SecondEntries` and `FoundNamesStay`, with `GlueAssumption`. The
recursive functions of the model are shown to exist (`SearchExists`, `AppendExists`, `InsertExists`: that one
which is right for all parts smaller than `n` extends to `n + 1`), and then what they compute: the search
finds a key that a sorted table has (`GetConstFinds`), a sort is sorted and has the same entries place for
place (`QsortIs`), so that a merge loses nothing and adds every name (`MergedIs`, where `FromTwo` says where two
entries of one name come from). `NamesInv` holds them together: `SpacesGood` (tables are sorted, two entries of one
name are an exception), `ClassesGood` (a class is twice only when its package has two name spaces) and, per
frame, `FrameGood`: what loads has a name space of its own that is not in the table of packages, and is empty until the
glue has run; what exports has been merged (`SeenBy`). Two facts make it inductive. An import merges into the
program's name space or into that of a script below it (`Nested`), never into that of a package that is loaded or
still empty (`IntoUntouched`); and names below on the stack have other codes (`Distinct`), so that classes
that a glue defines are not those of a package merged below (`OwnUntouched`). `StateStep` says what every
step keeps: name spaces only grow, and each entry that was there is there.

**`KVProto_proofs`**: `EntriesInTheirWindows` (`Shaped`: every slot in use is in the window of its key, every
window in the table), `EverySetIsSeen`, and `RemovedUnlessTwice`. The hard step is a set that rehashes:
`CopyInv` follows the new table entry by entry. An entry of a key that is in the new table already finds room or is
not missed; one that is the first of its key and finds none leaves its window full of other keys, for good
(`Crowded`, `Lost`), and by counting that takes more entries than a window has slots. The new table has no hole in front of an entry (`Dense`), so that what a look-up finds
first there is what it found first in the old table, also when a key is in two slots. `RemovedUnlessTwice`
is what remains of the statement `kvproto_stale` refutes: with a key in one slot, a removal removes it.

**`Subproc_proofs`**: `TypeCorrect` (`TypeInv`), `TimerEndsWithWait` (`TimerInv`: where in the wait the timer may
run and the handler be installed), `LateChildrenStop` (`Doomed`: a child whose time was up is the one the wait is
about, until it was killed), `ChildrenKnown` (`KnownInv`: an object that can start a child has none that was not
waited for) and `StreamsUsedAreOpen` (`StreamInv`: which streams are open for which mode and child).

Only model-checked: `Codegen`, whose operators recurse over statements and graphs with their state handed from
call to call; a theorem can neither be stated in a module with recursive operators nor be proved by induction
over such data. And liveness (`CollectionEnds`, `TracingEnds`, `ReadingEnds`, `WaitEnds`, `ComesToLeaf`), which is
out of the prover's reach. What three runs refute is not proved, of course; `RemovedUnlessTwice` and
`CheckerNotOuter` are what remains of it.

## 6. What is left out

- Which C function holds an object only in a local variable while it allocates: the collector does not scan
  the C stack. The models let the program use what is rooted.
- Sizes of objects above the largest class go to `malloc`; debug and statistics code; `bm_free`, which the
  objects' life never reaches.
- In `Eval`: what statements mean, the slots of the VM stack. In `Package`: methods, export scripts and what
  else a glue does. In `Codegen`: the instructions inside of an expression.
- In `Reader`: numbers, the columns of tokens, the line number a comment may set, handlers that packages
  install, and strings that are tokenised where they are (blocks, syntax rules), in which literals are collected
  behind the chunk in the same way.
- Symbols are sixteen bits wide in the code and unbounded in `KMap`.
- Rows of the first table marked as not modelled: input and output, bindings, legacy sources.

## 7. Plan

In this order, most important behaviour first; each is a module with a run, proved where noted.

1. `RefBuffer`: what each reftrace function reserves and what it pushes. To prove: no push leaves the buffer
   when the reserve bounds the pushes.
2. `VMFrame`: the slots of a call and its return, the stack limit, the slot of the last value, with `Eval`.
3. `MSGC`: arenas, free lists and their tails; it should implement `ObjHeap` as well.
4. `SyntaxTable`, `ClassTable`: inheritance of syntax, generic classes. Operators checked against the abstract
   map over bounded inputs.
5. Lazy compilation over `Eval`: the list of defined methods, which compiling may extend.
6. The operator choice of the parser as a pure function; start and exit of a context.
7. More proofs: the layout of `Codegen` with recursive functions over the numbers of the blocks, instead of
   recursive operators, so that its sizes and counts can be proved.

Runs are kept few: a new one takes the place of an older one when it asks the same question in a larger
setting.
