# TLA+ models of debian-container

This directory holds TLA+ models of the programs and scripts of
rockdrilla/debian-container that decide something: the C containers and the
tools built on them, the CPU count every process of a container is told, and
the shell scripts that keep state between runs. The models are checked by TLC
on small instances, and what matters most about them is proved for all
instances by TLAPS.

Paths below are given from the root of the repository; `essentials/` stands for
`src/package/essentials/`, `include/` for `src/package/essentials/include/`.
`PROJECT.json` lists, in a form for tools, the components, the runs, for every
definition the lines it was translated from, the hazards and the theorems.
Some definitions are marked "a mutant of": they are faults put in on purpose.
Putting one in place of the definition it is a mutant of makes the run named in
`PROJECT.json` fail, which shows that the property there can fail.

1. The system
2. Modules, and how they correspond to the code
3. Runs
4. Fairness
5. Proofs
6. Where the code and its documentation disagree
7. What is not modelled, and why
8. Plan


## 1. The system

The repository builds container images on Debian. `.ci/build-image.sh` and
`image/*` build and push them. The package `k2-essentials` (`package/essentials`)
goes into every image: an entry point, a preloaded library, some tools in C and
C++, and some sixty shell scripts. The other packages under `package/` are
Debian packaging of Python, Node.js and Go.

| part | state | operations | who it meets |
|---|---|---|---|
| blocks of memory (`include/misc/memfun.h`, `num/roundby.h`) | a block and its length | grow, free | below every vector |
| uvector, C (`include/uvector/common.h`) | pointer, items used, items allocated | init, grow, append, set, dup, copy_range, free | below uhash |
| uvector, C++ (`dynmem.hh`, `inplace.hh`) | the same; or a fixed array | the same, and ranges of one another | below `str.hh` |
| lists of strings (`str.h`, `str.hh`) | one block of bytes, a vector of offsets | append, ranges, dup, copy, to_ptrlist | xvp |
| uhash (`include/uhash`) | an array of tree nodes, the root, a scratch array of slots | search, insert | below ufind |
| xvp (`essentials/xvp.cc`) | buffers, the batch being filled, children, the shared offset of the list | fill, scan, fork, wait, exec | the kernel, the programs it runs |
| ufind (`essentials/ufind.c`) | devices known, inodes seen, open directories | walk arguments, directories, links | uhash, the file system |
| is-elf (`essentials/is-elf.c`) | the byte order, descriptors | judge one file after another | the file system |
| log lines (`include/io/log-stderr.h`) | one buffer | timestamp, prefix, text, error, write | all programs in C and C++ |
| limits (`include/procfs`, `incontainer/nproc.h`) | none; reads the kernel | find the process's own cgroup, and the least of its limits | nproc |
| nproc (`incontainer/nproc.h`, `shlib.k2env.c`) | `/run/lock/nproc`, `NPROC`, `NPROC_KIND` | read, unlink, decide, rewrite | every process of the container, process 1 above all |
| CPU sets (`incontainer/nproc.h`) | the affinity, a copy being thinned out | adjust, answer `sched_getaffinity(2)` | the kernel, an administrator |
| entry point (`ep.sh`, `ep.d`) | the environment, the list of parts | preload, start again, run parts, become the program | nproc, overlay-dir-list |
| overlay-dir-list | none | files in a stack of directories | the entry point |
| CA bundle persistence (`essentials/lib/k2/persistence`) | bundle, checksum, packed copy, dpkg's triggers | save, restore, verify | update-ca-certificates, dpkg |
| apt-wrap (`essentials/bin/apt-wrap`) | lists of packages before, between and after | begin, the command, end | apt, dpkg, other sessions |
| filters (`xglob`, `dpkg-filter`) | none | list, match | dpkg's file lists |
| image builder (`.ci`) | images and tags | build, hooks, tag, push | buildah |

What is hard in it, in short (`PROJECT.json`, "hazards", has the places):

- **Allocation.** `realloc()` may refuse to grow a block whose new length has
  been stored; index and size types are narrower than what is computed in them.
- **Long sequences.** The tree of uhash is rebalanced by depths that go stale.
- **Processes.** xvp's `waitpid(-1, WNOHANG)` may or may not find the child
  just forked; process 1 rewrites `/run/lock/nproc` while others read and
  unlink it.
- **Interruption.** The persistence script may stop between checksum and copy;
  apt and dpkg may fail half way.
- **Nesting and overlap.** apt-wrap's sessions know their own packages only as
  the difference of two lists, and may be inside one another.
- **Boundaries.** Arguments cut by short reads, batches near the limit, empty
  arguments, a full index, a range that wraps, the topmost bit of a word, a line
  longer than its buffer.
- **What one leaves to the next.** The byte order and the descriptors of is-elf;
  the environment and the standard input that parts of ep.d share; what an
  earlier layer of directories has under a name.
- **Random choice.** CPUs are drawn at random until few enough are left.

What makes each part correct:

- uvector: used <= allocated <= idx_max always; the room it claims is real;
  growing keeps the items; a range arrives whole, or as far as the call says.
- lists of strings: each is read back as it was appended, and takes no more of
  the kernel's room than xvp counts.
- uhash: it is a map that only grows. Every key is found, indices stay, each
  call returns, the rotations never use a child that is not there.
- xvp: each argument arrives once, whole, in order; batches fit; `-s`, `-f`,
  `-u`, `-n` mean what the usage text says; it ends.
- ufind: each file once, none missed, none on another device with `-x`, and no
  endless recursion.
- is-elf: each file is judged by itself, and none is skipped for another.
- log lines: what is logged is written whole, or cut at its end.
- limits: a process is told the least that its own cgroup allows.
- nproc: each process is told what its environment means, never more than the
  limit unless forced, and the same as process 1.
- CPU sets: what is left agrees with what was told, and the drawing ends.
- entry point: k2env.so comes first and nothing else is lost from `LD_PRELOAD`;
  every part runs once, in order; arenas and threads fit the CPUs; once more
  gives the same.
- overlay-dir-list: every file that nothing later covers, and no other.
- persistence: a right checksum means a right copy; the latest bundle comes
  back; the script's own trigger comes to rest.
- apt-wrap: what was there stays; what the command was given is there while it
  runs; what was kept stays; the rest goes, and nothing is left broken.


## 2. Modules, and how they correspond to the code

| module | code | abstract specification or reference | properties in |
|---|---|---|---|
| `Blocks` | `misc/memfun.h`, `num/roundby.h`, growing in `uvector/common.h` | | |
| `UVector` | `uvector/common.h` | | `UVector`, `MCUVector` |
| `CxxArray` | `uvector/dynmem.hh`, `inplace.hh` | | `CxxArray` |
| `UStr` | `uvector/str.hh`, `str.h`, `get_argv_fullsize` of xvp.cc | `kept`, what callers appended | `UStr` |
| `UHash` | `uhash/common.h` | `GrowOnlyMap` | `UHash`, `MCUHash` |
| `Xvp` | `xvp.cc` | | `MCXvp` |
| `Ufind` | `ufind.c` | | `Ufind`, `MCUfind` |
| `IsElf` | `is-elf.c` | `IsElfHeader` | `IsElf` |
| `LogStderr` | `io/log-stderr.h` | `Meant` | `LogStderr` |
| `CpuCount` | the decision of `get_container_cpus()` | | |
| `CpuLimit` | `procfs/*.h`, the readers of `incontainer/nproc.h` | `Allows` | `MCCpus` |
| `CpuSet` | adjusting and the replaced calls of `incontainer/nproc.h`, `num/setlower.h`, `num/getmsb.h` | | `CpuSet` |
| `Nproc` | `incontainer/nproc.h`, `shlib.k2env.c` | `Meant` | `Nproc` |
| `EntryPoint` | `ep.sh`, `ep.d/00-default`, `nproc.c` | | `EntryPoint` |
| `OverlayDir` | `bin/overlay-dir-list` | `IsMeant` | `MCNproc` |
| `Container` | both of `Nproc` and `EntryPoint` | | `Container` |
| `Persistence` | `lib/k2/persistence/ca-bundle-*.sh` | | `Persistence` |
| `AptWrap` | `bin/apt-wrap` | | `AptWrap` |

Each `MC` module holds an instance and the properties that need operators too
heavy for the module itself, or that join those of several modules; the
`_proofs` modules have the theorems. Who uses whom:

- `UVector` and `CxxArray` extend `Blocks`; `UStr` has an instance of it for its
  offsets, whose items are words.
- `Nproc`, `CpuLimit` and `EntryPoint` extend `CpuCount`.
- `MCCpus` composes `CpuLimit`, `CpuCount` and `CpuSet`: a machine is described,
  the kernel's files follow from it, the limit from those, the number told from
  that and the environment, and the affinity is adjusted to it.
- `Container` has the processes of `Nproc` and an instance of `EntryPoint`;
  `MCNproc` adds `OverlayDir` to it: the list of parts that ep.sh runs is what
  overlay-dir-list makes of a stack of directories.
- Components that share nothing but a run (the lanes of `MCUVector`, `MCUfind`,
  `MCNproc`) do not interleave: a behaviour is of one of them.

Where several promises of one component are checked together, the property that
a run names is the conjunction of its parts, each of which is defined and
explained on its own: `StringsHold` is `StringsIntact`, `RangeIsWhole` and
`KernelCountsLess`, and so on.

### Blocks and UVector

`vec[v]` is one vector: whether it has a block, what the block holds, `used`,
`allocated`. `RoundBy`, `BlockAlign` and `WantRealloc` are the arithmetic of
roundby.h and memfun.h, with the widths of `int`, `size_t` and `index_t` as
constants: `roundbyl()` is declared `int` and truncates, so `FromInt`
sign-extends. `GrowBytes` has a set of outcomes: growth, and refusal, which for
a vector that has no block is an error and for one that has a block is reported
as success (memfun.h:295 returns the old pointer, common.h:149 compares it with
NULL). A step that touches memory the block does not have sets `fault`; the
behaviour of the program is undefined from there on, and the model stops.
`denied` is history.

### CxxArray

`dyn[d]` is a dynmem, the same record as a vector in C; `fix` is an inplace
array. dynmem refuses to grow past idx_max only, not at it (dynmem.hh:234), which
`DynGrowByBytes` has, and `append()` tells an index also where there is none.
A range is appended item by item until one is refused, and `told` is what the
call has returned. `torn` is like `fault`.

### UStr

`text[x]` is one list: the bytes its block really has, the bytes it claims, and
the vector of offsets, an instance of `Blocks`. `lang` chooses between the two
implementations, which are written apart: in C++ the copy constructor shares the
offsets with the list it copies (`twins`, and `lost` when one of them has moved
or overwritten them), in C `dup()` claims more than it has (`slack`). A range is
appended string by string, one step each, between which nothing else happens to
the program, so that the allocator may refuse at each. `kept` is the reference:
what was appended with success.

### UHash and GrowOnlyMap

`hash` is the node array and the root; `op` the call in progress with its place
and its branch. A slot is the word the code keeps an index in: `tree_root`, or
the left or right link of a node; as in the code it is named by one number, a
selector above an index. `Descend`, `FixUp` and `LookFurther` are one round of
their loops each. `update_depth()` starts from the node's *old* depth when it
has no left child (common.h:231), which is in `UpdatedDepth`; because of it
stored depths are not heights, and the tree is not an AVL tree: TLC finds one
with five keys whose subtrees differ in height by two. That every key is still
found, and that the rotations still have children to rotate, does not follow
from balance; the runs and the proofs show it all the same.

`GrowOnlyMap` says what callers rely on: the next key gets the next index, and
keeps it. It also has what a refused insertion returns: the first insertion,
refused, returns the slot selector of the root instead of 0 (common.h:350), and
`ufind.c:218` takes anything but 0 for success.

### Xvp

`proc` has every process that `fork(2)` made of xvp, as xvp's code, as the
program it became, as a zombie, or reaped. A child is a copy of its parent with
its buffers, but the offset of the list is one for all (`offset`). Bytes are
numbers and a list is a sequence of them, because short reads and NULs at any
place are the point. `Open` to `ExecAgain` follow `run()` and `do_exec()`;
`Finish` and the zombies are the kernel's. `faults` says which of open, fork,
exec, memory and read may fail in a case.

With "memory", each request made once the list is open may be refused, with
the outcomes that memfun.h gives it: a first block that is refused leaves
`allocated()` above 0, so that the checks at xvp.cc:425 and :644 pass and the
batch goes on without the common arguments (`mem`: "null", "bare"); a block that
cannot grow is written past (`Torn`; the process does nothing the model describes
from there on, and the behaviour ends); a refused `to_ptrlist()` gives execve(2)
no arguments at all (`PointerLists`). Only the two buffers and some requests of
`append()` end in ENOMEM. `lack` is history: whether a refused block has been taken for
granted so far.

### Ufind

`given` is a file system and the arguments; an entry has the inode
`readdir(3)` reports and what its name leads to, which differ where something is
mounted. `faults` are open(2), or asking a descriptor for its type or name, failing
for any argument or link, and paths too long, which depends on the name by which
a directory was reached: any visit may meet them. `stack` is the recursion, `dirs` and `files` the seen-tables by device,
`known` and `seal` the devices and `devroot_seal`. The tables are sets: what
`insert_strict` promises is `GrowOnlyMap`. The tree does not change during a walk.

### IsElf

`at` is the argument, `pc` the place in `is_elf()`; `bo_target` is the static
byte order that one file could leave to the next, `fds` counts descriptors,
`disk` may change under is-elf's feet (`Truncate`). A field of several bytes is a
number and the order of its bytes; that it is read right depends on `bo_target`.
`seen` is history: what was read of each file.

### LogStderr

One line, put together step by step in `line`, with a byte the code forgot being
`Junk`. `LenMax` and `Room` are the lengths the code works out, `over` says that
a copy went past the buffer, from where on nothing is specified. Characters are
told apart only as blanks and others.

### CpuCount and CpuLimit

Operators: nothing is kept from one call to the next. A kernel is a record of
what its files say; `CgroupV1Path` and `CgroupV2Path` find the process's own
directory, `Limit` takes the least of what is there. Lines are records, so that
the splitting into fields is left out; what the walks take, and that they stop
at the first line they take, is not. `Count` and `Left` decide: number and kind
are rewritten in turns there.

### CpuSet

`allowed` is the affinity the kernel keeps, `mask` the copy that is thinned out,
one drawn number per step (`Exclude`, `Miss`), by the constructor (`Adjust` to
`EndAdjust`) or in an answer to `sched_getaffinity(2)` (`Ask`, `EndAsk`). `Extent`
gives the least and the greatest number to draw, in the code's own arithmetic:
words counted in bytes (nproc.h:469), and the greatest bit found by `SetLower`
and `GetMsb`, with the number of rounds the code makes. Others may set the
affinity at any time (`Change`).

### EntryPoint

`env` is what is exported, `file` what `/run/lock/nproc` holds, `todo` the rest of
the list of parts. `Load` is the constructor of k2env.so, at each exec; `StartAgain`
ep.sh executing itself with k2env.so in front; then one step a part, sourced or
run, and `Become`. A program may run ep.sh again (`MaxRuns`), as ep.env and
`.envsh` parts do. A foreign part that is sourced may set `LD_PRELOAD` and the
numbers, or read the list of parts, which is its standard input (`ate`).
`before` is the environment of each program, for `AgainTheSame`. `IsContainer` says
what a container may be started with: a process 1 that cannot write the file has
found none either; one that was exec'ed into the container, which is not
process 1, finds what process 1 has left.

### OverlayDir

Operators: `OverlayList(layers, depth)` is the script, level by level, with its
accumulated list, its skip lists and what awk and `sort -V` take for the same
name; `IsMeant` is what the list should be, stated of the layers alone.

### Nproc

One process is one run of k2env's constructor at a time: `Read`, `Unlink`,
`Decide`, and for process 1 `Truncate` and `Write`, then `Exec`, which starts it
again in the environment the last run left. `Meant` is the reference: at most n,
exactly n or at least n. The limit, which `CpuLimit` finds, is a constant here, 0
when nothing is found. `born`, `own` and `found` are history.

### Persistence

`orig`, `state` and `backup` hold the n-th bundle, whole or torn by the k-th
interruption, or nothing. A redirection truncates its file before the program
runs, so checksum and copy are two steps each. Runs are one at a time: hook and
triggers run under dpkg's lock, and a run by hand is taken not to be started
beside them. The branch for `purge` (ca-bundle-openssl.sh:69-73) is not there,
because it is never reached: the script is installed as postinst and prerm, and
dpkg passes `purge` to postrm alone.

### AptWrap

`at[s]` is how far session `s` is; the names of its lists are those of the files
in its directory. `by[s]` is the session whose command started it, `overlapped`
tells that two were started side by side. apt installs what is asked for and all
it needs, or fails with a part of it that is sound; with
`APT_WRAP_INSTALL_METHOD=satisfy` its marks may be either. dpkg removes what it
is told to, needed or not (`--force-all`). `Came`, `Marked` and `ToRemove` are
the set differences apt-wrap makes with grep (apt-wrap:116-146).

What the model shows of sessions, and a user may want to know:

- `apt-wrap '' command`, where the command installs a package, removes what that
  package brought with it (only the package itself is marked) and ends with 0;
  a repair is tried only when there is a keep list (apt-wrap:149).
- A session inside another that asks for, or keeps, what an outer one brought
  marks it as manual: it stays after the outer one, and may miss a library that
  does not. This holds in any depth: what the innermost of three sessions asks
  for again, the outermost having brought it, is broken just as well.
  `LeftToSessions` leaves these cases out of `SoundAfter`, for all sessions that
  a session is inside of (`Around`).
- What an inner session keeps that was there when it began is struck from its
  keep list, so the outer session removes it all the same.
- Sessions side by side take each other's packages for their own: only
  `BaseStays` holds of them.
- apt-wrap killed between `--begin` and `--end` leaves its packages and its
  directory, and nothing looks for them later.


## 3. Runs

`tlc -config X.cfg M`; each takes from seconds to two minutes with two workers.

| run | shows | bounds, and why they are enough |
|---|---|---|
| `uvector` | `FieldsInOrder`, `RoomIsReal`, `OverrunsNeedCause`, `StringsHold`, `ArraysInOrder`, `ItemsKept`, under every order of the operations of two C vectors, of two lists of strings in C or in C++, or of two C++ arrays and an inplace one | vectors: two (dup and copy_range need two); items of 3 bytes in blocks of 4, so that rounding leaves a rest; a 3-bit index with idx_max 3, so that vectors are full after three and `begin + count` wraps; a 5-bit `int` under a 7-bit `size_t`, so that `roundbyl()` truncates and sign-extends; a heap of 28 bytes, so that requests are refused by size as well as by choice. Lists: words of 2 bytes, strings empty and of three bytes, four in all, ranges of 0, 1, 2 and so many that the end wraps. Arrays: the same widths, an inplace one of two, five items in all |
| `uhash` | `TreeHolds`, `ChildrenAreThere`, `CallsAdvance`, and that the tree implements `GrowOnlyMap`, for every order of searches and insertions with an allocator that may refuse | five keys, as many as indices, so that the full map is met; every rotation, single and double, on both sides, at the root and below it, occurs, and depths go stale (five keys are needed) |
| `xvp` | `AllDelivered`, `OnceInOrder`, `UsageHolds`, `BatchesFit`, `Ends` | up to four arguments; lengths empty, below, at and over the buffer's (5), in a read buffer (6) that cuts arguments at any byte; batches of one argument and of two; four processes, after which `fork(2)` fails; faults of open, fork, exec and read, with `-n`, `-s` and no option; `-f` and plain lists without; memory refused at any request, with each of the options, and with common arguments as many as a batch's own or fewer |
| `xvp_twice` | violation, see 6 | |
| `ufind` | `NothingMissed`, `OnceEach`, `StaysHome`, `NoLoop` of ufind; `EachByItself` of is-elf; `LineIsMeant` of log lines | ufind: three directories, three files and a fifo on two devices that share inode numbers; every subset of hard links, symbolic links back, across and dangling; four lists of arguments; with and without `-x`; unreadable directories; arguments and links that cannot be opened and paths too long, any of them at any time; mounts; file systems that do not tell the types of entries. is-elf: every list of up to three files of eight kinds, of either byte order, malformed, short, unreadable, not regular; one descriptor, so that a leak shows at the next file. Log lines: a buffer of 12, lines with every part there or not, empty, blank, too long by one, and longer than a buffer |
| `ufind_mounts` | violation, see 6 | a file system mounted in the tree |
| `nproc` | `OwnCount`, `OneCount` of Nproc; `PreloadKept`, `NumbersFit`, `PartsInTurn`, `AgainTheSame` of ep.sh; `PartsAreMeant` of overlay-dir-list | Nproc: three processes, so that one reads while another unlinks and process 1 writes; two execs; five CPUs, so that number and limit are below, at and above each other; all environments. ep.sh: run once and once more; lists of preloaded libraries with k2env.so absent, first, in the middle and twice, with either separator; numbers unset, meaningless, below and above the limit; writable and read-only `/run/lock`; process 1 and others, with a file left from before or none. Directories: every two layers of which each has two names as a file, a directory, skipped, of another kind or absent; every three layers with one name; names with blanks and numbers |
| `cpus` | `EnoughLeft`, `CountsAgree`, `ToldIsLeast`, `NeverStripped`, `LowCpusEnd` | two words of 6 bits, 12 CPUs, a word's position counted as 1, so that the mistake of nproc.h:469 is in it in proportion; every set of CPUs of the first word and six of both; one change by an administrator at any time; machines under both versions of cgroups, with the mount's root at the top, at the process's own group and elsewhere, with CPU sets of one part, of two and none, quotas around multiples of the period, shares above one CPU's |
| `cpus_loop` | violation, see 6 | the same |
| `persistence` | `VouchedUnlessCut`, `LatestReturns`, `Settles` | three bundles, two removals, two runs by hand, two interruptions: an interrupted run can be followed by another interrupted one with an older and a newer bundle about |
| `persistence_cut` | violation, see 6 | |
| `aptwrap` | `BaseStays`, `InPlace`, `KeptAlone`, `SoundAfter` | three sessions, one inside the other, since what the innermost does to the outermost is not what it does to the one around it; two of them where they are side by side or apt fails (the state constraint `Shallow`); two packages that share a library, there before or not; one package installed by commands themselves |

A system may stop where the configuration says `CHECK_DEADLOCK FALSE`: xvp's
processes end, and the bounds on bundles and commands run out. Symmetry is used
for vectors, lists, arrays and sessions, which no definition tells apart, and
only in runs without liveness. That the state is well typed is proved for
every module with theorems (5), alone or as a part of its invariant, and not
checked again by the runs.

Conditions in properties, and what is true without them:

- `OnceEach`, `StaysHome`, `NoLoop` and `NothingMissed` ask that nothing is
  mounted inside the tree. With a mount the first two are false (see 6).
- `NothingMissed` asks that every directory can be read, that every argument and
  symbolic link can be opened, and named by its descriptor (ufind.c:155-175), that
  no path is longer than PATH_MAX (:301), and that readdir tells
  types (`Told`): `handle_file_type()` knows no DT_UNKNOWN and passes over such
  entries, so that on a file system without types nothing below an argument is
  found.
- `OverrunsNeedCause` is of two faults of vectors: a block is overrun only after a
  block was refused growth, while `copy_range()` gives `memcpy()` NULL with none
  refused growth, where `init_ex()` has left it without a block (common.h:107).
- `AllDelivered` asks for a run without faults, `-s` and `-f`. In the same run
  faults are on for the other properties. `OnceInOrder` lets the last argument
  that was given be torn, after a read error. `OnceInOrder` and `UsageHolds` hold
  until a refused block is taken for granted (`lack`): what follows is in 6. The
  run checks `BatchesFit` also after that, the theorem proves it up to there.
  `BatchesFit` is checked of lists whose
  last argument has its NUL, or is short; an unterminated long one is added
  without `is_argv_full()` (xvp.cc:493). `StrictUnlessStray`, a part of
  `UsageHolds`, is what holds of `-s`: it excepts a child that has ended before
  the `waitpid(2)` right after fork, which throws its status away (xvp.cc:570).
- `StringsHold` and `OverrunsNeedCause` except lists to which an allocation was
  refused, copies made by C's dup(), and offsets that a twin has moved or
  overwritten: three faults of the code, see 6. Arrays past idx_max are excepted
  likewise (dynmem.hh:234).
- `OwnCount` and `OneCount` are of a container whose `/run` is its own: a
  `/run/lock/nproc` left from before with the mode it is given, 0444
  (nproc.h:256), which a process 1 without privileges cannot write, would be
  taken for this container's and contradict `OwnCount`. They except forced numbers (`WithinLimit`), and a forced
  number that has lost its file (`AllAgree`): it is handed down only through the
  file once the first child has dropped `NPROC_KIND`.
- `CountsAgree` and `LowCpusEnd` are of masks that the numbers drawn reach, or of
  those in the low bits of the first word, the topmost left out (see 6).
- `ToldIsLeast`, and `ToldTheLeast` with it, is of containers with no shares, or
  with more than one CPU's (not the kernel's default of 1024, see 6), and of mounts whose root is not outside the process's namespace: under a
  root that begins with `/../` the code takes whatever directory is mounted
  (cgroup-v2.h:48), and nothing tells whose it is.
- `NumbersFit` and `AgainTheSame` ask that nothing is forced, that no sourced part
  has set the same numbers, and that no part has eaten the list; for threads also
  that what nproc finds, in the file or from the kernel, is the NPROC told
  (`Known`; nproc is asked with another, 01-gomaxprocs.envsh:19).
- `PartsInTurn` holds up to a part that reads its standard input.
- `PartsAreMeant` is of names that no tool takes for one another.
- `LineIsMeant` is of lines with a timestamp, and of error messages for which
  there is room twice (log-stderr.h:247).
- `InPlace` and `KeptAlone` except sessions side by side.
- `SoundAfter` excepts what is described under AptWrap (`LeftToSessions`).
- `LatestReturns` asks that nothing was interrupted: an interrupted restore is
  saved by the next hook over the whole copy.


## 4. Fairness

- `Xvp!FairSpec`: each process is scheduled (weak fairness for each one's
  `Step`, the end of its program included; that a program ends is an assumption
  on what xvp is given, and nothing else is). A fault is never forced.
- `Persistence!FairSpec`: a run of the script goes on, and dpkg runs the script
  for triggers that wait. New bundles, removals, commands and interruptions are
  never forced, and are bounded.
- `MCCpus!MachineSpec`: the library works on, and `rand()` comes to each number
  in its range sooner or later: drawing a number that is not in the set leaves
  the state as it is, so that weak fairness of `Work` says that a number of the
  set is drawn some time, if there is one in the range. Where there is none
  nothing helps, which is what `cpus_loop` shows.

The other modules have no fairness. That a call of uhash comes back, in a loop
whose only bound is the tree, is stated without it: `CallsAdvance` says that each
level walked down leaves nodes behind for good, of which there are finitely many.


## 5. Proofs

Each theorem is for every value of the constants that the module's assumptions
allow: any widths, key sets, file systems, masks, numbers of processes, packages.

| module | theorem | states |
|---|---|---|
| `UVector_proofs` | `TypeCorrect`, `FieldsStayInOrder`, `RoomStaysReal` | `TypeOK`, `FieldsInOrder`, `RoomIsReal` |
| | `OverrunsAreRefusals`, `GrowthLosesNothing` | `OverrunNeedsRefusal` and `NullCopyNeedsBlank`, `GrowthKeepsItems`, parts of `OverrunsNeedCause` and `ItemsKept` |
| | `ArraysStayInOrder`, `RangesStayTold` | `ArraysInOrder`, `RangesAreTold` of CxxArray |
| | `TearsNeedLimit` | `TornNeedsLimit` of CxxArray, a part of `OverrunsNeedCause` |
| | `NoItemIsLost`, `EveryOverrunHasCause` | `ItemsKept`, `OverrunsNeedCause` |
| | `StringsStay` | `StringsHold` of UStr |
| `UHash_proofs` | `TypeCorrect`, `RotationsFindChildren`, `IndicesAreStable` | `TypeOK`, `ChildrenAreThere`, `IndicesStay` |
| | `TreeIsSound`, `CallsComeBack`, `HashIsGrowOnlyMap` | `TreeHolds`, `CallsAdvance`, `IsGrowOnlyMap` (the refinement) |
| `Xvp_proofs` | `BatchesAreCut` | the inductive invariant |
| | `ArgumentsComeInOrder`, `ListIsDelivered`, `BatchesAlwaysFit`, `OptionsHold` | `OnceInOrder`, `AllDelivered`, `BatchesFit`, `UsageHolds` |
| `Ufind_proofs` | `PrintedOnce`, `StaysOnItsDevices`, `NeverInsideItself`, `EveryFileIsFound` | `OnceEach`, `StaysHome`, `NoLoop`, `NothingMissed` |
| | `NoFileMattersToAnother` | `EachByItself` of IsElf |
| | `LinesAreMeant` | `LineIsMeant` of LogStderr |
| `Nproc_proofs` | `EachItsOwn`, `OneForAll` | `OwnCount`, `OneCount` |
| | `PreloadIsKept`, `PartsRunInTurn` | `PreloadKept`, `PartsInTurn` of EntryPoint |
| | `ThreadsAndArenasFit`, `SameEnvironmentAgain` | `NumbersFit`, `AgainTheSame` of EntryPoint |
| `CpuSet_proofs` | `EnoughCPUs`, `AffinityKept`, `CountsAlwaysAgree` | `EnoughLeft`, `NeverStripped`, `CountsAgree` |
| | `ToldTheLeast` | `ToldIsLeast`, of CpuLimit and CpuCount |
| `Persistence_proofs` | `CopyIsVouched`, `LatestComesBack` | `VouchedUnlessCut`, `LatestReturns` |
| `AptWrap_proofs` | `TypeCorrect`, `NothingOldIsRemoved` | `TypeOK`, `BaseStays` |
| | `CommandsHaveTheirs`, `OnlyKeptStays`, `NothingIsBroken` | `InPlace`, `KeptAlone`, `SoundAfter` |

The assumptions are those named `...Assumption` in the modules; the runs evaluate
them. The arguments:

- **UVector.** The arithmetic comes first: a length that `WantRealloc` grants is
  a multiple of the block size, holds the old block and wraps nowhere, for which
  the assumptions on widths are needed (they are what `fence_bits` and
  `MEMFUN_MACRO_CALC_GROWTH` are for). From it every outcome of growing keeps
  `used <= allocated <= IdxMax`, and a granted one has the room it claims.
  `FieldsInOrder` is not inductive by itself: that growing makes room for one
  more item depends on the block length computed from `allocated` being the true
  one, which a truncation to `int` could spoil. `Exact` says that it cannot while
  the vector is below idx_max; the invariant `Good` has all of these.

  Overruns and items are a second invariant beside it, `Safe`: a vector without
  a block counts and claims nothing (`Hollow`), and an overrun is excused by a
  vector that was refused growth and still lives; a copy to NULL leaves its vector
  empty and the items it was to copy where they are (`NullCopyStep`). That `copy_range` reads and
  writes within both blocks wherever its `begin + count` wraps is arithmetic:
  the wrapped end is cut at `used`, and `FenceAssumption`, which `fence_bits`
  justifies, leaves no sum of two claims past the end of an index. A granted
  block holds the old one, so growing keeps each item that was held (`Kept`).
- **CxxArray.** An array grows at idx_max too, where `Exact` says nothing. What
  holds instead (`Decent`) is that the claim is exact also there, unless the
  array was refused: no block whose length an `int` cannot say is ever handed
  out, since the length that the sign leaves is past the heap
  (`HeapAssumption`). A range is appended in rounds (`Appending`, by the lemma
  `RoundsExist` below); after each, what was told is behind what was there, item
  for item (`Told`), unless the array was refused or has passed its limit
  (`Faithful`). `ItemsKept` of the run follows for the composed behaviour, of
  which a step is of one component and leaves the others alone.

  An array is torn only where one was refused or has passed its limit
  (`Excused`): each round of a range has such a cause if it goes wrong at all, and
  leaves the counter no larger than what was asked for (`Caused`). That the cause
  can still be seen afterwards needs the bound on items (`DynUsed`): an index that
  wraps at its width would leave no trace of having passed idx_max. `RoomAssumption` says so: the bound may lie past idx_max, not past the
  width of an index.
- **UStr.** A list is `Whole`: it is framed (`Frame`: types, lengths below a
  gigabyte, offsets that its block really has), and if nothing that is excepted
  has happened to it (`Trusted`) it is `Sound`: it claims what it has, behind
  what is in use there are only NULs, string i begins at its offset and ends with
  a NUL, byte for byte as it was appended (`Placed`), and what the kernel would
  count is no more than what the list says. Sharing of offsets is not one list's
  matter: `TwinsAgree` says that twins know of each other and have the same
  offsets, so that a list whose twin has not moved still reads its own; that is
  where the exception `lost` is needed, and shown to be enough. Of a range that is
  being appended, `Progress`: if neither list has gone wrong, what the target
  holds is what it held before and the source's strings up to the one at hand
  (`OnCourse`). All of this is said while nothing is `broken`; what breaks it is
  always something that makes a list untrusted, which is the part of
  `OverrunsNeedCause` that strings have. `TextAssumption` gives the limits: no
  string reaches a gigabyte (`roundbyl()` is an `int`), and there are no more
  strings than a vector of offsets counts, since past its idx_max the C++ code
  loses offsets without a word.
- **UHash.** The type invariant carries all three. It says that every link names
  a node or none and that no stored depth is below one, so a depth of 0 means
  that there is no child. A side that is deeper by two is therefore not empty,
  and neither is the inner side of a child that leans inwards: that is all the
  rotations rely on, and stale depths cannot spoil it. Most of the proof is that
  each rotation, and each write to a slot named by a number, keeps the types.
  `IndicesStay`: only `Place` makes a node, and no other step touches a key.

  That the tree is one is a second invariant. The array is seen as two
  functions, from nodes to keys and from slots to the nodes in them, and each
  node is given a *span*: the set of keys that a walk from the root would look
  for under it. `SearchTree` says that spans of children are the parts of their
  parent's on either side of its key, that each node is in one slot, and that
  each key's node is in its own span. There are no paths and no depths in this,
  so that a rotation, which moves three slots, is checked slot by slot. Spans
  are a witness, existentially quantified. `TreeHolds` follows by walking down
  while spans shrink; so does `CallsAdvance`: a level leaves its node behind,
  and no node comes again. The refinement maps a state to the keys in the order
  of their indices and to the call with its answer; the step that matters is
  the end of a search, which must find a key if and only if it is there.
- **Ufind.** Where nothing is mounted, each open directory is seen under its own
  device (`Honest`), so that the open directories are different ones and in
  `dirs` (`Listing`), and what was printed is in `files`, once (`Recorded`). With
  `-x`, `Sealed`: the devices known are those of arguments, what was printed is
  on one of them, and the seal is set whenever a directory is open.
  `NothingMissed` is an invariant of what is still to be read (`Thorough`): what
  an entry of a seen directory leads to, on its own device with `-x`, has been
  seen, or that directory is open and the entry is unread. At the end none is
  open, so that what has been seen is closed under `Leads`, and has all that
  `ReachedFrom` an argument.
- **IsElf.** What is listed is what the headers read so far say (`Verdicts`): a
  field comes out as the number wanted if and only if its bytes are in the order
  it is read in (`NumberAgrees`). A descriptor is open only between `open(2)` and
  the end of the same file. The byte order of the file
  before is in no part of the invariant: that nothing needs to be said of it is
  what the theorem shows.
- **Xvp.** There are n processes and places cut[1] = 0 < cut[2] < ... < cut[n]
  in the sequence of wanted arguments, such that the q-th child was made with
  the arguments behind cut[q - 1] up to cut[q], and xvp works on those behind
  cut[n]. What it keeps is a function of how far it has worked through the list
  (`Reading`): the buffer is a window of the list, the argument begun is the
  string up to there, the batch is a stretch of the wanted arguments, and an
  argument held back for the next batch counts as wanted already. All of this
  is said for as long as `lack` is "no", which no step restores (`LackStays`);
  without a fault of memory it always is (`Enough`). Sizes: what
  `is_argv_full()` counts is never less than what the kernel counts of finished
  arguments (`Sized`). The theorems name the cases they are about:
  - `Roomy`: an argument as long as its buffer fits behind the common ones.
    Where it does not, xvp runs its list twice (`xvp_twice`, see 6).
  - `Tidy`, for sizes and for all having arrived: no read error, and an
    unterminated last argument no longer than the padding makes up for, since it
    is added without `is_argv_full()` (xvp.cc:493; `argc_padding` is four
    words, xvp.cc:218).
  - `Len(given.list) < MaxProcs`, for all having arrived: the model's bound on
    forks is not met.
  - with `-f`, no read error: xvp runs what there is of a list it could not read.
- **LogStderr.** Up to each part the line is what is meant so far, or it has
  LenMax bytes and begins as what is meant does (`SoFar`), so that what is put
  behind it fits or is cut (`PutKeeps`); a line is thus never longer than LenMax,
  which is less than a buffer, and the differences of `size_t` do not wrap. What
  stands in the buffer for errors is head and message, or a head without its last
  byte (`SuffixIs`). Assumed of the texts is what C gives them, no NUL inside, and
  of timestamps that the buffer was made for them.
- **Nproc.** What process 1 decides, at its start and at every exec, is one
  environment for the whole behaviour (`Chosen`), since deciding on what a
  decision left changes nothing (`RootIsSettled`). The file holds that number or
  none (`FileIsChosen`). Each other process has the limit or that number to go by
  (`OthersFollow`), and its environment is what its decision made of it
  (`EnvIsLeft`).
- **EntryPoint.** All of it is for any list of parts and any number of runs.
  LD_PRELOAD: that k2env.so comes first holds from the moment the list is made,
  through foreign parts, programs and further runs (`Late`), and what
  `Stripped` leaves out is k2env.so only, whichever of its places are matched
  (`OthersKept`), so that the others stay (`PreloadInv`). Parts: what has run is
  what is wanted of the first m of the list, for some m, and what is left is the
  rest, or nothing where one has read it (`Underway`). Numbers: they are functions
  of what the container was started with. Until k2env.so is preloaded nothing is
  decided (`IsRaw`); from then on the file and NPROC are what the first process
  that had it made of them (`IsSet`), since those that come later find the same
  limit or that number (`FoundLater`), and deciding twice changes nothing
  (`LeftTwice`, `FileDecides`). Arenas and threads are what the user has set until
  the part of their kind is done, and what is meant afterwards, in later runs too
  (`Doing`, `ArenaInv`, `ThreadInv`): what a part makes of its own result is that
  result (`MeantTwice`). So each program gets the same environment (`FinalOf`),
  which is `AgainTheSame`. The proof showed `Known` too weak as it was: a process
  that is not process 1 and has a smaller NPROC than the file was taken for one
  that knows its number; it now compares with what nproc finds, and the run has
  such containers.
- **CpuSet.** `left` is the number of CPUs still in the mask, no more are taken
  out than are too many (`Counted`), and an answer has what was left when the
  drawing stopped (`Answered`). For these two nothing about the least and greatest
  number drawn is needed, so that they hold whatever `Extent` finds: its mistakes
  cost termination and agreement, never a CPU too many.

  For `CountsAgree` it is: while the drawing goes on, what is left lies between
  the bounds (`Between`), so that when they meet one CPU at most is left, and none
  fewer than told, which is one at least. That holds where the bounds reach all
  of the mask to begin with. In the low bits of the first word they do: what the
  rounds of shifts come to has a closed form (`After`, equal to the recursion by
  `SetLowerIs`), which for a word without its topmost bit is all bits up to the
  greatest (`LowBitsAreFound`), so that counting them tells its position.
- **CpuLimit.** `ToldIsLeast` is not about steps: what a process is told is
  computed once, and no step of the library changes it (`ToldStays`). What is
  shown is what the computation comes to, for any machine of `MachinesAssumption`,
  which leaves out `cpu.shares` of 1 to 1024 and roots that begin with `/../`.
  A list that is in order counts to as many CPUs as it names (`ListCounts`: the
  parts are disjoint, so that each round of the loop adds the size of one more);
  a quota comes to the one number of CPUs that is enough and of which one fewer is
  not (`NeededIs`); the walks end at the first line they take (`OneSuch`), which
  is the mount and the group of the process, under either version
  (`CpuSetDirectory`, `CpuDirectory`, `V2Directory`), and of the directories below
  it the files are the group's own (`TreeHas`), or none are read where the mount
  does not show it. The fold leaves the least of the numbers there are
  (`LeastIsLeast`, `LimitsAre`). A limit past `CpuMax` is cut, and is never the
  least, as a mask has no more CPUs than that.
- **Persistence.** The copy is what the checksum was made of, but for a save
  between its two steps, where the checksum is the bundle's (`Copied`). For
  `LatestReturns` the bundle is followed as well: it is the latest, or the copy
  is and a trigger or a run that brings it back is still to come.
- **AptWrap.** `base` is in every list `installed.0` that is taken (`Listed`),
  hence in none of the differences that dpkg is told to remove. The other three
  theorems are about sessions none of which was started beside another. They
  form a stack, of which only the innermost acts (`Nested`): the first list of
  each has what those around it were given, and what they need, so that what it
  removes is nothing of theirs, which is `InPlace`. While nothing has failed,
  what was kept by sessions that are over is spared by those around them
  (`Kept`), all that is installed is due or was brought by the outermost
  (`Accounted`), and, where the system is left to the sessions, each ends with
  the packages it has begun with (`Restored`). Each of these is kept by the
  innermost session's steps, by one being put on the stack, and by its being
  taken off; `Chained` says that those below a session are those
  it was started inside of.

Recursion over data. The library's induction theorems take an operator, which no
prover here can instantiate. What a recursive definition computes is proved
nevertheless, by way of sets: naturals are well founded (`NatLessThanWellFounded`,
`WFMin`), so that a set of naturals that is not empty has a least element
(`LeastIn`), and a set that has 0 and with each m < n has m + 1 is all of 0 .. n
(`Upwards`). Strings, counts and wanted arguments of Xvp are defined by rounds of
a function (`Rounds`), which exist and are unique by that lemma; so is the loop
that appends a range in CxxArray, and so are the shifts of CpuSet, the sizes of
UStr and the folds of CpuLimit, whose closed forms are shown to be the solutions.

Only model-checked:

- what needs fairness (`Ends`, `Settles`, `LowCpusEnd`), which the prover does
  not treat;
- `PartsAreMeant`: overlay-dir-list calls itself for each name, with lists of
  directories as arguments, and `Listing` is a recursive operator as the script
  is; the prover treats no module that declares one. A recursive function in its
  place would have all lists of directories as its domain, which TLC cannot
  evaluate. Sorting, which the list rests on, is left to `SetToSortSeq`.


## 6. Where the code and its documentation disagree

Runs that end with a counterexample, each of one property:

- `xvp_twice`: a first argument that does not fit beside the common ones is
  flushed with nothing in the batch. `do_exec()` returns (xvp.cc:307) in the
  child, which goes on as a second xvp on the same list: arguments are given
  twice.
- `ufind_mounts`: "skip entries on different file systems" (ufind.c:49). A
  directory found is walked under the device of the directory it is in
  (ufind.c:312), so that a mount point is never recognised.
- `cpus_loop`: "randomly exclude cpus from cpuset to adjust count to cpucount"
  (nproc.h:344). The position of a word is counted in bytes, not in bits
  (nproc.h:469), so that with CPUs beyond the first word the numbers tried may
  hold too few CPUs of the set, and the loop at nproc.h:364 never ends.
- `persistence_cut`: the checksum is written before the copy
  (ca-bundle-openssl.sh:21), and a run that stops in between leaves a checksum
  that keeps later runs from making the copy, the one by hand included, though
  `debian/control.in:62` recommends it "to ensure that stored CA bundles are in
  sync".

Seen while modelling, without a run of their own.

Vectors and hashes:

- a refused `realloc()` is reported as success, and the item is written past the
  block (memfun.h:295, common.h:149); what holds is `OverrunsNeedCause`;
- `copy_range()` does not look at what `init_ex()` answers (common.h:107): refused
  by malloc(), or because `begin + count` wraps and more is asked than idx_max,
  it copies to NULL; what holds is `NullCopyNeedsBlank`;
- dynmem.hh:234 refuses only past idx_max where common.h:175 refuses at it: at
  idx_max `append()` writes one item more and returns what is no index. Where the
  length of idx_max items is one that `roundbyl()` truncates, an array that is
  refused there may claim fewer items than it counts (`ArraysInOrder` excepts it);
- the copy constructor of str.hh:91 is meant to copy the offsets, but dynmem's own
  is a template, hence no copy constructor: both lists share one block;
- dup() of str.h:53 makes a block as long as the bytes in use and claims the
  length of the one it copies;
- the limits that str.hh:130 and :152 compare an index or a count with are
  numbers of bytes;
- `getmsb` and `set_lower` lose the topmost bit of a word (`v << 1`,
  setlower.h:38): the greatest of such a word comes out too small;
- a refused insertion into a hash returns a number that is not 0
  (uhash/common.h:350), which ufind takes for success (ufind.c:218, :236); a full
  tree answers 0 even for a key it has (uhash/common.h:338).

Programs in C and C++:

- "stop after first failed child process" (xvp.cc:73): `waitpid(-1, nullptr,
  WNOHANG)` after fork (xvp.cc:570) throws away the status of a child that has
  already ended, and the wait after it goes on; for the same reason xvp may end
  with ECHILD though every program succeeded (:573, :661);
- a read error is taken for the end of the list (xvp.cc:484);
- `memfun_realloc_ex()` stores the new length before it asks for it (memfun.h:318),
  so that the checks of `argv_curr.allocated()` (xvp.cc:425, :644) never fire:
  where the first block is refused the batch goes on without the common
  arguments, and copies to NULL what is shorter than the length claimed; a block
  that cannot grow is written past. `do_exec()` knows an empty batch by its count
  (:307), so that a batch that has lost the common arguments and has as many of its
  own is not run. What `to_ptrlist()` returns is not looked at (:322);
- entries whose type readdir does not tell (DT_UNKNOWN) are neither printed nor
  walked (ufind.c:350, `handle_file_type`);
- inodes of a mounted file system are looked up in the table of the one around
  it (ufind.c:311): files may be missed, or printed twice;
- is-elf says "not a regular file" in spite of `-q` (is-elf.c:169);
- a log line without a timestamp loses its last character, an empty one has
  length 0, which wraps when its line feed is taken off (log-stderr.h:170); a text
  or a path longer than a buffer is copied past it; `strncpy()` is told the room
  after the message, not the room there is (:247);
- `cpu.shares` of 1024 or less are taken as a number of CPUs (nproc.h:566).

The entry point:

- "strip k2env.so in middle/end": one right behind another stays, as sed has taken
  the colon between them with the first (ep.sh:9);
- a part that reads its standard input eats the names of the parts after it
  (ep.sh:150);
- `EP_ENV` is exported, so that an ep.env below a program started by ep.sh runs
  programs again (ep.sh:64);
- GOMAXPROCS may be larger than NPROC where `/run/lock/nproc` cannot be written:
  nproc is asked with GOMAXPROCS in the place of NPROC (01-gomaxprocs.envsh:19); and
  with NPROC_KIND=force the second ep.sh takes less than the first;
- overlay-dir-list: awk compares names that look like numbers as numbers ("1",
  "01", "1.0", "1e1" and "10"), `sort -uV` keeps one of "a1" and "a01", and names
  that begin or end with a blank vanish (overlay-dir-list:125, :195). xglob's
  `sort -zuV` drops such paths as well (xglob:279, :307).

Scripts:

- the pre hook of the base image runs the post script
  (.ci/build-image.sh:871), and its failing build leaves without cleanup and
  post hook (:893);
- two runs of the persistence script at once may make a checksum of one bundle
  and a copy of another (ca-bundle-openssl.sh:22).


## 7. What is not modelled, and why

`PROJECT.json`, "components", lists every part. In short:

- *planned, see 8*: hashes with values, xglob, the image builder, the trigger of
  k2-exe-filter, the variables, init, users and priorities of ep.sh;
- *no state of their own*: scripts that call apt, dpkg or find once; uptime;
  uadd, umul, degree2 and popcnt, one expression each;
- *vendored or generated*: packaging and patches of Python, Node.js and Go;
- *abstracted in the models*: wording of messages, option parsing, users and
  file modes; digits and separators of what is read from the kernel; in Xvp,
  that `prepare()` may not get memory for the common arguments at the very start
  (xvp.cc:277), the pointers of the environment, which execve(2) counts and xvp
  does not (they are in the room left to them in `Fits`), and the comparison of
  the list's lstat before it is unlinked (xvp.cc:376); in Ufind, tables that are full; in UStr, a list appended to
  itself; in Nproc, that the limit itself may change during the life of a
  container (the file is a cache by design); in EntryPoint, a part that ends the
  shell that sources it; in OverlayDir, that `/ep.ovl` may not be there; in
  Persistence, two runs at once; in AptWrap, that taking a list fails.


## 8. Plan

Done: the modules above.

Next, in this order:

1. `XGlob`: match and skip rules, against a reference, beside `OverlayDir`.
2. `BuildImage`: the decision to rebuild, hooks, tag and push; hooks that fail.
3. Refused insertions in Ufind; values beside UHash.
4. An abstract specification of Xvp ("each argument is delivered once"), and a
   mapping from Nproc to "one number for the container".
