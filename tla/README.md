# Verification of the i-node filesystem simulation

This directory models the program of this repository, a filesystem with i-nodes
kept in one file and driven by shell-like commands. Paths below are relative to
the repository root (the directory that holds `src/` and `include/`).

## 1. Inventory

The program is one process and one thread. What makes it hard is not
concurrency but that a command is a sequence of writes to the filesystem file
with early returns and partial failures between them, that Ctrl+C ends the
process between any two of them (`main.c:17-26`), and that the next command, or
the next run of the program, continues from whatever was left.

| part | source | state | operations | correct when |
|---|---|---|---|---|
| bitmaps | `src/fsop/fs_bitmap.c` | one flag per inode and per block, true = free | allocate the first free field, free a field, count | a block or inode in use is off, an unused one is on |
| link trees | `src/fsop/fs_links_op.c` | direct, single and double indirect links of an inode | create links, free an amount from the end, free all, iterate | no block linked twice, none linked while free, none leaked, no hole |
| inodes | `src/fsop/fs_inode_op.c` | type, size, links | create file, create directory, free | a free inode links nothing, its bitmap field agrees |
| space check | `src/fsop/fs_common.c` | none | `is_enough_space()` | an accepted file can be stored |
| records | `src/fsop/fs_block_op.c` | (name, inode) records in the blocks of directories | search, add, delete, empty?, room?, the search of fsck | names are unique, a record names an inode in use |
| paths | `src/fsop/fs_inode_utils.c`, `src/cmd_utils.c` | `inode_actual` | resolve, add to parent, climb to the root | the inodes in use form a tree |
| commands | `src/commands/*.c` | none of their own | mkdir rmdir rm mv cp incp cd fsck corrupt load, and read-only ones | each leaves the above intact, succeeds or changes nothing |
| contents | `incp_data*()`, `copy_data()`, `outcp_data()`, `cat_data()` of `fs_block_op.c` | the bytes of blocks | copy in, copy, copy out, print | what was stored comes back, and nothing else |
| loop and errors | `src/simulator.c`, `src/errors.c`, `src/main.c` | `my_errno`, `is_formatted`, `buff_in`, the prompt | read a line, run it, report and clear the error, end on SIGINT | a line that fits is heard, an error belongs to the command that met it, what counts as formatted is |
| format | `src/commands/format.c` | superblock | lay the file out, make the root | every part is written whole, where the seeks look for it |
| file access | `src/fsop/fs_io.c` | the file's position | seek to an index or an id, read, write, flush | no seek leaves the part it is for |
| prompt path | `get_path_to_root()`, `src/commands/cd.c`, `pwd.c` | `buff_pwd` | climb to the root, write names before each other | the path tells the current directory, cut only when too long |
| read-only commands | `ls.c`, `info.c`, `df.c`, `debug.c` | none | print | df's sums |
| logger | `src/logger.c` | the log file | print | |

Components interact by calls only. The shared state is the filesystem file, the
cached `sb` and `inode_actual`, `is_formatted` and `my_errno`; `iterate_links()` is given callbacks
(`ITERABLE`) that do the work on each array of links.

Behaviour that is hard to test, and the line where it bites, is listed under
`hazards` in `PROJECT.json` with the properties that watch over it.

## 2. Modules

| module | models |
|---|---|
| `SpaceOps` | `is_enough_space()` in closed form, the link blocks really needed |
| `Space` | the loops of `is_enough_space()`, one iteration a step, `uint32_t` wrap-around |
| `Links` | bitmaps, link trees, inodes and the part of the commands that drives them, one write a step, with kills |
| `Allocation` | abstract: a block is free, held by an owner, or lost |
| `MCLinks` | the refinement mapping from `Links` to `Allocation` and the constraint of the run with kills |
| `Namespace` | records, paths, commands, fsck and corrupt, `my_errno`, with kills between the steps of a command |
| `Tree` | abstract: a tree of named items with create, remove and move |
| `MCNamespace` | the refinement mapping from `Namespace` to `Tree` and the constraints of two runs |
| `Stream` | contents of files: incp, cp, outcp, cat, rm block by block, with `Space` for the check and kills |
| `Layout` | the superblock's addresses, the offsets of every seek, the size test, df's sums, in the build's sizes and `uint32_t` |
| `PromptPath` | `get_path_to_root()` and `handle_child_name()`: where the pointer into the buffer goes |
| `Session` | lines of input, start, format one `fwrite` a step, cd, load, exit, kills; extends `Layout` and `PromptPath` |
| `MCSession` | the directories of its run |
| `Numbers` | lemmas about remainders, induction and recursion that the proofs share |
| `SpaceProofs` | theorems about `Space` |
| `LinksSafety`, `LinksRefines` | theorems about `Links`: what is held and how many, the refinement |
| `NamespaceProofs`, `NamespaceTree` | theorems about `Namespace`: whatever happens, and in ordinary use |
| `StreamProofs` | theorems about `Stream`: what comes out of a file |
| `SessionProofs` | theorems about `Layout`, `PromptPath` and `Session` |

`Links` and `Namespace` are two views of the same commands: `Links` counts
blocks and leaves open which directory a record goes to; `Namespace` keeps the
records and lets a request for a block fail at any time. `Stream` is a third view,
for what the blocks hold: links are taken and given back in one step, unless a kill
comes in the middle of it, which is one step too and leaves any part of the writes
done, in their order. It runs the loops of `Space` where the commands call
`is_enough_space()`. `Links` uses
`SpaceOps` for the check of cp and incp. `Session` is what happens around all of
them.

### Space

`loop`, `i`, `j`, `c_blocks`, `addition` are the function's locals; each action
is one test of a `for` with its body. `c_blocks` is kept modulo `WordMod`.
When a link block is only partly filled the counter wraps, the loops run to
their bounds, and the function charges *every* link block below the double
indirect link: it may refuse a file that fits, never accept one that does not.

### Links

An inode's links are numbered as *slots* in the order `create_empty_links()`
fills them; a deep slot holds a link block, whose links are the slots below it.
`disk` is what is reachable in the file, `tmp` the copy of the inode and of the
link blocks a function has in memory, `op` says which command is running and
where. `AllocLink` is one `create_direct()` or one of the link blocks above it;
`FlushLinks` is `fs_write_link()` of a link block that was there before,
innermost first; `CreateDone` writes the inode. `CreateFail` is the failure path
of `create_empty_links()` with `create_indirect_1/2()` giving back the link
block whose first leaf could not be had (`Pending`), and
`reset_created_links()` (`ResetSlots`) with the words it reads past the direct
links; a word read past the inode is one of `StackWords`, which is empty in every
run and theorem: nothing is known of what lies behind `inode_tmp` on the stack.
`Attached` is what follows the record: cp frees the new file again when there is
nothing to copy or the source has fewer leaves than its size tells. `FreeLast` and
`ShrinkDone` are `free_amount_of_links()`, `FreeNext`, `FreeBit`, `ClearInode`
are `free_inode()` in the order of its writes. `Crash` is SIGINT.

History variables: `torn`, a kill hit a removal or a shortening; `rolled`, a
creation of links failed after it had created some. The properties say which
they need.

Not in `Links`: cp and incp when no inode is left (they go on with inode number
0), and records that lead to free inodes (see `Namespace`). A request for a link
in a directory is made for any inode in use of a type the command accepts.

### Namespace

A path is what it resolves to: the inode of its directory part and its last
name. `Walk` gives every inode a path can lead through, from the root or the
current directory, following records of any inode, as `get_inode_ids()` does.
`void` are the inodes with size 0, `err` is `my_errno`, `cwd` is
`inode_actual.id_inode`. Commands that write twice are two or three actions
(`StartMv`, `Unlink`; `StartMkdir`, `AddRecord`), between which a kill may come;
taking the inode, writing it and creating its blocks are one, as `Links` has
their order. `op.kept` are the records of the parent as the command read them,
for the case where the parent is a free inode and the child is made in it.

`Unusual` selects what happens in a run (`Kinds`): it is a restriction on users
and machine, not on the code. The names given are not empty and not "." or "..".

A new file of incp has two places (`NewFilePaths`): where its path is looked up
(`incp.c:82`) and where its record is written (`incp.c:114`). They differ for a bare
name, whose directory part is ".": the one is the current directory, the other what
the "." record there names, which is another directory after mv of a "." (`BareName`).

The second search of fsck does not look at the type of the inodes still marked
(`fsck.c:35-39`), so that the data of a lost file is read as records of 16 bytes. With
"data" among `Unusual` a lost file that is not empty names any set of inodes so (`Junk`),
which are taken off the list with what is below them (`MetBelow`), or it names an id
outside the table, which is written to an array and ends the process (`FsckMisreads`:
with plain text the id is four letters, far beyond both arrays; whether the process
dies there is not defined, the model takes it so). Without "data", the data of lost
files has zeros where a record has its name, as files of up to four bytes and files
that were made and not written to have.

Abstractions: apart from that, file data is no record, except records the program
itself wrote into that block before; a record of inode 0 is followed by nothing; in
fsck such a record writes outside an array and the model stops there (`FsckDefined`);
where `get_path_to_root()` reads a block that is not there, both outcomes are
possible; `errno` is left out, `my_errno` kept; names fsck draws at random are
distinct and none of the user's (`RescueAssumption`).

### Tree

The entries of the tree are the records in use; in the middle of mv the old record
does not count any more (`TreeEntries` in `MCNamespace`). So adding the record is
the step at which mkdir, incp, cp and mv take effect, and deleting it the one for
rm and rmdir; everything else a command writes stutters. `Move` is for files: the
code lets a directory be moved below itself, which no tree does.

### Stream

A byte is the pair of the host file it came from (`version`) and its position
there, so that bytes of different files differ; `Zero` is '\0', padding or, at one
position of a host file at most, a byte of it; `LinkByte` stands for the content of a
link block, which is written when it is made, while a leaf keeps what it held. A block
that is given back is cleared before its bit is turned on (`GivesBack`, `free_link_()`).
`links` of a file are its leaves and link blocks in the order they are taken, each
leaf after the link blocks above it, so `Leaf(f, x)` is the link at place
`TakenFor(0, x)`. `op.at` follows the commands: check, create or resize, record, copy
block by block, size.

Kills: `Kill` is SIGINT between two steps of a command; the other kills come inside of
one. `KilledGrowing`: some of the blocks `create_empty_links()` wants are taken in the
bitmap, and of those only leaves below a link block the file had before, which is
written on the way, are linked. `KilledFreeing` (in rm, in a cp that gives up, and in
`free_amount_of_links()`): some blocks are cleared and free, the last of them perhaps
not free yet, and the inode, which is written last, still links them.

History: `stored` is the content a file was last given completely, `begun` the host
files that were written to it at all, `torn` the files whose copying or freeing was
broken off, `half` those that may link blocks they do not own, and `mixed` says that
one of these was written to or copied. A file is `half` when a kill hit its freeing,
and when it has a block in common with a half file that is shortened, written over or
removed: from then on the block may be free, or hold the other's bytes. What a half
file leads to goes through the ordinary actions as if its links were still those it
had: link blocks that were cleared lead to fewer. This is more than the code reaches,
for freeing and for outcp. When a link block of it was taken by another file, whose
data is then read as links, it leads anywhere: such a file is not written over or
removed in the model (`Followable`).

### Layout, PromptPath and Session

`Layout` has no state: the arithmetic of `init_superblock()`, of the seeks and of
the size test, each assignment to a `uint32_t` cut by `Word`. It uses the real
sizes, so the sizes of filesystem in `Session` are real too.

`PromptPath` takes a name for its length. `room` is `size_remaining` and `start`
is `p_buffer - buffer`; one turn of the loop is a step.

`Session` keeps the file on the host as far as it matters: the size its
superblock tells, the bytes it has, whether inodes are where their ids say and
whether the root was written. `at` is the program's place: a part of format, the
prompt, the discarding of the rest of a line, the climb of cd, a script. `Launch` opens
the file format made or, when the path given leads to another directory, one it did
not make: format writes the base name of that path in the working directory
(`simulator.c:54,83,86`). `stale` is what the last but one byte of the static buffer says of a line that does not reach
it. A line is short, full or too long, and what a short one asks for is any
command. `torn` (no format was completed since one began, or another file is open)
and `moved` (mv, or fsck after corrupt, changed what is above the current directory)
are history.

## 3. Runs

| run | bounds | shows |
|---|---|---|
| `links_files` | 1 direct link, 2 links a block (capacity 7), 10 blocks, 2 inodes, no kill | no leak, sizes backed by links, space check sufficient, bitmap and types agree, every command ends |
| `links_crash` | the same inodes, 5 blocks, 3 inodes, 1 kill | linked blocks stay allocated, no block has two links, no hole, free inodes link nothing, refinement of `Allocation` |
| `links_rollback` | as small as the trace needs | see Findings |
| `namespace_tree` | 4 inodes, 2 names, blocks of 3 records, `MaxItems` 7, which gives two blocks a directory and meets the assumption of the theorems, nothing unusual | `TreeWhole`, `NoErrorLeft`, refinement of `Tree` |
| `namespace_mishaps` | 3 inodes, the names a and lost+found, 4 records, all kinds of `Unusual` but moving directories and dot records | types, `NamesUnique`, `NothingFallsOut` |
| `namespace_fsck` | 4 inodes, 1 name, 4 records, corrupt, moved directories and directories that do not exist | `FsckSaves` |
| `namespace_active`, `namespace_nothing`, `namespace_data` | as small as the trace needs | see Findings |
| `stream` | 1 direct link, 2 links a block, blocks of 2 bytes, 10 blocks, 2 files, 3 host files of 0, 3 or 7 bytes with or without a '\0' at the second, 1 kill | `AcceptedFits`, `ClosedForm` of the space check; `RoundTrip`, `CatAgrees`, `NothingForeign` |
| `session` | filesystems of 1, 4 and 8 MB, a prompt buffer of 7, directories up to three deep with names of 1 and 4 characters, 1 kill | `SeeksInside`, `FormatIsWhole`, `PromptIsCwd`, `CutExactly`, `AtMostTwoBefore` |
| `session_input` | no directories, no kill | see Findings |

Why the bounds are enough. One direct link and two links a block are the least
for which every loop of `create_empty_links()` and `free_amount_of_links()`
enters, repeats and stops inside, at and after a link block, on all three levels;
10 blocks, one of them the root's, let a file reach the second half of its double
indirect links and fail there with a link block taken and no block for its data,
or fail earlier against a growing root (a full inode needs 11 blocks beside the
root's). 3 inodes let a file be copied, and 5 blocks let two files and the root
fail against each other and a kill hit the direct and the single indirect links;
kills inside the double indirect links are left to the theorems, which state the
invariants of `links_crash` for every size. The bitmap search takes the first
free field, so which block is taken matters only through reuse, which happens at
these sizes.
In `Namespace` four inodes give a root, a directory in a directory and an item
in it, or a lost directory with a lost child besides lost+found; with three, an
item can be moved, lost, aliased and rescued; blocks of three records make a
directory grow at its second item and be full at its fifth, which three other
inodes under two names do reach with lost or double records but not past it. In
`stream` the sizes are none, one that needs the single and one that needs the double
indirect link, both with a last block filled in part; the first block is full and may
have a zero at its end. Three host files let one be stored over a longer and over a
shorter one, or be removed, with a kill in the middle, while another takes the blocks
that were freed. Two kills, or three files, were tried once and showed nothing else
(10 million states for three files). Full last blocks are left to the theorems. In `session` 1 MB
has one batch of inodes and a rest, 8 MB several; a buffer of 7 has paths of three
names that fit it with room, just, and not.

`links_crash` stops exploring where a kill hit a removal (`Untorn`), since its
properties say nothing after it; `namespace_mishaps` and `namespace_fsck` stop
where a record dangles or a path leads out of the tree (`Untangled`), and
`namespace_fsck` where more than one directory has been moved or one has and the
current directory is not the root (`UntangledOneMoved`), to stay small.

Deadlock is checked in all runs but `stream`, where a user may have used up the
bound on host files and removed them all.

**Fairness.** `FairSpec` of `Links` is weak fairness of `Work`, all the steps of
the command in progress. It says that a process that can take its next step does:
the program is single-threaded, waits for nothing inside a command, and kills are
bounded. No fairness is assumed of users (`Start`) or of kills.

**Properties worth a comment.**
`ExhaustionFindsNothing`: the check before cp and incp covers the link blocks, so
that a creation for an inode whose size tells its links fails at once or not at
all; this is what keeps the broken rollback out of reach in ordinary use.
`ImplementsAllocation`: whatever happens, a block passes from one inode to
another only by being free in between.
`NothingFallsOut`: adding before deleting in mv, and deleting the record before
freeing the inode in rm, are the right orders, kills included.
`FsckSaves`: what the second search of fsck takes off the list, in index order,
is just what lies below another lost inode, unless it read file data (`namespace_data`
shows what happens then).
`NamesUnique`: unless a "." was moved. After `mv . x` in /D, `mv /q /D/.` and `cd /D`,
`incp host a` looks for a in /D and writes the record to /q, which may have an a. The
run leaves moved dot records out, and the property says so.

`ImplementsTree`: seen from outside, every command of ordinary use is one step,
though it writes several times and may fail half way.
`NoErrorLeft`: `my_errno` is cleared by the loop only for some commands and by cp,
incp and mv at their end; this is enough in ordinary use, and is what keeps a
lookup that was to fail (is the name free?) from refusing the next cp.
`RoundTrip`, `CatAgrees`: in the middle of freeing, a kill leaves a file with links to
free blocks, and the next file takes them. The properties say that this other file is
right as long as the first is left alone; that it is not when the first is removed or
written over is in the model too, and excepted (`torn`).
`NothingForeign`: outcp goes by the size, which is written after the data, and cat by
the links; a file gives out only zeros and bytes that were stored in it, whatever was
broken off and tried again, since blocks are cleared when they are given back. The
mutant that does not clear them breaks it. Half freed files are excepted, and once
one of them was used again, nothing is claimed any more (`mixed`): its old size and
links may lead to what another file stored.
`SeeksInside`: after a format that failed the program must not go on with the
superblock of one file and the handle of another.

Every property has a mutant, a definition changed the way a plausible bug would
change it (marked "Faulty" in the modules), under which its run fails.

## 4. Findings

Shown by a run that TLC finds violated:

- `links_rollback`: `create_empty_links()` promises that the links are freed when
  not all could be made (`fs_links_op.c:438-440`); leaves below link blocks leak.
- `namespace_active`: "some inodes are still active == some inodes are lost"
  (`fsck.c:97`); the count goes down per record, an inode with two records hides
  a lost one.
- `namespace_nothing`: `create_inode_directory()` "Returns index number of new
  inode, or 'RETURN_FAILURE'" (`fs_inode_op.c:98`); it returns 0, mkdir goes on
  and writes a record of inode 0.
- `namespace_data`: when only the record is deleted "it is possible to retrieve it with
  command 'fsck'" (`rm.c:48-49`); fsck reads the data of the file as records (`fsck.c:35-39`,
  `fs_block_op.c:445-463`), and data that names the file's own id, or that of another
  lost inode, takes it off the list. The data of a text file names ids far outside the
  arrays, which are written to and read from.
- `session_input`: "prevent overflowing input, so it doesn't go to next cycle"
  (`simulator.c:30`); after one line that is too long every short line is answered
  "input too large" and the line after it is read away, until one happens to end at
  the byte that is tested.

Seen while modelling, in the models as the code does it, without a run of their
own: the space check refuses files that fit (`fs_common.c:90`, closed form
in `SpaceOps`); incp whose parent is missing leaves a file without record and
with size 0 (`incp.c:114`); fsck succeeds and leaves `my_errno` set, and so does a
failing command in a script, and the next cp or incp is refused (`cp.c:59`,
`load.c:69-83`); a copy of an empty file leaves a record of a free inode
(`cp.c:125-127`), and mv, which takes what is not a file for a directory
(`mv.c:64`), gives that inode a block and a record; fsck run from another directory makes a second lost+found
(`fsck.c:100`); a kill in a removal leaves an inode that links free blocks
(`fs_inode_op.c:22-24`); `handle_child_name()` starts a
path as long as the buffer two characters before it, and copies it without a
terminator; the ".." of a path that is cut may be one before (`fs_inode_utils.c:125-136`);
prompt and pwd go on telling the old path after a mv above the current directory
(`cd.c:17`), and after fsck moved such a directory; a format that was killed leaves a file the next start announces as
"loaded successfully" (`fs_common.c:26-30`), and with a superblock of zeros the
first incp divides by zero; a format with a bad argument makes the open filesystem
count as not formatted (`simulator.c:55`); after a kill in the middle of incp, cat
prints what the blocks held before (`fs_block_op.c:386-400`, it does not look at the
size); incp over a file does not look whether missing links could be created
(`incp.c:94`); a host file that shrinks between `stat()` and `fread()` leaves whole
blocks of older contents in a new file (`fs_block_op.c:334-337`); the file that
a kill in a removal left gets its record back from fsck, and removing it again frees and
clears blocks another file has by then (`fs_inode_op.c:18-27`); incp under a bare name
does not look for the name where it writes it when "." was moved (`incp.c:82`, `incp.c:114`);
cat leaves out what follows a zero byte in a block (`fs_block_op.c:396`).

One more is in the source and shown by no run. `reset_created_links()` hands
`free_links_array_()` the whole count at every position (`fs_links_op.c:256-264`), so that
from position `i` it goes `i` words past the direct links. The words of the inode itself
do no harm: a new direct link means that there was no indirect link before, so what
follows is new, or nothing (`FreedIsNew` in `LinksSafety`). What follows `inode_tmp` on the
stack may be taken for a block and freed; which word lies there the build decides.

## 5. Proofs

Proved by TLAPS, for every value of the constants that meets the assumptions
`SpaceAssumption`, `MaxEmptyAssumption`, `LinksAssumption`, `LengthAssumption`,
`SessionAssumption`, `NamespaceAssumption`, `NamesAssumption`, `RescueAssumption`,
`StreamAssumption`:

- `SpaceProofs`: `SpaceTypes`, `AcceptedAlwaysFits` and `LoopsComputeClosedForm`. The inductive invariant
  says, loop by loop, how many link blocks were charged and how many blocks are
  left to place; the one fact beyond arithmetic is that once the counter has
  wrapped it stays positive for the rest of the loops, so the charge is at least
  what is needed. It needs the assumption that the capacity is below the word
  size; with it a wrapped counter cannot come back to zero. The closed form needs
  the converse as well, what exactly is charged: the counter comes out at zero when
  the leaves fill whole link blocks and wraps once when they do not, after which all
  link blocks below the double indirect link are charged.
- `LinksSafety`: `LinksTypes`, with no further assumption. `TypeOK` alone is not inductive: that
  `disk[op.ino]` exists while links are created depends on where the command is.
  The strengthening `OpOK` says for each place which of `op.ino` and `op.child`
  may be 0 and what `tmp` holds there. `LinkedStaysAllocated`, `NeverLinkedTwice`, `NeverAHole` and
  `FreeInodesAreEmpty`, each under the assumption `StackWords = {}`: that the
  words behind `inode_tmp` name no block, without which nothing can be claimed. The properties do not hold of a step by
  themselves, as the process holds links the file does not have yet and a kill
  falls back to the file. The invariant `IInv` is about both. `Held` gives every
  inode the links in memory, if it is being worked on, else those in the file, and
  to holder 0 the block of a directory that got no inode; `Exclusive` says that
  what is held is off in the bitmap and held once, `NoHoles` that it is taken in
  slot order. `KillLeaves` says that during a creation the links in the file are
  among those in memory and have no hole either, and `FreeInodes` that an inode
  that is free in the bitmap or by its type holds nothing, so that one just taken
  starts empty. Two lemmas carry all steps: giving links back is safe if no bit of
  a link that stays is cleared (`FewerLinks`), taking a free block is safe
  (`OneMoreLink`). That links have no hole is what makes the rollback safe:
  `reset_created_links()` frees everything that follows a new direct link, and
  without holes all of it is new (`FreedIsNew`).
- `LinksRefines`, from the same `IInv` and assumption: `AllocationImplemented`,
  `NothingLeaks` and `InodeBitsInStep`. Every step of `Links` does one of three
  things to what is held (`Effect`): nothing, take one free block for one slot, or
  let go of links of one holder (`Keeps`, `Takes`, `GivesBack`); `HeldAre` turns
  each into a step of `Allocation` or a stutter. That nothing leaks needs the
  converse of `Exclusive`, that what is off in the bitmap is held, and is kept only
  until a kill or a `create_empty_links()` that fails part way; the invariant
  `Tidy` adds what a removal has cleared so far, and that of a directory that got
  no inode only link blocks are left over.
- `LinksSafety`, its second half, from `IInv`: `SizesAreBacked` and `SpaceCheckSuffices`. Leaves are
  numbered in the order they are created (`LeafSlot`), and links without holes use
  just the first of them, so that an inode with `n` leaves uses `Need(n)` slots, the
  closed form of `is_enough_space()`. `Budget` says that what a creation still
  wants is covered by the slots it has and the blocks that are free, `Backed` that
  the size on disk, and the counters of the command at work, are at most the
  leaves there are, but for an inode whose blocks are being freed.
- `StreamProofs`: `StreamTypes`, `RoundTripHolds`, `CatAgreesHolds`,
  `NothingForeignHolds`, and `AcceptedInUse` and `ClosedFormInUse`, the theorems of `SpaceProofs` for the calls
  that incp and cp make. The invariant `IInv` says what each block holds against
  what each file should. `DiskOK`: the links of the files that are not half freed are
  different blocks, none of them free, and as many as the leaves need; so a write to a
  leaf changes nothing else (`LeafOnce`, `PutKeeps`), and growing and giving back keep the
  leaves that stay (`GrowKeeps`, `FreesKeeps`). A half freed file may link what others
  have: it harms nobody until it is used, and the files it then shares blocks with
  become half freed too (`NotSharing`); `Apart` says that what a command works on is
  nobody else's. `WholeOK`: a file whose copying was not broken off has just the leaves
  its size tells, and each holds its block of the content that was stored, padded.
  `OwnOK`: free blocks are cleared, and every leaf of a file that is not half freed holds
  zeros or bytes of host files that were written to this file, until a half freed one is
  used again. The kills inside of growing and freeing are steps like the others
  (`KilledGrowingKeeps`, `KilledFreeingKeeps`). `StoreOK`, `CopyOK` and `OutOK` say how far the command has
  got: a copy by cp has the leaves its source's size tells, the blocks before `k` are
  copied, and what outcp has written is the content up to `(k - 1)` blocks. In-place
  incp leaves the last, partial block for a write of its own, so `CopyOK` claims
  a block only when the host file fills it. The arithmetic is that a block count is
  the least number of blocks that hold the size (`CountBlocksIs`), and that a place in
  the links grows with the leaf (`Positions`, which needs that more leaves never need
  fewer link blocks); first fit finds different free blocks as long as there are
  enough (`FirstFitIs`). What cat prints is the blocks of `WholeOK` up to their zeros,
  joined one by one (`PrintedIs`, `FlattenIs`), which is the content when no byte of it is
  zero.
- `SessionProofs`, about `Layout` and each of the 4095 sizes format accepts:
  `EverySeekInside` (no address overflows, the parts follow each other and no seek
  for an index or an id leaves its part), `AcceptedIsLinkable` (what the size test
  lets through has blocks and links; the order of its two tests is needed, as the
  product of the second may be cut off otherwise), `AvailableIsFree` (df). The
  argument is `BlockCntBounds`, 95 percent of the file, and that 1066 bytes for each
  block fit below 2^32.
- `SessionProofs`: `SessionTypes`, `SeeksStayInside`, `FormatWritesAll`,
  `PromptTellsCwd`, `PointerAlmostInside` and `PathCutWhenLong`, all from `SessionSafe`. The
  invariant says for each part of format how many bytes are written by turn `i`
  (batches add up, with the remainder last), that the cached superblock is the one
  in the file unless a format has begun, and that outside of cd the locals of
  `get_path_to_root()` are at rest; during the climb, that `start` is `room - 2`,
  and that `room` stays positive as long as names are left to write. The length of the
  whole path is a recursive function over the names; what is written and what is
  left add up to it.
- `NamespaceProofs`: `RecordTypes` and `UserNamesUnique`, from `RecordsSafe`, the first with
  every kind of unusual event allowed, the second with all but moving a dot record. `NamesUnique` does not hold of a step by
  itself: the name is looked for when a command starts and written later, in the
  records the command holds, which are those of the file or, when the child was
  made in the parent's own inode, those it read before (`ParentDir`). The invariant
  says that a command about to add a record has not its name there. That incp looks the
  name up in the current directory and writes it to what "." names there is right only
  because these are the same, which is an invariant of its own (`DotsOwn`: as long as no
  dot record is moved, the record "." of a directory names itself, and nothing else has
  one). The lemmas
  are about one directory: writing, adding, deleting, growing and prepending
  records keep names unique (`WrittenKeeps`, `AppendedKeeps`, `PrependedKeeps`).
  That the first record found is one that was looked for (`MinIsLeast`) comes from
  the well-foundedness of the natural numbers. `RescueAssumption`, that fsck draws
  no name of the user's, is needed: fsck does not look for its names.
- `NamespaceTree`: `TreeStaysWhole`, `NoErrorStays`, `TreeImplemented`,
  `FsckSavesAll` and `NothingFalls`. The first three are about ordinary use
  (`Unusual = {}`). The invariant `Whole` describes the records during a command
  too. Directories have their "." and ".." first and nothing but directories has
  records (`Directories`); a record names an item in use, and a directory it names
  names the holder back (`RecordsKnown`); no item has two records but the one mv is
  moving (`Once`); and every item hangs below the root (`Rooted`),
  which is said without a search, so that it can be kept step by step: any set that
  holds what the root's records name and, with a directory, what its records name,
  holds all items but the one being made or freed. The searches of the code are
  compared with it afterwards. `Seen` is the least such set, because a chain of
  growing sets of inodes stops within `InodeCount` steps (`SearchSteps`);
  `Meetings` is at least its size, as a sum over a union is (`MeetingsBound`), so
  that fsck finds nothing active and creates no lost+found; and `ClimbSucceeds`
  leads from a directory by its ".." to the root, so that cd leaves no error.
  `StepIsWhole` also says which of five things a step does to the records
  (`Quiet`, `Creates`, `Removes`, `Moves`, `Unlinks`), and each is a step of `Tree`
  or none.

  `FsckSavesAll` is about any use in which the data of lost files reads as no records,
  and is not from `Whole`. What fsck decides to save
  is worked out inode by inode (`LostSteps`): one that is below a lost inode is taken
  off, so each that is left over has no record (`LostIsUnnamed`, since what holds the
  record would be lost itself, and would have taken it off) and everything marked is
  one of them or below one (`LostCovers`). A directory that is made for lost+found is
  in the tree then (`LostFoundIsSeen`) and nothing leaves the tree by it
  (`SeenGrows`). It needs that an inode free in the bitmap is unused in the table
  (`FreeIsUnused`). Proving it showed which premises count: that an inode has
  at most one record does not, but the root must be a directory, as after corrupt
  the removal of a moved directory may free the root.

  `NothingFalls` is about any use but moved directories and dot records, kills
  included. An inode is in the tree when it is in the least set that holds what the
  root's records name and, with a directory, what its records name
  (`SeenIs`); so a step that keeps the type and the records of every directory in the
  tree, but for records of one inode x that has none itself, takes at most x out of it
  (`SeenKeptBut`), and most steps only add (`GainsKeepAll`). For rm and rmdir x is
  what they remove. For the second half of mv it is what was moved, and the invariant
  `HalfDone` says that this has another record, written before, in a directory that
  paths lead through (`Walked`): those are a least closed set too (`PathsAre`), which
  grows when records are added (`PathsGrow`). It needs that no name the user gives is "." or ".."
  (`NamesAssumption`), since mv would write to a directory that lost its ".." record one
  that fsck does not follow. What fsck reads in the data of lost files only makes it save
  less, so that kind of event is allowed too. And the proof showed that the property must
  say that what is being made is not in the tree: a record that dangled to a free inode
  may hold the inode in the tree when it is taken for a new directory, whose old
  blocks past the first are kept, and go with it when the command fails.

  The theorems about ordinary use assume `MaxItems >= InodeCount + DirItems`: a
  directory has room for a record of every inode. Without it the tree is not kept
  whole. incp
  makes the file before it looks for a place for its record, and when the parent is
  full calls `free_inode_directory()`, which refuses a file, so that a file without a
  record is left. In the build's sizes the assumption holds: the 5 + 256 + 65536 data
  blocks of a directory have 64 records each, 4211008, and the largest filesystem,
  of 4095 MB, has one inode for each of its blocks of 1024 bytes, which are fewer
  than 95 percent of 4193280. `NamesAssumption` says further that no name the
  user gives is empty, which `basename()` in `split_path()` guarantees, or "." or "..",
  which a path may end in: a new name they are only in what is no directory any more,
  or in one whose dot record was moved.

The induction theorems of the library take operators, which the provers cannot
instantiate. `Numbers` states induction with a set instead (`SetInduction`: a set of
numbers that has 0 and, with a number, the next) and recursion with functions
(`Recursion`), both from the well-foundedness of the natural numbers; searches,
climbs and sums are proved about with these.

Only model-checked: liveness (`CommandsEnd`), out of the prover's reach.

## 6. Not modelled

- cp and incp when no inode is left: `create_inode_file()` returns 0, which is not
  the failure they test for, and they go on with an inode struct that was not read
  and an id of 0, whose place is beyond the end of the file.
- Searches of fsck that meet a record of inode 0: they write before an array. Ids
  outside the table, in the data of lost files, are taken to end the process.
- New items called "." or "..", possible only where such a record is missing.
- The words behind `inode_tmp` on the stack (`StackWords` is empty wherever something is
  claimed).
- In `Stream`: half freed files whose link blocks hold another file's data by now, when
  they are written over or removed (`Followable`); growing a file a kill left behind when
  there are too few blocks (`MayStoreIn`; `Links` has that failure); a kill between the
  bit of an inode and the inode itself, the last two writes of a removal, which is not
  told from one before them; and blocks of directories, which take part in `Links`.
- Which text the prompt shows when a name cannot be found ("unknown_path").
- What is printed: ls, info, debug, df beyond its sums, help, the texts of errors;
  the logger. None of it is state.
- The words of a line, and the names in a path: a path is what it resolves to, and
  arguments longer than their buffers do not occur.
- `errno`, which `is_error()` looks at besides `my_errno`.
- Writes that fail on the host (a full disk), and `malloc()` returning nothing.
- Host files that change while they are copied.

## 7. Plan

Done: the components with their own logic are modelled, each in a module with its
runs; two abstract specifications with refinements, both proved; the safety of
space check, links, contents, layout, session and of the tree of names proved. Left:

1. cp and incp with no inode left, which needs an inode 0 with links of its own in
   `Links`.
2. The last two writes of a removal as steps of their own in `Stream`, and half freed
   files whose link blocks another file has overwritten.
